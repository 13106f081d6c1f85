---------------------------- MODULE RemoteProofs -----------------------------
(***************************************************************************)
(* Remote for every mixer and every number of inputs, keys and messages:   *)
(* types, the flags, the timer and the volume. Two conjuncts are added to  *)
(* what is proved: what has become of a command at each of its steps       *)
(* (CommandOK) and of a gesture while main acts on it (GestureOK).         *)
(***************************************************************************)
EXTENDS Remote, VolumeProofs

CommandOK ==
  ~crossed =>
    /\ at = "half" => doing = "stop" /\ ~start
    /\ at = "write" => \/ doing = "start" /\ ~suspend
                       \/ doing = "stop" /\ ~start /\ ~suspend
                       \/ doing = "suspend" /\ start /\ ~paused
                       \/ doing = "continue" /\ start /\ paused
                       \/ doing = "skip" /\ start
    /\ at = "flag" => start /\ doing # "none" /\ paused = (doing = "suspend")
GestureOK ==
  /\ then = "long" => state # "FIRST_RELEASE"
  /\ at \notin {"half", "write", "flag"} => then = "none"
  /\ at = "disarm" => state = "IDLE"
RemoteInv == TypeOK /\ FlagIsTrue /\ TimerHasGesture /\ CommandOK /\ GestureOK

-----------------------------------------------------------------------------
(* The volume never leaves the mixer's range, and moves as it is told.     *)
LEMMA TurnsStayInRange ==
  ASSUME NEW r \in minv..maxv
  PROVE  /\ UpVolume(r) \in minv..maxv /\ UpVolume(r) >= r
         /\ DownVolume(r) \in minv..maxv /\ DownVolume(r) <= r
         /\ GetVolume(r) < 90 => UpVolume(r) > r
         /\ GetVolume(r) > 10 => DownVolume(r) < r
<1>1. GetVolume(r) \in Nat /\ minv \in Int /\ maxv \in Int
  BY Rounded, RangeAssumption
<1>2. CASE GetVolume(r) < 90 /\ GetVolume(r) > 10
  BY <1>1, <1>2, UpIsLouder, DownIsSofter
<1>3. CASE ~(GetVolume(r) < 90)
  <2>1. UpVolume(r) = r
    BY <1>1, <1>3 DEF UpVolume
  <2>2. DownVolume(r) \in minv..maxv /\ DownVolume(r) < r
    BY <1>1, <1>3, DownIsSofter
  <2> QED
    BY <1>1, <1>3, <2>1, <2>2
<1>4. CASE ~(GetVolume(r) > 10)
  <2>1. DownVolume(r) = r
    BY <1>1, <1>4 DEF DownVolume
  <2>2. UpVolume(r) \in minv..maxv /\ UpVolume(r) > r
    BY <1>1, <1>4, UpIsLouder
  <2> QED
    BY <1>1, <1>4, <2>1, <2>2
<1> QED
  BY <1>2, <1>3, <1>4

(* The volume main begins with is one the mixer has.                       *)
LEMMA DefaultVolume == SetVolume(80) \in minv..maxv
<1>1. Range \in Nat /\ Range > 10 /\ maxv = minv + Range /\ minv \in Int
  BY RangeAssumption DEF Range
<1>2. 80 * Range \in Nat /\ 80 * Range < 100 * Range
  BY <1>1
<1>3. (80 * Range) \div 100 \in Nat /\ (80 * Range) \div 100 < Range
  BY <1>1, <1>2, Hundredth
<1> QED
  BY <1>1, <1>3 DEF SetVolume

-----------------------------------------------------------------------------
(* What goes into and comes out of a wire.                                 *)
LEMMA Wire ==
  ASSUME NEW S, NEW s \in Seq(S)
  PROVE  /\ \A m \in S : Append(s, m) \in Seq(S) /\ Len(Append(s, m)) = Len(s) + 1
         /\ s # <<>> => Head(s) \in S /\ Tail(s) \in Seq(S) /\ Len(Tail(s)) = Len(s) - 1
         /\ Len(s) \in Nat /\ (Len(s) > 0 => s # <<>>)
OBVIOUS

(* A message joins those on their way to the window.                       *)
LEMMA Relayed ==
  ASSUME WireType, NEW m \in AppMessages, FromSpeaker(m) \/ ToApp(m)
  PROVE  toApp' \in Seq(AppMessages) /\ ready' \in 0..Len(toApp')
<1>1. /\ toApp \in Seq(AppMessages) /\ ready \in 0..Len(toApp) /\ Len(toApp) \in Nat
      /\ Append(toApp, m) \in Seq(AppMessages) /\ Len(Append(toApp, m)) = Len(toApp) + 1
  BY Wire DEF WireType
<1>2. CASE ToApp(m)
  BY <1>1, <1>2 DEF ToApp
<1>3. CASE toApp' = toApp /\ ready' = ready
  BY <1>1, <1>3
<1> QED
  BY <1>2, <1>3 DEF FromSpeaker

(* Every step keeps the types.                                             *)
LEMMA TypeStep == TypeOK /\ [Next]_vars => TypeOK'
<1> SUFFICES ASSUME TypeOK, [Next]_vars PROVE TypeOK'
  OBVIOUS
<1>1. CASE StopHalf
  <2>1. PlayerType'
    BY <1>1 DEF TypeOK, StopHalf, Orders, PlayerType, player, mainVars
  <2>2. ButtonType'
    BY <1>1 DEF TypeOK, StopHalf, ButtonType, button, hand
  <2>3. WireType'
    BY <1>1 DEF TypeOK, StopHalf, WireType, wires
  <2>4. WindowType'
    BY <1>1 DEF TypeOK, StopHalf, WindowType, app, timers, face
  <2>5. (raw \in minv..maxv)'
    BY <1>1 DEF TypeOK, StopHalf
  <2>6. (inputs \in 0..MaxInputs)'
    BY <1>1, BoundsAssumption DEF TypeOK, StopHalf
  <2> QED
    BY <2>1, <2>2, <2>3, <2>4, <2>5, <2>6 DEF TypeOK
<1>2. CASE Write
  <2>1. PlayerType'
    BY <1>2 DEF TypeOK, Write, Return, Orders, PlayerType, player, mainVars
  <2>2. ButtonType'
    BY <1>2 DEF TypeOK, Write, Return, ButtonType, button, hand
  <2>3. WireType'
    BY <1>2 DEF TypeOK, Write, WireType, wires
  <2>4. WindowType'
    BY <1>2 DEF TypeOK, Write, WindowType, app, timers, face
  <2>5. (raw \in minv..maxv)'
    BY <1>2 DEF TypeOK, Write
  <2>6. (inputs \in 0..MaxInputs)'
    BY <1>2, BoundsAssumption DEF TypeOK, Write
  <2> QED
    BY <2>1, <2>2, <2>3, <2>4, <2>5, <2>6 DEF TypeOK
<1>3. CASE SetFlag
  <2>1. PlayerType'
    BY <1>3 DEF TypeOK, SetFlag, Flag, Return, Orders, PlayerType, player, mainVars
  <2>2. ButtonType'
    BY <1>3 DEF TypeOK, SetFlag, Flag, Return, ButtonType, button, hand
  <2>3. WireType'
    BY <1>3 DEF TypeOK, SetFlag, WireType, wires
  <2>4. WindowType'
    BY <1>3 DEF TypeOK, SetFlag, WindowType, app, timers, face
  <2>5. (raw \in minv..maxv)'
    BY <1>3 DEF TypeOK, SetFlag
  <2>6. (inputs \in 0..MaxInputs)'
    BY <1>3, BoundsAssumption DEF TypeOK, SetFlag
  <2> QED
    BY <2>1, <2>2, <2>3, <2>4, <2>5, <2>6 DEF TypeOK
<1>4. CASE ReadSocket
  <2>1. PlayerType'
    BY <1>4 DEF TypeOK, ReadSocket, Begin, Return, Ignores, Orders, PlayerType, player, mainVars
  <2>2. ButtonType'
    BY <1>4 DEF TypeOK, ReadSocket, Begin, Return, Ignores, ButtonType, button, hand
  <2>3. WireType'
    <3>1. toSpeaker' = Tail(toSpeaker) /\ toSpeaker # <<>> /\ UNCHANGED <<toApp, ready, seen>>
      BY <1>4 DEF ReadSocket
    <3>2. Tail(toSpeaker) \in Seq(SpeakerMessages)
      BY <3>1, Wire DEF TypeOK, WireType
    <3> QED
      BY <3>1, <3>2 DEF TypeOK, WireType
  <2>4. WindowType'
    BY <1>4 DEF TypeOK, ReadSocket, WindowType, app, timers, face
  <2>5. (raw \in minv..maxv)'
    BY <1>4, TurnsStayInRange DEF TypeOK, ReadSocket, Begin, Return, Ignores
  <2>6. (inputs \in 0..MaxInputs)'
    BY <1>4, BoundsAssumption DEF TypeOK, ReadSocket
  <2> QED
    BY <2>1, <2>2, <2>3, <2>4, <2>5, <2>6 DEF TypeOK
<1>5. CASE SendMusicInfo
  <2>1. PlayerType'
    BY <1>5 DEF TypeOK, SendMusicInfo, FromSpeaker, ToApp, Orders, PlayerType, player, mainVars
  <2>2. ButtonType'
    BY <1>5 DEF TypeOK, SendMusicInfo, ButtonType, button, hand
  <2>3. WireType'
    <3>1. at \in AppMessages /\ FromSpeaker(at) /\ UNCHANGED seen
      BY <1>5 DEF SendMusicInfo, AppMessages
    <3>2. toApp' \in Seq(AppMessages) /\ ready' \in 0..Len(toApp')
      BY <3>1, Relayed DEF TypeOK
    <3>3. toSpeaker' \in {toSpeaker, Append(toSpeaker, "offline")}
      BY <1>5 DEF SendMusicInfo
    <3>4. "offline" \in SpeakerMessages /\ toSpeaker \in Seq(SpeakerMessages)
      BY DEF SpeakerMessages, TypeOK, WireType
    <3>5. Append(toSpeaker, "offline") \in Seq(SpeakerMessages)
      BY <3>4, Wire
    <3> QED
      BY <3>1, <3>2, <3>3, <3>4, <3>5 DEF TypeOK, WireType
  <2>4. WindowType'
    BY <1>5 DEF TypeOK, SendMusicInfo, WindowType, app, timers, face
  <2>5. (raw \in minv..maxv)'
    BY <1>5 DEF TypeOK, SendMusicInfo
  <2>6. (inputs \in 0..MaxInputs)'
    BY <1>5, BoundsAssumption DEF TypeOK, SendMusicInfo
  <2> QED
    BY <2>1, <2>2, <2>3, <2>4, <2>5, <2>6 DEF TypeOK
<1>6. CASE ReadButton
  <2>1. PlayerType'
    BY <1>6 DEF TypeOK, ReadButton, Begin, Return, Ignores, Orders, PlayerType, player, mainVars
  <2>2. ButtonType'
    <3>1. keys # <<>> /\ keys' = Tail(keys) /\ UNCHANGED finger
      BY <1>6 DEF ReadButton
    <3>2. keys' \in Seq(BOOLEAN)
      BY <3>1, Wire DEF TypeOK, ButtonType
    <3>3. state' \in {"IDLE", "FIRST_PRESS", "FIRST_RELEASE"}
      BY <1>6 DEF TypeOK, ButtonType, ReadButton, Begin, Return, button
    <3>4. timer' \in BOOLEAN
      BY <1>6 DEF TypeOK, ButtonType, ReadButton, button
    <3> QED
      BY <3>1, <3>2, <3>3, <3>4 DEF TypeOK, ButtonType
  <2>3. WireType'
    BY <1>6 DEF TypeOK, ReadButton, WireType, wires
  <2>4. WindowType'
    BY <1>6 DEF TypeOK, ReadButton, WindowType, app, timers, face
  <2>5. (raw \in minv..maxv)'
    BY <1>6 DEF TypeOK, ReadButton
  <2>6. (inputs \in 0..MaxInputs)'
    BY <1>6, BoundsAssumption DEF TypeOK, ReadButton
  <2> QED
    BY <2>1, <2>2, <2>3, <2>4, <2>5, <2>6 DEF TypeOK
<1>7. CASE Disarm
  <2>1. PlayerType'
    BY <1>7 DEF TypeOK, Disarm, StopTimer, Orders, PlayerType, player, mainVars
  <2>2. ButtonType'
    BY <1>7 DEF TypeOK, Disarm, StopTimer, ButtonType, button, hand
  <2>3. WireType'
    BY <1>7 DEF TypeOK, Disarm, WireType, wires
  <2>4. WindowType'
    BY <1>7 DEF TypeOK, Disarm, WindowType, app, timers, face
  <2>5. (raw \in minv..maxv)'
    BY <1>7 DEF TypeOK, Disarm
  <2>6. (inputs \in 0..MaxInputs)'
    BY <1>7, BoundsAssumption DEF TypeOK, Disarm
  <2> QED
    BY <2>1, <2>2, <2>3, <2>4, <2>5, <2>6 DEF TypeOK
<1>8. CASE Handle
  <2>1. PlayerType'
    BY <1>8 DEF TypeOK, Handle, Orders, PlayerType, player, mainVars
  <2>2. ButtonType'
    BY <1>8 DEF TypeOK, Handle, ButtonType, button, hand
  <2>3. WireType'
    BY <1>8 DEF TypeOK, Handle, WireType, wires
  <2>4. WindowType'
    BY <1>8 DEF TypeOK, Handle, WindowType, app, timers, face
  <2>5. (raw \in minv..maxv)'
    BY <1>8 DEF TypeOK, Handle
  <2>6. (inputs \in 0..MaxInputs)'
    BY <1>8, BoundsAssumption DEF TypeOK, Handle
  <2> QED
    BY <2>1, <2>2, <2>3, <2>4, <2>5, <2>6 DEF TypeOK
<1>9. CASE SendServer
  <2>1. PlayerType'
    BY <1>9 DEF TypeOK, SendServer, Orders, PlayerType, player, mainVars
  <2>2. ButtonType'
    BY <1>9 DEF TypeOK, SendServer, ButtonType, button, hand
  <2>3. WireType'
    <3>1. CASE Look /\ UNCHANGED <<toApp, ready>>
      BY <1>9, <3>1 DEF TypeOK, WireType, SendServer, Look, Statuses
    <3>2. CASE seen \in Statuses /\ FromSpeaker(seen) /\ seen' = "first"
      <4>1. toApp' \in Seq(AppMessages) /\ ready' \in 0..Len(toApp')
        BY <3>2, Relayed DEF TypeOK, AppMessages
      <4> QED
        BY <1>9, <3>2, <4>1 DEF TypeOK, WireType, SendServer
    <3> QED
      BY <1>9, <3>1, <3>2 DEF SendServer
  <2>4. WindowType'
    BY <1>9 DEF TypeOK, SendServer, WindowType, app, timers, face
  <2>5. (raw \in minv..maxv)'
    BY <1>9 DEF TypeOK, SendServer
  <2>6. (inputs \in 0..MaxInputs)'
    BY <1>9, BoundsAssumption DEF TypeOK, SendServer
  <2> QED
    BY <2>1, <2>2, <2>3, <2>4, <2>5, <2>6 DEF TypeOK
<1>10. CASE ReadStdIO
  <2>1. PlayerType'
    BY <1>10 DEF TypeOK, ReadStdIO, Input, Begin, Return, Ignores, Orders, PlayerType, player, mainVars
  <2>2. ButtonType'
    BY <1>10 DEF TypeOK, ReadStdIO, Input, Begin, Return, Ignores, ButtonType, button, hand
  <2>3. WireType'
    BY <1>10 DEF TypeOK, ReadStdIO, WireType, wires
  <2>4. WindowType'
    BY <1>10 DEF TypeOK, ReadStdIO, WindowType, app, timers, face
  <2>5. (raw \in minv..maxv)'
    BY <1>10, TurnsStayInRange DEF TypeOK, ReadStdIO, Input, Begin, Return, Ignores
  <2>6. (inputs \in 0..MaxInputs)'
    BY <1>10, BoundsAssumption DEF TypeOK, ReadStdIO, Input, Begin, Return, Ignores
  <2> QED
    BY <2>1, <2>2, <2>3, <2>4, <2>5, <2>6 DEF TypeOK
<1>11. CASE Press
  <2>1. PlayerType'
    BY <1>11 DEF TypeOK, Press, Orders, PlayerType, player, mainVars
  <2>2. ButtonType'
    BY <1>11 DEF TypeOK, Press, Input, ButtonType, button, hand
  <2>3. WireType'
    BY <1>11 DEF TypeOK, Press, WireType, wires
  <2>4. WindowType'
    BY <1>11 DEF TypeOK, Press, WindowType, app, timers, face
  <2>5. (raw \in minv..maxv)'
    BY <1>11 DEF TypeOK, Press
  <2>6. (inputs \in 0..MaxInputs)'
    BY <1>11, BoundsAssumption DEF TypeOK, Press, Input
  <2> QED
    BY <2>1, <2>2, <2>3, <2>4, <2>5, <2>6 DEF TypeOK
<1>12. CASE Release
  <2>1. PlayerType'
    BY <1>12 DEF TypeOK, Release, Orders, PlayerType, player, mainVars
  <2>2. ButtonType'
    <3>1. keys' = Append(keys, FALSE) /\ finger' = FALSE /\ UNCHANGED <<state, timer>>
      BY <1>12 DEF Release, button
    <3>2. keys' \in Seq(BOOLEAN)
      BY <3>1, Wire DEF TypeOK, ButtonType
    <3> QED
      BY <3>1, <3>2 DEF TypeOK, ButtonType
  <2>3. WireType'
    BY <1>12 DEF TypeOK, Release, WireType, wires
  <2>4. WindowType'
    BY <1>12 DEF TypeOK, Release, WindowType, app, timers, face
  <2>5. (raw \in minv..maxv)'
    BY <1>12 DEF TypeOK, Release
  <2>6. (inputs \in 0..MaxInputs)'
    BY <1>12, BoundsAssumption DEF TypeOK, Release
  <2> QED
    BY <2>1, <2>2, <2>3, <2>4, <2>5, <2>6 DEF TypeOK
<1>13. CASE Click
  <2>1. PlayerType'
    BY <1>13 DEF TypeOK, Click, Orders, PlayerType, player, mainVars
  <2>2. ButtonType'
    BY <1>13 DEF TypeOK, Click, ButtonType, button, hand
  <2>3. WireType'
    <3>1. PICK what \in {PauseButton, "skip", "up", "down"} :
             \/ attached /\ toSpeaker' = Append(toSpeaker, what) /\ UNCHANGED <<toApp, ready>>
             \/ ~attached /\ ToApp("reply") /\ UNCHANGED toSpeaker
      BY <1>13 DEF Click
    <3>2. what \in SpeakerMessages /\ "reply" \in AppMessages
      BY DEF PauseButton, SpeakerMessages, AppMessages, Orders
    <3>3. toSpeaker \in Seq(SpeakerMessages) /\ Append(toSpeaker, what) \in Seq(SpeakerMessages)
      BY <3>2, Wire DEF TypeOK, WireType
    <3>4. toApp' \in Seq(AppMessages) /\ ready' \in 0..Len(toApp')
      BY <3>1, <3>2, Relayed DEF TypeOK, WireType
    <3>5. seen' = seen
      BY <1>13 DEF Click
    <3> QED
      BY <3>1, <3>3, <3>4, <3>5 DEF TypeOK, WireType
  <2>4. WindowType'
    BY <1>13 DEF TypeOK, Click, WindowType, app, timers, face
  <2>5. (raw \in minv..maxv)'
    BY <1>13 DEF TypeOK, Click
  <2>6. (inputs \in 0..MaxInputs)'
    BY <1>13, BoundsAssumption DEF TypeOK, Click, Input, PauseButton, ToApp
  <2> QED
    BY <2>1, <2>2, <2>3, <2>4, <2>5, <2>6 DEF TypeOK
<1>14. CASE CloseEvent
  <2>1. PlayerType'
    BY <1>14 DEF TypeOK, CloseEvent, Orders, PlayerType, player, mainVars
  <2>2. ButtonType'
    BY <1>14 DEF TypeOK, CloseEvent, ButtonType, button, hand
  <2>3. WireType'
    <3>1. <<>> \in Seq(AppMessages) /\ Len(<<>>) = 0
      OBVIOUS
    <3>2. toApp' = <<>> /\ ready' = 0 /\ UNCHANGED <<toSpeaker, seen>>
      BY <1>14 DEF CloseEvent
    <3>3. (ready \in 0..Len(toApp))'
      BY <3>1, <3>2
    <3> QED
      BY <3>1, <3>2, <3>3 DEF TypeOK, WireType
  <2>4. WindowType'
    BY <1>14 DEF TypeOK, CloseEvent, WindowType, app, timers, face
  <2>5. (raw \in minv..maxv)'
    BY <1>14 DEF TypeOK, CloseEvent
  <2>6. (inputs \in 0..MaxInputs)'
    BY <1>14, BoundsAssumption DEF TypeOK, CloseEvent
  <2> QED
    BY <2>1, <2>2, <2>3, <2>4, <2>5, <2>6 DEF TypeOK
<1>15. CASE HandleTimerInfo
  <2>1. PlayerType'
    BY <1>15 DEF TypeOK, HandleTimerInfo, Orders, PlayerType, player, mainVars
  <2>2. ButtonType'
    BY <1>15 DEF TypeOK, HandleTimerInfo, ButtonType, button, hand
  <2>3. WireType'
    BY <1>15 DEF TypeOK, HandleTimerInfo, WireType, wires
  <2>4. WindowType'
    BY <1>15 DEF TypeOK, HandleTimerInfo, WindowType, app, timers, face
  <2>5. (raw \in minv..maxv)'
    BY <1>15 DEF TypeOK, HandleTimerInfo
  <2>6. (inputs \in 0..MaxInputs)'
    BY <1>15, BoundsAssumption DEF TypeOK, HandleTimerInfo
  <2> QED
    BY <2>1, <2>2, <2>3, <2>4, <2>5, <2>6 DEF TypeOK
<1>16. CASE HandleTimerGetMusiclist
  <2>1. PlayerType'
    BY <1>16 DEF TypeOK, HandleTimerGetMusiclist, Orders, PlayerType, player, mainVars
  <2>2. ButtonType'
    BY <1>16 DEF TypeOK, HandleTimerGetMusiclist, ButtonType, button, hand
  <2>3. WireType'
    <3>1. toSpeaker' \in {toSpeaker, Append(toSpeaker, "capture")} /\ UNCHANGED <<toApp, ready, seen>>
      BY <1>16 DEF HandleTimerGetMusiclist
    <3>2. "capture" \in SpeakerMessages /\ toSpeaker \in Seq(SpeakerMessages)
      BY DEF SpeakerMessages, TypeOK, WireType
    <3>3. Append(toSpeaker, "capture") \in Seq(SpeakerMessages)
      BY <3>2, Wire
    <3> QED
      BY <3>1, <3>2, <3>3 DEF TypeOK, WireType
  <2>4. WindowType'
    BY <1>16 DEF TypeOK, HandleTimerGetMusiclist, WindowType, app, timers, face
  <2>5. (raw \in minv..maxv)'
    BY <1>16 DEF TypeOK, HandleTimerGetMusiclist
  <2>6. (inputs \in 0..MaxInputs)'
    BY <1>16, BoundsAssumption DEF TypeOK, HandleTimerGetMusiclist
  <2> QED
    BY <2>1, <2>2, <2>3, <2>4, <2>5, <2>6 DEF TypeOK
<1>17. CASE ReciveReply
  <2>1. PlayerType'
    BY <1>17 DEF TypeOK, ReciveReply, Orders, PlayerType, player, mainVars
  <2>2. ButtonType'
    BY <1>17 DEF TypeOK, ReciveReply, ButtonType, button, hand
  <2>3. WireType'
    <3>1. ready > 0 /\ ready' = ready - 1 /\ toApp' = Tail(toApp) /\ UNCHANGED <<toSpeaker, seen>>
      BY <1>17 DEF ReciveReply
    <3>2. toApp \in Seq(AppMessages) /\ ready \in 0..Len(toApp) /\ Len(toApp) \in Nat
      BY Wire DEF TypeOK, WireType
    <3>3. Tail(toApp) \in Seq(AppMessages) /\ Len(Tail(toApp)) = Len(toApp) - 1
      BY <3>1, <3>2, Wire
    <3>4. (ready \in 0..Len(toApp))'
      BY <3>1, <3>2, <3>3
    <3> QED
      BY <3>1, <3>2, <3>3, <3>4 DEF TypeOK, WireType
  <2>4. WindowType'
    BY <1>17 DEF TypeOK, ReciveReply, HandleInfo, HandleUpload, WindowType, app, timers, face
  <2>5. (raw \in minv..maxv)'
    BY <1>17 DEF TypeOK, ReciveReply
  <2>6. (inputs \in 0..MaxInputs)'
    BY <1>17, BoundsAssumption DEF TypeOK, ReciveReply
  <2> QED
    BY <2>1, <2>2, <2>3, <2>4, <2>5, <2>6 DEF TypeOK
<1>18. CASE UNCHANGED vars
  <2>1. PlayerType' /\ ButtonType' /\ WindowType' /\ (raw \in minv..maxv /\ inputs \in 0..MaxInputs)'
    <3>1. PlayerType'
      BY <1>18 DEF TypeOK, PlayerType, vars, player, mainVars
    <3>2. ButtonType'
      BY <1>18 DEF TypeOK, ButtonType, vars, button, hand
    <3>3. WindowType'
      BY <1>18 DEF TypeOK, WindowType, vars, app, timers, face
    <3> QED
      BY <1>18, <3>1, <3>2, <3>3 DEF TypeOK, vars
  <2>2. WireType'
    BY <1>18 DEF TypeOK, WireType, vars, wires
  <2> QED
    BY <2>1, <2>2 DEF TypeOK
<1> QED
  BY <1>1, <1>2, <1>3, <1>4, <1>5, <1>6, <1>7, <1>8, <1>9, <1>10, <1>11, <1>12, <1>13, <1>14, <1>15, <1>16, <1>17, <1>18 DEF Next, MainSteps, User

(* Every step keeps flags, timer, commands and gestures in order.          *)
LEMMA GestureStep == RemoteInv /\ [Next]_vars => (FlagIsTrue /\ TimerHasGesture /\ CommandOK /\ GestureOK)'
<1> SUFFICES ASSUME RemoteInv, [Next]_vars
             PROVE  (FlagIsTrue /\ TimerHasGesture /\ CommandOK /\ GestureOK)'
  OBVIOUS
<1> USE DEF RemoteInv, FlagIsTrue, TimerHasGesture, CommandOK, GestureOK
<1>0. /\ start \in BOOLEAN /\ suspend \in BOOLEAN /\ paused \in BOOLEAN
      /\ crossed \in BOOLEAN /\ timer \in BOOLEAN
      /\ at \in {"idle", "half", "write", "flag", "disarm", "reply", "upload"}
      /\ then \in {"none", "reply", "double", "long"}
      /\ doing \in Orders \union {"none"}
  BY DEF TypeOK, PlayerType, ButtonType
<1>1. CASE StopHalf
  BY <1>0, <1>1 DEF StopHalf, Orders, player, mainVars, button, hand, wires, timers, face, app
<1>2. CASE Write
  BY <1>0, <1>2 DEF Write, Return, Orders, player, mainVars, button, hand, wires, timers, face, app
<1>3. CASE SetFlag
  BY <1>0, <1>3 DEF SetFlag, Flag, Return, Orders, player, mainVars, button, hand, wires, timers, face, app
<1>4. CASE ReadSocket
  BY <1>0, <1>4 DEF ReadSocket, Begin, Return, Ignores, Orders, player, mainVars, button, hand, wires, timers, face, app
<1>5. CASE SendMusicInfo
  BY <1>0, <1>5 DEF SendMusicInfo, FromSpeaker, ToApp, Orders, player, mainVars, button, hand, wires, timers, face, app
<1>6. CASE ReadButton
  <2>1. at = "idle" /\ UNCHANGED <<suspend, paused, crossed>>
    BY <1>6 DEF ReadButton
  <2>2. /\ FlagIsTrue /\ (timer <=> state = "FIRST_RELEASE") /\ then = "none"
    BY <2>1
  <2>3. ASSUME NEW next \in {"double", "long"}, Begin("skip", next), UNCHANGED timer,
               next = "long" => state = "FIRST_PRESS"
        PROVE  (FlagIsTrue /\ TimerHasGesture /\ CommandOK /\ GestureOK)'
    <3>1. CASE ~start /\ Return(next) /\ UNCHANGED start
      BY <1>0, <2>1, <2>2, <2>3, <3>1 DEF Return
    <3>2. CASE /\ start /\ UNCHANGED <<start, state>>
               /\ doing' = "skip" /\ at' = "write" /\ then' = next
      BY <1>0, <2>1, <2>2, <2>3, <3>2
    <3> QED
      BY <1>0, <2>3, <3>1, <3>2 DEF Begin, Ignores
  <2>4. CASE /\ UNCHANGED <<start, mainVars>>
             /\ \/ state' = "FIRST_PRESS" /\ state = "IDLE" /\ UNCHANGED timer
                \/ state' = "FIRST_RELEASE" /\ state = "FIRST_PRESS" /\ timer' = TRUE
                \/ UNCHANGED button
    <3>1. UNCHANGED <<start, doing, at, then>> /\ (UNCHANGED button => UNCHANGED <<state, timer>>)
      BY <2>4 DEF mainVars, button
    <3>2. (TimerHasGesture /\ GestureOK)'
      BY <1>0, <2>1, <2>2, <2>4, <3>1
    <3>3. (FlagIsTrue /\ CommandOK)'
      BY <1>0, <2>1, <2>2, <3>1
    <3> QED
      BY <3>2, <3>3
  <2> QED
    BY <1>6, <2>3, <2>4 DEF ReadButton
<1>7. CASE Disarm
  BY <1>0, <1>7 DEF Disarm, StopTimer, Orders, player, mainVars, button, hand, wires, timers, face, app
<1>8. CASE Handle
  <2>1. (TimerHasGesture /\ GestureOK)'
    BY <1>0, <1>8 DEF Handle, mainVars
  <2>2. (FlagIsTrue /\ CommandOK)'
    <3>1. CASE ~start /\ ~suspend
      BY <1>0, <1>8, <3>1 DEF Handle, mainVars
    <3>2. CASE start \/ suspend
      BY <1>0, <1>8, <3>2 DEF Handle, mainVars
    <3> QED
      BY <3>1, <3>2, <1>0
  <2> QED
    BY <2>1, <2>2
<1>9. CASE SendServer
  BY <1>0, <1>9 DEF SendServer, Look, FromSpeaker, ToApp, Orders, player, mainVars, button, hand, wires, timers, face, app
<1>10. CASE ReadStdIO
  BY <1>0, <1>10 DEF ReadStdIO, Input, Begin, Return, Ignores, Orders, player, mainVars, button, hand, wires, timers, face, app
<1>11. CASE Press
  BY <1>0, <1>11 DEF Press, Input, Orders, player, mainVars, button, hand, wires, timers, face, app
<1>12. CASE Release
  BY <1>0, <1>12 DEF Release, Orders, player, mainVars, button, hand, wires, timers, face, app
<1>13. CASE Click
  BY <1>0, <1>13 DEF Click, Input, PauseButton, ToApp, Orders, player, mainVars, button, hand, wires, timers, face, app
<1>14. CASE CloseEvent
  BY <1>0, <1>14 DEF CloseEvent, Orders, player, mainVars, button, hand, wires, timers, face, app
<1>15. CASE HandleTimerInfo
  BY <1>0, <1>15 DEF HandleTimerInfo, Orders, player, mainVars, button, hand, wires, timers, face, app
<1>16. CASE HandleTimerGetMusiclist
  BY <1>0, <1>16 DEF HandleTimerGetMusiclist, Orders, player, mainVars, button, hand, wires, timers, face, app
<1>17. CASE ReciveReply
  BY <1>0, <1>17 DEF ReciveReply, HandleInfo, HandleUpload, Orders, player, mainVars, button, hand, wires, timers, face, app
<1>18. CASE UNCHANGED vars
  BY <1>18 DEF vars, player, mainVars, button, hand, wires, timers, face, app
<1> QED
  BY <1>1, <1>2, <1>3, <1>4, <1>5, <1>6, <1>7, <1>8, <1>9, <1>10, <1>11, <1>12, <1>13, <1>14, <1>15, <1>16, <1>17, <1>18 DEF Next, MainSteps, User

(* The inductive invariant.                                                *)
LEMMA Invariant == SafetySpec => []RemoteInv
<1>1. Init => RemoteInv
  <2> SUFFICES ASSUME Init PROVE RemoteInv
    OBVIOUS
  <2>1. <<>> \in Seq(BOOLEAN) /\ <<>> \in Seq(SpeakerMessages) /\ <<>> \in Seq(AppMessages) /\ Len(<<>>) = 0
    OBVIOUS
  <2>2. PlayerType /\ WindowType /\ raw \in minv..maxv /\ inputs \in 0..MaxInputs
    <3>1. PlayerType
      BY DEF Init, PlayerType
    <3>2. WindowType
      BY DEF Init, WindowType
    <3>3. raw = SetVolume(80) /\ inputs = MaxInputs
      BY DEF Init
    <3>4. inputs \in 0..MaxInputs
      BY <3>3, BoundsAssumption
    <3> QED
      BY <3>1, <3>2, <3>3, <3>4, DefaultVolume
  <2>3. ButtonType
    BY <2>1 DEF Init, ButtonType
  <2>4. WireType
    <3>1. toApp = <<>> /\ toSpeaker = <<>> /\ ready = 0 /\ seen = "first"
      BY DEF Init
    <3>2. ready \in 0..Len(toApp)
      BY <2>1, <3>1
    <3> QED
      BY <2>1, <3>1, <3>2 DEF WireType
  <2> QED
    BY <2>2, <2>3, <2>4 DEF TypeOK, Init, RemoteInv, FlagIsTrue, TimerHasGesture, CommandOK, GestureOK
<1>2. RemoteInv /\ [Next]_vars => RemoteInv'
  BY TypeStep, GestureStep DEF RemoteInv
<1> QED
  BY <1>1, <1>2, PTL DEF SafetySpec

-----------------------------------------------------------------------------
(* The speaker's, the button's and the window's variables keep their types,*)
(* and the volume stays in the mixer's range.                              *)
THEOREM TypeCorrect == SafetySpec => []TypeOK
<1>1. RemoteInv => TypeOK
  BY DEF RemoteInv
<1> QED
  BY <1>1, Invariant, PTL

(* The flag tells the truth about mplayer unless a short press was handled *)
(* in the middle of a command.                                             *)
THEOREM FlagsAreTrue == SafetySpec => []FlagIsTrue
<1>1. RemoteInv => FlagIsTrue
  BY DEF RemoteInv
<1> QED
  BY <1>1, Invariant, PTL

(* The 300 ms timer and the button's state belong together.                *)
THEOREM TimersHaveGestures == SafetySpec => []TimerHasGesture
<1>1. RemoteInv => TimerHasGesture
  BY DEF RemoteInv
<1> QED
  BY <1>1, Invariant, PTL

(* The volume moves when it is told to, where it is told to, for every     *)
(* mixer with more than ten steps.                                         *)
THEOREM VolumesObey == SafetySpec => VolumeObeys
<1> DEFINE A == /\ raw' > raw => Turns("up")
                /\ raw' < raw => Turns("down")
                /\ ReadSocket /\ Head(toSpeaker) = "up" /\ GetVolume(raw) < 90 => raw' > raw
                /\ ReadSocket /\ Head(toSpeaker) = "down" /\ GetVolume(raw) > 10 => raw' < raw
<1>1. RemoteInv /\ [Next]_vars => [A]_vars
  <2> SUFFICES ASSUME RemoteInv, Next PROVE A
    OBVIOUS
  <2>1. raw \in minv..maxv /\ minv \in Int /\ maxv \in Int
    BY RangeAssumption DEF RemoteInv, TypeOK
  <2>2. CASE ReadSocket
    <3>1. \/ Head(toSpeaker) = "up" /\ raw' = UpVolume(raw)
          \/ Head(toSpeaker) = "down" /\ raw' = DownVolume(raw)
          \/ Head(toSpeaker) \notin {"up", "down"} /\ raw' = raw
      BY <2>2 DEF ReadSocket, Orders
    <3> QED
      BY <2>1, <2>2, <3>1, TurnsStayInRange DEF Turns
  <2>3. CASE ReadStdIO /\ ~ReadSocket
    BY <2>3 DEF Turns
  <2>4. CASE ~ReadStdIO /\ ~ReadSocket
    <3>1. raw' = raw
      BY <2>4 DEF Next, MainSteps, User, StopHalf, Write, SetFlag, SendMusicInfo,
                  ReadButton, Disarm, Handle, SendServer, Press, Release, Click, CloseEvent,
                  HandleTimerInfo, HandleTimerGetMusiclist, ReciveReply
    <3> QED
      BY <2>1, <2>4, <3>1
  <2> QED
    BY <2>2, <2>3, <2>4
<1> QED
  BY <1>1, Invariant, PTL DEF VolumeObeys, SafetySpec
=============================================================================
