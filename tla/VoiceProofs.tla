---------------------------- MODULE VoiceProofs ------------------------------
(***************************************************************************)
(* Proofs about Voice, for any number of singers, descriptors, commands    *)
(* and utterances.                                                         *)
(***************************************************************************)
EXTENDS Voice, SequenceTheorems, TLAPS

(* While main connects nothing of the last connection is left.             *)
Alone == main = "connect" => mode # "online" /\ ~reporter /\ link = "none"

LinkInv == DescriptorsOK /\ AllWatched /\ LinkIsWhole /\ Alone

USE DEF Stdin, Button, Asr, Tts

-----------------------------------------------------------------------------
(* The link.                                                               *)

(* All that the link's invariant is about.                                 *)
linkSide == <<main, mode, fdVars, reporter, link>>

(* A list is asked for in select, where the link is whole.                 *)
LEMMA GetMusicNameLink ==
  ASSUME LinkInv, main = "select", NEW s, NEW what \in Callers, GetMusicName(s, what)
  PROVE  LinkInv'
<1>1. UNCHANGED <<mode, fdVars, reporter>>
  BY DEF GetMusicName, AskServer, AskStick, socketVars
<1>2. main' # "connect"
  BY DEF GetMusicName, AskServer, AskStick, Resume
<1>3. link' # "none" <=> link # "none"
  BY DEF GetMusicName, AskServer, AskStick, socketVars, Send
<1> QED
  BY <1>1, <1>2, <1>3 DEF LinkInv, DescriptorsOK, AllWatched, LinkIsWhole, Alone, Watched, fdVars

(* GetReply only leaves await.                                             *)
LEMMA GetReplyLink ==
  ASSUME LinkInv, GetReply
  PROVE  LinkInv'
<1>1. UNCHANGED <<mode, fdVars, reporter>> /\ (link' # "none" <=> link # "none")
  BY DEF GetReply, UploadMusic
<1>2. main' # "connect" /\ main = "await"
  BY DEF GetReply, Resume
<1> QED
  BY <1>1, <1>2 DEF LinkInv, DescriptorsOK, AllWatched, LinkIsWhole, Alone, Watched, fdVars

(* A list that ends asks for the next, or kills the process.               *)
LEMMA ListEndsLink ==
  ASSUME LinkInv, ListEnds
  PROVE  LinkInv'
<1>1. CASE GetMusicName(list, "play")
  BY <1>1, GetMusicNameLink DEF ListEnds, Callers
<1>2. CASE main' = "dead" /\ UNCHANGED <<mode, socketVars>>
  BY <1>2 DEF LinkInv, DescriptorsOK, AllWatched, LinkIsWhole, Alone, Watched, fdVars, socketVars
<1> QED
  BY <1>1, <1>2 DEF ListEnds

(* A new connection is watched.                                            *)
LEMMA ConnectedLink ==
  ASSUME LinkInv, Connected
  PROVE  LinkInv'
<1>1. PICK n \in FirstFree : Opened(n) /\ Watch(n) /\ g_sockfd' = n
  BY DEF Connected
<1>2. n \in 0..MaxFd /\ n \notin open
  BY FdAssumption DEF FirstFree, Free
<1>3. DescriptorsOK'
  BY <1>1, <1>2, FdAssumption DEF LinkInv, DescriptorsOK, Opened, Watch
<1>4. AllWatched'
  BY <1>1, <1>2, FdAssumption DEF LinkInv, DescriptorsOK, AllWatched, Watched, Opened, Watch
<1>5. LinkIsWhole' /\ Alone'
  BY <1>1 DEF Connected, LinkIsWhole, Alone, Watch
<1> QED
  BY <1>3, <1>4, <1>5 DEF LinkInv

(* A refused one is not.                                                   *)
LEMMA RefusedLink ==
  ASSUME LinkInv, Refused
  PROVE  LinkInv'
<1>1. main = "connect" /\ ~reporter /\ link = "none"
  BY DEF Refused, LinkInv, Alone
<1>2. UNCHANGED <<READSET, g_maxfd, reporter, link>> /\ mode' = "offline"
  BY DEF Refused
<1>3. main' # "connect"
  BY DEF Refused, AskStick, Resume
<1>4. DescriptorsOK' /\ open \subseteq open' /\ g_sockfd' \notin READSET
  <2>1. CASE \E n \in FirstFree : Opened(n) /\ g_sockfd' = n
    <3>1. PICK n \in FirstFree : Opened(n) /\ g_sockfd' = n
      BY <2>1
    <3>2. n \in 0..MaxFd /\ n \notin open
      BY FdAssumption DEF FirstFree, Free
    <3> QED
      BY <3>1, <3>2, <1>2, FdAssumption DEF LinkInv, DescriptorsOK, AllWatched, Opened
  <2>2. CASE g_sockfd' = -1 /\ UNCHANGED open
    BY <2>2, <1>2, FdAssumption DEF LinkInv, DescriptorsOK, AllWatched
  <2> QED
    BY <2>1, <2>2 DEF Refused
<1>5. AllWatched'
  BY <1>2, <1>4 DEF LinkInv, AllWatched, Watched
<1>6. LinkIsWhole' /\ Alone'
  BY <1>1, <1>2, <1>3, <1>4 DEF LinkIsWhole, Alone
<1> QED
  BY <1>4, <1>5, <1>6 DEF LinkInv

(* A descriptor that is given up is no longer watched, and the others are. *)
LEMMA UnwatchKeeps ==
  ASSUME DescriptorsOK, AllWatched, NEW n \in 0..MaxFd, Unwatch(n), UNCHANGED g_sockfd
  PROVE  DescriptorsOK' /\ AllWatched' /\ n \notin READSET'
BY FdAssumption DEF DescriptorsOK, AllWatched, Watched, Unwatch

(* At the end of the data main spins for ever.                             *)
LEMMA EndOfDataLink ==
  ASSUME LinkInv, EndOfData
  PROVE  LinkInv'
<1>1. main \in {"select", "await"} /\ main' = "spins" /\ UNCHANGED mode
  BY DEF EndOfData
<1>2. CASE link = "closed"
  <2>1. g_sockfd \in READSET
    BY <1>1, <1>2 DEF LinkInv, LinkIsWhole
  <2>2. g_sockfd \in 0..MaxFd
    BY <2>1 DEF LinkInv, DescriptorsOK
  <2>3. DescriptorsOK' /\ AllWatched'
    BY <2>2, <1>2, UnwatchKeeps DEF LinkInv, EndOfData
  <2> QED
    BY <2>3, <1>1 DEF LinkInv, LinkIsWhole, Alone
<1>3. CASE UNCHANGED socketVars
  BY <1>1, <1>3 DEF LinkInv, DescriptorsOK, AllWatched, LinkIsWhole, Alone, Watched, fdVars, socketVars
<1> QED
  BY <1>2, <1>3 DEF EndOfData

(* Commands of the apps touch neither mode nor descriptors.                *)
LEMMA ReadSocketLink ==
  ASSUME LinkInv, ReadSocket
  PROVE  LinkInv'
<1>1. UNCHANGED <<mode, fdVars, reporter>> /\ main = "select" /\ main' \in {"select", "dead"}
  BY DEF ReadSocket
<1>2. link' # "none" <=> link # "none"
  BY DEF ReadSocket
<1> QED
  BY <1>1, <1>2 DEF LinkInv, DescriptorsOK, AllWatched, LinkIsWhole, Alone, Watched, fdVars

(* Nor does the reporter.                                                  *)
LEMMA ReportLink ==
  ASSUME LinkInv, Report
  PROVE  LinkInv'
<1>1. UNCHANGED <<mode, fdVars, reporter>> /\ (main' = main \/ main' = "dead") /\ reporter
  BY DEF Report
<1>2. link # "none" /\ link' # "none"
  BY DEF Report
<1> QED
  BY <1>1, <1>2 DEF LinkInv, DescriptorsOK, AllWatched, LinkIsWhole, Alone, Watched, fdVars

(* Nor the server and the apps.                                            *)
LEMMA ServerLink ==
  ASSUME LinkInv, Server
  PROVE  LinkInv'
<1>1. UNCHANGED <<main, mode, fdVars, reporter>>
  BY DEF Server, Serve, ServerCloses, AppSends, socketVars
<1>2. link # "none" /\ link' # "none"
  BY DEF Server, Serve, ServerCloses, AppSends, socketVars
<1> QED
  BY <1>1, <1>2 DEF LinkInv, DescriptorsOK, AllWatched, LinkIsWhole, Alone, Watched, fdVars

(* ChangeOfflineMode takes the link apart in select.                       *)
LEMMA OfflineLink ==
  ASSUME LinkInv, main = "select", ChangeOfflineMode
  PROVE  LinkInv'
<1>1. CASE UNCHANGED <<main, mode, socketVars>>
  BY <1>1 DEF LinkInv, DescriptorsOK, AllWatched, LinkIsWhole, Alone, Watched, fdVars, socketVars
<1>2. CASE mode = "online"
  <2>1. /\ mode' = "offline" /\ ~reporter' /\ link' = "none"
        /\ Unwatch(g_sockfd) /\ UNCHANGED g_sockfd
    BY <1>2 DEF ChangeOfflineMode, CancelReporter
  <2>2. g_sockfd \in READSET /\ g_sockfd \in 0..MaxFd
    BY <1>2 DEF LinkInv, LinkIsWhole, DescriptorsOK
  <2>3. DescriptorsOK' /\ AllWatched' /\ g_sockfd' \notin READSET'
    BY <2>1, <2>2, UnwatchKeeps DEF LinkInv
  <2> QED
    BY <2>1, <2>3 DEF LinkInv, LinkIsWhole, Alone
<1> QED
  BY <1>1, <1>2 DEF ChangeOfflineMode

(* popen leaks a descriptor, which nobody watches.                         *)
LEMMA PopenLink ==
  ASSUME LinkInv, main = "select", Popen,
         UNCHANGED <<mode, READSET, g_maxfd, g_sockfd, reporter, link>>
  PROVE  LinkInv'
<1>1. main' \in {"select", "dead"}
  BY DEF Popen
<1>2. open \subseteq open' /\ open' \subseteq 0..MaxFd
  <2>1. CASE UNCHANGED open
    BY <2>1 DEF LinkInv, DescriptorsOK
  <2>2. CASE \E n \in FirstFree : Opened(n)
    <3>1. PICK n \in FirstFree : Opened(n)
      BY <2>2
    <3>2. n \in 0..MaxFd
      BY FdAssumption DEF FirstFree, Free
    <3> QED
      BY <3>1, <3>2 DEF Opened, LinkInv, DescriptorsOK
  <2> QED
    BY <2>1, <2>2 DEF Popen
<1> QED
  BY <1>1, <1>2 DEF LinkInv, DescriptorsOK, AllWatched, LinkIsWhole, Alone, Watched

(* Whatever main hears, the link stays whole.                              *)
LEMMA ProcessLink ==
  ASSUME LinkInv, main = "select", NEW words, Process(words)
  PROVE  LinkInv'
<1>1. CASE Popen /\ UNCHANGED Fixed
  BY <1>1, PopenLink DEF Fixed
<1>2. CASE \E what : Obey(what) /\ UNCHANGED <<Fixed, open>>
  <2>1. main' \in {"select", "dead"}
    BY <1>2 DEF Obey, StartPlay
  <2> QED
    BY <1>2, <2>1 DEF LinkInv, DescriptorsOK, AllWatched, LinkIsWhole, Alone, Watched, Fixed
<1>3. CASE \E s : GetMusicName(s, "play")
  BY <1>3, GetMusicNameLink DEF Callers
<1>4. CASE ChangeOfflineMode
  BY <1>4, OfflineLink
<1>5. CASE ChangeOnlineMode
  <2>1. UNCHANGED <<mode, fdVars, reporter, link>>
    BY <1>5 DEF ChangeOnlineMode, socketVars
  <2>2. main' = main \/ mode = "offline"
    BY <1>5 DEF ChangeOnlineMode
  <2> QED
    BY <2>1, <2>2 DEF LinkInv, DescriptorsOK, AllWatched, LinkIsWhole, Alone, Watched, fdVars
<1>6. CASE main' \in {"select", "chat"} /\ UNCHANGED <<Fixed, open>>
  BY <1>6 DEF LinkInv, DescriptorsOK, AllWatched, LinkIsWhole, Alone, Watched, Fixed
<1> QED
  BY <1>1, <1>2, <1>3, <1>4, <1>5, <1>6 DEF Process, TtsStop, ChangeVoice

(* The end of the recognition process: its fifo is not the socket.         *)
LEMMA AsrEndsLink ==
  ASSUME LinkInv, AsrEnds
  PROVE  LinkInv'
<1>1. /\ Unwatch(Asr) /\ UNCHANGED <<main, mode, g_sockfd, reporter, link>>
      /\ g_sockfd # Asr /\ main = "select"
  BY DEF AsrEnds, CanReadAsr
<1>2. DescriptorsOK' /\ AllWatched'
  BY <1>1, FdAssumption, UnwatchKeeps DEF LinkInv
<1>3. g_sockfd \in READSET' <=> g_sockfd \in READSET
  BY <1>1 DEF Unwatch
<1> QED
  BY <1>1, <1>2, <1>3 DEF LinkInv, LinkIsWhole, Alone

(* Steps that leave the link alone.                                        *)
LEMMA ElseLink ==
  ASSUME LinkInv,
         UNCHANGED <<mode, fdVars, reporter, link>>,
         main' = main \/ (main = "chat" /\ main' = "select")
  PROVE  LinkInv'
BY DEF LinkInv, DescriptorsOK, AllWatched, LinkIsWhole, Alone, Watched, fdVars

(* Every step keeps the link whole.                                        *)
LEMMA NextLink ==
  ASSUME LinkInv, [Next]_vars
  PROVE  LinkInv'
<1>1. CASE MainSteps
  BY <1>1, GetReplyLink, ListEndsLink, ConnectedLink, RefusedLink, ReadSocketLink, EndOfDataLink
     DEF MainSteps
<1>2. CASE Report \/ Server
  BY <1>2, ReportLink, ServerLink
<1>3. CASE ReadAsrFifo
  BY <1>3, ProcessLink DEF ReadAsrFifo, CanReadAsr
<1>4. CASE AsrEnds
  BY <1>4, AsrEndsLink
<1>5. CASE ChatEnds
  BY <1>5, ElseLink DEF ChatEnds, socketVars
<1>6. CASE Ears
  BY <1>6, ElseLink DEF Ears, linkVars, socketVars
<1>7. CASE Mouth
  BY <1>7, ElseLink DEF Mouth, Unlinked, socketVars
<1>8. CASE UNCHANGED vars
  BY <1>8, ElseLink DEF vars, linkVars, socketVars
<1> QED
  BY <1>1, <1>2, <1>3, <1>4, <1>5, <1>6, <1>7, <1>8 DEF Next, Main, Around

(* The first state.                                                        *)
LEMMA InitLink == Init => LinkInv
BY FdAssumption DEF Init, LinkInit, LinkInv, DescriptorsOK, AllWatched, LinkIsWhole, Alone, Watched

(* In every state select watches all that is open to it, and no more.      *)
THEOREM NothingIsMissed == SafetySpec => []AllWatched
<1>1. LinkInv => AllWatched
  BY DEF LinkInv
<1> QED
  BY <1>1, InitLink, NextLink, PTL DEF SafetySpec

(* Mode, socket, reporter and connection tell one story.                   *)
THEOREM LinkStaysWhole == SafetySpec => []LinkIsWhole
<1>1. LinkInv => LinkIsWhole
  BY DEF LinkInv
<1> QED
  BY <1>1, InitLink, NextLink, PTL DEF SafetySpec

-----------------------------------------------------------------------------
(* The voice. Stops are numbered; those of the mouth's own doing are cut.  *)

Numbers == stops \in Nat /\ cut \in Nat /\ usr1 \in BOOLEAN
FifoOK == toTts \in Seq(Text)
MouthOK == tts \in [at: {"read", "ready", "play"}, play: BOOLEAN, texts: Seq(Text)]

(* Stops that are sent and not handled yet, and texts against them.        *)
StopsKept == IF usr1 THEN cut < stops ELSE cut = stops
Written == \A i \in DOMAIN toTts : toTts[i].after <= stops
TextsKept == tts.at \in {"ready", "play"} =>
               \A i \in DOMAIN tts.texts : tts.texts[i].after <= cut

MouthInv == Numbers /\ FifoOK /\ MouthOK /\ StopsKept /\ Written /\ TextsKept /\ ReplySpoken

(* A text that is appended belongs to the last stop.                       *)
LEMMA Said ==
  ASSUME NEW f \in Seq(Text), NEW n \in Nat, NEW text \in Texts,
         \A i \in DOMAIN f : f[i].after <= n
  PROVE  LET g == Append(f, [text |-> text, after |-> n])
         IN  g \in Seq(Text) /\ \A i \in DOMAIN g : g[i].after <= n
<1> DEFINE t == [text |-> text, after |-> n]
           g == Append(f, t)
<1>1. t \in Text /\ t.after = n
  BY DEF Text
<1>2. g \in Seq(Text)
  BY <1>1
<1>3. ASSUME NEW i \in DOMAIN g
      PROVE  g[i].after <= n
  <2>1. CASE i \in DOMAIN f
    BY <2>1
  <2>2. CASE i = Len(f) + 1
    BY <2>2, <1>1
  <2> QED
    BY <2>1, <2>2
<1> QED
  BY <1>2, <1>3

(* Main may say something and stop nothing: the mouth is as it was.        *)
LEMMA ReplyMouth ==
  ASSUME MouthInv, UNCHANGED <<stops, mouthVars>>,
         UNCHANGED toTts \/ \E text \in Texts : ReplyKeyWords(text)
  PROVE  MouthInv'
<1>1. FifoOK' /\ Written'
  <2>1. CASE UNCHANGED toTts
    BY <2>1 DEF MouthInv, FifoOK, Written
  <2>2. CASE \E text \in Texts : ReplyKeyWords(text)
    BY <2>2, Said DEF MouthInv, FifoOK, Written, Numbers, ReplyKeyWords
  <2> QED
    BY <2>1, <2>2
<1> QED
  BY <1>1 DEF MouthInv, mouthVars, Numbers, MouthOK, StopsKept, TextsKept, ReplySpoken

(* GetMusicName announces the mode at most.                                *)
LEMMA GetMusicNameMouth ==
  ASSUME MouthInv, NEW s, NEW what \in Callers, GetMusicName(s, what), UNCHANGED mouthVars
  PROVE  MouthInv'
<1>1. UNCHANGED stops
  BY DEF GetMusicName, AskServer, AskStick, ttsVars
<1>2. UNCHANGED toTts \/ \E text \in Texts : ReplyKeyWords(text)
  BY DEF GetMusicName, AskServer, AskStick, Resume, ttsVars, Texts
<1> QED
  BY <1>1, <1>2, ReplyMouth

(* The steps of main that are not about the voice.                         *)
LEMMA MainMouth ==
  ASSUME MouthInv, MainSteps, UNCHANGED mouthVars
  PROVE  MouthInv'
<1>1. CASE GetReply
  <2>1. UNCHANGED stops /\ (UNCHANGED toTts \/ \E text \in Texts : ReplyKeyWords(text))
    BY <1>1 DEF GetReply, Resume, Texts
  <2> QED
    BY <2>1, ReplyMouth
<1>2. CASE ListEnds
  <2>1. GetMusicName(list, "play") \/ UNCHANGED ttsVars
    BY <1>2 DEF ListEnds
  <2> QED
    BY <2>1, GetMusicNameMouth, ReplyMouth DEF Callers, ttsVars
<1>3. CASE Refused
  <2>1. UNCHANGED stops /\ (UNCHANGED toTts \/ \E text \in Texts : ReplyKeyWords(text))
    BY <1>3 DEF Refused, AskStick, Resume, ttsVars, Texts
  <2> QED
    BY <2>1, ReplyMouth
<1>4. CASE Connected \/ ReadSocket \/ EndOfData
  BY <1>4, ReplyMouth DEF Connected, ReadSocket, EndOfData, ttsVars
<1> QED
  BY <1>1, <1>2, <1>3, <1>4 DEF MainSteps

(* The trigger: the stop is numbered and its reply is the first after it.  *)
LEMMA TtsStopMouth ==
  ASSUME MouthInv, TtsStop, UNCHANGED <<tts, cut>>
  PROVE  MouthInv'
<1>1. CASE UNCHANGED <<usr1, ttsVars>>
  BY <1>1, ReplyMouth DEF mouthVars, ttsVars
<1>2. CASE /\ usr1' = TRUE /\ stops' = stops + 1
           /\ toTts' = Append(toTts, [text |-> "yes", after |-> stops + 1])
  <2>1. ASSUME NEW i \in DOMAIN toTts
        PROVE  toTts[i].after <= stops + 1
    <3>1. toTts[i] \in Text
      BY DEF MouthInv, FifoOK
    <3>2. toTts[i].after \in Nat /\ toTts[i].after <= stops
      BY <3>1 DEF Text, MouthInv, Written
    <3> QED
      BY <3>2 DEF MouthInv, Numbers
  <2>2. toTts \in Seq(Text) /\ stops + 1 \in Nat /\ "yes" \in Texts
    BY DEF MouthInv, FifoOK, Numbers, Texts
  <2>a. toTts' \in Seq(Text) /\ \A i \in DOMAIN toTts' : toTts'[i].after <= stops + 1
    BY <1>2, <2>1, <2>2, Said
  <2>b. FifoOK' /\ Written'
    BY <1>2, <2>a DEF FifoOK, Written
  <2>3. Numbers' /\ StopsKept'
    BY <1>2 DEF MouthInv, Numbers, StopsKept
  <2> QED
    BY <2>b, <2>3 DEF MouthInv, MouthOK, TextsKept, ReplySpoken
<1> QED
  BY <1>1, <1>2 DEF TtsStop

(* Whatever main hears.                                                    *)
LEMMA ProcessMouth ==
  ASSUME MouthInv, NEW words, Process(words), UNCHANGED <<tts, cut>>
  PROVE  MouthInv'
<1>1. CASE TtsStop
  BY <1>1, TtsStopMouth
<1>2. CASE UNCHANGED <<ttsVars, usr1>>
  BY <1>2, ReplyMouth DEF ttsVars, mouthVars
<1>3. CASE (\E s : GetMusicName(s, "play")) /\ UNCHANGED usr1
  BY <1>3, GetMusicNameMouth DEF Callers, mouthVars
<1>4. CASE ChangeVoice /\ UNCHANGED usr1
  <2>1. UNCHANGED stops /\ (UNCHANGED toTts \/ \E text \in Texts : ReplyKeyWords(text))
    BY <1>4 DEF ChangeVoice, Texts
  <2> QED
    BY <2>1, <1>4, ReplyMouth DEF mouthVars
<1>5. CASE (ChangeOfflineMode \/ ChangeOnlineMode) /\ UNCHANGED usr1
  <2>1. UNCHANGED stops /\ (UNCHANGED toTts \/ \E text \in Texts : ReplyKeyWords(text))
    BY <1>5 DEF ChangeOfflineMode, ChangeOnlineMode, AskStick, Resume, ttsVars, Texts
  <2> QED
    BY <2>1, <1>5, ReplyMouth DEF mouthVars
<1>6. CASE (UNCHANGED toTts \/ ReplyKeyWords("no network")) /\ UNCHANGED <<stops, usr1>>
  BY <1>6, ReplyMouth DEF mouthVars, Texts
<1> QED
  BY <1>1, <1>2, <1>3, <1>4, <1>5, <1>6 DEF Process

(* The mouth reads when no stop is pending: what it reads is not cut.      *)
LEMMA ReadMouth ==
  ASSUME MouthInv, Read, UNCHANGED stops
  PROVE  MouthInv'
<1>1. /\ tts' = [tts EXCEPT !.at = "ready", !.texts = toTts] /\ toTts' = <<>>
      /\ ~usr1 /\ UNCHANGED <<usr1, cut>>
  BY DEF Read
<1>2. MouthOK' /\ tts'.at = "ready" /\ tts'.texts = toTts
  BY <1>1 DEF MouthInv, MouthOK, FifoOK
<1>3. cut = stops
  BY <1>1 DEF MouthInv, StopsKept
<1>4. TextsKept'
  BY <1>1, <1>2, <1>3 DEF MouthInv, TextsKept, Written
<1>5. ReplySpoken'
  BY <1>2 DEF ReplySpoken
<1>6. FifoOK' /\ Written'
  BY <1>1 DEF FifoOK, Written
<1> QED
  BY <1>1, <1>2, <1>4, <1>5, <1>6 DEF MouthInv, Numbers, StopsKept

(* It begins with the flag set.                                            *)
LEMMA PrepareMouth ==
  ASSUME MouthInv, Prepare, UNCHANGED stops
  PROVE  MouthInv'
<1>1. /\ tts' = [at |-> "play", play |-> TRUE, texts |-> tts.texts]
      /\ tts.at = "ready" /\ UNCHANGED <<usr1, cut, toTts>>
  BY DEF Prepare, Prepared
<1>2. MouthOK' /\ tts'.at = "play" /\ tts'.play /\ tts'.texts = tts.texts
  BY <1>1 DEF MouthInv, MouthOK
<1>3. TextsKept' /\ ReplySpoken'
  BY <1>1, <1>2 DEF MouthInv, TextsKept, ReplySpoken
<1> QED
  BY <1>1, <1>2, <1>3 DEF MouthInv, Numbers, FifoOK, Written, StopsKept

(* It ends with nothing in its buffer.                                     *)
LEMMA PlayedMouth ==
  ASSUME MouthInv, Played, UNCHANGED stops
  PROVE  MouthInv'
<1>1. tts' = [tts EXCEPT !.at = "read", !.texts = <<>>] /\ UNCHANGED <<usr1, cut, toTts>>
  BY DEF Played
<1>2. MouthOK' /\ tts'.at = "read"
  <2>1. <<>> \in Seq(Text)
    OBVIOUS
  <2> QED
    BY <1>1, <2>1 DEF MouthInv, MouthOK
<1> QED
  BY <1>1, <1>2 DEF MouthInv, Numbers, FifoOK, Written, StopsKept, TextsKept, ReplySpoken

(* The handler: all it silences was written before the stop it handles.    *)
LEMMA HandleStopMouth ==
  ASSUME MouthInv, HandleStop, UNCHANGED stops
  PROVE  MouthInv'
<1>1. /\ usr1 /\ usr1' = FALSE /\ cut' = stops /\ UNCHANGED toTts
      /\ tts' = [tts EXCEPT !.play = FALSE]
  BY DEF HandleStop
<1>2. cut < stops /\ Numbers' /\ StopsKept'
  BY <1>1 DEF MouthInv, Numbers, StopsKept
<1>3. MouthOK' /\ tts'.at = tts.at /\ tts'.texts = tts.texts
  BY <1>1 DEF MouthInv, MouthOK
<1>4. ASSUME tts.at \in {"ready", "play"}, NEW i \in DOMAIN tts.texts
      PROVE  tts.texts[i].after < cut' /\ tts.texts[i].after <= cut'
  <2>1. tts.texts[i].after <= cut /\ tts.texts[i].after \in Nat
    <3>1. tts.texts \in Seq(Text)
      BY DEF MouthInv, MouthOK
    <3>2. tts.texts[i] \in Text
      BY <3>1
    <3> QED
      BY <3>2, <1>4 DEF MouthInv, TextsKept, Text
  <2> QED
    BY <2>1, <1>1, <1>2 DEF MouthInv, Numbers
<1>5. TextsKept' /\ ReplySpoken'
  BY <1>3, <1>4 DEF TextsKept, ReplySpoken
<1> QED
  BY <1>1, <1>2, <1>3, <1>5 DEF MouthInv, FifoOK, Written

(* Every step keeps the mouth's invariant.                                 *)
LEMMA NextMouth ==
  ASSUME MouthInv, [Next]_vars
  PROVE  MouthInv'
<1>1. CASE Main
  BY <1>1, MainMouth DEF Main
<1>2. CASE Around
  BY <1>2, ReplyMouth DEF Around, Report, Server, Serve, AppSends, ServerCloses, ttsVars
<1>3. CASE ReadAsrFifo
  BY <1>3, ProcessMouth DEF ReadAsrFifo
<1>4. CASE AsrEnds
  BY <1>4, ReplyMouth DEF AsrEnds, ttsVars
<1>5. CASE ChatEnds
  BY <1>5, ReplyMouth DEF ChatEnds, Texts
<1>6. CASE Ears
  BY <1>6, ReplyMouth DEF Ears, linkVars, ttsVars
<1>7. CASE Mouth
  BY <1>7, ReadMouth, PrepareMouth, PlayedMouth, HandleStopMouth DEF Mouth, Unlinked
<1>8. CASE UNCHANGED vars
  BY <1>8, ReplyMouth DEF vars, linkVars, ttsVars
<1> QED
  BY <1>1, <1>2, <1>3, <1>4, <1>5, <1>6, <1>7, <1>8 DEF Next

(* The first state.                                                        *)
LEMMA InitMouth == Init => MouthInv
<1> SUFFICES ASSUME Init
             PROVE  MouthInv
  OBVIOUS
<1>1. /\ tts = [at |-> "read", play |-> TRUE, texts |-> <<>>] /\ toTts = <<>>
      /\ stops = 0 /\ cut = 0 /\ usr1 = FALSE
  BY DEF Init, LinkInit
<1>2. <<>> \in Seq(Text)
  OBVIOUS
<1>3. FifoOK
  BY <1>1, <1>2, Zenon DEF FifoOK
<1>5. MouthOK
  <2>1. \A x \in Seq(Text) :
          tts = [at |-> "read", play |-> TRUE, texts |-> x] => MouthOK
    BY DEF MouthOK
  <2>2. PICK x \in Seq(Text) : x = <<>>
    BY <1>2, Zenon
  <2>3. tts = [at |-> "read", play |-> TRUE, texts |-> x]
    BY <1>1, <2>2
  <2> QED
    BY <2>1, <2>3
<1>6. tts.at = "read" /\ DOMAIN toTts = {}
  BY <1>1
<1>7. stops = 0 /\ cut = 0 /\ usr1 = FALSE
  BY <1>1
<1>4. Numbers /\ StopsKept /\ Written /\ TextsKept /\ ReplySpoken
  BY <1>6, <1>7 DEF Numbers, StopsKept, Written, TextsKept, ReplySpoken
<1> QED
  BY <1>3, <1>4, <1>5 DEF MouthInv

(* A stop never silences a reply that was sent after it.                   *)
THEOREM RepliesAreSpoken == SafetySpec => []ReplySpoken
<1>1. MouthInv => ReplySpoken
  BY DEF MouthInv
<1> QED
  BY <1>1, InitMouth, NextMouth, PTL DEF SafetySpec

-----------------------------------------------------------------------------
(* Types.                                                                  *)

EarsOK == /\ hears \in {"kws", "asr", "gone"} /\ talk \in Nat
          /\ asr \in Seq(Utterances \union {Trigger})
Types == SpeakerOK /\ MessagesOK

(* Messages of both directions.                                            *)
LEMMA MessageTypes ==
  /\ \A s \in Singers : Get(s) \in UpMessage /\ ListOf(s) \in DownMessage
  /\ Answer \in UpMessage
  /\ \A k \in {"null", "offline"} \union Commands : Plain(k) \in DownMessage
BY SingersAssumption DEF Get, ListOf, Answer, Plain, UpMessage, DownMessage

(* Messages are put at the end.                                            *)
LEMMA Grows ==
  ASSUME NEW S, NEW s \in Seq(S), NEW t \in Seq(S)
  PROVE  s \o t \in Seq(S)
BY ONLY s \in Seq(S), t \in Seq(S), ConcatProperties

(* What the server says to a request.                                      *)
LEMMA ServerAnswers ==
  ASSUME NEW s \in Singers
  PROVE  ServerGetMusicName(s) \in Seq(DownMessage)
<1>1. ListOf(s) \in DownMessage /\ Plain("null") \in DownMessage
  BY MessageTypes
<1>2. <<ListOf(s)>> \in Seq(DownMessage) /\ <<Plain("null")>> \in Seq(DownMessage)
  BY <1>1
<1> QED
  BY <1>2, Zenon DEF ServerGetMusicName

(* A request for a list.                                                   *)
LEMMA GetMusicNameTypes ==
  ASSUME Types, NEW s \in Singers, NEW what \in Callers, GetMusicName(s, what), UNCHANGED commands
  PROVE  Types'
<1>1. CASE mode = "online" /\ AskServer(s, what)
  <2>1. /\ asked' = s /\ then' = what /\ list' = NoList /\ started' = FALSE /\ suspended' = FALSE
        /\ UNCHANGED <<mode, mounted, mixed, reporter, down>>
    BY <1>1 DEF AskServer, ClearMusicList, Stopped
  <2>2. main' \in Places /\ link' \in {"none", "up", "closed", "reset"}
    BY <1>1 DEF AskServer, Send, Places, Types, SpeakerOK
  <2>3. up' \in Seq(UpMessage)
    BY <1>1, MessageTypes DEF AskServer, Send, Types, MessagesOK
  <2> QED
    BY <2>1, <2>2, <2>3 DEF Types, SpeakerOK, MessagesOK
<1>2. CASE AskStick(s, what, mounted) /\ UNCHANGED <<mode, socketVars, up, down>>
  BY <1>2 DEF AskStick, Resume, Stopped, socketVars, Types, SpeakerOK, MessagesOK, Places
<1> QED
  BY <1>1, <1>2 DEF GetMusicName

(* Main without what it hears.                                             *)
LEMMA MainTypes ==
  ASSUME Types, MainSteps
  PROVE  Types'
<1>1. CASE GetReply
  <2>1. Head(down) \in DownMessage /\ down' \in Seq(DownMessage)
    BY <1>1 DEF GetReply, Types, MessagesOK
  <2>2. LinkMusicList(Head(down)) \in Singers \union {NoList, Blank}
    BY <2>1 DEF LinkMusicList, DownMessage, Types, SpeakerOK
  <2>3. /\ mixed' \in BOOLEAN /\ UNCHANGED <<mode, asked, mounted, reporter, up, commands>>
        /\ link' \in {"none", "up", "closed", "reset"}
    BY <1>1 DEF GetReply, UploadMusic, Types, SpeakerOK
  <2>4. CASE Resume(then, LinkMusicList(Head(down)))
    BY <2>1, <2>2, <2>3, <2>4 DEF Resume, Stopped, Types, SpeakerOK, MessagesOK, Places
  <2>5. CASE main' = "dead" /\ UNCHANGED <<then, list, playVars>>
    BY <2>1, <2>3, <2>5 DEF playVars, Types, SpeakerOK, MessagesOK, Places
  <2> QED
    BY <1>1, <2>4, <2>5 DEF GetReply
<1>2. CASE ListEnds
  <2>1. CASE list \in Singers /\ GetMusicName(list, "play")
    BY <1>2, <2>1, GetMusicNameTypes DEF ListEnds, Callers
  <2>2. CASE main' = "dead" /\ Stopped /\ UNCHANGED <<then, mode, listVars, socketVars, up, down>>
    BY <1>2, <2>2 DEF ListEnds, Stopped, listVars, socketVars, Types, SpeakerOK, MessagesOK, Places
  <2> QED
    BY <1>2, <2>1, <2>2 DEF ListEnds
<1>3. CASE Connected
  <2>1. PICK s \in Singers : up' = <<Get(s)>> /\ asked' = s
    BY <1>3, SingersAssumption DEF Connected
  <2>2. up' \in Seq(UpMessage) /\ down' \in Seq(DownMessage)
    BY <1>3, <2>1, MessageTypes DEF Connected
  <2> QED
    BY <1>3, <2>1, <2>2 DEF Connected, ClearMusicList, playVars, Types, SpeakerOK, MessagesOK, Places
<1>4. CASE Refused
  <2>1. mode' = "offline" /\ UNCHANGED <<reporter, link, commands, up, down>>
    BY <1>4 DEF Refused
  <2>2. CASE main' = "select" /\ UNCHANGED <<then, listVars, playVars>>
    BY <2>1, <2>2 DEF listVars, playVars, Types, SpeakerOK, MessagesOK, Places
  <2>3. CASE AskStick(Other, "online", mounted)
    BY <2>1, <2>3, SingersAssumption
       DEF AskStick, Resume, Stopped, Types, SpeakerOK, MessagesOK, Places, Callers
  <2> QED
    BY <1>4, <2>2, <2>3 DEF Refused
<1>5. CASE ReadSocket
  <2>1. down' \in Seq(DownMessage) /\ UNCHANGED <<then, mode, listVars, reporter, commands>>
    BY <1>5 DEF ReadSocket, Types, MessagesOK
  <2>2. /\ main' \in Places /\ started' \in BOOLEAN /\ suspended' \in BOOLEAN
        /\ link' \in {"none", "up", "closed", "reset"}
    BY <1>5 DEF ReadSocket, Obey, StartPlay, playVars, Types, SpeakerOK, Places
  <2>3. up' \in Seq(UpMessage)
    <3>1. \A what : Replies(what) \in Seq(UpMessage)
      BY MessageTypes DEF Replies
    <3>2. UNCHANGED up \/ \E what : up' = up \o Replies(what)
      BY <1>5 DEF ReadSocket
    <3>3. up \in Seq(UpMessage)
      BY DEF Types, MessagesOK
    <3> QED
      BY <3>1, <3>2, <3>3, Grows, Zenon
  <2> QED
    BY <2>1, <2>2, <2>3 DEF listVars, Types, SpeakerOK, MessagesOK
<1>6. CASE EndOfData
  BY <1>6 DEF EndOfData, playVars, listVars, socketVars, Types, SpeakerOK, MessagesOK, Places
<1> QED
  BY <1>1, <1>2, <1>3, <1>4, <1>5, <1>6 DEF MainSteps

(* The reporter, the server and the apps.                                  *)
LEMMA AroundTypes ==
  ASSUME Types, Report \/ Server
  PROVE  Types'
<1>1. CASE Report
  BY <1>1 DEF Report, playVars, listVars, Types, SpeakerOK, MessagesOK, Places
<1>2. CASE Server
  <2>1. UNCHANGED <<main, then, mode, playVars, listVars, reporter>>
    BY <1>2 DEF Server, Serve, ServerCloses, AppSends, socketVars
  <2>2. link' \in {"none", "up", "closed", "reset"}
    BY <1>2 DEF Server, Serve, ServerCloses, AppSends, socketVars, Types, SpeakerOK
  <2>3. ASSUME Serve
        PROVE  MessagesOK'
    <3>1. Head(up) \in UpMessage /\ up' \in Seq(UpMessage) /\ UNCHANGED commands
      BY <2>3 DEF Serve, Types, MessagesOK
    <3>2. ServerGetMusicName(Head(up).singer) \in Seq(DownMessage)
      BY <3>1, ServerAnswers DEF UpMessage
    <3>3. down \in Seq(DownMessage) /\ Plain("offline") \in DownMessage
      BY MessageTypes DEF Types, MessagesOK
    <3>4. \/ down' = down \o ServerGetMusicName(Head(up).singer)
          \/ UNCHANGED down
          \/ down' = Append(down, Plain("offline"))
      BY <2>3 DEF Serve
    <3>5. Append(down, Plain("offline")) \in Seq(DownMessage)
      BY <3>3
    <3>6. down' \in Seq(DownMessage)
      BY <3>2, <3>3, <3>4, <3>5, Grows, Zenon
    <3>7. commands \in Nat
      BY DEF Types, MessagesOK
    <3> QED
      BY <3>1, <3>6, <3>7 DEF MessagesOK
  <2>4. ASSUME ServerCloses
        PROVE  MessagesOK'
    <3>1. up' = <<>> /\ UNCHANGED <<down, commands>>
      BY <2>4 DEF ServerCloses
    <3>2. <<>> \in Seq(UpMessage)
      OBVIOUS
    <3>3. up' \in Seq(UpMessage)
      BY <3>1, <3>2, Zenon
    <3> QED
      BY <3>1, <3>3 DEF Types, MessagesOK
  <2>5. ASSUME \E c \in Commands : AppSends(c)
        PROVE  MessagesOK'
    <3>1. PICK c \in Commands : AppSends(c)
      BY <2>5
    <3>2. Plain(c) \in DownMessage /\ down \in Seq(DownMessage)
      BY MessageTypes DEF Types, MessagesOK
    <3>3. down' = Append(down, Plain(c)) /\ commands' = commands - 1 /\ commands > 0
      BY <3>1 DEF AppSends
    <3>4. UNCHANGED up /\ up \in Seq(UpMessage) /\ commands \in Nat
      BY <3>1 DEF AppSends, Types, MessagesOK
    <3>5. down' \in Seq(DownMessage)
      BY <3>2, <3>3
    <3> QED
      BY <3>3, <3>4, <3>5 DEF MessagesOK
  <2> QED
    BY <1>2, <2>1, <2>2, <2>3, <2>4, <2>5 DEF Server, playVars, listVars, Types, SpeakerOK
<1> QED
  BY <1>1, <1>2

(* Main and what it hears.                                                 *)
LEMMA ProcessTypes ==
  ASSUME Types, main = "select", NEW words, Process(words), UNCHANGED commands
  PROVE  Types'
<1> USE DEF Places, Callers
<1>1. CASE Popen /\ UNCHANGED <<Fixed, started>> /\ suspended' \in BOOLEAN
  BY <1>1 DEF Popen, Fixed, listVars, Types, SpeakerOK, MessagesOK
<1>2. CASE \E what : Obey(what) /\ UNCHANGED Fixed
  <2>1. main' \in Places /\ started' \in BOOLEAN /\ suspended' \in BOOLEAN
    BY <1>2 DEF Obey, StartPlay, playVars, Types, SpeakerOK
  <2>2. UNCHANGED <<then, mode, list, asked, mixed, mounted, reporter, link, up, down>>
    BY <1>2 DEF Fixed, listVars
  <2> QED
    BY <2>1, <2>2 DEF Types, SpeakerOK, MessagesOK
<1>3. CASE \E s \in words \intersect Names : GetMusicName(s, "play")
  BY <1>3, GetMusicNameTypes DEF Names
<1>4. CASE ChangeOfflineMode
  <2>1. CASE UNCHANGED <<main, then, mode, playVars, listVars, socketVars, up, down>>
    BY <2>1 DEF playVars, listVars, socketVars, Types, SpeakerOK, MessagesOK
  <2>2. CASE mode = "online"
    <3>1. mode' = "offline" /\ ~reporter' /\ reporter' \in BOOLEAN /\ link' = "none"
      BY <1>4, <2>2 DEF ChangeOfflineMode, CancelReporter
    <3>2. MessagesOK'
      <4>1. up' = <<>> /\ down' = <<>>
        BY <1>4, <2>2 DEF ChangeOfflineMode
      <4>2. <<>> \in Seq(UpMessage) /\ <<>> \in Seq(DownMessage)
        OBVIOUS
      <4>3. up' \in Seq(UpMessage) /\ down' \in Seq(DownMessage)
        BY <4>1, <4>2, Zenon
      <4> QED
        BY <4>3 DEF Types, MessagesOK
    <3>3. CASE Stopped /\ UNCHANGED <<main, then, listVars>>
      BY <3>1, <3>2, <3>3 DEF Stopped, listVars, Types, SpeakerOK
    <3>4. CASE \E there \in BOOLEAN : AskStick(Local, "offline", there)
      BY <3>1, <3>2, <3>4, SingersAssumption DEF AskStick, Resume, Stopped, Types, SpeakerOK
    <3> QED
      BY <1>4, <2>2, <3>3, <3>4 DEF ChangeOfflineMode
  <2> QED
    BY <1>4, <2>1, <2>2 DEF ChangeOfflineMode
<1>5. CASE ChangeOnlineMode
  <2>1. main' \in Places /\ then' \in Callers /\ started' \in BOOLEAN /\ suspended' \in BOOLEAN
    BY <1>5 DEF ChangeOnlineMode, Stopped, playVars, Types, SpeakerOK
  <2>2. UNCHANGED <<mode, list, asked, mixed, mounted, reporter, link, up, down>>
    BY <1>5 DEF ChangeOnlineMode, listVars, socketVars
  <2> QED
    BY <2>1, <2>2 DEF Types, SpeakerOK, MessagesOK
<1>6. CASE main' \in {"select", "chat"} /\ UNCHANGED <<Fixed, playVars>>
  BY <1>6 DEF Fixed, playVars, listVars, Types, SpeakerOK, MessagesOK
<1>7. Process(words) => \/ Popen /\ UNCHANGED <<Fixed, started>> /\ suspended' \in BOOLEAN
                        \/ \E what : Obey(what) /\ UNCHANGED Fixed
                        \/ \E s \in words \intersect Names : GetMusicName(s, "play")
                        \/ ChangeOfflineMode \/ ChangeOnlineMode
                        \/ main' \in {"select", "chat"} /\ UNCHANGED <<Fixed, playVars>>
  BY DEF Process, TtsStop, ChangeVoice, playVars, Types, SpeakerOK
<1> QED
  BY <1>1, <1>2, <1>3, <1>4, <1>5, <1>6, <1>7

(* The ears: what is written to the fifo is an utterance.                  *)
LEMMA EarsTypes ==
  ASSUME EarsOK, [Next]_vars
  PROVE  EarsOK'
<1>1. CASE Ears
  <2>1. ASSUME NEW u \in Utterances \union {Trigger}, Says(u)
        PROVE  asr' \in Seq(Utterances \union {Trigger}) /\ talk' \in Nat
    BY <2>1 DEF Says, EarsOK
  <2>2. CASE SherpaKws
    BY <2>1, <2>2 DEF SherpaKws, EarsOK
  <2>3. CASE \E u \in Utterances : SherpaAsr(u)
    BY <2>1, <2>3 DEF SherpaAsr, EarsOK
  <2>4. CASE AsrQuits
    BY <2>4 DEF AsrQuits, EarsOK
  <2> QED
    BY <1>1, <2>2, <2>3, <2>4 DEF Ears
<1>2. CASE ReadAsrFifo
  <2>1. <<>> \in Seq(Utterances \union {Trigger})
    OBVIOUS
  <2>2. asr' = <<>> /\ UNCHANGED <<hears, talk>>
    BY <1>2 DEF ReadAsrFifo
  <2>3. asr' \in Seq(Utterances \union {Trigger})
    BY <2>1, <2>2, Zenon
  <2> QED
    BY <2>2, <2>3 DEF EarsOK
<1>3. CASE UNCHANGED earVars
  BY <1>3 DEF EarsOK, earVars
<1> QED
  BY <1>1, <1>2, <1>3 DEF Next, Main, Around, AsrEnds, ChatEnds, Mouth, vars

(* Every step keeps the types of the speaker and of the messages.          *)
LEMMA NextTypes ==
  ASSUME Types, [Next]_vars
  PROVE  Types'
<1>1. CASE Main
  BY <1>1, MainTypes DEF Main
<1>2. CASE Around
  BY <1>2, AroundTypes DEF Around
<1>3. CASE ReadAsrFifo
  BY <1>3, ProcessTypes DEF ReadAsrFifo, CanReadAsr
<1>4. CASE AsrEnds \/ ChatEnds
  BY <1>4 DEF AsrEnds, ChatEnds, playVars, listVars, socketVars, Types, SpeakerOK, MessagesOK, Places
<1>5. CASE UNCHANGED <<main, then, mode, playVars, listVars, socketVars, up, down, commands>>
  BY <1>5 DEF playVars, listVars, socketVars, Types, SpeakerOK, MessagesOK
<1> QED
  BY <1>1, <1>2, <1>3, <1>4, <1>5 DEF Next, Ears, Mouth, Unlinked, linkVars, vars

(* The first state.                                                        *)
LEMMA InitTypes == Init => Types /\ EarsOK
<1> SUFFICES ASSUME Init
             PROVE  Types /\ EarsOK
  OBVIOUS
<1>1. up = <<>> /\ down = <<>> /\ asr = <<>>
  BY DEF Init, LinkInit
<1>2. /\ <<>> \in Seq(UpMessage) /\ <<>> \in Seq(DownMessage)
      /\ <<>> \in Seq(Utterances \union {Trigger})
  OBVIOUS
<1>3. /\ up \in Seq(UpMessage) /\ down \in Seq(DownMessage)
      /\ asr \in Seq(Utterances \union {Trigger})
  BY <1>1, <1>2, Zenon
<1>4. SpeakerOK
  BY DEF Init, LinkInit, SpeakerOK, Places, Callers
<1>5. commands \in Nat /\ talk \in Nat /\ hears = "kws"
  BY CommandsAssumption, TalkAssumption DEF Init, LinkInit
<1> QED
  BY <1>3, <1>4, <1>5 DEF Types, MessagesOK, EarsOK

(* All variables keep their types.                                         *)
THEOREM TypeCorrect == SafetySpec => []TypeOK
<1> DEFINE Inv == LinkInv /\ MouthInv /\ Types /\ EarsOK
<1>1. Init => Inv
  BY InitLink, InitMouth, InitTypes
<1>2. Inv /\ [Next]_vars => Inv'
  BY NextLink, NextMouth, NextTypes, EarsTypes
<1>3. Inv => TypeOK
  BY DEF LinkInv, MouthInv, Types, EarsOK, TypeOK, VoiceOK, Numbers, FifoOK, MouthOK
<1> QED
  BY <1>1, <1>2, <1>3, PTL DEF SafetySpec

-----------------------------------------------------------------------------
(* Lists. One request at a time is out, and its answer is the list asked   *)
(* for, unless main takes another message for it.                          *)

Requests == {i \in DOMAIN up : up[i].kind = "get"}
Answers == {i \in DOMAIN down : down[i].kind \in {"list", "null"}}

(* A player that is started has a list; it stops before it asks.           *)
PlayOK == /\ started => list # NoList
          /\ main \in {"connect", "await"} => ~started

(* Where main waits for a list, and where it has none of its own yet.      *)
AskOK == /\ main = "await" => mode = "online" /\ list = NoList
         /\ mode = "none" => main \in {"connect", "dead"}
         /\ mode = "online" => asked # Blank

HasList == list = asked \/ (list = NoList /\ asked \notin OnServer)
RequestOK == \A i \in Requests : /\ main = "await" /\ up[i].singer = asked
                                 /\ Answers = {}
                                 /\ \A j \in Requests : i = j
AnswerOK == \A i \in Answers : /\ main = "await"
                               /\ down[i].kind = "list" => down[i].singer = asked
                               /\ down[i].kind = "null" => asked \notin OnServer
                               /\ \A j \in Answers : i = j
ListsOK == main \notin {"spins", "dead"} /\ ~mixed =>
             /\ RequestOK /\ AnswerOK
             /\ main # "await" => HasList

ListInv == PlayOK /\ AskOK /\ ListsOK /\ Survives

(* The first message of a wire goes, and the others move up.               *)
LEMMA TakenDown ==
  ASSUME Types, down # <<>>, down' = Tail(down)
  PROVE  /\ \A i \in Answers' : i + 1 \in Answers /\ i + 1 # 1 /\ down'[i] = down[i + 1]
         /\ Head(down).kind \in {"list", "null"} => 1 \in Answers /\ Head(down) = down[1]
<1>1. down \in Seq(DownMessage)
  BY DEF Types, MessagesOK
<1>2. Len(down) \in Nat \ {0} /\ DOMAIN down = 1..Len(down) /\ Head(down) = down[1]
  BY <1>1
<1>3. DOMAIN down' = 1..(Len(down) - 1) /\ \A i \in DOMAIN down' : down'[i] = down[i + 1]
  BY <1>1, <1>2
<1> QED
  BY <1>2, <1>3 DEF Answers

LEMMA TakenUp ==
  ASSUME Types, up # <<>>, up' = Tail(up)
  PROVE  /\ \A i \in Requests' : i + 1 \in Requests /\ i + 1 # 1 /\ up'[i] = up[i + 1]
         /\ Head(up).kind = "get" => 1 \in Requests /\ Head(up) = up[1]
<1>1. up \in Seq(UpMessage)
  BY DEF Types, MessagesOK
<1>2. Len(up) \in Nat \ {0} /\ DOMAIN up = 1..Len(up) /\ Head(up) = up[1]
  BY <1>1
<1>3. DOMAIN up' = 1..(Len(up) - 1) /\ \A i \in DOMAIN up' : up'[i] = up[i + 1]
  BY <1>1, <1>2
<1> QED
  BY <1>2, <1>3 DEF Requests

(* Other messages than requests and lists change neither.                  *)
LEMMA OtherDown ==
  ASSUME Types, NEW m, m.kind \notin {"list", "null"}, down' = Append(down, m)
  PROVE  Answers' = Answers /\ \A i \in Answers : down'[i] = down[i]
<1>1. down \in Seq(DownMessage)
  BY DEF Types, MessagesOK
<1>2. /\ Len(down) \in Nat /\ DOMAIN down = 1..Len(down)
      /\ DOMAIN down' = 1..(Len(down) + 1)
      /\ \A i \in DOMAIN down : down'[i] = down[i]
      /\ down'[Len(down) + 1] = m
  BY <1>1
<1> QED
  BY <1>2 DEF Answers

LEMMA OtherUp ==
  ASSUME Types, NEW m, m.kind # "get", up' = Append(up, m)
  PROVE  Requests' = Requests /\ \A i \in Requests : up'[i] = up[i]
<1>1. up \in Seq(UpMessage)
  BY DEF Types, MessagesOK
<1>2. /\ Len(up) \in Nat /\ DOMAIN up = 1..Len(up)
      /\ DOMAIN up' = 1..(Len(up) + 1)
      /\ \A i \in DOMAIN up : up'[i] = up[i]
      /\ up'[Len(up) + 1] = m
  BY <1>1
<1> QED
  BY <1>2 DEF Requests

(* Main waits in await only while a request or its answer is out.          *)
LEMMA NothingIsOut ==
  ASSUME ListsOK, ~mixed, main \in {"select", "connect", "chat"}
  PROVE  Requests = {} /\ Answers = {} /\ HasList
BY DEF ListsOK, RequestOK, AnswerOK

LEMMA EmptyUp == up = <<>> => Requests = {}
BY DEF Requests

LEMMA EmptyDown == down = <<>> => Answers = {}
BY DEF Answers

(* Whoever dies, or ends in the loop, does not care for lists any more.    *)
LEMMA ListsOver ==
  ASSUME main' \in {"spins", "dead"}
  PROVE  ListsOK'
BY DEF ListsOK

(* A request for a list, which is then the only one.                       *)
LEMMA RequestGoesOut ==
  ASSUME Types, ListsOK, main \in {"select", "connect"}, NEW s \in Singers,
         asked' = s, main' = "await", UNCHANGED <<mixed, down>>,
         UNCHANGED up \/ up' = Append(up, Get(s))
  PROVE  ListsOK'
<1> SUFFICES ASSUME ~mixed
             PROVE  ListsOK'
  BY DEF ListsOK
<1>1. Requests = {} /\ Answers = {}
  BY NothingIsOut
<1>2. Answers' = {}
  BY <1>1 DEF Answers
<1>3. CASE UNCHANGED up
  BY <1>1, <1>2, <1>3 DEF Requests, ListsOK, RequestOK, AnswerOK
<1>4. CASE up' = Append(up, Get(s))
  <2>1. up \in Seq(UpMessage)
    BY DEF Types, MessagesOK
  <2>2. /\ Len(up) \in Nat /\ DOMAIN up' = 1..(Len(up) + 1)
        /\ \A i \in 1..Len(up) : up'[i] = up[i] /\ i \in DOMAIN up
        /\ up'[Len(up) + 1] = Get(s)
    BY <2>1, <1>4
  <2>3. \A i \in Requests' : i = Len(up) + 1 /\ up'[i].singer = s
    BY <2>2, <1>1 DEF Requests, Get
  <2> QED
    BY <2>3, <1>2 DEF ListsOK, RequestOK, AnswerOK
<1> QED
  BY <1>3, <1>4

(* The stick is asked: its answer comes at once.                           *)
LEMMA StickLists ==
  ASSUME Types, ListInv, NEW s \in Singers, NEW what \in Callers, NEW there \in BOOLEAN,
         main \in {"select", "connect"}, mode' = "offline", AskStick(s, what, there),
         \/ UNCHANGED <<up, down>>
         \/ up' = <<>> /\ down' = <<>>
  PROVE  ListInv'
<1>1. asked' = s /\ mounted' = there /\ UNCHANGED mixed
  BY DEF AskStick
<1>2. s # NoList /\ s # Blank
  BY SingersAssumption
<1>3. CASE there /\ s \in OnStick /\ Resume(what, s)
  <2>1. list' = s /\ main' = "select" /\ started' \in BOOLEAN
    BY <1>3, <1>2 DEF Resume, Stopped
  <2>2. ListsOK'
    <3> SUFFICES ASSUME ~mixed
                 PROVE  ListsOK'
      BY <1>1 DEF ListsOK
    <3>1. Requests = {} /\ Answers = {}
      BY NothingIsOut DEF ListInv
    <3>2. Requests' = {} /\ Answers' = {}
      BY <3>1 DEF Requests, Answers
    <3> QED
      BY <3>2, <2>1, <1>1 DEF ListsOK, RequestOK, AnswerOK, HasList
  <2>3. PlayOK' /\ AskOK' /\ Survives'
    BY <2>1, <1>1, <1>2 DEF PlayOK, AskOK, Survives
  <2> QED
    BY <2>2, <2>3 DEF ListInv
<1>4. CASE /\ ~there \/ s \notin OnStick
           /\ main' = "dead" /\ list' = NoList /\ Stopped
  <2>1. PlayOK' /\ AskOK'
    BY <1>4, <1>1, <1>2 DEF PlayOK, AskOK, Stopped
  <2>2. Survives'
    BY <1>4, <1>1 DEF Survives, NoSongs
  <2> QED
    BY <1>4, <2>1, <2>2, ListsOver DEF ListInv
<1> QED
  BY <1>3, <1>4 DEF AskStick

(* A list is asked for in select.                                          *)
LEMMA GetMusicNameLists ==
  ASSUME Types, ListInv, main = "select", NEW s \in Singers, NEW what \in Callers,
         GetMusicName(s, what)
  PROVE  ListInv'
<1>1. CASE mode = "offline" /\ AskStick(s, what, mounted) /\ UNCHANGED <<mode, socketVars, up, down>>
  BY <1>1, StickLists DEF Types, SpeakerOK
<1>2. CASE mode = "online" /\ AskServer(s, what)
  <2>1. /\ asked' = s /\ list' = NoList /\ started' = FALSE
        /\ UNCHANGED <<mode, mixed, down>>
    BY <1>2 DEF AskServer, ClearMusicList, Stopped
  <2>2. s # Blank
    BY SingersAssumption
  <2>3. CASE main' = "await" /\ (UNCHANGED up \/ up' = Append(up, Get(s)))
    <3>1. PlayOK' /\ AskOK' /\ Survives'
      BY <1>2, <2>1, <2>2, <2>3 DEF PlayOK, AskOK, Survives
    <3> QED
      BY <2>1, <2>3, <3>1, RequestGoesOut DEF ListInv
  <2>4. CASE main' = "dead" /\ link = "reset" /\ UNCHANGED link
    <3>1. PlayOK' /\ AskOK' /\ Survives'
      BY <1>2, <2>1, <2>2, <2>4 DEF PlayOK, AskOK, Survives
    <3> QED
      BY <2>4, <3>1, ListsOver DEF ListInv
  <2> QED
    BY <1>2, <2>3, <2>4 DEF AskServer, Send
<1> QED
  BY <1>1, <1>2 DEF GetMusicName

(* The answer has come, or something that main takes for it.               *)
LEMMA GetReplyLists ==
  ASSUME Types, ListInv, GetReply
  PROVE  ListInv'
<1> DEFINE m == Head(down)
           l == LinkMusicList(m)
<1>1. /\ main = "await" /\ down # <<>> /\ down' = Tail(down)
      /\ mixed' = (mixed \/ m.kind \notin {"list", "null"})
      /\ UNCHANGED <<mode, asked, mounted, up, open>>
  BY DEF GetReply, fdVars
<1>2. mode = "online" /\ list = NoList /\ ~started /\ asked # Blank /\ asked \in Singers
  BY <1>1 DEF ListInv, AskOK, PlayOK, Types, SpeakerOK
<1>3. asked # NoList
  BY <1>2, SingersAssumption
<1>4. CASE Resume(then, l)
  <2>1. list' = l /\ main' \in {"select", "dead"} /\ (started' => l # NoList)
        /\ (main' = "dead" => l = NoList)
    BY <1>4 DEF Resume, Stopped
  <2>2. ASSUME ~mixed'
        PROVE  Requests' = {} /\ Answers' = {} /\ HasList'
    <3>1. ~mixed /\ m.kind \in {"list", "null"} /\ 1 \in Answers /\ m = down[1]
      BY <1>1, <2>2, TakenDown
    <3>2. RequestOK /\ AnswerOK
      BY <1>1, <3>1 DEF ListInv, ListsOK
    <3>3. Requests = {} /\ Requests' = {}
      BY <3>1, <3>2, <1>1 DEF RequestOK, Requests
    <3>4. Answers' = {}
      BY <1>1, <3>1, <3>2, TakenDown DEF AnswerOK
    <3>5. HasList'
      BY <1>1, <1>2, <2>1, <3>1, <3>2 DEF HasList, AnswerOK, LinkMusicList
    <3> QED
      BY <3>3, <3>4, <3>5
  <2>3. ListsOK'
    BY <2>2, <2>1 DEF ListsOK, RequestOK, AnswerOK
  <2>4. PlayOK' /\ AskOK'
    BY <1>1, <1>2, <2>1 DEF PlayOK, AskOK
  <2>5. Survives'
    BY <1>1, <1>3, <2>1, <2>2 DEF Survives, NoSongs, HasList
  <2> QED
    BY <2>3, <2>4, <2>5 DEF ListInv
<1>5. CASE /\ m.kind = "offline" \/ link' = "reset"
           /\ main' = "dead" /\ UNCHANGED <<list, playVars>>
  <2>1. PlayOK' /\ AskOK' /\ Survives'
    BY <1>1, <1>2, <1>5 DEF PlayOK, AskOK, Survives, playVars
  <2> QED
    BY <1>5, <2>1, ListsOver DEF ListInv
<1> QED
  BY <1>4, <1>5 DEF GetReply

(* A list that ends.                                                       *)
LEMMA ListEndsLists ==
  ASSUME Types, ListInv, ListEnds
  PROVE  ListInv'
<1>1. CASE list \in Singers /\ GetMusicName(list, "play")
  BY <1>1, GetMusicNameLists DEF ListEnds, Callers
<1>2. CASE /\ list \notin Singers /\ main' = "dead" /\ Stopped
           /\ UNCHANGED <<mode, listVars>>
  <2>1. main = "select" /\ list # NoList /\ list = Blank
    BY <1>2 DEF ListEnds, ListInv, PlayOK, Types, SpeakerOK
  <2>2. ASSUME ~mixed
        PROVE  asked = Blank /\ mode = "offline"
    <3>1. asked = Blank
      BY <2>1, <2>2, NothingIsOut DEF ListInv, HasList
    <3> QED
      BY <3>1, <2>1 DEF ListInv, AskOK, Types, SpeakerOK
  <2>3. Survives'
    BY <2>2, <1>2, BlankAssumption DEF Survives, NoSongs, listVars
  <2>4. PlayOK' /\ AskOK'
    BY <1>2, <2>1 DEF ListInv, PlayOK, AskOK, Stopped, listVars
  <2> QED
    BY <1>2, <2>3, <2>4, ListsOver DEF ListInv
<1> QED
  BY <1>1, <1>2 DEF ListEnds

(* A new connection brings nothing old with it.                            *)
LEMMA ConnectedLists ==
  ASSUME Types, ListInv, Connected
  PROVE  ListInv'
<1>1. PICK s \in Singers : up' = <<Get(s)>> /\ asked' = s
  BY SingersAssumption DEF Connected
<1>2. /\ main = "connect" /\ main' = "await" /\ mode' = "online" /\ list' = NoList
      /\ down' = <<>> /\ UNCHANGED <<started, mixed>>
  BY DEF Connected, ClearMusicList, playVars
<1>3. ~started /\ s # Blank
  BY <1>2, SingersAssumption DEF ListInv, PlayOK
<1>4. Answers' = {} /\ \A i \in Requests' : i = 1 /\ up'[i].singer = s
  <2>1. Answers' = {}
    BY <1>2 DEF Answers
  <2>2. DOMAIN up' = {1} /\ up'[1] = Get(s)
    BY <1>1
  <2> QED
    BY <2>1, <2>2 DEF Requests, Get
<1>5. ListsOK'
  BY <1>1, <1>2, <1>4 DEF ListsOK, RequestOK, AnswerOK
<1>6. PlayOK' /\ AskOK' /\ Survives'
  BY <1>1, <1>2, <1>3 DEF PlayOK, AskOK, Survives
<1> QED
  BY <1>5, <1>6 DEF ListInv

(* Main is back in select, or goes to chat, as it was.                     *)
LEMMA QuietLists ==
  ASSUME Types, ListInv, main \in {"connect", "select", "chat"},
         main' \in {"select", "chat", "connect"}, mode' # "none", mode' = "online" => mode = "online",
         UNCHANGED listVars, started' => list # NoList, main' = "connect" => ~started',
         Requests = {} => Requests' = {}, Answers = {} => Answers' = {}
  PROVE  ListInv'
<1>1. PlayOK' /\ AskOK' /\ Survives'
  BY DEF ListInv, PlayOK, AskOK, Survives, listVars
<1>2. ListsOK'
  <2> SUFFICES ASSUME ~mixed
               PROVE  ListsOK'
    BY DEF ListsOK, listVars
  <2>1. Requests' = {} /\ Answers' = {} /\ HasList
    BY NothingIsOut DEF ListInv
  <2>2. HasList'
    BY <2>1 DEF HasList, listVars
  <2> QED
    BY <2>1, <2>2 DEF ListsOK, RequestOK, AnswerOK
<1> QED
  BY <1>1, <1>2 DEF ListInv

(* A refused connection: at first nothing is asked for, later the stick.   *)
LEMMA RefusedLists ==
  ASSUME Types, ListInv, Refused
  PROVE  ListInv'
<1>1. main = "connect" /\ mode' = "offline" /\ UNCHANGED <<up, down>>
  BY DEF Refused
<1>2. CASE main' = "select" /\ UNCHANGED <<listVars, playVars>>
  <2>1. ~started'
    BY <1>1, <1>2 DEF ListInv, PlayOK, playVars
  <2>2. Requests' = Requests /\ Answers' = Answers
    BY <1>1 DEF Requests, Answers
  <2> QED
    BY <1>1, <1>2, <2>1, <2>2, QuietLists
<1>3. CASE AskStick(Other, "online", mounted)
  BY <1>1, <1>3, StickLists, SingersAssumption DEF Types, SpeakerOK, Callers
<1> QED
  BY <1>2, <1>3 DEF Refused

(* What an app or the user tells the player.                               *)
LEMMA ObeyLists ==
  ASSUME Types, ListInv, main = "select", NEW what, Obey(what)
  PROVE  /\ started' => list # NoList
         /\ main' = main \/ (main' = "dead" /\ list = NoList /\ UNCHANGED playVars)
BY DEF Obey, StartPlay, ListInv, PlayOK, playVars

(* Death in select, at the hands of a command.                             *)
LEMMA DeathLists ==
  ASSUME Types, ListInv, main = "select", main' = "dead",
         UNCHANGED <<mode, listVars, started>>,
         \/ list = NoList
         \/ link = "reset" /\ UNCHANGED link
         \/ ~CanPopen /\ UNCHANGED open
  PROVE  ListInv'
<1>1. PlayOK' /\ AskOK'
  BY DEF ListInv, PlayOK, AskOK, listVars
<1>2. Survives'
  <2>1. CASE list = NoList
    <3>1. asked # NoList
      BY SingersAssumption DEF Types, SpeakerOK
    <3>2. mixed \/ asked \notin OnServer
      BY <2>1, <3>1, NothingIsOut DEF ListInv, HasList
    <3> QED
      BY <2>1, <3>2 DEF Survives, NoSongs, listVars
  <2>2. CASE link = "reset" /\ UNCHANGED link
    BY <2>2 DEF Survives
  <2>3. CASE ~CanPopen /\ UNCHANGED open
    BY <2>3 DEF Survives, CanPopen, Free
  <2> QED
    BY <2>1, <2>2, <2>3
<1> QED
  BY <1>1, <1>2, ListsOver DEF ListInv

(* A message of an app.                                                    *)
LEMMA ReadSocketLists ==
  ASSUME Types, ListInv, ReadSocket
  PROVE  ListInv'
<1>1. /\ main = "select" /\ down # <<>> /\ down' = Tail(down)
      /\ UNCHANGED <<mode, listVars, open>> /\ mode # "none"
  BY DEF ReadSocket, fdVars, ListInv, AskOK
<1>2. Answers = {} => Answers' = {}
  BY <1>1, TakenDown
<1>3. CASE main' = "select"
  <2>1. Requests = {} => Requests' = {}
    <3>1. \E m : (m.kind # "get" /\ up' = Append(up, m)) \/ UNCHANGED up
      <4>1. \A what : Replies(what) = <<>> \/ Replies(what) = <<Answer>>
        BY DEF Replies
      <4>2. up \in Seq(UpMessage)
        BY DEF Types, MessagesOK
      <4>3. up \o <<>> = up /\ up \o <<Answer>> = Append(up, Answer)
        BY <4>2
      <4>4. Answer.kind # "get"
        BY DEF Answer
      <4> QED
        BY <4>1, <4>3, <4>4 DEF ReadSocket
    <3> QED
      BY <3>1, OtherUp DEF Requests
  <2>2. started' => list # NoList
    <3>1. (\E what : Obey(what)) \/ UNCHANGED started
      BY <1>3 DEF ReadSocket, playVars
    <3> QED
      BY <3>1, <1>1, ObeyLists DEF ListInv, PlayOK
  <2> QED
    BY <1>1, <1>2, <1>3, <2>1, <2>2, QuietLists
<1>4. CASE main' = "dead"
  <2>1. UNCHANGED started /\ (list = NoList \/ ~CanPopen \/ (link = "reset" /\ UNCHANGED link))
    BY <1>1, <1>4 DEF ReadSocket, playVars
  <2> QED
    BY <1>1, <1>4, <2>1, DeathLists
<1> QED
  BY <1>1, <1>3, <1>4 DEF ReadSocket

(* The end of the data leaves the lists as they are, for ever.             *)
LEMMA EndOfDataLists ==
  ASSUME Types, ListInv, EndOfData
  PROVE  ListInv'
<1>1. main' = "spins" /\ main \in {"await", "select"} /\ UNCHANGED <<mode, playVars, listVars>>
  BY DEF EndOfData
<1>2. PlayOK' /\ AskOK' /\ Survives'
  BY <1>1 DEF ListInv, PlayOK, AskOK, Survives, playVars, listVars
<1> QED
  BY <1>1, <1>2, ListsOver DEF ListInv

(* Steps that have nothing to do with lists.                               *)
LEMMA SameLists ==
  ASSUME ListInv,
         UNCHANGED <<main, mode, started, listVars, up, down>>,
         main = "dead" => UNCHANGED open /\ (link = "reset" => link' = "reset")
  PROVE  ListInv'
<1>1. PlayOK' /\ AskOK'
  BY DEF ListInv, PlayOK, AskOK, listVars
<1>2. ListsOK'
  BY DEF ListInv, ListsOK, RequestOK, AnswerOK, Requests, Answers, HasList, listVars
<1>3. Survives'
  BY DEF ListInv, Survives, NoSongs, CanPopen, Free, listVars
<1> QED
  BY <1>1, <1>2, <1>3 DEF ListInv

(* The reporter may kill the process.                                      *)
LEMMA ReportLists ==
  ASSUME ListInv, Report
  PROVE  ListInv'
<1>1. main # "dead" /\ UNCHANGED <<mode, started, listVars, up, down>>
  BY DEF Report, playVars
<1>2. CASE main' = main
  BY <1>1, <1>2, SameLists
<1>3. CASE main' = "dead" /\ link = "reset" /\ UNCHANGED link
  <2>1. PlayOK' /\ AskOK' /\ Survives'
    BY <1>1, <1>3 DEF ListInv, PlayOK, AskOK, Survives, listVars
  <2> QED
    BY <1>3, <2>1, ListsOver DEF ListInv
<1> QED
  BY <1>2, <1>3 DEF Report

(* The server answers the one request that is out.                         *)
LEMMA ServeLists ==
  ASSUME Types, ListInv, Serve
  PROVE  ListInv'
<1> DEFINE m == Head(up)
<1>1. /\ up # <<>> /\ up' = Tail(up)
      /\ UNCHANGED <<main, mode, started, listVars, open, link>>
  BY DEF Serve, playVars, socketVars, fdVars
<1>2. PlayOK' /\ AskOK' /\ Survives'
  BY <1>1 DEF ListInv, PlayOK, AskOK, Survives, NoSongs, CanPopen, Free, listVars
<1>3. ASSUME main \notin {"spins", "dead"}, ~mixed
      PROVE  RequestOK' /\ AnswerOK'
  <2>0. RequestOK /\ AnswerOK
    BY <1>3 DEF ListInv, ListsOK
  <2>1. CASE m.kind = "get" /\ down' = down \o ServerGetMusicName(m.singer)
    <3>1. /\ main = "await" /\ m.singer = asked /\ Answers = {}
          /\ \A i \in Requests : i = 1
      BY <1>1, <2>0, <2>1, TakenUp DEF RequestOK
    <3>2. Requests' = {}
      BY <1>1, <3>1, TakenUp
    <3>3. PICK a : /\ ServerGetMusicName(m.singer) = <<a>>
                   /\ a.kind = "list" => a.singer = asked
                   /\ a.kind = "null" => asked \notin OnServer
      BY <3>1 DEF ServerGetMusicName, ListOf, Plain
    <3>4. /\ down \in Seq(DownMessage) /\ Len(down) \in Nat
          /\ down \o <<a>> = Append(down, a)
      BY DEF Types, MessagesOK
    <3>5. /\ DOMAIN down' = 1..(Len(down) + 1) /\ down'[Len(down) + 1] = a
          /\ \A i \in 1..Len(down) : down'[i] = down[i] /\ i \in DOMAIN down
      <4>1. down' = Append(down, a)
        BY <2>1, <3>3, <3>4
      <4>2. /\ DOMAIN Append(down, a) = 1..(Len(down) + 1)
            /\ Append(down, a)[Len(down) + 1] = a
            /\ \A i \in 1..Len(down) : Append(down, a)[i] = down[i] /\ i \in DOMAIN down
        BY <3>4
      <4> QED
        BY <4>1, <4>2
    <3>6. \A i \in Answers' : i = Len(down) + 1 /\ down'[i] = a
      BY <3>1, <3>5 DEF Answers
    <3> QED
      BY <1>1, <3>1, <3>2, <3>3, <3>6 DEF RequestOK, AnswerOK, listVars
  <2>2. CASE m.kind = "reply" /\ (UNCHANGED down \/ down' = Append(down, Plain("offline")))
    <3>1. \A i \in Requests' : i + 1 \in Requests /\ up'[i] = up[i + 1]
      BY <1>1, TakenUp
    <3>2. Answers' = Answers /\ \A i \in Answers : down'[i] = down[i]
      BY <2>2, OtherDown DEF Plain, Answers
    <3>3. AnswerOK'
      BY <1>1, <2>0, <3>2 DEF AnswerOK, listVars
    <3>4. \A i \in Requests' : i \in Int
      <4>1. up \in Seq(UpMessage)
        BY DEF Types, MessagesOK
      <4> QED
        BY <4>1, <1>1 DEF Requests
    <3>5. RequestOK'
      <4>1. ASSUME NEW i \in Requests', NEW j \in Requests'
            PROVE  /\ main = "await" /\ up'[i].singer = asked /\ Answers = {}
                   /\ i = j
        <5>1. i + 1 \in Requests /\ up'[i] = up[i + 1] /\ j + 1 \in Requests
          BY <3>1
        <5>2. i + 1 = j + 1 /\ i \in Int /\ j \in Int
          BY <5>1, <2>0, <3>4 DEF RequestOK
        <5> QED
          BY <5>1, <5>2, <2>0 DEF RequestOK
      <4> QED
        BY <4>1, <1>1, <3>2 DEF RequestOK, listVars
    <3> QED
      BY <3>3, <3>5
  <2> QED
    BY <2>1, <2>2 DEF Serve
<1>4. ListsOK'
  BY <1>1, <1>3 DEF ListInv, ListsOK, HasList, listVars
<1> QED
  BY <1>2, <1>4 DEF ListInv

(* Apps and a server that goes away.                                       *)
LEMMA ServerLists ==
  ASSUME Types, ListInv, Server
  PROVE  ListInv'
<1>1. CASE Serve
  BY <1>1, ServeLists
<1>2. CASE ServerCloses \/ \E c \in Commands : AppSends(c)
  <2>1. /\ UNCHANGED <<main, mode, started, listVars, open>> /\ link = "up"
    BY <1>2 DEF ServerCloses, AppSends, playVars, socketVars, fdVars
  <2>2. /\ Requests' \subseteq Requests /\ \A i \in Requests' : up'[i] = up[i]
    BY <1>2 DEF ServerCloses, AppSends, Requests
  <2>3. Answers' = Answers /\ \A i \in Answers : down'[i] = down[i]
    <3>1. CASE UNCHANGED down
      BY <3>1 DEF Answers
    <3>2. CASE \E c \in Commands : down' = Append(down, Plain(c))
      BY <3>2, OtherDown DEF Plain, Commands
    <3> QED
      BY <1>2, <3>1, <3>2 DEF ServerCloses, AppSends
  <2>4. ListsOK'
    BY <2>1, <2>2, <2>3 DEF ListInv, ListsOK, RequestOK, AnswerOK, HasList, listVars
  <2>5. PlayOK' /\ AskOK' /\ Survives'
    BY <2>1 DEF ListInv, PlayOK, AskOK, Survives, NoSongs, CanPopen, Free, listVars
  <2> QED
    BY <2>4, <2>5 DEF ListInv
<1> QED
  BY <1>1, <1>2 DEF Server

(* The way offline.                                                        *)
LEMMA OfflineLists ==
  ASSUME Types, ListInv, main = "select", ChangeOfflineMode
  PROVE  ListInv'
<1>1. CASE UNCHANGED <<main, mode, playVars, listVars, socketVars, up, down>>
  BY <1>1, SameLists DEF playVars
<1>2. CASE /\ mode' = "offline" /\ up' = <<>> /\ down' = <<>>
           /\ Stopped /\ UNCHANGED <<main, listVars>>
  <2>1. Requests' = {} /\ Answers' = {}
    BY <1>2 DEF Requests, Answers
  <2> QED
    BY <1>2, <2>1, QuietLists DEF Stopped
<1>3. CASE /\ mode' = "offline" /\ up' = <<>> /\ down' = <<>>
           /\ \E there \in BOOLEAN : AskStick(Local, "offline", there)
  BY <1>3, StickLists, SingersAssumption DEF Callers
<1> QED
  BY <1>1, <1>2, <1>3 DEF ChangeOfflineMode

(* Whatever main hears.                                                    *)
LEMMA ProcessLists ==
  ASSUME Types, ListInv, main = "select", NEW words, Process(words)
  PROVE  ListInv'
<1>0. mode # "none"
  BY DEF ListInv, AskOK
<1>1. CASE Popen /\ UNCHANGED <<Fixed, started>>
  <2>1. /\ UNCHANGED <<mode, listVars, up, down>> /\ (started => list # NoList)
    BY <1>1 DEF Fixed, ListInv, PlayOK
  <2>2. CASE main' = "dead" /\ ~CanPopen /\ UNCHANGED open
    BY <1>1, <2>1, <2>2, DeathLists
  <2>3. CASE main' = main
    BY <1>0, <1>1, <2>1, <2>3, QuietLists DEF Requests, Answers
  <2> QED
    BY <1>1, <2>2, <2>3 DEF Popen
<1>2. CASE \E what : Obey(what) /\ UNCHANGED Fixed
  <2>1. /\ UNCHANGED <<mode, listVars, up, down>> /\ (started' => list # NoList)
        /\ main' = main \/ (main' = "dead" /\ list = NoList /\ UNCHANGED playVars)
    BY <1>2, ObeyLists DEF Fixed
  <2>2. CASE main' = main
    BY <1>0, <2>1, <2>2, QuietLists DEF Requests, Answers
  <2>3. CASE main' = "dead" /\ list = NoList /\ UNCHANGED playVars
    BY <2>1, <2>3, DeathLists DEF playVars
  <2> QED
    BY <2>1, <2>2, <2>3
<1>3. CASE \E s \in words \intersect Names : GetMusicName(s, "play")
  BY <1>3, GetMusicNameLists DEF Names, Callers
<1>4. CASE ChangeOfflineMode
  BY <1>4, OfflineLists
<1>5. CASE ChangeOnlineMode
  <2>1. UNCHANGED <<mode, listVars, up, down, open, link>>
    BY <1>5 DEF ChangeOnlineMode, socketVars, fdVars
  <2>2. CASE UNCHANGED <<main, started>>
    BY <2>1, <2>2, SameLists
  <2>3. CASE main' = "connect" /\ started' = FALSE
    BY <1>0, <2>1, <2>3, QuietLists DEF Requests, Answers
  <2> QED
    BY <1>5, <2>2, <2>3 DEF ChangeOnlineMode, Stopped, playVars
<1>6. CASE main' \in {"select", "chat"} /\ UNCHANGED <<Fixed, started>>
  <2>1. UNCHANGED <<mode, listVars, up, down>> /\ (started => list # NoList)
    BY <1>6 DEF Fixed, ListInv, PlayOK
  <2> QED
    BY <1>0, <1>6, <2>1, QuietLists DEF Requests, Answers
<1>7. Process(words) => \/ Popen /\ UNCHANGED <<Fixed, started>>
                        \/ \E what : Obey(what) /\ UNCHANGED Fixed
                        \/ \E s \in words \intersect Names : GetMusicName(s, "play")
                        \/ ChangeOfflineMode \/ ChangeOnlineMode
                        \/ main' \in {"select", "chat"} /\ UNCHANGED <<Fixed, started>>
  BY DEF Process, TtsStop, ChangeVoice, playVars
<1> QED
  BY <1>1, <1>2, <1>3, <1>4, <1>5, <1>6, <1>7

(* Every step keeps the lists in order.                                    *)
LEMMA NextLists ==
  ASSUME Types, ListInv, [Next]_vars
  PROVE  ListInv'
<1>1. CASE MainSteps
  BY <1>1, GetReplyLists, ListEndsLists, ConnectedLists, RefusedLists, ReadSocketLists,
     EndOfDataLists DEF MainSteps
<1>2. CASE Report \/ Server
  BY <1>2, ReportLists, ServerLists
<1>3. CASE ReadAsrFifo
  BY <1>3, ProcessLists DEF ReadAsrFifo, CanReadAsr
<1>4. CASE AsrEnds
  <2>1. main = "select" /\ UNCHANGED <<main, mode, started, listVars, up, down>>
    BY <1>4 DEF AsrEnds, CanReadAsr, playVars
  <2> QED
    BY <2>1, SameLists
<1>5. CASE ChatEnds
  <2>1. /\ main = "chat" /\ main' = "select"
        /\ UNCHANGED <<mode, started, listVars, up, down>>
    BY <1>5 DEF ChatEnds, playVars
  <2>2. mode # "none" /\ (started => list # NoList)
    BY <2>1 DEF ListInv, AskOK, PlayOK
  <2> QED
    BY <2>1, <2>2, QuietLists DEF Requests, Answers
<1>6. CASE UNCHANGED <<main, mode, started, listVars, up, down, open, link>>
  BY <1>6, SameLists
<1>7. CASE Ears \/ Mouth \/ UNCHANGED vars
  BY <1>6, <1>7 DEF Ears, Mouth, Unlinked, vars, linkVars, playVars, socketVars, fdVars
<1> QED
  BY <1>1, <1>2, <1>3, <1>4, <1>5, <1>7 DEF Next, Main, Around

(* The first state.                                                        *)
LEMMA InitLists == Init => ListInv
BY DEF Init, LinkInit, ListInv, PlayOK, AskOK, ListsOK, RequestOK, AnswerOK, Requests, Answers,
       HasList, Survives

(* Unless another message was taken for it, the list is that of the singer *)
(* asked for last, or none if the server has none (net.c:175).             *)
THEOREM ListsAreAsked == SafetySpec => []ListIsAsked
<1>1. ListInv => ListIsAsked
  BY DEF ListInv, ListsOK, HasList, ListIsAsked
<1> QED
  BY <1>1, InitTypes, NextTypes, InitLists, NextLists, PTL DEF SafetySpec

(* The process dies only of what the code is known not to handle.          *)
THEOREM SpeakerSurvives == SafetySpec => []Survives
<1>1. ListInv => Survives
  BY DEF ListInv
<1> QED
  BY <1>1, InitTypes, NextTypes, InitLists, NextLists, PTL DEF SafetySpec

=============================================================================
