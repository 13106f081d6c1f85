------------------------------- MODULE Remote -------------------------------
(***************************************************************************)
(* One speaker under three hands: keyboard, button and the app's window.   *)
(* Main obeys them one after the other, but the button's SIGALRM handler   *)
(* (device.c) runs in the middle of anything, and the reporter thread      *)
(* (net.c) reads main's flags without a lock to tell the window (player.cpp*)
(* of 3.app). Songs, lists and processes are Playback's subject: here      *)
(* mplayer plays, is paused, or is not there. What the server does with a  *)
(* message it does in the step that sends it: the wires behind the server  *)
(* hold what is under way.                                                 *)
(***************************************************************************)
EXTENDS Volume, Sequences

CONSTANTS
  MaxInputs,   \* bound on keys, presses and clicks
  MaxKeys,     \* bound on button events main has not read
  MaxWire      \* messages on their way to the window when the speaker has to wait

ASSUME BoundsAssumption == MaxInputs \in Nat /\ MaxKeys \in Nat /\ MaxWire \in Nat

VARIABLES
  start,       \* g_start_flag of the speaker
  suspend,     \* g_suspend_flag of the speaker
  paused,      \* mplayer is paused
  doing,       \* the command main is executing
  at,          \* where it is in it
  then,        \* what main does when it has returned
  crossed,     \* history: the handler has run inside a command
  raw,         \* the mixer's volume
  state,       \* of the button
  timer,       \* ITIMER_REAL runs
  keys,        \* button events, TRUE for a press, main has not read yet
  finger,      \* the button is down
  seen,        \* where the reporter is, or the status it will send
  toSpeaker,   \* what the server has sent to the speaker
  attached,    \* the server's node of the speaker has the app's connection
  toApp,       \* what the server has sent to the window
  ready,       \* readyRead signals the window will still get
  window,      \* it is open
  informed,    \* timer_info has fired
  listed,      \* timer_musiclist has fired, and is stopped
  shown,       \* MusicListText
  label,       \* the text of pauseButton
  g_start,     \* the window's own g_start_flag
  g_suspend,   \* the window's own g_suspend_flag
  inputs       \* what the user may still do

player == <<start, suspend, paused>>
mainVars == <<doing, at, then>>
button == <<state, timer>>
hand == <<keys, finger>>
wires == <<toSpeaker, toApp, ready>>
timers == <<informed, listed>>
face == <<shown, label, g_start, g_suspend>>
app == <<attached, window, timers, face>>
vars == <<player, mainVars, crossed, raw, button, hand, seen, wires, app, inputs>>

Orders == {"start", "stop", "suspend", "continue", "skip"}   \* skip: next or previous
Statuses == {"stop", "start", "suspend", "none"}
SpeakerMessages == Orders \union {"up", "down", "capture", "offline"}
AppMessages == Statuses \union {"reply", "upload"}

Input == inputs > 0 /\ inputs' = inputs - 1

-----------------------------------------------------------------------------
(* Wires. Messages that arrive together raise readyRead once.              *)

ToApp(m) ==
  /\ toApp' = Append(toApp, m)
  /\ \/ ready' = ready + 1
     \/ ready > 0 /\ ready' = ready

-----------------------------------------------------------------------------
(* Main. A command looks at the flags, writes to the FIFO, sets a flag.    *)

Return(next) ==
  /\ doing' = "none" /\ then' = "none"
  /\ \/ next = "none" /\ at' = "idle" /\ UNCHANGED state
     \/ next = "reply" /\ at' = "reply" /\ UNCHANGED state
     \/ next = "double" /\ at' = "disarm" /\ state' = "IDLE"
     \/ next = "long" /\ at' = "idle" /\ state' = "IDLE"

Ignores(what) ==
  \/ what = "start" /\ start /\ ~suspend
  \/ what = "stop" /\ ~start
  \/ what = "suspend" /\ (~start \/ suspend)
  \/ what = "continue" /\ ~suspend
  \/ what = "skip" /\ ~start

Begin(what, next) ==
  \/ Ignores(what) /\ Return(next) /\ UNCHANGED start
  \/ /\ ~Ignores(what) /\ what = "stop"
     /\ start' = FALSE /\ doing' = what /\ at' = "half" /\ then' = next
     /\ UNCHANGED state
  \/ /\ ~Ignores(what) /\ what # "stop"
     /\ doing' = (IF what = "start" /\ suspend THEN "continue" ELSE what)
     /\ at' = "write" /\ then' = next
     /\ UNCHANGED <<start, state>>

StopHalf ==
  /\ at = "half" /\ at' = "write" /\ suspend' = FALSE
  /\ UNCHANGED <<start, paused, doing, then, crossed, raw, button, hand, seen, wires, app, inputs>>

(* WriteFifo, or PlayMusic; quit and loadfile end a pause.                 *)
Write ==
  /\ at = "write"
  /\ paused' = (doing \in {"suspend", "continue"} /\ ~paused)
  /\ start' = (start \/ doing = "start")
  /\ IF doing \in {"start", "stop"} THEN Return(then)
     ELSE at' = "flag" /\ UNCHANGED <<doing, then, state>>
  /\ UNCHANGED <<suspend, crossed, raw, timer, hand, seen, wires, app, inputs>>

FlagOfPauseOnly == IF doing = "skip" THEN suspend ELSE doing = "suspend"  \* mutant of Flag
Flag == doing = "suspend"
SetFlag ==
  /\ at = "flag" /\ suspend' = Flag /\ Return(then)
  /\ UNCHANGED <<start, paused, crossed, raw, timer, hand, seen, wires, app, inputs>>

ReadStdIO ==
  /\ at = "idle" /\ Input
  /\ \/ \E what \in Orders : Begin(what, "none") /\ UNCHANGED raw
     \/ raw' \in {UpVolume(raw), DownVolume(raw)} /\ UNCHANGED <<start, mainVars, state>>
  /\ UNCHANGED <<suspend, paused, crossed, timer, hand, seen, wires, app>>

(* A message of the app, or "offline", which says nothing.                 *)
ReadSocket ==
  /\ at = "idle" /\ toSpeaker # <<>> /\ toSpeaker' = Tail(toSpeaker)
  /\ LET what == Head(toSpeaker)
     IN  \/ what \in Orders /\ Begin(what, "reply") /\ UNCHANGED raw
         \/ /\ what \in {"up", "down", "capture"}
            /\ raw' = CASE what = "up" -> UpVolume(raw)
                        [] what = "down" -> DownVolume(raw)
                        [] what = "capture" -> raw
            /\ at' = (IF what = "capture" THEN "upload" ELSE "reply")
            /\ UNCHANGED <<start, doing, then, state>>
         \/ what = "offline" /\ UNCHANGED <<start, mainVars, raw, state>>
  /\ UNCHANGED <<suspend, paused, crossed, timer, hand, seen, toApp, ready, app, inputs>>

(* SendMusicInfo. The server relays to the app, or, when it is a reply,    *)
(* sends back "offline".                                                   *)
FromSpeaker(m) ==
  /\ ~attached \/ ready = 0 \/ Len(toApp) < MaxWire        \* there is room
  /\ IF attached THEN ToApp(m) ELSE UNCHANGED <<toApp, ready>>
SendMusicInfo ==
  /\ at \in {"reply", "upload"} /\ at' = "idle" /\ FromSpeaker(at)
  /\ toSpeaker' = IF at = "reply" /\ ~attached THEN Append(toSpeaker, "offline")
                  ELSE toSpeaker
  /\ UNCHANGED <<player, doing, then, crossed, raw, button, hand, seen, app, inputs>>

-----------------------------------------------------------------------------
(* The button. Reading an event, main measures how long the press was.     *)

Press ==
  /\ Input /\ ~finger /\ Len(keys) < MaxKeys
  /\ finger' = TRUE /\ keys' = Append(keys, TRUE)
  /\ UNCHANGED <<player, mainVars, crossed, raw, button, seen, wires, app>>
Release ==
  /\ finger /\ Len(keys) < MaxKeys
  /\ finger' = FALSE /\ keys' = Append(keys, FALSE)
  /\ UNCHANGED <<player, mainVars, crossed, raw, button, seen, wires, app, inputs>>

ReadButton ==
  /\ at = "idle" /\ toSpeaker = <<>> /\ keys # <<>> /\ keys' = Tail(keys)
  /\ \/ /\ Head(keys) /\ state = "IDLE" /\ state' = "FIRST_PRESS"
        /\ UNCHANGED <<start, mainVars, timer>>
     \/ Head(keys) /\ state = "FIRST_RELEASE" /\ Begin("skip", "double") /\ UNCHANGED timer
     \/ ~Head(keys) /\ state = "FIRST_PRESS" /\ Begin("skip", "long") /\ UNCHANGED timer
     \/ /\ ~Head(keys) /\ state = "FIRST_PRESS" /\ state' = "FIRST_RELEASE"
        /\ timer' = TRUE /\ UNCHANGED <<start, mainVars>>
     \/ /\ IF Head(keys) THEN state = "FIRST_PRESS" ELSE state # "FIRST_PRESS"
        /\ UNCHANGED <<start, mainVars, button>>
  /\ UNCHANGED <<suspend, paused, crossed, raw, finger, seen, wires, app, inputs>>

(* After a double press the timer is stopped, unless it was faster.        *)
KeepTimer == timer                                      \* mutant of StopTimer
StopTimer == FALSE
Disarm ==
  /\ at = "disarm" /\ at' = "idle" /\ timer' = StopTimer
  /\ UNCHANGED <<player, doing, then, crossed, raw, state, hand, seen, wires, app, inputs>>

(* The handler of SIGALRM, with the commands it calls.                     *)
Handle ==
  /\ timer /\ timer' = FALSE /\ state' = "IDLE"
  /\ \/ ~start /\ ~suspend /\ start' = TRUE /\ paused' = FALSE /\ UNCHANGED suspend
     \/ (start \/ suspend) /\ suspend' = ~suspend /\ paused' = ~paused /\ UNCHANGED start
  /\ crossed' = (crossed \/ at \in {"half", "write", "flag"})
  /\ UNCHANGED <<mainVars, raw, hand, seen, wires, app, inputs>>

-----------------------------------------------------------------------------
(* The reporter: one read of a flag at a time, then the message. When no   *)
(* test holds the status is empty.                                         *)

Look ==
  \/ seen = "first" /\ seen' = IF start THEN "second" ELSE "stop"
  \/ seen = "second" /\ seen' = IF start THEN "second suspend" ELSE "third"
  \/ seen = "second suspend" /\ seen' = IF suspend THEN "third" ELSE "start"
  \/ seen = "third" /\ seen' = IF start THEN "third suspend" ELSE "none"
  \/ seen = "third suspend" /\ seen' = IF suspend THEN "suspend" ELSE "none"
SendServer ==
  /\ \/ Look /\ UNCHANGED <<toApp, ready>>
     \/ seen \in Statuses /\ FromSpeaker(seen) /\ seen' = "first"
  /\ UNCHANGED <<player, mainVars, crossed, raw, button, hand, toSpeaker, app, inputs>>

-----------------------------------------------------------------------------
(* The window. The server attaches it with app_info, relays what an        *)
(* attached one asks for, and answers "offline" to the others' commands.   *)

HandleTimerInfo ==
  /\ window /\ informed' = TRUE /\ attached' = TRUE
  /\ UNCHANGED <<player, mainVars, crossed, raw, button, hand, seen, wires, window, listed, face, inputs>>

ListIsDueAtOnce == TRUE                                \* mutant of ListIsDue
ListIsDue == informed                     \* 3000 ms come after 2000 ms
HandleTimerGetMusiclist ==
  /\ window /\ ~listed /\ ListIsDue /\ listed' = TRUE
  /\ toSpeaker' = IF attached THEN Append(toSpeaker, "capture") ELSE toSpeaker
  /\ UNCHANGED <<player, mainVars, crossed, raw, button, hand, seen, toApp, ready,
                 attached, window, informed, face, inputs>>

PauseButton == IF ~g_start THEN "start" ELSE IF g_suspend THEN "continue" ELSE "suspend"
Click ==
  /\ window /\ Input
  /\ \E what \in {PauseButton, "skip", "up", "down"} :
       \/ attached /\ toSpeaker' = Append(toSpeaker, what) /\ UNCHANGED <<toApp, ready>>
       \/ ~attached /\ ToApp("reply") /\ UNCHANGED toSpeaker
  /\ UNCHANGED <<player, mainVars, crossed, raw, button, hand, seen, app>>

CloseEvent ==
  /\ window /\ window' = FALSE /\ attached' = FALSE /\ toApp' = <<>> /\ ready' = 0
  /\ UNCHANGED <<player, mainVars, crossed, raw, button, hand, seen, toSpeaker, timers, face, inputs>>

(* HandleInfo: "suspend" leaves the window's g_start_flag alone.           *)
HandleInfoWithoutFlags(m) ==                           \* mutant of HandleInfo
  /\ label' = (IF m = "start" THEN "||" ELSE ">") /\ UNCHANGED <<g_start, g_suspend>>
HandleInfo(m) ==
  \/ m = "stop" /\ label' = ">" /\ g_start' = FALSE /\ UNCHANGED g_suspend
  \/ m = "suspend" /\ label' = ">" /\ g_suspend' = TRUE /\ UNCHANGED g_start
  \/ m = "start" /\ label' = "||" /\ g_start' = TRUE /\ g_suspend' = FALSE
  \/ m = "none" /\ UNCHANGED <<label, g_start, g_suspend>>

HandleUpload == shown' = TRUE /\ UNCHANGED <<label, g_start, g_suspend>>

(* One message for a signal, whatever else has arrived.                    *)
ReciveReply ==
  /\ window /\ ready > 0 /\ ready' = ready - 1 /\ toApp' = Tail(toApp)
  /\ \/ Head(toApp) \in Statuses /\ HandleInfo(Head(toApp)) /\ UNCHANGED shown
     \/ Head(toApp) = "upload" /\ HandleUpload
     \/ Head(toApp) = "reply" /\ UNCHANGED face
  /\ UNCHANGED <<player, mainVars, crossed, raw, button, hand, seen, toSpeaker,
                 attached, window, timers, inputs>>

-----------------------------------------------------------------------------
(* The window opens on a speaker that has been online for a while.         *)
Init ==
  /\ start = FALSE /\ suspend = FALSE /\ paused = FALSE
  /\ doing = "none" /\ at = "idle" /\ then = "none" /\ crossed = FALSE
  /\ raw = SetVolume(80) /\ state = "IDLE" /\ timer = FALSE
  /\ keys = <<>> /\ finger = FALSE /\ seen = "first"
  /\ toSpeaker = <<>> /\ toApp = <<>> /\ ready = 0
  /\ attached = FALSE /\ window = TRUE /\ informed = FALSE /\ listed = FALSE
  /\ shown = FALSE /\ label = "" /\ g_start = FALSE /\ g_suspend = TRUE
  /\ inputs = MaxInputs

MainSteps == \/ StopHalf \/ Write \/ SetFlag \/ ReadSocket \/ SendMusicInfo
             \/ ReadButton \/ Disarm
User == ReadStdIO \/ Press \/ Release \/ Click \/ CloseEvent

Next == \/ MainSteps \/ Handle \/ SendServer \/ User
        \/ HandleTimerInfo \/ HandleTimerGetMusiclist \/ ReciveReply

(* Main, the reporter and the window run, timers fire, and a message that  *)
(* waits for room gets it in its turn. Users owe nothing.                  *)
Fairness == /\ WF_vars(MainSteps) /\ WF_vars(Handle) /\ WF_vars(SendServer)
            /\ SF_vars(SendMusicInfo)
            /\ WF_vars(HandleTimerInfo) /\ WF_vars(HandleTimerGetMusiclist)
            /\ WF_vars(ReciveReply)

SafetySpec == Init /\ [][Next]_vars
Spec == SafetySpec /\ Fairness

-----------------------------------------------------------------------------
(* Properties.                                                             *)

(* Every variable has its type; the volume stays within the mixer's range, *)
(* and there is a message for every readyRead.                             *)
PlayerType ==
  /\ start \in BOOLEAN /\ suspend \in BOOLEAN /\ paused \in BOOLEAN /\ crossed \in BOOLEAN
  /\ doing \in Orders \union {"none"}
  /\ at \in {"idle", "half", "write", "flag", "disarm", "reply", "upload"}
  /\ then \in {"none", "reply", "double", "long"}
ButtonType ==
  /\ state \in {"IDLE", "FIRST_PRESS", "FIRST_RELEASE"} /\ timer \in BOOLEAN
  /\ keys \in Seq(BOOLEAN) /\ finger \in BOOLEAN
WireType ==
  /\ seen \in Statuses \union {"first", "second", "second suspend", "third", "third suspend"}
  /\ toSpeaker \in Seq(SpeakerMessages)
  /\ toApp \in Seq(AppMessages) /\ ready \in 0..Len(toApp)
WindowType ==
  /\ attached \in BOOLEAN /\ window \in BOOLEAN /\ informed \in BOOLEAN
  /\ listed \in BOOLEAN /\ shown \in BOOLEAN /\ g_start \in BOOLEAN /\ g_suspend \in BOOLEAN
  /\ label \in {"", ">", "||"}
TypeOK == /\ PlayerType /\ ButtonType /\ WireType /\ WindowType
          /\ raw \in minv..maxv /\ inputs \in 0..MaxInputs

(* As long as no short press was handled in the middle of another command, *)
(* g_suspend_flag says what mplayer does whenever main is free, and a      *)
(* player that is not started is not suspended (player.c:359, device.c:160)*)
FlagIsTrue ==
  at \notin {"half", "write", "flag"} /\ ~crossed =>
    suspend = paused /\ (suspend => start)

(* A short press is counted when its 300 ms are over, and only then: the   *)
(* timer runs exactly while the button waits for a second press, but for   *)
(* the moment a double press takes to stop it (device.c:202).              *)
TimerHasGesture == at # "disarm" => (timer <=> state = "FIRST_RELEASE")

(* Louder makes it louder and softer makes it softer, by keyboard or app,  *)
(* until the ends (player.c:460); nothing else moves the volume.           *)
Turns(step) == ReadStdIO \/ (ReadSocket /\ Head(toSpeaker) = step)
VolumeObeys ==
  [][/\ raw' > raw => Turns("up")
     /\ raw' < raw => Turns("down")
     /\ ReadSocket /\ Head(toSpeaker) = "up" /\ GetVolume(raw) < 90 => raw' > raw
     /\ ReadSocket /\ Head(toSpeaker) = "down" /\ GetVolume(raw) > 10 => raw' < raw]_vars

(* Once the speaker's flags have come to rest, the window's button shows   *)
(* what they say, and a click does what it shows, whatever reports were    *)
(* torn, late, joined or lost (net.c:76, player.cpp:103).                  *)
Playing == start /\ ~suspend
ButtonFits ==
  /\ label = IF Playing THEN "||" ELSE ">"
  /\ (PauseButton = "suspend") <=> Playing
LabelSettles == <>[][FALSE]_<<start, suspend>> => <>[](window => ButtonFits)

(* A window that stays open gets the speaker's list, although it asks once *)
(* (player.cpp:44).                                                        *)
MusicShown == <>(~window \/ shown)

=============================================================================
