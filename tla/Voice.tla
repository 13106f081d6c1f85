-------------------------------- MODULE Voice --------------------------------
(***************************************************************************)
(* The speaker with its ears and its mouth: Link's main process, the       *)
(* recognition process (Asr), which writes what it hears to asr_fifo, and  *)
(* the synthesis process (Tts), which reads its texts from tts_fifo and is *)
(* told to be quiet by SIGUSR1.                                            *)
(***************************************************************************)
EXTENDS Link

CONSTANTS
  MaxTalk,     \* bound on what the user says
  MaxWaiting   \* bound on what waits in asr_fifo
ASSUME TalkAssumption == MaxTalk \in Nat /\ MaxWaiting \in Nat

VARIABLES
  hears,       \* cur_state of the recognition process
  asr,         \* asr_fifo: one entry per write
  talk,        \* what the user may still say
  tts,         \* the synthesis process: place, play_flag, texts in its buffer
  usr1,        \* SIGUSR1 is pending for it
  cut          \* history: the stops it has handled

earVars == <<hears, asr, talk>>
mouthVars == <<tts, usr1, cut>>
vars == <<linkVars, earVars, mouthVars>>

Trigger == "trigger"
Orders == {"start", "stop", "suspend", "continue", "new voice", "go offline", "go online", "chat"}
Names == Singers \ {Other}                   \* nobody is called "other"
Utterances == Orders \union Names

-----------------------------------------------------------------------------
(* The recognition process: after the trigger one utterance, and again.    *)

Says(u) == /\ talk > 0 /\ talk' = talk - 1
           /\ Len(asr) < MaxWaiting /\ asr' = Append(asr, u)
SherpaKws == hears = "kws" /\ hears' = "asr" /\ Says(Trigger)
SherpaAsr(u) == hears = "asr" /\ hears' = "kws" /\ Says(u)
AsrQuits == hears # "gone" /\ hears' = "gone" /\ UNCHANGED <<asr, talk>>

Ears == /\ SherpaKws \/ AsrQuits \/ \E u \in Utterances : SherpaAsr(u)
        /\ UNCHANGED <<linkVars, mouthVars>>

-----------------------------------------------------------------------------
(* The synthesis process. A signal is handled before read returns, and at  *)
(* any moment while samples are made and played. All that waits is read in *)
(* one piece.                                                              *)

Read == /\ tts.at = "read" /\ toTts # <<>> /\ ~usr1
        /\ tts' = [tts EXCEPT !.at = "ready", !.texts = toTts]
        /\ toTts' = <<>>
        /\ UNCHANGED <<usr1, cut>>

AsItIs(t) == [at |-> "play", play |-> t.play, texts |-> t.texts]  \* mutant of Prepared
Prepared(t) == [at |-> "play", play |-> TRUE, texts |-> t.texts]
Prepare == /\ tts.at = "ready"
           /\ tts' = Prepared(tts)
           /\ UNCHANGED <<usr1, cut, toTts>>

(* PlayCallBack says no more once play_flag is 0; otherwise all is played. *)
Played == /\ tts.at = "play"
          /\ tts' = [tts EXCEPT !.at = "read", !.texts = <<>>]
          /\ UNCHANGED <<usr1, cut, toTts>>

HandleStop == /\ usr1 /\ usr1' = FALSE
              /\ tts' = [tts EXCEPT !.play = FALSE]
              /\ cut' = stops
              /\ UNCHANGED toTts

Unlinked == <<main, then, mode, playVars, listVars, socketVars, up, down, stops, commands>>
Mouth == (Read \/ Prepare \/ Played \/ HandleStop) /\ UNCHANGED <<Unlinked, earVars>>

-----------------------------------------------------------------------------
(* Main obeys what it hears.                                               *)

(* popen without pclose: a descriptor less, and NULL when there is none.   *)
Popen == \/ CanPopen /\ (\E n \in FirstFree : Opened(n)) /\ UNCHANGED main
         \/ ~CanPopen /\ main' = "dead" /\ UNCHANGED open

TtsStop == /\ Popen
           /\ \/ main' = "dead" /\ UNCHANGED <<usr1, ttsVars>>
              \/ /\ main' # "dead" /\ usr1' = TRUE /\ stops' = stops + 1
                 /\ toTts' = Append(toTts, [text |-> "yes", after |-> stops + 1])

ChangeVoice == /\ Popen
               /\ \/ main' = "dead" /\ UNCHANGED toTts
                  \/ main' # "dead" /\ ReplyKeyWords("voice")
               /\ UNCHANGED stops

(* ProcessAsrSignal looks for one word after the other in all it has read: *)
(* the first that is there counts.                                         *)
Chain == <<{Trigger}, {"start"}, {"stop"}, {"suspend"}, {"continue"}, Names,
           {"new voice"}, {"go offline"}, {"go online"}, {"chat"}>>
Heard(words, k) == words \intersect Chain[k] # {} /\
                   \A j \in 1..(k - 1) : words \intersect Chain[j] = {}

Fixed == <<then, mode, listVars, READSET, g_maxfd, g_sockfd, link, reporter, up, down>>
Process(words) ==
  \/ /\ Heard(words, 1)                                        \* the trigger
     /\ suspended' = (suspended \/ started) /\ UNCHANGED started
     /\ TtsStop /\ UNCHANGED Fixed
  \/ \E k \in 2..5 : /\ Heard(words, k) /\ \E what \in Chain[k] : Obey(what)
                     /\ UNCHANGED <<Fixed, open, ttsVars, usr1>>
  \/ /\ Heard(words, 6)
     /\ \E s \in words \intersect Names : GetMusicName(s, "play") /\ UNCHANGED usr1
  \/ Heard(words, 7) /\ ChangeVoice /\ UNCHANGED <<Fixed, playVars, usr1>>
  \/ Heard(words, 8) /\ ChangeOfflineMode /\ UNCHANGED usr1
  \/ Heard(words, 9) /\ ChangeOnlineMode /\ UNCHANGED usr1
  \/ /\ Heard(words, 10)
     /\ \/ mode = "online" /\ main' = "chat" /\ UNCHANGED toTts
        \/ mode = "offline" /\ ReplyKeyWords("no network") /\ UNCHANGED main
     /\ UNCHANGED <<Fixed, playVars, open, stops, usr1>>

CanReadAsr == main = "select" /\ Watched(Asr) /\ ~Readable /\ g_sockfd # Asr
ReadAsrFifo ==
  /\ CanReadAsr /\ asr # <<>>
  /\ Process({asr[i] : i \in DOMAIN asr})
  /\ asr' = <<>>
  /\ UNCHANGED <<hears, talk, tts, cut, commands>>

(* The end of the fifo: the recognition process is gone.                   *)
AsrEnds ==
  /\ CanReadAsr /\ asr = <<>> /\ hears = "gone"
  /\ Unwatch(Asr) /\ UNCHANGED g_sockfd
  /\ UNCHANGED <<main, then, mode, playVars, listVars, reporter, link, up, down,
                 ttsVars, commands, earVars, mouthVars>>

(* qianwen answers in the mouth's fifo, or fails and writes nothing.       *)
ChatEnds ==
  /\ main = "chat" /\ main' = "select"
  /\ UNCHANGED toTts \/ ReplyKeyWords("answer")
  /\ UNCHANGED <<then, mode, playVars, listVars, socketVars, up, down, stops, commands,
                 earVars, mouthVars>>

-----------------------------------------------------------------------------
Init == /\ LinkInit
        /\ hears = "kws" /\ asr = <<>> /\ talk = MaxTalk
        /\ tts = [at |-> "read", play |-> TRUE, texts |-> <<>>]
        /\ usr1 = FALSE /\ cut = 0

Main == MainSteps /\ UNCHANGED <<earVars, mouthVars>>
Around == (Report \/ Server) /\ UNCHANGED <<earVars, mouthVars>>
Next == Main \/ Around \/ ReadAsrFifo \/ AsrEnds \/ ChatEnds \/ Ears \/ Mouth

SafetySpec == Init /\ [][Next]_vars

(* The kernel runs main and wakes it; the server answers and qianwen ends. *)
(* A list that ends or an app that sends may come before the fifo whenever *)
(* main is back in select, but not for ever: hence SF for both sources.    *)
Fairness == /\ WF_vars(Main) /\ WF_vars(Serve /\ UNCHANGED <<earVars, mouthVars>>)
            /\ WF_vars(ChatEnds) /\ SF_vars(ReadAsrFifo)
            /\ SF_vars(ReadSocket /\ UNCHANGED <<earVars, mouthVars>>)
Spec == SafetySpec /\ Fairness

-----------------------------------------------------------------------------
(* Properties.                                                             *)

Places == {"connect", "await", "select", "chat", "spins", "dead"}
Callers == {"boot", "play", "online", "offline"}

SpeakerOK ==
  /\ main \in Places /\ then \in Callers /\ mode \in {"none", "online", "offline"}
  /\ started \in BOOLEAN /\ suspended \in BOOLEAN
  /\ list \in Singers \union {NoList, Blank} /\ asked \in Singers \union {Blank}
  /\ mixed \in BOOLEAN /\ mounted \in BOOLEAN
  /\ reporter \in BOOLEAN /\ link \in {"none", "up", "closed", "reset"}
DescriptorsOK ==
  /\ open \subseteq 0..MaxFd /\ READSET \subseteq 0..MaxFd
  /\ g_maxfd \in (-1)..MaxFd /\ g_sockfd \in (-1)..MaxFd
MessagesOK == up \in Seq(UpMessage) /\ down \in Seq(DownMessage) /\ commands \in Nat
VoiceOK ==
  /\ toTts \in Seq(Text) /\ stops \in Nat /\ usr1 \in BOOLEAN /\ cut \in Nat
  /\ tts \in [at: {"read", "ready", "play"}, play: BOOLEAN, texts: Seq(Text)]
  /\ hears \in {"kws", "asr", "gone"} /\ asr \in Seq(Utterances \union {Trigger})
  /\ talk \in Nat

(* Descriptors, messages, texts and flags have their types; in particular  *)
(* the speaker never waits for a list without knowing what it is for.      *)
TypeOK == SpeakerOK /\ DescriptorsOK /\ MessagesOK /\ VoiceOK

(* select looks at every descriptor that was handed to it and at no closed *)
(* one, although g_maxfd is counted down and not computed (net.c:143,      *)
(* player.c:549 and 679) and popen leaks descriptors (player.c:506).       *)
AllWatched == READSET \subseteq open /\ \A n \in READSET : Watched(n)

(* Whatever has gone wrong before, in the select loop the mode, the socket *)
(* in READSET, the reporter and the connection tell one story.             *)
LinkIsWhole ==
  main \in {"select", "await", "chat"} =>
    /\ mode = "online" <=> reporter
    /\ mode = "online" <=> g_sockfd \in READSET
    /\ mode = "online" <=> link # "none"

(* Unless some other message was taken for it (net.c:175), the list is     *)
(* that of the singer asked for last, or none if the server has none.      *)
ListIsAsked ==
  main = "select" /\ ~mixed => list = asked \/ (list = NoList /\ asked \notin OnServer)

(* A stop never silences a reply that was sent after it: "yes" is heard,   *)
(* though the flag is one for all texts (Tts/main.c:39 and 89).            *)
ReplySpoken ==
  tts.at = "play" /\ ~tts.play => \A i \in DOMAIN tts.texts : tts.texts[i].after < cut

(* The process only dies of what these lines do not handle: a message      *)
(* taken for a list, a singer without songs, on the server or on the       *)
(* stick, a connection the server has reset, descriptors that have run     *)
(* out.                                                                    *)
NoSongs == \/ list = NoList /\ asked \notin OnServer
           \/ mode = "offline" /\ (asked \notin OnStick \/ ~mounted)
Survives == main = "dead" => mixed \/ NoSongs \/ link = "reset" \/ ~CanPopen

(* What the user has said is read, or the process is lost, or has lost     *)
(* its ears.                                                               *)
UtteranceIsRead ==
  asr # <<>> ~> (asr = <<>> \/ main \in {"spins", "dead"})

=============================================================================
