-------------------------------- MODULE Link --------------------------------
(***************************************************************************)
(* The speaker's main process and its server: the first steps of main, the *)
(* select loop, the socket client (net.c), the list of songs (link.c) and  *)
(* the change between online and offline mode. What the player processes   *)
(* do with a command is Playback's subject; here they obey at once.        *)
(***************************************************************************)
EXTENDS Integers, Sequences, FiniteSets

CONSTANTS
  Singers,     \* singers a list may be asked for
  Boot,        \* the one main asks for
  Other,       \* the one asked for on the way online
  Local,       \* the one asked for on the way offline
  OnServer,    \* singers the server knows
  OnStick,     \* singers on the USB stick
  NoList,      \* music_head is NULL
  Blank,       \* one node without a name (InitMusicLink)
  MaxCommands, \* bound on the messages apps send
  MaxFd        \* the highest descriptor a process may have

ASSUME SingersAssumption ==
  /\ {Boot, Other, Local} \subseteq Singers
  /\ NoList \notin Singers /\ Blank \notin Singers /\ NoList # Blank
ASSUME BlankAssumption == Blank \notin OnStick      \* no directory without a name
ASSUME FdAssumption == MaxFd \in Nat /\ MaxFd > 5
ASSUME CommandsAssumption == MaxCommands \in Nat

VARIABLES
  main,        \* where the process is
  then,        \* what GetMusicName or InitSocket returns to
  mode,        \* g_device_mode
  started,     \* g_start_flag
  suspended,   \* g_suspend_flag
  list,        \* music_head: whose songs
  mounted,     \* a stick is mounted
  open,        \* open descriptors
  READSET,     \* what select is to watch
  g_maxfd,
  g_sockfd,
  reporter,    \* the thread SendServer lives
  link,        \* the connection as the speaker's kernel sees it
  up,          \* to the server: requests and replies
  down,        \* to the speaker
  toTts,       \* tts_fifo
  stops,       \* history: how often TtsStop was called
  commands,    \* messages the apps may still send
  asked,       \* history: the singer asked for last
  mixed        \* history: some other message was taken for a list

playVars == <<started, suspended>>
listVars == <<list, asked, mixed, mounted>>
fdVars == <<open, READSET, g_maxfd, g_sockfd>>
socketVars == <<fdVars, reporter, link>>
ttsVars == <<toTts, stops>>
linkVars == <<main, then, mode, playVars, listVars, socketVars, up, down, ttsVars, commands>>

-----------------------------------------------------------------------------
(* Messages of the socket, texts for the voice, descriptors.               *)

Commands == {"app_start", "app_stop", "app_suspend", "app_continue", "app_get_music"}
Get(s) == [kind |-> "get", singer |-> s]
Answer == [kind |-> "reply", singer |-> Boot]
ListOf(s) == [kind |-> "list", singer |-> s]
Plain(kind) == [kind |-> kind, singer |-> Boot]
UpMessage == [kind: {"get", "reply"}, singer: Singers]
DownMessage == [kind: {"list", "null", "offline"} \union Commands, singer: Singers]

Texts == {"online", "offline", "no stick", "no network", "yes", "voice", "answer"}
Text == [text: Texts, after: Nat]
ReplyKeyWords(text) == toTts' = Append(toTts, [text |-> text, after |-> stops])

Stdin == 0
Button == 3
Asr == 4
Tts == 5
FreeOffByOne == {n \in 3..(MaxFd + 1) : n \notin open}        \* mutant of Free
Free == {n \in 3..MaxFd : n \notin open}
FirstFree == {n \in Free : \A k \in Free : n <= k}
CanPopen == Cardinality(Free) >= 2           \* popen makes a pipe
Watched(n) == n \in READSET /\ n <= g_maxfd    \* what select(g_maxfd + 1) looks at

Opened(n) == open' = open \union {n}
Watch(n) == /\ READSET' = READSET \union {n}
            /\ g_maxfd' = IF g_maxfd < n THEN n ELSE g_maxfd
Closed(n) == open' = open \ {n} /\ UNCHANGED <<READSET, g_maxfd>>  \* mutant of Unwatch
Unwatch(n) == /\ open' = open \ {n}
              /\ READSET' = READSET \ {n}
              /\ g_maxfd' = IF g_maxfd = n THEN n - 1 ELSE g_maxfd

-----------------------------------------------------------------------------
(* The flags.                                                              *)

Stopped == started' = FALSE /\ suspended' = FALSE
StartPlay(l) ==
  \/ suspended /\ suspended' = FALSE /\ UNCHANGED <<started, main>>
  \/ ~suspended /\ (started \/ l # NoList) /\ started' = TRUE /\ UNCHANGED <<suspended, main>>
  \/ ~suspended /\ ~started /\ l = NoList /\ main' = "dead" /\ UNCHANGED playVars
Obey(what) ==
  \/ what = "start" /\ StartPlay(list)
  \/ /\ what = "stop" /\ started' = FALSE /\ suspended' = (suspended /\ ~started)
     /\ UNCHANGED main
  \/ what = "suspend" /\ suspended' = (suspended \/ started) /\ UNCHANGED <<started, main>>
  \/ what = "continue" /\ suspended' = FALSE /\ UNCHANGED <<started, main>>

-----------------------------------------------------------------------------
(* Lists. Everybody who asks for one has stopped the player before.        *)

(* What the caller does with l, the list it has got.                       *)
Resume(what, l) ==
  /\ list' = l /\ then' = what
  /\ \/ what = "boot" /\ main' = "select" /\ Stopped /\ UNCHANGED toTts
     \/ what = "play" /\ main' = "select" /\ l # NoList
                      /\ started' = TRUE /\ suspended' = FALSE /\ UNCHANGED toTts
     \/ what = "play" /\ main' = "dead" /\ l = NoList /\ Stopped /\ UNCHANGED toTts
     \/ what \in {"online", "offline"} /\ main' = "select" /\ Stopped /\ ReplyKeyWords(what)

(* Sending on a connection the server has closed brings a reset, sending   *)
(* on one that was reset SIGPIPE.                                          *)
Send(m) == \/ link = "up" /\ up' = Append(up, m) /\ UNCHANGED link
           \/ link = "closed" /\ link' = "reset" /\ UNCHANGED up

(* GetMusicName, online: the request goes out and main waits.              *)
KeepOldList == UNCHANGED list                              \* mutant of ClearMusicList
ClearMusicList == list' = NoList
AskServer(s, what) ==
  /\ asked' = s /\ then' = what
  /\ ClearMusicList /\ Stopped
  /\ \/ Send(Get(s)) /\ main' = "await"
     \/ link = "reset" /\ main' = "dead" /\ UNCHANGED <<up, link>>
  /\ UNCHANGED <<mode, mounted, mixed, fdVars, reporter, down, ttsVars>>

(* GetMusicName, offline: the directory of the singer, or NULL and death.  *)
AskStick(s, what, there) ==
  /\ asked' = s
  /\ \/ there /\ s \in OnStick /\ Resume(what, s)
     \/ /\ ~there \/ s \notin OnStick
        /\ main' = "dead" /\ then' = what /\ list' = NoList /\ Stopped /\ UNCHANGED toTts
  /\ mounted' = there
  /\ UNCHANGED <<mixed, stops>>

GetMusicName(s, what) ==
  \/ mode = "online" /\ AskServer(s, what)
  \/ mode = "offline" /\ AskStick(s, what, mounted)
                        /\ UNCHANGED <<mode, socketVars, up, down>>

(* LinkMusicList. A message without cmd is compared as NULL; one with      *)
(* another cmd is lost, and so is "null", the answer for a singer whom the *)
(* server does not know. Songs go to the end of the list: the songs of a   *)
(* list that was not cleared stay in front.                                *)
ForgetHead(m) == list                                      \* mutant of LinkMusicList
LinkMusicList(m) == IF m.kind = "list" /\ list = NoList THEN m.singer ELSE list

(* The list goes to the app as well, which answers nothing; main sends its *)
(* first list twice (net.c:179, main.c:89), and the second may find the    *)
(* connection reset by the first: SIGPIPE.                                 *)
UploadMusic == \/ link = "up" /\ UNCHANGED link
               \/ link = "closed" /\ link' = "reset"
GetReply ==
  /\ main = "await" /\ down # <<>>
  /\ down' = Tail(down)
  /\ mixed' = (mixed \/ Head(down).kind \notin {"list", "null"})
  /\ \/ /\ Head(down).kind # "offline" /\ Resume(then, LinkMusicList(Head(down)))
        /\ UploadMusic
     \/ /\ \/ Head(down).kind = "offline" /\ UNCHANGED link
           \/ link = "reset" /\ UNCHANGED link
           \/ then = "boot" /\ link = "closed" /\ link' = "reset"
        /\ main' = "dead" /\ UNCHANGED <<then, list, playVars, toTts>>
  /\ UNCHANGED <<mode, asked, mounted, fdVars, reporter, up, stops, commands>>

(* UpdateMusic, the handler of SIGUSR1, when the list is over. A list      *)
(* without a name has no singer: no directory has that name. The handler   *)
(* is left out where it strikes inside a recv(), sleep() or system() of    *)
(* main; two requests that cross are in Playback (Reply).                  *)
ListEnds ==
  /\ main = "select" /\ started /\ ~suspended
  /\ \/ list \in Singers /\ GetMusicName(list, "play")
     \/ /\ list \notin Singers /\ main' = "dead" /\ Stopped
        /\ UNCHANGED <<then, mode, listVars, socketVars, up, down, ttsVars>>
  /\ UNCHANGED commands

-----------------------------------------------------------------------------
(* The socket.                                                             *)

(* InitSocket succeeds in one of its ten attempts. Main asks for its first *)
(* list, ChangeOnlineMode for that of Other.                               *)
Connected ==
  /\ main = "connect"
  /\ \E n \in FirstFree : Opened(n) /\ Watch(n) /\ g_sockfd' = n
  /\ mode' = "online" /\ reporter' = TRUE /\ link' = "up"
  /\ up' = <<Get(IF then = "boot" THEN Boot ELSE Other)>> /\ down' = <<>>
  /\ asked' = (IF then = "boot" THEN Boot ELSE Other)
  /\ ClearMusicList /\ main' = "await"
  /\ UNCHANGED <<then, playVars, mounted, mixed, ttsVars, commands>>

(* All ten attempts fail. Main sets offline mode before it calls           *)
(* ChangeOfflineMode, which returns at once; ChangeOnlineMode goes on as   *)
(* if it were online. The socket stays open.                               *)
Refused ==
  /\ main = "connect"
  /\ \/ \E n \in FirstFree : Opened(n) /\ g_sockfd' = n
     \/ FirstFree = {} /\ g_sockfd' = -1 /\ UNCHANGED open
  /\ mode' = "offline"
  /\ \/ /\ then = "boot" /\ main' = "select"
        /\ UNCHANGED <<then, listVars, playVars, ttsVars, up, down>>
     \/ then = "online" /\ AskStick(Other, "online", mounted) /\ UNCHANGED <<up, down>>
  /\ UNCHANGED <<READSET, g_maxfd, reporter, link, commands>>

(* The select loop finds the socket readable: data, or the end of them.    *)
Readable == Watched(g_sockfd) /\ (down # <<>> \/ link # "up")

Popening == {"app_start", "app_stop"}            \* they look for mplayer
Replies(what) == IF what = "app_get_music" THEN <<>> ELSE <<Answer>>
ReadSocket ==
  /\ main = "select" /\ Watched(g_sockfd) /\ down # <<>>
  /\ down' = Tail(down)
  /\ LET what == Head(down).kind
     IN  \/ /\ what \notin Commands                    \* late lists and the like
            /\ UNCHANGED <<main, playVars, up, link>>
         \/ /\ what \in Popening => CanPopen
            /\ \/ what = "app_start" /\ Obey("start")
               \/ what = "app_stop" /\ Obey("stop")
               \/ what = "app_suspend" /\ Obey("suspend")
               \/ what = "app_continue" /\ Obey("continue")
               \/ what = "app_get_music" /\ UNCHANGED <<main, playVars>>
            /\ main' = "select"
            /\ \/ link = "up" /\ up' = up \o Replies(what) /\ UNCHANGED link
               \/ link = "closed" /\ link' = "reset" /\ UNCHANGED up
         \/ /\ what \in Commands /\ main' = "dead"
            /\ \/ what = "app_start" /\ ~suspended /\ ~started /\ list = NoList
               \/ what \in Popening /\ ~CanPopen
               \/ link = "reset"                       \* SIGPIPE
            /\ UNCHANGED <<playVars, up, link>>
  /\ UNCHANGED <<then, mode, listVars, fdVars, reporter, ttsVars, commands>>

(* RecSocketData at the end of the data: it closes the socket, and goes on *)
(* receiving; after a reset it does not even close.                        *)
EndOfData ==
  /\ main = "await" \/ (main = "select" /\ Watched(g_sockfd))
  /\ down = <<>>
  /\ \/ /\ link = "closed" /\ link' = "none" /\ reporter' = FALSE
        /\ Unwatch(g_sockfd) /\ UNCHANGED g_sockfd
     \/ link = "reset" /\ UNCHANGED socketVars
  /\ main' = "spins"
  /\ UNCHANGED <<then, mode, playVars, listVars, up, down, ttsVars, commands>>

(* SendServer reports once a second and dies of SIGPIPE, with the process. *)
Report ==
  /\ reporter /\ main # "dead"
  /\ \/ link = "closed" /\ link' = "reset" /\ UNCHANGED main
     \/ link = "reset" /\ main' = "dead" /\ UNCHANGED link
  /\ UNCHANGED <<then, mode, playVars, listVars, fdVars, reporter, up, down, ttsVars, commands>>

-----------------------------------------------------------------------------
(* The modes.                                                              *)

(* ChangeOfflineMode: the thread and the socket go, the player stops, and  *)
(* the stick is looked for. Without one the old list stays.                *)
KeepReporter == UNCHANGED reporter                         \* mutant of CancelReporter
CancelReporter == reporter' = FALSE
ChangeOfflineMode ==
  \/ /\ mode = "offline"
     /\ UNCHANGED <<main, then, mode, playVars, listVars, socketVars, up, down, ttsVars>>
  \/ /\ mode = "online" /\ mode' = "offline"
     /\ CancelReporter /\ link' = "none" /\ Unwatch(g_sockfd) /\ UNCHANGED g_sockfd
     /\ up' = <<>> /\ down' = <<>>
     /\ \/ /\ Stopped /\ ReplyKeyWords("no stick")
           /\ UNCHANGED <<main, then, listVars, stops>>
        \/ \E there \in BOOLEAN : AskStick(Local, "offline", there)

ChangeOnlineMode ==
  /\ \/ mode = "online" /\ UNCHANGED <<main, then, playVars>>
     \/ mode = "offline" /\ Stopped /\ main' = "connect" /\ then' = "online"
  /\ UNCHANGED <<mode, listVars, socketVars, up, down, ttsVars>>

-----------------------------------------------------------------------------
(* The server and the apps. A server that goes away closes the connection. *)

SilentGetMusicName(s) == IF s \in OnServer THEN <<ListOf(s)>> ELSE <<>>   \* mutant
ServerGetMusicName(s) == IF s \in OnServer THEN <<ListOf(s)>> ELSE <<Plain("null")>>
Serve ==
  /\ link = "up" /\ up # <<>>
  /\ up' = Tail(up)
  /\ \/ /\ Head(up).kind = "get"
        /\ down' = down \o ServerGetMusicName(Head(up).singer)
     \/ Head(up).kind = "reply" /\ UNCHANGED down                     \* to the app
     \/ Head(up).kind = "reply" /\ down' = Append(down, Plain("offline"))
  /\ UNCHANGED <<main, then, mode, playVars, listVars, socketVars, ttsVars, commands>>

AppSends(c) ==
  /\ link = "up" /\ commands > 0
  /\ commands' = commands - 1
  /\ down' = Append(down, Plain(c))
  /\ UNCHANGED <<main, then, mode, playVars, listVars, socketVars, up, ttsVars>>

ServerCloses ==
  /\ link = "up" /\ link' = "closed" /\ up' = <<>>
  /\ UNCHANGED <<main, then, mode, playVars, listVars, fdVars, reporter, down, ttsVars, commands>>

-----------------------------------------------------------------------------
LinkInit ==
  /\ main = "connect" /\ then = "boot" /\ mode = "none"
  /\ started = FALSE /\ suspended = FALSE
  /\ list = Blank /\ asked = Blank /\ mixed = FALSE /\ mounted \in BOOLEAN
  /\ open = {Stdin, Button, Asr, Tts} /\ READSET = {Stdin, Button, Asr}
  /\ g_maxfd = Asr /\ g_sockfd = 0
  /\ reporter = FALSE /\ link = "none" /\ up = <<>> /\ down = <<>>
  /\ toTts = <<>> /\ stops = 0 /\ commands = MaxCommands

Server == Serve \/ ServerCloses \/ \E c \in Commands : AppSends(c)
MainSteps == GetReply \/ ListEnds \/ Connected \/ Refused \/ ReadSocket \/ EndOfData

=============================================================================
