------------------------------ MODULE Playback ------------------------------
(***************************************************************************)
(* The player processes of 1.hardware/Player/player/player.c: the parent   *)
(* (select loop and SIGUSR1 handler), the child that forks one grandchild  *)
(* per song, the grandchildren that become mplayer, and what they share:   *)
(* the shared memory block, the semaphore, the command FIFO and SIGUSR1.   *)
(* A step ends where the code may block or where another process or the    *)
(* handler can see a difference.                                           *)
(***************************************************************************)
EXTENDS Integers, Sequences, FiniteSets

CONSTANTS
  Pids,       \* process ids the kernel hands out
  Parent,     \* the pid of the player daemon itself
  Group,      \* pid 0: kill(0) and waitpid(0) mean the whole process group
  Init1,      \* pid 1, which adopts orphans
  Singers,    \* singers that have songs on the server
  NoSinger,   \* no singer: an empty list, an empty name
  NumSongs,   \* songs of a list (the server sends at most five)
  Commands,   \* the commands this user may give
  Patient,    \* TRUE: the user gives a command when the last took effect
  Faulty,     \* TRUE: execv() and the request for a list may fail
  MaxCmds     \* bound on the commands given

AllCommands == {"start", "stop", "suspend", "continue", "next", "prev",
                "circle", "sequence", "singer"}

ASSUME NumSongsAssumption == NumSongs \in Nat \ {0}
ASSUME CommandsAssumption == Commands \subseteq AllCommands
ASSUME FlagsAssumption == Patient \in BOOLEAN /\ Faulty \in BOOLEAN
ASSUME MaxCmdsAssumption == MaxCmds \in Nat
ASSUME SingersAssumption == NoSinger \notin Singers
ASSUME PidsAssumption == /\ Parent \notin Pids /\ Group \notin Pids
                         /\ Init1 \notin Pids
                         /\ Parent # Group /\ Parent # Init1 /\ Group # Init1

VARIABLES
  start,      \* g_start_flag of the parent
  suspend,    \* g_suspend_flag of the parent
  list,       \* music_head of the parent: whose list it is, NoSinger if NULL
  pc,         \* where the main program and the SIGUSR1 handler stand
  frame,      \* their local variables
  usr1,       \* SIGUSR1 is pending for the parent
  up,         \* the parent is alive
  shm,        \* the shared memory block
  sem,        \* the value of the semaphore
  adj,        \* the kernel's SEM_UNDO adjustment of every process
  st,         \* the state of every other process
  proc,       \* the rest of what is known of every other process
  fifo,       \* commands written to /root/fifo/cmd_fifo and not yet read
  asked,      \* a command is given and main has not read it yet
  crossed,    \* history: main read a command that something had overtaken
  budget      \* commands the user may still give

flags == <<start, suspend, list>>
kernel == <<sem, adj>>
children == <<st, proc>>
user == <<asked, crossed, budget>>
vars == <<start, suspend, list, pc, frame, usr1, up, shm, sem, adj, st, proc,
          fifo, asked, crossed, budget>>

-----------------------------------------------------------------------------
(* Data.                                                                   *)

NoSong == <<NoSinger, 0>>
Song == Singers \X (1..NumSongs)
SongOrNone == Song \union {NoSong}
ListOrNull == Singers \union {NoSinger}
PidValue == Pids \union {Parent, Group, Init1}

Shm == [song: SongOrNone, mode: {"sequence", "circle"}, child: PidValue]
InitShm == [song |-> NoSong, mode |-> "sequence", child |-> Group]

Contexts == {"main", "usr1"}
Labels == {"idle", "next_p", "next_eintr", "next_cs", "prev_p", "prev_eintr",
           "prev_cs", "mode_set", "open", "write", "suspended", "resumed",
           "wait", "fetch", "reply", "begin", "upd_p", "upd_v"}
Msg == [op: {"none", "pause", "quit", "load"}, song: SongOrNone]
Frame == [msg: Msg, then: Labels, after: Labels, cur: Shm, singer: ListOrNull]
NoMsg == [op |-> "none", song |-> NoSong]
EmptyFrame == [msg |-> NoMsg, then |-> "idle", after |-> "idle",
               cur |-> InitShm, singer |-> NoSinger]

States == {"free", "zombie",                      \* no process, not reaped yet
           "loop", "child_wait",                  \* ChildProcess
           "semp", "cs", "eol", "eol_child",      \* grandchild, own code
           "exec", "boot", "play"}                \* execv and mplayer
Process == [ppid: PidValue, name: SongOrNone, paused: BOOLEAN,
            blocked: BOOLEAN, pend: BOOLEAN, list: ListOrNull, loc: Shm]
Blank == [ppid |-> Init1, name |-> NoSong, paused |-> FALSE, blocked |-> FALSE,
          pend |-> FALSE, list |-> NoSinger, loc |-> InitShm]

Alive(p) == st[p] \notin {"free", "zombie"}
Readers == {p \in Pids : st[p] = "play"}

(* strstr() finds the first node whose name contains the current one; the  *)
(* empty name is contained in every name.                                  *)
IsIn(song, l) == l # NoSinger /\ (song = NoSong \/ song[1] = l)
Index(song) == IF song = NoSong THEN 1 ELSE song[2]
FindNextMusic(song, l) == <<l, Index(song) + 1>>
FindPrevMusic(song, l) == <<l, IF Index(song) = 1 THEN 1 ELSE Index(song) - 1>>
IsLastOffByOne(song) == Index(song) = NumSongs + 1  \* mutant of IsLast
IsLast(song) == Index(song) = NumSongs

-----------------------------------------------------------------------------
(* The kernel: semaphores with SEM_UNDO, fork, kill, exit.                 *)

SemPWithoutWaiting(p) == /\ sem' = sem - 1          \* mutant of SemP
                         /\ adj' = [adj EXCEPT ![p] = @ + 1]
SemP(p) == /\ sem > 0
           /\ sem' = sem - 1
           /\ adj' = [adj EXCEPT ![p] = @ + 1]

SemV(p) == /\ sem' = sem + 1
           /\ adj' = [adj EXCEPT ![p] = @ - 1]

(* A freed pid is not handed out again while somebody remembers it.        *)
Remembered == {shm.child} \union {frame[f].cur.child : f \in Contexts}
                          \union {proc[p].loc.child : p \in Pids}
FreePids == {p \in Pids : st[p] = "free"} \ Remembered

(* kill(pid, SIGUSR1) as far as processes other than the parent go.        *)
Signal(pid, f) ==
  [q \in Pids |-> IF Alive(q) /\ pid \in {q, Group}
                  THEN [f[q] EXCEPT !.pend = TRUE] ELSE f[q]]

UndoneWithoutFlag(p) == sem                        \* mutant of Undone
Undone(p) == IF sem + adj[p] < 0 THEN 0 ELSE sem + adj[p]

(* Process p is gone: a zombie until its parent waits for it, its children *)
(* go to pid 1, SEM_UNDO is applied, an unread FIFO is lost with its last  *)
(* reader. f is what is known of the processes when it happens, unread the *)
(* commands p leaves in the FIFO.                                          *)
Exit(p, f, unread) ==
  /\ st' = [q \in Pids |->
              IF q = p THEN IF f[q].ppid = Init1 THEN "free" ELSE "zombie"
              ELSE IF f[q].ppid = p /\ st[q] = "zombie" THEN "free" ELSE st[q]]
  /\ proc' = [q \in Pids |->
              IF st'[q] = "free" THEN Blank
              ELSE IF q = p THEN [Blank EXCEPT !.ppid = f[q].ppid]
              ELSE IF f[q].ppid = p THEN [f[q] EXCEPT !.ppid = Init1]
              ELSE f[q]]
  /\ sem' = Undone(p)
  /\ adj' = [adj EXCEPT ![p] = 0]
  /\ fifo' = IF Readers \subseteq {p} THEN <<>> ELSE unread

(* The parent dies: SIGSEGV or SIGPIPE.                                    *)
Crash == /\ up' = FALSE
         /\ usr1' = FALSE
         /\ pc' = [f \in Contexts |-> "idle"]
         /\ frame' = [f \in Contexts |-> EmptyFrame]
         /\ Exit(Parent, proc, fifo)
         /\ UNCHANGED <<start, suspend, list, shm>>

-----------------------------------------------------------------------------
(* The parent: main is the handler of one event of the select loop, usr1   *)
(* is UpdateMusic, which interrupts main and masks SIGUSR1 while it runs.  *)
(* A signal that is pending and not blocked is taken before the next step. *)

Runs(f) == up /\ (f = "main" => pc["usr1"] = "idle" /\ ~usr1)
Idle == pc["main"] = "idle" /\ pc["usr1"] = "idle"
Jump(f, label) == pc' = [pc EXCEPT ![f] = label]
Return(f) == /\ Jump(f, "idle")
             /\ frame' = [frame EXCEPT ![f] = EmptyFrame]

(* Begin WriteFifo(msg), to go on at then and after StopPlay at after.     *)
WriteFifo(f, msg, then, after, cur, singer) ==
  /\ frame' = [frame EXCEPT ![f] = [msg |-> msg, then |-> then, after |-> after,
                                    cur |-> cur, singer |-> singer]]
  /\ Jump(f, "open")
Pause == [NoMsg EXCEPT !.op = "pause"]
Quit == [NoMsg EXCEPT !.op = "quit"]
Load(song) == [op |-> "load", song |-> song]

Fork(p, name, ppid, blocked, l, state) ==
  /\ st' = [st EXCEPT ![p] = state]
  /\ proc' = [proc EXCEPT ![p] = [Blank EXCEPT !.ppid = ppid, !.name = name,
                                  !.blocked = blocked, !.list = l]]

(* A child forked in the handler inherits its mask: SIGUSR1 stays blocked. *)
PlayMusic(f) ==
  \E c \in FreePids : Fork(c, <<list, 1>>, Parent, f = "usr1", list, "loop")

Resumes == suspend = 1

StartPlay(f) ==
  \/ /\ Resumes                                         \* ContinuePlay()
     /\ WriteFifo(f, Pause, "resumed", "idle", frame[f].cur, NoSinger)
     /\ UNCHANGED <<flags, usr1, up, shm, kernel, children, fifo>>
  \/ /\ ~Resumes /\ start = 1
     /\ Return(f)
     /\ UNCHANGED <<flags, usr1, up, shm, kernel, children, fifo>>
  \/ /\ ~Resumes /\ start = 0 /\ list # NoSinger
     /\ PlayMusic(f)
     /\ start' = 1
     /\ Return(f)
     /\ UNCHANGED <<suspend, list, usr1, up, shm, kernel, fifo>>
  \/ /\ ~Resumes /\ start = 0 /\ list = NoSinger     \* music_head is NULL
     /\ Crash

ClearStartOnly == start' = 0 /\ UNCHANGED suspend   \* mutant of ClearFlags
ClearFlags == start' = 0 /\ suspend' = 0

StopPlay(f, after, singer) ==
  /\ proc' = Signal(shm.child, proc)
  /\ usr1' = (usr1 \/ shm.child = Group)
  /\ ClearFlags
  /\ WriteFifo(f, Quit, "wait", after, shm, singer)
  /\ UNCHANGED <<list, up, shm, kernel, st, fifo>>

(* StopPlay, GetMusicName, StartPlay: another list begins. Without the     *)
(* music StopPlay returns at once.                                         *)
Replace(singer) ==
  \/ start = 1 /\ StopPlay("main", "fetch", singer)
  \/ /\ start = 0
     /\ frame' = [frame EXCEPT !["main"] = [EmptyFrame EXCEPT !.singer = singer]]
     /\ Jump("main", "fetch")
     /\ UNCHANGED <<flags, usr1, up, shm, kernel, children, fifo>>

(* What the last command asked for is there: music, or silence after a     *)
(* stop that has returned.                                                 *)
Settled == IF start = 1 THEN Readers # {} ELSE Idle /\ \A p \in Pids : ~Alive(p)

(* The user gives a command, which waits in stdin, the socket or asr_fifo  *)
(* until select() shows it to main. Which one it is matters to nobody      *)
(* before: it is chosen when it is read.                                   *)
Ask == /\ ~asked /\ budget > 0
       /\ Patient => Settled
       /\ asked' = TRUE
       /\ budget' = budget - 1
       /\ UNCHANGED <<flags, pc, frame, usr1, up, shm, kernel, children, fifo,
                      crossed>>

(* Main reads it: by then a list may have ended and another begun.         *)
Command(c) == /\ Runs("main") /\ Idle
              /\ asked /\ c \in Commands
              /\ asked' = FALSE
              /\ crossed' = (crossed \/ ~Settled)
              /\ UNCHANGED budget

(* The early returns: nothing to stop, suspend, continue or skip.          *)
CmdIgnored ==
  /\ \/ (Command("stop") \/ Command("next") \/ Command("prev")) /\ start = 0
     \/ Command("suspend") /\ (start = 0 \/ suspend = 1)
     \/ Command("continue") /\ suspend = 0
  /\ UNCHANGED <<flags, pc, frame, usr1, up, shm, kernel, children, fifo>>

CmdStart == Command("start") /\ StartPlay("main")

CmdStop == Command("stop") /\ start = 1 /\ StopPlay("main", "idle", NoSinger)

CmdSuspend ==
  /\ Command("suspend")
  /\ start = 1 /\ suspend = 0
  /\ WriteFifo("main", Pause, "suspended", "idle", InitShm, NoSinger)
  /\ UNCHANGED <<flags, usr1, up, shm, kernel, children, fifo>>

CmdContinue ==
  /\ Command("continue")
  /\ suspend = 1
  /\ WriteFifo("main", Pause, "resumed", "idle", InitShm, NoSinger)
  /\ UNCHANGED <<flags, usr1, up, shm, kernel, children, fifo>>

CmdSkip(c) ==
  /\ Command(c)
  /\ c \in {"next", "prev"}
  /\ start = 1
  /\ Jump("main", IF c = "next" THEN "next_p" ELSE "prev_p")
  /\ UNCHANGED <<flags, frame, usr1, up, shm, kernel, children, fifo>>

(* CirclePlay and SequencePlay: GetShm, then SetShm, without the lock.     *)
CmdMode(c) ==
  /\ Command(c)
  /\ c \in {"circle", "sequence"}
  /\ frame' = [frame EXCEPT !["main"] =
                 [EmptyFrame EXCEPT !.cur = [shm EXCEPT !.mode = c]]]
  /\ Jump("main", "mode_set")
  /\ UNCHANGED <<flags, usr1, up, shm, kernel, children, fifo>>

SetMode ==
  /\ Runs("main") /\ pc["main"] = "mode_set"
  /\ shm' = frame["main"].cur
  /\ Return("main")
  /\ UNCHANGED <<flags, usr1, up, kernel, children, fifo, user>>

(* One of the singers the voice commands name.                             *)
CmdSinger(s) == Command("singer") /\ Replace(s)

(* open(O_WRONLY) of a FIFO waits for a reader.                            *)
FifoOpen(f) ==
  /\ Runs(f) /\ pc[f] = "open" /\ Readers # {}
  /\ Jump(f, "write")
  /\ UNCHANGED <<flags, frame, usr1, up, shm, kernel, children, fifo, user>>

(* write() without a reader is SIGPIPE.                                    *)
FifoWrite(f) ==
  /\ Runs(f) /\ pc[f] = "write"
  /\ \/ /\ Readers # {}
        /\ fifo' = Append(fifo, frame[f].msg)
        /\ Jump(f, frame[f].then)
        /\ UNCHANGED <<flags, frame, usr1, up, shm, kernel, children>>
     \/ Readers = {} /\ Crash
  /\ UNCHANGED user

(* The flag is set after the write, in SuspendPlay and in the three that   *)
(* clear it: ContinuePlay, NextPlay and PrevPlay.                          *)
SetSuspend(f) ==
  /\ Runs(f) /\ pc[f] \in {"suspended", "resumed"}
  /\ suspend' = IF pc[f] = "suspended" THEN 1 ELSE 0
  /\ Return(f)
  /\ UNCHANGED <<start, list, usr1, up, shm, kernel, children, fifo,
                 user>>

(* waitpid(cur.child): 0 means any child, ECHILD returns at once.          *)
AwaitedNobody(pid) == {}                           \* mutant of Awaited
Awaited(pid) == {q \in Pids : st[q] # "free" /\ proc[q].ppid = Parent
                              /\ pid \in {q, Group}}
WaitPid(f) ==
  /\ Runs(f) /\ pc[f] = "wait"
  /\ \/ /\ Awaited(frame[f].cur.child) = {}
        /\ UNCHANGED children
     \/ \E q \in Awaited(frame[f].cur.child) :
          /\ st[q] = "zombie"
          /\ st' = [st EXCEPT ![q] = "free"]
          /\ proc' = [proc EXCEPT ![q] = Blank]
  /\ IF frame[f].after = "idle" THEN Return(f)
     ELSE Jump(f, frame[f].after) /\ UNCHANGED frame
  /\ UNCHANGED <<flags, usr1, up, shm, kernel, fifo, user>>

(* GetMusicName: clear the list, ask for the singer's songs, ...           *)
Fetch(f) ==
  /\ Runs(f) /\ pc[f] = "fetch"
  /\ list' = NoSinger
  /\ Jump(f, "reply")
  /\ UNCHANGED <<start, suspend, frame, usr1, up, shm, kernel, children, fifo,
                 user>>

(* ... and append the answer to the list; of what is appended to another   *)
(* list nothing is kept. A broken request brings no song. A handler that   *)
(* interrupts main at this place takes the answer meant for main.          *)
Answer(f) == IF f = "usr1" /\ pc["main"] = "reply" THEN frame["main"].singer
                                                  ELSE frame[f].singer
Reply(f) ==
  /\ Runs(f) /\ pc[f] = "reply"
  /\ list' \in {IF list = NoSinger THEN Answer(f) ELSE list}
              \union (IF Faulty THEN {list} ELSE {})
  /\ frame' = IF f = "usr1" /\ pc["main"] = "reply"
              THEN [frame EXCEPT !["main"].singer = frame["usr1"].singer]
              ELSE frame
  /\ Jump(f, "begin")
  /\ UNCHANGED <<start, suspend, usr1, up, shm, kernel, children, fifo, user>>

Begin(f) == /\ Runs(f) /\ pc[f] = "begin"
            /\ StartPlay(f)
            /\ UNCHANGED user

-----------------------------------------------------------------------------
(* NextPlay and PrevPlay. semop() is not restarted after a handler: SemP   *)
(* reports EINTR and its caller goes on without the semaphore.             *)

SkipEnter ==
  /\ Runs("main")
  /\ \/ pc["main"] \in {"next_p", "prev_p"} /\ SemP(Parent)
     \/ pc["main"] \in {"next_eintr", "prev_eintr"} /\ UNCHANGED kernel
  /\ frame' = [frame EXCEPT !["main"].cur = shm]
  /\ Jump("main", IF pc["main"] \in {"next_p", "next_eintr"} THEN "next_cs"
                                                            ELSE "prev_cs")
  /\ UNCHANGED <<flags, usr1, up, shm, children, fifo, user>>

Skipping == Runs("main") /\ pc["main"] \in {"next_cs", "prev_cs"}
Cur == frame["main"].cur
Lost == Cur.mode # "circle" /\ ~IsIn(Cur.song, list)
AtEnd == Cur.mode # "circle" /\ pc["main"] = "next_cs" /\ IsLast(Cur.song)
SkipTo == IF Cur.mode = "circle" THEN Cur.song
          ELSE IF pc["main"] = "next_cs" THEN FindNextMusic(Cur.song, list)
          ELSE FindPrevMusic(Cur.song, list)

SkipLeave ==
  /\ Skipping /\ ~Lost /\ ~AtEnd
  /\ shm' = [Cur EXCEPT !.song = SkipTo]
  /\ SemV(Parent)
  /\ WriteFifo("main", Load(SkipTo), "resumed", "idle", InitShm, NoSinger)
  /\ UNCHANGED <<flags, usr1, up, children, fifo, user>>

(* The last song: the list is fetched again and the handler returns        *)
(* without SemV.                                                           *)
SkipEnd == /\ Skipping /\ ~Lost /\ AtEnd
           /\ Replace(Cur.song[1])
           /\ UNCHANGED user

(* The search runs off the list and dereferences NULL.                     *)
SkipLost == Skipping /\ Lost /\ Crash /\ UNCHANGED user

-----------------------------------------------------------------------------
(* UpdateMusic, the SIGUSR1 handler.                                       *)

DeliverUsr1 ==
  /\ up /\ usr1 /\ pc["usr1"] = "idle"
  /\ usr1' = FALSE
  /\ start' = 0
  /\ \E interrupted \in BOOLEAN :
       /\ interrupted => pc["main"] \in {"next_p", "prev_p"} /\ sem = 0
       /\ pc' = [main |-> IF ~interrupted THEN pc["main"]
                          ELSE IF pc["main"] = "next_p" THEN "next_eintr"
                          ELSE "prev_eintr",
                 usr1 |-> "upd_p"]
  /\ UNCHANGED <<suspend, list, frame, up, shm, kernel, children, fifo, user>>

UpdateRead ==
  /\ up /\ pc["usr1"] = "upd_p"
  /\ SemP(Parent)
  /\ frame' = [frame EXCEPT !["usr1"].cur = shm]
  /\ Jump("usr1", "upd_v")
  /\ UNCHANGED <<flags, usr1, up, shm, children, fifo, user>>

UpdateLeave ==
  /\ up /\ pc["usr1"] = "upd_v"
  /\ SemV(Parent)
  /\ frame' = [frame EXCEPT !["usr1"].singer = frame["usr1"].cur.song[1],
                            !["usr1"].after = "fetch"]
  /\ Jump("usr1", "wait")
  /\ UNCHANGED <<flags, usr1, up, shm, children, fifo, user>>

-----------------------------------------------------------------------------
(* The child: fork a grandchild, forget the song's name, wait, again.      *)

ChildFork(c) ==
  /\ st[c] = "loop"
  /\ \E g \in FreePids :
       /\ st' = [st EXCEPT ![c] = "child_wait", ![g] = "semp"]
       /\ proc' = [proc EXCEPT
            ![c].name = NoSong,
            ![g] = [Blank EXCEPT !.ppid = c, !.name = proc[c].name,
                                 !.blocked = proc[c].blocked,
                                 !.list = proc[c].list]]
  /\ UNCHANGED <<flags, pc, frame, usr1, up, shm, kernel, fifo, user>>

(* Mutant of ChildWait: the next song starts at once.                      *)
ChildWaitNot(c) ==
  /\ st[c] = "child_wait"
  /\ st' = [st EXCEPT ![c] = "loop"]
  /\ UNCHANGED <<flags, pc, frame, usr1, up, shm, kernel, proc, fifo, user>>

ChildWait(c) ==
  /\ st[c] = "child_wait"
  /\ \E g \in Pids : /\ st[g] = "zombie" /\ proc[g].ppid = c
                     /\ st' = [st EXCEPT ![c] = "loop", ![g] = "free"]
                     /\ proc' = [proc EXCEPT ![g] = Blank]
  /\ UNCHANGED <<flags, pc, frame, usr1, up, shm, kernel, fifo, user>>

(* A process that gets SIGUSR1 dies: ChildQuitProcess opens a file with an *)
(* invalid mode pointer before it clears the flag, and mplayer has the     *)
(* default action.                                                         *)
Doomed(p) == Alive(p) /\ proc[p].pend /\ ~proc[p].blocked
Deliver(p) ==
  /\ Doomed(p)
  /\ Exit(p, proc, fifo)
  /\ UNCHANGED <<flags, pc, frame, usr1, up, shm, user>>

-----------------------------------------------------------------------------
(* The grandchild up to execv().                                           *)

Wanted(g) == proc[g].name = NoSong     \* the name is to be looked up

GrandEnter(g) ==
  /\ st[g] = "semp"
  /\ SemP(g)
  /\ \/ /\ Wanted(g) /\ IsIn(shm.song, proc[g].list) /\ IsLast(shm.song)
        /\ st' = [st EXCEPT ![g] = "eol"]
        /\ proc' = [proc EXCEPT ![g].loc = shm]
     \/ /\ Wanted(g) /\ IsIn(shm.song, proc[g].list) /\ ~IsLast(shm.song)
        /\ st' = [st EXCEPT ![g] = "cs"]
        /\ proc' = [proc EXCEPT ![g].loc = shm,
                      ![g].name = FindNextMusic(shm.song, proc[g].list)]
     \/ /\ ~Wanted(g)
        /\ st' = [st EXCEPT ![g] = "cs"]
        /\ proc' = [proc EXCEPT ![g].loc = shm]
  /\ UNCHANGED <<flags, pc, frame, usr1, up, shm, fifo, user>>

(* FindNextMusic runs off the list: the grandchild dies of SIGSEGV between *)
(* SemP and SemV, and SEM_UNDO makes up for it.                            *)
GrandLost(g) ==
  /\ st[g] = "semp" /\ sem > 0
  /\ Wanted(g) /\ ~IsIn(shm.song, proc[g].list)
  /\ Exit(g, proc, fifo)
  /\ UNCHANGED <<flags, pc, frame, usr1, up, shm, user>>

PublishedChild(g) == [proc[g].loc EXCEPT !.child = proc[g].ppid]  \* mutant
Published(g) == [proc[g].loc EXCEPT !.song = proc[g].name,
                                    !.child = proc[g].ppid]

GrandLeave(g) ==
  /\ st[g] = "cs"
  /\ shm' = Published(g)
  /\ SemV(g)
  /\ st' = [st EXCEPT ![g] = "exec"]
  /\ proc' = [proc EXCEPT ![g].loc = [InitShm EXCEPT !.child = proc[g].ppid]]
  /\ UNCHANGED <<flags, pc, frame, usr1, up, fifo, user>>

(* The list has ended: SIGUSR1 to the parent, then to the child, then exit *)
(* inside the critical section.                                            *)
GrandTellNobody(g) ==                              \* mutant of the next
  /\ st[g] = "eol"
  /\ st' = [st EXCEPT ![g] = "eol_child"]
  /\ UNCHANGED <<flags, pc, frame, usr1, up, shm, kernel, proc, fifo, user>>
GrandTellParent(g) ==
  /\ st[g] = "eol"
  /\ usr1' = up
  /\ st' = [st EXCEPT ![g] = "eol_child"]
  /\ UNCHANGED <<flags, pc, frame, up, shm, kernel, proc, fifo, user>>

GrandTellChild(g) ==
  /\ st[g] = "eol_child"
  /\ Exit(g, Signal(proc[g].loc.child, proc), fifo)
  /\ usr1' = (usr1 \/ (up /\ proc[g].loc.child = Group))
  /\ UNCHANGED <<flags, pc, frame, up, shm, user>>

GrandExec(g) ==
  /\ st[g] = "exec"
  /\ st' = [st EXCEPT ![g] = "boot"]
  /\ proc' = [proc EXCEPT ![g].loc = InitShm, ![g].list = NoSinger]
  /\ UNCHANGED <<flags, pc, frame, usr1, up, shm, kernel, fifo, user>>

GrandExecFails(g) ==
  /\ Faulty
  /\ st[g] = "exec"
  /\ Exit(g, Signal(proc[g].loc.child, proc), fifo)
  /\ usr1' = (usr1 \/ (up /\ proc[g].loc.child = Group))
  /\ UNCHANGED <<flags, pc, frame, up, shm, user>>

-----------------------------------------------------------------------------
(* mplayer -slave: a reader of the FIFO once it runs.                      *)

MpOpen(m) ==
  /\ st[m] = "boot"
  /\ st' = [st EXCEPT ![m] = "play"]
  /\ UNCHANGED <<flags, pc, frame, usr1, up, shm, kernel, proc, fifo, user>>

MpRead(m) ==
  /\ st[m] = "play" /\ fifo # <<>>
  /\ \/ /\ Head(fifo).op = "pause"
        /\ proc' = [proc EXCEPT ![m].paused = ~@]
        /\ fifo' = Tail(fifo)
        /\ UNCHANGED <<st, kernel>>
     \/ /\ Head(fifo).op = "load"
        /\ proc' = [proc EXCEPT ![m].paused = FALSE, ![m].name = Head(fifo).song]
        /\ fifo' = Tail(fifo)
        /\ UNCHANGED <<st, kernel>>
     \/ /\ Head(fifo).op = "quit"
        /\ Exit(m, proc, Tail(fifo))
  /\ UNCHANGED <<flags, pc, frame, usr1, up, shm, user>>

MpEnd(m) ==
  /\ st[m] = "play" /\ ~proc[m].paused
  /\ Exit(m, proc, fifo)
  /\ UNCHANGED <<flags, pc, frame, usr1, up, shm, user>>

-----------------------------------------------------------------------------
Init == /\ start = 0 /\ suspend = 0
        /\ list \in Singers                     \* main: GetMusicName
        /\ pc = [f \in Contexts |-> "idle"]
        /\ frame = [f \in Contexts |-> EmptyFrame]
        /\ usr1 = FALSE /\ up = TRUE
        /\ shm = InitShm
        /\ sem = 1
        /\ adj = [p \in Pids \union {Parent} |-> 0]
        /\ st = [p \in Pids |-> "free"]
        /\ proc = [p \in Pids |-> Blank]
        /\ fifo = <<>>
        /\ asked = FALSE /\ crossed = FALSE
        /\ budget = MaxCmds

Handle == \/ CmdStart \/ CmdStop \/ CmdSuspend \/ CmdContinue \/ CmdIgnored
          \/ \E c \in {"next", "prev"} : CmdSkip(c)
          \/ \E c \in {"circle", "sequence"} : CmdMode(c)
          \/ \E s \in Singers : CmdSinger(s)

Step(f) == \/ FifoOpen(f) \/ FifoWrite(f) \/ SetSuspend(f) \/ WaitPid(f)
           \/ Fetch(f) \/ Reply(f) \/ Begin(f)
MainStep == \/ Handle \/ Step("main") \/ SetMode
            \/ SkipEnter \/ SkipLeave \/ SkipEnd \/ SkipLost
Usr1Step == Step("usr1") \/ DeliverUsr1 \/ UpdateRead \/ UpdateLeave
ChildStep(c) == ChildFork(c) \/ ChildWait(c)
GrandStep(g) == \/ GrandEnter(g) \/ GrandLost(g) \/ GrandLeave(g)
                \/ GrandTellParent(g) \/ GrandTellChild(g)
                \/ GrandExec(g) \/ GrandExecFails(g)
MpStep(m) == MpOpen(m) \/ MpRead(m) \/ MpEnd(m)
ProcStep(p) == \/ Deliver(p)
               \/ ~Doomed(p) /\ (ChildStep(p) \/ GrandStep(p) \/ MpStep(p))

Next == Ask \/ MainStep \/ Usr1Step \/ \E p \in Pids : ProcStep(p)

(* Every process runs and every song comes to its end; the user owes       *)
(* nothing. semop() serves its waiters in turn and open() of a FIFO is     *)
(* woken by a reader that does not stay, hence strong fairness there.      *)
Fairness == /\ WF_vars(MainStep) /\ WF_vars(Usr1Step)
            /\ \A p \in Pids : WF_vars(ProcStep(p)) /\ SF_vars(GrandEnter(p))
            /\ SF_vars(SkipEnter) /\ SF_vars(UpdateRead)
            /\ \A f \in Contexts : SF_vars(FifoOpen(f))

SafetySpec == Init /\ [][Next]_vars
Spec == SafetySpec /\ Fairness

-----------------------------------------------------------------------------
(* Properties.                                                             *)

(* The variables keep their types; the semaphore may exceed one.           *)
TypeOK == /\ start \in {0, 1} /\ suspend \in {0, 1}
          /\ list \in ListOrNull
          /\ pc \in [Contexts -> Labels]
          /\ frame \in [Contexts -> Frame]
          /\ usr1 \in BOOLEAN /\ up \in BOOLEAN
          /\ shm \in Shm
          /\ sem \in Nat
          /\ adj \in [Pids \union {Parent} -> Int]
          /\ st \in [Pids -> States]
          /\ proc \in [Pids -> Process]
          /\ fifo \in Seq(Msg)
          /\ asked \in BOOLEAN /\ crossed \in BOOLEAN
          /\ budget \in 0..MaxCmds

(* Who is between SemP and SemV.                                           *)
Inside(x) == IF x = Parent
             THEN pc["usr1"] = "upd_v" \/ pc["main"] \in {"next_cs", "prev_cs"}
             ELSE st[x] \in {"cs", "eol", "eol_child"}

(* The semaphore is a lock: never two processes between SemP and SemV.     *)
MutualExclusion ==
  \A x, y \in Pids \union {Parent} : Inside(x) /\ Inside(y) => x = y

(* The lock is never lost: while it is taken, somebody is between SemP and *)
(* SemV, or has died there and SEM_UNDO has given it back.                 *)
LockIsHeldInside == sem = 0 => \E x \in Pids \union {Parent} : Inside(x)

(* "Suspended" is never left behind by music that stopped.                 *)
SuspendedIsStarted == up /\ Idle /\ suspend = 1 => start = 1

Quits == Cardinality({i \in DOMAIN fifo : fifo[i].op = "quit"})

(* The next five hold as long as main reads every command while what the   *)
(* command before it asked for is there to be heard (~crossed).            *)

(* When the parent is stopped and idle nothing will play: every process    *)
(* left is an mplayer with an unread quit of its own.                      *)
StoppedIsSilent ==
  ~crossed /\ up /\ Idle /\ start = 0 =>
    LET left == {p \in Pids : Alive(p)}
    IN  (\A p \in left : st[p] = "play") /\ Cardinality(left) <= Quits

(* A parent that is stopped and idle has reaped every child it forked,     *)
(* whether a stop or the end of a list ended it (player.c:283 and 350).    *)
NoChildLeft ==
  ~crossed /\ up /\ Idle /\ start = 0 =>
    \A p \in Pids : st[p] # "free" => proc[p].ppid # Parent

(* Two songs never sound at the same time.                                 *)
OnePlayer ==
  ~crossed => Cardinality({p \in Pids : st[p] \in {"exec", "boot", "play"}}) <= 1

(* The song the status message names is the song that sounds.              *)
StatusNamesTheSong ==
  ~crossed =>
    \A p \in Pids : st[p] = "play" /\ fifo = <<>> /\ up /\ Idle =>
                      proc[p].name = shm.song

(* The songs in shared memory are those of a playlist (module Playlist):   *)
(* each list from its first song to its last, none left out, although     *)
(* every song is looked up by another grandchild, by the name that the one *)
(* before it has left there (player.c:198-231), and lists are ended by     *)
(* three processes and a signal (player.c:212-220, 274-288). A user who    *)
(* did not wait (crossed) is promised nothing.                             *)
ForkedAnew == \E p \in Pids \ {shm.child} : st[p] \in {"loop", "child_wait"}
Phase == IF crossed \/ ~up THEN "lost"
         ELSE IF usr1 \/ pc["usr1"] # "idle" \/ ForkedAnew THEN "begins"
         ELSE IF \E p \in Pids : st[p] \in {"loop", "child_wait"} THEN "plays"
         ELSE "stopped"
Songs == INSTANCE Playlist WITH song <- shm.song, phase <- Phase
SongsInOrder == Songs!Spec

(* StopPlay tells the child to quit and reaps it (player.c:342 and 350):   *)
(* the pid it finds in shared memory is that of a child it has: not 0,     *)
(* which means the whole process group, nor the child of a list that is    *)
(* over, whose pid nobody has any more.                                    *)
StopFindsChild ==
  [][CmdStop => /\ shm.child \in Pids
                /\ st[shm.child] # "free" /\ proc[shm.child].ppid = Parent]_vars

(* When the last song of a list is over the parent fetches the list again  *)
(* and plays its first song (player.c:212-213).                            *)
Restarted == \E m \in Pids : st[m] = "play" /\ proc[m].name[2] = 1
ListRepeats == (\E g \in Pids : st[g] = "eol") ~> Restarted

(* It does so as long as the child was not forked inside the handler.      *)
FirstListRepeats ==
  (\E g \in Pids : st[g] = "eol" /\ ~proc[g].blocked) ~> Restarted

(* A stop comes to its end: mplayer has read quit and the child is reaped  *)
(* (player.c:346-350).                                                     *)
StopReturns == (pc["main"] # "idle" /\ frame["main"].then = "wait") ~> Idle

=============================================================================
