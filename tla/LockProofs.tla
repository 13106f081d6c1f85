----------------------------- MODULE LockProofs -----------------------------
(***************************************************************************)
(* The semaphore of the player is a lock, for any number of processes,     *)
(* singers, songs and commands, as long as nobody skips a song.            *)
(***************************************************************************)
EXTENDS PlaybackProofs

-----------------------------------------------------------------------------
(* The lock, for users who neither skip forward nor back.                  *)

NoSkips == Commands \intersect {"next", "prev"} = {}

Everybody == Pids \union {Parent}
SkipLabels == {"next_p", "next_eintr", "next_cs",
               "prev_p", "prev_eintr", "prev_cs"}

(* Main never reaches NextPlay or PrevPlay, and neither WriteFifo nor      *)
(* waitpid returns into a critical section.                                *)
NeverSkips ==
  /\ pc["main"] \notin SkipLabels
  /\ \A f \in Contexts : /\ frame[f].then \in {"idle", "suspended", "resumed", "wait"}
                         /\ frame[f].after \in {"idle", "fetch"}

(* The kernel owes a unit to exactly those inside, and either the unit is  *)
(* in the semaphore or one process holds it.                               *)
LockOK ==
  /\ \A x \in Everybody : adj[x] = IF Inside(x) THEN 1 ELSE 0
  /\ \/ sem = 1 /\ \A x \in Everybody : ~Inside(x)
     \/ sem = 0 /\ \E x \in Everybody : /\ Inside(x)
                                        /\ \A y \in Everybody : Inside(y) => y = x

LockInv == TypeOK /\ NeverSkips /\ LockOK

(* Nobody else enters or leaves.                                           *)
OthersStay(p) == \A x \in Everybody \ {p} : Inside(x)' <=> Inside(x)

(* A step that leaves the semaphore alone and moves nobody in or out.      *)
LEMMA LockStays ==
  ASSUME LockOK, UNCHANGED <<sem, adj>>,
         \A x \in Everybody : Inside(x)' <=> Inside(x)
  PROVE  LockOK'
BY DEF LockOK

(* SemP by one who is outside.                                             *)
LEMMA LockTaken ==
  ASSUME TypeOK, LockOK, NEW p \in Everybody, SemP(p), Inside(p)', OthersStay(p)
  PROVE  LockOK'
<1>1. sem = 1 /\ sem' = 0 /\ \A x \in Everybody : ~Inside(x)
  BY DEF LockOK, SemP
<1>2. \A x \in Everybody : Inside(x)' <=> x = p
  BY <1>1 DEF OthersStay
<1>3. \A x \in Everybody : adj'[x] = IF x = p THEN 1 ELSE 0
  BY <1>1 DEF LockOK, SemP, TypeOK, Everybody
<1> QED
  BY <1>1, <1>2, <1>3 DEF LockOK

(* SemV by the one who is inside.                                          *)
LEMMA LockGiven ==
  ASSUME TypeOK, LockOK, NEW p \in Everybody, Inside(p), SemV(p), ~Inside(p)',
         OthersStay(p)
  PROVE  LockOK'
<1>1. sem = 0 /\ sem' = 1 /\ \A x \in Everybody : Inside(x) <=> x = p
  BY DEF LockOK, SemV
<1>2. \A x \in Everybody : ~Inside(x)'
  BY <1>1 DEF OthersStay
<1>3. \A x \in Everybody : adj'[x] = 0
  BY <1>1 DEF LockOK, SemV, TypeOK, Everybody
<1> QED
  BY <1>1, <1>2, <1>3 DEF LockOK

(* SEM_UNDO: a process may die inside and the lock is as good as before.   *)
LEMMA LockUndone ==
  ASSUME TypeOK, LockOK, NEW p \in Everybody, NEW f, NEW unread,
         Exit(p, f, unread), ~Inside(p)', OthersStay(p)
  PROVE  LockOK'
<1>1. \A x \in Everybody : adj'[x] = IF x = p THEN 0 ELSE adj[x]
  BY DEF Exit, TypeOK, Everybody
<1>2. CASE Inside(p)
  <2>1. sem = 0 /\ adj[p] = 1 /\ \A x \in Everybody : Inside(x) <=> x = p
    BY <1>2 DEF LockOK
  <2>2. sem' = 1
    BY <2>1 DEF Exit, Undone
  <2>3. \A x \in Everybody : ~Inside(x)'
    BY <2>1 DEF OthersStay
  <2>4. \A x \in Everybody : adj'[x] = 0
    BY <1>1, <2>1 DEF LockOK
  <2> QED
    BY <2>2, <2>3, <2>4 DEF LockOK
<1>3. CASE ~Inside(p)
  <2>1. adj[p] = 0 /\ sem \in Nat
    BY <1>3 DEF LockOK, TypeOK
  <2>2. sem' = sem
    BY <2>1 DEF Exit, Undone
  <2>3. \A x \in Everybody : Inside(x)' <=> Inside(x)
    BY <1>3 DEF OthersStay
  <2>4. \A x \in Everybody : adj'[x] = adj[x]
    BY <1>1, <2>1
  <2> QED
    BY <2>2, <2>3, <2>4 DEF LockOK
<1> QED
  BY <1>2, <1>3

-----------------------------------------------------------------------------
(* What the steps have in common.                                          *)

Held == {"cs", "eol", "eol_child"}

(* Steps outside of the critical sections.                                 *)
LEMMA Unmoved ==
  ASSUME LockOK, NeverSkips, NeverSkips', UNCHANGED <<sem, adj>>,
         (pc["usr1"] = "upd_v")' <=> pc["usr1"] = "upd_v",
         \A p \in Pids : (st[p] \in Held)' <=> st[p] \in Held
  PROVE  LockOK'
<1>1. \A x \in Everybody : Inside(x)' <=> Inside(x)
  BY DEF Inside, Everybody, Held, NeverSkips, SkipLabels
<1> QED
  BY <1>1, LockStays

(* The end of another process, whatever it is doing.                       *)
LEMMA ExitLock ==
  ASSUME TypeOK, LockOK, NEW p \in Pids, NEW f, NEW unread,
         Exit(p, f, unread), UNCHANGED pc
  PROVE  LockOK'
<1>1. ~Inside(p)' /\ OthersStay(p)
  BY PidsAssumption DEF Inside, OthersStay, Everybody, Exit, TypeOK
<1> QED
  BY <1>1, LockUndone DEF Everybody

(* The end of the parent.                                                  *)
LEMMA CrashLock ==
  ASSUME TypeOK, LockOK, Crash
  PROVE  LockOK' /\ NeverSkips'
<1>1. NeverSkips'
  BY DEF Crash, NeverSkips, SkipLabels, EmptyFrame, Contexts
<1>2. ~Inside(Parent)' /\ OthersStay(Parent)
  BY PidsAssumption DEF Inside, OthersStay, Everybody, Crash, Exit, TypeOK, Contexts
<1>3. Exit(Parent, proc, fifo)
  BY DEF Crash
<1> QED
  BY <1>1, <1>2, <1>3, LockUndone DEF Everybody

(* WriteFifo goes on at harmless places.                                   *)
LEMMA WriteFifoSkips ==
  ASSUME TypeOK, NeverSkips, NEW f \in Contexts, NEW msg,
         NEW then \in {"idle", "suspended", "resumed", "wait"},
         NEW after \in {"idle", "fetch"}, NEW cur, NEW singer,
         WriteFifo(f, msg, then, after, cur, singer)
  PROVE  NeverSkips' /\ pc' = [pc EXCEPT ![f] = "open"]
BY DEF TypeOK, NeverSkips, WriteFifo, Jump, SkipLabels

(* Return goes on in the select loop.                                      *)
LEMMA ReturnSkips ==
  ASSUME TypeOK, NeverSkips, NEW f \in Contexts, Return(f)
  PROVE  NeverSkips' /\ pc' = [pc EXCEPT ![f] = "idle"]
BY DEF TypeOK, NeverSkips, Return, Jump, SkipLabels, EmptyFrame

-----------------------------------------------------------------------------
(* The parent keeps the lock.                                              *)

(* StartPlay outside of the handler's critical section.                    *)
LEMMA StartPlayLock ==
  ASSUME TypeOK, NeverSkips, LockOK, NEW f \in Contexts, pc[f] # "upd_v",
         StartPlay(f)
  PROVE  NeverSkips' /\ LockOK'
<1> USE DEF kernel, children
<1>1. CASE WriteFifo(f, Pause, "resumed", "idle", frame[f].cur, NoSinger)
           /\ UNCHANGED <<flags, usr1, up, shm, kernel, children, fifo>>
  <2>1. NeverSkips' /\ pc' = [pc EXCEPT ![f] = "open"]
    BY <1>1, WriteFifoSkips
  <2> QED
    BY <1>1, <2>1, Unmoved DEF TypeOK, Contexts
<1>2. CASE Return(f) /\ UNCHANGED <<flags, usr1, up, shm, kernel, children, fifo>>
  <2>1. NeverSkips' /\ pc' = [pc EXCEPT ![f] = "idle"]
    BY <1>2, ReturnSkips
  <2> QED
    BY <1>2, <2>1, Unmoved DEF TypeOK, Contexts
<1>3. CASE PlayMusic(f) /\ Return(f) /\ UNCHANGED kernel
  <2>1. NeverSkips' /\ pc' = [pc EXCEPT ![f] = "idle"]
    BY <1>3, ReturnSkips
  <2>2. \A p \in Pids : (st[p] \in Held)' <=> st[p] \in Held
    BY <1>3 DEF PlayMusic, Fork, FreePids, Held, TypeOK
  <2> QED
    BY <1>3, <2>1, <2>2, Unmoved DEF TypeOK, Contexts
<1>4. CASE Crash
  BY <1>4, CrashLock
<1> QED
  BY <1>1, <1>2, <1>3, <1>4 DEF StartPlay

(* StopPlay of the select loop.                                            *)
LEMMA StopPlayLock ==
  ASSUME TypeOK, NeverSkips, LockOK, NEW after \in {"idle", "fetch"}, NEW singer,
         StopPlay("main", after, singer)
  PROVE  NeverSkips' /\ LockOK'
<1>1. NeverSkips' /\ pc' = [pc EXCEPT !["main"] = "open"]
  BY WriteFifoSkips DEF StopPlay, Contexts
<1> QED
  BY <1>1, Unmoved DEF StopPlay, kernel, TypeOK, Contexts

(* The commands of a user who does not skip.                               *)
LEMMA HandleLock ==
  ASSUME NoSkips, TypeOK, NeverSkips, LockOK, Handle
  PROVE  NeverSkips' /\ LockOK'
<1> USE DEF kernel, children
<1>0. "main" \in Contexts
  BY DEF Contexts
<1>1. CASE CmdStart
  <2>1. pc["main"] # "upd_v" /\ StartPlay("main")
    BY <1>1 DEF CmdStart, Command, Idle
  <2> QED
    BY <1>0, <2>1, StartPlayLock
<1>2. CASE CmdStop
  BY <1>2, StopPlayLock DEF CmdStop
<1>3. CASE CmdSuspend
  <2>1. NeverSkips' /\ pc' = [pc EXCEPT !["main"] = "open"]
    BY <1>0, <1>3, WriteFifoSkips DEF CmdSuspend
  <2> QED
    BY <1>3, <2>1, Unmoved DEF CmdSuspend, TypeOK, Contexts
<1>4. CASE CmdContinue
  <2>1. NeverSkips' /\ pc' = [pc EXCEPT !["main"] = "open"]
    BY <1>0, <1>4, WriteFifoSkips DEF CmdContinue
  <2> QED
    BY <1>4, <2>1, Unmoved DEF CmdContinue, TypeOK, Contexts
<1>5. \A c \in {"next", "prev"} : ~CmdSkip(c)
  BY DEF CmdSkip, Command, NoSkips
<1>6. ASSUME NEW c \in {"circle", "sequence"}, CmdMode(c)
      PROVE  NeverSkips' /\ LockOK'
  <2>1. NeverSkips' /\ pc' = [pc EXCEPT !["main"] = "mode_set"]
    BY <1>0, <1>6 DEF CmdMode, Jump, TypeOK, NeverSkips, SkipLabels, EmptyFrame
  <2> QED
    BY <1>6, <2>1, Unmoved DEF CmdMode, TypeOK, Contexts
<1>7. ASSUME NEW s \in Singers, CmdSinger(s)
      PROVE  NeverSkips' /\ LockOK'
  <2>1. CASE StopPlay("main", "fetch", s)
    BY <2>1, StopPlayLock
  <2>2. CASE /\ frame' = [frame EXCEPT !["main"] = [EmptyFrame EXCEPT !.singer = s]]
             /\ Jump("main", "fetch")
             /\ UNCHANGED <<flags, usr1, up, shm, kernel, children, fifo>>
    <3>1. NeverSkips' /\ pc' = [pc EXCEPT !["main"] = "fetch"]
      BY <1>0, <2>2 DEF Jump, TypeOK, NeverSkips, SkipLabels, EmptyFrame
    <3> QED
      BY <2>2, <3>1, Unmoved DEF TypeOK, Contexts
  <2> QED
    BY <1>7, <2>1, <2>2 DEF CmdSinger, Replace
<1>8. CASE CmdIgnored
  <2>1. NeverSkips'
    BY <1>8 DEF CmdIgnored, NeverSkips
  <2> QED
    BY <1>8, <2>1, Unmoved DEF CmdIgnored
<1> QED
  BY <1>1, <1>2, <1>3, <1>4, <1>5, <1>6, <1>7, <1>8 DEF Handle

(* What main and the handler share.                                        *)
LEMMA StepLock ==
  ASSUME TypeOK, NeverSkips, LockOK, NEW f \in Contexts, Step(f)
  PROVE  NeverSkips' /\ LockOK'
<1> USE DEF kernel, children
<1>0. /\ frame[f].then \in {"idle", "suspended", "resumed", "wait"}
      /\ frame[f].after \in {"idle", "fetch"}
  BY DEF NeverSkips
<1>1. CASE FifoOpen(f)
  <2>1. NeverSkips' /\ pc' = [pc EXCEPT ![f] = "write"]
    BY <1>1 DEF FifoOpen, Jump, TypeOK, NeverSkips, SkipLabels
  <2> QED
    BY <1>1, <2>1, Unmoved DEF FifoOpen, TypeOK, Contexts
<1>2. CASE FifoWrite(f)
  <2>1. CASE Crash
    BY <2>1, CrashLock
  <2>2. CASE /\ Jump(f, frame[f].then)
             /\ UNCHANGED <<flags, frame, usr1, up, shm, kernel, children>>
    <3>1. /\ frame[f].then # "upd_v" /\ pc' = [pc EXCEPT ![f] = frame[f].then]
          /\ pc'["main"] \notin SkipLabels
      BY <1>0, <2>2 DEF Jump, TypeOK, NeverSkips, SkipLabels
    <3>2. NeverSkips'
      BY <2>2, <3>1 DEF NeverSkips
    <3> QED
      BY <1>2, <2>2, <3>1, <3>2, Unmoved DEF FifoWrite, TypeOK, Contexts
  <2> QED
    BY <1>2, <2>1, <2>2 DEF FifoWrite
<1>3. CASE SetSuspend(f)
  <2>1. NeverSkips' /\ pc' = [pc EXCEPT ![f] = "idle"]
    BY <1>3, ReturnSkips DEF SetSuspend
  <2> QED
    BY <1>3, <2>1, Unmoved DEF SetSuspend, TypeOK, Contexts
<1>4. CASE WaitPid(f)
  <2>1. \A p \in Pids : (st[p] \in Held)' <=> st[p] \in Held
    BY <1>4 DEF WaitPid, TypeOK, Held
  <2>2. PICK after \in {"idle", "fetch"} :
          NeverSkips' /\ pc' = [pc EXCEPT ![f] = after]
    <3>1. CASE Return(f)
      BY <3>1, ReturnSkips
    <3>2. CASE Jump(f, frame[f].after) /\ UNCHANGED frame
      <4>1. /\ pc' = [pc EXCEPT ![f] = frame[f].after]
            /\ pc'["main"] \notin SkipLabels
        BY <1>0, <3>2 DEF Jump, TypeOK, NeverSkips, SkipLabels
      <4>2. NeverSkips'
        BY <3>2, <4>1 DEF NeverSkips
      <4> QED
        BY <1>0, <4>1, <4>2
    <3> QED
      BY <1>4, <3>1, <3>2 DEF WaitPid
  <2> QED
    BY <1>4, <2>1, <2>2, Unmoved DEF WaitPid, TypeOK, Contexts
<1>5. CASE Fetch(f)
  <2>1. NeverSkips' /\ pc' = [pc EXCEPT ![f] = "reply"]
    BY <1>5 DEF Fetch, Jump, TypeOK, NeverSkips, SkipLabels
  <2> QED
    BY <1>5, <2>1, Unmoved DEF Fetch, TypeOK, Contexts
<1>6. CASE Reply(f)
  <2>1. \A g \in Contexts : /\ frame'[g].then = frame[g].then
                            /\ frame'[g].after = frame[g].after
    BY <1>6 DEF Reply, TypeOK, Frame
  <2>2. NeverSkips' /\ pc' = [pc EXCEPT ![f] = "begin"]
    BY <1>6, <2>1 DEF Reply, Jump, TypeOK, NeverSkips, SkipLabels
  <2> QED
    BY <1>6, <2>2, Unmoved DEF Reply, TypeOK, Contexts
<1>7. CASE Begin(f)
  <2>1. pc[f] # "upd_v" /\ StartPlay(f)
    BY <1>7 DEF Begin
  <2> QED
    BY <2>1, StartPlayLock
<1> QED
  BY <1>1, <1>2, <1>3, <1>4, <1>5, <1>6, <1>7 DEF Step

(* Main, which never reaches NextPlay and PrevPlay.                        *)
LEMMA MainStepLock ==
  ASSUME NoSkips, TypeOK, NeverSkips, LockOK, MainStep
  PROVE  NeverSkips' /\ LockOK'
<1>1. CASE Step("main")
  BY <1>1, StepLock DEF Contexts
<1>2. CASE SetMode
  <2>1. NeverSkips' /\ pc' = [pc EXCEPT !["main"] = "idle"]
    BY <1>2, ReturnSkips DEF SetMode, Contexts
  <2> QED
    BY <1>2, <2>1, Unmoved DEF SetMode, TypeOK, Contexts, kernel, children
<1>3. ~SkipEnter /\ ~SkipLeave /\ ~SkipEnd /\ ~SkipLost
  BY DEF NeverSkips, SkipLabels, SkipEnter, SkipLeave, SkipEnd, SkipLost, Skipping
<1>4. CASE Handle
  BY <1>4, HandleLock
<1> QED
  BY <1>1, <1>2, <1>3, <1>4 DEF MainStep

(* The handler takes the lock and gives it back.                           *)
LEMMA Usr1StepLock ==
  ASSUME TypeOK, NeverSkips, LockOK, Usr1Step
  PROVE  NeverSkips' /\ LockOK'
<1> USE DEF kernel, children
<1>0. "usr1" \in Contexts /\ "main" \in Contexts /\ Parent \in Everybody
  BY DEF Contexts, Everybody
<1>1. CASE Step("usr1")
  BY <1>0, <1>1, StepLock
<1>2. CASE DeliverUsr1
  <2>1. pc' = [main |-> pc["main"], usr1 |-> "upd_p"] /\ pc["usr1"] = "idle"
    BY <1>2 DEF DeliverUsr1, NeverSkips, SkipLabels
  <2>2. pc'["main"] = pc["main"] /\ pc'["usr1"] = "upd_p"
    BY <2>1
  <2>3. NeverSkips'
    BY <1>2, <2>2 DEF DeliverUsr1, NeverSkips
  <2> QED
    BY <1>2, <2>1, <2>2, <2>3, Unmoved DEF DeliverUsr1
<1>3. CASE UpdateRead
  <2>1. pc' = [pc EXCEPT !["usr1"] = "upd_v"] /\ pc["usr1"] = "upd_p"
    BY <1>3 DEF UpdateRead, Jump
  <2>2. frame' = [frame EXCEPT !["usr1"].cur = shm]
    BY <1>3 DEF UpdateRead
  <2>3. \A f \in Contexts : frame'[f].then = frame[f].then
                          /\ frame'[f].after = frame[f].after
    BY <2>2 DEF TypeOK, Frame
  <2>4. NeverSkips'
    BY <1>0, <2>1, <2>3 DEF NeverSkips, TypeOK
  <2>5. Inside(Parent)' /\ OthersStay(Parent) /\ SemP(Parent)
    BY <1>0, <1>3, <2>1 DEF UpdateRead, Inside, OthersStay, TypeOK, Everybody
  <2> QED
    BY <1>0, <2>4, <2>5, LockTaken
<1>4. CASE UpdateLeave
  <2>1. pc' = [pc EXCEPT !["usr1"] = "wait"] /\ pc["usr1"] = "upd_v"
    BY <1>4 DEF UpdateLeave, Jump
  <2>2. frame' = [frame EXCEPT !["usr1"].singer = frame["usr1"].cur.song[1],
                               !["usr1"].after = "fetch"]
    BY <1>4 DEF UpdateLeave
  <2>3. \A f \in Contexts : /\ frame'[f].then = frame[f].then
                            /\ frame'[f].after \in {frame[f].after, "fetch"}
    BY <2>2 DEF TypeOK, Frame
  <2>4. NeverSkips'
    BY <1>0, <2>1, <2>3 DEF NeverSkips, TypeOK
  <2>5. Inside(Parent)
    BY <2>1 DEF Inside
  <2>6. ~Inside(Parent)'
    BY <1>0, <2>1 DEF Inside, TypeOK, NeverSkips, SkipLabels
  <2>7. OthersStay(Parent) /\ SemV(Parent)
    BY <1>4 DEF UpdateLeave, Inside, OthersStay
  <2> QED
    BY <1>0, <2>4, <2>5, <2>6, <2>7, LockGiven
<1> QED
  BY <1>1, <1>2, <1>3, <1>4 DEF Usr1Step

-----------------------------------------------------------------------------
(* The other processes keep the lock.                                      *)

(* Only a grandchild on its way to execv() moves in or out.                *)
LEMMA ProcStepLock ==
  ASSUME TypeOK, NeverSkips, LockOK, NEW p \in Pids, ProcStep(p)
  PROVE  NeverSkips' /\ LockOK'
<1> USE DEF kernel
<1>0. UNCHANGED <<pc, frame>> /\ p \in Everybody /\ p # Parent
  BY PidsAssumption
     DEF ProcStep, Deliver, ChildStep, ChildFork, ChildWait, GrandStep, GrandEnter,
         GrandLost, GrandLeave, GrandTellParent, GrandTellChild, GrandExec,
         GrandExecFails, MpStep, MpOpen, MpRead, MpEnd, Everybody
<1>1. NeverSkips'
  BY <1>0 DEF NeverSkips
<1> SUFFICES LockOK'
  BY <1>1
<1>2. ASSUME UNCHANGED <<sem, adj>>,
             \A q \in Pids : (st[q] \in Held)' <=> st[q] \in Held
      PROVE  LockOK'
  BY <1>0, <1>1, <1>2, Unmoved
<1>3. ASSUME NEW f, NEW unread, Exit(p, f, unread)
      PROVE  LockOK'
  BY <1>0, <1>3, ExitLock
<1>4. ASSUME \A q \in Pids \ {p} : st'[q] = st[q]
      PROVE  OthersStay(p)
  BY <1>0, <1>4 DEF OthersStay, Inside, Everybody
<1>5. CASE Deliver(p) \/ GrandLost(p) \/ GrandTellChild(p) \/ GrandExecFails(p)
           \/ MpEnd(p)
  BY <1>3, <1>5 DEF Deliver, GrandLost, GrandTellChild, GrandExecFails, MpEnd
<1>6. CASE ChildFork(p)
  <2>1. \A q \in Pids : (st[q] \in Held)' <=> st[q] \in Held
    BY <1>6 DEF ChildFork, FreePids, TypeOK, Held
  <2> QED
    BY <1>2, <1>6, <2>1 DEF ChildFork
<1>7. CASE ChildWait(p)
  <2>1. \A q \in Pids : (st[q] \in Held)' <=> st[q] \in Held
    BY <1>7 DEF ChildWait, TypeOK, Held
  <2> QED
    BY <1>2, <1>7, <2>1 DEF ChildWait
<1>8. CASE GrandTellParent(p)
  <2>1. \A q \in Pids : (st[q] \in Held)' <=> st[q] \in Held
    BY <1>8 DEF GrandTellParent, TypeOK, Held
  <2> QED
    BY <1>2, <1>8, <2>1 DEF GrandTellParent
<1>9. CASE GrandExec(p) \/ MpOpen(p)
  <2>1. \A q \in Pids : (st[q] \in Held)' <=> st[q] \in Held
    BY <1>9 DEF GrandExec, MpOpen, TypeOK, Held
  <2> QED
    BY <1>2, <1>9, <2>1 DEF GrandExec, MpOpen
<1>10. CASE GrandEnter(p)
  <2>1. SemP(p) /\ st'[p] \in Held /\ \A q \in Pids \ {p} : st'[q] = st[q]
    BY <1>10 DEF GrandEnter, TypeOK, Held
  <2>2. Inside(p)'
    BY <1>0, <2>1 DEF Inside, Held
  <2> QED
    BY <1>0, <1>4, <2>1, <2>2, LockTaken
<1>11. CASE GrandLeave(p)
  <2>1. SemV(p) /\ st[p] = "cs" /\ st'[p] = "exec"
        /\ \A q \in Pids \ {p} : st'[q] = st[q]
    BY <1>11 DEF GrandLeave, TypeOK
  <2>2. Inside(p) /\ ~Inside(p)'
    BY <1>0, <2>1 DEF Inside
  <2> QED
    BY <1>0, <1>4, <2>1, <2>2, LockGiven
<1>12. CASE MpRead(p)
  <2>1. CASE Exit(p, proc, Tail(fifo))
    BY <1>3, <2>1
  <2>2. CASE UNCHANGED <<st, kernel>>
    BY <1>2, <2>2
  <2> QED
    BY <1>12, <2>1, <2>2 DEF MpRead
<1> QED
  BY <1>5, <1>6, <1>7, <1>8, <1>9, <1>10, <1>11, <1>12
     DEF ProcStep, ChildStep, GrandStep, MpStep

-----------------------------------------------------------------------------
(* The lock invariant says more than mutual exclusion: it also counts what *)
(* SEM_UNDO owes, without which the death of a process inside could not be *)
(* shown harmless.                                                         *)
LEMMA LockInductive == NoSkips /\ LockInv /\ [Next]_vars => LockInv'
<1> SUFFICES ASSUME NoSkips, TypeOK, NeverSkips, LockOK, [Next]_vars
             PROVE  LockInv'
  BY DEF LockInv
<1>1. NeverSkips' /\ LockOK'
  <2>1. CASE UNCHANGED vars
    <3>1. NeverSkips'
      BY <2>1 DEF vars, NeverSkips
    <3> QED
      BY <2>1, <3>1, Unmoved DEF vars
  <2>2. CASE Ask
    <3>1. NeverSkips'
      BY <2>2 DEF Ask, NeverSkips
    <3> QED
      BY <2>2, <3>1, Unmoved DEF Ask, kernel, children
  <2>3. CASE MainStep
    BY <2>3, MainStepLock
  <2>4. CASE Usr1Step
    BY <2>4, Usr1StepLock
  <2>5. ASSUME NEW p \in Pids, ProcStep(p)
        PROVE  NeverSkips' /\ LockOK'
    BY <2>5, ProcStepLock
  <2> QED
    BY <2>1, <2>2, <2>3, <2>4, <2>5 DEF Next
<1> QED
  BY <1>1, NextType DEF LockInv

(* The semaphore starts free.                                              *)
LEMMA LockInit == Init => LockInv
<1> SUFFICES ASSUME Init PROVE NeverSkips /\ LockOK
  BY InitType DEF LockInv
<1>1. NeverSkips
  BY DEF Init, NeverSkips, SkipLabels, EmptyFrame, Contexts
<1>2. \A x \in Everybody : ~Inside(x) /\ adj[x] = 0
  BY DEF Init, Inside, Everybody, Contexts
<1> QED
  BY <1>1, <1>2 DEF LockOK, Init

(* A player whose user never skips keeps the lock invariant.               *)
LEMMA LockAlways ==
  ASSUME NoSkips
  PROVE  SafetySpec => []LockInv
<1>1. LockInv /\ [Next]_vars => LockInv'
  BY LockInductive
<1> QED
  BY <1>1, LockInit, PTL DEF SafetySpec

(* As long as nobody skips a song the semaphore of player.c:119-154 is a   *)
(* lock: no two of the parent, its handler and the grandchildren are       *)
(* between SemP and SemV.                                                  *)
THEOREM LockIsMutex ==
  ASSUME NoSkips
  PROVE  SafetySpec => []MutualExclusion
<1>1. LockInv => MutualExclusion
  BY DEF LockInv, LockOK, MutualExclusion, Everybody
<1>2. SafetySpec => []LockInv
  BY LockAlways
<1> QED
  BY <1>1, <1>2, PTL

(* Nor is the lock ever lost: whoever dies between SemP and SemV gives it  *)
(* back.                                                                   *)
THEOREM LockIsNeverLost ==
  ASSUME NoSkips
  PROVE  SafetySpec => []LockIsHeldInside
<1>1. LockInv => LockIsHeldInside
  BY DEF LockInv, LockOK, LockIsHeldInside, Everybody
<1>2. SafetySpec => []LockInv
  BY LockAlways
<1> QED
  BY <1>1, <1>2, PTL

=============================================================================
