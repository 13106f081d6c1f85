---------------------------- MODULE PatientProofs ----------------------------
(***************************************************************************)
(* What a user gets from the player while no command is overtaken: one     *)
(* song at a time, each list in its order, the song the status names,      *)
(* silence after a stop, and no child left behind.                         *)
(***************************************************************************)
EXTENDS LockProofs, FiniteSetTheorems

-----------------------------------------------------------------------------
(* The processes while no command is overtaken.                            *)

(* A user who only starts, stops, suspends and continues.                  *)
PlainUser == Commands \subseteq {"start", "stop", "suspend", "continue"}

Kid(p) == st[p] \in {"loop", "child_wait"}
Grand(p) == st[p] \in {"semp", "cs", "eol", "eol_child", "exec", "boot", "play"}
Sounds(p) == st[p] \in {"exec", "boot", "play"}
Nobody == \A p \in Pids : ~Kid(p) /\ ~Grand(p)

(* One child and one grandchild at a time; who has a parent among them is  *)
(* the only one that parent waits for.                                     *)
Tree ==
  /\ \A p, q \in Pids : Kid(p) /\ Kid(q) => p = q
  /\ \A p, q \in Pids : Grand(p) /\ Grand(q) => p = q
  /\ \A q \in Pids : proc[q].ppid \in Pids => st[proc[q].ppid] = "child_wait"
  /\ \A q, r \in Pids : proc[q].ppid \in Pids /\ proc[q].ppid = proc[r].ppid => q = r
  /\ \A p, g \in Pids : Kid(p) /\ Grand(g) => proc[g].ppid = p
  /\ \A p \in Pids : Kid(p) => proc[p].ppid \notin Pids

(* The shared memory names the child and a song of its list.               *)
Known(p) == shm.child = p /\ shm.song # NoSong /\ shm.song[1] = proc[p].list
OfList(song, l) == song \in Song /\ song[1] = l

(* A child that takes signals, or has none to take.                        *)
Steady(p) == Kid(p) /\ (proc[p].pend => proc[p].blocked)

(* A child that has forgotten its song's name has handed it on to a        *)
(* grandchild that will publish it, or has been through that before.       *)
HandedOn(g) == st[g] = "cs" \/ (st[g] = "semp" /\ proc[g].name # NoSong)
KidOK(p) ==
  /\ proc[p].ppid = Parent
  /\ proc[p].list \in Singers
  /\ proc[p].name = NoSong \/ OfList(proc[p].name, proc[p].list)
  /\ st[p] = "child_wait" => proc[p].name = NoSong
  /\ proc[p].name = NoSong => Known(p) \/ \E g \in Pids : HandedOn(g)

(* No signal ever reaches a grandchild, and it has a child above it until  *)
(* the music is stopped.                                                   *)
GrandOK(g) ==
  /\ ~proc[g].pend
  /\ start = 1 \/ st[g] # "play" => \E p \in Pids : Steady(p)
  /\ Sounds(g) => proc[g].name = shm.song

(* What a grandchild has in common with the child that forked it.          *)
FamilyOK(p, g) ==
  /\ st[g] = "semp" => /\ proc[g].list = proc[p].list
                       /\ proc[g].name = NoSong \/ OfList(proc[g].name, proc[p].list)
  /\ st[g] = "cs" => OfList(proc[g].name, proc[p].list)
  /\ st[g] \in {"eol", "eol_child", "exec"} => proc[g].loc.child = p
  /\ st[g] \in {"eol", "eol_child"} => IsLast(shm.song)
  /\ st[g] \in {"eol", "eol_child"} \/ Sounds(g) => Known(p)

Families == /\ \A p \in Pids : Kid(p) => KidOK(p)
            /\ \A g \in Pids : Grand(g) => GrandOK(g)
            /\ \A p, g \in Pids : Kid(p) /\ Grand(g) => FamilyOK(p, g)

-----------------------------------------------------------------------------
(* Where the parent stands.                                                *)

Stopping == \/ pc["main"] = "wait"
            \/ pc["main"] \in {"open", "write"} /\ frame["main"].then = "wait"

ParentOK ==
  /\ pc["main"] \in {"idle", "open", "write", "suspended", "resumed", "wait"}
  /\ pc["main"] \in {"open", "write"} =>
       frame["main"].then \in {"suspended", "resumed", "wait"}
  /\ Stopping => frame["main"].msg.op = "quit" /\ frame["main"].after = "idle"
  /\ frame["main"].msg.op # "load"
  /\ \A i \in DOMAIN fifo : fifo[i].op # "load"
  /\ pc["usr1"] \in {"idle", "upd_p", "upd_v", "wait", "fetch", "reply", "begin", "open"}
  /\ pc["usr1"] = "wait" => frame["usr1"].after = "fetch"

(* The flag of the music is down while the handler runs and up while the   *)
(* parent suspends or continues.                                           *)
StartOK ==
  /\ pc["usr1"] # "idle" => start = 0
  /\ pc["usr1"] = "idle" /\ pc["main"] # "idle" /\ ~Stopping => start = 1

(* Between two commands a stopped player is silent.                        *)
QuitSent == \E i \in DOMAIN fifo : fifo[i].op = "quit"
SilentOK ==
  Idle /\ start = 0 =>
    /\ ~usr1 /\ suspend = 0
    /\ \A p \in Pids : ~Kid(p)
    /\ \A g \in Pids : Grand(g) => st[g] = "play" /\ QuitSent

(* StopPlay waits for ever for a child that ignores the signal. Any other  *)
(* dies of it before it forks again.                                       *)
StopStuck == \E p \in Pids : Kid(p) /\ proc[p].blocked /\ p = frame["main"].cur.child
StopGoesOn ==
  /\ pc["usr1"] = "idle" /\ ~usr1
  /\ \A p \in Pids : Kid(p) => /\ p = frame["main"].cur.child
                               /\ proc[p].pend /\ ~proc[p].blocked
  /\ \A g \in Pids : Grand(g) => st[g] = "play" /\ (pc["main"] = "wait" => QuitSent)
StopOK == Stopping => start = 0 /\ suspend = 0 /\ (StopStuck \/ StopGoesOn)

(* The list has ended: no song is left to play. A child that takes the     *)
(* signal gets it or is about to.                                          *)
Updating == pc["usr1"] \in {"upd_p", "upd_v", "wait"}
EndOK ==
  /\ \A g \in Pids : st[g] = "eol_child" => usr1 \/ pc["usr1"] # "idle"
  /\ usr1 \/ Updating =>
       /\ \A p \in Pids : Kid(p) =>
            /\ proc[p].name = NoSong /\ Known(p) /\ IsLast(shm.song)
            /\ proc[p].blocked \/ proc[p].pend \/ \E g \in Pids : st[g] = "eol_child"
       /\ \A g \in Pids : Grand(g) =>
            \/ st[g] = "eol_child"
            \/ /\ \E p \in Pids : Kid(p) /\ proc[p].blocked
               /\ st[g] = "semp" => proc[g].name = NoSong
               /\ st[g] \in {"semp", "eol"}
  /\ pc["usr1"] # "idle" /\ usr1 => \E p \in Pids : Kid(p) /\ proc[p].blocked
  /\ pc["usr1"] \in {"upd_v", "wait"} =>
       \A p \in Pids : Kid(p) =>
         /\ p = frame["usr1"].cur.child
         /\ proc[p].blocked \/ (proc[p].pend /\ \A g \in Pids : ~Grand(g))

(* The handler starts the next list when everybody is gone.                *)
FetchOK == pc["usr1"] \in {"fetch", "reply", "begin", "open"} => Nobody /\ ~usr1

Phases == ParentOK /\ StartOK /\ SilentOK /\ StopOK /\ EndOK /\ FetchOK
PatientOK == Tree /\ (up => Families /\ Phases)

-----------------------------------------------------------------------------
(* The tree of processes.                                                  *)

(* Nobody starts and whoever stays keeps its parent.                       *)
LEMMA TreeShrinks ==
  ASSUME Tree,
         \A p \in Pids : Kid(p)' => Kid(p) /\ proc'[p].ppid \notin Pids,
         \A g \in Pids : Grand(g)' => Grand(g),
         \A q \in Pids : proc'[q].ppid \in Pids => /\ proc'[q].ppid = proc[q].ppid
                                                   /\ st'[proc'[q].ppid] = "child_wait",
         \A p, g \in Pids : Kid(p)' /\ Grand(g)' => proc'[g].ppid = proc[g].ppid
  PROVE  Tree'
BY DEF Tree

(* A process that moves on keeps its place in the tree.                    *)
LEMMA TreeKept ==
  ASSUME Tree,
         \A p \in Pids : (Kid(p)' => Kid(p)) /\ (Grand(p)' => Grand(p)),
         \A q \in Pids : /\ proc'[q].ppid = proc[q].ppid
                         /\ st[q] = "child_wait" => st'[q] = "child_wait"
  PROVE  Tree'
<1>1. \A p \in Pids : Kid(p)' => Kid(p) /\ proc'[p].ppid \notin Pids
  BY DEF Tree
<1>2. \A q \in Pids : proc'[q].ppid \in Pids =>
        proc'[q].ppid = proc[q].ppid /\ st'[proc'[q].ppid] = "child_wait"
  BY DEF Tree
<1> QED
  BY <1>1, <1>2, TreeShrinks

(* A change of the parent leaves the rest of a process alone.              *)
LEMMA Adopted ==
  ASSUME NEW r \in Process, NEW pid
  PROVE  LET a == [r EXCEPT !.ppid = pid]
         IN  /\ a.ppid = pid /\ a.name = r.name /\ a.blocked = r.blocked
             /\ a.pend = r.pend /\ a.list = r.list /\ a.loc = r.loc
BY DEF Process

(* Whoever is alive after that was alive before and has kept what is known *)
(* of it, except perhaps its parent.                                       *)
Kept(q, r) == /\ q.name = r.name /\ q.blocked = r.blocked
              /\ q.list = r.list /\ q.loc = r.loc
LEMMA ExitKeeps ==
  ASSUME TypeOK, NEW p \in Pids \union {Parent}, NEW f \in [Pids -> Process],
         NEW unread, Exit(p, f, unread)
  PROVE  \A q \in Pids : Kid(q)' \/ Grand(q)' =>
           /\ q # p /\ st'[q] = st[q]
           /\ proc'[q].ppid = IF f[q].ppid = p THEN Init1 ELSE f[q].ppid
           /\ Kept(proc'[q], f[q]) /\ proc'[q].pend = f[q].pend
<1> SUFFICES ASSUME NEW q \in Pids, Kid(q)' \/ Grand(q)'
             PROVE  /\ q # p /\ st'[q] = st[q]
                    /\ proc'[q].ppid = IF f[q].ppid = p THEN Init1 ELSE f[q].ppid
                    /\ Kept(proc'[q], f[q]) /\ proc'[q].pend = f[q].pend
  OBVIOUS
<1>0. f[q] \in Process
  OBVIOUS
<1>1. q # p /\ st'[q] = st[q] /\ st'[q] # "free"
  BY DEF Exit, TypeOK, Kid, Grand
<1>2. proc'[q] = IF f[q].ppid = p THEN [f[q] EXCEPT !.ppid = Init1] ELSE f[q]
  BY <1>1 DEF Exit
<1>3. CASE f[q].ppid = p
  <2>1. proc'[q] = [f[q] EXCEPT !.ppid = Init1]
    BY <1>2, <1>3
  <2> QED
    BY <1>0, <1>1, <1>3, <2>1, Adopted DEF Kept
<1>4. CASE f[q].ppid # p
  BY <1>1, <1>2, <1>4 DEF Kept
<1> QED
  BY <1>3, <1>4

(* A process left behind has the parent it had, unless that has gone.      *)
LEMMA ExitOrphans ==
  ASSUME TypeOK, NEW p \in Pids \union {Parent}, NEW f \in [Pids -> Process],
         NEW unread, Exit(p, f, unread), NEW q \in Pids, proc'[q].ppid \in Pids
  PROVE  proc'[q].ppid = f[q].ppid /\ (q # p => f[q].ppid # p)
<1>0. Init1 \notin Pids /\ Blank.ppid = Init1 /\ Blank \in Process /\ f[q] \in Process
  BY PidsAssumption, DataTypes DEF Blank
<1>1. proc'[q] \in {Blank, [Blank EXCEPT !.ppid = f[q].ppid],
                    [f[q] EXCEPT !.ppid = Init1], f[q]}
      /\ (q # p /\ f[q].ppid = p => proc'[q] \in {Blank, [f[q] EXCEPT !.ppid = Init1]})
  BY DEF Exit
<1>2. [Blank EXCEPT !.ppid = f[q].ppid].ppid = f[q].ppid
  BY DEF Blank
<1>3. [f[q] EXCEPT !.ppid = Init1].ppid = Init1
  BY <1>0, Adopted
<1> QED
  BY <1>0, <1>1, <1>2, <1>3

(* The death of any process leaves a tree.                                 *)
LEMMA ExitTree ==
  ASSUME TypeOK, Tree, NEW p \in Pids \union {Parent}, NEW f \in [Pids -> Process],
         \A q \in Pids : f[q].ppid = proc[q].ppid,
         p \in Pids => Kid(p) \/ Grand(p),
         NEW unread, Exit(p, f, unread)
  PROVE  Tree'
<1>1. \A q \in Pids : Kid(q)' \/ Grand(q)' =>
        /\ q # p /\ st'[q] = st[q]
        /\ proc'[q].ppid = IF f[q].ppid = p THEN Init1 ELSE f[q].ppid
  BY ExitKeeps
<1>2. \A q \in Pids : (Kid(q)' => Kid(q)) /\ (Grand(q)' => Grand(q))
  BY <1>1 DEF Kid, Grand
<1>3. \A q \in Pids : proc'[q].ppid \in Pids =>
        proc'[q].ppid = proc[q].ppid /\ st'[proc'[q].ppid] = "child_wait"
  <2> SUFFICES ASSUME NEW q \in Pids, proc'[q].ppid \in Pids
               PROVE  proc'[q].ppid = proc[q].ppid /\ st'[proc'[q].ppid] = "child_wait"
    OBVIOUS
  <2>1. proc'[q].ppid = proc[q].ppid /\ (q # p => proc[q].ppid # p)
    BY ExitOrphans
  <2>2. st[proc[q].ppid] = "child_wait"
    BY <2>1 DEF Tree
  <2>3. proc[q].ppid # p
    <3> SUFFICES ASSUME q = p, proc[q].ppid = q PROVE FALSE
      BY <2>1
    <3>1. st[q] = "child_wait" /\ Kid(q)
      BY <2>2 DEF Kid
    <3> QED
      BY <3>1, <2>1 DEF Tree
  <2> QED
    BY <2>1, <2>2, <2>3 DEF Exit, TypeOK
<1>4. \A q \in Pids : Kid(q)' => proc'[q].ppid \notin Pids
  BY <1>2, <1>3 DEF Tree
<1>5. \A q, g \in Pids : Kid(q)' /\ Grand(g)' => proc'[g].ppid = proc[g].ppid
  <2> SUFFICES ASSUME NEW q \in Pids, NEW g \in Pids, Kid(q)', Grand(g)'
               PROVE  proc'[g].ppid = proc[g].ppid
    OBVIOUS
  <2>1. q # p /\ f[g].ppid = q
    BY <1>1, <1>2 DEF Tree
  <2> QED
    BY <1>1, <2>1
<1> QED
  BY <1>2, <1>3, <1>4, <1>5, TreeShrinks

-----------------------------------------------------------------------------
(* The parent moves and leaves the other processes alone.                  *)

(* The families are as they were, also when the music's flag is cleared.   *)
LEMMA FamiliesKept ==
  ASSUME Tree, Families, UNCHANGED <<st, proc, shm>>, start' \in {start, 0}
  PROVE  Tree' /\ Families'
<1>1. \A p \in Pids : /\ (Kid(p)' <=> Kid(p)) /\ (Grand(p)' <=> Grand(p))
                      /\ (Steady(p)' <=> Steady(p)) /\ (Sounds(p)' <=> Sounds(p))
                      /\ (Known(p)' <=> Known(p)) /\ (HandedOn(p)' <=> HandedOn(p))
  BY DEF Kid, Grand, Steady, Sounds, Known, HandedOn
<1>2. Tree'
  BY <1>1 DEF Tree
<1>3. \A p \in Pids : KidOK(p) => KidOK(p)'
  BY <1>1 DEF KidOK
<1>4. \A g \in Pids : Grand(g) /\ GrandOK(g) => GrandOK(g)'
  BY <1>1 DEF GrandOK
<1>5. \A p, g \in Pids : FamilyOK(p, g) => FamilyOK(p, g)'
  BY <1>1 DEF FamilyOK
<1> QED
  BY <1>1, <1>2, <1>3, <1>4, <1>5 DEF Families

(* A family keeps its order when a member goes and when the child gets a   *)
(* signal, as long as a child that dies of it leaves no grandchild that    *)
(* has not reached its song.                                               *)
LEMMA FamiliesShrink ==
  ASSUME Families, UNCHANGED shm,
         \A p \in Pids : Kid(p)' => /\ Kid(p) /\ st'[p] = st[p]
                                    /\ Kept(proc'[p], proc[p])
                                    /\ proc'[p].ppid = proc[p].ppid,
         \A g \in Pids : Grand(g)' => /\ Grand(g) /\ st'[g] = st[g]
                                      /\ Kept(proc'[g], proc[g])
                                      /\ proc'[g].pend = proc[g].pend,
         \A g \in Pids : HandedOn(g) /\ ~Grand(g)' => \A p \in Pids : ~Kid(p)',
         \A g \in Pids : Grand(g)' /\ (start' = 1 \/ st[g] # "play") =>
                           \E p \in Pids : Steady(p)'
  PROVE  Families'
<1>1. \A p \in Pids : Kid(p)' => (Known(p)' <=> Known(p))
  BY DEF Known, Kept
<1>2. \A g \in Pids : /\ HandedOn(g) /\ Grand(g)' => HandedOn(g)'
                      /\ Sounds(g)' => Sounds(g)
  BY DEF HandedOn, Kept, Sounds, Grand
<1>3. \A p \in Pids : Kid(p)' /\ KidOK(p) => KidOK(p)'
  BY <1>1, <1>2 DEF KidOK, Kept
<1>4. \A g \in Pids : Grand(g)' /\ GrandOK(g) => GrandOK(g)'
  BY <1>2 DEF GrandOK, Kept
<1>5. \A p, g \in Pids : Kid(p)' /\ Grand(g)' /\ FamilyOK(p, g) => FamilyOK(p, g)'
  BY <1>1, <1>2 DEF FamilyOK, Kept
<1> QED
  BY <1>3, <1>4, <1>5 DEF Families

(* While main has a command in hand, or a signal is pending, the player is *)
(* on, unless it is being stopped.                                         *)
LEMMA Unidle ==
  ASSUME TypeOK, StartOK, SilentOK, pc["usr1"] = "idle", ~Stopping,
         pc["main"] # "idle" \/ usr1 \/ suspend = 1 \/ \E p \in Pids : Kid(p)
  PROVE  start = 1
BY DEF TypeOK, StartOK, SilentOK, Idle

(* A pause is on its way to mplayer.                                       *)
LEMMA PausePatient ==
  ASSUME TypeOK, up, Tree, Families, Phases,
         start = 1, Idle, ~usr1,
         NEW then \in {"suspended", "resumed"}, NEW cur,
         WriteFifo("main", Pause, then, "idle", cur, NoSinger),
         UNCHANGED <<flags, usr1, up, shm, children, fifo>>
  PROVE  PatientOK'
<1> USE DEF flags, children
<1>1. /\ pc'["main"] = "open" /\ pc'["usr1"] = "idle"
      /\ frame'["main"].then = then /\ frame'["main"].msg = Pause
      /\ frame'["usr1"] = frame["usr1"]
  BY DEF TypeOK, WriteFifo, Jump, Contexts, Idle
<1>2. ~Stopping'
  BY <1>1 DEF Stopping
<1>3. ParentOK'
  BY <1>1, <1>2 DEF Phases, ParentOK, Pause
<1>4. StartOK' /\ SilentOK' /\ StopOK' /\ FetchOK'
  BY <1>1, <1>2 DEF StartOK, SilentOK, StopOK, FetchOK, Idle
<1>5. EndOK'
  BY <1>1 DEF Phases, EndOK, Idle, Updating, Kid, Grand, Known
<1> QED
  BY <1>3, <1>4, <1>5, FamiliesKept DEF PatientOK, Phases

(* open() has found mplayer.                                               *)
LEMMA FifoOpenPatient ==
  ASSUME TypeOK, up, Tree, Families, Phases, NEW f \in Contexts, FifoOpen(f)
  PROVE  PatientOK'
<1> USE DEF flags, children
<1>1. f = "main" /\ pc["usr1"] = "idle" /\ ~usr1 /\ pc["main"] = "open"
  BY DEF FifoOpen, Contexts, Readers, Runs, Phases, ParentOK, FetchOK, Nobody, Grand
<1>2. pc'["main"] = "write" /\ pc'["usr1"] = "idle"
  BY <1>1 DEF FifoOpen, Jump, TypeOK, Contexts
<1>3. Stopping' <=> Stopping
  BY <1>1, <1>2 DEF FifoOpen, Stopping
<1>4. ParentOK'
  BY <1>1, <1>2, <1>3 DEF FifoOpen, Phases, ParentOK
<1>5. StartOK' /\ SilentOK' /\ FetchOK'
  BY <1>1, <1>2, <1>3 DEF FifoOpen, Phases, StartOK, SilentOK, FetchOK, Idle
<1>6. StopOK'
  BY <1>1, <1>2, <1>3
     DEF FifoOpen, Phases, StopOK, StopStuck, StopGoesOn, Kid, Grand
<1>7. EndOK'
  BY <1>1, <1>2 DEF FifoOpen, Phases, EndOK, Updating, Kid, Grand, Known
<1>8. Tree' /\ Families'
  BY FamiliesKept DEF FifoOpen
<1> QED
  BY <1>4, <1>5, <1>6, <1>7, <1>8 DEF PatientOK, Phases

(* The death of the parent ends all that is asked of it.                   *)
LEMMA CrashPatient ==
  ASSUME TypeOK, Tree, Crash
  PROVE  PatientOK'
<1>1. Tree'
  <2>1. Exit(Parent, proc, fifo) /\ proc \in [Pids -> Process]
    BY DEF Crash, TypeOK
  <2> QED
    BY <2>1, ExitTree, PidsAssumption
<1> QED
  BY <1>1 DEF PatientOK, Crash

(* write() hands the command to mplayer, or kills the parent.              *)
LEMMA FifoWritePatient ==
  ASSUME TypeOK, up, Tree, Families, Phases, NEW f \in Contexts, FifoWrite(f)
  PROVE  PatientOK'
<1> USE DEF flags, children
<1>1. f = "main" /\ pc["usr1"] = "idle" /\ ~usr1 /\ pc["main"] = "write"
  BY DEF FifoWrite, Contexts, Runs, Phases, ParentOK
<1>2. CASE Crash
  BY <1>2, CrashPatient
<1>3. CASE /\ fifo' = Append(fifo, frame[f].msg)
           /\ Jump(f, frame[f].then)
           /\ UNCHANGED <<flags, frame, usr1, up, shm, kernel, children>>
  <2>0. fifo \in Seq(Msg)
    BY DEF TypeOK
  <2>1. /\ DOMAIN fifo' = 1..(Len(fifo) + 1) /\ Len(fifo) \in Nat
        /\ \A i \in DOMAIN fifo : fifo'[i] = fifo[i]
        /\ fifo'[Len(fifo) + 1] = frame["main"].msg
    BY <1>1, <1>3, <2>0
  <2>2. /\ pc'["main"] = frame["main"].then /\ pc'["usr1"] = "idle"
        /\ frame["main"].then \in {"suspended", "resumed", "wait"}
    BY <1>1, <1>3 DEF Jump, TypeOK, Contexts, Phases, ParentOK
  <2>3. Stopping' <=> Stopping
    BY <1>1, <1>3, <2>2 DEF Stopping
  <2>4. ParentOK'
    <3>1. \A i \in DOMAIN fifo' : fifo'[i].op # "load"
      <4>1. \A i \in 1..(Len(fifo) + 1) : i \in DOMAIN fifo \/ i = Len(fifo) + 1
        BY <2>0, <2>1
      <4> QED
        BY <2>1, <4>1 DEF Phases, ParentOK
    <3> QED
      BY <1>1, <1>3, <2>2, <2>3, <3>1 DEF Phases, ParentOK
  <2>5. StartOK' /\ SilentOK' /\ FetchOK'
    BY <1>1, <1>3, <2>2, <2>3 DEF Phases, StartOK, SilentOK, FetchOK, Idle
  <2>6. StopOK'
    <3> SUFFICES ASSUME Stopping' PROVE StopOK'
      BY DEF StopOK
    <3>1. start' = 0 /\ suspend' = 0 /\ (StopStuck \/ StopGoesOn)
      BY <1>3, <2>3 DEF Phases, StopOK
    <3>2. QuitSent'
      <4>1. frame["main"].msg.op = "quit"
        BY <2>3 DEF Phases, ParentOK
      <4>2. Len(fifo) + 1 \in DOMAIN fifo'
        BY <2>1
      <4> QED
        BY <2>1, <4>1, <4>2 DEF QuitSent
    <3>3. StopStuck => StopStuck'
      BY <1>3 DEF StopStuck, Kid
    <3>4. StopGoesOn => StopGoesOn'
      BY <1>1, <1>3, <2>2, <3>2 DEF StopGoesOn, Kid, Grand
    <3> QED
      BY <3>1, <3>3, <3>4 DEF StopOK
  <2>7. EndOK'
    BY <1>1, <1>3, <2>2 DEF Phases, EndOK, Updating, Kid, Grand, Known
  <2>8. Tree' /\ Families'
    BY <1>3, FamiliesKept
  <2> QED
    BY <2>4, <2>5, <2>6, <2>7, <2>8 DEF PatientOK, Phases
<1> QED
  BY <1>2, <1>3 DEF FifoWrite

(* SuspendPlay and ContinuePlay set their flag and return.                 *)
LEMMA SetSuspendPatient ==
  ASSUME TypeOK, up, Tree, Families, Phases, NEW f \in Contexts, SetSuspend(f)
  PROVE  PatientOK'
<1> USE DEF flags, children
<1>1. /\ f = "main" /\ pc["usr1"] = "idle" /\ ~usr1
      /\ pc["main"] \in {"suspended", "resumed"}
  BY DEF SetSuspend, Contexts, Runs, Phases, ParentOK
<1>2. /\ pc'["main"] = "idle" /\ pc'["usr1"] = "idle"
      /\ frame'["main"] = EmptyFrame /\ frame'["usr1"] = frame["usr1"]
  BY <1>1 DEF SetSuspend, Return, Jump, TypeOK, Contexts
<1>3. ~Stopping' /\ start' = 1
  BY <1>1, <1>2 DEF SetSuspend, Stopping, Phases, StartOK
<1>4. ParentOK'
  BY <1>1, <1>2, <1>3
     DEF SetSuspend, Phases, ParentOK, EmptyFrame, NoMsg
<1>5. StartOK' /\ SilentOK' /\ StopOK' /\ FetchOK'
  BY <1>2, <1>3 DEF StartOK, SilentOK, StopOK, FetchOK
<1>6. EndOK'
  BY <1>1, <1>2 DEF SetSuspend, Phases, EndOK, Updating, Kid, Grand, Known
<1>7. Tree' /\ Families'
  BY FamiliesKept DEF SetSuspend
<1> QED
  BY <1>4, <1>5, <1>6, <1>7 DEF PatientOK, Phases

-----------------------------------------------------------------------------
(* StartPlay.                                                              *)

(* A new child is the only process there is.                               *)
LEMMA PlayMusicFamilies ==
  ASSUME TypeOK, Tree, Nobody, list # NoSinger, start' = 1,
         NEW f \in Contexts, PlayMusic(f), UNCHANGED shm
  PROVE  Tree' /\ Families' /\ \A g \in Pids : ~Grand(g)'
<1>1. PICK c \in FreePids : Fork(c, <<list, 1>>, Parent, f = "usr1", list, "loop")
  BY DEF PlayMusic
<1>2. c \in Pids /\ st[c] = "free"
  BY DEF FreePids
<1>3. \A q \in Pids : st'[q] = IF q = c THEN "loop" ELSE st[q]
  BY <1>1 DEF Fork, TypeOK
<1>4. /\ \A q \in Pids \ {c} : proc'[q] = proc[q]
      /\ proc'[c] = [Blank EXCEPT !.ppid = Parent, !.name = <<list, 1>>,
                                  !.blocked = (f = "usr1"), !.list = list]
  BY <1>1, <1>2 DEF Fork, TypeOK
<1>5. /\ proc'[c].ppid = Parent /\ proc'[c].name = <<list, 1>>
      /\ proc'[c].list = list /\ ~proc'[c].pend
  BY <1>4 DEF Blank
<1>6. \A p \in Pids : (Kid(p)' <=> p = c) /\ ~Grand(p)'
  BY <1>2, <1>3 DEF Nobody, Kid, Grand
<1>7. \A q \in Pids : proc[q].ppid \notin Pids
  BY DEF Tree, Nobody, Kid
<1>8. Tree'
  BY <1>4, <1>5, <1>6, <1>7, PidsAssumption DEF Tree
<1>9. OfList(<<list, 1>>, list) /\ list \in Singers
  BY FirstSong DEF OfList, TypeOK, ListOrNull
<1>10. <<list, 1>> # NoSong
  BY DEF NoSong
<1>11. KidOK(c)'
  BY <1>2, <1>3, <1>5, <1>9, <1>10 DEF KidOK, OfList
<1> QED
  BY <1>6, <1>8, <1>11 DEF Families

(* StartPlay of the select loop or of the handler, with nobody left of the *)
(* list before.                                                            *)
LEMMA BeginPatient ==
  ASSUME TypeOK, up, Tree, ParentOK, Nobody, ~usr1, ~Stopping,
         NEW f \in Contexts, f = "main" => Idle,
         PlayMusic(f), Return(f), start' = 1, list # NoSinger,
         UNCHANGED <<suspend, list, usr1, up, shm, fifo>>,
         pc["usr1"] \in {"idle", "begin"}, f = "usr1" <=> pc["usr1"] = "begin"
  PROVE  PatientOK'
<1>1. Tree' /\ Families' /\ \A g \in Pids : ~Grand(g)'
  BY PlayMusicFamilies
<1>2. /\ pc'["usr1"] = "idle" /\ pc'["main"] = pc["main"]
      /\ frame'["main"] \in {EmptyFrame, frame["main"]}
      /\ f = "main" => pc'["main"] = "idle"
      /\ f = "usr1" => frame'["main"] = frame["main"]
  BY DEF Return, Jump, TypeOK, Contexts, Idle
<1>3. ~Stopping'
  BY <1>2 DEF Stopping, Contexts
<1>4. ParentOK'
  BY <1>2, <1>3 DEF ParentOK, EmptyFrame, NoMsg, Contexts
<1>5. StartOK' /\ SilentOK' /\ StopOK' /\ FetchOK'
  BY <1>2, <1>3 DEF StartOK, SilentOK, StopOK, FetchOK
<1>6. EndOK'
  BY <1>1, <1>2 DEF EndOK, Updating, Grand
<1> QED
  BY <1>1, <1>4, <1>5, <1>6 DEF PatientOK, Phases

(* The user presses start.                                                 *)
LEMMA CmdStartPatient ==
  ASSUME TypeOK, up, Tree, Families, Phases, CmdStart, Settled
  PROVE  PatientOK'
<1> USE DEF flags, children
<1>1. Idle /\ ~usr1 /\ Settled /\ pc["main"] = "idle" /\ pc["usr1"] = "idle"
  BY DEF CmdStart, Command, Runs, Idle
<1>2. CASE /\ Resumes
           /\ WriteFifo("main", Pause, "resumed", "idle", frame["main"].cur, NoSinger)
           /\ UNCHANGED <<flags, usr1, up, shm, kernel, children, fifo>>
  <2>1. start = 1
    BY <1>1, <1>2, Unidle DEF Resumes, Phases, Stopping
  <2> QED
    BY <1>1, <1>2, <2>1, PausePatient
<1>3. CASE /\ ~Resumes /\ start = 1
           /\ Return("main")
           /\ UNCHANGED <<flags, usr1, up, shm, kernel, children, fifo>>
  <2>1. /\ pc'["main"] = "idle" /\ pc'["usr1"] = "idle"
        /\ frame'["main"] = EmptyFrame /\ frame'["usr1"] = frame["usr1"]
    BY <1>1, <1>3 DEF Return, Jump, TypeOK, Contexts
  <2>2. ~Stopping'
    BY <2>1 DEF Stopping
  <2>3. ParentOK'
    BY <1>3, <2>1, <2>2 DEF Phases, ParentOK, EmptyFrame, NoMsg
  <2>4. StartOK' /\ SilentOK' /\ StopOK' /\ FetchOK'
    BY <1>3, <2>1, <2>2 DEF StartOK, SilentOK, StopOK, FetchOK
  <2>5. EndOK'
    BY <1>1, <1>3, <2>1 DEF Phases, EndOK, Updating, Kid, Grand, Known
  <2> QED
    BY <1>3, <2>3, <2>4, <2>5, FamiliesKept DEF PatientOK, Phases
<1>4. CASE /\ ~Resumes /\ start = 0 /\ list # NoSinger
           /\ PlayMusic("main")
           /\ start' = 1
           /\ Return("main")
           /\ UNCHANGED <<suspend, list, usr1, up, shm, kernel, fifo>>
  <2>1. Nobody
    BY <1>1, <1>4 DEF Settled, Nobody, Alive, Kid, Grand
  <2>2. ~Stopping
    BY <1>1 DEF Stopping
  <2> QED
    BY <1>1, <1>4, <2>1, <2>2, BeginPatient DEF Phases, Contexts
<1>5. CASE Crash
  BY <1>5, CrashPatient
<1> QED
  BY <1>2, <1>3, <1>4, <1>5 DEF CmdStart, StartPlay

(* ... or suspend, or continue.                                            *)
LEMMA CmdPausePatient ==
  ASSUME TypeOK, up, Tree, Families, Phases, CmdSuspend \/ CmdContinue
  PROVE  PatientOK'
<1>1. Idle /\ ~usr1 /\ pc["main"] = "idle" /\ pc["usr1"] = "idle"
  BY DEF CmdSuspend, CmdContinue, Command, Runs, Idle
<1>2. start = 1
  BY <1>1, Unidle DEF CmdSuspend, CmdContinue, Phases, Stopping
<1>3. PICK then \in {"suspended", "resumed"} :
        WriteFifo("main", Pause, then, "idle", InitShm, NoSinger)
  BY DEF CmdSuspend, CmdContinue
<1>4. UNCHANGED <<flags, usr1, up, shm, children, fifo>>
  BY DEF CmdSuspend, CmdContinue
<1> QED
  BY <1>1, <1>2, <1>3, <1>4, PausePatient

(* ... or stop: the child of the song that sounds gets SIGUSR1, which it   *)
(* ignores for ever if it was forked inside the handler.                   *)
LEMMA CmdStopPatient ==
  ASSUME TypeOK, up, Tree, Families, Phases, CmdStop, Settled
  PROVE  PatientOK'
<1> USE DEF flags, children
<1>1. /\ Idle /\ ~usr1 /\ pc["main"] = "idle" /\ pc["usr1"] = "idle"
      /\ start = 1 /\ Readers # {}
  BY DEF CmdStop, Command, Runs, Idle, Settled
<1>2. PICK g \in Pids : st[g] = "play"
  BY <1>1 DEF Readers
<1>3. Grand(g) /\ Sounds(g) /\ \A q \in Pids : Grand(q) => q = g
  BY <1>2 DEF Grand, Sounds, Tree
<1>4. PICK c \in Pids : Steady(c)
  BY <1>1, <1>3 DEF Families, GrandOK
<1>5. Kid(c) /\ \A q \in Pids : Kid(q) => q = c
  BY <1>4 DEF Steady, Tree
<1>6. shm.child = c /\ c # Group /\ Known(c)
  BY <1>3, <1>5, PidsAssumption DEF Families, FamilyOK, Known
<1>7. /\ \A q \in Pids : q # c => proc'[q] = proc[q]
      /\ proc'[c] = [proc[c] EXCEPT !.pend = TRUE]
  BY <1>5, <1>6 DEF CmdStop, StopPlay, Signal, Kid, Alive
<1>8. UNCHANGED <<st, shm, up, fifo>> /\ ~usr1' /\ start' = 0 /\ suspend' = 0
  BY <1>1, <1>6 DEF CmdStop, StopPlay, ClearFlags
<1>9. /\ proc'[c].pend /\ proc'[c].ppid = proc[c].ppid
      /\ Kept(proc'[c], proc[c])
  BY <1>7 DEF TypeOK, Process, Kept
<1>10. \A q \in Pids : /\ proc'[q].ppid = proc[q].ppid /\ Kept(proc'[q], proc[q])
                       /\ q # c => proc'[q].pend = proc[q].pend
  BY <1>7, <1>9 DEF Kept
<1>11. \A q \in Pids : (Kid(q)' <=> Kid(q)) /\ (Grand(q)' <=> Grand(q))
  BY <1>8 DEF Kid, Grand
<1>12. Tree'
  BY <1>8, <1>10, <1>11, TreeKept
<1>13. Families'
  <2>1. \A q \in Pids : HandedOn(q) => Grand(q)
    BY DEF HandedOn, Grand
  <2>2. \A q \in Pids : Grand(q) => st[q] = "play" /\ q # c
    BY <1>2, <1>3, <1>5 DEF Kid, Grand
  <2> QED
    BY <1>8, <1>10, <1>11, <2>1, <2>2, FamiliesShrink
<1>14. /\ pc'["main"] = "open" /\ pc'["usr1"] = "idle"
       /\ frame'["main"].then = "wait" /\ frame'["main"].after = "idle"
       /\ frame'["main"].msg = Quit /\ frame'["main"].cur = shm
       /\ frame'["usr1"] = frame["usr1"]
  BY <1>1 DEF CmdStop, StopPlay, WriteFifo, Jump, TypeOK, Contexts
<1>15. ParentOK'
  BY <1>8, <1>14 DEF Phases, ParentOK, Quit
<1>16. StartOK' /\ SilentOK' /\ FetchOK'
  BY <1>8, <1>14 DEF StartOK, SilentOK, FetchOK, Idle, Stopping
<1>17. StopOK'
  <2>1. CASE proc[c].blocked
    <3>1. StopStuck'
      BY <1>5, <1>6, <1>9, <1>11, <1>14, <2>1 DEF StopStuck, Kept
    <3> QED
      BY <1>8, <3>1 DEF StopOK
  <2>2. CASE ~proc[c].blocked
    <3>1. \A q \in Pids : Grand(q)' => st'[q] = "play"
      BY <1>2, <1>3, <1>8, <1>11
    <3>2. StopGoesOn'
      BY <1>5, <1>6, <1>8, <1>9, <1>11, <1>14, <2>2, <3>1 DEF StopGoesOn, Kept
    <3> QED
      BY <1>8, <3>2 DEF StopOK
  <2> QED
    BY <2>1, <2>2
<1>18. EndOK'
  BY <1>2, <1>3, <1>8, <1>14 DEF EndOK, Updating, Grand
<1> QED
  BY <1>12, <1>13, <1>15, <1>16, <1>17, <1>18 DEF PatientOK, Phases

-----------------------------------------------------------------------------
(* waitpid().                                                              *)

(* It returns only when the child it waits for is gone.                    *)
LEMMA WaitedFor ==
  ASSUME TypeOK, Families, NEW f \in Contexts, WaitPid(f),
         NEW p \in Pids, Kid(p), p = frame[f].cur.child
  PROVE  FALSE
<1>1. proc[p].ppid = Parent /\ st[p] \in {"loop", "child_wait"}
  BY DEF Families, KidOK, Kid
<1>2. Awaited(frame[f].cur.child) = {p}
  BY <1>1, PidsAssumption DEF Awaited
<1> QED
  BY <1>1, <1>2 DEF WaitPid

(* It takes a zombie off the process table at most.                        *)
LEMMA Reaps ==
  ASSUME TypeOK, Tree, Families, NEW f \in Contexts, WaitPid(f),
         \A p \in Pids : ~Kid(p)
  PROVE  /\ Tree' /\ Families'
         /\ \A p \in Pids : ~Kid(p)' /\ (Grand(p)' => Grand(p) /\ st'[p] = st[p])
<1>1. UNCHANGED <<start, shm>>
  BY DEF WaitPid, flags
<1>2. CASE UNCHANGED children
  BY <1>1, <1>2, FamiliesKept DEF children, Kid, Grand
<1>3. ASSUME NEW q \in Pids, st[q] = "zombie",
             st' = [st EXCEPT ![q] = "free"], proc' = [proc EXCEPT ![q] = Blank]
      PROVE  /\ Tree' /\ Families'
             /\ \A p \in Pids : ~Kid(p)' /\ (Grand(p)' => Grand(p) /\ st'[p] = st[p])
  <2>1. \A p \in Pids : /\ p # q => st'[p] = st[p] /\ proc'[p] = proc[p]
                        /\ st'[q] = "free" /\ proc'[q].ppid = Init1
    BY <1>3 DEF TypeOK, Blank
  <2>2. \A p \in Pids : /\ ~Kid(p)'
                        /\ Grand(p)' => Grand(p) /\ st'[p] = st[p] /\ proc'[p] = proc[p]
    BY <2>1 DEF Kid, Grand
  <2>3. \A p \in Pids : proc'[p].ppid \notin Pids
    BY <2>1, PidsAssumption DEF Tree, Kid
  <2>4. Tree'
    BY <2>2, <2>3, TreeShrinks
  <2>5. \A g \in Pids : Grand(g) => start # 1 /\ st[g] = "play"
    BY DEF Families, GrandOK, Steady
  <2>6. Families'
    BY <1>1, <2>2, <2>5, FamiliesShrink DEF Kept
  <2> QED
    BY <2>2, <2>4, <2>6
<1> QED
  BY <1>2, <1>3 DEF WaitPid, Awaited

(* The end of StopPlay.                                                    *)
LEMMA StopWaitPatient ==
  ASSUME TypeOK, up, Tree, Families, Phases, WaitPid("main")
  PROVE  PatientOK'
<1>1. /\ pc["main"] = "wait" /\ pc["usr1"] = "idle" /\ ~usr1 /\ Stopping
      /\ frame["main"].after = "idle"
  BY DEF WaitPid, Runs, Stopping, Phases, ParentOK
<1>2. \A p \in Pids : ~Kid(p)
  <2>1. \A p \in Pids : Kid(p) => p # frame["main"].cur.child
    BY WaitedFor DEF Contexts
  <2> QED
    BY <1>1, <2>1 DEF Phases, StopOK, StopStuck, StopGoesOn
<1>3. start = 0 /\ suspend = 0 /\ StopGoesOn
  BY <1>1, <1>2 DEF Phases, StopOK, StopStuck
<1>4. UNCHANGED <<start, suspend, usr1, up, shm, fifo>>
  BY DEF WaitPid, flags
<1>5. /\ pc'["main"] = "idle" /\ pc'["usr1"] = "idle"
      /\ frame'["main"] = EmptyFrame /\ frame'["usr1"] = frame["usr1"]
  BY <1>1 DEF WaitPid, Return, Jump, TypeOK, Contexts
<1>6. /\ Tree' /\ Families'
      /\ \A p \in Pids : ~Kid(p)' /\ (Grand(p)' => Grand(p) /\ st'[p] = st[p])
  BY <1>2, Reaps DEF Contexts
<1>7. ~Stopping'
  BY <1>5 DEF Stopping
<1>8. ParentOK'
  BY <1>4, <1>5, <1>7 DEF Phases, ParentOK, EmptyFrame, NoMsg
<1>9. QuitSent' <=> QuitSent
  BY <1>4 DEF QuitSent
<1>10. \A g \in Pids : Grand(g)' => st'[g] = "play" /\ QuitSent'
  BY <1>1, <1>3, <1>6, <1>9 DEF StopGoesOn
<1>11. StartOK' /\ SilentOK' /\ StopOK' /\ FetchOK'
  BY <1>1, <1>3, <1>4, <1>5, <1>6, <1>7, <1>10 DEF StartOK, SilentOK, StopOK, FetchOK
<1>12. EndOK'
  BY <1>1, <1>4, <1>5, <1>10 DEF EndOK, Updating, Grand
<1> QED
  BY <1>6, <1>8, <1>11, <1>12 DEF PatientOK, Phases

(* The end of the list: the handler has waited for its child.              *)
LEMMA UpdateWaitPatient ==
  ASSUME TypeOK, up, Tree, Families, Phases, WaitPid("usr1")
  PROVE  PatientOK'
<1>1. pc["usr1"] = "wait" /\ frame["usr1"].after = "fetch" /\ start = 0
  BY DEF WaitPid, Phases, ParentOK, StartOK
<1>2. \A p \in Pids : ~Kid(p)
  BY <1>1, WaitedFor DEF Phases, EndOK, Contexts
<1>3. Nobody /\ ~usr1
  BY <1>1, <1>2 DEF Nobody, Phases, EndOK, Updating, Families, GrandOK, Steady
<1>4. ~Stopping
  BY <1>1, <1>2 DEF Phases, StopOK, StopStuck, StopGoesOn
<1>5. UNCHANGED <<start, suspend, usr1, up, shm, fifo>>
  BY DEF WaitPid, flags
<1>6. pc'["main"] = pc["main"] /\ pc'["usr1"] = "fetch" /\ UNCHANGED frame
  BY <1>1 DEF WaitPid, Jump, TypeOK, Contexts
<1>7. Tree' /\ Families' /\ Nobody'
  BY <1>2, <1>3, Reaps DEF Contexts, Nobody
<1>8. ~Stopping'
  BY <1>4, <1>6 DEF Stopping
<1>9. ParentOK'
  BY <1>5, <1>6, <1>8 DEF Phases, ParentOK
<1>10. StartOK' /\ SilentOK' /\ StopOK' /\ FetchOK'
  BY <1>1, <1>3, <1>5, <1>6, <1>7, <1>8 DEF StartOK, SilentOK, StopOK, FetchOK, Idle
<1>11. EndOK'
  BY <1>3, <1>5, <1>6, <1>7 DEF EndOK, Updating, Nobody, Grand
<1> QED
  BY <1>7, <1>9, <1>10, <1>11 DEF PatientOK, Phases

-----------------------------------------------------------------------------
(* UpdateMusic.                                                            *)

(* The handler does not reach the next list while main is in StopPlay.     *)
LEMMA FetchAlone ==
  ASSUME Phases, pc["usr1"] \in {"fetch", "reply", "begin", "open"}
  PROVE  ~Stopping /\ Nobody /\ ~usr1 /\ start = 0
BY DEF Phases, StopOK, StopStuck, StopGoesOn, FetchOK, StartOK, Nobody

(* Main cannot interrupt the handler.                                      *)
LEMMA HandlerMoves ==
  ASSUME TypeOK, up, Tree, Families, Phases,
         pc["usr1"] \in {"fetch", "reply", "begin"},
         pc' = [pc EXCEPT !["usr1"] = pc'["usr1"]],
         pc'["usr1"] \in {"reply", "begin", "open"},
         frame'["main"] = frame["main"],
         UNCHANGED <<start, suspend, usr1, up, shm, children, fifo>>
  PROVE  PatientOK'
<1>1. ~Stopping /\ Nobody /\ ~usr1 /\ start = 0
  BY FetchAlone
<1>2. pc'["main"] = pc["main"]
  BY DEF TypeOK, Contexts
<1>3. ~Stopping'
  BY <1>1, <1>2 DEF Stopping
<1>4. Tree' /\ Families'
  BY FamiliesKept DEF children
<1>5. Nobody'
  BY <1>1 DEF Nobody, Kid, Grand, children
<1>6. ParentOK'
  BY <1>2, <1>3 DEF Phases, ParentOK
<1>7. StartOK' /\ SilentOK' /\ StopOK' /\ FetchOK'
  BY <1>1, <1>3, <1>5 DEF StartOK, SilentOK, StopOK, FetchOK, Idle
<1>8. EndOK'
  BY <1>1, <1>5 DEF EndOK, Updating, Nobody, Grand
<1> QED
  BY <1>4, <1>6, <1>7, <1>8 DEF PatientOK, Phases

(* GetMusicName: its two halves.                                           *)
LEMMA FetchPatient ==
  ASSUME TypeOK, up, Tree, Families, Phases, NEW f \in Contexts, Fetch(f) \/ Reply(f)
  PROVE  PatientOK'
<1>1. f = "usr1" /\ pc["usr1"] \in {"fetch", "reply"}
  BY DEF Fetch, Reply, Contexts, Phases, ParentOK
<1>2. /\ pc' = [pc EXCEPT !["usr1"] = pc'["usr1"]]
      /\ pc'["usr1"] \in {"reply", "begin"}
  BY <1>1 DEF Fetch, Reply, Jump, TypeOK, Contexts
<1>3. UNCHANGED <<start, suspend, usr1, up, frame, shm, children, fifo>>
  BY DEF Fetch, Reply, Phases, ParentOK
<1> QED
  BY <1>1, <1>2, <1>3, HandlerMoves

(* The next list begins, unless a suspend that reached nobody is still     *)
(* remembered: then the handler waits for a reader that never comes.       *)
LEMMA BeginHandlerPatient ==
  ASSUME TypeOK, up, Tree, Families, Phases, NEW f \in Contexts, Begin(f)
  PROVE  PatientOK'
<1> USE DEF flags, children
<1>1. f = "usr1" /\ pc["usr1"] = "begin"
  BY DEF Begin, Contexts, Phases, ParentOK
<1>2. ~Stopping /\ Nobody /\ ~usr1 /\ start = 0
  BY <1>1, FetchAlone
<1>3. CASE /\ Resumes
           /\ WriteFifo(f, Pause, "resumed", "idle", frame[f].cur, NoSinger)
           /\ UNCHANGED <<flags, usr1, up, shm, kernel, children, fifo>>
  <2>1. /\ pc' = [pc EXCEPT !["usr1"] = pc'["usr1"]] /\ pc'["usr1"] = "open"
        /\ frame'["main"] = frame["main"]
    BY <1>1, <1>3 DEF WriteFifo, Jump, TypeOK, Contexts
  <2> QED
    BY <1>1, <1>3, <2>1, HandlerMoves
<1>4. CASE /\ ~Resumes /\ start = 0 /\ list # NoSinger
           /\ PlayMusic(f)
           /\ start' = 1
           /\ Return(f)
           /\ UNCHANGED <<suspend, list, usr1, up, shm, kernel, fifo>>
  BY <1>1, <1>2, <1>4, BeginPatient DEF Phases
<1>5. CASE Crash
  BY <1>5, CrashPatient
<1>6. StartPlay(f) /\ start # 1
  BY <1>2 DEF Begin
<1> QED
  BY <1>3, <1>4, <1>5, <1>6 DEF StartPlay

(* The signal that the list has ended is taken.                            *)
LEMMA DeliverUsr1Patient ==
  ASSUME TypeOK, up, Tree, Families, Phases, DeliverUsr1
  PROVE  PatientOK'
<1>1. usr1 /\ pc["usr1"] = "idle" /\ ~usr1' /\ start' = 0
  BY DEF DeliverUsr1
<1>2. UNCHANGED <<suspend, list, frame, up, shm, st, proc, fifo>>
  BY DEF DeliverUsr1, children
<1>3. pc'["main"] = pc["main"] /\ pc'["usr1"] = "upd_p"
  BY DEF DeliverUsr1, Phases, ParentOK
<1>4. Stopping' <=> Stopping
  BY <1>2, <1>3 DEF Stopping
<1>5. Tree' /\ Families'
  BY <1>1, <1>2, FamiliesKept
<1>6. ParentOK'
  BY <1>2, <1>3, <1>4 DEF Phases, ParentOK
<1>7. StartOK' /\ SilentOK' /\ FetchOK'
  BY <1>1, <1>3 DEF StartOK, SilentOK, FetchOK, Idle
<1>8. StopOK'
  BY <1>1, <1>2, <1>4 DEF Phases, StopOK, StopStuck, StopGoesOn, Kid
<1>9. EndOK'
  BY <1>1, <1>2, <1>3 DEF Phases, EndOK, Updating, Kid, Grand, Known
<1> QED
  BY <1>2, <1>5, <1>6, <1>7, <1>8, <1>9 DEF PatientOK, Phases

(* Once the handler has the lock no grandchild is on its way to kill the   *)
(* child any more: it has done so and is gone.                             *)
LEMMA UpdateReadPatient ==
  ASSUME LockInv, up, Tree, Families, Phases, UpdateRead
  PROVE  PatientOK'
<1>0. TypeOK
  BY DEF LockInv
<1>1. pc["usr1"] = "upd_p" /\ start = 0 /\ sem > 0
  BY DEF UpdateRead, SemP, Phases, StartOK
<1>2. UNCHANGED <<start, suspend, list, usr1, up, shm, st, proc, fifo>>
  BY DEF UpdateRead, flags, children
<1>3. /\ pc'["main"] = pc["main"] /\ pc'["usr1"] = "upd_v"
      /\ frame'["main"] = frame["main"] /\ frame'["usr1"].cur = shm
  BY <1>0 DEF UpdateRead, Jump, TypeOK, Contexts, Frame
<1>4. Stopping' <=> Stopping
  BY <1>2, <1>3 DEF Stopping
<1>5. Tree' /\ Families'
  BY <1>2, FamiliesKept
<1>6. ParentOK'
  BY <1>2, <1>3, <1>4 DEF Phases, ParentOK
<1>7. StartOK' /\ SilentOK' /\ FetchOK'
  BY <1>1, <1>2, <1>3 DEF StartOK, SilentOK, FetchOK, Idle
<1>8. StopOK'
  BY <1>1, <1>2, <1>3, <1>4 DEF Phases, StopOK, StopStuck, StopGoesOn, Kid
<1>9. \A g \in Pids : st[g] # "eol_child"
  <2>1. \A x \in Everybody : ~Inside(x)
    BY <1>1 DEF LockInv, LockOK
  <2> QED
    BY <2>1, PidsAssumption DEF Everybody, Inside
<1>10. \A p \in Pids : Kid(p) =>
         /\ p = shm.child
         /\ proc[p].blocked \/ (proc[p].pend /\ \A g \in Pids : ~Grand(g))
  BY <1>1, <1>9 DEF Phases, EndOK, Updating, Known, Tree
<1>11. EndOK'
  BY <1>1, <1>2, <1>3, <1>10 DEF Phases, EndOK, Updating, Kid, Grand, Known
<1> QED
  BY <1>2, <1>5, <1>6, <1>7, <1>8, <1>11 DEF PatientOK, Phases

(* The handler goes on to waitpid().                                       *)
LEMMA UpdateLeavePatient ==
  ASSUME TypeOK, up, Tree, Families, Phases, UpdateLeave
  PROVE  PatientOK'
<1>1. pc["usr1"] = "upd_v" /\ start = 0
  BY DEF UpdateLeave, Phases, StartOK
<1>2. UNCHANGED <<start, suspend, list, usr1, up, shm, st, proc, fifo>>
  BY DEF UpdateLeave, flags, children
<1>3. /\ pc'["main"] = pc["main"] /\ pc'["usr1"] = "wait"
      /\ frame'["main"] = frame["main"] /\ frame'["usr1"].cur = frame["usr1"].cur
      /\ frame'["usr1"].after = "fetch"
  BY DEF UpdateLeave, Jump, TypeOK, Contexts, Frame
<1>4. Stopping' <=> Stopping
  BY <1>2, <1>3 DEF Stopping
<1>5. Tree' /\ Families'
  BY <1>2, FamiliesKept
<1>6. ParentOK'
  BY <1>2, <1>3, <1>4 DEF Phases, ParentOK
<1>7. StartOK' /\ SilentOK' /\ FetchOK'
  BY <1>1, <1>2, <1>3 DEF StartOK, SilentOK, FetchOK, Idle
<1>8. StopOK'
  BY <1>1, <1>2, <1>3, <1>4 DEF Phases, StopOK, StopStuck, StopGoesOn, Kid
<1>9. EndOK'
  BY <1>1, <1>2, <1>3 DEF Phases, EndOK, Updating, Kid, Grand, Known
<1> QED
  BY <1>2, <1>5, <1>6, <1>7, <1>8, <1>9 DEF PatientOK, Phases

-----------------------------------------------------------------------------
(* The end of a process.                                                   *)

(* The commands to the next reader are lost with the last one.             *)
LEMMA LastReader ==
  ASSUME Tree, NEW p \in Pids, Grand(p)
  PROVE  Readers \subseteq {p}
BY DEF Tree, Readers, Grand

(* A child dies of SIGUSR1, or a grandchild that has published its song or *)
(* has none: the phase goes on. f is what is known of the others, whom     *)
(* a dying grandchild may have sent a signal.                              *)
LEMMA ExitPatient ==
  ASSUME TypeOK, PatientOK, NEW p \in Pids, NEW f \in [Pids -> Process],
         NEW unread, Exit(p, f, unread),
         \A q \in Pids : Kept(f[q], proc[q]) /\ f[q].ppid = proc[q].ppid,
         UNCHANGED <<start, suspend, pc, frame, up, shm>>,
         \/ Kid(p) /\ Doomed(p) /\ f = proc /\ unread = fifo
         \/ Grand(p),
         up => /\ usr1' = usr1
               /\ Grand(p) => ~HandedOn(p)
               /\ \A q \in Pids : proc[q].pend => f[q].pend
               /\ st[p] = "eol_child" => \A q \in Pids : Kid(q) => f[q].pend
  PROVE  PatientOK'
<1>1. Tree'
  BY ExitTree DEF PatientOK
<1> SUFFICES ASSUME up PROVE Families' /\ Phases'
  BY <1>1 DEF PatientOK
<1>2. Tree /\ Families /\ Phases
  BY DEF PatientOK
<1>3. \A q \in Pids : Kid(q)' \/ Grand(q)' =>
        /\ q # p /\ st'[q] = st[q] /\ Kept(proc'[q], proc[q])
        /\ proc'[q].ppid = IF proc[q].ppid = p THEN Init1 ELSE proc[q].ppid
        /\ proc'[q].pend = f[q].pend
  <2>1. \A q \in Pids : Kid(q)' \/ Grand(q)' =>
          /\ q # p /\ st'[q] = st[q]
          /\ proc'[q].ppid = IF f[q].ppid = p THEN Init1 ELSE f[q].ppid
          /\ Kept(proc'[q], f[q]) /\ proc'[q].pend = f[q].pend
    BY ExitKeeps
  <2> QED
    BY <2>1 DEF Kept
<1>4. \A q \in Pids : /\ Kid(q)' => Kid(q) /\ q # p
                      /\ Grand(q)' => Grand(q) /\ q # p
  BY <1>3 DEF Kid, Grand
<1>5. \A q \in Pids : q # p => (Kid(q) => Kid(q)') /\ (Grand(q) => Grand(q)')
  BY DEF Exit, TypeOK, Kid, Grand
<1>6. Grand(p) => Readers \subseteq {p} /\ \A g \in Pids : ~Grand(g)'
  BY <1>2, <1>4, LastReader DEF Tree
<1>7. ~Grand(p) => Kid(p) /\ ~Steady(p) /\ f = proc /\ unread = fifo
  BY DEF Doomed, Steady
<1>8. \A g \in Pids : Grand(g)' => ~Grand(p) /\ st[g] = "play" /\ start # 1
  <2> SUFFICES ASSUME NEW g \in Pids, Grand(g)'
               PROVE  ~Grand(p) /\ st[g] = "play" /\ start # 1
    OBVIOUS
  <2>1. ~Grand(p) /\ Grand(g)
    BY <1>4, <1>6
  <2>2. \A q \in Pids : ~Steady(q)
    BY <1>2, <1>7, <2>1 DEF Tree, Steady
  <2> QED
    BY <1>2, <2>1, <2>2 DEF Families, GrandOK
<1>9. \A q \in Pids : Kid(q)' => proc'[q].ppid = proc[q].ppid
  BY <1>2, <1>3, <1>4, PidsAssumption DEF Families, KidOK
<1>10. Families'
  <2>1. \A g \in Pids : HandedOn(g) => Grand(g) /\ st[g] # "play"
    BY DEF HandedOn, Grand
  <2>2. \A g \in Pids : Grand(g)' => proc'[g].pend = proc[g].pend
    BY <1>3, <1>7, <1>8
  <2>3. \A g \in Pids : ~HandedOn(g) \/ Grand(g)'
    BY <1>5, <2>1
  <2> QED
    BY <1>2, <1>3, <1>4, <1>8, <1>9, <2>2, <2>3, FamiliesShrink
<1>11. fifo' = fifo \/ fifo' = <<>>
  BY <1>6, <1>7 DEF Exit
<1>12. \A g \in Pids : Grand(g)' => (QuitSent => QuitSent')
  <2> SUFFICES ASSUME NEW g \in Pids, Grand(g)' PROVE fifo' = fifo
    BY DEF QuitSent
  <2>1. ~(Readers \subseteq {p}) /\ unread = fifo
    BY <1>4, <1>7, <1>8 DEF Readers
  <2> QED
    BY <2>1 DEF Exit
<1>13. Stopping' <=> Stopping
  BY DEF Stopping
<1>14. ParentOK'
  BY <1>2, <1>11, <1>13 DEF Phases, ParentOK
<1>15. StartOK' /\ SilentOK' /\ FetchOK'
  BY <1>2, <1>3, <1>4, <1>12, <1>13 DEF Phases, StartOK, SilentOK, FetchOK, Idle, Nobody
<1>16. \A q \in Pids : Kid(q) /\ proc[q].blocked => Kid(q)' /\ proc'[q].blocked
  <2> SUFFICES ASSUME NEW q \in Pids, Kid(q), proc[q].blocked
               PROVE  Kid(q)' /\ proc'[q].blocked
    OBVIOUS
  <2>1. q # p
    BY DEF Doomed, Kid, Grand
  <2> QED
    BY <1>3, <1>5, <2>1 DEF Kept
<1>17. \A q \in Pids : Kid(q)' => /\ Kept(proc'[q], proc[q])
                                  /\ proc[q].pend => proc'[q].pend
                                  /\ st[p] = "eol_child" => proc'[q].pend
  BY <1>3, <1>4
<1>18. StopOK'
  BY <1>2, <1>3, <1>4, <1>12, <1>13, <1>16, <1>17
     DEF Phases, StopOK, StopStuck, StopGoesOn, Kept
<1>19. EndOK'
  <2>1. Updating' <=> Updating
    BY DEF Updating
  <2>2. \A g \in Pids : st'[g] # "eol_child" /\ (Grand(g)' => ~usr1 /\ ~Updating)
    <3>1. \A g \in Pids : st'[g] = "eol_child" => Grand(g)'
      BY DEF Grand
    <3> QED
      BY <1>2, <1>3, <1>4, <1>8, <3>1 DEF Phases, EndOK
  <2>3. ASSUME usr1 \/ Updating, NEW q \in Pids, Kid(q)'
        PROVE  /\ proc'[q].name = NoSong /\ Known(q)' /\ IsLast(shm.song)
               /\ proc'[q].blocked \/ proc'[q].pend
    <3>1. /\ proc[q].name = NoSong /\ Known(q) /\ IsLast(shm.song)
          /\ proc[q].blocked \/ proc[q].pend \/ \E g \in Pids : st[g] = "eol_child"
      BY <1>2, <1>4, <2>3 DEF Phases, EndOK
    <3>2. \A g \in Pids : st[g] = "eol_child" => g = p
      BY <1>5, <1>8 DEF Grand
    <3> QED
      BY <1>17, <2>3, <3>1, <3>2 DEF Kept, Known
  <2>4. usr1 /\ pc["usr1"] # "idle" => \E q \in Pids : Kid(q)' /\ proc'[q].blocked
    BY <1>2, <1>16 DEF Phases, EndOK
  <2>5. pc["usr1"] \in {"upd_v", "wait"} =>
          \A q \in Pids : Kid(q)' =>
            /\ q = frame["usr1"].cur.child
            /\ proc'[q].blocked \/ (proc'[q].pend /\ \A g \in Pids : ~Grand(g)')
    BY <1>2, <1>4, <1>17 DEF Phases, EndOK, Kept
  <2> QED
    BY <2>1, <2>2, <2>3, <2>4, <2>5 DEF EndOK
<1> QED
  BY <1>10, <1>14, <1>15, <1>18, <1>19 DEF Phases

(* kill() marks the processes it is meant for and nothing else.            *)
LEMMA SignalKeeps ==
  ASSUME TypeOK, NEW pid
  PROVE  LET f == Signal(pid, proc)
         IN  /\ f \in [Pids -> Process]
             /\ \A q \in Pids : /\ Kept(f[q], proc[q]) /\ f[q].ppid = proc[q].ppid
                                /\ proc[q].pend => f[q].pend
                                /\ Alive(q) /\ pid = q => f[q].pend
<1> DEFINE f == Signal(pid, proc)
<1>1. f \in [Pids -> Process] /\ proc \in [Pids -> Process]
  BY SignalType DEF TypeOK
<1>2. ASSUME NEW q \in Pids
      PROVE  /\ Kept(f[q], proc[q]) /\ f[q].ppid = proc[q].ppid
             /\ proc[q].pend => f[q].pend
             /\ Alive(q) /\ pid = q => f[q].pend
  <2>1. f[q] = IF Alive(q) /\ pid \in {q, Group}
               THEN [proc[q] EXCEPT !.pend = TRUE] ELSE proc[q]
    BY DEF Signal
  <2>2. proc[q] \in Process
    BY <1>1
  <2>3. LET r == [proc[q] EXCEPT !.pend = TRUE]
        IN  Kept(r, proc[q]) /\ r.ppid = proc[q].ppid /\ r.pend
    BY <2>2 DEF Kept, Process
  <2> QED
    BY <2>1, <2>3 DEF Kept
<1> QED
  BY <1>1, <1>2

(* SIGUSR1 kills a child that does not block it.                           *)
LEMMA DeliverPatient ==
  ASSUME TypeOK, PatientOK, NEW p \in Pids, Deliver(p)
  PROVE  PatientOK'
<1>1. Doomed(p) /\ Exit(p, proc, fifo) /\ proc \in [Pids -> Process]
  BY DEF Deliver, TypeOK
<1>2. Kid(p) \/ Grand(p)
  BY <1>1 DEF Doomed, Alive, Kid, Grand, TypeOK, States
<1>3. Grand(p) => ~up
  BY <1>1 DEF PatientOK, Families, GrandOK, Doomed
<1>4. UNCHANGED <<start, suspend, pc, frame, up, shm, usr1>>
  BY DEF Deliver, flags
<1>5. \A q \in Pids : Kept(proc[q], proc[q])
  BY DEF Kept
<1>6. st[p] = "eol_child" => Grand(p)
  BY DEF Grand
<1>7. Kid(p) => ~Grand(p)
  BY DEF Kid, Grand
<1> QED
  BY <1>1, <1>2, <1>3, <1>4, <1>5, <1>6, <1>7, ExitPatient

(* A grandchild goes that is not about to publish a song.                  *)
LEMMA GrandGone ==
  ASSUME TypeOK, PatientOK, NEW g \in Pids, Grand(g), ~HandedOn(g),
         st[g] # "eol_child", NEW unread, Exit(g, proc, unread),
         UNCHANGED <<flags, pc, frame, usr1, up, shm>>
  PROVE  PatientOK'
<1>1. proc \in [Pids -> Process] /\ \A q \in Pids : Kept(proc[q], proc[q])
  BY DEF TypeOK, Kept
<1> QED
  BY <1>1, ExitPatient DEF flags

(* The end of a song, mplayer's quit, and a search that fails.             *)
LEMMA GrandEndPatient ==
  ASSUME TypeOK, PatientOK, NEW g \in Pids,
         \/ GrandLost(g) \/ MpEnd(g)
         \/ MpRead(g) /\ Exit(g, proc, Tail(fifo))
  PROVE  PatientOK'
<1>1. Grand(g) /\ ~HandedOn(g) /\ st[g] # "eol_child"
  BY DEF GrandLost, MpEnd, MpRead, Grand, HandedOn, Wanted
<1>2. UNCHANGED <<flags, pc, frame, usr1, up, shm>>
  BY DEF GrandLost, MpEnd, MpRead
<1>3. Exit(g, proc, fifo) \/ Exit(g, proc, Tail(fifo))
  BY DEF GrandLost, MpEnd
<1> QED
  BY <1>1, <1>2, <1>3, GrandGone

(* The grandchild at the end of the list, or one whose execv() fails,      *)
(* takes the child with it.                                                *)
LEMMA GrandKillsPatient ==
  ASSUME TypeOK, PatientOK, NEW g \in Pids, GrandTellChild(g) \/ GrandExecFails(g)
  PROVE  PatientOK'
<1> DEFINE pid == proc[g].loc.child
           f == Signal(pid, proc)
<1>1. /\ st[g] \in {"eol_child", "exec"} /\ Exit(g, f, fifo)
      /\ usr1' = (usr1 \/ (up /\ pid = Group))
      /\ UNCHANGED <<start, suspend, pc, frame, up, shm>>
  BY DEF GrandTellChild, GrandExecFails, flags
<1>2. Grand(g) /\ ~HandedOn(g)
  BY <1>1 DEF Grand, HandedOn
<1>3. ASSUME up
      PROVE  Kid(pid) /\ pid \in Pids /\ \A q \in Pids : Kid(q) => q = pid
  <2>1. PICK c \in Pids : Steady(c)
    BY <1>1, <1>2, <1>3 DEF PatientOK, Families, GrandOK
  <2>2. Kid(c) /\ pid = c
    BY <1>1, <1>2, <1>3, <2>1 DEF PatientOK, Families, FamilyOK, Steady
  <2> QED
    BY <2>2 DEF PatientOK, Tree
<1>4. up => usr1' = usr1
  <2>1. up => pid # Group
    BY <1>3, PidsAssumption
  <2>2. usr1 \in BOOLEAN
    BY DEF TypeOK
  <2> QED
    BY <1>1, <2>1, <2>2
<1>5. /\ f \in [Pids -> Process]
      /\ \A q \in Pids : /\ Kept(f[q], proc[q]) /\ f[q].ppid = proc[q].ppid
                         /\ proc[q].pend => f[q].pend
                         /\ Alive(q) /\ pid = q => f[q].pend
  BY SignalKeeps
<1>6. up => \A q \in Pids : Kid(q) => f[q].pend
  BY <1>3, <1>5 DEF Kid, Alive
<1> HIDE DEF f, pid
<1> QED
  BY <1>1, <1>2, <1>4, <1>5, <1>6, ExitPatient

-----------------------------------------------------------------------------
(* The child.                                                              *)

(* It forks when the grandchild before is gone.                            *)
LEMMA ForkAlone ==
  ASSUME Tree, NEW c \in Pids, st[c] = "loop"
  PROVE  /\ \A q \in Pids : proc[q].ppid # c /\ ~Grand(q)
         /\ \A q \in Pids : Kid(q) <=> q = c
<1>1. Kid(c)
  BY DEF Kid
<1>2. \A q \in Pids : proc[q].ppid # c
  BY DEF Tree
<1> QED
  BY <1>1, <1>2 DEF Tree

(* The song's name goes to the grandchild, or is still in shared memory.   *)
LEMMA ChildForkPatient ==
  ASSUME TypeOK, PatientOK, NEW c \in Pids, ChildFork(c), ~Doomed(c)
  PROVE  PatientOK'
<1>0. st[c] = "loop" /\ Tree
  BY DEF ChildFork, PatientOK
<1>1. PICK g \in FreePids :
        /\ st' = [st EXCEPT ![c] = "child_wait", ![g] = "semp"]
        /\ proc' = [proc EXCEPT
             ![c].name = NoSong,
             ![g] = [Blank EXCEPT !.ppid = c, !.name = proc[c].name,
                                  !.blocked = proc[c].blocked,
                                  !.list = proc[c].list]]
  BY DEF ChildFork
<1>2. g \in Pids /\ g # c /\ st[g] = "free"
  BY <1>0 DEF FreePids
<1>3. /\ st'[c] = "child_wait" /\ st'[g] = "semp"
      /\ \A q \in Pids \ {c, g} : st'[q] = st[q] /\ proc'[q] = proc[q]
  BY <1>1, <1>2 DEF TypeOK
<1>4. /\ proc'[c].ppid = proc[c].ppid /\ proc'[c].list = proc[c].list
      /\ proc'[c].blocked = proc[c].blocked /\ proc'[c].pend = proc[c].pend
      /\ proc'[c].name = NoSong
  <2>1. proc'[c] = [proc[c] EXCEPT !.name = NoSong] /\ proc[c] \in Process
    BY <1>1, <1>2 DEF TypeOK
  <2> QED
    BY <2>1 DEF Process
<1>5. /\ proc'[g].ppid = c /\ proc'[g].name = proc[c].name
      /\ proc'[g].list = proc[c].list /\ ~proc'[g].pend
  BY <1>1, <1>2 DEF TypeOK, Blank
<1>6. /\ \A q \in Pids : proc[q].ppid # c /\ ~Grand(q)
      /\ \A q \in Pids : Kid(q) <=> q = c
  BY <1>0, ForkAlone
<1>7. \A q \in Pids : (Kid(q)' <=> q = c) /\ (Grand(q)' <=> q = g)
  BY <1>2, <1>3, <1>6 DEF Kid, Grand
<1>8. Tree'
  <2>1. \A q \in Pids : q # g => proc'[q].ppid = proc[q].ppid
    BY <1>3, <1>4
  <2>2. \A q \in Pids : q # g => proc'[q].ppid \notin Pids
    BY <1>0, <1>6, <2>1 DEF Tree, Kid
  <2> QED
    BY <1>3, <1>5, <1>7, <2>2 DEF Tree
<1>9. UNCHANGED <<start, suspend, pc, frame, usr1, up, shm, fifo>>
  BY DEF ChildFork, flags
<1> SUFFICES ASSUME up PROVE Families' /\ Phases'
  BY <1>8, <1>9 DEF PatientOK
<1>10. Families /\ Phases /\ KidOK(c) /\ Kid(c)
  BY <1>6 DEF PatientOK, Families
<1>11. Steady(c) /\ Steady(c)'
  BY <1>0, <1>4, <1>7, <1>10 DEF Doomed, Alive, Steady
<1>12. Known(c)' <=> Known(c)
  BY <1>4, <1>9 DEF Known
<1>13. Families'
  <2>1. KidOK(c)'
    <3>1. proc[c].name # NoSong => HandedOn(g)'
      BY <1>3, <1>5 DEF HandedOn
    <3>2. \A q \in Pids : ~HandedOn(q)
      BY <1>6 DEF HandedOn, Grand
    <3> QED
      BY <1>2, <1>4, <1>10, <1>12, <3>1, <3>2 DEF KidOK
  <2>2. GrandOK(g)'
    BY <1>3, <1>5, <1>11 DEF GrandOK, Sounds
  <2>3. FamilyOK(c, g)'
    BY <1>3, <1>4, <1>5, <1>10 DEF FamilyOK, Sounds, KidOK
  <2> QED
    BY <1>7, <2>1, <2>2, <2>3 DEF Families
<1>14. \A q \in Pids : st[q] # "eol_child" /\ st'[q] # "eol_child"
  <2>1. \A q \in Pids : st[q] # "eol_child"
    BY <1>6 DEF Grand
  <2> QED
    BY <1>3, <2>1
<1>15. usr1 \/ Updating => proc[c].blocked /\ proc[c].name = NoSong /\ Known(c)
                           /\ IsLast(shm.song)
  BY <1>10, <1>11, <1>14 DEF Phases, EndOK, Steady
<1>16. EndOK'
  BY <1>3, <1>4, <1>5, <1>7, <1>9, <1>10, <1>12, <1>14, <1>15
     DEF Phases, EndOK, Updating
<1>17. ParentOK' /\ StartOK'
  BY <1>9, <1>10 DEF Phases, ParentOK, StartOK, Stopping
<1>18. SilentOK' /\ FetchOK'
  BY <1>9, <1>10 DEF Phases, SilentOK, FetchOK, Nobody, Idle
<1>19. StopOK'
  <2>1. Stopping => StopStuck
    BY <1>10, <1>11 DEF Phases, StopOK, StopGoesOn, Steady
  <2>2. StopStuck => StopStuck'
    BY <1>4, <1>6, <1>7, <1>9 DEF StopStuck
  <2>3. Stopping' <=> Stopping
    BY <1>9 DEF Stopping
  <2> QED
    BY <1>9, <1>10, <2>1, <2>2, <2>3 DEF Phases, StopOK
<1> QED
  BY <1>13, <1>16, <1>17, <1>18, <1>19 DEF Phases

(* It waits for the grandchild and goes on with the loop.                  *)
LEMMA ChildWaitPatient ==
  ASSUME TypeOK, PatientOK, NEW c \in Pids, ChildWait(c)
  PROVE  PatientOK'
<1>0. st[c] = "child_wait" /\ Tree /\ Kid(c)
  BY DEF ChildWait, PatientOK, Kid
<1>1. PICK g \in Pids : /\ st[g] = "zombie" /\ proc[g].ppid = c
                        /\ st' = [st EXCEPT ![c] = "loop", ![g] = "free"]
                        /\ proc' = [proc EXCEPT ![g] = Blank]
  BY DEF ChildWait
<1>2. /\ g # c /\ st'[c] = "loop" /\ st'[g] = "free" /\ proc'[g] = Blank
      /\ \A q \in Pids \ {c, g} : st'[q] = st[q]
      /\ \A q \in Pids \ {g} : proc'[q] = proc[q]
  BY <1>0, <1>1 DEF TypeOK
<1>3. \A q \in Pids : ~Grand(q) /\ (Kid(q) <=> q = c)
  <2>1. \A q \in Pids : Grand(q) => q = g
    BY <1>0, <1>1 DEF Tree
  <2>2. ~Grand(g)
    BY <1>1 DEF Grand
  <2> QED
    BY <1>0, <2>1, <2>2 DEF Tree
<1>4. \A q \in Pids : ~Grand(q)' /\ (Kid(q)' <=> q = c)
  BY <1>2, <1>3 DEF Grand, Kid
<1>5. Tree'
  <2>1. \A q \in Pids : proc'[q].ppid \notin Pids
    <3>1. proc'[g].ppid \notin Pids
      BY <1>2, PidsAssumption DEF Blank
    <3>2. \A q \in Pids \ {g} : proc[q].ppid # c
      BY <1>0, <1>1 DEF Tree
    <3>3. \A q \in Pids : proc[q].ppid \in Pids => proc[q].ppid = c
      BY <1>0, <1>3 DEF Tree, Kid
    <3> QED
      BY <1>2, <3>1, <3>2, <3>3
  <2> QED
    BY <1>4, <2>1 DEF Tree
<1>6. UNCHANGED <<start, suspend, pc, frame, usr1, up, shm, fifo>>
  BY DEF ChildWait, flags
<1> SUFFICES ASSUME up PROVE Families' /\ Phases'
  BY <1>5, <1>6 DEF PatientOK
<1>7. Families /\ Phases /\ KidOK(c)
  BY <1>3 DEF PatientOK, Families
<1>8. Families'
  <2>1. Known(c)
    BY <1>0, <1>3, <1>7 DEF KidOK, HandedOn, Grand
  <2>2. KidOK(c)'
    BY <1>2, <1>6, <1>7, <2>1 DEF KidOK, Known
  <2> QED
    BY <1>4, <2>2 DEF Families
<1>9. \A q \in Pids : st[q] # "eol_child" /\ st'[q] # "eol_child"
  BY <1>3, <1>4 DEF Grand
<1>10. EndOK'
  BY <1>2, <1>3, <1>4, <1>6, <1>7, <1>9 DEF Phases, EndOK, Updating, Known
<1>11. ParentOK' /\ StartOK'
  BY <1>6, <1>7 DEF Phases, ParentOK, StartOK, Stopping
<1>12. SilentOK' /\ FetchOK'
  BY <1>3, <1>4, <1>6, <1>7 DEF Phases, SilentOK, FetchOK, Nobody, Idle
<1>13. StopOK'
  BY <1>2, <1>3, <1>4, <1>6, <1>7 DEF Phases, StopOK, StopStuck, StopGoesOn, Stopping
<1> QED
  BY <1>8, <1>10, <1>11, <1>12, <1>13 DEF Phases

-----------------------------------------------------------------------------
(* The grandchild.                                                         *)

(* A grandchild moves on. What it takes over from the child above it and   *)
(* from shared memory is left to be shown, and so is the end of the list.  *)
LEMMA GrandMoves ==
  ASSUME TypeOK, PatientOK, NEW g \in Pids, Grand(g), Grand(g)',
         \A q \in Pids \ {g} : st'[q] = st[q] /\ proc'[q] = proc[q],
         proc'[g].ppid = proc[g].ppid, proc'[g].pend = proc[g].pend,
         st[g] = "play" => st'[g] = "play",
         UNCHANGED <<start, suspend, pc, frame, up>>,
         up => /\ \A p \in Pids : Kid(p) =>
                    /\ Known(p) => shm'.child = p /\ OfList(shm'.song, proc[p].list)
                    /\ HandedOn(g) => \/ HandedOn(g)'
                                      \/ shm'.child = p /\ OfList(shm'.song, proc[p].list)
                    /\ FamilyOK(p, g)'
               /\ Sounds(g)' => proc'[g].name = shm'.song
               /\ fifo' = fifo \/ (fifo' = Tail(fifo) /\ Head(fifo).op # "quit" /\ fifo # <<>>)
               /\ usr1' = usr1 \/ ~Idle \/ start = 1
               /\ Stopping => StopStuck \/ usr1' = usr1
               /\ pc["usr1"] \in {"fetch", "reply", "begin", "open"} => usr1' = usr1
               /\ EndOK'
  PROVE  PatientOK'
<1>1. \A q \in Pids : (Kid(q)' <=> Kid(q)) /\ (Grand(q)' <=> Grand(q))
                      /\ (Kid(q) => q # g)
  BY DEF Kid, Grand
<1>2. Tree'
  <2>1. \A q \in Pids : /\ proc'[q].ppid = proc[q].ppid
                        /\ st[q] = "child_wait" => st'[q] = "child_wait"
    BY DEF Grand
  <2> QED
    BY <1>1, <2>1, TreeKept DEF PatientOK
<1> SUFFICES ASSUME up PROVE Families' /\ Phases'
  BY <1>2 DEF PatientOK
<1>3. Families /\ Phases /\ Tree
  BY DEF PatientOK
<1>4. \A q \in Pids : Grand(q) => q = g
  BY <1>3 DEF Tree
<1>5. \A p \in Pids : Steady(p) => Steady(p)'
  BY <1>1 DEF Steady
<1>6. \A p \in Pids : Kid(p) => KidOK(p)'
  <2> SUFFICES ASSUME NEW p \in Pids, Kid(p) PROVE KidOK(p)'
    OBVIOUS
  <2>1. KidOK(p) /\ p # g /\ st'[p] = st[p] /\ proc'[p] = proc[p]
    BY <1>1, <1>3 DEF Families
  <2>2. OfList(shm'.song, proc[p].list) => shm'.song # NoSong /\ shm'.song[1] = proc[p].list
    BY DEF OfList, Song, NoSong
  <2>3. Known(p) => Known(p)'
    BY <2>1, <2>2 DEF Known
  <2>4. (\E q \in Pids : HandedOn(q)) => HandedOn(g)' \/ Known(p)'
    <3>1. \A q \in Pids : HandedOn(q) => q = g
      BY <1>4 DEF HandedOn, Grand
    <3> QED
      BY <2>1, <2>2, <3>1 DEF Known
  <2> QED
    BY <2>1, <2>3, <2>4 DEF KidOK
<1>7. GrandOK(g)'
  BY <1>3, <1>5 DEF Families, GrandOK
<1>8. Families'
  BY <1>1, <1>4, <1>6, <1>7 DEF Families
<1>9. /\ QuitSent => QuitSent'
      /\ \A i \in DOMAIN fifo' : fifo'[i].op # "load"
  <2>1. CASE fifo' = fifo
    BY <1>3, <2>1 DEF QuitSent, Phases, ParentOK
  <2>2. CASE fifo' = Tail(fifo) /\ Head(fifo).op # "quit" /\ fifo # <<>>
    <3>1. fifo \in Seq(Msg) /\ Len(fifo) \in Nat \ {0}
      BY <2>2 DEF TypeOK
    <3>2. /\ DOMAIN fifo = 1..Len(fifo) /\ DOMAIN fifo' = 1..(Len(fifo) - 1)
          /\ \A i \in DOMAIN fifo' : fifo'[i] = fifo[i + 1] /\ i + 1 \in DOMAIN fifo
          /\ fifo[1] = Head(fifo)
      BY <2>2, <3>1
    <3>3. ASSUME NEW i \in DOMAIN fifo, fifo[i].op = "quit"
          PROVE  i - 1 \in DOMAIN fifo' /\ fifo'[i - 1].op = "quit"
      <4>1. i \in 1..Len(fifo) /\ i # 1
        BY <2>2, <3>2, <3>3
      <4>2. i - 1 \in 1..(Len(fifo) - 1) /\ (i - 1) + 1 = i
        BY <3>1, <4>1
      <4> QED
        BY <3>2, <3>3, <4>2
    <3> QED
      BY <1>3, <3>2, <3>3 DEF QuitSent, Phases, ParentOK
  <2> QED
    BY <2>1, <2>2
<1>10. Stopping' <=> Stopping
  BY DEF Stopping
<1>11. ParentOK' /\ StartOK'
  BY <1>3, <1>9, <1>10 DEF Phases, ParentOK, StartOK
<1>12. SilentOK'
  BY <1>1, <1>3, <1>4, <1>9 DEF Phases, SilentOK, Idle, TypeOK
<1>13. FetchOK'
  BY <1>1, <1>3 DEF Phases, FetchOK, Nobody
<1>14. StopOK'
  <2>1. StopStuck => StopStuck'
    BY <1>1 DEF StopStuck
  <2>2. StopGoesOn /\ usr1' = usr1 => StopGoesOn'
    BY <1>1, <1>4, <1>9 DEF StopGoesOn
  <2> QED
    BY <1>3, <1>10, <2>1, <2>2 DEF Phases, StopOK
<1> QED
  BY <1>8, <1>11, <1>12, <1>13, <1>14 DEF Phases

(* Before the list has ended there is nothing to say about its end.        *)
LEMMA NoEnd ==
  ASSUME ~usr1, ~Updating, UNCHANGED <<usr1, pc>>,
         \A q \in Pids : st'[q] # "eol_child"
  PROVE  EndOK'
BY DEF EndOK, Updating

(* A grandchild that has a song to publish or to play, or no song yet.     *)
LEMMA NotEnded ==
  ASSUME EndOK, NEW g \in Pids, Grand(g), Tree,
         st[g] \notin {"eol", "eol_child"},
         st[g] = "semp" => proc[g].name # NoSong
  PROVE  ~usr1 /\ ~Updating /\ \A q \in Pids : st[q] # "eol_child"
<1>1. ~usr1 /\ ~Updating
  BY DEF EndOK
<1> QED
  BY <1>1 DEF Tree, Grand

(* It has the lock and knows its song, or that there is none left.         *)
LEMMA GrandEnterPatient ==
  ASSUME TypeOK, PatientOK, NEW g \in Pids, GrandEnter(g)
  PROVE  PatientOK'
<1> DEFINE next == FindNextMusic(shm.song, proc[g].list)
<1>1. st[g] = "semp" /\ Grand(g)
  BY DEF GrandEnter, Grand
<1>2. UNCHANGED <<start, suspend, pc, frame, usr1, up, shm, fifo>>
  BY DEF GrandEnter, flags
<1>3. PICK s \in {"cs", "eol"} :
        /\ st' = [st EXCEPT ![g] = s]
        /\ s = "eol" => /\ Wanted(g) /\ IsIn(shm.song, proc[g].list) /\ IsLast(shm.song)
                        /\ proc' = [proc EXCEPT ![g].loc = shm]
        /\ s = "cs" /\ Wanted(g) => /\ IsIn(shm.song, proc[g].list) /\ ~IsLast(shm.song)
                                    /\ proc' = [proc EXCEPT ![g].loc = shm, ![g].name = next]
        /\ s = "cs" /\ ~Wanted(g) => proc' = [proc EXCEPT ![g].loc = shm]
  BY DEF GrandEnter
<1>4. st'[g] = s /\ \A q \in Pids \ {g} : st'[q] = st[q] /\ proc'[q] = proc[q]
  BY <1>3 DEF TypeOK
<1>5. /\ proc'[g].ppid = proc[g].ppid /\ proc'[g].pend = proc[g].pend
      /\ proc'[g].loc = shm
      /\ proc'[g].name = IF s = "cs" /\ Wanted(g) THEN next ELSE proc[g].name
  <2>1. proc[g] \in Process
    BY DEF TypeOK
  <2>2. proc'[g] = IF s = "cs" /\ Wanted(g)
                   THEN [proc[g] EXCEPT !.loc = shm, !.name = next]
                   ELSE [proc[g] EXCEPT !.loc = shm]
    BY <1>3 DEF TypeOK
  <2> QED
    BY <2>1, <2>2 DEF Process
<1>6. Grand(g)'
  BY <1>4 DEF Grand
<1>7. ASSUME up, NEW p \in Pids, Kid(p)
      PROVE  /\ Known(p) => shm.child = p /\ OfList(shm.song, proc[p].list)
             /\ HandedOn(g) => HandedOn(g)'
             /\ FamilyOK(p, g)'
  <2>1. /\ KidOK(p) /\ FamilyOK(p, g) /\ p # g /\ proc'[p] = proc[p]
        /\ proc[p].list \in Singers /\ proc[g].list = proc[p].list
    BY <1>1, <1>4, <1>7 DEF PatientOK, Families, FamilyOK, KidOK, Kid, Grand
  <2>2. shm.song \in SongOrNone
    BY DEF TypeOK, Shm
  <2>3. Known(p) => OfList(shm.song, proc[p].list)
    BY <2>2 DEF Known, OfList, SongOrNone
  <2>4. s = "eol" => ~HandedOn(g)
    BY <1>1, <1>3 DEF HandedOn, Wanted
  <2>5. HandedOn(g) => HandedOn(g)'
    BY <1>4, <2>4 DEF HandedOn
  <2>6. Wanted(g) => Known(p)
    <3>1. st[p] = "child_wait"
      BY <1>1, <1>7 DEF PatientOK, Tree
    <3>2. \A q \in Pids : HandedOn(q) => q = g
      BY <1>1 DEF HandedOn, PatientOK, Tree, Grand
    <3> QED
      BY <1>1, <2>1, <3>1, <3>2 DEF KidOK, HandedOn, Wanted
  <2>7. s = "cs" => OfList(proc'[g].name, proc[p].list)
    <3>1. CASE s = "cs" /\ Wanted(g)
      <4>1. IsIn(shm.song, proc[g].list) /\ ~IsLast(shm.song)
        BY <1>3, <3>1
      <4>2. next \in Song
        BY <2>1, <2>2, <4>1, NextSong DEF ListOrNull
      <4>3. next[1] = proc[g].list
        BY DEF FindNextMusic
      <4> QED
        BY <1>5, <2>1, <3>1, <4>2, <4>3 DEF OfList
    <3>2. CASE ~Wanted(g)
      BY <1>1, <1>5, <2>1, <3>2 DEF FamilyOK, Wanted
    <3> QED
      BY <3>1, <3>2
  <2>8. FamilyOK(p, g)'
    BY <1>2, <1>3, <1>4, <1>5, <2>1, <2>6, <2>7 DEF FamilyOK, Sounds, Known
  <2> QED
    BY <1>7, <2>3, <2>5, <2>8 DEF Known
<1>8. up => EndOK'
  <2> SUFFICES ASSUME up PROVE EndOK'
    OBVIOUS
  <2>0. EndOK /\ Tree
    BY DEF PatientOK, Phases
  <2>1. \A q \in Pids : st[q] # "eol_child" /\ st'[q] # "eol_child"
    BY <1>1, <1>3, <1>4, <2>0 DEF Tree, Grand
  <2>2. CASE ~usr1 /\ ~Updating
    BY <1>2, <2>1, <2>2, NoEnd
  <2>3. CASE usr1 \/ Updating
    <3>1. PICK c \in Pids : Kid(c) /\ proc[c].blocked
      BY <1>1, <2>0, <2>1, <2>3 DEF EndOK
    <3>2. Wanted(g) /\ IsLast(shm.song)
      BY <1>1, <2>0, <2>3, <3>1 DEF EndOK, Wanted
    <3>3. s = "eol"
      BY <1>3, <3>2
    <3>4. \A q \in Pids : /\ (Kid(q)' <=> Kid(q)) /\ (Kid(q) => proc'[q] = proc[q])
                          /\ Known(q)' /\ Kid(q) <=> Known(q) /\ Kid(q)
                          /\ Grand(q)' => q = g
      BY <1>1, <1>2, <1>3, <1>4, <2>0 DEF Kid, Grand, Known, Tree
    <3> QED
      BY <1>2, <1>4, <2>0, <2>1, <3>1, <3>3, <3>4 DEF EndOK, Updating, Tree
  <2> QED
    BY <2>2, <2>3
<1>9. ~Sounds(g)'
  BY <1>4 DEF Sounds
<1> QED
  BY <1>1, <1>2, <1>4, <1>5, <1>6, <1>7, <1>8, <1>9, GrandMoves

(* It publishes its song and the child above it.                           *)
LEMMA GrandLeavePatient ==
  ASSUME TypeOK, PatientOK, NEW g \in Pids, GrandLeave(g)
  PROVE  PatientOK'
<1>1. st[g] = "cs" /\ Grand(g)
  BY DEF GrandLeave, Grand
<1>2. UNCHANGED <<start, suspend, pc, frame, usr1, up, fifo>>
  BY DEF GrandLeave, flags
<1>3. /\ st'[g] = "exec"
      /\ \A q \in Pids \ {g} : st'[q] = st[q] /\ proc'[q] = proc[q]
  BY DEF GrandLeave, TypeOK
<1>4. /\ proc'[g].ppid = proc[g].ppid /\ proc'[g].pend = proc[g].pend
      /\ proc'[g].name = proc[g].name /\ proc'[g].loc.child = proc[g].ppid
  <2>1. proc[g] \in Process /\ InitShm \in Shm
    BY DataTypes DEF TypeOK
  <2>2. proc'[g] = [proc[g] EXCEPT !.loc = [InitShm EXCEPT !.child = proc[g].ppid]]
    BY DEF GrandLeave, TypeOK
  <2>3. [InitShm EXCEPT !.child = proc[g].ppid].child = proc[g].ppid
    BY <2>1 DEF Shm
  <2> QED
    BY <2>1, <2>2, <2>3 DEF Process
<1>5. shm'.song = proc[g].name /\ shm'.child = proc[g].ppid
  <2>1. proc[g].loc \in Shm
    BY DEF TypeOK, Process
  <2> QED
    BY <2>1 DEF GrandLeave, Published, Shm
<1>6. Grand(g)'
  BY <1>3 DEF Grand
<1>7. ASSUME up, NEW p \in Pids, Kid(p)
      PROVE  /\ shm'.child = p /\ OfList(shm'.song, proc[p].list)
             /\ FamilyOK(p, g)'
  <2>1. FamilyOK(p, g) /\ proc[g].ppid = p /\ p # g /\ proc'[p] = proc[p]
    BY <1>1, <1>3, <1>7 DEF PatientOK, Families, Tree, Kid, Grand
  <2>2. OfList(proc[g].name, proc[p].list)
    BY <1>1, <2>1 DEF FamilyOK
  <2>3. shm'.song # NoSong /\ shm'.song[1] = proc[p].list
    BY <1>5, <2>2 DEF OfList, Song, NoSong
  <2>4. Known(p)'
    BY <1>5, <2>1, <2>3 DEF Known
  <2> QED
    BY <1>3, <1>4, <1>5, <2>1, <2>2, <2>4 DEF FamilyOK
<1>8. up => EndOK'
  <2> SUFFICES ASSUME up PROVE EndOK'
    OBVIOUS
  <2>1. ~usr1 /\ ~Updating /\ \A q \in Pids : st[q] # "eol_child"
    BY <1>1, NotEnded DEF PatientOK, Phases
  <2> QED
    BY <1>2, <1>3, <2>1, NoEnd
<1> QED
  BY <1>1, <1>2, <1>3, <1>4, <1>5, <1>6, <1>7, <1>8, GrandMoves

(* It tells the parent that the list has ended.                            *)
LEMMA GrandTellParentPatient ==
  ASSUME TypeOK, PatientOK, NEW g \in Pids, GrandTellParent(g)
  PROVE  PatientOK'
<1>1. st[g] = "eol" /\ Grand(g)
  BY DEF GrandTellParent, Grand
<1>2. UNCHANGED <<start, suspend, pc, frame, up, shm, proc, fifo>> /\ usr1' = up
  BY DEF GrandTellParent, flags
<1>3. st'[g] = "eol_child" /\ \A q \in Pids \ {g} : st'[q] = st[q]
  BY DEF GrandTellParent, TypeOK
<1>4. Grand(g)' /\ ~Sounds(g)' /\ ~HandedOn(g)
  BY <1>1, <1>3 DEF Grand, Sounds, HandedOn
<1>5. ASSUME up, NEW p \in Pids, Kid(p)
      PROVE  /\ shm.child = p /\ OfList(shm.song, proc[p].list)
             /\ FamilyOK(p, g)' /\ Known(p) /\ IsLast(shm.song)
             /\ proc[p].name = NoSong
  <2>1. FamilyOK(p, g) /\ KidOK(p) /\ st[p] = "child_wait"
    BY <1>1, <1>5 DEF PatientOK, Families, Tree
  <2>2. Known(p) /\ IsLast(shm.song) /\ proc[p].name = NoSong
    BY <1>1, <2>1 DEF FamilyOK, KidOK
  <2>3. OfList(shm.song, proc[p].list)
    BY <2>2 DEF Known, OfList, TypeOK, Shm, SongOrNone
  <2>4. Known(p)'
    BY <1>2, <2>2 DEF Known
  <2> QED
    BY <1>1, <1>2, <1>3, <2>1, <2>2, <2>3, <2>4 DEF FamilyOK, Known
<1>6. ASSUME up
      PROVE  /\ start = 1 \/ ~Idle
             /\ Stopping => StopStuck
             /\ pc["usr1"] \notin {"fetch", "reply", "begin", "open"}
             /\ EndOK'
  <2>1. Phases /\ Tree /\ Families
    BY <1>6 DEF PatientOK
  <2>2. start = 1 \/ ~Idle
    BY <1>1, <2>1 DEF Phases, SilentOK, TypeOK
  <2>3. Stopping => StopStuck
    BY <1>1, <2>1 DEF Phases, StopOK, StopGoesOn
  <2>4. pc["usr1"] \notin {"fetch", "reply", "begin", "open"}
    BY <1>1, <2>1 DEF Phases, FetchOK, Nobody
  <2>5. \A q \in Pids : Grand(q)' => q = g
    BY <1>1, <1>3, <2>1 DEF Grand, Tree
  <2>6. \A q \in Pids : (Kid(q)' <=> Kid(q)) /\ (Kid(q) => Known(q)')
    BY <1>1, <1>2, <1>3, <1>5, <1>6 DEF Kid, Known
  <2>7. pc["usr1"] # "idle" => \E q \in Pids : Kid(q) /\ proc[q].blocked
    <3>1. pc["usr1"] # "idle" => Updating
      BY <2>1, <2>4 DEF Phases, ParentOK, Updating
    <3> QED
      BY <1>1, <2>1, <3>1 DEF Phases, EndOK
  <2>8. pc["usr1"] \in {"upd_v", "wait"} =>
          \A q \in Pids : Kid(q) => q = frame["usr1"].cur.child /\ proc[q].blocked
    BY <1>1, <2>1 DEF Phases, EndOK
  <2>9. EndOK'
    BY <1>2, <1>3, <1>5, <1>6, <2>5, <2>6, <2>7, <2>8 DEF EndOK
  <2> QED
    BY <2>2, <2>3, <2>4, <2>9
<1> QED
  BY <1>1, <1>2, <1>3, <1>4, <1>5, <1>6, GrandMoves

(* execv(), and mplayer opens the FIFO.                                    *)
LEMMA GrandExecPatient ==
  ASSUME TypeOK, PatientOK, NEW g \in Pids, GrandExec(g) \/ MpOpen(g)
  PROVE  PatientOK'
<1>1. Sounds(g) /\ Grand(g) /\ st[g] \in {"exec", "boot"}
  BY DEF GrandExec, MpOpen, Grand, Sounds
<1>2. UNCHANGED <<start, suspend, pc, frame, usr1, up, shm, fifo>>
  BY DEF GrandExec, MpOpen, flags
<1>3. /\ st'[g] \in {"boot", "play"}
      /\ \A q \in Pids \ {g} : st'[q] = st[q] /\ proc'[q] = proc[q]
  BY DEF GrandExec, MpOpen, TypeOK
<1>4. /\ proc'[g].ppid = proc[g].ppid /\ proc'[g].pend = proc[g].pend
      /\ proc'[g].name = proc[g].name
  <2>1. proc[g] \in Process
    BY DEF TypeOK
  <2>2. proc'[g] = [proc[g] EXCEPT !.loc = InitShm, !.list = NoSinger] \/ proc'[g] = proc[g]
    BY DEF GrandExec, MpOpen, TypeOK
  <2> QED
    BY <2>1, <2>2 DEF Process
<1>5. Grand(g)' /\ ~HandedOn(g)
  BY <1>1, <1>3 DEF Grand, HandedOn
<1>6. ASSUME up, NEW p \in Pids, Kid(p)
      PROVE  /\ shm.child = p /\ OfList(shm.song, proc[p].list)
             /\ FamilyOK(p, g)'
  <2>1. Known(p) /\ p # g /\ proc'[p] = proc[p]
    BY <1>1, <1>3, <1>6 DEF PatientOK, Families, FamilyOK, Kid, Grand
  <2>2. OfList(shm.song, proc[p].list)
    BY <2>1 DEF Known, OfList, TypeOK, Shm, SongOrNone
  <2> QED
    BY <1>2, <1>3, <2>1, <2>2 DEF FamilyOK, Known
<1>7. up => proc[g].name = shm.song
  BY <1>1 DEF PatientOK, Families, GrandOK
<1>8. up => EndOK'
  <2> SUFFICES ASSUME up PROVE EndOK'
    OBVIOUS
  <2>1. ~usr1 /\ ~Updating /\ \A q \in Pids : st[q] # "eol_child"
    BY <1>1, NotEnded DEF PatientOK, Phases
  <2> QED
    BY <1>2, <1>3, <2>1, NoEnd
<1> QED
  BY <1>1, <1>2, <1>3, <1>4, <1>5, <1>6, <1>7, <1>8, GrandMoves

(* mplayer takes a command from the FIFO: nobody sends it another song.    *)
LEMMA MpReadPatient ==
  ASSUME TypeOK, PatientOK, NEW g \in Pids, MpRead(g), ~Exit(g, proc, Tail(fifo))
  PROVE  PatientOK'
<1>1. st[g] = "play" /\ Sounds(g) /\ Grand(g) /\ fifo # <<>>
  BY DEF MpRead, Grand, Sounds
<1>2. UNCHANGED <<start, suspend, pc, frame, usr1, up, shm, st>> /\ fifo' = Tail(fifo)
      /\ Head(fifo).op \in {"pause", "load"}
  BY DEF MpRead, flags
<1>3. up => Head(fifo).op # "load"
  <2>1. fifo \in Seq(Msg)
    BY DEF TypeOK
  <2>2. 1 \in DOMAIN fifo /\ Head(fifo) = fifo[1]
    BY <1>1, <2>1
  <2> QED
    BY <2>2 DEF PatientOK, Phases, ParentOK
<1>4. /\ \A q \in Pids \ {g} : proc'[q] = proc[q]
      /\ proc'[g].ppid = proc[g].ppid /\ proc'[g].pend = proc[g].pend
      /\ up => proc'[g].name = proc[g].name
  <2>1. proc[g] \in Process
    BY DEF TypeOK
  <2>2. /\ \A q \in Pids \ {g} : proc'[q] = proc[q]
        /\ \/ proc'[g] = [proc[g] EXCEPT !.paused = ~@]
           \/ /\ Head(fifo).op = "load"
              /\ proc'[g] = [proc[g] EXCEPT !.paused = FALSE, !.name = Head(fifo).song]
    BY DEF MpRead, TypeOK
  <2> QED
    BY <1>3, <2>1, <2>2 DEF Process
<1>5. Grand(g)' /\ ~HandedOn(g)
  BY <1>1, <1>2 DEF Grand, HandedOn
<1>6. ASSUME up, NEW p \in Pids, Kid(p)
      PROVE  /\ shm.child = p /\ OfList(shm.song, proc[p].list)
             /\ FamilyOK(p, g)'
  <2>1. Known(p) /\ p # g /\ proc'[p] = proc[p]
    BY <1>1, <1>4, <1>6 DEF PatientOK, Families, FamilyOK, Kid, Grand
  <2>2. OfList(shm.song, proc[p].list)
    BY <2>1 DEF Known, OfList, TypeOK, Shm, SongOrNone
  <2> QED
    BY <1>1, <1>2, <2>1, <2>2 DEF FamilyOK, Known
<1>7. up => proc'[g].name = shm.song
  BY <1>1, <1>4 DEF PatientOK, Families, GrandOK
<1>8. up => EndOK'
  <2> SUFFICES ASSUME up PROVE EndOK'
    OBVIOUS
  <2>1. ~usr1 /\ ~Updating /\ \A q \in Pids : st[q] # "eol_child"
    BY <1>1, NotEnded DEF PatientOK, Phases
  <2> QED
    BY <1>2, <2>1, NoEnd
<1> QED
  BY <1>1, <1>2, <1>3, <1>4, <1>5, <1>6, <1>7, <1>8, GrandMoves

-----------------------------------------------------------------------------
(* Every step.                                                             *)

(* A command is given, or one that asks for nothing is read.               *)
LEMMA PatientKept ==
  ASSUME PatientOK,
         UNCHANGED <<start, suspend, list, pc, frame, usr1, up, shm, st, proc, fifo>>
  PROVE  PatientOK'
<1>1. Tree'
  BY DEF PatientOK, Tree, Kid, Grand
<1>2. up => Families'
  BY FamiliesKept DEF PatientOK
<1>3. up => ParentOK' /\ StartOK' /\ SilentOK' /\ FetchOK'
  BY DEF PatientOK, Phases, ParentOK, StartOK, SilentOK, FetchOK, Stopping,
         Idle, QuitSent, Nobody, Kid, Grand
<1>4. up => StopOK'
  BY DEF PatientOK, Phases, StopOK, StopStuck, StopGoesOn, Stopping,
         QuitSent, Kid, Grand
<1>5. up => EndOK'
  BY DEF PatientOK, Phases, EndOK, Updating, Kid, Grand, Known
<1> QED
  BY <1>1, <1>2, <1>3, <1>4, <1>5 DEF PatientOK, Phases

(* The commands this user gives.                                           *)
LEMMA PlainCommands ==
  ASSUME PlainUser, Handle
  PROVE  CmdStart \/ CmdStop \/ CmdSuspend \/ CmdContinue \/ CmdIgnored
<1>1. ASSUME NEW c \in {"next", "prev", "circle", "sequence", "singer"}
      PROVE  ~Command(c)
  BY <1>1 DEF Command, PlainUser
<1>2. \A c : ~CmdSkip(c) /\ ~CmdMode(c) /\ \A s : ~CmdSinger(s)
  BY <1>1 DEF CmdSkip, CmdMode, CmdSinger
<1> QED
  BY <1>2 DEF Handle

(* Main or the handler moves while it lives.                               *)
LEMMA ParentLives ==
  ASSUME MainStep \/ Usr1Step
  PROVE  up
<1>1. Handle => up
  BY DEF Handle, CmdStart, CmdStop, CmdSuspend, CmdContinue, CmdIgnored, CmdSkip,
         CmdMode, CmdSinger, Command, Runs
<1> QED
  BY <1>1 DEF MainStep, Usr1Step, Step, FifoOpen, FifoWrite, SetSuspend, WaitPid,
         Fetch, Reply, Begin, SetMode, SkipEnter, SkipLeave, SkipEnd, SkipLost,
         Skipping, DeliverUsr1, UpdateRead, UpdateLeave, Runs

(* The parent.                                                             *)
LEMMA ParentPatient ==
  ASSUME PlainUser, LockInv, PatientOK, MainStep \/ Usr1Step, Handle => Settled
  PROVE  PatientOK'
<1>1. up
  BY ParentLives
<1>2. TypeOK /\ NeverSkips /\ Tree /\ Families /\ Phases
  BY <1>1 DEF LockInv, PatientOK
<1>3. CASE Handle
  <2>1. CASE CmdIgnored
    BY <2>1, PatientKept DEF CmdIgnored, flags, children
  <2>2. CASE CmdStart \/ CmdStop \/ CmdSuspend \/ CmdContinue
    BY <1>1, <1>2, <1>3, <2>2, CmdStartPatient, CmdStopPatient, CmdPausePatient
  <2> QED
    BY <1>3, <2>1, <2>2, PlainCommands
<1>4. ASSUME NEW f \in Contexts, Step(f)
      PROVE  PatientOK'
  <2>1. CASE WaitPid(f)
    BY <1>1, <1>2, <2>1, StopWaitPatient, UpdateWaitPatient DEF Contexts
  <2>2. CASE FifoOpen(f) \/ FifoWrite(f) \/ SetSuspend(f)
    BY <1>1, <1>2, <2>2, FifoOpenPatient, FifoWritePatient, SetSuspendPatient
  <2>3. CASE Fetch(f) \/ Reply(f) \/ Begin(f)
    BY <1>1, <1>2, <2>3, FetchPatient, BeginHandlerPatient
  <2> QED
    BY <1>4, <2>1, <2>2, <2>3 DEF Step
<1>5. ~SetMode /\ ~SkipEnter /\ ~SkipLeave /\ ~SkipEnd /\ ~SkipLost
  BY <1>2 DEF Phases, ParentOK, SetMode, SkipEnter, SkipLeave, SkipEnd, SkipLost, Skipping
<1>6. CASE DeliverUsr1 \/ UpdateRead \/ UpdateLeave
  BY <1>1, <1>2, <1>6, DeliverUsr1Patient, UpdateReadPatient, UpdateLeavePatient
<1> QED
  BY <1>3, <1>4, <1>5, <1>6 DEF MainStep, Usr1Step, Contexts

(* The others.                                                             *)
LEMMA ProcPatient ==
  ASSUME LockInv, PatientOK, NEW p \in Pids, ProcStep(p)
  PROVE  PatientOK'
<1>1. TypeOK
  BY DEF LockInv
<1>2. CASE Deliver(p)
  BY <1>1, <1>2, DeliverPatient
<1>3. CASE ~Doomed(p) /\ ChildStep(p)
  BY <1>1, <1>3, ChildForkPatient, ChildWaitPatient DEF ChildStep
<1>4. CASE GrandStep(p)
  BY <1>1, <1>4, GrandEnterPatient, GrandEndPatient, GrandLeavePatient,
     GrandTellParentPatient, GrandKillsPatient, GrandExecPatient DEF GrandStep
<1>5. CASE MpStep(p)
  BY <1>1, <1>5, GrandExecPatient, MpReadPatient, GrandEndPatient DEF MpStep
<1> QED
  BY <1>2, <1>3, <1>4, <1>5 DEF ProcStep

(* The invariant holds of the processes and of the phase the parent is in  *)
(* together: a stop is safe because the grandchild it finds is the only    *)
(* one, and it is the only one because lists and stops take turns.         *)
LEMMA PatientStep ==
  ASSUME PlainUser, LockInv, PatientOK, [Next]_vars, Handle => Settled
  PROVE  PatientOK'
<1>1. CASE UNCHANGED vars
  BY <1>1, PatientKept DEF vars
<1>2. CASE Ask
  BY <1>2, PatientKept DEF Ask, flags, children
<1>3. CASE MainStep \/ Usr1Step
  BY <1>3, ParentPatient
<1>4. ASSUME NEW p \in Pids, ProcStep(p)
      PROVE  PatientOK'
  BY <1>4, ProcPatient
<1> QED
  BY <1>1, <1>2, <1>3, <1>4 DEF Next

(* What is crossed stays crossed, and what is not was heard in time.       *)
LEMMA HeardInTime ==
  ASSUME [Next]_vars, ~crossed'
  PROVE  ~crossed /\ (Handle => Settled)
<1> USE DEF user
<1>1. \A c : Command(c) => ~crossed /\ Settled
  BY DEF Command
<1>2. Handle => ~crossed /\ Settled
  BY <1>1 DEF Handle, CmdStart, CmdStop, CmdSuspend, CmdContinue, CmdIgnored,
              CmdSkip, CmdMode, CmdSinger
<1>3. ASSUME NEW f, Step(f)
      PROVE  ~crossed
  BY <1>3 DEF Step, FifoOpen, FifoWrite, SetSuspend, WaitPid, Fetch, Reply, Begin
<1>4. CASE MainStep \/ Usr1Step
  BY <1>2, <1>3, <1>4
     DEF MainStep, Usr1Step, SetMode, SkipEnter, SkipLeave, SkipEnd, SkipLost,
         DeliverUsr1, UpdateRead, UpdateLeave
<1>5. ASSUME NEW p, ProcStep(p)
      PROVE  ~crossed
  BY <1>5 DEF ProcStep, Deliver, ChildStep, ChildFork, ChildWait, GrandStep,
              GrandEnter, GrandLost, GrandLeave, GrandTellParent, GrandTellChild,
              GrandExec, GrandExecFails, MpStep, MpOpen, MpRead, MpEnd
<1>6. CASE Ask
  BY <1>2, <1>6 DEF Ask
<1>7. CASE UNCHANGED vars
  <2>1. crossed' = crossed /\ (Handle => ~crossed /\ Settled)
    BY <1>2, <1>7 DEF vars
  <2> QED
    BY <2>1
<1> QED
  BY <1>2, <1>4, <1>5, <1>6, <1>7 DEF Next

(* Nothing plays yet.                                                      *)
LEMMA PatientInit == Init => PatientOK
<1> SUFFICES ASSUME Init PROVE PatientOK
  OBVIOUS
<1>1. \A p \in Pids : ~Kid(p) /\ ~Grand(p) /\ st[p] = "free" /\ proc[p].ppid = Init1
  BY DEF Init, Kid, Grand, Blank
<1>2. Tree /\ Families
  BY <1>1, PidsAssumption DEF Tree, Families
<1>3. /\ pc["main"] = "idle" /\ pc["usr1"] = "idle" /\ frame["main"] = EmptyFrame
      /\ ~usr1 /\ fifo = <<>> /\ start = 0 /\ suspend = 0
  BY DEF Init, Contexts
<1>4. ~Stopping /\ DOMAIN fifo = {}
  BY <1>3 DEF Stopping
<1>5. ParentOK
  BY <1>3, <1>4 DEF ParentOK, EmptyFrame, NoMsg
<1>6. StartOK /\ SilentOK /\ StopOK /\ FetchOK
  BY <1>1, <1>3, <1>4 DEF StartOK, SilentOK, StopOK, FetchOK
<1>7. EndOK
  BY <1>1, <1>3 DEF EndOK, Updating
<1> QED
  BY <1>2, <1>5, <1>6, <1>7 DEF PatientOK, Phases

(* It goes on for as long as no command is overtaken.                      *)
LEMMA PatientAlways ==
  ASSUME PlainUser
  PROVE  SafetySpec => [](LockInv /\ (~crossed => PatientOK))
<1>1. LockInv /\ (~crossed => PatientOK) /\ [Next]_vars => (~crossed => PatientOK)'
  BY PatientStep, HeardInTime
<1>2. SafetySpec => []LockInv
  <2>1. NoSkips
    BY DEF NoSkips, PlainUser
  <2> QED
    BY <2>1, LockAlways
<1> QED
  BY <1>1, <1>2, PatientInit, PTL DEF SafetySpec

-----------------------------------------------------------------------------
(* What the user gets.                                                     *)

(* A set with one element at most.                                         *)
LEMMA AtMostOne ==
  ASSUME NEW S, \A x, y \in S : x = y
  PROVE  IsFiniteSet(S) /\ Cardinality(S) <= 1
<1>1. CASE S = {}
  BY <1>1, FS_EmptySet
<1>2. CASE S # {}
  <2>1. PICK x \in S : S = {x}
    BY <1>2
  <2>2. IsFiniteSet({x}) /\ Cardinality({x}) = 1
    BY FS_Singleton
  <2> QED
    BY <2>1, <2>2
<1> QED
  BY <1>1, <1>2

(* The quits in the FIFO are counted.                                      *)
LEMMA QuitsNat ==
  ASSUME TypeOK
  PROVE  Quits \in Nat /\ IsFiniteSet({i \in DOMAIN fifo : fifo[i].op = "quit"})
<1> DEFINE S == {i \in DOMAIN fifo : fifo[i].op = "quit"}
<1>1. DOMAIN fifo = 1..Len(fifo) /\ Len(fifo) \in Nat
  BY DEF TypeOK
<1>2. IsFiniteSet(1..Len(fifo)) /\ S \in SUBSET (1..Len(fifo))
  BY <1>1, FS_Interval
<1>3. IsFiniteSet(S)
  BY <1>2, FS_Subset
<1> QED
  BY <1>3, FS_CardinalityType DEF Quits

(* One that was sent counts.                                               *)
LEMMA QuitCounted ==
  ASSUME TypeOK, QuitSent
  PROVE  Quits \in Nat /\ Quits >= 1
<1> DEFINE S == {i \in DOMAIN fifo : fifo[i].op = "quit"}
<1>1. S # {} /\ IsFiniteSet(S) /\ Quits \in Nat
  BY QuitsNat DEF QuitSent
<1>2. Cardinality(S) # 0
  BY <1>1, FS_EmptySet
<1> QED
  BY <1>1, <1>2 DEF Quits

(* The children of player.c:198-266 and the parent never have two          *)
(* grandchildren at mplayer, not even while a stop, a new list or a death  *)
(* is under way.                                                           *)
THEOREM OneSongAtATime ==
  ASSUME PlainUser
  PROVE  SafetySpec => []OnePlayer
<1>1. (~crossed => PatientOK) => OnePlayer
  <2> SUFFICES ASSUME PatientOK PROVE OnePlayer
    BY DEF OnePlayer
  <2> DEFINE S == {p \in Pids : st[p] \in {"exec", "boot", "play"}}
  <2>1. \A p, q \in S : p = q
    BY DEF PatientOK, Tree, Grand
  <2>2. Cardinality(S) <= 1
    BY <2>1, AtMostOne
  <2> QED
    BY <2>2 DEF OnePlayer
<1> QED
  BY <1>1, PatientAlways, PTL

(* The song in shared memory, which net.c:63-68 reports to the app, is the *)
(* one mplayer was started with.                                           *)
THEOREM StatusIsTheSong ==
  ASSUME PlainUser
  PROVE  SafetySpec => []StatusNamesTheSong
<1>1. (~crossed => PatientOK) => StatusNamesTheSong
  BY DEF PatientOK, Families, GrandOK, Grand, Sounds, StatusNamesTheSong
<1> QED
  BY <1>1, PatientAlways, PTL

(* After StopPlay (player.c:337-351) the only process that may be left is  *)
(* an mplayer that has its quit to read.                                   *)
THEOREM StopSilences ==
  ASSUME PlainUser
  PROVE  SafetySpec => []StoppedIsSilent
<1>1. LockInv /\ (~crossed => PatientOK) => StoppedIsSilent
  <2> SUFFICES ASSUME TypeOK, PatientOK, up, Idle, start = 0
               PROVE  LET left == {p \in Pids : Alive(p)}
                      IN  /\ \A p \in left : st[p] = "play"
                          /\ Cardinality(left) <= Quits
    BY DEF LockInv, StoppedIsSilent
  <2> DEFINE left == {p \in Pids : Alive(p)}
  <2>1. \A p \in left : Grand(p) /\ st[p] = "play" /\ QuitSent
    <3>1. \A p \in left : Kid(p) \/ Grand(p)
      BY DEF Alive, Kid, Grand, TypeOK, States
    <3> QED
      BY <3>1 DEF PatientOK, Phases, SilentOK
  <2>2. \A p, q \in left : p = q
    BY <2>1 DEF PatientOK, Tree
  <2>3. CASE left = {}
    <3>1. Cardinality(left) = 0
      BY <2>3, FS_EmptySet
    <3> QED
      BY <2>1, <3>1, QuitsNat
  <2>4. CASE left # {}
    <3>1. Quits \in Nat /\ Quits >= 1
      BY <2>1, <2>4, QuitCounted
    <3>2. Cardinality(left) \in Nat /\ Cardinality(left) <= 1
      BY <2>2, AtMostOne, FS_CardinalityType
    <3>3. Cardinality(left) <= Quits
      BY <3>1, <3>2
    <3> QED
      BY <2>1, <3>3
  <2> QED
    BY <2>3, <2>4
<1> QED
  BY <1>1, PatientAlways, PTL

-----------------------------------------------------------------------------
(* The children of the parent: who is signalled and who is reaped.         *)

(* A child of the parent that is not reaped yet.                           *)
Mine(p) == p \in Pids /\ st[p] # "free" /\ proc[p].ppid = Parent
Childless == \A p \in Pids : ~Mine(p)

(* Every waitpid is for the one child there is: StopPlay's for the child   *)
(* it has signalled, the handler's for the child whose list has ended.     *)
ReapOK ==
  up => /\ \A p, q \in Pids : Mine(p) /\ Mine(q) => p = q
        /\ Stopping => Mine(frame["main"].cur.child)
        /\ usr1 \/ pc["usr1"] = "upd_p" => Mine(shm.child)
        /\ pc["usr1"] \in {"upd_v", "wait"} => Mine(frame["usr1"].cur.child)
        /\ pc["usr1"] \in {"fetch", "reply", "begin", "open"} => Childless
        /\ Idle /\ start = 0 => Childless

(* A live child is the parent's.                                           *)
LEMMA KidIsMine ==
  ASSUME up, PatientOK, NEW p \in Pids, Kid(p)
  PROVE  Mine(p)
BY DEF PatientOK, Families, KidOK, Mine, Kid

(* A process that dies is the child of its parent until that waits for it, *)
(* and those it leaves behind are not the parent's.                        *)
LEMMA ExitMine ==
  ASSUME TypeOK, NEW p \in Pids, st[p] # "free", NEW f \in [Pids -> Process],
         \A q \in Pids : f[q].ppid = proc[q].ppid,
         NEW unread, Exit(p, f, unread)
  PROVE  \A q \in Pids : Mine(q)' <=> Mine(q)
<1> SUFFICES ASSUME NEW q \in Pids PROVE Mine(q)' <=> Mine(q)
  OBVIOUS
<1>0. /\ Parent \notin Pids /\ Parent # Init1 /\ Blank.ppid = Init1
      /\ Blank \in Process /\ f[q] \in Process
  BY PidsAssumption, DataTypes DEF Blank
<1>1. /\ st'[q] = IF q = p THEN IF f[q].ppid = Init1 THEN "free" ELSE "zombie"
                  ELSE IF f[q].ppid = p /\ st[q] = "zombie" THEN "free" ELSE st[q]
      /\ proc'[q] = IF st'[q] = "free" THEN Blank
                    ELSE IF q = p THEN [Blank EXCEPT !.ppid = f[q].ppid]
                    ELSE IF f[q].ppid = p THEN [f[q] EXCEPT !.ppid = Init1]
                    ELSE f[q]
  BY DEF Exit
<1>2. CASE q = p
  <2>1. [Blank EXCEPT !.ppid = f[q].ppid].ppid = f[q].ppid
    BY <1>0, Adopted
  <2> QED
    BY <1>0, <1>1, <1>2, <2>1 DEF Mine
<1>3. CASE q # p /\ f[q].ppid = p
  <2>1. [f[q] EXCEPT !.ppid = Init1].ppid = Init1
    BY <1>0, Adopted
  <2> QED
    BY <1>0, <1>1, <1>3, <2>1 DEF Mine
<1>4. CASE q # p /\ f[q].ppid # p
  BY <1>0, <1>1, <1>4 DEF Mine
<1> QED
  BY <1>2, <1>3, <1>4

(* Nobody but the parent makes or reaps children of the parent.            *)
LEMMA ProcMine ==
  ASSUME TypeOK, NEW p \in Pids, ProcStep(p)
  PROVE  \A q \in Pids : Mine(q)' <=> Mine(q)
<1>1. proc \in [Pids -> Process] /\ st \in [Pids -> States]
  BY DEF TypeOK
<1>2. Parent \notin Pids /\ Parent # Init1
  BY PidsAssumption
<1>3. ASSUME UNCHANGED st, \A q \in Pids : proc'[q].ppid = proc[q].ppid
      PROVE  \A q \in Pids : Mine(q)' <=> Mine(q)
  BY <1>3 DEF Mine
<1>4. ASSUME NEW s \in States \ {"free"}, st[p] # "free",
             st' = [st EXCEPT ![p] = s],
             \A q \in Pids : proc'[q].ppid = proc[q].ppid
      PROVE  \A q \in Pids : Mine(q)' <=> Mine(q)
  BY <1>1, <1>4 DEF Mine
<1>5. ASSUME NEW unread, st[p] # "free",
             Exit(p, proc, unread) \/ \E pid : Exit(p, Signal(pid, proc), unread)
      PROVE  \A q \in Pids : Mine(q)' <=> Mine(q)
  <2>1. CASE Exit(p, proc, unread)
    BY <1>1, <1>5, <2>1, ExitMine
  <2>2. ASSUME NEW pid, Exit(p, Signal(pid, proc), unread)
        PROVE  \A q \in Pids : Mine(q)' <=> Mine(q)
    <3>1. /\ Signal(pid, proc) \in [Pids -> Process]
          /\ \A q \in Pids : Signal(pid, proc)[q].ppid = proc[q].ppid
      BY SignalKeeps
    <3> QED
      BY <1>5, <2>2, <3>1, ExitMine
  <2> QED
    BY <1>5, <2>1, <2>2
<1>6. CASE Deliver(p)
  BY <1>5, <1>6 DEF Deliver, Doomed, Alive
<1>7. CASE ChildFork(p)
  <2>1. PICK g \in FreePids :
          /\ st' = [st EXCEPT ![p] = "child_wait", ![g] = "semp"]
          /\ proc' = [proc EXCEPT
               ![p].name = NoSong,
               ![g] = [Blank EXCEPT !.ppid = p, !.name = proc[p].name,
                                    !.blocked = proc[p].blocked,
                                    !.list = proc[p].list]]
    BY <1>7 DEF ChildFork
  <2>2. g \in Pids /\ st[g] = "free" /\ st[p] = "loop" /\ g # p
    BY <1>7, <2>1 DEF FreePids, ChildFork
  <2>3. proc'[g].ppid = p /\ proc'[p].ppid = proc[p].ppid
    BY <1>1, <2>1, <2>2 DEF Blank, Process
  <2>4. \A q \in Pids \ {p, g} : st'[q] = st[q] /\ proc'[q] = proc[q]
    BY <1>1, <2>1, <2>2
  <2>5. st'[p] = "child_wait" /\ st'[g] = "semp"
    BY <1>1, <2>1, <2>2
  <2> QED
    BY <1>2, <2>2, <2>3, <2>4, <2>5 DEF Mine
<1>8. CASE ChildWait(p)
  <2>1. PICK g \in Pids : /\ st[g] = "zombie" /\ proc[g].ppid = p
                          /\ st' = [st EXCEPT ![p] = "loop", ![g] = "free"]
                          /\ proc' = [proc EXCEPT ![g] = Blank]
    BY <1>8 DEF ChildWait
  <2>2. st[p] = "child_wait" /\ g # p /\ Blank.ppid = Init1
    BY <1>8, <2>1 DEF ChildWait, Blank
  <2>3. \A q \in Pids \ {p, g} : st'[q] = st[q] /\ proc'[q] = proc[q]
    BY <1>1, <2>1, <2>2
  <2>4. st'[p] = "loop" /\ st'[g] = "free" /\ proc'[p] = proc[p]
    BY <1>1, <2>1, <2>2
  <2> QED
    BY <1>2, <2>1, <2>2, <2>3, <2>4 DEF Mine
<1>9. CASE GrandEnter(p) \/ GrandLeave(p)
  <2>1. \A q \in Pids : proc'[q].ppid = proc[q].ppid
    BY <1>1, <1>9 DEF GrandEnter, GrandLeave, Process
  <2>2. st[p] \in {"semp", "cs"}
        /\ \E s \in {"eol", "cs", "exec"} : st' = [st EXCEPT ![p] = s]
    BY <1>9 DEF GrandEnter, GrandLeave
  <2>3. {"eol", "cs", "exec"} \subseteq States \ {"free"}
    BY DEF States
  <2> QED
    BY <1>4, <2>1, <2>2, <2>3
<1>10. CASE GrandTellParent(p) \/ GrandExec(p) \/ MpOpen(p)
  <2>1. \A q \in Pids : proc'[q].ppid = proc[q].ppid
    BY <1>1, <1>10 DEF GrandTellParent, GrandExec, MpOpen, Process
  <2>2. st[p] \in {"eol", "exec", "boot"}
        /\ \E s \in {"eol_child", "boot", "play"} : st' = [st EXCEPT ![p] = s]
    BY <1>10 DEF GrandTellParent, GrandExec, MpOpen
  <2>3. {"eol_child", "boot", "play"} \subseteq States \ {"free"}
    BY DEF States
  <2> QED
    BY <1>4, <2>1, <2>2, <2>3
<1>11. CASE GrandLost(p) \/ GrandTellChild(p) \/ GrandExecFails(p)
  BY <1>5, <1>11 DEF GrandLost, GrandTellChild, GrandExecFails
<1>12. CASE MpRead(p) \/ MpEnd(p)
  <2>1. st[p] = "play"
    BY <1>12 DEF MpRead, MpEnd
  <2>2. CASE \E unread : Exit(p, proc, unread)
    BY <1>5, <2>1, <2>2
  <2>3. CASE ~\E unread : Exit(p, proc, unread)
    <3>1. UNCHANGED st
      BY <1>12, <2>3 DEF MpRead, MpEnd
    <3>2. \A q \in Pids : proc'[q].ppid = proc[q].ppid
      BY <1>1, <1>12, <2>3 DEF MpRead, MpEnd, Process
    <3> QED
      BY <1>3, <3>1, <3>2
  <2> QED
    BY <2>2, <2>3
<1> QED
  BY <1>6, <1>7, <1>8, <1>9, <1>10, <1>11, <1>12
     DEF ProcStep, ChildStep, GrandStep, MpStep

-----------------------------------------------------------------------------
(* The parent's steps.                                                     *)

(* Main goes on while the handler does not run.                            *)
LEMMA MainReap ==
  ASSUME up, ReapOK, \A q \in Pids : Mine(q)' <=> Mine(q), UNCHANGED shm,
         ~usr1', pc'["usr1"] = "idle",
         Stopping' => Mine(frame'["main"].cur.child),
         Idle' /\ start' = 0 => Childless
  PROVE  ReapOK'
BY DEF ReapOK, Mine, Childless

(* The handler goes on; it does not touch what main is waiting for.        *)
LEMMA HandlerReap ==
  ASSUME up, ReapOK, \A q \in Pids : Mine(q)' <=> Mine(q), UNCHANGED shm,
         Stopping' <=> Stopping, frame'["main"] = frame["main"],
         pc'["usr1"] # "idle",
         usr1' \/ pc'["usr1"] = "upd_p" => Mine(shm.child),
         pc'["usr1"] \in {"upd_v", "wait"} => Mine(frame'["usr1"].cur.child),
         pc'["usr1"] \in {"fetch", "reply", "begin", "open"} => Childless
  PROVE  ReapOK'
BY DEF ReapOK, Mine, Childless, Idle

(* A first child.                                                          *)
LEMMA ForkReap ==
  ASSUME TypeOK, Childless, NEW f \in Contexts, PlayMusic(f),
         ~usr1', pc'["usr1"] = "idle", start' = 1, ~Stopping'
  PROVE  ReapOK'
<1>1. PICK c \in FreePids : Fork(c, <<list, 1>>, Parent, f = "usr1", list, "loop")
  BY DEF PlayMusic
<1>2. \A q \in Pids \ {c} : st'[q] = st[q] /\ proc'[q] = proc[q]
  BY <1>1 DEF Fork, TypeOK
<1>3. \A q \in Pids : Mine(q)' => q = c
  BY <1>2 DEF Childless, Mine
<1> QED
  BY <1>3 DEF ReapOK, Mine

(* StartPlay, in main and in the handler.                                  *)
LEMMA StartReap ==
  ASSUME TypeOK, up, ReapOK, ~usr1, ~Stopping, NEW f \in Contexts, StartPlay(f),
         \/ f = "main" /\ Idle
         \/ f = "usr1" /\ pc["usr1"] = "begin" /\ start = 0
  PROVE  ReapOK'
<1> USE DEF flags, children
<1>1. start = 0 => Childless
  BY DEF ReapOK
<1>2. CASE /\ Resumes
           /\ WriteFifo(f, Pause, "resumed", "idle", frame[f].cur, NoSinger)
           /\ UNCHANGED <<flags, usr1, up, shm, kernel, children, fifo>>
  <2>1. \A q \in Pids : Mine(q)' <=> Mine(q)
    BY <1>2 DEF Mine
  <2>2. pc'[f] = "open" /\ \A g \in Contexts : g # f => /\ pc'[g] = pc[g]
                                                       /\ frame'[g] = frame[g]
    BY <1>2 DEF WriteFifo, Jump, TypeOK
  <2>3. f = "main" => frame'["main"].then = "resumed"
    BY <1>2 DEF WriteFifo, TypeOK
  <2>4. CASE f = "main"
    <3>1. ~Stopping' /\ ~Idle' /\ pc'["usr1"] = "idle"
      BY <2>2, <2>3, <2>4 DEF Stopping, Idle, Contexts
    <3> QED
      BY <1>2, <2>1, <3>1, MainReap
  <2>5. CASE f = "usr1"
    <3>1. /\ pc'["usr1"] = "open" /\ pc'["main"] = pc["main"]
          /\ frame'["main"] = frame["main"]
      BY <2>2, <2>5 DEF Contexts
    <3>2. (Stopping' <=> Stopping) /\ Childless
      BY <1>1, <2>5, <3>1 DEF Stopping
    <3> QED
      BY <1>2, <2>1, <3>1, <3>2, HandlerReap
  <2> QED
    BY <2>4, <2>5
<1>3. CASE /\ ~Resumes /\ start = 1
           /\ Return(f)
           /\ UNCHANGED <<flags, usr1, up, shm, kernel, children, fifo>>
  <2>1. \A q \in Pids : Mine(q)' <=> Mine(q)
    BY <1>3 DEF Mine
  <2>2. f = "main" /\ pc'["main"] = "idle" /\ pc'["usr1"] = "idle"
    BY <1>3 DEF Return, Jump, TypeOK, Contexts, Idle
  <2> QED
    BY <1>3, <2>1, <2>2, MainReap DEF Stopping
<1>4. CASE /\ ~Resumes /\ start = 0 /\ list # NoSinger
           /\ PlayMusic(f)
           /\ start' = 1
           /\ Return(f)
           /\ UNCHANGED <<suspend, list, usr1, up, shm, kernel, fifo>>
  <2>1. /\ pc'["usr1"] = "idle"
        /\ f = "main" => pc'["main"] = "idle"
        /\ f = "usr1" => pc'["main"] = pc["main"] /\ frame'["main"] = frame["main"]
    BY <1>4 DEF Return, Jump, TypeOK, Contexts, Idle
  <2>2. ~Stopping'
    BY <2>1 DEF Stopping, Contexts
  <2> QED
    BY <1>1, <1>4, <2>1, <2>2, ForkReap
<1>5. CASE Crash
  BY <1>5 DEF Crash, ReapOK
<1> QED
  BY <1>2, <1>3, <1>4, <1>5 DEF StartPlay

(* The child that a stop in time is for is the one in shared memory.       *)
LEMMA StopMeetsChild ==
  ASSUME up, PatientOK, CmdStop, Settled
  PROVE  Mine(shm.child)
<1>1. start = 1 /\ Readers # {}
  BY DEF CmdStop, Settled
<1>2. PICK g \in Pids : st[g] = "play"
  BY <1>1 DEF Readers
<1>3. Grand(g) /\ Sounds(g)
  BY <1>2 DEF Grand, Sounds
<1>4. PICK c \in Pids : Kid(c)
  BY <1>1, <1>3 DEF PatientOK, Families, GrandOK, Steady
<1>5. shm.child = c
  BY <1>3, <1>4 DEF PatientOK, Families, FamilyOK, Known
<1> QED
  BY <1>4, <1>5, KidIsMine

(* The commands that are read in time.                                     *)
LEMMA HandleReap ==
  ASSUME LockInv, PatientOK, ReapOK, up, Settled,
         CmdStart \/ CmdStop \/ CmdSuspend \/ CmdContinue
  PROVE  ReapOK'
<1> USE DEF flags, children
<1>0. TypeOK
  BY DEF LockInv
<1>1. Idle /\ ~usr1 /\ ~Stopping /\ pc["usr1"] = "idle"
  BY DEF CmdStart, CmdStop, CmdSuspend, CmdContinue, Command, Runs, Idle, Stopping
<1>2. CASE CmdStart
  BY <1>0, <1>1, <1>2, StartReap DEF CmdStart, Contexts
<1>3. CASE CmdStop
  <2>1. Mine(shm.child) /\ shm.child # Group
    BY <1>3, StopMeetsChild, PidsAssumption DEF Mine
  <2>2. \A q \in Pids : proc'[q].ppid = proc[q].ppid
    BY <1>0, <1>3, SignalKeeps DEF CmdStop, StopPlay
  <2>3. UNCHANGED <<st, shm>> /\ ~usr1'
    BY <1>1, <1>3, <2>1 DEF CmdStop, StopPlay
  <2>4. \A q \in Pids : Mine(q)' <=> Mine(q)
    BY <2>2, <2>3 DEF Mine
  <2>5. /\ pc'["main"] = "open" /\ pc'["usr1"] = "idle"
        /\ frame'["main"].cur = shm
    BY <1>0, <1>1, <1>3 DEF CmdStop, StopPlay, WriteFifo, Jump, TypeOK, Contexts
  <2> QED
    BY <2>1, <2>3, <2>4, <2>5, MainReap DEF Idle
<1>4. CASE CmdSuspend \/ CmdContinue
  <2>1. PICK then \in {"suspended", "resumed"} :
          WriteFifo("main", Pause, then, "idle", InitShm, NoSinger)
    BY <1>4 DEF CmdSuspend, CmdContinue
  <2>2. UNCHANGED <<usr1, shm, st, proc>>
    BY <1>4 DEF CmdSuspend, CmdContinue
  <2>3. \A q \in Pids : Mine(q)' <=> Mine(q)
    BY <2>2 DEF Mine
  <2>4. /\ pc'["main"] = "open" /\ pc'["usr1"] = "idle"
        /\ frame'["main"].then = then
    BY <1>0, <1>1, <2>1 DEF WriteFifo, Jump, TypeOK, Contexts
  <2> QED
    BY <1>1, <2>2, <2>3, <2>4, MainReap DEF Idle, Stopping
<1> QED
  BY <1>2, <1>3, <1>4

(* A command goes through the FIFO.                                        *)
LEMMA FifoReap ==
  ASSUME TypeOK, up, PatientOK, ReapOK, NEW f \in Contexts,
         FifoOpen(f) \/ FifoWrite(f) \/ SetSuspend(f)
  PROVE  ReapOK'
<1> USE DEF flags, children
<1>1. f = "main" /\ pc["usr1"] = "idle" /\ ~usr1
  BY DEF FifoOpen, FifoWrite, SetSuspend, Contexts, Readers, Runs, PatientOK,
         Phases, ParentOK, FetchOK, Nobody, Grand
<1>2. CASE Crash
  BY <1>2 DEF Crash, ReapOK
<1>3. CASE ~Crash
  <2>1. UNCHANGED <<start, usr1, shm, st, proc>>
    BY <1>3 DEF FifoOpen, FifoWrite, SetSuspend
  <2>2. \A q \in Pids : Mine(q)' <=> Mine(q)
    BY <2>1 DEF Mine
  <2>3. CASE FifoOpen(f)
    <3>1. /\ pc'["main"] = "write" /\ pc'["usr1"] = "idle" /\ UNCHANGED frame
          /\ pc["main"] = "open"
      BY <1>1, <2>3 DEF FifoOpen, Jump, TypeOK, Contexts
    <3>2. Stopping' => Stopping
      BY <3>1 DEF Stopping
    <3>3. Stopping => Mine(frame["main"].cur.child)
      BY DEF ReapOK
    <3> QED
      BY <1>1, <2>1, <2>2, <3>1, <3>2, <3>3, MainReap DEF Idle
  <2>4. CASE FifoWrite(f)
    <3>1. /\ pc["main"] = "write" /\ pc'["main"] = frame["main"].then
          /\ frame["main"].then \in {"suspended", "resumed", "wait"}
          /\ pc'["usr1"] = "idle" /\ UNCHANGED frame
      BY <1>1, <1>3, <2>4
         DEF FifoWrite, Jump, TypeOK, Contexts, PatientOK, Phases, ParentOK
    <3>2. Stopping' => Stopping
      BY <3>1 DEF Stopping
    <3>3. Stopping => Mine(frame["main"].cur.child)
      BY DEF ReapOK
    <3> QED
      BY <1>1, <2>1, <2>2, <3>1, <3>2, <3>3, MainReap DEF Idle
  <2>5. CASE SetSuspend(f)
    <3>1. /\ pc["main"] \in {"suspended", "resumed"}
          /\ pc'["main"] = "idle" /\ pc'["usr1"] = "idle"
      BY <1>1, <2>5 DEF SetSuspend, Return, Jump, TypeOK, Contexts
    <3>2. start = 1
      BY <1>1, <3>1 DEF PatientOK, Phases, StartOK, Stopping
    <3> QED
      BY <1>1, <2>1, <2>2, <3>1, <3>2, MainReap DEF Stopping
  <2> QED
    BY <2>3, <2>4, <2>5
<1> QED
  BY <1>2, <1>3

(* waitpid() returns with the only child there was.                        *)
LEMMA WaitReap ==
  ASSUME LockInv, up, PatientOK, ReapOK, NEW f \in Contexts, WaitPid(f)
  PROVE  ReapOK'
<1> DEFINE c == frame[f].cur.child
<1>0. TypeOK
  BY DEF LockInv
<1>1. UNCHANGED <<start, usr1, up, shm>>
  BY DEF WaitPid, flags
<1>2. /\ pc[f] = "wait"
      /\ f = "main" => pc["usr1"] = "idle" /\ ~usr1
  BY DEF WaitPid, Runs
<1>3. Mine(c) /\ \A q \in Pids : Mine(q) => q = c
  BY <1>2 DEF ReapOK, Stopping, Contexts, Mine
<1>4. Awaited(c) = {c}
  BY <1>3, PidsAssumption DEF Awaited, Mine
<1>5. /\ st[c] = "zombie"
      /\ st' = [st EXCEPT ![c] = "free"] /\ proc' = [proc EXCEPT ![c] = Blank]
  BY <1>4 DEF WaitPid
<1>6. Childless'
  <2>1. \A q \in Pids : q # c => st'[q] = st[q] /\ proc'[q] = proc[q]
    BY <1>0, <1>5 DEF TypeOK
  <2>2. st'[c] = "free"
    BY <1>0, <1>3, <1>5 DEF TypeOK, Mine
  <2> QED
    BY <1>3, <2>1, <2>2 DEF Childless, Mine
<1>7. CASE f = "main"
  <2>1. frame["main"].after = "idle"
    BY <1>2, <1>7 DEF PatientOK, Phases, ParentOK, Stopping
  <2>2. pc'["main"] = "idle" /\ pc'["usr1"] = "idle"
    BY <1>0, <1>2, <1>7, <2>1 DEF WaitPid, Return, Jump, TypeOK, Contexts
  <2> QED
    BY <1>1, <1>2, <1>6, <1>7, <2>2 DEF ReapOK, Childless, Stopping
<1>8. CASE f = "usr1"
  <2>1. pc["usr1"] = "wait" /\ frame["usr1"].after = "fetch"
    BY <1>2, <1>8 DEF PatientOK, Phases, ParentOK
  <2>2. pc'["main"] = pc["main"] /\ pc'["usr1"] = "fetch" /\ UNCHANGED frame
    BY <1>0, <1>8, <2>1 DEF WaitPid, Jump, TypeOK, Contexts
  <2>3. \A p \in Pids : ~Kid(p)
    <3>1. \A p \in Pids : Kid(p) => p = c
      BY <1>3, KidIsMine
    <3> QED
      BY <1>5, <3>1 DEF Kid
  <2>4. ~Stopping /\ ~usr1
    BY <2>1, <2>3 DEF PatientOK, Phases, StopOK, StopStuck, StopGoesOn, EndOK
  <2>5. ~Stopping'
    BY <2>2, <2>4 DEF Stopping
  <2> QED
    BY <1>1, <1>6, <2>2, <2>4, <2>5 DEF ReapOK, Childless, Idle
<1> QED
  BY <1>7, <1>8 DEF Contexts

(* The handler from the signal to the next list.                           *)
LEMMA UpdateReap ==
  ASSUME LockInv, up, PatientOK, ReapOK,
         \/ DeliverUsr1 \/ UpdateRead \/ UpdateLeave
         \/ \E f \in Contexts : Fetch(f) \/ Reply(f) \/ Begin(f)
  PROVE  ReapOK'
<1> USE DEF flags, children
<1>0. TypeOK
  BY DEF LockInv
<1>1. CASE DeliverUsr1
  <2>1. UNCHANGED <<frame, shm, st, proc>> /\ usr1 /\ ~usr1'
    BY <1>1 DEF DeliverUsr1
  <2>2. pc'["main"] = pc["main"] /\ pc'["usr1"] = "upd_p"
    BY <1>1 DEF DeliverUsr1, PatientOK, Phases, ParentOK
  <2>3. (Stopping' <=> Stopping) /\ \A q \in Pids : Mine(q)' <=> Mine(q)
    BY <2>1, <2>2 DEF Stopping, Mine
  <2>4. Mine(shm.child)
    BY <2>1 DEF ReapOK
  <2> QED
    BY <2>1, <2>2, <2>3, <2>4, HandlerReap
<1>2. CASE UpdateRead
  <2>1. UNCHANGED <<usr1, shm, st, proc>> /\ pc["usr1"] = "upd_p"
    BY <1>2 DEF UpdateRead
  <2>2. /\ pc'["main"] = pc["main"] /\ pc'["usr1"] = "upd_v"
        /\ frame'["main"] = frame["main"] /\ frame'["usr1"].cur = shm
    BY <1>0, <1>2 DEF UpdateRead, Jump, TypeOK, Contexts, Frame
  <2>3. (Stopping' <=> Stopping) /\ \A q \in Pids : Mine(q)' <=> Mine(q)
    BY <2>1, <2>2 DEF Stopping, Mine
  <2>4. Mine(shm.child)
    BY <2>1 DEF ReapOK
  <2> QED
    BY <2>1, <2>2, <2>3, <2>4, HandlerReap
<1>3. CASE UpdateLeave
  <2>1. UNCHANGED <<usr1, shm, st, proc>> /\ pc["usr1"] = "upd_v"
    BY <1>3 DEF UpdateLeave
  <2>2. /\ pc'["main"] = pc["main"] /\ pc'["usr1"] = "wait"
        /\ frame'["main"] = frame["main"]
        /\ frame'["usr1"].cur = frame["usr1"].cur
    BY <1>0, <1>3 DEF UpdateLeave, Jump, TypeOK, Contexts, Frame
  <2>3. (Stopping' <=> Stopping) /\ \A q \in Pids : Mine(q)' <=> Mine(q)
    BY <2>1, <2>2 DEF Stopping, Mine
  <2>4. Mine(frame["usr1"].cur.child) /\ (usr1 => Mine(shm.child))
    BY <2>1 DEF ReapOK
  <2> QED
    BY <2>1, <2>2, <2>3, <2>4, HandlerReap
<1>4. ASSUME NEW f \in Contexts, Fetch(f) \/ Reply(f) \/ Begin(f)
      PROVE  ReapOK'
  <2>1. f = "usr1" /\ pc["usr1"] \in {"fetch", "reply", "begin"}
    BY <1>4 DEF Fetch, Reply, Begin, Contexts, PatientOK, Phases, ParentOK
  <2>2. ~Stopping /\ ~usr1 /\ start = 0 /\ Childless
    BY <2>1, FetchAlone DEF PatientOK, ReapOK
  <2>3. CASE Fetch(f) \/ Reply(f)
    <3>1. UNCHANGED <<frame, usr1, shm, st, proc>>
      BY <2>3 DEF Fetch, Reply, PatientOK, Phases, ParentOK
    <3>2. pc'["main"] = pc["main"] /\ pc'["usr1"] \in {"reply", "begin"}
      BY <1>0, <2>1, <2>3 DEF Fetch, Reply, Jump, TypeOK, Contexts
    <3>3. (Stopping' <=> Stopping) /\ \A q \in Pids : Mine(q)' <=> Mine(q)
      BY <3>1, <3>2 DEF Stopping, Mine
    <3> QED
      BY <2>2, <3>1, <3>2, <3>3, HandlerReap
  <2>4. CASE Begin(f)
    BY <1>0, <2>1, <2>2, <2>4, StartReap DEF Begin
  <2> QED
    BY <1>4, <2>3, <2>4
<1> QED
  BY <1>1, <1>2, <1>3, <1>4

(* The steps of the others: the handler is told of the end of a list by a  *)
(* grandchild whose child is the one in shared memory, and the pid there   *)
(* changes only while the list goes on.                                    *)
LEMMA ProcReap ==
  ASSUME LockInv, PatientOK, ReapOK, NEW p \in Pids, ProcStep(p)
  PROVE  ReapOK'
<1>0. TypeOK
  BY DEF LockInv
<1>1. \A q \in Pids : Mine(q)' <=> Mine(q)
  BY <1>0, ProcMine
<1>2. UNCHANGED <<start, pc, frame, up>>
  BY DEF ProcStep, Deliver, ChildStep, ChildFork, ChildWait, GrandStep, GrandEnter,
         GrandLost, GrandLeave, GrandTellParent, GrandTellChild, GrandExec,
         GrandExecFails, MpStep, MpOpen, MpRead, MpEnd, flags
<1>3. SUFFICES ASSUME up PROVE ReapOK'
  BY <1>2 DEF ReapOK
<1>4. ASSUME NEW c \in Pids, Kid(c), Grand(p), st[p] \in {"eol", "eol_child", "exec"}
      PROVE  proc[p].loc.child = c /\ Mine(c) /\ (st[p] = "eol" => shm.child = c)
  BY <1>3, <1>4, KidIsMine DEF PatientOK, Families, FamilyOK, Known
<1>5. ASSUME Grand(p), st[p] \in {"eol", "eol_child", "exec"}
      PROVE  proc[p].loc.child # Group /\ (st[p] = "eol" => Mine(shm.child))
  <2>1. PICK c \in Pids : Kid(c)
    BY <1>3, <1>5 DEF PatientOK, Families, GrandOK, Steady
  <2> QED
    BY <1>4, <1>5, <2>1, PidsAssumption
<1>6. CASE UNCHANGED <<usr1, shm>>
  BY <1>1, <1>2, <1>6 DEF ReapOK, Mine, Childless, Stopping, Idle
<1>7. CASE GrandLeave(p)
  <2>1. Grand(p) /\ st[p] = "cs" /\ UNCHANGED usr1
    BY <1>7 DEF GrandLeave, Grand, flags
  <2>2. ~usr1 /\ ~Updating
    BY <1>3, <2>1, NotEnded DEF PatientOK, Phases
  <2> QED
    BY <1>1, <1>2, <2>1, <2>2 DEF ReapOK, Mine, Childless, Stopping, Idle, Updating
<1>8. CASE GrandTellParent(p)
  <2>1. Grand(p) /\ st[p] = "eol" /\ UNCHANGED shm
    BY <1>8 DEF GrandTellParent, Grand
  <2>2. Mine(shm.child)
    BY <1>5, <2>1
  <2> QED
    BY <1>1, <1>2, <2>1, <2>2 DEF ReapOK, Mine, Childless, Stopping, Idle
<1>9. CASE GrandTellChild(p) \/ GrandExecFails(p)
  <2>1. Grand(p) /\ st[p] \in {"eol_child", "exec"}
    BY <1>9 DEF GrandTellChild, GrandExecFails, Grand
  <2>2. proc[p].loc.child # Group
    BY <1>5, <2>1
  <2>3. UNCHANGED <<usr1, shm>>
    BY <1>0, <1>9, <2>2 DEF GrandTellChild, GrandExecFails, TypeOK
  <2> QED
    BY <1>6, <2>3
<1>10. CASE \/ Deliver(p) \/ ChildStep(p) \/ MpStep(p)
            \/ GrandEnter(p) \/ GrandLost(p) \/ GrandExec(p)
  <2>1. UNCHANGED <<usr1, shm>>
    BY <1>10 DEF Deliver, ChildStep, ChildFork, ChildWait, MpStep, MpOpen, MpRead, MpEnd,
                 GrandEnter, GrandLost, GrandExec, flags
  <2> QED
    BY <1>6, <2>1
<1> QED
  BY <1>7, <1>8, <1>9, <1>10 DEF ProcStep, GrandStep

(* The invariant holds with PatientOK, which says who is alive when.       *)
LEMMA ReapStep ==
  ASSUME PlainUser, LockInv, PatientOK, ReapOK, [Next]_vars, Handle => Settled
  PROVE  ReapOK'
<1>1. CASE Ask \/ CmdIgnored \/ UNCHANGED vars
  <2>1. UNCHANGED <<start, pc, frame, usr1, up, shm, st, proc>>
    BY <1>1 DEF Ask, CmdIgnored, vars, flags, children
  <2> QED
    BY <2>1 DEF ReapOK, Mine, Childless, Stopping, Idle
<1>2. CASE MainStep \/ Usr1Step
  <2>1. up
    BY <1>2, ParentLives
  <2>2. ~SetMode /\ ~SkipEnter /\ ~SkipLeave /\ ~SkipEnd /\ ~SkipLost
    BY <2>1 DEF PatientOK, Phases, ParentOK, SetMode, SkipEnter, SkipLeave, SkipEnd,
                SkipLost, Skipping
  <2>3. ASSUME NEW f \in Contexts, Step(f)
        PROVE  ReapOK'
    BY <2>1, <2>3, FifoReap, WaitReap, UpdateReap DEF Step, LockInv
  <2>4. CASE DeliverUsr1 \/ UpdateRead \/ UpdateLeave
    BY <2>1, <2>4, UpdateReap
  <2>5. CASE Handle
    BY <1>1, <2>1, <2>5, PlainCommands, HandleReap
  <2> QED
    BY <1>2, <2>2, <2>3, <2>4, <2>5 DEF MainStep, Usr1Step, Contexts
<1>3. ASSUME NEW p \in Pids, ProcStep(p)
      PROVE  ReapOK'
  BY <1>3, ProcReap
<1> QED
  BY <1>1, <1>2, <1>3 DEF Next

(* Both invariants hold for as long as no command is overtaken.            *)
LEMMA ReapAlways ==
  ASSUME PlainUser
  PROVE  SafetySpec => [](~crossed => ReapOK)
<1>1. Init => ReapOK
  BY DEF Init, ReapOK, Mine, Childless, Stopping, Idle, Contexts
<1>2. /\ LockInv /\ (~crossed => PatientOK) /\ (~crossed => ReapOK)
      /\ [Next]_vars
      => (~crossed => ReapOK)'
  BY ReapStep, HeardInTime
<1>3. SafetySpec => [](LockInv /\ (~crossed => PatientOK))
  BY PatientAlways
<1> QED
  BY <1>1, <1>2, <1>3, PTL DEF SafetySpec

(* No zombie is left of a list or a stop: each of the two places that wait *)
(* (player.c:283 and 350) waits for the child that is ending.              *)
THEOREM ChildrenAreReaped ==
  ASSUME PlainUser
  PROVE  SafetySpec => []NoChildLeft
<1>1. (~crossed => ReapOK) => NoChildLeft
  BY DEF ReapOK, Childless, Mine, NoChildLeft
<1> QED
  BY <1>1, ReapAlways, PTL


-----------------------------------------------------------------------------
(* The songs and their order.                                              *)

(* A signal that a list has ended is on its way, or the handler runs.      *)
Hearing == usr1 \/ pc["usr1"] # "idle"

(* A child that shared memory does not name yet has its first song to      *)
(* publish; one that it names goes on from the song it finds there. Only   *)
(* the latter is ever signalled.                                           *)
OrderOK == up => \A p \in Pids : Kid(p) =>
  /\ proc[p].pend => p = shm.child
  /\ p # shm.child =>
       /\ proc[p].name = NoSong \/ proc[p].name[2] = 1
       /\ \A g \in Pids : HandedOn(g) => proc[g].name[2] = 1
  /\ p = shm.child =>
       /\ proc[p].name = NoSong
       /\ \A g \in Pids :
            /\ st[g] = "semp" => proc[g].name = NoSong
            /\ st[g] = "cs" => /\ shm.song \in Song /\ shm.song[2] < NumSongs
                               /\ proc[g].name = <<shm.song[1], shm.song[2] + 1>>

OrderGoesOn == (~crossed => OrderOK)' /\ [Songs!Next]_<<shm.song, Phase>>

(* What the playlist sees of a parent whose commands are read in time.     *)
LEMMA PhaseIs ==
  ASSUME ~crossed, up
  PROVE  Phase = IF Hearing \/ \E p \in Pids : Kid(p) /\ p # shm.child THEN "begins"
                 ELSE IF \E p \in Pids : Kid(p) THEN "plays" ELSE "stopped"
BY DEF Phase, Hearing, ForkedAnew, Kid

(* A crash: nothing is promised any more.                                  *)
LEMMA GivenUp ==
  ASSUME ~up'
  PROVE  OrderGoesOn
<1>1. Phase' = "lost" /\ OrderOK'
  BY DEF Phase, OrderOK
<1> QED
  BY <1>1 DEF OrderGoesOn, Songs!Next, Songs!GiveUp

(* Most steps tell the listener nothing.                                   *)
LEMMA Unheard ==
  ASSUME OrderOK, ~crossed, ~crossed', up, up', UNCHANGED shm,
         Hearing' <=> Hearing,
         \A p \in Pids : /\ Kid(p)' <=> Kid(p)
                         /\ Kid(p) => /\ proc'[p].name = proc[p].name
                                      /\ proc'[p].pend => proc[p].pend \/ p = shm.child,
         \A g \in Pids : st'[g] \in {"semp", "cs"} =>
                           st'[g] = st[g] /\ proc'[g].name = proc[g].name
  PROVE  OrderGoesOn
<1>1. OrderOK'
  BY DEF OrderOK, HandedOn
<1>2. Phase' = Phase
  BY DEF Phase, Hearing, ForkedAnew, Kid
<1> QED
  BY <1>1, <1>2 DEF OrderGoesOn

(* A process dies that is not the child, and may signal it first.          *)
LEMMA ExitUnheard ==
  ASSUME TypeOK, OrderOK, ~crossed, ~crossed', up, UNCHANGED <<up, shm, usr1, pc>>,
         NEW g \in Pids, ~Kid(g), NEW f \in [Pids -> Process],
         \A q \in Pids : /\ Kept(f[q], proc[q])
                         /\ f[q].pend => proc[q].pend \/ q = shm.child,
         NEW unread, Exit(g, f, unread)
  PROVE  OrderGoesOn
<1>1. \A q \in Pids : Kid(q)' \/ Grand(q)' =>
        /\ st'[q] = st[q] /\ proc'[q].name = proc[q].name
        /\ proc'[q].pend => proc[q].pend \/ q = shm.child
  BY ExitKeeps DEF Kept
<1>2. \A q \in Pids : Kid(q) => Kid(q)'
  BY DEF Exit, Kid, TypeOK
<1>3. \A q \in Pids : Kid(q)' <=> Kid(q)
  BY <1>1, <1>2 DEF Kid
<1>4. \A q \in Pids : st'[q] \in {"semp", "cs"} =>
                        st'[q] = st[q] /\ proc'[q].name = proc[q].name
  BY <1>1 DEF Grand
<1>5. Hearing' <=> Hearing
  BY DEF Hearing
<1> QED
  BY <1>1, <1>3, <1>4, <1>5, Unheard

(* StartPlay: a list begins, or the music goes on.                         *)
LEMMA StartHeard ==
  ASSUME TypeOK, OrderOK, ~crossed, ~crossed', up, NEW f \in Contexts, StartPlay(f),
         f = "main" => pc["usr1"] = "idle",
         f = "usr1" => pc["usr1"] # "idle" /\ start = 0 /\ ~usr1,
         start = 0 => \A p \in Pids : ~Kid(p) /\ ~HandedOn(p)
  PROVE  OrderGoesOn
<1> USE DEF flags, children
<1>1. CASE /\ Resumes
           /\ WriteFifo(f, Pause, "resumed", "idle", frame[f].cur, NoSinger)
           /\ UNCHANGED <<flags, usr1, up, shm, kernel, children, fifo>>
  <2>1. UNCHANGED <<st, proc, usr1, up, shm>>
    BY <1>1
  <2>2. Hearing' <=> Hearing
    BY <1>1 DEF WriteFifo, Jump, TypeOK, Contexts, Hearing
  <2> QED
    BY <2>1, <2>2, Unheard DEF Kid
<1>2. CASE /\ ~Resumes /\ start = 1
           /\ Return(f)
           /\ UNCHANGED <<flags, usr1, up, shm, kernel, children, fifo>>
  <2>1. UNCHANGED <<st, proc, usr1, up, shm>>
    BY <1>2
  <2>2. Hearing' <=> Hearing
    BY <1>2 DEF Return, Jump, TypeOK, Contexts, Hearing
  <2> QED
    BY <2>1, <2>2, Unheard DEF Kid
<1>3. CASE /\ ~Resumes /\ start = 0 /\ list # NoSinger
           /\ PlayMusic(f)
           /\ start' = 1
           /\ Return(f)
           /\ UNCHANGED <<suspend, list, usr1, up, shm, kernel, fifo>>
  <2>1. PICK c \in FreePids : Fork(c, <<list, 1>>, Parent, f = "usr1", list, "loop")
    BY <1>3 DEF PlayMusic
  <2>2. c \in Pids /\ c # shm.child
    BY DEF FreePids, Remembered
  <2>3. \A q \in Pids : /\ st'[q] = IF q = c THEN "loop" ELSE st[q]
                        /\ q # c => proc'[q] = proc[q]
    BY <2>1 DEF Fork, TypeOK
  <2>4. proc'[c].name = <<list, 1>> /\ ~proc'[c].pend
    BY <2>1, <2>2 DEF Fork, TypeOK, Blank
  <2>5. \A q \in Pids : (Kid(q)' <=> q = c) /\ ~HandedOn(q)'
    BY <1>3, <2>3 DEF Kid, HandedOn
  <2>6. OrderOK'
    BY <1>3, <2>2, <2>4, <2>5 DEF OrderOK
  <2>7. Phase' = "begins"
    BY <1>3, <2>2, <2>5 DEF Phase, ForkedAnew, Kid
  <2>8. Phase = IF f = "usr1" \/ usr1 THEN "begins" ELSE "stopped"
    BY <1>3, PhaseIs DEF Hearing, Contexts
  <2> QED
    BY <1>3, <2>6, <2>7, <2>8 DEF OrderGoesOn, Songs!Next, Songs!Begin
<1>4. CASE Crash
  BY <1>4, GivenUp DEF Crash
<1> QED
  BY <1>1, <1>2, <1>3, <1>4 DEF StartPlay

(* The commands that are read in time. A stop signals the child that       *)
(* shared memory names.                                                    *)
LEMMA HandleHeard ==
  ASSUME TypeOK, PatientOK, OrderOK, ~crossed, ~crossed', up, Settled,
         CmdStart \/ CmdStop \/ CmdSuspend \/ CmdContinue
  PROVE  OrderGoesOn
<1> USE DEF flags, children
<1>1. pc["usr1"] = "idle" /\ ~usr1
  BY DEF CmdStart, CmdStop, CmdSuspend, CmdContinue, Command, Runs
<1>2. CASE CmdStart
  <2>1. start = 0 => \A p \in Pids : ~Kid(p) /\ ~HandedOn(p)
    BY DEF Settled, Alive, Kid, HandedOn
  <2> QED
    BY <1>1, <1>2, <2>1, StartHeard DEF CmdStart, Contexts
<1>3. CASE CmdStop
  <2>1. Mine(shm.child) /\ shm.child # Group
    BY <1>3, StopMeetsChild, PidsAssumption DEF Mine
  <2>2. proc' = Signal(shm.child, proc) /\ UNCHANGED <<st, shm, up>> /\ ~usr1'
    BY <1>1, <1>3, <2>1 DEF CmdStop, StopPlay
  <2>3. \A q \in Pids : /\ proc'[q].name = proc[q].name
                        /\ proc'[q].pend => proc[q].pend \/ q = shm.child
    <3>1. \A q \in Pids : proc'[q].name = proc[q].name
      BY <2>2, SignalKeeps DEF Kept
    <3>2. \A q \in Pids : q # shm.child => proc'[q] = proc[q]
      BY <2>1, <2>2 DEF Signal
    <3> QED
      BY <3>1, <3>2
  <2>4. Hearing' <=> Hearing
    BY <1>1, <1>3, <2>2 DEF Hearing, CmdStop, StopPlay, WriteFifo, Jump, TypeOK, Contexts
  <2> QED
    BY <2>2, <2>3, <2>4, Unheard DEF Kid
<1>4. CASE CmdSuspend \/ CmdContinue
  <2>1. UNCHANGED <<usr1, up, shm, st, proc>>
    BY <1>4 DEF CmdSuspend, CmdContinue
  <2>2. Hearing' <=> Hearing
    BY <1>1, <1>4, <2>1
       DEF Hearing, CmdSuspend, CmdContinue, WriteFifo, Jump, TypeOK, Contexts
  <2> QED
    BY <2>1, <2>2, Unheard DEF Kid
<1> QED
  BY <1>2, <1>3, <1>4

(* The parent's other steps: the handler is heard from its signal to the   *)
(* child it forks.                                                         *)
LEMMA ParentHeard ==
  ASSUME TypeOK, PatientOK, OrderOK, ~crossed, ~crossed', up, NEW f \in Contexts,
         \/ FifoOpen(f) \/ FifoWrite(f) \/ SetSuspend(f) \/ WaitPid(f)
         \/ Fetch(f) \/ Reply(f) \/ Begin(f)
         \/ DeliverUsr1 \/ UpdateRead \/ UpdateLeave
  PROVE  OrderGoesOn
<1> USE DEF flags, children
<1>1. CASE Crash
  BY <1>1, GivenUp DEF Crash
<1>2. CASE ~Crash /\ (FifoOpen(f) \/ FifoWrite(f) \/ SetSuspend(f))
  <2>1. f = "main"
    BY <1>2 DEF FifoOpen, FifoWrite, SetSuspend, Contexts, Readers, Runs, PatientOK,
           Phases, ParentOK, FetchOK, Nobody, Grand
  <2>2. UNCHANGED <<usr1, up, shm, st, proc>>
    BY <1>2 DEF FifoOpen, FifoWrite, SetSuspend
  <2>3. pc'["usr1"] = pc["usr1"]
    BY <1>2, <2>1 DEF FifoOpen, FifoWrite, SetSuspend, Return, Jump, TypeOK, Contexts
  <2> QED
    BY <2>2, <2>3, Unheard DEF Hearing, Kid
<1>3. CASE WaitPid(f)
  <2>1. UNCHANGED <<usr1, up, shm>>
    BY <1>3 DEF WaitPid
  <2>2. \A q \in Pids : \/ st'[q] = st[q] /\ proc'[q] = proc[q]
                        \/ st[q] = "zombie" /\ st'[q] = "free"
    BY <1>3 DEF WaitPid, Awaited, TypeOK
  <2>3. (pc["usr1"] = "idle" <=> pc'["usr1"] = "idle")
    <3>1. f = "usr1" => pc["usr1"] = "wait" /\ frame["usr1"].after = "fetch"
      BY <1>3 DEF WaitPid, PatientOK, Phases, ParentOK
    <3> QED
      BY <1>3, <3>1 DEF WaitPid, Return, Jump, TypeOK, Contexts
  <2> QED
    BY <2>1, <2>2, <2>3, Unheard DEF Hearing, Kid
<1>4. CASE Fetch(f) \/ Reply(f) \/ Begin(f)
  <2>1. f = "usr1" /\ pc["usr1"] \in {"fetch", "reply", "begin"}
    BY <1>4 DEF Fetch, Reply, Begin, Contexts, PatientOK, Phases, ParentOK
  <2>2. ~usr1 /\ start = 0 /\ \A p \in Pids : ~Kid(p) /\ ~HandedOn(p)
    BY <2>1, FetchAlone DEF PatientOK, Nobody, HandedOn, Grand
  <2>3. CASE Fetch(f) \/ Reply(f)
    <3>1. UNCHANGED <<usr1, up, shm, st, proc>> /\ pc'["usr1"] \in {"reply", "begin"}
      BY <2>1, <2>3 DEF Fetch, Reply, Jump, TypeOK, Contexts
    <3> QED
      BY <2>1, <3>1, Unheard DEF Hearing, Kid
  <2>4. CASE Begin(f)
    BY <2>1, <2>2, <2>4, StartHeard DEF Begin
  <2> QED
    BY <1>4, <2>3, <2>4
<1>5. CASE DeliverUsr1 \/ UpdateRead \/ UpdateLeave
  <2>0. pc'["usr1"] \in {"upd_p", "upd_v", "wait"}
    <3>1. CASE DeliverUsr1
      BY <3>1 DEF DeliverUsr1
    <3>2. CASE UpdateRead \/ UpdateLeave
      BY <3>2 DEF UpdateRead, UpdateLeave, Jump, TypeOK, Contexts
    <3> QED
      BY <1>5, <3>1, <3>2
  <2>1. UNCHANGED <<up, shm, st, proc>> /\ pc'["usr1"] # "idle"
    BY <1>5, <2>0 DEF DeliverUsr1, UpdateRead, UpdateLeave
  <2>2. Hearing /\ Hearing'
    BY <1>5, <2>1 DEF Hearing, DeliverUsr1, UpdateRead, UpdateLeave
  <2> QED
    BY <2>1, <2>2, Unheard DEF Kid
<1> QED
  BY <1>1, <1>2, <1>3, <1>4, <1>5

(* The child forks, waits, and dies of its signal.                         *)
LEMMA ChildHeard ==
  ASSUME TypeOK, PatientOK, OrderOK, ~crossed, ~crossed', up,
         NEW c \in Pids, ChildFork(c) \/ ChildWait(c) \/ Deliver(c)
  PROVE  OrderGoesOn
<1>0. UNCHANGED <<up, shm, usr1, pc>>
  BY DEF ChildFork, ChildWait, Deliver
<1>1. UNCHANGED <<up, shm, usr1, pc>> /\ (Hearing' <=> Hearing)
  BY <1>0 DEF Hearing
<1>2. CASE ChildFork(c)
  <2>1. PICK g \in FreePids :
          /\ st' = [st EXCEPT ![c] = "child_wait", ![g] = "semp"]
          /\ proc' = [proc EXCEPT
               ![c].name = NoSong,
               ![g] = [Blank EXCEPT !.ppid = c, !.name = proc[c].name,
                                    !.blocked = proc[c].blocked,
                                    !.list = proc[c].list]]
    BY <1>2 DEF ChildFork
  <2>2. g \in Pids /\ st[g] = "free" /\ st[c] = "loop"
    BY <1>2 DEF FreePids, ChildFork
  <2>3. \A q \in Pids : (Kid(q) <=> q = c) /\ ~Grand(q)
    BY <2>2, ForkAlone DEF PatientOK
  <2>4. \A q \in Pids : st'[q] = IF q = g THEN "semp"
                                 ELSE IF q = c THEN "child_wait" ELSE st[q]
    BY <2>1, <2>2 DEF TypeOK
  <2>5. proc'[c].name = NoSong /\ proc'[c].pend = proc[c].pend
    <3>1. proc[c] \in Process /\ c # g
      BY <2>2 DEF TypeOK
    <3>2. proc'[c] = [proc[c] EXCEPT !.name = NoSong]
      BY <2>1, <3>1 DEF TypeOK
    <3> QED
      BY <3>1, <3>2 DEF Process
  <2>6. proc'[g].name = proc[c].name
    BY <2>1, <2>2 DEF TypeOK, Blank
  <2>7. \A q \in Pids : (Kid(q)' <=> q = c) /\ (Grand(q)' <=> q = g)
    BY <2>2, <2>3, <2>4 DEF Kid, Grand
  <2>8. proc[c].name = NoSong => shm.child = c
    <3>1. \A q \in Pids : ~HandedOn(q)
      BY <2>3 DEF HandedOn, Grand
    <3> QED
      BY <2>3, <3>1 DEF PatientOK, Families, KidOK, Known
  <2>9. OrderOK'
    BY <1>1, <2>3, <2>4, <2>5, <2>6, <2>7, <2>8 DEF OrderOK, HandedOn, Grand
  <2>10. Phase' = Phase
    BY <1>1, <2>3, <2>7 DEF Phase, ForkedAnew, Kid
  <2> QED
    BY <1>1, <2>9, <2>10 DEF OrderGoesOn
<1>3. CASE ChildWait(c)
  <2>1. PICK g \in Pids : /\ st[c] = "child_wait" /\ st[g] = "zombie"
                          /\ st' = [st EXCEPT ![c] = "loop", ![g] = "free"]
                          /\ proc' = [proc EXCEPT ![g] = Blank]
    BY <1>3 DEF ChildWait
  <2>2. \A q \in Pids : /\ st'[q] = IF q = g THEN "free"
                                    ELSE IF q = c THEN "loop" ELSE st[q]
                        /\ q # g => proc'[q] = proc[q]
    BY <2>1 DEF TypeOK
  <2>3. ASSUME NEW q \in Pids
        PROVE  /\ Kid(q)' <=> Kid(q)
               /\ Kid(q) => q # g
               /\ st'[q] \in {"semp", "cs"} => st'[q] = st[q] /\ q # g
    <3>1. st[c] = "child_wait" /\ st[g] = "zombie"
      BY <2>1
    <3>2. CASE q = g
      BY <2>2, <3>1, <3>2 DEF Kid
    <3>3. CASE q # g
      BY <2>2, <3>1, <3>3 DEF Kid
    <3> QED
      BY <3>2, <3>3
  <2> QED
    BY <1>1, <2>2, <2>3, Unheard
<1>4. CASE Deliver(c)
  <2>1. Doomed(c) /\ Exit(c, proc, fifo) /\ proc \in [Pids -> Process]
    BY <1>4 DEF Deliver, TypeOK
  <2>2. Kid(c) \/ Grand(c)
    BY <2>1 DEF Doomed, Alive, Kid, Grand, TypeOK, States
  <2>3. Kid(c)
    BY <2>1, <2>2 DEF PatientOK, Families, GrandOK, Doomed
  <2>4. c = shm.child /\ \A q \in Pids : Kid(q) => q = c
    BY <2>1, <2>3 DEF OrderOK, Doomed, PatientOK, Tree
  <2>5. \A q \in Pids : Kid(q)' => Kid(q) /\ q # c
    BY <2>1, ExitKeeps DEF Kid, Kept
  <2>6. \A q \in Pids : ~Kid(q)'
    BY <2>4, <2>5
  <2>7. OrderOK' /\ Phase' = IF Hearing THEN "begins" ELSE "stopped"
    BY <1>1, <2>6 DEF OrderOK, Phase, ForkedAnew, Kid, Hearing
  <2>8. Phase = IF Hearing THEN "begins" ELSE "plays"
    BY <2>3, <2>4, PhaseIs
  <2> QED
    BY <1>1, <2>7, <2>8 DEF OrderGoesOn, Songs!Next, Songs!Stop
<1> QED
  BY <1>2, <1>3, <1>4

(* The grandchild looks its song up, unless the child has handed it on.    *)
LEMMA EnterHeard ==
  ASSUME TypeOK, PatientOK, OrderOK, ~crossed, ~crossed', up,
         NEW g \in Pids, GrandEnter(g)
  PROVE  OrderGoesOn
<1> DEFINE next == FindNextMusic(shm.song, proc[g].list)
<1>1. st[g] = "semp" /\ Grand(g) /\ proc[g] \in Process
  BY DEF GrandEnter, Grand, TypeOK
<1>2. UNCHANGED <<pc, usr1, up, shm>>
  BY DEF GrandEnter
<1>3. PICK p \in Pids : Kid(p)
  BY <1>1 DEF PatientOK, Families, GrandOK, Steady
<1>4. /\ KidOK(p) /\ FamilyOK(p, g) /\ proc[g].ppid = p /\ p # g
      /\ \A q \in Pids : (Kid(q) => q = p) /\ (Grand(q) => q = g)
  BY <1>1, <1>3 DEF PatientOK, Tree, Families, Kid, Grand
<1>5. \A q \in Pids \ {g} : st'[q] = st[q] /\ proc'[q] = proc[q]
  BY DEF GrandEnter, TypeOK
<1>6. \/ st'[g] = "eol"
      \/ /\ st'[g] = "cs" /\ Wanted(g) /\ ~IsLast(shm.song)
         /\ proc'[g].name = next
      \/ st'[g] = "cs" /\ ~Wanted(g) /\ proc'[g].name = proc[g].name
  <2>1. CASE st' = [st EXCEPT ![g] = "eol"]
    BY <2>1 DEF TypeOK
  <2>2. CASE /\ Wanted(g) /\ ~IsLast(shm.song)
             /\ st' = [st EXCEPT ![g] = "cs"]
             /\ proc' = [proc EXCEPT ![g].loc = shm, ![g].name = next]
    <3>1. proc'[g] = [proc[g] EXCEPT !.loc = shm, !.name = next]
      BY <2>2 DEF TypeOK
    <3> QED
      BY <1>1, <2>2, <3>1 DEF TypeOK, Process
  <2>3. CASE ~Wanted(g) /\ st' = [st EXCEPT ![g] = "cs"]
             /\ proc' = [proc EXCEPT ![g].loc = shm]
    <3>1. proc'[g] = [proc[g] EXCEPT !.loc = shm]
      BY <2>3 DEF TypeOK
    <3> QED
      BY <1>1, <2>3, <3>1 DEF TypeOK, Process
  <2> QED
    BY <2>1, <2>2, <2>3 DEF GrandEnter
<1>7. \A q \in Pids : /\ Kid(q)' <=> q = p
                      /\ HandedOn(q)' => q = g
                      /\ st'[q] \in {"semp", "cs"} => q = g
  BY <1>1, <1>3, <1>4, <1>5, <1>6 DEF Kid, Grand, HandedOn
<1>8. Wanted(g) => Known(p)
  <2>1. st[p] = "child_wait"
    BY <1>4 DEF PatientOK, Tree
  <2>2. Wanted(g) => \A q \in Pids : ~HandedOn(q)
    BY <1>1, <1>4 DEF Wanted, HandedOn, Grand
  <2> QED
    BY <1>4, <2>1, <2>2 DEF KidOK
<1>9. ASSUME p # shm.child PROVE OrderOK'
  <2>1. ~Wanted(g) /\ HandedOn(g)
    BY <1>1, <1>8, <1>9 DEF Known, HandedOn, Wanted
  <2>2. st'[g] = "cs" => proc'[g].name[2] = 1
    BY <1>3, <1>6, <1>9, <2>1 DEF OrderOK
  <2> QED
    BY <1>2, <1>3, <1>4, <1>5, <1>6, <1>7, <1>9, <2>2 DEF OrderOK, HandedOn
<1>10. ASSUME p = shm.child PROVE OrderOK'
  <2>1. Wanted(g) /\ Known(p)
    BY <1>1, <1>3, <1>8, <1>10 DEF OrderOK, Wanted
  <2>2. shm.song \in Song /\ shm.song[1] = proc[g].list
    <3>1. shm.song \in SongOrNone
      BY DEF TypeOK, Shm
    <3> QED
      BY <1>1, <1>4, <2>1, <3>1 DEF Known, FamilyOK, SongOrNone
  <2>3. shm.song[2] \in 1..NumSongs /\ Index(shm.song) = shm.song[2]
    BY <2>1, <2>2 DEF Song, Index, Known
  <2>4. next = <<shm.song[1], shm.song[2] + 1>>
    BY <2>2, <2>3 DEF FindNextMusic
  <2>5. ~IsLast(shm.song) => shm.song[2] < NumSongs
    BY <2>3, NumSongsAssumption DEF IsLast
  <2>6. st'[g] = "cs" => /\ shm.song[2] < NumSongs
                         /\ proc'[g].name = <<shm.song[1], shm.song[2] + 1>>
    BY <1>6, <2>1, <2>4, <2>5
  <2>7. st'[g] # "semp" /\ proc'[p] = proc[p]
    BY <1>4, <1>5, <1>6
  <2> QED
    BY <1>2, <1>3, <1>7, <1>10, <2>2, <2>6, <2>7 DEF OrderOK
<1>11. Phase' = Phase
  BY <1>2, <1>3, <1>4, <1>7 DEF Phase, ForkedAnew, Kid
<1>12. OrderOK'
  BY <1>9, <1>10
<1> QED
  BY <1>2, <1>11, <1>12 DEF OrderGoesOn

(* It publishes the song: the first of a list, or the next.                *)
LEMMA LeaveHeard ==
  ASSUME TypeOK, PatientOK, OrderOK, ~crossed, ~crossed', up,
         NEW g \in Pids, GrandLeave(g)
  PROVE  OrderGoesOn
<1>1. st[g] = "cs" /\ Grand(g)
  BY DEF GrandLeave, Grand
<1>2. UNCHANGED <<pc, usr1, up>>
  BY DEF GrandLeave
<1>3. /\ st'[g] = "exec"
      /\ \A q \in Pids \ {g} : st'[q] = st[q] /\ proc'[q] = proc[q]
  BY DEF GrandLeave, TypeOK
<1>4. PICK p \in Pids : Kid(p)
  BY <1>1 DEF PatientOK, Families, GrandOK, Steady
<1>5. /\ KidOK(p) /\ FamilyOK(p, g) /\ proc[g].ppid = p /\ p # g
      /\ \A q \in Pids : (Kid(q) => q = p) /\ (Grand(q) => q = g)
  BY <1>1, <1>4 DEF PatientOK, Tree, Families, Kid, Grand
<1>6. shm'.song = proc[g].name /\ shm'.child = p
  <2>1. proc[g].loc \in Shm
    BY DEF TypeOK, Process
  <2> QED
    BY <1>5, <2>1 DEF GrandLeave, Published, Shm
<1>7. ~Hearing /\ ~Hearing'
  <2>1. ~usr1 /\ ~Updating
    BY <1>1, NotEnded DEF PatientOK, Phases
  <2>2. pc["usr1"] = "idle"
    BY <1>1, <2>1 DEF PatientOK, Phases, ParentOK, FetchOK, Nobody, Updating
  <2> QED
    BY <1>2, <2>1, <2>2 DEF Hearing
<1>8. \A q \in Pids : (Kid(q)' <=> q = p) /\ st'[q] \notin {"semp", "cs"}
  BY <1>1, <1>3, <1>4, <1>5 DEF Kid, Grand
<1>9. proc'[p] = proc[p] /\ proc[p].name = NoSong
  <2>1. st[p] = "child_wait"
    BY <1>5 DEF PatientOK, Tree
  <2> QED
    BY <1>3, <1>5, <2>1 DEF KidOK
<1>10. OrderOK'
  BY <1>6, <1>8, <1>9 DEF OrderOK
<1>11. Phase' = "plays"
  BY <1>2, <1>6, <1>7, <1>8 DEF Phase, ForkedAnew, Kid, Hearing
<1>12. Phase = IF p # shm.child THEN "begins" ELSE "plays"
  BY <1>4, <1>5, <1>7, PhaseIs
<1>13. CASE p # shm.child
  <2>1. proc[g].name \in Song /\ proc[g].name[2] = 1
    BY <1>1, <1>4, <1>5, <1>13 DEF OrderOK, HandedOn, FamilyOK, OfList
  <2>2. \E s \in Singers : proc[g].name = <<s, 1>>
    BY <2>1 DEF Song
  <2> QED
    BY <1>6, <1>10, <1>11, <1>12, <1>13, <2>2 DEF OrderGoesOn, Songs!Next, Songs!First
<1>14. CASE p = shm.child
  <2>1. /\ shm.song[2] < NumSongs
        /\ proc[g].name = <<shm.song[1], shm.song[2] + 1>>
    BY <1>1, <1>4, <1>14 DEF OrderOK
  <2> QED
    BY <1>6, <1>10, <1>11, <1>12, <1>14, <2>1 DEF OrderGoesOn, Songs!Next, Songs!Advance
<1> QED
  BY <1>13, <1>14

(* It has found the last song in shared memory.                            *)
LEMMA TellHeard ==
  ASSUME TypeOK, PatientOK, OrderOK, ~crossed, ~crossed', up,
         NEW g \in Pids, GrandTellParent(g)
  PROVE  OrderGoesOn
<1>1. st[g] = "eol" /\ Grand(g)
  BY DEF GrandTellParent, Grand
<1>2. UNCHANGED <<pc, up, shm, proc>> /\ usr1'
  BY DEF GrandTellParent
<1>3. /\ st'[g] = "eol_child"
      /\ \A q \in Pids \ {g} : st'[q] = st[q]
  BY DEF GrandTellParent, TypeOK
<1>4. \A q \in Pids : /\ Kid(q)' <=> Kid(q)
                      /\ st'[q] \in {"semp", "cs"} => st'[q] = st[q]
  BY <1>1, <1>3 DEF Kid
<1>5. CASE Hearing
  <2>1. Hearing' <=> Hearing
    BY <1>2, <1>5 DEF Hearing
  <2> QED
    BY <1>2, <1>4, <2>1, Unheard
<1>6. CASE ~Hearing
  <2>1. PICK p \in Pids : Kid(p)
    BY <1>1 DEF PatientOK, Families, GrandOK, Steady
  <2>2. Known(p) /\ IsLast(shm.song) /\ \A q \in Pids : Kid(q) => q = p
    BY <1>1, <2>1 DEF PatientOK, Tree, Families, FamilyOK
  <2>3. Phase = "plays"
    BY <1>6, <2>1, <2>2, PhaseIs DEF Known
  <2>4. shm.song[2] = NumSongs
    BY <2>2 DEF Known, IsLast, Index
  <2>5. Phase' = "begins"
    BY <1>2 DEF Phase
  <2>6. OrderOK'
    BY <1>2, <1>4 DEF OrderOK, HandedOn
  <2> QED
    BY <1>2, <2>3, <2>4, <2>5, <2>6 DEF OrderGoesOn, Songs!Next, Songs!Begin
<1> QED
  BY <1>5, <1>6

(* The rest of a grandchild's life: the child is the only one it signals.  *)
LEMMA GrandHeard ==
  ASSUME TypeOK, PatientOK, OrderOK, ~crossed, ~crossed', up,
         NEW g \in Pids, GrandStep(g) \/ MpStep(g)
  PROVE  OrderGoesOn
<1>1. CASE GrandEnter(g) \/ GrandLeave(g) \/ GrandTellParent(g)
  BY <1>1, EnterHeard, LeaveHeard, TellHeard
<1>2. CASE GrandExec(g) \/ MpOpen(g)
  <2>1. UNCHANGED <<up, shm, usr1, pc>> /\ st[g] \in {"exec", "boot"}
    BY <1>2 DEF GrandExec, MpOpen
  <2>2. /\ st'[g] \in {"boot", "play"}
        /\ \A q \in Pids \ {g} : st'[q] = st[q] /\ proc'[q] = proc[q]
    BY <1>2 DEF GrandExec, MpOpen, TypeOK
  <2> QED
    BY <2>1, <2>2, Unheard DEF Hearing, Kid
<1>3. CASE MpRead(g) /\ Head(fifo).op # "quit"
  <2>1. UNCHANGED <<up, shm, usr1, pc, st>> /\ st[g] = "play"
    BY <1>3 DEF MpRead
  <2>2. \A q \in Pids \ {g} : proc'[q] = proc[q]
    BY <1>3 DEF MpRead, TypeOK
  <2> QED
    BY <2>1, <2>2, Unheard DEF Hearing, Kid
<1>4. ASSUME ~Kid(g), NEW unread, Exit(g, proc, unread),
             UNCHANGED <<up, shm, usr1, pc>>
      PROVE  OrderGoesOn
  BY <1>4, ExitUnheard DEF TypeOK, Kept
<1>5. CASE GrandLost(g) \/ MpEnd(g) \/ (MpRead(g) /\ Head(fifo).op = "quit")
  BY <1>4, <1>5 DEF GrandLost, MpEnd, MpRead, Kid
<1>6. CASE GrandTellChild(g) \/ GrandExecFails(g)
  <2>1. st[g] \in {"eol_child", "exec"} /\ Grand(g) /\ ~Kid(g)
    BY <1>6 DEF GrandTellChild, GrandExecFails, Grand, Kid
  <2>2. PICK p \in Pids : Kid(p)
    BY <2>1 DEF PatientOK, Families, GrandOK, Steady
  <2>3. proc[g].loc.child = p /\ shm.child = p /\ p # Group
    BY <2>1, <2>2, PidsAssumption DEF PatientOK, Families, FamilyOK, Known, Sounds
  <2> DEFINE f == Signal(p, proc)
  <2>4. Exit(g, f, fifo) /\ UNCHANGED <<up, shm, usr1, pc>>
    BY <1>6, <2>3 DEF GrandTellChild, GrandExecFails, TypeOK
  <2>5. /\ f \in [Pids -> Process]
        /\ \A q \in Pids : /\ Kept(f[q], proc[q])
                           /\ f[q].pend => proc[q].pend \/ q = shm.child
    <3>1. f \in [Pids -> Process] /\ \A q \in Pids : Kept(f[q], proc[q])
      BY SignalKeeps
    <3>2. \A q \in Pids : q # p => f[q] = proc[q]
      BY <2>3 DEF Signal
    <3> QED
      BY <2>3, <3>1, <3>2
  <2> QED
    BY <2>1, <2>4, <2>5, ExitUnheard
<1> QED
  BY <1>1, <1>2, <1>3, <1>5, <1>6 DEF GrandStep, MpStep

(* Every step the listener can tell from another one is a step of the      *)
(* playlist.                                                               *)
LEMMA OrderStep ==
  ASSUME PlainUser, LockInv, [Next]_vars,
         ~crossed => PatientOK /\ OrderOK
  PROVE  OrderGoesOn
<1>1. CASE crossed \/ crossed' \/ ~up'
  <2>1. crossed' \/ ~up'
    BY <1>1, HeardInTime
  <2>2. Phase' = "lost"
    BY <2>1 DEF Phase
  <2>3. (~crossed => OrderOK)'
    BY <2>1 DEF OrderOK
  <2> QED
    BY <2>2, <2>3 DEF OrderGoesOn, Songs!Next, Songs!GiveUp
<1>2. CASE ~crossed /\ ~crossed' /\ up'
  <2>1. TypeOK /\ PatientOK /\ OrderOK /\ (Handle => Settled)
    BY <1>2, HeardInTime DEF LockInv
  <2>2. CASE Ask \/ CmdIgnored \/ UNCHANGED vars
    <3>1. UNCHANGED <<up, shm, usr1, pc, st, proc>>
      BY <2>2 DEF Ask, CmdIgnored, vars, children
    <3>2. Hearing' <=> Hearing
      BY <3>1 DEF Hearing
    <3> QED
      BY <1>2, <2>1, <3>1, <3>2, Unheard DEF Kid
  <2>3. CASE MainStep \/ Usr1Step
    <3>1. up
      BY <2>3, ParentLives
    <3>2. ~SetMode /\ ~SkipEnter /\ ~SkipLeave /\ ~SkipEnd /\ ~SkipLost
      BY <2>1, <3>1 DEF PatientOK, Phases, ParentOK, SetMode, SkipEnter, SkipLeave,
                        SkipEnd, SkipLost, Skipping
    <3>3. ASSUME NEW f \in Contexts,
                 Step(f) \/ DeliverUsr1 \/ UpdateRead \/ UpdateLeave
          PROVE  OrderGoesOn
      BY <1>2, <2>1, <3>1, <3>3, ParentHeard DEF Step
    <3>4. CASE Handle
      BY <1>2, <2>1, <2>2, <3>1, <3>4, PlainCommands, HandleHeard
    <3> QED
      BY <2>3, <3>2, <3>3, <3>4 DEF MainStep, Usr1Step, Contexts
  <2>4. ASSUME NEW p \in Pids, ProcStep(p)
        PROVE  OrderGoesOn
    <3>1. up
      BY <1>2, <2>4 DEF ProcStep, Deliver, ChildStep, ChildFork, ChildWait, GrandStep,
           GrandEnter, GrandLost, GrandLeave, GrandTellParent, GrandTellChild,
           GrandExec, GrandExecFails, MpStep, MpOpen, MpRead, MpEnd
    <3> QED
      BY <1>2, <2>1, <2>4, <3>1, ChildHeard, GrandHeard DEF ProcStep, ChildStep
  <2> QED
    BY <2>2, <2>3, <2>4 DEF Next
<1> QED
  BY <1>1, <1>2

(* Nothing plays and no song is published.                                 *)
LEMMA OrderInit == Init => OrderOK /\ Songs!Init
<1> SUFFICES ASSUME Init PROVE OrderOK /\ Songs!Init
  OBVIOUS
<1>1. \A p \in Pids : st[p] = "free"
  BY DEF Init
<1>2. Phase = "stopped" /\ shm.song = <<NoSinger, 0>>
  BY <1>1 DEF Init, Phase, ForkedAnew, Contexts, InitShm, NoSong
<1> QED
  BY <1>1, <1>2 DEF OrderOK, Kid, Songs!Init

(* The children of player.c:198-266 play a list from its first song to its *)
(* last and begin again after it or after a stop: the player implements    *)
(* Playlist, although every song is looked up by another process in what   *)
(* the one before it has left in shared memory.                            *)
THEOREM ListsAreInOrder ==
  ASSUME PlainUser
  PROVE  SafetySpec => SongsInOrder
<1>1. /\ LockInv /\ (~crossed => PatientOK) /\ (~crossed => OrderOK)
      /\ [Next]_vars
      => (~crossed => OrderOK)' /\ [Songs!Next]_<<shm.song, Phase>>
  BY OrderStep DEF OrderGoesOn
<1>2. SafetySpec => [](LockInv /\ (~crossed => PatientOK))
  BY PatientAlways
<1> QED
  BY <1>1, <1>2, OrderInit, PTL DEF SafetySpec, SongsInOrder, Songs!Spec

=============================================================================
