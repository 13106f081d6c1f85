--------------------------- MODULE PlaybackProofs ---------------------------
(***************************************************************************)
(* What holds of Playback for any number of processes, singers, songs and  *)
(* commands.                                                               *)
(***************************************************************************)
EXTENDS Playback, TLAPS

-----------------------------------------------------------------------------
(* The constants and the helpers are well typed.                           *)

(* The initial values belong to their types.                               *)
LEMMA DataTypes ==
  /\ NoSong \in SongOrNone /\ InitShm \in Shm /\ NoMsg \in Msg
  /\ EmptyFrame \in Frame /\ Blank \in Process
  /\ Pause \in Msg /\ Quit \in Msg
<1>1. NoSong \in SongOrNone
  BY DEF NoSong, SongOrNone
<1>2. InitShm \in Shm
  BY <1>1 DEF InitShm, Shm, PidValue
<1>3. NoMsg \in Msg
  BY <1>1 DEF NoMsg, Msg
<1>4. EmptyFrame \in Frame
  BY <1>2, <1>3 DEF EmptyFrame, Frame, Labels, ListOrNull
<1>5. Blank \in Process
  BY <1>1, <1>2 DEF Blank, Process, PidValue, ListOrNull
<1>6. Pause \in Msg /\ Quit \in Msg
  BY <1>3 DEF Pause, Quit, Msg, NoMsg
<1> QED
  BY <1>1, <1>2, <1>3, <1>4, <1>5, <1>6

(* FindNextMusic stays inside the list when there is a next song.          *)
LEMMA NextSong ==
  ASSUME NEW song \in SongOrNone, NEW l \in ListOrNull,
         IsIn(song, l), ~IsLast(song)
  PROVE  FindNextMusic(song, l) \in Song
<1>1. l \in Singers
  BY DEF IsIn, ListOrNull
<1>2. Index(song) \in 1..NumSongs
  BY NumSongsAssumption DEF SongOrNone, Song, Index
<1>3. Index(song) + 1 \in 1..NumSongs
  BY <1>2, NumSongsAssumption DEF IsLast
<1> QED
  BY <1>1, <1>3 DEF FindNextMusic, Song

(* FindPrevMusic never leaves the list.                                    *)
LEMMA PrevSong ==
  ASSUME NEW song \in SongOrNone, NEW l \in ListOrNull, IsIn(song, l)
  PROVE  FindPrevMusic(song, l) \in Song
<1>1. l \in Singers
  BY DEF IsIn, ListOrNull
<1>2. Index(song) \in 1..NumSongs
  BY NumSongsAssumption DEF SongOrNone, Song, Index
<1> QED
  BY <1>1, <1>2, NumSongsAssumption DEF FindPrevMusic, Song

(* The first song of a list is a song.                                     *)
LEMMA FirstSong ==
  ASSUME NEW l \in Singers
  PROVE  <<l, 1>> \in Song
BY NumSongsAssumption DEF Song

-----------------------------------------------------------------------------
(* The kernel keeps the types.                                             *)

(* kill() only marks processes.                                            *)
LEMMA SignalType ==
  ASSUME NEW pid, NEW f \in [Pids -> Process]
  PROVE  Signal(pid, f) \in [Pids -> Process]
BY DEF Signal, Process

(* SemP and SemV leave a natural number in the semaphore.                  *)
LEMMA SemType ==
  ASSUME TypeOK, NEW p \in Pids \union {Parent}, SemP(p) \/ SemV(p)
  PROVE  sem' \in Nat /\ adj' \in [Pids \union {Parent} -> Int]
BY DEF TypeOK, SemP, SemV

(* The end of a process leaves all it touches well typed.                  *)
LEMMA ExitType ==
  ASSUME TypeOK, NEW p \in Pids \union {Parent}, NEW f \in [Pids -> Process],
         NEW unread \in Seq(Msg), Exit(p, f, unread)
  PROVE  /\ sem' \in Nat /\ adj' \in [Pids \union {Parent} -> Int]
         /\ st' \in [Pids -> States] /\ proc' \in [Pids -> Process]
         /\ fifo' \in Seq(Msg)
<1>1. sem' \in Nat /\ adj' \in [Pids \union {Parent} -> Int]
  <2>1. adj[p] \in Int /\ sem \in Nat
    BY DEF TypeOK
  <2> QED
    BY <2>1 DEF TypeOK, Exit, Undone
<1>2. st' \in [Pids -> States]
  BY DEF TypeOK, Exit, States
<1>3. proc' \in [Pids -> Process]
  <2>1. ASSUME NEW q \in Pids
        PROVE  /\ [Blank EXCEPT !.ppid = f[q].ppid] \in Process
               /\ [f[q] EXCEPT !.ppid = Init1] \in Process
    BY DataTypes DEF Process, PidValue
  <2> QED
    BY <2>1, DataTypes DEF Exit
<1>4. fifo' \in Seq(Msg)
  <2>1. <<>> \in Seq(Msg)
    OBVIOUS
  <2> QED
    BY <2>1 DEF Exit
<1> QED
  BY <1>1, <1>2, <1>3, <1>4

(* What is known of the user keeps its types.                              *)
UserTyped == asked' \in BOOLEAN /\ crossed' \in BOOLEAN /\ budget' \in 0..MaxCmds

(* The death of the parent keeps the types.                                *)
LEMMA CrashType ==
  ASSUME TypeOK, Crash, UserTyped
  PROVE  TypeOK'
<1>1. proc \in [Pids -> Process] /\ fifo \in Seq(Msg) /\ Exit(Parent, proc, fifo)
  BY DEF TypeOK, Crash
<1>2. /\ sem' \in Nat /\ adj' \in [Pids \union {Parent} -> Int]
      /\ st' \in [Pids -> States] /\ proc' \in [Pids -> Process]
      /\ fifo' \in Seq(Msg)
  BY <1>1, ExitType
<1>3. pc' \in [Contexts -> Labels] /\ frame' \in [Contexts -> Frame]
  BY DataTypes DEF Crash, Labels
<1> QED
  BY <1>2, <1>3 DEF TypeOK, Crash, UserTyped

(* Fork puts a new, well typed process in place.                           *)
LEMMA ForkType ==
  ASSUME TypeOK, NEW p \in Pids, NEW name \in SongOrNone, NEW ppid \in PidValue,
         NEW blocked \in BOOLEAN, NEW l \in ListOrNull, NEW state \in States,
         Fork(p, name, ppid, blocked, l, state)
  PROVE  st' \in [Pids -> States] /\ proc' \in [Pids -> Process]
<1>1. [Blank EXCEPT !.ppid = ppid, !.name = name, !.blocked = blocked, !.list = l]
        \in Process
  BY DataTypes DEF Process
<1> QED
  BY <1>1 DEF TypeOK, Fork

(* WriteFifo prepares a well typed frame.                                  *)
LEMMA WriteFifoType ==
  ASSUME TypeOK, NEW f \in Contexts, NEW msg \in Msg, NEW then \in Labels,
         NEW after \in Labels, NEW cur \in Shm, NEW singer \in ListOrNull,
         WriteFifo(f, msg, then, after, cur, singer)
  PROVE  pc' \in [Contexts -> Labels] /\ frame' \in [Contexts -> Frame]
BY DEF TypeOK, WriteFifo, Jump, Frame, Labels

(* So does Return.                                                         *)
LEMMA ReturnType ==
  ASSUME TypeOK, NEW f \in Contexts, Return(f)
  PROVE  pc' \in [Contexts -> Labels] /\ frame' \in [Contexts -> Frame]
BY DataTypes DEF TypeOK, Return, Jump, Labels

-----------------------------------------------------------------------------
(* The parent's operations keep the types.                                 *)

(* Nobody gives a command and none is read.                                *)
LEMMA UserRests ==
  ASSUME TypeOK, UNCHANGED user
  PROVE  UserTyped
BY DEF TypeOK, UserTyped, user

(* Main reads a command.                                                   *)
LEMMA CommandType ==
  ASSUME TypeOK, NEW c, Command(c)
  PROVE  UserTyped
BY DEF TypeOK, UserTyped, Command

(* StartPlay, wherever it is called from.                                  *)
LEMMA StartPlayType ==
  ASSUME TypeOK, NEW f \in Contexts, StartPlay(f), UserTyped
  PROVE  TypeOK'
<1> USE DEF UserTyped, flags, kernel, children
<1>1. CASE Resumes /\ WriteFifo(f, Pause, "resumed", "idle", frame[f].cur, NoSinger)
                   /\ UNCHANGED <<flags, usr1, up, shm, kernel, children, fifo>>
  <2>1. frame[f].cur \in Shm
    BY DEF TypeOK, Frame
  <2>2. pc' \in [Contexts -> Labels] /\ frame' \in [Contexts -> Frame]
    BY <1>1, <2>1, WriteFifoType, DataTypes DEF Labels, ListOrNull
  <2> QED
    BY <1>1, <2>2 DEF TypeOK
<1>2. CASE Return(f) /\ UNCHANGED <<flags, usr1, up, shm, kernel, children, fifo>>
  BY <1>2, ReturnType DEF TypeOK
<1>3. CASE /\ list # NoSinger /\ PlayMusic(f) /\ start' = 1 /\ Return(f)
           /\ UNCHANGED <<suspend, list, usr1, up, shm, kernel, fifo>>
  <2>1. <<list, 1>> \in SongOrNone /\ list \in ListOrNull
    BY <1>3, FirstSong DEF TypeOK, ListOrNull, SongOrNone
  <2>2. st' \in [Pids -> States] /\ proc' \in [Pids -> Process]
    <3>1. PICK c \in FreePids :
            Fork(c, <<list, 1>>, Parent, f = "usr1", list, "loop")
      BY <1>3 DEF PlayMusic
    <3>2. c \in Pids /\ Parent \in PidValue /\ "loop" \in States
          /\ (f = "usr1") \in BOOLEAN
      BY DEF FreePids, PidValue, States
    <3> QED
      BY <2>1, <3>1, <3>2, ForkType
  <2> QED
    BY <1>3, <2>2, ReturnType DEF TypeOK
<1>4. CASE Crash
  BY <1>4, CrashType
<1> QED
  BY <1>1, <1>2, <1>3, <1>4 DEF StartPlay

(* StopPlay as far as its first blocking call.                             *)
LEMMA StopPlayType ==
  ASSUME TypeOK, NEW f \in Contexts, NEW after \in Labels,
         NEW singer \in ListOrNull, StopPlay(f, after, singer), UserTyped
  PROVE  TypeOK'
<1>1. shm \in Shm /\ proc \in [Pids -> Process]
  BY DEF TypeOK
<1>2. proc' \in [Pids -> Process]
  BY <1>1, SignalType DEF StopPlay
<1>3. pc' \in [Contexts -> Labels] /\ frame' \in [Contexts -> Frame]
  <2>1. Quit \in Msg /\ "wait" \in Labels
    BY DataTypes DEF Labels
  <2>2. WriteFifo(f, Quit, "wait", after, shm, singer)
    BY DEF StopPlay
  <2> QED
    BY <1>1, <2>1, <2>2, WriteFifoType
<1>4. usr1' \in BOOLEAN
  BY DEF StopPlay, TypeOK
<1> QED
  BY <1>2, <1>3, <1>4 DEF UserTyped, TypeOK, StopPlay, ClearFlags, kernel

(* The change of lists.                                                    *)
LEMMA ReplaceType ==
  ASSUME TypeOK, NEW singer \in ListOrNull, Replace(singer), UserTyped
  PROVE  TypeOK'
<1>1. CASE StopPlay("main", "fetch", singer)
  BY <1>1, StopPlayType DEF Contexts, Labels
<1>2. CASE /\ frame' = [frame EXCEPT !["main"] = [EmptyFrame EXCEPT !.singer = singer]]
           /\ Jump("main", "fetch")
           /\ UNCHANGED <<flags, usr1, up, shm, kernel, children, fifo>>
  <2>1. [EmptyFrame EXCEPT !.singer = singer] \in Frame
    BY DataTypes DEF Frame
  <2>2. pc' \in [Contexts -> Labels] /\ frame' \in [Contexts -> Frame]
    BY <1>2, <2>1 DEF TypeOK, Jump, Labels
  <2> QED
    BY <1>2, <2>2 DEF UserTyped, TypeOK, flags, kernel, children
<1> QED
  BY <1>1, <1>2 DEF Replace

(* The commands main reads.                                                *)
LEMMA HandleType ==
  ASSUME TypeOK, Handle
  PROVE  TypeOK'
<1> USE DEF flags, kernel, children, user
<1>0. \A c : Command(c) => UserTyped
  BY CommandType
<1>1. CASE CmdStart
  BY <1>0, <1>1, StartPlayType DEF CmdStart, Contexts
<1>2. CASE CmdStop
  BY <1>0, <1>2, StopPlayType DEF CmdStop, Contexts, Labels, ListOrNull
<1>3. CASE CmdSuspend
  <2>1. /\ Pause \in Msg /\ InitShm \in Shm /\ NoSinger \in ListOrNull
        /\ {"suspended", "idle"} \subseteq Labels /\ "main" \in Contexts
    BY DataTypes DEF Contexts, Labels, ListOrNull
  <2>2. WriteFifo("main", Pause, "suspended", "idle", InitShm, NoSinger)
    BY <1>3 DEF CmdSuspend
  <2>3. pc' \in [Contexts -> Labels] /\ frame' \in [Contexts -> Frame]
    BY <2>1, <2>2, WriteFifoType
  <2> QED
    BY <1>0, <1>3, <2>3 DEF UserTyped, CmdSuspend, TypeOK
<1>4. CASE CmdContinue
  <2>1. /\ Pause \in Msg /\ InitShm \in Shm /\ NoSinger \in ListOrNull
        /\ {"resumed", "idle"} \subseteq Labels /\ "main" \in Contexts
    BY DataTypes DEF Contexts, Labels, ListOrNull
  <2>2. WriteFifo("main", Pause, "resumed", "idle", InitShm, NoSinger)
    BY <1>4 DEF CmdContinue
  <2>3. pc' \in [Contexts -> Labels] /\ frame' \in [Contexts -> Frame]
    BY <2>1, <2>2, WriteFifoType
  <2> QED
    BY <1>0, <1>4, <2>3 DEF UserTyped, CmdContinue, TypeOK
<1>5. ASSUME NEW c \in {"next", "prev"}, CmdSkip(c)
      PROVE  TypeOK'
  <2>1. pc' \in [Contexts -> Labels]
    BY <1>5 DEF CmdSkip, TypeOK, Jump, Labels
  <2> QED
    BY <1>0, <1>5, <2>1 DEF UserTyped, CmdSkip, TypeOK
<1>6. ASSUME NEW c \in {"circle", "sequence"}, CmdMode(c)
      PROVE  TypeOK'
  <2>1. [shm EXCEPT !.mode = c] \in Shm
    BY DEF TypeOK, Shm
  <2>2. [EmptyFrame EXCEPT !.cur = [shm EXCEPT !.mode = c]] \in Frame
    BY <2>1, DataTypes DEF Frame
  <2>3. pc' \in [Contexts -> Labels] /\ frame' \in [Contexts -> Frame]
    BY <1>6, <2>2 DEF CmdMode, TypeOK, Jump, Labels
  <2> QED
    BY <1>0, <1>6, <2>3 DEF UserTyped, CmdMode, TypeOK
<1>7. ASSUME NEW s \in Singers, CmdSinger(s)
      PROVE  TypeOK'
  BY <1>0, <1>7, ReplaceType DEF CmdSinger, ListOrNull
<1>8. CASE CmdIgnored
  BY <1>0, <1>8 DEF UserTyped, CmdIgnored, TypeOK
<1> QED
  BY <1>1, <1>2, <1>3, <1>4, <1>5, <1>6, <1>7, <1>8 DEF Handle

(* What main and the handler share.                                        *)
LEMMA StepType ==
  ASSUME TypeOK, NEW f \in Contexts, Step(f)
  PROVE  TypeOK'
<1> USE DEF flags, kernel, children, user
<1>0. /\ frame[f] \in Frame /\ frame[f].then \in Labels /\ frame[f].after \in Labels
      /\ frame[f].msg \in Msg /\ frame[f].singer \in ListOrNull
  BY DEF TypeOK, Frame
<1>1. CASE FifoOpen(f)
  BY <1>1 DEF FifoOpen, TypeOK, Jump, Labels
<1>2. CASE FifoWrite(f)
  <2>0. UserTyped
    BY <1>2, UserRests DEF FifoWrite
  <2>1. CASE Crash
    BY <2>0, <2>1, CrashType
  <2>2. CASE /\ fifo' = Append(fifo, frame[f].msg) /\ Jump(f, frame[f].then)
             /\ UNCHANGED <<flags, frame, usr1, up, shm, kernel, children>>
    <3>1. fifo' \in Seq(Msg)
      BY <1>0, <2>2 DEF TypeOK
    <3>2. pc' \in [Contexts -> Labels]
      BY <1>0, <2>2 DEF TypeOK, Jump
    <3> QED
      BY <1>2, <2>2, <3>1, <3>2 DEF TypeOK, FifoWrite
  <2> QED
    BY <1>2, <2>1, <2>2 DEF FifoWrite
<1>3. CASE SetSuspend(f)
  BY <1>3, ReturnType DEF SetSuspend, TypeOK
<1>4. CASE WaitPid(f)
  <2>1. st' \in [Pids -> States] /\ proc' \in [Pids -> Process]
    BY <1>4, DataTypes DEF WaitPid, TypeOK, States
  <2>2. pc' \in [Contexts -> Labels] /\ frame' \in [Contexts -> Frame]
    <3>1. CASE Return(f)
      BY <3>1, ReturnType
    <3>2. CASE Jump(f, frame[f].after) /\ UNCHANGED frame
      BY <1>0, <3>2 DEF TypeOK, Jump
    <3> QED
      BY <1>4, <3>1, <3>2 DEF WaitPid
  <2> QED
    BY <1>4, <2>1, <2>2 DEF WaitPid, TypeOK
<1>5. CASE Fetch(f)
  BY <1>5 DEF Fetch, TypeOK, Jump, Labels, ListOrNull
<1>6. CASE Reply(f)
  <2>1. Answer(f) \in ListOrNull
    BY <1>0 DEF Answer, TypeOK, Frame, Contexts
  <2>2. frame' \in [Contexts -> Frame]
    <3>1. frame["usr1"].singer \in ListOrNull /\ frame["main"] \in Frame
      BY DEF TypeOK, Frame, Contexts
    <3>2. [frame["main"] EXCEPT !.singer = frame["usr1"].singer] \in Frame
      BY <3>1 DEF Frame
    <3> QED
      BY <1>6, <3>2 DEF Reply, TypeOK
  <2>3. list' \in ListOrNull /\ pc' \in [Contexts -> Labels]
    BY <1>6, <2>1 DEF Reply, TypeOK, Jump, Labels
  <2> QED
    BY <1>6, <2>2, <2>3 DEF Reply, TypeOK
<1>7. CASE Begin(f)
  <2>1. UserTyped /\ StartPlay(f)
    BY <1>7, UserRests DEF Begin
  <2> QED
    BY <2>1, StartPlayType
<1> QED
  BY <1>1, <1>2, <1>3, <1>4, <1>5, <1>6, <1>7 DEF Step

(* GetShm fills cur_info.                                                  *)
LEMMA FrameCurType ==
  ASSUME TypeOK, NEW f \in Contexts, NEW cur \in Shm,
         frame' = [frame EXCEPT ![f].cur = cur]
  PROVE  frame' \in [Contexts -> Frame]
<1>1. frame \in [Contexts -> Frame]
  BY DEF TypeOK
<1>2. [frame[f] EXCEPT !.cur = cur] \in Frame
  BY <1>1 DEF Frame
<1>3. frame' = [frame EXCEPT ![f] = [frame[f] EXCEPT !.cur = cur]]
  BY <1>1
<1> QED
  BY <1>1, <1>2, <1>3

(* What only main does.                                                    *)
LEMMA MainStepType ==
  ASSUME TypeOK, MainStep
  PROVE  TypeOK'
<1> USE DEF flags, kernel, children, user
<1>0. "main" \in Contexts /\ Parent \in Pids \union {Parent} /\ Cur \in Shm
  BY DEF Contexts, TypeOK, Frame, Cur
<1>1. CASE Step("main")
  BY <1>0, <1>1, StepType
<1>2. CASE SetMode
  BY <1>0, <1>2, ReturnType DEF SetMode, TypeOK, Cur
<1>3. CASE SkipEnter
  <2>1. sem' \in Nat /\ adj' \in [Pids \union {Parent} -> Int]
    BY <1>0, <1>3, SemType DEF SkipEnter, TypeOK
  <2>2. frame' \in [Contexts -> Frame]
    <3>1. shm \in Shm /\ frame' = [frame EXCEPT !["main"].cur = shm]
      BY <1>3 DEF SkipEnter, TypeOK
    <3> QED
      BY <3>1, FrameCurType, <1>0
  <2>3. pc' \in [Contexts -> Labels]
    <3>1. PICK label \in {"next_cs", "prev_cs"} : Jump("main", label)
      BY <1>3 DEF SkipEnter
    <3> QED
      BY <3>1 DEF TypeOK, Jump, Labels
  <2> QED
    BY <1>3, <2>1, <2>2, <2>3 DEF SkipEnter, TypeOK
<1>4. CASE SkipLeave
  <2>1. sem' \in Nat /\ adj' \in [Pids \union {Parent} -> Int]
    BY <1>0, <1>4, SemType DEF SkipLeave
  <2>2. Cur.song \in SongOrNone /\ list \in ListOrNull
    BY <1>0 DEF Shm, TypeOK
  <2>3. SkipTo \in SongOrNone
    <3>1. CASE Cur.mode = "circle"
      BY <2>2, <3>1 DEF SkipTo
    <3>2. CASE Cur.mode # "circle" /\ pc["main"] = "next_cs"
      <4>1. IsIn(Cur.song, list) /\ ~IsLast(Cur.song)
        BY <1>4, <3>2 DEF SkipLeave, Lost, AtEnd
      <4> QED
        BY <2>2, <3>2, <4>1, NextSong DEF SkipTo, SongOrNone
    <3>3. CASE Cur.mode # "circle" /\ pc["main"] # "next_cs"
      <4>1. IsIn(Cur.song, list)
        BY <1>4, <3>3 DEF SkipLeave, Lost
      <4> QED
        BY <2>2, <3>3, <4>1, PrevSong DEF SkipTo, SongOrNone
    <3> QED
      BY <3>1, <3>2, <3>3
  <2>4. shm' \in Shm
    BY <1>0, <1>4, <2>3 DEF SkipLeave, Shm
  <2>5. Load(SkipTo) \in Msg
    BY <2>3 DEF Load, Msg
  <2>6. pc' \in [Contexts -> Labels] /\ frame' \in [Contexts -> Frame]
    <3>1. /\ InitShm \in Shm /\ NoSinger \in ListOrNull
          /\ {"resumed", "idle"} \subseteq Labels /\ "main" \in Contexts
      BY DataTypes DEF Contexts, Labels, ListOrNull
    <3>2. WriteFifo("main", Load(SkipTo), "resumed", "idle", InitShm, NoSinger)
      BY <1>4 DEF SkipLeave
    <3> QED
      BY <2>5, <3>1, <3>2, WriteFifoType
  <2> QED
    BY <1>4, <2>1, <2>4, <2>6 DEF SkipLeave, TypeOK
<1>5. CASE SkipEnd
  <2>1. Cur.song[1] \in ListOrNull
    BY <1>0 DEF Shm, SongOrNone, Song, NoSong, ListOrNull
  <2>2. UserTyped /\ Replace(Cur.song[1])
    BY <1>5, UserRests DEF SkipEnd
  <2> QED
    BY <2>1, <2>2, ReplaceType
<1>6. CASE SkipLost
  <2>1. UserTyped /\ Crash
    BY <1>6, UserRests DEF SkipLost
  <2> QED
    BY <2>1, CrashType
<1>7. CASE Handle
  BY <1>7, HandleType
<1> QED
  BY <1>1, <1>2, <1>3, <1>4, <1>5, <1>6, <1>7 DEF MainStep

(* What only the handler does.                                             *)
LEMMA Usr1StepType ==
  ASSUME TypeOK, Usr1Step
  PROVE  TypeOK'
<1> USE DEF flags, kernel, children, user
<1>0. "usr1" \in Contexts /\ Parent \in Pids \union {Parent}
      /\ frame["usr1"] \in Frame /\ frame["usr1"].cur \in Shm
  BY DEF Contexts, TypeOK, Frame
<1>1. CASE Step("usr1")
  BY <1>0, <1>1, StepType
<1>2. CASE DeliverUsr1
  <2>1. pc' \in [Contexts -> Labels]
    BY <1>2 DEF DeliverUsr1, TypeOK, Contexts, Labels
  <2> QED
    BY <1>2, <2>1 DEF DeliverUsr1, TypeOK
<1>3. CASE UpdateRead
  <2>1. sem' \in Nat /\ adj' \in [Pids \union {Parent} -> Int]
    BY <1>0, <1>3, SemType DEF UpdateRead
  <2>2. frame' \in [Contexts -> Frame]
    <3>1. shm \in Shm /\ frame' = [frame EXCEPT !["usr1"].cur = shm]
      BY <1>3 DEF UpdateRead, TypeOK
    <3> QED
      BY <3>1, FrameCurType, <1>0
  <2>3. pc' \in [Contexts -> Labels]
    BY <1>3 DEF UpdateRead, TypeOK, Jump, Labels
  <2> QED
    BY <1>3, <2>1, <2>2, <2>3 DEF UpdateRead, TypeOK
<1>4. CASE UpdateLeave
  <2>1. sem' \in Nat /\ adj' \in [Pids \union {Parent} -> Int]
    BY <1>0, <1>4, SemType DEF UpdateLeave
  <2>2. frame["usr1"].cur.song[1] \in ListOrNull
    BY <1>0 DEF Shm, SongOrNone, Song, NoSong, ListOrNull
  <2>3. pc' \in [Contexts -> Labels]
    BY <1>4 DEF UpdateLeave, TypeOK, Jump, Labels
  <2>4. frame' \in [Contexts -> Frame]
    <3> DEFINE song == frame["usr1"].cur.song[1]
    <3>1. "fetch" \in Labels /\ song \in ListOrNull
      BY <2>2 DEF Labels
    <3>2. frame \in [Contexts -> Frame]
      BY DEF TypeOK
    <3>3. frame' = [frame EXCEPT !["usr1"].singer = song, !["usr1"].after = "fetch"]
      BY <1>4 DEF UpdateLeave
    <3> HIDE DEF song
    <3> QED
      BY <3>1, <3>2, <3>3 DEF Frame
  <2> QED
    BY <1>4, <2>1, <2>3, <2>4 DEF UpdateLeave, TypeOK
<1> QED
  BY <1>1, <1>2, <1>3, <1>4 DEF Usr1Step

-----------------------------------------------------------------------------
(* The other processes keep the types.                                     *)

(* Signals, fork and wait of the child.                                    *)
LEMMA ChildStepType ==
  ASSUME TypeOK, NEW p \in Pids, Deliver(p) \/ ChildStep(p)
  PROVE  TypeOK'
<1> USE DEF flags, kernel, children, user
<1>1. CASE Deliver(p)
  <2>1. proc \in [Pids -> Process] /\ fifo \in Seq(Msg) /\ Exit(p, proc, fifo)
    BY <1>1 DEF Deliver, TypeOK
  <2> QED
    BY <1>1, <2>1, ExitType DEF Deliver, TypeOK
<1>2. CASE ChildFork(p)
  <2>1. PICK g \in Pids :
          /\ st' = [st EXCEPT ![p] = "child_wait", ![g] = "semp"]
          /\ proc' = [proc EXCEPT
               ![p].name = NoSong,
               ![g] = [Blank EXCEPT !.ppid = p, !.name = proc[p].name,
                                    !.blocked = proc[p].blocked,
                                    !.list = proc[p].list]]
    BY <1>2 DEF ChildFork, FreePids
  <2>2. [Blank EXCEPT !.ppid = p, !.name = proc[p].name,
                      !.blocked = proc[p].blocked, !.list = proc[p].list]
          \in Process
    BY DataTypes DEF TypeOK, Process, PidValue
  <2>3. [proc[p] EXCEPT !.name = NoSong] \in Process
    BY DataTypes DEF TypeOK, Process
  <2>4. proc' \in [Pids -> Process]
    BY <2>1, <2>2, <2>3 DEF TypeOK
  <2>5. st' \in [Pids -> States]
    BY <2>1 DEF TypeOK, States
  <2> QED
    BY <1>2, <2>4, <2>5 DEF ChildFork, TypeOK
<1>3. CASE ChildWait(p)
  BY <1>3, DataTypes DEF ChildWait, TypeOK, States
<1> QED
  BY <1>1, <1>2, <1>3 DEF ChildStep

(* The grandchild until it is mplayer.                                     *)
LEMMA GrandStepType ==
  ASSUME TypeOK, NEW g \in Pids, GrandStep(g)
  PROVE  TypeOK'
<1> USE DEF flags, kernel, children, user
<1>0. /\ proc \in [Pids -> Process] /\ proc[g] \in Process /\ shm \in Shm
      /\ fifo \in Seq(Msg)
  BY DEF TypeOK
<1>1. CASE GrandEnter(g)
  <2>1. sem' \in Nat /\ adj' \in [Pids \union {Parent} -> Int]
    BY <1>1, SemType DEF GrandEnter
  <2>2. st' \in [Pids -> States]
    BY <1>1 DEF GrandEnter, TypeOK, States
  <2>3. [proc[g] EXCEPT !.loc = shm] \in Process
    BY <1>0 DEF Process
  <2>4. ASSUME Wanted(g), IsIn(shm.song, proc[g].list), ~IsLast(shm.song)
        PROVE  [proc[g] EXCEPT !.loc = shm,
                  !.name = FindNextMusic(shm.song, proc[g].list)] \in Process
    <3>1. shm.song \in SongOrNone /\ proc[g].list \in ListOrNull
      BY <1>0 DEF Shm, Process
    <3>2. FindNextMusic(shm.song, proc[g].list) \in SongOrNone
      BY <2>4, <3>1, NextSong DEF SongOrNone
    <3> QED
      BY <1>0, <3>2 DEF Process
  <2>5. proc' \in [Pids -> Process]
    BY <1>0, <1>1, <2>3, <2>4 DEF GrandEnter
  <2> QED
    BY <1>1, <2>1, <2>2, <2>5 DEF GrandEnter, TypeOK
<1>2. CASE GrandLost(g)
  BY <1>0, <1>2, ExitType DEF GrandLost, TypeOK
<1>3. CASE GrandLeave(g)
  <2>1. sem' \in Nat /\ adj' \in [Pids \union {Parent} -> Int]
    BY <1>3, SemType DEF GrandLeave
  <2>2. Published(g) \in Shm
    BY <1>0 DEF Published, Shm, Process
  <2>3. [InitShm EXCEPT !.child = proc[g].ppid] \in Shm
    BY <1>0, DataTypes DEF Shm, Process
  <2>4. proc' \in [Pids -> Process]
    BY <1>0, <1>3, <2>3 DEF GrandLeave, Process
  <2> QED
    BY <1>3, <2>1, <2>2, <2>4 DEF GrandLeave, TypeOK, States
<1>4. CASE GrandTellParent(g)
  BY <1>4 DEF GrandTellParent, TypeOK, States
<1>5. CASE GrandTellChild(g)
  <2>1. Signal(proc[g].loc.child, proc) \in [Pids -> Process]
    BY <1>0, SignalType
  <2>2. Exit(g, Signal(proc[g].loc.child, proc), fifo)
    BY <1>5 DEF GrandTellChild
  <2> QED
    BY <1>0, <1>5, <2>1, <2>2, ExitType DEF GrandTellChild, TypeOK
<1>6. CASE GrandExec(g)
  <2>1. [proc[g] EXCEPT !.loc = InitShm, !.list = NoSinger] \in Process
    BY <1>0, DataTypes DEF Process, ListOrNull
  <2>2. proc' \in [Pids -> Process]
    BY <1>0, <1>6, <2>1 DEF GrandExec
  <2> QED
    BY <1>6, <2>2 DEF GrandExec, TypeOK, States
<1>7. CASE GrandExecFails(g)
  <2>1. Signal(proc[g].loc.child, proc) \in [Pids -> Process]
    BY <1>0, SignalType
  <2>2. Exit(g, Signal(proc[g].loc.child, proc), fifo)
    BY <1>7 DEF GrandExecFails
  <2> QED
    BY <1>0, <1>7, <2>1, <2>2, ExitType DEF GrandExecFails, TypeOK
<1> QED
  BY <1>1, <1>2, <1>3, <1>4, <1>5, <1>6, <1>7 DEF GrandStep

(* mplayer.                                                                *)
LEMMA MpStepType ==
  ASSUME TypeOK, NEW m \in Pids, MpStep(m)
  PROVE  TypeOK'
<1> USE DEF flags, kernel, children, user
<1>0. proc \in [Pids -> Process] /\ proc[m] \in Process /\ fifo \in Seq(Msg)
  BY DEF TypeOK
<1>1. CASE MpOpen(m)
  BY <1>1 DEF MpOpen, TypeOK, States
<1>2. CASE MpRead(m)
  <2>1. Head(fifo) \in Msg /\ Tail(fifo) \in Seq(Msg)
    BY <1>0, <1>2 DEF MpRead
  <2>2. CASE Exit(m, proc, Tail(fifo))
    BY <1>0, <1>2, <2>1, <2>2, ExitType DEF MpRead, TypeOK
  <2>3. CASE proc' = [proc EXCEPT ![m].paused = ~@] /\ fifo' = Tail(fifo)
             /\ UNCHANGED <<st, kernel>>
    <3>0. (~proc[m].paused) \in BOOLEAN
      OBVIOUS
    <3>1. proc' \in [Pids -> Process]
      BY <1>0, <2>3, <3>0 DEF Process
    <3> QED
      BY <1>2, <2>1, <2>3, <3>1 DEF MpRead, TypeOK
  <2>4. CASE proc' = [proc EXCEPT ![m].paused = FALSE, ![m].name = Head(fifo).song]
             /\ fifo' = Tail(fifo) /\ UNCHANGED <<st, kernel>>
    <3>1. proc' \in [Pids -> Process]
      BY <1>0, <2>1, <2>4 DEF Process, Msg
    <3> QED
      BY <1>2, <2>1, <2>4, <3>1 DEF MpRead, TypeOK
  <2> QED
    BY <1>2, <2>2, <2>3, <2>4 DEF MpRead
<1>3. CASE MpEnd(m)
  BY <1>0, <1>3, ExitType DEF MpEnd, TypeOK
<1> QED
  BY <1>1, <1>2, <1>3 DEF MpStep

-----------------------------------------------------------------------------
(* Every step keeps the types.                                             *)
LEMMA NextType == TypeOK /\ [Next]_vars => TypeOK'
<1> SUFFICES ASSUME TypeOK, [Next]_vars PROVE TypeOK'
  OBVIOUS
<1>1. CASE UNCHANGED vars
  BY <1>1 DEF vars, TypeOK
<1>2. CASE Ask
  BY <1>2, MaxCmdsAssumption DEF Ask, TypeOK, flags, kernel, children
<1>3. CASE MainStep
  BY <1>3, MainStepType
<1>4. CASE Usr1Step
  BY <1>4, Usr1StepType
<1>5. ASSUME NEW p \in Pids, ProcStep(p)
      PROVE  TypeOK'
  BY <1>5, ChildStepType, GrandStepType, MpStepType DEF ProcStep
<1> QED
  BY <1>1, <1>2, <1>3, <1>4, <1>5 DEF Next

(* The player starts well typed.                                           *)
LEMMA InitType == Init => TypeOK
<1> SUFFICES ASSUME Init PROVE TypeOK
  OBVIOUS
<1>1. pc \in [Contexts -> Labels] /\ frame \in [Contexts -> Frame]
  BY DataTypes DEF Init, Labels
<1>2. fifo \in Seq(Msg) /\ budget \in 0..MaxCmds
  BY MaxCmdsAssumption DEF Init
<1>3. st \in [Pids -> States] /\ proc \in [Pids -> Process]
  BY DataTypes DEF Init, States
<1>4. sem \in Nat /\ adj \in [Pids \union {Parent} -> Int]
  BY DEF Init
<1>5. start \in {0, 1} /\ suspend \in {0, 1} /\ list \in ListOrNull
  BY DEF Init, ListOrNull
<1>6. /\ usr1 \in BOOLEAN /\ up \in BOOLEAN
      /\ asked \in BOOLEAN /\ crossed \in BOOLEAN
  BY DEF Init
<1>7. shm \in Shm
  BY DataTypes DEF Init
<1> QED
  BY <1>1, <1>2, <1>3, <1>4, <1>5, <1>6, <1>7 DEF TypeOK

(* The variables of the player keep their types, whatever the users do and *)
(* however the processes interleave.                                       *)
THEOREM TypeCorrect == SafetySpec => []TypeOK
BY InitType, NextType, PTL DEF SafetySpec

-----------------------------------------------------------------------------
(* The suspend flag of any user.                                           *)

(* SuspendPlay has yet to set the flag; ContinuePlay, called by the        *)
(* handler, has yet to clear it.                                           *)
SuspendDue == \/ pc["main"] = "suspended"
              \/ pc["main"] \in {"open", "write"} /\ frame["main"].then = "suspended"
Resuming == pc["usr1"] \in {"open", "write", "resumed"}

(* While the handler is away a suspended player is started. The handler    *)
(* takes g_start_flag, but it gives it back or clears g_suspend_flag, and  *)
(* it does the first if it met SuspendPlay halfway.                        *)
SuspendOK ==
  up => /\ suspend = 1 /\ pc["usr1"] = "idle" => start = 1
        /\ SuspendDue => suspend = 0 /\ ~Resuming /\ (pc["usr1"] = "idle" => start = 1)
        /\ \/ pc["usr1"] \in {"idle", "upd_p", "upd_v", "wait", "fetch", "reply", "begin"}
           \/ Resuming
        /\ pc["usr1"] = "wait" => frame["usr1"].after = "fetch"
        /\ pc["usr1"] \in {"open", "write"} => frame["usr1"].then = "resumed"
        /\ frame["main"].after \in {"idle", "fetch"}

(* Main at work on something else.                                         *)
LEMMA MainSuspend ==
  ASSUME up, SuspendOK, pc["usr1"] = "idle", pc'["usr1"] = "idle",
         ~SuspendDue', frame'["main"].after \in {"idle", "fetch"},
         suspend' = 1 => suspend = 1 /\ start' = start
  PROVE  SuspendOK'
BY DEF SuspendOK, Resuming

(* The handler at work before StartPlay.                                   *)
LEMMA HandlerSuspend ==
  ASSUME up, SuspendOK, UNCHANGED suspend, SuspendDue' => SuspendDue,
         frame'["main"].after = frame["main"].after,
         pc'["usr1"] \in {"upd_p", "upd_v", "wait", "fetch", "reply", "begin"},
         pc'["usr1"] = "wait" => frame'["usr1"].after = "fetch"
  PROVE  SuspendOK'
BY DEF SuspendOK, Resuming

(* A write of main to the FIFO begins.                                     *)
LEMMA WriteSuspend ==
  ASSUME TypeOK, up, SuspendOK, pc["usr1"] = "idle",
         NEW msg, NEW then, NEW after \in {"idle", "fetch"}, NEW cur, NEW singer,
         WriteFifo("main", msg, then, after, cur, singer),
         then = "suspended" => start = 1 /\ suspend = 0 /\ UNCHANGED <<start, suspend>>,
         suspend' = 1 => suspend = 1 /\ start' = start
  PROVE  SuspendOK'
<1>1. /\ pc'["main"] = "open" /\ pc'["usr1"] = "idle"
      /\ frame'["main"].then = then /\ frame'["main"].after = after
  BY DEF WriteFifo, Jump, TypeOK, Contexts
<1> QED
  BY <1>1 DEF SuspendOK, SuspendDue, Resuming

(* Main returns to the select loop.                                        *)
LEMMA ReturnSuspend ==
  ASSUME TypeOK, up, SuspendOK, pc["usr1"] = "idle", Return("main"),
         suspend' = 1 => start' = 1
  PROVE  SuspendOK'
<1>1. /\ pc'["main"] = "idle" /\ pc'["usr1"] = "idle"
      /\ frame'["main"] = EmptyFrame
  BY DEF Return, Jump, TypeOK, Contexts
<1> QED
  BY <1>1 DEF SuspendOK, SuspendDue, Resuming, EmptyFrame

(* StartPlay: in main nothing is due, in the handler a suspend that is due *)
(* finds the flag clear, so that the list begins.                          *)
LEMMA StartSuspend ==
  ASSUME TypeOK, up, SuspendOK, NEW f \in Contexts, StartPlay(f),
         \/ f = "main" /\ pc["usr1"] = "idle"
         \/ f = "usr1" /\ pc["usr1"] = "begin"
  PROVE  SuspendOK'
<1> USE DEF flags
<1>1. CASE /\ Resumes
           /\ WriteFifo(f, Pause, "resumed", "idle", frame[f].cur, NoSinger)
           /\ UNCHANGED <<flags, usr1, up, shm, kernel, children, fifo>>
  <2>1. CASE f = "main"
    BY <1>1, <2>1, WriteSuspend
  <2>2. CASE f = "usr1"
    <3>1. /\ pc'["usr1"] = "open" /\ pc'["main"] = pc["main"]
          /\ frame'["main"] = frame["main"] /\ frame'["usr1"].then = "resumed"
      BY <1>1, <2>2 DEF WriteFifo, Jump, TypeOK, Contexts
    <3>2. suspend = 1 /\ ~SuspendDue
      BY <1>1 DEF Resumes, SuspendOK
    <3>3. ~SuspendDue'
      BY <3>1, <3>2 DEF SuspendDue
    <3> QED
      BY <1>1, <3>1, <3>3 DEF SuspendOK, Resuming
  <2> QED
    BY <2>1, <2>2 DEF Contexts
<1>2. ASSUME Return(f), UNCHANGED suspend, start' = 1
      PROVE  SuspendOK'
  <2>1. CASE f = "main"
    BY <1>2, <2>1, ReturnSuspend
  <2>2. CASE f = "usr1"
    <3>1. /\ pc'["usr1"] = "idle" /\ pc'["main"] = pc["main"]
          /\ frame'["main"] = frame["main"]
      BY <1>2, <2>2 DEF Return, Jump, TypeOK, Contexts
    <3> QED
      BY <1>2, <3>1 DEF SuspendOK, SuspendDue, Resuming
  <2> QED
    BY <2>1, <2>2 DEF Contexts
<1>3. CASE Crash
  BY <1>3 DEF Crash, SuspendOK
<1> QED
  BY <1>1, <1>2, <1>3 DEF StartPlay

(* The change of lists, from the select loop or from NextPlay.             *)
LEMMA ReplaceSuspend ==
  ASSUME TypeOK, up, SuspendOK, pc["usr1"] = "idle", NEW singer, Replace(singer)
  PROVE  SuspendOK'
<1>1. CASE StopPlay("main", "fetch", singer)
  BY <1>1, WriteSuspend DEF StopPlay, ClearFlags
<1>2. CASE /\ frame' = [frame EXCEPT !["main"] = [EmptyFrame EXCEPT !.singer = singer]]
           /\ Jump("main", "fetch")
           /\ UNCHANGED <<flags, usr1, up, shm, kernel, children, fifo>>
  <2>1. /\ pc'["main"] = "fetch" /\ pc'["usr1"] = "idle"
        /\ frame'["main"].after = "idle"
    BY <1>2 DEF Jump, TypeOK, Contexts, EmptyFrame
  <2> QED
    BY <1>2, <2>1, MainSuspend DEF SuspendDue, flags
<1> QED
  BY <1>1, <1>2 DEF Replace

(* The commands.                                                           *)
LEMMA HandleSuspend ==
  ASSUME TypeOK, SuspendOK, Handle
  PROVE  SuspendOK'
<1> USE DEF flags
<1>1. \A c : Command(c) => up /\ pc["usr1"] = "idle" /\ pc["main"] = "idle"
  BY DEF Command, Runs, Idle
<1>2. CASE CmdStart
  BY <1>1, <1>2, StartSuspend DEF CmdStart, Contexts
<1>3. CASE CmdStop
  BY <1>1, <1>3, WriteSuspend DEF CmdStop, StopPlay, ClearFlags
<1>4. CASE CmdSuspend
  BY <1>1, <1>4, WriteSuspend DEF CmdSuspend
<1>5. CASE CmdContinue
  BY <1>1, <1>5, WriteSuspend DEF CmdContinue
<1>6. ASSUME NEW c, CmdSkip(c)
      PROVE  SuspendOK'
  <2>1. /\ pc'["main"] \in {"next_p", "prev_p"} /\ pc'["usr1"] = "idle"
        /\ UNCHANGED <<start, suspend, frame>>
    BY <1>1, <1>6 DEF CmdSkip, Jump, TypeOK, Contexts
  <2>2. up /\ frame["main"].after \in {"idle", "fetch"}
    BY <1>1, <1>6 DEF CmdSkip, SuspendOK
  <2> QED
    BY <1>1, <1>6, <2>1, <2>2, MainSuspend DEF CmdSkip, SuspendDue
<1>7. ASSUME NEW c, CmdMode(c)
      PROVE  SuspendOK'
  <2>1. /\ pc'["main"] = "mode_set" /\ pc'["usr1"] = "idle"
        /\ frame'["main"].after = "idle" /\ UNCHANGED <<start, suspend>>
    BY <1>1, <1>7 DEF CmdMode, Jump, TypeOK, Contexts, EmptyFrame
  <2> QED
    BY <1>1, <1>7, <2>1, MainSuspend DEF CmdMode, SuspendDue
<1>8. ASSUME NEW s, CmdSinger(s)
      PROVE  SuspendOK'
  BY <1>1, <1>8, ReplaceSuspend DEF CmdSinger
<1>9. CASE CmdIgnored
  BY <1>9 DEF CmdIgnored, SuspendOK, SuspendDue, Resuming
<1> QED
  BY <1>2, <1>3, <1>4, <1>5, <1>6, <1>7, <1>8, <1>9 DEF Handle

(* What main and the handler have in common.                               *)
LEMMA StepSuspend ==
  ASSUME TypeOK, SuspendOK, NEW f \in Contexts, Step(f)
  PROVE  SuspendOK'
<1> USE DEF flags
<1>1. /\ up
      /\ f = "main" => pc["usr1"] = "idle"
  BY DEF Step, FifoOpen, FifoWrite, SetSuspend, WaitPid, Fetch, Reply, Begin, Runs
<1>2. CASE FifoOpen(f)
  <2>1. /\ pc[f] = "open" /\ pc' = [pc EXCEPT ![f] = "write"]
        /\ UNCHANGED <<start, suspend, frame>>
    BY <1>2 DEF FifoOpen, Jump
  <2>2. pc'[f] = "write" /\ \A g \in Contexts : g # f => pc'[g] = pc[g]
    BY <2>1 DEF TypeOK
  <2> QED
    BY <1>1, <2>1, <2>2 DEF SuspendOK, SuspendDue, Resuming, Contexts
<1>3. CASE FifoWrite(f) /\ ~Crash
  <2>1. /\ pc[f] = "write" /\ pc' = [pc EXCEPT ![f] = frame[f].then]
        /\ UNCHANGED <<start, suspend, frame>>
    BY <1>3 DEF FifoWrite, Jump
  <2>2. pc'[f] = frame[f].then /\ \A g \in Contexts : g # f => pc'[g] = pc[g]
    BY <2>1 DEF TypeOK
  <2>3. CASE f = "main"
    <3>1. pc'["usr1"] = "idle" /\ frame["main"].after \in {"idle", "fetch"}
      BY <1>1, <2>2, <2>3 DEF SuspendOK, Contexts
    <3>2. SuspendDue' => SuspendDue
      BY <2>1, <2>2, <2>3 DEF SuspendDue
    <3> QED
      BY <1>1, <2>1, <2>3, <3>1, <3>2 DEF SuspendOK, Resuming
  <2>4. CASE f = "usr1"
    <3>1. pc'["usr1"] = "resumed" /\ pc'["main"] = pc["main"] /\ Resuming
      BY <1>1, <2>1, <2>2, <2>4 DEF SuspendOK, Contexts, Resuming
    <3> QED
      BY <1>1, <2>1, <3>1 DEF SuspendOK, SuspendDue, Resuming
  <2> QED
    BY <2>3, <2>4 DEF Contexts
<1>4. CASE SetSuspend(f)
  <2>1. /\ pc[f] \in {"suspended", "resumed"} /\ Return(f) /\ UNCHANGED start
        /\ suspend' = IF pc[f] = "suspended" THEN 1 ELSE 0
    BY <1>4 DEF SetSuspend
  <2>2. CASE f = "main"
    <3>1. suspend' = 1 => start' = 1
      BY <1>1, <2>1, <2>2 DEF SuspendOK, SuspendDue
    <3> QED
      BY <1>1, <2>1, <2>2, <3>1, ReturnSuspend
  <2>3. CASE f = "usr1"
    <3>1. pc["usr1"] = "resumed" /\ suspend' = 0 /\ Resuming
      BY <1>1, <2>1, <2>3 DEF SuspendOK, Resuming
    <3>2. /\ pc'["usr1"] = "idle" /\ pc'["main"] = pc["main"]
          /\ frame'["main"] = frame["main"]
      BY <2>1, <2>3 DEF Return, Jump, TypeOK, Contexts
    <3> QED
      BY <1>1, <3>1, <3>2 DEF SuspendOK, SuspendDue, Resuming
  <2> QED
    BY <2>2, <2>3 DEF Contexts
<1>5. CASE WaitPid(f)
  <2>1. pc[f] = "wait" /\ UNCHANGED <<start, suspend>>
    BY <1>5 DEF WaitPid
  <2>2. CASE f = "main" /\ frame["main"].after = "idle"
    <3>1. Return("main")
      BY <1>5, <2>2 DEF WaitPid
    <3>2. suspend' = 1 => start' = 1
      BY <1>1, <2>1, <2>2 DEF SuspendOK
    <3> QED
      BY <1>1, <2>2, <3>1, <3>2, ReturnSuspend
  <2>3. CASE f = "main" /\ frame["main"].after # "idle"
    <3>1. frame["main"].after = "fetch"
      BY <1>1, <2>3 DEF SuspendOK
    <3>2. pc'["main"] = "fetch" /\ pc'["usr1"] = "idle" /\ UNCHANGED frame
      BY <1>1, <1>5, <2>3, <3>1 DEF WaitPid, Jump, TypeOK, Contexts
    <3> QED
      BY <1>1, <2>1, <2>3, <3>1, <3>2, MainSuspend DEF SuspendDue
  <2>4. CASE f = "usr1"
    <3>1. frame["usr1"].after = "fetch"
      BY <1>1, <2>1, <2>4 DEF SuspendOK
    <3>2. pc'["usr1"] = "fetch" /\ pc'["main"] = pc["main"] /\ UNCHANGED frame
      BY <1>5, <2>4, <3>1 DEF WaitPid, Jump, TypeOK, Contexts
    <3> QED
      BY <1>1, <2>1, <3>2, HandlerSuspend DEF SuspendDue
  <2> QED
    BY <2>2, <2>3, <2>4 DEF Contexts
<1>6. CASE Fetch(f) \/ Reply(f)
  <2>1. pc'[f] \in {"reply", "begin"} /\ \A g \in Contexts : g # f => pc'[g] = pc[g]
    BY <1>6 DEF Fetch, Reply, Jump, TypeOK
  <2>2. /\ UNCHANGED <<start, suspend>>
        /\ frame'["main"].then = frame["main"].then
        /\ frame'["main"].after = frame["main"].after
    BY <1>6 DEF Fetch, Reply, TypeOK, Frame, Contexts
  <2>3. CASE f = "main"
    <3>1. frame["main"].after \in {"idle", "fetch"}
      BY <1>1 DEF SuspendOK
    <3> QED
      BY <1>1, <2>1, <2>2, <2>3, <3>1, MainSuspend DEF SuspendDue, Contexts
  <2>4. CASE f = "usr1"
    BY <1>1, <2>1, <2>2, <2>4, HandlerSuspend DEF SuspendDue, Contexts
  <2> QED
    BY <2>3, <2>4 DEF Contexts
<1>7. CASE Begin(f)
  BY <1>1, <1>7, StartSuspend DEF Begin, Contexts
<1>8. CASE Crash
  BY <1>8 DEF Crash, SuspendOK
<1> QED
  BY <1>2, <1>3, <1>4, <1>5, <1>6, <1>7, <1>8 DEF Step

(* The rest of the parent.                                                 *)
LEMMA ParentSuspend ==
  ASSUME TypeOK, SuspendOK,
         \/ SetMode \/ SkipEnter \/ SkipLeave \/ SkipEnd \/ SkipLost
         \/ DeliverUsr1 \/ UpdateRead \/ UpdateLeave
  PROVE  SuspendOK'
<1> USE DEF flags
<1>1. /\ up
      /\ SetMode \/ SkipEnter \/ SkipLeave \/ SkipEnd => pc["usr1"] = "idle"
      /\ frame["main"].after \in {"idle", "fetch"}
  BY DEF SetMode, SkipEnter, SkipLeave, SkipEnd, SkipLost, Skipping, DeliverUsr1,
         UpdateRead, UpdateLeave, Runs, SuspendOK
<1>2. CASE SetMode
  <2>1. suspend' = 1 => start' = 1
    BY <1>1, <1>2 DEF SetMode, SuspendOK
  <2> QED
    BY <1>1, <1>2, <2>1, ReturnSuspend DEF SetMode
<1>3. CASE SkipEnter
  <2>1. /\ pc'["main"] \in {"next_cs", "prev_cs"} /\ pc'["usr1"] = pc["usr1"]
        /\ frame'["main"].after = frame["main"].after
        /\ UNCHANGED <<start, suspend>>
    BY <1>3 DEF SkipEnter, Jump, TypeOK, Contexts, Frame
  <2> QED
    BY <1>1, <1>3, <2>1, MainSuspend DEF SuspendDue
<1>4. CASE SkipLeave
  BY <1>1, <1>4, WriteSuspend DEF SkipLeave
<1>5. CASE SkipEnd
  BY <1>1, <1>5, ReplaceSuspend DEF SkipEnd
<1>6. CASE SkipLost
  BY <1>6 DEF SkipLost, Crash, SuspendOK
<1>7. CASE DeliverUsr1
  <2>1. /\ pc'["usr1"] = "upd_p" /\ UNCHANGED <<suspend, frame>>
        /\ pc'["main"] \in {pc["main"], "next_eintr", "prev_eintr"}
    BY <1>7 DEF DeliverUsr1
  <2> QED
    BY <1>1, <2>1, HandlerSuspend DEF SuspendDue
<1>8. CASE UpdateRead \/ UpdateLeave
  <2>1. /\ pc'["usr1"] \in {"upd_v", "wait"} /\ pc'["main"] = pc["main"]
        /\ frame'["main"] = frame["main"] /\ UNCHANGED suspend
        /\ pc'["usr1"] = "wait" => frame'["usr1"].after = "fetch"
    BY <1>8 DEF UpdateRead, UpdateLeave, Jump, TypeOK, Contexts, Frame
  <2> QED
    BY <1>1, <2>1, HandlerSuspend DEF SuspendDue
<1> QED
  BY <1>2, <1>3, <1>4, <1>5, <1>6, <1>7, <1>8

(* g_suspend_flag never outlives the music, whoever skips, stops, changes  *)
(* the list or is interrupted: the next start begins a song and does not   *)
(* send a pause to nobody (player.c:308-311).                              *)
THEOREM SuspendedMeansStarted == SafetySpec => []SuspendedIsStarted
<1>1. Init => SuspendOK
  BY DEF Init, SuspendOK, SuspendDue, Resuming, Contexts, EmptyFrame
<1>2. TypeOK /\ SuspendOK /\ [Next]_vars => SuspendOK'
  <2> SUFFICES ASSUME TypeOK, SuspendOK, [Next]_vars PROVE SuspendOK'
    OBVIOUS
  <2>1. CASE Ask
    BY <2>1 DEF Ask, flags, SuspendOK, SuspendDue, Resuming
  <2>2. CASE MainStep \/ Usr1Step
    BY <2>2, HandleSuspend, StepSuspend, ParentSuspend
       DEF MainStep, Usr1Step, Contexts
  <2>3. CASE UNCHANGED <<start, suspend, pc, frame, up>>
    BY <2>3 DEF SuspendOK, SuspendDue, Resuming
  <2>4. ASSUME NEW p \in Pids, ProcStep(p)
        PROVE  UNCHANGED <<start, suspend, pc, frame, up>>
    BY <2>4 DEF ProcStep, Deliver, ChildStep, ChildFork, ChildWait, GrandStep,
                GrandEnter, GrandLost, GrandLeave, GrandTellParent, GrandTellChild,
                GrandExec, GrandExecFails, MpStep, MpOpen, MpRead, MpEnd, flags
  <2>5. CASE UNCHANGED vars
    BY <2>3, <2>5 DEF vars
  <2> QED
    BY <2>1, <2>2, <2>3, <2>4, <2>5 DEF Next
<1>3. TypeOK /\ SuspendOK => SuspendedIsStarted
  BY DEF SuspendOK, SuspendedIsStarted, Idle
<1> QED
  BY <1>1, <1>2, <1>3, TypeCorrect, PTL DEF SafetySpec

=============================================================================
