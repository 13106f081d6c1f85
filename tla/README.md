# A verification of MusicPlayer

MusicPlayer is a networked speaker: a Linux device that plays songs with
mplayer and is steered by keyboard, button, voice and a Qt app; a libevent
server that ties apps to speakers and serves song lists; and the app itself.
This directory holds TLA+ modules that model these parts and how they interact,
TLC configurations that check them, and proofs that hold for any number of
processes, songs, speakers, accounts and commands.

Source paths below are relative to `src/`; `player.c` alone means
`1.hardware/Player/player/player.c`, `net.c` is `1.hardware/Player/net/net.c`,
`player.cpp` and `server.cpp` are those of `2.server/`.

## 1. The system

| Part | State | Operations | Talks to |
|---|---|---|---|
| Playback (`player.c`) | `g_start_flag`, `g_suspend_flag`, `music_head`; shared memory `Shm`; a System V semaphore; `/root/fifo/cmd_fifo`; one child and one grandchild process | StartPlay, StopPlay, SuspendPlay, ContinuePlay, NextPlay, PrevPlay, CirclePlay, SequencePlay, the SIGUSR1 handler UpdateMusic, ChildProcess | mplayer through the FIFO; its own processes through SIGUSR1 and wait; the server for lists |
| Select loop (`select.c`, `main.c`) | `READSET`, `g_maxfd` | MySelect, ReadStdIO, ReadSocket, ReadButton, ReadAsrFifo | calls Playback |
| Device link (`net.c`) | `g_sockfd`, `g_device_mode`, the reporter thread | InitSocket, SendServer, GetMusicName, Socket*, UploadMusic, ChangeOnlineMode, ChangeOfflineMode | server, Playback |
| Music list (`link.c`) | the list at `music_head` | InsertMusic, LinkMusicList, ClearMusicList | Playback |
| Button, volume (`device.c`) | press state, 300 ms timer; the ALSA mixer | ReadButton, Handle, SetVolume, GetVolume | Playback, in SIGALRM context |
| Speech (`1.hardware/Asr/`, `Tts/`, `Chatmodel/`) | wake-word state; play flag, voice | SherpaKws, SherpaAsr; Tts's loop, PlayCallBack, the signal handlers; one question to qianwen | select loop, by `asr_fifo`, `tts_fifo` and signals |
| Server registry (`player.cpp`) | `online_list` | DevUpdateList, AppUpdateList, TransAppCmd, TransDevReply, UploadMusic, CaptureCurMusicList, AppOffline, AppOrDevOffline, TraverseList | speakers and apps |
| Server dispatch, framing (`server.cpp`) | bufferevents, timer | ReadCb, EventCb, TimeoutCb, ServerReadData, SendData | registry, accounts |
| Accounts (`database.cpp`, `server.cpp`) | table of accounts and devices | RegisterUsr, Login, BindUsr | app windows |
| App (`3.app/`) | socket, timers, windows | login, bind, player window | server |

What makes these parts hard:

* **Playback** is four kinds of processes and a signal handler. A command, the
  end of a song, the end of a list and a death can meet in any order. Music is
  ended by three independent acts (signal the child, write `quit`, `waitpid`),
  each of which can come too early or too late. The lock is a semaphore with
  `SEM_UNDO`, taken by processes that may be killed inside and by a handler
  that may interrupt its own process. `open()` of the FIFO blocks without a
  reader, `write()` without one is deadly.
  Correct means: the lock is a lock and is never lost; one song at a time, and
  the songs in their order; after a stop there is silence; the status is true;
  a list that has ended is followed by the next; every command returns.
* **The registry** joins two independent, unreliable connections. Peers vanish
  with and without a FIN, come back on another connection before the server
  has noticed, and replace one another. Correct means: one node per speaker;
  nothing reaches a peer of another speaker; what is gone is forgotten; a
  speaker that reports can be reached.
* **The link** joins main, a reporter thread, three external processes and a
  server by one socket and three FIFOs. A list is asked for by taking whatever
  message comes next. The descriptor set is kept by hand, errors of one step
  are not seen by the next, and a mode change is many such steps.
  Correct means: after whatever failed, mode, socket, thread and `READSET`
  agree; the list is the one asked for; what the user says is taken.
* **The mouth** has one play flag for all texts, cleared by a signal.
  Correct means: a stop silences nothing that was said after it.
* **Accounts** are a table without a key and windows that remember what was
  typed while the answer is under way; both ends read one message for a
  notification, and a query that is refused looks like one that finds nothing.
  Correct means: an appid is registered once and keeps its password, a window
  acts for somebody who has logged in, and steers a speaker of his.
* **Button and window** see flags that move under them: the timer's handler
  runs in the middle of main's commands, the thread reads flag by flag.
  Correct means: flag and mplayer agree, timers belong to gestures, and the
  window comes to show what the speaker does.

## 2. Modules

| Module | What it is |
|---|---|
| `Playlist` | Abstract: a list is played from its first song to its last, and begins again after that or from silence. |
| `Playback` | The player's processes, and the refinement mapping to `Playlist`. |
| `OnlineList` | The server's registry with its callbacks, timer and connections. |
| `AccountBook` | Abstract: accounts as a book that only gains entries and bindings. |
| `Account` | Login and bind windows, the server's handlers, the table; implements `AccountBook`. |
| `Link` | Main's select loop, socket, list requests, mode switches, the server at the other end. |
| `Voice` | `Link` composed with the recognition and the synthesis process. |
| `Volume` | The arithmetic of the mixer. |
| `Remote` | Main, button, reporter thread, server relay and player window around one speaker; uses `Volume`. |
| `MCPlayback`, `MCOnlineList`, `MCAccount`, `MCVoice`, `MCRemote` | The instances for TLC. |
| `PlaybackProofs`, `LockProofs`, `PatientProofs`, `OnlineListProofs`, `AccountProofs`, `VoiceProofs`, `VolumeProofs`, `RemoteProofs` | The proofs (section 4). |

`Playback`, `Link` and `Remote` look at the same `main()` from three sides.
`Playback` has its processes and signals and knows no socket; `Link` has the
socket and the lists, and lets the player obey at once; `Remote` has the short
windows inside a command in which the button's handler can strike, and takes
songs for granted. What one of them simplifies is the subject of another.

### Playback

| Variable | Code |
|---|---|
| `start`, `suspend`, `list` | `g_start_flag`, `g_suspend_flag`, `music_head` of the parent |
| `pc`, `frame` | where main and `UpdateMusic` stand, and their locals (`cur_info`, the singer, the command for the FIFO) |
| `usr1`, `up` | a pending SIGUSR1 of the parent; whether it is alive |
| `shm` | `Shm`: the song, the mode, `child_pid` |
| `sem`, `adj` | the semaphore, and what the kernel undoes for each process |
| `st`, `proc` | state and memory of child, grandchildren and mplayer: parent, song, pause, signal mask, pending signal, copy of the list |
| `fifo` | commands in `/root/fifo/cmd_fifo` |
| `asked`, `budget` | a command waits in stdin, the socket or `asr_fifo`; bound on commands |
| `crossed` | history: main read a command that something had overtaken |

A step ends where the code may block (semop, wait, open of the FIFO) or where
another process or the handler can see a difference. So StopPlay is: signal the
child, clear the flags and begin the write (`StopPlay`); `FifoOpen`;
`FifoWrite`; `WaitPid`. ContinuePlay is two writes away from its flag
(`FifoOpen`, `FifoWrite`, `SetSuspend`). A grandchild is `ChildFork`,
`GrandEnter` (SemP, and what it decides from the shared block), `GrandLeave`
(publish, SemV), `GrandExec`, and at the end of a list `GrandTellParent`,
`GrandTellChild`. mplayer is external: `MpOpen`, `MpRead`, `MpEnd`.

Giving a command and reading it are two steps. `Ask` is the user's: a patient
one waits until the last command took effect (`Settled`: music plays, or
everything is silent). `Command` is main's, when it is back in `select`; the
end of a list may have run through the handler in between, and whatever was
settled need not be any more. From such a reading on `crossed` is true. Which
command it was is chosen when it is read: nobody can tell before.

What is abstracted:

* One command waits at a time, and stdin, socket, button and `asr_fifo` are one
  source.
* A song is a pair of its singer and its place in the list: names are not
  substrings of one another. Singers' names have one length, so the missing
  terminator after `strncpy` (player.c:228) does not show.
* The device is online from the start; mode switches are in `Link`. A request
  for a list succeeds, or fails and leaves no list (`Faulty`).
* `kill()` and the two flags after it are one step; a pending signal that is
  not blocked is taken before the process's next step; a child has installed
  its handler when it is forked.
* SIGUSR1 ends a child at once: `ChildQuitProcess` calls `fopen` with the
  number `O_WRONLY` for a mode string (player.c:268) and dies there, before
  it clears its flag. A grandchild inherits the handler until `execv`, and
  mplayer has the default action.
* A pid is not reused while shared memory or a local variable holds it. `Pids`
  bounds the processes that exist at a time; a fork waits for a free one.
* An answer fills a list that was cleared. `LinkMusicList` appends; where a
  list was not cleared, because the handler ran between main's request and its
  answer, the songs appended at its end are left out. The answers that the two
  then swap are not (`Reply`).
* The reader of the FIFO is mplayer itself, from `MpOpen` to its end; unread
  commands are lost with the last reader.
* `semop()` interrupted by the handler returns EINTR; `SemP` prints it and
  goes on, so main enters its critical section without the lock
  (`next_eintr`, `prev_eintr`). The button's SIGALRM, which could interrupt
  the handler's own `semop()`, is in `Remote` only.

### OnlineList

`online_list` is the list of nodes (`PLayerInfo`), `conn` the state of every
connection, `sent` what the last callback sent, `up` the process. Each callback
of `ReadCb` that touches the list is one action, libevent runs one at a time.
A connection names one device for life (`Owner`): a speaker has one id, and an
app window is opened for one. A speaker opens a connection only after it gave
up the last one. A connection ends with a FIN, which `EventCb` will see some
time (`fin`), or without (`gone`): a reset is an event of another kind that
`EventCb` ignores. After `erase(it)` the loop of `TraverseList` goes on from
the erased iterator; the model lets the process go on, or die. Ages stop at
`Timeout + 1`, one more than the largest that matters.

### Account

| Variable | Code |
|---|---|
| `account` | the rows of the table, by appid, in the order of their insertion (`database.cpp`) |
| `server` | the process: it runs, spins in `ServerReadData`, or is dead |
| `app` | which window is open, whether its message box is, `m_appid`/`bind_appid`/`app_id`, `bind_deviceid`/`player_deviceid` |
| `toServer`, `toApp` | each connection: what is on the wire, what is in the buffer |
| `proved`, `bound` | history: appids whose password an app has shown; speakers an appid was bound to |
| `clicks` | bound on clicks |

One callback or slot is one step, with every query it makes: no other callback
runs meanwhile. A database that refuses makes each check a "no", also the one of
`RegisterUsr`, which then inserts a second row; what `mysql_fetch_row` makes of
the null result depends on the client library, and it may also end the process
(`Dies`). Logins read the first row that is found, which in a table without a
key is the one inserted first; binding changes all rows of an appid. The server
starts on a table with one row for an appid at most. A message box blocks its window's slot
but not Qt's event loop, hence `box`.

### Link and Voice

| Variable | Code |
|---|---|
| `main`, `then` | where main waits (connect, reply, select, qianwen), and what for; `spins` and `dead` are where it ends |
| `mode`, `started`, `suspended`, `list`, `mounted` | `g_device_mode`, the two flags, whose songs `music_head` holds, the USB stick |
| `open`, `READSET`, `g_maxfd`, `g_sockfd` | the descriptors of the process and what it believes of them |
| `reporter`, `link` | the thread SendServer; the connection as the kernel sees it: up, closed by the peer, reset |
| `up`, `down` | what is under way on the socket |
| `toTts`, `tts`, `usr1` | `tts_fifo`; the synthesis process: its place, its play flag, its buffer; its pending signal |
| `asr`, `hears` | `asr_fifo`, one entry for a write; `cur_state` of the recognition process |
| `asked`, `mixed`, `stops`, `cut` | history: the singer asked for last, whether another message was taken for a list, stops sent and handled |
| `commands`, `talk` | bounds |

A step ends where main waits for somebody. `ProcessAsrSignal` sees everything
that one read returns and obeys the first word of its own order of tests. The
C library gives the lowest free descriptor; `popen` takes two for a moment and
keeps one. All songs of a list are one singer's. A socket that ends is found
by a read of no bytes, from which the code does not come back (`spins`).
The end of a list (`ListEnds`) meets main in `select`. Its handler may also
strike inside a `recv()`, `sleep()` or `system()` of main: there the two
requests cross, which `Playback` models (`Reply`) and `Link` leaves out.
qianwen, sherpa-onnx and the server's directory are external.

### Volume and Remote

`Volume` is `SetVolume`, `GetVolume`, `UpVolume` and `DownVolume` with C's
integer division, for a mixer from `minv` to `maxv`.

| Variable of `Remote` | Code |
|---|---|
| `start`, `suspend`, `paused` | the two flags; what mplayer really does |
| `doing`, `at`, `then` | the command main executes, where it is in it, and what follows it: a reply, the end of a gesture |
| `crossed` | history: the handler ran inside a command |
| `raw` | the mixer's value |
| `state`, `timer`, `keys`, `finger` | `state` of ReadButton, ITIMER_REAL, events not read, the finger |
| `seen` | the reporter's place between its single reads of the flags |
| `toSpeaker`, `toApp`, `ready` | messages behind the server, and readyRead signals left |
| `attached` | `a_bev` of the speaker's node |
| `window`, `informed`, `listed`, `shown`, `label`, `g_start`, `g_suspend` | the player window, its two timers, list, button text and own flags |
| `inputs` | bound on keys, presses and clicks |

A command is two or three steps: the flags are looked at (`Begin`), the FIFO is
written (`Write`), a flag is set (`SetFlag`); stop clears its flags one by one
(`StopHalf`). `Handle` runs between any two of them and is not interrupted.
How long a press was is known only when main measures it, so a release is long
or short as it likes. Messages that arrive together raise readyRead once
(`ToApp`), and `ReciveReply` reads one.

## 3. What the runs check

Passing runs:

| Run | Bounds | Shows |
|---|---|---|
| `playback_all` | 3 pids, 2 singers, 2 songs, 3 commands, every command, failures | `TypeOK`, `SuspendedIsStarted` |
| `playback_flags` | 4 pids, 3 songs, 4 commands start/stop/suspend/continue at any time, failures | `MutualExclusion`, `LockIsHeldInside`; until a command is overtaken `StoppedIsSilent`, `NoChildLeft`, `OnePlayer`, `StatusNamesTheSong`, and `SongsInOrder`: the player implements `Playlist` |
| `playback_wrap` | 4 pids, one list of two songs, 3 commands start/stop, a patient user | `FirstListRepeats`, under fairness |
| `online_list` | 2 speakers, 3 speaker connections, 2 apps, `Timeout` 0 | `TypeOK`, `UniqueDevices`, `Routed`; `GoneSpeakerLeaves`, `GoneAppIsDetached` under fairness |
| `account` | 2 apps, one patient, 2 appids, one registered before, 2 passwords, 1 speaker, 3 clicks | `TypeOK`, `WindowIsLoggedIn`, `PlayerIsBound`, `BookKept` (refinement); `PatientIsAnswered` under fairness |
| `voice` | 3 singers, 8 descriptors, 4 utterances, 2 waiting, 1 command of an app | `TypeOK`, `AllWatched`, `LinkIsWhole`, `ListIsAsked`, `ReplySpoken`, `Survives`; `UtteranceIsRead` under fairness |
| `remote` | mixer 0..20, 3 inputs, 2 button events, 1 message waiting | `TypeOK`, `FlagIsTrue`, `TimerHasGesture`, `VolumeObeys`; `LabelSettles`, `MusicShown` under fairness |

Violations, each a finding of `PROJECT.json`:

| Run | What happens |
|---|---|
| `playback_wrap_twice` | The second end of a list is the last: the child was forked in the handler and never gets SIGUSR1. |
| `playback_skip_lock` | Next on the last song returns with the lock. |
| `playback_stop` | Stop between two songs blocks for ever in `open()`. |
| `playback_cross` | A stop given while music plays, and read after the list has ended and the handler has forked the next child, finds the pid of the ended list: nobody is signalled or reaped, and the music goes on for a player that is stopped. |
| `online_list_reconnect` | A speaker that is back before the server has missed it keeps the node of its dead connection. |

**What the properties leave to the user.** Some hold only with a condition,
and the condition is what a reader should know.

* `StoppedIsSilent`, `NoChildLeft`, `OnePlayer`, `StatusNamesTheSong` and
  `SongsInOrder` hold until main reads a command while what the one before asked
  for is not there (`~crossed`). Impatient users bring that about, and for them
  a suspend between two songs is written to a mplayer that has yet to begin, and
  a stop just after a start finds no child pid in shared memory. But **patient**
  users do, too: a stop or suspend that was given while music played may be
  read between two songs or after the end of the list. `playback_cross` shows
  what becomes of the second stop, `playback_stop` of the first. Next, prev and
  singer changes are left to `playback_all`, because two mplayers may overlap
  for a moment there, and so are circle and sequence, which write back the whole
  shared block without the lock.
* `SongsInOrder` promises nothing once the parent has died, and does not tell a
  song that is published twice from one that is published once.
* `MutualExclusion` and `LockIsHeldInside` are for users without next and prev:
  with them main may be in its critical section without the lock (EINTR), or
  never leave it (`playback_skip_lock`). What is left to go wrong are deaths
  inside, and main, handler and grandchildren that compete.
* `FlagIsTrue` needs `~crossed` of `Remote`, and so says nothing of the very
  interleaving that the handler makes possible: a short press handled between
  the look at the flags and the change of the flag leaves "suspended" for a player that plays,
  or the reverse. `TimerHasGesture` allows one place (`disarm`), because
  ReadButton stops the timer only after NextPlay: the handler may still fire,
  and the same gesture is then next and pause.
* `VolumeObeys` moves the volume up from below 90 per cent and down from above
  10. From 90 on UpVolume sets 100 in a local variable only: the loudest tenth
  of the mixer is out of reach. Any key that is read counts as permission to
  move: that key 7 is up and key 8 down is not checked, that the app's commands
  obey their direction is.
* `WindowIsLoggedIn` and `PlayerIsBound` are for users who do not edit a
  request while it is out (`Hasty` is empty): `m_appid` is set when the button
  is clicked, and the answer to an earlier click would open a window for it.
* `BookKept` is about the row that logins read. That there is no other is not
  true: when the check of `RegisterUsr` is refused (database.cpp:104-110), an
  appid that is there is inserted again and its user told "success", with a
  password that never logs in. The `account` run reaches such tables.
* `PatientIsAnswered` excuses a server that spins in `ServerReadData`, which
  one slow sender is enough for, and one that has died of the database. It is
  for users with one request at a time: a second message may wait in the
  server's buffer until a third comes.
* `GoneSpeakerLeaves` and `GoneAppIsDetached` excuse a server that has died of
  its erased iterator.
* `ListIsAsked` excuses a list that was mixed up: `GetMusicName` takes the next
  message for its reply, even if it is an app's command.
* `Survives` and `UtteranceIsRead` name what the process is lost to: such a
  message, a singer without songs, a connection that was reset, `popen`
  without `pclose` until descriptors run out, the end of the socket's data.
  What they say is that nothing else is fatal. Of utterances that are read
  together the first word in the order of ProcessAsrSignal is obeyed, and all
  count as read.
* `LinkIsWhole` speaks of a main that waits in `select`, for a list or for
  qianwen, not of one that spins or is dead, and not of what is announced: the
  voice says "online" after ten refused connections, too.
* `MusicShown` starts with a speaker that is online when the window opens. A
  window asks for the list once; if the speaker comes later it shows none.

**Why these bounds.** *Playback*: three pids are a child, a grandchild and one
that is not yet reaped, or the next child; the fourth lets the successor of a
list's child fork while both old ones are zombies. Two songs give a first, a
last, and a boundary between songs, three (`playback_flags`) one that is neither;
the end of a list of five is the same step.
Three commands are a stop, a start and one that races them, four a start, a
suspend, a continue and a stop. *Registry*: a
second connection of a speaker is what stale nodes need, a second app what a
takeover needs, a second speaker what misrouting needs; the timeout of six
seconds is 0 or 1: silence that is still tolerated and silence that is not.
*Account*: three clicks register, log in and bind, or let two apps meet on one
appid; an old appid gives rows that nobody registered. *Voice*: four
utterances are a trigger and a word, twice, so a stop can meet the answer
before it and a mode can be left and entered again; `MaxFd` 8 leaves room for
the socket and lets `popen` run out; two waiting utterances are what one read
can join. Singers are one whom server and stick have, one of the way online
whom nobody has, and one of the way offline. *Remote*: three inputs are a
double press and a key or click in its middle; the mixer 0..20 loses steps to
rounding as any coarse one does; `MaxWire` 1 lets a second report wait while
the first is on its way, and reports that are joined are let through.
Process ids are symmetric in the runs that check no liveness.

**Deadlock** is not checked: users may stop giving commands, servers and
processes end, and the program really does hang in the ways listed as findings.

**Fairness** is stated once per module; users, speakers and apps owe nothing.

* `Playback`: processes run (WF of main, handler and every process), songs
  end, `semop()` serves its waiters in turn and a blocked `open()` is woken by
  a reader even if that reader does not stay, so SF for `SkipEnter`,
  `UpdateRead`, `GrandEnter` and `FifoOpen`.
* `OnlineList`: time goes by, the timer fires, every FIN is reported (WF).
* `Account`: what is sent arrives and both event loops run (WF of the reads).
* `Voice`: the kernel runs main, the server serves, qianwen ends (WF). main is
  between two returns to `select` elsewhere, and reads the socket before the
  FIFO, so `ReadSocket` and `ReadAsrFifo` are enabled again and again rather
  than always: SF. A server sends finitely much, so the FIFO is not starved.
* `Remote`: main, reporter and window run and timers fire (WF). `SendMusicInfo`
  has SF: main and the reporter share the socket, and when its buffer is full
  the kernel lets a blocked sender through in its turn.

## 4. What is proved

Every theorem holds for every value of its module's constants that the named
assumptions allow. Each of these invariants was checked with TLC first.

`PlaybackProofs!TypeCorrect`: `SafetySpec => []TypeOK`. One lemma per
operation; `ExitType` carries the death of a process, `NextSong` and `PrevSong`
the one place where the data matters: FindNextMusic stays inside the list
exactly when the name is found and is not the last.

`LockProofs!LockIsMutex`, `LockProofs!LockIsNeverLost`: for users without next
and prev, `MutualExclusion` and `LockIsHeldInside` always hold. Neither is
inductive. The invariant `LockInv` adds

* `NeverSkips`: main is never in or before the critical sections of NextPlay
  and PrevPlay, and no call returns there;
* `LockOK`: the kernel's undo count is 1 for exactly those inside, and either
  the semaphore is 1 and nobody is inside, or it is 0 and exactly one is.

The undo count is what makes a death inside harmless (`LockUndone`); the rest
is four lemmas (nobody moves, one takes, one gives back, one dies) and one step
per action. The hypothesis is needed: with next and prev both properties fail
(`playback_skip_lock`, and EINTR in `SemP`).

`PlaybackProofs!SuspendedMeansStarted` is for every user. `SuspendedIsStarted`
speaks of an idle parent; `SuspendOK` says what holds on the way. The handler
takes `g_start_flag` while `g_suspend_flag` may be set, and then resumes, which
clears it; and where it meets SuspendPlay between its look at the flags and its
write, `g_suspend_flag` is still 0, so that the handler starts the next list
and gives `g_start_flag` back before SuspendPlay goes on.

`PatientProofs` is about users who only start, stop, suspend and continue
(`PlainUser`, the users of `playback_flags`), with any pids, singers, songs and
failures and any number of commands, and about the time until one of them is
overtaken (`~crossed`). `OneSongAtATime`, `StatusIsTheSong` and `StopSilences`
follow from `PatientOK`.
It has three parts that cannot be had one without the other:

* `Tree`: one child, one grandchild, and who has whom as parent. The other two
  hold while the parent lives.
* `Families`: what the child, its grandchild and shared memory have in common.
  The song mplayer got is the song published, the pid published is the child's,
  a child without a song's name has handed it on, and a list ends only at its
  last song.
* `Phases`: where the parent may be. A stopped player between commands is
  silent. A stop either waits for ever for a child that ignores SIGUSR1
  (`StopStuck`), or the child dies before it forks again and the grandchild has
  its quit (`StopGoesOn`). At the end of a list the child is dead, dying or
  blocked (`EndOK`), and the handler starts the next list with nobody left
  (`FetchOK`).

A stop is safe because the grandchild it finds is the only one, and it is the
only one because lists and stops take turns. The lock enters where the handler
reads the pid: once it has `SemP`, no grandchild is left between its two
signals, since it would be inside (`LockOK`).

`PatientProofs!ChildrenAreReaped` needs one invariant more, `ReapOK`: the
parent has one child at most that is not reaped, and whoever waits, main in
StopPlay or the handler in UpdateMusic, waits for that one. So no `waitpid()`
returns with ECHILD and none means "any child". The hypotheses are needed: TLC
finds all four invariants violated by a patient user who changes the singer or
the mode. Without `~crossed` it finds `StoppedIsSilent` and `NoChildLeft`
violated by a patient user, and all four by an impatient one.

`PatientProofs!ListsAreInOrder` is the refinement of `Playlist`. The mapping has
to say when a list begins before anybody has published it: while the parent has
the signal or is in its handler, and while there is a child whose pid is not in
shared memory (`ForkedAnew`, `Phase`). `OrderOK` adds to the above what songs'
names have to do with that: a child that shared memory does not name has its
first song still to publish, itself or through its grandchild; one that it
names has none left, its grandchild looks the next one up and holds the
successor of the song it found; and only the latter is ever signalled.

`OnlineListProofs!TypeCorrect`, `DevicesAreUnique`, `MessagesAreRouted`, from
`ListInv`: besides types and unique devices, every node's speaker and app
belong to the device it names (`Own`). Routing follows from `Own`, which is
what each callback must keep. Removing nodes is the hard part; it is done once,
for a list made of nodes of another list, each taken once (`Image`).

`AccountProofs!TypeCorrect`, `WindowsAreLoggedIn`, `PlayersAreBound`,
`BookIsKept`, from `IInv`: what the windows may rely on is in messages under
way, so the invariant speaks of those. Every login request carries the appid
the window remembers, and every "bind" or "not_bind" under way is for an appid
that app has proved, with a speaker bound to it; the same for bind requests
(`Honest`); nobody binds before the bind window (`NoBind`). `BookIsKept` is
the refinement: the row found first is mapped to the book, and each handler is
a step of `AccountBook` or a stutter. A row that is inserted a second time goes
behind the one that is found, and a binding changes both.

`VoiceProofs!TypeCorrect`, `NothingIsMissed`, `LinkStaysWhole`,
`RepliesAreSpoken`. `LinkInv` holds the descriptors, `AllWatched`,
`LinkIsWhole` and one fact about where neither is visible: while main connects
nothing of an old link is left (`Alone`). `MouthInv` adds to `ReplySpoken` that a stop
sent and not handled is the pending signal, that no waiting text is younger
than the last stop, and that a text the process holds is not younger than the
last one it has handled. The rest is types (`Types`, `EarsOK`).

`VoiceProofs!ListsAreAsked`, `SpeakerSurvives`, from `ListInv`: at most one
request for a list is out, only while main waits, and it is for `asked`; its
answer comes once and says what the server has of that singer (`RequestOK`,
`AnswerOK`). So unless a message was mixed up the list is the one asked for.
A started player has a list (`PlayOK`), main has stopped before it connects or
asks, and outside the first connection there is a mode and a singer (`AskOK`):
what is left to die of is what `Survives` names.

`VolumeProofs!UpIsLouder`, `DownIsSofter`: on a mixer of more than ten steps
one step of ten per cent always moves it and never leaves the range, in spite
of two roundings. With ten steps or fewer a step may be lost, hence
`RangeAssumption`.

`RemoteProofs!TypeCorrect`, `FlagsAreTrue`, `TimersHaveGestures`,
`VolumesObey`, from `RemoteInv`: `CommandOK` says what the flags and mplayer
are at every place inside a command as long as the handler has not struck
there, and `GestureOK` what a gesture may be doing while its command runs.
`VolumesObey` uses the two theorems about `Volume`.

Assumptions, each named in the module that declares the constant: pids differ
from the three special ones, there is a song, commands are known ones
(`Playback`); connections are a speaker's or an app's and name one device
(`OnlineList`); null is no appid, password or device (`Account`); null and the
blank node are no singers, no directory on the stick is without a name, and
there are descriptors beyond those main starts with (`Link`); the mixer has more than ten steps (`Volume`); bounds are
numbers.

**Only model-checked**: everything under fairness (`FirstListRepeats`,
`GoneSpeakerLeaves`, `GoneAppIsDetached`, `PatientIsAnswered`,
`UtteranceIsRead`, `LabelSettles`, `MusicShown`): liveness and ENABLED are out
of the prover's reach. Every other property of a passing run is a theorem.

## 5. Not modelled

* Playback: mode switches in the middle of its processes (`Link` has them, with
  a player that obeys at once); `ChildQuitProcess` beyond its first failing
  call; the missing terminator after `strncpy` (player.c:228).
* Link and voice: keyboard, and the words and messages for next, prev, volume
  and mode, which change nothing these modules keep; a network that loses
  packets without closing; a directory without songs and texts beyond the
  buffers; the number of the voice (SIGUSR2); the death of the synthesis
  process; failures of `fork`, `pthread_create` and `malloc`.
* Remote: the two mode buttons, songs and lists; the hop through the server is
  part of the step that sends; one window.
* Registry: `GetMusicName` of the server, which reads a directory and changes
  nothing.
* Framing: lengths and bytes. That a whole message is awaited inside the event
  loop, and that one is taken for a callback, is in `Account`.
* sherpa-onnx, ALSA, mplayer, libevent, Qt, MySQL and qianwen: external,
  modelled by how they are used. What strings look like.
* Test programs (`testapp.cpp`, `testkey.c`, the mock server in
  `net/server.c`) and everything under `build/`, `lib/` and `CMakeFiles/`: no
  part of the product.
