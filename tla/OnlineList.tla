----------------------------- MODULE OnlineList -----------------------------
(***************************************************************************)
(* The server's list of online speakers (2.server/player.cpp) and the      *)
(* callbacks of server.cpp that read and change it. A node ties a device   *)
(* id to the connection of the speaker (d_bev) and to that of the app that *)
(* controls it (a_bev). libevent runs one callback at a time.              *)
(***************************************************************************)
EXTENDS Integers, Sequences, FiniteSets

CONSTANTS
  Devices,     \* device ids
  DevBevs,     \* connections opened by speakers
  AppBevs,     \* connections opened by apps
  Owner,       \* the device id a connection names in its messages
  NoBev,       \* nullptr
  Timeout      \* seconds of silence that are still tolerated (6)

Bevs == DevBevs \union AppBevs

ASSUME BevsAssumption == DevBevs \intersect AppBevs = {} /\ NoBev \notin Bevs
ASSUME OwnerAssumption == Owner \in [Bevs -> Devices]
ASSUME TimeoutAssumption == Timeout \in Nat

VARIABLES
  online_list, \* the nodes, oldest first
  conn,        \* the state of every connection
  sent,        \* what the last callback sent: from whom, to whom
  up           \* the server process is alive

vars == <<online_list, conn, sent, up>>

Node == [deviceid: Devices, d_bev: DevBevs, a_bev: AppBevs \union {NoBev},
         d_age: 0..(Timeout + 1), a_age: 0..(Timeout + 1)]
Message == [from: Bevs, to: Bevs]

Indices == DOMAIN online_list
ByDeviceOrNone(d) == {}                                \* mutant of ByDevice
ByDevice(d) == {i \in Indices : online_list[i].deviceid = d}
ByAnySpeaker(b) == Indices                             \* mutant of BySpeaker
BySpeaker(b) == {i \in Indices : online_list[i].d_bev = b}
ByApp(b) == {i \in Indices : online_list[i].a_bev = b}
First(S) == CHOOSE i \in S : \A j \in S : i <= j

Without(i) == [j \in 1..(Len(online_list) - 1) |->
                 IF j < i THEN online_list[j] ELSE online_list[j + 1]]
Send(from, to) == [from |-> from, to |-> to]
ToApp(i, from) == IF online_list[i].a_bev = NoBev THEN {}
                  ELSE {Send(from, online_list[i].a_bev)}

-----------------------------------------------------------------------------
(* Connections. A speaker has one socket: it connects again only after it  *)
(* has given up the last one. FIN reaches the server as an EOF event; a    *)
(* reset or a power cut does not (EventCb looks at EOF only).              *)

Connect(b) ==
  /\ up /\ conn[b] = "unused"
  /\ b \in DevBevs => \A c \in DevBevs : Owner[c] = Owner[b] => conn[c] # "open"
  /\ conn' = [conn EXCEPT ![b] = "open"]
  /\ sent' = {}
  /\ UNCHANGED <<online_list, up>>

Disconnect(b) ==
  /\ up /\ conn[b] = "open"
  /\ \E how \in {"fin", "gone"} : conn' = [conn EXCEPT ![b] = how]
  /\ sent' = {}
  /\ UNCHANGED <<online_list, up>>

(* A message of b is in its buffer and ReadCb runs.                        *)
Reads(b) == up /\ conn[b] \in {"open", "fin"}

-----------------------------------------------------------------------------
(* Messages of a speaker.                                                  *)

(* "info", once a second. A known device keeps its d_bev.                  *)
DevUpdateList(b) ==
  /\ Reads(b) /\ b \in DevBevs
  /\ LET at == ByDevice(Owner[b])
     IN  \/ /\ at # {}
            /\ online_list' = [online_list EXCEPT ![First(at)].d_age = 0]
            /\ sent' = ToApp(First(at), b)
         \/ /\ at = {}
            /\ online_list' = Append(online_list,
                 [deviceid |-> Owner[b], d_bev |-> b, a_bev |-> NoBev,
                  d_age |-> 0, a_age |-> 0])
            /\ sent' = {}
  /\ UNCHANGED <<conn, up>>

(* "upload_music" goes to the app of the node whose speaker sent it.       *)
UploadMusic(b) ==
  /\ Reads(b) /\ b \in DevBevs
  /\ sent' = IF BySpeaker(b) = {} THEN {} ELSE ToApp(First(BySpeaker(b)), b)
  /\ UNCHANGED <<online_list, conn, up>>

(* A reply goes to the app; without one the speaker is told "offline".     *)
TransDevReply(b) ==
  /\ Reads(b) /\ b \in DevBevs
  /\ LET at == {i \in BySpeaker(b) : online_list[i].a_bev # NoBev}
     IN  sent' = IF at = {} THEN {Send(b, b)}
                 ELSE ToApp(First(at), b)
  /\ UNCHANGED <<online_list, conn, up>>

-----------------------------------------------------------------------------
(* Messages of an app.                                                     *)

(* "app_info", every two seconds: the last app to say it has the speaker.  *)
AttachToSpeaker(i, b) ==                               \* mutant of Attach
  [online_list EXCEPT ![i].a_bev = b, ![i].d_age = 0]
AttachAsSpeaker(i, b) == [online_list EXCEPT ![i].d_bev = b, ![i].a_age = 0]
Attach(i, b) == [online_list EXCEPT ![i].a_bev = b, ![i].a_age = 0]

AppUpdateList(b) ==
  /\ Reads(b) /\ b \in AppBevs
  /\ online_list' = IF ByDevice(Owner[b]) = {} THEN online_list
                    ELSE Attach(First(ByDevice(Owner[b])), b)
  /\ sent' = {}
  /\ UNCHANGED <<conn, up>>

TransAppCmd(b) ==
  /\ Reads(b) /\ b \in AppBevs
  /\ sent' = IF ByApp(b) = {} THEN {Send(b, b)}
             ELSE {Send(b, online_list[First(ByApp(b))].d_bev)}
  /\ UNCHANGED <<online_list, conn, up>>

(* Every node of the app is asked; without one there is no answer.         *)
CaptureCurMusicList(b) ==
  /\ Reads(b) /\ b \in AppBevs
  /\ sent' = {Send(b, online_list[i].d_bev) : i \in ByApp(b)}
  /\ UNCHANGED <<online_list, conn, up>>

Detach(i) == [online_list EXCEPT ![i].a_bev = NoBev]

AppOffline(b) ==
  /\ Reads(b) /\ b \in AppBevs
  /\ online_list' = IF ByApp(b) = {} THEN online_list ELSE Detach(First(ByApp(b)))
  /\ sent' = {}
  /\ UNCHANGED <<conn, up>>

-----------------------------------------------------------------------------
(* Events.                                                                 *)

(* EventCb with EOF: AppOrDevOffline.                                      *)
AppOrDevOffline(b) ==
  /\ up /\ conn[b] = "fin"
  /\ conn' = [conn EXCEPT ![b] = "gone"]
  /\ online_list' = IF ByApp(b) # {} THEN Detach(First(ByApp(b)))
                    ELSE IF BySpeaker(b) # {} THEN Without(First(BySpeaker(b)))
                    ELSE online_list
  /\ sent' = {}
  /\ UNCHANGED up

(* A second goes by; ages above Timeout + 1 are all the same.              *)
Older(age) == IF age > Timeout THEN age ELSE age + 1
Second ==
  /\ up
  /\ online_list' = [i \in Indices |->
       [online_list[i] EXCEPT !.d_age = Older(@), !.a_age = Older(@)]]
  /\ sent' = {}
  /\ UNCHANGED <<conn, up>>

(* TraverseList, every second: silent speakers leave, silent apps are      *)
(* detached. It goes on from the node it has just freed, so once a speaker *)
(* leaves the process may die.                                             *)
Expired(node) == node.d_age > Timeout
Kept == {i \in Indices : ~Expired(online_list[i])}
InOrder(S) == {f \in [1..Cardinality(S) -> S] : \A i, j \in DOMAIN f : i < j => f[i] < f[j]}
Unchecked(node) == node                                \* mutant of Checked
Checked(node) == IF node.a_age > Timeout THEN [node EXCEPT !.a_bev = NoBev]
                 ELSE node
TraverseList ==
  /\ up
  /\ \E kept \in InOrder(Kept) :
       online_list' = [i \in DOMAIN kept |-> Checked(online_list[kept[i]])]
  /\ up' \in IF \E i \in Indices : Expired(online_list[i]) THEN BOOLEAN ELSE {up}
  /\ sent' = {}
  /\ UNCHANGED conn

-----------------------------------------------------------------------------
Init == /\ online_list = <<>>
        /\ conn = [b \in Bevs |-> "unused"]
        /\ sent = {}
        /\ up = TRUE

Speaker(b) == DevUpdateList(b) \/ UploadMusic(b) \/ TransDevReply(b)
App(b) == \/ AppUpdateList(b) \/ TransAppCmd(b) \/ CaptureCurMusicList(b)
          \/ AppOffline(b)
Network(b) == Connect(b) \/ Disconnect(b)

Next == \/ \E b \in Bevs : Network(b) \/ Speaker(b) \/ App(b) \/ AppOrDevOffline(b)
        \/ Second \/ TraverseList

(* Time goes by, the timer fires and libevent reports every FIN; speakers  *)
(* and apps owe nothing.                                                   *)
Fairness == /\ WF_vars(Second) /\ WF_vars(TraverseList)
            /\ \A b \in Bevs : WF_vars(AppOrDevOffline(b))

SafetySpec == Init /\ [][Next]_vars
Spec == SafetySpec /\ Fairness

-----------------------------------------------------------------------------
(* Properties.                                                             *)

(* The nodes are made of speakers, apps and ages in bounds.                *)
TypeOK == /\ online_list \in Seq(Node)
          /\ conn \in [Bevs -> {"unused", "open", "fin", "gone"}]
          /\ sent \subseteq Message
          /\ up \in BOOLEAN

(* A speaker has one node, however often it connects again: a command and  *)
(* an app's app_info find the same one.                                    *)
UniqueDevices ==
  \A i, j \in Indices :
    online_list[i].deviceid = online_list[j].deviceid => i = j

(* Nobody hears or steers a speaker that is not his own.                   *)
Routed == \A m \in sent : Owner[m.from] = Owner[m.to]

Absent(bevs, d) == \A b \in bevs : Owner[b] = d => conn[b] \in {"unused", "gone"}

(* A speaker that is gone without a word leaves the list, whatever its     *)
(* apps do (player.cpp:145).                                               *)
GoneSpeakerLeaves ==
  \A d \in Devices :
    <>[]Absent(DevBevs, d) => <>[](~up \/ ByDevice(d) = {})

(* An app that is gone without a word is detached (player.cpp:152).        *)
GoneAppIsDetached ==
  \A d \in Devices :
    <>[]Absent(AppBevs, d) =>
      <>[](~up \/ \A i \in ByDevice(d) : online_list[i].a_bev = NoBev)

(* Once a speaker has reported on a connection, its node is updated        *)
(* (player.cpp:90): commands for it do not go to a connection that is gone *)
(* and of which the server will hear nothing more.                         *)
InfoMakesReachable ==
  [][\A b \in DevBevs : DevUpdateList(b) =>
       \E i \in DOMAIN online_list' :
         /\ online_list'[i].deviceid = Owner[b]
         /\ online_list'[i].d_bev = b \/ conn[online_list'[i].d_bev] # "gone"]_vars

=============================================================================
