-------------------------- MODULE OnlineListProofs --------------------------
(***************************************************************************)
(* Proofs about OnlineList for any number of speakers, apps and            *)
(* connections: its types, one node per speaker, and that nobody reaches a *)
(* speaker that is not his own.                                            *)
(***************************************************************************)
EXTENDS OnlineList, FiniteSetTheorems, TLAPS

(* A node belongs to the speaker it names, and so does its app.            *)
Own(n) == /\ Owner[n.d_bev] = n.deviceid
          /\ n.a_bev # NoBev => Owner[n.a_bev] = n.deviceid

Good(l) == /\ l \in Seq(Node)
           /\ \A i, j \in DOMAIN l : l[i].deviceid = l[j].deviceid => i = j
           /\ \A i \in DOMAIN l : Own(l[i])

RestOK == /\ conn \in [Bevs -> {"unused", "open", "fin", "gone"}]
          /\ sent \subseteq Message /\ Routed
          /\ up \in BOOLEAN

ListInv == Good(online_list) /\ RestOK

-----------------------------------------------------------------------------
(* The list.                                                               *)

(* g is a list of k nodes, of the same speakers as those at f in l.        *)
Image(l, k, g, f) ==
  /\ k \in Nat /\ g \in [1..k -> Node] /\ f \in [1..k -> DOMAIN l]
  /\ \A i, j \in 1..k : f[i] = f[j] => i = j
  /\ \A i \in 1..k : g[i].deviceid = l[f[i]].deviceid /\ Own(g[i])

(* A list made of other nodes of the same speakers, each taken once.       *)
LEMMA Mapped ==
  ASSUME NEW l, NEW k, NEW g, NEW f, Good(l), Image(l, k, g, f)
  PROVE  Good(g)
<1> USE DEF Image
<1>1. g \in Seq(Node) /\ DOMAIN g = 1..k
  OBVIOUS
<1>2. ASSUME NEW i \in 1..k, NEW j \in 1..k, g[i].deviceid = g[j].deviceid
      PROVE  i = j
  <2>1. f[i] \in DOMAIN l /\ f[j] \in DOMAIN l
    OBVIOUS
  <2>2. l[f[i]].deviceid = l[f[j]].deviceid
    BY <1>2
  <2>3. f[i] = f[j]
    BY <2>1, <2>2 DEF Good
  <2> QED BY <2>3
<1> QED BY <1>1, <1>2 DEF Good

(* One node changes and stays its speaker's own.                           *)
LEMMA OneChanges ==
  ASSUME NEW l, Good(l), NEW i \in DOMAIN l, NEW n \in Node,
         n.deviceid = l[i].deviceid, Own(n)
  PROVE  Good([l EXCEPT ![i] = n])
<1> DEFINE k == Len(l)  g == [l EXCEPT ![i] = n]  f == [j \in 1..k |-> j]
<1>1. l \in Seq(Node) /\ k \in Nat /\ DOMAIN l = 1..k
  BY DEF Good
<1>2. g \in [1..k -> Node]
  BY <1>1
<1>3. f \in [1..k -> DOMAIN l]
  BY <1>1
<1>4. \A j, m \in 1..k : f[j] = f[m] => j = m
  OBVIOUS
<1>5. \A j \in 1..k : g[j].deviceid = l[f[j]].deviceid /\ Own(g[j])
  BY <1>1 DEF Good
<1> HIDE DEF f, g, k
<1>6. Image(l, k, g, f)
  BY <1>1, <1>2, <1>3, <1>4, <1>5 DEF Image
<1>7. Good(g)
  BY <1>6, Mapped
<1> QED BY <1>7 DEF g

(* What sets of at most one index First is asked about.                    *)
LEMMA OneNode ==
  ASSUME Good(online_list), NEW b \in Bevs, NEW d \in Devices
  PROVE  /\ ByDevice(d) # {} => First(ByDevice(d)) \in ByDevice(d)
         /\ BySpeaker(b) # {} => First(BySpeaker(b)) \in BySpeaker(b)
         /\ ByApp(b) # {} => First(ByApp(b)) \in ByApp(b)
<1>1. ASSUME NEW S \in SUBSET Indices, NEW i \in S, \A j \in S : j = i
      PROVE  First(S) \in S
  <2>1. i \in Nat /\ i <= i
    BY DEF Good, Indices
  <2>2. \E k \in S : \A j \in S : k <= j
    BY <1>1, <2>1
  <2> QED BY <2>2, Zenon DEF First
<1>2. \A i, j \in ByDevice(d) : i = j
  BY DEF Good, ByDevice, Indices
<1>3. \A i, j \in BySpeaker(b) : i = j
  <2> SUFFICES ASSUME NEW i \in BySpeaker(b), NEW j \in BySpeaker(b) PROVE i = j
    OBVIOUS
  <2>1. Own(online_list[i]) /\ Own(online_list[j])
    BY DEF Good, BySpeaker, Indices
  <2> QED BY <2>1 DEF Good, BySpeaker, Indices, Own
<1>4. \A i, j \in ByApp(b) : i = j
  <2> SUFFICES ASSUME NEW i \in ByApp(b), NEW j \in ByApp(b) PROVE i = j
    OBVIOUS
  <2>1. Own(online_list[i]) /\ Own(online_list[j]) /\ b # NoBev
    BY BevsAssumption DEF Good, ByApp, Indices
  <2> QED BY <2>1 DEF Good, ByApp, Indices, Own
<1>5. /\ ByDevice(d) \in SUBSET Indices /\ BySpeaker(b) \in SUBSET Indices
      /\ ByApp(b) \in SUBSET Indices
  BY DEF ByDevice, BySpeaker, ByApp
<1> QED BY <1>1, <1>2, <1>3, <1>4, <1>5

(* A node's speaker, its device and its app are of the same owner, and     *)
(* what a speaker sends goes to its own app.                               *)
LEMMA ToAppIsRouted ==
  ASSUME Good(online_list), NEW i \in Indices, NEW b \in DevBevs,
         Owner[b] = online_list[i].deviceid
  PROVE  ToApp(i, b) \subseteq Message /\ \A m \in ToApp(i, b) : Owner[m.from] = Owner[m.to]
<1>1. online_list[i] \in Node /\ Own(online_list[i])
  BY DEF Good, Indices
<1> QED BY <1>1 DEF ToApp, Send, Message, Bevs, Node, Own

(* An app leaves its node.                                                 *)
LEMMA DetachIsGood ==
  ASSUME Good(online_list), NEW i \in Indices
  PROVE  Good(Detach(i))
<1> DEFINE n == [online_list[i] EXCEPT !.a_bev = NoBev]
<1>1. online_list[i] \in Node /\ Own(online_list[i]) /\ i \in DOMAIN online_list
  BY DEF Good, Indices
<1>2. n \in Node /\ n.deviceid = online_list[i].deviceid /\ Own(n)
  BY <1>1 DEF Node, Own
<1>3. Detach(i) = [online_list EXCEPT ![i] = n]
  BY DEF Detach
<1> HIDE DEF n
<1>4. Good([online_list EXCEPT ![i] = n])
  BY <1>1, <1>2, OneChanges
<1> QED BY <1>3, <1>4

-----------------------------------------------------------------------------
(* The handlers.                                                           *)

(* A speaker reports: its node is renewed, or made.                        *)
LEMMA DevUpdateListInv ==
  ASSUME ListInv, NEW b \in Bevs, DevUpdateList(b)
  PROVE  ListInv'
<1> DEFINE at == ByDevice(Owner[b])  i == First(at)
<1>1. b \in DevBevs /\ Owner[b] \in Devices /\ Good(online_list)
  BY OwnerAssumption DEF DevUpdateList, ListInv
<1>2. CASE at # {}
  <2>1. i \in Indices /\ online_list[i].deviceid = Owner[b]
    BY <1>1, <1>2, OneNode DEF ByDevice
  <2> DEFINE n == [online_list[i] EXCEPT !.d_age = 0]
  <2>2. online_list[i] \in Node /\ Own(online_list[i])
    BY <1>1, <2>1 DEF Good, Indices
  <2>3. n \in Node /\ n.deviceid = online_list[i].deviceid /\ Own(n)
    BY <2>2, TimeoutAssumption DEF Node, Own
  <2>4. online_list' = [online_list EXCEPT ![i] = n] /\ sent' = ToApp(i, b)
    BY <1>2 DEF DevUpdateList
  <2> HIDE DEF n, i
  <2>5. Good(online_list')
    BY <1>1, <2>1, <2>3, <2>4, OneChanges DEF Indices
  <2>6. RestOK'
    BY <1>1, <2>1, <2>4, ToAppIsRouted DEF RestOK, ListInv, DevUpdateList, Routed
  <2> QED BY <2>5, <2>6 DEF ListInv
<1>3. CASE at = {}
  <2> DEFINE n == [deviceid |-> Owner[b], d_bev |-> b, a_bev |-> NoBev,
                   d_age |-> 0, a_age |-> 0]
  <2>1. online_list' = Append(online_list, n) /\ sent' = {}
    BY <1>3 DEF DevUpdateList
  <2>2. n \in Node /\ Own(n) /\ n.deviceid = Owner[b]
    BY <1>1, TimeoutAssumption DEF Node, Own
  <2>3. \A j \in DOMAIN online_list : online_list[j].deviceid # Owner[b]
    BY <1>3 DEF ByDevice, Indices
  <2> HIDE DEF n
  <2>4. online_list \in Seq(Node) /\ Append(online_list, n) \in Seq(Node)
    BY <1>1, <2>2 DEF Good
  <2> DEFINE k == Len(online_list)  l == Append(online_list, n)
  <2>5. /\ k \in Nat /\ DOMAIN online_list = 1..k /\ DOMAIN l = 1..(k + 1)
        /\ l[k + 1] = n /\ \A j \in 1..k : l[j] = online_list[j]
    BY <2>4
  <2> HIDE DEF k, l
  <2>6. \A j \in DOMAIN l : j \in 1..k \/ j = k + 1
    BY <2>5
  <2>7. Good(l)
    <3>1. \A j \in DOMAIN l : Own(l[j])
      BY <1>1, <2>2, <2>5, <2>6 DEF Good
    <3>2. \A j, m \in DOMAIN l : l[j].deviceid = l[m].deviceid => j = m
      BY <1>1, <2>2, <2>3, <2>5, <2>6 DEF Good
    <3>3. l \in Seq(Node)
      BY <2>4 DEF l
    <3> QED BY <3>1, <3>2, <3>3 DEF Good
  <2>8. RestOK'
    BY <2>1 DEF RestOK, ListInv, DevUpdateList, Routed
  <2> QED BY <2>1, <2>7, <2>8 DEF ListInv, l
<1> QED BY <1>2, <1>3

(* Uploads and replies of a speaker go to the app of its node.             *)
LEMMA FromSpeakerInv ==
  ASSUME ListInv, NEW b \in Bevs, UploadMusic(b) \/ TransDevReply(b)
  PROVE  ListInv'
<1>1. b \in DevBevs /\ Good(online_list)
  BY DEF UploadMusic, TransDevReply, ListInv
<1>2. ASSUME NEW i \in BySpeaker(b)
      PROVE  ToApp(i, b) \subseteq Message /\ \A m \in ToApp(i, b) : Owner[m.from] = Owner[m.to]
  <2>1. i \in Indices /\ Owner[b] = online_list[i].deviceid
    BY <1>1 DEF BySpeaker, Good, Own, Indices
  <2> QED BY <1>1, <2>1, ToAppIsRouted
<1>3. BySpeaker(b) # {} => First(BySpeaker(b)) \in BySpeaker(b)
  BY <1>1, OneNode, OwnerAssumption
<1>4. Send(b, b) \in Message /\ Send(b, b).from = Send(b, b).to
  BY DEF Send, Message
<1>5. \A S \in SUBSET BySpeaker(b) : S # {} => First(S) \in S
  <2> SUFFICES ASSUME NEW S \in SUBSET BySpeaker(b), NEW i \in S PROVE First(S) \in S
    OBVIOUS
  <2>1. \A j \in S : j = i
    BY <1>1 DEF BySpeaker, Good, Own, Indices
  <2>2. i \in Nat
    BY <1>1 DEF BySpeaker, Good, Indices
  <2>3. \E k \in S : \A j \in S : k <= j
    BY <2>1, <2>2
  <2> QED BY <2>3, Zenon DEF First
<1>6. sent' \subseteq Message /\ \A m \in sent' : Owner[m.from] = Owner[m.to]
  <2>1. CASE UploadMusic(b)
    BY <2>1, <1>2, <1>3 DEF UploadMusic
  <2>2. CASE TransDevReply(b)
    <3> DEFINE at == {i \in BySpeaker(b) : online_list[i].a_bev # NoBev}
    <3>1. sent' = {Send(b, b)} \/ (at # {} /\ sent' = ToApp(First(at), b))
      BY <2>2 DEF TransDevReply
    <3>2. at # {} => First(at) \in BySpeaker(b)
      BY <1>5
    <3> HIDE DEF at
    <3> QED BY <3>1, <3>2, <1>2, <1>4
  <2> QED BY <2>1, <2>2
<1>7. UNCHANGED <<online_list, conn, up>>
  BY DEF UploadMusic, TransDevReply
<1> QED
  <2>1. Good(online_list)'
    BY <1>1, <1>7 DEF Good, Own
  <2> QED BY <2>1, <1>6, <1>7 DEF ListInv, RestOK, Routed
(* An app takes the node of its speaker, or leaves it.                     *)
LEMMA FromAppInv ==
  ASSUME ListInv, NEW b \in Bevs, App(b)
  PROVE  ListInv'
<1>1. b \in AppBevs /\ Good(online_list) /\ Owner[b] \in Devices /\ NoBev \notin Bevs
  BY BevsAssumption, OwnerAssumption
  DEF App, AppUpdateList, TransAppCmd, CaptureCurMusicList, AppOffline, ListInv
<1>2. ASSUME NEW i \in Indices PROVE online_list[i] \in Node /\ Own(online_list[i])
  BY <1>1 DEF Good, Indices
<1>3. RestOK
  BY DEF ListInv
<1>4. CASE AppUpdateList(b)
  <2> DEFINE at == ByDevice(Owner[b])  i == First(at)
  <2>1. RestOK'
    BY <1>4, <1>3 DEF AppUpdateList, RestOK, Routed
  <2>2. at = {} => Good(online_list)'
    BY <1>4, <1>1 DEF AppUpdateList, Good, Own
  <2>3. ASSUME at # {} PROVE Good(online_list')
    <3>1. i \in Indices /\ online_list[i].deviceid = Owner[b]
      BY <1>1, <2>3, OneNode DEF ByDevice
    <3> DEFINE m == online_list[i]
    <3> HIDE DEF i
    <3>2. m \in Node
      BY <1>2, <3>1
    <3> HIDE DEF m
    <3> DEFINE n == [m EXCEPT !.a_bev = b, !.a_age = 0]
    <3>3. b \in AppBevs \union {NoBev} /\ 0 \in 0..(Timeout + 1)
      BY <1>1, TimeoutAssumption
    <3>4. n \in Node /\ n.deviceid = m.deviceid /\ n.a_bev = b /\ n.d_bev = m.d_bev
      <4>1. n \in Node
        BY <3>2, <3>3 DEF Node
      <4>2. n.a_bev = b
        BY <3>2 DEF Node
      <4>3. n.deviceid = m.deviceid /\ n.d_bev = m.d_bev
        BY <3>2 DEF Node
      <4> QED BY <4>1, <4>2, <4>3
    <3> USE DEF m
    <3>5. Own(n)
      BY <1>2, <3>1, <3>4 DEF Own
    <3>6. online_list' = [online_list EXCEPT ![i] = n]
      BY <1>4, <2>3 DEF AppUpdateList, Attach, i
    <3> HIDE DEF n
    <3> QED BY <1>1, <3>1, <3>4, <3>5, <3>6, OneChanges DEF Indices
  <2> QED BY <2>1, <2>2, <2>3 DEF ListInv
<1>5. CASE AppOffline(b)
  <2> DEFINE at == ByApp(b)  i == First(at)
  <2>1. RestOK'
    BY <1>5, <1>3 DEF AppOffline, RestOK, Routed
  <2>2. at = {} => Good(online_list)'
    BY <1>5, <1>1 DEF AppOffline, Good, Own
  <2>3. ASSUME at # {} PROVE Good(online_list')
    <3>1. i \in Indices
      BY <1>1, <2>3, OneNode DEF ByApp
    <3>2. online_list' = Detach(i)
      BY <1>5, <2>3 DEF AppOffline
    <3> HIDE DEF i
    <3> QED BY <1>1, <3>1, <3>2, DetachIsGood
  <2> QED BY <2>1, <2>2, <2>3 DEF ListInv
<1>6. CASE TransAppCmd(b) \/ CaptureCurMusicList(b)
  <2>1. ASSUME NEW i \in ByApp(b)
        PROVE  /\ Send(b, online_list[i].d_bev) \in Message
               /\ Owner[b] = Owner[online_list[i].d_bev]
    <3>1. i \in Indices /\ online_list[i].a_bev = b
      BY DEF ByApp
    <3> QED BY <1>1, <1>2, <3>1 DEF Send, Message, Node, Own, Bevs
  <2>2. ByApp(b) # {} => First(ByApp(b)) \in ByApp(b)
    BY <1>1, OneNode
  <2>3. sent' \subseteq Message /\ \A m \in sent' : Owner[m.from] = Owner[m.to]
    <3>1. CASE TransAppCmd(b)
      <4>1. CASE ByApp(b) = {}
        BY <3>1, <4>1 DEF TransAppCmd, Send, Message
      <4>2. CASE ByApp(b) # {}
        BY <3>1, <4>2, <2>1, <2>2 DEF TransAppCmd, Send
      <4> QED BY <4>1, <4>2
    <3>2. CASE CaptureCurMusicList(b)
      BY <3>2, <2>1 DEF CaptureCurMusicList, Send
    <3> QED BY <1>6, <3>1, <3>2
  <2>4. UNCHANGED <<online_list, conn, up>>
    BY <1>6 DEF TransAppCmd, CaptureCurMusicList
  <2>5. Good(online_list)'
    BY <1>1, <2>4 DEF Good, Own
  <2> QED BY <1>3, <2>3, <2>4, <2>5 DEF ListInv, RestOK, Routed
<1> QED BY <1>4, <1>5, <1>6 DEF App

(* A connection ends: its app is detached, or its node leaves.             *)
LEMMA AppOrDevOfflineInv ==
  ASSUME ListInv, NEW b \in Bevs, AppOrDevOffline(b)
  PROVE  ListInv'
<1>1. Good(online_list)
  BY DEF ListInv
<1>2. RestOK'
  BY DEF ListInv, RestOK, AppOrDevOffline, Routed
<1>3. CASE ByApp(b) # {}
  <2> DEFINE i == First(ByApp(b))
  <2>1. i \in Indices /\ online_list' = Detach(i)
    BY <1>1, <1>3, OneNode, OwnerAssumption DEF ByApp, AppOrDevOffline
  <2> HIDE DEF i
  <2> QED BY <1>1, <1>2, <2>1, DetachIsGood DEF ListInv
<1>4. CASE ByApp(b) = {} /\ BySpeaker(b) # {}
  <2> DEFINE i == First(BySpeaker(b))
  <2>1. i \in Indices /\ online_list' = Without(i)
    BY <1>1, <1>4, OneNode, OwnerAssumption DEF BySpeaker, AppOrDevOffline
  <2> HIDE DEF i
  <2> DEFINE k == Len(online_list) - 1  f == [j \in 1..k |-> IF j < i THEN j ELSE j + 1]
             g == Without(i)
  <2>2. /\ online_list \in Seq(Node) /\ DOMAIN online_list = 1..(k + 1)
        /\ i \in 1..(k + 1) /\ k \in Nat
    BY <1>1, <2>1 DEF Good, Indices
  <2>3. f \in [1..k -> DOMAIN online_list]
    BY <2>2
  <2>4. \A j, m \in 1..k : f[j] = f[m] => j = m
    BY <2>2
  <2>5. g = [j \in 1..k |-> online_list[f[j]]]
    BY <2>2 DEF Without
  <2> HIDE DEF f, g, k
  <2>6. g \in [1..k -> Node] /\ \A j \in 1..k : g[j] = online_list[f[j]]
    BY <2>2, <2>3, <2>5
  <2>7. \A j \in 1..k : g[j].deviceid = online_list[f[j]].deviceid /\ Own(g[j])
    BY <1>1, <2>3, <2>6 DEF Good
  <2>8. Image(online_list, k, g, f)
    BY <2>2, <2>3, <2>4, <2>6, <2>7 DEF Image
  <2>9. Good(g)
    BY <1>1, <2>8, Mapped
  <2> QED BY <1>2, <2>1, <2>9 DEF ListInv, g
<1>5. CASE ByApp(b) = {} /\ BySpeaker(b) = {}
  <2>1. Good(online_list)'
    BY <1>1, <1>5 DEF AppOrDevOffline, Good, Own
  <2> QED BY <1>2, <2>1 DEF ListInv
<1> QED BY <1>3, <1>4, <1>5

(* Nodes grow older.                                                       *)
LEMMA SecondInv ==
  ASSUME ListInv, Second
  PROVE  ListInv'
<1> DEFINE l == online_list  k == Len(l)  g == online_list'
           f == [i \in 1..k |-> i]
<1>1. Good(l) /\ RestOK'
  BY DEF ListInv, RestOK, Second, Routed
<1>2. l \in Seq(Node) /\ k \in Nat /\ DOMAIN l = 1..k
  BY <1>1 DEF Good
<1>3. f \in [1..k -> DOMAIN l] /\ \A i, j \in 1..k : f[i] = f[j] => i = j
  BY <1>2
<1> DEFINE Aged(n) == [n EXCEPT !.d_age = Older(@), !.a_age = Older(@)]
<1>4. ASSUME NEW n \in Node
      PROVE  /\ Aged(n) \in Node /\ Aged(n).deviceid = n.deviceid
             /\ Aged(n).d_bev = n.d_bev /\ Aged(n).a_bev = n.a_bev
  <2>1. \A a \in 0..(Timeout + 1) : Older(a) \in 0..(Timeout + 1)
    BY TimeoutAssumption DEF Older
  <2> QED BY <2>1 DEF Node
<1>5. g = [i \in 1..k |-> Aged(l[i])]
  BY <1>2 DEF Second, Indices
<1> HIDE DEF Aged
<1>6. g \in [1..k -> Node]
  BY <1>2, <1>4, <1>5
<1>7. \A i \in 1..k : /\ g[i].deviceid = l[f[i]].deviceid
                      /\ g[i].d_bev = l[i].d_bev /\ g[i].a_bev = l[i].a_bev
  BY <1>2, <1>4, <1>5
<1>8. \A i \in 1..k : Own(g[i])
  BY <1>1, <1>2, <1>7 DEF Good, Own
<1> HIDE DEF f, g, k, l
<1>9. Image(l, k, g, f)
  BY <1>2, <1>3, <1>6, <1>7, <1>8 DEF Image
<1>10. Good(g)
  BY <1>1, <1>9, Mapped
<1> QED BY <1>1, <1>10 DEF ListInv, g

(* Those that have not expired stay, in their order.                       *)
LEMMA TraverseListInv ==
  ASSUME ListInv, TraverseList
  PROVE  ListInv'
<1> DEFINE l == online_list  k == Cardinality(Kept)  g == online_list'
<1>1. Good(l) /\ RestOK'
  BY DEF ListInv, RestOK, TraverseList, Routed
<1>2. l \in Seq(Node) /\ DOMAIN l = 1..Len(l) /\ Len(l) \in Nat
  BY <1>1 DEF Good
<1>3. Kept \subseteq 1..Len(l) /\ IsFiniteSet(1..Len(l))
  BY <1>2, FS_Interval DEF Kept, Indices
<1>4. k \in Nat
  BY <1>3, FS_Subset, FS_CardinalityType
<1>5. PICK f \in InOrder(Kept) : online_list' = [i \in DOMAIN f |-> Checked(l[f[i]])]
  BY DEF TraverseList
<1>6. f \in [1..k -> DOMAIN l] /\ \A i, j \in 1..k : i < j => f[i] < f[j]
  BY <1>2, <1>3 DEF InOrder
<1>7. \A i, j \in 1..k : f[i] = f[j] => i = j
  BY <1>2, <1>4, <1>6
<1>8. ASSUME NEW n \in Node, Own(n)
      PROVE  Checked(n) \in Node /\ Own(Checked(n)) /\ Checked(n).deviceid = n.deviceid
  BY <1>8 DEF Checked, Node, Own
<1>9. g = [i \in 1..k |-> Checked(l[f[i]])]
  BY <1>5, <1>6
<1>10. \A i \in 1..k : l[f[i]] \in Node /\ Own(l[f[i]])
  BY <1>1, <1>2, <1>6 DEF Good
<1> HIDE DEF g, k, l
<1>11. g \in [1..k -> Node]
  BY <1>8, <1>9, <1>10
<1>12. \A i \in 1..k : g[i].deviceid = l[f[i]].deviceid /\ Own(g[i])
  BY <1>8, <1>9, <1>10
<1>13. Image(l, k, g, f)
  BY <1>4, <1>6, <1>7, <1>11, <1>12 DEF Image
<1>14. Good(g)
  BY <1>1, <1>13, Mapped
<1> QED BY <1>1, <1>14 DEF ListInv, g

-----------------------------------------------------------------------------
(* The invariant, and what follows from it.                                *)

(* Every node belongs to its speaker after every callback.                 *)
LEMMA Invariant == SafetySpec => []ListInv
<1>1. Init => ListInv
  <2> SUFFICES ASSUME Init PROVE ListInv
    OBVIOUS
  <2>1. <<>> \in Seq(Node) /\ DOMAIN <<>> = {}
    OBVIOUS
  <2>2. Good(<<>>)
    BY <2>1, Zenon DEF Good
  <2> QED BY <2>2 DEF Init, ListInv, RestOK, Routed
<1>2. ListInv /\ [Next]_vars => ListInv'
  <2> SUFFICES ASSUME ListInv, [Next]_vars PROVE ListInv'
    OBVIOUS
  <2>1. CASE UNCHANGED <<online_list, sent>> /\ RestOK'
    BY <2>1 DEF ListInv, Good, Own
  <2>2. CASE UNCHANGED vars
    BY <2>1, <2>2 DEF vars, ListInv, RestOK, Routed
  <2>3. ASSUME NEW b \in Bevs, Network(b) PROVE ListInv'
    <3>1. online_list' = online_list /\ RestOK'
      BY <2>3 DEF Network, Connect, Disconnect, ListInv, RestOK, Routed
    <3> QED BY <3>1 DEF ListInv, Good, Own
  <2>4. ASSUME NEW b \in Bevs, Speaker(b) PROVE ListInv'
    BY <2>4, DevUpdateListInv, FromSpeakerInv DEF Speaker
  <2> QED BY <2>2, <2>3, <2>4, FromAppInv, AppOrDevOfflineInv, SecondInv, TraverseListInv
          DEF Next
<1> QED BY <1>1, <1>2, PTL DEF SafetySpec

(* Nodes, connections and messages keep their types (player.hpp:10-23).    *)
THEOREM TypeCorrect == SafetySpec => []TypeOK
<1>1. ListInv => TypeOK
  BY DEF ListInv, Good, RestOK, TypeOK
<1> QED BY <1>1, Invariant, PTL

(* A speaker has one node, however often it connects again                 *)
(* (player.cpp:83-119).                                                    *)
THEOREM DevicesAreUnique == SafetySpec => []UniqueDevices
<1>1. ListInv => UniqueDevices
  BY DEF ListInv, Good, UniqueDevices, Indices
<1> QED BY <1>1, Invariant, PTL

(* Whatever connections come and go, a message reaches only peers of its   *)
(* sender's speaker (player.cpp:161-239, 275-288).                         *)
THEOREM MessagesAreRouted == SafetySpec => []Routed
<1>1. ListInv => Routed
  BY DEF ListInv, RestOK
<1> QED BY <1>1, Invariant, PTL

=============================================================================
