--------------------------- MODULE AccountProofs ---------------------------
(***************************************************************************)
(* Proofs about Account for any number of apps, accounts and speakers: its *)
(* types, what the windows may rely on, and that the handlers implement    *)
(* AccountBook.                                                            *)
(***************************************************************************)
EXTENDS Account, SequenceTheorems, TLAPS

-----------------------------------------------------------------------------
(* Channels.                                                               *)

(* A message is in a channel when it is one of its two sequences.          *)
LEMMA InMessages ==
  ASSUME NEW c, NEW x
  PROVE  x \in Messages(c) <=> \/ \E i \in DOMAIN c.buf : x = c.buf[i]
                               \/ \E i \in DOMAIN c.wire : x = c.wire[i]
BY Zenon DEF Messages

(* Sending keeps the type and adds the message.                            *)
LEMMA SendIsTyped ==
  ASSUME NEW M, NEW c \in Channel(M), NEW m \in M
  PROVE  /\ Send(c, m) \in Channel(M)
         /\ \A x : x \in Messages(Send(c, m)) <=> x \in Messages(c) \/ x = m
<1>1. c.wire \in Seq(M) /\ c.buf \in Seq(M)
  BY DEF Channel
<1>2. Append(c.wire, m) \in Seq(M)
  BY <1>1
<1>3. Send(c, m).wire = Append(c.wire, m) /\ Send(c, m).buf = c.buf
  BY DEF Send
<1>4. ASSUME NEW x
      PROVE  (\E i \in DOMAIN Append(c.wire, m) : x = Append(c.wire, m)[i])
                <=> (\E i \in DOMAIN c.wire : x = c.wire[i]) \/ x = m
  <2> DEFINE w == c.wire  a == Append(w, m)
  <2>1. /\ Len(w) \in Nat /\ Len(a) = Len(w) + 1 /\ a[Len(w) + 1] = m
        /\ \A i \in 1..Len(w) : a[i] = w[i]
        /\ DOMAIN w = 1..Len(w) /\ DOMAIN a = 1..Len(a)
    BY <1>1, <1>2
  <2> HIDE DEF a, w
  <2>2. \A i \in 1..Len(a) : i \in 1..Len(w) \/ i = Len(w) + 1
    BY <2>1
  <2>3. 1..Len(w) \subseteq 1..Len(a) /\ Len(w) + 1 \in 1..Len(a)
    BY <2>1
  <2>4. (\E i \in DOMAIN a : x = a[i]) <=> (\E i \in DOMAIN w : x = w[i]) \/ x = m
    BY <2>1, <2>2, <2>3, Zenon
  <2> QED BY <2>4 DEF a, w
<1>5. ASSUME NEW x
      PROVE  x \in Messages(Send(c, m)) <=> x \in Messages(c) \/ x = m
  BY <1>3, <1>4, InMessages
<1>6. Send(c, m) \in Channel(M)
  BY <1>1, <1>2 DEF Send, Channel
<1> QED BY <1>5, <1>6

(* f and t hold elements of b and w only, and f can be read.               *)
Moved(M, b, w, f, t) ==
  /\ f \in Seq(M) /\ t \in Seq(M) /\ Tail(f) \in Seq(M)
  /\ \A i \in DOMAIN f : \/ \E j \in DOMAIN b : f[i] = b[j]
                         \/ \E j \in DOMAIN w : f[i] = w[j]
  /\ \A i \in DOMAIN t : \E j \in DOMAIN w : t[i] = w[j]
  /\ \A i \in DOMAIN Tail(f) : \E j \in DOMAIN f : Tail(f)[i] = f[j]
  /\ Head(f) \in M /\ \E j \in DOMAIN f : Head(f) = f[j]

(* The first n elements of w move behind b, and the first of all is read.  *)
LEMMA MoveElements ==
  ASSUME NEW M, NEW b \in Seq(M), NEW w \in Seq(M), NEW n \in 1..Len(w)
  PROVE  Moved(M, b, w, b \o SubSeq(w, 1, n), SubSeq(w, n + 1, Len(w)))
<1> DEFINE s == SubSeq(w, 1, n)  f == b \o s  t == SubSeq(w, n + 1, Len(w))
<1>1. s \in Seq(M) /\ Len(s) = n /\ \A i \in 1..n : s[i] = w[i]
  OBVIOUS
<1>2. t \in Seq(M) /\ Len(t) = Len(w) - n /\ \A i \in 1..Len(t) : t[i] = w[n + i]
  OBVIOUS
<1>4. f = b \o s
  OBVIOUS
<1> HIDE DEF s, f, t
<1>3. \A i \in DOMAIN t : \E j \in DOMAIN w : t[i] = w[j]
  <2> SUFFICES ASSUME NEW i \in 1..Len(t) PROVE \E j \in DOMAIN w : t[i] = w[j]
    BY <1>2
  <2>1. n + i \in DOMAIN w /\ t[i] = w[n + i]
    BY <1>2
  <2> QED BY <2>1
<1>5. /\ f \in Seq(M) /\ Len(f) = Len(b) + n
      /\ \A i \in 1..Len(f) : f[i] = IF i <= Len(b) THEN b[i] ELSE s[i - Len(b)]
  <2>1. b \in Seq(M) /\ s \in Seq(M) /\ Len(s) = n
    BY <1>1
  <2>2. /\ b \o s \in Seq(M) /\ Len(b \o s) = Len(b) + Len(s)
        /\ \A i \in 1..(Len(b) + Len(s)) :
             (b \o s)[i] = IF i <= Len(b) THEN b[i] ELSE s[i - Len(b)]
    BY ONLY <2>1, ConcatProperties, Zenon
  <2> QED BY ONLY <2>1, <2>2, <1>4
<1>6. ASSUME NEW i \in 1..Len(f)
      PROVE  \/ \E j \in DOMAIN b : f[i] = b[j]
             \/ \E j \in DOMAIN w : f[i] = w[j]
  <2>1. CASE i <= Len(b)
    <3>1. i \in DOMAIN b /\ f[i] = b[i]
      BY <2>1, <1>5
    <3> QED BY <3>1
  <2>2. CASE ~(i <= Len(b))
    <3>1. i - Len(b) \in 1..n
      BY <2>2, <1>5
    <3>2. f[i] = w[i - Len(b)] /\ i - Len(b) \in DOMAIN w
      BY <2>2, <3>1, <1>1, <1>5
    <3> QED BY <3>2
  <2> QED BY <2>1, <2>2
<1>7. f # <<>> /\ Head(f) = f[1] /\ 1 \in DOMAIN f
  BY <1>5
<1>8. /\ Tail(f) \in Seq(M)
      /\ \A i \in DOMAIN Tail(f) : i + 1 \in DOMAIN f /\ Tail(f)[i] = f[i + 1]
  <2>1. f \in Seq(M) /\ f # <<>>
    BY <1>5, <1>7
  <2> QED BY ONLY <2>1, HeadTailProperties
<1>9. f[1] \in M
  BY <1>5, <1>7
<1>10. \A i \in DOMAIN Tail(f) : \E j \in DOMAIN f : Tail(f)[i] = f[j]
  BY ONLY <1>8, Zenon
<1>11. DOMAIN f = 1..Len(f)
  BY <1>5
<1>12. \E j \in DOMAIN f : Head(f) = f[j]
  BY ONLY <1>7, Zenon
<1>13. \A i \in DOMAIN f : \/ \E j \in DOMAIN b : f[i] = b[j]
                          \/ \E j \in DOMAIN w : f[i] = w[j]
  BY ONLY <1>6, <1>11, Zenon
<1>14. Head(f) \in M
  BY ONLY <1>7, <1>9, Zenon
<1>15. Moved(M, b, w, f, t)
  BY ONLY <1>2, <1>3, <1>5, <1>8, <1>10, <1>12, <1>13, <1>14, Zenon DEF Moved
<1> QED BY <1>15 DEF f, s, t

(* Arrival and reading keep the type and add no message; the message read  *)
(* was in the channel.                                                     *)
LEMMA TakeIsTyped ==
  ASSUME NEW M, NEW c \in Channel(M), NEW n \in 1..Len(c.wire)
  PROVE  /\ Arrive(c, n) \in Channel(M)
         /\ Take(Arrive(c, n)) \in Channel(M)
         /\ \A x \in Messages(Arrive(c, n)) : x \in Messages(c)
         /\ \A x \in Messages(Take(Arrive(c, n))) : x \in Messages(c)
         /\ Head(Arrive(c, n).buf) \in M
         /\ Head(Arrive(c, n).buf) \in Messages(c)
<1>1. c.wire \in Seq(M) /\ c.buf \in Seq(M)
  BY DEF Channel
<1> DEFINE f == c.buf \o SubSeq(c.wire, 1, n)  t == SubSeq(c.wire, n + 1, Len(c.wire))
           a == Arrive(c, n)  d == Take(Arrive(c, n))
<1>2. a.wire = t /\ a.buf = f /\ d.wire = t /\ d.buf = Tail(f)
  BY DEF Arrive, Take
<1>3. a = [wire |-> t, buf |-> f] /\ d = [wire |-> t, buf |-> Tail(f)]
  BY DEF Arrive, Take
<1> HIDE DEF f, t, a, d
<1>4. Moved(M, c.buf, c.wire, f, t)
  BY <1>1, MoveElements DEF f, t
<1> USE DEF Moved
<1>5. a \in Channel(M) /\ d \in Channel(M)
  BY <1>3, <1>4 DEF Channel
<1>6. ASSUME NEW x, \E j \in DOMAIN f : x = f[j] PROVE x \in Messages(c)
  BY <1>4, <1>6, InMessages
<1>7. ASSUME NEW x \in Messages(a) PROVE x \in Messages(c)
  BY <1>2, <1>4, <1>6, <1>7, InMessages
<1>8. ASSUME NEW x \in Messages(d) PROVE x \in Messages(c)
  <2>1. CASE \E i \in DOMAIN d.buf : x = d.buf[i]
    <3>1. PICK i \in DOMAIN Tail(f) : x = Tail(f)[i]
      BY <2>1, <1>2
    <3>2. \E j \in DOMAIN f : x = f[j]
      BY <3>1, <1>4, Zenon
    <3> QED BY <3>2, <1>6
  <2>2. CASE \E i \in DOMAIN d.wire : x = d.wire[i]
    BY <2>2, <1>2, <1>4, InMessages
  <2> QED BY <2>1, <2>2, InMessages
<1>9. Head(a.buf) \in M /\ Head(a.buf) \in Messages(c)
  BY <1>2, <1>4, <1>6
<1> QED BY <1>5, <1>7, <1>8, <1>9 DEF a, d

-----------------------------------------------------------------------------
(* The table.                                                              *)

Table == account \in [Ids -> Seq(Row)]

(* The table that the server finds has its type.                           *)
LEMMA InitTable == Init => Table
<1>1. ASSUME NEW s \in DatabaseInitTable PROVE s \in Seq(Row)
  <2>1. \A row \in Row : <<row>> \in Seq(Row)
    OBVIOUS
  <2>2. <<>> \in Seq(Row)
    OBVIOUS
  <2> QED BY <2>1, <2>2 DEF DatabaseInitTable
<1> QED BY <1>1 DEF Init, Table

(* What is found is a row, unless there is none.                           *)
LEMMA FoundRow ==
  ASSUME Table, NEW i \in Ids
  PROVE  IF account[i] = <<>> THEN Found(i) = NoRow
                              ELSE Found(i) \in Row /\ Found(i) # NoRow
<1>1. account[i] \in Seq(Row)
  BY DEF Table
<1>2. NoRow \notin Row
  BY NoneAssumption DEF NoRow, Row
<1>3. account[i] # <<>> => account[i][1] \in Row
  BY <1>1
<1> QED BY <1>2, <1>3 DEF Found

(* A row that is inserted is found if it is the first.                     *)
LEMMA AddedRow ==
  ASSUME Table, NEW i \in Ids, NEW pw \in Passwords, AddUsr(i, pw)
  PROVE  /\ Table'
         /\ \A j \in Ids : Found(j)' = IF j = i /\ account[i] = <<>>
                                       THEN [password |-> pw, deviceid |-> None]
                                       ELSE Found(j)
<1> DEFINE row == [password |-> pw, deviceid |-> None]
<1>1. row \in Row
  BY DEF Row
<1> HIDE DEF row
<1>2. account' = [account EXCEPT ![i] = Append(@, row)]
  BY DEF AddUsr, row
<1>3. account[i] \in Seq(Row) /\ Append(account[i], row) \in Seq(Row)
  BY <1>1 DEF Table
<1>4. Append(account[i], row)[1] = IF account[i] = <<>> THEN row ELSE account[i][1]
  BY <1>1, <1>3
<1>5. Append(account[i], row) # <<>>
  BY <1>1, <1>3
<1>6. Table'
  BY <1>2, <1>3 DEF Table
<1>7. account'[i] = Append(account[i], row)
      /\ \A j \in Ids : j # i => account'[j] = account[j]
  BY <1>2 DEF Table
<1>8. \A j \in Ids : Found(j)' = IF j = i /\ account[i] = <<>> THEN row ELSE Found(j)
  BY <1>4, <1>5, <1>7 DEF Found
<1> QED BY <1>6, <1>8 DEF row

(* A row that is bound keeps its password.                                 *)
LEMMA BoundRow ==
  ASSUME Table, NEW i \in Ids, NEW d \in Devices, AppBindDev(i, d)
  PROVE  /\ Table'
         /\ \A j \in Ids : Found(j)' = IF j = i /\ account[i] # <<>>
                                       THEN [Found(i) EXCEPT !.deviceid = d]
                                       ELSE Found(j)
<1> DEFINE s == [n \in DOMAIN account[i] |-> [account[i][n] EXCEPT !.deviceid = d]]
<1>1. account[i] \in Seq(Row)
  BY DEF Table
<1>2. account' = [account EXCEPT ![i] = s]
  BY DEF AppBindDev
<1>3. ASSUME NEW n \in DOMAIN account[i]
      PROVE  [account[i][n] EXCEPT !.deviceid = d] \in Row
  <2>1. account[i][n] \in Row
    BY <1>1
  <2> QED BY <2>1 DEF Row
<1>4. s \in Seq(Row) /\ (s = <<>> <=> account[i] = <<>>)
  BY <1>1, <1>3
<1>5. account[i] # <<>> => s[1] = [account[i][1] EXCEPT !.deviceid = d]
  BY <1>1
<1> HIDE DEF s
<1>6. Table'
  BY <1>2, <1>4 DEF Table
<1>7. account'[i] = s /\ \A j \in Ids : j # i => account'[j] = account[j]
  BY <1>2 DEF Table
<1> QED BY <1>4, <1>5, <1>6, <1>7 DEF Found

-----------------------------------------------------------------------------
(* The invariant.                                                          *)

(* From the first click on login on, the app has an appid.                 *)
Named(p) == LoginIsOut(p) \/ app[p].box = "then_bind" \/ app[p].window # "login"
              => app[p].appid \in Ids

(* Nobody binds before the bind window is open.                            *)
NoBind(p) == app[p].window = "login" => ~BindIsOut(p)

(* Requests carry what the app remembers, answers what the table knows.    *)
LoginsSent(p) == \A m \in Messages(toServer[p]) :
                   m.cmd = "app_login" => m.appid = app[p].appid
BindsSent(p) == \A m \in Messages(toServer[p]) :
                  m.cmd = "app_bind" => /\ m.appid = app[p].appid
                                        /\ m.deviceid = app[p].deviceid
LoginsAnswered(p) == \A m \in Messages(toApp[p]) :
                       /\ m.cmd = "app_login_reply" /\ m.result \in {"bind", "not_bind"}
                            => app[p].appid \in proved[p]
                       /\ m.cmd = "app_login_reply" /\ m.result = "bind"
                            => m.deviceid \in bound[app[p].appid]
BindsAnswered(p) == \A m \in Messages(toApp[p]) :
                      m.cmd = "app_bind_reply" /\ m.result = "success"
                        => app[p].deviceid \in bound[app[p].appid]
LoggedIn(p) == app[p].box = "then_bind" \/ app[p].window # "login"
                 => app[p].appid \in proved[p]
Bound(p) == app[p].window = "player" => app[p].deviceid \in bound[app[p].appid]

Honest(p) == LoginsSent(p) /\ BindsSent(p) /\ LoginsAnswered(p) /\ BindsAnswered(p)
               /\ LoggedIn(p) /\ Bound(p)

(* What an app has shown or been told is in the table, and stays there.    *)
Kept == /\ \A i \in Ids : Found(i).deviceid # None => Found(i).deviceid \in bound[i]
        /\ \A p \in Apps : \A i \in proved[p] : Found(i) # NoRow

AppInv(p) == Named(p) /\ NoBind(p) /\ (p \notin Hasty => Honest(p))
IInv == TypeOK /\ Kept /\ \A p \in Apps : AppInv(p)

Grows == \A i \in Ids : /\ Found(i) # NoRow => Found(i)' # NoRow
                        /\ \A d \in bound[i] : d \in bound'[i]

(* The types, conjunct by conjunct.                                        *)
LEMMA TypeFacts ==
  ASSUME TypeOK, NEW p \in Apps
  PROVE  /\ app[p] \in Window /\ toServer[p] \in Channel(Request)
         /\ toApp[p] \in Channel(Reply) /\ proved[p] \subseteq Ids
BY DEF TypeOK

(* An app whose windows and connection are as before keeps its invariant.  *)
LEMMA OthersKeep ==
  ASSUME TypeOK, Grows, NEW q \in Apps, AppInv(q),
         app'[q] = app[q], toServer'[q] = toServer[q], toApp'[q] = toApp[q],
         proved'[q] = proved[q]
  PROVE  AppInv(q)'
<1>1. app[q].window # "login" \/ LoginIsOut(q) => app[q].appid \in Ids
  BY DEF AppInv, Named
<1>2. Named(q)' /\ NoBind(q)'
  BY DEF AppInv, Named, NoBind, LoginIsOut, BindIsOut, Carries
<1>3. ASSUME q \notin Hasty PROVE Honest(q)'
  <2>1. Honest(q)
    BY <1>3 DEF AppInv
  <2>2. LoginsSent(q)' /\ BindsSent(q)' /\ LoggedIn(q)'
    BY <2>1 DEF Honest, LoginsSent, BindsSent, LoggedIn
  <2>3. Bound(q)'
    BY <2>1, <1>1 DEF Honest, Bound, Grows
  <2>4. LoginsAnswered(q)'
    <3> SUFFICES ASSUME NEW m \in Messages(toApp[q]), m.cmd = "app_login_reply"
                 PROVE  /\ m.result \in {"bind", "not_bind"} => app[q].appid \in proved[q]
                        /\ m.result = "bind" => m.deviceid \in bound'[app[q].appid]
      BY DEF LoginsAnswered
    <3>1. app[q].appid \in Ids
      BY <1>1 DEF LoginIsOut, Carries
    <3> QED BY <2>1, <3>1 DEF Honest, LoginsAnswered, Grows
  <2>5. BindsAnswered(q)'
    <3> SUFFICES ASSUME NEW m \in Messages(toApp[q]), m.cmd = "app_bind_reply",
                        m.result = "success"
                 PROVE  app[q].deviceid \in bound'[app[q].appid]
      BY DEF BindsAnswered
    <3>1. app[q].window # "login"
      BY DEF AppInv, NoBind, BindIsOut, Carries, Window, TypeOK
    <3> QED BY <2>1, <1>1, <3>1 DEF Honest, BindsAnswered, Grows
  <2> QED BY <2>2, <2>3, <2>4, <2>5 DEF Honest
<1> QED BY <1>2, <1>3 DEF AppInv

(* A step of app p keeps the invariant if it does so for p.                *)
LEMMA OneApp ==
  ASSUME IInv, TypeOK', Kept', Grows, NEW p \in Apps, AppInv(p)',
         \A q \in Apps \ {p} : /\ app'[q] = app[q] /\ toServer'[q] = toServer[q]
                               /\ toApp'[q] = toApp[q] /\ proved'[q] = proved[q]
  PROVE  IInv'
<1>1. ASSUME NEW q \in Apps PROVE AppInv(q)'
  BY <1>1, OthersKeep DEF IInv
<1> QED BY <1>1 DEF IInv

-----------------------------------------------------------------------------
(* The users.                                                              *)

(* A click puts its request on the wire.                                   *)
LEMMA ClickSends ==
  ASSUME IInv, NEW p \in Apps, NEW w, NEW r \in Request, Click(p, w, r)
  PROVE  /\ toServer' \in [Apps -> Channel(Request)]
         /\ \A x : x \in Messages(toServer'[p]) <=> x \in Messages(toServer[p]) \/ x = r
         /\ \A q \in Apps \ {p} : toServer'[q] = toServer[q]
         /\ clicks' \in 0..MaxClicks
         /\ Grows /\ Kept'
<1>1. toServer \in [Apps -> Channel(Request)] /\ clicks \in 0..MaxClicks
  BY DEF IInv, TypeOK
<1>2. toServer' = [toServer EXCEPT ![p] = Send(toServer[p], r)]
  BY DEF Click
<1>3. /\ Send(toServer[p], r) \in Channel(Request)
      /\ \A x : x \in Messages(Send(toServer[p], r)) <=> x \in Messages(toServer[p]) \/ x = r
  BY <1>1, SendIsTyped
<1>4. toServer' \in [Apps -> Channel(Request)] /\ toServer'[p] = Send(toServer[p], r)
      /\ \A q \in Apps \ {p} : toServer'[q] = toServer[q]
  BY <1>1, <1>2, <1>3
<1>5. clicks' \in 0..MaxClicks
  BY <1>1, MaxClicksAssumption DEF Click
<1>6. Grows /\ Kept'
  BY DEF IInv, Click, Kept, Grows, Found
<1> QED BY <1>3, <1>4, <1>5, <1>6

(* Register.                                                               *)
LEMMA RegisterClickKeeps ==
  ASSUME IInv, NEW p \in Apps, NEW i \in Ids, NEW pw \in Passwords,
         OnRegisterClicked(p, i, pw)
  PROVE  IInv'
<1> DEFINE r == [cmd |-> "app_register", appid |-> i, password |-> pw, deviceid |-> None]
<1>1. r \in Request /\ Click(p, "login", r) /\ UNCHANGED app
  BY DEF OnRegisterClicked, Request
<1>2. r.cmd = "app_register"
  OBVIOUS
<1> HIDE DEF r
<1>3. UNCHANGED <<account, server, toApp, proved, bound>>
  BY <1>1 DEF Click
<1>4. /\ toServer' \in [Apps -> Channel(Request)] /\ clicks' \in 0..MaxClicks
      /\ \A x : x \in Messages(toServer'[p]) <=> x \in Messages(toServer[p]) \/ x = r
      /\ \A q \in Apps \ {p} : toServer'[q] = toServer[q]
      /\ Grows /\ Kept'
  BY <1>1, ClickSends
<1>5. TypeOK'
  BY <1>1, <1>3, <1>4 DEF IInv, TypeOK
<1>6. AppInv(p)'
  BY <1>1, <1>2, <1>3, <1>4
     DEF IInv, AppInv, Named, NoBind, LoginIsOut, BindIsOut, Carries, Honest, LoginsSent,
         BindsSent, LoginsAnswered, BindsAnswered, LoggedIn, Bound
<1> QED BY <1>1, <1>3, <1>4, <1>5, <1>6, OneApp

(* Log in: while a login is out an unhasty user asks for the same appid,   *)
(* and else no answer is out that could be taken for another's.            *)
LEMMA LoginClickKeeps ==
  ASSUME IInv, NEW p \in Apps, NEW i \in Ids, NEW pw \in Passwords,
         OnLoginClicked(p, i, pw)
  PROVE  IInv'
<1> DEFINE r == [cmd |-> "app_login", appid |-> i, password |-> pw, deviceid |-> None]
<1>1. /\ r \in Request /\ Click(p, "login", r)
      /\ LoginIsOut(p) /\ p \notin Hasty => i = app[p].appid
      /\ app' = [app EXCEPT ![p].appid = i]
  BY DEF OnLoginClicked, Request
<1>2. r.cmd = "app_login" /\ r.appid = i
  OBVIOUS
<1> HIDE DEF r
<1>3. UNCHANGED <<account, server, toApp, proved, bound>>
      /\ app[p].window = "login" /\ app[p].box = "none"
  BY <1>1 DEF Click
<1>4. /\ toServer' \in [Apps -> Channel(Request)] /\ clicks' \in 0..MaxClicks
      /\ \A x : x \in Messages(toServer'[p]) <=> x \in Messages(toServer[p]) \/ x = r
      /\ \A q \in Apps \ {p} : toServer'[q] = toServer[q]
      /\ Grows /\ Kept'
  BY <1>1, ClickSends
<1>5. app \in [Apps -> Window]
  BY DEF IInv, TypeOK
<1>6. /\ app' \in [Apps -> Window]
      /\ app'[p].appid = i /\ app'[p].window = "login" /\ app'[p].box = "none"
      /\ \A q \in Apps \ {p} : app'[q] = app[q]
  BY <1>1, <1>3, <1>5 DEF Window
<1>7. TypeOK'
  BY <1>3, <1>4, <1>6 DEF IInv, TypeOK
<1>8. Named(p)'
  BY <1>6 DEF Named
<1>9. NoBind(p)'
  BY <1>2, <1>3, <1>4, <1>6 DEF IInv, AppInv, NoBind, BindIsOut, Carries
<1>10. ASSUME p \notin Hasty PROVE Honest(p)'
  <2>1. Honest(p) /\ ~BindIsOut(p)
    BY <1>3, <1>10 DEF IInv, AppInv, NoBind
  <2>2. LoginsSent(p)'
    BY <2>1, <1>1, <1>2, <1>4, <1>6, <1>10 DEF Honest, LoginsSent, LoginIsOut, Carries
  <2>3. BindsSent(p)'
    BY <2>1, <1>2, <1>4 DEF BindsSent, BindIsOut, Carries
  <2>4. LoginsAnswered(p)'
    <3> SUFFICES ASSUME NEW m \in Messages(toApp[p]), m.cmd = "app_login_reply"
                 PROVE  /\ m.result \in {"bind", "not_bind"} => i \in proved[p]
                        /\ m.result = "bind" => m.deviceid \in bound[i]
      BY <1>3, <1>6 DEF LoginsAnswered
    <3>1. i = app[p].appid
      BY <1>1, <1>10 DEF LoginIsOut, Carries
    <3> QED BY <2>1, <3>1 DEF Honest, LoginsAnswered
  <2>5. BindsAnswered(p)'
    BY <2>1, <1>3 DEF BindsAnswered, BindIsOut, Carries
  <2>6. LoggedIn(p)' /\ Bound(p)'
    BY <1>6 DEF LoggedIn, Bound
  <2> QED BY <2>2, <2>3, <2>4, <2>5, <2>6 DEF Honest
<1>11. AppInv(p)'
  BY <1>8, <1>9, <1>10 DEF AppInv
<1> QED BY <1>3, <1>4, <1>6, <1>7, <1>11, OneApp

(* Bind.                                                                   *)
LEMMA BindClickKeeps ==
  ASSUME IInv, NEW p \in Apps, NEW d \in Devices, OnBindClicked(p, d)
  PROVE  IInv'
<1> DEFINE r == [cmd |-> "app_bind", appid |-> app[p].appid, password |-> None,
                 deviceid |-> d]
<1>1. /\ Click(p, "bind", r)
      /\ BindIsOut(p) /\ p \notin Hasty => d = app[p].deviceid
      /\ app' = [app EXCEPT ![p].deviceid = d]
  BY DEF OnBindClicked
<1>2. r.cmd = "app_bind" /\ r.appid = app[p].appid /\ r.deviceid = d
  OBVIOUS
<1>3. UNCHANGED <<account, server, toApp, proved, bound>>
      /\ app[p].window = "bind" /\ app[p].box = "none"
  BY <1>1 DEF Click
<1>4. app[p].appid \in Ids
  BY <1>3 DEF IInv, AppInv, Named
<1>5. r \in Request
  BY <1>4 DEF Request
<1> HIDE DEF r
<1>6. /\ toServer' \in [Apps -> Channel(Request)] /\ clicks' \in 0..MaxClicks
      /\ \A x : x \in Messages(toServer'[p]) <=> x \in Messages(toServer[p]) \/ x = r
      /\ \A q \in Apps \ {p} : toServer'[q] = toServer[q]
      /\ Grows /\ Kept'
  BY <1>1, <1>5, ClickSends
<1>7. app \in [Apps -> Window]
  BY DEF IInv, TypeOK
<1>8. /\ app' \in [Apps -> Window]
      /\ app'[p].appid = app[p].appid /\ app'[p].window = "bind" /\ app'[p].box = "none"
      /\ app'[p].deviceid = d
      /\ \A q \in Apps \ {p} : app'[q] = app[q]
  BY <1>1, <1>3, <1>7 DEF Window
<1>9. TypeOK'
  BY <1>3, <1>6, <1>8 DEF IInv, TypeOK
<1>10. Named(p)' /\ NoBind(p)'
  BY <1>4, <1>8 DEF Named, NoBind
<1>11. ASSUME p \notin Hasty PROVE Honest(p)'
  <2>1. Honest(p)
    BY <1>11 DEF IInv, AppInv
  <2>2. LoginsSent(p)'
    BY <2>1, <1>2, <1>6, <1>8 DEF Honest, LoginsSent
  <2>3. BindsSent(p)'
    BY <2>1, <1>1, <1>2, <1>6, <1>8, <1>11 DEF Honest, BindsSent, BindIsOut, Carries
  <2>4. LoginsAnswered(p)'
    BY <2>1, <1>3, <1>8 DEF Honest, LoginsAnswered
  <2>5. BindsAnswered(p)'
    BY <2>1, <1>1, <1>3, <1>8, <1>11 DEF Honest, BindsAnswered, BindIsOut, Carries
  <2>6. LoggedIn(p)' /\ Bound(p)'
    BY <2>1, <1>3, <1>8 DEF Honest, LoggedIn, Bound
  <2> QED BY <2>2, <2>3, <2>4, <2>5, <2>6 DEF Honest
<1>12. AppInv(p)'
  BY <1>10, <1>11 DEF AppInv
<1> QED BY <1>3, <1>6, <1>8, <1>9, <1>12, OneApp

-----------------------------------------------------------------------------
(* The server.                                                             *)

(* What every handler sees of the request it takes, and of its answer.     *)
LEMMA AnswerSends ==
  ASSUME IInv, NEW p \in Apps, NEW cmd, NEW result, NEW d,
         [cmd |-> cmd, result |-> result, deviceid |-> d] \in Reply,
         Answer(p, cmd, result, d)
  PROVE  /\ toApp' \in [Apps -> Channel(Reply)]
         /\ \A x : x \in Messages(toApp'[p]) <=>
              x \in Messages(toApp[p]) \/ x = [cmd |-> cmd, result |-> result, deviceid |-> d]
         /\ \A q \in Apps \ {p} : toApp'[q] = toApp[q]
<1> DEFINE r == [cmd |-> cmd, result |-> result, deviceid |-> d]
<1>1. r \in Reply /\ toApp' = [toApp EXCEPT ![p] = Send(toApp[p], r)]
  BY DEF Answer
<1> HIDE DEF r
<1>2. toApp \in [Apps -> Channel(Reply)]
  BY DEF IInv, TypeOK
<1>3. /\ Send(toApp[p], r) \in Channel(Reply)
      /\ \A x : x \in Messages(Send(toApp[p], r)) <=> x \in Messages(toApp[p]) \/ x = r
  BY <1>1, <1>2, SendIsTyped
<1>4. /\ toApp' \in [Apps -> Channel(Reply)] /\ toApp'[p] = Send(toApp[p], r)
      /\ \A q \in Apps \ {p} : toApp'[q] = toApp[q]
  BY <1>1, <1>2, <1>3
<1> QED BY <1>3, <1>4 DEF r

(* The request taken was in the channel, and the rest was there before.    *)
LEMMA ReadCbTakes ==
  ASSUME IInv, NEW p \in Apps, NEW n \in 1..Len(toServer[p].wire),
         toServer' = [toServer EXCEPT ![p] = Take(Arrive(toServer[p], n))]
  PROVE  /\ toServer' \in [Apps -> Channel(Request)]
         /\ \A x \in Messages(toServer'[p]) : x \in Messages(toServer[p])
         /\ \A q \in Apps \ {p} : toServer'[q] = toServer[q]
         /\ Head(Arrive(toServer[p], n).buf) \in Request
         /\ Head(Arrive(toServer[p], n).buf) \in Messages(toServer[p])
<1>1. toServer \in [Apps -> Channel(Request)]
  BY DEF IInv, TypeOK
<1>2. /\ Take(Arrive(toServer[p], n)) \in Channel(Request)
      /\ \A x \in Messages(Take(Arrive(toServer[p], n))) : x \in Messages(toServer[p])
      /\ Head(Arrive(toServer[p], n).buf) \in Request
      /\ Head(Arrive(toServer[p], n).buf) \in Messages(toServer[p])
  BY <1>1, TakeIsTyped
<1> QED BY <1>1, <1>2

(* Everything a handler for app p leaves the same, or may only shrink.     *)
Handled(p, m) ==
  /\ m \in Request /\ m \in Messages(toServer[p])
  /\ toServer' \in [Apps -> Channel(Request)]
  /\ \A x \in Messages(toServer'[p]) : x \in Messages(toServer[p])
  /\ \A q \in Apps \ {p} : toServer'[q] = toServer[q]
  /\ UNCHANGED <<app, clicks>>

(* Register: an answer to a registration promises nothing but a row.       *)
LEMMA RegisterKeeps ==
  ASSUME IInv, NEW p \in Apps, NEW m, Handled(p, m), m.cmd = "app_register",
         RegisterUsr(p, m), ~Dies
  PROVE  IInv'
<1>1. m.appid \in Ids /\ m.password \in Passwords /\ Table
  BY DEF Handled, Request, IInv, TypeOK, Table
<1>2. UNCHANGED <<app, clicks, server, proved, bound>>
  BY DEF Handled, RegisterUsr
<1>3. PICK res \in {"failure", "success"} :
        Answer(p, "app_register_reply", res, None)
  BY DEF RegisterUsr
<1> DEFINE r == [cmd |-> "app_register_reply", result |-> res, deviceid |-> None]
<1>4. r \in Reply /\ r.cmd = "app_register_reply"
  BY DEF Reply
<1>5. /\ toApp' \in [Apps -> Channel(Reply)]
      /\ \A x : x \in Messages(toApp'[p]) <=> x \in Messages(toApp[p]) \/ x = r
      /\ \A q \in Apps \ {p} : toApp'[q] = toApp[q]
  BY <1>3, <1>4, AnswerSends
<1> HIDE DEF r
<1>6. Table' /\ Kept' /\ Grows
  <2>1. CASE UNCHANGED account
    BY <2>1, <1>1, <1>2 DEF IInv, Kept, Grows, Found, Table
  <2>2. CASE AddUsr(m.appid, m.password)
    <3> DEFINE row == [password |-> m.password, deviceid |-> None]
    <3>1. /\ Table'
          /\ \A i \in Ids : Found(i)' = row \/ Found(i)' = Found(i)
      BY <1>1, <2>2, AddedRow
    <3>2. row # NoRow /\ row.deviceid = None
      BY <1>1, NoneAssumption DEF NoRow
    <3> HIDE DEF row
    <3>3. \A i \in Ids : Found(i) # NoRow => Found(i)' # NoRow
      BY <3>1, <3>2
    <3>4. \A i \in Ids : Found(i)'.deviceid # None => Found(i)'.deviceid \in bound[i]
      BY <3>1, <3>2 DEF IInv, Kept
    <3> QED BY <1>2, <3>1, <3>3, <3>4, TypeFacts DEF IInv, Kept, Grows
  <2> QED BY <2>1, <2>2 DEF RegisterUsr
<1>7. TypeOK'
  BY <1>2, <1>5, <1>6 DEF IInv, TypeOK, Handled, Table
<1>8. AppInv(p)'
  BY <1>2, <1>4, <1>5
     DEF IInv, AppInv, Named, NoBind, LoginIsOut, BindIsOut, Carries, Honest, LoginsSent,
         BindsSent, LoginsAnswered, BindsAnswered, LoggedIn, Bound, Handled
<1> QED BY <1>2, <1>5, <1>6, <1>7, <1>8, OneApp DEF Handled

(* The server dies of a query that is refused: what it has sent stays.     *)
LEMMA DiesKeeps ==
  ASSUME IInv, NEW p \in Apps, NEW m, Handled(p, m), Dies
  PROVE  IInv'
<1>1. UNCHANGED <<app, clicks, account, toApp, proved, bound>> /\ server' = "dead"
  BY DEF Handled, Dies
<1>2. TypeOK' /\ Kept' /\ Grows
  BY <1>1 DEF IInv, TypeOK, Handled, Kept, Grows, Found
<1>3. AppInv(p)'
  BY <1>1
     DEF IInv, AppInv, Named, NoBind, LoginIsOut, BindIsOut, Carries, Honest, LoginsSent,
         BindsSent, LoginsAnswered, BindsAnswered, LoggedIn, Bound, Handled
<1> QED BY <1>1, <1>2, <1>3, OneApp DEF Handled

(* Log in: "bind" and "not_bind" are answered to the right password only,  *)
(* and "bind" with a speaker the account was bound to.                     *)
LEMMA LoginKeeps ==
  ASSUME IInv, NEW p \in Apps, NEW m, Handled(p, m), m.cmd = "app_login",
         Login(p, m), ~Dies
  PROVE  IInv'
<1>1. m.appid \in Ids /\ m.password \in Passwords /\ Table
      /\ proved \in [Apps -> SUBSET Ids]
  BY DEF Handled, Request, IInv, TypeOK, Table
<1>2. UNCHANGED <<app, clicks, account, bound, server>>
  BY DEF Handled, Login
<1>3. Grows
  BY <1>2 DEF Grows, Found
<1>4. ASSUME NEW res \in LoginResult(m.appid, m.password),
             Answer(p, "app_login_reply", res,
                    IF res = "bind" THEN Found(m.appid).deviceid ELSE None),
             proved' = IF res \in {"not_bind", "bind"} /\ Found(m.appid).password = m.password
                       THEN [proved EXCEPT ![p] = @ \union {m.appid}] ELSE proved
      PROVE  IInv'
  <2> DEFINE d == IF res = "bind" THEN Found(m.appid).deviceid ELSE None
             r == [cmd |-> "app_login_reply", result |-> res, deviceid |-> d]
  <2>0. account[m.appid] # <<>> => Found(m.appid) \in Row /\ Found(m.appid) # NoRow
    BY <1>1, FoundRow
  <2>1. /\ res \in {"not_exist", "password_error", "not_bind", "bind"}
        /\ res \in {"not_bind", "bind"} => /\ Found(m.appid) \in Row
                                           /\ Found(m.appid) # NoRow
                                           /\ Found(m.appid).password = m.password
        /\ res = "bind" => Found(m.appid).deviceid # None
    BY <1>4, <2>0 DEF LoginResult, CheckUsrExist, CheckPassword, CheckBind
  <2>2. d \in Devices \union {None}
    BY <2>1 DEF Row
  <2>3. r \in Reply
    BY <2>1, <2>2 DEF Reply
  <2>4. /\ r.cmd = "app_login_reply" /\ r.result = res
        /\ res = "bind" => r.deviceid \in bound[m.appid]
    BY <2>1, <1>1 DEF IInv, Kept
  <2>5. /\ toApp' \in [Apps -> Channel(Reply)]
        /\ \A x : x \in Messages(toApp'[p]) <=> x \in Messages(toApp[p]) \/ x = r
        /\ \A q \in Apps \ {p} : toApp'[q] = toApp[q]
    BY <1>4, <2>3, AnswerSends
  <2> HIDE DEF r, d
  <2>6. /\ proved' \in [Apps -> SUBSET Ids]
        /\ \A q \in Apps \ {p} : proved'[q] = proved[q]
        /\ proved[p] \subseteq proved'[p]
        /\ \A i \in proved'[p] : i \in proved[p] \/ Found(i) # NoRow
        /\ res \in {"not_bind", "bind"} => m.appid \in proved'[p]
    BY <1>1, <1>4, <2>1
  <2>7. TypeOK' /\ Kept'
    BY <1>2, <1>4, <2>5, <2>6 DEF IInv, TypeOK, Handled, Kept, Found
  <2>8. app[p].appid \in Ids
    BY DEF IInv, AppInv, Named, LoginIsOut, Carries, Handled
  <2>a. r.cmd # "app_bind_reply" /\ app' = app
    BY <1>2, <2>4
  <2>9. Named(p)' /\ NoBind(p)'
    <3>1. Named(p)'
      BY <2>8, <2>a DEF Named
    <3>2. NoBind(p)
      BY DEF IInv, AppInv
    <3>3. BindIsOut(p)' => BindIsOut(p)
      BY <2>5, <2>a DEF BindIsOut, Carries, Handled
    <3> QED BY <3>1, <3>2, <3>3, <2>a DEF NoBind
  <2>10. ASSUME p \notin Hasty PROVE Honest(p)'
    <3>1. Honest(p)
      BY <2>10 DEF IInv, AppInv
    <3>2. m.appid = app[p].appid
      BY <3>1 DEF Honest, LoginsSent, Handled
    <3>3. LoginsSent(p)' /\ BindsSent(p)'
      BY <3>1, <2>a DEF Honest, LoginsSent, BindsSent, Handled
    <3>4. LoginsAnswered(p)'
      <4> SUFFICES ASSUME NEW x, x \in Messages(toApp'[p]), x.cmd = "app_login_reply"
                   PROVE  /\ x.result \in {"bind", "not_bind"} => app[p].appid \in proved'[p]
                          /\ x.result = "bind" => x.deviceid \in bound[app[p].appid]
        BY <1>2, <2>a, Zenon DEF LoginsAnswered
      <4>1. CASE x = r
        BY <4>1, <3>2, <2>4, <2>6
      <4>2. CASE x \in Messages(toApp[p])
        BY <4>2, <3>1, <2>6 DEF Honest, LoginsAnswered
      <4> QED BY <4>1, <4>2, <2>5
    <3>5. BindsAnswered(p)'
      BY <3>1, <1>2, <2>a, <2>5 DEF Honest, BindsAnswered
    <3>6. LoggedIn(p)' /\ Bound(p)'
      BY <3>1, <1>2, <2>6 DEF Honest, LoggedIn, Bound
    <3> QED BY <3>3, <3>4, <3>5, <3>6 DEF Honest
  <2>11. AppInv(p)'
    BY <2>9, <2>10 DEF AppInv
  <2> QED BY <1>2, <1>3, <2>5, <2>6, <2>7, <2>11, OneApp DEF Handled
<1> QED BY <1>4 DEF Login

(* Bind: the account of an unhasty user exists, so success means bound.    *)
LEMMA BindKeeps ==
  ASSUME IInv, NEW p \in Apps, NEW m, Handled(p, m), m.cmd = "app_bind",
         BindUsr(p, m)
  PROVE  IInv'
<1>1. /\ m.appid \in Ids /\ m.deviceid \in Devices /\ Table
      /\ bound \in [Ids -> SUBSET Devices]
  BY DEF Handled, Request, IInv, TypeOK, Table
<1>2. UNCHANGED <<app, clicks, server, proved>>
  BY DEF Handled, BindUsr
<1>3. PICK res \in {"failure", "success"} :
        /\ Answer(p, "app_bind_reply", res, None)
        /\ \/ res = "failure" /\ UNCHANGED <<account, bound>>
           \/ res = "success" /\ AppBindDev(m.appid, m.deviceid)
  BY DEF BindUsr
<1> DEFINE r == [cmd |-> "app_bind_reply", result |-> res, deviceid |-> None]
<1>4. r \in Reply /\ r.cmd = "app_bind_reply" /\ r.result = res
  BY DEF Reply
<1>5. /\ toApp' \in [Apps -> Channel(Reply)]
      /\ \A x : x \in Messages(toApp'[p]) <=> x \in Messages(toApp[p]) \/ x = r
      /\ \A q \in Apps \ {p} : toApp'[q] = toApp[q]
  BY <1>3, <1>4, AnswerSends
<1> HIDE DEF r
<1>6. /\ Table' /\ bound' \in [Ids -> SUBSET Devices] /\ Kept' /\ Grows
      /\ res = "success" /\ Found(m.appid) # NoRow => m.deviceid \in bound'[m.appid]
  <2>1. CASE UNCHANGED <<account, bound>> /\ res = "failure"
    BY <2>1, <1>1, <1>2 DEF IInv, Kept, Grows, Found, Table
  <2>2. CASE AppBindDev(m.appid, m.deviceid)
    <3>1. /\ Table'
          /\ \A i \in Ids : Found(i)' = IF i = m.appid /\ account[m.appid] # <<>>
                                        THEN [Found(m.appid) EXCEPT !.deviceid = m.deviceid]
                                        ELSE Found(i)
      BY <1>1, <2>2, BoundRow
    <3>2. IF account[m.appid] = <<>> THEN Found(m.appid) = NoRow
                                     ELSE Found(m.appid) \in Row
      BY <1>1, FoundRow
    <3>3. account[m.appid] # <<>> =>
            /\ Found(m.appid)'.deviceid = m.deviceid
            /\ Found(m.appid)' # NoRow
      BY <1>1, <3>1, <3>2, NoneAssumption DEF Row, NoRow
    <3>4. /\ bound' \in [Ids -> SUBSET Devices]
          /\ \A i \in Ids : bound[i] \subseteq bound'[i]
          /\ account[m.appid] # <<>> => m.deviceid \in bound'[m.appid]
      BY <1>1, <2>2 DEF AppBindDev
    <3>5. \A i \in Ids : Found(i) # NoRow => Found(i)' # NoRow
      BY <3>1, <3>3
    <3>6. \A i \in Ids : Found(i)'.deviceid # None => Found(i)'.deviceid \in bound'[i]
      BY <3>1, <3>3, <3>4 DEF IInv, Kept
    <3>7. Kept' /\ Grows
      BY <1>2, <3>4, <3>5, <3>6, TypeFacts DEF IInv, Kept, Grows
    <3> QED BY <3>1, <3>2, <3>4, <3>7
  <2> QED BY <2>1, <2>2, <1>3
<1>7. TypeOK'
  BY <1>2, <1>5, <1>6 DEF IInv, TypeOK, Handled, Table
<1>8. app[p].window # "login" /\ app[p].appid \in Ids
  BY DEF IInv, AppInv, Named, NoBind, BindIsOut, Carries, Handled
<1>9. Named(p)' /\ NoBind(p)'
  BY <1>2, <1>8 DEF Named, NoBind
<1>10. ASSUME p \notin Hasty PROVE Honest(p)'
  <2>1. Honest(p)
    BY <1>10 DEF IInv, AppInv
  <2>2. m.appid = app[p].appid /\ m.deviceid = app[p].deviceid /\ app[p].appid \in proved[p]
    BY <2>1, <1>8 DEF Honest, BindsSent, LoggedIn, Handled
  <2>3. Found(m.appid) # NoRow
    BY <2>2 DEF IInv, Kept
  <2>4. LoginsSent(p)' /\ BindsSent(p)'
    BY <2>1, <1>2 DEF Honest, LoginsSent, BindsSent, Handled
  <2>5. LoginsAnswered(p)'
    <3> SUFFICES ASSUME NEW x, x \in Messages(toApp'[p]), x.cmd = "app_login_reply"
                 PROVE  /\ x.result \in {"bind", "not_bind"} => app[p].appid \in proved[p]
                        /\ x.result = "bind" => x.deviceid \in bound'[app[p].appid]
      BY <1>2, Zenon DEF LoginsAnswered
    <3>1. x \in Messages(toApp[p])
      BY <1>4, <1>5
    <3> QED BY <3>1, <2>1, <1>6, <1>8 DEF Honest, LoginsAnswered, Grows
  <2>6. BindsAnswered(p)'
    <3> SUFFICES ASSUME NEW x, x \in Messages(toApp'[p]), x.cmd = "app_bind_reply",
                        x.result = "success"
                 PROVE  app[p].deviceid \in bound'[app[p].appid]
      BY <1>2, Zenon DEF BindsAnswered
    <3>1. CASE x = r
      BY <3>1, <2>2, <2>3, <1>4, <1>6
    <3>2. CASE x \in Messages(toApp[p])
      BY <3>2, <2>1, <1>6, <1>8 DEF Honest, BindsAnswered, Grows
    <3> QED BY <3>1, <3>2, <1>5
  <2>7. LoggedIn(p)' /\ Bound(p)'
    BY <2>1, <1>2, <1>6, <1>8 DEF Honest, LoggedIn, Bound, Grows
  <2> QED BY <2>4, <2>5, <2>6, <2>7 DEF Honest
<1>11. AppInv(p)'
  BY <1>9, <1>10 DEF AppInv
<1> QED BY <1>2, <1>5, <1>6, <1>7, <1>11, OneApp DEF Handled

(* Whatever the request, the server's step keeps the invariant.            *)
LEMMA ReadCbKeeps ==
  ASSUME IInv, NEW p \in Apps, NEW n \in 1..Len(toServer[p].wire), ReadCb(p, n)
  PROVE  IInv'
<1> DEFINE m == Head(Arrive(toServer[p], n).buf)
<1>1. toServer' = [toServer EXCEPT ![p] = Take(Arrive(toServer[p], n))]
  BY DEF ReadCb
<1>2. Handled(p, m)
  BY <1>1, ReadCbTakes DEF Handled, ReadCb
<1>3. \/ m.cmd = "app_register" /\ RegisterUsr(p, m)
      \/ m.cmd = "app_login" /\ Login(p, m)
      \/ m.cmd = "app_bind" /\ BindUsr(p, m)
  BY DEF ReadCb
<1> HIDE DEF m
<1>4. ~Dies => IInv'
  BY <1>2, <1>3, RegisterKeeps, LoginKeeps, BindKeeps
<1> QED BY <1>2, <1>4, DiesKeeps

-----------------------------------------------------------------------------
(* The windows.                                                            *)

(* A notification: what is read was on its way, and p's window moves as    *)
(* its slot says.                                                          *)
LEMMA ReciveReplyKeeps ==
  ASSUME IInv, NEW p \in Apps, NEW n \in 1..Len(toApp[p].wire), ReciveReply(p, n)
  PROVE  IInv'
<1> DEFINE c == Arrive(toApp[p], n)  m == Head(c.buf)
<1>1. toApp \in [Apps -> Channel(Reply)] /\ app \in [Apps -> Window]
  BY DEF IInv, TypeOK
<1>2. /\ c \in Channel(Reply) /\ Take(c) \in Channel(Reply)
      /\ \A x \in Messages(c) : x \in Messages(toApp[p])
      /\ \A x \in Messages(Take(c)) : x \in Messages(toApp[p])
      /\ m \in Reply /\ m \in Messages(toApp[p])
  BY <1>1, TakeIsTyped
<1>3. /\ toApp' = [toApp EXCEPT ![p] = IF app[p].box = "none" THEN Take(c) ELSE c]
      /\ UNCHANGED <<account, server, toServer, clicks, proved, bound>>
      /\ \/ UNCHANGED app
         \/ /\ app[p].box = "none" /\ app[p].window = "login"
            /\ \/ HandleRegisterReply(p, m)
               \/ m.cmd = "app_login_reply" /\ HandleLoginReply(p, m)
         \/ /\ app[p].box = "none" /\ app[p].window = "bind"
            /\ m.cmd = "app_bind_reply" /\ HandleBindReply(p, m)
  BY DEF ReciveReply
<1> HIDE DEF c, m
<1>4. /\ toApp' \in [Apps -> Channel(Reply)]
      /\ \A x \in Messages(toApp'[p]) : x \in Messages(toApp[p])
      /\ \A q \in Apps \ {p} : toApp'[q] = toApp[q]
  BY <1>1, <1>2, <1>3
<1>5. Grows /\ Kept'
  BY <1>3 DEF Grows, IInv, Kept, Found
<1>6. AppInv(p) /\ app[p] \in Window
  BY <1>1 DEF IInv
<1>7. CASE UNCHANGED app
  <2>1. TypeOK'
    BY <1>3, <1>4, <1>7 DEF IInv, TypeOK
  <2>2. AppInv(p)'
    BY <1>3, <1>4, <1>6, <1>7
       DEF AppInv, Named, NoBind, LoginIsOut, BindIsOut, Carries, Honest, LoginsSent,
           BindsSent, LoginsAnswered, BindsAnswered, LoggedIn, Bound
  <2> QED BY <1>3, <1>4, <1>5, <1>7, <2>1, <2>2, OneApp
<1>8. ASSUME NEW a \in Window, app' = [app EXCEPT ![p] = a], a.appid = app[p].appid,
             a.window # "login" \/ a.box = "then_bind" =>
               app[p].window # "login" \/ LoginIsOut(p),
             app[p].window # "login" => a.window # "login",
             p \notin Hasty => /\ a.window # "login" \/ a.box = "then_bind" =>
                                    a.appid \in proved[p]
                               /\ a.window = "player" => a.deviceid \in bound[a.appid]
                               /\ a.deviceid = app[p].deviceid \/ ~BindIsOut(p)
      PROVE  IInv'
  <2>1. /\ app' \in [Apps -> Window] /\ app'[p] = a
        /\ \A q \in Apps \ {p} : app'[q] = app[q]
    BY <1>1, <1>8
  <2>2. TypeOK'
    BY <1>3, <1>4, <2>1 DEF IInv, TypeOK
  <2>3. Named(p)'
    <3>1. LoginIsOut(p)' => LoginIsOut(p)
      BY <1>3, <1>4 DEF LoginIsOut, Carries
    <3> QED BY <3>1, <1>6, <1>8, <2>1 DEF AppInv, Named
  <2>4. BindIsOut(p)' => BindIsOut(p)
    BY <1>3, <1>4 DEF BindIsOut, Carries
  <2>5. NoBind(p)'
    BY <2>1, <2>4, <1>6, <1>8 DEF AppInv, NoBind
  <2>6. ASSUME p \notin Hasty PROVE Honest(p)'
    <3>1. Honest(p)
      BY <2>6, <1>6 DEF AppInv
    <3>2. LoginsSent(p)' /\ LoginsAnswered(p)'
      BY <3>1, <1>3, <1>4, <1>8, <2>1 DEF Honest, LoginsSent, LoginsAnswered
    <3>3. BindsSent(p)'
      BY <3>1, <1>3, <1>8, <2>1, <2>6 DEF Honest, BindsSent, BindIsOut, Carries
    <3>4. BindsAnswered(p)'
      BY <3>1, <1>3, <1>4, <1>8, <2>1, <2>6 DEF Honest, BindsAnswered, BindIsOut, Carries
    <3>5. LoggedIn(p)' /\ Bound(p)'
      BY <1>3, <1>8, <2>1, <2>6 DEF LoggedIn, Bound
    <3> QED BY <3>1, <3>2, <3>3, <3>4, <3>5 DEF Honest
  <2>7. AppInv(p)'
    BY <2>3, <2>5, <2>6 DEF AppInv
  <2> QED BY <1>3, <1>4, <1>5, <2>1, <2>2, <2>7, OneApp
<1>9. CASE app[p].box = "none" /\ app[p].window = "login" /\ HandleRegisterReply(p, m)
  <2> DEFINE a == [app[p] EXCEPT !.box = "open"]
  <2>1. /\ a \in Window /\ app' = [app EXCEPT ![p] = a]
        /\ a.appid = app[p].appid /\ a.deviceid = app[p].deviceid /\ a.box = "open"
        /\ a.window = "login"
    BY <1>1, <1>6, <1>9 DEF HandleRegisterReply, Window
  <2> HIDE DEF a
  <2> QED BY <1>8, <1>9, <2>1
<1>10. CASE /\ app[p].box = "none" /\ app[p].window = "login"
            /\ m.cmd = "app_login_reply" /\ HandleLoginReply(p, m)
  <2>1. LoginIsOut(p) /\ ~BindIsOut(p)
    BY <1>2, <1>6, <1>10 DEF LoginIsOut, Carries, AppInv, NoBind
  <2>2. p \notin Hasty =>
          /\ m.result \in {"bind", "not_bind"} => app[p].appid \in proved[p]
          /\ m.result = "bind" => m.deviceid \in bound[app[p].appid]
    BY <1>2, <1>6, <1>10 DEF AppInv, Honest, LoginsAnswered
  <2>3. CASE m.result = "bind"
    <3> DEFINE a == [app[p] EXCEPT !.window = "player", !.deviceid = m.deviceid]
    <3>1. /\ a \in Window /\ app' = [app EXCEPT ![p] = a]
          /\ a.appid = app[p].appid /\ a.deviceid = m.deviceid /\ a.box = "none"
          /\ a.window = "player"
      BY <1>1, <1>2, <1>6, <1>10, <2>3 DEF HandleLoginReply, Window, Reply
    <3> HIDE DEF a
    <3> QED BY <1>8, <1>10, <2>1, <2>2, <2>3, <3>1
  <2>4. CASE m.result = "not_bind"
    <3> DEFINE a == [app[p] EXCEPT !.box = "then_bind"]
    <3>1. /\ a \in Window /\ app' = [app EXCEPT ![p] = a]
          /\ a.appid = app[p].appid /\ a.deviceid = app[p].deviceid
          /\ a.window = "login"
      BY <1>1, <1>6, <1>10, <2>4 DEF HandleLoginReply, Window
    <3> HIDE DEF a
    <3> QED BY <1>8, <1>10, <2>1, <2>2, <2>4, <3>1
  <2>5. CASE m.result # "bind" /\ m.result # "not_bind"
    <3> DEFINE a == [app[p] EXCEPT !.box = "open"]
    <3>1. /\ a \in Window /\ app' = [app EXCEPT ![p] = a]
          /\ a.appid = app[p].appid /\ a.deviceid = app[p].deviceid /\ a.box = "open"
          /\ a.window = "login"
      BY <1>1, <1>6, <1>10, <2>5 DEF HandleLoginReply, Window
    <3> HIDE DEF a
    <3> QED BY <1>8, <1>10, <3>1
  <2> QED BY <2>3, <2>4, <2>5
<1>11. CASE /\ app[p].box = "none" /\ app[p].window = "bind"
            /\ m.cmd = "app_bind_reply" /\ HandleBindReply(p, m)
  <2>1. p \notin Hasty =>
          /\ app[p].appid \in proved[p]
          /\ m.result = "success" => app[p].deviceid \in bound[app[p].appid]
    BY <1>2, <1>6, <1>11 DEF AppInv, Honest, BindsAnswered, LoggedIn
  <2>2. CASE m.result = "success"
    <3> DEFINE a == [app[p] EXCEPT !.window = "player"]
    <3>1. /\ a \in Window /\ app' = [app EXCEPT ![p] = a]
          /\ a.appid = app[p].appid /\ a.deviceid = app[p].deviceid
          /\ a.window = "player"
      BY <1>1, <1>6, <1>11, <2>2 DEF HandleBindReply, Window
    <3> HIDE DEF a
    <3> QED BY <1>8, <1>11, <2>1, <2>2, <3>1
  <2>3. CASE m.result # "success"
    <3> DEFINE a == [app[p] EXCEPT !.box = "open"]
    <3>1. /\ a \in Window /\ app' = [app EXCEPT ![p] = a]
          /\ a.appid = app[p].appid /\ a.deviceid = app[p].deviceid
          /\ a.window = "bind"
      BY <1>1, <1>6, <1>11, <2>3 DEF HandleBindReply, Window
    <3> HIDE DEF a
    <3> QED BY <1>8, <1>11, <2>1, <3>1
  <2> QED BY <2>2, <2>3
<1> QED BY <1>3, <1>7, <1>9, <1>10, <1>11

(* Closing a box leads on to the bind window only after "not_bind".        *)
LEMMA CloseBoxKeeps ==
  ASSUME IInv, NEW p \in Apps, CloseBox(p)
  PROVE  IInv'
<1>1. app \in [Apps -> Window] /\ AppInv(p)
  BY DEF IInv, TypeOK
<1>2. UNCHANGED <<account, server, toServer, toApp, clicks, proved, bound>>
  BY DEF CloseBox
<1>3. /\ app' \in [Apps -> Window]
      /\ app'[p].appid = app[p].appid /\ app'[p].deviceid = app[p].deviceid
      /\ app'[p].box = "none"
      /\ app'[p].window = IF app[p].box = "then_bind" THEN "bind" ELSE app[p].window
      /\ \A q \in Apps \ {p} : app'[q] = app[q]
  BY <1>1 DEF CloseBox, Window
<1>4. Grows /\ Kept' /\ TypeOK'
  BY <1>2, <1>3 DEF Grows, IInv, Kept, TypeOK, Found
<1>5. Named(p)' /\ NoBind(p)'
  <2>1. LoginIsOut(p)' <=> LoginIsOut(p)
    BY <1>2 DEF LoginIsOut
  <2>2. BindIsOut(p)' <=> BindIsOut(p)
    BY <1>2 DEF BindIsOut
  <2> QED BY <2>1, <2>2, <1>1, <1>3 DEF AppInv, Named, NoBind
<1>6. ASSUME p \notin Hasty PROVE Honest(p)'
  <2>1. Honest(p)
    BY <1>1, <1>6 DEF AppInv
  <2>2. LoginsSent(p)' /\ BindsSent(p)' /\ LoginsAnswered(p)' /\ BindsAnswered(p)'
    BY <2>1, <1>2, <1>3 DEF Honest, LoginsSent, BindsSent, LoginsAnswered, BindsAnswered
  <2>3. LoggedIn(p)' /\ Bound(p)'
    BY <2>1, <1>2, <1>3 DEF Honest, LoggedIn, Bound
  <2> QED BY <2>1, <2>2, <2>3 DEF Honest
<1>7. AppInv(p)'
  BY <1>5, <1>6 DEF AppInv
<1> QED BY <1>2, <1>3, <1>4, <1>7, OneApp

(* A server that spins changes nothing else.                               *)
LEMMA ServerReadDataKeeps ==
  ASSUME IInv, NEW p \in Apps, ServerReadData(p)
  PROVE  IInv'
<1>1. UNCHANGED <<account, app, toServer, toApp, clicks, proved, bound>> /\ server' = "spins"
  BY DEF ServerReadData
<1>2. TypeOK' /\ Kept' /\ Grows
  BY <1>1 DEF IInv, TypeOK, Kept, Grows, Found
<1>3. AppInv(p)'
  BY <1>1, <1>2, OthersKeep DEF IInv
<1> QED BY <1>1, <1>2, <1>3, OneApp

-----------------------------------------------------------------------------
(* The theorems.                                                           *)

(* The invariant holds when the windows are open and nothing is sent.      *)
LEMMA InitInv == Init => IInv
<1> SUFFICES ASSUME Init PROVE IInv
  OBVIOUS
<1>1. \A p \in Apps : /\ app[p] \in Window /\ app[p].window = "login"
                      /\ app[p].box = "none"
  BY DEF Init, Window
<1>2. <<>> \in Seq(Request) /\ <<>> \in Seq(Reply)
  OBVIOUS
<1>3. /\ [wire |-> <<>>, buf |-> <<>>] \in Channel(Request)
      /\ [wire |-> <<>>, buf |-> <<>>] \in Channel(Reply)
  BY <1>2 DEF Channel
<1>4. Table
  BY InitTable
<1>5. bound \in [Ids -> SUBSET Devices]
  <2>1. \A i \in Ids : Found(i).deviceid \in Devices \union {None}
    BY <1>4, FoundRow DEF Row, NoRow
  <2> QED BY <2>1 DEF Init
<1>6. app \in [Apps -> Window]
  BY <1>1 DEF Init
<1>7. toServer \in [Apps -> Channel(Request)] /\ toApp \in [Apps -> Channel(Reply)]
  BY <1>3 DEF Init
<1>8. TypeOK
  BY <1>4, <1>5, <1>6, <1>7, MaxClicksAssumption DEF Init, TypeOK, Table
<1>9. Kept
  BY DEF Init, Kept
<1>10. ASSUME NEW p \in Apps PROVE AppInv(p)
  <2>1. \A x : x \notin Messages(toServer[p]) /\ x \notin Messages(toApp[p])
    BY InMessages DEF Init
  <2>2. app[p].window = "login" /\ app[p].box = "none"
    BY <1>1
  <2>3. ~LoginIsOut(p) /\ ~BindIsOut(p)
    BY <2>1 DEF LoginIsOut, BindIsOut, Carries
  <2> QED BY <2>1, <2>2, <2>3
          DEF AppInv, Named, NoBind, Honest, LoginsSent, BindsSent, LoginsAnswered,
              BindsAnswered, LoggedIn, Bound
<1> QED BY <1>8, <1>9, <1>10 DEF IInv

(* Every step keeps the invariant.                                         *)
LEMMA StepInv == IInv /\ [Next]_vars => IInv'
<1> SUFFICES ASSUME IInv, [Next]_vars PROVE IInv'
  OBVIOUS
<1>1. CASE Next
  <2>1. PICK p \in Apps : \/ User(p) \/ ServerReads(p) \/ ServerReadData(p) \/ AppReads(p)
    BY <1>1 DEF Next
  <2>2. CASE User(p)
    BY <2>2, RegisterClickKeeps, LoginClickKeeps, BindClickKeeps, CloseBoxKeeps DEF User
  <2>3. CASE ServerReads(p)
    BY <2>3, ReadCbKeeps DEF ServerReads
  <2>4. CASE ServerReadData(p)
    BY <2>4, ServerReadDataKeeps
  <2>5. CASE AppReads(p)
    BY <2>5, ReciveReplyKeeps DEF AppReads
  <2> QED BY <2>1, <2>2, <2>3, <2>4, <2>5
<1>2. CASE UNCHANGED vars
  <2> USE DEF vars
  <2>1. TypeOK' /\ Kept'
    BY <1>2 DEF IInv, TypeOK, Kept, Found
  <2>2. Grows
    BY <1>2 DEF Grows, Found
  <2>3. ASSUME NEW p \in Apps PROVE AppInv(p)'
    BY <2>2, <2>3, <1>2, OthersKeep DEF IInv
  <2> QED BY <2>1, <2>3 DEF IInv
<1> QED BY <1>1, <1>2

(* The invariant, of every specification of accounts.                      *)
LEMMA Invariant == SafetySpec => []IInv
BY InitInv, StepInv, PTL DEF SafetySpec

(* Table, windows and channels have their types.                           *)
THEOREM TypeCorrect == SafetySpec => []TypeOK
<1>1. IInv => TypeOK
  BY DEF IInv
<1> QED BY <1>1, Invariant, PTL

(* The windows behind the login act for an account whose password the app  *)
(* has shown (widget.cpp:131-155), for any number of apps and whatever the *)
(* order in which requests and answers arrive.                             *)
THEOREM WindowsAreLoggedIn == SafetySpec => []WindowIsLoggedIn
<1>1. IInv => WindowIsLoggedIn
  BY DEF IInv, AppInv, Honest, LoggedIn, WindowIsLoggedIn
<1> QED BY <1>1, Invariant, PTL

(* The player window steers a speaker its account was bound to.            *)
THEOREM PlayersAreBound == SafetySpec => []PlayerIsBound
<1>1. IInv => PlayerIsBound
  BY DEF IInv, AppInv, Honest, Bound, PlayerIsBound
<1> QED BY <1>1, Invariant, PTL

(* The handlers implement the account book: whatever they read, however    *)
(* the database fails and although it may hold several rows of an appid,   *)
(* the one that logins find keeps its password, and only rows that are     *)
(* there are bound.                                                        *)
THEOREM BookIsKept == SafetySpec => BookKept
<1> DEFINE book == [i \in Ids |-> Found(i)]
<1>1. Init => Book!Init
  <2> SUFFICES ASSUME Init PROVE book \in [Ids -> {Book!NoRow} \union Row]
    BY DEF Book!Init, Row
  <2>1. Table
    BY InitTable
  <2> QED BY <2>1, FoundRow DEF NoRow, Book!NoRow
<1>2. ASSUME IInv, Next PROVE Book!Next \/ UNCHANGED book
  <2>0. Table
    BY <1>2 DEF IInv, TypeOK, Table
  <2>1. PICK p \in Apps : \/ User(p) \/ ServerReads(p) \/ ServerReadData(p) \/ AppReads(p)
    BY <1>2 DEF Next
  <2>2. CASE UNCHANGED account
    BY <2>2 DEF Found
  <2>3. CASE User(p) \/ ServerReadData(p) \/ AppReads(p)
    <3>1. UNCHANGED account
      BY <2>3 DEF User, OnRegisterClicked, OnLoginClicked, OnBindClicked, Click, CloseBox,
                  ServerReadData, AppReads, ReciveReply
    <3> QED BY <2>2, <3>1
  <2>4. CASE ServerReads(p)
    <3>1. PICK n \in 1..Len(toServer[p].wire) : ReadCb(p, n)
      BY <2>4 DEF ServerReads
    <3> DEFINE m == Head(Arrive(toServer[p], n).buf)
    <3>2. m \in Request
      BY <3>1, <1>2, ReadCbTakes DEF ReadCb
    <3>3. \/ m.cmd = "app_register" /\ RegisterUsr(p, m)
          \/ m.cmd = "app_login" /\ Login(p, m)
          \/ m.cmd = "app_bind" /\ BindUsr(p, m)
      BY <3>1 DEF ReadCb
    <3> HIDE DEF m
    <3>4. CASE m.cmd = "app_register" /\ AddUsr(m.appid, m.password)
      <4>1. m.appid \in Ids /\ m.password \in Passwords
        BY <3>2, <3>4 DEF Request
      <4>2. \A j \in Ids : Found(j)' = IF j = m.appid /\ account[m.appid] = <<>>
                                       THEN [password |-> m.password, deviceid |-> None]
                                       ELSE Found(j)
        BY <2>0, <3>4, <4>1, AddedRow
      <4>3. CASE account[m.appid] = <<>>
        <5>1. Found(m.appid) = NoRow
          BY <4>3 DEF Found
        <5>2. [NoRow EXCEPT !.password = m.password]
                = [password |-> m.password, deviceid |-> None]
          BY DEF NoRow
        <5>3. book' = [book EXCEPT ![m.appid].password = m.password]
          BY <4>1, <4>2, <4>3, <5>1, <5>2
        <5>4. Book!Register(m.appid, m.password)
          BY <4>1, <5>1, <5>3 DEF Book!Register, NoRow, Book!NoRow
        <5> QED BY <4>1, <5>4 DEF Book!Next
      <4>4. CASE account[m.appid] # <<>>
        BY <4>2, <4>4
      <4> QED BY <4>3, <4>4
    <3>5. CASE m.cmd = "app_bind" /\ AppBindDev(m.appid, m.deviceid)
      <4>1. m.appid \in Ids /\ m.deviceid \in Devices
        BY <3>2, <3>5 DEF Request
      <4>2. \A j \in Ids : Found(j)' = IF j = m.appid /\ account[m.appid] # <<>>
                                       THEN [Found(m.appid) EXCEPT !.deviceid = m.deviceid]
                                       ELSE Found(j)
        BY <2>0, <3>5, <4>1, BoundRow
      <4>3. CASE account[m.appid] # <<>>
        <5>1. Found(m.appid) # NoRow
          BY <2>0, <4>1, <4>3, FoundRow
        <5>2. book' = [book EXCEPT ![m.appid].deviceid = m.deviceid]
          BY <4>1, <4>2, <4>3
        <5>3. Book!Bind(m.appid, m.deviceid)
          BY <4>1, <5>1, <5>2 DEF Book!Bind, NoRow, Book!NoRow
        <5> QED BY <4>1, <5>3 DEF Book!Next
      <4>4. CASE account[m.appid] = <<>>
        BY <4>2, <4>4
      <4> QED BY <4>3, <4>4
    <3> QED BY <2>2, <3>3, <3>4, <3>5 DEF RegisterUsr, Login, BindUsr, Dies
  <2> QED BY <2>1, <2>3, <2>4
<1>3. UNCHANGED vars => UNCHANGED book
  BY DEF vars, Found
<1>4. IInv /\ [Next]_vars => [Book!Next]_book
  BY <1>2, <1>3
<1> QED BY <1>1, <1>4, Invariant, PTL DEF SafetySpec, BookKept, Book!Spec

=============================================================================
