------------------------------ MODULE Account ------------------------------
(***************************************************************************)
(* Accounts: the table and its handlers on the server (database.cpp, Login *)
(* and BindUsr of server.cpp), and the windows of the app that register,   *)
(* log in and bind a speaker (widget.cpp, bind.cpp). Both ends read one    *)
(* message per notification, however many have arrived.                    *)
(***************************************************************************)
EXTENDS Integers, Sequences

CONSTANTS
  Apps,        \* running apps, each with one connection
  Patient,     \* apps whose user waits for every answer
  Hasty,       \* apps whose user edits the fields while a request is out
  Ids,         \* appids the users type
  Old,         \* appids registered before the server was started
  Passwords,   \* passwords the users type
  Devices,     \* device ids the users type
  None,        \* an empty string, SQL's null
  MaxClicks    \* bound on the clicks of all users

ASSUME NoneAssumption == None \notin Ids \union Passwords \union Devices
ASSUME HabitAssumption == Patient \subseteq Apps /\ Hasty \subseteq Apps
ASSUME OldAssumption == Old \subseteq Ids
ASSUME MaxClicksAssumption == MaxClicks \in Nat

VARIABLES
  account,     \* the table: the rows of every appid, the first inserted first
  server,      \* the server process: it runs, spins or is dead
  app,         \* the windows of every app
  toServer,    \* every connection: sent and not arrived, arrived and not read
  toApp,       \* the other direction
  clicks,      \* clicks left
  proved,      \* history: the appids whose password an app has shown
  bound        \* history: the speakers an appid has been bound to

vars == <<account, server, app, toServer, toApp, clicks, proved, bound>>

-----------------------------------------------------------------------------
Row == [password: Passwords, deviceid: Devices \union {None}]
NoRow == [password |-> None, deviceid |-> None]

(* The row that mysql_fetch_row() returns first: the table has no key, and *)
(* a scan meets the rows in the order they were inserted.                  *)
Found(i) == IF account[i] = <<>> THEN NoRow ELSE account[i][1]

Request == [cmd: {"app_register", "app_login"}, appid: Ids, password: Passwords,
            deviceid: {None}]
           \union [cmd: {"app_bind"}, appid: Ids, password: {None}, deviceid: Devices]
Reply == [cmd: {"app_register_reply", "app_login_reply", "app_bind_reply"},
          result: {"success", "failure", "not_exist", "password_error",
                   "not_bind", "bind"},
          deviceid: Devices \union {None}]

(* m_appid, bind_appid and app_id are handed from window to window;        *)
(* bind_deviceid becomes player_deviceid. A message box is open, or one    *)
(* after which the bind window comes.                                      *)
Window == [window: {"login", "bind", "player"}, box: {"none", "open", "then_bind"},
           appid: Ids \union {None}, deviceid: Devices \union {None}]

Channel(M) == [wire: Seq(M), buf: Seq(M)]
Send(c, m) == [wire |-> Append(c.wire, m), buf |-> c.buf]
(* n messages arrive together.                                             *)
Arrive(c, n) == [wire |-> SubSeq(c.wire, n + 1, Len(c.wire)),
                 buf |-> c.buf \o SubSeq(c.wire, 1, n)]
Take(c) == [wire |-> c.wire, buf |-> Tail(c.buf)]
Contents(c) == c.buf \o c.wire
Messages(c) == {c.buf[i] : i \in DOMAIN c.buf} \union {c.wire[i] : i \in DOMAIN c.wire}
Carries(c, cmd) == \E m \in Messages(c) : m.cmd = cmd
Quiet(p) == Contents(toServer[p]) = <<>> /\ Contents(toApp[p]) = <<>>

-----------------------------------------------------------------------------
(* The users. A click on a button sends a request.                         *)

Click(p, window, request) ==
  /\ app[p].window = window /\ app[p].box = "none"
  /\ p \in Patient => Quiet(p)
  /\ clicks > 0 /\ clicks' = clicks - 1
  /\ toServer' = [toServer EXCEPT ![p] = Send(@, request)]
  /\ UNCHANGED <<account, server, toApp, proved, bound>>

OnRegisterClicked(p, i, pw) ==
  /\ Click(p, "login", [cmd |-> "app_register", appid |-> i, password |-> pw,
                        deviceid |-> None])
  /\ UNCHANGED app

(* m_appid is what was typed last, not what is answered first.             *)
LoginIsOut(p) == Carries(toServer[p], "app_login") \/ Carries(toApp[p], "app_login_reply")
OnLoginClicked(p, i, pw) ==
  /\ Click(p, "login", [cmd |-> "app_login", appid |-> i, password |-> pw,
                        deviceid |-> None])
  /\ LoginIsOut(p) /\ p \notin Hasty => i = app[p].appid
  /\ app' = [app EXCEPT ![p].appid = i]

BindIsOut(p) == Carries(toServer[p], "app_bind") \/ Carries(toApp[p], "app_bind_reply")
OnBindClicked(p, d) ==
  /\ Click(p, "bind", [cmd |-> "app_bind", appid |-> app[p].appid,
                       password |-> None, deviceid |-> d])
  /\ BindIsOut(p) /\ p \notin Hasty => d = app[p].deviceid
  /\ app' = [app EXCEPT ![p].deviceid = d]

-----------------------------------------------------------------------------
(* The server. Every request opens a connection to the database of its own *)
(* and may fail there: RegisterUsr and BindUsr answer "failure"; Login     *)
(* goes on, and each of its checks takes a failure for a no.               *)

Answer(p, cmd, result, d) ==
  toApp' = [toApp EXCEPT ![p] =
              Send(@, [cmd |-> cmd, result |-> result, deviceid |-> d])]

(* What CheckUsrExist may say: of a query that is refused there is no      *)
(* result, and mysql_fetch_row(NULL) returns no row.                       *)
CheckUsrExist(i) == {FALSE, account[i] # <<>>}

AddUsrReplaces(i, pw) ==                                \* mutant of AddUsr
  account' = [account EXCEPT ![i] = <<[password |-> pw, deviceid |-> None]>>]
AddUsr(i, pw) ==
  account' = [account EXCEPT ![i] = Append(@, [password |-> pw, deviceid |-> None])]

(* mysql_fetch_row(NULL) may also end the process.                         *)
Dies == server' = "dead" /\ UNCHANGED <<account, toApp, proved, bound>>

RegisterUsrSilent(p, m) ==                              \* mutant of RegisterUsr
  \/ /\ \/ /\ FALSE \in CheckUsrExist(m.appid)
           /\ AddUsr(m.appid, m.password)
           /\ Answer(p, "app_register_reply", "success", None)
        \/ TRUE \in CheckUsrExist(m.appid) /\ UNCHANGED <<account, toApp>>
     /\ UNCHANGED <<server, proved, bound>>
  \/ Dies
RegisterUsr(p, m) ==
  \/ /\ \/ /\ Answer(p, "app_register_reply", "failure", None)
           /\ UNCHANGED account
        \/ /\ FALSE \in CheckUsrExist(m.appid)
           /\ AddUsr(m.appid, m.password)
           /\ Answer(p, "app_register_reply", "success", None)
     /\ UNCHANGED <<server, proved, bound>>
  \/ Dies

CheckPasswordNot(i, pw) == account[i] # <<>>            \* mutant of CheckPassword
CheckPassword(i, pw) == Found(i).password = pw
CheckBind(i) == Found(i).deviceid # None

LoginResult(i, pw) ==
  {"not_exist"} \union
  (IF TRUE \notin CheckUsrExist(i) THEN {}
   ELSE {"password_error"} \union
        (IF ~CheckPassword(i, pw) THEN {}
         ELSE {"not_bind"} \union (IF CheckBind(i) THEN {"bind"} ELSE {})))

Login(p, m) ==
  \/ /\ UNCHANGED <<account, bound, server>>
     /\ \E result \in LoginResult(m.appid, m.password) :
          /\ Answer(p, "app_login_reply", result,
                    IF result = "bind" THEN Found(m.appid).deviceid ELSE None)
          /\ proved' = IF result \in {"not_bind", "bind"} /\ Found(m.appid).password = m.password
                       THEN [proved EXCEPT ![p] = @ \union {m.appid}] ELSE proved
  \/ Dies

(* Every row of the appid; an update of none is a success, too.            *)
AppBindDevSwapped(i, d) ==                              \* mutant of AppBindDev
  /\ account' = [account EXCEPT ![i] =
                   [n \in DOMAIN @ |-> [@[n] EXCEPT !.deviceid = i]]]
  /\ UNCHANGED bound
AppBindDev(i, d) ==
  /\ account' = [account EXCEPT ![i] =
                   [n \in DOMAIN @ |-> [@[n] EXCEPT !.deviceid = d]]]
  /\ bound' = IF account[i] = <<>> THEN bound ELSE [bound EXCEPT ![i] = @ \union {d}]

BindUsr(p, m) ==
  /\ \/ /\ Answer(p, "app_bind_reply", "failure", None)
        /\ UNCHANGED <<account, bound>>
     \/ /\ AppBindDev(m.appid, m.deviceid)
        /\ Answer(p, "app_bind_reply", "success", None)
  /\ UNCHANGED <<server, proved>>

(* n messages have arrived and ReadCb takes one.                           *)
ReadCb(p, n) ==
  LET c == Arrive(toServer[p], n)
      m == Head(c.buf)
  IN  /\ server = "runs"
      /\ toServer' = [toServer EXCEPT ![p] = Take(c)]
      /\ \/ m.cmd = "app_register" /\ RegisterUsr(p, m)
         \/ m.cmd = "app_login" /\ Login(p, m)
         \/ m.cmd = "app_bind" /\ BindUsr(p, m)
      /\ UNCHANGED <<app, clicks>>

(* Part of a message has arrived: ServerReadData waits for the rest inside *)
(* the event loop, which is the one that would fetch it.                   *)
ServerReadData(p) ==
  /\ server = "runs"
  /\ Contents(toServer[p]) # <<>>
  /\ server' = "spins"
  /\ UNCHANGED <<account, app, toServer, toApp, clicks, proved, bound>>

-----------------------------------------------------------------------------
(* The windows. A slot takes one reply; the next window connects its own.  *)

HandleRegisterReply(p, m) == app' = [app EXCEPT ![p].box = "open"]

HandleLoginReplyStale(p, m) ==                          \* mutant of HandleLoginReply
  app' = [app EXCEPT ![p] =
            CASE m.result = "bind" -> [@ EXCEPT !.window = "player"]
              [] m.result = "not_bind" -> [@ EXCEPT !.box = "then_bind"]
              [] OTHER -> [@ EXCEPT !.box = "open"]]
HandleLoginReply(p, m) ==
  app' = [app EXCEPT ![p] =
            CASE m.result = "bind" -> [@ EXCEPT !.window = "player", !.deviceid = m.deviceid]
              [] m.result = "not_bind" -> [@ EXCEPT !.box = "then_bind"]
              [] OTHER -> [@ EXCEPT !.box = "open"]]

HandleBindReply(p, m) ==
  app' = [app EXCEPT ![p] = IF m.result = "success" THEN [@ EXCEPT !.window = "player"]
                            ELSE [@ EXCEPT !.box = "open"]]

(* readyRead: the reply that has waited longest is read. It is not emitted *)
(* again while its slot shows a message box.                               *)
ReciveReply(p, n) ==
  LET c == Arrive(toApp[p], n)
      m == Head(c.buf)
  IN  /\ toApp' = [toApp EXCEPT ![p] = IF app[p].box = "none" THEN Take(c) ELSE c]
      /\ \/ app[p].box # "none" /\ UNCHANGED app
         \/ /\ app[p].box = "none" /\ app[p].window = "login"
            /\ \/ m.cmd = "app_register_reply" /\ HandleRegisterReply(p, m)
               \/ m.cmd = "app_login_reply" /\ HandleLoginReply(p, m)
         \/ /\ app[p].box = "none" /\ app[p].window = "bind"
            /\ IF m.cmd = "app_bind_reply" THEN HandleBindReply(p, m) ELSE UNCHANGED app
         \/ app[p].box = "none" /\ app[p].window = "player" /\ UNCHANGED app
      /\ UNCHANGED <<account, server, toServer, clicks, proved, bound>>

(* The user closes the message box and the slot goes on.                   *)
CloseBox(p) ==
  /\ app[p].box # "none"
  /\ app' = [app EXCEPT ![p].box = "none",
                        ![p].window = IF app[p].box = "then_bind" THEN "bind" ELSE @]
  /\ UNCHANGED <<account, server, toServer, toApp, clicks, proved, bound>>

-----------------------------------------------------------------------------
(* The table survives the server (create table if not exists).             *)
DatabaseInitTable == {<<>>} \union {<<row>> : row \in Row}

Init == /\ account \in [Ids -> DatabaseInitTable]
        /\ \A i \in Ids \ Old : account[i] = <<>>
        /\ server = "runs"
        /\ app = [p \in Apps |-> [window |-> "login", box |-> "none",
                                  appid |-> None, deviceid |-> None]]
        /\ toServer = [p \in Apps |-> [wire |-> <<>>, buf |-> <<>>]]
        /\ toApp = [p \in Apps |-> [wire |-> <<>>, buf |-> <<>>]]
        /\ clicks = MaxClicks
        /\ proved = [p \in Apps |-> {}]
        /\ bound = [i \in Ids |-> {Found(i).deviceid} \ {None}]

User(p) == \/ \E i \in Ids, pw \in Passwords :
                OnRegisterClicked(p, i, pw) \/ OnLoginClicked(p, i, pw)
           \/ \E d \in Devices : OnBindClicked(p, d)
           \/ CloseBox(p)
ServerReads(p) == \E n \in 1..Len(toServer[p].wire) : ReadCb(p, n)
AppReads(p) == \E n \in 1..Len(toApp[p].wire) : ReciveReply(p, n)

Next == \E p \in Apps : User(p) \/ ServerReads(p) \/ ServerReadData(p) \/ AppReads(p)

(* What is sent arrives, and both event loops run; users owe nothing.      *)
Fairness == \A p \in Apps : WF_vars(ServerReads(p)) /\ WF_vars(AppReads(p))

SafetySpec == Init /\ [][Next]_vars
Spec == SafetySpec /\ Fairness

-----------------------------------------------------------------------------
(* Properties.                                                             *)

(* The table, the windows and the messages have the fields they need.      *)
TypeOK == /\ account \in [Ids -> Seq(Row)]
          /\ server \in {"runs", "spins", "dead"}
          /\ app \in [Apps -> Window]
          /\ toServer \in [Apps -> Channel(Request)]
          /\ toApp \in [Apps -> Channel(Reply)]
          /\ clicks \in 0..MaxClicks
          /\ proved \in [Apps -> SUBSET Ids]
          /\ bound \in [Ids -> SUBSET Devices]

(* However many apps register, log in and bind at a time, and although an  *)
(* appid may be inserted again when the database refuses the check         *)
(* (database.cpp:71-82): what logins read of an account keeps the password *)
(* it was registered with first, and a speaker only comes to one that is   *)
(* there (database.cpp:115-172, 199-214).                                  *)
Book == INSTANCE AccountBook WITH account <- [i \in Ids |-> Found(i)]
BookKept == Book!Spec

(* The bind and player windows act for an account whose password this app  *)
(* has shown (widget.cpp:131-155, server.cpp:265-303), also when answers   *)
(* come in twos or late.                                                   *)
WindowIsLoggedIn ==
  \A p \in Apps : p \notin Hasty /\ app[p].window # "login" =>
                    app[p].appid \in proved[p]

(* The player window steers a speaker that its account was bound to        *)
(* (bind.cpp:52, widget.cpp:141).                                          *)
PlayerIsBound ==
  \A p \in Apps : p \notin Hasty /\ app[p].window = "player" =>
                    app[p].deviceid \in bound[app[p].appid]

(* A patient user sees an answer, a box or the player window, unless the   *)
(* server dies or spins, whatever the impatient ones send meanwhile        *)
(* (server.cpp:136-203, widget.cpp:77-94, bind.cpp:37-64).                 *)
Answered(p) == app[p].box # "none" \/ app[p].window = "player"
PatientIsAnswered ==
  \A p \in Patient : ~Quiet(p) ~> Answered(p) \/ server # "runs"

=============================================================================
