---------------------------- MODULE AccountBook ----------------------------
(***************************************************************************)
(* What a user may expect of an account: it keeps the password it was      *)
(* registered with, and is bound, perhaps again, to a speaker.             *)
(***************************************************************************)
CONSTANTS
  Ids,         \* appids
  Passwords,   \* passwords
  Devices,     \* device ids
  None         \* SQL's null

VARIABLE account

NoRow == [password |-> None, deviceid |-> None]

(* The table is older than the server.                                     *)
Init == account \in [Ids -> {NoRow} \union [password: Passwords,
                                            deviceid: Devices \union {None}]]

Register(i, pw) == /\ account[i] = NoRow
                   /\ account' = [account EXCEPT ![i].password = pw]

Bind(i, d) == /\ account[i] # NoRow
              /\ account' = [account EXCEPT ![i].deviceid = d]

Next == \E i \in Ids : \/ \E pw \in Passwords : Register(i, pw)
                       \/ \E d \in Devices : Bind(i, d)

Spec == Init /\ [][Next]_account

=============================================================================
