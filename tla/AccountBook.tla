---------------------------- MODULE AccountBook ------------------------------
(* What a user database promises its clients, without threads or permits:  *)
(* a request for an account is granted or refused, once and at once.       *)
CONSTANTS Thread, Name, ValidName, Wants, NoThread

VARIABLES users,    \* who created the account of each name
          verdict   \* what each client's request has come to

Init ==
  /\ users = [n \in Name |-> NoThread]
  /\ verdict = [c \in Thread |-> "open"]

Create(c) ==
  /\ verdict[c] = "open"
  /\ Wants[c] \in ValidName
  /\ users[Wants[c]] = NoThread
  /\ users' = [users EXCEPT ![Wants[c]] = c]
  /\ verdict' = [verdict EXCEPT ![c] = "created"]

Refuse(c) ==
  /\ verdict[c] = "open"
  /\ Wants[c] \notin ValidName \/ users[Wants[c]] # NoThread
  /\ verdict' = [verdict EXCEPT ![c] = "refused"]
  /\ UNCHANGED users

Next == \E c \in Thread : Create(c) \/ Refuse(c)

Spec == Init /\ [][Next]_<<users, verdict>>
=============================================================================
