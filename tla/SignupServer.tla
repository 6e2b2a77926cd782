---------------------------- MODULE SignupServer -----------------------------
(***************************************************************************)
(* The sign-up server (server/signup_server.py): a thread for each         *)
(* connection, CLIENT_SEMAPHORE for the connections served at once, and    *)
(* the client side of the exchange (client/signup_client.py).              *)
(***************************************************************************)
EXTENDS UserDatabase

CONSTANTS
  Slots,   \* MAX_CLIENTS
  Rude,    \* clients that may send anything, or nothing, instead
  Wants    \* the name that each client signs up

Client == Thread

ASSUME SignupAssumption ==
  /\ Slots \in Nat \ {0}
  /\ Rude \subseteq Client
  /\ Wants \in [Client -> Name]

VARIABLES
  free,    \* the value of CLIENT_SEMAPHORE
  stage,   \* where the thread of each client is in handle_client
  reply,   \* what the server has answered each client
  told     \* what the client's user has been told

signupVars == <<free, stage, reply, told>>
vars == <<dbVars, signupVars>>

Stage == {"new", "queued", "key", "message", "adding", "leave", "closed", "raised"}
Reply == {"none", "SIGNUP", "Signup Failed", "NOT VALID FORMAT"}
Told == {"nothing", "success", "failed", "gave up"}

Init ==
  /\ DbInit
  /\ free = Slots
  /\ stage = [c \in Client |-> "new"]
  /\ reply = [c \in Client |-> "none"]
  /\ told = [c \in Client |-> "nothing"]

\* The thread of client c goes from one stage to another.
Moves(c, from, to) == stage[c] = from /\ stage' = [stage EXCEPT ![c] = to]

\* SignupClient gives up when an answer takes longer than its timeout.
Waiting(c) == told[c] = "nothing"

Connect(c) ==
  /\ Moves(c, "new", "queued")
  /\ UNCHANGED <<dbVars, free, reply, told>>

SlotFreeVariant == free >= 0
SlotFree == free > 0

\* The slot; the public key is sent whether or not the client still listens.
TakeSlot(c) ==
  /\ SlotFree
  /\ Moves(c, "queued", "key")
  /\ free' = free - 1
  /\ UNCHANGED <<dbVars, reply, told>>

KeyArrives(c) ==
  /\ Waiting(c)
  /\ Moves(c, "key", "message")
  /\ UNCHANGED <<dbVars, free, reply, told>>

MessageArrives(c) ==
  /\ Waiting(c)
  /\ Moves(c, "message", "adding")
  /\ Call(c, Wants[c])
  /\ UNCHANGED <<free, reply, told>>

\* The other number of fields.
BadFormat(c) ==
  /\ c \in Rude
  /\ Moves(c, "message", "leave")
  /\ reply' = [reply EXCEPT ![c] = "NOT VALID FORMAT"]
  /\ UNCHANGED <<dbVars, free, told>>

\* Nothing arrives in time, or the client has gone: no answer, but the slot.
Silence(c) ==
  /\ c \in Rude \/ ~Waiting(c)
  /\ Moves(c, "key", "leave") \/ Moves(c, "message", "leave")
  /\ UNCHANGED <<dbVars, free, reply, told>>

\* decrypt or decode raises: the thread ends with its slot.
Garbage(c) ==
  /\ c \in Rude
  /\ Moves(c, "key", "raised") \/ Moves(c, "message", "raised")
  /\ UNCHANGED <<dbVars, free, reply, told>>

AnswerVariant(c) == IF asked[c] \in ValidName THEN "SIGNUP" ELSE "Signup Failed"
Answer(c) == IF result[c] THEN "SIGNUP" ELSE "Signup Failed"

\* The answer is sent whether or not the client still listens.
AddUserReturns(c) ==
  /\ Goes(c, "done", "out")
  /\ Moves(c, "adding", "leave")
  /\ reply' = [reply EXCEPT ![c] = Answer(c)]
  /\ UNCHANGED <<owner, writing, users, result, free, told>>

AddUserRaises(c) ==
  /\ place[c] = "error"
  /\ Moves(c, "adding", "raised")
  /\ UNCHANGED <<dbVars, free, reply, told>>

GiveSlot(c) ==
  /\ Moves(c, "leave", "closed")
  /\ free' = free + 1
  /\ UNCHANGED <<dbVars, reply, told>>

-----------------------------------------------------------------------------
(* The client *)

ReadsReply(c) ==
  /\ Waiting(c) /\ reply[c] # "none"
  /\ told' = [told EXCEPT ![c] = IF reply[c] = "SIGNUP" THEN "success" ELSE "failed"]
  /\ UNCHANGED <<dbVars, free, stage, reply>>

\* Its timeout, or the end of the connection, before an answer.
GivesUp(c) ==
  /\ Waiting(c) /\ stage[c] # "new"
  /\ told' = [told EXCEPT ![c] = "gave up"]
  /\ UNCHANGED <<dbVars, free, stage, reply>>

Serve(c) ==
  \/ TakeSlot(c) \/ KeyArrives(c) \/ MessageArrives(c) \/ BadFormat(c)
  \/ Silence(c) \/ Garbage(c) \/ AddUserReturns(c) \/ AddUserRaises(c) \/ GiveSlot(c)
  \/ (DatabaseStep(c) /\ UNCHANGED signupVars)

Next == \E c \in Client : Connect(c) \/ Serve(c) \/ ReadsReply(c) \/ GivesUp(c)

Spec == Init /\ [][Next]_vars

\* Each thread runs when it can: recv ends by its timeout, and a permit or a
\* slot that is given back again and again is obtained in the end.
FairSpec == Spec /\ \A c \in Client : SF_vars(Serve(c))

-----------------------------------------------------------------------------
TypeOK ==
  /\ DbTypeOK
  /\ free \in 0..Slots
  /\ stage \in [Client -> Stage]
  /\ reply \in [Client -> Reply]
  /\ told \in [Client -> Told]

\* A client is told SIGNUP only if it was its own request that created the
\* account (add_user's result, handle_client's answer): two clients that sign
\* up the same name are not both told so.
SuccessIsOwn ==
  \A c \in Client : reply[c] = "SIGNUP" \/ told[c] = "success" => users[Wants[c]] = c

\* Two writers that have each a permit and wait for one another's.
Jammed ==
  \E c, d \in Thread : /\ c # d /\ place[c] = "collect" /\ place[d] = "collect"
                       /\ Held(c) # {} /\ Held(d) # {}

\* A thread that has raised inside the database, with permits or alone in it.
LeftInside == \E c \in Thread : place[c] = "error" /\ Held(c) # {}

\* Every connection is served to its end, except for the two ways in which
\* the code stops: two writers jam, or a thread has raised with permits.
ServedUnlessStuck ==
  \A c \in Client :
    stage[c] \in {"key", "message", "adding"} ~>
      (stage[c] \in {"closed", "raised"} \/ Jammed \/ LeftInside)

\* What the request of each client has come to: decided by the check and the
\* insertion of add_user, long before the client hears of it.
Verdict ==
  [c \in Client |->
    IF result[c] THEN "created"
    ELSE IF reply[c] = "Signup Failed" \/ place[c] \in {"free", "done"} THEN "refused"
    ELSE "open"]

Book == INSTANCE AccountBook WITH verdict <- Verdict

\* The sign-up server implements the account book: whatever the interleaving,
\* accounts are created one by one, and a refusal has its reason when decided.
ImplementsBook == Book!Spec
=============================================================================
