---------------------------- MODULE UserDatabase -----------------------------
(***************************************************************************)
(* UserDatabase.add_user (utils/user_database.py) as the threads of one    *)
(* process run it: a reader holds one permit of the semaphore LOCK, a      *)
(* writer all of them, taken one by one.  The permits are told apart here, *)
(* which the semaphore does not do: it only counts them.                   *)
(***************************************************************************)
EXTENDS Naturals, FiniteSets

CONSTANTS
  Thread,      \* threads that call the database
  Permit,      \* NUM_OF_AQ permits
  Name,        \* user names asked for
  ValidName,   \* those that is_valid_username accepts
  DbErrors,    \* whether sqlite may raise: locked by another process, disk
  NoThread, NoName

ASSUME DatabaseAssumption ==
  /\ NoThread \notin Thread /\ NoName \notin Name
  /\ Permit # {}
  /\ ValidName \subseteq Name
  /\ DbErrors \in BOOLEAN

VARIABLES
  owner,   \* the thread that holds each permit
  writing, \* threads whose in_write_context is set
  users,   \* the table: the thread that inserted each name
  place,   \* where each thread is in add_user
  asked,   \* the name it was called with
  result   \* what it returns

callVars == <<place, asked, result>>
dbVars == <<owner, writing, users, callVars>>

Held(t) == {p \in Permit : owner[p] = t}
Unheld == Held(NoThread)
Gives(p) == owner' = [owner EXCEPT ![p] = NoThread]

\* ask: about to read; look: reading; collect: about to write; check, insert:
\* writing; free: giving the permits back; error: the call has raised.
Place == {"out", "ask", "look", "collect", "check", "insert", "free", "done", "error"}

Goes(t, from, to) ==
  /\ place[t] = from
  /\ place' = [place EXCEPT ![t] = to]
  /\ UNCHANGED asked

DbInit ==
  /\ owner = [p \in Permit |-> NoThread]
  /\ writing = {}
  /\ users = [n \in Name |-> NoThread]
  /\ place = [t \in Thread |-> "out"]
  /\ asked = [t \in Thread |-> NoName]
  /\ result = [t \in Thread |-> FALSE]

Call(t, n) ==
  /\ place' = [place EXCEPT ![t] = "ask"]
  /\ asked' = [asked EXCEPT ![t] = n]
  /\ result' = [result EXCEPT ![t] = FALSE]
  /\ UNCHANGED <<owner, writing, users>>

-----------------------------------------------------------------------------
(* user_exists, called first for its print only, then by the writer itself *)

AcquireRead(t) ==
  /\ Goes(t, "ask", "look")
  /\ \E p \in Unheld : owner' = [owner EXCEPT ![p] = t]
  /\ UNCHANGED <<writing, users, result>>

ReleaseRead(t) ==
  /\ Goes(t, "look", "collect")
  /\ \E p \in Held(t) : Gives(p)
  /\ UNCHANGED <<writing, users, result>>

-----------------------------------------------------------------------------
(* The writer *)

EnoughVariant(held) == Cardinality(Permit \ held) <= 1
Enough(held) == held = Permit

\* One turn of the loop of _acquire_write; after the last, in_write_context
\* is set.
AcquireWrite(t) ==
  /\ place[t] = "collect"
  /\ \E p \in Unheld :
       /\ owner' = [owner EXCEPT ![p] = t]
       /\ IF Enough(Held(t) \cup {p})
          THEN writing' = writing \cup {t} /\ Goes(t, "collect", "check")
          ELSE UNCHANGED <<writing, place, asked>>
  /\ UNCHANGED <<users, result>>

MayInsertAnyVariant(n) == users[n] = NoThread
MayInsert(n) == n \in ValidName /\ users[n] = NoThread

\* The nested user_exists takes no permit: the writer has set its context.
Check(t) ==
  /\ Goes(t, "check", IF MayInsert(asked[t]) THEN "insert" ELSE "free")
  /\ UNCHANGED <<owner, writing, users, result>>

\* INSERT and commit; the primary key refuses a name that is there.
Insert(t) ==
  /\ \/ /\ Goes(t, "insert", "free")
        /\ users[asked[t]] = NoThread
        /\ users' = [users EXCEPT ![asked[t]] = t]
        /\ result' = [result EXCEPT ![t] = TRUE]
     \/ /\ Goes(t, "insert", "error")
        /\ users[asked[t]] # NoThread
        /\ UNCHANGED <<users, result>>
  /\ UNCHANGED <<owner, writing>>

FreedVariant(t) == Cardinality(Held(t)) <= 1
Freed(t) == Held(t) = {}

ReleaseWrite(t) ==
  /\ \/ /\ Freed(t)
        /\ Goes(t, "free", "done")
        /\ writing' = writing \ {t}
        /\ UNCHANGED owner
     \/ /\ ~Freed(t)
        /\ place[t] = "free"
        /\ \E p \in Held(t) : Gives(p)
        /\ UNCHANGED <<writing, place, asked>>
  /\ UNCHANGED <<users, result>>

\* sqlite raises: no `finally` gives the permits back.
SqliteRaises(t) ==
  /\ DbErrors
  /\ Goes(t, "look", "error") \/ Goes(t, "check", "error") \/ Goes(t, "insert", "error")
  /\ UNCHANGED <<owner, writing, users, result>>

DatabaseStep(t) ==
  \/ AcquireRead(t) \/ ReleaseRead(t) \/ AcquireWrite(t) \/ Check(t)
  \/ Insert(t) \/ ReleaseWrite(t) \/ SqliteRaises(t)

-----------------------------------------------------------------------------
(* What the permits are for *)

DbTypeOK ==
  /\ owner \in [Permit -> Thread \cup {NoThread}]
  /\ writing \subseteq Thread
  /\ users \in [Name -> Thread \cup {NoThread}]
  /\ place \in [Thread -> Place]
  /\ asked \in [Thread -> Name \cup {NoName}]
  /\ result \in [Thread -> BOOLEAN]

\* A writer is alone: between _acquire_write and the first permit that
\* _release_write gives back, no other thread holds a permit, so none is in
\* the middle of a read or a write.
WriterAlone ==
  \A t \in Thread : place[t] \in {"check", "insert"} => Held(t) = Permit

\* What the writer has checked is still so when it inserts: INSERT never meets
\* the primary key of a name that is taken.
CheckStillTrue ==
  \A t \in Thread : place[t] = "insert" =>
    asked[t] \in ValidName /\ users[asked[t]] = NoThread
=============================================================================
