---------------------------- MODULE SignupProofs -----------------------------
(***************************************************************************)
(* Theorems about the sign-up server, for any number of clients, permits,  *)
(* slots and names.                                                        *)
(***************************************************************************)
EXTENDS SignupServer, FiniteSetTheorems, TLAPS

\* A thread is in add_user only while it serves its client, and with that
\* client's name; no answer goes out before.
Serving ==
  \A c \in Client :
    /\ stage[c] \notin {"adding", "raised"} => place[c] = "out"
    /\ stage[c] = "raised" => place[c] \in {"out", "error"}
    /\ place[c] # "out" => asked[c] = Wants[c]
    /\ stage[c] \in {"new", "queued", "key", "message"} => ~result[c]
    /\ stage[c] \in {"new", "queued", "key", "message", "adding"} => reply[c] = "none"

\* A result is that of the caller's own insertion.
ResultIsOwn ==
  \A c \in Client :
    /\ result[c] => users[Wants[c]] = c
    /\ result[c] => place[c] \in {"free", "done", "out"}

\* What a client has been told is what was answered, and that the result.
AnswerIsResult ==
  \A c \in Client :
    /\ reply[c] = "SIGNUP" => result[c]
    /\ told[c] = "success" => reply[c] = "SIGNUP"
    /\ reply[c] = "Signup Failed" => ~result[c]

ClientsTyped ==
  /\ stage \in [Client -> Stage]
  /\ reply \in [Client -> Reply]
  /\ told \in [Client -> Told]

Inv == /\ DbTypeOK /\ ClientsTyped /\ WriterAlone /\ CheckStillTrue
       /\ Serving /\ ResultIsOwn /\ AnswerIsResult

\* Lemma: Inv holds initially (UserDatabase.__init__, SignupServer.__init__).
LEMMA InvInit == Init => Inv
BY DatabaseAssumption
   DEF Init, DbInit, Inv, DbTypeOK, ClientsTyped, WriterAlone, CheckStillTrue, Serving,
       ResultIsOwn, AnswerIsResult, Place, Stage, Reply, Told, Client

\* Lemma: a step of a call (the methods of UserDatabase) keeps the types.
LEMMA DbTypeStep ==
  ASSUME DbTypeOK, NEW t \in Thread, DatabaseStep(t)
  PROVE  DbTypeOK'
<1> USE DatabaseAssumption DEF DbTypeOK, Place, Goes, Held, Unheld, Gives
<1>1. CASE AcquireRead(t) BY <1>1 DEF AcquireRead
<1>2. CASE ReleaseRead(t) BY <1>2 DEF ReleaseRead
<1>3. CASE AcquireWrite(t) BY <1>3 DEF AcquireWrite
<1>4. CASE Check(t)
  <2>1. CASE MayInsert(asked[t]) BY <1>4, <2>1 DEF Check
  <2>2. CASE ~MayInsert(asked[t]) BY <1>4, <2>2 DEF Check
  <2> QED BY <2>1, <2>2
<1>5. CASE Insert(t)
  <2>1. users' \in [Name -> Thread \cup {NoThread}]
    BY <1>5 DEF Insert
  <2>3. result' \in [Thread -> BOOLEAN]
    BY <1>5, Zenon DEF Insert
  <2>2. place' \in [Thread -> Place] /\ UNCHANGED <<owner, writing, asked>>
    BY <1>5 DEF Insert
  <2> QED BY <2>1, <2>2, <2>3
<1>6. CASE ReleaseWrite(t) BY <1>6 DEF ReleaseWrite
<1>7. CASE SqliteRaises(t) BY <1>7 DEF SqliteRaises
<1> QED BY <1>1, <1>2, <1>3, <1>4, <1>5, <1>6, <1>7 DEF DatabaseStep

\* Lemma: a writer stays alone.  Whoever takes a permit finds one that nobody
\* holds, whoever gives one back is not at check or insert afterwards.
LEMMA AloneStep ==
  ASSUME DbTypeOK, WriterAlone, NEW t \in Thread, DatabaseStep(t)
  PROVE  WriterAlone'
<1> USE DatabaseAssumption DEF DbTypeOK, WriterAlone, Place, Goes, Held, Unheld, Gives
<1>1. CASE AcquireRead(t) BY <1>1 DEF AcquireRead
<1>2. CASE ReleaseRead(t) BY <1>2 DEF ReleaseRead
<1>3. CASE AcquireWrite(t) BY <1>3 DEF AcquireWrite, Enough
<1>4. CASE Check(t) BY <1>4 DEF Check
<1>5. CASE Insert(t) BY <1>5 DEF Insert
<1>6. CASE ReleaseWrite(t) BY <1>6 DEF ReleaseWrite
<1>7. CASE SqliteRaises(t) BY <1>7 DEF SqliteRaises
<1> QED BY <1>1, <1>2, <1>3, <1>4, <1>5, <1>6, <1>7 DEF DatabaseStep

\* Lemma: what a writer has checked stays so: only a writer at insert changes
\* the table, and two of them would hold the same permit.
LEMMA CheckedStep ==
  ASSUME DbTypeOK, WriterAlone, CheckStillTrue, NEW t \in Thread, DatabaseStep(t)
  PROVE  CheckStillTrue'
<1> USE DatabaseAssumption DEF DbTypeOK, CheckStillTrue, Place, Goes
<1>1. CASE AcquireRead(t) BY <1>1 DEF AcquireRead
<1>2. CASE ReleaseRead(t) BY <1>2 DEF ReleaseRead
<1>3. CASE AcquireWrite(t) BY <1>3 DEF AcquireWrite
<1>4. CASE Check(t) BY <1>4 DEF Check, MayInsert
<1>5. CASE Insert(t)
  <2>1. ASSUME NEW u \in Thread, place[u] = "insert", place[t] = "insert" PROVE u = t
    BY <2>1 DEF WriterAlone, Held
  <2> QED BY <1>5, <2>1 DEF Insert
<1>6. CASE ReleaseWrite(t) BY <1>6 DEF ReleaseWrite
<1>7. CASE SqliteRaises(t) BY <1>7 DEF SqliteRaises
<1> QED BY <1>1, <1>2, <1>3, <1>4, <1>5, <1>6, <1>7 DEF DatabaseStep

\* What a step of a call may do to the table, the results and the places: it
\* leaves the first two alone and decides at most on a refusal, or it inserts.
NoInsertion(t) ==
  /\ users' = users /\ result' = result
  /\ place[t] \in {"free", "done"} => place'[t] \in {"free", "done"}
  /\ place[t] \notin {"free", "done"} /\ place'[t] \in {"free", "done"} =>
       place[t] = "check" /\ ~MayInsert(asked[t])

Insertion(t) ==
  /\ place[t] = "insert" /\ place'[t] = "free"
  /\ asked[t] \in ValidName /\ users[asked[t]] = NoThread
  /\ users' = [users EXCEPT ![asked[t]] = t]
  /\ result' = [result EXCEPT ![t] = TRUE]

\* Lemma: a step of a call is one or the other, and only its thread moves.
LEMMA CallSteps ==
  ASSUME DbTypeOK, CheckStillTrue, NEW t \in Thread, DatabaseStep(t)
  PROVE  /\ place[t] \notin {"out", "done", "error"} /\ place'[t] # "out"
         /\ asked' = asked
         /\ \A u \in Thread : u # t => place'[u] = place[u]
         /\ NoInsertion(t) \/ Insertion(t)
<1> USE DatabaseAssumption DEF DbTypeOK, Place, Goes, NoInsertion, Insertion
<1>1. CASE AcquireRead(t) BY <1>1 DEF AcquireRead
<1>2. CASE ReleaseRead(t) BY <1>2 DEF ReleaseRead
<1>3. CASE AcquireWrite(t) BY <1>3 DEF AcquireWrite
<1>4. CASE Check(t) BY <1>4 DEF Check
<1>5. CASE Insert(t) BY <1>5 DEF Insert, CheckStillTrue
<1>6. CASE ReleaseWrite(t) BY <1>6 DEF ReleaseWrite
<1>7. CASE SqliteRaises(t) BY <1>7 DEF SqliteRaises
<1> QED BY <1>1, <1>2, <1>3, <1>4, <1>5, <1>6, <1>7 DEF DatabaseStep

\* Lemma: a step of a call keeps the relation of threads and clients.
LEMMA InvCall ==
  ASSUME Inv, NEW c \in Client, DatabaseStep(c), UNCHANGED signupVars
  PROVE  Inv'
<1> USE DEF Inv, Client
<1>1. DbTypeOK' /\ WriterAlone' /\ CheckStillTrue'
  BY DbTypeStep, AloneStep, CheckedStep
<1>2. ClientsTyped'
  BY DEF ClientsTyped, signupVars
<1>4. NoInsertion(c) \/ Insertion(c)
  BY CallSteps
<1>5. /\ \A d \in Client : d # c => place'[d] = place[d]
      /\ place[c] # "out" /\ asked[c] = Wants[c] /\ reply[c] = "none"
  BY CallSteps DEF Serving, ClientsTyped, Stage
<1>3. Serving'
  <2>1. stage[c] = "adding" /\ place'[c] # "out"
    BY CallSteps DEF Serving, ClientsTyped, Stage
  <2>2. \A d \in Client : d # c => result'[d] = result[d]
    <3>1. CASE NoInsertion(c) BY <3>1 DEF NoInsertion
    <3>2. CASE Insertion(c) BY <3>2, Zenon DEF Insertion, DbTypeOK
    <3> QED BY <1>4, <3>1, <3>2
  <2>3. asked' = asked
    BY CallSteps
  <2> QED BY <1>5, <2>1, <2>2, <2>3 DEF Serving, signupVars
<1>6. CASE NoInsertion(c)
  <2>1. UNCHANGED <<users, result, reply, told>>
    BY <1>6 DEF NoInsertion, signupVars
  <2>2. result[c] => place'[c] \in {"free", "done", "out"}
    BY <1>5, <1>6 DEF NoInsertion, ResultIsOwn
  <2>3. ResultIsOwn'
    BY <2>1, <2>2, <1>5 DEF ResultIsOwn
  <2> QED BY <1>1, <1>2, <1>3, <2>1, <2>3 DEF AnswerIsResult
<1>7. CASE Insertion(c)
  <2>1. /\ users[Wants[c]] = NoThread
        /\ users' = [users EXCEPT ![Wants[c]] = c]
        /\ place'[c] = "free"
    BY <1>5, <1>7 DEF Insertion
  <2>2. \A d \in Client : d # c => result'[d] = result[d]
    BY <1>7, Zenon DEF Insertion, DbTypeOK
  <2>3. ASSUME NEW d \in Client, result'[d]
        PROVE  users'[Wants[d]] = d /\ place'[d] \in {"free", "done", "out"}
    <3>1. CASE d = c BY <2>1, <3>1, SignupAssumption DEF DbTypeOK
    <3>2. CASE d # c
      <4>1. users[Wants[d]] = d /\ place[d] \in {"free", "done", "out"}
        BY <2>2, <2>3, <3>2 DEF ResultIsOwn
      <4> QED BY <2>1, <1>5, <3>2, <4>1, SignupAssumption, DatabaseAssumption DEF DbTypeOK
    <3> QED BY <3>1, <3>2
  <2>4. ResultIsOwn'
    BY <2>3 DEF ResultIsOwn
  <2>5. AnswerIsResult'
    BY <1>5, <2>2 DEF AnswerIsResult, signupVars
  <2> QED BY <1>1, <1>2, <1>3, <2>4, <2>5
<1> QED BY <1>4, <1>6, <1>7

\* Lemma: Inv survives every step of the server and of its clients.
LEMMA InvStep == Inv /\ [Next]_vars => Inv'
<1> SUFFICES ASSUME Inv, [Next]_vars PROVE Inv'
  OBVIOUS
<1> USE DEF Client
<1>1. CASE UNCHANGED vars
  BY <1>1 DEF Inv, DbTypeOK, ClientsTyped, WriterAlone, CheckStillTrue, Serving, ResultIsOwn,
              AnswerIsResult, vars, dbVars, callVars, signupVars, Held
<1>2. ASSUME NEW c \in Client, DatabaseStep(c), UNCHANGED signupVars PROVE Inv'
  BY <1>2, InvCall
<1> DEFINE Quiet == UNCHANGED <<owner, writing, users, result>>
<1>3. ASSUME Quiet, UNCHANGED <<place, asked>>, ClientsTyped', Serving', AnswerIsResult'
      PROVE  Inv'
  BY <1>3 DEF Inv, DbTypeOK, WriterAlone, CheckStillTrue, ResultIsOwn, Held
<1> USE DEF Inv, ClientsTyped, Stage, Reply, Told, Moves, Waiting
<1>4. ASSUME NEW c \in Client,
             Connect(c) \/ TakeSlot(c) \/ KeyArrives(c) \/ BadFormat(c) \/ Silence(c)
               \/ Garbage(c) \/ GiveSlot(c) \/ ReadsReply(c) \/ GivesUp(c)
      PROVE  Inv'
  <2>1. Quiet /\ UNCHANGED <<place, asked>> /\ ClientsTyped'
    BY <1>4 DEF Connect, TakeSlot, KeyArrives, BadFormat, Silence, Garbage, GiveSlot,
                ReadsReply, GivesUp, dbVars, callVars
  <2>2. Serving'
    <3>1. CASE Connect(c) \/ TakeSlot(c) \/ KeyArrives(c)
      BY <3>1, ZenonT(60) DEF Serving, Connect, TakeSlot, KeyArrives, dbVars, callVars
    <3>2. CASE BadFormat(c) \/ Silence(c)
      BY <3>2, ZenonT(60) DEF Serving, BadFormat, Silence, dbVars, callVars
    <3>3. CASE Garbage(c) \/ GiveSlot(c)
      BY <3>3, ZenonT(60) DEF Serving, Garbage, GiveSlot, dbVars, callVars
    <3>4. CASE ReadsReply(c) \/ GivesUp(c)
      BY <3>4, ZenonT(60) DEF Serving, ReadsReply, GivesUp, dbVars, callVars
    <3> QED BY <1>4, <3>1, <3>2, <3>3, <3>4
  <2>3. AnswerIsResult'
    BY <1>4, ZenonT(60) DEF Serving, AnswerIsResult, Connect, TakeSlot, KeyArrives, BadFormat, Silence,
                Garbage, GiveSlot, ReadsReply, GivesUp, dbVars, callVars
  <2> QED BY <2>1, <2>2, <2>3, <1>3
<1>5. ASSUME NEW c \in Client, AddUserRaises(c) PROVE Inv'
  BY <1>3, <1>5 DEF AddUserRaises, Serving, AnswerIsResult, dbVars, callVars
<1>6. ASSUME NEW c \in Client, MessageArrives(c) PROVE Inv'
  <2>1. result' = result
    BY <1>6, Zenon DEF MessageArrives, Call, Serving, DbTypeOK
  <2>2. DbTypeOK' /\ ClientsTyped'
    BY <1>6, <2>1, SignupAssumption DEF MessageArrives, Call, DbTypeOK, Place
  <2>3. WriterAlone' /\ CheckStillTrue'
    BY <1>6 DEF MessageArrives, Call, WriterAlone, CheckStillTrue, Held, DbTypeOK
  <2>4. Serving' /\ ResultIsOwn' /\ AnswerIsResult'
    BY <1>6, <2>1, ZenonT(60) DEF MessageArrives, Call, Serving, ResultIsOwn, AnswerIsResult, DbTypeOK
  <2> QED BY <2>2, <2>3, <2>4
<1>7. ASSUME NEW c \in Client, AddUserReturns(c) PROVE Inv'
  <2>1. DbTypeOK' /\ ClientsTyped'
    BY <1>7 DEF AddUserReturns, Goes, DbTypeOK, Place, Answer
  <2>2. WriterAlone' /\ CheckStillTrue'
    BY <1>7 DEF AddUserReturns, Goes, WriterAlone, CheckStillTrue, Held, DbTypeOK
  <2>3. Serving' /\ ResultIsOwn' /\ AnswerIsResult'
    BY <1>7, ZenonT(60) DEF AddUserReturns, Goes, Serving, ResultIsOwn, AnswerIsResult, Answer, DbTypeOK
  <2> QED BY <2>1, <2>2, <2>3
<1> QED BY <1>1, <1>2, <1>4, <1>5, <1>6, <1>7 DEF Next, Serve

\* Theorem: Inv holds in every state.
THEOREM InvAlways == Spec => []Inv
BY InvInit, InvStep, PTL DEF Spec

-----------------------------------------------------------------------------
(* The slots: every slot that is not free belongs to a connection *)

Holding == {c \in Client : stage[c] \in {"key", "message", "adding", "leave", "raised"}}
SlotsCounted ==
  IsFiniteSet(Holding) /\ free \in Nat /\ free + Cardinality(Holding) = Slots

LEMMA SlotsInit == Init => SlotsCounted
<1> SUFFICES ASSUME Init PROVE SlotsCounted
  OBVIOUS
<1>1. Holding = {}
  BY DEF Init, Holding
<1>2. free = Slots /\ Slots \in Nat
  BY SignupAssumption DEF Init
<1> QED BY <1>1, <1>2, FS_EmptySet DEF SlotsCounted

\* Lemma: a step that leaves CLIENT_SEMAPHORE alone leaves its holders alone.
LEMMA SlotsKept ==
  ASSUME ClientsTyped, NEW c \in Client,
         \/ Connect(c) \/ KeyArrives(c) \/ MessageArrives(c) \/ BadFormat(c) \/ Silence(c)
         \/ Garbage(c) \/ AddUserReturns(c) \/ AddUserRaises(c) \/ ReadsReply(c) \/ GivesUp(c)
         \/ (DatabaseStep(c) /\ UNCHANGED signupVars)
  PROVE  free' = free /\ Holding' = Holding
<1>1. free' = free
  BY DEF Connect, KeyArrives, MessageArrives, BadFormat, Silence, Garbage, AddUserReturns,
         AddUserRaises, ReadsReply, GivesUp, signupVars
<1>2. \/ stage' = stage
      \/ \E from, to \in Stage :
           \/ from = "new" /\ to = "queued" /\ Moves(c, from, to)
           \/ /\ from \in {"key", "message", "adding"}
              /\ to \in {"message", "adding", "leave", "raised"}
              /\ Moves(c, from, to)
  BY DEF Connect, KeyArrives, MessageArrives, BadFormat, Silence, Garbage, AddUserReturns,
         AddUserRaises, ReadsReply, GivesUp, signupVars, Moves, Stage
<1>3. \A d \in Client : d \in Holding' <=> d \in Holding
  BY <1>2 DEF Holding, Moves, ClientsTyped
<1> QED BY <1>1, <1>3 DEF Holding

LEMMA SlotsStep == Inv /\ SlotsCounted /\ [Next]_vars => SlotsCounted'
<1> SUFFICES ASSUME Inv, SlotsCounted, [Next]_vars PROVE SlotsCounted'
  OBVIOUS
<1>1. ClientsTyped
  BY DEF Inv
<1>2. Cardinality(Holding) \in Nat
  BY FS_CardinalityType DEF SlotsCounted
<1>3. ASSUME free' = free, Holding' = Holding PROVE SlotsCounted'
  BY <1>3 DEF SlotsCounted
<1>4. CASE UNCHANGED vars
  BY <1>3, <1>4 DEF vars, signupVars, Holding
<1>5. ASSUME NEW c \in Client, TakeSlot(c) PROVE SlotsCounted'
  <2>1. c \notin Holding /\ Holding' = Holding \cup {c}
    BY <1>1, <1>5 DEF TakeSlot, Moves, Holding, ClientsTyped
  <2>2. free > 0 /\ free' = free - 1
    BY <1>5 DEF TakeSlot, SlotFree
  <2>3. IsFiniteSet(Holding') /\ Cardinality(Holding') = Cardinality(Holding) + 1
    BY <2>1, FS_AddElement DEF SlotsCounted
  <2> QED BY <1>2, <2>2, <2>3 DEF SlotsCounted
<1>6. ASSUME NEW c \in Client, GiveSlot(c) PROVE SlotsCounted'
  <2>1. c \in Holding /\ Holding' = Holding \ {c}
    BY <1>1, <1>6 DEF GiveSlot, Moves, Holding, ClientsTyped
  <2>2. free' = free + 1
    BY <1>6 DEF GiveSlot
  <2>3. IsFiniteSet(Holding') /\ Cardinality(Holding') = Cardinality(Holding) - 1
    BY <2>1, FS_RemoveElement DEF SlotsCounted
  <2> QED BY <1>2, <2>2, <2>3 DEF SlotsCounted
<1> QED BY <1>1, <1>3, <1>4, <1>5, <1>6, SlotsKept DEF Next, Serve

\* Theorem: every variable keeps its type; above all, the slots that are free
\* are never more than there are (handle_client gives back what it took, once).
THEOREM SignupTypes == Spec => []TypeOK
<1>1. Inv /\ SlotsCounted => TypeOK
  <2> SUFFICES ASSUME Inv, SlotsCounted PROVE TypeOK
    OBVIOUS
  <2>1. Cardinality(Holding) \in Nat
    BY FS_CardinalityType DEF SlotsCounted
  <2>2. free \in 0..Slots
    BY <2>1, SignupAssumption DEF SlotsCounted
  <2> QED BY <2>2 DEF Inv, ClientsTyped, TypeOK
<1>2. Spec => []SlotsCounted
  BY SlotsInit, SlotsStep, InvAlways, PTL DEF Spec
<1> QED BY <1>1, <1>2, InvAlways, PTL

\* Theorem: between _acquire_write and _release_write no other thread holds a
\* permit, for any number of permits and threads.
THEOREM WriterIsAlone == Spec => []WriterAlone
BY InvAlways, PTL DEF Inv

\* Theorem: INSERT never meets a name that another thread inserted between
\* the check of add_user and its insertion.
THEOREM NoDuplicateInsert == Spec => []CheckStillTrue
BY InvAlways, PTL DEF Inv

\* Theorem: who is told SIGNUP has created the account itself (handle_client).
THEOREM SuccessMeansOwnAccount == Spec => []SuccessIsOwn
<1>1. Inv => SuccessIsOwn
  BY DEF Inv, SuccessIsOwn, ResultIsOwn, AnswerIsResult
<1> QED BY <1>1, InvAlways, PTL

-----------------------------------------------------------------------------
(* The refinement *)

\* Lemma: a step that keeps the table, the results, and for every client
\* whether it has been refused, changes nothing in the account book.
LEMMA BookStutters ==
  ASSUME users' = users, result' = result,
         \A c \in Client : (reply[c] = "Signup Failed" \/ place[c] \in {"free", "done"}) <=>
                          (reply'[c] = "Signup Failed" \/ place'[c] \in {"free", "done"})
  PROVE  users' = users /\ Verdict' = Verdict
BY DEF Verdict

\* Lemma: a step of a call is a step of the account book or a stutter.
LEMMA BookCall ==
  ASSUME Inv, Inv', NEW c \in Client, DatabaseStep(c), UNCHANGED signupVars
  PROVE  [Book!Next]_<<users, Verdict>>
<1> USE DEF Client
<1>1. NoInsertion(c) \/ Insertion(c)
  BY CallSteps DEF Inv
<1>2. /\ \A d \in Client : d # c => place'[d] = place[d]
      /\ place[c] \notin {"out", "done", "error"}
      /\ asked[c] = Wants[c] /\ reply[c] = "none" /\ reply' = reply
  BY CallSteps DEF Inv, Serving, ClientsTyped, Stage, signupVars
<1>3. CASE NoInsertion(c) /\ (place[c] \in {"free", "done"} <=> place'[c] \in {"free", "done"})
  BY <1>2, <1>3, BookStutters DEF NoInsertion
<1>4. CASE /\ NoInsertion(c)
           /\ ~(place[c] \in {"free", "done"} <=> place'[c] \in {"free", "done"})
  <2>1. place[c] = "check" /\ place'[c] \in {"free", "done"} /\ ~MayInsert(Wants[c])
    BY <1>2, <1>4 DEF NoInsertion
  <2>2. ~result[c] /\ result' = result /\ users' = users
    BY <1>4, <2>1 DEF NoInsertion, Inv, ResultIsOwn
  <2>3. Verdict[c] = "open" /\ Verdict' = [Verdict EXCEPT ![c] = "refused"]
    BY <1>2, <2>1, <2>2 DEF Verdict
  <2>4. Book!Refuse(c)
    BY <2>1, <2>2, <2>3 DEF Book!Refuse, MayInsert
  <2> QED BY <2>4 DEF Book!Next
<1>5. CASE Insertion(c)
  <2>1. /\ ~result[c] /\ place[c] = "insert"
        /\ Wants[c] \in ValidName /\ users[Wants[c]] = NoThread
        /\ users' = [users EXCEPT ![Wants[c]] = c]
    BY <1>2, <1>5 DEF Insertion, Inv, ResultIsOwn
  <2>2. result'[c] /\ \A d \in Client : d # c => result'[d] = result[d]
    BY <1>5, Zenon DEF Insertion, Inv, DbTypeOK
  <2>3. Verdict[c] = "open" /\ Verdict' = [Verdict EXCEPT ![c] = "created"]
    BY <1>2, <2>1, <2>2 DEF Verdict
  <2>4. Book!Create(c)
    BY <2>1, <2>3 DEF Book!Create
  <2> QED BY <2>4 DEF Book!Next
<1> QED BY <1>1, <1>3, <1>4, <1>5

\* Lemma: every step of the server is a step of the account book or a stutter.
LEMMA BookStep ==
  ASSUME Inv, Inv', [Next]_vars PROVE [Book!Next]_<<users, Verdict>>
<1> USE DEF Client
<1>1. CASE UNCHANGED vars
  BY <1>1, BookStutters DEF vars, dbVars, callVars, signupVars
<1>2. ASSUME NEW c \in Client, DatabaseStep(c), UNCHANGED signupVars
      PROVE  [Book!Next]_<<users, Verdict>>
  BY <1>2, BookCall
<1>3. ASSUME NEW c \in Client,
             Connect(c) \/ TakeSlot(c) \/ KeyArrives(c) \/ Silence(c)
               \/ Garbage(c) \/ AddUserRaises(c) \/ GiveSlot(c) \/ ReadsReply(c) \/ GivesUp(c)
      PROVE  [Book!Next]_<<users, Verdict>>
  BY <1>3, BookStutters DEF Connect, TakeSlot, KeyArrives, Silence, Garbage, AddUserRaises,
          GiveSlot, ReadsReply, GivesUp, dbVars, callVars
<1>4. ASSUME NEW c \in Client, BadFormat(c) PROVE [Book!Next]_<<users, Verdict>>
  BY <1>4, BookStutters DEF BadFormat, Moves, Inv, Serving, ClientsTyped, dbVars, callVars
<1>5. ASSUME NEW c \in Client, MessageArrives(c) PROVE [Book!Next]_<<users, Verdict>>
  <2>1. result' = result
    <3>1. ~result[c] /\ result' = [result EXCEPT ![c] = FALSE]
      BY <1>5 DEF MessageArrives, Call, Moves, Inv, Serving
    <3>2. result \in [Client -> BOOLEAN]
      BY DEF Inv, DbTypeOK
    <3> QED BY <3>1, <3>2, Zenon
  <2> QED BY <1>5, <2>1, BookStutters DEF MessageArrives, Call, Moves, Inv, Serving, DbTypeOK
<1>6. ASSUME NEW c \in Client, AddUserReturns(c) PROVE [Book!Next]_<<users, Verdict>>
  <2>1. UNCHANGED <<users, result>> /\ (\A d \in Client : d # c => place'[d] = place[d]
                                                         /\ reply'[d] = reply[d])
    BY <1>6 DEF AddUserReturns, Goes, Inv, DbTypeOK, ClientsTyped
  <2>2. place[c] = "done" /\ place'[c] = "out" /\ reply[c] = "none" /\ reply'[c] = Answer(c)
    BY <1>6 DEF AddUserReturns, Goes, Moves, Inv, DbTypeOK, ClientsTyped, Serving
  <2>3. Verdict' = Verdict
    BY <2>1, <2>2 DEF Verdict, Answer
  <2> QED BY <2>1, <2>3
<1> QED BY <1>1, <1>2, <1>3, <1>4, <1>5, <1>6 DEF Next, Serve

\* Theorem: the sign-up server implements the account book: accounts are
\* created one by one, each by the client that is told so, and a request is
\* refused only for an invalid name or one that is taken by then.
THEOREM ServerImplementsBook == Spec => ImplementsBook
<1>1. Init => Book!Init
  BY DEF Init, DbInit, Book!Init, Verdict, Client
<1>2. Inv /\ Inv' /\ [Next]_vars => [Book!Next]_<<users, Verdict>>
  BY BookStep
<1> QED BY <1>1, <1>2, InvAlways, PTL DEF Spec, ImplementsBook, Book!Spec
=============================================================================
