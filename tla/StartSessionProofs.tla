------------------------- MODULE StartSessionProofs -------------------------
(***************************************************************************)
(* Theorems of StartSession, for every set of requests, users, keys,       *)
(* revisions, provisioned users and commands.                              *)
(***************************************************************************)
EXTENDS StartSession, TLAPS

USE ConstantsAssumption

\* The parts of a command.
LEMMA CommandType ==
    ASSUME NEW c \in Commands
    PROVE  c.user \in Users /\ c.key \in Keys /\ c.pair \in Pairs /\ c.interval \in Nat
BY DEF Command

THEOREM InitIInv == Init => IInv
<1>. SUFFICES ASSUME Init PROVE IInv
  OBVIOUS
<1>1. TypeOK
  BY DEF Init, TypeOK, Txn, NoTxn, Statuses, Profile, Hands
<1>2. \A r \in Requests : /\ cmd[r] \in Commands /\ txn[r] = NoTxn /\ pc[r] = "idle"
                          /\ answer[r].status = "none"
  BY DEF Init
<1>3. LocksConsistent
  <2>1. \A r \in Requests : ShapeOf(r)
    BY <1>2 DEF ShapeOf, NoTxn, Statements, AfterProfile, AfterHand, AfterRevision, AfterSession
  <2>. QED
    BY <1>2, <2>1 DEF LocksConsistent, FreshOf, Exclusive, NoTxn
<1>4. RowsConsistent /\ RecordsAccountForSessions /\ NoOrphanProfile /\ SessionsReproducible
  BY DEF Init, RowsConsistent, RecordsAccountForSessions, NoOrphanProfile, SessionsReproducible
<1>5. (\A r \in Requests : AnswerOf(r)) /\ ReplaysAgree /\ ContractErrorsUnreachable
  BY <1>2 DEF AnswerOf, ReplaysAgree, ContractErrorsUnreachable, Successful
<1>. QED
  BY <1>1, <1>3, <1>4, <1>5 DEF IInv

-----------------------------------------------------------------------------
(* Steps of one request that leave the committed rows alone *)

LocalStep(r) ==
    /\ UNCHANGED <<users, profiles, published, removed, sessions, records, cmd>>
    /\ pc[r] # "done"
    /\ \A q \in Requests \ {r} :
          pc'[q] = pc[q] /\ txn'[q] = txn[q] /\ answer'[q] = answer[q]

\* The answer a step gives is none yet, or one that promises nothing.
Unsuccessful(r) ==
    /\ \/ answer'[r] = answer[r] /\ pc[r] # "rollback" /\ pc'[r] \notin {"rollback", "done"}
       \/ answer'[r] = answer[r] /\ pc[r] = "rollback" /\ pc'[r] = "done"
       \/ answer'[r].status \notin Successful /\ pc'[r] \in {"rollback", "done"}
    /\ answer'[r] # answer[r] =>
          /\ answer'[r].status # "contract_failed"
          /\ answer'[r].status = "record_vanished" => cmd[r].user \notin users

\* What has to be shown of a local step: only what concerns its own request.
LEMMA LocalStepIInv ==
    ASSUME IInv, NEW r \in Requests, LocalStep(r), TypeOK',
           ShapeOf(r)', FreshOf(r)',
           \A q \in Requests \ {r} : Exclusive(r, q)',
           AnswerOf(r)', ReplaysAgree', ContractErrorsUnreachable'
    PROVE  IInv'
<1>1. \A q \in Requests \ {r} : ShapeOf(q)' /\ FreshOf(q)'
  BY DEF IInv, LocksConsistent, LocalStep, ShapeOf, FreshOf, VisibleProfiles
<1>2. \A q \in Requests \ {r} : Exclusive(q, r)'
  BY DEF Exclusive, SameKey
<1>3. \A p, q \in Requests \ {r} : p # q => Exclusive(p, q)'
  BY DEF IInv, LocksConsistent, LocalStep, Exclusive
<1>4. LocksConsistent'
  BY <1>1, <1>2, <1>3 DEF LocksConsistent
<1>5. RowsConsistent'
  <2>1. \A q \in Requests : pc[q] = "done" => pc'[q] = "done"
    BY DEF LocalStep
  <2>2. \A s \in sessions : s.id \in Requests
    BY DEF IInv, TypeOK, Session
  <2>3. \A rec \in records : rec.body.id \in Requests
    BY DEF IInv, TypeOK, Record, Body
  <2>. QED
    BY <2>1, <2>2, <2>3 DEF IInv, RowsConsistent, LocalStep
<1>6. RecordsAccountForSessions' /\ NoOrphanProfile' /\ SessionsReproducible'
  BY DEF IInv, RecordsAccountForSessions, NoOrphanProfile, SessionsReproducible, LocalStep
<1>7. \A q \in Requests : AnswerOf(q)'
  <2>1. \A q \in Requests \ {r} : AnswerOf(q)'
    BY DEF IInv, AnswerOf, LocalStep
  <2>. QED
    BY <2>1
<1>. QED
  BY <1>4, <1>5, <1>6, <1>7 DEF IInv

\* An unsuccessful answer is consistent with those of the other requests.
LEMMA NothingAnswered ==
    ASSUME IInv, NEW r \in Requests, LocalStep(r), Unsuccessful(r)
    PROVE  AnswerOf(r)' /\ ReplaysAgree' /\ ContractErrorsUnreachable'
<1>1. /\ UNCHANGED <<users, records, cmd>> /\ pc[r] # "done"
      /\ \A q \in Requests \ {r} : answer'[q] = answer[q]
  BY DEF LocalStep
<1>2. AnswerOf(r) /\ ReplaysAgree /\ ContractErrorsUnreachable
  BY DEF IInv
<1>3. \A q \in Requests : answer'[q] = answer[q] \/ answer'[q].status \notin Successful
  BY <1>1 DEF Unsuccessful
<1>4. AnswerOf(r)'
  <2>1. CASE answer'[r] = answer[r] /\ pc[r] # "rollback" /\ pc'[r] \notin {"rollback", "done"}
    BY <1>1, <1>2, <2>1 DEF AnswerOf, Successful
  <2>2. CASE answer'[r] = answer[r] /\ pc[r] = "rollback" /\ pc'[r] = "done"
    BY <1>1, <1>2, <2>2 DEF AnswerOf, SameKey, SameHash
  <2>3. CASE answer'[r].status \notin Successful /\ pc'[r] \in {"rollback", "done"}
    BY <2>3 DEF AnswerOf
  <2>. QED
    BY <2>1, <2>2, <2>3 DEF Unsuccessful
<1>5. ReplaysAgree'
  BY <1>1, <1>2, <1>3 DEF ReplaysAgree, SameHash, SameKey
<1>6. ContractErrorsUnreachable'
  BY <1>1, <1>2 DEF ContractErrorsUnreachable, Unsuccessful
<1>. QED
  BY <1>4, <1>5, <1>6

(* A request that acquires nothing keeps what it holds fresh and exclusive. *)
LEMMA NothingAcquired ==
    ASSUME IInv, NEW r \in Requests, LocalStep(r), txn[r] \in Txn,
           \/ txn'[r] = NoTxn
           \/ /\ txn'[r].profile = txn[r].profile
              /\ \/ txn'[r].record = txn[r].record
                 \/ txn[r].record = "processing" /\ txn'[r].record = "completed"
    PROVE  /\ FreshOf(r)'
           /\ \A q \in Requests \ {r} : Exclusive(r, q)'
<1>1. FreshOf(r) /\ \A q \in Requests \ {r} : Exclusive(r, q)
  BY DEF IInv, LocksConsistent
<1>2. /\ txn'[r].record # "none" => txn[r].record # "none"
      /\ txn'[r].record = "locked" => txn[r].record = "locked"
      /\ txn'[r].record \in {"processing", "completed"} =>
            txn[r].record \in {"processing", "completed"}
      /\ txn'[r].profile = "inserted" =>
            /\ txn[r].profile = "inserted"
            /\ txn[r].record \in {"processing", "completed"} =>
                  txn'[r].record \in {"processing", "completed"}
  BY DEF NoTxn, Txn
<1>3. FreshOf(r)'
  BY <1>1, <1>2 DEF FreshOf, LocalStep, SameKey
<1>4. \A q \in Requests \ {r} : Exclusive(r, q)'
  BY <1>1, <1>2 DEF Exclusive, LocalStep, SameKey
<1>. QED
  BY <1>3, <1>4

\* A statement moves to the next one or raises: the rest of TypeOK is about txn.
LEMMA StatementType ==
    ASSUME TypeOK, NEW r \in Requests, UNCHANGED <<committed, cmd>>,
           txn' \in [Requests -> Txn],
           \/ \E s \in Statements : Goto(r, s)
           \/ \E s \in Statuses, b \in Body \cup {NoBody} :
                 /\ answer' = [answer EXCEPT ![r] = [status |-> s, body |-> b]]
                 /\ \/ pc' = [pc EXCEPT ![r] = "rollback"]
                    \/ pc' = [pc EXCEPT ![r] = "done"]
    PROVE  TypeOK'
<1>1. UNCHANGED <<users, profiles, published, removed, sessions, records, cmd>>
  BY DEF committed
<1>2. pc' \in [Requests -> Statements \cup {"idle", "done"}]
  BY DEF TypeOK, Goto, Statements
<1>3. answer' \in [Requests -> [status : Statuses, body : Body \cup {NoBody}]]
  BY DEF TypeOK, Goto
<1>. QED
  BY <1>1, <1>2, <1>3 DEF TypeOK

-----------------------------------------------------------------------------
(* The actions of one request *)

\* The shape of a request that holds nothing, or only waits for its rollback.
LEMMA ShapeAtRest ==
    ASSUME NEW r \in Requests,
           \/ pc'[r] = "done" /\ txn'[r] = NoTxn
           \/ pc'[r] = "reserve" /\ txn'[r] = NoTxn /\ ValidInterval(cmd[r])'
           \/ pc'[r] = "rollback" /\ ValidInterval(cmd[r])'
    PROVE  ShapeOf(r)'
<1>1. CASE pc'[r] = "done" /\ txn'[r] = NoTxn
  BY <1>1 DEF ShapeOf, Statements, AfterProfile, AfterHand, AfterRevision, AfterSession
<1>2. CASE pc'[r] = "reserve" /\ txn'[r] = NoTxn /\ ValidInterval(cmd[r])'
  BY <1>2 DEF ShapeOf, AfterProfile, AfterHand, AfterRevision, AfterSession
<1>3. CASE pc'[r] = "rollback" /\ ValidInterval(cmd[r])'
  BY <1>3 DEF ShapeOf, AfterProfile, AfterHand, AfterRevision, AfterSession
<1>. QED
  BY <1>1, <1>2, <1>3

LEMMA IntervalStaysValid ==
    ASSUME NEW r \in Requests, LocalStep(r), ValidInterval(cmd[r])
    PROVE  ValidInterval(cmd[r])'
<1>1. cmd' = cmd
  BY DEF LocalStep
<1>. QED
  BY <1>1 DEF ValidInterval

LEMMA ReceiveIInv ==
    ASSUME IInv, NEW r \in Requests, Receive(r)
    PROVE  IInv'
<1>1. TypeOK'
  BY StatementType DEF IInv, TypeOK, Receive, Statements, Statuses
<1>2. LocalStep(r) /\ txn'[r] = txn[r] /\ txn[r] \in Txn
  BY DEF IInv, TypeOK, LocalStep, Receive, Goto, committed
<1>3. /\ pc[r] = "idle" /\ txn[r] = NoTxn
      /\ \/ pc'[r] = "reserve" /\ ValidInterval(cmd[r])
         \/ pc'[r] = "done"
  BY DEF IInv, TypeOK, LocksConsistent, ShapeOf, Receive, Goto
<1>4. ShapeOf(r)'
  <2>1. pc'[r] = "reserve" => ValidInterval(cmd[r])'
    BY <1>2, <1>3, IntervalStaysValid
  <2>2. txn'[r] = NoTxn
    BY <1>2, <1>3
  <2>3. pc'[r] \in {"reserve", "done"}
    BY <1>3
  <2>. QED
    BY <2>1, <2>2, <2>3, ShapeAtRest
<1>5. Unsuccessful(r)
  BY <1>3 DEF Unsuccessful, Successful, Receive, Goto, IInv, TypeOK
<1>. QED
  BY <1>1, <1>2, <1>4, <1>5, LocalStepIInv, NothingAcquired, NothingAnswered

LEMMA ReserveKeyIInv ==
    ASSUME IInv, NEW r \in Requests, ReserveKey(r)
    PROVE  IInv'
<1>1. TypeOK'
  BY DEF IInv, TypeOK, ReserveKey, Goto, committed, Statements, Txn
<1>2. /\ LocalStep(r)
      /\ txn[r] \in Txn
      /\ txn'[r] = [txn[r] EXCEPT !.record = "processing"]
      /\ pc'[r] = "insert_profile"
      /\ Unsuccessful(r)
  BY DEF IInv, TypeOK, LocalStep, ReserveKey, Runs, Goto, committed, Unsuccessful
<1>3. /\ pc[r] = "reserve" /\ txn[r] = NoTxn
      /\ ValidInterval(cmd[r])
  BY DEF IInv, LocksConsistent, ShapeOf, ReserveKey, Runs, Statements
<1>4. txn'[r] = [record |-> "processing", profile |-> "none", hand |-> "none",
                 session |-> "none"]
  BY <1>2, <1>3 DEF NoTxn
<1>5. ShapeOf(r)'
  <2>1. ValidInterval(cmd[r])'
    BY <1>2, <1>3, IntervalStaysValid
  <2>. QED
    BY <1>2, <1>4, <2>1 DEF ShapeOf, AfterProfile, AfterHand, AfterRevision, AfterSession
<1>6. FreshOf(r)'
  BY <1>2, <1>4 DEF FreshOf, ReserveKey, LocalStep, SameKey
<1>7. ASSUME NEW q \in Requests \ {r}
      PROVE  Exclusive(r, q)'
  <2>1. txn[q] \in Txn /\ FreshOf(q) /\ ~ Waits(r, q)
    BY DEF IInv, TypeOK, LocksConsistent, ReserveKey, Runs
  <2>2. SameKey(cmd[r], cmd[q]) => txn[q].record = "none"
    BY <1>3, <2>1 DEF Waits, FreshOf, SameKey, Txn, ReserveKey
  <2>. QED
    BY <1>2, <1>4, <2>1, <2>2 DEF Exclusive, LocalStep, SameKey
<1>. QED
  BY <1>1, <1>2, <1>5, <1>6, <1>7, LocalStepIInv, NothingAnswered

LEMMA ReserveForMissingUserIInv ==
    ASSUME IInv, NEW r \in Requests, ReserveForMissingUser(r)
    PROVE  IInv'
<1>1. TypeOK'
  BY DEF IInv, TypeOK, ReserveForMissingUser, Raise, committed, Statements, Statuses
<1>2. LocalStep(r) /\ txn'[r] = txn[r] /\ txn[r] \in Txn /\ Unsuccessful(r)
  BY DEF IInv, TypeOK, LocalStep, ReserveForMissingUser, Raise, Runs, committed,
     Unsuccessful, Successful
<1>3. /\ pc[r] = "reserve" /\ pc'[r] = "rollback"
      /\ txn[r] = NoTxn /\ ValidInterval(cmd[r])
  BY DEF IInv, TypeOK, LocksConsistent, ShapeOf, ReserveForMissingUser, Raise, Runs, Statements
<1>4. ShapeOf(r)'
  <2>1. ValidInterval(cmd[r])'
    BY <1>2, <1>3, IntervalStaysValid
  <2>. QED
    BY <1>2, <1>3, <2>1, ShapeAtRest
<1>. QED
  BY <1>1, <1>2, <1>4, LocalStepIInv, NothingAcquired, NothingAnswered

LEMMA FindExistingIInv ==
    ASSUME IInv, NEW r \in Requests, FindExisting(r)
    PROVE  IInv'
<1>1. TypeOK'
  BY DEF IInv, TypeOK, FindExisting, Goto, committed, Statements
<1>2. LocalStep(r) /\ txn'[r] = txn[r] /\ txn[r] \in Txn /\ Unsuccessful(r)
  BY DEF IInv, TypeOK, LocalStep, FindExisting, Goto, Runs, committed, Unsuccessful
<1>3. /\ pc[r] = "reserve" /\ pc'[r] = "lock_existing"
      /\ txn[r] = NoTxn /\ ValidInterval(cmd[r])
      /\ \E rec \in records : SameKey(rec, cmd[r])
  BY DEF IInv, TypeOK, LocksConsistent, ShapeOf, FindExisting, Goto, Runs, Statements
<1>4. ShapeOf(r)'
  <2>1. ValidInterval(cmd[r])'
    BY <1>2, <1>3, IntervalStaysValid
  <2>2. (\E rec \in records : SameKey(rec, cmd[r]))'
    BY <1>2, <1>3 DEF LocalStep, SameKey
  <2>3. pc'[r] = "lock_existing" /\ txn'[r] = NoTxn
    BY <1>2, <1>3
  <2>. QED
    BY <2>1, <2>2, <2>3 DEF ShapeOf, AfterProfile, AfterHand, AfterRevision, AfterSession
<1>. QED
  BY <1>1, <1>2, <1>4, LocalStepIInv, NothingAcquired, NothingAnswered

LEMMA MissExistingIInv ==
    ASSUME IInv, NEW r \in Requests, MissExisting(r)
    PROVE  IInv'
<1>1. TypeOK'
  BY DEF IInv, TypeOK, MissExisting, Raise, committed, Statements, Statuses
<1>2. /\ pc[r] = "lock_existing" /\ pc'[r] = "rollback"
      /\ txn[r] = NoTxn /\ ValidInterval(cmd[r])
      /\ cmd[r].user \notin users
  BY DEF IInv, TypeOK, LocksConsistent, ShapeOf, MissExisting, Raise, Runs, Statements
<1>3. LocalStep(r) /\ txn'[r] = txn[r] /\ txn[r] \in Txn /\ Unsuccessful(r)
  BY <1>2 DEF IInv, TypeOK, LocalStep, MissExisting, Raise, committed,
     Unsuccessful, Successful
<1>4. ShapeOf(r)'
  <2>1. ValidInterval(cmd[r])'
    BY <1>2, <1>3, IntervalStaysValid
  <2>. QED
    BY <1>2, <1>3, <2>1, ShapeAtRest
<1>. QED
  BY <1>1, <1>3, <1>4, LocalStepIInv, NothingAcquired, NothingAnswered

LEMMA ReadRevisionIInv ==
    ASSUME IInv, NEW r \in Requests, ReadRevision(r)
    PROVE  IInv'
<1>1. TypeOK'
  BY StatementType DEF IInv, TypeOK, ReadRevision, Raise, Statements, Statuses
<1>2. /\ LocalStep(r) /\ txn'[r] = txn[r] /\ txn[r] \in Txn /\ Unsuccessful(r)
      /\ pc[r] = "read_revision" /\ ShapeOf(r)
      /\ \/ pc'[r] = "insert_session" /\ cmd[r].pair \in published
         \/ pc'[r] = "rollback"
  BY DEF IInv, TypeOK, LocksConsistent, LocalStep, ReadRevision, Goto, Raise, Runs, committed,
     Unsuccessful, Successful
<1>3. ShapeOf(r)'
  <2>1. UNCHANGED <<cmd, published, removed, profiles>> /\ txn'[r] = txn[r]
    BY <1>2 DEF LocalStep
  <2>2. ValidInterval(cmd[r])'
    BY <1>2, IntervalStaysValid DEF ShapeOf, Statements
  <2>3. CASE pc'[r] = "rollback"
    BY <2>2, <2>3, ShapeAtRest
  <2>4. CASE pc'[r] = "insert_session" /\ cmd[r].pair \in published
    BY <1>2, <2>1, <2>2, <2>4
    DEF ShapeOf, VisibleProfiles, AfterProfile, AfterHand, AfterRevision, AfterSession
  <2>. QED
    BY <1>2, <2>3, <2>4
<1>. QED
  BY <1>1, <1>2, <1>3, LocalStepIInv, NothingAcquired, NothingAnswered

\* ROLLBACK and a lost connection both release everything.
LEMMA EndIInv ==
    ASSUME IInv, NEW r \in Requests, Rollback(r) \/ LoseConnection(r)
    PROVE  IInv'
<1>1. TypeOK'
  <2>1. txn' \in [Requests -> Txn]
    BY DEF IInv, TypeOK, Rollback, LoseConnection, Txn, NoTxn
  <2>2. CASE Rollback(r)
    BY <2>1, <2>2 DEF IInv, TypeOK, Rollback, committed
  <2>3. CASE LoseConnection(r)
    BY <2>1, <2>3, StatementType DEF IInv, LoseConnection, Statuses
  <2>. QED
    BY <2>2, <2>3
<1>2. /\ LocalStep(r) /\ txn'[r] = NoTxn /\ txn[r] \in Txn /\ Unsuccessful(r)
      /\ pc'[r] = "done"
  BY DEF IInv, TypeOK, LocalStep, Rollback, LoseConnection, InTxn, Runs, committed,
     Unsuccessful, Successful, Statements
<1>3. ShapeOf(r)'
  BY <1>2, ShapeAtRest
<1>. QED
  BY <1>1, <1>2, <1>3, LocalStepIInv, NothingAcquired, NothingAnswered

(* A request that gets the body of its key's record agrees with the others: *)
(* their records are still there if it has the same user.                   *)
LEMMA RecordedAnswersAgree ==
    ASSUME IInv, NEW r \in Requests, cmd' = cmd,
           \A q \in Requests \ {r} : answer'[q] = answer[q],
           RecordsAccountForSessions', \A q \in Requests : AnswerOf(q)',
           cmd[r].user \in users'
    PROVE  ReplaysAgree'
<1>. DEFINE Agree(p, q) ==
        answer'[p].status \in Successful /\ answer'[q].status \in Successful =>
            /\ SameKey(cmd[p], cmd[q]) <=> answer'[p].body.id = answer'[q].body.id
            /\ SameKey(cmd[p], cmd[q]) => answer'[p].body = answer'[q].body
            /\ SameHash(answer'[p].body, cmd[p])
<1>1. \A p, q \in Requests \ {r} : Agree(p, q)
  BY DEF IInv, ReplaysAgree
<1>2. \A q \in Requests : answer'[q].status \in Successful =>
         /\ SameKey(cmd[answer'[q].body.id], cmd[q])
         /\ SameHash(answer'[q].body, cmd[q])
         /\ cmd[q].user \in users' =>
               \E rec \in records' : SameKey(rec, cmd[q]) /\ rec.body = answer'[q].body
  BY DEF AnswerOf, SameKey, SameHash
<1>3. \A rec, other \in records' : SameKey(rec, other) => rec = other
  BY DEF RecordsAccountForSessions, SameKey
<1>4. ASSUME NEW q \in Requests
      PROVE  Agree(r, q) /\ Agree(q, r)
  <2>. SUFFICES ASSUME answer'[r].status \in Successful, answer'[q].status \in Successful
                PROVE  Agree(r, q) /\ Agree(q, r)
    OBVIOUS
  <2>1. answer'[r].body.id = answer'[q].body.id => SameKey(cmd[r], cmd[q])
    BY <1>2 DEF SameKey
  <2>2. SameKey(cmd[r], cmd[q]) => answer'[r].body = answer'[q].body
    <3>. SUFFICES ASSUME SameKey(cmd[r], cmd[q]) PROVE answer'[r].body = answer'[q].body
      OBVIOUS
    <3>1. cmd[q].user \in users'
      BY DEF SameKey
    <3>2. PICK rec \in records' : SameKey(rec, cmd[r]) /\ rec.body = answer'[r].body
      BY <1>2
    <3>3. PICK other \in records' : SameKey(other, cmd[q]) /\ other.body = answer'[q].body
      BY <1>2, <3>1
    <3>4. rec = other
      BY <1>3, <3>2, <3>3 DEF SameKey
    <3>. QED
      BY <3>2, <3>3, <3>4
  <2>3. SameKey(cmd[r], cmd[q]) <=> SameKey(cmd[q], cmd[r])
    BY DEF SameKey
  <2>. QED
    BY <1>2, <2>1, <2>2, <2>3
<1>5. \A p, q \in Requests : Agree(p, q)
  BY <1>1, <1>4
<1>. QED
  BY <1>5 DEF ReplaysAgree, SameKey, SameHash

LEMMA LockExistingIInv ==
    ASSUME IInv, NEW r \in Requests, LockExisting(r)
    PROVE  IInv'
<1>1. PICK rec \in records :
        /\ SameKey(rec, cmd[r])
        /\ txn' = [txn EXCEPT ![r].record = "locked"]
        /\ \/ ~ SameHash(rec, cmd[r]) /\ Raise(r, "key_conflict", NoBody)
           \/ /\ SameHash(rec, cmd[r]) /\ rec.state = "completed"
              /\ Raise(r, "replayed", rec.body)
  BY DEF LockExisting, IInv, RecordsAccountForSessions
<1>2. /\ UNCHANGED <<committed, cmd>> /\ pc[r] = "lock_existing"
      /\ \A q \in Requests \ {r} : ~ Waits(r, q)
  BY DEF LockExisting, Runs
<1>3. /\ TypeOK /\ txn[r] \in Txn /\ txn[r] = NoTxn /\ ValidInterval(cmd[r])
      /\ cmd[r].user \in users
  BY <1>1, <1>2 DEF IInv, TypeOK, LocksConsistent, RowsConsistent, ShapeOf, Statements, SameKey
<1>4. TypeOK'
  <2>1. txn' \in [Requests -> Txn]
    BY <1>1, <1>3 DEF TypeOK, Txn
  <2>2. rec.body \in Body
    BY <1>3 DEF TypeOK, Record
  <2>. QED
    BY <1>1, <1>2, <1>3, <2>1, <2>2, StatementType DEF Raise, Statuses
<1>5. /\ LocalStep(r)
      /\ txn'[r] = [txn[r] EXCEPT !.record = "locked"]
      /\ pc'[r] = "rollback"
      /\ \/ ~ SameHash(rec, cmd[r]) /\ answer'[r].status = "key_conflict"
         \/ /\ SameHash(rec, cmd[r])
            /\ answer'[r].status = "replayed" /\ answer'[r].body = rec.body
  BY <1>1, <1>2, <1>3 DEF TypeOK, LocalStep, Raise, committed
<1>6. txn'[r] = [record |-> "locked", profile |-> "none", hand |-> "none",
                 session |-> "none"]
  BY <1>3, <1>5 DEF NoTxn
<1>7. ShapeOf(r)'
  BY <1>3, <1>5, IntervalStaysValid, ShapeAtRest
<1>8. FreshOf(r)'
  BY <1>1, <1>3, <1>5, <1>6 DEF FreshOf, LocalStep, SameKey
<1>9. ASSUME NEW q \in Requests \ {r}
      PROVE  Exclusive(r, q)'
  <2>1. txn[q] \in Txn
    BY <1>3 DEF TypeOK
  <2>2. SameKey(cmd[r], cmd[q]) => txn[q].record = "none"
    BY <1>2 DEF Waits, SameKey
  <2>. QED
    BY <1>5, <1>6, <2>1, <2>2 DEF Exclusive, LocalStep, SameKey
<1>10. AnswerOf(r)' /\ ReplaysAgree' /\ ContractErrorsUnreachable'
  <2>1. CASE ~ SameHash(rec, cmd[r])
    BY <1>5, <2>1, NothingAnswered DEF Unsuccessful, Successful
  <2>2. CASE SameHash(rec, cmd[r])
    <3>1. /\ answer'[r].status = "replayed" /\ answer'[r].body = rec.body
          /\ UNCHANGED <<users, sessions, records, cmd>>
      BY <1>5, <2>2 DEF LocalStep
    <3>2. SameKey(cmd[rec.body.id], cmd[r]) /\ rec.body \in Body
      BY <1>1, <1>3 DEF IInv, RowsConsistent, SameKey, TypeOK, Record
    <3>3. SameHash(rec.body, cmd[r])
      <4>1. PICK s \in sessions :
              rec.body = BodyOf([s EXCEPT !.lifecycle = "active"]) /\ SameHash(rec, s)
        BY DEF IInv, RecordsAccountForSessions
      <4>2. s \in Session
        BY <1>3 DEF TypeOK
      <4>3. rec.body.pair = s.pair /\ rec.body.interval = s.interval
        BY <4>1, <4>2 DEF BodyOf, Session
      <4>. QED
        BY <2>2, <4>1, <4>3 DEF SameHash
    <3>4. AnswerOf(r)'
      BY <1>1, <1>5, <3>1, <3>2, <3>3 DEF AnswerOf, SameKey, SameHash
    <3>5. \A q \in Requests \ {r} : AnswerOf(q)'
      BY <1>5 DEF IInv, AnswerOf, LocalStep, SameKey, SameHash
    <3>6. RecordsAccountForSessions'
      BY <3>1 DEF IInv, RecordsAccountForSessions
    <3>7. ReplaysAgree'
      BY <1>3, <1>5, <3>1, <3>4, <3>5, <3>6, RecordedAnswersAgree DEF LocalStep
    <3>8. ContractErrorsUnreachable'
      BY <1>5, <3>1 DEF IInv, ContractErrorsUnreachable, LocalStep
    <3>. QED
      BY <3>4, <3>7, <3>8
  <2>. QED
    BY <2>1, <2>2
<1>. QED
  BY <1>4, <1>5, <1>7, <1>8, <1>9, <1>10, LocalStepIInv

LEMMA InsertProfileIInv ==
    ASSUME IInv, NEW r \in Requests, InsertProfile(r)
    PROVE  IInv'
<1>1. /\ UNCHANGED <<committed, cmd>> /\ pc[r] = "insert_profile"
      /\ \A q \in Requests \ {r} : ~ Waits(r, q)
      /\ ShapeOf(r) /\ FreshOf(r) /\ TypeOK
  BY DEF InsertProfile, Runs, IInv, LocksConsistent
<1>2. /\ txn[r] \in Txn /\ txn[r].record = "processing" /\ txn[r].profile = "none"
      /\ ValidInterval(cmd[r])
  BY <1>1 DEF TypeOK, ShapeOf, Statements
<1>3. /\ Goto(r, "read_profile")
      /\ txn' = IF \E p \in profiles : p.user = cmd[r].user
                THEN txn
                ELSE [txn EXCEPT ![r].profile = "inserted"]
  BY <1>1, <1>2 DEF InsertProfile, FreshOf
<1>4. txn' \in [Requests -> Txn]
  BY <1>1, <1>3 DEF TypeOK, Txn
<1>5. TypeOK'
  BY <1>1, <1>3, <1>4, StatementType DEF Statements
<1>6. /\ LocalStep(r) /\ pc'[r] = "read_profile" /\ Unsuccessful(r)
      /\ txn'[r] = IF \E p \in profiles : p.user = cmd[r].user
                   THEN txn[r] ELSE [txn[r] EXCEPT !.profile = "inserted"]
  BY <1>1, <1>3 DEF TypeOK, LocalStep, Goto, committed, Unsuccessful
<1>7. ValidInterval(cmd[r])'
  BY <1>2, <1>6, IntervalStaysValid
<1>8. UNCHANGED <<users, profiles, records, cmd>>
  BY <1>6 DEF LocalStep
<1>9. CASE \E p \in profiles : p.user = cmd[r].user
  <2>1. txn'[r] = txn[r]
    BY <1>6, <1>9
  <2>2. VisibleProfiles(r)' # {}
    BY <1>8, <1>9 DEF VisibleProfiles
  <2>3. ShapeOf(r)'
    BY <1>2, <1>6, <1>7, <2>1, <2>2 DEF ShapeOf, AfterProfile, AfterHand, AfterRevision, AfterSession
  <2>. QED
    BY <1>2, <1>5, <1>6, <2>1, <2>3, LocalStepIInv, NothingAcquired, NothingAnswered
<1>10. CASE ~ \E p \in profiles : p.user = cmd[r].user
  <2>1. txn'[r] = [txn[r] EXCEPT !.profile = "inserted"]
    BY <1>6, <1>10
  <2>2. /\ txn'[r].profile = "inserted"
        /\ txn'[r].record = "processing"
    BY <1>2, <2>1 DEF Txn
  <2>3. VisibleProfiles(r)' # {}
    BY <2>2 DEF VisibleProfiles
  <2>4. ShapeOf(r)'
    BY <1>6, <1>7, <2>2, <2>3 DEF ShapeOf, AfterProfile, AfterHand, AfterRevision, AfterSession
  <2>5. FreshOf(r)'
    BY <1>1, <1>2, <1>8, <1>10, <2>2 DEF FreshOf, SameKey
  <2>6. ASSUME NEW q \in Requests \ {r}
        PROVE  Exclusive(r, q)'
    <3>1. Exclusive(r, q) /\ txn'[q] = txn[q]
      BY <1>6 DEF IInv, LocksConsistent, LocalStep
    <3>2. cmd[r].user = cmd[q].user => txn[q].profile # "inserted"
      BY <1>1 DEF Waits
    <3>. QED
      BY <1>2, <1>8, <2>2, <3>1, <3>2 DEF Exclusive, SameKey
  <2>. QED
    BY <1>5, <1>6, <2>4, <2>5, <2>6, LocalStepIInv, NothingAnswered
<1>. QED
  BY <1>9, <1>10

LEMMA ReadProfileIInv ==
    ASSUME IInv, NEW r \in Requests, ReadProfile(r)
    PROVE  IInv'
<1>1. /\ UNCHANGED <<committed, cmd>> /\ pc[r] = "read_profile"
      /\ ShapeOf(r) /\ FreshOf(r) /\ TypeOK
  BY DEF ReadProfile, Runs, IInv, LocksConsistent
<1>2. /\ txn[r] \in Txn /\ txn[r].record = "processing" /\ VisibleProfiles(r) # {}
      /\ ValidInterval(cmd[r]) /\ cmd[r] \in Commands
  BY <1>1 DEF TypeOK, ShapeOf, Statements, AfterProfile
<1>3. PICK p \in VisibleProfiles(r) :
        /\ txn' = [txn EXCEPT ![r].hand = p.hand]
        /\ Goto(r, "read_revision")
  BY <1>2 DEF ReadProfile
<1>4. /\ p.hand \in Hands
      /\ p.hand = "right" => cmd[r].user \in Provisioned
      /\ p.hand = "left" => [user |-> cmd[r].user, hand |-> "right"] \notin profiles
      /\ txn[r].profile = "inserted" => p.hand = "left"
  <2>1. CASE p \in profiles /\ p.user = cmd[r].user
    BY <1>1, <2>1 DEF TypeOK, Profile, IInv, RowsConsistent, NoOrphanProfile, FreshOf
  <2>2. CASE txn[r].profile = "inserted" /\ p = [user |-> cmd[r].user, hand |-> "left"]
    BY <1>1, <2>2 DEF FreshOf, Hands
  <2>. QED
    BY <2>1, <2>2 DEF VisibleProfiles
<1>5. txn' \in [Requests -> Txn]
  <2>1. [txn[r] EXCEPT !.hand = p.hand] \in Txn
    BY <1>2, <1>4 DEF Txn
  <2>2. txn \in [Requests -> Txn] /\ txn' = [txn EXCEPT ![r] = [txn[r] EXCEPT !.hand = p.hand]]
    BY <1>1, <1>3 DEF TypeOK
  <2>. QED
    BY <2>1, <2>2
<1>6. TypeOK'
  BY <1>1, <1>3, <1>5, StatementType DEF Statements
<1>7. /\ LocalStep(r) /\ pc'[r] = "read_revision" /\ Unsuccessful(r)
      /\ txn'[r] = [txn[r] EXCEPT !.hand = p.hand]
  BY <1>1, <1>3 DEF TypeOK, LocalStep, Goto, committed, Unsuccessful
<1>8. /\ txn'[r].hand = p.hand /\ txn'[r].record = "processing"
      /\ txn'[r].profile = txn[r].profile
  BY <1>2, <1>7 DEF Txn
<1>9. UNCHANGED <<profiles, published, removed, cmd>>
  BY <1>7 DEF LocalStep
<1>10. VisibleProfiles(r)' # {}
  BY <1>2, <1>8, <1>9 DEF VisibleProfiles
<1>11. ValidInterval(cmd[r])'
  BY <1>2, <1>7, IntervalStaysValid
<1>12. ShapeOf(r)'
  BY <1>4, <1>7, <1>8, <1>9, <1>10, <1>11 DEF ShapeOf, AfterProfile, AfterHand, AfterRevision, AfterSession
<1>. QED
  BY <1>2, <1>6, <1>7, <1>8, <1>12, LocalStepIInv, NothingAcquired, NothingAnswered

\* fk_revision_pair refuses a session whose target has gone since it was read.
LEMMA InsertSessionFailsIInv ==
    ASSUME IInv, NEW r \in Requests, InsertSession(r), cmd[r].pair \in removed
    PROVE  IInv'
<1>1. /\ UNCHANGED <<committed, cmd>> /\ pc[r] = "insert_session"
      /\ txn' = [txn EXCEPT ![r] = NoTxn] /\ Raise(r, "foreign_key_failed", NoBody)
      /\ ShapeOf(r) /\ TypeOK /\ txn[r] \in Txn
  BY DEF InsertSession, Runs, IInv, LocksConsistent, TypeOK
<1>2. txn' \in [Requests -> Txn]
  BY <1>1 DEF TypeOK, Txn, NoTxn
<1>3. TypeOK'
  BY <1>1, <1>2, StatementType DEF Raise, Statuses
<1>4. /\ LocalStep(r) /\ Unsuccessful(r)
      /\ pc'[r] = "rollback" /\ txn'[r] = NoTxn /\ ValidInterval(cmd[r])
  BY <1>1 DEF TypeOK, LocalStep, Raise, committed, Unsuccessful, Successful, ShapeOf, Statements
<1>5. ShapeOf(r)'
  BY <1>4, IntervalStaysValid, ShapeAtRest
<1>. QED
  BY <1>1, <1>3, <1>4, <1>5, LocalStepIInv, NothingAcquired, NothingAnswered

\* The three statements that write only the transaction's own new rows.
LEMMA OwnRowsIInv ==
    ASSUME IInv, NEW r \in Requests,
           \/ InsertSession(r) /\ cmd[r].pair \notin removed
           \/ Activate(r) \/ CompleteRecord(r)
    PROVE  IInv'
<1>1. /\ UNCHANGED <<committed, cmd>> /\ pc[r] \in {"insert_session", "activate", "complete"}
      /\ ShapeOf(r) /\ TypeOK /\ txn[r] \in Txn
  BY DEF InsertSession, Activate, CompleteRecord, Runs, IInv, LocksConsistent, TypeOK
<1>2. \/ /\ pc[r] = "insert_session" /\ Goto(r, "activate")
         /\ txn' = [txn EXCEPT ![r].session = "created"]
      \/ /\ pc[r] = "activate" /\ Goto(r, "complete")
         /\ txn' = [txn EXCEPT ![r].session = "active"]
      \/ /\ pc[r] = "complete" /\ Goto(r, "commit")
         /\ txn' = [txn EXCEPT ![r].record = "completed"]
  BY <1>1 DEF InsertSession, Activate, CompleteRecord, Runs, ShapeOf, AfterProfile
<1>8. cmd[r].pair \notin removed
  BY <1>1 DEF Activate, CompleteRecord, Runs, ShapeOf, AfterSession
<1>3. txn' \in [Requests -> Txn]
  <2>1. /\ [txn[r] EXCEPT !.session = "created"] \in Txn
        /\ [txn[r] EXCEPT !.session = "active"] \in Txn
        /\ [txn[r] EXCEPT !.record = "completed"] \in Txn
    BY <1>1 DEF Txn
  <2>2. /\ txn \in [Requests -> Txn]
        /\ \/ txn' = [txn EXCEPT ![r] = [txn[r] EXCEPT !.session = "created"]]
           \/ txn' = [txn EXCEPT ![r] = [txn[r] EXCEPT !.session = "active"]]
           \/ txn' = [txn EXCEPT ![r] = [txn[r] EXCEPT !.record = "completed"]]
    BY <1>1, <1>2 DEF TypeOK
  <2>. QED
    BY <2>1, <2>2
<1>4. TypeOK'
  BY <1>1, <1>2, <1>3, StatementType DEF Statements
<1>5. LocalStep(r) /\ Unsuccessful(r)
  BY <1>1, <1>2 DEF TypeOK, LocalStep, Goto, committed, Unsuccessful
<1>6. /\ txn'[r].profile = txn[r].profile /\ txn'[r].hand = txn[r].hand
      /\ \/ /\ pc'[r] = "activate" /\ txn'[r].session = "created"
            /\ txn'[r].record = txn[r].record /\ txn[r].record = "processing"
         \/ /\ pc'[r] = "complete" /\ txn'[r].session = "active"
            /\ txn'[r].record = txn[r].record /\ txn[r].record = "processing"
         \/ /\ pc'[r] = "commit" /\ txn'[r].session = "active"
            /\ txn'[r].record = "completed" /\ txn[r].record = "processing"
  BY <1>1, <1>2 DEF TypeOK, Txn, Goto, ShapeOf, AfterProfile
<1>7. ShapeOf(r)'
  <2>1. UNCHANGED <<profiles, published, removed, cmd>>
    BY <1>5 DEF LocalStep
  <2>2. VisibleProfiles(r)' # {}
    BY <1>1, <1>6, <2>1 DEF ShapeOf, VisibleProfiles, AfterProfile
  <2>3. ValidInterval(cmd[r])'
    BY <1>1, <1>5, IntervalStaysValid DEF ShapeOf, Statements
  <2>4. /\ txn'[r].hand \in Hands
        /\ txn'[r].hand = "right" => cmd'[r].user \in Provisioned
        /\ txn'[r].hand = "left" /\ cmd'[r].user \in Provisioned =>
              [user |-> cmd'[r].user, hand |-> "right"] \notin profiles'
        /\ txn'[r].profile = "inserted" => txn'[r].hand = "left"
        /\ cmd'[r].pair \in published' \ removed'
    BY <1>1, <1>6, <1>8, <2>1 DEF ShapeOf, AfterHand, AfterRevision, AfterSession
  <2>. QED
    BY <1>6, <2>2, <2>3, <2>4 DEF ShapeOf, AfterProfile, AfterHand, AfterRevision, AfterSession
<1>. QED
  BY <1>1, <1>4, <1>5, <1>6, <1>7, LocalStepIInv, NothingAcquired, NothingAnswered

LEMMA CommitIInv ==
    ASSUME IInv, NEW r \in Requests, Commit(r)
    PROVE  IInv'
<1>. DEFINE s == SessionOf(r)
            rec == RecordOf(r)
<1>1. /\ UNCHANGED <<users, published, removed, cmd>> /\ pc[r] = "commit"
      /\ profiles' = profiles \cup VisibleProfiles(r)
      /\ sessions' = sessions \cup {s} /\ records' = records \cup {rec}
      /\ txn' = [txn EXCEPT ![r] = NoTxn]
      /\ pc' = [pc EXCEPT ![r] = "done"]
      /\ \/ answer' = [answer EXCEPT ![r] = [status |-> "accepted", body |-> BodyOf(s)]]
         \/ answer' = [answer EXCEPT ![r] = [status |-> "unknown", body |-> NoBody]]
  BY DEF Commit, Runs
<1>2. TypeOK /\ ShapeOf(r) /\ FreshOf(r)
  BY DEF IInv, LocksConsistent
<1>3. /\ cmd[r] \in Commands /\ ValidInterval(cmd[r])
      /\ cmd[r].user \in users /\ cmd[r].pair \in published \ removed
      /\ txn[r].record = "completed" /\ txn[r].session = "active"
      /\ txn[r].hand \in Hands
  BY <1>1, <1>2 DEF TypeOK, ShapeOf, FreshOf, Statements, AfterHand, AfterRevision, AfterSession
<1>4. /\ cmd[r].user \in Users /\ cmd[r].key \in Keys /\ cmd[r].pair \in Pairs
      /\ cmd[r].interval \in Nat
  BY <1>3, CommandType
<1>5. /\ s \in Session
      /\ s.id = r /\ s.user = cmd[r].user /\ s.pair = cmd[r].pair
      /\ s.interval = cmd[r].interval /\ s.hand = txn[r].hand /\ s.lifecycle = "active"
      /\ [s EXCEPT !.lifecycle = "active"] = s
  BY <1>3, <1>4 DEF SessionOf, Session
<1>6. /\ BodyOf(s) \in Body /\ BodyOf(s).id = r
      /\ BodyOf(s).pair = cmd[r].pair /\ BodyOf(s).interval = cmd[r].interval
  BY <1>5 DEF BodyOf, Body, Session
<1>7. /\ rec \in Record /\ rec.body = BodyOf(s) /\ rec.state = "completed"
      /\ rec.user = cmd[r].user /\ rec.key = cmd[r].key
      /\ rec.pair = cmd[r].pair /\ rec.interval = cmd[r].interval
  BY <1>3, <1>4, <1>6 DEF RecordOf, Record
<1>8. \A p \in VisibleProfiles(r) :
         \/ p \in profiles
         \/ txn[r].profile = "inserted" /\ p = [user |-> cmd[r].user, hand |-> "left"]
  BY DEF VisibleProfiles
<1>9. \A other \in records : ~ SameKey(other, cmd[r]) /\ ~ SameKey(other, rec)
                              /\ ~ SameKey(rec, other)
  BY <1>2, <1>3, <1>7 DEF FreshOf, SameKey
<1>10. /\ \A other \in sessions : pc[other.id] = "done" /\ other.id # r
       /\ \A other \in records : pc[other.body.id] = "done" /\ other.body.id # r
  BY <1>1 DEF IInv, RowsConsistent
<1>11. TypeOK'
  <2>1. profiles' \subseteq Profile
    BY <1>1, <1>2, <1>4, <1>8 DEF TypeOK, Profile, Hands
  <2>2. sessions' \subseteq Session /\ records' \subseteq Record
    BY <1>1, <1>2, <1>5, <1>7 DEF TypeOK
  <2>3. txn' \in [Requests -> Txn] /\ pc' \in [Requests -> Statements \cup {"idle", "done"}]
    BY <1>1, <1>2 DEF TypeOK, NoTxn, Txn
  <2>4. answer' \in [Requests -> [status : Statuses, body : Body \cup {NoBody}]]
    BY <1>1, <1>2, <1>6 DEF TypeOK, Statuses
  <2>. QED
    BY <1>1, <1>2, <2>1, <2>2, <2>3, <2>4 DEF TypeOK
<1>12. /\ pc'[r] = "done" /\ txn'[r] = NoTxn
       /\ \A q \in Requests \ {r} :
             pc'[q] = pc[q] /\ txn'[q] = txn[q] /\ answer'[q] = answer[q]
  BY <1>1, <1>2 DEF TypeOK
<1>13. LocksConsistent'
  <2>1. ShapeOf(r)' /\ FreshOf(r)'
    BY <1>12, ShapeAtRest DEF FreshOf, NoTxn
  <2>2. ASSUME NEW q \in Requests \ {r}
        PROVE  ShapeOf(q)' /\ FreshOf(q)'
    <3>1. ShapeOf(q) /\ FreshOf(q) /\ Exclusive(r, q)
      BY DEF IInv, LocksConsistent
    <3>2. VisibleProfiles(q) \subseteq VisibleProfiles(q)'
      BY <1>1, <1>12 DEF VisibleProfiles
    <3>3. [user |-> cmd[q].user, hand |-> "right"] \notin profiles =>
             [user |-> cmd[q].user, hand |-> "right"] \notin profiles'
      BY <1>1, <1>8
    <3>4. \A other \in records : SameKey(other, cmd[q]) => other \in records'
      BY <1>1
    <3>5. ShapeOf(q)'
      <4>1. /\ UNCHANGED <<cmd, users, published, removed>> /\ pc'[q] = pc[q] /\ txn'[q] = txn[q]
            /\ records \subseteq records'
        BY <1>1, <1>12
      <4>2. VisibleProfiles(q) # {} => VisibleProfiles(q)' # {}
        BY <3>2
      <4>3. ValidInterval(cmd[q]) => ValidInterval(cmd[q])'
        BY <4>1 DEF ValidInterval
      <4>4. (cmd[q].user \notin users \/ \E x \in records : SameKey(x, cmd[q])) =>
            (cmd[q].user \notin users \/ \E x \in records : SameKey(x, cmd[q]))'
        BY <4>1 DEF SameKey
      <4>. QED
        BY <3>1, <3>3, <4>1, <4>2, <4>3, <4>4 DEF ShapeOf
    <3>6. txn[q].record # "none" => ~ SameKey(cmd[r], cmd[q])
      BY <1>3, <3>1 DEF Exclusive
    <3>7. txn[q].profile = "inserted" => \A p \in profiles' : p.user # cmd[q].user
      BY <1>1, <1>8, <3>1 DEF FreshOf, Exclusive
    <3>8. FreshOf(q)'
      <4>1. /\ UNCHANGED <<cmd, users>> /\ txn'[q] = txn[q]
            /\ records' = records \cup {rec}
        BY <1>1, <1>12
      <4>2. txn[q].record # "none" => ~ SameKey(rec, cmd[q])
        BY <1>7, <3>6 DEF SameKey
      <4>. QED
        BY <3>1, <3>7, <4>1, <4>2 DEF FreshOf, SameKey
    <3>. QED
      BY <3>5, <3>8
  <2>3. ASSUME NEW p \in Requests, NEW q \in Requests, p # q
        PROVE  Exclusive(p, q)'
    <3>1. Exclusive(p, q) /\ cmd' = cmd
      BY <1>1, <2>3 DEF IInv, LocksConsistent
    <3>2. /\ txn'[p] = txn[p] \/ txn'[p] = NoTxn
          /\ txn'[q] = txn[q] \/ txn'[q] = NoTxn
      BY <1>12
    <3>. QED
      BY <3>1, <3>2 DEF Exclusive, NoTxn, SameKey
  <2>. QED
    BY <2>1, <2>2, <2>3 DEF LocksConsistent
<1>14. RowsConsistent'
  <2>1. \A p \in profiles' : p.user \in users' /\ (p.hand = "right" => p.user \in Provisioned)
    BY <1>1, <1>3, <1>8 DEF IInv, RowsConsistent
  <2>2. \A q \in Requests : pc[q] = "done" => pc'[q] = "done"
    BY <1>12
  <2>3. (\A other \in sessions : other.id \in Requests)
        /\ (\A other \in records : other.body.id \in Requests)
    BY <1>2 DEF TypeOK, Session, Record, Body
  <2>4. \A x \in sessions' : x.user \in users' /\ pc'[x.id] = "done"
    BY <1>1, <1>3, <1>5, <1>12, <2>2, <2>3 DEF IInv, RowsConsistent
  <2>5. \A x, y \in sessions' : x.id = y.id => x = y
    BY <1>1, <1>5, <1>10 DEF IInv, RowsConsistent
  <2>6. \A x \in records' :
           /\ x.user \in users' /\ ValidInterval(x)
           /\ pc'[x.body.id] = "done" /\ SameKey(x, cmd'[x.body.id])
    <3>1. /\ rec.user \in users' /\ pc'[rec.body.id] = "done"
          /\ SameKey(rec, cmd'[rec.body.id])
      BY <1>1, <1>3, <1>6, <1>7, <1>12 DEF SameKey
    <3>2. ValidInterval(rec)
      BY <1>3, <1>7 DEF ValidInterval
    <3>3. \A x \in records :
             /\ x.user \in users' /\ ValidInterval(x)
             /\ pc'[x.body.id] = "done" /\ SameKey(x, cmd'[x.body.id])
      BY <1>1, <2>2, <2>3 DEF IInv, RowsConsistent
    <3>. QED
      BY <1>1, <3>1, <3>2, <3>3
  <2>. QED
    BY <2>1, <2>4, <2>5, <2>6 DEF RowsConsistent, SameKey, ValidInterval
<1>15. RecordsAccountForSessions'
  <2>1. \A x \in sessions' : \E y \in records' : y.body.id = x.id
    BY <1>1, <1>5, <1>6, <1>7 DEF IInv, RecordsAccountForSessions
  <2>2. \A y \in records' :
           /\ y.state = "completed"
           /\ \E x \in sessions' :
                 /\ y.body = BodyOf([x EXCEPT !.lifecycle = "active"])
                 /\ y.user = x.user /\ SameHash(y, x)
    <3>1. rec.body = BodyOf([s EXCEPT !.lifecycle = "active"])
      BY <1>5, <1>7
    <3>2. rec.user = s.user /\ SameHash(rec, s)
      BY <1>5, <1>7 DEF SameHash
    <3>. QED
      BY <1>1, <1>7, <3>1, <3>2 DEF IInv, RecordsAccountForSessions
  <2>3. \A x, y \in records' : x # y => ~ SameKey(x, y) /\ x.body.id # y.body.id
    BY <1>1, <1>6, <1>7, <1>9, <1>10 DEF IInv, RecordsAccountForSessions
  <2>. QED
    BY <2>1, <2>2, <2>3 DEF RecordsAccountForSessions, SameKey, SameHash
<1>16. NoOrphanProfile'
  <2>1. \A p \in profiles' : p \in profiles \/ p.user = s.user
    BY <1>1, <1>5, <1>8
  <2>2. \A p, q \in profiles' : p.user = q.user => p = q
    BY <1>1, <1>2, <1>8 DEF IInv, NoOrphanProfile, FreshOf
  <2>. QED
    BY <1>1, <2>1, <2>2 DEF IInv, NoOrphanProfile
<1>17. SessionsReproducible'
  <2>1. \A u : [user |-> u, hand |-> "right"] \in profiles' =>
                  [user |-> u, hand |-> "right"] \in profiles
    BY <1>1, <1>8
  <2>2. /\ s.lifecycle # "created" /\ s.pair \in published \ removed
        /\ s.hand = "right" => s.user \in Provisioned
        /\ s.hand = "left" /\ s.user \in Provisioned =>
              [user |-> s.user, hand |-> "right"] \notin profiles
    BY <1>1, <1>2, <1>3, <1>5 DEF ShapeOf, AfterHand
  <2>. QED
    BY <1>1, <2>1, <2>2 DEF IInv, SessionsReproducible
<1>18. \A q \in Requests : AnswerOf(q)'
  <2>1. ASSUME NEW q \in Requests \ {r}
        PROVE  AnswerOf(q)'
    BY <1>1, <1>12 DEF IInv, AnswerOf, SameKey, SameHash
  <2>2. AnswerOf(r)'
    <3>1. CASE answer'[r] = [status |-> "accepted", body |-> BodyOf(s)]
      <4>1. SameKey(cmd[r], cmd[r]) /\ SameHash(BodyOf(s), cmd[r]) /\ SameKey(rec, cmd[r])
        BY <1>6, <1>7 DEF SameKey, SameHash
      <4>2. rec \in records' /\ cmd' = cmd
        BY <1>1
      <4>. QED
        BY <1>6, <1>7, <1>12, <3>1, <4>1, <4>2 DEF AnswerOf, SameKey, SameHash
    <3>2. CASE answer'[r] = [status |-> "unknown", body |-> NoBody]
      BY <1>12, <3>2 DEF AnswerOf, Successful
    <3>. QED
      BY <1>1, <1>2, <3>1, <3>2 DEF TypeOK
  <2>. QED
    BY <2>1, <2>2
<1>19. ReplaysAgree'
  BY <1>1, <1>3, <1>12, <1>15, <1>18, RecordedAnswersAgree
<1>20. ContractErrorsUnreachable'
  BY <1>1, <1>2, <1>12 DEF IInv, ContractErrorsUnreachable, TypeOK
<1>. QED
  BY <1>11, <1>13, <1>14, <1>15, <1>16, <1>17, <1>18, <1>19, <1>20 DEF IInv

-----------------------------------------------------------------------------
(* The other clients of the database *)

LEMMA PublishIInv ==
    ASSUME IInv, NEW p \in Pairs, Publish(p)
    PROVE  IInv'
<1>1. /\ UNCHANGED <<users, profiles, removed, sessions, records, cmd, pc, txn, answer>>
      /\ published' = published \cup {p}
  BY DEF Publish
<1>2. TypeOK'
  BY <1>1 DEF IInv, TypeOK
<1>3. \A r \in Requests : ShapeOf(r)'
  <2>. SUFFICES ASSUME NEW r \in Requests PROVE ShapeOf(r)'
    OBVIOUS
  <2>1. ShapeOf(r)
    BY DEF IInv, LocksConsistent
  <2>2. /\ ValidInterval(cmd[r]) <=> ValidInterval(cmd[r])'
        /\ VisibleProfiles(r)' = VisibleProfiles(r)
    BY <1>1 DEF ValidInterval, VisibleProfiles
  <2>. QED
    BY <1>1, <2>1, <2>2 DEF ShapeOf, SameKey
<1>4. LocksConsistent'
  BY <1>1, <1>3 DEF IInv, LocksConsistent, FreshOf, Exclusive, SameKey
<1>5. RowsConsistent'
  BY <1>1 DEF IInv, RowsConsistent, ValidInterval, SameKey
<1>6. RecordsAccountForSessions' /\ NoOrphanProfile' /\ SessionsReproducible'
  BY <1>1 DEF IInv, RecordsAccountForSessions, NoOrphanProfile, SessionsReproducible
<1>7. (\A r \in Requests : AnswerOf(r)') /\ ReplaysAgree' /\ ContractErrorsUnreachable'
  BY <1>1 DEF IInv, AnswerOf, ReplaysAgree, ContractErrorsUnreachable, SameKey, SameHash
<1>. QED
  BY <1>2, <1>4, <1>5, <1>6, <1>7 DEF IInv

LEMMA RemoveTargetIInv ==
    ASSUME IInv, NEW p \in Pairs, RemoveTarget(p)
    PROVE  IInv'
<1>1. /\ UNCHANGED <<users, profiles, published, sessions, records, cmd, pc, txn, answer>>
      /\ p \in published /\ removed' = removed \cup {p}
      /\ \A s \in sessions : s.pair # p
      /\ \A q \in Requests : cmd[q].pair = p => txn[q].session = "none"
  BY DEF RemoveTarget
<1>2. TypeOK'
  BY <1>1 DEF IInv, TypeOK
<1>3. \A r \in Requests : ShapeOf(r)'
  <2>. SUFFICES ASSUME NEW r \in Requests PROVE ShapeOf(r)'
    OBVIOUS
  <2>1. ShapeOf(r)
    BY DEF IInv, LocksConsistent
  <2>2. /\ ValidInterval(cmd[r]) <=> ValidInterval(cmd[r])'
        /\ VisibleProfiles(r)' = VisibleProfiles(r)
    BY <1>1 DEF ValidInterval, VisibleProfiles
  <2>3. pc[r] \in AfterSession => cmd[r].pair # p
    BY <1>1, <2>1 DEF ShapeOf, AfterSession
  <2>. QED
    BY <1>1, <2>1, <2>2, <2>3 DEF ShapeOf, SameKey
<1>4. LocksConsistent'
  BY <1>1, <1>3 DEF IInv, LocksConsistent, FreshOf, Exclusive, SameKey
<1>5. RowsConsistent'
  BY <1>1 DEF IInv, RowsConsistent, ValidInterval, SameKey
<1>6. RecordsAccountForSessions' /\ NoOrphanProfile' /\ SessionsReproducible'
  BY <1>1 DEF IInv, RecordsAccountForSessions, NoOrphanProfile, SessionsReproducible
<1>7. (\A r \in Requests : AnswerOf(r)') /\ ReplaysAgree' /\ ContractErrorsUnreachable'
  BY <1>1 DEF IInv, AnswerOf, ReplaysAgree, ContractErrorsUnreachable, SameKey, SameHash
<1>. QED
  BY <1>2, <1>4, <1>5, <1>6, <1>7 DEF IInv

LEMMA EditProfileIInv ==
    ASSUME IInv, NEW u \in Users, EditProfile(u)
    PROVE  IInv'
<1>1. PICK p \in profiles :
        /\ p.user = u /\ p.hand = "right"
        /\ profiles' = (profiles \ {p}) \cup {[p EXCEPT !.hand = "left"]}
  BY DEF EditProfile
<1>2. UNCHANGED <<users, published, removed, sessions, records, cmd, pc, txn, answer>>
  BY DEF EditProfile
<1>3. p \in Profile
  BY DEF IInv, TypeOK
<1>4. [p EXCEPT !.hand = "left"] = [user |-> u, hand |-> "left"]
  BY <1>1, <1>3 DEF Profile
<1>5. \A v : [user |-> v, hand |-> "right"] \in profiles' =>
                [user |-> v, hand |-> "right"] \in profiles
  BY <1>1, <1>4
<1>6. /\ \A x \in profiles' : \E y \in profiles : x.user = y.user
      /\ \A y \in profiles : \E x \in profiles' : x.user = y.user
  BY <1>1, <1>4
<1>7. TypeOK'
  <2>1. profiles' \subseteq Profile
    BY <1>1, <1>3, <1>4 DEF IInv, TypeOK, Profile, Hands
  <2>. QED
    BY <1>2, <2>1 DEF IInv, TypeOK
<1>8. \A r \in Requests : ShapeOf(r)'
  <2>. SUFFICES ASSUME NEW r \in Requests PROVE ShapeOf(r)'
    OBVIOUS
  <2>1. ShapeOf(r)
    BY DEF IInv, LocksConsistent
  <2>2. VisibleProfiles(r) # {} => VisibleProfiles(r)' # {}
    BY <1>2, <1>6 DEF VisibleProfiles
  <2>3. ValidInterval(cmd[r]) <=> ValidInterval(cmd[r])'
    BY <1>2 DEF ValidInterval
  <2>. QED
    BY <1>2, <1>5, <2>1, <2>2, <2>3 DEF ShapeOf, SameKey
<1>9. \A r \in Requests : FreshOf(r)'
  BY <1>2, <1>6 DEF IInv, LocksConsistent, FreshOf, SameKey
<1>10. LocksConsistent'
  BY <1>2, <1>8, <1>9 DEF IInv, LocksConsistent, Exclusive, SameKey
<1>11. RowsConsistent'
  <2>1. \A x \in profiles' : x.user \in users' /\ (x.hand = "right" => x.user \in Provisioned)
    BY <1>1, <1>2, <1>4 DEF IInv, RowsConsistent
  <2>. QED
    BY <1>2, <2>1 DEF IInv, RowsConsistent, ValidInterval, SameKey
<1>12. RecordsAccountForSessions'
  BY <1>2 DEF IInv, RecordsAccountForSessions
<1>13. NoOrphanProfile'
  <2>1. \A x, y \in profiles : x.user = y.user => x = y
    BY DEF IInv, NoOrphanProfile
  <2>2. \A x \in profiles' :
           \/ x \in profiles /\ x # p
           \/ x = [user |-> u, hand |-> "left"]
    BY <1>1, <1>4
  <2>3. \A x, y \in profiles' : x.user = y.user => x = y
    BY <1>1, <2>1, <2>2
  <2>. QED
    BY <1>2, <1>6, <2>3 DEF IInv, NoOrphanProfile
<1>14. SessionsReproducible'
  BY <1>2, <1>5 DEF IInv, SessionsReproducible
<1>15. (\A r \in Requests : AnswerOf(r)') /\ ReplaysAgree' /\ ContractErrorsUnreachable'
  BY <1>2 DEF IInv, AnswerOf, ReplaysAgree, ContractErrorsUnreachable, SameKey, SameHash
<1>. QED
  BY <1>7, <1>10, <1>11, <1>12, <1>13, <1>14, <1>15 DEF IInv

LEMMA EndSessionIInv ==
    ASSUME IInv, NEW s \in sessions, EndSession(s)
    PROVE  IInv'
<1>. DEFINE ended == [s EXCEPT !.lifecycle = "abandoned"]
<1>1. /\ UNCHANGED <<users, profiles, published, removed, records, cmd, pc, txn, answer>>
      /\ s.lifecycle = "active"
      /\ sessions' = (sessions \ {s}) \cup {ended}
  BY DEF EndSession
<1>2. /\ s \in Session
      /\ \A x, y \in sessions : x.id = y.id => x = y
  BY DEF IInv, TypeOK, RowsConsistent
<1>3. /\ ended \in Session
      /\ ended.id = s.id /\ ended.user = s.user /\ ended.pair = s.pair
      /\ ended.interval = s.interval /\ ended.hand = s.hand
      /\ ended.lifecycle = "abandoned"
  BY <1>2 DEF Session
<1>4. [ended EXCEPT !.lifecycle = "active"] = [s EXCEPT !.lifecycle = "active"]
  BY <1>2 DEF Session
<1>. HIDE DEF ended
<1>5. \A x \in sessions' : x = ended \/ (x \in sessions /\ x # s)
  BY <1>1
<1>6. TypeOK'
  <2>1. sessions' \subseteq Session
    BY <1>1, <1>3 DEF IInv, TypeOK
  <2>. QED
    BY <1>1, <2>1 DEF IInv, TypeOK
<1>7. \A r \in Requests : ShapeOf(r)'
  <2>. SUFFICES ASSUME NEW r \in Requests PROVE ShapeOf(r)'
    OBVIOUS
  <2>1. ShapeOf(r)
    BY DEF IInv, LocksConsistent
  <2>2. /\ ValidInterval(cmd[r]) <=> ValidInterval(cmd[r])'
        /\ VisibleProfiles(r)' = VisibleProfiles(r)
    BY <1>1 DEF ValidInterval, VisibleProfiles
  <2>. QED
    BY <1>1, <2>1, <2>2 DEF ShapeOf, SameKey
<1>8. LocksConsistent'
  BY <1>1, <1>7 DEF IInv, LocksConsistent, FreshOf, Exclusive, SameKey
<1>9. RowsConsistent'
  <2>1. \A x \in sessions' : x.user \in users' /\ pc'[x.id] = "done"
    <3>1. users' = users /\ pc' = pc
      BY <1>1
    <3>2. \A x \in sessions : x.user \in users /\ pc[x.id] = "done"
      BY DEF IInv, RowsConsistent
    <3>. QED
      BY <1>3, <1>5, <3>1, <3>2
  <2>2. \A x, y \in sessions' : x.id = y.id => x = y
    BY <1>2, <1>3, <1>5
  <2>. QED
    BY <1>1, <2>1, <2>2 DEF IInv, RowsConsistent, ValidInterval, SameKey
<1>10. RecordsAccountForSessions'
  <2>1. \A x \in sessions' : \E y \in records : y.body.id = x.id
    BY <1>3, <1>5 DEF IInv, RecordsAccountForSessions
  <2>2. ASSUME NEW y \in records
        PROVE  \E x \in sessions' :
                  /\ y.body = BodyOf([x EXCEPT !.lifecycle = "active"])
                  /\ y.user = x.user /\ SameHash(y, x)
    <3>1. PICK x \in sessions :
            /\ y.body = BodyOf([x EXCEPT !.lifecycle = "active"])
            /\ y.user = x.user /\ SameHash(y, x)
      BY DEF IInv, RecordsAccountForSessions
    <3>2. CASE x = s
      BY <1>1, <1>3, <1>4, <3>1, <3>2 DEF SameHash
    <3>3. CASE x # s
      BY <1>1, <3>1, <3>3
    <3>. QED
      BY <3>2, <3>3
  <2>. QED
    BY <1>1, <2>1, <2>2 DEF IInv, RecordsAccountForSessions
<1>11. NoOrphanProfile' /\ SessionsReproducible'
  BY <1>1, <1>3 DEF IInv, NoOrphanProfile, SessionsReproducible
<1>12. (\A r \in Requests : AnswerOf(r)') /\ ReplaysAgree' /\ ContractErrorsUnreachable'
  BY <1>1 DEF IInv, AnswerOf, ReplaysAgree, ContractErrorsUnreachable, SameKey, SameHash
<1>. QED
  BY <1>6, <1>8, <1>9, <1>10, <1>11, <1>12 DEF IInv

LEMMA DeleteUserIInv ==
    ASSUME IInv, NEW u \in Users, DeleteUser(u)
    PROVE  IInv'
<1>1. /\ UNCHANGED <<published, removed, cmd, pc, txn, answer>>
      /\ \A r \in Requests : cmd[r].user = u => txn[r].record = "none"
      /\ users' = users \ {u}
      /\ profiles' = {p \in profiles : p.user # u}
      /\ sessions' = {s \in sessions : s.user # u}
      /\ records' = {rec \in records : rec.user # u}
  BY DEF DeleteUser
<1>2. TypeOK'
  BY <1>1 DEF IInv, TypeOK
<1>3. ASSUME NEW r \in Requests
      PROVE  ShapeOf(r)' /\ FreshOf(r)'
  <2>1. ShapeOf(r) /\ FreshOf(r)
    BY DEF IInv, LocksConsistent
  <2>2. /\ ValidInterval(cmd[r]) <=> ValidInterval(cmd[r])'
        /\ cmd[r].user # u => VisibleProfiles(r)' = VisibleProfiles(r)
    BY <1>1 DEF ValidInterval, VisibleProfiles
  <2>3. cmd[r].user = u => txn[r].record = "none"
    BY <1>1
  <2>4. cmd[r].user # u =>
           \A rec \in records : SameKey(rec, cmd[r]) => rec \in records'
    BY <1>1 DEF SameKey
  <2>5. pc[r] \in AfterProfile \cup {"insert_profile"} => cmd[r].user # u
    BY <2>1, <2>3 DEF ShapeOf, AfterProfile
  <2>6. ShapeOf(r)'
    <3>1. pc'[r] = pc[r] /\ txn'[r] = txn[r] /\ cmd' = cmd
          /\ UNCHANGED <<published, removed>>
      BY <1>1
    <3>2. \A p : p \in profiles' => p \in profiles
      BY <1>1
    <3>3. pc[r] \in AfterProfile => VisibleProfiles(r)' # {}
      BY <2>1, <2>2, <2>5 DEF ShapeOf
    <3>4. pc[r] = "lock_existing" =>
             (cmd[r].user \notin users \/ \E rec \in records : SameKey(rec, cmd[r]))'
      BY <1>1, <2>1, <2>4 DEF ShapeOf, SameKey
    <3>. QED
      BY <2>1, <2>2, <3>1, <3>2, <3>3, <3>4 DEF ShapeOf
  <2>7. FreshOf(r)'
    BY <1>1, <2>1, <2>3, <2>4 DEF FreshOf, SameKey
  <2>. QED
    BY <2>6, <2>7
<1>4. LocksConsistent'
  BY <1>1, <1>3 DEF IInv, LocksConsistent, Exclusive, SameKey
<1>5. RowsConsistent'
  BY <1>1 DEF IInv, RowsConsistent, ValidInterval, SameKey
<1>6. RecordsAccountForSessions'
  <2>1. ASSUME NEW s \in sessions'
        PROVE  \E rec \in records' : rec.body.id = s.id
    <3>1. PICK rec \in records : rec.body.id = s.id
      BY <1>1 DEF IInv, RecordsAccountForSessions
    <3>2. PICK t \in sessions :
            /\ rec.body = BodyOf([t EXCEPT !.lifecycle = "active"])
            /\ rec.user = t.user
      BY DEF IInv, RecordsAccountForSessions
    <3>3. t.id = s.id
      BY <3>1, <3>2 DEF BodyOf, IInv, TypeOK, Session
    <3>4. t = s
      BY <1>1, <3>3 DEF IInv, RowsConsistent
    <3>. QED
      BY <1>1, <3>1, <3>2, <3>4
  <2>2. ASSUME NEW rec \in records'
        PROVE  /\ rec.state = "completed"
               /\ \E s \in sessions' :
                     /\ rec.body = BodyOf([s EXCEPT !.lifecycle = "active"])
                     /\ rec.user = s.user /\ SameHash(rec, s)
    BY <1>1 DEF IInv, RecordsAccountForSessions
  <2>3. \A x, y \in records' : x # y => ~ SameKey(x, y) /\ x.body.id # y.body.id
    BY <1>1 DEF IInv, RecordsAccountForSessions
  <2>. QED
    BY <2>1, <2>2, <2>3 DEF RecordsAccountForSessions
<1>7. NoOrphanProfile'
  BY <1>1 DEF IInv, NoOrphanProfile
<1>8. SessionsReproducible'
  BY <1>1 DEF IInv, SessionsReproducible
<1>9. \A r \in Requests : AnswerOf(r)'
  BY <1>1 DEF IInv, AnswerOf, SameKey, SameHash
<1>10. ReplaysAgree' /\ ContractErrorsUnreachable'
  BY <1>1 DEF IInv, ReplaysAgree, ContractErrorsUnreachable, SameKey, SameHash
<1>. QED
  BY <1>2, <1>4, <1>5, <1>6, <1>7, <1>8, <1>9, <1>10 DEF IInv

-----------------------------------------------------------------------------
LEMMA StutterIInv ==
    ASSUME IInv, UNCHANGED vars
    PROVE  IInv'
<1>1. UNCHANGED <<users, profiles, published, removed, sessions, records, cmd, pc, txn, answer>>
  BY DEF vars
<1>2. TypeOK'
  BY <1>1 DEF IInv, TypeOK
<1>3. \A r \in Requests : ShapeOf(r)'
  <2>. SUFFICES ASSUME NEW r \in Requests PROVE ShapeOf(r)'
    OBVIOUS
  <2>1. ShapeOf(r)
    BY DEF IInv, LocksConsistent
  <2>2. /\ ValidInterval(cmd[r]) <=> ValidInterval(cmd[r])'
        /\ VisibleProfiles(r)' = VisibleProfiles(r)
    BY <1>1 DEF ValidInterval, VisibleProfiles
  <2>. QED
    BY <1>1, <2>1, <2>2 DEF ShapeOf, SameKey
<1>4. LocksConsistent'
  BY <1>1, <1>3 DEF IInv, LocksConsistent, FreshOf, Exclusive, SameKey
<1>5. RowsConsistent'
  BY <1>1 DEF IInv, RowsConsistent, ValidInterval, SameKey
<1>6. RecordsAccountForSessions' /\ NoOrphanProfile' /\ SessionsReproducible'
  BY <1>1 DEF IInv, RecordsAccountForSessions, NoOrphanProfile, SessionsReproducible
<1>7. (\A r \in Requests : AnswerOf(r)') /\ ReplaysAgree' /\ ContractErrorsUnreachable'
  BY <1>1 DEF IInv, AnswerOf, ReplaysAgree, ContractErrorsUnreachable, SameKey, SameHash
<1>. QED
  BY <1>2, <1>4, <1>5, <1>6, <1>7 DEF IInv

THEOREM NextIInv == IInv /\ [Next]_vars => IInv'
<1>. SUFFICES ASSUME IInv, [Next]_vars PROVE IInv'
  OBVIOUS
<1>1. ASSUME NEW r \in Requests, Step(r) \/ LoseConnection(r)
      PROVE  IInv'
  BY <1>1, ReceiveIInv, ReserveKeyIInv, ReserveForMissingUserIInv, FindExistingIInv,
     LockExistingIInv, MissExistingIInv, InsertProfileIInv, ReadProfileIInv,
     ReadRevisionIInv, InsertSessionFailsIInv, OwnRowsIInv, CommitIInv, EndIInv
  DEF Step
<1>2. ASSUME NEW p \in Pairs, Publish(p) \/ RemoveTarget(p)
      PROVE  IInv'
  BY <1>2, PublishIInv, RemoveTargetIInv
<1>3. ASSUME NEW u \in Users, EditProfile(u) \/ DeleteUser(u)
      PROVE  IInv'
  BY <1>3, EditProfileIInv, DeleteUserIInv
<1>4. ASSUME NEW s \in sessions, EndSession(s)
      PROVE  IInv'
  BY <1>4, EndSessionIInv
<1>. QED
  BY <1>1, <1>2, <1>3, <1>4, StutterIInv DEF Next, Terminating

\* The inductive invariant holds in every reachable state.
THEOREM Invariance == Spec => []IInv
<1>. QED
  BY InitIInv, NextIInv, PTL DEF Spec

\* Every variable stays in its type.
THEOREM TypeCorrect == Spec => []TypeOK
<1>1. IInv => TypeOK
  BY DEF IInv
<1>. QED
  BY <1>1, Invariance, PTL

(* Sessions and completed records correspond one to one, however starts     *)
(* interleave, fail and are retried.                                        *)
THEOREM StartsAreRecorded == Spec => []RecordsAccountForSessions
<1>1. IInv => RecordsAccountForSessions
  BY DEF IInv
<1>. QED
  BY <1>1, Invariance, PTL

\* A start that fails, at whatever statement, leaves no profile behind.
THEOREM FailedStartsLeaveNoProfile == Spec => []NoOrphanProfile
<1>1. IInv => NoOrphanProfile
  BY DEF IInv
<1>. QED
  BY <1>1, Invariance, PTL

(* A session copies a published revision, whose target stays, and a hand    *)
(* its owner's profile had.                                                 *)
THEOREM SessionsStayReproducible == Spec => []SessionsReproducible
<1>1. IInv => SessionsReproducible
  BY DEF IInv
<1>. QED
  BY <1>1, Invariance, PTL

\* Successful requests have the same response exactly when they share a key.
THEOREM ResponsesAgree == Spec => []ReplaysAgree
<1>1. IInv => ReplaysAgree
  BY DEF IInv
<1>. QED
  BY <1>1, Invariance, PTL

\* The handler's contract errors cannot be reached.
THEOREM NoContractError == Spec => []ContractErrorsUnreachable
<1>1. IInv => ContractErrorsUnreachable
  BY DEF IInv
<1>. QED
  BY <1>1, Invariance, PTL

\* The steps of a request that leave all rows alone.
LEMMA OnlyCommitWrites ==
    ASSUME NEW r \in Requests, Step(r) \/ LoseConnection(r), ~ Commit(r)
    PROVE  UNCHANGED <<users, profiles, published, removed, sessions, records, cmd>>
BY DEF Step, LoseConnection, committed, Receive, ReserveKey, ReserveForMissingUser,
   FindExisting, LockExisting, MissExisting, InsertProfile, ReadProfile, ReadRevision,
   InsertSession, Activate, CompleteRecord, Rollback

(* No step of a start changes or removes a profile; one it adds is its      *)
(* user's first, comes with the session that needed it and has its hand.    *)
THEOREM ProfilesAreKept == Spec => ProfilesNotOverwritten
<1>1. ASSUME IInv, NEW r \in Requests, Commit(r)
      PROVE  KeepsProfiles
  <2>1. /\ pc[r] = "commit" /\ profiles' = profiles \cup VisibleProfiles(r)
        /\ sessions' = sessions \cup {SessionOf(r)}
    BY <1>1 DEF Commit, Runs
  <2>2. ShapeOf(r) /\ FreshOf(r) /\ RowsConsistent
    BY <1>1 DEF IInv, LocksConsistent
  <2>3. ASSUME NEW p \in profiles' \ profiles
        PROVE  /\ txn[r].profile = "inserted"
               /\ p.user = cmd[r].user /\ p.hand = "left"
    BY <2>1, <2>3 DEF VisibleProfiles
  <2>4. SessionOf(r).id = r /\ SessionOf(r).user = cmd[r].user /\ SessionOf(r).hand = txn[r].hand
    BY DEF SessionOf
  <2>5. SessionOf(r) \in sessions' \ sessions
    BY <2>1, <2>2, <2>4 DEF RowsConsistent
  <2>6. txn[r].profile = "inserted" =>
           txn[r].hand = "left" /\ \A old \in profiles : old.user # cmd[r].user
    BY <2>1, <2>2 DEF ShapeOf, FreshOf, AfterHand
  <2>. QED
    BY <2>1, <2>3, <2>4, <2>5, <2>6 DEF KeepsProfiles
<1>2. ASSUME IInv, [Next]_vars, NEW q \in Requests, pc'[q] # pc[q]
      PROVE  KeepsProfiles
  <2>1. ASSUME NEW r \in Requests, Step(r) \/ LoseConnection(r), ~ Commit(r)
        PROVE  KeepsProfiles
    BY <2>1, OnlyCommitWrites DEF KeepsProfiles
  <2>2. \E r \in Requests : Step(r) \/ LoseConnection(r)
    BY <1>2 DEF Next, Publish, RemoveTarget, EditProfile, DeleteUser, EndSession,
       Terminating, vars
  <2>. QED
    BY <1>1, <1>2, <2>1, <2>2
<1>3. IInv /\ [Next]_vars => [\A r \in Requests : pc'[r] # pc[r] => KeepsProfiles]_vars
  BY <1>2
<1>. QED
  BY <1>3, Invariance, PTL DEF Spec, ProfilesNotOverwritten, KeepsProfiles

\* What a step answers a request, by the record of its key.
LEMMA AnswersFollowRecords ==
    ASSUME IInv, NEW r \in Requests, Step(r), answer'[r] # answer[r]
    PROVE  /\ answer[r].status = "none"
           /\ \/ Commit(r) /\ \A rec \in records : ~ SameKey(rec, cmd[r])
              \/ /\ answer'[r].status = "replayed"
                 /\ \E rec \in records : /\ SameKey(rec, cmd[r]) /\ SameHash(rec, cmd[r])
                                         /\ answer'[r].body = rec.body
              \/ /\ answer'[r].status \in Statuses \ {"none", "accepted", "replayed", "unknown"}
                 /\ \A rec \in records : SameKey(rec, cmd[r]) => ~ SameHash(rec, cmd[r])
<1>1. TypeOK /\ ShapeOf(r) /\ FreshOf(r) /\ AnswerOf(r) /\ RowsConsistent
  BY DEF IInv, LocksConsistent
<1>2. CASE Receive(r)
  <2>1. /\ ~ ValidInterval(cmd[r]) /\ pc[r] = "idle"
        /\ answer'[r].status = "invalid"
    BY <1>1, <1>2 DEF Receive, Goto, TypeOK
  <2>2. \A rec \in records : ~ SameHash(rec, cmd[r])
    BY <1>1, <2>1 DEF RowsConsistent, SameHash, ValidInterval
  <2>. QED
    BY <1>1, <2>1, <2>2 DEF AnswerOf, Statuses
<1>3. CASE ReserveForMissingUser(r)
  <2>1. /\ cmd[r].user \notin users /\ pc[r] = "reserve"
        /\ answer'[r].status = "subject_gone"
    BY <1>1, <1>3 DEF ReserveForMissingUser, Runs, Raise, TypeOK
  <2>2. \A rec \in records : ~ SameKey(rec, cmd[r])
    BY <1>1, <2>1 DEF RowsConsistent, SameKey
  <2>. QED
    BY <1>1, <2>1, <2>2 DEF AnswerOf, Statuses
<1>4. CASE LockExisting(r)
  <2>1. PICK rec \in records :
          /\ SameKey(rec, cmd[r])
          /\ \/ ~ SameHash(rec, cmd[r]) /\ Raise(r, "key_conflict", NoBody)
             \/ SameHash(rec, cmd[r]) /\ Raise(r, "replayed", rec.body)
    BY <1>4 DEF LockExisting, IInv, RecordsAccountForSessions
  <2>2. \A other \in records : SameKey(other, cmd[r]) => other = rec
    BY <2>1 DEF IInv, RecordsAccountForSessions, SameKey
  <2>3. answer[r].status = "none"
    BY <1>1, <1>4 DEF AnswerOf, LockExisting, Runs
  <2>. QED
    BY <1>1, <2>1, <2>2, <2>3 DEF Raise, TypeOK, Statuses
<1>5. CASE MissExisting(r)
  <2>1. /\ \A rec \in records : ~ SameKey(rec, cmd[r])
        /\ pc[r] = "lock_existing" /\ answer'[r].status = "record_vanished"
    BY <1>1, <1>5 DEF MissExisting, Runs, Raise, TypeOK
  <2>. QED
    BY <1>1, <2>1 DEF AnswerOf, Statuses
<1>6. CASE ReadRevision(r)
  <2>1. pc[r] = "read_revision" /\ answer'[r].status = "target_not_found"
    BY <1>1, <1>6 DEF ReadRevision, Runs, Raise, Goto, TypeOK
  <2>2. \A rec \in records : ~ SameKey(rec, cmd[r])
    BY <1>1, <2>1 DEF ShapeOf, FreshOf, AfterProfile
  <2>. QED
    BY <1>1, <2>1, <2>2 DEF AnswerOf, Statuses
<1>7. CASE Commit(r)
  <2>1. pc[r] = "commit"
    BY <1>7 DEF Commit, Runs
  <2>2. \A rec \in records : ~ SameKey(rec, cmd[r])
    BY <1>1, <2>1 DEF ShapeOf, FreshOf
  <2>. QED
    BY <1>1, <1>7, <2>1, <2>2 DEF AnswerOf
<1>8. CASE ReserveKey(r) \/ FindExisting(r) \/ Rollback(r)
  BY <1>8 DEF ReserveKey, FindExisting, Rollback, Goto
<1>9. CASE InsertProfile(r)
  <2>1. cmd[r].user \in users
    BY <1>1, <1>9 DEF InsertProfile, Runs, ShapeOf, FreshOf
  <2>. QED
    BY <1>9, <2>1 DEF InsertProfile, Goto
<1>10. CASE ReadProfile(r)
  <2>1. VisibleProfiles(r) # {}
    BY <1>1, <1>10 DEF ReadProfile, Runs, ShapeOf, AfterProfile
  <2>. QED
    BY <1>10, <2>1 DEF ReadProfile, Goto
<1>11. CASE InsertSession(r) \/ Activate(r) \/ CompleteRecord(r)
  <2>1. /\ pc[r] = "activate" => txn[r].session = "created"
        /\ pc[r] = "complete" => txn[r].record = "processing"
    BY <1>1 DEF ShapeOf, AfterProfile
  <2>2. pc[r] = "insert_session" /\ answer'[r].status = "foreign_key_failed"
    BY <1>1, <1>11, <2>1 DEF InsertSession, Activate, CompleteRecord, Runs, Goto, Raise, TypeOK
  <2>3. \A rec \in records : ~ SameKey(rec, cmd[r])
    BY <1>1, <2>2 DEF ShapeOf, FreshOf, AfterProfile
  <2>. QED
    BY <1>1, <2>2, <2>3 DEF AnswerOf, Statuses
<1>. QED
  BY <1>2, <1>3, <1>4, <1>5, <1>6, <1>7, <1>8, <1>9, <1>10, <1>11 DEF Step

\* A retry of a recorded start replays its response or learns nothing.
THEOREM RetriesAreReplayed == Spec => RetriesReplay
<1>1. ASSUME IInv, [Next]_vars, NEW r \in Requests, Recorded(r), answer'[r] # answer[r]
      PROVE  answer'[r].status \in {"replayed", "unknown"}
  <2>1. ASSUME NEW q \in Requests, Step(q) \/ LoseConnection(q)
        PROVE  q = r
    <3>1. answer \in [Requests -> [status : Statuses, body : Body \cup {NoBody}]]
      BY <1>1 DEF IInv, TypeOK
    <3>. QED
      BY <1>1, <2>1, <3>1 DEF Step, LoseConnection, committed, Raise, Goto, Receive, ReserveKey,
         ReserveForMissingUser, FindExisting, LockExisting, MissExisting, InsertProfile,
         ReadProfile, ReadRevision, InsertSession, Activate, CompleteRecord, Commit, Rollback
  <2>2. CASE Step(r)
    BY <1>1, <2>2, AnswersFollowRecords DEF Recorded
  <2>3. CASE LoseConnection(r)
    BY <1>1, <2>3 DEF LoseConnection, IInv, TypeOK
  <2>. QED
    BY <1>1, <2>1, <2>2, <2>3 DEF Next, Publish, RemoveTarget, EditProfile, DeleteUser, EndSession,
       Terminating, vars
<1>2. IInv /\ [Next]_vars =>
         [\A r \in Requests :
             Recorded(r) /\ answer'[r] # answer[r] =>
                answer'[r].status \in {"replayed", "unknown"}]_vars
  BY <1>1
<1>. QED
  BY <1>2, Invariance, PTL DEF Spec, RetriesReplay

-----------------------------------------------------------------------------
(* Refinement *)

EntryOf(rec) == [user |-> rec.user, key |-> rec.key,
                 payload |-> <<rec.pair, rec.interval>>,
                 body |-> rec.body, effect |-> {rec.body.id}]

\* The mapped variables of one request and of the ledger, read pointwise.
LEMMA MappedState ==
    /\ ledgerBar = {EntryOf(rec) : rec \in records}
    /\ \A r \in Requests :
          /\ askBar[r].user = cmd[r].user /\ askBar[r].key = cmd[r].key
          /\ askBar[r].payload = <<cmd[r].pair, cmd[r].interval>>
          /\ replyBar[r].kind = KindOf(answer[r].status)
          /\ replyBar[r].body = answer[r].body
BY DEF ledgerBar, askBar, replyBar, EntryOf

\* The records of a request's key are the abstract entries of its key.
LEMMA MappedEntries ==
    ASSUME NEW r \in Requests
    PROVE  /\ \A e \in Abstract!EntriesFor(r) :
                 \E rec \in records : SameKey(rec, cmd[r]) /\ e = EntryOf(rec)
           /\ \A rec \in records : SameKey(rec, cmd[r]) => EntryOf(rec) \in Abstract!EntriesFor(r)
<1>1. \A e : e \in Abstract!EntriesFor(r) <=>
             e \in ledgerBar /\ e.user = askBar[r].user /\ e.key = askBar[r].key
  BY DEF Abstract!EntriesFor
<1>2. \A rec : EntryOf(rec).user = rec.user /\ EntryOf(rec).key = rec.key
  BY DEF EntryOf
<1>. QED
  BY <1>1, <1>2, MappedState DEF SameKey

\* What a client can tell of a status.
LEMMA Kinds ==
    /\ KindOf("none") = "none" /\ KindOf("unknown") = "unknown"
    /\ KindOf("accepted") = "ok" /\ KindOf("replayed") = "ok"
    /\ \A status \in Statuses \ {"none", "unknown", "accepted", "replayed"} :
          KindOf(status) = "refused"
BY DEF KindOf, Successful, Statuses

LEMMA InitRefines == Init => Abstract!Init
<1>. SUFFICES ASSUME Init PROVE Abstract!Init
  OBVIOUS
<1>1. ledgerBar = {} /\ {s.id : s \in sessions} = {}
  BY DEF Init, ledgerBar
<1>2. \A r \in Requests : answer[r].status = "none"
  BY DEF Init
<1>3. \A r \in Requests : replyBar[r].kind = "none"
  BY <1>2, Kinds, MappedState
<1>. QED
  BY <1>1, <1>3 DEF Abstract!Init

\* A step of r changes the mapped replies at r only.
LEMMA MappedReply ==
    ASSUME NEW r \in Requests,
           \A q \in Requests \ {r} : answer'[q] = answer[q]
    PROVE  /\ replyBar' = [replyBar EXCEPT ![r] =
                              [kind |-> KindOf(answer'[r].status), body |-> answer'[r].body]]
           /\ replyBar'[r].kind = KindOf(answer'[r].status)
           /\ replyBar'[r].body = answer'[r].body
           /\ replyBar' = [replyBar EXCEPT ![r] = replyBar'[r]]
<1>1. replyBar' = [q \in Requests |->
                     [kind |-> KindOf(answer'[q].status), body |-> answer'[q].body]]
  BY DEF replyBar, KindOf
<1>. QED
  BY <1>1 DEF replyBar

\* A step that leaves rows and answers alone is a stutter of the abstract command.
LEMMA MappedStutter ==
    ASSUME UNCHANGED <<users, records, cmd, answer>>,
           {s.id : s \in sessions'} = {s.id : s \in sessions}
    PROVE  UNCHANGED Abstract!vars
<1>1. askBar' = askBar
  BY DEF askBar
<1>2. ledgerBar' = ledgerBar
  BY DEF ledgerBar
<1>3. replyBar' = replyBar
  BY DEF replyBar, KindOf
<1>. QED
  BY <1>1, <1>2, <1>3 DEF Abstract!vars

\* Whatever a request answers without committing is a replay or a refusal.
LEMMA StepRefines ==
    ASSUME IInv, NEW r \in Requests, Step(r), ~ Commit(r)
    PROVE  Abstract!Next \/ UNCHANGED Abstract!vars
<1>1. UNCHANGED <<users, sessions, records, cmd>>
  BY OnlyCommitWrites
<1>2. CASE answer' = answer
  BY <1>1, <1>2, MappedStutter
<1>3. CASE answer' # answer
  <2>1. answer \in [Requests -> [status : Statuses, body : Body \cup {NoBody}]]
    BY DEF IInv, TypeOK
  <2>2. \A q \in Requests \ {r} : answer'[q] = answer[q]
    BY <2>1 DEF Step, committed, Raise, Goto, Receive, ReserveKey,
       ReserveForMissingUser, FindExisting, LockExisting, MissExisting, InsertProfile,
       ReadProfile, ReadRevision, InsertSession, Activate, CompleteRecord, Rollback
  <2>3. answer' \in [Requests -> [status : Statuses, body : Body \cup {NoBody}]]
    BY NextIInv DEF IInv, TypeOK, Next
  <2>4. answer'[r] # answer[r]
    BY <1>3, <2>1, <2>2, <2>3
  <2>5. replyBar[r].kind = "none"
    BY <2>4, AnswersFollowRecords, Kinds, MappedState
  <2>6. /\ askBar' = askBar /\ ledgerBar' = ledgerBar /\ users' = users
        /\ {s.id : s \in sessions'} = {s.id : s \in sessions}
    BY <1>1 DEF askBar, ledgerBar
  <2>7. CASE answer'[r].status = "replayed"
    <3>1. PICK rec \in records : /\ SameKey(rec, cmd[r]) /\ SameHash(rec, cmd[r])
                                 /\ answer'[r].body = rec.body
      BY <2>4, <2>7, AnswersFollowRecords
    <3>2. EntryOf(rec) \in Abstract!EntriesFor(r)
      BY <3>1, MappedEntries
    <3>3. EntryOf(rec).payload = askBar[r].payload /\ EntryOf(rec).body = rec.body
      BY <3>1, MappedState DEF EntryOf, SameHash
    <3>4. replyBar' = [replyBar EXCEPT ![r] = [kind |-> "ok", body |-> rec.body]]
      BY <2>2, <2>7, <3>1, Kinds, MappedReply
    <3>5. Abstract!Answer(r, "ok", EntryOf(rec).body)
      BY <3>3, <3>4 DEF Abstract!Answer
    <3>6. Abstract!Replay(r)
      BY <2>5, <2>6, <3>2, <3>3, <3>5 DEF Abstract!Replay
    <3>. QED
      BY <3>6 DEF Abstract!Next
  <2>8. CASE answer'[r].status # "replayed"
    <3>1. /\ answer'[r].status \in Statuses \ {"none", "accepted", "replayed", "unknown"}
          /\ \A rec \in records : SameKey(rec, cmd[r]) => ~ SameHash(rec, cmd[r])
      BY <2>4, <2>8, AnswersFollowRecords
    <3>2. ASSUME NEW e \in Abstract!EntriesFor(r)
          PROVE  e.payload # askBar[r].payload
      <4>1. PICK rec \in records : SameKey(rec, cmd[r]) /\ e = EntryOf(rec)
        BY MappedEntries
      <4>2. e.payload = <<rec.pair, rec.interval>>
        BY <4>1 DEF EntryOf
      <4>. QED
        BY <3>1, <4>1, <4>2, MappedState DEF SameHash
    <3>3. Abstract!Answer(r, "refused", replyBar'[r].body)
      <4>1. KindOf(answer'[r].status) = "refused"
        BY <3>1, Kinds
      <4>. QED
        BY <2>2, <4>1, MappedReply DEF Abstract!Answer
    <3>4. Abstract!Refuse(r)
      BY <2>5, <2>6, <3>2, <3>3 DEF Abstract!Refuse
    <3>. QED
      BY <3>4 DEF Abstract!Next
  <2>. QED
    BY <2>7, <2>8
<1>. QED
  BY <1>2, <1>3

LEMMA LoseRefines ==
    ASSUME NEW r \in Requests, LoseConnection(r), TypeOK
    PROVE  Abstract!Next
<1>1. /\ UNCHANGED <<users, sessions, records, cmd>>
      /\ answer'[r].status = "unknown"
      /\ \A q \in Requests \ {r} : answer'[q] = answer[q]
  BY DEF LoseConnection, committed, TypeOK
<1>2. Abstract!Answer(r, "unknown", replyBar'[r].body)
  <2>1. KindOf(answer'[r].status) = "unknown"
    BY <1>1, Kinds
  <2>. QED
    BY <1>1, <2>1, MappedReply DEF Abstract!Answer
<1>3. /\ askBar' = askBar /\ ledgerBar' = ledgerBar /\ users' = users
      /\ {s.id : s \in sessions'} = {s.id : s \in sessions}
  BY <1>1 DEF askBar, ledgerBar
<1>. QED
  BY <1>2, <1>3 DEF Abstract!Lose, Abstract!Next

LEMMA CommitRefines ==
    ASSUME IInv, NEW r \in Requests, Commit(r)
    PROVE  Abstract!Next
<1>. DEFINE e == EntryOf(RecordOf(r))
            ids == {s.id : s \in sessions}
<1>1. /\ UNCHANGED <<users, cmd>> /\ pc[r] = "commit"
      /\ sessions' = sessions \cup {SessionOf(r)} /\ records' = records \cup {RecordOf(r)}
      /\ \/ answer' = [answer EXCEPT ![r] = [status |-> "accepted", body |-> BodyOf(SessionOf(r))]]
         \/ answer' = [answer EXCEPT ![r] = [status |-> "unknown", body |-> NoBody]]
  BY DEF Commit, Runs
<1>2. TypeOK /\ ShapeOf(r) /\ FreshOf(r) /\ AnswerOf(r) /\ RowsConsistent
  BY DEF IInv, LocksConsistent
<1>3. /\ cmd[r].user \in users
      /\ \A rec \in records : ~ SameKey(rec, cmd[r])
      /\ answer[r].status = "none"
  BY <1>1, <1>2 DEF ShapeOf, FreshOf, AnswerOf
<1>4. /\ RecordOf(r).body = BodyOf(SessionOf(r)) /\ SessionOf(r).id = r
      /\ RecordOf(r).body.id = r
      /\ RecordOf(r).user = cmd[r].user /\ RecordOf(r).key = cmd[r].key
      /\ RecordOf(r).pair = cmd[r].pair /\ RecordOf(r).interval = cmd[r].interval
  BY DEF RecordOf, BodyOf, SessionOf
<1>5. /\ e.user = askBar[r].user /\ e.key = askBar[r].key
      /\ e.payload = askBar[r].payload
      /\ e.body = BodyOf(SessionOf(r)) /\ e.effect = {r}
  BY <1>4, MappedState DEF EntryOf
<1>6. ledgerBar' = ledgerBar \cup {e}
  <2>1. ledgerBar' = {EntryOf(rec) : rec \in records'}
    BY DEF ledgerBar, EntryOf
  <2>. QED
    BY <1>1, <2>1, MappedState
<1>7. r \notin ids
  BY <1>1, <1>2 DEF RowsConsistent
<1>8. {s.id : s \in sessions'} = ids \cup e.effect
  BY <1>1, <1>4, <1>5
<1>9. e \notin ledgerBar
  <2>1. \A rec \in records : EntryOf(rec).effect = {rec.body.id} /\ rec.body.id # r
    BY <1>1, <1>2 DEF RowsConsistent, EntryOf
  <2>. QED
    BY <1>5, <2>1, MappedState
<1>10. Abstract!EntriesFor(r) = {}
  BY <1>3, MappedEntries
<1>11. \A q \in Requests \ {r} : answer'[q] = answer[q]
  BY <1>1, <1>2 DEF TypeOK
<1>12. \/ answer'[r].status = "accepted" /\ answer'[r].body = BodyOf(SessionOf(r))
       \/ answer'[r].status = "unknown"
  BY <1>1, <1>2 DEF TypeOK
<1>13. /\ replyBar'[r].kind \in {"ok", "unknown"}
       /\ replyBar'[r].kind = "ok" => replyBar'[r].body = e.body
       /\ replyBar' = [replyBar EXCEPT ![r] = replyBar'[r]]
  <2>1. KindOf(answer'[r].status) \in {"ok", "unknown"}
        /\ (KindOf(answer'[r].status) = "ok" => answer'[r].body = e.body)
    BY <1>5, <1>12, Kinds
  <2>2. /\ replyBar'[r].kind = KindOf(answer'[r].status)
        /\ replyBar'[r].body = answer'[r].body
        /\ replyBar' = [replyBar EXCEPT ![r] = replyBar'[r]]
    BY <1>11, MappedReply
  <2>. QED
    BY <2>1, <2>2
<1>14. replyBar[r].kind = "none" /\ askBar[r].user \in users
  BY <1>3, Kinds, MappedState
<1>15. askBar' = askBar /\ users' = users
  BY <1>1 DEF askBar
<1>16. e.effect # {} /\ e.effect \cap ids = {}
  BY <1>5, <1>7
<1>. HIDE DEF e, ids
<1>17. e \in ledgerBar' \ ledgerBar
  BY <1>6, <1>9
<1>18. Abstract!Execute(r)
  BY <1>5, <1>6, <1>8, <1>10, <1>13, <1>14, <1>15, <1>16, <1>17 DEF Abstract!Execute, ids
<1>. QED
  BY <1>18 DEF Abstract!Next

LEMMA DeleteUserRefines ==
    ASSUME IInv, NEW u \in Users, DeleteUser(u)
    PROVE  Abstract!Next
<1>. DEFINE ids == {s.id : s \in sessions}
<1>1. /\ UNCHANGED <<cmd, answer>> /\ u \in users /\ users' = users \ {u}
      /\ sessions' = {s \in sessions : s.user # u}
      /\ records' = {rec \in records : rec.user # u}
  BY DEF DeleteUser
<1>2. askBar' = askBar /\ replyBar' = replyBar
  BY <1>1 DEF askBar, replyBar, KindOf
<1>3. ledgerBar' = {e \in ledgerBar : e.user # u}
  <2>1. ledgerBar' = {EntryOf(rec) : rec \in records'}
    BY DEF ledgerBar, EntryOf
  <2>2. \A rec : EntryOf(rec).user = rec.user
    BY DEF EntryOf
  <2>. QED
    BY <1>1, <2>1, <2>2, MappedState
<1>4. \A i : i \in UNION {e.effect : e \in ledgerBar \ ledgerBar'} <=>
                \E rec \in records : rec.user = u /\ i = rec.body.id
  <2>1. \A rec : EntryOf(rec).user = rec.user /\ EntryOf(rec).effect = {rec.body.id}
    BY DEF EntryOf
  <2>2. \A e \in ledgerBar \ ledgerBar' : \E rec \in records : rec.user = u /\ e = EntryOf(rec)
    BY <1>3, <2>1, MappedState
  <2>3. \A rec \in records : rec.user = u => EntryOf(rec) \in ledgerBar \ ledgerBar'
    BY <1>3, <2>1, MappedState
  <2>. QED
    BY <2>1, <2>2, <2>3
<1>5. ASSUME NEW s \in sessions
      PROVE  s.user = u <=> \E rec \in records : rec.user = u /\ s.id = rec.body.id
  <2>1. ASSUME NEW rec \in records, rec.body.id = s.id
        PROVE  rec.user = s.user
    <3>1. PICK t \in sessions : rec.body = BodyOf([t EXCEPT !.lifecycle = "active"])
                                /\ rec.user = t.user
      BY DEF IInv, RecordsAccountForSessions
    <3>2. t.id = s.id
      BY <2>1, <3>1 DEF BodyOf, IInv, TypeOK, Session
    <3>3. t = s
      BY <3>2 DEF IInv, RowsConsistent
    <3>. QED
      BY <3>1, <3>3
  <2>2. \E rec \in records : rec.body.id = s.id
    BY DEF IInv, RecordsAccountForSessions
  <2>. QED
    BY <2>1, <2>2
<1>6. {s.id : s \in sessions'} = ids \ UNION {e.effect : e \in ledgerBar \ ledgerBar'}
  <2>1. \A i : i \in {s.id : s \in sessions'} => i \in ids /\ i \notin
                 UNION {e.effect : e \in ledgerBar \ ledgerBar'}
    BY <1>1, <1>4, <1>5
  <2>2. \A i \in ids : i \notin UNION {e.effect : e \in ledgerBar \ ledgerBar'} =>
                 i \in {s.id : s \in sessions'}
    BY <1>1, <1>4, <1>5
  <2>. QED
    BY <2>1, <2>2
<1>7. Abstract!Erase(u)
  BY <1>1, <1>2, <1>3, <1>6 DEF Abstract!Erase
<1>. QED
  BY <1>1, <1>7 DEF Abstract!Next

(* Start transactions, statement by statement and interleaved, implement    *)
(* the one-step idempotent command whose effect is one new session.         *)
THEOREM StartImplementsIdempotentCommand == Spec => ImplementsIdempotentCommand
<1>1. IInv /\ [Next]_vars => [Abstract!Next]_(Abstract!vars)
  <2>. SUFFICES ASSUME IInv, [Next]_vars
                PROVE  Abstract!Next \/ UNCHANGED Abstract!vars
    OBVIOUS
  <2>1. ASSUME NEW r \in Requests, Step(r) \/ LoseConnection(r)
        PROVE  Abstract!Next \/ UNCHANGED Abstract!vars
    BY <2>1, StepRefines, CommitRefines, LoseRefines DEF IInv
  <2>2. ASSUME NEW u \in Users, DeleteUser(u)
        PROVE  Abstract!Next
    BY <2>2, DeleteUserRefines
  <2>3. ASSUME NEW s \in sessions, EndSession(s)
        PROVE  UNCHANGED Abstract!vars
    <3>1. /\ UNCHANGED <<users, records, cmd, answer>>
          /\ sessions' = (sessions \ {s}) \cup {[s EXCEPT !.lifecycle = "abandoned"]}
      BY <2>3 DEF EndSession
    <3>2. [s EXCEPT !.lifecycle = "abandoned"].id = s.id
      BY DEF IInv, TypeOK, Session
    <3>3. {x.id : x \in sessions'} = {x.id : x \in sessions}
      BY <3>1, <3>2
    <3>. QED
      BY <3>1, <3>3, MappedStutter
  <2>4. CASE \/ \E p \in Pairs : Publish(p) \/ RemoveTarget(p)
             \/ \E u \in Users : EditProfile(u)
             \/ Terminating \/ UNCHANGED vars
    BY <2>4, MappedStutter DEF Publish, RemoveTarget, EditProfile, Terminating, vars
  <2>. QED
    BY <2>1, <2>2, <2>3, <2>4 DEF Next
<1>. QED
  BY <1>1, InitRefines, Invariance, PTL DEF Spec, ImplementsIdempotentCommand, Abstract!Spec

-----------------------------------------------------------------------------
(* Waiting *)

Proceeds(r) == InTxn(r) /\ \A q \in Requests \ {r} : ~ Waits(r, q)

(* Whoever waits, for a key or for a profile, is at most two steps away from *)
(* a request that waits for nobody (commands/start_session.py execute).      *)
WaitsAreShort ==
    \A r \in Requests : InTxn(r) =>
        \/ Proceeds(r)
        \/ \E q \in Requests \ {r} : Waits(r, q) /\ Proceeds(q)
        \/ \E q \in Requests \ {r} : Waits(r, q) /\
              \E p \in Requests \ {q} : Waits(q, p) /\ Proceeds(p)

\* What r waits for is an open transaction that has reserved its key.
LEMMA WaitsForOpen ==
    ASSUME IInv, NEW r \in Requests, NEW q \in Requests, Waits(r, q)
    PROVE  InTxn(q) /\ pc[q] \notin {"reserve", "lock_existing"}
<1>1. txn[q] # NoTxn
  BY DEF Waits, NoTxn
<1>2. pc[q] \in Statements /\ pc[q] \notin {"reserve", "lock_existing"}
  BY <1>1 DEF IInv, LocksConsistent, ShapeOf, TypeOK, Statements
<1>. QED
  BY <1>2 DEF InTxn

\* Whoever waits and holds a key waits for a profile.
LEMMA WaitsForProfile ==
    ASSUME IInv, NEW r \in Requests, NEW q \in Requests, Waits(r, q),
           pc[r] \notin {"reserve", "lock_existing"}
    PROVE  pc[r] = "insert_profile" /\ txn[q].profile = "inserted"
BY DEF Waits

\* The holder of an inserted profile waits for nobody.
LEMMA ProfileHolderProceeds ==
    ASSUME IInv, NEW r \in Requests, NEW q \in Requests, Waits(r, q),
           pc[r] \notin {"reserve", "lock_existing"}
    PROVE  Proceeds(q)
<1>1. txn[q].profile = "inserted"
  BY WaitsForProfile
<1>2. InTxn(q) /\ pc[q] \notin {"reserve", "lock_existing"}
  BY WaitsForOpen
<1>3. pc[q] # "insert_profile"
  BY <1>1 DEF IInv, LocksConsistent, ShapeOf
<1>. QED
  BY <1>2, <1>3 DEF Proceeds, Waits

(* Start requests never deadlock, however many of them share keys and users: *)
(* a start waits for a key before it holds anything, and for a profile no    *)
(* holder of which waits again.                                              *)
THEOREM StartsNeverDeadlock == Spec => []WaitsAreShort
<1>1. IInv => WaitsAreShort
  <2>. SUFFICES ASSUME IInv, NEW r \in Requests, InTxn(r), ~ Proceeds(r)
                PROVE  \/ \E q \in Requests \ {r} : Waits(r, q) /\ Proceeds(q)
                       \/ \E q \in Requests \ {r} : Waits(r, q) /\
                             \E p \in Requests \ {q} : Waits(q, p) /\ Proceeds(p)
    BY DEF WaitsAreShort
  <2>1. PICK q \in Requests \ {r} : Waits(r, q)
    BY DEF Proceeds
  <2>2. InTxn(q) /\ pc[q] \notin {"reserve", "lock_existing"}
    BY <2>1, WaitsForOpen
  <2>3. CASE Proceeds(q)
    BY <2>1, <2>3
  <2>4. CASE ~ Proceeds(q)
    <3>1. PICK p \in Requests \ {q} : Waits(q, p)
      BY <2>2, <2>4 DEF Proceeds
    <3>2. Proceeds(p)
      BY <2>2, <3>1, ProfileHolderProceeds
    <3>. QED
      BY <2>1, <3>1, <3>2
  <2>. QED
    BY <2>3, <2>4
<1>. QED
  BY <1>1, Invariance, PTL

=============================================================================
