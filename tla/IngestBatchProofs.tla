------------------------- MODULE IngestBatchProofs -------------------------
(***************************************************************************)
(* Theorems of IngestBatch, for every set of requests, users, keys,        *)
(* sessions, samples and commands.                                         *)
(***************************************************************************)
EXTENDS IngestBatchRefinement, SequenceTheorems, FiniteSetTheorems, TLAPS

USE ConstantsAssumption

\* The parts of a command.
LEMMA CommandType ==
    ASSUME NEW c \in Commands
    PROVE  /\ c.user \in Users /\ c.key \in Keys /\ c.session \in Sessions
           /\ c.batch \in Seq(Sample)
           /\ Len(c.batch) \in Nat
           /\ DOMAIN c.batch = 1 .. Len(c.batch)
           /\ \A i \in 1 .. Len(c.batch) :
                 /\ c.batch[i] \in Sample
                 /\ RowAt(c, i) \in Row
                 /\ RowAt(c, i).session = c.session
                 /\ RowAt(c, i).id = c.batch[i].id
                 /\ RowAt(c, i).seq = c.batch[i].seq
                 /\ RowAt(c, i).off = c.batch[i].off
<1>1. c \in Command
  OBVIOUS
<1>2. /\ c.user \in Users /\ c.key \in Keys /\ c.session \in Sessions
      /\ c.batch \in Seq(Sample)
  BY <1>1 DEF Command
<1>3. Len(c.batch) \in Nat /\ DOMAIN c.batch = 1 .. Len(c.batch)
  BY <1>2
<1>4. ASSUME NEW i \in 1 .. Len(c.batch)
      PROVE  c.batch[i] \in Sample
  BY <1>2, <1>3
<1>. QED
  BY <1>2, <1>3, <1>4 DEF RowAt, Row, Sample

\* A chunk that passed validation has a first sample and a full response.
LEMMA BodyType ==
    ASSUME NEW c \in Commands, ChunkOrdered(c.batch)
    PROVE  /\ Len(c.batch) >= 1
           /\ BodyOf(c) \in Body
<1>1. Len(c.batch) >= 1
  BY CommandType, EmptySeq DEF ChunkOrdered
<1>. QED
  BY <1>1, CommandType DEF BodyOf, Body, Sample

THEOREM InitIInv == Init => IInv
<1>. SUFFICES ASSUME Init PROVE IInv
  OBVIOUS
<1>1. TypeOK
  BY DEF Init, TypeOK, Txn, NoTxn, Statuses
<1>2. \A r \in Requests : cmd[r] \in Commands /\ txn[r] = NoTxn /\ pc[r] = "idle"
  BY DEF Init
<1>3. LocksConsistent
  BY <1>2, CommandType
  DEF Init, LocksConsistent, ShapeOf, FreshOf, Exclusive, NoTxn
<1>4. OwnersLive
  BY DEF Init, OwnersLive
<1>5. TailNotStale
  BY <1>2 DEF TailNotStale
<1>6. SamplesContiguous /\ RecordsAccountForSamples
  BY DEF Init, SamplesContiguous, RecordsAccountForSamples
<1>. QED
  BY <1>1, <1>3, <1>4, <1>5, <1>6 DEF IInv

-----------------------------------------------------------------------------
(* Steps that leave the committed rows alone and move one request *)

LocalStep(r) ==
    /\ UNCHANGED <<users, lifecycle, samples, records, cmd>>
    /\ \A q \in Requests \ {r} : pc'[q] = pc[q] /\ txn'[q] = txn[q]

\* What has to be shown of a local step: only what concerns its own request.
LEMMA LocalStepIInv ==
    ASSUME IInv, NEW r \in Requests, LocalStep(r), TypeOK',
           ShapeOf(r)', FreshOf(r)',
           \A q \in Requests \ {r} : Exclusive(r, q)',
           pc'[r] \in {"insert", "complete", "commit"} => ContinuesTail(cmd[r])
    PROVE  IInv'
<1>1. \A q \in Requests \ {r} : ShapeOf(q)' /\ FreshOf(q)'
  BY DEF IInv, LocksConsistent, LocalStep, ShapeOf, FreshOf
<1>2. \A q \in Requests \ {r} : Exclusive(q, r)'
  <2>. SUFFICES ASSUME NEW q \in Requests \ {r} PROVE Exclusive(q, r)'
    OBVIOUS
  <2>1. Exclusive(r, q)'
    OBVIOUS
  <2>. QED
    BY <2>1 DEF Exclusive, SameKey, Collides
<1>3. \A p, q \in Requests \ {r} : p # q => Exclusive(p, q)'
  BY DEF IInv, LocksConsistent, LocalStep, Exclusive
<1>4. LocksConsistent'
  BY <1>1, <1>2, <1>3 DEF LocksConsistent
<1>5. OwnersLive'
  BY DEF IInv, OwnersLive, LocalStep
<1>6. TailNotStale'
  BY DEF IInv, TailNotStale, LocalStep, ContinuesTail, IsNextSeq
<1>7. SamplesContiguous' /\ RecordsAccountForSamples'
  BY DEF IInv, SamplesContiguous, RecordsAccountForSamples, LocalStep
<1>. QED
  BY <1>4, <1>5, <1>6, <1>7 DEF IInv

(* A request that acquires nothing keeps what it holds fresh and exclusive. *)
LEMMA NothingAcquired ==
    ASSUME IInv, NEW r \in Requests, LocalStep(r),
           \/ txn'[r] = txn[r]
           \/ txn'[r] = NoTxn
           \/ /\ txn[r].record = "processing"
              /\ txn'[r] = [txn[r] EXCEPT !.record = "completed"]
    PROVE  /\ FreshOf(r)'
           /\ \A q \in Requests \ {r} : Exclusive(r, q)'
<1>1. /\ txn[r] \in Txn
      /\ FreshOf(r)
      /\ \A q \in Requests \ {r} : Exclusive(r, q)
  BY DEF IInv, TypeOK, LocksConsistent
<1>2. /\ txn'[r].record # "none" => txn[r].record # "none"
      /\ txn'[r].record = "locked" => txn[r].record = "locked"
      /\ txn'[r].record \in {"processing", "completed"} =>
            txn[r].record \in {"processing", "completed"}
      /\ txn'[r].session = "locked" => txn[r].session = "locked"
      /\ txn'[r].session \in {"none", "locked"}
      /\ txn'[r].rows = txn[r].rows \/ txn'[r].rows = 0
  BY <1>1 DEF NoTxn, Txn
<1>3. FreshOf(r)'
  BY <1>1, <1>2 DEF FreshOf, LocalStep
<1>4. ASSUME NEW q \in Requests \ {r}
      PROVE  Exclusive(r, q)'
  <2>1. txn[q] \in Txn /\ Exclusive(r, q)
    BY <1>1 DEF IInv, TypeOK
  <2>. QED
    BY <1>1, <1>2, <2>1 DEF Exclusive, LocalStep, Txn
<1>. QED
  BY <1>3, <1>4

-----------------------------------------------------------------------------
(* The actions of one request *)

LEMMA ReceiveIInv ==
    ASSUME IInv, NEW r \in Requests, Receive(r)
    PROVE  IInv'
<1>1. TypeOK'
  BY DEF IInv, TypeOK, Receive, Goto, committed, Statements, Statuses
<1>2. LocalStep(r) /\ txn'[r] = txn[r]
  BY DEF IInv, TypeOK, LocalStep, Receive, Goto, committed
<1>3. pc[r] = "idle" /\ pc'[r] \in {"reserve", "done"}
      /\ (pc'[r] = "reserve" => ChunkOrdered(cmd[r].batch))
  BY DEF IInv, TypeOK, Receive, Goto
<1>4. ShapeOf(r)'
  BY <1>2, <1>3 DEF IInv, LocksConsistent, ShapeOf, LocalStep, NoTxn
<1>. QED
  BY <1>1, <1>2, <1>3, <1>4, LocalStepIInv, NothingAcquired

LEMMA ReserveKeyIInv ==
    ASSUME IInv, NEW r \in Requests, ReserveKey(r)
    PROVE  IInv'
<1>1. TypeOK'
  BY DEF IInv, TypeOK, ReserveKey, Goto, committed, Statements, Txn
<1>2. /\ LocalStep(r)
      /\ txn[r] \in Txn
      /\ txn'[r] = [txn[r] EXCEPT !.record = "processing"]
      /\ pc'[r] = "lock_session"
  BY DEF IInv, TypeOK, LocalStep, ReserveKey, Goto, committed
<1>3. /\ pc[r] = "reserve" /\ txn[r] = NoTxn
      /\ ShapeOf(r) /\ FreshOf(r)
  BY DEF IInv, LocksConsistent, ShapeOf, ReserveKey, Runs
<1>4. txn'[r] = [record |-> "processing", session |-> "none", rows |-> 0]
  BY <1>2, <1>3 DEF NoTxn
<1>5. ShapeOf(r)'
  BY <1>2, <1>3, <1>4, CommandType DEF ShapeOf, LocalStep, IInv, TypeOK
<1>6. FreshOf(r)'
  BY <1>2, <1>4 DEF FreshOf, ReserveKey, LocalStep
<1>7. ASSUME NEW q \in Requests \ {r}
      PROVE  Exclusive(r, q)'
  <2>1. txn[q] \in Txn /\ FreshOf(q) /\ ~ Waits(r, q)
    BY DEF IInv, TypeOK, LocksConsistent, ReserveKey, Runs
  <2>2. SameKey(cmd[r], cmd[q]) => txn[q].record = "none"
    BY <1>3, <2>1 DEF Waits, FreshOf, SameKey, Txn, ReserveKey
  <2>. QED
    BY <1>2, <1>4, <2>1, <2>2 DEF Exclusive, LocalStep, Txn
<1>. QED
  BY <1>1, <1>2, <1>5, <1>6, <1>7, LocalStepIInv

LEMMA ReserveForMissingUserIInv ==
    ASSUME IInv, NEW r \in Requests, ReserveForMissingUser(r)
    PROVE  IInv'
<1>1. TypeOK'
  BY DEF IInv, TypeOK, ReserveForMissingUser, Raise, committed, Statements, Statuses
<1>2. LocalStep(r) /\ txn'[r] = txn[r] /\ pc[r] = "reserve" /\ pc'[r] = "rollback"
  BY DEF IInv, TypeOK, LocalStep, ReserveForMissingUser, Raise, Runs, committed
<1>3. ShapeOf(r)'
  BY <1>2 DEF IInv, LocksConsistent, ShapeOf, LocalStep, NoTxn
<1>. QED
  BY <1>1, <1>2, <1>3, LocalStepIInv, NothingAcquired

LEMMA FindExistingIInv ==
    ASSUME IInv, NEW r \in Requests, FindExisting(r)
    PROVE  IInv'
<1>1. TypeOK'
  BY DEF IInv, TypeOK, FindExisting, Goto, committed, Statements
<1>2. LocalStep(r) /\ txn'[r] = txn[r] /\ pc[r] = "reserve" /\ pc'[r] = "lock_existing"
  BY DEF IInv, TypeOK, LocalStep, FindExisting, Goto, Runs, committed
<1>3. ShapeOf(r)'
  BY <1>2 DEF IInv, LocksConsistent, ShapeOf, LocalStep, NoTxn
<1>. QED
  BY <1>1, <1>2, <1>3, LocalStepIInv, NothingAcquired

LEMMA LockExistingIInv ==
    ASSUME IInv, NEW r \in Requests, LockExisting(r)
    PROVE  IInv'
<1>1. PICK rec \in records :
        /\ SameKey(rec, cmd[r])
        /\ txn' = [txn EXCEPT ![r].record = "locked"]
        /\ \E status \in Statuses, body \in Body \cup {NoBody} : Raise(r, status, body)
  BY DEF LockExisting, Statuses, IInv, TypeOK, Record
<1>2. TypeOK'
  <2>1. PICK status \in Statuses, body \in Body \cup {NoBody} : Raise(r, status, body)
    BY <1>1
  <2>2. UNCHANGED <<users, lifecycle, samples, records, cmd>>
    BY DEF LockExisting, committed
  <2>3. txn' \in [Requests -> Txn]
    BY <1>1 DEF IInv, TypeOK, Txn
  <2>. QED
    BY <2>1, <2>2, <2>3 DEF IInv, TypeOK, Raise, Statements
<1>3. /\ LocalStep(r)
      /\ txn[r] \in Txn
      /\ txn'[r] = [txn[r] EXCEPT !.record = "locked"]
      /\ pc'[r] = "rollback"
  BY <1>1 DEF IInv, TypeOK, LocalStep, LockExisting, Raise, committed
<1>4. pc[r] = "lock_existing" /\ txn[r] = NoTxn /\ ShapeOf(r)
  BY DEF IInv, LocksConsistent, ShapeOf, LockExisting, Runs
<1>5. txn'[r] = [record |-> "locked", session |-> "none", rows |-> 0]
  BY <1>3, <1>4 DEF NoTxn
<1>6. ShapeOf(r)'
  BY <1>3, <1>4, <1>5, CommandType DEF ShapeOf, LocalStep, IInv, TypeOK
<1>7. cmd[r].user \in users
  BY <1>1 DEF IInv, OwnersLive, SameKey
<1>8. FreshOf(r)'
  BY <1>1, <1>3, <1>5, <1>7 DEF FreshOf, LocalStep
<1>9. ASSUME NEW q \in Requests \ {r}
      PROVE  Exclusive(r, q)'
  <2>1. txn[q] \in Txn /\ ~ Waits(r, q)
    BY DEF IInv, TypeOK, LockExisting, Runs
  <2>2. SameKey(cmd[r], cmd[q]) => txn[q].record = "none"
    BY <1>4, <2>1 DEF Waits, SameKey
  <2>. QED
    BY <1>3, <1>5, <2>1, <2>2 DEF Exclusive, LocalStep, Txn
<1>. QED
  BY <1>2, <1>3, <1>6, <1>8, <1>9, LocalStepIInv

LEMMA MissExistingIInv ==
    ASSUME IInv, NEW r \in Requests, MissExisting(r)
    PROVE  IInv'
<1>1. TypeOK'
  BY DEF IInv, TypeOK, MissExisting, Raise, committed, Statements, Statuses
<1>2. LocalStep(r) /\ txn'[r] = txn[r] /\ pc[r] = "lock_existing" /\ pc'[r] = "rollback"
  BY DEF IInv, TypeOK, LocalStep, MissExisting, Raise, Runs, committed
<1>3. ShapeOf(r)'
  BY <1>2 DEF IInv, LocksConsistent, ShapeOf, LocalStep, NoTxn
<1>. QED
  BY <1>1, <1>2, <1>3, LocalStepIInv, NothingAcquired

LEMMA LockSessionIInv ==
    ASSUME IInv, NEW r \in Requests, LockSession(r)
    PROVE  IInv'
<1>1. /\ UNCHANGED <<users, lifecycle, samples, records, cmd>>
      /\ pc[r] = "lock_session" /\ cmd[r] \in Commands
      /\ txn[r] = [record |-> "processing", session |-> "none", rows |-> 0]
      /\ ShapeOf(r) /\ FreshOf(r)
  BY DEF LockSession, committed, IInv, TypeOK, LocksConsistent, ShapeOf, Runs
<1>2. CASE ~ Owned(cmd[r])
  <2>1. txn' = txn /\ Raise(r, "session_not_found", NoBody)
    BY <1>2 DEF LockSession
  <2>2. TypeOK'
    BY <1>1, <2>1 DEF IInv, TypeOK, Raise, Statements, Statuses
  <2>3. LocalStep(r) /\ pc'[r] = "rollback"
    BY <1>1, <2>1 DEF IInv, TypeOK, LocalStep, Raise
  <2>4. ShapeOf(r)'
    BY <1>1, <2>1, <2>3 DEF ShapeOf
  <2>. QED
    BY <2>1, <2>2, <2>3, <2>4, LocalStepIInv, NothingAcquired
<1>3. CASE Owned(cmd[r])
  <2>1. /\ txn' = [txn EXCEPT ![r].session = "locked"]
        /\ \/ /\ lifecycle[cmd[r].session] # "active"
              /\ Raise(r, "session_not_active", NoBody)
           \/ /\ lifecycle[cmd[r].session] = "active"
              /\ Goto(r, "read_tail")
    BY <1>3 DEF LockSession
  <2>2. TypeOK'
    <3>1. txn' \in [Requests -> Txn]
      BY <2>1 DEF IInv, TypeOK, Txn
    <3>2. pc' \in [Requests -> Statements \cup {"idle", "done"}]
      BY <2>1 DEF IInv, TypeOK, Raise, Goto, Statements
    <3>3. answer' \in [Requests -> [status : Statuses, body : Body \cup {NoBody}]]
      BY <2>1 DEF IInv, TypeOK, Raise, Goto, Statuses
    <3>. QED
      BY <1>1, <3>1, <3>2, <3>3 DEF IInv, TypeOK
  <2>3. /\ LocalStep(r)
        /\ txn'[r] = [record |-> "processing", session |-> "locked", rows |-> 0]
    BY <1>1, <2>1 DEF IInv, TypeOK, LocalStep, Raise, Goto
  <2>4. \/ pc'[r] = "rollback"
        \/ pc'[r] = "read_tail" /\ lifecycle[cmd[r].session] = "active"
    BY <2>1 DEF IInv, TypeOK, Raise, Goto
  <2>5. ShapeOf(r)'
    BY <1>1, <1>3, <2>3, <2>4, CommandType DEF ShapeOf, Owned
  <2>6. FreshOf(r)'
    BY <1>1, <2>3 DEF FreshOf
  <2>7. ASSUME NEW q \in Requests \ {r}
        PROVE  Exclusive(r, q)'
    <3>1. txn[q] \in Txn /\ ~ Waits(r, q) /\ Exclusive(r, q)
      BY DEF IInv, TypeOK, LocksConsistent, LockSession, Runs
    <3>2. cmd[r].session = cmd[q].session => txn[q].session = "none"
      BY <1>1, <1>3, <3>1 DEF Waits, Txn
    <3>. QED
      BY <1>1, <2>3, <3>1, <3>2 DEF Exclusive, LocalStep, Txn
  <2>. QED
    BY <2>2, <2>3, <2>4, <2>5, <2>6, <2>7, LocalStepIInv
<1>. QED
  BY <1>2, <1>3

LEMMA ReadTailIInv ==
    ASSUME IInv, NEW r \in Requests, ReadTail(r)
    PROVE  IInv'
<1>1. /\ UNCHANGED <<users, lifecycle, samples, records, cmd, txn>>
      /\ pc[r] = "read_tail" /\ cmd[r] \in Commands
      /\ ShapeOf(r)
  BY DEF ReadTail, committed, IInv, TypeOK, LocksConsistent, Runs
<1>2. TypeOK'
  BY <1>1 DEF ReadTail, IInv, TypeOK, Raise, Goto, Statements, Statuses
<1>3. /\ LocalStep(r)
      /\ \/ pc'[r] = "rollback"
         \/ pc'[r] = "insert" /\ ContinuesTail(cmd[r])
  BY <1>1 DEF ReadTail, IInv, TypeOK, LocalStep, Raise, Goto
<1>4. ShapeOf(r)'
  BY <1>1, <1>3, CommandType, BodyType DEF ShapeOf
<1>. QED
  BY <1>1, <1>2, <1>3, <1>4, LocalStepIInv, NothingAcquired

LEMMA InsertSampleIInv ==
    ASSUME IInv, NEW r \in Requests, InsertSample(r)
    PROVE  IInv'
<1>. DEFINE next == txn[r].rows + 1
            row == RowAt(cmd[r], next)
<1>1. /\ UNCHANGED <<users, lifecycle, samples, records, cmd>>
      /\ pc[r] = "insert" /\ cmd[r] \in Commands /\ txn[r] \in Txn
      /\ ShapeOf(r) /\ FreshOf(r)
  BY DEF InsertSample, committed, IInv, TypeOK, LocksConsistent, Runs
<1>2. txn[r].rows \in Nat /\ next \in 1 .. Len(cmd[r].batch)
  BY <1>1, CommandType DEF ShapeOf, Txn
<1>3. CASE Refusal(row) = "none"
  <2>1. /\ txn' = [txn EXCEPT ![r].rows = next]
        /\ Goto(r, IF next = Len(cmd[r].batch) THEN "complete" ELSE "insert")
    BY <1>3 DEF InsertSample
  <2>2. TypeOK'
    <3>1. [txn[r] EXCEPT !.rows = next] \in Txn
      BY <1>1, <1>2 DEF Txn
    <3>2. txn' \in [Requests -> Txn]
      BY <2>1, <3>1 DEF IInv, TypeOK
    <3>. QED
      BY <1>1, <2>1, <3>2 DEF IInv, TypeOK, Goto, Statements
  <2>3. /\ LocalStep(r)
        /\ txn'[r] = [txn[r] EXCEPT !.rows = next]
        /\ pc'[r] = IF next = Len(cmd[r].batch) THEN "complete" ELSE "insert"
    BY <1>1, <2>1 DEF IInv, TypeOK, LocalStep, Goto
  <2>4. /\ txn'[r].record = txn[r].record
        /\ txn'[r].session = txn[r].session
        /\ txn'[r].rows = next
    BY <1>1, <2>3 DEF Txn
  <2>5. ShapeOf(r)'
    BY <1>1, <1>2, <2>3, <2>4, CommandType DEF ShapeOf
  <2>6. FreshOf(r)'
    <3>1. \A old \in samples : ~ Collides(old, row)
      BY <1>3 DEF Refusal
    <3>. QED
      BY <1>1, <1>2, <2>4, <3>1 DEF FreshOf
  <2>7. ASSUME NEW q \in Requests \ {r}
        PROVE  Exclusive(r, q)'
    <3>1. txn[q] \in Txn /\ ~ Waits(r, q) /\ Exclusive(r, q) /\ txn'[q] = txn[q]
      BY <2>3 DEF IInv, TypeOK, LocksConsistent, InsertSample, Runs, LocalStep
    <3>2. \A j \in 1 .. txn[q].rows : ~ Collides(row, RowAt(cmd[q], j))
      BY <1>1, <3>1 DEF Waits, Collides
    <3>3. \A i \in 1 .. txn'[r].rows : i = next \/ i \in 1 .. txn[r].rows
      BY <1>2, <2>4
    <3>. QED
      BY <1>1, <2>4, <3>1, <3>2, <3>3 DEF Exclusive
  <2>8. ContinuesTail(cmd[r])
    BY <1>1 DEF IInv, TailNotStale
  <2>. QED
    BY <2>2, <2>3, <2>5, <2>6, <2>7, <2>8, LocalStepIInv
<1>4. CASE Refusal(row) # "none"
  <2>1. txn' = [txn EXCEPT ![r] = NoTxn] /\ Raise(r, Refusal(row), NoBody)
    BY <1>4 DEF InsertSample
  <2>2. Refusal(row) \in Statuses
    BY DEF Refusal, Statuses
  <2>3. TypeOK'
    BY <1>1, <2>1, <2>2 DEF IInv, TypeOK, Raise, Statements, Txn, NoTxn
  <2>4. LocalStep(r) /\ txn'[r] = NoTxn /\ pc'[r] = "rollback"
    BY <1>1, <2>1 DEF IInv, TypeOK, LocalStep, Raise
  <2>5. ShapeOf(r)'
    BY <1>1, <2>4, CommandType DEF ShapeOf, NoTxn
  <2>. QED
    BY <2>3, <2>4, <2>5, LocalStepIInv, NothingAcquired
<1>. QED
  BY <1>3, <1>4

LEMMA CompleteRecordIInv ==
    ASSUME IInv, NEW r \in Requests, CompleteRecord(r)
    PROVE  IInv'
<1>1. /\ UNCHANGED <<users, lifecycle, samples, records, cmd>>
      /\ pc[r] = "complete" /\ cmd[r] \in Commands /\ txn[r] \in Txn
      /\ ShapeOf(r)
  BY DEF CompleteRecord, committed, IInv, TypeOK, LocksConsistent, Runs
<1>2. /\ txn[r].record = "processing"
      /\ txn' = [txn EXCEPT ![r].record = "completed"]
      /\ Goto(r, "commit")
  BY <1>1 DEF CompleteRecord, ShapeOf
<1>3. TypeOK'
  <2>1. txn' \in [Requests -> Txn]
    BY <1>2 DEF IInv, TypeOK, Txn
  <2>. QED
    BY <1>1, <1>2, <2>1 DEF IInv, TypeOK, Goto, Statements
<1>4. /\ LocalStep(r)
      /\ txn'[r] = [txn[r] EXCEPT !.record = "completed"]
      /\ pc'[r] = "commit"
  BY <1>1, <1>2 DEF IInv, TypeOK, LocalStep, Goto
<1>5. ShapeOf(r)'
  BY <1>1, <1>4 DEF ShapeOf, Txn
<1>6. ContinuesTail(cmd[r])
  BY <1>1 DEF IInv, TailNotStale
<1>. QED
  BY <1>2, <1>3, <1>4, <1>5, <1>6, LocalStepIInv, NothingAcquired

\* Rollback, a lost connection and a broken deadlock all end in NoTxn.
LEMMA EndIInv ==
    ASSUME IInv, NEW r \in Requests, Rollback(r) \/ Lose(r)
    PROVE  IInv'
<1>1. /\ UNCHANGED <<users, lifecycle, samples, records, cmd>>
      /\ txn' = [txn EXCEPT ![r] = NoTxn]
      /\ pc' = [pc EXCEPT ![r] = "done"]
      /\ \/ answer' = answer
         \/ answer' = [answer EXCEPT ![r] = [status |-> "unknown", body |-> NoBody]]
  BY DEF Rollback, Lose, committed
<1>2. TypeOK'
  <2>1. txn' \in [Requests -> Txn]
    BY <1>1 DEF IInv, TypeOK, Txn, NoTxn
  <2>2. pc' \in [Requests -> Statements \cup {"idle", "done"}]
    BY <1>1 DEF IInv, TypeOK
  <2>3. answer' \in [Requests -> [status : Statuses, body : Body \cup {NoBody}]]
    BY <1>1 DEF IInv, TypeOK, Statuses
  <2>. QED
    BY <1>1, <2>1, <2>2, <2>3 DEF IInv, TypeOK
<1>3. LocalStep(r) /\ txn'[r] = NoTxn /\ pc'[r] = "done"
  BY <1>1 DEF IInv, TypeOK, LocalStep
<1>4. cmd[r] \in Commands
  BY DEF IInv, TypeOK
<1>5. ShapeOf(r)'
  BY <1>1, <1>3, <1>4, CommandType DEF ShapeOf, NoTxn
<1>. QED
  BY <1>2, <1>3, <1>5, LocalStepIInv, NothingAcquired

-----------------------------------------------------------------------------
(* COMMIT, and what happens around the endpoint *)

\* What a chunk that continues the tail adds keeps the session contiguous.
LEMMA AppendContiguous ==
    ASSUME SamplesContiguous, samples \subseteq Row,
           NEW c \in Commands, ChunkOrdered(c.batch), ContinuesTail(c),
           \A i \in 1 .. Len(c.batch) : \A old \in samples : ~ Collides(old, RowAt(c, i)),
           samples' = samples \cup RowsOf(c)
    PROVE  SamplesContiguous'
<1>. DEFINE n == c.batch[1].seq
            len == Len(c.batch)
<1>1. /\ len \in Nat /\ len >= 1 /\ n \in Nat /\ c.batch[1].off \in Nat
      /\ \A i \in 1 .. len :
            /\ RowAt(c, i).session = c.session
            /\ RowAt(c, i).id = c.batch[i].id
            /\ RowAt(c, i).seq = n + (i - 1)
            /\ RowAt(c, i).off \in Nat
            /\ RowAt(c, i).off >= c.batch[1].off
            /\ RowAt(c, i) \in samples'
  <2>1. len \in Nat /\ len >= 1 /\ DOMAIN c.batch = 1 .. len
    BY CommandType, BodyType
  <2>2. \A i \in 1 .. len : c.batch[i].seq \in Nat /\ c.batch[i].off \in Nat
    BY CommandType DEF Sample
  <2>3. ASSUME NEW i \in 1 .. len
        PROVE  /\ c.batch[i].seq = n + (i - 1)
               /\ c.batch[i].off >= c.batch[1].off
    <3>1. CASE i = 1
      BY <3>1, <2>1, <2>2
    <3>2. CASE i # 1
      <4>1. 1 \in 1 .. len /\ 1 < i
        BY <2>1, <3>2
      <4>. QED
        BY <2>1, <2>2, <4>1 DEF ChunkOrdered
    <3>. QED
      BY <3>1, <3>2
  <2>. QED
    BY <2>1, <2>2, <2>3, CommandType DEF RowsOf
<1>2. \A row \in samples' : row \in samples \/ \E i \in 1 .. len : row = RowAt(c, i)
  BY CommandType DEF RowsOf
<1>3. \A row \in samples : row.seq \in Nat /\ row.off \in Nat
  BY DEF Row
<1>4. \A row \in samples : row.session = c.session =>
         row.seq < n /\ row.off < c.batch[1].off
  BY DEF ContinuesTail, IsNextSeq
<1>5. ASSUME NEW row \in samples', NEW m \in 0 .. row.seq
      PROVE  \E low \in samples' : low.session = row.session /\ low.seq = m
  <2>0. m \in Nat
    BY <1>1, <1>2, <1>3
  <2>1. CASE row \in samples
    BY <2>1 DEF SamplesContiguous
  <2>2. CASE row \notin samples
    <3>1. PICK i \in 1 .. len : row = RowAt(c, i)
      BY <1>2, <2>2
    <3>2. CASE m < n
      <4>1. PICK last \in samples : last.session = c.session /\ last.seq = n - 1
        BY <1>1, <3>2 DEF ContinuesTail, IsNextSeq
      <4>2. m \in 0 .. last.seq
        BY <1>1, <2>0, <3>2, <4>1
      <4>3. PICK low \in samples : low.session = last.session /\ low.seq = m
        BY <4>2 DEF SamplesContiguous
      <4>. QED
        BY <1>1, <3>1, <4>1, <4>3
    <3>3. CASE m >= n
      <4>1. m - n + 1 \in 1 .. len
        BY <1>1, <2>0, <3>1, <3>3
      <4>2. PICK k \in 1 .. len : k = m - n + 1
        BY <4>1
      <4>3. RowAt(c, k).seq = n + (k - 1) /\ RowAt(c, k) \in samples'
        BY <1>1
      <4>4. n \in Nat /\ len \in Nat
        BY <1>1
      <4>5. n + (k - 1) = m
        BY <2>0, <4>2, <4>4
      <4>6. RowAt(c, k).seq = m
        BY <4>3, <4>5
      <4>. QED
        BY <1>1, <3>1, <4>3, <4>6
    <3>. QED
      BY <1>1, <2>0, <3>2, <3>3
  <2>. QED
    BY <2>1, <2>2
<1>6. ASSUME NEW row \in samples', NEW other \in samples', other # row
      PROVE  /\ ~ Collides(row, other)
             /\ row.session = other.session /\ row.seq < other.seq => row.off < other.off
  <2>1. CASE row \in samples /\ other \in samples
    BY <1>6, <2>1 DEF SamplesContiguous
  <2>2. CASE row \in samples /\ other \notin samples
    <3>1. PICK i \in 1 .. len : other = RowAt(c, i)
      BY <1>2, <2>2
    <3>2. ~ Collides(row, other)
      BY <2>2, <3>1
    <3>3. row.session = other.session => row.off < other.off
      BY <1>1, <1>3, <1>4, <2>2, <3>1
    <3>. QED
      BY <3>2, <3>3
  <2>3. CASE row \notin samples /\ other \in samples
    <3>1. PICK i \in 1 .. len : row = RowAt(c, i)
      BY <1>2, <2>3
    <3>2. ~ Collides(row, other)
      BY <2>3, <3>1 DEF Collides
    <3>3. row.session = other.session => other.seq < row.seq
      BY <1>1, <1>3, <1>4, <2>3, <3>1
    <3>. QED
      BY <1>1, <1>3, <2>3, <3>1, <3>2, <3>3
  <2>4. CASE row \notin samples /\ other \notin samples
    <3>1. PICK i \in 1 .. len : row = RowAt(c, i)
      BY <1>2, <2>4
    <3>2. PICK j \in 1 .. len : other = RowAt(c, j)
      BY <1>2, <2>4
    <3>3. i # j
      BY <1>6, <3>1, <3>2
    <3>4. DOMAIN c.batch = 1 .. len
      BY CommandType
    <3>5. \A a, b \in 1 .. len : a < b =>
             c.batch[a].id # c.batch[b].id /\ c.batch[a].off < c.batch[b].off
      BY <3>4 DEF ChunkOrdered
    <3>6. i < j \/ j < i
      BY <3>3
    <3>7. row.id = c.batch[i].id /\ other.id = c.batch[j].id
      BY <1>1, <3>1, <3>2
    <3>8. row.seq = n + (i - 1) /\ other.seq = n + (j - 1)
      BY <1>1, <3>1, <3>2
    <3>9. row.off = c.batch[i].off /\ other.off = c.batch[j].off
      BY <3>1, <3>2, CommandType
    <3>10. row.id # other.id /\ row.seq # other.seq
      BY <1>1, <3>5, <3>6, <3>7, <3>8
    <3>11. row.seq < other.seq => row.off < other.off
      BY <1>1, <3>5, <3>6, <3>8, <3>9
    <3>. QED
      BY <3>10, <3>11 DEF Collides
  <2>. QED
    BY <2>1, <2>2, <2>3, <2>4
<1>. QED
  BY <1>5, <1>6 DEF SamplesContiguous

LEMMA CommitIInv ==
    ASSUME IInv, NEW r \in Requests, Commit(r)
    PROVE  IInv'
<1>. DEFINE c == cmd[r]
            len == Len(c.batch)
            new == RecordOf(r)
<1>1. /\ UNCHANGED <<users, lifecycle, cmd>>
      /\ samples' = samples \cup {RowAt(c, i) : i \in 1 .. txn[r].rows}
      /\ records' = records \cup {new}
      /\ txn' = [txn EXCEPT ![r] = NoTxn]
      /\ pc' = [pc EXCEPT ![r] = "done"]
      /\ pc[r] = "commit" /\ c \in Commands
  BY DEF Commit, Runs, IInv, TypeOK
<1>2. /\ ShapeOf(r) /\ FreshOf(r)
      /\ \A q \in Requests \ {r} : ShapeOf(q) /\ FreshOf(q) /\ Exclusive(r, q)
  BY DEF IInv, LocksConsistent
<1>3. /\ ChunkOrdered(c.batch) /\ ContinuesTail(c)
      /\ txn[r].rows = len /\ txn[r].record = "completed" /\ txn[r].session = "locked"
      /\ Owner[c.session] = c.user /\ c.user \in users
  BY <1>1, <1>2 DEF ShapeOf, FreshOf, IInv, TailNotStale
<1>4. /\ samples' = samples \cup RowsOf(c)
      /\ \A row \in RowsOf(c) : row \in Row /\ row.session = c.session
  BY <1>1, <1>3, CommandType DEF RowsOf
<1>5. /\ new \in Record /\ new.user = c.user /\ new.key = c.key
      /\ new.session = c.session /\ new.batch = c.batch /\ new.state = "completed"
  BY <1>1, <1>3, CommandType, BodyType DEF RecordOf, Record
<1>6. TypeOK'
  <2>1. samples' \subseteq Row
    BY <1>4 DEF IInv, TypeOK
  <2>2. records' \subseteq Record
    BY <1>1, <1>5 DEF IInv, TypeOK
  <2>3. txn' \in [Requests -> Txn]
    BY <1>1 DEF IInv, TypeOK, Txn, NoTxn
  <2>4. answer' \in [Requests -> [status : Statuses, body : Body \cup {NoBody}]]
    <3>1. BodyOf(c) \in Body
      BY <1>1, <1>3, BodyType
    <3>2. \E status \in Statuses, body \in Body \cup {NoBody} :
             answer' = [answer EXCEPT ![r] = [status |-> status, body |-> body]]
      BY <3>1 DEF Commit, Statuses
    <3>. QED
      BY <3>2 DEF IInv, TypeOK
  <2>. QED
    BY <1>1, <2>1, <2>2, <2>3, <2>4 DEF IInv, TypeOK
<1>7. txn'[r] = NoTxn /\ pc'[r] = "done"
      /\ \A q \in Requests \ {r} : txn'[q] = txn[q] /\ pc'[q] = pc[q] /\ txn[q] \in Txn
  BY <1>1 DEF IInv, TypeOK
<1>8. LocksConsistent'
  <2>1. ShapeOf(r)' /\ FreshOf(r)'
    BY <1>1, <1>7, CommandType DEF ShapeOf, FreshOf, NoTxn
  <2>2. ASSUME NEW q \in Requests \ {r}
        PROVE  ShapeOf(q)' /\ FreshOf(q)'
    <3>1. ShapeOf(q)'
      BY <1>1, <1>2, <1>7 DEF ShapeOf
    <3>2. txn[q].record # "none" => ~ SameKey(new, cmd[q])
      BY <1>2, <1>3, <1>5 DEF Exclusive, SameKey
    <3>3. \A i \in 1 .. txn[q].rows : \A old \in samples' \ samples :
             ~ Collides(old, RowAt(cmd[q], i))
      BY <1>1, <1>2 DEF Exclusive
    <3>4. FreshOf(q)'
      BY <1>1, <1>2, <1>7, <3>2, <3>3 DEF FreshOf
    <3>. QED
      BY <3>1, <3>4
  <2>3. \A q \in Requests \ {r} : Exclusive(r, q)' /\ Exclusive(q, r)'
    BY <1>7 DEF Exclusive, NoTxn
  <2>4. \A p, q \in Requests \ {r} : p # q => Exclusive(p, q)'
    BY <1>1, <1>7 DEF IInv, LocksConsistent, Exclusive
  <2>. QED
    BY <2>1, <2>2, <2>3, <2>4 DEF LocksConsistent
<1>9. OwnersLive'
  BY <1>1, <1>3, <1>4, <1>5, CommandType DEF IInv, OwnersLive, RowsOf
<1>10. TailNotStale'
  <2>. SUFFICES ASSUME NEW q \in Requests, pc'[q] \in {"insert", "complete", "commit"}
                PROVE  ContinuesTail(cmd[q])'
    BY DEF TailNotStale
  <2>1. q # r /\ pc'[q] = pc[q] /\ ContinuesTail(cmd[q])
    BY <1>7 DEF IInv, TailNotStale
  <2>2. cmd[q].session # c.session
    BY <1>2, <1>3, <2>1, <1>7 DEF Exclusive, ShapeOf
  <2>3. \A row \in samples' : row.session = cmd[q].session <=>
           row \in samples /\ row.session = cmd[q].session
    BY <1>4, <2>2
  <2>. QED
    BY <1>1, <1>4, <2>1, <2>3 DEF ContinuesTail, IsNextSeq
<1>11. SamplesContiguous'
  <2>1. \A i \in 1 .. len : \A old \in samples : ~ Collides(old, RowAt(c, i))
    BY <1>2, <1>3 DEF FreshOf
  <2>. QED
    BY <1>1, <1>3, <1>4, <2>1, AppendContiguous DEF IInv, TypeOK
<1>12. RecordsAccountForSamples'
  <2>1. RowsOf(new) = RowsOf(c)
    BY <1>5 DEF RowsOf, RowAt
  <2>2. RowsOf(c) \cap samples = {}
    BY <1>1, <1>2, <1>3, CommandType DEF FreshOf, RowsOf, Collides
  <2>3. samples' = UNION {RowsOf(rec) : rec \in records'}
    BY <1>1, <1>4, <2>1 DEF IInv, RecordsAccountForSamples
  <2>4. \A rec \in records : RowsOf(rec) \subseteq samples
    BY DEF IInv, RecordsAccountForSamples
  <2>5. \A rec, other \in records' : rec # other => RowsOf(rec) \cap RowsOf(other) = {}
    BY <1>1, <2>1, <2>2, <2>4 DEF IInv, RecordsAccountForSamples
  <2>. QED
    BY <1>1, <1>5, <2>3, <2>5 DEF IInv, RecordsAccountForSamples
<1>. QED
  BY <1>6, <1>8, <1>9, <1>10, <1>11, <1>12 DEF IInv

LEMMA AbandonIInv ==
    ASSUME IInv, NEW s \in Sessions, Abandon(s)
    PROVE  IInv'
<1>1. /\ UNCHANGED <<users, samples, records, cmd, pc, txn, answer>>
      /\ lifecycle[s] = "active"
      /\ lifecycle' = [lifecycle EXCEPT ![s] = "abandoned"]
      /\ \A q \in Requests : cmd[q].session = s => txn[q].session = "none"
  BY DEF Abandon
<1>2. TypeOK'
  BY <1>1 DEF IInv, TypeOK
<1>3. LocksConsistent'
  <2>1. \A q \in Requests : txn[q].session = "locked" =>
           lifecycle'[cmd[q].session] = lifecycle[cmd[q].session]
    BY <1>1, CommandType DEF IInv, TypeOK
  <2>2. \A q \in Requests : ShapeOf(q)'
    BY <1>1, <2>1 DEF IInv, LocksConsistent, ShapeOf
  <2>3. \A q \in Requests : FreshOf(q)'
    BY <1>1 DEF IInv, LocksConsistent, FreshOf
  <2>4. \A p, q \in Requests : p # q => Exclusive(p, q)'
    BY <1>1 DEF IInv, LocksConsistent, Exclusive
  <2>. QED
    BY <2>2, <2>3, <2>4 DEF LocksConsistent
<1>4. OwnersLive'
  BY <1>1 DEF IInv, TypeOK, OwnersLive
<1>5. TailNotStale' /\ SamplesContiguous' /\ RecordsAccountForSamples'
  BY <1>1 DEF IInv, TailNotStale, SamplesContiguous, RecordsAccountForSamples,
              ContinuesTail, IsNextSeq
<1>. QED
  BY <1>2, <1>3, <1>4, <1>5 DEF IInv

LEMMA DeleteUserIInv ==
    ASSUME IInv, NEW u \in Users, DeleteUser(u)
    PROVE  IInv'
<1>1. /\ UNCHANGED <<cmd, pc, txn, answer>>
      /\ users' = users \ {u}
      /\ lifecycle' = [s \in Sessions |-> IF Owner[s] = u THEN "gone" ELSE lifecycle[s]]
      /\ samples' = {row \in samples : Owner[row.session] # u}
      /\ records' = {rec \in records : rec.user # u}
      /\ \A q \in Requests : cmd[q].user = u => txn[q].record = "none"
  BY DEF DeleteUser
<1>2. TypeOK'
  BY <1>1 DEF IInv, TypeOK
<1>3. ASSUME NEW q \in Requests, txn[q].session = "locked"
      PROVE  /\ Owner[cmd[q].session] # u
             /\ lifecycle'[cmd[q].session] = lifecycle[cmd[q].session]
             /\ \A row \in samples' : row.session = cmd[q].session <=>
                   row \in samples /\ row.session = cmd[q].session
             /\ \A row \in samples : row.session = cmd[q].session => row \in samples'
  <2>1. ShapeOf(q) /\ cmd[q].session \in Sessions
    BY CommandType DEF IInv, TypeOK, LocksConsistent
  <2>2. Owner[cmd[q].session] # u
    BY <1>1, <1>3, <2>1 DEF ShapeOf
  <2>. QED
    BY <1>1, <2>1, <2>2
<1>4. LocksConsistent'
  <2>1. ASSUME NEW q \in Requests
        PROVE  ShapeOf(q)'
    <3>1. ShapeOf(q)
      BY DEF IInv, LocksConsistent
    <3>. QED
      BY <1>1, <1>3, <3>1 DEF ShapeOf
  <2>2. ASSUME NEW q \in Requests
        PROVE  FreshOf(q)'
    <3>1. FreshOf(q) /\ txn[q] \in Txn
      BY DEF IInv, TypeOK, LocksConsistent
    <3>2. txn[q].record # "none" => cmd[q].user # u
      BY <1>1
    <3>. QED
      BY <1>1, <3>1, <3>2 DEF FreshOf, SameKey
  <2>3. \A p, q \in Requests : p # q => Exclusive(p, q)'
    BY <1>1 DEF IInv, LocksConsistent, Exclusive
  <2>. QED
    BY <2>1, <2>2, <2>3 DEF LocksConsistent
<1>5. OwnersLive'
  BY <1>1 DEF IInv, TypeOK, OwnersLive, Row
<1>6. TailNotStale'
  <2>. SUFFICES ASSUME NEW q \in Requests, pc[q] \in {"insert", "complete", "commit"}
                PROVE  ContinuesTail(cmd[q])'
    BY <1>1 DEF TailNotStale
  <2>1. ContinuesTail(cmd[q]) /\ txn[q].session = "locked"
    BY DEF IInv, TailNotStale, LocksConsistent, ShapeOf
  <2>. QED
    BY <1>1, <1>3, <2>1 DEF ContinuesTail, IsNextSeq
<1>7. SamplesContiguous'
  <2>1. ASSUME NEW row \in samples', NEW m \in 0 .. row.seq
        PROVE  \E low \in samples' : low.session = row.session /\ low.seq = m
    BY <1>1 DEF IInv, SamplesContiguous
  <2>. QED
    BY <1>1, <2>1 DEF IInv, SamplesContiguous
<1>8. RecordsAccountForSamples'
  <2>1. \A rec \in records : \A row \in RowsOf(rec) : row.session = rec.session
    BY DEF RowsOf, RowAt
  <2>2. \A rec \in records : Owner[rec.session] = rec.user
    BY DEF IInv, OwnersLive
  <2>3. samples' = UNION {RowsOf(rec) : rec \in records'}
    BY <1>1, <2>1, <2>2 DEF IInv, RecordsAccountForSamples
  <2>. QED
    BY <1>1, <2>3 DEF IInv, RecordsAccountForSamples
<1>. QED
  BY <1>2, <1>4, <1>5, <1>6, <1>7, <1>8 DEF IInv

-----------------------------------------------------------------------------
(* The theorems *)

\* Every step of the specification preserves the inductive invariant.
THEOREM NextIInv == IInv /\ [Next]_vars => IInv'
<1>. SUFFICES ASSUME IInv, [Next]_vars PROVE IInv'
  OBVIOUS
<1>1. CASE UNCHANGED vars
  <2>1. UNCHANGED <<users, lifecycle, samples, records, cmd, pc, txn, answer>>
    BY <1>1 DEF vars
  <2>2. TypeOK' /\ OwnersLive'
    BY <2>1 DEF IInv, TypeOK, OwnersLive
  <2>3. LocksConsistent'
    BY <2>1 DEF IInv, LocksConsistent, ShapeOf, FreshOf, Exclusive
  <2>4. TailNotStale' /\ SamplesContiguous' /\ RecordsAccountForSamples'
    BY <2>1 DEF IInv, TailNotStale, ContinuesTail, IsNextSeq, SamplesContiguous,
                RecordsAccountForSamples
  <2>. QED
    BY <2>2, <2>3, <2>4 DEF IInv
<1>2. ASSUME NEW r \in Requests, Step(r) \/ LoseConnection(r)
      PROVE  IInv'
  BY <1>2, ReceiveIInv, ReserveKeyIInv, ReserveForMissingUserIInv, FindExistingIInv,
     LockExistingIInv, MissExistingIInv, LockSessionIInv, ReadTailIInv,
     InsertSampleIInv, CompleteRecordIInv, CommitIInv, EndIInv
  DEF Step, LoseConnection, AbortDeadlock
<1>3. ASSUME NEW s \in Sessions, Abandon(s)
      PROVE  IInv'
  BY <1>3, AbandonIInv
<1>4. ASSUME NEW u \in Users, DeleteUser(u)
      PROVE  IInv'
  BY <1>4, DeleteUserIInv
<1>5. CASE Terminating
  BY <1>1, <1>5 DEF Terminating
<1>. QED
  BY <1>1, <1>2, <1>3, <1>4, <1>5 DEF Next

\* The inductive invariant holds in every reachable state.
THEOREM Invariance == Spec => []IInv
<1>. QED
  BY InitIInv, NextIInv, PTL DEF Spec

\* Every variable stays in its type.
THEOREM TypeCorrect == Spec => []TypeOK
<1>1. IInv => TypeOK
  BY DEF IInv
<1>. QED
  BY <1>1, Invariance, PTL

(* Whatever requests interleave, fail or retry, each session's samples are  *)
(* numbered from 0 without gaps, with increasing offsets and unique ids.    *)
THEOREM SamplesStayContiguous == Spec => []SamplesContiguous
<1>1. IInv => SamplesContiguous
  BY DEF IInv
<1>. QED
  BY <1>1, Invariance, PTL

\* The tail a request compared its batch with is still the tail when it commits.
THEOREM TailStaysCurrent == Spec => []TailNotStale
<1>1. IInv => TailNotStale
  BY DEF IInv
<1>. QED
  BY <1>1, Invariance, PTL

\* Samples and completed idempotency records are committed together or not at all.
THEOREM BatchesAreAtomic == Spec => []RecordsAccountForSamples
<1>1. IInv => RecordsAccountForSamples
  BY DEF IInv
<1>. QED
  BY <1>1, Invariance, PTL

SamplesOf(s) == {row \in samples : row.session = s}

(* The samples of a session that has ended never change.                    *)
THEOREM EndedSessionsAreFrozen == Spec => EndedSessionFrozen
<1>1. ASSUME IInv, [Next]_vars, NEW s \in Sessions,
             lifecycle[s] \in Terminal, lifecycle'[s] \in Terminal
      PROVE  SamplesOf(s)' = SamplesOf(s)
  <2>1. CASE samples' = samples
    BY <2>1 DEF SamplesOf
  <2>2. ASSUME NEW r \in Requests, Commit(r)
        PROVE  SamplesOf(s)' = SamplesOf(s)
    <3>1. /\ samples' = samples \cup {RowAt(cmd[r], i) : i \in 1 .. txn[r].rows}
          /\ pc[r] = "commit"
      BY <2>2 DEF Commit, Runs
    <3>2. cmd[r].session # s
      BY <1>1, <3>1 DEF IInv, LocksConsistent, ShapeOf, Terminal
    <3>3. \A i \in 1 .. txn[r].rows : RowAt(cmd[r], i).session = cmd[r].session
      BY DEF RowAt
    <3>. QED
      BY <3>1, <3>2, <3>3 DEF SamplesOf
  <2>3. ASSUME NEW u \in Users, DeleteUser(u)
        PROVE  SamplesOf(s)' = SamplesOf(s)
    <3>1. /\ samples' = {row \in samples : Owner[row.session] # u}
          /\ lifecycle'[s] = IF Owner[s] = u THEN "gone" ELSE lifecycle[s]
      BY <2>3 DEF DeleteUser
    <3>2. Owner[s] # u
      BY <1>1, <3>1 DEF Terminal
    <3>. QED
      BY <3>1, <3>2 DEF SamplesOf
  <2>4. CASE UNCHANGED vars
    BY <2>1, <2>4 DEF vars
  <2>5. ASSUME NEW r \in Requests, Step(r) \/ LoseConnection(r), ~ Commit(r)
        PROVE  samples' = samples
    BY <2>5 DEF Step, LoseConnection, AbortDeadlock, Lose, committed, Receive, ReserveKey,
       ReserveForMissingUser, FindExisting, LockExisting, MissExisting, LockSession,
       ReadTail, InsertSample, CompleteRecord, Rollback
  <2>6. ASSUME NEW t \in Sessions, Abandon(t)
        PROVE  samples' = samples
    BY <2>6 DEF Abandon
  <2>7. CASE Terminating
    BY <2>4, <2>7 DEF Terminating
  <2>. QED
    BY <1>1, <2>1, <2>2, <2>3, <2>4, <2>5, <2>6, <2>7 DEF Next
<1>2. IInv /\ [Next]_vars =>
         [\A s \in Sessions :
             lifecycle[s] \in Terminal /\ lifecycle'[s] \in Terminal =>
                {row \in samples' : row.session = s} = {row \in samples : row.session = s}]_vars
  BY <1>1 DEF SamplesOf
<1>. QED
  BY <1>2, Invariance, PTL DEF Spec, EndedSessionFrozen

-----------------------------------------------------------------------------
(* What clients are answered, and the refinement of IdempotentCommand *)

\* Every key has one record, and its response describes its own batch.
RecordsFaithful ==
    /\ \A rec \in records : ChunkOrdered(rec.batch) /\ rec.body = BodyOf(rec)
    /\ \A rec, other \in records : SameKey(rec, other) => rec = other

\* An answer comes late, and a successful one is that of the key's record.
AnswerOf(r) ==
    /\ pc[r] \notin {"rollback", "done"} => answer[r].status = "none"
    /\ pc[r] = "lock_existing" =>
          cmd[r].user \notin users \/ \E rec \in records : SameKey(rec, cmd[r])
    /\ answer[r].status \in Successful =>
          /\ answer[r].body = BodyOf(cmd[r])
          /\ cmd[r].user \in users => Recorded(r)

\* The inductive invariant of the answers, relative to IInv.
AnswersInv ==
    /\ RecordsFaithful
    /\ \A r \in Requests : AnswerOf(r)
    /\ ReplaysAgree
    /\ ContractErrorsUnreachable

LEMMA InitAnswersInv == Init => AnswersInv
BY DEF Init, AnswersInv, RecordsFaithful, AnswerOf, ReplaysAgree,
   ContractErrorsUnreachable, Successful

-----------------------------------------------------------------------------
(* What a step answers *)

\* The step of r tells no client anything.
Silent(r) ==
    /\ answer' = answer
    /\ pc[r] \notin {"rollback", "done"} \/ pc'[r] = "done"
    /\ pc'[r] = "lock_existing" => \E rec \in records : SameKey(rec, cmd[r])

Told(r, status, body) ==
    /\ answer' = [answer EXCEPT ![r] = [status |-> status, body |-> body]]
    /\ pc'[r] \in {"rollback", "done"}

Refusals == Statuses \ {"none", "accepted", "replayed", "unknown", "contract_failed"}

\* r has had no answer and is refused: its command is not recorded.
Refused(r) ==
    /\ answer[r].status = "none"
    /\ \E status \in Refusals :
          /\ Told(r, status, NoBody)
          /\ status = "record_vanished" => cmd[r].user \notin users
    /\ \A rec \in records : SameKey(rec, cmd[r]) => ~ SameHash(rec, cmd[r])

\* r has had no answer and gets that of the record of its command.
Replayed(r) ==
    /\ answer[r].status = "none"
    /\ \E rec \in records : /\ SameKey(rec, cmd[r]) /\ SameHash(rec, cmd[r])
                            /\ Told(r, "replayed", rec.body)

\* Validation, the reservation and the look at an existing record.
LEMMA KeyAnswers ==
    ASSUME IInv, AnswersInv, NEW r \in Requests,
           \/ Receive(r) \/ ReserveKey(r) \/ ReserveForMissingUser(r)
           \/ FindExisting(r) \/ LockExisting(r) \/ MissExisting(r)
    PROVE  Silent(r) \/ Refused(r) \/ Replayed(r)
<1>1. TypeOK /\ ShapeOf(r) /\ FreshOf(r) /\ AnswerOf(r) /\ OwnersLive
  BY DEF IInv, LocksConsistent, AnswersInv
<1>2. CASE Receive(r)
  <2>1. CASE ChunkOrdered(cmd[r].batch)
    BY <1>1, <1>2, <2>1 DEF Receive, Goto, Silent, TypeOK
  <2>2. CASE ~ ChunkOrdered(cmd[r].batch)
    <3>1. answer[r].status = "none" /\ Told(r, "invalid", NoBody)
      BY <1>1, <1>2, <2>2 DEF Receive, Told, AnswerOf, TypeOK
    <3>2. \A rec \in records : ~ SameHash(rec, cmd[r])
      BY <2>2 DEF AnswersInv, RecordsFaithful, SameHash
    <3>. QED
      BY <3>1, <3>2 DEF Refused, Refusals, Statuses
  <2>. QED
    BY <2>1, <2>2
<1>3. CASE ReserveKey(r) \/ FindExisting(r)
  BY <1>1, <1>3 DEF ReserveKey, FindExisting, Runs, Goto, Silent, TypeOK
<1>4. CASE ReserveForMissingUser(r)
  <2>1. /\ cmd[r].user \notin users /\ answer[r].status = "none"
        /\ Told(r, "subject_gone", NoBody)
    BY <1>1, <1>4 DEF ReserveForMissingUser, Runs, Raise, Told, AnswerOf, TypeOK
  <2>2. \A rec \in records : ~ SameKey(rec, cmd[r])
    BY <1>1, <2>1 DEF OwnersLive, SameKey
  <2>. QED
    BY <2>1, <2>2 DEF Refused, Refusals, Statuses
<1>5. CASE LockExisting(r)
  <2>1. PICK rec \in records :
          /\ SameKey(rec, cmd[r])
          /\ \/ ~ SameHash(rec, cmd[r]) /\ Raise(r, "key_conflict", NoBody)
             \/ SameHash(rec, cmd[r]) /\ Raise(r, "replayed", rec.body)
    BY <1>5 DEF LockExisting, IInv, RecordsAccountForSamples
  <2>2. \A other \in records : SameKey(other, cmd[r]) => other = rec
    BY <2>1 DEF AnswersInv, RecordsFaithful, SameKey
  <2>3. answer[r].status = "none"
    BY <1>1, <1>5 DEF AnswerOf, LockExisting, Runs
  <2>4. CASE ~ SameHash(rec, cmd[r]) /\ Raise(r, "key_conflict", NoBody)
    <3>1. Told(r, "key_conflict", NoBody)
      BY <1>1, <2>4 DEF Raise, Told, TypeOK
    <3>. QED
      BY <2>2, <2>3, <2>4, <3>1 DEF Refused, Refusals, Statuses
  <2>5. CASE SameHash(rec, cmd[r]) /\ Raise(r, "replayed", rec.body)
    BY <1>1, <2>1, <2>3, <2>5 DEF Raise, Told, TypeOK, Replayed
  <2>. QED
    BY <2>1, <2>4, <2>5
<1>6. CASE MissExisting(r)
  <2>1. /\ \A rec \in records : ~ SameKey(rec, cmd[r])
        /\ pc[r] = "lock_existing" /\ Told(r, "record_vanished", NoBody)
    BY <1>1, <1>6 DEF MissExisting, Runs, Raise, Told, TypeOK
  <2>2. answer[r].status = "none" /\ cmd[r].user \notin users
    BY <1>1, <2>1 DEF AnswerOf
  <2>. QED
    BY <2>1, <2>2 DEF Refused, Refusals, Statuses
<1>. QED
  BY <1>2, <1>3, <1>4, <1>5, <1>6

\* The statements that follow a reservation: no record has their key.
LEMMA BatchAnswers ==
    ASSUME IInv, AnswersInv, NEW r \in Requests,
           LockSession(r) \/ ReadTail(r) \/ InsertSample(r) \/ CompleteRecord(r)
    PROVE  Silent(r) \/ Refused(r)
<1>1. TypeOK /\ ShapeOf(r) /\ FreshOf(r) /\ AnswerOf(r)
  BY DEF IInv, LocksConsistent, AnswersInv
<1>2. pc[r] \in {"lock_session", "read_tail", "insert", "complete"}
  BY DEF LockSession, ReadTail, InsertSample, CompleteRecord, Runs
<1>3. answer[r].status = "none" /\ \A rec \in records : ~ SameKey(rec, cmd[r])
  BY <1>1, <1>2 DEF ShapeOf, FreshOf, AnswerOf
<1>4. ASSUME NEW status \in Refusals \ {"record_vanished"}, Raise(r, status, NoBody)
      PROVE  Refused(r)
  <2>1. Told(r, status, NoBody)
    BY <1>1, <1>4 DEF Raise, Told, TypeOK
  <2>. QED
    BY <1>3, <2>1 DEF Refused
<1>5. ASSUME NEW statement \in {"read_tail", "insert", "complete", "commit"},
             Goto(r, statement)
      PROVE  Silent(r)
  BY <1>1, <1>2, <1>5 DEF Goto, Silent, TypeOK
<1>6. {"session_not_found", "session_not_active", "sequence_conflict", "unencodable",
       "sample_conflict"} \subseteq Refusals \ {"record_vanished"}
  BY DEF Refusals, Statuses
<1>7. CASE LockSession(r) \/ ReadTail(r)
  BY <1>4, <1>5, <1>6, <1>7 DEF LockSession, ReadTail
<1>8. CASE InsertSample(r)
  <2>1. lifecycle[cmd[r].session] = "active"
    BY <1>1, <1>8 DEF InsertSample, Runs, ShapeOf
  <2>2. Refusal(RowAt(cmd[r], txn[r].rows + 1)) \in {"none", "sample_conflict"}
    BY <2>1 DEF Refusal, RowAt, Terminal
  <2>. QED
    BY <1>4, <1>5, <1>6, <1>8, <2>2 DEF InsertSample
<1>9. CASE CompleteRecord(r)
  <2>1. txn[r].record = "processing"
    BY <1>1, <1>9 DEF CompleteRecord, Runs, ShapeOf
  <2>. QED
    BY <1>5, <1>9, <2>1 DEF CompleteRecord
<1>. QED
  BY <1>7, <1>8, <1>9

\* The end of a transaction that does not commit.
LEMMA EndAnswers ==
    ASSUME IInv, NEW r \in Requests, Rollback(r) \/ LoseConnection(r) \/ AbortDeadlock(r)
    PROVE  Silent(r) \/ Told(r, "unknown", NoBody)
BY DEF Rollback, LoseConnection, AbortDeadlock, Lose, Runs, Silent, Told, IInv, TypeOK

\* Only COMMIT changes rows.
LEMMA OnlyCommitWrites ==
    ASSUME NEW r \in Requests, Step(r) \/ LoseConnection(r), ~ Commit(r)
    PROVE  UNCHANGED <<users, samples, records, cmd>>
BY DEF Step, LoseConnection, AbortDeadlock, Lose, committed, Receive, ReserveKey,
   ReserveForMissingUser, FindExisting, LockExisting, MissExisting, LockSession,
   ReadTail, InsertSample, CompleteRecord, Rollback

\* What a step can answer its request.
LEMMA StepAnswers ==
    ASSUME IInv, AnswersInv, NEW r \in Requests, Step(r) \/ LoseConnection(r), ~ Commit(r)
    PROVE  Silent(r) \/ Refused(r) \/ Replayed(r) \/ Told(r, "unknown", NoBody)
BY KeyAnswers, BatchAnswers, EndAnswers DEF Step

-----------------------------------------------------------------------------
(* The invariant of the answers is inductive *)

(* A step of r that leaves users and records alone keeps what the others    *)
(* were told true.                                                          *)
LEMMA OthersKeepAnswers ==
    ASSUME AnswersInv, NEW r \in Requests, UNCHANGED <<users, records, cmd>>,
           NEW q \in Requests, answer'[q] = answer[q], pc'[q] = pc[q]
    PROVE  AnswerOf(q)'
BY DEF AnswersInv, AnswerOf, Recorded

\* Answers of one key agree if those to other requests do and r's is recorded.
LEMMA RecordedAnswersAgree ==
    ASSUME AnswersInv, NEW r \in Requests, cmd' = cmd,
           \A q \in Requests \ {r} : answer'[q] = answer[q],
           RecordsFaithful', \A q \in Requests : AnswerOf(q)',
           cmd[r].user \in users'
    PROVE  ReplaysAgree'
<1>1. \A q \in Requests : answer'[q].status \in Successful =>
         /\ answer'[q].body = BodyOf(cmd[q])
         /\ cmd[q].user \in users' =>
               \E rec \in records' : SameKey(rec, cmd[q]) /\ SameHash(rec, cmd[q])
  BY DEF AnswerOf, Recorded
<1>2. ASSUME NEW q \in Requests, SameKey(cmd[r], cmd[q]),
             answer'[r].status \in Successful, answer'[q].status \in Successful
      PROVE  SameHash(cmd[r], cmd[q]) /\ SameHash(cmd[q], cmd[r])
  <2>1. PICK rec \in records' : SameKey(rec, cmd[r]) /\ SameHash(rec, cmd[r])
    BY <1>1, <1>2
  <2>2. cmd[q].user \in users'
    BY <1>2 DEF SameKey
  <2>3. PICK other \in records' : SameKey(other, cmd[q]) /\ SameHash(other, cmd[q])
    BY <1>1, <1>2, <2>2
  <2>4. rec = other
    BY <1>2, <2>1, <2>3 DEF RecordsFaithful, SameKey
  <2>. QED
    BY <2>1, <2>3, <2>4 DEF SameHash
<1>3. \A p, q \in Requests :
         /\ answer'[p].status \in Successful
         /\ answer'[q].status \in Successful
         /\ SameKey(cmd[p], cmd[q])
         => SameHash(cmd[p], cmd[q])
  <2>1. \A p, q \in Requests : SameKey(cmd[p], cmd[q]) => SameKey(cmd[q], cmd[p])
    BY DEF SameKey
  <2>. QED
    BY <1>2, <2>1 DEF AnswersInv, ReplaysAgree
<1>4. \A p, q \in Requests : SameHash(cmd[p], cmd[q]) => BodyOf(cmd[p]) = BodyOf(cmd[q])
  BY DEF SameHash, BodyOf
<1>. QED
  BY <1>1, <1>3, <1>4 DEF ReplaysAgree

LEMMA StepAnswersInv ==
    ASSUME IInv, AnswersInv, NEW r \in Requests, Step(r) \/ LoseConnection(r), ~ Commit(r)
    PROVE  AnswersInv'
<1>1. UNCHANGED <<users, records, cmd>>
  BY OnlyCommitWrites
<1>2. TypeOK /\ AnswerOf(r)
  BY DEF IInv, AnswersInv
<1>3. \A q \in Requests \ {r} : pc'[q] = pc[q]
  BY <1>2 DEF Step, LoseConnection, AbortDeadlock, Lose, Receive, ReserveKey,
     ReserveForMissingUser, FindExisting, LockExisting, MissExisting, LockSession,
     ReadTail, InsertSample, CompleteRecord, Rollback, Raise, Goto, TypeOK
<1>4. RecordsFaithful'
  BY <1>1 DEF AnswersInv, RecordsFaithful
<1>5. CASE Silent(r)
  <2>1. AnswerOf(r)'
    BY <1>1, <1>2, <1>5 DEF Silent, AnswerOf, Recorded
  <2>2. \A q \in Requests : AnswerOf(q)'
    BY <1>1, <1>3, <1>5, <2>1, OthersKeepAnswers DEF Silent
  <2>. QED
    BY <1>1, <1>4, <1>5, <2>2
    DEF Silent, AnswersInv, ReplaysAgree, ContractErrorsUnreachable
<1>6. ASSUME NEW status \in Statuses \ (Successful \cup {"contract_failed"}),
             Told(r, status, NoBody),
             status = "record_vanished" => cmd[r].user \notin users
      PROVE  AnswersInv'
  <2>1. /\ answer'[r].status = status
        /\ \A q \in Requests \ {r} : answer'[q] = answer[q]
        /\ pc'[r] \in {"rollback", "done"}
    BY <1>2, <1>6 DEF Told, TypeOK
  <2>2. AnswerOf(r)'
    BY <1>6, <2>1 DEF AnswerOf
  <2>3. \A q \in Requests : AnswerOf(q)'
    BY <1>1, <1>3, <2>1, <2>2, OthersKeepAnswers
  <2>4. ReplaysAgree'
    BY <1>1, <1>6, <2>1 DEF AnswersInv, ReplaysAgree
  <2>5. ContractErrorsUnreachable'
    BY <1>1, <1>6, <2>1 DEF AnswersInv, ContractErrorsUnreachable
  <2>. QED
    BY <1>4, <2>3, <2>4, <2>5 DEF AnswersInv
<1>7. CASE Refused(r)
  BY <1>6, <1>7 DEF Refused, Refusals, Successful
<1>8. CASE Replayed(r)
  <2>1. PICK rec \in records : /\ SameKey(rec, cmd[r]) /\ SameHash(rec, cmd[r])
                               /\ Told(r, "replayed", rec.body)
    BY <1>8 DEF Replayed
  <2>2. /\ answer'[r] = [status |-> "replayed", body |-> rec.body]
        /\ \A q \in Requests \ {r} : answer'[q] = answer[q]
        /\ pc'[r] \in {"rollback", "done"}
    BY <1>2, <2>1 DEF Told, TypeOK
  <2>3. rec.body = BodyOf(cmd[r])
    BY <2>1 DEF AnswersInv, RecordsFaithful, BodyOf, SameHash
  <2>4. AnswerOf(r)'
    BY <1>1, <2>1, <2>2, <2>3 DEF AnswerOf, Recorded, Successful
  <2>5. \A q \in Requests : AnswerOf(q)'
    BY <1>1, <1>3, <2>2, <2>4, OthersKeepAnswers
  <2>6. cmd[r].user \in users'
    BY <1>1, <2>1 DEF IInv, OwnersLive, SameKey
  <2>7. ReplaysAgree'
    BY <1>1, <1>4, <2>2, <2>5, <2>6, RecordedAnswersAgree
  <2>8. ContractErrorsUnreachable'
    BY <1>1, <2>2 DEF AnswersInv, ContractErrorsUnreachable
  <2>. QED
    BY <1>4, <2>5, <2>7, <2>8 DEF AnswersInv
<1>9. CASE Told(r, "unknown", NoBody)
  BY <1>6, <1>9 DEF Statuses, Successful
<1>. QED
  BY <1>5, <1>7, <1>8, <1>9, StepAnswers

\* What COMMIT stores, and the answer it gives if it is acknowledged.
LEMMA CommitFacts ==
    ASSUME IInv, NEW r \in Requests, Commit(r)
    PROVE  /\ UNCHANGED <<users, cmd>> /\ pc[r] = "commit" /\ pc'[r] = "done"
           /\ \A q \in Requests \ {r} : pc'[q] = pc[q] /\ answer'[q] = answer[q]
           /\ \/ answer'[r] = [status |-> "accepted", body |-> BodyOf(cmd[r])]
              \/ answer'[r] = [status |-> "unknown", body |-> NoBody]
           /\ records' = records \cup {RecordOf(r)}
           /\ SameKey(RecordOf(r), cmd[r]) /\ SameHash(RecordOf(r), cmd[r])
           /\ RecordOf(r).body = BodyOf(cmd[r]) /\ BodyOf(RecordOf(r)) = BodyOf(cmd[r])
           /\ samples' = samples \cup RowsOf(RecordOf(r))
           /\ RowsOf(RecordOf(r)) # {} /\ RowsOf(RecordOf(r)) \cap samples = {}
           /\ cmd[r].user \in users /\ ChunkOrdered(cmd[r].batch)
           /\ \A rec \in records : ~ SameKey(rec, cmd[r])
<1>1. TypeOK /\ ShapeOf(r) /\ FreshOf(r) /\ cmd[r] \in Commands
  BY DEF IInv, TypeOK, LocksConsistent
<1>2. /\ UNCHANGED <<users, cmd>> /\ pc[r] = "commit" /\ pc'[r] = "done"
      /\ \A q \in Requests \ {r} : pc'[q] = pc[q] /\ answer'[q] = answer[q]
      /\ \/ answer'[r] = [status |-> "accepted", body |-> BodyOf(cmd[r])]
         \/ answer'[r] = [status |-> "unknown", body |-> NoBody]
      /\ records' = records \cup {RecordOf(r)}
      /\ samples' = samples \cup {RowAt(cmd[r], i) : i \in 1 .. txn[r].rows}
  BY <1>1 DEF Commit, Runs, TypeOK
<1>3. /\ txn[r].rows = Len(cmd[r].batch) /\ txn[r].record = "completed"
      /\ cmd[r].user \in users /\ ChunkOrdered(cmd[r].batch)
      /\ \A rec \in records : ~ SameKey(rec, cmd[r])
  BY <1>1, <1>2 DEF ShapeOf, FreshOf
<1>4. /\ SameKey(RecordOf(r), cmd[r]) /\ SameHash(RecordOf(r), cmd[r])
      /\ RecordOf(r).body = BodyOf(cmd[r]) /\ BodyOf(RecordOf(r)) = BodyOf(cmd[r])
  BY DEF RecordOf, SameKey, SameHash, BodyOf
<1>5. RowsOf(RecordOf(r)) = {RowAt(cmd[r], i) : i \in 1 .. txn[r].rows}
  <2>1. RowsOf(RecordOf(r)) = RowsOf(cmd[r])
    BY DEF RecordOf, RowsOf, RowAt
  <2>. QED
    BY <1>1, <1>3, <2>1, CommandType DEF RowsOf
<1>6. RowsOf(RecordOf(r)) # {}
  <2>1. Len(cmd[r].batch) >= 1
    BY <1>1, <1>3, BodyType
  <2>. QED
    BY <1>3, <1>5, <2>1
<1>7. RowsOf(RecordOf(r)) \cap samples = {}
  BY <1>1, <1>5 DEF FreshOf, Collides
<1>. QED
  BY <1>2, <1>3, <1>4, <1>5, <1>6, <1>7

LEMMA CommitAnswersInv ==
    ASSUME IInv, AnswersInv, NEW r \in Requests, Commit(r)
    PROVE  AnswersInv'
<1>. DEFINE new == RecordOf(r)
<1>1. /\ UNCHANGED <<users, cmd>> /\ pc'[r] = "done"
      /\ \A q \in Requests \ {r} : pc'[q] = pc[q] /\ answer'[q] = answer[q]
      /\ \/ answer'[r] = [status |-> "accepted", body |-> BodyOf(cmd[r])]
         \/ answer'[r] = [status |-> "unknown", body |-> NoBody]
      /\ cmd[r].user \in users
  BY CommitFacts
<1>2. /\ records' = records \cup {new}
      /\ SameKey(new, cmd[r]) /\ SameHash(new, cmd[r])
      /\ new.body = BodyOf(new) /\ ChunkOrdered(new.batch)
      /\ \A rec \in records : ~ SameKey(rec, cmd[r])
  <2>1. new.batch = cmd[r].batch
    BY DEF RecordOf
  <2>. QED
    BY <2>1, CommitFacts
<1>. HIDE DEF new
<1>3. RecordsFaithful'
  <2>1. \A rec \in records : ~ SameKey(rec, new) /\ ~ SameKey(new, rec)
    BY <1>2 DEF SameKey
  <2>. QED
    BY <1>2, <2>1 DEF AnswersInv, RecordsFaithful
<1>4. AnswerOf(r)'
  <2>1. \E rec \in records' : SameKey(rec, cmd[r]) /\ SameHash(rec, cmd[r])
    BY <1>2
  <2>. QED
    BY <1>1, <2>1 DEF AnswerOf, Recorded, Successful
<1>5. ASSUME NEW q \in Requests \ {r}
      PROVE  AnswerOf(q)'
  BY <1>1, <1>2 DEF AnswersInv, AnswerOf, Recorded
<1>6. ReplaysAgree'
  BY <1>1, <1>3, <1>4, <1>5, RecordedAnswersAgree
<1>7. ContractErrorsUnreachable'
  BY <1>1 DEF AnswersInv, ContractErrorsUnreachable
<1>. QED
  BY <1>3, <1>4, <1>5, <1>6, <1>7 DEF AnswersInv

LEMMA DeleteUserAnswersInv ==
    ASSUME IInv, AnswersInv, NEW u \in Users, DeleteUser(u)
    PROVE  AnswersInv'
<1>1. /\ UNCHANGED <<cmd, pc, answer>> /\ users' = users \ {u}
      /\ records' = {rec \in records : rec.user # u}
  BY DEF DeleteUser
<1>2. RecordsFaithful'
  BY <1>1 DEF AnswersInv, RecordsFaithful
<1>3. ASSUME NEW q \in Requests
      PROVE  AnswerOf(q)'
  <2>1. \A rec \in records : SameKey(rec, cmd[q]) /\ cmd[q].user # u => rec \in records'
    BY <1>1 DEF SameKey
  <2>2. AnswerOf(q)
    BY DEF AnswersInv
  <2>. QED
    BY <1>1, <2>1, <2>2 DEF AnswerOf, Recorded
<1>4. ReplaysAgree' /\ ContractErrorsUnreachable'
  BY <1>1 DEF AnswersInv, ReplaysAgree, ContractErrorsUnreachable
<1>. QED
  BY <1>2, <1>3, <1>4 DEF AnswersInv

LEMMA StutterAnswersInv ==
    ASSUME AnswersInv, UNCHANGED <<users, records, cmd, pc, answer>>
    PROVE  AnswersInv'
BY DEF AnswersInv, RecordsFaithful, AnswerOf, Recorded, ReplaysAgree,
   ContractErrorsUnreachable

THEOREM AnswersInvariance == Spec => []AnswersInv
<1>1. ASSUME IInv, AnswersInv, [Next]_vars
      PROVE  AnswersInv'
  <2>1. ASSUME NEW r \in Requests, Step(r) \/ LoseConnection(r)
        PROVE  AnswersInv'
    BY <1>1, <2>1, StepAnswersInv, CommitAnswersInv
  <2>2. ASSUME NEW u \in Users, DeleteUser(u)
        PROVE  AnswersInv'
    BY <1>1, <2>2, DeleteUserAnswersInv
  <2>3. CASE (\E s \in Sessions : Abandon(s)) \/ Terminating \/ UNCHANGED vars
    BY <1>1, <2>3, StutterAnswersInv DEF Abandon, Terminating, vars
  <2>. QED
    BY <1>1, <2>1, <2>2, <2>3 DEF Next
<1>2. IInv /\ AnswersInv /\ [Next]_vars => AnswersInv'
  BY <1>1
<1>. QED
  BY <1>2, InitAnswersInv, Invariance, PTL DEF Spec

-----------------------------------------------------------------------------
(* The theorems *)

(* Successful requests with one key get one response, which describes the   *)
(* batch each of them sent.                                                 *)
THEOREM ResponsesAgree == Spec => []ReplaysAgree
<1>1. AnswersInv => ReplaysAgree
  BY DEF AnswersInv
<1>. QED
  BY <1>1, AnswersInvariance, PTL

(* The handler's internal errors never occur, and the record of a duplicate *)
(* is missing only when its user is gone.                                   *)
THEOREM NoContractError == Spec => []ContractErrorsUnreachable
<1>1. AnswersInv => ContractErrorsUnreachable
  BY DEF AnswersInv
<1>. QED
  BY <1>1, AnswersInvariance, PTL

\* A batch that was acknowledged is stored as long as its user's account is.
THEOREM AcknowledgedStaysStored == Spec => []AcknowledgedIsStored
<1>1. ASSUME IInv, AnswersInv, NEW r \in Requests,
             answer[r].status \in Successful, cmd[r].user \in users
      PROVE  RowsOf(cmd[r]) \subseteq samples
  <2>1. PICK rec \in records : SameHash(rec, cmd[r])
    BY <1>1 DEF AnswersInv, AnswerOf, Recorded
  <2>2. RowsOf(rec) = RowsOf(cmd[r])
    BY <2>1 DEF SameHash, RowsOf, RowAt
  <2>. QED
    BY <1>1, <2>1, <2>2 DEF IInv, RecordsAccountForSamples
<1>2. IInv /\ AnswersInv => AcknowledgedIsStored
  BY <1>1 DEF AcknowledgedIsStored
<1>. QED
  BY <1>2, Invariance, AnswersInvariance, PTL

\* A retry of a recorded batch replays its response or learns nothing.
THEOREM RetriesAreReplayed == Spec => RetriesReplay
<1>1. ASSUME IInv, AnswersInv, [Next]_vars, NEW r \in Requests, Recorded(r),
             answer'[r] # answer[r]
      PROVE  answer'[r].status \in {"replayed", "unknown"}
  <2>1. answer \in [Requests -> [status : Statuses, body : Body \cup {NoBody}]]
    BY <1>1 DEF IInv, TypeOK
  <2>2. ASSUME NEW q \in Requests, Step(q) \/ LoseConnection(q), ~ Commit(q)
        PROVE  answer'[r].status \in {"replayed", "unknown"}
    <3>1. Silent(q) \/ Refused(q) \/ Replayed(q) \/ Told(q, "unknown", NoBody)
      BY <1>1, <2>2, StepAnswers
    <3>2. q = r
      BY <1>1, <2>1, <3>1 DEF Silent, Refused, Replayed, Told
    <3>3. ~ Refused(r)
      BY <1>1 DEF Refused, Recorded
    <3>. QED
      BY <1>1, <2>1, <3>1, <3>2, <3>3 DEF Silent, Replayed, Told
  <2>3. ASSUME NEW q \in Requests, Commit(q)
        PROVE  FALSE
    BY <1>1, <2>3, CommitFacts DEF Recorded
  <2>. QED
    BY <1>1, <2>2, <2>3 DEF Next, Abandon, DeleteUser, Terminating, vars
<1>2. IInv /\ AnswersInv /\ [Next]_vars =>
         [\A r \in Requests :
             Recorded(r) /\ answer'[r] # answer[r] =>
                answer'[r].status \in {"replayed", "unknown"}]_vars
  BY <1>1
<1>. QED
  BY <1>2, Invariance, AnswersInvariance, PTL DEF Spec, RetriesReplay

-----------------------------------------------------------------------------
(* Refinement *)

EntryOf(rec) == [user |-> rec.user, key |-> rec.key,
                 payload |-> <<rec.session, rec.batch>>,
                 body |-> rec.body, effect |-> RowsOf(rec)]

\* The mapped variables of one request and of the ledger, read pointwise.
LEMMA MappedState ==
    /\ ledgerBar = {EntryOf(rec) : rec \in records}
    /\ \A r \in Requests :
          /\ askBar[r].user = cmd[r].user /\ askBar[r].key = cmd[r].key
          /\ askBar[r].payload = <<cmd[r].session, cmd[r].batch>>
          /\ replyBar[r].kind = KindOf(answer[r].status)
          /\ replyBar[r].body = answer[r].body
BY DEF ledgerBar, askBar, replyBar, EntryOf

\* The records of a request's key are the abstract entries of its key.
LEMMA MappedEntries ==
    ASSUME NEW r \in Requests
    PROVE  /\ \A e \in Abstract!EntriesFor(r) :
                 \E rec \in records : SameKey(rec, cmd[r]) /\ e = EntryOf(rec)
           /\ \A rec \in records : SameKey(rec, cmd[r]) => EntryOf(rec) \in Abstract!EntriesFor(r)
<1>1. \A e : e \in Abstract!EntriesFor(r) <=>
             e \in ledgerBar /\ e.user = askBar[r].user /\ e.key = askBar[r].key
  BY DEF Abstract!EntriesFor
<1>2. \A rec : EntryOf(rec).user = rec.user /\ EntryOf(rec).key = rec.key
  BY DEF EntryOf
<1>. QED
  BY <1>1, <1>2, MappedState DEF SameKey

\* What a client can tell of a status.
LEMMA Kinds ==
    /\ KindOf("none") = "none" /\ KindOf("unknown") = "unknown"
    /\ KindOf("accepted") = "ok" /\ KindOf("replayed") = "ok"
    /\ \A status \in Refusals : KindOf(status) = "refused"
BY DEF KindOf, Successful, Statuses, Refusals

LEMMA InitRefines == Init => Abstract!Init
<1>. SUFFICES ASSUME Init PROVE Abstract!Init
  OBVIOUS
<1>1. ledgerBar = {} /\ samples = {}
  BY DEF Init, ledgerBar
<1>2. \A r \in Requests : answer[r].status = "none"
  BY DEF Init
<1>3. \A r \in Requests : replyBar[r].kind = "none"
  BY <1>2, Kinds, MappedState
<1>. QED
  BY <1>1, <1>3 DEF Abstract!Init

\* A step of r changes the mapped replies at r only.
LEMMA MappedReply ==
    ASSUME NEW r \in Requests,
           \A q \in Requests \ {r} : answer'[q] = answer[q]
    PROVE  /\ replyBar' = [replyBar EXCEPT ![r] =
                              [kind |-> KindOf(answer'[r].status), body |-> answer'[r].body]]
           /\ replyBar'[r].kind = KindOf(answer'[r].status)
           /\ replyBar'[r].body = answer'[r].body
           /\ replyBar' = [replyBar EXCEPT ![r] = replyBar'[r]]
<1>1. replyBar' = [q \in Requests |->
                     [kind |-> KindOf(answer'[q].status), body |-> answer'[q].body]]
  BY DEF replyBar, KindOf
<1>. QED
  BY <1>1 DEF replyBar

\* A step that leaves rows and answers alone is a stutter of the abstract command.
LEMMA MappedStutter ==
    ASSUME UNCHANGED <<users, samples, records, cmd, answer>>
    PROVE  UNCHANGED Abstract!vars
<1>1. askBar' = askBar
  BY DEF askBar
<1>2. ledgerBar' = ledgerBar
  BY DEF ledgerBar, RowsOf, RowAt
<1>3. replyBar' = replyBar
  BY DEF replyBar, KindOf
<1>. QED
  BY <1>1, <1>2, <1>3 DEF Abstract!vars

\* Whatever a request is told without a commit is a replay, a refusal or an error.
LEMMA StepRefines ==
    ASSUME IInv, AnswersInv, NEW r \in Requests, Step(r) \/ LoseConnection(r), ~ Commit(r)
    PROVE  Abstract!Next \/ UNCHANGED Abstract!vars
<1>1. UNCHANGED <<users, samples, records, cmd>>
  BY OnlyCommitWrites
<1>2. answer \in [Requests -> [status : Statuses, body : Body \cup {NoBody}]]
  BY DEF IInv, TypeOK
<1>3. askBar' = askBar /\ ledgerBar' = ledgerBar
  BY <1>1 DEF askBar, ledgerBar, RowsOf, RowAt
<1>4. CASE Silent(r)
  BY <1>1, <1>4, MappedStutter DEF Silent
<1>5. CASE Refused(r)
  <2>1. PICK status \in Refusals : Told(r, status, NoBody)
    BY <1>5 DEF Refused
  <2>2. /\ \A q \in Requests \ {r} : answer'[q] = answer[q]
        /\ answer'[r].status = status
    BY <1>2, <2>1 DEF Told
  <2>3. Abstract!Answer(r, "refused", replyBar'[r].body)
    BY <2>1, <2>2, Kinds, MappedReply DEF Abstract!Answer
  <2>4. ASSUME NEW e \in Abstract!EntriesFor(r)
        PROVE  e.payload # askBar[r].payload
    <3>1. PICK rec \in records : SameKey(rec, cmd[r]) /\ e = EntryOf(rec)
      BY MappedEntries
    <3>2. e.payload = <<rec.session, rec.batch>>
      BY <3>1 DEF EntryOf
    <3>. QED
      BY <1>5, <3>1, <3>2, MappedState DEF Refused, SameHash
  <2>5. replyBar[r].kind = "none"
    BY <1>5, Kinds, MappedState DEF Refused
  <2>6. Abstract!Refuse(r)
    BY <1>1, <1>3, <2>3, <2>4, <2>5 DEF Abstract!Refuse
  <2>. QED
    BY <2>6 DEF Abstract!Next
<1>6. CASE Replayed(r)
  <2>1. PICK rec \in records : /\ SameKey(rec, cmd[r]) /\ SameHash(rec, cmd[r])
                               /\ Told(r, "replayed", rec.body)
    BY <1>6 DEF Replayed
  <2>2. /\ \A q \in Requests \ {r} : answer'[q] = answer[q]
        /\ answer'[r].status = "replayed" /\ answer'[r].body = rec.body
    BY <1>2, <2>1 DEF Told
  <2>3. EntryOf(rec) \in Abstract!EntriesFor(r)
    BY <2>1, MappedEntries
  <2>4. EntryOf(rec).payload = askBar[r].payload /\ EntryOf(rec).body = rec.body
    BY <2>1, MappedState DEF EntryOf, SameHash
  <2>5. replyBar' = [replyBar EXCEPT ![r] = [kind |-> "ok", body |-> rec.body]]
    BY <2>2, Kinds, MappedReply
  <2>6. Abstract!Answer(r, "ok", EntryOf(rec).body)
    BY <2>4, <2>5 DEF Abstract!Answer
  <2>7. replyBar[r].kind = "none"
    BY <1>6, Kinds, MappedState DEF Replayed
  <2>8. Abstract!Replay(r)
    BY <1>1, <1>3, <2>3, <2>4, <2>6, <2>7 DEF Abstract!Replay
  <2>. QED
    BY <2>8 DEF Abstract!Next
<1>7. CASE Told(r, "unknown", NoBody)
  <2>1. /\ \A q \in Requests \ {r} : answer'[q] = answer[q]
        /\ answer'[r].status = "unknown"
    BY <1>2, <1>7 DEF Told
  <2>2. Abstract!Answer(r, "unknown", replyBar'[r].body)
    BY <2>1, Kinds, MappedReply DEF Abstract!Answer
  <2>. QED
    BY <1>1, <1>3, <2>2 DEF Abstract!Lose, Abstract!Next
<1>. QED
  BY <1>4, <1>5, <1>6, <1>7, StepAnswers

LEMMA CommitRefines ==
    ASSUME IInv, AnswersInv, NEW r \in Requests, Commit(r)
    PROVE  Abstract!Next
<1>. DEFINE new == RecordOf(r)
            e == EntryOf(new)
<1>1. /\ UNCHANGED <<users, cmd>> /\ pc[r] = "commit"
      /\ \A q \in Requests \ {r} : answer'[q] = answer[q]
      /\ \/ answer'[r] = [status |-> "accepted", body |-> BodyOf(cmd[r])]
         \/ answer'[r] = [status |-> "unknown", body |-> NoBody]
      /\ records' = records \cup {new}
      /\ samples' = samples \cup RowsOf(new)
      /\ RowsOf(new) # {} /\ RowsOf(new) \cap samples = {}
      /\ cmd[r].user \in users
      /\ \A rec \in records : ~ SameKey(rec, cmd[r])
  BY CommitFacts
<1>2. answer[r].status = "none"
  BY <1>1 DEF AnswersInv, AnswerOf
<1>3. /\ e.user = askBar[r].user /\ e.key = askBar[r].key
      /\ e.payload = askBar[r].payload
      /\ e.body = BodyOf(cmd[r]) /\ e.effect = RowsOf(new)
  BY MappedState DEF EntryOf, RecordOf
<1>4. ledgerBar' = ledgerBar \cup {e}
  <2>1. ledgerBar' = {EntryOf(rec) : rec \in records'}
    BY DEF ledgerBar, EntryOf, RowsOf, RowAt
  <2>. QED
    BY <1>1, <2>1, MappedState
<1>5. samples' = samples \cup e.effect /\ e.effect # {} /\ e.effect \cap samples = {}
  BY <1>1, <1>3
<1>6. e \notin ledgerBar
  <2>1. \A rec \in records : ~ (rec.user = cmd[r].user /\ rec.key = cmd[r].key)
    BY <1>1 DEF SameKey
  <2>2. \A rec : EntryOf(rec).user = rec.user /\ EntryOf(rec).key = rec.key
    BY DEF EntryOf
  <2>. QED
    BY <1>3, <2>1, <2>2, MappedState
<1>7. Abstract!EntriesFor(r) = {}
  BY <1>1, MappedEntries
<1>8. /\ replyBar'[r].kind \in {"ok", "unknown"}
      /\ replyBar'[r].kind = "ok" => replyBar'[r].body = e.body
      /\ replyBar' = [replyBar EXCEPT ![r] = replyBar'[r]]
  <2>1. /\ KindOf(answer'[r].status) \in {"ok", "unknown"}
        /\ KindOf(answer'[r].status) = "ok" => answer'[r].body = e.body
    BY <1>1, <1>3, Kinds
  <2>2. /\ replyBar'[r].kind = KindOf(answer'[r].status)
        /\ replyBar'[r].body = answer'[r].body
        /\ replyBar' = [replyBar EXCEPT ![r] = replyBar'[r]]
    BY <1>1, MappedReply
  <2>. QED
    BY <2>1, <2>2
<1>9. replyBar[r].kind = "none" /\ askBar[r].user \in users
  BY <1>1, <1>2, Kinds, MappedState
<1>10. askBar' = askBar /\ users' = users
  BY <1>1 DEF askBar
<1>. HIDE DEF e
<1>11. e \in ledgerBar' \ ledgerBar
  BY <1>4, <1>6
<1>12. Abstract!Execute(r)
  BY <1>3, <1>4, <1>5, <1>7, <1>8, <1>9, <1>10, <1>11 DEF Abstract!Execute
<1>. QED
  BY <1>12 DEF Abstract!Next

LEMMA DeleteUserRefines ==
    ASSUME IInv, NEW u \in Users, DeleteUser(u)
    PROVE  Abstract!Next
<1>1. /\ UNCHANGED <<cmd, answer>> /\ u \in users /\ users' = users \ {u}
      /\ samples' = {row \in samples : Owner[row.session] # u}
      /\ records' = {rec \in records : rec.user # u}
  BY DEF DeleteUser
<1>2. askBar' = askBar /\ replyBar' = replyBar
  BY <1>1 DEF askBar, replyBar, KindOf
<1>3. ledgerBar' = {e \in ledgerBar : e.user # u}
  <2>1. ledgerBar' = {EntryOf(rec) : rec \in records'}
    BY DEF ledgerBar, EntryOf, RowsOf, RowAt
  <2>2. \A rec : EntryOf(rec).user = rec.user
    BY DEF EntryOf
  <2>. QED
    BY <1>1, <2>1, <2>2, MappedState
<1>4. \A row : row \in UNION {e.effect : e \in ledgerBar \ ledgerBar'} <=>
                  \E rec \in records : rec.user = u /\ row \in RowsOf(rec)
  <2>1. \A rec : EntryOf(rec).user = rec.user /\ EntryOf(rec).effect = RowsOf(rec)
    BY DEF EntryOf
  <2>2. \A e \in ledgerBar \ ledgerBar' : \E rec \in records : rec.user = u /\ e = EntryOf(rec)
    BY <1>3, <2>1, MappedState
  <2>3. \A rec \in records : rec.user = u => EntryOf(rec) \in ledgerBar \ ledgerBar'
    BY <1>3, <2>1, MappedState
  <2>. QED
    BY <2>1, <2>2, <2>3
<1>5. ASSUME NEW row \in samples
      PROVE  Owner[row.session] = u <=> \E rec \in records : rec.user = u /\ row \in RowsOf(rec)
  <2>1. \A rec \in records : row \in RowsOf(rec) => Owner[row.session] = rec.user
    BY DEF IInv, OwnersLive, RowsOf, RowAt
  <2>2. \E rec \in records : row \in RowsOf(rec)
    BY DEF IInv, RecordsAccountForSamples
  <2>. QED
    BY <2>1, <2>2
<1>6. samples' = samples \ UNION {e.effect : e \in ledgerBar \ ledgerBar'}
  BY <1>1, <1>4, <1>5
<1>7. Abstract!Erase(u)
  BY <1>1, <1>2, <1>3, <1>6 DEF Abstract!Erase
<1>. QED
  BY <1>1, <1>7 DEF Abstract!Next

(* Ingest transactions, statement by statement and interleaved, cancelled   *)
(* by deadlocks or lost at any point, implement the one-step idempotent     *)
(* command whose effect is one batch of samples.                            *)
THEOREM IngestImplementsIdempotentCommand == Spec => ImplementsIdempotentCommand
<1>1. IInv /\ AnswersInv /\ [Next]_vars => [Abstract!Next]_(Abstract!vars)
  <2>. SUFFICES ASSUME IInv, AnswersInv, [Next]_vars
                PROVE  Abstract!Next \/ UNCHANGED Abstract!vars
    OBVIOUS
  <2>1. ASSUME NEW r \in Requests, Step(r) \/ LoseConnection(r)
        PROVE  Abstract!Next \/ UNCHANGED Abstract!vars
    BY <2>1, StepRefines, CommitRefines
  <2>2. ASSUME NEW u \in Users, DeleteUser(u)
        PROVE  Abstract!Next
    BY <2>2, DeleteUserRefines
  <2>3. CASE (\E s \in Sessions : Abandon(s)) \/ Terminating \/ UNCHANGED vars
    BY <2>3, MappedStutter DEF Abandon, Terminating, vars
  <2>. QED
    BY <2>1, <2>2, <2>3 DEF Next
<1>. QED
  BY <1>1, InitRefines, Invariance, AnswersInvariance, PTL
  DEF Spec, ImplementsIdempotentCommand, Abstract!Spec
-----------------------------------------------------------------------------
(* Waiting *)

\* r is about to insert a sample whose id q has inserted and not committed.
SharesSampleId(r, q) ==
    \E i \in 1 .. txn[q].rows : cmd[q].batch[i].id = cmd[r].batch[txn[r].rows + 1].id

\* Whoever is deadlocked inserts a sample another session's batch also inserts.
DeadlocksOverSampleIds ==
    \A r \in Requests : Deadlocked(r) =>
        \E q \in Requests \ {r} :
            /\ pc[r] = "insert" /\ pc[q] = "insert"
            /\ cmd[r].session # cmd[q].session
            /\ SharesSampleId(r, q)

\* What r waits for is another open transaction further on.
LEMMA WaitsForOpen ==
    ASSUME IInv, NEW r \in Requests, NEW q \in Requests, Waits(r, q)
    PROVE  InTxn(q) /\ pc[r] \in {"reserve", "lock_existing", "lock_session", "insert"}
           /\ pc[q] \notin {"reserve", "lock_existing"}
<1>1. pc[r] \in {"reserve", "lock_existing", "lock_session", "insert"}
  BY DEF Waits
<1>2. txn[q] # NoTxn
  BY DEF Waits, NoTxn
<1>3. pc[q] \in Statements /\ pc[q] \notin {"reserve", "lock_existing"}
  BY <1>2 DEF IInv, LocksConsistent, ShapeOf, TypeOK, Statements
<1>. QED
  BY <1>1, <1>3 DEF InTxn

\* Whoever waits and is waited for has begun to insert.
LEMMA BetweenWaits ==
    ASSUME IInv, NEW w \in Requests, NEW q \in Requests, NEW p \in Requests,
           Waits(w, q), Waits(q, p), pc[w] \notin {"reserve", "lock_existing"}
    PROVE  pc[q] = "insert"
<1>1. pc[q] \in {"lock_session", "insert"}
  BY WaitsForOpen
<1>2. pc[q] # "lock_session"
  BY DEF Waits, IInv, LocksConsistent, ShapeOf
<1>. QED
  BY <1>1, <1>2

(* Keys, records and session locks are never part of a deadlock: requests   *)
(* deadlock only over sample ids that batches of two sessions share.        *)
THEOREM DeadlocksAreOverSampleIds == Spec => []DeadlocksOverSampleIds
<1>1. ASSUME IInv, NEW r \in Requests, Deadlocked(r)
      PROVE  \E q \in Requests \ {r} :
                /\ pc[r] = "insert" /\ pc[q] = "insert"
                /\ cmd[r].session # cmd[q].session
                /\ SharesSampleId(r, q)
  <2>1. PICK ring \in SUBSET Requests :
           /\ r \in ring
           /\ \A q \in ring : \E p, w \in ring \ {q} : Waits(q, p) /\ Waits(w, q)
    BY <1>1 DEF Deadlocked
  <2>2. \A q \in ring : pc[q] = "insert"
    <3>. SUFFICES ASSUME NEW q \in ring PROVE pc[q] = "insert"
      OBVIOUS
    <3>1. PICK p, w \in ring \ {q} : Waits(q, p) /\ Waits(w, q)
      BY <2>1
    <3>2. PICK v \in ring \ {w} : Waits(v, w)
      BY <2>1, <3>1
    <3>3. pc[w] \notin {"reserve", "lock_existing"}
      BY <1>1, <3>2, WaitsForOpen
    <3>. QED
      BY <1>1, <3>1, <3>3, BetweenWaits
  <2>3. PICK q \in ring \ {r} : Waits(r, q)
    BY <2>1
  <2>4. pc[r] = "insert" /\ pc[q] = "insert"
    BY <2>1, <2>2, <2>3
  <2>5. PICK i \in 1 .. txn[q].rows : Collides(RowAt(cmd[q], i), RowAt(cmd[r], txn[r].rows + 1))
    BY <2>3, <2>4 DEF Waits
  <2>6. cmd[r].session # cmd[q].session
    BY <1>1, <2>1, <2>3, <2>4 DEF IInv, LocksConsistent, ShapeOf, Exclusive
  <2>. QED
    BY <2>3, <2>4, <2>5, <2>6 DEF Collides, RowAt, SharesSampleId
<1>2. IInv => DeadlocksOverSampleIds
  BY <1>1 DEF DeadlocksOverSampleIds
<1>. QED
  BY <1>2, Invariance, PTL

\* A set of natural numbers has a least element.
LEMMA LeastElement ==
    ASSUME NEW T \in SUBSET Nat, T # {}
    PROVE  \E n \in T : \A m \in T : n <= m
<1>. DEFINE R == OpToRel(<, Nat)
<1>1. IsWellFoundedOn(R, Nat)
  BY NatLessThanWellFounded
<1>2. \A m, n \in Nat : m < n => <<m, n>> \in R
  BY DEF OpToRel
<1>. HIDE DEF R
<1>3. \E n \in T : \A m \in T : ~ (<<m, n>> \in R)
  BY <1>1, WFMin
<1>4. PICK n \in T : \A m \in T : ~ (<<m, n>> \in R)
  BY <1>3
<1>5. \A m \in T : ~ (m < n)
  BY <1>2, <1>4
<1>. QED
  BY <1>5

\* Where everybody waits, the smallest set that waits within itself is a ring.
LEMMA RingAmong ==
    ASSUME NEW B \in SUBSET Requests, IsFiniteSet(B), B # {},
           \A q \in B : \E p \in B \ {q} : Waits(q, p)
    PROVE  \E r \in B : Deadlocked(r)
<1>. DEFINE Closed(X) == \A q \in X : \E p \in X \ {q} : Waits(q, p)
            F == {X \in SUBSET B : X # {} /\ Closed(X)}
            N == {n \in Nat : \E X \in F : n = Cardinality(X)}
<1>1. \A X \in F : IsFiniteSet(X) /\ Cardinality(X) \in Nat
  BY FS_Subset, FS_CardinalityType
<1>2. B \in F
  OBVIOUS
<1>3. PICK X \in F : \A Y \in F : Cardinality(X) <= Cardinality(Y)
  <2>1. N # {} /\ N \in SUBSET Nat
    BY <1>1, <1>2
  <2>2. PICK n \in N : \A m \in N : n <= m
    BY <2>1, LeastElement
  <2>3. PICK X \in F : n = Cardinality(X)
    BY <2>2
  <2>4. \A Y \in F : Cardinality(Y) \in N
    BY <1>1
  <2>. QED
    BY <2>2, <2>3, <2>4
<1>4. ASSUME NEW q \in X
      PROVE  \E w \in X \ {q} : Waits(w, q)
  <2>. SUFFICES ASSUME \A w \in X \ {q} : ~ Waits(w, q) PROVE FALSE
    OBVIOUS
  <2>1. Closed(X \ {q})
    OBVIOUS
  <2>2. X \ {q} # {} /\ X \ {q} \in SUBSET B
    OBVIOUS
  <2>3. X \ {q} \in F
    BY <2>1, <2>2
  <2>4. Cardinality(X \ {q}) = Cardinality(X) - 1
    BY <1>1, FS_RemoveElement
  <2>5. Cardinality(X) <= Cardinality(X \ {q}) /\ Cardinality(X) \in Nat
    BY <1>1, <1>3, <2>3
  <2>. HIDE DEF F
  <2>. QED
    BY <2>4, <2>5
<1>5. \A q \in X : \E p, w \in X \ {q} : Waits(q, p) /\ Waits(w, q)
  BY <1>4
<1>6. PICK r \in X : TRUE
  OBVIOUS
<1>. QED
  BY <1>5, <1>6 DEF Deadlocked

(* However many requests wait for each other's keys, records, sessions and  *)
(* samples, one of them can go on or a deadlock can be broken.              *)
THEOREM SomeRequestProceeds ==
    ASSUME IsFiniteSet(Requests)
    PROVE  Spec => []NoStandstill
<1>1. IInv => NoStandstill
  <2>. SUFFICES ASSUME IInv, \E r \in Requests : InTxn(r),
                       \A r \in Requests : InTxn(r) => Blocked(r)
                PROVE  \E r \in Requests : InTxn(r) /\ Deadlocked(r)
    BY DEF NoStandstill
  <2>. DEFINE B == {r \in Requests : InTxn(r)}
  <2>1. B \in SUBSET Requests /\ IsFiniteSet(B) /\ B # {}
    BY FS_Subset
  <2>2. \A q \in B : \E p \in B \ {q} : Waits(q, p)
    BY WaitsForOpen DEF Blocked
  <2>. HIDE DEF B
  <2>3. PICK r \in B : Deadlocked(r)
    BY <2>1, <2>2, RingAmong
  <2>. QED
    BY <2>3 DEF B
<1>. QED
  BY <1>1, Invariance, PTL

=============================================================================
