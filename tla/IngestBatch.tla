---------------------------- MODULE IngestBatch ----------------------------
(***************************************************************************)
(* POST /v1/sessions/{id}/batches: one PostgreSQL READ COMMITTED           *)
(* transaction per request, modelled statement by statement so that the    *)
(* transactions of several requests interleave at every await of           *)
(* commands/ingest_batch.py.  Committed rows are the variables users,      *)
(* lifecycle, samples and records; what a transaction has written or       *)
(* locked and not committed is txn[r].                                     *)
(***************************************************************************)
EXTENDS Integers, Sequences, FiniteSets

CONSTANTS
    Requests,   \* HTTP requests; a retry is another request with the same cmd
    Users, Keys, Sessions, SampleIds,
    Owner,      \* Owner[s] = the user who started session s
    Commands,   \* what a client may send
    MaxOffset,  \* largest interval_end_offset_ms a bigint column takes
    NoBody

Sample == [id : SampleIds, seq : Nat, off : Nat]
Command == [user : Users, key : Keys, session : Sessions, batch : Seq(Sample)]

ASSUME ConstantsAssumption ==
    /\ Owner \in [Sessions -> Users]
    /\ Commands \subseteq Command
    /\ MaxOffset \in Nat

VARIABLES
    users,      \* live rows of auth.users
    lifecycle,  \* lifecycle[s] of public.sessions, "gone" when deleted
    samples,    \* rows of public.session_samples
    records,    \* public.idempotency_records with operation 'ingest_batch'
    cmd,        \* cmd[r] = the command of request r, chosen by its client
    pc,         \* pc[r] = the statement request r runs next
    txn,        \* txn[r] = what r's open transaction holds and has written
    answer      \* answer[r] = [status, body] of the HTTP response

vars == <<users, lifecycle, samples, records, cmd, pc, txn, answer>>

-----------------------------------------------------------------------------
(* Rows and responses *)

Row == [id : SampleIds, session : Sessions, seq : Nat, off : Nat]

RowAt(c, i) == [id |-> c.batch[i].id, session |-> c.session,
                seq |-> c.batch[i].seq, off |-> c.batch[i].off]

RowsOf(c) == {RowAt(c, i) : i \in DOMAIN c.batch}

\* IngestBatchResponse
Body == [session : Sessions, count : Nat, first : Nat, last : Nat]

BodyOf(c) == [session |-> c.session, count |-> Len(c.batch),
              first |-> c.batch[1].seq, last |-> c.batch[Len(c.batch)].seq]

(* request_hash is a SHA-256 of session_id and samples: taken as injective, *)
(* a record keeps the hashed values themselves.                             *)
SameHash(rec, c) == rec.session = c.session /\ rec.batch = c.batch

Record == [user : Users, key : Keys, session : Sessions, batch : Seq(Sample),
           state : {"processing", "completed"}, body : Body]

SameKey(a, b) == a.user = b.user /\ a.key = b.key

\* IngestBatchCommand.validate_chunk_order, with min_length = 1
ChunkOrdered(batch) ==
    /\ batch # <<>>
    /\ \A i, j \in DOMAIN batch : i < j =>
          /\ batch[i].id # batch[j].id
          /\ batch[j].seq = batch[i].seq + (j - i)
          /\ batch[i].off < batch[j].off

\* Mutant of IsNextSeq: any number past the tail will do.
IsNextSeqAllowingGap(s, seq) ==
    \A row \in samples : row.session = s => row.seq < seq

\* seq is max(seq) + 1 over the session's rows, 0 when it has none
IsNextSeq(s, seq) ==
    /\ \A row \in samples : row.session = s => row.seq < seq
    /\ seq = 0 \/ \E row \in samples : row.session = s /\ row.seq = seq - 1

\* the comparison of append_sample_batch with the tail it has read
ContinuesTail(c) ==
    /\ IsNextSeq(c.session, c.batch[1].seq)
    /\ \A row \in samples : row.session = c.session => row.off < c.batch[1].off

\* primary key (id) and uq_session_seq
Collides(a, b) == a.id = b.id \/ (a.session = b.session /\ a.seq = b.seq)

\* bigint
Encodable(batch) == \A i \in DOMAIN batch : batch[i].off <= MaxOffset

Terminal == {"completed", "abandoned"}

Owned(c) == lifecycle[c.session] # "gone" /\ Owner[c.session] = c.user

-----------------------------------------------------------------------------
(* Transactions *)

NoTxn == [record |-> "none", session |-> "none", rows |-> 0]

(* record:  "locked" after SELECT .. FOR UPDATE of a committed record,       *)
(*          "processing" and "completed": the state of the own inserted row. *)
(* session: "locked" after SELECT .. FOR UPDATE of the session.              *)
(* rows:    how many samples of the batch are inserted.                      *)
Txn == [record : {"none", "locked", "processing", "completed"},
        session : {"none", "locked"},
        rows : Nat]

Statements == {"reserve", "lock_existing", "lock_session", "read_tail",
               "insert", "complete", "commit", "rollback"}

InTxn(r) == pc[r] \in Statements

Statuses == {"none", "accepted", "replayed", "invalid", "subject_gone",
             "key_conflict", "record_vanished", "session_not_found",
             "session_not_active", "sequence_conflict", "sample_conflict",
             "unencodable", "contract_failed", "unknown"}

\* Mutant of Waits: the session is read without FOR UPDATE.
WaitsWithoutSessionLock(r, q) ==
    \/ pc[r] = "reserve" /\ SameKey(cmd[q], cmd[r])
          /\ txn[q].record \in {"processing", "completed"}
    \/ pc[r] = "lock_existing" /\ SameKey(cmd[q], cmd[r]) /\ txn[q].record # "none"
    \/ pc[r] = "insert" /\ \E i \in 1 .. txn[q].rows :
          Collides(RowAt(cmd[q], i), RowAt(cmd[r], txn[r].rows + 1))

(* Statement pc[r] of r waits for the transaction of q: an INSERT for the    *)
(* end of an uncommitted row with its key, a FOR UPDATE for a row lock.      *)
Waits(r, q) ==
    \/ pc[r] = "reserve" /\ SameKey(cmd[q], cmd[r])
          /\ txn[q].record \in {"processing", "completed"}
    \/ pc[r] = "lock_existing" /\ SameKey(cmd[q], cmd[r]) /\ txn[q].record # "none"
    \/ pc[r] = "lock_session" /\ Owned(cmd[r])
          /\ cmd[q].session = cmd[r].session /\ txn[q].session = "locked"
    \/ pc[r] = "insert" /\ \E i \in 1 .. txn[q].rows :
          Collides(RowAt(cmd[q], i), RowAt(cmd[r], txn[r].rows + 1))

Runs(r, statement) ==
    /\ pc[r] = statement
    /\ \A q \in Requests \ {r} : ~ Waits(r, q)

\* the exception that ends the transaction, and its HTTP status
Raise(r, status, body) ==
    /\ answer' = [answer EXCEPT ![r] = [status |-> status, body |-> body]]
    /\ pc' = [pc EXCEPT ![r] = "rollback"]

Goto(r, statement) ==
    /\ pc' = [pc EXCEPT ![r] = statement]
    /\ UNCHANGED answer

committed == <<users, lifecycle, samples, records>>

-----------------------------------------------------------------------------
Init ==
    /\ users = Users
    /\ lifecycle = [s \in Sessions |-> "active"]
    /\ samples = {}
    /\ records = {}
    /\ cmd \in [Requests -> Commands]
    /\ pc = [r \in Requests |-> "idle"]
    /\ txn = [r \in Requests |-> NoTxn]
    /\ answer = [r \in Requests |-> [status |-> "none", body |-> NoBody]]

\* Body validation (422) or BEGIN.
Receive(r) ==
    /\ pc[r] = "idle"
    /\ \/ /\ ChunkOrdered(cmd[r].batch)
          /\ Goto(r, "reserve")
       \/ /\ ~ ChunkOrdered(cmd[r].batch)
          /\ answer' = [answer EXCEPT ![r] = [status |-> "invalid", body |-> NoBody]]
          /\ pc' = [pc EXCEPT ![r] = "done"]
    /\ UNCHANGED <<committed, cmd, txn>>

\* Mutant of ReserveKey: a recorded key is handed out again.
ReserveKeyAgain(r) ==
    /\ Runs(r, "reserve")
    /\ cmd[r].user \in users
    /\ txn' = [txn EXCEPT ![r].record = "processing"]
    /\ Goto(r, "lock_session")
    /\ UNCHANGED <<committed, cmd>>

\* INSERT .. ON CONFLICT DO NOTHING returned an id: the key is ours.
ReserveKey(r) ==
    /\ Runs(r, "reserve")
    /\ cmd[r].user \in users
    /\ \A rec \in records : ~ SameKey(rec, cmd[r])
    /\ txn' = [txn EXCEPT ![r].record = "processing"]
    /\ Goto(r, "lock_session")
    /\ UNCHANGED <<committed, cmd>>

\* The foreign key to auth.users refuses the reservation: 401.
ReserveForMissingUser(r) ==
    /\ Runs(r, "reserve")
    /\ cmd[r].user \notin users
    /\ Raise(r, "subject_gone", NoBody)
    /\ UNCHANGED <<committed, cmd, txn>>

\* No id returned: a committed record has the key.
FindExisting(r) ==
    /\ Runs(r, "reserve")
    /\ \E rec \in records : SameKey(rec, cmd[r])
    /\ Goto(r, "lock_existing")
    /\ UNCHANGED <<committed, cmd, txn>>

\* Mutant of LockExisting: request_hash is not compared.
LockExistingIgnoringHash(r) ==
    /\ Runs(r, "lock_existing")
    /\ \E rec \in records :
          /\ SameKey(rec, cmd[r])
          /\ txn' = [txn EXCEPT ![r].record = "locked"]
          /\ Raise(r, "replayed", rec.body)
    /\ UNCHANGED <<committed, cmd>>

(* SELECT .. FOR UPDATE of that record, a statement later.  _ReplayRollback *)
(* and every error roll the transaction back.                               *)
LockExisting(r) ==
    /\ Runs(r, "lock_existing")
    /\ \E rec \in records :
          /\ SameKey(rec, cmd[r])
          /\ txn' = [txn EXCEPT ![r].record = "locked"]
          /\ \/ /\ ~ SameHash(rec, cmd[r])
                /\ Raise(r, "key_conflict", NoBody)
             \/ /\ SameHash(rec, cmd[r])
                /\ IF rec.state = "completed"
                   THEN Raise(r, "replayed", rec.body)
                   ELSE Raise(r, "contract_failed", NoBody)
    /\ UNCHANGED <<committed, cmd>>

\* The record went with its user between the two statements: 500.
MissExisting(r) ==
    /\ Runs(r, "lock_existing")
    /\ \A rec \in records : ~ SameKey(rec, cmd[r])
    /\ Raise(r, "record_vanished", NoBody)
    /\ UNCHANGED <<committed, cmd, txn>>

\* Mutant of LockSession: a session that has ended is accepted.
LockSessionIgnoringLifecycle(r) ==
    /\ Runs(r, "lock_session")
    /\ \/ /\ ~ Owned(cmd[r])
          /\ Raise(r, "session_not_found", NoBody)
          /\ UNCHANGED txn
       \/ /\ Owned(cmd[r])
          /\ txn' = [txn EXCEPT ![r].session = "locked"]
          /\ Goto(r, "read_tail")
    /\ UNCHANGED <<committed, cmd>>

\* Mutant of LockSession: SELECT without FOR UPDATE.
LockSessionWithoutForUpdate(r) ==
    /\ pc[r] = "lock_session"
    /\ \/ /\ ~ Owned(cmd[r])
          /\ Raise(r, "session_not_found", NoBody)
       \/ /\ Owned(cmd[r])
          /\ lifecycle[cmd[r].session] # "active"
          /\ Raise(r, "session_not_active", NoBody)
       \/ /\ Owned(cmd[r])
          /\ lifecycle[cmd[r].session] = "active"
          /\ Goto(r, "read_tail")
    /\ UNCHANGED <<committed, cmd, txn>>

\* lock_owned_active_session: 404, 409, or the lock.
LockSession(r) ==
    /\ Runs(r, "lock_session")
    /\ \/ /\ ~ Owned(cmd[r])
          /\ Raise(r, "session_not_found", NoBody)
          /\ UNCHANGED txn
       \/ /\ Owned(cmd[r])
          /\ txn' = [txn EXCEPT ![r].session = "locked"]
          /\ \/ /\ lifecycle[cmd[r].session] # "active"
                /\ Raise(r, "session_not_active", NoBody)
             \/ /\ lifecycle[cmd[r].session] = "active"
                /\ Goto(r, "read_tail")
    /\ UNCHANGED <<committed, cmd>>

(* append_sample_batch up to the first INSERT: the tail is read, compared,   *)
(* and the arguments of executemany are encoded, all of them before the     *)
(* first is sent.                                                           *)
ReadTail(r) ==
    /\ Runs(r, "read_tail")
    /\ \/ /\ ~ ContinuesTail(cmd[r])
          /\ Raise(r, "sequence_conflict", NoBody)
       \/ /\ ContinuesTail(cmd[r])
          /\ ~ Encodable(cmd[r].batch)
          /\ Raise(r, "unencodable", NoBody)
       \/ /\ ContinuesTail(cmd[r])
          /\ Encodable(cmd[r].batch)
          /\ Goto(r, "insert")
    /\ UNCHANGED <<committed, cmd, txn>>

\* What refuses a row: the trigger no_samples_after_terminal, a unique index.
Refusal(row) ==
    IF lifecycle[row.session] \in Terminal THEN "contract_failed"
    ELSE IF \E old \in samples : Collides(old, row) THEN "sample_conflict"
    ELSE "none"

\* Mutant of InsertSample: the last row of the batch is left out.
InsertSampleAllButLast(r) ==
    LET next == txn[r].rows + 1 IN
    /\ Runs(r, "insert")
    /\ Refusal(RowAt(cmd[r], next)) = "none"
    /\ txn' = [txn EXCEPT ![r].rows = next]
    /\ Goto(r, IF next >= Len(cmd[r].batch) - 1 THEN "complete" ELSE "insert")
    /\ UNCHANGED <<committed, cmd>>

(* One row of executemany; the statement after the last one is the UPDATE.  *)
(* A statement that fails aborts the transaction on the server there and    *)
(* then: its rows and locks are gone before ROLLBACK is sent.               *)
InsertSample(r) ==
    LET next == txn[r].rows + 1
        refusal == Refusal(RowAt(cmd[r], next))
    IN
    /\ Runs(r, "insert")
    /\ \/ /\ refusal = "none"
          /\ txn' = [txn EXCEPT ![r].rows = next]
          /\ Goto(r, IF next = Len(cmd[r].batch) THEN "complete" ELSE "insert")
       \/ /\ refusal # "none"
          /\ txn' = [txn EXCEPT ![r] = NoTxn]
          /\ Raise(r, refusal, NoBody)
    /\ UNCHANGED <<committed, cmd>>

\* complete_ingest_batch: UPDATE .. WHERE id = $1 AND state = 'processing'
CompleteRecord(r) ==
    /\ Runs(r, "complete")
    /\ IF txn[r].record = "processing"
       THEN /\ txn' = [txn EXCEPT ![r].record = "completed"]
            /\ Goto(r, "commit")
       ELSE /\ Raise(r, "contract_failed", NoBody)
            /\ UNCHANGED txn
    /\ UNCHANGED <<committed, cmd>>

\* the idempotency row of r's transaction
RecordOf(r) ==
    [user |-> cmd[r].user, key |-> cmd[r].key, session |-> cmd[r].session,
     batch |-> cmd[r].batch, state |-> txn[r].record, body |-> BodyOf(cmd[r])]

(* COMMIT.  Its acknowledgement can be lost: the rows are there and the     *)
(* client is told of an error.                                              *)
Commit(r) ==
    /\ Runs(r, "commit")
    /\ samples' = samples \cup {RowAt(cmd[r], i) : i \in 1 .. txn[r].rows}
    /\ records' = records \cup {RecordOf(r)}
    /\ txn' = [txn EXCEPT ![r] = NoTxn]
    /\ pc' = [pc EXCEPT ![r] = "done"]
    /\ \/ answer' = [answer EXCEPT ![r] =
                        [status |-> "accepted", body |-> BodyOf(cmd[r])]]
       \/ answer' = [answer EXCEPT ![r] = [status |-> "unknown", body |-> NoBody]]
    /\ UNCHANGED <<users, lifecycle, cmd>>

\* Mutant of Rollback: the transaction stays open on its pooled connection.
RollbackKeepingLocks(r) ==
    /\ Runs(r, "rollback")
    /\ pc' = [pc EXCEPT ![r] = "done"]
    /\ UNCHANGED <<committed, cmd, txn, answer>>

\* ROLLBACK on leaving transaction() with an exception; the answer goes out.
Rollback(r) ==
    /\ Runs(r, "rollback")
    /\ txn' = [txn EXCEPT ![r] = NoTxn]
    /\ pc' = [pc EXCEPT ![r] = "done"]
    /\ UNCHANGED <<committed, cmd, answer>>

\* Mutant of Lose: every statement had been committed on its own.
LoseAfterAutocommit(r) ==
    /\ answer' = [answer EXCEPT ![r] = [status |-> "unknown", body |-> NoBody]]
    /\ txn' = [txn EXCEPT ![r] = NoTxn]
    /\ pc' = [pc EXCEPT ![r] = "done"]
    /\ samples' = samples \cup {RowAt(cmd[r], i) : i \in 1 .. txn[r].rows}
    /\ UNCHANGED <<users, lifecycle, records, cmd>>

\* The server rolls r's transaction back; the client gets an error.
Lose(r) ==
    /\ answer' = [answer EXCEPT ![r] = [status |-> "unknown", body |-> NoBody]]
    /\ txn' = [txn EXCEPT ![r] = NoTxn]
    /\ pc' = [pc EXCEPT ![r] = "done"]
    /\ UNCHANGED <<committed, cmd>>

\* command_timeout, a dropped connection, a server restart: no commit, 500.
LoseConnection(r) == InTxn(r) /\ Lose(r)

\* r is one of a set of transactions each of which waits within the set.
Deadlocked(r) ==
    \E ring \in SUBSET Requests :
        /\ r \in ring
        /\ \A q \in ring : \E p, w \in ring \ {q} : Waits(q, p) /\ Waits(w, q)

\* PostgreSQL's deadlock detector cancels one of them.
AbortDeadlock(r) == Deadlocked(r) /\ Lose(r)

-----------------------------------------------------------------------------
(* What happens around the endpoint *)

\* A row-locking UPDATE of another client ends the session.
Abandon(s) ==
    /\ lifecycle[s] = "active"
    /\ \A q \in Requests : cmd[q].session = s => txn[q].session = "none"
    /\ lifecycle' = [lifecycle EXCEPT ![s] = "abandoned"]
    /\ UNCHANGED <<users, samples, records, cmd, pc, txn, answer>>

\* Mutant of DeleteUser: the cascade spares idempotency_records.
DeleteUserKeepingRecords(u) ==
    /\ u \in users
    /\ \A q \in Requests : cmd[q].user = u => txn[q].record = "none"
    /\ users' = users \ {u}
    /\ lifecycle' = [s \in Sessions |-> IF Owner[s] = u THEN "gone" ELSE lifecycle[s]]
    /\ samples' = {row \in samples : Owner[row.session] # u}
    /\ UNCHANGED <<records, cmd, pc, txn, answer>>

(* Deleting an account cascades.  It waits for the key-share lock on the    *)
(* user that every reservation takes and for locked records.                *)
DeleteUser(u) ==
    /\ u \in users
    /\ \A q \in Requests : cmd[q].user = u => txn[q].record = "none"
    /\ users' = users \ {u}
    /\ lifecycle' = [s \in Sessions |-> IF Owner[s] = u THEN "gone" ELSE lifecycle[s]]
    /\ samples' = {row \in samples : Owner[row.session] # u}
    /\ records' = {rec \in records : rec.user # u}
    /\ UNCHANGED <<cmd, pc, txn, answer>>

-----------------------------------------------------------------------------
\* What the server does of its own accord: the steps fairness is assumed of.
Step(r) ==
    \/ Receive(r)
    \/ ReserveKey(r) \/ ReserveForMissingUser(r) \/ FindExisting(r)
    \/ LockExisting(r) \/ MissExisting(r)
    \/ LockSession(r) \/ ReadTail(r) \/ InsertSample(r) \/ CompleteRecord(r)
    \/ Commit(r) \/ Rollback(r)
    \/ AbortDeadlock(r)

\* Every request has been answered; nothing is left to do.
Terminating ==
    /\ \A r \in Requests : pc[r] = "done"
    /\ UNCHANGED vars

Next ==
    \/ \E r \in Requests : Step(r) \/ LoseConnection(r)
    \/ \E s \in Sessions : Abandon(s)
    \/ \E u \in Users : DeleteUser(u)
    \/ Terminating

Spec == Init /\ [][Next]_vars

FairSpec == Spec /\ \A r \in Requests : WF_vars(Step(r))

-----------------------------------------------------------------------------
(* Properties *)

TypeOK ==
    /\ users \subseteq Users
    /\ lifecycle \in [Sessions -> {"active", "abandoned", "gone"}]
    /\ samples \subseteq Row
    /\ records \subseteq Record
    /\ cmd \in [Requests -> Commands]
    /\ pc \in [Requests -> Statements \cup {"idle", "done"}]
    /\ txn \in [Requests -> Txn]
    /\ answer \in [Requests -> [status : Statuses, body : Body \cup {NoBody}]]

(* The persisted samples of a session are numbered 0, 1, 2, .. without a    *)
(* gap or a repetition, their end offsets increase with their numbers, and  *)
(* no sample id is stored twice anywhere: what append_sample_batch requires *)
(* of one batch holds of all batches together, whatever their interleaving. *)
SamplesContiguous ==
    \A row \in samples :
        /\ \A m \in 0 .. row.seq :
              \E low \in samples : low.session = row.session /\ low.seq = m
        /\ \A other \in samples : other # row =>
              /\ ~ Collides(row, other)
              /\ row.session = other.session /\ row.seq < other.seq => row.off < other.off

(* From the moment a request has compared its batch with the tail until it  *)
(* commits, the tail it read is still the tail: no other commit slips in    *)
(* between SELECT max(seq) and the inserts it justified.                    *)
TailNotStale ==
    \A r \in Requests :
        pc[r] \in {"insert", "complete", "commit"} => ContinuesTail(cmd[r])

(* Batches are stored whole and once: the persisted samples are exactly the *)
(* batches of the committed idempotency records, no sample is accounted for *)
(* twice, and a committed record is always completed.  A crash, a timeout   *)
(* or a conflict after some of the inserts leaves neither part behind.      *)
RecordsAccountForSamples ==
    /\ samples = UNION {RowsOf(rec) : rec \in records}
    /\ \A rec, other \in records :
          rec # other => RowsOf(rec) \cap RowsOf(other) = {}
    /\ \A rec \in records : rec.state = "completed"

(* What a transaction holds is determined by how far it has come. *)
ShapeOf(r) ==
    /\ pc[r] \in {"idle", "reserve", "lock_existing", "done"} => txn[r] = NoTxn
    /\ pc[r] = "lock_session" =>
          txn[r] = [record |-> "processing", session |-> "none", rows |-> 0]
    /\ pc[r] \in {"read_tail", "insert", "complete", "commit"} =>
          /\ txn[r].session = "locked"
          /\ lifecycle[cmd[r].session] = "active"
          /\ txn[r].record = IF pc[r] = "commit" THEN "completed" ELSE "processing"
    /\ pc[r] = "read_tail" => txn[r].rows = 0
    /\ pc[r] = "insert" => txn[r].rows < Len(cmd[r].batch)
    /\ pc[r] \in {"complete", "commit"} => txn[r].rows = Len(cmd[r].batch)
    /\ txn[r].rows <= Len(cmd[r].batch)
    /\ pc[r] \notin {"idle", "done"} => ChunkOrdered(cmd[r].batch)
    /\ txn[r].session = "locked" =>
          txn[r].record # "none" /\ Owner[cmd[r].session] = cmd[r].user

\* Two transactions never hold the same key, session or sample identity.
Exclusive(r, q) ==
    /\ SameKey(cmd[r], cmd[q]) => txn[r].record = "none" \/ txn[q].record = "none"
    /\ cmd[r].session = cmd[q].session =>
          txn[r].session = "none" \/ txn[q].session = "none"
    /\ \A i \in 1 .. txn[r].rows, j \in 1 .. txn[q].rows :
          ~ Collides(RowAt(cmd[r], i), RowAt(cmd[q], j))

\* What is reserved is not committed, what is locked is.
FreshOf(r) ==
    /\ txn[r].record \in {"processing", "completed"} =>
          \A rec \in records : ~ SameKey(rec, cmd[r])
    /\ txn[r].record = "locked" => \E rec \in records : SameKey(rec, cmd[r])
    /\ txn[r].record # "none" => cmd[r].user \in users
    /\ \A i \in 1 .. txn[r].rows : \A old \in samples : ~ Collides(old, RowAt(cmd[r], i))

LocksConsistent ==
    /\ \A r \in Requests : ShapeOf(r) /\ FreshOf(r)
    /\ \A r, q \in Requests : r # q => Exclusive(r, q)

\* Nothing outlives its user.
OwnersLive ==
    /\ \A s \in Sessions : lifecycle[s] = "gone" <=> Owner[s] \notin users
    /\ \A row \in samples : Owner[row.session] \in users
    /\ \A rec \in records : rec.user \in users /\ Owner[rec.session] = rec.user

(* The inductive invariant: locks are exclusive and agree with the          *)
(* program counters, so the tail compared is the tail extended.             *)
IInv ==
    /\ TypeOK
    /\ LocksConsistent
    /\ OwnersLive
    /\ TailNotStale
    /\ SamplesContiguous
    /\ RecordsAccountForSamples

Successful == {"accepted", "replayed"}

(* Two successful requests with one key have the same response, and each    *)
(* one's response describes the batch that request itself sent.             *)
ReplaysAgree ==
    \A r, q \in Requests :
        /\ answer[r].status \in Successful => answer[r].body = BodyOf(cmd[r])
        /\ /\ answer[r].status \in Successful
           /\ answer[q].status \in Successful
           /\ SameKey(cmd[r], cmd[q])
           => answer[r].body = answer[q].body /\ SameHash(cmd[r], cmd[q])

(* What a client was told is stored stays stored until its account goes.    *)
AcknowledgedIsStored ==
    \A r \in Requests :
        answer[r].status \in Successful /\ cmd[r].user \in users =>
            RowsOf(cmd[r]) \subseteq samples

(* The internal errors of the handler are dead code: no request ever finds  *)
(* a committed record in state 'processing', fails to complete its own, or  *)
(* has a validated sample rejected by the terminal-session trigger; and the *)
(* record of a duplicate disappears only with its user.                     *)
ContractErrorsUnreachable ==
    \A r \in Requests :
        /\ answer[r].status # "contract_failed"
        /\ answer[r].status = "record_vanished" => cmd[r].user \notin users

(* A session that has ended keeps its samples as they are: an ingest that   *)
(* found it active commits before it ends or not at all.                    *)
EndedSessionFrozen ==
    [][\A s \in Sessions :
          lifecycle[s] \in Terminal /\ lifecycle'[s] \in Terminal =>
              {row \in samples' : row.session = s} = {row \in samples : row.session = s}]_vars

Recorded(r) == \E rec \in records : SameKey(rec, cmd[r]) /\ SameHash(rec, cmd[r])

(* Once a command is recorded a retry of it is never refused: not as a      *)
(* sequence or sample conflict with its own rows, not because the session   *)
(* has ended since.  It replays, or fails without an answer of its own.     *)
RetriesReplay ==
    [][\A r \in Requests :
          Recorded(r) /\ answer'[r] # answer[r] =>
              answer'[r].status \in {"replayed", "unknown"}]_vars

Blocked(r) == \E q \in Requests \ {r} : Waits(r, q)

(* The requests never all wait: while a transaction is open, one of them    *)
(* can execute its statement, or the deadlock detector may cancel one.  No  *)
(* row lock outlives its transaction, and a chain of waiting requests ends  *)
(* or closes.                                                               *)
NoStandstill ==
    (\E r \in Requests : InTxn(r)) =>
        \E r \in Requests : InTxn(r) /\ (~ Blocked(r) \/ Deadlocked(r))

(* Every request is answered: waiting for keys, records, sessions and       *)
(* sample ids ends, given that the server keeps executing statements and    *)
(* breaks deadlocks.                                                        *)
RequestsFinish == \A r \in Requests : <>(pc[r] = "done")

=============================================================================
