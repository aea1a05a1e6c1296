----------------------- MODULE IngestBatchRefinement -----------------------
(***************************************************************************)
(* The ingest transactions implement IdempotentCommand: COMMIT is the one  *)
(* step in which a batch takes effect, raising the exception that carries  *)
(* the answer is the step in which a request is answered otherwise.        *)
(***************************************************************************)
EXTENDS IngestBatch

askBar == [r \in Requests |->
    [user |-> cmd[r].user, key |-> cmd[r].key,
     payload |-> <<cmd[r].session, cmd[r].batch>>]]

ledgerBar == {[user |-> rec.user, key |-> rec.key,
               payload |-> <<rec.session, rec.batch>>,
               body |-> rec.body, effect |-> RowsOf(rec)] : rec \in records}

KindOf(status) ==
    CASE status \in {"none", "unknown"} -> status
      [] status \in Successful -> "ok"
      [] OTHER -> "refused"

replyBar == [r \in Requests |->
    [kind |-> KindOf(answer[r].status), body |-> answer[r].body]]

Abstract == INSTANCE IdempotentCommand WITH
    ask <- askBar, ledger <- ledgerBar, effects <- samples, reply <- replyBar

(* Every behaviour of the statement-level transactions is a behaviour of    *)
(* the one-step specification of an idempotent command                      *)
(* (commands/ingest_batch.py execute).                                      *)
ImplementsIdempotentCommand == Abstract!Spec
=============================================================================
