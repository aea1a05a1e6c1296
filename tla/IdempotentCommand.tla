------------------------- MODULE IdempotentCommand -------------------------
(***************************************************************************)
(* What the backend promises for a command that carries an Idempotency-Key *)
(* (docs/architecture/02-pass-2-baseline-consolidated-final.md:425-456),   *)
(* with no statement, lock or transaction in sight: a request is executed  *)
(* in one step, or replays the answer its key already has, or is refused.  *)
(* IngestBatch and StartSession implement this specification.              *)
(***************************************************************************)
CONSTANT Requests

VARIABLES
    users,    \* live rows of auth.users
    ask,      \* ask[r] = [user, key, payload] of request r
    ledger,   \* finished commands: [user, key, payload, body, effect]
    effects,  \* what the finished commands of live users have written
    reply     \* reply[r] = [kind, body] of request r

vars == <<users, ask, ledger, effects, reply>>

EntriesFor(r) == {e \in ledger : e.user = ask[r].user /\ e.key = ask[r].key}

Answer(r, kind, body) ==
    reply' = [reply EXCEPT ![r] = [kind |-> kind, body |-> body]]

Init ==
    /\ ledger = {}
    /\ effects = {}
    /\ \A r \in Requests : reply[r].kind = "none"

(***************************************************************************)
(* The first request of a key takes effect and is recorded, both at once.  *)
(* The client may learn of it, or only that something went wrong.          *)
(***************************************************************************)
Execute(r) ==
    /\ reply[r].kind = "none"
    /\ ask[r].user \in users
    /\ EntriesFor(r) = {}
    /\ \E e \in ledger' \ ledger :
          /\ e.user = ask[r].user /\ e.key = ask[r].key /\ e.payload = ask[r].payload
          /\ e.effect # {} /\ e.effect \cap effects = {}
          /\ ledger' = ledger \cup {e}
          /\ effects' = effects \cup e.effect
          /\ reply'[r].kind \in {"ok", "unknown"}
          /\ reply'[r].kind = "ok" => reply'[r].body = e.body
    /\ reply' = [reply EXCEPT ![r] = reply'[r]]
    /\ UNCHANGED <<users, ask>>

\* A later request of the key with the same payload gets the first one's body.
Replay(r) ==
    /\ reply[r].kind = "none"
    /\ \E e \in EntriesFor(r) :
          e.payload = ask[r].payload /\ Answer(r, "ok", e.body)
    /\ UNCHANGED <<users, ask, ledger, effects>>

\* Nothing happens: allowed only to a request whose command is not recorded.
Refuse(r) ==
    /\ reply[r].kind = "none"
    /\ \A e \in EntriesFor(r) : e.payload # ask[r].payload
    /\ Answer(r, "refused", reply'[r].body)
    /\ UNCHANGED <<users, ask, ledger, effects>>

\* The connection drops or times out: the client learns nothing.
Lose(r) ==
    /\ Answer(r, "unknown", reply'[r].body)
    /\ UNCHANGED <<users, ask, ledger, effects>>

\* Deleting an account cascades to its commands and to what they wrote.
Erase(u) ==
    /\ users' = users \ {u}
    /\ ledger' = {e \in ledger : e.user # u}
    /\ effects' = effects \ UNION {e.effect : e \in ledger \ ledger'}
    /\ UNCHANGED <<ask, reply>>

Next ==
    \/ \E r \in Requests : Execute(r) \/ Replay(r) \/ Refuse(r) \/ Lose(r)
    \/ \E u \in users : Erase(u)

Spec == Init /\ [][Next]_vars
=============================================================================
