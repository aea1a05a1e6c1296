---------------------------- MODULE StartSession ----------------------------
(***************************************************************************)
(* POST /v1/sessions: one PostgreSQL READ COMMITTED transaction per        *)
(* request, statement by statement (commands/start_session.py).  It        *)
(* reserves the idempotency key, provisions the caller's profile, copies   *)
(* the profile and the published revision into a session that is created   *)
(* and activated, and stores the response with the key.                    *)
(***************************************************************************)
EXTENDS Integers, FiniteSets

CONSTANTS
    Requests,     \* HTTP requests; also the ids of the sessions they create
    Users, Keys,
    Pairs,        \* (exercise revision, target position revision) pairs
    Provisioned,  \* users who have a profile, right-handed, to begin with
    Commands,     \* what a client may send
    NoBody

Hands == {"left", "right"}

Command == [user : Users, key : Keys, pair : Pairs, interval : Nat]

ASSUME ConstantsAssumption ==
    /\ Commands \subseteq Command
    /\ Provisioned \subseteq Users

VARIABLES
    users,      \* live rows of auth.users
    profiles,   \* rows of public.profiles
    published,  \* pairs whose exercise revision is published
    removed,    \* published pairs whose target row is gone
    sessions,   \* rows of public.sessions
    records,    \* public.idempotency_records with operation 'start_session'
    cmd, pc, txn, answer

vars == <<users, profiles, published, removed, sessions, records, cmd, pc, txn, answer>>

-----------------------------------------------------------------------------
(* Rows and responses *)

Profile == [user : Users, hand : Hands]

\* Session ids come from gen_random_uuid(); a request inserts at most one.
Session == [id : Requests, user : Users, pair : Pairs, interval : Nat, hand : Hands,
            lifecycle : {"created", "active", "abandoned"}]

\* StartSessionResponse: the row as ACTIVATE_SESSION_SQL returns it
BodyOf(session) == [id |-> session.id, pair |-> session.pair,
                    interval |-> session.interval, hand |-> session.hand,
                    lifecycle |-> session.lifecycle]

Body == [id : Requests, pair : Pairs, interval : Nat, hand : Hands,
         lifecycle : {"active"}]

Record == [user : Users, key : Keys, pair : Pairs, interval : Nat,
           state : {"processing", "completed"}, body : Body]

SameKey(a, b) == a.user = b.user /\ a.key = b.key

\* request_hash, a SHA-256 of the whole command, taken as injective
SameHash(rec, c) == rec.pair = c.pair /\ rec.interval = c.interval

ValidInterval(c) == c.interval \in 2000 .. 5000

-----------------------------------------------------------------------------
(* Transactions *)

(* record as in IngestBatch; profile: whether the transaction inserted one;  *)
(* hand: the ProfileSnapshot the handler holds; session: its inserted row.   *)
NoTxn == [record |-> "none", profile |-> "none", hand |-> "none", session |-> "none"]

Txn == [record : {"none", "locked", "processing", "completed"},
        profile : {"none", "inserted"},
        hand : Hands \cup {"none"},
        session : {"none", "created", "active"}]

Statements == {"reserve", "lock_existing", "insert_profile", "read_profile",
               "read_revision", "insert_session", "activate", "complete",
               "commit", "rollback"}

Statuses == {"none", "accepted", "replayed", "invalid", "subject_gone",
             "key_conflict", "record_vanished", "target_not_found",
             "contract_failed", "foreign_key_failed", "unknown"}

InTxn(r) == pc[r] \in Statements

\* Mutant of Waits: INSERT .. ON CONFLICT does not wait for other inserters.
WaitsForRowLocksOnly(r, q) ==
    pc[r] = "lock_existing" /\ SameKey(cmd[q], cmd[r]) /\ txn[q].record # "none"

Waits(r, q) ==
    \/ pc[r] = "reserve" /\ SameKey(cmd[q], cmd[r])
          /\ txn[q].record \in {"processing", "completed"}
    \/ pc[r] = "lock_existing" /\ SameKey(cmd[q], cmd[r]) /\ txn[q].record # "none"
    \/ pc[r] = "insert_profile" /\ cmd[q].user = cmd[r].user
          /\ txn[q].profile = "inserted"

Runs(r, statement) ==
    /\ pc[r] = statement
    /\ \A q \in Requests \ {r} : ~ Waits(r, q)

Raise(r, status, body) ==
    /\ answer' = [answer EXCEPT ![r] = [status |-> status, body |-> body]]
    /\ pc' = [pc EXCEPT ![r] = "rollback"]

Goto(r, statement) ==
    /\ pc' = [pc EXCEPT ![r] = statement]
    /\ UNCHANGED answer

committed == <<users, profiles, published, removed, sessions, records>>

-----------------------------------------------------------------------------
Init ==
    /\ users = Users
    /\ profiles = {[user |-> u, hand |-> "right"] : u \in Provisioned}
    /\ published = {}
    /\ removed = {}
    /\ sessions = {}
    /\ records = {}
    /\ cmd \in [Requests -> Commands]
    /\ pc = [r \in Requests |-> "idle"]
    /\ txn = [r \in Requests |-> NoTxn]
    /\ answer = [r \in Requests |-> [status |-> "none", body |-> NoBody]]

Receive(r) ==
    /\ pc[r] = "idle"
    /\ \/ /\ ValidInterval(cmd[r])
          /\ Goto(r, "reserve")
       \/ /\ ~ ValidInterval(cmd[r])
          /\ answer' = [answer EXCEPT ![r] = [status |-> "invalid", body |-> NoBody]]
          /\ pc' = [pc EXCEPT ![r] = "done"]
    /\ UNCHANGED <<committed, cmd, txn>>

\* Mutant of ReserveKey: a recorded key is handed out again.
ReserveKeyAgain(r) ==
    /\ Runs(r, "reserve")
    /\ cmd[r].user \in users
    /\ txn' = [txn EXCEPT ![r].record = "processing"]
    /\ Goto(r, "insert_profile")
    /\ UNCHANGED <<committed, cmd>>

ReserveKey(r) ==
    /\ Runs(r, "reserve")
    /\ cmd[r].user \in users
    /\ \A rec \in records : ~ SameKey(rec, cmd[r])
    /\ txn' = [txn EXCEPT ![r].record = "processing"]
    /\ Goto(r, "insert_profile")
    /\ UNCHANGED <<committed, cmd>>

ReserveForMissingUser(r) ==
    /\ Runs(r, "reserve")
    /\ cmd[r].user \notin users
    /\ Raise(r, "subject_gone", NoBody)
    /\ UNCHANGED <<committed, cmd, txn>>

FindExisting(r) ==
    /\ Runs(r, "reserve")
    /\ \E rec \in records : SameKey(rec, cmd[r])
    /\ Goto(r, "lock_existing")
    /\ UNCHANGED <<committed, cmd, txn>>

\* Mutant of LockExisting: request_hash is not compared.
LockExistingIgnoringHash(r) ==
    /\ Runs(r, "lock_existing")
    /\ \E rec \in records :
          /\ SameKey(rec, cmd[r])
          /\ txn' = [txn EXCEPT ![r].record = "locked"]
          /\ Raise(r, "replayed", rec.body)
    /\ UNCHANGED <<committed, cmd>>

LockExisting(r) ==
    /\ Runs(r, "lock_existing")
    /\ \E rec \in records :
          /\ SameKey(rec, cmd[r])
          /\ txn' = [txn EXCEPT ![r].record = "locked"]
          /\ \/ /\ ~ SameHash(rec, cmd[r])
                /\ Raise(r, "key_conflict", NoBody)
             \/ /\ SameHash(rec, cmd[r])
                /\ IF rec.state = "completed"
                   THEN Raise(r, "replayed", rec.body)
                   ELSE Raise(r, "contract_failed", NoBody)
    /\ UNCHANGED <<committed, cmd>>

MissExisting(r) ==
    /\ Runs(r, "lock_existing")
    /\ \A rec \in records : ~ SameKey(rec, cmd[r])
    /\ Raise(r, "record_vanished", NoBody)
    /\ UNCHANGED <<committed, cmd, txn>>

\* Mutant of InsertProfile: an upsert that resets a profile that exists.
InsertProfileAlways(r) ==
    /\ Runs(r, "insert_profile")
    /\ cmd[r].user \in users
    /\ Goto(r, "read_profile")
    /\ txn' = [txn EXCEPT ![r].profile = "inserted"]
    /\ UNCHANGED <<committed, cmd>>

(* ensure_profile: INSERT .. ON CONFLICT DO NOTHING.  Its foreign key error  *)
(* aborts the transaction on the server.                                     *)
InsertProfile(r) ==
    /\ Runs(r, "insert_profile")
    /\ IF cmd[r].user \notin users
       THEN /\ Raise(r, "subject_gone", NoBody)
            /\ txn' = [txn EXCEPT ![r] = NoTxn]
       ELSE /\ Goto(r, "read_profile")
            /\ txn' = IF \E p \in profiles : p.user = cmd[r].user
                      THEN txn
                      ELSE [txn EXCEPT ![r].profile = "inserted"]
    /\ UNCHANGED <<committed, cmd>>

\* The rows of public.profiles that r's transaction sees for its user.
VisibleProfiles(r) ==
    {p \in profiles : p.user = cmd[r].user} \cup
    (IF txn[r].profile = "inserted"
     THEN {[user |-> cmd[r].user, hand |-> "left"]} ELSE {})

\* ensure_profile: SELECT
ReadProfile(r) ==
    /\ Runs(r, "read_profile")
    /\ IF VisibleProfiles(r) = {}
       THEN /\ Raise(r, "contract_failed", NoBody)
            /\ UNCHANGED txn
       ELSE \E p \in VisibleProfiles(r) :
               /\ txn' = [txn EXCEPT ![r].hand = p.hand]
               /\ Goto(r, "read_revision")
    /\ UNCHANGED <<committed, cmd>>

\* get_revision_snapshot: the pair, if published (404 otherwise)
ReadRevision(r) ==
    /\ Runs(r, "read_revision")
    /\ \/ /\ cmd[r].pair \in published \ removed
          /\ Goto(r, "insert_session")
       \/ /\ cmd[r].pair \notin published \ removed
          /\ Raise(r, "target_not_found", NoBody)
    /\ UNCHANGED <<committed, cmd, txn>>

\* Mutant of InsertSession: the session has no foreign key on the pair.
InsertSessionUnreferenced(r) ==
    /\ Runs(r, "insert_session")
    /\ txn' = [txn EXCEPT ![r].session = "created"]
    /\ Goto(r, "activate")
    /\ UNCHANGED <<committed, cmd>>

(* create_and_activate_session: INSERT, born 'created'.  The pair was read   *)
(* without a lock: if its target has gone since, fk_revision_pair aborts the *)
(* transaction on the server, and the request ends in an unmapped 500.       *)
InsertSession(r) ==
    /\ Runs(r, "insert_session")
    /\ \/ /\ cmd[r].pair \notin removed
          /\ txn' = [txn EXCEPT ![r].session = "created"]
          /\ Goto(r, "activate")
       \/ /\ cmd[r].pair \in removed
          /\ txn' = [txn EXCEPT ![r] = NoTxn]
          /\ Raise(r, "foreign_key_failed", NoBody)
    /\ UNCHANGED <<committed, cmd>>

\* create_and_activate_session: UPDATE .. WHERE lifecycle = 'created'
Activate(r) ==
    /\ Runs(r, "activate")
    /\ IF txn[r].session = "created"
       THEN /\ txn' = [txn EXCEPT ![r].session = "active"]
            /\ Goto(r, "complete")
       ELSE /\ Raise(r, "contract_failed", NoBody)
            /\ UNCHANGED txn
    /\ UNCHANGED <<committed, cmd>>

CompleteRecord(r) ==
    /\ Runs(r, "complete")
    /\ IF txn[r].record = "processing"
       THEN /\ txn' = [txn EXCEPT ![r].record = "completed"]
            /\ Goto(r, "commit")
       ELSE /\ Raise(r, "contract_failed", NoBody)
            /\ UNCHANGED txn
    /\ UNCHANGED <<committed, cmd>>

SessionOf(r) ==
    [id |-> r, user |-> cmd[r].user, pair |-> cmd[r].pair,
     interval |-> cmd[r].interval, hand |-> txn[r].hand,
     lifecycle |-> txn[r].session]

\* Mutant of RecordOf: the response is not stored.
RecordWithoutResponse(r) ==
    [user |-> cmd[r].user, key |-> cmd[r].key, pair |-> cmd[r].pair,
     interval |-> cmd[r].interval, state |-> txn[r].record, body |-> NoBody]

\* the idempotency row of r's transaction
RecordOf(r) ==
    [user |-> cmd[r].user, key |-> cmd[r].key, pair |-> cmd[r].pair,
     interval |-> cmd[r].interval, state |-> txn[r].record,
     body |-> BodyOf(SessionOf(r))]

(* COMMIT, whose acknowledgement can be lost. *)
Commit(r) ==
    /\ Runs(r, "commit")
    /\ profiles' = profiles \cup VisibleProfiles(r)
    /\ sessions' = sessions \cup {SessionOf(r)}
    /\ records' = records \cup {RecordOf(r)}
    /\ txn' = [txn EXCEPT ![r] = NoTxn]
    /\ pc' = [pc EXCEPT ![r] = "done"]
    /\ \/ answer' = [answer EXCEPT ![r] =
                        [status |-> "accepted", body |-> BodyOf(SessionOf(r))]]
       \/ answer' = [answer EXCEPT ![r] = [status |-> "unknown", body |-> NoBody]]
    /\ UNCHANGED <<users, published, removed, cmd>>

\* Mutant of Rollback: the transaction stays open on its pooled connection.
RollbackKeepingLocks(r) ==
    /\ Runs(r, "rollback")
    /\ pc' = [pc EXCEPT ![r] = "done"]
    /\ UNCHANGED <<committed, cmd, txn, answer>>

\* Mutant of Rollback: the profile was provisioned outside the transaction.
RollbackKeepingProfile(r) ==
    /\ Runs(r, "rollback")
    /\ txn' = [txn EXCEPT ![r] = NoTxn]
    /\ pc' = [pc EXCEPT ![r] = "done"]
    /\ profiles' = profiles \cup VisibleProfiles(r)
    /\ UNCHANGED <<users, published, removed, sessions, records, cmd, answer>>

\* Mutant of Rollback: the key was reserved outside the transaction.
RollbackKeepingReservation(r) ==
    /\ Runs(r, "rollback")
    /\ txn' = [txn EXCEPT ![r] = NoTxn]
    /\ pc' = [pc EXCEPT ![r] = "done"]
    /\ records' = IF txn[r].record = "processing" THEN records \cup {RecordOf(r)}
                                                 ELSE records
    /\ UNCHANGED <<users, profiles, published, removed, sessions, cmd, answer>>

\* ROLLBACK on leaving transaction() with an exception; the answer goes out.
Rollback(r) ==
    /\ Runs(r, "rollback")
    /\ txn' = [txn EXCEPT ![r] = NoTxn]
    /\ pc' = [pc EXCEPT ![r] = "done"]
    /\ UNCHANGED <<committed, cmd, answer>>

\* command_timeout, a dropped connection, a server restart: no commit, 500.
LoseConnection(r) ==
    /\ InTxn(r)
    /\ answer' = [answer EXCEPT ![r] = [status |-> "unknown", body |-> NoBody]]
    /\ txn' = [txn EXCEPT ![r] = NoTxn]
    /\ pc' = [pc EXCEPT ![r] = "done"]
    /\ UNCHANGED <<committed, cmd>>

-----------------------------------------------------------------------------
(* What happens around the endpoint *)

\* A catalog author publishes the revision: never taken back (block_published_er).
Publish(p) ==
    /\ p \notin published
    /\ published' = published \cup {p}
    /\ UNCHANGED <<users, profiles, removed, sessions, records, cmd, pc, txn, answer>>

(* A target's deletion, whose trigger ran while the revision was a draft,    *)
(* commits after the publication.  Sessions restrict it (fk_revision_pair):  *)
(* committed ones, and open transactions' through the key's share lock.      *)
RemoveTarget(p) ==
    /\ p \in published \ removed
    /\ \A s \in sessions : s.pair # p
    /\ \A q \in Requests : cmd[q].pair = p => txn[q].session = "none"
    /\ removed' = removed \cup {p}
    /\ UNCHANGED <<users, profiles, published, sessions, records, cmd, pc, txn, answer>>

\* Another writer turns the guitar round.
EditProfile(u) ==
    /\ \E p \in profiles :
          /\ p.user = u /\ p.hand = "right"
          /\ profiles' = (profiles \ {p}) \cup {[p EXCEPT !.hand = "left"]}
    /\ UNCHANGED <<users, published, removed, sessions, records, cmd, pc, txn, answer>>

\* The session ends; what its start answered is not touched.
EndSession(s) ==
    /\ s.lifecycle = "active"
    /\ sessions' = (sessions \ {s}) \cup {[s EXCEPT !.lifecycle = "abandoned"]}
    /\ UNCHANGED <<users, profiles, published, removed, records, cmd, pc, txn, answer>>

\* Deleting an account cascades; it waits for reservations and locked records.
DeleteUser(u) ==
    /\ u \in users
    /\ \A q \in Requests : cmd[q].user = u => txn[q].record = "none"
    /\ users' = users \ {u}
    /\ profiles' = {p \in profiles : p.user # u}
    /\ sessions' = {s \in sessions : s.user # u}
    /\ records' = {rec \in records : rec.user # u}
    /\ UNCHANGED <<published, removed, cmd, pc, txn, answer>>

-----------------------------------------------------------------------------
Step(r) ==
    \/ Receive(r)
    \/ ReserveKey(r) \/ ReserveForMissingUser(r) \/ FindExisting(r)
    \/ LockExisting(r) \/ MissExisting(r)
    \/ InsertProfile(r) \/ ReadProfile(r) \/ ReadRevision(r)
    \/ InsertSession(r) \/ Activate(r) \/ CompleteRecord(r)
    \/ Commit(r) \/ Rollback(r)

Terminating ==
    /\ \A r \in Requests : pc[r] = "done"
    /\ UNCHANGED vars

Next ==
    \/ \E r \in Requests : Step(r) \/ LoseConnection(r)
    \/ \E p \in Pairs : Publish(p) \/ RemoveTarget(p)
    \/ \E u \in Users : EditProfile(u) \/ DeleteUser(u)
    \/ \E s \in sessions : EndSession(s)
    \/ Terminating

Spec == Init /\ [][Next]_vars

FairSpec == Spec /\ \A r \in Requests : WF_vars(Step(r))

-----------------------------------------------------------------------------
(* Properties *)

TypeOK ==
    /\ users \subseteq Users
    /\ profiles \subseteq Profile
    /\ published \subseteq Pairs
    /\ removed \subseteq published
    /\ sessions \subseteq Session
    /\ records \subseteq Record
    /\ cmd \in [Requests -> Commands]
    /\ pc \in [Requests -> Statements \cup {"idle", "done"}]
    /\ txn \in [Requests -> Txn]
    /\ answer \in [Requests -> [status : Statuses, body : Body \cup {NoBody}]]

(* Sessions and completed records of start_session are in one-to-one        *)
(* correspondence: a retried, raced or half-failed start never leaves a     *)
(* second session, a session without its record or a record without its    *)
(* session, and both belong to one user and agree on what was started.      *)
RecordsAccountForSessions ==
    /\ \A s \in sessions : \E rec \in records : rec.body.id = s.id
    /\ \A rec \in records :
          /\ rec.state = "completed"
          /\ \E s \in sessions :
                /\ rec.body = BodyOf([s EXCEPT !.lifecycle = "active"])
                /\ rec.user = s.user /\ SameHash(rec, s)
    /\ \A rec, other \in records : rec # other =>
          ~ SameKey(rec, other) /\ rec.body.id # other.body.id

(* A start that fails leaves no profile behind, wherever it fails: a profile *)
(* exists only for users who had one before or have started a session, one   *)
(* profile per user (ADR 06).                                                *)
NoOrphanProfile ==
    \A p \in profiles :
        /\ p.user \in Provisioned \/ \E s \in sessions : s.user = p.user
        /\ \A other \in profiles : other.user = p.user => other = p

(* Every committed session has left 'created', refers to a published         *)
(* revision and to a target that is still there, though both were read       *)
(* without a lock, and carries the hand its owner's profile has or had.      *)
SessionsReproducible ==
    \A s \in sessions :
        /\ s.lifecycle # "created"
        /\ s.pair \in published \ removed
        /\ s.hand = "right" => s.user \in Provisioned
        /\ s.hand = "left" /\ s.user \in Provisioned =>
              [user |-> s.user, hand |-> "right"] \notin profiles

Successful == {"accepted", "replayed"}

(* Two successful requests have the same response, hence the same session,  *)
(* if and only if they carry the same key of the same user, and each one's  *)
(* response describes the command that request itself sent.                 *)
ReplaysAgree ==
    \A r, q \in Requests :
        answer[r].status \in Successful /\ answer[q].status \in Successful =>
            /\ SameKey(cmd[r], cmd[q]) <=> answer[r].body.id = answer[q].body.id
            /\ SameKey(cmd[r], cmd[q]) => answer[r].body = answer[q].body
            /\ SameHash(answer[r].body, cmd[r])

\* Profiles are only added, each its user's first and with a new session of its hand.
KeepsProfiles ==
    /\ profiles \subseteq profiles'
    /\ \A p \in profiles' \ profiles :
          /\ \A old \in profiles : old.user # p.user
          /\ \E s \in sessions' \ sessions : s.user = p.user /\ s.hand = p.hand

(* No step of a start changes or removes a profile that exists, whoever     *)
(* created or edited it meanwhile; a profile it adds is its user's first,   *)
(* appears in the same step as the session that needed it, and has the hand *)
(* that session copied.                                                     *)
ProfilesNotOverwritten == [][\A r \in Requests : pc'[r] # pc[r] => KeepsProfiles]_vars

Recorded(r) == \E rec \in records : SameKey(rec, cmd[r]) /\ SameHash(rec, cmd[r])

(* A retry of a recorded start replays its response, or fails without an    *)
(* answer of its own; it is never told 404 or 409.                          *)
RetriesReplay ==
    [][\A r \in Requests :
          Recorded(r) /\ answer'[r] # answer[r] =>
              answer'[r].status \in {"replayed", "unknown"}]_vars

(* The internal errors the handler raises itself are dead code once the key *)
(* is reserved: the reservation keeps the user, hence the profile, in       *)
(* place.                                                                   *)
ContractErrorsUnreachable ==
    \A r \in Requests :
        /\ answer[r].status # "contract_failed"
        /\ answer[r].status = "record_vanished" => cmd[r].user \notin users

-----------------------------------------------------------------------------
(* The inductive invariant *)

\* The statements that come after one whose result they rely on.
AfterRevision == {"insert_session", "activate", "complete", "commit"}
AfterSession == {"activate", "complete", "commit"}
AfterHand == {"read_revision", "insert_session", "activate", "complete", "commit"}
AfterProfile == {"read_profile", "read_revision", "insert_session", "activate",
                 "complete", "commit"}

\* What r's transaction has done, and still relies on, at each statement.
ShapeOf(r) ==
    /\ pc[r] \in {"idle", "done", "reserve", "lock_existing"} => txn[r] = NoTxn
    /\ pc[r] \in Statements => ValidInterval(cmd[r])
    /\ pc[r] = "lock_existing" =>
          cmd[r].user \notin users \/ \E rec \in records : SameKey(rec, cmd[r])
    /\ pc[r] = "insert_profile" =>
          txn[r].record = "processing" /\ txn[r].profile = "none"
    /\ pc[r] \in AfterProfile \ {"commit"} => txn[r].record = "processing"
    /\ pc[r] = "commit" => txn[r].record = "completed"
    /\ pc[r] \in AfterProfile => VisibleProfiles(r) # {}
    /\ pc[r] \in AfterHand =>
          /\ txn[r].hand \in Hands
          /\ txn[r].hand = "right" => cmd[r].user \in Provisioned
          /\ txn[r].hand = "left" /\ cmd[r].user \in Provisioned =>
                [user |-> cmd[r].user, hand |-> "right"] \notin profiles
          /\ txn[r].profile = "inserted" => txn[r].hand = "left"
    /\ pc[r] \in AfterRevision => cmd[r].pair \in published
    /\ pc[r] \in AfterSession => cmd[r].pair \notin removed
    /\ pc[r] = "activate" => txn[r].session = "created"
    /\ pc[r] \in {"complete", "commit"} => txn[r].session = "active"

\* What is reserved or inserted is not committed; what is locked is.
FreshOf(r) ==
    /\ txn[r].record # "none" => cmd[r].user \in users
    /\ txn[r].record \in {"processing", "completed"} =>
          \A rec \in records : ~ SameKey(rec, cmd[r])
    /\ txn[r].record = "locked" => \E rec \in records : SameKey(rec, cmd[r])
    /\ txn[r].profile = "inserted" =>
          /\ txn[r].record \in {"processing", "completed"}
          /\ \A p \in profiles : p.user # cmd[r].user

Exclusive(r, q) ==
    /\ SameKey(cmd[r], cmd[q]) => txn[r].record = "none" \/ txn[q].record = "none"
    /\ cmd[r].user = cmd[q].user =>
          txn[r].profile # "inserted" \/ txn[q].profile # "inserted"

LocksConsistent ==
    /\ \A r \in Requests : ShapeOf(r) /\ FreshOf(r)
    /\ \A r, q \in Requests : r # q => Exclusive(r, q)

RowsConsistent ==
    /\ \A p \in profiles : p.user \in users /\ (p.hand = "right" => p.user \in Provisioned)
    /\ \A s \in sessions : s.user \in users /\ pc[s.id] = "done"
    /\ \A s, other \in sessions : s.id = other.id => s = other
    /\ \A rec \in records :
          /\ rec.user \in users /\ ValidInterval(rec)
          /\ pc[rec.body.id] = "done" /\ SameKey(rec, cmd[rec.body.id])

\* An answer comes late, and a successful one is that of the key's record.
AnswerOf(r) ==
    /\ pc[r] \notin {"rollback", "done"} => answer[r].status = "none"
    /\ answer[r].status \in Successful =>
          /\ answer[r].body \in Body
          /\ SameKey(cmd[answer[r].body.id], cmd[r])
          /\ SameHash(answer[r].body, cmd[r])
          /\ cmd[r].user \in users =>
                \E rec \in records : SameKey(rec, cmd[r]) /\ rec.body = answer[r].body

(* The locks of the running transactions, the rows and the answers fit      *)
(* together: what a statement of a start has read is still so when it       *)
(* commits, since its reservation keeps the user and the key.               *)
IInv ==
    /\ TypeOK
    /\ LocksConsistent
    /\ RowsConsistent
    /\ RecordsAccountForSessions
    /\ NoOrphanProfile
    /\ SessionsReproducible
    /\ \A r \in Requests : AnswerOf(r)
    /\ ReplaysAgree
    /\ ContractErrorsUnreachable

-----------------------------------------------------------------------------
(* Every request is answered, with no deadlock to break: a start waits for  *)
(* a key before it holds anything, then for a profile no holder of which    *)
(* waits again.                                                             *)
RequestsFinish == \A r \in Requests : <>(pc[r] = "done")

-----------------------------------------------------------------------------
(* Implementation of the abstract command *)

askBar == [r \in Requests |->
    [user |-> cmd[r].user, key |-> cmd[r].key,
     payload |-> <<cmd[r].pair, cmd[r].interval>>]]

ledgerBar == {[user |-> rec.user, key |-> rec.key,
               payload |-> <<rec.pair, rec.interval>>,
               body |-> rec.body, effect |-> {rec.body.id}] : rec \in records}

KindOf(status) ==
    CASE status \in {"none", "unknown"} -> status
      [] status \in Successful -> "ok"
      [] OTHER -> "refused"

replyBar == [r \in Requests |->
    [kind |-> KindOf(answer[r].status), body |-> answer[r].body]]

Abstract == INSTANCE IdempotentCommand WITH
    ask <- askBar, ledger <- ledgerBar,
    effects <- {s.id : s \in sessions}, reply <- replyBar

(* Every behaviour of the start transactions is a behaviour of the one-step *)
(* idempotent command whose effect is one new session.                      *)
ImplementsIdempotentCommand == Abstract!Spec

=============================================================================
