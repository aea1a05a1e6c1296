# FretVision: TLA+ models, checks and proofs

FretVision is a practice tracker for guitarists. A FastAPI backend
(`src/backend/app`) runs commands as single transactions over a Supabase
PostgreSQL database (`src/supabase/migrations`), which holds a second layer of
rules in constraints and triggers. Around the commands the backend has a life of
its own: settings that decide whether it starts, a pool, middlewares, token
verification with a cache of signing keys. This directory models these layers,
checks them with TLC and proves with TLAPS every safety property the runs check. At this
commit two of the four commands the architecture documents plan exist:
start-session and ingest-batch.

## 1. Inventory

| Part | State | Operations | Talks to |
|---|---|---|---|
| Ingest-batch command: `commands/ingest_batch.py`, `repositories/batches.py`, `repositories/idempotency.py`, `domain/batches.py` | `session_samples`, `idempotency_records`, row locks of its transaction | reserve the key or replay; lock the session; read the tail; insert samples; complete the record; COMMIT or ROLLBACK | the database, through one pooled connection |
| Start-session command: `commands/start_session.py`, `repositories/sessions.py`, `repositories/profiles.py`, `domain/sessions.py`, `domain/profiles.py` | `profiles`, `sessions`, `idempotency_records` | reserve or replay; provision the profile; read it; read the published pair; insert and activate the session; complete; COMMIT or ROLLBACK | the same |
| Sessions API: `api/sessions.py` | none | `POST /sessions`, `POST /sessions/{session_id}/samples/batches`; body validation | both commands |
| Transactions and pool: `db/database.py`, `db/pool.py` | the pool, one transaction per request | `transaction()`, `acquire`, open, close, `command_timeout` | commands, health |
| Session tables: migrations `..03_user_owned`, `..04_triggers` | sessions, samples, metrics, reason counts | any SQL, immediate and deferred triggers | every writer |
| Exercise catalog: migrations `..02_catalog`, `..04_triggers` | revisions, target positions, string actions | authoring, publishing | start-session reads it |
| Body limit: `asgi_body_limit.py` | per request: buffer, replay index | receive, reject, replay, pass through | server and application |
| Request id: `asgi_request_id.py`, `context.py`, `logging.py` | a context variable per task | adopt or make the id, echo it, write the access line | logging, errors |
| Errors: `errors.py` | none | exception to status and envelope with the request id | every route |
| Services and lifespan: `services.py`, `main.py` | an exit stack | create, close | pool, HTTP client, verifier |
| Authentication: `auth/` | the two caches of one `PyJWKClient`, shared by all requests | check the header, look the key up in a worker thread, verify; or ask the auth server | Supabase Auth |
| Settings: `settings.py`, `auth/factory.py` | none | decode and validate the environment | services, verifier |
| Health: `api/health.py` | none | `SELECT 1` | pool |
| Views, grants and row-level security: migrations `..05`, `..06` | none | declarative | PostgREST clients |
| Seed, reset and test scripts: migration `..07`, `src/scripts` | none | sequential | docker, psql |

**What is hard here.** Every `await` in a command is a point at which other
requests, other writers, an account deletion or a lost connection can come in.
Commands are retried: a client that lost the acknowledgement of a COMMIT sends
the same key again, and the answer has to be the first one even if the session
has moved on or ended. READ COMMITTED means that each statement sees other
transactions' commits, so anything read in one statement and used in a later one
needs a lock. Requests share the pool, the context machinery and the signing keys,
which rotate while a worker thread fetches them. Two batches can deadlock on sample ids. Triggers see only what
their own transaction sees, and the deferred ones run before their own commit is
visible to others. `PROJECT.json` lists these hazards at their lines with the
property that would catch each.

**What makes each part correct.** Ingest: samples of a session are numbered
without gaps, batches are stored whole and once, a retry replays, a session that
has ended does not change. Start: one session, one record and at most one
profile per accepted start, none of them without the others; the session copies
a published revision and its owner's profile. Tables: a completed session is one
with metrics, reason counts add up, the end of a session is final. Catalog: what
is published is complete and frozen. Body limit: the application sees the
client's messages, each once and in order, never more than the limit. Services:
what was opened is closed once, in reverse order, whatever fails; accepted settings
have what later stages assert; a lock is held only with a connection. HTTP: one id
runs through header, envelope and log lines of a request, exactly one access line is
written, a handler acts only for the subject of a verified token, and a published
key is found.

## 2. Modules

| Module | Models |
|---|---|
| `IdempotentCommand` | The abstract specification: what `docs/architecture/02-pass-2-baseline-consolidated-final.md:425-456` promises of a command with an Idempotency-Key, in one step per request. |
| `IngestBatch` | The ingest transaction, one action per statement. |
| `IngestBatchRefinement` | The mapping of `IngestBatch` to `IdempotentCommand`. |
| `StartSession` | The start transaction, one action per statement, and its mapping to `IdempotentCommand`. |
| `ReadCommitted` | PostgreSQL as the migrations rely on it: READ COMMITTED transactions of several connections over one table of rows, row locks, deferred triggers before a commit is visible. |
| `SessionTables` | Constraints and triggers of sessions, samples, metrics and reason counts, over `ReadCommitted`. |
| `Catalog` | Constraints and triggers of exercise revisions, target positions and string actions, over `ReadCommitted`. |
| `BodyLimit` | `RequestBodyLimitMiddleware`. |
| `Settings` | Which environments `Settings()` accepts and what start-up uses of them, as operators. |
| `AppServices` | The lifespan, the pool and the health endpoints, over `Settings`: start-up, requests that share connections, outages, shutdown. |
| `SigningKeys` | The signing-key provider: key set, caches, worker threads, rotation. |
| `HttpRequests` | Concurrent requests from the outermost middleware to the access line, over `SigningKeys`. |
| `*Proofs` | The inductive invariants and theorems of the module they are named after (section 4). |
| `MC*` | Values of the constants for TLC. |

### The two commands

`users`, `lifecycle` or `sessions`, `samples`, `profiles` and `records` are
committed rows. What a transaction has locked or written and not committed is
`txn[r]`; the statement it runs next is `pc[r]`; the exception or value the
handler leaves with is `answer[r]`. A request is a constant: a retry is another
request whose client chose the same command.

`Waits(r, q)` says that the next statement of `r` has to wait for the
transaction of `q`: `INSERT .. ON CONFLICT DO NOTHING` for an uncommitted row with
its key, `FOR UPDATE` for a row lock, a sample insert for an uncommitted row with
its id or number. A statement that need not wait is one atomic step.

| Action | Code |
|---|---|
| `Receive` | body validation by the domain model (422), BEGIN |
| `ReserveKey`, `ReserveForMissingUser`, `FindExisting` | the three outcomes of the reserving INSERT |
| `LockExisting`, `MissExisting` | the `SELECT .. FOR UPDATE` that follows a conflict |
| `LockSession`, `ReadTail`, `InsertSample` | `lock_owned_active_session`; `append_sample_batch`, one step per row of `executemany` |
| `InsertProfile`, `ReadProfile`, `ReadRevision`, `InsertSession`, `Activate` | `ensure_profile`, `get_revision_snapshot`, `create_and_activate_session` |
| `CompleteRecord`, `Commit`, `Rollback` | the completing UPDATE and the exit of `transaction()` |
| `LoseConnection`, `AbortDeadlock` | command timeout, dropped connection, server restart; the deadlock detector |
| `Abandon`, `EndSession`, `EditProfile`, `Publish`, `RemoveTarget`, `DeleteUser` | other clients of the database |

Choices made in these two modules:

- A statement that fails in the database aborts the transaction there and then,
  so its locks are gone before the handler sends ROLLBACK (`InsertSample`,
  `InsertProfile`, and `InsertSession` when the foreign key on the pair fails, which no
  handler maps: a 500). An exception the handler raises itself leaves the locks in
  place until `Rollback`. The answer is fixed when it is raised.
- `Commit` has two outcomes: the client gets the answer, or the rows are stored
  and the client is told of an error.
- The request hash is a SHA-256 of the whole payload and is taken as injective; a
  record keeps the hashed values.
- `executemany` encodes all arguments before it sends the first row (a body is at
  most 64 KiB), so an offset outside bigint fails before any row is inserted.
- The order a chunk has to be in is stated for every pair of its samples, which is
  what the code's comparison of neighbours amounts to.
- A session id is the id of the request that inserts it: `gen_random_uuid()` does
  not repeat, and a request inserts at most one session.
- A session ends by `'abandoned'` in these modules; no command of this commit ends
  one, so the writer is any client with UPDATE. `'completed'` is modelled in
  `SessionTables`.
- An account deletion is one step that waits for reservations and locked records
  (the foreign key's key-share lock), and cascades.
- `EditProfile` turns a right hand left and never back, so that "has or had" can be
  said of a session's hand without a history of the profile.
- `RemoveTarget` is the deletion of a target under a published revision: its trigger ran
  while the revision was a draft, and it commits after the publication (run `catalog_raw`
  shows that this happens). Sessions restrict it, those of open transactions too, through
  the key-share lock. Between `ReadRevision` and `InsertSession` nothing holds the target.
- A database CHECK on a value that the DTO has already bounded the same way is
  not repeated.

### The tables

`ReadCommitted` has one map `db` of committed rows and one map `writes[w]` per
open transaction; a row in it is locked. `View(w)` is what a query of `w` sees.
`RunDeferred` checks the queued constraint triggers against `View(w)`, `Commit`
publishes the writes a step later: other transactions may commit in between. A
foreign key holds its parent against deletion (`ParentHeld`), not against update,
as KEY SHARE does.

A BEFORE trigger is evaluated in the step that writes the row, when any wait is
over; PostgreSQL evaluates a BEFORE INSERT trigger before it waits for a
duplicate key. That leaves out behaviours in which the trigger read is even
older; they matter only to the two guarantees that are already violated
(section 5). Session ids are never used again. A metrics row is the number of
invalid samples it reports (`submitted - valid`); a count row does not change
its key; the values the one-row CHECKs speak of are in `ValuesOf`. Publishing
compares instruments in the code; the model has a single one.

### Body limit

A body is a sequence of ASGI messages, each the stretch of bytes `from .. to` it
carries. `received` is the code's own counter, which adds up the lengths of the chunks;
that it is where the last chunk ends is part of what is proved. `calls` numbers the calls of the server's `receive()`. `_content_length` ends in
an integer or `None`, whatever the header holds. The application may call
`receive()` at any time after the body has been buffered.

### Services

| Action | Code |
|---|---|
| `LoadSettings` | `Settings()` and `configure_logging`, on any environment of `Environments`; nothing is open when it fails |
| `OpenHttpClient`, `OpenPool`, `BuildVerifier`, `FailStartup` | `lifespan` and `AppServices.create`, with an exception where the settings or the database cause one |
| `Terminate`, `Shutdown`, `Unwind` | SIGTERM, the end of the lifespan, one callback of the exit stack |
| `Arrive`, `Authenticate`, `Acquire` | a route, its identity dependency, `pool.acquire()` |
| `CheckReady`, `LockRow`, `Commit`, `Timeout`, `FailStatement` | `check_ready`; the statements of a command that wait for a row, reduced to one lock; `command_timeout`; a dropped connection |
| `GoDown`, `ComeUp`, `OutsiderLocks`, `OutsiderReleases` | PostgreSQL and its other clients |

The server (uvicorn) drains requests before it leaves the lifespan; it is not in
this repository, and `ShutdownAtOnce`, the mutant without it, shows what depends
on it. asyncpg serves waiters of the pool in order; with finitely many requests
any order will do, so none is modelled. A close callback that raises does not
keep the exit stack from running the others, so it is not told apart. A request
runs one statement that can wait; the whole transactions are in `IngestBatch`
and `StartSession`.

`Settings` keeps of each variable the class its checks put it in: a DSN may have
the transaction pooler's port, be malformed, hold a placeholder or be missing; the
algorithms are a list of tokens and the form it is written in. `Decodable` is what
pydantic-settings (2.14.2 in `uv.lock`) does before any validator of `settings.py`
is called. A bound on a number (the pool sizes, the timeouts, the cache lifespan) is kept
with the number. `AssertedFields` are the assertions of `auth/factory.py`, stated apart
from `RequiredFields`, which the settings check.

### Requests and signing keys

| Action | Code |
|---|---|
| `Arrive`, `Finish`, `LogRaised` | `RequestIdMiddleware`, its `finally` clause, and what uvicorn writes when the exception goes on to it |
| `LimitBody` | 413 or on, the outcome of `BodyLimit` |
| `Authenticate`, `FailUnreadable` | FastAPI's order (the body is parsed, then dependencies are resolved), `require_identity`, the header checks before the first await |
| `Verify`, `AskAuthServer` | what `JwksVerifier` and `AuthServerVerifier` do after their await |
| `Handle` | validation of the rest and the route: 200, an application error (409 stands for each), or an exception |
| `LookUp`, `Fetch`, `FailFetch`, `Store` | `get_signing_key_from_jwt` in the worker thread, statement by statement |
| `Tick`, `Publish`, `Withdraw` | time, and the key set endpoint |

A request is in a task of its own, so `context[r]` is a copy that no other task
sees; a mutant with a module variable breaks `OneIdPerRequest`. `PyJWKClient` is a
library and is modelled as `signing_keys.py` configures it: the key set cached for
`jwks_cache_ttl_seconds`, found keys by kid in an LRU without expiry (so a withdrawn
key is accepted until it is pushed out), the first miss refetched once. A token is
what it says, who signed it and when it expires; checking the signature is PyJWT's.
`steady` is a history variable: the look-ups whose key has been published since they
began and none of whose fetches has failed.

## 3. Runs

Run `tlc -config <cfg> <module>` in this directory.

| Run | What it checks | Instance |
|---|---|---|
| `ingest_batch` | the requests never all wait; contiguity, staleness of the tail, atomicity, agreement of replays, durability of what was acknowledged, dead error paths; frozen ended sessions; retries; refinement | three requests, chosen from eight commands |
| `ingest_liveness` | every request is answered | three requests, the three commands that cross |
| `start_session` | the same questions of start, plus profiles and reproducible sessions; every request is answered, with no deadlock detector | three requests, five commands, one user with and one without a profile, one pair |
| `session_tables` | completed exactly when there are metrics; counts add up; the end of a session is final | two connections, transactions of three statements, two reasons |
| `session_samples_raw` | finding: samples of ended sessions against raw SQL | two connections |
| `catalog_author` | published revisions are complete and frozen | one connection, two revisions, two targets, two strings |
| `catalog_concurrent` | publication is final, also for a transaction that began to edit the draft before another published it | two connections, two revisions, one target and string, transactions of two statements |
| `catalog_raw` | finding: frozen subtree against two connections | two connections |
| `body_limit` | order, completeness and limit of what the application sees | every body of up to three chunks of 0 to 4 bytes, limit 3 |
| `app_services` | accepted settings suffice; resources closed once, in reverse, on every path; open while a request runs; no lock left behind; every request answered, termination completes | every environment one variable away from the two templates or five variants; three requests of any kind, two connections |
| `hosted_template` | finding: the hosted template does not start | that environment |
| `http_requests` | one id per request, one access line, verified owners, published keys found, every request answered and logged | two requests of eight kinds, two keys, a cache of one, lifespan 1, clock up to 2 |

**Why the bounds are enough.** Two requests make every pairwise race (same key,
same session, same sample id, same profile); the third gives a retry after the
first two have met, or a waiter behind a waiter. The commands include each
reason to wait and each reason to be refused: a reused key with another payload,
a rival for the same place in the sequence, a continuation, sample ids in
opposite order under another session, another user's session, an unordered chunk
and an offset outside the column (`MaxOffset` stands for the largest bigint). The
proofs remove these bounds for the properties they cover. For the tables, three
statements are what the longest legal transaction needs (complete a session,
insert metrics, insert a count); two reasons let two transactions each edit a count
the other does not touch. In the catalog two statements per
transaction allow a move and a publication together; revisions, targets and
strings come in pairs because moves need an old and a new parent. For bodies the
limit lies inside the range of single chunks and of sums of two and three. Three
requests on two connections leave one waiting. Each check of the settings reads one
or two variables (a mode and what it requires), so environments at distance one from
accepted ones of both modes reach each way of being refused. Two requests and two
keys with room for one of them make every race for the caches: a refetch while
another thread stores an older set, an eviction between look-up and use, a token that
expires while its key is fetched; more kinds of requests differ only in what they are
refused for.

Type invariants are proved for the two commands, `AppServices`, `SessionTables`,
`Catalog` and `BodyLimit`. That of `HttpRequests` (with the length of the LRU) holds in
the instance above but is not part of a run: what matters of it is in the properties.

**Symmetry** is used for the requests of `ingest_batch`, for writers, reasons and
catalog rows, in runs without liveness properties only. In `start_session` requests are
numbers and `MCInit` keeps, of the initial states that differ in the order of requests
only, the one with ordered commands. Requests are interchangeable, so nothing is lost,
and unlike TLC's symmetry this is sound for `RequestsFinish` too.

**Deadlock** is checked for the commands: `Terminating` is the only way to stop,
with every request answered. For `AppServices` the process has stopped or failed
to start. `SessionTables`, `Catalog` and `BodyLimit` may stop:
statements per transaction and calls of `receive()` are bounded, a rejected request
has no further step, and nothing obliges a client to act. So may `HttpRequests`, when
the clock has reached its bound and every request is done; that none stops before is
`RequestsFinish`.

**Fairness.** `FairSpec` has weak fairness of `Step(r)`: a statement that can run is
executed by PostgreSQL, asyncio resumes its coroutine, and the deadlock detector
runs after `deadlock_timeout`. Nothing is assumed of clients, lost connections,
account deletions, publishing or other writers. `command_timeout` would end any
wait; `ingest_liveness` and `start_session` show that requests finish without
relying on it. `AppServices` does rely on it, because there another client of the
database may keep a row locked for ever: its fairness is that of start-up, of the
exit stack and of each request's next step, the timeout (a timer of asyncpg)
included, and nothing is assumed of clients, other writers and outages.
`HttpRequests` assumes that a task or thread that can go on does: the event loop and
the thread pool run them, a fetch ends by `jwks_http_timeout`, a call of the auth
server by the client's timeout. It assumes nothing of time, key rotation, or a fetch's
success. Nothing is
claimed of a client that stops sending its body: the middleware has no timeout.

## 4. Proofs

Seven modules hold theorems (and `ReadCommittedProofs` lemmas about statements and
commits that two of them share). Together they state every invariant, action property
and refinement of the passing runs. Each states an inductive invariant, shows that `Init`
implies it, that every action preserves it (a lemma per action or group of actions)
and draws the theorems from it. They hold for every value of the constants that
satisfies the assumptions of the modules (`ConstantsAssumption`,
`StatementsAssumption` and so on): types of the constants, naturals for bounds, model
values that stand apart, and finitely many invalid reasons (`ReasonsAssumption`: the
column is an enum). The bounds on statements per transaction and on the clock
remain parameters, so they are proved for any bound.

### The ingest transactions

`IngestBatchProofs` has three parts. The first is about the rows: `Invariance`,
`TypeCorrect`, `SamplesStayContiguous`, `TailStaysCurrent`, `BatchesAreAtomic`,
`EndedSessionsAreFrozen`.

`SamplesContiguous` is not inductive: a commit extends the sequence
correctly only because the tail read some statements earlier is still the tail.
`TailNotStale` says that, and it is inductive only because the session lock is
exclusive and held from `LockSession` to the end; `LocksConsistent` relates locks,
program counters and inserted rows (`ShapeOf`), makes locks and pending rows of two
transactions disjoint (`Exclusive`), and says that what is reserved is not yet
committed while what is locked is (`FreshOf`). `OwnersLive` is needed because an
account deletion removes rows under running transactions: it never touches the
rows of a transaction that holds a reservation, since the reservation holds the
user. `IInv` is their conjunction with `RecordsAccountForSamples`; it holds in the
instance of `ingest_batch`, whose run lists only the conjuncts that speak of committed
rows.
`EndedSessionFrozen` follows step by step from `IInv`: only `Commit` adds samples, and
it holds the lock of an active session.

The second part is about the answers: `ResponsesAgree`, `NoContractError`,
`AcknowledgedStaysStored`, `RetriesAreReplayed` and
`IngestImplementsIdempotentCommand` (`Spec => ImplementsIdempotentCommand`).

`AnswersInv` is inductive relative to `IInv`: keys identify records, a record's
response describes its batch (`RecordsFaithful`), and a successful answer is that of
the record of its key for as long as the user exists (`AnswerOf`). `StepAnswers` sums
up what any step short of COMMIT can tell its request: nothing, an error, the response
of the record of its command, or a refusal, and then the command is not recorded. From
it the refinement follows case by case: a refusal is `Refuse`, a replay `Replay`, a lost
connection and a deadlock's victim `Lose`, COMMIT `Execute`, an account deletion
`Erase`, every other statement a stutter.

The third part is about waiting. `DeadlocksAreOverSampleIds`: a request in a cycle of
waits is inserting a sample whose id a batch of another session has inserted. Keys and
records are waited for by requests that hold nothing (`ShapeOf`), so nobody in a cycle
waits for one; a session lock is waited for by a request that has no samples yet and no
session lock, and the key it holds is waited for by nobody in the cycle. That leaves
sample ids, and within one session the lock excludes a second inserter. Such deadlocks do
occur in the instance of `ingest_batch`. `SomeRequestProceeds` (`NoStandstill`), for any
finite set of requests: take the smallest non-empty set of open transactions of which
each waits for another of the set; in it each is also waited for, so all of it is
deadlocked and the detector can cancel one. It is the safety half of `RequestsFinish`:
together with fairness, and since every statement brings a request forward, it is why
every request is answered. That a request at its end holds no lock is `ShapeOf`; a
mutant whose `Rollback` keeps them breaks `NoStandstill`.

### The start transactions

`StartSessionProofs`: `Invariance`, `TypeCorrect`, `StartsAreRecorded`,
`FailedStartsLeaveNoProfile`, `SessionsStayReproducible`, `ResponsesAgree`,
`NoContractError`, `ProfilesAreKept`, `RetriesAreReplayed`,
`StartImplementsIdempotentCommand`, `StartsNeverDeadlock`.

The start transaction takes no lock on the profile and the revision it reads, so
`ShapeOf` has to say of each statement what of its reads is still so: the profile stays
visible because the reservation holds the user, and a hand that an edit has meanwhile
outdated is one the profile had. The revision stays published because publication is
final, but its target may be removed after it was read: only from the INSERT on does the
session's row hold it (`AfterSession`), and an INSERT that comes too late is refused by
the foreign key and takes the reservation and the profile with it. `RowsConsistent` ties rows to the request that wrote them, `AnswerOf` is as above.
`IInv` is checked by TLC in `start_session`.

`ProfilesAreKept` compares the profile rows before and after every step of a start: none
is changed or removed, and one that is added is its user's first and comes with a new
session of its hand. It needs `FreshOf` (the profile a transaction has inserted is still
not committed by another) and `ShapeOf` (the hand it read is the one it inserted).

`StartsNeverDeadlock` needs no detector and no bound on the requests: a start waits for a
key or a record before it holds anything, and then at most once more, for a profile
whose inserter waits for nobody. So a request that waits is at most two steps away from
one that can go on.

### Tables

`CatalogProofs`: `PublishedForGood` for any number of concurrent authors, which rests
on no open transaction having written the row of a published revision
(`PublishedUnwritten`; `catalog_concurrent` is its instance with two);
`PublishedStaysComplete` and `PublishedStaysFrozen` under the hypothesis `OneAuthor`,
that there is one connection. The hypothesis cannot be dropped: `catalog_raw` is the
counterexample with two.

`SessionTablesProofs`: `CompletedHaveMetrics` and `EndsAreFinal` for any number of
concurrent writers. `LifecycleInv` says of each writer what its own view has of a
session it has written (`OwnWrites`), that what its deferred triggers have accepted
stays so until its commit (`PassedChecks`), and what two writers can have written of
one session (`Shared`): the session row's lock orders the two triggers that no
transaction could check alone.

`ReasonsAddUp` (`ReasonsSumUp`) is proved over that invariant by `SumsInv`. Each deferred
trigger compares sum and number as its own transaction sees them, and two transactions may
both pass before either commits; so that each saw a right sum is not what is preserved.
What is preserved is the difference: past its check, a transaction changes the sum of a
session's counts by as much as the number its metrics report (`OwnCounts`). Its rows are
locked, so a commit of another transaction moves its view and the committed rows by the
same amounts and leaves the difference as it is. The rest keeps counts from being written
under metrics that another transaction deletes (`NoOrphans`, `NoneBelow`), which the foreign
key's lock prevents. The sum is the community modules' `SumFunctionOnSet`; `SumsExist`,
`SumsAgree`, `SumUnfold` and `SumDifference` establish its arithmetic by induction on the
size of a finite set, each time over one concrete set of counterexamples, which has a
smallest element (`LeastElement`, `SetInduction`).

### Body limit

`BodyLimitProofs`: `MessagesAreReplayed` (`AppSeesTheRequest`), `RefusalsAreJustified`
(`RejectsOnlyTooLarge`), `TypeCorrect`, for every limit and every body. The invariant says
that the buffer is what the server has sent so far (`Buffered`), that the counter is where
its last chunk ends (`Counted`), and that what the application has seen is the buffer up to
the replay index and then what the server sent after it (`Replayed`): the seam.

### Services and requests

`AppServicesProofs`: `SettingsAlwaysSuffice` for every environment, not only those of
the run; `RequestsHaveResources`, `LocksAreReleased`, `StackIsUnwound`. The stack of
open resources is a function of the phase (`StackFollowsPhase`), what is closed is the
end of it (`PopsInOrder`), and requests run in two phases only (`RequestsServed`).

`HttpRequestsProofs`: `RequestsKeepTheirIds`, `RequestsLoggedOnce`,
`IdentitiesAreVerified`, `PublishedKeysFound`, for any cache lifespan and size.
`SteadyInv` carries the last one: a steady look-up that has fetched has its key in its
hands, so what other threads put into the shared cache does not matter to it.

### Only model-checked

The liveness properties (`RequestsFinish` of four runs, `ShutdownCompletes`) stay with TLC:
TLAPS proves neither ENABLED nor liveness under fairness. For the two commands the theorems
on waiting are their safety half. The type invariant of `HttpRequests` with the length and
injectivity of the LRU of `SigningKeys` is checked in an instance and not proved: `Remove` is
a `SelectSeq`, of which the provers know nothing. No theorem needs it.

## 5. Findings

Two concern a list in
`docs/architecture/02-pass-2-baseline-consolidated-final.md:480` of guarantees that
"hold independent of FastAPI". Under READ COMMITTED two of them do not:

- `session_samples_raw`: `trg_no_samples_after_terminal` reads the session without a
  lock. A sample write whose trigger saw an active session commits after another
  transaction has ended it. The backend is not affected, since it holds the session
  FOR UPDATE (`EndedSessionFrozen`, proved).
- `catalog_raw`: the freeze triggers read the revision without a lock. A change of a
  draft's target or action commits after another transaction has published the
  revision. One author at a time is safe (`catalog_author`, proved), and publication
  itself is final for any number (`PublishedForGood`, proved).

The third concerns start-up:

- `hosted_template`: `.env.hosted.example` writes the algorithms as a comma-separated
  list, which pydantic-settings refuses to decode before the validator that splits it is
  called. The template does not start even with every placeholder replaced; the tests
  pass the value as an argument, which is not decoded.

Met while modelling, in the code as it is modelled, and no property of a run:

- A bearer whose payload is not JSON makes `PyJWKClient` raise a `DecodeError` that is
  no `PyJWKClientError`, so the answer is 500 (`FailUnreadable`), although
  `auth/dependencies.py:15-16` says that "any failure" is an `AuthError`, mapped to 401. An auth server that
  answers JSON which is no object has the same effect.
- `JWKS_CACHE_TTL_SECONDS=0` passes `settings.py:90` and is then refused by
  `PyJWKClient`, at start-up. A malformed DSN passes too, and with a lazy pool the first
  request is what notices.
- The cache by kid outlives the key set's lifespan.
- uvicorn logs an exception that is raised again outside the request's context, so that
  line has no id (`OneIdPerRequest` says so).

## 6. Not modelled

- complete-session and abandon-session are not implemented at this commit.
- Views (`..05`) are two aggregating queries without state; grants and row-level
  security (`..06`) are declarative and evaluated by PostgreSQL; a seed, reset and test
  script runs alone and in sequence.
- Of the session tables: CHECKs on one row's own columns and a count row that changes its
  key. Of the catalog: the comparison of instruments (the model has one) and the mutable
  parents of a revision. Of the sessions API: the format of the Idempotency-Key header
  and the Idempotency-Replayed response header. Of the error mapping: code and message
  of the envelope, and which status each application error has.
- The idempotency record's `expires_at` is written and never read by the code; nothing
  deletes expired records.
- The frontend is empty at this commit.

What could be added: the views as operators checked against a reference definition; a
composition of `HttpRequests` with the commands (here each takes what the other
answers as a choice).
