---------------------------- MODULE AppServices ----------------------------
(***************************************************************************)
(* One server process from start-up to shutdown: the settings decide what  *)
(* start-up does, the lifespan creates the HTTP client and the connection  *)
(* pool (services.py, db/database.py), requests share the pool's           *)
(* connections and contend for a row that other clients of the database    *)
(* lock too, and the exit stack closes everything.                         *)
(***************************************************************************)
EXTENDS Settings, SequencesExt

CONSTANTS
    Requests,
    Environments    \* the environments the process may be started in

ASSUME EnvironmentsAssumption == Environments \subseteq ProcessEnvironment
ASSUME RequestsAssumption == Requests \cap {"nobody", "outsider"} = {}

\* the settings before LoadSettings
NotLoaded ==
    [min |-> 0, max |-> 0, dsn |-> "missing", none |-> {}, no_lifespan |-> FALSE]

Nobody == "nobody"      \* the row is not locked
Outsider == "outsider"  \* another client of the database has locked it

VARIABLES
    phase,   \* where the lifespan stands
    opened,  \* resources pushed on the exit stack, in this order
    closed,  \* resources whose close callback has run, in this order
    settings, \* what LoadSettings has made of the environment
    kind,    \* kind[r]: "live" GET /healthz, "ready" GET /readyz, "command" a POST
    pc,      \* pc[r]: what request r does next
    result,  \* result[r]: the status of its response, 0 before
    dbUp,    \* whether PostgreSQL is reachable
    rowLock  \* who holds the row lock the commands want

vars == <<phase, opened, closed, settings, kind, pc, result, dbUp, rowLock>>

process == <<phase, opened, closed, settings>>
requests == <<kind, pc, result>>
database == <<dbUp, rowLock>>

Phases == {"settings", "http", "pool", "verifier", "failing",
           "serving", "draining", "closing", "stopped", "failed"}

Connected == {"held", "locked", "broken"}
Holders == {r \in Requests : pc[r] \in Connected}
InFlight == {r \in Requests : pc[r] \notin {"idle", "done"}}

Init ==
    /\ phase = "settings"
    /\ opened = <<>> /\ closed = <<>>
    /\ settings = NotLoaded
    /\ kind = [r \in Requests |-> "none"]
    /\ pc = [r \in Requests |-> "idle"]
    /\ result = [r \in Requests |-> 0]
    /\ dbUp \in BOOLEAN
    /\ rowLock = Nobody

-----------------------------------------------------------------------------
(* lifespan and AppServices.create *)

(* Settings() and configure_logging; nothing is open yet.  An environment    *)
(* that is refused ends the process.                                         *)
LoadSettings ==
    /\ phase = "settings"
    /\ \E env \in Environments :
          IF Accepted(env) /\ env.log_level = "known"
          THEN phase' = "http" /\ settings' = Loaded(env)
          ELSE phase' = "failed" /\ UNCHANGED settings
    /\ UNCHANGED <<opened, closed, requests, database>>

OpenHttpClient ==
    /\ phase = "http"
    /\ phase' = "pool"
    /\ opened' = Append(opened, "http")
    /\ UNCHANGED <<closed, settings, requests, database>>

(* asyncpg refuses bounds that cross; a lazy pool (min 0) connects to        *)
(* nothing, not even to notice a malformed DSN.                              *)
PoolOpens ==
    /\ settings.min <= settings.max
    /\ settings.min = 0 \/ (dbUp /\ settings.dsn # "malformed")

OpenPool ==
    /\ phase = "pool"
    /\ PoolOpens
    /\ phase' = "verifier"
    /\ opened' = Append(opened, "pool")
    /\ UNCHANGED <<closed, settings, requests, database>>

VerifierBuilds == settings.none = {} /\ ~ settings.no_lifespan

BuildVerifier ==
    /\ phase = "verifier"
    /\ VerifierBuilds
    /\ phase' = "serving"
    /\ UNCHANGED <<opened, closed, settings, requests, database>>

StartupFails == (phase = "pool" /\ ~ PoolOpens) \/ (phase = "verifier" /\ ~ VerifierBuilds)

\* Mutant of FailStartup: create has no except clause.
FailStartupWithoutCleanup ==
    /\ StartupFails
    /\ phase' = "failed"
    /\ UNCHANGED <<opened, closed, settings, requests, database>>

\* An exception, in connecting or in building the verifier: except BaseException.
FailStartup ==
    /\ StartupFails
    /\ phase' = "failing"
    /\ UNCHANGED <<opened, closed, settings, requests, database>>

\* SIGTERM: the server stops accepting requests.
Terminate ==
    /\ phase = "serving"
    /\ phase' = "draining"
    /\ UNCHANGED <<opened, closed, settings, requests, database>>

\* Mutant of Shutdown: the lifespan ends while requests are being served.
ShutdownAtOnce ==
    /\ phase = "draining"
    /\ phase' = "closing"
    /\ UNCHANGED <<opened, closed, settings, requests, database>>

\* The server leaves the lifespan when the last request is answered.
Shutdown ==
    /\ phase = "draining"
    /\ InFlight = {}
    /\ phase' = "closing"
    /\ UNCHANGED <<opened, closed, settings, requests, database>>

\* AsyncExitStack.aclose: last in, first out; a callback that raises does not
\* keep the others from running.
Unwind ==
    /\ phase \in {"failing", "closing"}
    /\ IF Len(closed) < Len(opened)
       THEN /\ closed' = Append(closed, opened[Len(opened) - Len(closed)])
            /\ UNCHANGED phase
       ELSE /\ phase' = IF phase = "failing" THEN "failed" ELSE "stopped"
            /\ UNCHANGED closed
    /\ UNCHANGED <<opened, settings, requests, database>>

-----------------------------------------------------------------------------
(* Requests *)

Answer(r, status) ==
    /\ pc' = [pc EXCEPT ![r] = "done"]
    /\ result' = [result EXCEPT ![r] = status]

Goto(r, next) ==
    /\ pc' = [pc EXCEPT ![r] = next]
    /\ UNCHANGED result

\* what becomes of an exception of the database: check_ready makes it a 503
FailureOf(r) == IF kind[r] = "ready" THEN 503 ELSE 500

Release(r) == rowLock' = IF rowLock = r THEN Nobody ELSE rowLock

Arrive(r) ==
    /\ phase = "serving" /\ pc[r] = "idle"
    /\ \E k \in {"live", "ready", "command"} :
          /\ kind' = [kind EXCEPT ![r] = k]
          /\ IF k = "live" THEN Answer(r, 200)
             ELSE Goto(r, IF k = "command" THEN "auth" ELSE "acquire")
    /\ UNCHANGED <<process, database>>

\* The verifier may call Supabase Auth over the HTTP client.
Authenticate(r) ==
    /\ pc[r] = "auth"
    /\ Goto(r, "acquire") \/ Answer(r, 401)
    /\ UNCHANGED <<process, kind, database>>

(* pool.acquire(): waits, without a timeout, until a connection is free; a   *)
(* malformed DSN is noticed here at the latest.                              *)
Acquire(r) ==
    /\ pc[r] = "acquire"
    /\ Cardinality(Holders) < settings.max
    /\ IF dbUp /\ settings.dsn # "malformed" THEN Goto(r, "held") ELSE Answer(r, FailureOf(r))
    /\ UNCHANGED <<process, kind, database>>

\* SELECT 1
CheckReady(r) ==
    /\ pc[r] = "held" /\ kind[r] = "ready"
    /\ Answer(r, 200)
    /\ UNCHANGED <<process, kind, database>>

\* a statement of the transaction that takes the row lock
LockRow(r) ==
    /\ pc[r] = "held" /\ kind[r] = "command"
    /\ rowLock = Nobody
    /\ rowLock' = r
    /\ Goto(r, "locked")
    /\ UNCHANGED <<process, kind, dbUp>>

Commit(r) ==
    /\ pc[r] = "locked"
    /\ Release(r)
    /\ Answer(r, 201)
    /\ UNCHANGED <<process, kind, dbUp>>

\* Mutant of Timeout: the connection is not given back.
TimeoutKeepingConnection(r) ==
    /\ pc[r] \in {"held", "locked"}
    /\ Release(r)
    /\ result' = [result EXCEPT ![r] = FailureOf(r)]
    /\ UNCHANGED <<process, kind, pc, dbUp>>

\* Mutant of Timeout: no command_timeout while waiting for another client.
TimeoutUnlessWaiting(r) ==
    /\ pc[r] = "locked" \/ (pc[r] = "held" /\ rowLock = Nobody)
    /\ Release(r)
    /\ Answer(r, FailureOf(r))
    /\ UNCHANGED <<process, kind, dbUp>>

\* Mutant of Timeout: the connection returns to the pool without a ROLLBACK.
TimeoutWithoutRollback(r) ==
    /\ pc[r] \in {"held", "locked"}
    /\ Answer(r, FailureOf(r))
    /\ UNCHANGED <<process, kind, database>>

\* command_timeout: the statement is cancelled, the transaction rolled back.
Timeout(r) ==
    /\ pc[r] \in {"held", "locked"}
    /\ Release(r)
    /\ Answer(r, FailureOf(r))
    /\ UNCHANGED <<process, kind, dbUp>>

\* A statement on a connection that the server has dropped.
FailStatement(r) ==
    /\ pc[r] = "broken"
    /\ Answer(r, FailureOf(r))
    /\ UNCHANGED <<process, kind, database>>

-----------------------------------------------------------------------------
(* The database and its other clients *)

\* Connections break; what their transactions had locked is free.
GoDown ==
    /\ dbUp
    /\ dbUp' = FALSE
    /\ rowLock' = Nobody
    /\ pc' = [r \in Requests |-> IF pc[r] \in Connected THEN "broken" ELSE pc[r]]
    /\ UNCHANGED <<process, kind, result>>

ComeUp ==
    /\ ~ dbUp
    /\ dbUp' = TRUE
    /\ UNCHANGED <<process, requests, rowLock>>

OutsiderLocks ==
    /\ dbUp /\ rowLock = Nobody
    /\ rowLock' = Outsider
    /\ UNCHANGED <<process, requests, dbUp>>

OutsiderReleases ==
    /\ rowLock = Outsider
    /\ rowLock' = Nobody
    /\ UNCHANGED <<process, requests, dbUp>>

-----------------------------------------------------------------------------
Startup == LoadSettings \/ OpenHttpClient \/ OpenPool \/ BuildVerifier \/ FailStartup

Serve(r) ==
    \/ Authenticate(r) \/ Acquire(r) \/ CheckReady(r) \/ LockRow(r)
    \/ Commit(r) \/ Timeout(r) \/ FailStatement(r)

Surroundings == GoDown \/ ComeUp \/ OutsiderLocks \/ OutsiderReleases

Terminating == phase \in {"stopped", "failed"} /\ UNCHANGED vars

Next ==
    \/ Startup \/ Terminate \/ Shutdown \/ Unwind
    \/ \E r \in Requests : Arrive(r) \/ Serve(r)
    \/ Surroundings
    \/ Terminating

Spec == Init /\ [][Next]_vars

FairSpec ==
    /\ Spec
    /\ WF_vars(Startup) /\ WF_vars(Shutdown) /\ WF_vars(Unwind)
    /\ \A r \in Requests : WF_vars(Serve(r))

-----------------------------------------------------------------------------
(* Properties *)

Resources == {"http", "pool"}

TypeOK ==
    /\ phase \in Phases
    /\ opened \in {<<>>, <<"http">>, <<"http", "pool">>}
    /\ closed \in Seq(Resources)
    /\ \/ settings = NotLoaded /\ phase \in {"settings", "failed"}
       \/ /\ settings.min \in Nat /\ settings.max \in Nat \ {0}
          /\ settings.dsn \in {"direct", "malformed"}
    /\ kind \in [Requests -> {"none", "live", "ready", "command"}]
    /\ pc \in [Requests -> {"idle", "auth", "acquire", "done"} \cup Connected]
    /\ result \in [Requests -> {0, 200, 201, 401, 500, 503}]
    /\ dbUp \in BOOLEAN
    /\ rowLock \in Requests \cup {Nobody, Outsider}

(* Nothing leaks: wherever start-up fails, and after every shutdown, each    *)
(* resource that was opened has been closed once, in reverse order          *)
(* (AppServices.create, AppServices.aclose).                                *)
ClosedInReverse ==
    phase \in {"stopped", "failed"} => closed = Reverse(opened)

(* Whatever environment was accepted, none of the assertions of             *)
(* build_verifier fails: "Settings validation guarantees the required       *)
(* per-mode fields are present" (auth/factory.py:15).                       *)
SettingsSuffice == settings.none = {}

(* No request runs without the resources it uses: while one is in flight    *)
(* the pool and the HTTP client are open, so _require_pool never finds the  *)
(* pool gone and no connection is closed under a transaction.               *)
ResourcesOutliveRequests ==
    InFlight # {} => opened = <<"http", "pool">> /\ closed = <<>>

(* The row lock belongs to a request whose transaction is open on a healthy *)
(* pooled connection: none is left behind by a timeout or an outage.        *)
LocksHaveConnections ==
    rowLock \in Requests => dbUp /\ pc[rowLock] = "locked"

(* Every request that arrives is answered, readiness included: an exhausted *)
(* pool, an outage and another client that keeps the row locked for ever    *)
(* delay it, although acquire() itself has no timeout.                      *)
RequestsFinish == \A r \in Requests : pc[r] # "idle" ~> pc[r] = "done"

(* A process that is told to terminate does.                                *)
ShutdownCompletes == phase = "draining" ~> phase = "stopped"
=============================================================================
