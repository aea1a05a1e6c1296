------------------------- MODULE AppServicesProofs -------------------------
(***************************************************************************)
(* Theorems of AppServices, for any number of requests and whatever        *)
(* environments the process may be started in.                             *)
(***************************************************************************)
EXTENDS AppServices, SequenceTheorems, TLAPS

USE RequestsAssumption DEF Nobody, Outsider

(* What the exit stack has been through at each point of the lifespan.       *)
StackFollowsPhase ==
    /\ phase \in {"settings", "http"} => opened = <<>>
    /\ phase = "pool" => opened = <<"http">>
    /\ phase \in {"verifier", "serving", "draining"} => opened = <<"http", "pool">>
    /\ phase \notin {"failing", "closing", "stopped", "failed"} => closed = <<>>
    /\ phase \in {"stopped", "failed"} => Len(closed) = Len(opened)

\* The callbacks that have run are the last that were pushed, last first.
PopsInOrder ==
    /\ Len(closed) <= Len(opened)
    /\ \A i \in 1 .. Len(closed) : closed[i] = opened[Len(opened) - i + 1]

(* Requests are in flight only between start-up and the last answer, and a   *)
(* request that believes to have the lock has it.                            *)
RequestsServed ==
    /\ \A r \in Requests : pc[r] \notin {"idle", "done"} => phase \in {"serving", "draining"}
    /\ \A r \in Requests : pc[r] \in {"held", "locked"} => dbUp
    /\ \A r \in Requests : pc[r] = "locked" => rowLock = r

Inv ==
    /\ TypeOK /\ StackFollowsPhase /\ PopsInOrder /\ RequestsServed
    /\ SettingsSuffice /\ LocksHaveConnections

-----------------------------------------------------------------------------
\* What _validate_configuration accepts has all that build_verifier asserts.
LEMMA AcceptedSuffices ==
    ASSUME NEW env \in Environments, Accepted(env)
    PROVE  /\ Loaded(env).none = {}
           /\ Loaded(env).min \in Nat /\ Loaded(env).max \in Nat \ {0}
           /\ Loaded(env).dsn \in {"direct", "malformed"}
<1>1. \A f \in AssertedFields(env.jwt_verification_mode) : env[f] # "missing"
  BY DEF Accepted, JwtModeValid, Given, RequiredFields, AssertedFields
<1>2. /\ env.db_pool_min_size \in Int /\ env.db_pool_min_size >= 0
      /\ env.db_pool_max_size \in Int /\ env.db_pool_max_size >= 1
  BY EnvironmentsAssumption DEF Accepted, FieldsValid, ProcessEnvironment
<1>3. env.database_url \in {"direct", "malformed"}
  BY EnvironmentsAssumption DEF Accepted, FieldsValid, NoPlaceholders, NoTransactionPooler, ProcessEnvironment
<1>. QED
  BY <1>1, <1>2, <1>3 DEF Loaded

LEMMA Stacks ==
    ASSUME TypeOK
    PROVE  opened \in Seq(Resources) /\ closed \in Seq(Resources)
<1>1. <<>> \in Seq(Resources) /\ <<"http">> \in Seq(Resources) /\ <<"http", "pool">> \in Seq(Resources)
  BY DEF Resources
<1>2. opened \in {<<>>, <<"http">>, <<"http", "pool">>} /\ closed \in Seq(Resources)
  BY DEF TypeOK
<1>. QED
  BY <1>1, <1>2, Zenon

LEMMA SecondPush == Append(<<"http">>, "pool") = <<"http", "pool">>
<1>. DEFINE s == Append(<<"http">>, "pool")
            t == <<"http", "pool">>
<1>1. s \in Seq(Resources) /\ t \in Seq(Resources) /\ Len(s) = 2 /\ Len(t) = 2
  BY DEF Resources
<1>2. s[1] = t[1] /\ s[2] = t[2]
  OBVIOUS
<1>3. \A i \in 1 .. Len(s) : s[i] = t[i]
  BY <1>1, <1>2
<1>. QED
  BY <1>1, <1>3, SeqEqual

LEMMA InitInv == Init => Inv
  BY DEF Init, Inv, TypeOK, StackFollowsPhase, PopsInOrder, RequestsServed, SettingsSuffice,
         LocksHaveConnections, NotLoaded, Phases, Resources, Connected

LEMMA StartupInv ==
    ASSUME Inv, Startup
    PROVE  Inv'
<1>1. CASE LoadSettings
  <2>1. ASSUME NEW env \in Environments, Accepted(env), settings' = Loaded(env)
        PROVE  /\ settings'.none = {}
               /\ settings'.min \in Nat /\ settings'.max \in Nat \ {0}
               /\ settings'.dsn \in {"direct", "malformed"}
    BY <2>1, AcceptedSuffices
  <2>2. \/ phase' = "failed" /\ settings' = settings
        \/ /\ phase' = "http" /\ settings'.none = {}
           /\ settings'.min \in Nat /\ settings'.max \in Nat \ {0}
           /\ settings'.dsn \in {"direct", "malformed"}
    BY <1>1, <2>1 DEF LoadSettings
  <2>3. TypeOK'
    BY <1>1, <2>2 DEF LoadSettings, Inv, TypeOK, requests, database, Phases, SettingsSuffice
  <2>. QED
    BY <1>1, <2>2, <2>3 DEF LoadSettings, Inv, TypeOK, StackFollowsPhase, PopsInOrder, RequestsServed, SettingsSuffice,
         LocksHaveConnections, requests, database
<1>2. CASE OpenHttpClient
  BY <1>2 DEF OpenHttpClient, Inv, TypeOK, StackFollowsPhase, PopsInOrder, RequestsServed, SettingsSuffice,
         LocksHaveConnections, requests, database, Phases
<1>3. CASE OpenPool
  <2>1. opened = <<"http">> /\ closed = <<>>
    BY <1>3 DEF OpenPool, Inv, StackFollowsPhase
  <2>2. opened' = <<"http", "pool">> /\ closed' = <<>>
    BY <1>3, <2>1, SecondPush DEF OpenPool, Inv, StackFollowsPhase
  <2>3. PopsInOrder'
    BY <2>2 DEF PopsInOrder
  <2>4. UNCHANGED <<settings, kind, pc, result, dbUp, rowLock>> /\ phase = "pool" /\ phase' = "verifier"
    BY <1>3 DEF OpenPool, requests, database
  <2>5. TypeOK'
    BY <2>2, <2>4 DEF Inv, TypeOK, Phases
  <2>. QED
    BY <2>2, <2>3, <2>4, <2>5 DEF Inv, StackFollowsPhase, RequestsServed, SettingsSuffice, LocksHaveConnections
<1>4. CASE BuildVerifier
  BY <1>4 DEF BuildVerifier, Inv, TypeOK, StackFollowsPhase, PopsInOrder, RequestsServed, SettingsSuffice,
         LocksHaveConnections, requests, database, Phases
<1>5. CASE FailStartup
  BY <1>5 DEF FailStartup, StartupFails, Inv, TypeOK, StackFollowsPhase, PopsInOrder, RequestsServed, SettingsSuffice,
         LocksHaveConnections, requests, database, Phases
<1>. QED
  BY <1>1, <1>2, <1>3, <1>4, <1>5 DEF Startup

LEMMA ShutdownInv ==
    ASSUME Inv, Terminate \/ Shutdown
    PROVE  Inv'
<1>1. ASSUME NEW r \in Requests, Shutdown
      PROVE  pc[r] \in {"idle", "done"}
  BY <1>1 DEF Shutdown, InFlight
<1>2. CASE Terminate
  BY <1>2 DEF Terminate, Inv, TypeOK, StackFollowsPhase, PopsInOrder, RequestsServed, SettingsSuffice,
       LocksHaveConnections, requests, database, Phases
<1>3. CASE Shutdown
  BY <1>1, <1>3 DEF Shutdown, Inv, TypeOK, StackFollowsPhase, PopsInOrder, RequestsServed, SettingsSuffice,
       LocksHaveConnections, requests, database, Phases
<1>. QED
  BY <1>2, <1>3

LEMMA UnwindInv ==
    ASSUME Inv, Unwind
    PROVE  Inv'
<1>1. UNCHANGED <<opened, settings, kind, pc, result, dbUp, rowLock>>
  BY DEF Unwind, requests, database
<1>2. /\ phase \in {"failing", "closing"}
      /\ phase' = phase \/ phase' \in {"failed", "stopped"}
  BY DEF Unwind
<1>3. opened \in Seq(Resources) /\ closed \in Seq(Resources)
  BY Stacks DEF Inv
<1>4. CASE Len(closed) < Len(opened)
  <2>1. closed' = Append(closed, opened[Len(opened) - Len(closed)]) /\ phase' = phase
    BY <1>4 DEF Unwind
  <2>2. opened[Len(opened) - Len(closed)] \in Resources
    BY <1>3, <1>4
  <2>3. /\ closed' \in Seq(Resources)
        /\ Len(closed') = Len(closed) + 1
        /\ closed'[Len(closed) + 1] = opened[Len(opened) - Len(closed)]
        /\ \A i \in 1 .. Len(closed) : closed'[i] = closed[i]
    BY <1>3, <2>1, <2>2, AppendProperties
  <2>4. PopsInOrder'
    <3>1. ASSUME NEW i \in 1 .. Len(closed')
          PROVE  closed'[i] = opened[Len(opened) - i + 1]
      <4>1. CASE i \in 1 .. Len(closed)
        BY <2>3, <4>1 DEF Inv, PopsInOrder
      <4>2. CASE i = Len(closed) + 1
        BY <1>3, <2>3, <4>2
      <4>. QED
        BY <1>3, <2>3, <4>1, <4>2
    <3>. QED
      BY <1>1, <1>3, <1>4, <2>3, <3>1 DEF PopsInOrder
  <2>. QED
    BY <1>1, <1>2, <2>1, <2>3, <2>4
       DEF Inv, TypeOK, StackFollowsPhase, RequestsServed, SettingsSuffice, LocksHaveConnections
<1>5. CASE ~ (Len(closed) < Len(opened))
  <2>1. closed' = closed /\ phase' \in {"failed", "stopped"}
    BY <1>5 DEF Unwind
  <2>2. Len(closed) = Len(opened)
    BY <1>3, <1>5 DEF Inv, PopsInOrder
  <2>. QED
    BY <1>1, <1>2, <2>1, <2>2
       DEF Inv, TypeOK, StackFollowsPhase, PopsInOrder, RequestsServed, SettingsSuffice,
           LocksHaveConnections, Phases
<1>. QED
  BY <1>4, <1>5

RequestStep(r) == Arrive(r) \/ Serve(r)

LEMMA RequestInv ==
    ASSUME Inv, NEW r \in Requests, RequestStep(r)
    PROVE  Inv'
<1>. USE DEF Inv, TypeOK, StackFollowsPhase, PopsInOrder, RequestsServed, SettingsSuffice,
         LocksHaveConnections, process, database, Answer, Goto, Connected
<1>1. CASE Arrive(r)
  BY <1>1 DEF Arrive
<1>2. CASE Authenticate(r)
  BY <1>2 DEF Authenticate
<1>3. CASE Acquire(r)
  BY <1>3 DEF Acquire, FailureOf
<1>4. CASE CheckReady(r)
  BY <1>4 DEF CheckReady
<1>5. CASE LockRow(r)
  BY <1>5 DEF LockRow
<1>6. CASE Commit(r)
  BY <1>6 DEF Commit, Release
<1>7. CASE Timeout(r)
  BY <1>7 DEF Timeout, Release, FailureOf
<1>8. CASE FailStatement(r)
  BY <1>8 DEF FailStatement, FailureOf
<1>. QED
  BY <1>1, <1>2, <1>3, <1>4, <1>5, <1>6, <1>7, <1>8 DEF RequestStep, Serve

\* An outage breaks the open connections; nobody keeps the row lock.
LEMMA GoDownInv ==
    ASSUME Inv, GoDown
    PROVE  Inv'
<1>1. /\ UNCHANGED <<phase, opened, closed, settings, kind, result>>
      /\ dbUp' = FALSE /\ rowLock' = Nobody
      /\ pc' = [r \in Requests |-> IF pc[r] \in Connected THEN "broken" ELSE pc[r]]
  BY DEF GoDown, process
<1>2. pc \in [Requests -> {"idle", "auth", "acquire", "done"} \cup Connected]
  BY DEF Inv, TypeOK
<1>3. pc' \in [Requests -> {"idle", "auth", "acquire", "done"} \cup Connected]
  BY <1>1, <1>2 DEF Connected
<1>4. TypeOK'
  BY <1>1, <1>3 DEF Inv, TypeOK
<1>5. StackFollowsPhase' /\ PopsInOrder' /\ SettingsSuffice'
  BY <1>1 DEF Inv, StackFollowsPhase, PopsInOrder, SettingsSuffice
<1>6. \A r \in Requests :
         /\ pc'[r] \notin {"held", "locked"}
         /\ pc'[r] \notin {"idle", "done"} => pc[r] \notin {"idle", "done"}
  BY <1>1 DEF Connected
<1>7. RequestsServed'
  BY <1>1, <1>6 DEF Inv, RequestsServed
<1>8. LocksHaveConnections'
  BY <1>1 DEF LocksHaveConnections
<1>. QED
  BY <1>4, <1>5, <1>7, <1>8 DEF Inv

LEMMA SurroundingsInv ==
    ASSUME Inv, Surroundings
    PROVE  Inv'
<1>. USE DEF Inv, TypeOK, StackFollowsPhase, PopsInOrder, RequestsServed, SettingsSuffice,
         LocksHaveConnections, process, requests, Connected
<1>1. CASE GoDown
  BY <1>1, GoDownInv
<1>2. CASE ComeUp
  BY <1>2 DEF ComeUp
<1>3. CASE OutsiderLocks
  BY <1>3 DEF OutsiderLocks
<1>4. CASE OutsiderReleases
  BY <1>4 DEF OutsiderReleases
<1>. QED
  BY <1>1, <1>2, <1>3, <1>4 DEF Surroundings

LEMMA NextInv ==
    ASSUME Inv, [Next]_vars
    PROVE  Inv'
<1>1. CASE UNCHANGED vars
  BY <1>1 DEF vars, Inv, TypeOK, StackFollowsPhase, PopsInOrder, RequestsServed, SettingsSuffice, LocksHaveConnections
<1>2. CASE Next
  BY <1>1, <1>2, StartupInv, ShutdownInv, UnwindInv, RequestInv, SurroundingsInv
     DEF Next, RequestStep, Terminating
<1>. QED
  BY <1>1, <1>2

(* The inductive invariant.                                                  *)
THEOREM Invariance == Spec => []Inv
<1>. QED
  BY InitInv, NextInv, PTL DEF Spec

THEOREM TypeCorrect == Spec => []TypeOK
<1>1. Inv => TypeOK
  BY DEF Inv
<1>. QED
  BY <1>1, Invariance, PTL

(* Whatever environments there are: no assertion of build_verifier fails.    *)
THEOREM SettingsAlwaysSuffice == Spec => []SettingsSuffice
<1>1. Inv => SettingsSuffice
  BY DEF Inv
<1>. QED
  BY <1>1, Invariance, PTL

(* For any number of requests, an unfinished one has its resources.          *)
THEOREM RequestsHaveResources == Spec => []ResourcesOutliveRequests
<1>1. Inv => ResourcesOutliveRequests
  BY DEF Inv, ResourcesOutliveRequests, RequestsServed, StackFollowsPhase, InFlight
<1>. QED
  BY <1>1, Invariance, PTL

(* For any number of requests, no row lock is left behind.                   *)
THEOREM LocksAreReleased == Spec => []LocksHaveConnections
<1>1. Inv => LocksHaveConnections
  BY DEF Inv
<1>. QED
  BY <1>1, Invariance, PTL

(* Nothing leaks on any path out of the lifespan.                            *)
THEOREM StackIsUnwound == Spec => []ClosedInReverse
<1>1. Inv => ClosedInReverse
  <2>. SUFFICES ASSUME Inv, phase \in {"stopped", "failed"}
                PROVE  closed = Reverse(opened)
    BY DEF ClosedInReverse
  <2>1. opened \in Seq(Resources) /\ closed \in Seq(Resources) /\ Len(closed) = Len(opened)
    BY Stacks DEF Inv, StackFollowsPhase
  <2>2. Reverse(opened) \in [1 .. Len(opened) -> Resources]
    BY <2>1 DEF Reverse
  <2>3. closed \in [1 .. Len(opened) -> Resources]
    BY <2>1, LenProperties
  <2>4. \A i \in 1 .. Len(opened) : closed[i] = Reverse(opened)[i]
    BY <2>1 DEF Inv, PopsInOrder, Reverse
  <2>. QED
    BY <2>2, <2>3, <2>4
<1>. QED
  BY <1>1, Invariance, PTL
=============================================================================
