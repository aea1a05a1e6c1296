---------------------------- MODULE SigningKeys ----------------------------
(***************************************************************************)
(* PyJWKClientSigningKeyProvider: the signing keys that a key set endpoint *)
(* publishes, the two caches of the one PyJWKClient (the key set for       *)
(* "lifespan" seconds, the last keys by kid for ever), and the worker      *)
(* threads that look keys up for concurrent requests, each fetching the    *)
(* key set at most twice.  PyJWKClient is a library: it is modelled as the *)
(* provider configures it.                                                 *)
(***************************************************************************)
EXTENDS Integers, Sequences, FiniteSets, SequencesExt

CONSTANTS
    Requests,
    Kids,           \* key ids; a key is named by its id
    Lifespan,       \* jwks_cache_ttl_seconds
    MaxCachedKeys,  \* size of the cache by kid, 16 in PyJWKClient
    MaxTime         \* bound on the clock

ASSUME KeysAssumption ==
    Lifespan \in Nat \ {0} /\ MaxCachedKeys \in Nat \ {0} /\ MaxTime \in Nat

VARIABLES
    now,        \* the clock
    published,  \* the keys in the key set that the endpoint serves
    jwks,       \* the cached key set and when it was stored
    lru,        \* the cached keys by kid, last used first
    thread,     \* thread[r]: what the worker thread of request r does
    wanted,     \* wanted[r]: the kid it looks for
    fetched,    \* fetched[r]: the key set it has fetched and not yet stored
    steady      \* requests whose key has been published since their look-up began
                \* and none of whose fetches has failed (history)

keyVars == <<now, published, jwks, lru, thread, wanted, fetched, steady>>

NoKid == "no kid"
NoKeySet == [keys |-> {}, at |-> -1]

ThreadStates ==
    {"none", "lookup",
     "fetch", "store",      \* get_jwk_set() with nothing usable in the cache
     "refetch", "restore",  \* get_jwk_set(refresh=True), for a kid not in the set
     "found", "missing", "error"}

KeysInit ==
    /\ now = 0
    /\ published \in (SUBSET Kids) \ {{}}
    /\ jwks = NoKeySet
    /\ lru = <<>>
    /\ thread = [r \in Requests |-> "none"]
    /\ wanted = [r \in Requests |-> NoKid]
    /\ fetched = [r \in Requests |-> {}]
    /\ steady = {}

KeysTypeOK ==
    /\ now \in 0 .. MaxTime
    /\ published \in SUBSET Kids
    /\ jwks.keys \in SUBSET Kids /\ jwks.at \in -1 .. now
    /\ lru \in Seq(Kids) /\ Len(lru) <= MaxCachedKeys /\ IsInjective(lru)
    /\ thread \in [Requests -> ThreadStates]
    /\ wanted \in [Requests -> Kids \cup {NoKid}]
    /\ fetched \in [Requests -> SUBSET Kids]
    /\ steady \in SUBSET Requests

-----------------------------------------------------------------------------
(* get_signing_key_from_jwt, in the thread of request r *)

Usable == jwks # NoKeySet /\ now <= jwks.at + Lifespan

\* the key was found: it becomes the most recent one in the cache by kid
Remember(kid) ==
    LET used == <<kid>> \o Remove(lru, kid) IN
    lru' = SubSeq(used, 1, IF Len(used) < MaxCachedKeys THEN Len(used) ELSE MaxCachedKeys)

Goes(r, state) == thread' = [thread EXCEPT ![r] = state]

\* asyncio.to_thread: hand the token's kid to a worker thread
StartLookUp(r, kid) ==
    /\ Goes(r, "lookup")
    /\ wanted' = [wanted EXCEPT ![r] = kid]
    /\ UNCHANGED <<now, published, jwks, lru, fetched>>
    /\ steady' = IF kid \in published THEN steady \cup {r} ELSE steady \ {r}

\* the thread's outcome is taken
EndLookUp(r) ==
    /\ thread[r] \in {"found", "missing", "error"}
    /\ Goes(r, "none")
    /\ wanted' = [wanted EXCEPT ![r] = NoKid]
    /\ UNCHANGED <<now, published, jwks, lru, fetched>>
    /\ steady' = steady \ {r}

\* Mutant of LookUp: a kid that the cached set lacks is not looked for again.
LookUpWithoutRefresh(r) ==
    /\ thread[r] = "lookup"
    /\ IF wanted[r] \in Range(lru) \/ (Usable /\ wanted[r] \in jwks.keys)
       THEN Goes(r, "found") /\ Remember(wanted[r])
       ELSE Goes(r, IF Usable THEN "missing" ELSE "fetch") /\ UNCHANGED lru
    /\ UNCHANGED <<now, published, jwks, wanted, fetched, steady>>

LookUp(r) ==
    /\ thread[r] = "lookup"
    /\ IF wanted[r] \in Range(lru) \/ (Usable /\ wanted[r] \in jwks.keys)
       THEN Goes(r, "found") /\ Remember(wanted[r])
       ELSE Goes(r, IF Usable THEN "refetch" ELSE "fetch") /\ UNCHANGED lru
    /\ UNCHANGED <<now, published, jwks, wanted, fetched, steady>>

Fetch(r) ==
    /\ thread[r] \in {"fetch", "refetch"}
    /\ fetched' = [fetched EXCEPT ![r] = published]
    /\ Goes(r, IF thread[r] = "fetch" THEN "store" ELSE "restore")
    /\ UNCHANGED <<now, published, jwks, lru, wanted, steady>>

(* No answer within jwks_http_timeout, which is a PyJWKClientError, or one    *)
(* that is not JSON, which is not; either way the cached set is dropped.     *)
FailFetch(r) ==
    /\ thread[r] \in {"fetch", "refetch"}
    /\ Goes(r, "missing") \/ Goes(r, "error")
    /\ jwks' = NoKeySet
    /\ UNCHANGED <<now, published, lru, wanted, fetched>>
    /\ steady' = steady \ {r}

\* Mutant of Store: fetch again until the key set has the key.
StoreRetrying(r) ==
    /\ thread[r] \in {"store", "restore"}
    /\ jwks' = [keys |-> fetched[r], at |-> now]
    /\ IF wanted[r] \in fetched[r]
       THEN Goes(r, "found") /\ Remember(wanted[r])
       ELSE Goes(r, "refetch") /\ UNCHANGED lru
    /\ fetched' = [fetched EXCEPT ![r] = {}]
    /\ UNCHANGED <<now, published, wanted, steady>>

(* The set is cached as of now, whatever other threads have cached since it  *)
(* was fetched, and searched; the first miss fetches once more.              *)
Store(r) ==
    /\ thread[r] \in {"store", "restore"}
    /\ jwks' = [keys |-> fetched[r], at |-> now]
    /\ IF wanted[r] \in fetched[r]
       THEN Goes(r, "found") /\ Remember(wanted[r])
       ELSE Goes(r, IF thread[r] = "store" THEN "refetch" ELSE "missing") /\ UNCHANGED lru
    /\ fetched' = [fetched EXCEPT ![r] = {}]
    /\ UNCHANGED <<now, published, wanted, steady>>

-----------------------------------------------------------------------------
(* Time and key rotation *)

Tick ==
    /\ now < MaxTime
    /\ now' = now + 1
    /\ UNCHANGED <<published, jwks, lru, thread, wanted, fetched, steady>>

Publish ==
    /\ \E k \in Kids \ published : published' = published \cup {k}
    /\ UNCHANGED <<now, jwks, lru, thread, wanted, fetched, steady>>

Withdraw ==
    \E k \in published :
        /\ published' = published \ {k} /\ published' # {}
        /\ steady' = {r \in steady : wanted[r] # k}
        /\ UNCHANGED <<now, jwks, lru, thread, wanted, fetched>>

-----------------------------------------------------------------------------
(* A key that is published while it is looked for is found, however old the *)
(* cached key set is and whichever set other threads put into the cache     *)
(* meanwhile, unless a fetch for this very look-up fails.                   *)
CurrentKeysFound ==
    \A r \in steady : thread[r] \notin {"missing", "error"}
=============================================================================
