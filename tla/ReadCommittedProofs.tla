------------------------ MODULE ReadCommittedProofs ------------------------
(***************************************************************************)
(* What the statements, the commit and the rollback of ReadCommitted do,   *)
(* as the proofs about the tables use it: for any number of connections    *)
(* and whatever a statement writes.                                        *)
(***************************************************************************)
EXTENDS ReadCommitted, TLAPS

TransactionsOK ==
    /\ DOMAIN writes = Writers
    /\ DOMAIN events = Writers
    /\ \A w \in Writers : DOMAIN writes[w] \subseteq DOMAIN db
    /\ step \in [Writers -> 0 .. MaxStatements]
    /\ checked \subseteq Writers

\* A row is written by one open transaction at a time.
LocksExclusive ==
    \A u, w \in Writers : u # w => DOMAIN writes[u] \cap DOMAIN writes[w] = {}

LEMMA NoTransactionsOK ==
    ASSUME NoTransactions
    PROVE  TransactionsOK /\ LocksExclusive
  BY StatementsAssumption DEF NoTransactions, TransactionsOK, LocksExclusive, NoWrites

LEMMA ViewDef ==
    ASSUME NEW w \in Writers
    PROVE  /\ DOMAIN View(w) = DOMAIN db
           /\ \A x \in DOMAIN db :
                 View(w)[x] = IF x \in DOMAIN writes[w] THEN writes[w][x] ELSE db[x]
  BY DEF View

\* A statement adds to the writes of its own transaction and to nothing else.
LEMMA WriteDef ==
    ASSUME NEW w \in Writers, NEW new, NEW queued,
           TransactionsOK, Write(w, new, queued), DOMAIN new \subseteq DOMAIN db
    PROVE  /\ UNCHANGED <<db, checked>>
           /\ \A u \in Writers \ {w} : writes'[u] = writes[u] /\ events'[u] = events[u]
           /\ DOMAIN writes'[w] = DOMAIN writes[w] \cup DOMAIN new
           /\ \A x \in DOMAIN writes'[w] :
                 writes'[w][x] = IF x \in DOMAIN new THEN new[x] ELSE writes[w][x]
           /\ events'[w] = events[w] \cup queued
           /\ TransactionsOK'
<1>1. /\ UNCHANGED <<db, checked>>
      /\ writes' = [writes EXCEPT ![w] =
            [x \in DOMAIN writes[w] \cup DOMAIN new |->
                IF x \in DOMAIN new THEN new[x] ELSE writes[w][x]]]
      /\ events' = [events EXCEPT ![w] = events[w] \cup queued]
      /\ step' = [step EXCEPT ![w] = step[w] + 1] /\ step[w] < MaxStatements
  BY DEF Write
<1>2. /\ DOMAIN writes' = Writers /\ DOMAIN events' = Writers
      /\ \A u \in Writers \ {w} : writes'[u] = writes[u] /\ events'[u] = events[u]
      /\ events'[w] = events[w] \cup queued
      /\ writes'[w] = [x \in DOMAIN writes[w] \cup DOMAIN new |->
                          IF x \in DOMAIN new THEN new[x] ELSE writes[w][x]]
  BY <1>1 DEF TransactionsOK
<1>3. /\ DOMAIN writes'[w] = DOMAIN writes[w] \cup DOMAIN new
      /\ \A x \in DOMAIN writes'[w] :
            writes'[w][x] = IF x \in DOMAIN new THEN new[x] ELSE writes[w][x]
  BY <1>2
<1>4. step' \in [Writers -> 0 .. MaxStatements]
  BY <1>1, StatementsAssumption DEF TransactionsOK
<1>5. TransactionsOK'
  BY <1>1, <1>2, <1>3, <1>4 DEF TransactionsOK
<1>. QED
  BY <1>1, <1>2, <1>3, <1>5

\* ... and waits for the transactions that have written the same rows.
LEMMA WriteKeepsLocks ==
    ASSUME NEW w \in Writers, NEW new, NEW queued,
           TransactionsOK, LocksExclusive, Write(w, new, queued), DOMAIN new \subseteq DOMAIN db
    PROVE  LocksExclusive'
<1>1. /\ \A u \in Writers \ {w} : writes'[u] = writes[u]
      /\ DOMAIN writes'[w] = DOMAIN writes[w] \cup DOMAIN new
  BY WriteDef
<1>2. \A u \in Writers \ {w} : DOMAIN new \cap DOMAIN writes[u] = {}
  BY DEF Write, Free
<1>. QED
  BY <1>1, <1>2 DEF LocksExclusive

\* The end of a transaction leaves the others alone.
LEMMA ResetDef ==
    ASSUME NEW w \in Writers, TransactionsOK, LocksExclusive, Reset(w), DOMAIN db' = DOMAIN db
    PROVE  /\ \A u \in Writers \ {w} : writes'[u] = writes[u] /\ events'[u] = events[u]
           /\ DOMAIN writes'[w] = {} /\ events'[w] = {}
           /\ TransactionsOK' /\ LocksExclusive'
<1>1. /\ DOMAIN writes' = Writers /\ DOMAIN events' = Writers
      /\ \A u \in Writers \ {w} : writes'[u] = writes[u] /\ events'[u] = events[u]
      /\ writes'[w] = NoWrites /\ events'[w] = {}
  BY DEF Reset, TransactionsOK
<1>2. DOMAIN writes'[w] = {}
  BY <1>1 DEF NoWrites
<1>3. step' \in [Writers -> 0 .. MaxStatements] /\ checked' \subseteq Writers
  BY StatementsAssumption DEF Reset, TransactionsOK
<1>. QED
  BY <1>1, <1>2, <1>3 DEF TransactionsOK, LocksExclusive

LEMMA CommitDef ==
    ASSUME NEW w \in Writers, TransactionsOK, LocksExclusive, Commit(w)
    PROVE  /\ DOMAIN db' = DOMAIN db
           /\ \A x \in DOMAIN db :
                 db'[x] = IF x \in DOMAIN writes[w] THEN writes[w][x] ELSE db[x]
           /\ \A u \in Writers \ {w} : writes'[u] = writes[u] /\ events'[u] = events[u]
           /\ DOMAIN writes'[w] = {} /\ events'[w] = {}
           /\ TransactionsOK' /\ LocksExclusive'
<1>1. db' = View(w) /\ Reset(w)
  BY DEF Commit
<1>. QED
  BY <1>1, ViewDef, ResetDef

LEMMA RollbackDef ==
    ASSUME NEW w \in Writers, TransactionsOK, LocksExclusive, Rollback(w)
    PROVE  /\ db' = db
           /\ \A u \in Writers \ {w} : writes'[u] = writes[u] /\ events'[u] = events[u]
           /\ DOMAIN writes'[w] = {} /\ events'[w] = {}
           /\ TransactionsOK' /\ LocksExclusive'
  BY ResetDef DEF Rollback

LEMMA RunDeferredDef ==
    ASSUME NEW w \in Writers, NEW passed, TransactionsOK, LocksExclusive, RunDeferred(w, passed)
    PROVE  /\ UNCHANGED <<db, writes, events, step>>
           /\ checked' = checked \cup {w} /\ passed
           /\ TransactionsOK' /\ LocksExclusive'
  BY DEF RunDeferred, TransactionsOK, LocksExclusive
=============================================================================
