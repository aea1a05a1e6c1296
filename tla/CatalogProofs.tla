--------------------------- MODULE CatalogProofs ---------------------------
(***************************************************************************)
(* Theorems of Catalog: publication is final for any number of concurrent  *)
(* transactions, and a published revision stays complete and frozen when   *)
(* authoring transactions run one at a time, for any revisions, targets,   *)
(* strings and statements.                                                 *)
(***************************************************************************)
EXTENDS Catalog, ReadCommittedProofs

\* TypeOK, and what the proofs need to know of the transactions.
Typed == TypeOK /\ TransactionsOK /\ LocksExclusive

\* What every statement is: a write of rows of the right types, ...
WellTyped(new) ==
    DOMAIN new \subseteq Rows /\ \A x \in DOMAIN new : new[x] \in ValuesOf(x)

\* ... that leaves the published subtrees alone which its transaction sees, ...
SparesPublished(w, new) ==
    \A e \in Revisions : Published(View(w), e) =>
        /\ RevisionRow(e) \notin DOMAIN new
        /\ \A p \in Targets :
              /\ TargetRow(p) \in DOMAIN new => View(w)[TargetRow(p)] # e /\ new[TargetRow(p)] # e
              /\ View(w)[TargetRow(p)] = e => \A n \in Strings : ActionRow(p, n) \notin DOMAIN new

\* ... and publishes what is complete.
PublishesComplete(w, new) ==
    \A e \in Revisions : RevisionRow(e) \in DOMAIN new =>
        /\ new[RevisionRow(e)] # Absent /\ new[RevisionRow(e)].published =>
              new[RevisionRow(e)].written /\ Complete(View(w), e)
        /\ \A p \in Targets : TargetRow(p) \notin DOMAIN new
        /\ \A p \in Targets, n \in Strings : ActionRow(p, n) \notin DOMAIN new

StatementWrites(w, new) ==
    Write(w, new, {}) /\ WellTyped(new) /\ SparesPublished(w, new) /\ PublishesComplete(w, new)

\* A committed published revision has been written by no open transaction.
PublishedUnwritten ==
    \A w \in Writers : \A e \in Revisions :
        RevisionRow(e) \in DOMAIN writes[w] => ~ Published(db, e)

Inv == Typed /\ PublishedUnwritten

-----------------------------------------------------------------------------
\* The three kinds of rows are disjoint.
LEMMA RowKinds ==
    /\ \A e \in Revisions : RevisionRow(e) \in Rows /\ ValuesOf(RevisionRow(e)) = {Absent} \cup Revision
    /\ \A p \in Targets : TargetRow(p) \in Rows /\ ValuesOf(TargetRow(p)) = {Absent} \cup Revisions
    /\ \A p \in Targets, n \in Strings :
          ActionRow(p, n) \in Rows /\ ValuesOf(ActionRow(p, n)) = {Absent} \cup Contents
    /\ \A e \in Revisions, p \in Targets : RevisionRow(e) # TargetRow(p)
    /\ \A e \in Revisions, p \in Targets, n \in Strings : RevisionRow(e) # ActionRow(p, n)
    /\ \A p, q \in Targets, n \in Strings : TargetRow(q) # ActionRow(p, n)
    /\ \A e, f \in Revisions : RevisionRow(e) = RevisionRow(f) => e = f
    /\ \A p, q \in Targets : TargetRow(p) = TargetRow(q) => p = q
    /\ \A p, q \in Targets, n, m \in Strings : ActionRow(p, n) = ActionRow(q, m) => p = q /\ n = m
<1>1. \A e \in Revisions : RevisionRow(e) \in Rows /\ ValuesOf(RevisionRow(e)) = {Absent} \cup Revision
  BY DEF Rows, RevisionRow, ValuesOf
<1>2. \A p \in Targets : TargetRow(p) \in Rows /\ ValuesOf(TargetRow(p)) = {Absent} \cup Revisions
  BY DEF Rows, TargetRow, ValuesOf
<1>3. \A p \in Targets, n \in Strings :
          ActionRow(p, n) \in Rows /\ ValuesOf(ActionRow(p, n)) = {Absent} \cup Contents
  BY DEF Rows, ActionRows, ActionRow, ValuesOf
<1>4. \A e \in Revisions, p \in Targets : RevisionRow(e) # TargetRow(p)
  BY DEF RevisionRow, TargetRow
<1>5. \A e \in Revisions, p \in Targets, n \in Strings : RevisionRow(e) # ActionRow(p, n)
  BY DEF RevisionRow, ActionRow
<1>6. \A p, q \in Targets, n \in Strings : TargetRow(q) # ActionRow(p, n)
  BY DEF TargetRow, ActionRow
<1>7. \A e, f \in Revisions : RevisionRow(e) = RevisionRow(f) => e = f
  BY DEF RevisionRow
<1>8. \A p, q \in Targets : TargetRow(p) = TargetRow(q) => p = q
  BY DEF TargetRow
<1>9. \A p, q \in Targets, n, m \in Strings : ActionRow(p, n) = ActionRow(q, m) => p = q /\ n = m
  BY DEF ActionRow
<1>. QED
  BY <1>1, <1>2, <1>3, <1>4, <1>5, <1>6, <1>7, <1>8, <1>9

LEMMA OneRow ==
    ASSUME NEW x \in Rows, NEW value \in ValuesOf(x)
    PROVE  DOMAIN Set(x, value) = {x} /\ Set(x, value)[x] = value /\ WellTyped(Set(x, value))
<1>1. DOMAIN Set(x, value) = {x} /\ Set(x, value)[x] = value
  BY DEF Set
<1>. QED
  BY <1>1 DEF WellTyped

\* a revision row: value is what it becomes
LEMMA RevisionStatement ==
    ASSUME NEW w \in Writers, NEW e \in Revisions, NEW value \in {Absent} \cup Revision,
           Write(w, Set(RevisionRow(e), value), {}), ~ Published(View(w), e),
           value # Absent => Valid(w, e, value)
    PROVE  \E new : StatementWrites(w, new)
<1>. DEFINE new == Set(RevisionRow(e), value)
<1>1. DOMAIN new = {RevisionRow(e)} /\ new[RevisionRow(e)] = value /\ WellTyped(new)
  BY RowKinds, OneRow
<1>2. SparesPublished(w, new)
  BY <1>1, RowKinds DEF SparesPublished
<1>3. PublishesComplete(w, new)
  BY <1>1, RowKinds DEF PublishesComplete, Valid
<1>. QED
  BY <1>1, <1>2, <1>3 DEF StatementWrites

\* a target row: value is its revision, or Absent
LEMMA TargetStatement ==
    ASSUME NEW w \in Writers, NEW p \in Targets, NEW value \in {Absent} \cup Revisions,
           Write(w, Set(TargetRow(p), value), {}), ~ ParentPublished(View(w), p),
           value # Absent => ~ Published(View(w), value)
    PROVE  \E new : StatementWrites(w, new)
<1>. DEFINE new == Set(TargetRow(p), value)
<1>1. DOMAIN new = {TargetRow(p)} /\ new[TargetRow(p)] = value /\ WellTyped(new)
  BY RowKinds, OneRow
<1>2. SparesPublished(w, new)
  BY <1>1, RowKinds, AbsentAssumption DEF SparesPublished, ParentPublished
<1>3. PublishesComplete(w, new)
  BY <1>1, RowKinds DEF PublishesComplete
<1>. QED
  BY <1>1, <1>2, <1>3 DEF StatementWrites

\* action rows of targets whose revisions are drafts
LEMMA ActionStatement ==
    ASSUME NEW w \in Writers, NEW new, Write(w, new, {}), WellTyped(new),
           NEW p \in Targets, NEW q \in Targets, NEW n \in Strings,
           DOMAIN new \subseteq {ActionRow(p, n), ActionRow(q, n)},
           ~ ParentPublished(View(w), p), ~ ParentPublished(View(w), q)
    PROVE  StatementWrites(w, new)
<1>1. SparesPublished(w, new)
  BY RowKinds, AbsentAssumption DEF SparesPublished, ParentPublished
<1>2. PublishesComplete(w, new)
  BY RowKinds DEF PublishesComplete
<1>. QED
  BY <1>1, <1>2 DEF StatementWrites

LEMMA StatementDef ==
    ASSUME NEW w \in Writers, Statement(w)
    PROVE  \E new : StatementWrites(w, new)
<1>1. ASSUME NEW e \in Revisions, InsertRevision(w, e) \/ UpdateRevision(w, e)
      PROVE  \E new : StatementWrites(w, new)
  <2>1. PICK new \in Revision :
          ~ Published(View(w), e) /\ Valid(w, e, new) /\ Write(w, Set(RevisionRow(e), new), {})
    BY <1>1 DEF InsertRevision, UpdateRevision, Exists, Published
  <2>. QED
    BY <2>1, RevisionStatement
<1>2. ASSUME NEW e \in Revisions, DeleteRevision(w, e)
      PROVE  \E new : StatementWrites(w, new)
  BY <1>2, RevisionStatement DEF DeleteRevision
<1>3. ASSUME NEW p \in Targets, InsertTarget(w, p) \/ MoveTarget(w, p)
      PROVE  \E new : StatementWrites(w, new)
  <2>1. PICK e \in Revisions :
          ~ ParentPublished(View(w), p) /\ ~ Published(View(w), e) /\ Write(w, Set(TargetRow(p), e), {})
    BY <1>3 DEF InsertTarget, MoveTarget, Exists, ParentPublished
  <2>. QED
    BY <2>1, TargetStatement
<1>4. ASSUME NEW p \in Targets, DeleteTarget(w, p)
      PROVE  \E new : StatementWrites(w, new)
  BY <1>4, TargetStatement DEF DeleteTarget
<1>5. ASSUME NEW p \in Targets, NEW n \in Strings, InsertAction(w, p, n) \/ DeleteAction(w, p, n)
      PROVE  \E new : StatementWrites(w, new)
  <2>1. PICK value \in {Absent} \cup Contents :
          ~ ParentPublished(View(w), p) /\ Write(w, Set(ActionRow(p, n), value), {})
    BY <1>5 DEF InsertAction, DeleteAction
  <2>. DEFINE new == Set(ActionRow(p, n), value)
  <2>2. DOMAIN new = {ActionRow(p, n)} /\ WellTyped(new)
    BY RowKinds, OneRow
  <2>3. StatementWrites(w, new)
    BY <2>1, <2>2, ActionStatement
  <2>. QED
    BY <2>3
<1>6. ASSUME NEW p \in Targets, NEW n \in Strings, UpdateAction(w, p, n)
      PROVE  \E new : StatementWrites(w, new)
  <2>1. PICK q \in Targets, content \in Contents :
          /\ ~ ParentPublished(View(w), p) /\ ~ ParentPublished(View(w), q)
          /\ Write(w, [x \in {ActionRow(p, n), ActionRow(q, n)} |->
                          IF x = ActionRow(q, n) THEN content ELSE Absent], {})
    BY <1>6 DEF UpdateAction
  <2>. DEFINE new == [x \in {ActionRow(p, n), ActionRow(q, n)} |->
                         IF x = ActionRow(q, n) THEN content ELSE Absent]
  <2>2. WellTyped(new) /\ DOMAIN new \subseteq {ActionRow(p, n), ActionRow(q, n)}
    BY RowKinds DEF WellTyped
  <2>3. StatementWrites(w, new)
    BY <2>1, <2>2, ActionStatement
  <2>. QED
    BY <2>3
<1>. QED
  BY <1>1, <1>2, <1>3, <1>4, <1>5, <1>6 DEF Statement

-----------------------------------------------------------------------------
LEMMA InitInv == Init => Inv
<1>. SUFFICES ASSUME Init PROVE Inv
  OBVIOUS
<1>1. TransactionsOK /\ LocksExclusive
  BY NoTransactionsOK DEF Init
<1>2. \A w \in Writers : DOMAIN writes[w] = {}
  BY DEF Init, NoTransactions, NoWrites
<1>3. TypeOK
  BY <1>1, <1>2 DEF Init, NoTransactions, TypeOK, TransactionsOK, ValuesOf
<1>. QED
  BY <1>1, <1>2, <1>3 DEF Inv, Typed, PublishedUnwritten

LEMMA StatementInv ==
    ASSUME Inv, NEW w \in Writers, Statement(w)
    PROVE  Inv'
<1>1. PICK new : StatementWrites(w, new)
  BY StatementDef DEF Inv
<1>2. DOMAIN new \subseteq DOMAIN db /\ Write(w, new, {})
  BY <1>1 DEF Inv, Typed, TypeOK, StatementWrites, WellTyped
<1>3. /\ UNCHANGED <<db, checked>>
      /\ \A u \in Writers \ {w} : writes'[u] = writes[u]
      /\ DOMAIN writes'[w] = DOMAIN writes[w] \cup DOMAIN new
      /\ \A x \in DOMAIN writes'[w] :
            writes'[w][x] = IF x \in DOMAIN new THEN new[x] ELSE writes[w][x]
      /\ TransactionsOK' /\ LocksExclusive'
  BY <1>2, WriteDef, WriteKeepsLocks DEF Inv, Typed
<1>4. TypeOK'
  <2>1. \A u \in Writers : \A x \in DOMAIN writes'[u] : x \in Rows /\ writes'[u][x] \in ValuesOf(x)
    BY <1>1, <1>3 DEF Inv, Typed, TypeOK, StatementWrites, WellTyped
  <2>2. events' = [u \in Writers |-> {}]
    BY <1>2 DEF Write, Inv, Typed, TypeOK
  <2>. QED
    BY <1>3, <2>1, <2>2 DEF Inv, Typed, TypeOK, TransactionsOK
<1>5. PublishedUnwritten'
  <2>1. ASSUME NEW e \in Revisions, RevisionRow(e) \in DOMAIN new
        PROVE  ~ Published(db, e)
    <3>1. ~ Published(View(w), e)
      BY <1>1, <2>1 DEF StatementWrites, SparesPublished
    <3>2. RevisionRow(e) \in DOMAIN db
      BY <1>2, <2>1
    <3>3. CASE RevisionRow(e) \in DOMAIN writes[w]
      BY <3>3 DEF Inv, PublishedUnwritten
    <3>4. CASE RevisionRow(e) \notin DOMAIN writes[w]
      BY <3>1, <3>2, <3>4, ViewDef DEF Published
    <3>. QED
      BY <3>3, <3>4
  <2>. QED
    BY <1>3, <2>1 DEF Inv, PublishedUnwritten, Published
<1>. QED
  BY <1>3, <1>4, <1>5 DEF Inv, Typed

LEMMA CommitInv ==
    ASSUME Inv, NEW w \in Writers, Commit(w)
    PROVE  Inv'
<1>1. /\ DOMAIN db' = DOMAIN db
      /\ \A x \in DOMAIN db : db'[x] = IF x \in DOMAIN writes[w] THEN writes[w][x] ELSE db[x]
      /\ \A u \in Writers \ {w} : writes'[u] = writes[u] /\ events'[u] = events[u]
      /\ DOMAIN writes'[w] = {} /\ events'[w] = {}
      /\ TransactionsOK' /\ LocksExclusive'
  BY CommitDef DEF Inv, Typed
<1>2. TypeOK'
  <2>1. events' = [u \in Writers |-> {}]
    BY DEF Commit, Reset, Inv, Typed, TypeOK
  <2>. QED
    BY <1>1, <2>1 DEF Inv, Typed, TypeOK, TransactionsOK
<1>3. PublishedUnwritten'
  <2>. SUFFICES ASSUME NEW u \in Writers, NEW e \in Revisions, RevisionRow(e) \in DOMAIN writes'[u]
                PROVE  ~ Published(db', e)
    BY DEF PublishedUnwritten, Published
  <2>1. u # w /\ RevisionRow(e) \in DOMAIN writes[u]
    BY <1>1
  <2>2. RevisionRow(e) \notin DOMAIN writes[w]
    BY <2>1 DEF Inv, Typed, LocksExclusive
  <2>3. db'[RevisionRow(e)] = db[RevisionRow(e)]
    BY <1>1, <2>1, <2>2, RowKinds DEF Inv, Typed, TypeOK
  <2>. QED
    BY <2>1, <2>3 DEF Inv, PublishedUnwritten, Published
<1>. QED
  BY <1>1, <1>2, <1>3 DEF Inv, Typed

LEMMA OtherInv ==
    ASSUME Inv, NEW w \in Writers, RunDeferred(w, TRUE) \/ Rollback(w)
    PROVE  Inv' /\ db' = db
<1>1. CASE RunDeferred(w, TRUE)
  BY <1>1, RunDeferredDef
     DEF Inv, Typed, TypeOK, TransactionsOK, LocksExclusive, PublishedUnwritten, Published
<1>2. CASE Rollback(w)
  <2>1. /\ db' = db
        /\ \A u \in Writers \ {w} : writes'[u] = writes[u]
        /\ DOMAIN writes'[w] = {}
        /\ TransactionsOK' /\ LocksExclusive'
    BY <1>2, RollbackDef DEF Inv, Typed
  <2>2. events' = [u \in Writers |-> {}]
    BY <1>2 DEF Rollback, Reset, Inv, Typed, TypeOK
  <2>3. TypeOK'
    BY <2>1, <2>2 DEF Inv, Typed, TypeOK, TransactionsOK
  <2>. QED
    BY <2>1, <2>3 DEF Inv, Typed, PublishedUnwritten, Published
<1>. QED
  BY <1>1, <1>2

LEMMA NextInv ==
    ASSUME Inv, [Next]_vars
    PROVE  Inv'
<1>1. CASE UNCHANGED vars
  BY <1>1 DEF vars, Inv, Typed, TypeOK, TransactionsOK, LocksExclusive, PublishedUnwritten, Published
<1>2. CASE Next
  BY <1>2, StatementInv, CommitInv, OtherInv DEF Next
<1>. QED
  BY <1>1, <1>2

THEOREM Invariance == Spec => []Inv
<1>. QED
  BY InitInv, NextInv, PTL DEF Spec

(* Rows keep their types, whatever statements run.                           *)
THEOREM TypeCorrect == Spec => []TypeOK
<1>1. Inv => TypeOK
  BY DEF Inv, Typed
<1>. QED
  BY <1>1, Invariance, PTL

(* However many transactions edit and publish drafts at the same time, what  *)
(* is published is never edited: a transaction that wrote the draft first    *)
(* holds its lock, and one that comes later sees it published.               *)
THEOREM PublishedForGood == Spec => PublicationIsFinal
<1>1. ASSUME Inv, [Next]_vars, NEW e \in Revisions, Published(db, e)
      PROVE  db'[RevisionRow(e)] = db[RevisionRow(e)]
  <2>1. ASSUME NEW w \in Writers, Commit(w)
        PROVE  db'[RevisionRow(e)] = db[RevisionRow(e)]
    <3>1. RevisionRow(e) \in DOMAIN db /\ RevisionRow(e) \notin DOMAIN writes[w]
      BY <1>1, RowKinds DEF Inv, Typed, TypeOK, PublishedUnwritten
    <3>. QED
      BY <1>1, <2>1, <3>1, CommitDef DEF Inv, Typed
  <2>2. ASSUME NEW w \in Writers, Statement(w)
        PROVE  db' = db
    <3>1. PICK new : Write(w, new, {})
      BY <1>1, <2>2, StatementDef DEF Inv, StatementWrites
    <3>. QED
      BY <3>1 DEF Write
  <2>3. ASSUME NEW w \in Writers, RunDeferred(w, TRUE) \/ Rollback(w)
        PROVE  db' = db
    BY <1>1, <2>3, OtherInv
  <2>. QED
    BY <1>1, <2>1, <2>2, <2>3 DEF Next, vars
<1>2. Inv /\ [Next]_vars =>
        [\A e \in Revisions : Published(db, e) => db'[RevisionRow(e)] = db[RevisionRow(e)]]_vars
  BY <1>1
<1>. QED
  BY <1>2, Invariance, PTL DEF Spec, PublicationIsFinal

-----------------------------------------------------------------------------
(* Authoring transactions that run one at a time.  Several at a time do not  *)
(* keep what follows: see run catalog_raw.                                   *)

OneAuthor == \A u, w \in Writers : u = w

CompleteIfPublished(rows, e) ==
    Published(rows, e) => rows[RevisionRow(e)].written /\ Complete(rows, e)

SameSubtree(rows, old, e) ==
    \A p \in Targets :
        /\ rows[TargetRow(p)] = e <=> old[TargetRow(p)] = e
        /\ old[TargetRow(p)] = e => \A n \in Strings : rows[ActionRow(p, n)] = old[ActionRow(p, n)]

\* What the author sees, and what is committed.
AuthorInv ==
    \A e \in Revisions :
        /\ CompleteIfPublished(db, e)
        /\ \A w \in Writers : CompleteIfPublished(View(w), e)
        /\ \A w \in Writers : Published(db, e) => SameSubtree(View(w), db, e)

\* A statement changes in the view of its transaction what it writes.
LEMMA ViewNext ==
    ASSUME Inv, NEW w \in Writers, NEW new, StatementWrites(w, new)
    PROVE  /\ DOMAIN View(w) = Rows /\ DOMAIN View(w)' = Rows
           /\ \A x \in Rows : View(w)'[x] = IF x \in DOMAIN new THEN new[x] ELSE View(w)[x]
<1>1. DOMAIN db = Rows /\ DOMAIN new \subseteq DOMAIN db /\ Write(w, new, {})
  BY DEF Inv, Typed, TypeOK, StatementWrites, WellTyped
<1>2. /\ db' = db
      /\ DOMAIN writes'[w] = DOMAIN writes[w] \cup DOMAIN new
      /\ \A x \in DOMAIN writes'[w] :
            writes'[w][x] = IF x \in DOMAIN new THEN new[x] ELSE writes[w][x]
  BY <1>1, WriteDef DEF Inv, Typed
<1>. QED
  BY <1>1, <1>2 DEF View

\* Complete looks at the target and action rows only.
LEMMA SameComplete ==
    ASSUME NEW rows, NEW old, NEW e \in Revisions, SameSubtree(rows, old, e), Complete(old, e)
    PROVE  Complete(rows, e)
<1>1. TargetsOf(rows, e) = TargetsOf(old, e)
  BY DEF SameSubtree, TargetsOf
<1>2. \A p \in TargetsOf(old, e) : \A n \in Strings : rows[ActionRow(p, n)] = old[ActionRow(p, n)]
  BY DEF SameSubtree, TargetsOf
<1>. QED
  BY <1>1, <1>2 DEF Complete, ActionRows

LEMMA StatementAuthor ==
    ASSUME Inv, OneAuthor, AuthorInv, NEW w \in Writers, Statement(w)
    PROVE  AuthorInv'
<1>1. PICK new : StatementWrites(w, new)
  BY StatementDef
<1>2. db' = db
  BY <1>1 DEF StatementWrites, Write
<1>3. \A x \in Rows : View(w)'[x] = IF x \in DOMAIN new THEN new[x] ELSE View(w)[x]
  BY <1>1, ViewNext
<1>4. ASSUME NEW e \in Revisions, Published(View(w), e)
      PROVE  /\ SameSubtree(View(w)', View(w), e)
             /\ View(w)'[RevisionRow(e)] = View(w)[RevisionRow(e)]
  <2>1. SparesPublished(w, new)
    BY <1>1 DEF StatementWrites
  <2>2. View(w)'[RevisionRow(e)] = View(w)[RevisionRow(e)]
    BY <1>3, <1>4, <2>1, RowKinds DEF SparesPublished
  <2>3. ASSUME NEW p \in Targets
        PROVE  /\ View(w)'[TargetRow(p)] = e <=> View(w)[TargetRow(p)] = e
               /\ View(w)[TargetRow(p)] = e =>
                     \A n \in Strings : View(w)'[ActionRow(p, n)] = View(w)[ActionRow(p, n)]
    BY <1>3, <1>4, <2>1, RowKinds DEF SparesPublished
  <2>. QED
    BY <2>2, <2>3 DEF SameSubtree
<1>5. ASSUME NEW e \in Revisions, Published(View(w)', e)
      PROVE  View(w)'[RevisionRow(e)].written /\ Complete(View(w)', e)
  <2>1. CASE RevisionRow(e) \in DOMAIN new
    <3>1. View(w)'[RevisionRow(e)] = new[RevisionRow(e)] /\ PublishesComplete(w, new)
      BY <1>1, <1>3, <2>1, RowKinds DEF StatementWrites
    <3>2. new[RevisionRow(e)].written /\ Complete(View(w), e)
      BY <1>5, <2>1, <3>1 DEF PublishesComplete, Published
    <3>3. SameSubtree(View(w)', View(w), e)
      BY <1>3, <2>1, <3>1, RowKinds DEF PublishesComplete, SameSubtree
    <3>. QED
      BY <3>1, <3>2, <3>3, SameComplete
  <2>2. CASE RevisionRow(e) \notin DOMAIN new
    <3>1. View(w)'[RevisionRow(e)] = View(w)[RevisionRow(e)]
      BY <1>3, <2>2, RowKinds
    <3>2. Published(View(w), e)
      BY <1>5, <3>1 DEF Published
    <3>. QED
      BY <1>4, <3>1, <3>2, SameComplete DEF AuthorInv, CompleteIfPublished
  <2>. QED
    BY <2>1, <2>2
<1>6. ASSUME NEW e \in Revisions, Published(db, e)
      PROVE  SameSubtree(View(w)', db, e)
  <2>1. RevisionRow(e) \in DOMAIN db /\ RevisionRow(e) \notin DOMAIN writes[w]
    BY <1>6, RowKinds DEF Inv, Typed, TypeOK, PublishedUnwritten
  <2>2. Published(View(w), e)
    BY <1>6, <2>1, ViewDef DEF Published
  <2>3. SameSubtree(View(w), db, e) /\ SameSubtree(View(w)', View(w), e)
    BY <1>4, <1>6, <2>2 DEF AuthorInv
  <2>. QED
    BY <2>3 DEF SameSubtree
<1>7. \A u \in Writers : u = w
  BY DEF OneAuthor
<1>8. \A e \in Revisions : Published(db', e) <=> Published(db, e)
  BY <1>2 DEF Published
<1>. QED
  BY <1>2, <1>5, <1>6, <1>7, <1>8 DEF AuthorInv, CompleteIfPublished, SameSubtree, Complete, TargetsOf

\* After a commit or a rollback the author sees what is committed.
LEMMA EndAuthor ==
    ASSUME Inv, OneAuthor, AuthorInv, NEW w \in Writers, Commit(w) \/ Rollback(w)
    PROVE  AuthorInv'
<1>1. DOMAIN writes'[w] = {} /\ DOMAIN db' = DOMAIN db /\ (db' = View(w) \/ db' = db)
  BY CommitDef, RollbackDef DEF Inv, Typed, Commit
<1>2. \A x \in DOMAIN db' : View(w)'[x] = db'[x]
  BY <1>1 DEF View
<1>3. ASSUME NEW e \in Revisions
      PROVE  /\ RevisionRow(e) \in DOMAIN db' /\ \A p \in Targets : TargetRow(p) \in DOMAIN db'
             /\ \A p \in Targets, n \in Strings : ActionRow(p, n) \in DOMAIN db'
  BY <1>1, RowKinds DEF Inv, Typed, TypeOK
<1>4. ASSUME NEW e \in Revisions
      PROVE  CompleteIfPublished(db', e)
  BY <1>1 DEF AuthorInv
<1>5. ASSUME NEW e \in Revisions
      PROVE  SameSubtree(View(w)', db', e)
  BY <1>2, <1>3 DEF SameSubtree
<1>6. ASSUME NEW e \in Revisions, Published(View(w)', e)
      PROVE  View(w)'[RevisionRow(e)].written /\ Complete(View(w)', e)
  <2>1. View(w)'[RevisionRow(e)] = db'[RevisionRow(e)]
    BY <1>2, <1>3
  <2>. QED
    BY <1>4, <1>5, <1>6, <2>1, SameComplete DEF CompleteIfPublished, Published
<1>7. \A u \in Writers : u = w
  BY DEF OneAuthor
<1>. QED
  BY <1>4, <1>5, <1>6, <1>7 DEF AuthorInv, CompleteIfPublished, Published, SameSubtree, Complete, TargetsOf

LEMMA AuthorNext ==
    ASSUME Inv, OneAuthor, AuthorInv, [Next]_vars
    PROVE  AuthorInv'
<1>1. CASE UNCHANGED <<db, writes>>
  <2>1. \A w \in Writers : View(w)' = View(w)
    BY <1>1 DEF View
  <2>. QED
    BY <1>1, <2>1 DEF AuthorInv, CompleteIfPublished, Published, SameSubtree, Complete, TargetsOf
<1>2. \A w \in Writers : RunDeferred(w, TRUE) => UNCHANGED <<db, writes>>
  BY DEF RunDeferred
<1>. QED
  BY <1>1, <1>2, StatementAuthor, EndAuthor DEF Next, vars

LEMMA AuthorInit ==
    ASSUME Init
    PROVE  AuthorInv
<1>1. \A w \in Writers : DOMAIN writes[w] = {}
  BY DEF Init, NoTransactions, NoWrites
<1>2. ASSUME NEW e \in Revisions
      PROVE  /\ ~ Published(db, e)
             /\ \A w \in Writers : ~ Published(View(w), e)
  BY <1>1, RowKinds, ViewDef DEF Init, Published
<1>. QED
  BY <1>2 DEF AuthorInv, CompleteIfPublished

THEOREM AuthorInvariance ==
    ASSUME OneAuthor
    PROVE  Spec => []AuthorInv
<1>1. Inv /\ AuthorInv /\ [Next]_vars => AuthorInv'
  BY AuthorNext
<1>. QED
  BY AuthorInit, <1>1, Invariance, PTL DEF Spec

(* A published revision stays complete, for any revisions, targets, strings  *)
(* and statements of one author at a time.                                   *)
THEOREM PublishedStaysComplete ==
    ASSUME OneAuthor
    PROVE  Spec => []PublishedComplete
<1>1. ASSUME Inv, AuthorInv, NEW e \in Revisions, Published(db, e)
      PROVE  /\ db[RevisionRow(e)].written
             /\ \E p \in Targets : db[TargetRow(p)] = e
             /\ \A p \in Targets, n \in Strings :
                   db[TargetRow(p)] = e => db[ActionRow(p, n)] \in Contents
  <2>1. db[RevisionRow(e)].written /\ Complete(db, e)
    BY <1>1 DEF AuthorInv, CompleteIfPublished
  <2>2. \A p \in Targets, n \in Strings : db[ActionRow(p, n)] \in {Absent} \cup Contents
    BY <1>1, RowKinds DEF Inv, Typed, TypeOK
  <2>. QED
    BY <2>1, <2>2 DEF Complete, TargetsOf, ActionRows
<1>2. Inv /\ AuthorInv => PublishedComplete
  BY <1>1 DEF PublishedComplete
<1>. QED
  BY <1>2, Invariance, AuthorInvariance, PTL

(* ... and never changes.                                                    *)
THEOREM PublishedStaysFrozen ==
    ASSUME OneAuthor
    PROVE  Spec => PublishedSubtreeFrozen
<1>1. ASSUME Inv, AuthorInv, [Next]_vars, NEW e \in Revisions, Published(db, e)
      PROVE  Subtree(db', e) = Subtree(db, e)
  <2>1. CASE db' = db
    BY <2>1 DEF Subtree, TargetsOf
  <2>2. ASSUME NEW w \in Writers, Commit(w)
        PROVE  Subtree(db', e) = Subtree(db, e)
    <3>1. db' = View(w) /\ SameSubtree(View(w), db, e)
      BY <1>1, <2>2 DEF Commit, AuthorInv
    <3>2. TargetsOf(db', e) = TargetsOf(db, e)
      BY <3>1 DEF SameSubtree, TargetsOf
    <3>3. \A p \in TargetsOf(db, e) : \A n \in Strings : db'[ActionRow(p, n)] = db[ActionRow(p, n)]
      BY <3>1 DEF SameSubtree, TargetsOf
    <3>. QED
      BY <3>2, <3>3 DEF Subtree
  <2>3. ASSUME NEW w \in Writers, Statement(w) \/ RunDeferred(w, TRUE) \/ Rollback(w)
        PROVE  db' = db
    BY <2>3, StatementDef DEF StatementWrites, Write, RunDeferred, Rollback
  <2>. QED
    BY <1>1, <2>1, <2>2, <2>3 DEF Next, vars
<1>2. Inv /\ AuthorInv /\ [Next]_vars =>
        [\A e \in Revisions : Published(db, e) => Subtree(db', e) = Subtree(db, e)]_vars
  BY <1>1
<1>. QED
  BY <1>2, Invariance, AuthorInvariance, PTL DEF Spec, PublishedSubtreeFrozen
=============================================================================
