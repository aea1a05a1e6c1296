------------------------------ MODULE Catalog ------------------------------
(***************************************************************************)
(* Authoring and publishing of exercise revisions: what the triggers       *)
(* validate_publish, block_published_er, freeze_tpr and freeze_tsa of      *)
(* migration 0004 promise of a published revision, its target positions    *)
(* and their string actions, whatever SQL is run.                          *)
(***************************************************************************)
EXTENDS ReadCommitted

CONSTANTS
    Revisions, Targets,
    Strings,    \* the strings of an instrument: 1 .. 6 in the code
    Contents    \* what a string action can say

ASSUME AbsentAssumption == Absent \notin Revisions /\ Absent \notin Contents

RevisionRow(e) == <<"revision", e>>
TargetRow(p) == <<"target", p>>
ActionRow(p, n) == <<"action", p, n>>
ActionRows(p) == {ActionRow(p, n) : n \in Strings}

Rows == {RevisionRow(e) : e \in Revisions} \cup {TargetRow(p) : p \in Targets}
            \cup UNION {ActionRows(p) : p \in Targets}

(* A revision row is draft or published and has texts or not; a target row   *)
(* is its exercise_revision_id; an action row says what the string does.     *)
Revision == [published : BOOLEAN, written : BOOLEAN]

ValuesOf(x) ==
    {Absent} \cup CASE x[1] = "revision" -> Revision
                    [] x[1] = "target" -> Revisions
                    [] x[1] = "action" -> Contents

vars == <<db, writes, events, step, checked>>

Init ==
    /\ db = [x \in Rows |-> Absent]
    /\ NoTransactions

-----------------------------------------------------------------------------
(* What the triggers look at *)

\* er_is_published
Published(rows, e) ==
    rows[RevisionRow(e)] # Absent /\ rows[RevisionRow(e)].published

\* tsa_parent_published
ParentPublished(rows, p) ==
    rows[TargetRow(p)] # Absent /\ Published(rows, rows[TargetRow(p)])

TargetsOf(rows, e) == {p \in Targets : rows[TargetRow(p)] = e}

\* Mutant of Complete: the existence of a target is not checked.
CompleteTargetsOnly(rows, e) ==
    \A p \in TargetsOf(rows, e) : \A x \in ActionRows(p) : rows[x] # Absent

\* trg_validate_publish: a target, and an action for each string of each target
Complete(rows, e) ==
    /\ TargetsOf(rows, e) # {}
    /\ \A p \in TargetsOf(rows, e) : \A x \in ActionRows(p) : rows[x] # Absent

-----------------------------------------------------------------------------
(* exercise_revisions *)

Valid(w, e, new) == new.published => new.written /\ Complete(View(w), e)

InsertRevision(w, e) ==
    \E new \in Revision :
        /\ ~ Exists(w, RevisionRow(e))
        /\ Valid(w, e, new)
        /\ Write(w, Set(RevisionRow(e), new), {})

UpdateRevision(w, e) ==
    \E new \in Revision :
        /\ Exists(w, RevisionRow(e))
        /\ ~ Published(View(w), e)
        /\ Valid(w, e, new)
        /\ Write(w, Set(RevisionRow(e), new), {})

\* on delete restrict: no target refers to it, committed or about to be
DeleteRevision(w, e) ==
    /\ Exists(w, RevisionRow(e))
    /\ ~ Published(View(w), e)
    /\ TargetsOf(View(w), e) = {}
    /\ \A u \in Writers \ {w} : \A p \in Targets :
          TargetRow(p) \in DOMAIN writes[u] => e \notin {db[TargetRow(p)], writes[u][TargetRow(p)]}
    /\ Write(w, Set(RevisionRow(e), Absent), {})

-----------------------------------------------------------------------------
(* target_position_revisions: trigger freeze_tpr *)

InsertTarget(w, p) ==
    \E e \in Revisions :
        /\ ~ Exists(w, TargetRow(p))
        /\ ~ Published(View(w), e)
        /\ ParentHeld(w, RevisionRow(e))
        /\ Write(w, Set(TargetRow(p), e), {})

\* Mutant of MoveTarget: only the old parent is looked at.
MoveTargetAnywhere(w, p) ==
    \E e \in Revisions :
        /\ Exists(w, TargetRow(p))
        /\ ~ ParentPublished(View(w), p)
        /\ ParentHeld(w, RevisionRow(e))
        /\ Write(w, Set(TargetRow(p), e), {})

MoveTarget(w, p) ==
    \E e \in Revisions :
        /\ Exists(w, TargetRow(p))
        /\ ~ ParentPublished(View(w), p)
        /\ ~ Published(View(w), e)
        /\ ParentHeld(w, RevisionRow(e))
        /\ Write(w, Set(TargetRow(p), e), {})

DeleteTarget(w, p) ==
    /\ Exists(w, TargetRow(p))
    /\ ~ ParentPublished(View(w), p)
    /\ \A x \in ActionRows(p) : ~ Exists(w, x)
    /\ Free(w, ActionRows(p))
    /\ Write(w, Set(TargetRow(p), Absent), {})

-----------------------------------------------------------------------------
(* target_string_actions: trigger freeze_tsa *)

InsertAction(w, p, n) ==
    /\ ~ Exists(w, ActionRow(p, n))
    /\ ~ ParentPublished(View(w), p)
    /\ ParentHeld(w, TargetRow(p))
    /\ \E content \in Contents : Write(w, Set(ActionRow(p, n), content), {})

\* an update of the content, or of the target the action belongs to
UpdateAction(w, p, n) ==
    \E q \in Targets : \E content \in Contents :
        /\ Exists(w, ActionRow(p, n))
        /\ q = p \/ ~ Exists(w, ActionRow(q, n))
        /\ ~ ParentPublished(View(w), p)
        /\ ~ ParentPublished(View(w), q)
        /\ ParentHeld(w, TargetRow(q))
        /\ Write(w, [x \in {ActionRow(p, n), ActionRow(q, n)} |->
                        IF x = ActionRow(q, n) THEN content ELSE Absent], {})

DeleteAction(w, p, n) ==
    /\ Exists(w, ActionRow(p, n))
    /\ ~ ParentPublished(View(w), p)
    /\ Write(w, Set(ActionRow(p, n), Absent), {})

-----------------------------------------------------------------------------
Statement(w) ==
    \/ \E e \in Revisions :
          InsertRevision(w, e) \/ UpdateRevision(w, e) \/ DeleteRevision(w, e)
    \/ \E p \in Targets :
          \/ InsertTarget(w, p) \/ MoveTarget(w, p) \/ DeleteTarget(w, p)
          \/ \E n \in Strings :
                InsertAction(w, p, n) \/ UpdateAction(w, p, n) \/ DeleteAction(w, p, n)

\* no deferred trigger on these tables
Next == \E w \in Writers :
    Statement(w) \/ RunDeferred(w, TRUE) \/ Commit(w) \/ Rollback(w)

Spec == Init /\ [][Next]_vars

-----------------------------------------------------------------------------
(* Properties *)

TypeOK ==
    /\ DOMAIN db = Rows /\ \A x \in Rows : db[x] \in ValuesOf(x)
    /\ \A w \in Writers : \A x \in DOMAIN writes[w] :
          x \in Rows /\ writes[w][x] \in ValuesOf(x)
    /\ events = [w \in Writers |-> {}]
    /\ step \in [Writers -> 0 .. MaxStatements]
    /\ checked \subseteq Writers

(* A published revision stays complete: it has a target, and each of its    *)
(* targets has an action for every string, whatever is inserted, moved,     *)
(* changed or deleted before and after it is published                      *)
(* (trg_validate_publish with the freeze triggers).                         *)
PublishedComplete ==
    \A e \in Revisions : Published(db, e) =>
        /\ db[RevisionRow(e)].written
        /\ \E p \in Targets : db[TargetRow(p)] = e
        /\ \A p \in Targets, n \in Strings :
              db[TargetRow(p)] = e => db[ActionRow(p, n)] \in Contents

(* A published revision is never withdrawn, edited or deleted, not even by  *)
(* a transaction that began to edit the draft before it was published.      *)
PublicationIsFinal ==
    [][\A e \in Revisions :
          Published(db, e) => db'[RevisionRow(e)] = db[RevisionRow(e)]]_vars

Subtree(rows, e) ==
    [p \in TargetsOf(rows, e) |-> [n \in Strings |-> rows[ActionRow(p, n)]]]

(* What a published revision consists of never changes: no target joins or  *)
(* leaves it and no string action of its targets changes                    *)
(* (02-pass-2-baseline-consolidated-final.md:480, "published-subtree        *)
(* immutability").                                                          *)
PublishedSubtreeFrozen ==
    [][\A e \in Revisions : Published(db, e) => Subtree(db', e) = Subtree(db, e)]_vars
=============================================================================
