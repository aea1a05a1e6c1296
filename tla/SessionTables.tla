--------------------------- MODULE SessionTables ---------------------------
(***************************************************************************)
(* What the constraints and triggers of migrations 0003 and 0004 promise   *)
(* of sessions, samples, metrics and invalid-reason counts whatever SQL is *)
(* run: several READ COMMITTED transactions of arbitrary statements, with  *)
(* row locks, immediate triggers at each statement and deferred constraint *)
(* triggers between the last statement and the commit.                     *)
(***************************************************************************)
EXTENDS ReadCommitted, FiniteSets, Functions

CONSTANTS
    Sessions, Seqs, Reasons,
    MaxInvalid      \* bound on submitted_sample_count - valid_sample_count

ASSUME InvalidAssumption == MaxInvalid \in Nat

\* invalid_reason is an enum
ASSUME ReasonsAssumption == IsFiniteSet(Reasons)

Lifecycles == {"created", "active", "completed", "abandoned"}

ASSUME AbsentAssumption == Absent \notin Lifecycles /\ Absent \notin 0 .. MaxInvalid

Terminal == {"completed", "abandoned"}

SessionRow(s) == <<"session", s>>
MetricsRow(s) == <<"metrics", s>>
SampleRow(s, n) == <<"sample", s, n>>
CountRow(s, reason) == <<"count", s, reason>>

CountRows(s) == {CountRow(s, reason) : reason \in Reasons}
SampleRows(s) == {SampleRow(s, n) : n \in Seqs}
RowsOf(s) == {SessionRow(s), MetricsRow(s)} \cup SampleRows(s) \cup CountRows(s)
Rows == UNION {RowsOf(s) : s \in Sessions}

(* A session row is its lifecycle (the columns the CHECKs tie to it follow   *)
(* it), a sample its payload, a metrics row the number of invalid samples it *)
(* reports, submitted - valid, a count row its count.                        *)
Payloads == {"a", "b"}
ValuesOf(x) ==
    {Absent} \cup CASE x[1] = "session" -> Lifecycles
                   [] x[1] = "sample" -> Payloads
                   [] x[1] \in {"metrics", "count"} -> 0 .. MaxInvalid

VARIABLE deleted  \* ids that were deleted at some time; a uuid is not used again

vars == <<db, writes, events, step, checked, deleted>>

Init ==
    /\ \E started \in SUBSET Sessions :
          db = [x \in Rows |-> IF \E s \in started : x = SessionRow(s)
                               THEN "active" ELSE Absent]
    /\ NoTransactions
    /\ deleted = {}

Event(name, s) == [name |-> name, session |-> s]

-----------------------------------------------------------------------------
(* sessions *)

\* session_born_created
InsertSession(w, s) ==
    /\ ~ Exists(w, SessionRow(s)) /\ s \notin deleted
    /\ Write(w, Set(SessionRow(s), "created"), {})
    /\ UNCHANGED deleted

\* Mutant of LegalTransition: a terminal session may be ended again.
LegalUntilCreated(old, new) == new # "created"

LegalTransition(old, new) ==
    <<old, new>> \in {<<"created", "active">>, <<"active", "completed">>,
                      <<"active", "abandoned">>}

(* session_transition; completed_needs_metrics is queued by every update     *)
(* and looks at the lifecycle that update wrote.                             *)
UpdateSession(w, s) ==
    \E new \in Lifecycles :
        /\ Exists(w, SessionRow(s))
        /\ new = View(w)[SessionRow(s)] \/ LegalTransition(View(w)[SessionRow(s)], new)
        /\ Write(w, Set(SessionRow(s), new),
                 IF new = "completed" THEN {Event("needs_metrics", s)} ELSE {})
        /\ UNCHANGED deleted

(* The cascade takes samples, metrics and counts along.  The sample trigger  *)
(* no longer finds the session; the metrics and counts triggers are queued.  *)
DeleteSession(w, s) ==
    /\ Exists(w, SessionRow(s))
    /\ Free(w, RowsOf(s))
    /\ Write(w, [x \in {x \in RowsOf(s) : Exists(w, x)} |-> Absent],
             {Event(name, s) : name \in {"protect_metrics", "counts_sum"}})
    /\ deleted' = deleted \cup {s}

-----------------------------------------------------------------------------
(* session_samples: trigger no_samples_after_terminal *)

Writable(w, s) == View(w)[SessionRow(s)] \notin Terminal

InsertSample(w, s, n) ==
    /\ Writable(w, s)
    /\ ParentHeld(w, SessionRow(s))
    /\ ~ Exists(w, SampleRow(s, n))
    /\ \E value \in Payloads : Write(w, Set(SampleRow(s, n), value), {})

\* session_id and seq cannot be changed
UpdateSample(w, s, n) ==
    /\ Writable(w, s)
    /\ Exists(w, SampleRow(s, n))
    /\ \E value \in Payloads : Write(w, Set(SampleRow(s, n), value), {})

DeleteSample(w, s, n) ==
    /\ Writable(w, s)
    /\ Exists(w, SampleRow(s, n))
    /\ Write(w, Set(SampleRow(s, n), Absent), {})

-----------------------------------------------------------------------------
(* session_metrics: trigger metrics_only_completed *)

InsertMetrics(w, s) ==
    /\ View(w)[SessionRow(s)] = "completed"
    /\ ParentHeld(w, SessionRow(s))
    /\ ~ Exists(w, MetricsRow(s))
    /\ \E invalid \in 0 .. MaxInvalid :
          Write(w, Set(MetricsRow(s), invalid), {Event("counts_sum", s)})

\* Mutant of UpdateMetrics: reason_counts_sum_metrics fires on insert only.
UpdateMetricsUnchecked(w, s) ==
    /\ View(w)[SessionRow(s)] = "completed"
    /\ Exists(w, MetricsRow(s))
    /\ \E invalid \in 0 .. MaxInvalid : Write(w, Set(MetricsRow(s), invalid), {})

UpdateMetrics(w, s) ==
    /\ View(w)[SessionRow(s)] = "completed"
    /\ Exists(w, MetricsRow(s))
    /\ \E invalid \in 0 .. MaxInvalid :
          Write(w, Set(MetricsRow(s), invalid), {Event("counts_sum", s)})

\* the counts cascade
DeleteMetrics(w, s) ==
    LET gone == {x \in {MetricsRow(s)} \cup CountRows(s) : Exists(w, x)} IN
    /\ Exists(w, MetricsRow(s))
    /\ Free(w, {MetricsRow(s)} \cup CountRows(s))
    /\ Write(w, [x \in gone |-> Absent],
             {Event(name, s) : name \in {"protect_metrics", "counts_sum"}})

-----------------------------------------------------------------------------
(* session_invalid_reason_counts *)

InsertCount(w, s, reason) ==
    /\ ParentHeld(w, MetricsRow(s))
    /\ ~ Exists(w, CountRow(s, reason))
    /\ \E count \in 0 .. MaxInvalid :
          Write(w, Set(CountRow(s, reason), count), {Event("counts_sum", s)})

UpdateCount(w, s, reason) ==
    /\ Exists(w, CountRow(s, reason))
    /\ \E count \in 0 .. MaxInvalid :
          Write(w, Set(CountRow(s, reason), count), {Event("counts_sum", s)})

DeleteCount(w, s, reason) ==
    /\ Exists(w, CountRow(s, reason))
    /\ Write(w, Set(CountRow(s, reason), Absent), {Event("counts_sum", s)})

-----------------------------------------------------------------------------
(* The end of a transaction *)

\* assert_reason_counts_sum
CountsAddUp(rows, s) ==
    LET present == {x \in CountRows(s) : rows[x] # Absent} IN
    rows[MetricsRow(s)] # Absent =>
        SumFunctionOnSet(rows, present) = rows[MetricsRow(s)]

\* Mutant of Holds: no constraint trigger on the deletion of metrics.
HoldsWithoutProtection(rows, event) ==
    CASE event.name = "needs_metrics" -> rows[MetricsRow(event.session)] # Absent
      [] event.name = "protect_metrics" -> TRUE
      [] event.name = "counts_sum" -> CountsAddUp(rows, event.session)

\* trg_completed_needs_metrics, trg_protect_completed_metrics, trg_reason_counts_sum
Holds(rows, event) ==
    CASE event.name = "needs_metrics" -> rows[MetricsRow(event.session)] # Absent
      [] event.name = "protect_metrics" ->
            rows[SessionRow(event.session)] = "completed" =>
                rows[MetricsRow(event.session)] # Absent
      [] event.name = "counts_sum" -> CountsAddUp(rows, event.session)

Statement(w, s) ==
    \/ InsertSession(w, s) \/ UpdateSession(w, s) \/ DeleteSession(w, s)
    \/ /\ \/ \E n \in Seqs :
                InsertSample(w, s, n) \/ UpdateSample(w, s, n) \/ DeleteSample(w, s, n)
          \/ InsertMetrics(w, s) \/ UpdateMetrics(w, s) \/ DeleteMetrics(w, s)
          \/ \E reason \in Reasons :
                InsertCount(w, s, reason) \/ UpdateCount(w, s, reason) \/ DeleteCount(w, s, reason)
       /\ UNCHANGED deleted

Next ==
    \E w \in Writers :
        \/ \E s \in Sessions : Statement(w, s)
        \/ /\ RunDeferred(w, \A event \in events[w] : Holds(View(w), event))
              \/ Commit(w) \/ Rollback(w)
           /\ UNCHANGED deleted

Spec == Init /\ [][Next]_vars

-----------------------------------------------------------------------------
(* Properties *)

TypeOK ==
    /\ DOMAIN db = Rows /\ \A x \in Rows : db[x] \in ValuesOf(x)
    /\ \A w \in Writers : \A x \in DOMAIN writes[w] :
          x \in Rows /\ writes[w][x] \in ValuesOf(x)
    /\ \A w \in Writers : \A event \in events[w] :
          event.session \in Sessions
            /\ event.name \in {"needs_metrics", "protect_metrics", "counts_sum"}
    /\ step \in [Writers -> 0 .. MaxStatements]
    /\ checked \subseteq Writers
    /\ deleted \subseteq Sessions

(* A committed session is completed exactly when it has a metrics row,      *)
(* although two separately deferred triggers and one immediate trigger      *)
(* enforce the halves, each from what its own transaction sees.             *)
CompletedIffMetrics ==
    \A s \in Sessions :
        db[SessionRow(s)] = "completed" <=> db[MetricsRow(s)] # Absent

(* The committed reason counts of a session add up to submitted - valid of  *)
(* its metrics and do not outlive them, although each transaction adds up   *)
(* only its own view and other transactions commit between that check and   *)
(* its own commit.                                                          *)
ReasonsSumUp ==
    \A s \in Sessions :
        /\ CountsAddUp(db, s)
        /\ db[MetricsRow(s)] = Absent => \A x \in CountRows(s) : db[x] = Absent

(* However transactions race to end a session, the first end is final and a *)
(* session that was committed active never goes back to 'created'.          *)
EndIsFinal ==
    [][\A s \in Sessions :
          LET old == db[SessionRow(s)]
              new == db'[SessionRow(s)]
          IN  new # Absent =>
                /\ old \in Terminal => new = old
                /\ old = "active" => new # "created"]_vars

(* No sample of a session that has ended is inserted, changed or deleted    *)
(* (02-pass-2-baseline-consolidated-final.md:480, "hold independent of      *)
(* FastAPI").                                                               *)
TerminalSamplesFrozen ==
    [][\A s \in Sessions :
          db[SessionRow(s)] \in Terminal /\ db'[SessionRow(s)] \in Terminal =>
              \A x \in SampleRows(s) : db'[x] = db[x]]_vars
=============================================================================
