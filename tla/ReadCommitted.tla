--------------------------- MODULE ReadCommitted ---------------------------
(***************************************************************************)
(* PostgreSQL as the migrations rely on it: several connections run READ   *)
(* COMMITTED transactions over one table of rows.  A query sees committed  *)
(* rows and the writes of its own transaction; a written row is locked to  *)
(* the end of the transaction; deferred constraint triggers run between    *)
(* the last statement and the moment the commit becomes visible.           *)
(***************************************************************************)
EXTENDS Integers

CONSTANTS
    Writers,        \* concurrent database connections
    MaxStatements,  \* bound on the statements of one transaction
    Absent          \* the value of a row that does not exist

ASSUME StatementsAssumption == MaxStatements \in Nat

VARIABLES
    db,      \* committed value of each row
    writes,  \* writes[w]: the rows w's transaction has written, hence locked
    events,  \* events[w]: deferred trigger events queued by w's transaction
    step,    \* step[w]: how many statements w's transaction has run
    checked  \* writers whose deferred triggers have passed and who now commit

NoWrites == [x \in {} |-> Absent]

NoTransactions ==
    /\ writes = [w \in Writers |-> NoWrites]
    /\ events = [w \in Writers |-> {}]
    /\ step = [w \in Writers |-> 0]
    /\ checked = {}

\* What a query of w's transaction sees: its own writes over committed rows.
View(w) == [x \in DOMAIN db |-> IF x \in DOMAIN writes[w] THEN writes[w][x] ELSE db[x]]

Exists(w, x) == View(w)[x] # Absent

\* Mutant of Free: a statement does not wait for another's row locks.
FreeAtOnce(w, rows) == w \in Writers

\* No other transaction has a lock on a row of rows: the statement need not wait.
Free(w, rows) == \A u \in Writers \ {w} : rows \cap DOMAIN writes[u] = {}

\* The foreign key's KEY SHARE lock waits only for a deleter of the parent.
ParentHeld(w, parent) ==
    /\ Exists(w, parent)
    /\ \A u \in Writers \ {w} :
          parent \in DOMAIN writes[u] =>
              db[parent] # Absent /\ writes[u][parent] # Absent

\* One statement: new maps the rows it writes to their values.
Write(w, new, queued) ==
    /\ w \notin checked /\ step[w] < MaxStatements
    /\ Free(w, DOMAIN new)
    /\ writes' = [writes EXCEPT ![w] =
          [x \in DOMAIN @ \cup DOMAIN new |-> IF x \in DOMAIN new THEN new[x] ELSE @[x]]]
    /\ events' = [events EXCEPT ![w] = @ \cup queued]
    /\ step' = [step EXCEPT ![w] = @ + 1]
    /\ UNCHANGED <<db, checked>>

Set(x, value) == [y \in {x} |-> value]

\* COMMIT runs the deferred triggers before other transactions see anything;
\* passed: none of those queued by w raises an exception.
RunDeferred(w, passed) ==
    /\ step[w] > 0 /\ w \notin checked
    /\ passed
    /\ checked' = checked \cup {w}
    /\ UNCHANGED <<db, writes, events, step>>

Reset(w) ==
    /\ writes' = [writes EXCEPT ![w] = NoWrites]
    /\ events' = [events EXCEPT ![w] = {}]
    /\ step' = [step EXCEPT ![w] = 0]
    /\ checked' = checked \ {w}

Commit(w) ==
    /\ w \in checked
    /\ db' = View(w)
    /\ Reset(w)

\* an error, a refused deferred check, a deadlock, or the client's ROLLBACK
Rollback(w) ==
    /\ step[w] # 0
    /\ Reset(w)
    /\ UNCHANGED db
=============================================================================
