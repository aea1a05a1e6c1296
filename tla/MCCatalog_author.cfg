SPECIFICATION Spec
CONSTANTS
  Absent = Absent
  Writers = {w1}
  MaxStatements = 2
  Revisions = {e1, e2}
  Targets = {p1, p2}
  Strings = {n1, n2}
  Contents = {"open", "muted"}
SYMMETRY Symmetry
INVARIANTS PublishedComplete
PROPERTY PublishedSubtreeFrozen
CHECK_DEADLOCK FALSE
