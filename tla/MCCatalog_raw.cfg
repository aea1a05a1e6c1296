SPECIFICATION Spec
CONSTANTS
  Absent = Absent
  Writers = {w1, w2}
  MaxStatements = 2
  Revisions = {e1}
  Targets = {p1}
  Strings = {n1}
  Contents = {"open"}
PROPERTY PublishedSubtreeFrozen
CHECK_DEADLOCK FALSE
