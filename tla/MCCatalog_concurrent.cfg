SPECIFICATION Spec
CONSTANTS
  Absent = Absent
  Writers = {w1, w2}
  MaxStatements = 2
  Revisions = {e1, e2}
  Targets = {p1}
  Strings = {n1}
  Contents = {"open"}
SYMMETRY Symmetry
PROPERTY PublicationIsFinal
CHECK_DEADLOCK FALSE
