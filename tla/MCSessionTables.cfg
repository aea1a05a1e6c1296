SPECIFICATION Spec
CONSTANTS
  Absent = Absent
  Writers = {w1, w2}
  Sessions = {s1}
  Seqs = {0}
  Reasons = {low_confidence, wrong_hand}
  MaxInvalid = 1
  MaxStatements = 3
SYMMETRY Symmetry
INVARIANTS CompletedIffMetrics ReasonsSumUp
PROPERTY EndIsFinal
CHECK_DEADLOCK FALSE
