SPECIFICATION Spec
CONSTANTS
  Absent = Absent
  Writers = {w1, w2}
  Sessions = {s1}
  Seqs = {0}
  Reasons = {low_confidence}
  MaxInvalid = 1
  MaxStatements = 3
PROPERTY TerminalSamplesFrozen
CHECK_DEADLOCK FALSE
