SPECIFICATION Spec
CONSTANTS
  u1 = u1
  u2 = u2
  k1 = k1
  k2 = k2
  s1 = s1
  s2 = s2
  a = a
  b = b
  c = c
  NoBody = NoBody
  Requests = {r1, r2, r3}
  Users = {u1, u2}
  Keys = {k1, k2}
  Sessions = {s1, s2}
  SampleIds = {a, b, c}
  Owner <- MCOwner
  Commands <- MixedCommands
  MaxOffset = 3
SYMMETRY RequestSymmetry
INVARIANTS NoStandstill SamplesContiguous TailNotStale RecordsAccountForSamples ReplaysAgree AcknowledgedIsStored ContractErrorsUnreachable
PROPERTIES EndedSessionFrozen RetriesReplay ImplementsIdempotentCommand
