SPECIFICATION MCSpec
CONSTANTS
  u1 = u1
  u2 = u2
  k1 = k1
  k2 = k2
  p1 = p1
  NoBody = NoBody
  Requests = {1, 2, 3}
  Users = {u1, u2}
  Keys = {k1, k2}
  Pairs = {p1}
  Provisioned = {u2}
  Commands <- MCCommands
INVARIANTS IInv RecordsAccountForSessions NoOrphanProfile SessionsReproducible ReplaysAgree ContractErrorsUnreachable
PROPERTIES ProfilesNotOverwritten RetriesReplay ImplementsIdempotentCommand RequestsFinish
