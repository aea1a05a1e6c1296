SPECIFICATION FairSpec
CONSTANTS
  Requests = {r1, r2, r3}
  Environments <- MCEnvironments
INVARIANTS ClosedInReverse SettingsSuffice ResourcesOutliveRequests LocksHaveConnections
PROPERTIES RequestsFinish ShutdownCompletes
