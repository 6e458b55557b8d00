SPECIFICATION Spec
CONSTANTS
  Size = 8
  Requests = {u1, u2}
  Namespaces = {"a", "b"}
  LiveTTL = 2
  ServingTTL = 2
  MaxLiveEntries = 1
  MaxLatency = 1
  MaxTime = 3
  Worlds <- MCWorlds
INVARIANTS
  TypeOK
  AnswerMatchesRequest
  RefusalChangesNothing
  PartialNeverZero
  LookupFindsHolders
  AdmittedWasLive
  RefusalIsFresh
PROPERTY GateSpec
