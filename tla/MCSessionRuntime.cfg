SPECIFICATION FairSpec
CONSTANTS
  s1 = s1
  s2 = s2
  r1 = r1
  r2 = r2
  r3 = r3
  Sessions = {s1}
  Runtimes = {r1, r2}
  NoRuntime = NoRuntime
  SessionOf <- OneSession
  Surfaces = {"agent", "browser"}
  AgentSession = "agent"
  MaxSessions = 1
  Actions = {"detach", "revoke"}
  MaxEpoch = 1
  MaxWork = 1
INVARIANTS
  LiveAuthorityCurrent
  TeardownCoversIntent
PROPERTIES
  WorkOnCurrentHandle
  ImplementsOwnership
  CreationSettles
  RefreshRetires
  AttemptEnds
