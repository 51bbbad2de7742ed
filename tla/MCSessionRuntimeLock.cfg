SPECIFICATION Spec
CONSTANTS
  s1 = s1
  s2 = s2
  r1 = r1
  r2 = r2
  r3 = r3
  Sessions = {s1}
  Runtimes = {r1, r2}
  NoRuntime = NoRuntime
  SessionOf <- OneSession
  Surfaces = {"agent"}
  AgentSession = "agent"
  MaxSessions = 1
  Actions = {"detach"}
  MaxEpoch = 0
  MaxWork = 0
PROPERTIES
  CreationHonoursLock
