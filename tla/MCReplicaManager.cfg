SPECIFICATION ManagerSpec
CONSTANTS
  Self = self
  Others = {other}
  Callers = {reader, retry}
  MaxVersion = 4
  NoTopic = NoTopic
INVARIANTS LeaderLoopRuns OneLoop
