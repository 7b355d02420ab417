SPECIFICATION Spec
CONSTANTS
  m1 = m1
  m2 = m2
  r1 = r1
  Manual = {m1}
  Readers = {r1}
  Enabled <- EnabledCadvisor
  Registered = {"node_exporter", "cadvisor"}
  MaxAttempts = 1
  Cooldown = 2
  ActualStates <- DownActual
  DesiredStates <- OneDesired
  Spelling <- MCSpelling
  Fold <- MCFold
  Blank = ""
  SourceViews <- MCSourceViews
  MaxClock = 3
  MaxCycles = 2
  MaxRestarts = 0
  MaxSignalled = 0
INVARIANTS CycleLock ReadyzHonest CooldownRespected
PROPERTIES ContractHolds ResultsInOrder
