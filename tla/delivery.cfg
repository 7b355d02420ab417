SPECIFICATION FairSpec
CONSTANTS
  m1 = m1
  m2 = m2
  r1 = r1
  Manual = {}
  Readers = {}
  Enabled <- EnabledExporter
  Registered = {"node_exporter", "cadvisor"}
  MaxAttempts = 2
  Cooldown = 1
  ActualStates <- SomeActual
  DesiredStates <- TwoDesired
  Spelling <- MCSpelling
  Fold <- MCFold
  Blank = ""
  SourceViews <- MCSourceViews
  MaxClock = 0
  MaxCycles = 2
  MaxRestarts = 1
  MaxSignalled = 1
INVARIANTS CooldownEarned BoundedDelivery ReportAddsUp CommandJustified
PROPERTIES CycleEnds 
