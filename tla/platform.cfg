SPECIFICATION FairSpec
CONSTANTS
  Registered = {"node_exporter", "cadvisor"}
  Spelling <- MCSpelling
  Fold <- MCFold
  Blank = ""
  SourceViews <- MCSourceViews
  Desired <- MCDesired
  Seeds <- MCSeeds
  Enabled <- Order
  Cooldown = 1
  MaxAttempts = 2
  Capacity = 2
  MaxFaults = 1
  MaxCrashes = 1
  MaxSetBack = 1
INVARIANTS NoBlindCommand
PROPERTIES HostsConverge Quiesces
