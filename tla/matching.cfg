SPECIFICATION Spec
CONSTANTS
  MaxHosts = 3
  Trim <- MCTrim
  System <- MCSystem
  Docker <- MCDocker
  Failures <- MCFailures
  Ids = {" ", "srv-1", "SRV-1"}
  FQDNs = {"", "a.local", "A.local", "b.local"}
  WorkloadLists <- MCWorkloadLists
  Registered = {"node_exporter", "cadvisor"}
  Spelling <- MCSpelling
  Fold <- MCFold
  Base <- MCBase
  Blank = ""
  SourceViews = {}
  IncludeSystem = FALSE
CHECK_DEADLOCK FALSE
INVARIANTS LookupIsReference VerdictIsTrue FormsAgree
