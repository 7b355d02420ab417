SPECIFICATION Spec
CONSTANTS
  h1 = h1
  h2 = h2
  w1 = w1
  r1 = r1
  Seeds <- TwoHosts
  Labels <- Labelled
  Filters <- BothFilters
  States <- TwoStates
  unseen = unseen
  Unseen = unseen
  MaxStarts = 2
  Clients = {r1}
  Enabled = {"cadvisor"}
  MaxSyncs = 2
INVARIANTS AnswersAreConsistent
