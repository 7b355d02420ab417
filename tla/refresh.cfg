SPECIFICATION FairSpec
CONSTANTS
  h1 = h1
  h2 = h2
  w1 = w1
  r1 = r1
  unseen = unseen
  Unseen = unseen
  Seeds <- TwoHosts
  Labels <- Labelled
  Filters <- BothFilters
  States <- ThreeStates
  MaxStarts = 1
  Clients = {}
  Enabled = {"cadvisor", "netbox"}
  MaxSyncs = 1
INVARIANTS MetadataFits
PROPERTIES Converges SyncEnds
