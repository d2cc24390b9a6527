CONSTANTS
  cloning = cloning
  draining = draining
  recovering = recovering
  saved = saved
  measuring = measuring
  hub = hub
  spoke = spoke
  w1 = w1
  w2 = w2
  vb = vb
  vbdrain = vbdrain
  recovery = recovery
  fio = fio
  None = None
  Tests <- AllTests
  Scenario <- KindOf
  Cluster <- ClusterOf
  Prefix <- PrefixOf
  Replays = {saved}
  UsesSnapshot = {cloning}
  Clusters = {hub, spoke}
  Default = hub
  DefaultPrefix <- NSPrefix
  Sweeps <- Matches
  VMs <- VMsOf
  Sources = 2
  Workers = {w1, w2}
  Target = w1
  Maintenance <- SpokeCordoned
  MaxTests = 2
  MaxRuns = 2
SPECIFICATION Spec
PROPERTY OtherClustersLeftAlone
CHECK_DEADLOCK FALSE
