SPECIFICATION Spec
CONSTANTS
  None = None
  l1 = l1
  l2 = l2
  s1 = s1
  s2 = s2
  Listener = {l1, l2}
  Port = {1, 2}
  Service = {s1, s2}
  Configs <- Submitted
  CloseFails = TRUE
INVARIANT TypeOK
INVARIANT RunningIsApplied
INVARIANT H3Exact
INVARIANT NoMixedConfig
INVARIANT SnapshotBuildable
PROPERTY OutageOnlyWhenPortsTaken
