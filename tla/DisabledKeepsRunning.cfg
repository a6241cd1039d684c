SPECIFICATION AdminSpec
CONSTANTS
  None = None
  a = a
  b = b
  c = c
  s1 = s1
  s2 = s2
  s3 = s3
  Listener = {a, b}
  Port = {1, 2}
  Service = {s1, s2}
  Configs <- AnyConfig
  CloseFails = FALSE
  Request = {"r1"}
  Operations = {"UpdateListener"}
  NewListeners <- FreeListeners
  ListenerBodies <- FreeListeners
  ServiceBodies <- PairServices
  StoredListeners <- OneStored
  StoredServices <- OneService
  SaveFails = FALSE
INVARIANT RunningIsEnabled
