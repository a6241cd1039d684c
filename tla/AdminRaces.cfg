SPECIFICATION AdminSpec
CONSTANTS
  None = None
  a = a
  b = b
  c = c
  s1 = s1
  s2 = s2
  s3 = s3
  Listener = {a}
  Port = {1}
  Service = {s1, s2}
  Configs <- AnyConfig
  CloseFails = TRUE
  Request = {"r1", "r2"}
  Operations = {"DeleteListener", "UpdateListener", "ToggleListener", "CreateService", "UpdateService", "DeleteService", "ToggleService"}
  NewListeners <- FreeListeners
  ListenerBodies <- FreeListeners
  ServiceBodies <- PairServices
  StoredListeners <- OneStored
  StoredServices <- OneService
  SaveFails = TRUE
INVARIANT IdentifiersAreUnique
PROPERTY DeletedStaysDeleted
