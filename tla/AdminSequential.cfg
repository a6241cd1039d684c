SPECIFICATION AdminSpec
CONSTANTS
  None = None
  a = a
  b = b
  c = c
  s1 = s1
  s2 = s2
  s3 = s3
  Listener = {a, b, c}
  Port = {1, 2, 3}
  Service = {s1, s2, s3}
  Configs <- AnyConfig
  CloseFails = FALSE
  Request = {"r1"}
  Operations = {"CreateListener", "UpdateListener", "DeleteListener", "ToggleListener", "ReloadListener", "UpdateService", "ReorderServices", "Restart"}
  NewListeners <- SteadyNew
  ListenerBodies <- SteadyListeners
  ServiceBodies <- SteadyServices
  StoredListeners <- TwoStored
  StoredServices <- ServicesStored
  SaveFails = FALSE
INVARIANT RunningIsEnabled
 
INVARIANT PortsAreUnique
