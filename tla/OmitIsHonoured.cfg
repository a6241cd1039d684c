SPECIFICATION UpSpec
CONSTANTS
  ClientHeaders <- SomeClients
  Configs <- SomeConfigs
  None = None
INVARIANT OmitIsHonoured
CHECK_DEADLOCK FALSE
