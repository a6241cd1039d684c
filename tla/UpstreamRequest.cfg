SPECIFICATION UpSpec
CONSTANTS
  ClientHeaders <- SomeClients
  Configs <- SomeConfigs
  None = None
INVARIANTS AllowListIsKept ClaimsAreStripped ChainIsContinued PathsAgree
CHECK_DEADLOCK FALSE
