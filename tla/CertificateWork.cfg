SPECIFICATION FairCertSpec
CONSTANTS
  first = first
  fresh = fresh
  synced = synced
  Cert = {first, fresh, synced}
  SyncCert = {synced}
  Terms = {"http", "manual"}
  HTTPTerms = {"http"}
  ManualTerms = {"manual"}
  Domain = {a}
  SelfSigned = "self-signed"
  Worker = {timer, request}
  timer = timer
  Timer = timer
  request = request
  Issuer = {i1}
  Installations <- Both
  Overlap = FALSE
  MaxIssued = 3
  MaxRequests = 1
  MaxFailed = 1
  Faults = {"save", "write", "parse"}
  Unreadable = Unreadable
  None = None
INVARIANTS ServedIsConfigured StoresAgree
PROPERTIES RemovedIsUnbound SuccessIsServed RenewalsHappen SyncConverges
CHECK_DEADLOCK FALSE
