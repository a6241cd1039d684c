SPECIFICATION CertSpec
CONSTANTS
  first = first
  fresh = fresh
  synced = synced
  Cert = {first, fresh, synced}
  SyncCert = {synced}
  Terms = {"http", "manual"}
  HTTPTerms = {"http"}
  ManualTerms = {"manual"}
  Domain = {a}
  SelfSigned = "self-signed"
  Worker = {timer}
  timer = timer
  Timer = timer
  request = request
  Issuer = {i1, i2}
  Installations <- Unattended
  Overlap = FALSE
  MaxIssued = 3
  MaxRequests = 0
  MaxFailed = 1
  Faults = {}
  Unreadable = Unreadable
  None = None
INVARIANT FilesFit
CHECK_DEADLOCK FALSE
