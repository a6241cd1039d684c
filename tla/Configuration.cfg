SPECIFICATION ConfigSpec
CONSTANTS
  Port = {"p", "q"}
  Domain = {"*", "a.example", "*.example"}
  Host = {"a.example", "b.example", "x.a.example"}
  Fits <- SomeFits
  Certificate = {"c1", "c2", "c3"}
  Unbound = "none"
  Fallback = "fallback"
  Covers <- SomeCovers
  Names <- SomeNames
  Expires <- SomeExpires
  Bindings <- SomeBindings
  ServiceId = {"s1", "s2", "s3"}
  UserId = {"admin", "guest"}
  Token = {"secret"}
  Name = {"admin", "guest"}
  Orders = {0, 1, 3}
  Files <- SomeFiles
  Works <- SomeWorks
  Worker = {w1, w2}
  Client = {c1, c2}
  Key = {k1, k2}
  Missing = Missing
  Torn = Torn
  None = None
INVARIANTS RoutingIsPromised ServiceShowsItsCertificate FileRestores AttemptsAreBounded
PROPERTIES LastUserStays TokensAreUnique
CHECK_DEADLOCK FALSE
