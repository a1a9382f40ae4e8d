SPECIFICATION Spec
CONSTANTS
  Urls <- SomeUrls
  LongHosts = {"long"}
  MaxRedirects = 3
  NoLocation = NoLocation
  BadLocation = BadLocation
INVARIANTS CredentialsStayHome FinalBodyOnly BodyFollowsMethod PooledInStep ConnectionsAccounted
CHECK_DEADLOCK FALSE
