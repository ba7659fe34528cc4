CONSTANTS
  h1 = h1
  h2 = h2
  Callers <- TwoHandlers
  IPs = {"10.0.0.1", "10.0.0.2"}
  Hosts = {"alpha"}
  NoHost = ""
  Timeout = 1
  Ttl = 2
  MaxTime = 4
  MaxLookups = 2
SPECIFICATION Spec
INVARIANTS FreshHosts
PROPERTIES KeptUntilExpiry NothingHangs
