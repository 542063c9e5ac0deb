SPECIFICATION Spec
CONSTANTS
  t1 = t1
  t2 = t2
  e1 = e1
  e2 = e2
  rec = rec
  sec = sec
  id = id
  other = other
  Installed = Installed
  None = None
  Transactions = {t1, t2}
  Records = {rec}
  Secrets = {sec}
  Keys = {id, other}
  Destinations <- TheDestinations
  ExternalSecrets = {e1, e2}
  Binding = rec
  BindingKey = id
  AuthSecret = sec
  AuthKey = id
  MaxClock = 1
  MaxRestarts = 1
  MaxForeign = 1
SYMMETRY Symmetry
INVARIANTS
  TypeOK
  MarkerTruth
  NoneSkipped
  GateMeansRefreshed
PROPERTIES
  ImplementsStampedStore
CHECK_DEADLOCK FALSE
