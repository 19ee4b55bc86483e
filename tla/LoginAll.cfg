CONSTANTS
  a = a
  b = b
  ip = ip
  c2s = c2s
  other = other
  Clients = {c1, c2}
  Literal = ip
  MaxDepth = 4
  Followed = {c1}
  Server = server
  Services = {svc}
  Zones <- MCZones
  Asked <- MCAsked
  Offers <- MCOffers
SPECIFICATION Spec
CHECK_DEADLOCK FALSE
INVARIANTS ResolvedIsAsked FailuresAreKnown DiscoIsComplete
