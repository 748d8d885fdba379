SPECIFICATION Spec
CONSTANTS
  NULL = NULL
  GONE = GONE
  s1 = s1
  x1 = x1
  x2 = x2
  y1 = y1
  y2 = y2
  v1 = v1
  v2 = v2
  Services = {s1, s2}
  Hosts = {x1, x2}
  Ports = {y1, y2}
  Paths = {v1, v2}
  Configs = {c1, c2}
  Args <- MCArgs
  Forms <- MCForms
  Profiles = {p}
  Handlers = {h1, h2}
  Deployed <- MCDeployed
  FirstPayload <- MCFirstPayload
  MaxRequests = 3
  MaxCrashes = 1
SYMMETRY Symmetry
INVARIANTS TypeOK UnitFileOK AddressUnique Traceable
CHECK_DEADLOCK FALSE
