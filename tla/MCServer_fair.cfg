SPECIFICATION FairSpec
CONSTANTS
  c1 = c1
  c2 = c2
  c3 = c3
  p1 = p1
  p2 = p2
  p3 = p3
  Parent = Parent
  NoClient = NoClient
  Clients = {c1, c2, c3}
  Pids = {p1, p2, p3}
  Backlog = 2
  Addresses = 2
  Faults = {"start", "address", "accept", "fork"}
INVARIANTS TypeOK ConnectionsArePrivate ZombiesAreNoticed ListensOnPort
PROPERTIES ZombiesAreReaped ClientsAreServed PortIsReleased
CHECK_DEADLOCK FALSE
