SPECIFICATION Spec
CONSTANTS
  c1 = c1
  c2 = c2
  c3 = c3
  p1 = p1
  p2 = p2
  p3 = p3
  Parent = Parent
  NoClient = NoClient
  Clients = {c1, c2}
  Pids = {p1, p2}
  Backlog = 2
  Addresses = 2
  Faults = {"accept"}
INVARIANT KeepsListening
