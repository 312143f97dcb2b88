SPECIFICATION FairSpec
CONSTANTS
  MESSAGE_MAX = 2
  Clients = {c1, c2}
  Players = {p1}
  Cells = {m1, m2, m3}
  Kinds = {search, other}
  Args = {a, b}
  SEARCH = search
  NULL = NULL
INVARIANTS TypeOK RingOK OneOwner SearchesBounded
PROPERTIES HeldIsStable ImplementsQueue QueuedLeaves
