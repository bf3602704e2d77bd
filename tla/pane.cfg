\* A room and a peer, two handlers at once, three messages, two rows a fetch;
\* the page rests when the bounds are used up.
SPECIFICATION PaneSpec
CHECK_DEADLOCK FALSE
CONSTANTS
  Rooms = {r}
  Peers = {p}
  Nowhere = Nowhere
  Tasks = {s1, s2}
  Hits = {2}
  Limit = 2
  MaxId = 3
  MaxGestures = 2
SYMMETRY TaskSymmetry
INVARIANTS
  DomIsTheView
  StrayRowsAreLate
  MarkedWasFetched
