\* An agent and a human at a terminal, every operation, at most three posts.
SPECIFICATION Spec
CONSTANTS
  a = a
  b = b
  Handles = {a, b}
  Clients = {b}
  Nobody = Nobody
  System = System
  Operations <- Everything
  MaxPosts = 3
INVARIANTS
  NothingSkipped
PROPERTIES
  NothingTwice
  NothingOlder
