\* Two senders, two processes that read as one handle, two messages.
SPECIFICATION Spec
SYMMETRY Symmetry
CONSTANTS
  Senders = {s1, s2}
  Readers = {r1, r2}
  Shims = {r1}
  MaxId = 2
INVARIANTS
  ReadWasShown
  BellIsHeard
  OneIsAll
PROPERTY ShownAgainOnlyTogether
