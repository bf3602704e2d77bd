\* Three programs that open a database of any version; four supervisors that
\* each start once, and may all have ended; two reporters, three percentages
\* (under every band, between 70 and its reset, over every band), two rooms.
SPECIFICATION MCSpec
CONSTANTS
  old = old
  new1 = new1
  new2 = new2
  Programs = {old, new1, new2}
  Kinds <- MCKinds
  Knows <- MCKnows
  Supervisors = {p1, p2, p3, p4}
  NoFile = NoFile
  Reporters = {r1, r2}
  Percents = {44, 67, 97}
  Rooms = {a, b}
CHECK_DEADLOCK FALSE
INVARIANTS
  SchemaIsWhole
  FailsOnlyBeside
  SomeoneIsReachable
  FitsAlone
  RiseIsTold
PROPERTIES
  StartsSucceed
  ToldOnce
