\* Two requests, one of which can be approved, and two things on their way.
SPECIFICATION Spec
CONSTANTS
  Tab = Tab
  Elsewhere = Elsewhere
  Slots = {s1, s2}
  MaxRows = 2
  Granted = {1}
INVARIANTS
  StaleIsExcused
  ToldIsTrue
PROPERTIES
  CardAppears
