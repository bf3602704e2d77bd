\* A command, a tool without one, three calls, three children.
SPECIFICATION Spec
CHECK_DEADLOCK FALSE
CONSTANTS
  rm = rm
  status = status
  Commands = {rm}
  Named = {status}
  None = None
  Asked <- MCAsked
  MaxCalls = 3
  MaxChildren = 3
  MaxTogether = 2
INVARIANTS
  RequestIsOfTheRefusal
  ApprovedIsUsable
  UnaskedIsExcused
