\* One replacement with a message waiting in the queue.
SPECIFICATION Spec
CONSTANTS
  Messages = {m1, m2}
  Prompts = {m1, m2, "wake", "denied", "redispatch"}
  Tools = {t0, t1}
  Base = {t0}
  Unnamed = Unnamed
  MaxChildren = 2
  MaxWakes = 3
  MaxApprovals = 1
  MaxEvents = 1
INVARIANT
  CarriedOver
CHECK_DEADLOCK FALSE
