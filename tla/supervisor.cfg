\* Two messages and a wake without one in three envelopes, so each may also
\* come twice; two children, so one replacement; one denial of a tool that
\* is not in the base or of an unnamed one.
SPECIFICATION FairSpec
CONSTANTS
  Messages = {m1, m2}
  Prompts = {m1, m2, "wake", "denied", "redispatch"}
  Tools = {t0, t1}
  Base = {t0}
  Unnamed = Unnamed
  MaxChildren = 2
  MaxWakes = 3
  MaxApprovals = 1
  MaxEvents = 1
INVARIANTS
  OneTurnInFlight
  DispatchedInOrder
  LostOnlyToReplacement
  OnlyWhatWasApproved
PROPERTY
  PendingLeaves
CHECK_DEADLOCK FALSE
