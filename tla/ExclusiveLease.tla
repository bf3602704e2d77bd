--------------------------- MODULE ExclusiveLease ---------------------------
(***************************************************************************)
(* What the claim table promises to everyone who asks it: a resource has   *)
(* at most one owner, a new owner steps in only when there is none, and a  *)
(* resource never passes from one agent to another in one step.  Nothing   *)
(* is said of rows, clocks or database statements; ResourceClaims          *)
(* implements this module with the newest row of each resource.            *)
(***************************************************************************)
CONSTANTS Agents, Resources, NoAgent

VARIABLE owner

TypeOK == owner \in [Resources -> Agents \cup {NoAgent}]

Init == owner = [r \in Resources |-> NoAgent]

(* Agent a becomes the owner of a resource nobody owns. *)
Acquire(a, r) ==
  /\ owner[r] = NoAgent
  /\ owner' = [owner EXCEPT ![r] = a]

(* The resources in S lose their owner: a release, or a set of expiries at *)
(* one tick of the clock.                                                  *)
Vacate(S) ==
  owner' = [r \in Resources |-> IF r \in S THEN NoAgent ELSE owner[r]]

Next ==
  \/ \E a \in Agents, r \in Resources : Acquire(a, r)
  \/ \E S \in SUBSET Resources : Vacate(S)

Spec == Init /\ [][Next]_owner
=============================================================================
