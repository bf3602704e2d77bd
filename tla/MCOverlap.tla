------------------------------ MODULE MCOverlap ------------------------------
(* What processes that overlap do to each other: three, of two ages, that  *)
(* open one database; four supervisors of one handle; two reports of one   *)
(* agent's context.  The three share no variable, so each runs while the   *)
(* others are as they began.                                               *)
EXTENDS Migrations, WakeSocket, ContextGauge, TLC

CONSTANTS old, new1, new2

(* The migrations of db.ts with runs of one kind made short. *)
MCKinds == <<"create", "rebuild", "add", "add", "clear", "create">>

(* One was built before the rebuild. *)
MCKnows == (old :> 1) @@ [p \in {new1, new2} |-> Len(MCKinds)]

Unopened == ~table /\ \A p \in Programs : step[p] = "out" /\ ~company[p]
Unbound == file = NoFile /\ \A p \in Supervisors : at[p] = "new"
Unreported == rooms = {} /\ \A r \in Reporters : percent[r] = 0

MCNext ==
  \/ Unbound /\ Unreported /\ DbNext /\ UNCHANGED <<vars, gaugeVars>>
  \/ Unopened /\ Unreported /\ Next /\ UNCHANGED <<dbVars, gaugeVars>>
  \/ Unopened /\ Unbound /\ GaugeNext /\ UNCHANGED <<dbVars, vars>>

MCInit == DbInit /\ Init /\ GaugeInit /\ (Unopened \/ Unbound)

MCSpec ==
  /\ MCInit /\ [][MCNext]_<<dbVars, vars, gaugeVars>>
  /\ \A p \in Supervisors : WF_vars(Proceed(p))
=============================================================================
