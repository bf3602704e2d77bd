---------------------------- MODULE HandleClaim ----------------------------
(***************************************************************************)
(* The registration of one handle: upsertAgent of storage/dao.ts with its  *)
(* liveness guard and its compare-and-swap, the processes that call it     *)
(* (shim, web server, CLI), the register tool, /kick and the prune script. *)
(*                                                                         *)
(* A process is one run of the program.  It gets a pid from the operating  *)
(* system, which may hand out the pid of a dead process again (Recycle).   *)
(* upsertAgent reads the row, asks the system whether the pid in it runs,  *)
(* writes with one guarded statement and reads the row back; there is no   *)
(* transaction, so each is a step.  session_id is a random UUID per run    *)
(* and is modelled by the process itself.                                  *)
(***************************************************************************)
EXTENDS Naturals, FiniteSets

CONSTANTS
  Procs,    \* the runs of the program that may claim the handle
  Pids,     \* the process ids of the host
  NoProc,   \* the session of a row left by a run before this history
  NoPid,    \* a NULL pid column
  Recycle   \* whether the system may give a dead process's pid out again

ASSUME NullAssumption == NoProc \notin Procs /\ NoPid \notin Pids
ASSUME RecycleAssumption == Recycle \in BOOLEAN

VARIABLES
  agent,   \* the row of the handle in the agents table
  proc,    \* the processes
  used,    \* the pids given out so far
  prune,   \* the prune script
  ousted   \* history: how a process lost the row it had written

handleVars == <<agent, proc, used, prune, ousted>>

-----------------------------------------------------------------------------
(* Types *)

Row == [exists: BOOLEAN, pid: Pids \cup {NoPid}, session: Procs \cup {NoProc}]

NoRow == [exists |-> FALSE, pid |-> NoPid, session |-> NoProc]

RowOf(pid, session) == [exists |-> TRUE, pid |-> pid, session |-> session]

Proc == [pc: {"unborn", "idle", "read", "judged", "wrote", "gone"},
         pid: Pids \cup {NoPid},
         serving: BOOLEAN,   \* past its first upsertAgent, reads the mail
         force: BOOLEAN,
         seen: Row]          \* the incumbent its call read

Unborn == [pc |-> "unborn", pid |-> NoPid, serving |-> FALSE,
           force |-> FALSE, seen |-> NoRow]

HandleTypeOK ==
  /\ agent \in Row
  /\ proc \in [Procs -> Proc]
  /\ used \subseteq Pids
  /\ prune \in [armed: BOOLEAN, force: BOOLEAN]
  /\ ousted \in [Procs -> {"no", "forced", "freed", "recycled"}]

-----------------------------------------------------------------------------
(* The operating system *)

Running(p) == proc[p].pc \notin {"unborn", "gone"}

(* process.kill(pid, 0): a NULL pid is not running. *)
IsProcessAlive(pid) == \E p \in Procs : Running(p) /\ proc[p].pid = pid

(* A process that believes the handle is its own. *)
Claimant(p) == Running(p) /\ (proc[p].serving \/ proc[p].pc = "wrote")

Spawn(p, pid) ==
  /\ proc[p].pc = "unborn"
  /\ ~IsProcessAlive(pid)
  /\ Recycle \/ pid \notin used
  /\ proc' = [proc EXCEPT ![p] = [Unborn EXCEPT !.pc = "idle", !.pid = pid]]
  /\ used' = used \cup {pid}
  /\ UNCHANGED <<agent, prune, ousted>>

(* A crash or an orderly exit: no path deletes the row of the handle. *)
Exit(p) ==
  /\ Running(p)
  /\ proc' = [proc EXCEPT ![p] = [Unborn EXCEPT !.pc = "gone"]]
  /\ UNCHANGED <<agent, used, prune, ousted>>

-----------------------------------------------------------------------------
(* upsertAgent *)

(* A call starts with the read of the incumbent.  Only a process that is   *)
(* starting may force; the register tool of a serving shim never does.     *)
ReadIncumbent(p, force) ==
  /\ proc[p].pc = "idle"
  /\ force => ~proc[p].serving
  /\ proc' = [proc EXCEPT ![p] = [@ EXCEPT !.pc = "read", !.force = force,
                                           !.seen = agent]]
  /\ UNCHANGED <<agent, used, prune, ousted>>

(* refuseLiveRival throws for a different process that runs. *)
LiveRival(p) ==
  /\ ~proc[p].force
  /\ proc[p].seen.exists
  /\ proc[p].seen.pid # NoPid
  /\ proc[p].seen.pid # proc[p].pid
  /\ IsProcessAlive(proc[p].seen.pid)

(* What HandleClaimedError ends: the program that was starting, or only    *)
(* the call of the register tool.                                          *)
Thrown(p) ==
  IF proc[p].serving
    THEN [proc[p] EXCEPT !.pc = "idle", !.force = FALSE, !.seen = NoRow]
    ELSE [Unborn EXCEPT !.pc = "gone"]

RefuseLiveRival(p) ==
  /\ proc[p].pc = "read"
  /\ proc' = [proc EXCEPT ![p] = IF LiveRival(p) THEN Thrown(p)
                                 ELSE [@ EXCEPT !.pc = "judged"]]
  /\ UNCHANGED <<agent, used, prune, ousted>>

SwapUnguarded(p) == TRUE

(* INSERT .. ON CONFLICT DO UPDATE WHERE agents.pid IS @expected_pid: an   *)
(* absent row is inserted whatever was expected.                           *)
SwapSucceeds(p) ==
  \/ ~agent.exists
  \/ proc[p].force
  \/ agent.pid = proc[p].seen.pid

(* How the holder of the row, if it runs, loses it to a write of p.  A     *)
(* write of its own does not oust it, and an unforced write over the very  *)
(* row its caller judged dead has no name here: none is legitimate.        *)
OustedByWrite(p) ==
  [q \in Procs |->
     IF q = p THEN "no"
     ELSE IF ~(agent.exists /\ agent.session = q /\ Claimant(q)) THEN ousted[q]
     ELSE IF proc[p].force THEN "forced"
     ELSE IF agent # proc[p].seen /\ agent.pid = proc[p].seen.pid THEN "recycled"
     ELSE ousted[q]]

WriteClaim(p) ==
  /\ proc[p].pc = "judged"
  /\ SwapSucceeds(p)
  /\ agent' = RowOf(proc[p].pid, p)
  /\ ousted' = OustedByWrite(p)
  /\ proc' = [proc EXCEPT ![p] = [@ EXCEPT !.pc = "wrote"]]
  /\ UNCHANGED <<used, prune>>

(* The row moved since the read: re-read it for the message, and throw. *)
LoseSwap(p) ==
  /\ proc[p].pc = "judged"
  /\ ~SwapSucceeds(p)
  /\ proc' = [proc EXCEPT ![p] = Thrown(p)]
  /\ UNCHANGED <<agent, used, prune, ousted>>

(* The row is read back, and only its absence is an error: whose row it is *)
(* by now is not looked at.                                                *)
ReadBack(p) ==
  /\ proc[p].pc = "wrote"
  /\ proc' = [proc EXCEPT ![p] =
                IF agent.exists
                  THEN [@ EXCEPT !.pc = "idle", !.force = FALSE, !.seen = NoRow,
                                 !.serving = TRUE]
                  ELSE Thrown(p)]
  /\ UNCHANGED <<agent, used, prune, ousted>>

-----------------------------------------------------------------------------
(* Freeing the handle *)

OustedByDelete ==
  [q \in Procs |->
     IF agent.exists /\ agent.session = q /\ Claimant(q) THEN "freed" ELSE ousted[q]]

(* deleteAgent from /kick of the web server or of the terminal, or from an *)
(* ephemeral supervisor that stops.  None looks at the pid.                *)
Kick ==
  /\ agent.exists
  /\ agent' = NoRow
  /\ ousted' = OustedByDelete
  /\ UNCHANGED <<proc, used, prune>>

(* The script reads the row and its liveness ... *)
PartitionPrunable(force) ==
  /\ ~prune.armed
  /\ agent.exists
  /\ force \/ ~IsProcessAlive(agent.pid)
  /\ prune' = [armed |-> TRUE, force |-> force]
  /\ UNCHANGED <<agent, proc, used, ousted>>

(* ... and deletes by name whatever row the handle has by then. *)
PruneAgents ==
  /\ prune.armed
  /\ agent' = NoRow
  /\ ousted' = OustedByDelete
  /\ prune' = [armed |-> FALSE, force |-> FALSE]
  /\ UNCHANGED <<proc, used>>

-----------------------------------------------------------------------------

(* The database may hold the row of an earlier run, or one without a pid. *)
HandleInit ==
  /\ agent \in {NoRow} \cup {RowOf(pid, NoProc) : pid \in Pids \cup {NoPid}}
  /\ proc = [p \in Procs |-> Unborn]
  /\ used = {agent.pid} \ {NoPid}
  /\ prune = [armed |-> FALSE, force |-> FALSE]
  /\ ousted = [p \in Procs |-> "no"]

Upsert(p) ==
  \/ \E force \in BOOLEAN : ReadIncumbent(p, force)
  \/ RefuseLiveRival(p)
  \/ WriteClaim(p)
  \/ LoseSwap(p)
  \/ ReadBack(p)

HandleNext ==
  \/ \E p \in Procs, pid \in Pids : Spawn(p, pid)
  \/ \E p \in Procs : Exit(p) \/ Upsert(p)
  \/ Kick
  \/ \E force \in BOOLEAN : PartitionPrunable(force)
  \/ PruneAgents

HandleSpec == HandleInit /\ [][HandleNext]_handleVars

-----------------------------------------------------------------------------
(* Properties *)

(* A running process that has claimed the handle holds its row, unless the *)
(* row was forced from it, freed under it by a kick or a prune, or swapped *)
(* by a caller that had read an older row with the same pid.  These are    *)
(* the only ways two processes come to read the same mail: whatever the    *)
(* order in which two upsertAgent calls read, judge and write.             *)
HoldsItsRow ==
  \A p \in Procs :
    Claimant(p) /\ ousted[p] = "no" => agent = RowOf(proc[p].pid, p)

(* Two processes that claimed the handle and were not ousted are the same. *)
OneMailReader ==
  \A p, q \in Procs :
    /\ Claimant(p) /\ ousted[p] = "no"
    /\ Claimant(q) /\ ousted[q] = "no"
    => p = q

(* What dao.ts says of writeClaim, "ONLY if nobody changed the row since   *)
(* we read it": an unforced write replaces exactly the row its call read.  *)
SwapReplacesTheRowItRead ==
  [][\A p \in Procs :
       /\ proc[p].pc = "judged" /\ proc'[p].pc = "wrote"
       /\ ~proc[p].force
       /\ agent.exists
       => agent = proc[p].seen]_handleVars

=============================================================================
