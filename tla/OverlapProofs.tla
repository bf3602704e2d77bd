---------------------------- MODULE OverlapProofs ----------------------------
(***************************************************************************)
(* Proofs about the components in which calls of one kind overlap: claims  *)
(* of one handle, starts on one socket, reports of one agent's context,    *)
(* openings of the database.  They share no variable, and a theorem is     *)
(* about the specification of one of them: HandleSpec, Spec (WakeSocket),  *)
(* GaugeSpec and DbSpec.                                                   *)
(***************************************************************************)
EXTENDS HandleClaim, WakeSocket, ContextGauge, Migrations, FiniteSetTheorems, TLAPS

-----------------------------------------------------------------------------
(* HandleClaim, for any number of processes and pids.                      *)
(*                                                                         *)
(* HoldsItsRow is not inductive: a process that has judged its incumbent   *)
(* dead must not find that incumbent running when it writes.  Judged says  *)
(* so, and rests on what rows and processes have to do with each other     *)
(* (Names) and on two running processes never sharing a pid (OnePidEach).  *)

(* A row that names a session is by a process that was started, and has    *)
(* its pid as long as it runs.                                             *)
Names(row) ==
  row.exists /\ row.session \in Procs =>
    /\ proc[row.session].pc # "unborn"
    /\ Running(row.session) => row.pid = proc[row.session].pid

RowsName == Names(agent) /\ \A p \in Procs : Names(proc[p].seen)

OnePidEach ==
  /\ \A p \in Procs : Running(p) => proc[p].pid \in Pids
  /\ \A p, q \in Procs :
       Running(p) /\ Running(q) /\ proc[p].pid = proc[q].pid => p = q

(* The incumbent a call has judged is no other running process. *)
Judged ==
  \A p \in Procs :
    /\ proc[p].pc = "judged" /\ ~proc[p].force
    /\ proc[p].seen.exists /\ proc[p].seen.session \in Procs \ {p}
    => ~Running(proc[p].seen.session)

ClaimInv == HandleTypeOK /\ RowsName /\ OnePidEach /\ Judged /\ HoldsItsRow

-----------------------------------------------------------------------------
(* The type invariant. *)

LEMMA InitTyped == HandleInit => HandleTypeOK
<1>1. SUFFICES ASSUME HandleInit PROVE HandleTypeOK
  OBVIOUS
<1>2. NoRow \in Row
  BY DEF NoRow, Row
<1>3. \A pid \in Pids \cup {NoPid} : RowOf(pid, NoProc) \in Row
  BY DEF RowOf, Row
<1>4. agent \in Row
  BY <1>1, <1>2, <1>3 DEF HandleInit
<1>5. Unborn \in Proc
  BY <1>2 DEF Unborn, Proc
<1>6. used \subseteq Pids
  BY <1>1, <1>4 DEF HandleInit, Row
<1>7. QED
  BY <1>1, <1>4, <1>5, <1>6 DEF HandleInit, HandleTypeOK

LEMMA ThrownTyped ==
  ASSUME HandleTypeOK, NEW p \in Procs
  PROVE  Thrown(p) \in Proc
  BY DEF HandleTypeOK, Thrown, Unborn, NoRow, Proc, Row

LEMMA StepTyped ==
  ASSUME HandleTypeOK, [HandleNext]_handleVars
  PROVE  HandleTypeOK'
<1>1. ASSUME NEW p \in Procs, NEW pid \in Pids, Spawn(p, pid) PROVE HandleTypeOK'
  BY <1>1 DEF HandleTypeOK, Spawn, Unborn, NoRow, Proc, Row
<1>2. ASSUME NEW p \in Procs, Exit(p) PROVE HandleTypeOK'
  BY <1>2 DEF HandleTypeOK, Exit, Unborn, NoRow, Proc, Row
<1>3. ASSUME NEW p \in Procs, NEW force \in BOOLEAN, ReadIncumbent(p, force)
      PROVE HandleTypeOK'
  BY <1>3 DEF HandleTypeOK, ReadIncumbent, Proc
<1>4. ASSUME NEW p \in Procs, RefuseLiveRival(p) PROVE HandleTypeOK'
  <2>1. [proc[p] EXCEPT !.pc = "judged"] \in Proc
    BY DEF HandleTypeOK, Proc
  <2>2. QED
    BY <1>4, <2>1, ThrownTyped DEF HandleTypeOK, RefuseLiveRival
<1>5. ASSUME NEW p \in Procs, WriteClaim(p) PROVE HandleTypeOK'
  <2>1. proc[p] \in Proc
    BY DEF HandleTypeOK
  <2>2. agent' \in Row
    BY <1>5, <2>1 DEF WriteClaim, RowOf, Row, Proc
  <2>3. [proc[p] EXCEPT !.pc = "wrote"] \in Proc
    BY <2>1 DEF Proc
  <2>4. ousted' \in [Procs -> {"no", "forced", "freed", "recycled"}]
    BY <1>5 DEF HandleTypeOK, WriteClaim, OustedByWrite
  <2>5. QED
    BY <1>5, <2>2, <2>3, <2>4 DEF HandleTypeOK, WriteClaim
<1>6. ASSUME NEW p \in Procs, LoseSwap(p) PROVE HandleTypeOK'
  BY <1>6, ThrownTyped DEF HandleTypeOK, LoseSwap
<1>7. ASSUME NEW p \in Procs, ReadBack(p) PROVE HandleTypeOK'
  <2>1. [proc[p] EXCEPT !.pc = "idle", !.force = FALSE, !.seen = NoRow,
                        !.serving = TRUE] \in Proc
    <3>1. proc[p] \in Proc /\ NoRow \in Row
      BY DEF HandleTypeOK, NoRow, Row
    <3>2. QED
      BY <3>1 DEF Proc
  <2>2. QED
    BY <1>7, <2>1, ThrownTyped DEF HandleTypeOK, ReadBack
<1>8. CASE Kick
  BY <1>8 DEF HandleTypeOK, Kick, NoRow, Row, OustedByDelete
<1>9. ASSUME NEW force \in BOOLEAN, PartitionPrunable(force) PROVE HandleTypeOK'
  BY <1>9 DEF HandleTypeOK, PartitionPrunable
<1>10. CASE PruneAgents
  BY <1>10 DEF HandleTypeOK, PruneAgents, NoRow, Row, OustedByDelete
<1>11. CASE UNCHANGED handleVars
  BY <1>11 DEF HandleTypeOK, handleVars
<1>12. QED
  BY <1>1, <1>2, <1>3, <1>4, <1>5, <1>6, <1>7, <1>8, <1>9, <1>10, <1>11
     DEF HandleNext, Upsert

(* The variables have their types: the row, the processes, the script and  *)
(* the history of upsertAgent and deleteAgent, in every behaviour.         *)
THEOREM HandleTypeCorrect == HandleSpec => []HandleTypeOK
<1>1. QED
  BY InitTyped, StepTyped, PTL DEF HandleSpec

-----------------------------------------------------------------------------
(* The inductive invariant. *)

LEMMA InitClaimInv == HandleInit => ClaimInv
<1>1. SUFFICES ASSUME HandleInit PROVE ClaimInv
  OBVIOUS
<1>2. HandleTypeOK
  BY <1>1, InitTyped
<1>3. \A p \in Procs : proc[p] = Unborn
  BY <1>1 DEF HandleInit
<1>4. ~agent.exists \/ agent.session = NoProc
  BY <1>1 DEF HandleInit, NoRow, RowOf
<1>5. RowsName
  BY <1>3, <1>4, NullAssumption DEF RowsName, Names, Unborn, NoRow
<1>6. OnePidEach /\ Judged /\ HoldsItsRow
  BY <1>3 DEF OnePidEach, Judged, HoldsItsRow, Claimant, Running, Unborn
<1>7. QED
  BY <1>2, <1>5, <1>6 DEF ClaimInv

(* A step that only moves one process p along and leaves the row alone     *)
(* keeps what the rows, the pids and the holders have to do with p, if p   *)
(* keeps its pid as long as it runs, reads no row but the present one and  *)
(* becomes no claimant that it was not.                                    *)
LEMMA ProcessStep ==
  ASSUME ClaimInv, HandleTypeOK',
         NEW p \in Procs, NEW r \in Proc,
         proc' = [proc EXCEPT ![p] = r],
         agent' = agent, ousted' = ousted,
         proc[p].pc # "unborn", r.pc # "unborn",
         r.pc # "gone" => proc[p].pc # "gone" /\ r.pid = proc[p].pid,
         r.seen \in {NoRow, agent, proc[p].seen},
         r.pc # "gone" /\ (r.serving \/ r.pc = "wrote") =>
            proc[p].serving \/ proc[p].pc = "wrote",
         r.pc = "judged" /\ ~r.force /\ r.seen.exists
            /\ r.seen.session \in Procs \ {p} => ~Running(r.seen.session)
  PROVE  ClaimInv'
<1> USE DEF ClaimInv, HandleTypeOK
<1>1. \A q \in Procs : proc'[q] = IF q = p THEN r ELSE proc[q]
  OBVIOUS
<1>2. \A q \in Procs : Running(q)' => Running(q) /\ proc'[q].pid = proc[q].pid
  BY <1>1 DEF Running
<1>3. \A q \in Procs : proc[q].pc # "unborn" => proc'[q].pc # "unborn"
  BY <1>1
<1>4. ASSUME NEW row, Names(row) PROVE Names(row)'
  BY <1>2, <1>3, <1>4 DEF Names
<1>5. RowsName'
  <2>1. Names(agent)'
    BY <1>4 DEF RowsName
  <2>2. ASSUME NEW q \in Procs PROVE Names(proc[q].seen)'
    <3>1. CASE q # p
      BY <1>1, <1>4, <3>1 DEF RowsName
    <3>2. CASE q = p
      <4>1. Names(NoRow)
        BY DEF Names, NoRow
      <4>2. Names(r.seen)
        BY <4>1 DEF RowsName
      <4>3. Names(r.seen)'
        BY <1>4, <4>2
      <4>4. proc'[q].seen = r.seen
        BY <1>1, <3>2
      <4>5. QED
        BY <4>3, <4>4 DEF Names
    <3>3. QED
      BY <3>1, <3>2
  <2>3. QED
    BY <2>1, <2>2 DEF RowsName
<1>6. OnePidEach'
  BY <1>2 DEF OnePidEach
<1>7. Judged'
  <2>1. ASSUME NEW q \in Procs, proc'[q].pc = "judged", ~proc'[q].force,
               proc'[q].seen.exists, proc'[q].seen.session \in Procs \ {q}
        PROVE  ~Running(proc'[q].seen.session)
    BY <1>1, <2>1 DEF Judged
  <2>2. QED
    BY <1>2, <2>1 DEF Judged
<1>8. HoldsItsRow'
  BY <1>1, <1>2 DEF HoldsItsRow, Claimant, Running
<1>9. QED
  BY <1>5, <1>6, <1>7, <1>8

LEMMA ThrownStep ==
  ASSUME ClaimInv, HandleTypeOK', NEW p \in Procs,
         proc' = [proc EXCEPT ![p] = Thrown(p)],
         agent' = agent, ousted' = ousted,
         Running(p)
  PROVE  ClaimInv'
<1>1. Thrown(p) \in Proc
  BY ThrownTyped DEF ClaimInv
<1>2. /\ Thrown(p).pc \in {"idle", "gone"}
      /\ Thrown(p).seen = NoRow
      /\ Thrown(p).pc # "gone" => /\ Thrown(p).pid = proc[p].pid
                                 /\ proc[p].serving
  BY DEF Thrown, Unborn, ClaimInv, HandleTypeOK, Proc
<1>3. QED
  BY <1>1, <1>2, ProcessStep DEF Running

LEMMA SpawnStep ==
  ASSUME ClaimInv, HandleTypeOK', NEW p \in Procs, NEW pid \in Pids, Spawn(p, pid)
  PROVE  ClaimInv'
<1> USE DEF ClaimInv, HandleTypeOK
<1> DEFINE r == [Unborn EXCEPT !.pc = "idle", !.pid = pid]
<1>1. /\ \A q \in Procs : proc'[q] = IF q = p THEN r ELSE proc[q]
      /\ proc[p].pc = "unborn" /\ ~IsProcessAlive(pid)
      /\ agent' = agent /\ ousted' = ousted
  BY DEF Spawn
<1>2. /\ r.pc = "idle" /\ r.pid = pid /\ r.seen = NoRow /\ ~r.serving
  BY DEF Unborn
<1> HIDE DEF r
<1>3. ASSUME NEW row, Names(row) PROVE Names(row)'
  BY <1>1, <1>3 DEF Names, Running
<1>4. RowsName'
  <2>1. Names(agent)'
    BY <1>1, <1>3 DEF RowsName
  <2>2. \A q \in Procs : q # p => Names(proc[q].seen)'
    BY <1>1, <1>3 DEF RowsName
  <2>3. Names(proc[p].seen)'
    BY <1>1, <1>2 DEF Names, NoRow
  <2>4. QED
    BY <2>1, <2>2, <2>3 DEF RowsName
<1>5. OnePidEach'
  BY <1>1, <1>2 DEF OnePidEach, IsProcessAlive, Running
<1>6. Judged'
  <2>1. ASSUME NEW q \in Procs, proc'[q].pc = "judged", ~proc'[q].force,
               proc'[q].seen.exists, proc'[q].seen.session \in Procs \ {q}
        PROVE  /\ ~Running(proc'[q].seen.session)
               /\ proc'[q].seen.session # p
    BY <1>1, <1>2, <2>1 DEF Judged, RowsName, Names
  <2>2. QED
    BY <1>1, <2>1 DEF Judged, Running
<1>7. HoldsItsRow'
  BY <1>1, <1>2 DEF HoldsItsRow, Claimant, Running
<1>8. QED
  BY <1>4, <1>5, <1>6, <1>7

(* deleteAgent: the holder is ousted, and no other process held the row. *)
LEMMA DeleteStep ==
  ASSUME ClaimInv, HandleTypeOK', agent' = NoRow, ousted' = OustedByDelete,
         UNCHANGED proc
  PROVE  ClaimInv'
<1> USE DEF ClaimInv, HandleTypeOK
<1>1. RowsName'
  BY DEF RowsName, Names, NoRow, Running
<1>2. OnePidEach' /\ Judged'
  BY DEF OnePidEach, Judged, Running
<1>3. HoldsItsRow'
  BY DEF HoldsItsRow, OustedByDelete, Claimant, Running, RowOf
<1>4. QED
  BY <1>1, <1>2, <1>3

(* The write: a holder that is not ousted held the row the call has read,  *)
(* and was judged not to run.                                              *)
LEMMA WriteStep ==
  ASSUME ClaimInv, HandleTypeOK', NEW p \in Procs, WriteClaim(p)
  PROVE  ClaimInv'
<1> USE DEF ClaimInv, HandleTypeOK
<1> DEFINE r == [proc[p] EXCEPT !.pc = "wrote"]
<1>1. /\ \A q \in Procs : proc'[q] = IF q = p THEN r ELSE proc[q]
      /\ agent' = RowOf(proc[p].pid, p) /\ ousted' = OustedByWrite(p)
      /\ proc[p].pc = "judged" /\ SwapSucceeds(p)
  BY DEF WriteClaim
<1>2. /\ r.pc = "wrote" /\ r.pid = proc[p].pid /\ r.seen = proc[p].seen
      /\ r.serving = proc[p].serving
  BY DEF Proc
<1> HIDE DEF r
<1>3. \A q \in Procs : /\ Running(q)' <=> Running(q)
                       /\ proc'[q].pid = proc[q].pid
                       /\ proc'[q].seen = proc[q].seen
  BY <1>1, <1>2 DEF Running
<1>4. RowsName'
  <2>1. ASSUME NEW row, Names(row) PROVE Names(row)'
    BY <1>1, <1>2, <1>3, <2>1 DEF Names
  <2>2. Names(agent)'
    BY <1>1, <1>2 DEF Names, RowOf
  <2>3. \A q \in Procs : Names(proc[q].seen)'
    <3>1. TAKE q \in Procs
    <3>2. Names(proc[q].seen)
      BY DEF RowsName
    <3>3. QED
      BY <1>3, <2>1, <3>2 DEF Names
  <2>4. QED
    BY <2>2, <2>3 DEF RowsName
<1>5. OnePidEach'
  BY <1>3 DEF OnePidEach
<1>6. Judged'
  BY <1>1, <1>2, <1>3 DEF Judged
<1>7. ASSUME NEW q \in Procs, q # p, Claimant(q)', ousted'[q] = "no"
      PROVE  FALSE
  <2>1. Claimant(q) /\ Running(q)
    BY <1>1, <1>7 DEF Claimant, Running
  <2>2. ousted'[q] = (IF ~(agent.exists /\ agent.session = q /\ Claimant(q))
                        THEN ousted[q]
                      ELSE IF proc[p].force THEN "forced"
                      ELSE IF agent # proc[p].seen /\ agent.pid = proc[p].seen.pid
                        THEN "recycled"
                      ELSE ousted[q])
    BY <1>1, <1>7 DEF OustedByWrite
  <2>3. ousted[q] = "no"
    BY <1>7, <2>2
  <2>4. agent = RowOf(proc[q].pid, q)
    BY <2>1, <2>3 DEF HoldsItsRow
  <2>5. agent.exists /\ agent.session = q
    BY <2>4 DEF RowOf
  <2>6. ~proc[p].force /\ (agent = proc[p].seen \/ agent.pid # proc[p].seen.pid)
    BY <1>7, <2>1, <2>2, <2>5
  <2>7. proc[p].seen = agent
    BY <1>1, <2>5, <2>6 DEF SwapSucceeds
  <2>8. QED
    BY <1>1, <1>7, <2>1, <2>5, <2>6, <2>7 DEF Judged
<1>8. HoldsItsRow'
  BY <1>1, <1>2, <1>7 DEF HoldsItsRow
<1>9. QED
  BY <1>4, <1>5, <1>6, <1>8

LEMMA StepClaimInv ==
  ASSUME ClaimInv, [HandleNext]_handleVars
  PROVE  ClaimInv'
<1>0. HandleTypeOK'
  BY StepTyped DEF ClaimInv
<1>1. ASSUME NEW p \in Procs, NEW pid \in Pids, Spawn(p, pid) PROVE ClaimInv'
  BY <1>0, <1>1, SpawnStep
<1>2. ASSUME NEW p \in Procs, Exit(p) PROVE ClaimInv'
  <2> DEFINE r == [Unborn EXCEPT !.pc = "gone"]
  <2>1. r \in Proc /\ r.pc = "gone" /\ r.seen = NoRow
    BY DEF Unborn, Proc, NoRow, Row
  <2>2. /\ proc' = [proc EXCEPT ![p] = r] /\ proc[p].pc # "unborn"
        /\ agent' = agent /\ ousted' = ousted
    BY <1>2 DEF Exit, Running
  <2> HIDE DEF r
  <2>3. QED
    BY <1>0, <2>1, <2>2, ProcessStep
<1>3. ASSUME NEW p \in Procs, NEW force \in BOOLEAN, ReadIncumbent(p, force)
      PROVE ClaimInv'
  <2> DEFINE r == [proc[p] EXCEPT !.pc = "read", !.force = force, !.seen = agent]
  <2>1. /\ r \in Proc /\ r.pc = "read" /\ r.pid = proc[p].pid /\ r.seen = agent
        /\ r.serving = proc[p].serving
    <3>1. proc[p] \in Proc /\ agent \in Row
      BY DEF ClaimInv, HandleTypeOK
    <3>2. QED
      BY <3>1 DEF Proc
  <2>2. /\ proc' = [proc EXCEPT ![p] = r] /\ proc[p].pc = "idle"
        /\ agent' = agent /\ ousted' = ousted
    BY <1>3 DEF ReadIncumbent
  <2> HIDE DEF r
  <2>3. QED
    BY <1>0, <2>1, <2>2, ProcessStep
<1>4. ASSUME NEW p \in Procs, RefuseLiveRival(p) PROVE ClaimInv'
  <2>1. CASE LiveRival(p)
    BY <1>0, <1>4, <2>1, ThrownStep DEF RefuseLiveRival, Running
  <2>2. CASE ~LiveRival(p)
    <3> DEFINE r == [proc[p] EXCEPT !.pc = "judged"]
    <3>1. /\ r \in Proc /\ r.pc = "judged" /\ r.pid = proc[p].pid
          /\ r.seen = proc[p].seen /\ r.force = proc[p].force
          /\ r.serving = proc[p].serving
      BY DEF ClaimInv, HandleTypeOK, Proc
    <3>2. /\ proc' = [proc EXCEPT ![p] = r] /\ proc[p].pc = "read"
          /\ agent' = agent /\ ousted' = ousted
      BY <1>4, <2>2 DEF RefuseLiveRival
    <3> HIDE DEF r
    <3>3. ASSUME ~r.force, r.seen.exists, r.seen.session \in Procs \ {p},
                 Running(r.seen.session)
          PROVE  FALSE
      <4>1. r.seen.pid = proc[r.seen.session].pid
        BY <3>1, <3>3 DEF ClaimInv, RowsName, Names
      <4>2. r.seen.pid \in Pids /\ r.seen.pid # proc[p].pid
        BY <3>2, <3>3, <4>1 DEF ClaimInv, OnePidEach, Running
      <4>3. LiveRival(p)
        BY <3>1, <3>3, <4>1, <4>2, NullAssumption DEF LiveRival, IsProcessAlive
      <4>4. QED
        BY <2>2, <4>3
    <3>4. QED
      BY <1>0, <3>1, <3>2, <3>3, ProcessStep
  <2>3. QED
    BY <2>1, <2>2
<1>5. ASSUME NEW p \in Procs, WriteClaim(p) PROVE ClaimInv'
  BY <1>0, <1>5, WriteStep
<1>6. ASSUME NEW p \in Procs, LoseSwap(p) PROVE ClaimInv'
  BY <1>0, <1>6, ThrownStep DEF LoseSwap, Running
<1>7. ASSUME NEW p \in Procs, ReadBack(p) PROVE ClaimInv'
  <2>1. CASE ~agent.exists
    BY <1>0, <1>7, <2>1, ThrownStep DEF ReadBack, Running
  <2>2. CASE agent.exists
    <3> DEFINE r == [proc[p] EXCEPT !.pc = "idle", !.force = FALSE,
                                    !.seen = NoRow, !.serving = TRUE]
    <3>1. proc[p] \in Proc /\ NoRow \in Row
      BY DEF ClaimInv, HandleTypeOK, NoRow, Row
    <3>2. /\ r \in Proc /\ r.pc = "idle" /\ r.pid = proc[p].pid /\ r.seen = NoRow
      BY <3>1 DEF Proc
    <3>3. /\ proc' = [proc EXCEPT ![p] = r] /\ proc[p].pc = "wrote"
          /\ agent' = agent /\ ousted' = ousted
      BY <1>7, <2>2 DEF ReadBack
    <3> HIDE DEF r
    <3>4. QED
      BY <1>0, <3>2, <3>3, ProcessStep
  <2>3. QED
    BY <2>1, <2>2
<1>8. CASE Kick
  BY <1>0, <1>8, DeleteStep DEF Kick
<1>9. ASSUME NEW force \in BOOLEAN, PartitionPrunable(force) PROVE ClaimInv'
  BY <1>0, <1>9 DEF PartitionPrunable, ClaimInv, RowsName, Names, OnePidEach, Judged,
                    HoldsItsRow, Claimant, Running
<1>10. CASE PruneAgents
  BY <1>0, <1>10, DeleteStep DEF PruneAgents
<1>11. CASE UNCHANGED handleVars
  BY <1>0, <1>11 DEF handleVars, ClaimInv, RowsName, Names, OnePidEach, Judged,
                     HoldsItsRow, Claimant, Running
<1>12. QED
  BY <1>1, <1>2, <1>3, <1>4, <1>5, <1>6, <1>7, <1>8, <1>9, <1>10, <1>11
     DEF HandleNext, Upsert

(* A running process that claimed the handle holds its row, unless it was  *)
(* forced out, freed by a delete or ousted through a recycled pid.         *)
THEOREM ClaimantHolds == HandleSpec => []HoldsItsRow
<1>1. ClaimInv => HoldsItsRow
  BY DEF ClaimInv
<1>2. QED
  BY <1>1, InitClaimInv, StepClaimInv, PTL DEF HandleSpec

(* So two processes that were not ousted never read the same mail. *)
THEOREM OneReader == HandleSpec => []OneMailReader
<1>1. ClaimInv => OneMailReader
  BY DEF ClaimInv, HoldsItsRow, OneMailReader, RowOf
<1>2. QED
  BY <1>1, InitClaimInv, StepClaimInv, PTL DEF HandleSpec

-----------------------------------------------------------------------------
(* When the system never gives out a pid twice, the compare-and-swap on    *)
(* the pid is one on the row.                                              *)

(* A pid that is not NULL names one row among those that are still held in *)
(* the table or by a call, and the process that runs under it.             *)
Alike(row, other) ==
  row.exists /\ other.exists /\ row.pid = other.pid /\ row.pid # NoPid
    => row = other

OwnedBy(row) ==
  /\ row.pid \in used \cup {NoPid}
  /\ \A p \in Procs :
       row.exists /\ Running(p) /\ row.pid = proc[p].pid => row = RowOf(proc[p].pid, p)

(* A call that found no row expects no pid. *)
Absent(row) == ~row.exists => row = NoRow

PidsNameRows ==
  /\ \A p \in Procs : Running(p) => proc[p].pid \in used
  /\ OwnedBy(agent) /\ \A p \in Procs : OwnedBy(proc[p].seen)
  /\ Absent(agent) /\ \A p \in Procs : Absent(proc[p].seen)
  /\ \A p \in Procs : Alike(agent, proc[p].seen)
  /\ \A p, q \in Procs : Alike(proc[p].seen, proc[q].seen)

(* A row without a pid was there from the start, and every call has read it. *)
NullRowIsOld ==
  agent.exists /\ agent.pid = NoPid =>
    \A p \in Procs : proc[p].pc \in {"read", "judged"} => proc[p].seen = agent

LInv == ClaimInv /\ PidsNameRows /\ NullRowIsOld

LEMMA InitLInv == HandleInit => LInv
<1>1. SUFFICES ASSUME HandleInit PROVE LInv
  OBVIOUS
<1>2. \A p \in Procs : proc[p].pc = "unborn" /\ proc[p].seen = NoRow
  BY <1>1 DEF HandleInit, Unborn
<1>3. agent.pid \in used \cup {NoPid}
  BY <1>1 DEF HandleInit
<1>4. PidsNameRows
  <2>1. Absent(agent)
    BY <1>1 DEF HandleInit, Absent, NoRow, RowOf
  <2>2. \A p \in Procs : ~Running(p)
    BY <1>2 DEF Running
  <2>3. OwnedBy(agent) /\ \A p \in Procs : OwnedBy(proc[p].seen)
    BY <1>2, <1>3, <2>2 DEF OwnedBy, NoRow
  <2>4. ~NoRow.exists
    BY DEF NoRow
  <2>5. QED
    BY <1>2, <2>1, <2>2, <2>3, <2>4 DEF PidsNameRows, Alike, Absent
<1>5. NullRowIsOld
  BY <1>2 DEF NullRowIsOld
<1>6. QED
  BY <1>1, <1>4, <1>5, InitClaimInv DEF LInv

(* A step of one process that is already running, as in ProcessStep. *)
LEMMA ProcessNames ==
  ASSUME LInv, ClaimInv', NEW p \in Procs, NEW r \in Proc,
         proc' = [proc EXCEPT ![p] = r],
         agent' = agent, used' = used,
         proc[p].pc # "unborn",
         r.pc # "gone" => proc[p].pc # "gone" /\ r.pid = proc[p].pid,
         r.seen \in {NoRow, agent, proc[p].seen},
         r.pc = "read" => r.seen = agent,
         r.pc = "judged" => proc[p].pc = "read" /\ r.seen = proc[p].seen
  PROVE  LInv'
<1> USE DEF LInv, ClaimInv, HandleTypeOK
<1>1. \A q \in Procs : proc'[q] = IF q = p THEN r ELSE proc[q]
  OBVIOUS
<1>2. \A q \in Procs : Running(q)' => Running(q) /\ proc'[q].pid = proc[q].pid
  BY <1>1, ClaimInv DEF Running
<1>3. ASSUME NEW row, OwnedBy(row) PROVE OwnedBy(row)'
  BY <1>2, <1>3 DEF OwnedBy
<1>4. OwnedBy(NoRow) /\ OwnedBy(agent) /\ OwnedBy(proc[p].seen)
  BY DEF OwnedBy, NoRow, PidsNameRows
<1>5. \A q \in Procs : proc'[q].seen \in {NoRow, agent, proc[q].seen}
  BY <1>1
<1>6. PidsNameRows'
  <2>1. \A q \in Procs : (Running(q) => proc[q].pid \in used)'
    BY <1>2 DEF PidsNameRows
  <2>2. OwnedBy(agent)'
    BY <1>3, <1>4
  <2>3. ASSUME NEW q \in Procs PROVE OwnedBy(proc[q].seen)'
    <3>1. OwnedBy(proc'[q].seen)
      BY <1>4, <1>5 DEF PidsNameRows
    <3>2. QED
      BY <1>2, <3>1 DEF OwnedBy
  <2>4. \A q \in Procs : Alike(agent, proc[q].seen)'
    BY <1>5 DEF PidsNameRows, Alike, NoRow, Absent
  <2>5. \A q, t \in Procs : Alike(proc[q].seen, proc[t].seen)'
    BY <1>5 DEF PidsNameRows, Alike, NoRow, Absent
  <2>6. Absent(agent)' /\ \A q \in Procs : Absent(proc[q].seen)'
    BY <1>5 DEF PidsNameRows, Absent
  <2>7. QED
    BY <2>1, <2>2, <2>3, <2>4, <2>5, <2>6 DEF PidsNameRows
<1>7. NullRowIsOld'
  BY <1>1 DEF NullRowIsOld
<1>8. QED
  BY <1>6, <1>7

LEMMA StepLInv ==
  ASSUME Recycle = FALSE, LInv, [HandleNext]_handleVars
  PROVE  LInv'
<1>0. ClaimInv'
  BY StepClaimInv DEF LInv
<1> USE DEF LInv
<1>1. ASSUME NEW p \in Procs, NEW pid \in Pids, Spawn(p, pid) PROVE LInv'
  <2> DEFINE r == [Unborn EXCEPT !.pc = "idle", !.pid = pid]
  <2>1. /\ \A q \in Procs : proc'[q] = IF q = p THEN r ELSE proc[q]
        /\ proc[p].pc = "unborn" /\ pid \notin used
        /\ agent' = agent /\ used' = used \cup {pid}
    BY <1>1 DEF Spawn, ClaimInv, HandleTypeOK
  <2>2. /\ r.pc = "idle" /\ r.pid = pid /\ r.seen = NoRow
    BY DEF Unborn
  <2> HIDE DEF r
  <2>3. ASSUME NEW row, OwnedBy(row) PROVE OwnedBy(row)'
    BY <2>1, <2>2, <2>3, NullAssumption DEF OwnedBy, Running
  <2>4. OwnedBy(NoRow)
    BY DEF OwnedBy, NoRow
  <2>5. \A q \in Procs : proc'[q].seen \in {NoRow, proc[q].seen}
    BY <2>1, <2>2
  <2>6. \A q \in Procs : OwnedBy(proc[q].seen)'
    <3>1. TAKE q \in Procs
    <3>2. OwnedBy(proc'[q].seen)
      BY <2>4, <2>5 DEF PidsNameRows
    <3>3. QED
      BY <2>1, <2>2, <3>2, NullAssumption DEF OwnedBy, Running
  <2>7. OwnedBy(agent)'
    BY <2>1, <2>3 DEF PidsNameRows
  <2>8. \A q \in Procs : (Running(q) => proc[q].pid \in used)'
    BY <2>1, <2>2 DEF PidsNameRows, Running
  <2>9. /\ \A q \in Procs : Alike(agent, proc[q].seen)'
        /\ \A q, t \in Procs : Alike(proc[q].seen, proc[t].seen)'
    BY <2>1, <2>5 DEF PidsNameRows, Alike, NoRow, Absent
  <2>10. NullRowIsOld'
    BY <2>1, <2>2 DEF NullRowIsOld
  <2>11. Absent(agent)' /\ \A q \in Procs : Absent(proc[q].seen)'
    BY <2>1, <2>5 DEF PidsNameRows, Absent
  <2>12. QED
    BY <1>0, <2>6, <2>7, <2>8, <2>9, <2>10, <2>11 DEF PidsNameRows
<1>2. ASSUME NEW p \in Procs, Exit(p) PROVE LInv'
  <2> DEFINE r == [Unborn EXCEPT !.pc = "gone"]
  <2>1. r \in Proc /\ r.pc = "gone" /\ r.seen = NoRow
    BY DEF Unborn, Proc, NoRow, Row
  <2>2. /\ proc' = [proc EXCEPT ![p] = r] /\ proc[p].pc # "unborn"
        /\ agent' = agent /\ used' = used
    BY <1>2 DEF Exit, Running
  <2> HIDE DEF r
  <2>3. QED
    BY <1>0, <2>1, <2>2, ProcessNames
<1>3. ASSUME NEW p \in Procs, NEW force \in BOOLEAN, ReadIncumbent(p, force)
      PROVE LInv'
  <2> DEFINE r == [proc[p] EXCEPT !.pc = "read", !.force = force, !.seen = agent]
  <2>1. /\ r \in Proc /\ r.pc = "read" /\ r.pid = proc[p].pid /\ r.seen = agent
    <3>1. proc[p] \in Proc /\ agent \in Row
      BY DEF ClaimInv, HandleTypeOK
    <3>2. QED
      BY <3>1 DEF Proc
  <2>2. /\ proc' = [proc EXCEPT ![p] = r] /\ proc[p].pc = "idle"
        /\ agent' = agent /\ used' = used
    BY <1>3 DEF ReadIncumbent
  <2> HIDE DEF r
  <2>3. QED
    BY <1>0, <2>1, <2>2, ProcessNames
<1>4. ASSUME NEW p \in Procs, proc' = [proc EXCEPT ![p] = Thrown(p)],
             agent' = agent, used' = used, Running(p)
      PROVE LInv'
  <2>1. Thrown(p) \in Proc
    BY ThrownTyped DEF ClaimInv
  <2>2. /\ Thrown(p).pc \in {"idle", "gone"} /\ Thrown(p).seen = NoRow
        /\ Thrown(p).pc # "gone" => Thrown(p).pid = proc[p].pid
    BY DEF Thrown, Unborn, ClaimInv, HandleTypeOK, Proc
  <2>3. QED
    BY <1>0, <1>4, <2>1, <2>2, ProcessNames DEF Running
<1>5. ASSUME NEW p \in Procs, RefuseLiveRival(p) PROVE LInv'
  <2>1. CASE LiveRival(p)
    BY <1>4, <1>5, <2>1 DEF RefuseLiveRival, Running
  <2>2. CASE ~LiveRival(p)
    <3> DEFINE r == [proc[p] EXCEPT !.pc = "judged"]
    <3>1. /\ r \in Proc /\ r.pc = "judged" /\ r.pid = proc[p].pid
          /\ r.seen = proc[p].seen
      BY DEF ClaimInv, HandleTypeOK, Proc
    <3>2. /\ proc' = [proc EXCEPT ![p] = r] /\ proc[p].pc = "read"
          /\ agent' = agent /\ used' = used
      BY <1>5, <2>2 DEF RefuseLiveRival
    <3> HIDE DEF r
    <3>3. QED
      BY <1>0, <3>1, <3>2, ProcessNames
  <2>3. QED
    BY <2>1, <2>2
<1>6. ASSUME NEW p \in Procs, WriteClaim(p) PROVE LInv'
  <2> DEFINE r == [proc[p] EXCEPT !.pc = "wrote"]
             new == RowOf(proc[p].pid, p)
  <2>1. /\ \A q \in Procs : proc'[q] = IF q = p THEN r ELSE proc[q]
        /\ proc[p].pc = "judged" /\ agent' = new /\ used' = used
    BY <1>6 DEF WriteClaim, ClaimInv, HandleTypeOK
  <2>2. /\ r.pc = "wrote" /\ r.pid = proc[p].pid /\ r.seen = proc[p].seen
    BY DEF ClaimInv, HandleTypeOK, Proc
  <2>3. /\ new.exists /\ new.pid = proc[p].pid /\ new.pid \in Pids
        /\ new.pid \in used
    BY <2>1 DEF RowOf, ClaimInv, OnePidEach, PidsNameRows, Running
  <2> HIDE DEF r
  <2>4. \A q \in Procs : /\ Running(q)' <=> Running(q)
                         /\ proc'[q].pid = proc[q].pid
                         /\ proc'[q].seen = proc[q].seen
    BY <2>1, <2>2 DEF Running
  <2>5. OwnedBy(new)
    BY <2>1, <2>3 DEF OwnedBy, ClaimInv, OnePidEach, Running
  <2>6. \A q \in Procs : Alike(new, proc[q].seen)
    BY <2>1, <2>3 DEF Alike, OwnedBy, PidsNameRows, Running
  <2> HIDE DEF new
  <2>7. PidsNameRows'
    <3>1. OwnedBy(agent)' /\ \A q \in Procs : OwnedBy(proc[q].seen)'
      BY <2>1, <2>4, <2>5 DEF PidsNameRows, OwnedBy
    <3>2. /\ \A q \in Procs : Alike(agent, proc[q].seen)'
          /\ \A q, t \in Procs : Alike(proc[q].seen, proc[t].seen)'
      BY <2>1, <2>4, <2>6 DEF PidsNameRows, Alike
    <3>3. Absent(agent)' /\ \A q \in Procs : Absent(proc[q].seen)'
      BY <2>1, <2>3, <2>4 DEF PidsNameRows, Absent
    <3>4. \A q \in Procs : (Running(q) => proc[q].pid \in used)'
      BY <2>1, <2>4 DEF PidsNameRows
    <3>5. QED
      BY <3>1, <3>2, <3>3, <3>4 DEF PidsNameRows
  <2>8. NullRowIsOld'
    BY <2>1, <2>3, NullAssumption DEF NullRowIsOld
  <2>9. QED
    BY <1>0, <2>7, <2>8
<1>7. ASSUME NEW p \in Procs, LoseSwap(p) PROVE LInv'
  BY <1>4, <1>7 DEF LoseSwap, Running
<1>8. ASSUME NEW p \in Procs, ReadBack(p) PROVE LInv'
  <2>1. CASE ~agent.exists
    BY <1>4, <1>8, <2>1 DEF ReadBack, Running
  <2>2. CASE agent.exists
    <3> DEFINE r == [proc[p] EXCEPT !.pc = "idle", !.force = FALSE,
                                    !.seen = NoRow, !.serving = TRUE]
    <3>1. proc[p] \in Proc /\ NoRow \in Row
      BY DEF ClaimInv, HandleTypeOK, NoRow, Row
    <3>2. /\ r \in Proc /\ r.pc = "idle" /\ r.pid = proc[p].pid /\ r.seen = NoRow
      BY <3>1 DEF Proc
    <3>3. /\ proc' = [proc EXCEPT ![p] = r] /\ proc[p].pc = "wrote"
          /\ agent' = agent /\ used' = used
      BY <1>8, <2>2 DEF ReadBack
    <3> HIDE DEF r
    <3>4. QED
      BY <1>0, <3>2, <3>3, ProcessNames
  <2>3. QED
    BY <2>1, <2>2
<1>9. ASSUME agent' = NoRow, UNCHANGED <<proc, used>> PROVE LInv'
  BY <1>0, <1>9 DEF PidsNameRows, OwnedBy, Alike, Absent, NullRowIsOld, NoRow, Running
<1>10. ASSUME UNCHANGED <<agent, proc, used>> PROVE LInv'
  BY <1>0, <1>10 DEF PidsNameRows, OwnedBy, Alike, Absent, NullRowIsOld, Running
<1>11. CASE Kick \/ PruneAgents
  BY <1>9, <1>11 DEF Kick, PruneAgents
<1>12. CASE (\E force \in BOOLEAN : PartitionPrunable(force)) \/ UNCHANGED handleVars
  BY <1>10, <1>12 DEF PartitionPrunable, handleVars
<1>13. QED
  BY <1>1, <1>2, <1>3, <1>5, <1>6, <1>7, <1>8, <1>11, <1>12 DEF HandleNext, Upsert

(* Without recycled pids an unforced claim replaces exactly the row it has *)
(* read, as dao.ts says of writeClaim; with them TLC shows that it does    *)
(* not.                                                                    *)
THEOREM SwapIsOverTheRow ==
  ASSUME Recycle = FALSE
  PROVE  HandleSpec => SwapReplacesTheRowItRead
<1>1. ASSUME LInv, [HandleNext]_handleVars, NEW p \in Procs,
             proc[p].pc = "judged", proc'[p].pc = "wrote",
             ~proc[p].force, agent.exists
      PROVE  agent = proc[p].seen
  <2>1. SwapSucceeds(p)
    <3>1. proc \in [Procs -> Proc]
      BY <1>1 DEF LInv, ClaimInv, HandleTypeOK
    <3>2. ASSUME NEW q \in Procs, NEW s \in Proc, proc' = [proc EXCEPT ![q] = s],
                 s.pc # "wrote"
          PROVE  FALSE
      BY <1>1, <3>1, <3>2
    <3>3. ASSUME NEW q \in Procs, NEW pid \in Pids, Spawn(q, pid) PROVE FALSE
      BY <1>1, <3>1, <3>3 DEF Spawn, Unborn
    <3>4. ASSUME NEW q \in Procs, Exit(q) PROVE FALSE
      BY <1>1, <3>1, <3>4 DEF Exit, Unborn
    <3>5. ASSUME NEW q \in Procs, NEW force \in BOOLEAN, ReadIncumbent(q, force)
          PROVE FALSE
      BY <1>1, <3>1, <3>5 DEF ReadIncumbent, Proc
    <3>6. ASSUME NEW q \in Procs, Thrown(q).pc = "wrote" PROVE FALSE
      BY <3>1, <3>6 DEF Thrown, Unborn, Proc
    <3>7. ASSUME NEW q \in Procs, RefuseLiveRival(q) PROVE FALSE
      BY <1>1, <3>1, <3>6, <3>7 DEF RefuseLiveRival, Proc
    <3>8. ASSUME NEW q \in Procs, LoseSwap(q) \/ ReadBack(q) PROVE FALSE
      BY <1>1, <3>1, <3>6, <3>8 DEF LoseSwap, ReadBack, Proc
    <3>9. ASSUME UNCHANGED proc PROVE FALSE
      BY <1>1, <3>9
    <3>10. ASSUME NEW q \in Procs, WriteClaim(q) PROVE SwapSucceeds(p)
      BY <1>1, <3>1, <3>10 DEF WriteClaim
    <3>11. QED
      BY <1>1, <3>3, <3>4, <3>5, <3>7, <3>8, <3>9, <3>10
         DEF HandleNext, Upsert, Kick, PartitionPrunable, PruneAgents, handleVars
  <2>2. agent.pid = proc[p].seen.pid
    BY <1>1, <2>1 DEF SwapSucceeds
  <2>3. CASE agent.pid = NoPid
    BY <1>1, <2>3 DEF LInv, NullRowIsOld
  <2>4. CASE agent.pid # NoPid
    <3>1. proc[p].seen.exists
      BY <1>1, <2>2, <2>4 DEF LInv, PidsNameRows, Absent, NoRow
    <3>2. QED
      BY <1>1, <2>2, <2>4, <3>1 DEF LInv, PidsNameRows, Alike
  <2>5. QED
    BY <2>3, <2>4
<1>2. LInv /\ [HandleNext]_handleVars =>
        \A p \in Procs :
          /\ proc[p].pc = "judged" /\ proc'[p].pc = "wrote"
          /\ ~proc[p].force
          /\ agent.exists
          => agent = proc[p].seen
  BY <1>1
<1>3. QED
  BY <1>2, InitLInv, StepLInv, PTL DEF HandleSpec, SwapReplacesTheRowItRead

-----------------------------------------------------------------------------
(* WakeSocket, for any set of supervisors.                                 *)
(*                                                                         *)
(* SomeoneIsReachable speaks of the moments when no start is under way and *)
(* is not inductive.  While starts are under way the path may lead to      *)
(* nobody: LedOrBound says that then someone who is about to bind will     *)
(* lead it, and BindsOverNobody that no debris is in that one's way.       *)

Alive(p) == at[p] \in {"bound", "accepting", "listening"}
Led == file # NoFile /\ Alive(file)
Binding == \E p \in Supervisors : at[p] = "binding"

BindsOverNobody == Binding => file = NoFile \/ Led
LedOrBound == (\E p \in Supervisors : Alive(p)) => Led \/ Binding

SocketInv == TypeOK /\ (~cut => BindsOverNobody /\ LedOrBound)

LEMMA InitSocket == Init => SocketInv
BY NoFileAssumption
   DEF Init, SocketInv, TypeOK, States, BindsOverNobody, LedOrBound, Led, Binding, Alive

LEMMA SocketTyped == TypeOK /\ [Next]_vars => TypeOK'
BY NoFileAssumption
   DEF TypeOK, States, Next, vars, Proceed, Look, FindDead, Refuse, Fails, Goes,
       Unlink, Bind, Listen, Chmod, Close, Unlinked, Crash, Starting, BesideAnother, Answers

LEMMA NextSocket == SocketInv /\ [Next]_vars => SocketInv'
<1> SUFFICES ASSUME SocketInv, [Next]_vars, ~cut'
             PROVE  BindsOverNobody' /\ LedOrBound'
  BY SocketTyped DEF SocketInv
<1> USE NoFileAssumption
<1> USE DEF TypeOK, States, BindsOverNobody, LedOrBound, Led, Binding, Alive
<1>t. TypeOK /\ TypeOK'
  BY SocketTyped DEF SocketInv
<1>1. ASSUME NEW p \in Supervisors, Look(p) \/ FindDead(p) \/ Refuse(p)
      PROVE  BindsOverNobody' /\ LedOrBound'
  BY <1>1, <1>t DEF SocketInv, Look, FindDead, Refuse, Fails, Goes, Answers
<1>2. ASSUME NEW p \in Supervisors, Unlink(p)
      PROVE  BindsOverNobody' /\ LedOrBound'
  BY <1>2, <1>t DEF SocketInv, Unlink, Fails
<1>3. ASSUME NEW p \in Supervisors, Bind(p)
      PROVE  BindsOverNobody' /\ LedOrBound'
  BY <1>3, <1>t DEF SocketInv, Bind, Fails
<1>4. ASSUME NEW p \in Supervisors, Listen(p) \/ Chmod(p)
      PROVE  BindsOverNobody' /\ LedOrBound'
  BY <1>4, <1>t DEF SocketInv, Listen, Chmod, Goes, Fails
<1>5. ASSUME NEW p \in Supervisors, Close(p) \/ Unlinked(p)
      PROVE  BindsOverNobody' /\ LedOrBound'
  BY <1>5, <1>t DEF SocketInv, Close, Unlinked, Goes, BesideAnother, Starting
<1>6. ASSUME NEW p \in Supervisors, Crash(p)
      PROVE  BindsOverNobody' /\ LedOrBound'
  BY <1>6, <1>t DEF SocketInv, Crash, BesideAnother, Starting
<1>7. CASE UNCHANGED vars
  BY <1>7 DEF SocketInv, vars
<1>8. QED
  BY <1>1, <1>2, <1>3, <1>4, <1>5, <1>6, <1>7 DEF Next, Proceed

(* However many supervisors start over one another and over what a crashed *)
(* one left, the path leads in the end to one that listens, unless one     *)
(* ended in a way that may leave another alone.                            *)
THEOREM Reached == Spec => []SomeoneIsReachable
<1>1. SocketInv => SomeoneIsReachable
  BY NoFileAssumption
     DEF SocketInv, TypeOK, SomeoneIsReachable, Settled, Reachable, BindsOverNobody, LedOrBound,
         Led, Binding, Alive
<1>2. QED
  BY InitSocket, NextSocket, <1>1, PTL DEF Spec

-----------------------------------------------------------------------------
(* ContextGauge: the band table for every percentage, and that the stored  *)
(* threshold fits the last report that ran alone, for any number of        *)
(* reporters, percentages and rooms.                                       *)

LEMMA HighestIs ==
  ASSUME NEW S, S \subseteq Bands
  PROVE  /\ S = {} => Highest(S) = None
         /\ S # {} => Highest(S) \in S /\ \A c \in S : c <= Highest(S)
<1>1. CASE S = {}
  BY <1>1 DEF Highest
<1>2. CASE S # {}
  <2>1. \E b \in S : \A c \in S : c <= b
    <3>1. CASE 95 \in S
      BY <3>1 DEF Bands
    <3>2. CASE 95 \notin S /\ 85 \in S
      BY <3>2 DEF Bands
    <3>3. CASE 95 \notin S /\ 85 \notin S /\ 70 \in S
      BY <3>3 DEF Bands
    <3>4. CASE 95 \notin S /\ 85 \notin S /\ 70 \notin S
      <4>1. \A c \in S : c = 50
        BY <3>4 DEF Bands
      <4>2. PICK c \in S : TRUE
        BY <1>2
      <4>3. \A d \in S : d <= c
        BY <4>1
      <4>4. QED
        BY <4>3
    <3>5. QED
      BY <3>1, <3>2, <3>3, <3>4
  <2>2. QED
    BY <2>1, <1>2 DEF Highest
<1>3. QED
  BY <1>1, <1>2

LEMMA FireIs ==
  ASSUME NEW p \in Nat, NEW w \in Thresholds
  PROVE  /\ Fire(p, w) \in Thresholds
         /\ Fire(p, w) = None => \A b \in Bands : p >= b => w >= b
         /\ Fire(p, w) # None => /\ p >= Fire(p, w) /\ w < Fire(p, w)
                                 /\ \A b \in Bands : p >= b => b <= Fire(p, w)
<1> DEFINE S == {b \in Bands : p >= b /\ w < b}
<1>1. /\ S = {} => Highest(S) = None
      /\ S # {} => Highest(S) \in S /\ \A c \in S : c <= Highest(S)
  BY HighestIs
<1>2. Fire(p, w) = Highest(S)
  BY DEF Fire
<1> HIDE DEF S
<1>3. S \subseteq Bands /\ (\A b \in S : p >= b /\ w < b) /\ (\A b \in Bands \ S : ~(p >= b /\ w < b))
  BY DEF S
<1>4. CASE S = {}
  BY <1>1, <1>2, <1>3, <1>4 DEF Bands, Thresholds, None
<1>5. CASE S # {}
  <2>1. Fire(p, w) \in S /\ \A c \in S : c <= Fire(p, w)
    BY <1>1, <1>2, <1>5
  <2>2. Fire(p, w) \in Bands /\ p >= Fire(p, w) /\ w < Fire(p, w)
    BY <2>1, <1>3
  <2>3. ASSUME NEW b \in Bands, p >= b
        PROVE  b <= Fire(p, w)
    <3>1. CASE w < b
      BY <3>1, <2>3, <2>1, <1>3
    <3>2. CASE ~(w < b)
      BY <3>2, <2>2 DEF Bands, Thresholds, None
    <3>3. QED
      BY <3>1, <3>2
  <2>4. QED
    BY <2>2, <2>3 DEF Bands, Thresholds, None
<1>6. QED
  BY <1>4, <1>5

(* The table is four independent triggers, each set at its line and reset  *)
(* five percent below it, and the threshold is the highest that is set:    *)
(* nextGaugeState computes no more and no less, for every percentage.      *)
THEOREM Triggers ==
  ASSUME NEW p \in Nat, NEW w \in Thresholds
  PROVE  NextWarned(p, w) = Highest({b \in Bands : p >= b \/ (b <= w /\ p >= Reset(b))})
<1> DEFINE S == {b \in Bands : p >= b \/ (b <= w /\ p >= Reset(b))}
<1>1. /\ S = {} => Highest(S) = None
      /\ S # {} => Highest(S) \in S /\ \A c \in S : c <= Highest(S)
  BY HighestIs
<1>2. \A b \in Bands : b \in S <=> p >= b \/ (b <= w /\ p >= Reset(b))
  OBVIOUS
<1>3. S \subseteq Bands
  OBVIOUS
<1>4. NextWarned(p, w) = Highest(S)
  <2> HIDE DEF S
  <2>1. CASE Fire(p, w) # None
    <3>1. /\ Fire(p, w) \in Bands /\ p >= Fire(p, w) /\ w < Fire(p, w)
          /\ \A b \in Bands : p >= b => b <= Fire(p, w)
      BY <2>1, FireIs DEF Thresholds
    <3>2. Fire(p, w) \in S
      BY <3>1, <1>2
    <3>3. \A b \in S : b <= Fire(p, w)
      BY <3>1, <1>2, <1>3 DEF Bands, Thresholds, None
    <3>4. Highest(S) \in Bands /\ Fire(p, w) <= Highest(S) /\ Highest(S) <= Fire(p, w)
      BY <3>2, <3>3, <1>1, <1>3
    <3>5. QED
      BY <2>1, <3>1, <3>4 DEF NextWarned, Bands
  <2>2. CASE Fire(p, w) = None
    <3>1. \A b \in Bands : p >= b => w >= b
      BY <2>2, FireIs
    <3>2. NextWarned(p, w) = Down(p, w)
      BY <2>2 DEF NextWarned
    <3>3. (S = {} /\ Down(p, w) = None) \/ (Down(p, w) \in S /\ \A c \in S : c <= Down(p, w))
      BY <3>1, <1>2, <1>3 DEF Down, Reset, Bands, Thresholds, None
    <3>4. CASE S = {} /\ Down(p, w) = None
      BY <3>4, <3>2, <1>1
    <3>5. CASE Down(p, w) \in S /\ \A c \in S : c <= Down(p, w)
      <4>1. Highest(S) \in S /\ Down(p, w) <= Highest(S) /\ Highest(S) <= Down(p, w)
        BY <3>5, <1>1
      <4> DEFINE h == Highest(S)
                 d == Down(p, w)
      <4>2. h \in Bands /\ d \in Bands
        BY <3>5, <4>1, <1>3
      <4> HIDE DEF h, d
      <4>4. h \in Nat /\ d \in Nat
        BY <4>2 DEF Bands
      <4>3. QED
        BY <4>1, <4>4, <3>2 DEF h, d
    <3>6. QED
      BY <3>3, <3>4, <3>5
  <2>3. QED
    BY <2>1, <2>2
<1>5. QED
  BY <1>4

LEMMA DownIs ==
  ASSUME NEW p \in Nat, NEW w \in Thresholds
  PROVE  /\ Down(p, w) \in Thresholds /\ Down(p, w) <= w
         /\ Down(p, w) # None => p >= Reset(Down(p, w))
         /\ \A b \in Bands : p >= b /\ w >= b => Down(p, w) >= b
BY DEF Down, Reset, Bands, Thresholds, None

LEMMA NextIs ==
  ASSUME NEW p \in Nat, NEW w \in Thresholds
  PROVE  /\ NextWarned(p, w) \in Thresholds
         /\ \A b \in Bands : p >= b => NextWarned(p, w) >= b
         /\ NextWarned(p, w) # None => p >= Reset(NextWarned(p, w))
<1>1. CASE Fire(p, w) # None
  <2>1. NextWarned(p, w) = Fire(p, w)
    BY <1>1 DEF NextWarned
  <2>2. Fire(p, w) \in Bands /\ p >= Fire(p, w) /\ \A b \in Bands : p >= b => b <= Fire(p, w)
    BY <1>1, FireIs DEF Thresholds
  <2>3. QED
    BY <2>1, <2>2 DEF Bands, Thresholds, Reset
<1>2. CASE Fire(p, w) = None
  <2>1. NextWarned(p, w) = Down(p, w)
    BY <1>2 DEF NextWarned
  <2>2. \A b \in Bands : p >= b => w >= b
    BY <1>2, FireIs
  <2>3. QED
    BY <2>1, <2>2, DownIs
<1>3. QED
  BY <1>1, <1>2

-----------------------------------------------------------------------------
(* FitsAlone is not inductive: while a report runs alone what it read is   *)
(* still the threshold, and once it has set the context that is still its  *)
(* percentage.                                                             *)

GaugeTyped ==
  /\ warned \in Thresholds /\ context \in Nat
  /\ pc \in [Reporters -> {"idle", "context", "warned", "audience", "warning"}]
  /\ percent \in [Reporters -> Nat]
  /\ prev \in [Reporters -> Thresholds]
  /\ beside \subseteq Reporters
  /\ alone \in BOOLEAN

(* Reports that are under way together are both beside another. *)
SeesTheOther ==
  \A r, q \in Reporters : r # q /\ r \in Active /\ q \in Active => r \in beside

(* A report that none ran beside is about to set. *)
Lone ==
  \A r \in Reporters :
    r \notin beside /\ pc[r] \in {"context", "warned"} =>
      /\ prev[r] = warned
      /\ pc[r] = "warned" => context = percent[r]

(* After one that set alone, nobody has set anything. *)
Quiet == alone => \A r \in Reporters : pc[r] \notin {"context", "warned"}

FitsInv == GaugeTyped /\ SeesTheOther /\ Lone /\ Quiet /\ FitsAlone

LEMMA InitFits == GaugeInit => FitsInv
BY DEF GaugeInit, FitsInv, GaugeTyped, SeesTheOther, Lone, Quiet, FitsAlone, Active, Thresholds, None, Bands

LEMMA NextGaugeTyped ==
  ASSUME GaugeTyped, [GaugeNext]_gaugeVars
  PROVE  GaugeTyped'
<1> USE DEF GaugeTyped
<1>1. ASSUME NEW r \in Reporters, NEW p \in Percents, Read(r, p)
      PROVE  GaugeTyped'
  <2>1. p \in Nat
    BY PercentsAssumption
  <2>2. QED
    BY <1>1, <2>1 DEF Read, Turns, Active
<1>2. ASSUME NEW r \in Reporters, SetContext(r)
      PROVE  GaugeTyped'
  BY <1>2 DEF SetContext, Turns
<1>3. ASSUME NEW r \in Reporters, SetWarned(r)
      PROVE  GaugeTyped'
  <2>1. NextWarned(percent[r], prev[r]) \in Thresholds
    BY NextIs
  <2>2. QED
    BY <1>3, <2>1 DEF SetWarned, Turns
<1>4. ASSUME NEW r \in Reporters, NEW who, Warn(r, who)
      PROVE  GaugeTyped'
  BY <1>4 DEF Warn
<1>5. ASSUME NEW r \in Reporters, Die(r)
      PROVE  GaugeTyped'
  BY <1>5 DEF Die
<1>6. ASSUME NEW r \in Reporters, ReadAudience(r)
      PROVE  GaugeTyped'
  BY <1>6 DEF ReadAudience, Turns
<1>7. ASSUME MoveRooms
      PROVE  GaugeTyped'
  BY <1>7 DEF MoveRooms
<1>8. QED
  BY <1>1, <1>2, <1>3, <1>4, <1>5, <1>6, <1>7 DEF GaugeNext, gaugeVars

LEMMA NextFits ==
  ASSUME FitsInv, [GaugeNext]_gaugeVars
  PROVE  FitsInv'
<1> USE DEF FitsInv
<1>t. GaugeTyped /\ GaugeTyped'
  BY NextGaugeTyped
<1>1. ASSUME NEW r \in Reporters, NEW p \in Percents, Read(r, p)
      PROVE  SeesTheOther' /\ Lone' /\ Quiet' /\ FitsAlone'
  BY <1>1, <1>t DEF Read, Turns, Active, SeesTheOther, Lone, Quiet, FitsAlone, GaugeTyped
<1>2. ASSUME NEW r \in Reporters, SetContext(r)
      PROVE  SeesTheOther' /\ Lone' /\ Quiet' /\ FitsAlone'
  BY <1>2, <1>t DEF SetContext, Turns, Active, SeesTheOther, Lone, Quiet, FitsAlone, GaugeTyped
<1>3. ASSUME NEW r \in Reporters, SetWarned(r)
      PROVE  SeesTheOther' /\ Lone' /\ Quiet' /\ FitsAlone'
  <2> DEFINE next == NextWarned(percent[r], prev[r])
  <2>1. /\ next \in Thresholds
        /\ \A b \in Bands : percent[r] >= b => next >= b
        /\ next # None => percent[r] >= Reset(next)
    BY <1>t, NextIs DEF GaugeTyped
  <2>2. pc[r] = "warned" /\ pc'[r] \in {"idle", "audience"}
        /\ (\A q \in Reporters \ {r} : pc'[q] = pc[q])
    BY <1>3, <1>t DEF SetWarned, Turns, GaugeTyped
  <2>3. /\ warned' = IF next # prev[r] THEN next ELSE warned
        /\ alone' = (r \notin beside)
        /\ UNCHANGED <<context, percent, prev, beside>>
    BY <1>3 DEF SetWarned
  <2> HIDE DEF next
  <2>4. SeesTheOther'
    BY <2>2, <2>3 DEF SeesTheOther, Active
  <2>5. Lone'
    BY <2>2, <2>3 DEF SeesTheOther, Active, Lone
  <2>6. Quiet'
    BY <2>2, <2>3 DEF SeesTheOther, Active, Quiet
  <2>7. FitsAlone'
    <3>1. SUFFICES ASSUME r \notin beside
                   PROVE  /\ \A b \in Bands : context >= b => warned' >= b
                          /\ warned' # None => context >= Reset(warned')
      BY <2>3 DEF FitsAlone
    <3>2. context = percent[r] /\ warned' = next
      BY <3>1, <2>2, <2>3 DEF Lone
    <3>3. QED
      BY <3>2, <2>1
  <2>8. QED
    BY <2>4, <2>5, <2>6, <2>7
<1>4. ASSUME NEW r \in Reporters, NEW who, Warn(r, who)
      PROVE  SeesTheOther' /\ Lone' /\ Quiet' /\ FitsAlone'
  BY <1>4, <1>t DEF Warn, Active, SeesTheOther, Lone, Quiet, FitsAlone, GaugeTyped
<1>5. ASSUME NEW r \in Reporters, Die(r)
      PROVE  SeesTheOther' /\ Lone' /\ Quiet' /\ FitsAlone'
  BY <1>5, <1>t DEF Die, Active, SeesTheOther, Lone, Quiet, FitsAlone, GaugeTyped
<1>6. ASSUME NEW r \in Reporters, ReadAudience(r)
      PROVE  SeesTheOther' /\ Lone' /\ Quiet' /\ FitsAlone'
  BY <1>6, <1>t DEF ReadAudience, Turns, Active, SeesTheOther, Lone, Quiet, FitsAlone, GaugeTyped
<1>7. CASE MoveRooms \/ UNCHANGED gaugeVars
  BY <1>7 DEF MoveRooms, gaugeVars, GaugeTyped, SeesTheOther, Lone, Quiet, FitsAlone, Active
<1>8. QED
  BY <1>t, <1>1, <1>2, <1>3, <1>4, <1>5, <1>6, <1>7 DEF GaugeNext

(* For any number of reports, whatever raced or died before, a report with *)
(* none beside it leaves a threshold that fits the percentage.             *)
THEOREM Fits == GaugeSpec => []FitsAlone
<1>1. FitsInv => FitsAlone
  BY DEF FitsInv
<1>2. QED
  BY InitFits, NextFits, <1>1, PTL DEF GaugeSpec

-----------------------------------------------------------------------------
(* Who was told.  The bands told of are the lowest ones, up to one at most *)
(* at the threshold (Ladder); a threshold that is not among them has a     *)
(* report that is about to tell of it (Pledged); and a report with none    *)
(* beside it tells of a band that is news (News).                          *)

Ladder ==
  /\ told \subseteq Bands
  /\ \A b \in told : b <= warned /\ \A c \in Bands : c <= b => c \in told

AboutToTell(r) == pc[r] \in {"audience", "warning"}

Pledged ==
  ~excused /\ warned # None =>
    warned \in told \/ \E r \in Reporters : AboutToTell(r) /\ Fired(r) >= warned

News == \A r \in Reporters : AboutToTell(r) /\ r \notin beside => Fired(r) \notin told

ToldInv == FitsInv /\ Ladder /\ Pledged /\ News

LEMMA InitToldInv == GaugeInit => ToldInv
BY InitFits DEF GaugeInit, ToldInv, Ladder, Pledged, News, AboutToTell

(* What a report that is not idle fires depends on it alone. *)
LEMMA FiredIsKept ==
  ASSUME NEW r \in Reporters, percent'[r] = percent[r], prev'[r] = prev[r]
  PROVE  Fired(r)' = Fired(r)
BY DEF Fired

LEMMA FiredTyped ==
  ASSUME GaugeTyped
  PROVE  \A r \in Reporters : Fired(r) \in Thresholds
BY FireIs DEF Fired, GaugeTyped

LEMMA BandsAreNumbers == Bands \subseteq Nat /\ Thresholds \subseteq Nat
BY DEF Bands, Thresholds, None

LEMMA BeginsToTell ==
  ASSUME ToldInv, GaugeTyped', NEW r \in Reporters, SetWarned(r)
  PROVE  Ladder' /\ Pledged' /\ News'
<1> DEFINE next == NextWarned(percent[r], prev[r])
<1>t. GaugeTyped /\ Ladder
  BY DEF ToldInv, FitsInv
<1>1. /\ pc[r] = "warned" /\ \A q \in Reporters \ {r} : pc'[q] = pc[q]
      /\ warned' = IF next # prev[r] THEN next ELSE warned
      /\ told' = {b \in told : b <= warned'}
      /\ excused' = (warned' \notin told' \cup {None} /\ (excused \/ r \in beside))
      /\ UNCHANGED <<percent, prev, beside>>
  BY <1>t DEF SetWarned, Turns, GaugeTyped
<1>2. Fired(r) # None => next = Fired(r) /\ pc'[r] = "audience" /\ Fired(r) > prev[r]
  <2>1. Fired(r) # None => pc'[r] = "audience"
    BY <1>t DEF SetWarned, Turns, GaugeTyped
  <2>2. Fired(r) # None => Fired(r) > prev[r]
    BY <1>t, FireIs DEF Fired, GaugeTyped, Thresholds, Bands, None
  <2>3. QED
    BY <2>1, <2>2 DEF Fired, NextWarned
<1>3. Fired(r) = None => next \in Thresholds /\ next <= prev[r] /\ pc'[r] = "idle"
  BY <1>t, DownIs DEF Fired, NextWarned, SetWarned, Turns, GaugeTyped
<1>4. r \notin beside => prev[r] = warned /\ \A q \in Reporters \ {r} : pc[q] = "idle"
  BY <1>1, <1>t DEF ToldInv, FitsInv, Lone, SeesTheOther, Active
<1>5. \A q \in Reporters : Fired(q)' = Fired(q)
  BY <1>1, FiredIsKept
<1>6. Ladder'
  <2>1. \A b \in told, c \in Bands : c <= b /\ b <= warned' => c \in told /\ c <= warned'
    BY <1>t, BandsAreNumbers DEF Ladder, GaugeTyped
  <2>2. QED
    BY <2>1, <1>1, <1>t DEF Ladder
<1> HIDE DEF next
<1>7. Pledged'
  <2> SUFFICES ASSUME ~excused', warned' # None, warned' \notin told'
               PROVE  \E q \in Reporters : AboutToTell(q)' /\ Fired(q)' >= warned'
    BY DEF Pledged
  <2>1. ~excused /\ r \notin beside /\ prev[r] = warned
    BY <1>1, <1>4
  <2>2. CASE Fired(r) # None
    <3>1. warned' = Fired(r) /\ AboutToTell(r)'
      BY <2>1, <2>2, <1>1, <1>2, FiredTyped, <1>t DEF Thresholds, Bands, None, GaugeTyped, AboutToTell
    <3>2. Fired(r)' >= warned'
      BY <3>1, <1>5, FiredTyped, <1>t DEF Thresholds, Bands, None
    <3>3. QED
      BY <3>1, <3>2
  <2>3. CASE Fired(r) = None
    <3>1. warned' = next /\ next <= warned /\ next \in Bands /\ warned # None
      BY <2>1, <2>3, <1>1, <1>3, <1>t DEF Thresholds, Bands, None, GaugeTyped
    <3>2. warned \in told
      BY <2>1, <3>1, <1>4, <1>1 DEF ToldInv, Pledged, AboutToTell
    <3>3. QED
      BY <3>1, <3>2, <1>1, <1>t DEF Ladder, Bands
  <2>4. QED
    BY <2>2, <2>3
<1>8. News'
  <2> SUFFICES ASSUME NEW q \in Reporters, AboutToTell(q)', q \notin beside
               PROVE  Fired(q) \notin told'
    BY <1>5, <1>1 DEF News
  <2>1. CASE q = r
    <3>1. Fired(r) > warned /\ prev[r] = warned
      BY <2>1, <1>2, <1>3, <1>4 DEF AboutToTell
    <3>2. QED
      BY <2>1, <3>1, <1>1, <1>t, FiredTyped DEF Ladder, GaugeTyped, Thresholds, Bands, None
  <2>2. CASE q # r
    BY <2>2, <1>1 DEF ToldInv, News, AboutToTell
  <2>3. QED
    BY <2>1, <2>2
<1>9. QED
  BY <1>6, <1>7, <1>8

LEMMA Tells ==
  ASSUME ToldInv, NEW r \in Reporters, NEW who, Warn(r, who)
  PROVE  Ladder' /\ Pledged' /\ News'
<1>t. GaugeTyped /\ Ladder /\ Fired(r) \in Thresholds
  BY FiredTyped DEF ToldInv, FitsInv
<1>1. /\ pc[r] = "warning" /\ \A q \in Reporters \ {r} : pc'[q] = pc[q]
      /\ UNCHANGED <<warned, percent, prev, beside>>
  BY <1>t DEF Warn, GaugeTyped
<1>2. \A q \in Reporters : Fired(q)' = Fired(q)
  BY <1>1, FiredIsKept
<1>3. CASE left[r] \ {who} # {}
  <2>1. UNCHANGED <<pc, told, excused>>
    BY <1>3 DEF Warn
  <2>2. QED
    BY <2>1, <1>1, <1>2 DEF ToldInv, Ladder, Pledged, News, AboutToTell
<1>4. CASE left[r] \ {who} = {}
  <2>1. /\ told' = told \cup {b \in Bands : b <= Fired(r) /\ b <= warned}
        /\ excused' = (excused /\ Fired(r) < warned)
        /\ pc'[r] = "idle"
    BY <1>4, <1>t DEF Warn, GaugeTyped
  <2>2. Ladder'
    <3>1. \A b, c \in Bands : c <= b /\ b <= Fired(r) /\ b <= warned => c <= Fired(r) /\ c <= warned
      <4>1. Bands \subseteq Nat /\ Fired(r) \in Nat /\ warned \in Nat
        BY <1>t, BandsAreNumbers DEF GaugeTyped
      <4>2. QED
        BY <4>1
    <3>2. \A b \in told' : b <= warned' /\ b \in Bands
      BY <2>1, <1>1, <1>t DEF Ladder
    <3>3. \A b \in told', c \in Bands : c <= b => c \in told'
      <4>1. ASSUME NEW b \in told, NEW c \in Bands, c <= b
            PROVE  c \in told'
        BY <4>1, <2>1, <1>t DEF Ladder
      <4>2. ASSUME NEW b \in Bands, b <= Fired(r), b <= warned, NEW c \in Bands, c <= b
            PROVE  c \in told'
        BY <4>2, <3>1, <2>1
      <4>3. QED
        BY <4>1, <4>2, <2>1
    <3>4. QED
      BY <3>2, <3>3 DEF Ladder
  <2>3. Pledged'
    <3> SUFFICES ASSUME ~excused', warned # None
                 PROVE  warned \in told' \/ \E q \in Reporters : AboutToTell(q)' /\ Fired(q)' >= warned
      BY <1>1 DEF Pledged
    <3>1. CASE Fired(r) >= warned
      BY <3>1, <2>1, <1>t, BandsAreNumbers DEF GaugeTyped, Thresholds
    <3>2. CASE Fired(r) < warned
      <4>1. ~excused
        BY <3>2, <2>1
      <4>2. CASE warned \in told
        BY <4>2, <2>1
      <4>3. ASSUME NEW q \in Reporters, AboutToTell(q), Fired(q) >= warned
            PROVE  AboutToTell(q)' /\ Fired(q)' >= warned
        BY <4>3, <3>2, <1>1, <1>2, <1>t DEF GaugeTyped, Thresholds, Bands, None, AboutToTell
      <4>4. QED
        BY <4>1, <4>2, <4>3 DEF ToldInv, Pledged
    <3>3. QED
      BY <3>1, <3>2, <1>t DEF GaugeTyped, Thresholds, Bands, None
  <2>4. News'
    <3>1. \A q \in Reporters \ {r} : AboutToTell(q) => q \in beside
      BY <1>1 DEF ToldInv, FitsInv, SeesTheOther, Active, AboutToTell
    <3>2. QED
      BY <3>1, <2>1, <1>1 DEF News, AboutToTell
  <2>5. QED
    BY <2>2, <2>3, <2>4
<1>5. QED
  BY <1>3, <1>4

LEMMA ReadsAudience ==
  ASSUME ToldInv, NEW r \in Reporters, ReadAudience(r)
  PROVE  Ladder' /\ Pledged' /\ News'
<1>t. GaugeTyped
  BY DEF ToldInv, FitsInv
<1>1. /\ pc[r] = "audience" /\ \A q \in Reporters \ {r} : pc'[q] = pc[q]
      /\ pc'[r] = IF Audience(Fired(r)) = {} THEN "idle" ELSE "warning"
      /\ excused' = (excused \/ (Fired(r) \notin Direct /\ rooms = {}))
      /\ UNCHANGED <<warned, percent, prev, beside, told>>
  BY <1>t DEF ReadAudience, Turns, GaugeTyped
<1>2. \A q \in Reporters : Fired(q)' = Fired(q)
  BY <1>1, FiredIsKept
<1>3. ~excused' => ~excused /\ pc'[r] = "warning"
  BY <1>1 DEF Audience
<1>4. Ladder' /\ News'
  BY <1>1, <1>2 DEF ToldInv, Ladder, News, AboutToTell
<1>5. Pledged'
  BY <1>1, <1>2, <1>3 DEF ToldInv, Pledged, AboutToTell
<1>6. QED
  BY <1>4, <1>5

LEMMA NextToldInv ==
  ASSUME ToldInv, [GaugeNext]_gaugeVars
  PROVE  ToldInv'
<1>t. FitsInv' /\ GaugeTyped /\ GaugeTyped'
  BY NextFits DEF ToldInv, FitsInv
<1>1. ASSUME NEW r \in Reporters, NEW p \in Percents, Read(r, p)
      PROVE  Ladder' /\ Pledged' /\ News'
  <2>1. /\ pc[r] = "idle" /\ pc'[r] = "context"
        /\ \A q \in Reporters \ {r} :
             pc'[q] = pc[q] /\ percent'[q] = percent[q] /\ prev'[q] = prev[q]
        /\ beside' = IF Active = {} THEN {} ELSE beside \cup Active \cup {r}
        /\ UNCHANGED <<warned, told, excused>>
    BY <1>1, <1>t DEF Read, Turns, GaugeTyped
  <2>2. \A q \in Reporters \ {r} : Fired(q)' = Fired(q)
    BY <2>1, FiredIsKept
  <2>3. Ladder' /\ Pledged'
    BY <2>1, <2>2 DEF ToldInv, Ladder, Pledged, AboutToTell
  <2>4. News'
    <3>1. \A q \in Reporters : AboutToTell(q)' => q \in beside'
      BY <2>1 DEF Active, AboutToTell
    <3>2. QED
      BY <3>1 DEF News
  <2>5. QED
    BY <2>3, <2>4
<1>2. ASSUME NEW r \in Reporters, SetContext(r)
      PROVE  Ladder' /\ Pledged' /\ News'
  <2>1. /\ \A q \in Reporters : AboutToTell(q)' <=> AboutToTell(q)
        /\ UNCHANGED <<warned, percent, prev, beside, told, excused>>
    BY <1>2, <1>t DEF SetContext, Turns, GaugeTyped, AboutToTell
  <2>2. \A q \in Reporters : Fired(q)' = Fired(q)
    BY <2>1, FiredIsKept
  <2>3. QED
    BY <2>1, <2>2 DEF ToldInv, Ladder, Pledged, News
<1>3. ASSUME NEW r \in Reporters, SetWarned(r)
      PROVE  Ladder' /\ Pledged' /\ News'
  BY <1>3, <1>t, BeginsToTell
<1>4. ASSUME NEW r \in Reporters, NEW who, Warn(r, who)
      PROVE  Ladder' /\ Pledged' /\ News'
  BY <1>4, Tells
<1>5. ASSUME NEW r \in Reporters, Die(r)
      PROVE  Ladder' /\ Pledged' /\ News'
  <2>1. /\ pc'[r] = "idle" /\ \A q \in Reporters \ {r} : pc'[q] = pc[q]
        /\ excused' = (excused \/ AboutToTell(r))
        /\ UNCHANGED <<warned, percent, prev, beside, told>>
    BY <1>5, <1>t DEF Die, GaugeTyped, AboutToTell
  <2>2. \A q \in Reporters : Fired(q)' = Fired(q)
    BY <2>1, FiredIsKept
  <2>3. Ladder' /\ News'
    BY <2>1, <2>2 DEF ToldInv, Ladder, News, AboutToTell
  <2>4. Pledged'
    BY <2>1, <2>2 DEF ToldInv, Pledged, AboutToTell
  <2>5. QED
    BY <2>3, <2>4
<1>6. ASSUME NEW r \in Reporters, ReadAudience(r)
      PROVE  Ladder' /\ Pledged' /\ News'
  BY <1>6, ReadsAudience
<1>7. ASSUME MoveRooms \/ UNCHANGED gaugeVars
      PROVE  Ladder' /\ Pledged' /\ News'
  <2>1. UNCHANGED <<warned, pc, percent, prev, beside, told, excused>>
    BY <1>7 DEF MoveRooms, gaugeVars
  <2>2. \A r \in Reporters : Fired(r)' = Fired(r)
    BY <2>1, FiredIsKept
  <2>3. QED
    BY <2>1, <2>2 DEF ToldInv, Ladder, Pledged, News, AboutToTell
<1>8. QED
  BY <1>t, <1>1, <1>2, <1>3, <1>4, <1>5, <1>6, <1>7 DEF GaugeNext, ToldInv

(* For any number of reports and rooms, joined and left meanwhile: a       *)
(* threshold that is remembered was warned of, unless a report died with   *)
(* its warning, two overlapped, or it was to go to the rooms of an agent   *)
(* that was in none just then.                                             *)
THEOREM Told == GaugeSpec => []RiseIsTold
<1>1. ToldInv => RiseIsTold
  <2> SUFFICES ASSUME ToldInv, Active = {}, ~excused, warned # None
               PROVE  warned \in told
    BY DEF RiseIsTold
  <2>1. \A r \in Reporters : pc[r] = "idle"
    BY DEF Active
  <2>2. QED
    BY <2>1 DEF ToldInv, Pledged, AboutToTell
<1>2. QED
  BY InitToldInv, NextToldInv, <1>1, PTL DEF GaugeSpec

(* For any number of reports and rooms: a band is warned of a second time, *)
(* before the threshold was below it, only by reports that overlapped.     *)
THEOREM Once == GaugeSpec => ToldOnce
<1> DEFINE A == \A r \in Reporters :
                  (\E who \in Rooms \cup {Agent} : Warn(r, who)) /\ Fired(r) \in told
                    => r \in beside
<1>1. ToldInv /\ [GaugeNext]_gaugeVars => [A]_gaugeVars
  BY DEF ToldInv, News, Warn, AboutToTell
<1>2. GaugeSpec => []ToldInv
  BY InitToldInv, NextToldInv, PTL DEF GaugeSpec
<1>3. QED
  BY <1>1, <1>2, PTL DEF GaugeSpec, ToldOnce

-----------------------------------------------------------------------------
(* Migrations, for any programs, ages and migrations.  The argument is on  *)
(* the versions alone: a program that migrates has read, or written, a     *)
(* version that is there, so the next one is either recorded already, and  *)
(* its key clashes, or is the one after the newest, and no rebuild can     *)
(* then have an added column above it.  The lock is not needed for it.     *)
(* That a start fails only beside another rests on two facts: whoever      *)
(* opens while another lives is said to have company, and only another can *)
(* have recorded what a program has not.                                   *)

USE DEF dbVars

(* What a program has read or recorded by the time it is at a step. *)
HasSeen(p) ==
  /\ step[p] \in {"migrate", "record", "tighten", "open"} =>
       current[p] <= Latest(versions)
  /\ step[p] = "record" => current[p] < Knows[p]
  /\ step[p] \in {"tighten", "open"} => Knows[p] <= current[p]

Whole == \E k \in 0..Len(Kinds) : versions = 1..k /\ schema = 1..k

DbTyped ==
  /\ table \in BOOLEAN
  /\ step \in [Programs -> Steps]
  /\ current \in [Programs -> Nat]
  /\ company \in [Programs -> BOOLEAN]

WholeInv == DbTyped /\ Whole /\ \A p \in Programs : HasSeen(p)

-----------------------------------------------------------------------------
(* The row SELECT MAX(version) returns. *)
LEMMA LatestIsLast ==
  ASSUME NEW k \in Nat
  PROVE  Latest(1..k) = k
<1>1. CASE k = 0
  BY <1>1 DEF Latest
<1>2. CASE k # 0
  <2>1. k \in 1..k /\ \A w \in 1..k : w <= k
    BY <1>2
  <2>2. \A v \in 1..k : (\A w \in 1..k : w <= v) => v = k
    BY <2>1
  <2> QED
    BY <2>1, <2>2, <1>2 DEF Latest
<1> QED
  BY <1>1, <1>2

LEMMA OneMore ==
  ASSUME NEW k \in Nat
  PROVE  (1..k) \cup {k + 1} = 1..(k + 1)
<1>1. \A v : v \in (1..k) \cup {k + 1} <=> v \in 1..(k + 1)
  OBVIOUS
<1> QED
  BY <1>1

LEMMA KnowsAreNumbers == Len(Kinds) \in Nat /\ \A p \in Programs : Knows[p] \in 1..Len(Kinds)
  BY KindsAssumption, KnowsAssumption

LEMMA InitIsWhole == DbInit => WholeInv
  BY KnowsAreNumbers DEF DbInit, WholeInv, DbTyped, Whole, HasSeen, Steps

(* A record is the version after the newest, or its key clashes. *)
LEMMA RecordExtends ==
  ASSUME WholeInv, NEW p \in Programs, Record(p)
  PROVE  WholeInv'
<1> DEFINE i == current[p] + 1
<1>1. PICK k \in 0..Len(Kinds) : versions = 1..k /\ schema = 1..k
  BY DEF WholeInv, Whole
<1>2. k \in Nat /\ Latest(versions) = k
  BY <1>1, LatestIsLast, KnowsAreNumbers
<1>3. current[p] \in Nat /\ current[p] <= k /\ current[p] < Knows[p] /\ step[p] = "record"
  BY <1>2 DEF WholeInv, DbTyped, HasSeen, Record, OpenFails, Moves
<1>4. CASE Clashes(i)
  BY <1>4, <1>1 DEF Record, OpenFails, Moves, WholeInv, DbTyped, Whole, HasSeen, Steps
<1>5. CASE ~Clashes(i)
  <2>1. i = k + 1 /\ i <= Len(Kinds)
    BY <1>1, <1>2, <1>3, <1>5, KnowsAreNumbers DEF Clashes
  <2>2. Effect(i, schema) = 1..i
    BY <1>1, <1>2, <2>1 DEF Effect
  <2>3. versions' = 1..i /\ schema' = 1..i
    <3>1. versions' = versions \cup {i} /\ schema' = Effect(i, schema)
      BY <1>5 DEF Record
    <3> QED
      BY <1>1, <1>2, <2>1, <2>2, <3>1, OneMore
  <2>4. Latest(versions') = k + 1
    BY <2>1, <2>3, <1>2, LatestIsLast
  <2>5. step' = [step EXCEPT ![p] = "migrate"] /\ current' = [current EXCEPT ![p] = i]
        /\ UNCHANGED <<table, company>>
    BY <1>5 DEF Record, Moves
  <2>6. DbTyped'
    BY <2>5, <1>3 DEF WholeInv, DbTyped, Steps
  <2>7. Whole'
    BY <2>1, <2>3, <1>2, KnowsAreNumbers DEF Whole
  <2>8. ASSUME NEW q \in Programs PROVE HasSeen(q)'
    BY <1>2, <1>3, <2>1, <2>4, <2>5, KnowsAreNumbers DEF WholeInv, DbTyped, HasSeen
  <2> QED
    BY <2>6, <2>7, <2>8 DEF WholeInv
<1> QED
  BY <1>4, <1>5

(* The other steps leave the versions and the schema alone. *)
LEMMA OthersKeepVersions ==
  ASSUME WholeInv, NEW p \in Programs,
         \/ Start(p) \/ CreateVersions(p) \/ Collide(p) \/ ReadVersion(p) \/ Migrate(p)
         \/ MigrateBusy(p) \/ Done(p) \/ TightenDbFiles(p) \/ End(p)
  PROVE  WholeInv'
<1>1. PICK k \in 0..Len(Kinds) : versions = 1..k /\ schema = 1..k
  BY DEF WholeInv, Whole
<1>2. k \in Nat /\ Latest(versions) = k
  BY <1>1, LatestIsLast, KnowsAreNumbers
<1> USE DEF WholeInv, DbTyped, HasSeen, Steps
<1>3. UNCHANGED <<versions, schema>>
  BY DEF Start, CreateVersions, Collide, ReadVersion, Migrate, MigrateBusy, Busy, Done,
         TightenDbFiles, End, OpenFails, Moves
<1>4. Whole' /\ Latest(versions') = k
  BY <1>1, <1>2, <1>3 DEF Whole
<1>5. CASE Start(p)
  BY <1>2, <1>4, <1>5 DEF Start
<1>6. CASE CreateVersions(p)
  BY <1>2, <1>4, <1>6 DEF CreateVersions, Moves
<1>7. CASE Collide(p)
  BY <1>2, <1>4, <1>7 DEF Collide, OpenFails, Moves
<1>8. CASE ReadVersion(p)
  BY <1>2, <1>4, <1>8 DEF ReadVersion, Moves
<1>9. CASE Migrate(p)
  BY <1>2, <1>4, <1>9 DEF Migrate, OpenFails, Moves
<1>10. CASE MigrateBusy(p)
  BY <1>2, <1>4, <1>10 DEF MigrateBusy, Busy, OpenFails, Moves
<1>11. CASE Done(p)
  BY <1>2, <1>4, <1>11, KnowsAreNumbers DEF Done, Moves
<1>12. CASE TightenDbFiles(p)
  BY <1>2, <1>4, <1>12 DEF TightenDbFiles, Moves
<1>13. CASE End(p)
  BY <1>2, <1>4, <1>13 DEF End
<1> QED
  BY <1>5, <1>6, <1>7, <1>8, <1>9, <1>10, <1>11, <1>12, <1>13

LEMMA StutterKeepsWhole ==
  ASSUME WholeInv, UNCHANGED dbVars
  PROVE  WholeInv'
  BY DEF WholeInv, DbTyped, Whole, HasSeen

LEMMA WholeIsInvariant == DbSpec => []WholeInv
<1>1. ASSUME WholeInv, [DbNext]_dbVars PROVE WholeInv'
  <2>1. CASE UNCHANGED dbVars
    BY <1>1, <2>1, StutterKeepsWhole
  <2>2. ASSUME NEW p \in Programs, Record(p) PROVE WholeInv'
    BY <1>1, <2>2, RecordExtends
  <2>3. ASSUME NEW p \in Programs,
               \/ Start(p) \/ CreateVersions(p) \/ Collide(p) \/ ReadVersion(p) \/ Migrate(p)
               \/ MigrateBusy(p) \/ Done(p) \/ TightenDbFiles(p) \/ End(p)
        PROVE  WholeInv'
    BY <1>1, <2>3, OthersKeepVersions
  <2> QED
    BY <1>1, <2>1, <2>2, <2>3 DEF DbNext
<1> QED
  BY InitIsWhole, <1>1, PTL DEF DbSpec

LEMMA WholeGivesSchema == WholeInv => SchemaIsWhole
<1> SUFFICES ASSUME WholeInv PROVE SchemaIsWhole
  OBVIOUS
<1>1. PICK k \in 0..Len(Kinds) : versions = 1..k /\ schema = 1..k
  BY DEF WholeInv, Whole
<1>2. k \in Nat /\ Latest(versions) = k
  BY <1>1, LatestIsLast, KnowsAreNumbers
<1>3. ASSUME NEW p \in Programs, step[p] = "open" PROVE Knows[p] <= Latest(versions)
  BY <1>2, <1>3, KnowsAreNumbers DEF WholeInv, DbTyped, HasSeen
<1> QED
  BY <1>1, <1>2, <1>3 DEF SchemaIsWhole

(* Whoever opens the file beside whom, whatever dies where and however old *)
(* each program is: the schema is the migrations up to its version, each   *)
(* once and with nothing lost (migrate).                                   *)
THEOREM Schema == DbSpec => []SchemaIsWhole
  BY WholeIsInvariant, WholeGivesSchema, PTL

-----------------------------------------------------------------------------
(* Whoever opens while another lives has company, and what it has not      *)
(* recorded itself another has.                                            *)
Accompanied ==
  /\ \A p \in Programs : \A q \in Programs \ {p} : Opening(p) /\ Lives(q) => company[p]
  /\ \A p \in Programs :
       step[p] \in {"migrate", "record"} /\ current[p] < Latest(versions) => company[p]

BesideInv == WholeInv /\ Accompanied /\ FailsOnlyBeside

LEMMA InitIsBeside == DbInit => BesideInv
  BY InitIsWhole DEF DbInit, BesideInv, Accompanied, FailsOnlyBeside, Opening, Lives

LEMMA StepKeepsBeside ==
  ASSUME BesideInv, WholeInv', NEW p \in Programs,
         \/ Start(p) \/ CreateVersions(p) \/ Collide(p) \/ ReadVersion(p)
         \/ Migrate(p) \/ MigrateBusy(p) \/ Record(p) \/ Done(p)
         \/ TightenDbFiles(p) \/ End(p)
  PROVE  BesideInv'
<1>1. PICK k \in 0..Len(Kinds) : versions = 1..k /\ schema = 1..k
  BY DEF BesideInv, WholeInv, Whole
<1>2. k \in Nat /\ Latest(versions) = k
  BY <1>1, LatestIsLast, KnowsAreNumbers
<1>3. DbTyped /\ DbTyped' /\ (\A q \in Programs : HasSeen(q)) /\ Accompanied /\ FailsOnlyBeside
  BY DEF BesideInv, WholeInv
<1> USE DEF DbTyped, Accompanied, FailsOnlyBeside, Opening, Lives, Steps
<1> SUFFICES Accompanied' /\ FailsOnlyBeside'
  BY DEF BesideInv
<1>4. CASE Start(p)
  BY <1>3, <1>4 DEF Start
<1>5. CASE CreateVersions(p)
  BY <1>3, <1>5 DEF CreateVersions, Moves
<1>6. CASE Collide(p)
  BY <1>3, <1>6 DEF Collide, OpenFails, Moves
<1>7. CASE ReadVersion(p)
  BY <1>2, <1>3, <1>7 DEF ReadVersion, Moves
<1>8. CASE Migrate(p)
  <2>1. ~Succeeds(current[p] + 1, schema) => current[p] < k
    BY <1>1, <1>2, <1>3 DEF Succeeds
  <2> QED
    BY <1>2, <1>3, <1>8, <2>1 DEF Migrate, OpenFails, Moves
<1>9. CASE MigrateBusy(p)
  BY <1>3, <1>9 DEF MigrateBusy, Busy, OpenFails, Moves
<1>10. CASE Record(p)
  <2>1. CASE Clashes(current[p] + 1)
    <3>1. current[p] < k
      BY <2>1, <1>1, <1>2, <1>3 DEF Clashes
    <3> QED
      BY <1>2, <1>3, <1>10, <2>1, <3>1 DEF Record, OpenFails, Moves
  <2>2. CASE ~Clashes(current[p] + 1)
    <3>1. /\ step[p] = "record" /\ step' = [step EXCEPT ![p] = "migrate"]
          /\ current' = [current EXCEPT ![p] = current[p] + 1]
          /\ versions' = versions \cup {current[p] + 1}
          /\ company' = company
      BY <1>10, <2>2 DEF Record, Moves
    <3>2. current[p] + 1 = k + 1
      BY <1>1, <1>2, <1>3, <2>2, <3>1 DEF Clashes, HasSeen
    <3>3. versions' = 1..(k + 1)
      BY <1>1, <1>2, <3>1, <3>2, OneMore
    <3>4. k + 1 \in Nat /\ Latest(1..(k + 1)) = k + 1
      BY <1>2, LatestIsLast
    <3>5. Latest(versions') = k + 1
      BY <3>3, <3>4
    <3>6. Accompanied'
      BY <1>2, <1>3, <3>1, <3>2, <3>5
    <3>7. FailsOnlyBeside'
      BY <1>3, <3>1
    <3> QED
      BY <3>6, <3>7
  <2> QED
    BY <2>1, <2>2
<1>11. CASE Done(p)
  BY <1>3, <1>11 DEF Done, Moves
<1>12. CASE TightenDbFiles(p)
  BY <1>3, <1>12 DEF TightenDbFiles, Moves
<1>13. CASE End(p)
  BY <1>3, <1>13 DEF End
<1> QED
  BY <1>4, <1>5, <1>6, <1>7, <1>8, <1>9, <1>10, <1>11, <1>12, <1>13

LEMMA StutterKeepsBeside ==
  ASSUME BesideInv, UNCHANGED dbVars
  PROVE  BesideInv'
  BY StutterKeepsWhole DEF BesideInv, Accompanied, FailsOnlyBeside, Opening, Lives

(* No death, age or failed start, of any number of programs, leaves a file *)
(* behind on which a program that starts alone fails (openDb).             *)
THEOREM AloneOpens == DbSpec => []FailsOnlyBeside
<1>1. ASSUME BesideInv, WholeInv', [DbNext]_dbVars PROVE BesideInv'
  <2>1. CASE UNCHANGED dbVars
    BY <1>1, <2>1, StutterKeepsBeside
  <2>2. CASE DbNext
    BY <1>1, <2>2, StepKeepsBeside DEF DbNext
  <2> QED
    BY <1>1, <2>1, <2>2
<1>2. BesideInv => FailsOnlyBeside
  BY DEF BesideInv
<1> QED
  BY InitIsBeside, WholeIsInvariant, <1>1, <1>2, PTL DEF DbSpec
=============================================================================
