------------------------------ MODULE WakeSocket ------------------------------
(***************************************************************************)
(* The socket file of one handle (supervise/socket.ts): supervisors that   *)
(* start, find what an earlier one left behind, take its place, stop and   *)
(* crash, every system call on the file interleaved.                       *)
(*                                                                         *)
(* A supervisor here is one process: it starts once, and ends for good.    *)
(***************************************************************************)
EXTENDS Naturals

CONSTANTS
  Supervisors, \* the processes
  NoFile       \* there is nothing at the path

ASSUME NoFileAssumption == NoFile \notin Supervisors

VARIABLES
  file, \* whose socket is at the path, NoFile if there is nothing
  at,   \* how far each supervisor has come
  cut   \* history: a supervisor ended in a way that may leave another alone

vars == <<file, at, cut>>

-----------------------------------------------------------------------------

States == {"new", "probing", "unlinking", "binding", "bound", "accepting",
           "listening", "closing", "gone"}

Starting(p) == at[p] \in {"probing", "unlinking", "binding", "bound", "accepting"}

(* A connection is accepted from listen(2) to close(2). *)
Answers(f) == f # NoFile /\ at[f] \in {"accepting", "listening"}

Goes(p, from, to) == at[p] = from /\ at' = [at EXCEPT ![p] = to]

BesideAnother(p) ==
  \E q \in Supervisors \ {p} : Starting(q) \/ at[q] = "listening"

(* bind: existsSync *)
Look(p) ==
  /\ Goes(p, "new", IF file = NoFile THEN "binding" ELSE "probing")
  /\ UNCHANGED <<file, cut>>

FindDeadAndKeep(p) == Goes(p, "probing", "binding") /\ UNCHANGED <<file, cut>>

(* isLive answers no: nothing accepts there, or its 250 ms were over first.*)
FindDead(p) == Goes(p, "probing", "unlinking") /\ UNCHANGED <<file, cut>>

(* The start fails and the process with it, the path left as it is. *)
Fails(p) == at' = [at EXCEPT ![p] = "gone"] /\ UNCHANGED <<file, cut>>

RefuseAndCleanUp(p) ==
  /\ at[p] = "probing" /\ Answers(file)
  /\ at' = [at EXCEPT ![p] = "gone"] /\ file' = NoFile /\ UNCHANGED cut

(* "another supervisor is already listening" *)
Refuse(p) == at[p] = "probing" /\ Answers(file) /\ Fails(p)

(* unlinkSync, of whatever is there now; it throws if nothing is. *)
Unlink(p) ==
  /\ at[p] = "unlinking"
  /\ \/ /\ file # NoFile
        /\ file' = NoFile /\ at' = [at EXCEPT ![p] = "binding"]
        /\ UNCHANGED cut
     \/ file = NoFile /\ Fails(p)

(* bind(2): the address is in use if a file is there. *)
Bind(p) ==
  /\ at[p] = "binding"
  /\ \/ /\ file = NoFile
        /\ file' = p /\ at' = [at EXCEPT ![p] = "bound"]
        /\ UNCHANGED cut
     \/ file # NoFile /\ Fails(p)

(* listen(2) *)
Listen(p) == Goes(p, "bound", "accepting") /\ UNCHANGED <<file, cut>>

(* chmodSync, which throws if the file is gone *)
Chmod(p) ==
  /\ at[p] = "accepting"
  /\ \/ /\ file # NoFile /\ at' = [at EXCEPT ![p] = "listening"]
        /\ UNCHANGED <<file, cut>>
     \/ file = NoFile /\ Fails(p)

(* close, up to server.close: closing a listening pipe unlinks its path. *)
Close(p) ==
  /\ Goes(p, "listening", "closing")
  /\ file' = NoFile
  /\ cut' = (cut \/ BesideAnother(p) \/ file \notin {p, NoFile})

(* close, after it: what is there by now is unlinked. *)
Unlinked(p) ==
  /\ Goes(p, "closing", "gone")
  /\ file' = NoFile
  /\ cut' = (cut \/ file # NoFile)

(* A process is killed; its file stays. *)
Crash(p) ==
  /\ at[p] \notin {"new", "gone"}
  /\ at' = [at EXCEPT ![p] = "gone"]
  /\ cut' = (cut \/ Starting(p) \/ BesideAnother(p))
  /\ UNCHANGED file

-----------------------------------------------------------------------------

(* An earlier supervisor may have left its file. *)
Init ==
  /\ file \in Supervisors \cup {NoFile}
  /\ at = [p \in Supervisors |-> IF p = file THEN "gone" ELSE "new"]
  /\ cut = FALSE

Proceed(p) ==
  \/ FindDead(p) \/ Refuse(p) \/ Unlink(p) \/ Bind(p)
  \/ Listen(p) \/ Chmod(p) \/ Unlinked(p)

Next == \E p \in Supervisors : Look(p) \/ Proceed(p) \/ Close(p) \/ Crash(p)

(* A process goes on with what it has begun. *)
Spec ==
  /\ Init /\ [][Next]_vars
  /\ \A p \in Supervisors : WF_vars(Proceed(p))

-----------------------------------------------------------------------------
(* Properties *)

(* The path, the processes and the history are well typed. *)
TypeOK ==
  /\ file \in Supervisors \cup {NoFile}
  /\ at \in [Supervisors -> States]
  /\ cut \in BOOLEAN

Reachable(p) == at[p] = "listening" /\ file = p
Settled == \A p \in Supervisors : at[p] \in {"new", "listening", "gone"}

(* However many supervisors start at once over a stale file, or over one   *)
(* another's, one of those that listen in the end is the one the path leads*)
(* to: the handle is never left with supervisors nobody can reach, unless  *)
(* one ended beside another, a start was killed, or a stopping one unlinked*)
(* its successor's file (WakeListener.bind, close).                        *)
SomeoneIsReachable ==
  Settled /\ ~cut /\ (\E p \in Supervisors : at[p] = "listening") =>
    \E p \in Supervisors : Reachable(p)

(* A start leads to a supervisor that can be reached, the one that started *)
(* or another: they never all fail for each other's sake (bind).           *)
StartsSucceed ==
  \A p \in Supervisors : Starting(p) ~> (\E q \in Supervisors : Reachable(q)) \/ cut
=============================================================================
