----------------------------- MODULE ContextGauge -----------------------------
(***************************************************************************)
(* The context gauge of one agent: the band table (shim/gauge.ts) and the  *)
(* reports that read, move and act on the stored threshold, from the tool  *)
(* (shim/tools/report_context.ts) and from the hook's process              *)
(* (oneshot/report_context.ts), each statement on its own.                 *)
(***************************************************************************)
EXTENDS Naturals, FiniteSets

CONSTANTS
  Reporters, \* calls of the tool and runs of the hook
  Percents,  \* the percentages they report
  Rooms      \* the rooms the agent may be a member of

ASSUME PercentsAssumption == Percents \subseteq 0..100

VARIABLES
  warned,  \* context_warned_threshold, None for null
  rooms,   \* the rooms the agent is a member of, of none perhaps
  context, \* the percentage of context_used and context_total
  pc,      \* what each report does next
  percent, \* what it reports
  prev,    \* prevWarned, the threshold it read
  left,    \* where its warning is still to go
  beside,  \* history: the reports another one ran beside
  told,    \* history: the bands warned of since the threshold was last below
  excused, \* history: a death, an overlap or the want of a room may have left
           \* a threshold untold
  alone    \* history: the last report to begin set its threshold, with none beside it

gaugeVars ==
  <<warned, rooms, context, pc, percent, prev, left, beside, told, excused, alone>>

-----------------------------------------------------------------------------
(* shim/gauge.ts *)

None == 0
Bands == {50, 70, 85, 95}
Thresholds == Bands \cup {None}
Reset(b) == b - 5

Highest(bands) ==
  IF bands = {} THEN None ELSE CHOOSE b \in bands : \A c \in bands : c <= b

FireAgain(p, w) == Highest({b \in Bands : p >= b /\ w <= b})

(* The highest of the bands a report enters on the way up. *)
Fire(p, w) == Highest({b \in Bands : p >= b /\ w < b})

DownOneBand(p, w) ==
  CASE w = 95 /\ p < Reset(95) -> 85
    [] w = 85 /\ p < Reset(85) -> 70
    [] w = 70 /\ p < Reset(70) -> 50
    [] w = 50 /\ p < Reset(50) -> None
    [] OTHER -> w

(* A step down cascades as far as the percentage warrants. *)
Down(p, w) ==
  LET from95 == IF w = 95 /\ p < Reset(95) THEN 85 ELSE w
      from85 == IF from95 = 85 /\ p < Reset(85) THEN 70 ELSE from95
      from70 == IF from85 = 70 /\ p < Reset(70) THEN 50 ELSE from85
  IN IF from70 = 50 /\ p < Reset(50) THEN None ELSE from70

(* nextGaugeState *)
NextWarned(p, w) == IF Fire(p, w) # None THEN Fire(p, w) ELSE Down(p, w)

Agent == "agent"

Direct == {50, 70}

AudienceOfChat(b) == IF b \in Direct THEN {Agent} ELSE IF b = 85 THEN rooms ELSE {}

(* deliveryFor: the agent itself, or every room it is in (myRooms). *)
Audience(b) == IF b \in Direct THEN {Agent} ELSE rooms

-----------------------------------------------------------------------------
(* A report *)

Active == {r \in Reporters : pc[r] # "idle"}
Fired(r) == Fire(percent[r], prev[r])
Turns(r, from, to) == pc[r] = from /\ pc' = [pc EXCEPT ![r] = to]

(* getAgent *)
Read(r, p) ==
  /\ Turns(r, "idle", "context")
  /\ percent' = [percent EXCEPT ![r] = p]
  /\ prev' = [prev EXCEPT ![r] = warned]
  /\ beside' = IF Active = {} THEN {} ELSE beside \cup Active \cup {r}
  /\ alone' = FALSE
  /\ UNCHANGED <<warned, rooms, context, left, told, excused>>

(* setAgentContext *)
SetContext(r) ==
  /\ Turns(r, "context", "warned")
  /\ context' = percent[r]
  /\ UNCHANGED <<warned, rooms, percent, prev, left, beside, told, excused, alone>>

(* setAgentContextWarned, if the threshold is another than the one read.   *)
(* Bands the threshold falls below are to be warned of again.              *)
SetWarned(r) ==
  LET next == NextWarned(percent[r], prev[r]) IN
  /\ Turns(r, "warned", IF Fired(r) = None THEN "idle" ELSE "audience")
  /\ warned' = IF next # prev[r] THEN next ELSE warned
  /\ told' = {b \in told : b <= warned'}
  /\ excused' = (warned' \notin told' \cup {None} /\ (excused \/ r \in beside))
  /\ alone' = (r \notin beside)
  /\ UNCHANGED <<rooms, context, percent, prev, left, beside>>

(* myRooms: the threshold is set already, and of a band that goes to the   *)
(* rooms nobody hears while the agent is in none, nor when it joins one.   *)
ReadAudience(r) ==
  LET audience == Audience(Fired(r)) IN
  /\ Turns(r, "audience", IF audience = {} THEN "idle" ELSE "warning")
  /\ left' = [left EXCEPT ![r] = audience]
  /\ excused' = (excused \/ (Fired(r) \notin Direct /\ rooms = {}))
  /\ UNCHANGED <<warned, rooms, context, percent, prev, beside, told, alone>>

(* insertMessage and notifyPeer, to the agent or to a room. *)
Warn(r, who) ==
  LET rest == left[r] \ {who} IN
  /\ pc[r] = "warning" /\ who \in left[r]
  /\ left' = [left EXCEPT ![r] = rest]
  /\ IF rest = {}
       THEN /\ pc' = [pc EXCEPT ![r] = "idle"]
            /\ told' = told \cup {b \in Bands : b <= Fired(r) /\ b <= warned}
            /\ excused' = (excused /\ Fired(r) < warned)
       ELSE UNCHANGED <<pc, told, excused>>
  /\ UNCHANGED <<warned, rooms, context, percent, prev, beside, alone>>

(* Its process dies, or a statement of its throws (the file is locked). *)
Die(r) ==
  /\ pc[r] # "idle"
  /\ pc' = [pc EXCEPT ![r] = "idle"] /\ left' = [left EXCEPT ![r] = {}]
  /\ excused' = (excused \/ pc[r] \in {"audience", "warning"})
  /\ UNCHANGED <<warned, rooms, context, percent, prev, beside, told, alone>>

(* joinRoom, leaveRoom: the agent is in other rooms than before. *)
MoveRooms ==
  /\ rooms' \in SUBSET Rooms /\ rooms' # rooms
  /\ UNCHANGED <<warned, context, pc, percent, prev, left, beside, told, excused, alone>>

-----------------------------------------------------------------------------

GaugeInit ==
  /\ warned = None /\ rooms = {} /\ context = 0
  /\ pc = [r \in Reporters |-> "idle"]
  /\ percent = [r \in Reporters |-> 0]
  /\ prev = [r \in Reporters |-> None]
  /\ left = [r \in Reporters |-> {}]
  /\ beside = {} /\ told = {} /\ excused = FALSE /\ alone = TRUE

GaugeNext ==
  \/ \E r \in Reporters :
       \/ \E p \in Percents : Read(r, p)
       \/ SetContext(r) \/ SetWarned(r) \/ ReadAudience(r) \/ Die(r)
       \/ \E who \in Rooms \cup {Agent} : Warn(r, who)
  \/ MoveRooms

GaugeSpec == GaugeInit /\ [][GaugeNext]_gaugeVars

-----------------------------------------------------------------------------
(* Properties *)

(* Once a report with none beside it has set its threshold, the threshold  *)
(* fits the percentage whatever races, deaths and lost updates there were  *)
(* before: every band at or under the percentage is reached, and none is   *)
(* kept that the percentage is more than the hysteresis below              *)
(* (nextGaugeState, the cascade its docblock calls load-bearing).          *)
FitsAlone ==
  alone =>
    /\ \A b \in Bands : context >= b => warned >= b
    /\ warned # None => context >= Reset(warned)

(* A threshold the gauge remembers having warned of was warned of, it or a *)
(* higher one, wherever the warning goes and whatever rooms the agent joins*)
(* and leaves meanwhile: unless the report that was to say so died, or two *)
(* ran beside each other, or it was to go to the rooms of an agent that was*)
(* in none just then.                                                      *)
RiseIsTold ==
  Active = {} /\ ~excused => warned = None \/ warned \in told

(* No band is warned of a second time before the threshold was below it,   *)
(* but by reports that ran beside another and both read the old threshold. *)
ToldOnce ==
  [][\A r \in Reporters :
       (\E who \in Rooms \cup {Agent} : Warn(r, who)) /\ Fired(r) \in told
         => r \in beside]_gaugeVars
=============================================================================
