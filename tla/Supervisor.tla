----------------------------- MODULE Supervisor -----------------------------
(***************************************************************************)
(* The supervisor of one handle: supervise/index.ts with its turn queue,   *)
(* its rate-limit gate and the approvals it files in storage/dao.ts and    *)
(* hears answered through supervise/answer.ts.                             *)
(*                                                                         *)
(* The supervisor is one Node process: a callback or an envelope runs to   *)
(* its end before the next.  Around it run its children, one process per   *)
(* spawn: what they say reaches the supervisor later, through a pipe, and  *)
(* a child that was replaced goes on talking until it has died.            *)
(*                                                                         *)
(* External: a child takes all the lines waiting on its stdin as one turn, *)
(* reports usage only while it is in a turn, and ends the turn with one    *)
(* event, as supervise/turn-queue.ts and rate-limit.ts record of the CLI.  *)
(***************************************************************************)
EXTENDS Integers, Sequences, FiniteSets, TurnQueue

CONSTANTS
  Tools,        \* allowlist entries
  Base,         \* those every child starts with
  Unnamed,      \* a denial no allowlist entry could be derived from
  MaxChildren,  \* bound on the spawns
  MaxWakes,     \* bound on the envelopes that carry a message
  MaxApprovals, \* bound on the rows of the approvals table
  MaxEvents     \* bound on the events a child has in its pipe

ASSUME PromptNames == {"denied", "redispatch"} \subseteq Prompts \ Messages
ASSUME ToolsAssumption == Base \subseteq Tools /\ Unnamed \notin Tools
ASSUME BoundsAssumption ==
  /\ MaxChildren \in Nat \ {0}
  /\ MaxWakes \in Nat /\ MaxApprovals \in Nat /\ MaxEvents \in Nat

VARIABLES
  queue,       \* the TurnQueue
  held,        \* prompts withheld because the window is too full
  gate,        \* what the last usage report of the current child said
  generation,  \* childGeneration: the number of the live child
  child,       \* the children, by generation
  approvals,   \* the rows of the approvals table, by id
  answers,     \* approval ids whose wake is on its way to the supervisor
  wakes,       \* how many envelopes have come
  accepted,    \* history: the messages taken, in the order they came
  dispatched,  \* history: the prompts handed to a child, in order
  unsent,      \* history: the messages logged as UNSENT
  carried      \* history: the messages a replacement drained

vars == <<queue, held, gate, generation, child, approvals, answers, wakes,
          accepted, dispatched, unsent, carried>>

-----------------------------------------------------------------------------
(* Types *)

Generations == 1..MaxChildren

Event == [kind: {"turnEnd", "usage", "denial"},
          full: BOOLEAN,
          tool: Tools \cup {Unnamed}]

TurnEndEvent == [kind |-> "turnEnd", full |-> FALSE, tool |-> Unnamed]
UsageEvent(full) == [kind |-> "usage", full |-> full, tool |-> Unnamed]
DenialEvent(tool) == [kind |-> "denial", full |-> FALSE, tool |-> tool]

Child == [life: {"none", "up", "killed", "dead", "gone"},
          stdin: Seq(Prompts),
          turn: Seq(Prompts),
          events: Seq(Event),
          allowed: SUBSET Tools]

NoChild == [life |-> "none", stdin |-> <<>>, turn |-> <<>>, events |-> <<>>,
            allowed |-> {}]

Approval == [tool: Tools \cup {Unnamed}, decision: {"none", "approve", "deny"}]

TypeOK ==
  /\ queue \in Queue /\ queue.sent = <<>>
  /\ held \in Seq(Prompts)
  /\ gate \in {"unknown", "room", "full"}
  /\ generation \in Generations
  /\ child \in [Generations -> Child]
  /\ approvals \in Seq(Approval)
  /\ answers \subseteq 1..Len(approvals)
  /\ wakes \in 0..MaxWakes
  /\ accepted \in Seq(Messages) /\ dispatched \in Seq(Prompts)
  /\ unsent \subseteq Messages /\ carried \subseteq Messages

SetOf(seq) == {seq[i] : i \in DOMAIN seq}

-----------------------------------------------------------------------------
(* The gate and the queue as the handlers use them *)

(* RateLimitGate.verdict: nothing reported yet is room. *)
Allows(verdict) == verdict # "full"

(* Alive and listening on its stdin; a write to a dead one is lost. *)
Write(c, prompts) ==
  IF c.life = "up" THEN [c EXCEPT !.stdin = @ \o prompts] ELSE c

(* The queue becomes q, and what it sends is written to the live child. *)
Settle(q, children) ==
  /\ queue' = [q EXCEPT !.sent = <<>>]
  /\ child' = [children EXCEPT ![generation'] = Write(@, q.sent)]
  /\ dispatched' = dispatched \o q.sent

(* A message is accepted the first time it is held or taken by the queue. *)
NoteAccepted(prompt) ==
  accepted' = IF prompt \in Messages \ SetOf(accepted)
                THEN Append(accepted, prompt) ELSE accepted

-----------------------------------------------------------------------------
(* Envelopes *)

WakeHeld(prompt) ==
  /\ ~Allows(gate)
  /\ held' = Append(held, prompt)
  /\ UNCHANGED <<queue, child, dispatched>>

WakeOffered(prompt) ==
  /\ Allows(gate)
  /\ Settle(Offer(queue, prompt), child)
  /\ UNCHANGED held

(* The listener's handler for an envelope that carries a message. *)
Wake(prompt) ==
  /\ wakes < MaxWakes
  /\ wakes' = wakes + 1
  /\ UNCHANGED generation
  /\ WakeHeld(prompt) \/ WakeOffered(prompt)
  /\ NoteAccepted(prompt)
  /\ UNCHANGED <<gate, approvals, answers, unsent, carried>>

(* Every entry there was and every spelling of the one that was granted. *)
AllowlistWith(base, granted) == base \cup granted

(* replaceChild: drain, kill, spawn with the widened allowlist, wire, and  *)
(* offer the prompt that says what changed before what was drained.        *)
ReplaceChild(granted) ==
  LET old     == child[generation]
      fresh   == [NoChild EXCEPT !.life = "up",
                                     !.allowed = AllowlistWith(old.allowed, granted)]
      killed  == [old EXCEPT !.life = IF @ = "up" THEN "killed" ELSE @]
      drained == Drained(queue)
  IN  /\ generation < MaxChildren
      /\ generation' = generation + 1
      /\ Settle(OfferAll(Offer(drained, "redispatch"), queue.pending),
                [child EXCEPT ![generation] = killed, ![generation + 1] = fresh])
      /\ carried' = carried \cup (SetOf(queue.pending) \cap Messages)

(* applyAnswer: a denial is told, an approval replaces the child. *)
HearAnswer(id) ==
  /\ id \in answers
  /\ answers' = answers \ {id}
  /\ IF approvals[id].decision = "deny"
       THEN /\ UNCHANGED <<generation, carried>>
            /\ Settle(Offer(queue, "denied"), child)
       ELSE ReplaceChild({approvals[id].tool} \cap Tools)
  /\ UNCHANGED <<held, gate, approvals, wakes, accepted, unsent>>

-----------------------------------------------------------------------------
(* Callbacks of a child; only those of the live one act (ifCurrent) *)

IfAny(g) == TRUE

IfCurrent(g) == g = generation

Heard(g) == [child EXCEPT ![g].events = Tail(@)]

(* A signal of a replaced child is logged and dropped. *)
HearStale(g) ==
  /\ ~IfCurrent(g)
  /\ child[g].events # <<>>
  /\ child' = Heard(g)
  /\ UNCHANGED <<queue, held, gate, generation, approvals, answers, wakes,
                 accepted, dispatched, unsent, carried>>

OnTurnEnd(g) ==
  /\ IfCurrent(g)
  /\ child[g].events # <<>> /\ Head(child[g].events).kind = "turnEnd"
  /\ UNCHANGED generation
  /\ Settle(TurnEnded(queue), Heard(g))
  /\ UNCHANGED <<held, gate, approvals, answers, wakes, accepted, unsent, carried>>

(* onUsage: the report is noted, and what was held goes to the queue when  *)
(* it says there is room (releaseHeld).                                    *)
OnUsage(g) ==
  /\ IfCurrent(g)
  /\ child[g].events # <<>> /\ Head(child[g].events).kind = "usage"
  /\ UNCHANGED generation
  /\ gate' = IF Head(child[g].events).full THEN "full" ELSE "room"
  /\ IF Allows(gate')
       THEN Settle(OfferAll(queue, held), Heard(g)) /\ held' = <<>>
       ELSE Settle(queue, Heard(g)) /\ UNCHANGED held
  /\ UNCHANGED <<approvals, answers, wakes, accepted, unsent, carried>>

(* onDenial: insertApproval files the request with the row's next id, or   *)
(* fails: that is logged, and nobody will be asked.                        *)
OnDenial(g) ==
  /\ IfCurrent(g)
  /\ child[g].events # <<>> /\ Head(child[g].events).kind = "denial"
  /\ approvals' \in {Append(approvals, [tool |-> Head(child[g].events).tool,
                                         decision |-> "none"]), approvals}
  /\ child' = Heard(g)
  /\ UNCHANGED <<queue, held, gate, generation, answers, wakes, accepted,
                 dispatched, unsent, carried>>

(* onExit: what was queued is logged as unsent; nothing respawns.  The     *)
(* exit may be heard before the last events of the pipe.                   *)
OnExit(g) ==
  /\ child[g].life = "dead"
  /\ child' = [child EXCEPT ![g].life = "gone"]
  /\ IF IfCurrent(g)
       THEN /\ queue' = Drained(queue)
            /\ unsent' = unsent \cup (SetOf(queue.pending) \cap Messages)
       ELSE UNCHANGED <<queue, unsent>>
  /\ UNCHANGED <<held, gate, generation, approvals, answers, wakes, accepted,
                 dispatched, carried>>

-----------------------------------------------------------------------------
(* The operator, through the web server *)

AnswerableAgain(id, decision) ==
  decision = "approve" => approvals[id].tool # Unnamed

(* The row is answered once: UPDATE .. WHERE answered_at IS NULL, and a    *)
(* request without an allowlist entry can only be denied.                  *)
Answerable(id, decision) ==
  /\ approvals[id].decision = "none"
  /\ decision = "approve" => approvals[id].tool # Unnamed

(* answerAndNotify records the decision and then wakes the supervisor.     *)
(* The wake may never arrive: the server can die between the two, or the   *)
(* socket not be there.  Nobody tries again.                               *)
AnswerAndNotify(id, decision, arrives) ==
  /\ Answerable(id, decision)
  /\ approvals' = [approvals EXCEPT ![id].decision = decision]
  /\ answers' = IF arrives THEN answers \cup {id} ELSE answers
  /\ UNCHANGED <<queue, held, gate, generation, child, wakes, accepted,
                 dispatched, unsent, carried>>

-----------------------------------------------------------------------------
(* The children *)

Runs(g) == child[g].life \in {"up", "killed"}

ChildMoves(g, c) ==
  /\ child' = [child EXCEPT ![g] = c]
  /\ UNCHANGED <<queue, held, gate, generation, approvals, answers, wakes,
                 accepted, dispatched, unsent, carried>>

(* All the lines that wait become one turn. *)
BeginTurn(g) ==
  /\ Runs(g) /\ child[g].turn = <<>> /\ child[g].stdin # <<>>
  /\ ChildMoves(g, [child[g] EXCEPT !.turn = child[g].stdin, !.stdin = <<>>])

Emit(g, event) ==
  /\ Runs(g) /\ child[g].turn # <<>>
  /\ Len(child[g].events) < MaxEvents
  /\ ChildMoves(g, [child[g] EXCEPT !.events = Append(@, event)])

ReportUsage(g, full) == Emit(g, UsageEvent(full))

(* The child is refused a tool its allowlist does not have. *)
BeDenied(g, tool) ==
  /\ tool \notin child[g].allowed
  /\ Len(approvals) + Cardinality({i \in DOMAIN child[g].events :
                        child[g].events[i].kind = "denial"}) < MaxApprovals
  /\ Emit(g, DenialEvent(tool))

EndTurn(g) ==
  /\ Runs(g) /\ child[g].turn # <<>>
  /\ ChildMoves(g, [child[g] EXCEPT !.turn = <<>>,
                                    !.events = Append(@, TurnEndEvent)])

(* It crashes, or the signal of kill reaches it. *)
Die(g) ==
  /\ Runs(g)
  /\ ChildMoves(g, [child[g] EXCEPT !.life = "dead", !.stdin = <<>>, !.turn = <<>>])

-----------------------------------------------------------------------------

Init ==
  /\ queue = EmptyQueue /\ held = <<>> /\ gate = "unknown"
  /\ generation = 1
  /\ child = [g \in Generations |->
                IF g = 1 THEN [NoChild EXCEPT !.life = "up", !.allowed = Base]
                         ELSE NoChild]
  /\ approvals = <<>> /\ answers = {} /\ wakes = 0
  /\ accepted = <<>> /\ dispatched = <<>> /\ unsent = {} /\ carried = {}

Callback(g) == HearStale(g) \/ OnTurnEnd(g) \/ OnUsage(g) \/ OnDenial(g) \/ OnExit(g)

ChildStep(g) ==
  \/ BeginTurn(g)
  \/ \E full \in BOOLEAN : ReportUsage(g, full)
  \/ \E tool \in Tools \cup {Unnamed} : BeDenied(g, tool)
  \/ EndTurn(g)
  \/ Die(g)

Next ==
  \/ \E prompt \in Prompts \ {"denied", "redispatch"} : Wake(prompt)
  \/ \E id \in answers : HearAnswer(id)
  \/ \E g \in Generations : Callback(g) \/ ChildStep(g)
  \/ \E id \in DOMAIN approvals, decision \in {"approve", "deny"}, arrives \in BOOLEAN :
       AnswerAndNotify(id, decision, arrives)

Spec == Init /\ [][Next]_vars

(* The event loop runs every callback that is due, and a child works: it   *)
(* starts on what it was given and comes to the end of its turn.           *)
Fairness ==
  \A g \in Generations :
    WF_vars(Callback(g)) /\ WF_vars(BeginTurn(g)) /\ WF_vars(EndTurn(g))

FairSpec == Spec /\ Fairness

-----------------------------------------------------------------------------
(* Properties *)

(* The turns the live child has yet to finish or to be heard finishing. *)
InFlight(c) ==
  Len(c.stdin) + Len(c.turn)
    + Cardinality({i \in DOMAIN c.events : c.events[i].kind = "turnEnd"})

(* One turn at a time, and no waiting for a turn that is over: the queue   *)
(* is in a turn exactly when the live child has one prompt in flight, also *)
(* across replacements and while a replaced child still talks.  With two   *)
(* the CLI would merge them and answer one; with none the queue would hang *)
(* (turn-queue.ts, wireChild).                                             *)
OneTurnInFlight ==
  LET live == child[generation] IN
  live.life = "up" =>
    InFlight(live) = IF queue.state = "inTurn" THEN 1 ELSE 0

PositionIn(seq, m) == CHOOSE i \in DOMAIN seq : seq[i] = m

(* Messages reach a child at most once each and in the order they were     *)
(* accepted, whether they went straight out, waited in the queue, or were  *)
(* held by the gate and released between the two (offer, releaseHeld).     *)
DispatchedInOrder ==
  \A i, j \in {k \in DOMAIN dispatched : dispatched[k] \in Messages} :
    i < j => PositionIn(accepted, dispatched[i]) < PositionIn(accepted, dispatched[j])

(* Where an accepted message may be that nobody has given up on. *)
Waiting == SetOf(held) \cup SetOf(queue.pending)

(* An accepted message is held, pending, written to a child or logged as   *)
(* UNSENT, unless a replacement of the child drained it.                   *)
LostOnlyToReplacement ==
  SetOf(accepted) \subseteq Waiting \cup SetOf(dispatched) \cup unsent \cup carried

(* What replaceChild says of itself, "DRAINED, NOT DISCARDED": a message   *)
(* that a replacement drained is still there.                              *)
CarriedOver ==
  carried \subseteq Waiting \cup SetOf(dispatched) \cup unsent

(* Beyond what it starts with a child may use what an operator approved    *)
(* and nothing else, a decision stands once it is given, and a child is    *)
(* replaced once per approval and keeps what the one before it had         *)
(* (answerApproval, applyAnswer, allowlistWith).                           *)
OnlyWhatWasApproved ==
  LET approved == {i \in DOMAIN approvals : approvals[i].decision = "approve"}
  IN  /\ child[generation].allowed
              \subseteq Base \cup {approvals[i].tool : i \in approved}
      /\ generation <= 1 + Cardinality(approved \ answers)
      /\ \A g \in 1..generation : child[g].allowed \subseteq child[generation].allowed

(* A prompt that waits in the queue leaves it, unless the child is dead:   *)
(* each end of a turn lets the next one out (turnEnded).                   *)
PendingLeaves ==
  \A m \in Messages :
    m \in SetOf(queue.pending) ~> \/ m \notin SetOf(queue.pending)
                                  \/ child[generation].life # "up"

=============================================================================
