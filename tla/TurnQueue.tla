----------------------------- MODULE TurnQueue -----------------------------
(***************************************************************************)
(* The queue of supervise/turn-queue.ts: one prompt is out at a time, the  *)
(* others wait, and a bus message is taken once.                           *)
(*                                                                         *)
(* The class is a value here: a record of its three fields and of what it  *)
(* has handed to events.send since the caller last looked (sent).  A       *)
(* method is an operator from queue to queue.                              *)
(***************************************************************************)
EXTENDS Naturals, Sequences

CONSTANTS
  Messages,  \* bus messages, each with an id of its own
  Prompts    \* what can be offered; one outside Messages covers no message

ASSUME PromptsAssumption == Messages \subseteq Prompts

Queue == [state: {"idle", "inTurn"},
          pending: Seq(Prompts),
          seen: SUBSET Messages,
          sent: Seq(Prompts)]

EmptyQueue == [state |-> "idle", pending |-> <<>>, seen |-> {}, sent |-> <<>>]

MessageIds(prompt) == {prompt} \cap Messages

IsDuplicate(queue, prompt) ==
  MessageIds(prompt) # {} /\ MessageIds(prompt) \subseteq queue.seen

Accept(queue, prompt) ==
  LET known == [queue EXCEPT !.seen = @ \cup MessageIds(prompt)]
  IN  IF queue.state = "idle"
        THEN [known EXCEPT !.state = "inTurn", !.sent = Append(@, prompt)]
        ELSE [known EXCEPT !.pending = Append(@, prompt)]

Offer(queue, prompt) ==
  IF IsDuplicate(queue, prompt) THEN queue ELSE Accept(queue, prompt)

OfferUntilQueued(queue, prompts) ==
  IF prompts = <<>> THEN queue ELSE Offer(queue, Head(prompts))

(* Each prompt in turn is offered to what the ones before it left. *)
OfferAll(queue, prompts) ==
  LET after[n \in 0..Len(prompts)] ==
        IF n = 0 THEN queue ELSE Offer(after[n - 1], prompts[n])
  IN  after[Len(prompts)]

TurnEndedLastFirst(queue) ==
  IF queue.pending = <<>>
    THEN [queue EXCEPT !.state = "idle"]
    ELSE [queue EXCEPT !.pending = SubSeq(@, 1, Len(@) - 1),
                       !.sent = Append(@, queue.pending[Len(queue.pending)])]

TurnEndedWithoutNext(queue) == [queue EXCEPT !.state = "idle"]

(* The turn is over: the oldest waiting prompt goes out, if there is one. *)
TurnEnded(queue) ==
  IF queue.pending = <<>>
    THEN [queue EXCEPT !.state = "idle"]
    ELSE [queue EXCEPT !.state = "inTurn",
                       !.pending = Tail(@),
                       !.sent = Append(@, Head(queue.pending))]

(* What drain leaves behind; it returns the pending prompts. *)
Drained(queue) == [queue EXCEPT !.state = "idle", !.pending = <<>>]
=============================================================================
