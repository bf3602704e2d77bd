-------------------------- MODULE SupervisorProofs --------------------------
(***************************************************************************)
(* Proofs about Supervisor and its TurnQueue, for any tools, messages,     *)
(* prompts, children and bounds.                                           *)
(*                                                                         *)
(* First what offering any number of prompts does to a queue, by induction *)
(* over how many, and the types.  Then that the queue and the live child   *)
(* agree on whether a turn is in flight: OneTurnInFlight is inductive once *)
(* the types are known.  Then the order in which messages reach children,  *)
(* and that none is lost: OrderInv.                                        *)
(*                                                                         *)
(* Last, what a child may use.  Whatever the queue does with prompts, it   *)
(* changes no child's allowlist, so only the events are typed there, which *)
(* the requests are made from.  An answer on its way is of a decided row:  *)
(* only this keeps a replacement from being made twice for one approval.   *)
(***************************************************************************)
EXTENDS Supervisor, FiniteSetTheorems, SequenceTheorems, TLAPS

(* Induction over the numbers, from the well-foundedness of <: a set with  *)
(* zero and the successor of each of its members has every number.  What   *)
(* it gives for the queue is stated as sets too: I[n] is the queues there  *)
(* may be once n of the prompts were offered.                              *)
LEMMA Least ==
  ASSUME NEW T, T \subseteq Nat, T # {}
  PROVE  \E m \in T : \A n \in T : m <= n
<1> DEFINE R == OpToRel(<, Nat)
<1>1. IsWellFoundedOn(R, Nat)
  BY NatLessThanWellFounded
<1>2. PICK m \in T : \A n \in T : ~(<<n, m>> \in R)
  <2> HIDE DEF R
  <2> QED
    BY <1>1, WFMin
<1>3. \A n \in T : ~(n < m)
  BY <1>2 DEF OpToRel
<1> QED
  BY <1>3

LEMMA Induction ==
  ASSUME NEW T, 0 \in T, \A n \in Nat : n \in T => n + 1 \in T
  PROVE  Nat \subseteq T
<1> SUFFICES ASSUME ~(Nat \subseteq T) PROVE FALSE
  OBVIOUS
<1> DEFINE U == Nat \ T
<1>1. U \subseteq Nat /\ U # {}
  OBVIOUS
<1>2. PICK m \in U : \A n \in U : m <= n
  <2> HIDE DEF U
  <2> QED
    BY <1>1, Least
<1>3. m # 0 /\ m - 1 \in Nat /\ m - 1 \notin U
  BY <1>2
<1> QED
  BY <1>2, <1>3

(* The function OfferAll is defined by exists.                             *)
LEMMA OfferAllUnfolds ==
  ASSUME NEW queueOf, NEW prompts, Len(prompts) \in Nat
  PROVE  \E after :
           /\ after = [n \in 0..Len(prompts) |->
                        IF n = 0 THEN queueOf ELSE Offer(after[n - 1], prompts[n])]
           /\ OfferAll(queueOf, prompts) = after[Len(prompts)]
<1> DEFINE Is(f, m) == f = [n \in 0..m |-> IF n = 0 THEN queueOf
                                           ELSE Offer(f[n - 1], prompts[n])]
           T == {m \in Nat : \E f : Is(f, m)}
<1>1. 0 \in T
  <2>1. Is([n \in 0..0 |-> queueOf], 0)
    OBVIOUS
  <2> QED
    BY <2>1
<1>2. ASSUME NEW m \in Nat, m \in T PROVE m + 1 \in T
  <2>1. PICK f : Is(f, m)
    BY <1>2
  <2> DEFINE g == [n \in 0..m + 1 |-> IF n = m + 1 THEN Offer(f[m], prompts[m + 1]) ELSE f[n]]
  <2>2. Is(g, m + 1)
    BY <2>1
  <2> HIDE DEF g, Is
  <2> QED
    BY <2>2
<1>3. Nat \subseteq T
  <2> HIDE DEF T
  <2> QED
    BY <1>1, <1>2, Induction
<1>4. PICK f : Is(f, Len(prompts))
  BY <1>3
<1> QED
  BY <1>4 DEF OfferAll

LEMMA OfferAllInduction ==
  ASSUME NEW start, NEW prompts, Len(prompts) \in Nat, NEW I, start \in I[0],
         \A n \in 0..Len(prompts) - 1 : \A q \in I[n] : Offer(q, prompts[n + 1]) \in I[n + 1]
  PROVE  OfferAll(start, prompts) \in I[Len(prompts)]
<1>1. PICK after :
        /\ after = [n \in 0..Len(prompts) |->
                      IF n = 0 THEN start ELSE Offer(after[n - 1], prompts[n])]
        /\ OfferAll(start, prompts) = after[Len(prompts)]
  BY OfferAllUnfolds
<1> DEFINE T == {n \in Nat : n <= Len(prompts) => after[n] \in I[n]}
<1>2. 0 \in T
  BY <1>1
<1>3. ASSUME NEW n \in Nat, n \in T PROVE n + 1 \in T
  BY <1>1, <1>3
<1>4. Nat \subseteq T
  <2> HIDE DEF T
  <2> QED
    BY <1>2, <1>3, Induction
<1>5. Len(prompts) \in T
  BY <1>4
<1> QED
  BY <1>1, <1>5

LEMMA SetOfAppend ==
  ASSUME NEW S, NEW seq \in Seq(S), NEW e \in S
  PROVE  SetOf(Append(seq, e)) = SetOf(seq) \cup {e}
<1> DEFINE longer == Append(seq, e)
<1>1. /\ Len(seq) \in Nat /\ DOMAIN seq = 1..Len(seq) /\ DOMAIN longer = 1..Len(seq) + 1
      /\ longer[Len(seq) + 1] = e /\ \A i \in DOMAIN seq : longer[i] = seq[i]
  OBVIOUS
<1> HIDE DEF longer
<1>2. SetOf(longer) \subseteq SetOf(seq) \cup {e}
  BY <1>1 DEF SetOf
<1>3. SetOf(seq) \subseteq SetOf(longer) /\ e \in SetOf(longer)
  BY <1>1 DEF SetOf
<1> QED
  BY <1>2, <1>3 DEF longer

LEMMA SetOfConcat ==
  ASSUME NEW S, NEW s \in Seq(S), NEW t \in Seq(S)
  PROVE  SetOf(s \o t) = SetOf(s) \cup SetOf(t)
<1>1. /\ Len(s) \in Nat /\ Len(t) \in Nat
      /\ DOMAIN s = 1..Len(s) /\ DOMAIN t = 1..Len(t)
      /\ DOMAIN (s \o t) = 1..Len(s) + Len(t)
      /\ \A i \in 1..Len(s) + Len(t) : (s \o t)[i] = IF i <= Len(s) THEN s[i] ELSE t[i - Len(s)]
  BY ConcatProperties, LenProperties
<1>2. ASSUME NEW i \in DOMAIN t PROVE t[i] = (s \o t)[i + Len(s)] /\ i + Len(s) \in DOMAIN (s \o t)
  BY <1>1
<1> DEFINE st == s \o t
<1> HIDE DEF st
<1>3. SetOf(st) \subseteq SetOf(s) \cup SetOf(t)
  <2> SUFFICES ASSUME NEW i \in DOMAIN st PROVE st[i] \in SetOf(s) \cup SetOf(t)
    BY DEF SetOf
  <2>1. CASE i <= Len(s)
    BY <1>1, <2>1 DEF SetOf, st
  <2>2. CASE ~(i <= Len(s))
    <3>1. i - Len(s) \in DOMAIN t /\ st[i] = t[i - Len(s)]
      BY <1>1, <2>2 DEF st
    <3> QED
      BY <3>1 DEF SetOf
  <2> QED
    BY <2>1, <2>2
<1>4. SetOf(s) \subseteq SetOf(st)
  BY <1>1 DEF SetOf, st
<1>5. SetOf(t) \subseteq SetOf(st)
  BY <1>2 DEF SetOf, st
<1> QED
  BY <1>3, <1>4, <1>5 DEF st

LEMMA OfferTypes ==
  ASSUME NEW q \in Queue, NEW p \in Prompts
  PROVE  Offer(q, p) \in Queue
<1>1. Append(q.sent, p) \in Seq(Prompts) /\ Append(q.pending, p) \in Seq(Prompts)
  BY DEF Queue
<1>2. q.seen \cup MessageIds(p) \in SUBSET Messages
  BY DEF Queue, MessageIds
<1> QED
  BY <1>1, <1>2 DEF Offer, Accept, Queue

-----------------------------------------------------------------------------
(* The ends of turns in a pipe. *)
Ends(events) == {i \in DOMAIN events : events[i].kind = "turnEnd"}

LEMMA EndsAreFinite ==
  ASSUME NEW S, NEW events \in Seq(S)
  PROVE  IsFiniteSet(Ends(events)) /\ Cardinality(Ends(events)) \in Nat
<1>1. Len(events) \in Nat /\ Ends(events) \subseteq 1..Len(events)
  BY DEF Ends
<1>2. IsFiniteSet(1..Len(events))
  BY <1>1, FS_Interval
<1>3. IsFiniteSet(Ends(events))
  BY <1>1, <1>2, FS_Subset
<1> QED
  BY <1>3, FS_CardinalityType

LEMMA EndsAppend ==
  ASSUME NEW S, NEW events \in Seq(S), NEW e \in S
  PROVE  Cardinality(Ends(Append(events, e))) =
           Cardinality(Ends(events)) + (IF e.kind = "turnEnd" THEN 1 ELSE 0)
<1> DEFINE n == Len(events) + 1
           more == Append(events, e)
<1>1. /\ n \notin Ends(events)
      /\ DOMAIN more = DOMAIN events \cup {n} /\ more[n] = e
      /\ \A i \in DOMAIN events : more[i] = events[i]
  BY DEF Ends
<1> HIDE DEF n, more
<1>2. Ends(more) = IF e.kind = "turnEnd" THEN Ends(events) \cup {n} ELSE Ends(events)
  BY <1>1 DEF Ends
<1>3. Cardinality(Ends(events)) \in Nat
  BY EndsAreFinite
<1>4. Cardinality(Ends(events) \cup {n}) = Cardinality(Ends(events)) + 1
  BY <1>1, EndsAreFinite, FS_AddElement
<1>5. Cardinality(Ends(more)) = Cardinality(Ends(events)) + (IF e.kind = "turnEnd" THEN 1 ELSE 0)
  BY <1>2, <1>3, <1>4
<1> QED
  BY <1>5 DEF more

LEMMA EndsTail ==
  ASSUME NEW S, NEW events \in Seq(S), events # <<>>
  PROVE  Cardinality(Ends(Tail(events))) =
           Cardinality(Ends(events)) - (IF Head(events).kind = "turnEnd" THEN 1 ELSE 0)
<1> DEFINE rest == Tail(events)
           later == Ends(events) \ {1}
<1>1. /\ Len(events) \in Nat \ {0} /\ DOMAIN events = 1..Len(events)
      /\ rest \in Seq(S) /\ DOMAIN rest = 1..Len(events) - 1
      /\ \A i \in DOMAIN rest : rest[i] = events[i + 1]
      /\ Head(events) = events[1]
  BY HeadTailProperties, EmptySeq, LenProperties
<1> HIDE DEF rest
<1>2. IsFiniteSet(Ends(rest)) /\ IsFiniteSet(Ends(events)) /\ Cardinality(Ends(events)) \in Nat
  BY <1>1, EndsAreFinite
<1>3. Cardinality(later) = Cardinality(Ends(rest))
  <2> DEFINE f == [i \in Ends(rest) |-> i + 1]
  <2>1. \A i \in Ends(rest) : i \in Int /\ i + 1 \in later
    BY <1>1 DEF Ends
  <2>2. \A i \in later : i - 1 \in Ends(rest) /\ f[i - 1] = i
    BY <1>1 DEF Ends
  <2>3. f \in Bijection(Ends(rest), later)
    <3>1. f \in [Ends(rest) -> later]
      BY <2>1
    <3>2. \A i, j \in Ends(rest) : f[i] = f[j] => i = j
      BY <2>1
    <3>3. \A i \in later : \E j \in Ends(rest) : f[j] = i
      BY <2>2
    <3> QED
      BY <3>1, <3>2, <3>3 DEF Bijection, Injection, Surjection, IsInjective
  <2>4. ExistsBijection(Ends(rest), later)
    BY <2>3 DEF ExistsBijection
  <2> QED
    BY <1>2, <2>4, FS_Bijection
<1>4. Cardinality(later) = IF 1 \in Ends(events) THEN Cardinality(Ends(events)) - 1
                           ELSE Cardinality(Ends(events))
  BY <1>2, FS_RemoveElement
<1>5. 1 \in Ends(events) <=> Head(events).kind = "turnEnd"
  BY <1>1 DEF Ends
<1> QED
  BY <1>2, <1>3, <1>4, <1>5 DEF rest

(* The prompts the queue believes to be out. *)
Out(q) == IF q.state = "inTurn" THEN 1 ELSE 0

(* The queue sends exactly what makes it be in a turn. *)
LEMMA OfferSends ==
  ASSUME NEW q \in Queue, NEW p \in Prompts
  PROVE  Len(Offer(q, p).sent) + Out(q) = Len(q.sent) + Out(Offer(q, p))
<1>1. q.sent \in Seq(Prompts) /\ Len(q.sent) \in Nat /\ Len(Append(q.sent, p)) = Len(q.sent) + 1
  BY DEF Queue
<1>2. CASE IsDuplicate(q, p)
  BY <1>1, <1>2 DEF Offer, Out
<1>3. CASE ~IsDuplicate(q, p) /\ q.state = "idle"
  <2>1. Offer(q, p).state = "inTurn" /\ Offer(q, p).sent = Append(q.sent, p)
    BY <1>3 DEF Offer, Accept, Queue
  <2> QED
    BY <1>1, <1>3, <2>1 DEF Out
<1>4. CASE ~IsDuplicate(q, p) /\ q.state # "idle"
  <2>1. Offer(q, p).state = q.state /\ Offer(q, p).sent = q.sent
    BY <1>4 DEF Offer, Accept, Queue
  <2> QED
    BY <1>1, <2>1 DEF Out
<1> QED
  BY <1>2, <1>3, <1>4

LEMMA OfferAllSends ==
  ASSUME NEW start \in Queue, NEW prompts \in Seq(Prompts)
  PROVE  /\ OfferAll(start, prompts) \in Queue
         /\ Len(OfferAll(start, prompts).sent) + Out(start)
              = Len(start.sent) + Out(OfferAll(start, prompts))
<1> DEFINE Q == {q \in Queue : Len(q.sent) + Out(start) = Len(start.sent) + Out(q)}
           I == [n \in 0..Len(prompts) |-> Q]
<1>1. Len(prompts) \in Nat /\ start \in I[0]
  OBVIOUS
<1>2. ASSUME NEW q \in Q, NEW p \in Prompts PROVE Offer(q, p) \in Q
  <2>1. /\ Len(q.sent) \in Nat /\ Len(start.sent) \in Nat /\ Out(q) \in Nat /\ Out(start) \in Nat
        /\ Len(q.sent) + Out(start) = Len(start.sent) + Out(q)
    BY DEF Queue, Out
  <2>2. Offer(q, p) \in Queue /\ Len(Offer(q, p).sent) \in Nat /\ Out(Offer(q, p)) \in Nat
    BY OfferTypes DEF Queue, Out
  <2>3. Len(Offer(q, p).sent) + Out(q) = Len(q.sent) + Out(Offer(q, p))
    BY OfferSends
  <2>4. Len(Offer(q, p).sent) + Out(start) = Len(start.sent) + Out(Offer(q, p))
    <3> DEFINE a == Len(q.sent)
               b == Out(start)
               c == Len(start.sent)
               d == Out(q)
               e == Len(Offer(q, p).sent)
               f == Out(Offer(q, p))
    <3>1. /\ a \in Nat /\ b \in Nat /\ c \in Nat /\ d \in Nat /\ e \in Nat /\ f \in Nat
          /\ a + b = c + d /\ e + d = a + f
      BY <2>1, <2>2, <2>3
    <3> HIDE DEF a, b, c, d, e, f
    <3>2. e + b = c + f
      BY <3>1
    <3> QED
      BY <3>2 DEF b, c, e, f
  <2> QED
    BY <2>2, <2>4
<1> HIDE DEF Q
<1>3. \A n \in 0..Len(prompts) - 1 : \A q \in I[n] : Offer(q, prompts[n + 1]) \in I[n + 1]
  BY <1>1, <1>2
<1>4. OfferAll(start, prompts) \in I[Len(prompts)]
  <2> HIDE DEF I
  <2> QED
    BY <1>1, <1>3, OfferAllInduction
<1> QED
  BY <1>1, <1>4 DEF Q

-----------------------------------------------------------------------------
LEMMA GenerationsAreNumbers == Generations \subseteq Nat /\ 1 \in Generations
BY BoundsAssumption DEF Generations

LEMMA EventsAreEvents ==
  /\ TurnEndEvent \in Event
  /\ \A full \in BOOLEAN : UsageEvent(full) \in Event
  /\ \A tool \in Tools \cup {Unnamed} : DenialEvent(tool) \in Event
BY DEF TurnEndEvent, UsageEvent, DenialEvent, Event

LEMMA NamedPrompts == "denied" \in Prompts \ Messages /\ "redispatch" \in Prompts \ Messages
BY PromptNames

LEMMA QueueTypes ==
  ASSUME NEW q \in Queue
  PROVE  /\ TurnEnded(q) \in Queue /\ Drained(q) \in Queue
         /\ [q EXCEPT !.sent = <<>>] \in Queue
<1>1. q.pending # <<>> => /\ Tail(q.pending) \in Seq(Prompts)
                          /\ Append(q.sent, Head(q.pending)) \in Seq(Prompts)
  BY DEF Queue
<1>2. TurnEnded(q) \in Queue
  <2>1. CASE q.pending = <<>>
    BY <2>1 DEF TurnEnded, Queue
  <2>2. CASE q.pending # <<>>
    BY <1>1, <2>2 DEF TurnEnded, Queue
  <2> QED
    BY <2>1, <2>2
<1> DEFINE none == <<>>
<1>3. none \in Seq(Prompts) /\ Drained(q) = [q EXCEPT !.state = "idle", !.pending = none]
  BY DEF Drained
<1> HIDE DEF none
<1>4. Drained(q) \in Queue
  BY <1>3 DEF Queue
<1>5. [q EXCEPT !.sent = none] \in Queue
  BY <1>3 DEF Queue
<1> QED
  BY <1>2, <1>4, <1>5 DEF none

(* What a child is given, does, says and may use, with an empty sequence   *)
(* under a name.                                                           *)
LEMMA FreshTyped ==
  ASSUME NEW allowed \in SUBSET Tools
  PROVE  NoChild \in Child /\ [NoChild EXCEPT !.life = "up", !.allowed = allowed] \in Child
<1> DEFINE none == <<>>
           quiet == <<>>
<1>1. none \in Seq(Prompts)
  OBVIOUS
<1>2. quiet \in Seq(Event)
  OBVIOUS
<1>3. NoChild = [life |-> "none", stdin |-> none, turn |-> none, events |-> quiet, allowed |-> {}]
  BY DEF NoChild
<1> HIDE DEF none, quiet
<1>4. NoChild \in Child
  BY <1>1, <1>2, <1>3 DEF Child
<1>5. [NoChild EXCEPT !.life = "up", !.allowed = allowed] \in Child
  BY <1>4 DEF Child
<1> QED
  BY <1>4, <1>5

LEMMA BegunTyped ==
  ASSUME NEW c \in Child
  PROVE  [c EXCEPT !.turn = c.stdin, !.stdin = <<>>] \in Child
<1> DEFINE none == <<>>
<1>1. none \in Seq(Prompts)
  OBVIOUS
<1> HIDE DEF none
<1>2. [c EXCEPT !.turn = c.stdin, !.stdin = none] \in Child
  BY <1>1 DEF Child
<1> QED
  BY <1>2 DEF none

LEMMA EndedTyped ==
  ASSUME NEW c \in Child, NEW e \in Event
  PROVE  [c EXCEPT !.turn = <<>>, !.events = Append(@, e)] \in Child
<1> DEFINE none == <<>>
<1>1. none \in Seq(Prompts)
  OBVIOUS
<1>2. Append(c.events, e) \in Seq(Event)
  BY DEF Child
<1> HIDE DEF none
<1>3. [c EXCEPT !.turn = none, !.events = Append(@, e)] \in Child
  BY <1>1, <1>2 DEF Child
<1> QED
  BY <1>3 DEF none

LEMMA DeadTyped ==
  ASSUME NEW c \in Child
  PROVE  [c EXCEPT !.life = "dead", !.stdin = <<>>, !.turn = <<>>] \in Child
<1> DEFINE none == <<>>
<1>1. none \in Seq(Prompts)
  OBVIOUS
<1> HIDE DEF none
<1>2. [c EXCEPT !.life = "dead", !.stdin = none, !.turn = none] \in Child
  BY <1>1 DEF Child
<1> QED
  BY <1>2 DEF none

LEMMA WriteTypes ==
  ASSUME NEW c \in Child, NEW prompts \in Seq(Prompts)
  PROVE  Write(c, prompts) \in Child
<1>1. c.stdin \o prompts \in Seq(Prompts)
  BY DEF Child
<1> QED
  BY <1>1 DEF Write, Child

LEMMA SettleTypes ==
  ASSUME NEW q \in Queue, NEW children \in [Generations -> Child],
         Settle(q, children), generation' \in Generations, dispatched \in Seq(Prompts)
  PROVE  /\ queue' \in Queue /\ queue'.sent = <<>>
         /\ child' \in [Generations -> Child]
         /\ dispatched' \in Seq(Prompts)
<1>1. queue' = [q EXCEPT !.sent = <<>>] /\ dispatched' = dispatched \o q.sent
      /\ child' = [children EXCEPT ![generation'] = Write(children[generation'], q.sent)]
  BY DEF Settle
<1>2. q.sent \in Seq(Prompts)
  BY DEF Queue
<1>3. Write(children[generation'], q.sent) \in Child
  BY <1>2, WriteTypes
<1>4. queue' \in Queue
  BY <1>1, QueueTypes
<1>5. queue'.sent = <<>>
  BY <1>1 DEF Queue
<1> QED
  BY <1>1, <1>2, <1>3, <1>4, <1>5

LEMMA HeardTypes ==
  ASSUME TypeOK, NEW g \in Generations, child[g].events # <<>>
  PROVE  /\ Heard(g) \in [Generations -> Child]
         /\ Heard(g)[g] = [child[g] EXCEPT !.events = Tail(@)]
         /\ \A h \in Generations \ {g} : Heard(g)[h] = child[h]
         /\ Head(child[g].events) \in Event
<1>1. child[g] \in Child /\ child[g].events \in Seq(Event)
  BY DEF TypeOK, Child
<1>2. Tail(child[g].events) \in Seq(Event) /\ Head(child[g].events) \in Event
  BY <1>1
<1>3. [child[g] EXCEPT !.events = Tail(@)] \in Child
  BY <1>1, <1>2 DEF Child
<1> QED
  BY <1>2, <1>3 DEF Heard, TypeOK

LEMMA TypeInit == Init => TypeOK
<1> SUFFICES ASSUME Init PROVE TypeOK
  OBVIOUS
<1>1. EmptyQueue \in Queue /\ EmptyQueue.sent = <<>>
  BY DEF EmptyQueue, Queue
<1>2. NoChild \in Child /\ [NoChild EXCEPT !.life = "up", !.allowed = Base] \in Child
  BY ToolsAssumption, FreshTyped
<1>3. child \in [Generations -> Child]
  BY <1>2 DEF Init
<1> QED
  BY <1>1, <1>3, GenerationsAreNumbers, BoundsAssumption DEF Init, TypeOK

LEMMA AcceptedTypes ==
  ASSUME NEW prompt \in Prompts, accepted \in Seq(Messages), NoteAccepted(prompt)
  PROVE  accepted' \in Seq(Messages)
BY DEF NoteAccepted

LEMMA WakeTypes ==
  ASSUME TypeOK, NEW prompt \in Prompts, Wake(prompt)
  PROVE  TypeOK'
<1>1. accepted' \in Seq(Messages)
  BY AcceptedTypes DEF Wake, TypeOK
<1>2. wakes' \in 0..MaxWakes
  BY BoundsAssumption DEF Wake, TypeOK
<1>3. CASE WakeHeld(prompt)
  <2>1. held' \in Seq(Prompts)
    BY <1>3 DEF WakeHeld, TypeOK
  <2> QED
    BY <1>1, <1>2, <1>3, <2>1 DEF WakeHeld, Wake, TypeOK
<1>4. CASE WakeOffered(prompt)
  <2>1. Offer(queue, prompt) \in Queue /\ Settle(Offer(queue, prompt), child) /\ generation' \in Generations
    BY <1>4, OfferTypes DEF WakeOffered, Wake, TypeOK
  <2>2. /\ queue' \in Queue /\ queue'.sent = <<>>
        /\ child' \in [Generations -> Child]
        /\ dispatched' \in Seq(Prompts)
    BY <2>1, SettleTypes DEF TypeOK
  <2> QED
    BY <1>1, <1>2, <1>4, <2>2 DEF WakeOffered, Wake, TypeOK
<1> QED
  BY <1>3, <1>4 DEF Wake

LEMMA ReplacedTypes ==
  ASSUME TypeOK, NEW granted \in SUBSET Tools, generation < MaxChildren
  PROVE  LET old    == child[generation]
             fresh  == [NoChild EXCEPT !.life = "up",
                                       !.allowed = AllowlistWith(old.allowed, granted)]
             killed == [old EXCEPT !.life = IF @ = "up" THEN "killed" ELSE @]
             kids   == [child EXCEPT ![generation] = killed, ![generation + 1] = fresh]
         IN  kids \in [Generations -> Child] /\ generation + 1 \in Generations
             /\ kids[generation + 1] = fresh
<1> DEFINE old    == child[generation]
           fresh  == [NoChild EXCEPT !.life = "up",
                                     !.allowed = AllowlistWith(old.allowed, granted)]
           killed == [old EXCEPT !.life = IF @ = "up" THEN "killed" ELSE @]
           kids   == [child EXCEPT ![generation] = killed, ![generation + 1] = fresh]
<1>1. generation \in Generations /\ generation + 1 \in Generations /\ generation \in Nat
  BY BoundsAssumption DEF TypeOK, Generations
<1>2. old \in Child
  BY <1>1 DEF TypeOK
<1>3. killed \in Child
  BY <1>2 DEF Child
<1>4. fresh \in Child
  BY <1>2, FreshTyped DEF AllowlistWith, Child
<1> HIDE DEF killed, fresh
<1>5. kids \in [Generations -> Child] /\ kids[generation + 1] = fresh
  BY <1>1, <1>3, <1>4 DEF TypeOK
<1> QED
  BY <1>1, <1>5 DEF fresh, killed

LEMMA AnswerTypes ==
  ASSUME TypeOK, NEW id \in answers, HearAnswer(id)
  PROVE  TypeOK'
<1>1. id \in DOMAIN approvals /\ approvals[id] \in Approval
  BY DEF TypeOK
<1>2. answers' \subseteq 1..Len(approvals')
  BY DEF HearAnswer, TypeOK
<1>3. CASE approvals[id].decision = "deny"
  <2>1. Offer(queue, "denied") \in Queue /\ Settle(Offer(queue, "denied"), child)
        /\ generation' \in Generations /\ UNCHANGED carried
    BY <1>3, NamedPrompts, OfferTypes DEF HearAnswer, TypeOK
  <2>2. /\ queue' \in Queue /\ queue'.sent = <<>>
        /\ child' \in [Generations -> Child]
        /\ dispatched' \in Seq(Prompts)
    BY <2>1, SettleTypes DEF TypeOK
  <2> QED
    BY <1>2, <2>1, <2>2 DEF HearAnswer, TypeOK
<1>4. CASE approvals[id].decision # "deny"
  <2> DEFINE granted == {approvals[id].tool} \cap Tools
             q == OfferAll(Offer(Drained(queue), "redispatch"), queue.pending)
  <2>1. ReplaceChild(granted)
    BY <1>4 DEF HearAnswer
  <2>2. Offer(Drained(queue), "redispatch") \in Queue /\ queue.pending \in Seq(Prompts)
    BY QueueTypes, NamedPrompts, OfferTypes DEF TypeOK, Queue
  <2>3. q \in Queue
    BY <2>2, OfferAllSends
  <2> HIDE DEF q, granted
  <2>4. PICK kids \in [Generations -> Child] : Settle(q, kids)
    BY <2>1, ReplacedTypes DEF ReplaceChild, q, granted
  <2>5. generation' \in Generations
    BY <2>1, ReplacedTypes DEF ReplaceChild, granted
  <2>6. /\ queue' \in Queue /\ queue'.sent = <<>>
        /\ child' \in [Generations -> Child]
        /\ dispatched' \in Seq(Prompts)
    BY <2>3, <2>4, <2>5, SettleTypes DEF TypeOK
  <2>7. carried' \subseteq Messages
    BY <2>1 DEF ReplaceChild, TypeOK
  <2> QED
    BY <1>2, <2>5, <2>6, <2>7 DEF HearAnswer, TypeOK
<1> QED
  BY <1>3, <1>4

LEMMA CallbackTypes ==
  ASSUME TypeOK, NEW g \in Generations, Callback(g)
  PROVE  TypeOK'
<1>1. CASE HearStale(g)
  BY <1>1, HeardTypes DEF HearStale, TypeOK
<1>2. CASE OnTurnEnd(g)
  <2>1. /\ queue' \in Queue /\ queue'.sent = <<>>
        /\ child' \in [Generations -> Child]
        /\ dispatched' \in Seq(Prompts)
    BY <1>2, HeardTypes, QueueTypes, SettleTypes DEF OnTurnEnd, TypeOK
  <2> QED
    BY <1>2, <2>1 DEF OnTurnEnd, TypeOK
<1>3. CASE OnUsage(g)
  <2>1. Heard(g) \in [Generations -> Child] /\ gate' \in {"unknown", "room", "full"}
        /\ generation' \in Generations
    BY <1>3, HeardTypes DEF OnUsage, TypeOK
  <2>2. CASE Allows(gate')
    <3>1. OfferAll(queue, held) \in Queue
      BY OfferAllSends DEF TypeOK
    <3>2. /\ queue' \in Queue /\ queue'.sent = <<>>
          /\ child' \in [Generations -> Child]
          /\ dispatched' \in Seq(Prompts)
      BY <1>3, <2>1, <2>2, <3>1, SettleTypes DEF OnUsage, TypeOK
    <3> QED
      BY <1>3, <2>1, <2>2, <3>2 DEF OnUsage, TypeOK
  <2>3. CASE ~Allows(gate')
    <3>1. /\ queue' \in Queue /\ queue'.sent = <<>>
          /\ child' \in [Generations -> Child]
          /\ dispatched' \in Seq(Prompts)
      BY <1>3, <2>1, <2>3, SettleTypes DEF OnUsage, TypeOK
    <3> QED
      BY <1>3, <2>1, <2>3, <3>1 DEF OnUsage, TypeOK
  <2> QED
    BY <2>2, <2>3
<1>4. CASE OnDenial(g)
  <2>1. Head(child[g].events) \in Event
    BY <1>4, HeardTypes DEF OnDenial
  <2>2. approvals' \in Seq(Approval) /\ Len(approvals') >= Len(approvals) /\ Len(approvals) \in Nat
    <3> DEFINE row == [tool |-> Head(child[g].events).tool, decision |-> "none"]
    <3>1. row \in Approval /\ approvals \in Seq(Approval)
      BY <2>1 DEF TypeOK, Approval, Event
    <3>2. approvals' = Append(approvals, row) \/ approvals' = approvals
      BY <1>4 DEF OnDenial
    <3> HIDE DEF row
    <3> QED
      BY <3>1, <3>2
  <2>3. answers' \subseteq 1..Len(approvals')
    BY <1>4, <2>2 DEF OnDenial, TypeOK
  <2> QED
    BY <1>4, <2>2, <2>3, HeardTypes DEF OnDenial, TypeOK
<1>5. CASE OnExit(g)
  <2>1. [child[g] EXCEPT !.life = "gone"] \in Child
    BY DEF TypeOK, Child
  <2>2. child' \in [Generations -> Child]
    BY <1>5, <2>1 DEF OnExit, TypeOK
  <2>3. Drained(queue) \in Queue /\ Drained(queue).sent = <<>>
    BY QueueTypes DEF TypeOK, Drained, Queue
  <2>4. queue' \in Queue /\ queue'.sent = <<>> /\ unsent' \subseteq Messages
    BY <1>5, <2>3 DEF OnExit, TypeOK
  <2> QED
    BY <1>5, <2>2, <2>4 DEF OnExit, TypeOK
<1> QED
  BY <1>1, <1>2, <1>3, <1>4, <1>5 DEF Callback

LEMMA ChildStepTypes ==
  ASSUME TypeOK, NEW g \in Generations, ChildStep(g)
  PROVE  TypeOK' /\ \E c \in Child : ChildMoves(g, c)
<1>1. ASSUME NEW c \in Child, ChildMoves(g, c)
      PROVE  TypeOK'
  BY <1>1 DEF ChildMoves, TypeOK
<1>2. child[g] \in Child /\ child[g].stdin \in Seq(Prompts)
  BY DEF TypeOK, Child
<1>3. ASSUME NEW e \in Event, Emit(g, e)
      PROVE  \E c \in Child : ChildMoves(g, c)
  <2>1. Append(child[g].events, e) \in Seq(Event)
    BY <1>2 DEF Child
  <2>2. [child[g] EXCEPT !.events = Append(@, e)] \in Child
    BY <1>2, <2>1 DEF Child
  <2> QED
    BY <1>3, <2>2 DEF Emit
<1>5. CASE BeginTurn(g)
  BY <1>1, <1>2, <1>5, BegunTyped DEF BeginTurn
<1>6. CASE \E full \in BOOLEAN : ReportUsage(g, full)
  BY <1>1, <1>3, <1>6, EventsAreEvents DEF ReportUsage
<1>7. CASE \E tool \in Tools \cup {Unnamed} : BeDenied(g, tool)
  BY <1>1, <1>3, <1>7, EventsAreEvents DEF BeDenied
<1>8. CASE EndTurn(g)
  BY <1>1, <1>2, <1>8, EndedTyped, EventsAreEvents DEF EndTurn
<1>9. CASE Die(g)
  BY <1>1, <1>2, <1>9, DeadTyped DEF Die
<1> QED
  BY <1>5, <1>6, <1>7, <1>8, <1>9 DEF ChildStep

LEMMA NotifyTypes ==
  ASSUME TypeOK, NEW id \in DOMAIN approvals, NEW decision \in {"approve", "deny"},
         NEW arrives \in BOOLEAN, AnswerAndNotify(id, decision, arrives)
  PROVE  TypeOK'
<1>1. approvals[id] \in Approval
  BY DEF TypeOK
<1>2. [approvals[id] EXCEPT !.decision = decision] \in Approval
  BY <1>1 DEF Approval
<1>3. approvals' \in Seq(Approval) /\ Len(approvals') = Len(approvals) /\ id \in 1..Len(approvals)
  BY <1>2 DEF AnswerAndNotify, TypeOK
<1> QED
  BY <1>3 DEF AnswerAndNotify, TypeOK

LEMMA TypeStep == TypeOK /\ [Next]_vars => TypeOK'
<1> SUFFICES ASSUME TypeOK, [Next]_vars PROVE TypeOK'
  OBVIOUS
<1>1. CASE UNCHANGED vars
  BY <1>1 DEF vars, TypeOK
<1>2. CASE Next
  BY <1>2, WakeTypes, AnswerTypes, CallbackTypes, ChildStepTypes, NotifyTypes DEF Next
<1> QED
  BY <1>1, <1>2

(* Every step leaves every part of the state what it is declared to be: in *)
(* particular the queue has nothing to send once a handler is done, the    *)
(* children stay within their bound and an answer on its way is of a row.  *)
THEOREM TypeCorrect == Spec => []TypeOK
BY TypeInit, TypeStep, PTL DEF Spec

-----------------------------------------------------------------------------
(* What makes up InFlight, and what a queue is about to send. *)
Lines(c) == Len(c.stdin)
Working(c) == Len(c.turn)
Ended(c) == Cardinality(Ends(c.events))
Sent(q) == Len(q.sent)

LEMMA InFlightIs ==
  ASSUME NEW c \in Child
  PROVE  /\ InFlight(c) = Lines(c) + Working(c) + Ended(c)
         /\ Lines(c) \in Nat /\ Working(c) \in Nat /\ Ended(c) \in Nat
         /\ InFlight(c) \in Nat
<1>1. c.stdin \in Seq(Prompts) /\ c.turn \in Seq(Prompts) /\ c.events \in Seq(Event)
  BY DEF Child
<1>2. Lines(c) \in Nat /\ Working(c) \in Nat /\ Ended(c) \in Nat
  BY <1>1, EndsAreFinite DEF Lines, Working, Ended
<1>3. InFlight(c) = Lines(c) + Working(c) + Ended(c)
  BY DEF InFlight, Ends, Lines, Working, Ended
<1> QED
  BY <1>2, <1>3

LEMMA WriteFlight ==
  ASSUME NEW c \in Child, NEW q \in Queue
  PROVE  /\ Write(c, q.sent).life = c.life
         /\ c.life = "up" => InFlight(Write(c, q.sent)) = InFlight(c) + Sent(q)
<1> DEFINE w == Write(c, q.sent)
<1>1. w.life = c.life
  BY DEF Write, Child
<1>2. ASSUME c.life = "up" PROVE InFlight(w) = InFlight(c) + Sent(q)
  <2>1. w.stdin = c.stdin \o q.sent /\ w.turn = c.turn /\ w.events = c.events
    BY <1>2 DEF Write, Child
  <2>2. q.sent \in Seq(Prompts) /\ Sent(q) \in Nat
    BY DEF Queue, Sent
  <2>3. Lines(w) = Lines(c) + Sent(q)
    BY <2>1, <2>2, ConcatProperties DEF Child, Lines, Sent
  <2>4. Working(w) = Working(c) /\ Ended(w) = Ended(c) /\ w \in Child
    BY <2>1, <2>2, WriteTypes DEF Working, Ended
  <2> HIDE DEF w
  <2> QED
    BY <2>2, <2>3, <2>4, InFlightIs
<1> QED
  BY <1>1, <1>2

LEMMA HeardFlight ==
  ASSUME TypeOK, NEW g \in Generations, child[g].events # <<>>
  PROVE  /\ Heard(g)[g].life = child[g].life
         /\ InFlight(Heard(g)[g]) = InFlight(child[g])
              - (IF Head(child[g].events).kind = "turnEnd" THEN 1 ELSE 0)
<1> DEFINE c == child[g]
           later == Heard(g)[g]
<1>1. c \in Child /\ c.events \in Seq(Event) /\ later \in Child /\ later = [c EXCEPT !.events = Tail(@)]
  BY HeardTypes DEF TypeOK, Child
<1>2. /\ later.life = c.life /\ later.stdin = c.stdin
      /\ later.turn = c.turn /\ later.events = Tail(c.events)
  BY <1>1 DEF Child
<1>3. Ended(later) = Ended(c) - (IF Head(c.events).kind = "turnEnd" THEN 1 ELSE 0)
  BY <1>1, <1>2, EndsTail DEF Ended
<1>4. Lines(later) = Lines(c) /\ Working(later) = Working(c)
  BY <1>2 DEF Lines, Working
<1> HIDE DEF later, c
<1>5. InFlight(later) = InFlight(c) - (IF Head(c.events).kind = "turnEnd" THEN 1 ELSE 0)
  <2>1. CASE Head(c.events).kind = "turnEnd"
    BY <1>1, <1>3, <1>4, <2>1, InFlightIs
  <2>2. CASE Head(c.events).kind # "turnEnd"
    BY <1>1, <1>3, <1>4, <2>2, InFlightIs
  <2> QED
    BY <2>1, <2>2
<1> QED
  BY <1>2, <1>5 DEF c, later

LEMMA OutIs ==
  /\ \A q : Out(q) \in {0, 1}
  /\ \A q \in Queue : Sent(q) \in Nat
  /\ \A q : q.sent = <<>> => Sent(q) = 0
BY DEF Out, Queue, Sent

LEMMA FlightIs ==
  OneTurnInFlight <=> (child[generation].life = "up" => InFlight(child[generation]) = Out(queue))
BY DEF OneTurnInFlight, Out

LEMMA QuietFlight ==
  ASSUME NEW c \in Child, c.stdin = <<>>, c.turn = <<>>, c.events = <<>>
  PROVE  InFlight(c) = 0
<1>1. Lines(c) = 0 /\ Working(c) = 0
  BY DEF Lines, Working
<1>2. Ends(c.events) = {}
  BY DEF Ends
<1>3. Ended(c) = 0
  BY <1>2, FS_EmptySet DEF Ended
<1> QED
  BY <1>1, <1>3, InFlightIs

(* What the queue sends joins what the live child has yet to finish. *)
LEMMA SettleFlight ==
  ASSUME NEW q \in Queue, NEW children \in [Generations -> Child], Settle(q, children),
         generation' \in Generations,
         children[generation'].life = "up" =>
           InFlight(children[generation']) + Sent(q) = Out(q)
  PROVE  OneTurnInFlight'
<1>1. /\ queue' = [q EXCEPT !.sent = <<>>]
      /\ child' = [children EXCEPT ![generation'] = Write(children[generation'], q.sent)]
  BY DEF Settle
<1>2. Out(queue') = Out(q)
  BY <1>1 DEF Out, Queue
<1>3. child'[generation'] = Write(children[generation'], q.sent)
      /\ children[generation'] \in Child
  BY <1>1
<1>4. child'[generation'].life = "up" => InFlight(child'[generation']) = Out(queue')
  BY <1>2, <1>3, WriteFlight
<1> QED
  BY <1>4 DEF OneTurnInFlight, Out

LEMMA OfferFlight ==
  ASSUME TypeOK, OneTurnInFlight, NEW p \in Prompts, Settle(Offer(queue, p), child),
         UNCHANGED generation
  PROVE  OneTurnInFlight'
<1> DEFINE q == Offer(queue, p)
<1>1. /\ queue \in Queue /\ generation \in Generations /\ child \in [Generations -> Child]
      /\ child[generation] \in Child /\ queue.sent = <<>>
  BY DEF TypeOK
<1>2. q \in Queue
  BY <1>1, OfferTypes
<1>3. Sent(q) + Out(queue) = Sent(queue) + Out(q)
  BY <1>1, OfferSends DEF Sent
<1> HIDE DEF q
<1>4. child[generation].life = "up" => InFlight(child[generation]) + Sent(q) = Out(q)
  BY <1>1, <1>2, <1>3, FlightIs, InFlightIs, OutIs
<1> QED
  BY <1>1, <1>2, <1>4, SettleFlight DEF q

LEMMA InitFlight == Init => OneTurnInFlight
<1> SUFFICES ASSUME Init PROVE OneTurnInFlight
  OBVIOUS
<1>1. /\ child[generation].stdin = <<>> /\ child[generation].turn = <<>>
      /\ child[generation].events = <<>> /\ child[generation] \in Child /\ Out(queue) = 0
  BY GenerationsAreNumbers, TypeInit DEF Init, NoChild, EmptyQueue, Out, TypeOK
<1> QED
  BY <1>1, FlightIs, QuietFlight

LEMMA AnswerFlight ==
  ASSUME TypeOK, OneTurnInFlight, NEW id \in answers, HearAnswer(id)
  PROVE  OneTurnInFlight'
<1>1. CASE approvals[id].decision = "deny"
  BY <1>1, OfferFlight, NamedPrompts DEF HearAnswer
<1>2. CASE approvals[id].decision # "deny"
  <2> DEFINE granted == {approvals[id].tool} \cap Tools
             old == child[generation]
             fresh == [NoChild EXCEPT !.life = "up",
                                      !.allowed = AllowlistWith(old.allowed, granted)]
             first == Offer(Drained(queue), "redispatch")
             q == OfferAll(first, queue.pending)
  <2>1. PICK kids \in [Generations -> Child] :
          Settle(q, kids) /\ kids[generation + 1] = fresh
    BY <1>2, ReplacedTypes DEF HearAnswer, ReplaceChild
  <2>2. generation' = generation + 1 /\ generation' \in Generations
    BY <1>2, ReplacedTypes DEF HearAnswer, ReplaceChild
  <2>3. queue \in Queue /\ Drained(queue) \in Queue /\ queue.pending \in Seq(Prompts)
        /\ Drained(queue).sent = <<>> /\ Out(Drained(queue)) = 0
    BY QueueTypes DEF TypeOK, Queue, Drained, Out
  <2>4. first \in Queue /\ Sent(first) = Out(first)
    <3>1. first \in Queue
      BY <2>3, NamedPrompts, OfferTypes
    <3>2. Sent(first) + Out(Drained(queue)) = Sent(Drained(queue)) + Out(first)
      BY <2>3, NamedPrompts, OfferSends DEF Sent
    <3> HIDE DEF first
    <3> QED
      BY <2>3, <3>1, <3>2, OutIs
  <2>5. q \in Queue /\ Sent(q) = Out(q)
    <3> HIDE DEF first
    <3>1. q \in Queue /\ Sent(q) + Out(first) = Sent(first) + Out(q)
      BY <2>3, <2>4, OfferAllSends DEF Sent
    <3> HIDE DEF q
    <3> QED
      BY <2>4, <3>1, OutIs
  <2>6. InFlight(fresh) = 0
    <3>1. fresh.stdin = <<>> /\ fresh.turn = <<>> /\ fresh.events = <<>>
      BY DEF NoChild
    <3>2. fresh \in Child
      BY <2>1, <2>2
    <3> HIDE DEF fresh
    <3> QED
      BY <3>1, <3>2, QuietFlight
  <2>7. kids[generation'].life = "up" => InFlight(kids[generation']) + Sent(q) = Out(q)
    <3> HIDE DEF q, fresh
    <3> QED
      BY <2>1, <2>2, <2>5, <2>6, OutIs
  <2> HIDE DEF q
  <2> QED
    BY <2>1, <2>2, <2>5, <2>7, SettleFlight
<1> QED
  BY <1>1, <1>2

LEMMA CallbackFlight ==
  ASSUME TypeOK, OneTurnInFlight, NEW g \in Generations, Callback(g)
  PROVE  OneTurnInFlight'
<1>1. /\ queue \in Queue /\ queue.sent = <<>> /\ Sent(queue) = 0
      /\ generation \in Generations /\ child \in [Generations -> Child]
      /\ child[generation] \in Child /\ InFlight(child[generation]) \in Nat
  BY InFlightIs, OutIs DEF TypeOK
<1>2. CASE HearStale(g)
  <2>1. child'[generation] = child[generation] /\ UNCHANGED <<generation, queue>>
    BY <1>1, <1>2, HeardTypes DEF HearStale, IfCurrent
  <2> QED
    BY <2>1 DEF OneTurnInFlight
<1>3. CASE OnTurnEnd(g)
  <2>1. /\ g = generation /\ Settle(TurnEnded(queue), Heard(g)) /\ UNCHANGED generation
        /\ child[g].events # <<>> /\ Head(child[g].events).kind = "turnEnd"
    BY <1>3 DEF OnTurnEnd, IfCurrent
  <2>2. TurnEnded(queue) \in Queue /\ Heard(g) \in [Generations -> Child]
    BY <1>1, <2>1, QueueTypes, HeardTypes
  <2>3. Sent(TurnEnded(queue)) = Out(TurnEnded(queue))
    <3>1. CASE queue.pending = <<>>
      BY <1>1, <3>1, OutIs DEF TurnEnded, Out, Queue
    <3>2. CASE queue.pending # <<>>
      <4>1. Len(Append(queue.sent, Head(queue.pending))) = 1
        BY <1>1, <3>2 DEF Queue
      <4>2. /\ TurnEnded(queue).sent = Append(queue.sent, Head(queue.pending))
            /\ TurnEnded(queue).state = "inTurn"
        BY <1>1, <3>2 DEF TurnEnded, Queue
      <4> QED
        BY <4>1, <4>2 DEF Out, Sent
    <3> QED
      BY <3>1, <3>2
  <2>4. /\ Heard(g)[g].life = child[g].life /\ Heard(g)[g] \in Child
        /\ InFlight(Heard(g)[g]) = InFlight(child[g]) - 1
        /\ InFlight(Heard(g)[g]) \in Nat
    BY <2>1, <2>2, HeardFlight, InFlightIs
  <2>5. Heard(g)[g].life = "up" => InFlight(Heard(g)[g]) = 0
    BY <1>1, <2>1, <2>4, FlightIs, OutIs
  <2> QED
    BY <1>1, <2>1, <2>2, <2>3, <2>5, OutIs, SettleFlight
<1>4. CASE OnUsage(g)
  <2>1. /\ g = generation /\ UNCHANGED generation
        /\ child[g].events # <<>> /\ Head(child[g].events).kind # "turnEnd"
        /\ Settle(OfferAll(queue, held), Heard(g)) \/ Settle(queue, Heard(g))
    BY <1>4 DEF OnUsage, IfCurrent
  <2>2. Heard(g) \in [Generations -> Child]
    BY <1>1, <2>1, HeardTypes
  <2>3. Heard(g)[g].life = child[g].life /\ InFlight(Heard(g)[g]) = InFlight(child[g])
    BY <1>1, <2>1, HeardFlight
  <2> DEFINE all == OfferAll(queue, held)
  <2>4. all \in Queue /\ Sent(all) + Out(queue) = Sent(queue) + Out(all)
    <3>1. held \in Seq(Prompts)
      BY DEF TypeOK
    <3> QED
      BY <1>1, <3>1, OfferAllSends DEF Sent
  <2> HIDE DEF all
  <2>5. CASE Settle(all, Heard(g))
    <3>1. Heard(g)[g].life = "up" => InFlight(Heard(g)[g]) + Sent(all) = Out(all)
      BY <1>1, <2>1, <2>3, <2>4, FlightIs, OutIs
    <3> QED
      BY <1>1, <2>1, <2>2, <2>4, <2>5, <3>1, SettleFlight
  <2>6. CASE Settle(queue, Heard(g))
    <3>1. Heard(g)[g].life = "up" => InFlight(Heard(g)[g]) + Sent(queue) = Out(queue)
      BY <1>1, <2>1, <2>3, FlightIs, OutIs
    <3> QED
      BY <1>1, <2>1, <2>2, <2>6, <3>1, SettleFlight
  <2> QED
    BY <2>1, <2>5, <2>6 DEF all
<1>5. CASE OnDenial(g)
  <2>1. /\ g = generation /\ child' = Heard(g) /\ UNCHANGED <<generation, queue>>
        /\ child[g].events # <<>> /\ Head(child[g].events).kind # "turnEnd"
    BY <1>5 DEF OnDenial, IfCurrent
  <2>2. Heard(g)[g].life = child[g].life /\ InFlight(Heard(g)[g]) = InFlight(child[g])
    BY <1>1, <2>1, HeardFlight
  <2> QED
    BY <2>1, <2>2 DEF OneTurnInFlight
<1>6. CASE OnExit(g)
  <2>1. child'[generation].life # "up" \/ (g # generation /\ UNCHANGED <<queue, child[generation]>>)
    BY <1>1, <1>6 DEF OnExit, IfCurrent, TypeOK, Child
  <2> QED
    BY <1>6, <2>1 DEF OnExit, OneTurnInFlight
<1> QED
  BY <1>2, <1>3, <1>4, <1>5, <1>6 DEF Callback

LEMMA ChildFlight ==
  ASSUME TypeOK, OneTurnInFlight, NEW g \in Generations, ChildStep(g)
  PROVE  OneTurnInFlight'
<1> DEFINE c == child[g]
<1>1. /\ UNCHANGED <<queue, generation>> /\ \A h \in Generations \ {g} : child'[h] = child[h]
      /\ generation \in Generations /\ c \in Child /\ child'[g] \in Child
  BY ChildStepTypes DEF ChildMoves, TypeOK
<1>2. CASE g # generation
  BY <1>1, <1>2 DEF OneTurnInFlight
<1>3. ASSUME g = generation,
             child'[g].life = "up" => c.life = "up" /\ InFlight(child'[g]) = InFlight(c)
      PROVE  OneTurnInFlight'
  BY <1>1, <1>3 DEF OneTurnInFlight
<1>4. c.stdin \in Seq(Prompts) /\ c.turn \in Seq(Prompts) /\ c.events \in Seq(Event)
  BY <1>1 DEF Child
<1>5. CASE g = generation /\ BeginTurn(g)
  <2>1. child'[g] = [c EXCEPT !.turn = c.stdin, !.stdin = <<>>] /\ c.turn = <<>>
    BY <1>5 DEF BeginTurn, ChildMoves, TypeOK
  <2>2. /\ child'[g].life = c.life /\ child'[g].stdin = <<>> /\ child'[g].turn = c.stdin
        /\ child'[g].events = c.events
    BY <1>1, <2>1 DEF Child
  <2>3. /\ Lines(child'[g]) = Working(c) /\ Working(child'[g]) = Lines(c)
        /\ Ended(child'[g]) = Ended(c)
    BY <2>1, <2>2 DEF Lines, Working, Ended
  <2>4. InFlight(child'[g]) = InFlight(c)
    <3> HIDE DEF c
    <3> QED
      BY <1>1, <2>3, InFlightIs
  <2> QED
    BY <1>3, <1>5, <2>2, <2>4
<1>6. ASSUME g = generation, NEW e \in Event, e.kind # "turnEnd", Emit(g, e)
      PROVE  OneTurnInFlight'
  <2>1. child'[g] = [c EXCEPT !.events = Append(@, e)]
    BY <1>6 DEF Emit, ChildMoves, TypeOK
  <2>2. /\ child'[g].life = c.life /\ child'[g].stdin = c.stdin /\ child'[g].turn = c.turn
        /\ child'[g].events = Append(c.events, e)
    BY <1>1, <2>1 DEF Child
  <2>3. Ended(child'[g]) = Ended(c)
    BY <1>4, <1>6, <2>2, EndsAppend, EndsAreFinite DEF Ended
  <2>4. InFlight(child'[g]) = InFlight(c)
    <3>1. Lines(child'[g]) = Lines(c) /\ Working(child'[g]) = Working(c)
      BY <2>2 DEF Lines, Working
    <3> HIDE DEF c
    <3> QED
      BY <1>1, <2>3, <3>1, InFlightIs
  <2> QED
    BY <1>3, <1>6, <2>2, <2>4
<1>7. CASE g = generation /\ EndTurn(g)
  <2>1. child'[g] = [c EXCEPT !.turn = <<>>, !.events = Append(@, TurnEndEvent)] /\ c.turn # <<>>
    BY <1>7 DEF EndTurn, ChildMoves, TypeOK
  <2>2. /\ child'[g].life = c.life /\ child'[g].stdin = c.stdin /\ child'[g].turn = <<>>
        /\ child'[g].events = Append(c.events, TurnEndEvent)
    BY <1>1, <2>1 DEF Child
  <2>3. TurnEndEvent \in Event /\ TurnEndEvent.kind = "turnEnd"
    BY DEF TurnEndEvent, Event
  <2>4. Ended(child'[g]) = Ended(c) + 1
    BY <1>4, <2>2, <2>3, EndsAppend DEF Ended
  <2>5. Working(c) >= 1 /\ Working(child'[g]) = 0 /\ Lines(child'[g]) = Lines(c)
    BY <1>4, <2>1, <2>2, EmptySeq DEF Working, Lines
  <2>6. c.life = "up" => InFlight(c) \in {0, 1}
    BY <1>7, FlightIs, OutIs
  <2>7. c.life = "up" => InFlight(child'[g]) = InFlight(c)
    <3> HIDE DEF c
    <3> QED
      BY <1>1, <2>4, <2>5, <2>6, InFlightIs
  <2> QED
    BY <1>3, <1>7, <2>2, <2>7
<1>8. CASE g = generation /\ Die(g)
  <2>1. child'[g].life = "dead"
    BY <1>1, <1>8 DEF Die, ChildMoves, TypeOK, Child
  <2> QED
    BY <1>3, <1>8, <2>1
<1>9. /\ \A full \in BOOLEAN : UsageEvent(full) \in Event /\ UsageEvent(full).kind = "usage"
      /\ \A tool \in Tools \cup {Unnamed} :
           DenialEvent(tool) \in Event /\ DenialEvent(tool).kind = "denial"
  BY DEF UsageEvent, DenialEvent, Event
<1> QED
  BY <1>2, <1>5, <1>6, <1>7, <1>8, <1>9 DEF ChildStep, ReportUsage, BeDenied

LEMMA FlightStep == TypeOK /\ OneTurnInFlight /\ [Next]_vars => OneTurnInFlight'
<1> SUFFICES ASSUME TypeOK, OneTurnInFlight, [Next]_vars PROVE OneTurnInFlight'
  OBVIOUS
<1>1. CASE UNCHANGED vars
  BY <1>1 DEF vars, OneTurnInFlight
<1>2. ASSUME NEW prompt \in Prompts, Wake(prompt) PROVE OneTurnInFlight'
  BY <1>2, OfferFlight DEF Wake, WakeHeld, WakeOffered, OneTurnInFlight
<1>3. ASSUME NEW id \in DOMAIN approvals, NEW decision \in {"approve", "deny"},
             NEW arrives \in BOOLEAN, AnswerAndNotify(id, decision, arrives)
      PROVE  OneTurnInFlight'
  BY <1>3 DEF AnswerAndNotify, OneTurnInFlight
<1> QED
  BY <1>1, <1>2, <1>3, AnswerFlight, CallbackFlight, ChildFlight DEF Next

(* Whatever is offered, held, released, replaced and ended, in whichever   *)
(* order: a live child never has two prompts in flight, and the queue      *)
(* never waits for the end of a turn no child is in (offer, turnEnded,     *)
(* wireChild, replaceChild).                                               *)
THEOREM OneTurn == Spec => []OneTurnInFlight
BY InitFlight, FlightStep, TypeCorrect, PTL DEF Spec

-----------------------------------------------------------------------------
(* What was written to children, is about to be and waits, in this order.  *)
Line(q, out) == (out \o q.sent) \o q.pending

(* The messages of a line were seen and come in the order of acceptance. *)
Ascends(line, seen, acc) ==
  \A i \in DOMAIN line : line[i] \in Messages =>
    /\ line[i] \in seen
    /\ \A j \in DOMAIN line : j < i /\ line[j] \in Messages =>
         PositionIn(acc, line[j]) < PositionIn(acc, line[i])

(* All that was accepted before m was seen. *)
Below(m, seen, acc) == \A i \in 1..PositionIn(acc, m) - 1 : acc[i] \in seen

(* The queue has seen the messages up to some of the accepted ones. *)
Closed(seen, acc) ==
  \A m \in seen : m \in SetOf(acc) /\ Below(m, seen, acc)

InOrder(q, out, acc) ==
  /\ q.state = "idle" => q.pending = <<>>
  /\ Closed(q.seen, acc)
  /\ Ascends(Line(q, out), q.seen, acc)

(* What was seen is in the line or was given up on. *)
Kept(q, out, gone) == q.seen \subseteq SetOf(Line(q, out)) \cup gone

Distinct == \A i, j \in DOMAIN accepted : accepted[i] = accepted[j] => i = j

(* What is held comes after what was seen, in order of acceptance. *)
HeldInOrder ==
  \A j \in DOMAIN held : held[j] \in Messages =>
    /\ held[j] \in SetOf(accepted)
    /\ Below(held[j], queue.seen \cup {held[i] : i \in 1..j - 1}, accepted)

AllTaken == SetOf(accepted) \subseteq queue.seen \cup SetOf(held)

(* The order in which children get messages is kept by the queue and the   *)
(* gate together: nothing is held while the gate is open, so what is held  *)
(* is behind all that the queue has seen, and releasing it appends it.     *)
OrderInv ==
  /\ Distinct
  /\ InOrder(queue, dispatched, accepted)
  /\ Kept(queue, dispatched, unsent \cup carried)
  /\ HeldInOrder
  /\ Allows(gate) => held = <<>>
  /\ AllTaken

-----------------------------------------------------------------------------
LEMMA PositionThere ==
  ASSUME NEW acc, NEW m \in SetOf(acc)
  PROVE  PositionIn(acc, m) \in DOMAIN acc /\ acc[PositionIn(acc, m)] = m
BY DEF SetOf, PositionIn

LEMMA PositionOfOne ==
  ASSUME NEW acc, NEW i \in DOMAIN acc, \A j \in DOMAIN acc : acc[j] = acc[i] => j = i
  PROVE  PositionIn(acc, acc[i]) = i
BY DEF PositionIn

LEMMA OfferSeen ==
  ASSUME NEW q \in Queue, NEW p \in Prompts
  PROVE  Offer(q, p).seen = q.seen \cup MessageIds(p)
BY DEF Offer, Accept, IsDuplicate, Queue

LEMMA LineTypes ==
  ASSUME NEW q \in Queue, NEW out \in Seq(Prompts)
  PROVE  Line(q, out) \in Seq(Prompts)
<1>1. q.sent \in Seq(Prompts) /\ q.pending \in Seq(Prompts)
  BY DEF Queue
<1> QED
  BY <1>1, ConcatProperties DEF Line

LEMMA OfferLine ==
  ASSUME NEW q \in Queue, NEW p \in Prompts, NEW out \in Seq(Prompts),
         q.state = "idle" => q.pending = <<>>
  PROVE  /\ Offer(q, p).state = "idle" => Offer(q, p).pending = <<>>
         /\ Line(Offer(q, p), out) =
              IF IsDuplicate(q, p) THEN Line(q, out) ELSE Append(Line(q, out), p)
<1>1. q.sent \in Seq(Prompts) /\ q.pending \in Seq(Prompts)
  BY DEF Queue
<1>2. CASE IsDuplicate(q, p)
  BY <1>2 DEF Offer
<1>3. CASE ~IsDuplicate(q, p) /\ q.state = "idle"
  <2>1. /\ Offer(q, p).state = "inTurn" /\ Offer(q, p).pending = <<>>
        /\ Offer(q, p).sent = Append(q.sent, p)
    BY <1>3 DEF Offer, Accept, Queue
  <2>2. out \o Append(q.sent, p) = Append(out \o q.sent, p)
    <3>1. Append(q.sent, p) = q.sent \o <<p>> /\ <<p>> \in Seq(Prompts)
      BY <1>1, AppendIsConcat
    <3>2. out \o q.sent \in Seq(Prompts)
      BY <1>1, ConcatProperties
    <3> QED
      BY <1>1, <3>1, <3>2, ConcatAssociative, AppendIsConcat
  <2>3. out \o q.sent \in Seq(Prompts) /\ out \o Append(q.sent, p) \in Seq(Prompts)
    BY <1>1, <2>2, ConcatProperties, AppendProperties
  <2> QED
    BY <1>3, <2>1, <2>2, <2>3, ConcatEmptySeq DEF Line
<1>4. CASE ~IsDuplicate(q, p) /\ q.state # "idle"
  <2>1. /\ Offer(q, p).state = q.state /\ Offer(q, p).sent = q.sent
        /\ Offer(q, p).pending = Append(q.pending, p)
    BY <1>4 DEF Offer, Accept, Queue
  <2>2. out \o q.sent \in Seq(Prompts) /\ <<p>> \in Seq(Prompts)
    BY <1>1, ConcatProperties
  <2>3. (out \o q.sent) \o Append(q.pending, p) = Append((out \o q.sent) \o q.pending, p)
    <3>1. Append(q.pending, p) = q.pending \o <<p>>
      BY <1>1, AppendIsConcat
    <3> DEFINE s == out \o q.sent
    <3>2. s \in Seq(Prompts) /\ s \o q.pending \in Seq(Prompts)
      BY <1>1, <2>2, ConcatProperties
    <3> HIDE DEF s
    <3>3. s \o (q.pending \o <<p>>) = (s \o q.pending) \o <<p>>
      <4> DEFINE t == q.pending
                 u == <<p>>
      <4>1. s \in Seq(Prompts) /\ t \in Seq(Prompts) /\ u \in Seq(Prompts)
        BY <1>1, <2>2, <3>2
      <4> HIDE DEF t, u
      <4>2. (s \o t) \o u = s \o (t \o u)
        BY <4>1, ConcatAssociative
      <4> QED
        BY <4>2 DEF t, u
    <3>4. (s \o q.pending) \o <<p>> = Append(s \o q.pending, p)
      BY <3>2, AppendIsConcat
    <3> QED
      BY <3>1, <3>3, <3>4 DEF s
  <2> QED
    BY <1>4, <2>1, <2>3 DEF Line
<1> QED
  BY <1>2, <1>3, <1>4

(* A message that is behind all that was seen may be put at the end. *)
LEMMA AppendAscends ==
  ASSUME NEW acc \in Seq(Messages), NEW line \in Seq(Prompts), NEW seen, NEW p \in Prompts,
         Closed(seen, acc), Ascends(line, seen, acc),
         p \in Messages => p \in SetOf(acc) \ seen /\ Below(p, seen, acc)
  PROVE  /\ Closed(seen \cup MessageIds(p), acc)
         /\ Ascends(Append(line, p), seen \cup MessageIds(p), acc)
<1> DEFINE more == seen \cup MessageIds(p)
           longer == Append(line, p)
<1>1. Closed(more, acc)
  BY DEF Closed, Below, MessageIds
<1>2. /\ Len(line) \in Nat /\ DOMAIN longer = 1..Len(line) + 1 /\ DOMAIN line = 1..Len(line)
      /\ longer[Len(line) + 1] = p /\ \A i \in DOMAIN line : longer[i] = line[i]
  OBVIOUS
<1>3. ASSUME p \in Messages, NEW m \in seen
      PROVE  PositionIn(acc, m) < PositionIn(acc, p)
  <2>1. /\ PositionIn(acc, m) \in DOMAIN acc /\ acc[PositionIn(acc, m)] = m
        /\ PositionIn(acc, p) \in DOMAIN acc /\ acc[PositionIn(acc, p)] = p
    BY <1>3, PositionThere DEF Closed
  <2>2. p \notin seen /\ Below(m, seen, acc)
    BY <1>3 DEF Closed
  <2>3. PositionIn(acc, m) \in Nat /\ PositionIn(acc, p) \in Nat /\ 1 <= PositionIn(acc, p)
    BY <2>1
  <2>4. ASSUME PositionIn(acc, p) < PositionIn(acc, m) PROVE FALSE
    <3>1. PositionIn(acc, p) \in 1..PositionIn(acc, m) - 1
      BY <2>3, <2>4
    <3> QED
      BY <2>1, <2>2, <3>1 DEF Below
  <2> QED
    BY <2>1, <2>2, <2>3, <2>4
<1>4. Ascends(longer, more, acc)
  <2> SUFFICES ASSUME NEW i \in DOMAIN longer, longer[i] \in Messages
               PROVE  /\ longer[i] \in more
                      /\ \A j \in DOMAIN longer : j < i /\ longer[j] \in Messages =>
                           PositionIn(acc, longer[j]) < PositionIn(acc, longer[i])
    BY DEF Ascends
  <2>1. CASE i \in DOMAIN line
    <3>1. \A j \in DOMAIN longer : j < i => j \in DOMAIN line
      BY <1>2, <2>1
    <3> QED
      BY <1>2, <2>1, <3>1 DEF Ascends
  <2>2. CASE i = Len(line) + 1
    <3>1. longer[i] = p /\ p \in more
      BY <1>2, <2>2 DEF MessageIds
    <3>2. ASSUME NEW j \in DOMAIN longer, j < i, longer[j] \in Messages
          PROVE  longer[j] \in seen
      <4>1. j \in DOMAIN line
        BY <1>2, <2>2, <3>2
      <4> QED
        BY <1>2, <3>2, <4>1 DEF Ascends
    <3> QED
      BY <1>3, <3>1, <3>2
  <2> QED
    BY <1>2, <2>1, <2>2
<1> QED
  BY <1>1, <1>4

(* So one offer keeps the order, and by induction any number of them. *)
LEMMA OfferInOrder ==
  ASSUME NEW acc \in Seq(Messages), NEW q \in Queue, NEW p \in Prompts, NEW out \in Seq(Prompts),
         NEW gone, InOrder(q, out, acc), Kept(q, out, gone),
         p \in Messages => p \in SetOf(acc) /\ Below(p, q.seen, acc)
  PROVE  InOrder(Offer(q, p), out, acc) /\ Kept(Offer(q, p), out, gone)
<1>1. /\ Offer(q, p).seen = q.seen \cup MessageIds(p)
      /\ Offer(q, p).state = "idle" => Offer(q, p).pending = <<>>
      /\ Line(Offer(q, p), out) =
           IF IsDuplicate(q, p) THEN Line(q, out) ELSE Append(Line(q, out), p)
      /\ Line(q, out) \in Seq(Prompts)
  BY OfferSeen, OfferLine, LineTypes DEF InOrder
<1>2. CASE IsDuplicate(q, p)
  BY <1>2 DEF Offer
<1>3. CASE ~IsDuplicate(q, p)
  <2>1. p \in Messages => p \notin q.seen
    BY <1>3 DEF IsDuplicate, MessageIds
  <2>2. InOrder(Offer(q, p), out, acc)
    BY <1>1, <1>3, <2>1, AppendAscends DEF InOrder
  <2>3. SetOf(Append(Line(q, out), p)) = SetOf(Line(q, out)) \cup {p}
    BY <1>1, SetOfAppend
  <2> QED
    BY <1>1, <1>3, <2>2, <2>3 DEF Kept, MessageIds
<1> QED
  BY <1>2, <1>3

LEMMA OfferAllInOrder ==
  ASSUME NEW acc \in Seq(Messages), NEW start \in Queue, NEW prompts \in Seq(Prompts),
         NEW out \in Seq(Prompts), NEW gone, InOrder(start, out, acc), Kept(start, out, gone),
         \A j \in DOMAIN prompts : prompts[j] \in Messages =>
           /\ prompts[j] \in SetOf(acc)
           /\ Below(prompts[j], start.seen \cup {prompts[i] : i \in 1..j - 1}, acc)
  PROVE  LET all == OfferAll(start, prompts)
         IN  /\ all \in Queue
             /\ InOrder(all, out, acc) /\ Kept(all, out, gone)
             /\ start.seen \cup (SetOf(prompts) \cap Messages) \subseteq all.seen
<1> DEFINE Had(n) == start.seen \cup ({prompts[i] : i \in 1..n} \cap Messages)
           After(n) == {q \in Queue : /\ InOrder(q, out, acc) /\ Kept(q, out, gone)
                                      /\ Had(n) \subseteq q.seen}
           I == [n \in 0..Len(prompts) |-> After(n)]
<1>1. Len(prompts) \in Nat /\ DOMAIN prompts = 1..Len(prompts)
  OBVIOUS
<1>2. start \in I[0]
  BY <1>1
<1>3. ASSUME NEW n \in 0..Len(prompts) - 1, NEW q \in After(n)
      PROVE  Offer(q, prompts[n + 1]) \in After(n + 1)
  <2> DEFINE p == prompts[n + 1]
  <2>1. n + 1 \in DOMAIN prompts /\ p \in Prompts /\ n \in Nat
    BY <1>1
  <2>2. p \in Messages => p \in SetOf(acc) /\ Below(p, q.seen, acc)
    <3>1. SUFFICES ASSUME p \in Messages PROVE p \in SetOf(acc) /\ Below(p, q.seen, acc)
      OBVIOUS
    <3>2. p \in SetOf(acc) /\ Below(p, start.seen \cup {prompts[i] : i \in 1..n}, acc)
      BY <2>1, <3>1
    <3>3. \A i \in 1..PositionIn(acc, p) - 1 : acc[i] \in Messages
      <4>1. PositionIn(acc, p) \in DOMAIN acc
        BY <3>2, PositionThere
      <4> QED
        BY <4>1
    <3>4. Had(n) \subseteq q.seen
      BY <1>3
    <3> QED
      BY <3>2, <3>3, <3>4 DEF Below
  <2>3. /\ Offer(q, p) \in Queue
        /\ InOrder(Offer(q, p), out, acc) /\ Kept(Offer(q, p), out, gone)
    BY <2>1, <2>2, OfferTypes, OfferInOrder
  <2>4. Offer(q, p).seen = q.seen \cup MessageIds(p)
    BY <2>1, OfferSeen
  <2>5. Had(n + 1) \subseteq Had(n) \cup MessageIds(p)
    BY <2>1 DEF MessageIds
  <2> QED
    BY <2>3, <2>4, <2>5
<1>4. \A n \in 0..Len(prompts) - 1 : \A q \in I[n] : Offer(q, prompts[n + 1]) \in I[n + 1]
  <2> HIDE DEF After
  <2> QED
    BY <1>1, <1>3
<1>5. OfferAll(start, prompts) \in I[Len(prompts)]
  <2> HIDE DEF I
  <2> QED
    BY <1>1, <1>2, <1>4, OfferAllInduction
<1>6. SetOf(prompts) = {prompts[i] : i \in 1..Len(prompts)}
  BY <1>1 DEF SetOf
<1> QED
  BY <1>1, <1>5, <1>6

(* What is sent leaves the queue for the child, and the line is the same. *)
LEMMA SettleLine ==
  ASSUME NEW q \in Queue, NEW children, Settle(q, children), dispatched \in Seq(Prompts), NEW acc,
         NEW gone
  PROVE  /\ queue'.seen = q.seen
         /\ InOrder(q, dispatched, acc) => InOrder(queue', dispatched', acc)
         /\ Kept(q, dispatched, gone) => Kept(queue', dispatched', gone)
<1> DEFINE none == <<>>
<1>1. queue' = [q EXCEPT !.sent = none] /\ dispatched' = dispatched \o q.sent
  BY DEF Settle
<1>2. q.sent \in Seq(Prompts) /\ dispatched' \in Seq(Prompts)
  BY <1>1, ConcatProperties DEF Queue
<1>3. dispatched' \o none = dispatched'
  BY <1>2, ConcatEmptySeq
<1> HIDE DEF none
<1>4. /\ queue'.seen = q.seen /\ queue'.state = q.state /\ queue'.pending = q.pending
      /\ queue'.sent = none
  BY <1>1 DEF Queue
<1>5. Line(queue', dispatched') = Line(q, dispatched)
  BY <1>1, <1>3, <1>4 DEF Line
<1> QED
  BY <1>4, <1>5 DEF InOrder, Kept

(* The oldest waiting prompt goes out next. *)
LEMMA TurnEndedLine ==
  ASSUME NEW q \in Queue, NEW out \in Seq(Prompts), q.sent = <<>>, NEW acc, NEW gone,
         InOrder(q, out, acc), Kept(q, out, gone)
  PROVE  /\ TurnEnded(q).seen = q.seen
         /\ InOrder(TurnEnded(q), out, acc) /\ Kept(TurnEnded(q), out, gone)
<1>1. CASE q.pending = <<>>
  <2>1. /\ TurnEnded(q).seen = q.seen /\ TurnEnded(q).sent = q.sent
        /\ TurnEnded(q).pending = q.pending
    BY <1>1 DEF TurnEnded, Queue
  <2> QED
    BY <1>1, <2>1 DEF InOrder, Kept, Line
<1>2. CASE q.pending # <<>>
  <2> DEFINE first == Head(q.pending)
             rest == Tail(q.pending)
             one == <<first>>
  <2>1. q.pending \in Seq(Prompts) /\ first \in Prompts /\ rest \in Seq(Prompts)
        /\ q.pending = one \o rest
    BY <1>2, HeadTailProperties DEF Queue
  <2>2. one \in Seq(Prompts) /\ Append(q.sent, first) = one
    BY <2>1
  <2>3. /\ TurnEnded(q).seen = q.seen /\ TurnEnded(q).state = "inTurn"
        /\ TurnEnded(q).sent = one /\ TurnEnded(q).pending = rest
    BY <1>2, <2>2 DEF TurnEnded, Queue
  <2>4. out \o q.sent = out
    BY ConcatEmptySeq
  <2>5. (out \o one) \o rest = out \o q.pending
    <3> HIDE DEF one, rest
    <3> QED
      BY <2>1, <2>2, ConcatAssociative
  <2>6. Line(TurnEnded(q), out) = Line(q, out)
    BY <2>3, <2>4, <2>5 DEF Line
  <2> QED
    BY <2>3, <2>6 DEF InOrder, Kept
<1> QED
  BY <1>1, <1>2

(* A drained queue keeps the line up to what was waiting. *)
LEMMA DrainedLine ==
  ASSUME NEW q \in Queue, NEW out \in Seq(Prompts), q.sent = <<>>, NEW acc, NEW gone,
         InOrder(q, out, acc), Kept(q, out, gone)
  PROVE  /\ Drained(q) \in Queue /\ Drained(q).seen = q.seen
         /\ InOrder(Drained(q), out, acc)
         /\ Kept(Drained(q), out, gone \cup (SetOf(q.pending) \cap Messages))
         /\ SetOf(q.pending) \cap Messages \subseteq q.seen
<1>1. /\ Drained(q).seen = q.seen /\ Drained(q).state = "idle"
      /\ Drained(q).sent = <<>> /\ Drained(q).pending = <<>>
  BY DEF Drained, Queue
<1>2. out \o <<>> = out
  BY ConcatEmptySeq
<1>3. Line(q, out) = out \o q.pending /\ Line(Drained(q), out) = out
  BY <1>1, <1>2 DEF Line
<1>4. q.pending \in Seq(Prompts) /\ q.seen \subseteq Messages
  BY DEF Queue
<1>5. SetOf(Line(q, out)) = SetOf(out) \cup SetOf(q.pending)
  BY <1>3, <1>4, SetOfConcat
<1>6. \A i \in DOMAIN out : i \in DOMAIN Line(q, out) /\ Line(q, out)[i] = out[i]
  BY <1>3, <1>4, ConcatProperties, LenProperties
<1>7. InOrder(Drained(q), out, acc)
  <2>1. Ascends(out, q.seen, acc)
    BY <1>6 DEF InOrder, Ascends
  <2> QED
    BY <1>1, <1>3, <2>1 DEF InOrder
<1>8. Kept(Drained(q), out, gone \cup (SetOf(q.pending) \cap Messages))
  BY <1>1, <1>3, <1>4, <1>5 DEF Kept
<1>9. SetOf(Line(q, out)) \cap Messages \subseteq q.seen
  BY DEF InOrder, Ascends, SetOf
<1> QED
  BY <1>1, <1>5, <1>7, <1>8, <1>9, QueueTypes

-----------------------------------------------------------------------------
(* A message that comes is behind all that came before it. *)
LEMMA AcceptedGrows ==
  ASSUME accepted \in Seq(Messages), Distinct, NEW p \in Prompts, NoteAccepted(p)
  PROVE  /\ Distinct' /\ accepted' \in Seq(Messages)
         /\ SetOf(accepted') = SetOf(accepted) \cup MessageIds(p)
         /\ \A i \in DOMAIN accepted : i \in DOMAIN accepted' /\ accepted'[i] = accepted[i]
         /\ \A m \in SetOf(accepted) : PositionIn(accepted', m) = PositionIn(accepted, m)
         /\ p \in Messages =>
              \A i \in 1..PositionIn(accepted', p) - 1 : accepted'[i] \in SetOf(accepted)
<1>1. CASE p \notin Messages \ SetOf(accepted)
  <2>1. accepted' = accepted /\ SetOf(accepted) \cup MessageIds(p) = SetOf(accepted)
    BY <1>1 DEF NoteAccepted, MessageIds
  <2>2. p \in Messages =>
          \A i \in 1..PositionIn(accepted, p) - 1 : accepted[i] \in SetOf(accepted)
    <3>1. p \in Messages => PositionIn(accepted, p) \in DOMAIN accepted
      BY <1>1, PositionThere
    <3> QED
      BY <3>1 DEF SetOf
  <2> QED
    BY <2>1, <2>2 DEF Distinct
<1>2. CASE p \in Messages \ SetOf(accepted)
  <2>1. /\ accepted' = Append(accepted, p) /\ accepted' \in Seq(Messages)
        /\ Len(accepted) \in Nat /\ DOMAIN accepted = 1..Len(accepted)
        /\ DOMAIN accepted' = 1..Len(accepted) + 1
        /\ accepted'[Len(accepted) + 1] = p
        /\ \A i \in DOMAIN accepted : accepted'[i] = accepted[i]
    BY <1>2 DEF NoteAccepted
  <2>2. \A i \in DOMAIN accepted' : i \in DOMAIN accepted \/ i = Len(accepted) + 1
    BY <2>1
  <2>3. \A i \in DOMAIN accepted : accepted[i] # p
    BY <1>2 DEF SetOf
  <2>4. Distinct'
    BY <2>1, <2>2, <2>3 DEF Distinct
  <2>5. SetOf(accepted') = SetOf(accepted) \cup MessageIds(p)
    BY <1>2, <2>1, SetOfAppend DEF MessageIds
  <2>6. ASSUME NEW m \in SetOf(accepted)
        PROVE  PositionIn(accepted', m) = PositionIn(accepted, m)
    <3> DEFINE i == PositionIn(accepted, m)
    <3>1. i \in DOMAIN accepted /\ accepted[i] = m
      BY PositionThere
    <3>2. i \in DOMAIN accepted' /\ accepted'[i] = m
      BY <2>1, <3>1
    <3> HIDE DEF i
    <3>3. PositionIn(accepted', accepted'[i]) = i
      BY <2>4, <3>2, PositionOfOne DEF Distinct
    <3> QED
      BY <3>2, <3>3 DEF i
  <2>7. PositionIn(accepted', p) = Len(accepted) + 1
    <3> DEFINE i == Len(accepted) + 1
    <3>1. i \in DOMAIN accepted' /\ accepted'[i] = p
      BY <2>1
    <3> HIDE DEF i
    <3>2. PositionIn(accepted', accepted'[i]) = i
      BY <2>4, <3>1, PositionOfOne DEF Distinct
    <3> QED
      BY <3>1, <3>2 DEF i
  <2>8. \A i \in 1..PositionIn(accepted', p) - 1 : accepted'[i] \in SetOf(accepted)
    BY <2>1, <2>7 DEF SetOf
  <2>9. \A i \in DOMAIN accepted : i \in DOMAIN accepted'
    BY <2>1
  <2> QED
    BY <2>1, <2>4, <2>5, <2>6, <2>8, <2>9
<1> QED
  BY <1>1, <1>2

LEMMA BelowStays ==
  ASSUME accepted \in Seq(Messages), Distinct, NEW p \in Prompts, NoteAccepted(p),
         NEW m \in SetOf(accepted), NEW seen, NEW more, Below(m, seen, accepted), seen \subseteq more
  PROVE  Below(m, more, accepted')
<1>1. PositionIn(accepted, m) \in DOMAIN accepted
  BY PositionThere
<1>2. \A i \in 1..PositionIn(accepted, m) - 1 : i \in DOMAIN accepted
  BY <1>1
<1> QED
  BY <1>2, AcceptedGrows DEF Below

LEMMA InOrderStays ==
  ASSUME accepted \in Seq(Messages), Distinct, NEW p \in Prompts, NoteAccepted(p),
         NEW q, NEW out, InOrder(q, out, accepted)
  PROVE  InOrder(q, out, accepted')
<1>1. Closed(q.seen, accepted')
  BY BelowStays, AcceptedGrows DEF InOrder, Closed
<1>2. q.seen \subseteq SetOf(accepted)
  BY DEF InOrder, Closed
<1>3. Ascends(Line(q, out), q.seen, accepted')
  BY <1>2, AcceptedGrows DEF InOrder, Ascends
<1> QED
  BY <1>1, <1>3 DEF InOrder

-----------------------------------------------------------------------------
LEMMA OrderInit == Init => OrderInv
<1> SUFFICES ASSUME Init PROVE OrderInv
  OBVIOUS
<1>1. /\ queue.pending = <<>> /\ queue.sent = <<>> /\ queue.seen = {} /\ queue.state = "idle"
      /\ held = <<>> /\ dispatched = <<>> /\ accepted = <<>>
  BY DEF Init, EmptyQueue
<1>2. SetOf(<<>>) = {}
  BY DEF SetOf
<1>3. Line(queue, dispatched) = <<>>
  BY <1>1 DEF Line
<1>4. InOrder(queue, dispatched, accepted)
  BY <1>1, <1>3 DEF InOrder, Closed, Ascends
<1> QED
  BY <1>1, <1>2, <1>4 DEF OrderInv, Distinct, Kept, HeldInOrder, AllTaken

LEMMA QuietOrder ==
  ASSUME OrderInv, UNCHANGED <<queue, held, gate, dispatched, accepted, unsent, carried>>
  PROVE  OrderInv'
BY DEF OrderInv, Distinct, HeldInOrder, AllTaken

(* Nothing was held or accepted, and the queue has seen at least as much.  *)
LEMMA SeenGrows ==
  ASSUME OrderInv, UNCHANGED <<held, gate, accepted>>, queue.seen \subseteq queue'.seen,
         InOrder(queue', dispatched', accepted), Kept(queue', dispatched', unsent' \cup carried')
  PROVE  OrderInv'
<1>1. HeldInOrder'
  BY DEF OrderInv, HeldInOrder, Below
<1> QED
  BY <1>1 DEF OrderInv, Distinct, AllTaken

LEMMA WakeOrder ==
  ASSUME TypeOK, OrderInv, NEW p \in Prompts, Wake(p)
  PROVE  OrderInv'
<1>1. /\ accepted \in Seq(Messages) /\ Distinct /\ NoteAccepted(p) /\ UNCHANGED <<gate, unsent, carried>>
      /\ queue \in Queue /\ held \in Seq(Prompts) /\ dispatched \in Seq(Prompts)
      /\ p \in Messages => p \in SetOf(accepted') /\ accepted' \in Seq(Messages)
  BY AcceptedGrows DEF Wake, TypeOK, OrderInv, MessageIds
<1>2. Distinct' /\ SetOf(accepted') = SetOf(accepted) \cup MessageIds(p)
      /\ accepted' \in Seq(Messages)
  BY <1>1, AcceptedGrows
<1>3. InOrder(queue, dispatched, accepted') /\ Kept(queue, dispatched, unsent' \cup carried')
  BY <1>1, InOrderStays DEF OrderInv
<1>4. p \in Messages => Below(p, queue.seen \cup SetOf(held), accepted')
  BY <1>1, AcceptedGrows DEF OrderInv, AllTaken, Below
<1>5. CASE WakeHeld(p)
  <2>1. held' = Append(held, p) /\ UNCHANGED <<queue, dispatched>> /\ ~Allows(gate')
    BY <1>1, <1>5 DEF WakeHeld
  <2>2. /\ Len(held) \in Nat /\ DOMAIN held = 1..Len(held) /\ DOMAIN held' = 1..Len(held) + 1
        /\ held'[Len(held) + 1] = p /\ \A i \in DOMAIN held : held'[i] = held[i]
    BY <1>1, <2>1
  <2>3. ASSUME NEW j \in DOMAIN held', held'[j] \in Messages
        PROVE  /\ held'[j] \in SetOf(accepted')
               /\ Below(held'[j], queue.seen \cup {held'[i] : i \in 1..j - 1}, accepted')
    <3>1. CASE j \in DOMAIN held
      <4>1. \A i \in 1..j - 1 : i \in DOMAIN held
        BY <2>2, <3>1
      <4>2. {held'[i] : i \in 1..j - 1} = {held[i] : i \in 1..j - 1}
        BY <2>2, <4>1
      <4>3. /\ held[j] \in SetOf(accepted)
            /\ Below(held[j], queue.seen \cup {held[i] : i \in 1..j - 1}, accepted)
            /\ held'[j] = held[j]
        BY <2>2, <2>3, <3>1 DEF OrderInv, HeldInOrder
      <4> QED
        BY <1>1, <1>2, <4>2, <4>3, BelowStays
    <3>2. CASE j = Len(held) + 1
      <4>1. j - 1 = Len(held) /\ held'[j] = p
        BY <2>2, <3>2
      <4>2. {held'[i] : i \in 1..j - 1} = SetOf(held)
        BY <2>2, <4>1 DEF SetOf
      <4> QED
        BY <1>1, <1>4, <2>3, <4>1, <4>2
    <3>3. j \in DOMAIN held \/ j = Len(held) + 1
      BY <2>2
    <3> QED
      BY <3>1, <3>2, <3>3
  <2>4. SetOf(held') = SetOf(held) \cup {p}
    BY <1>1, <2>1, SetOfAppend
  <2>5. AllTaken'
    BY <1>2, <2>1, <2>4 DEF OrderInv, AllTaken, MessageIds
  <2> QED
    BY <1>2, <1>3, <2>1, <2>3, <2>5 DEF OrderInv, HeldInOrder
<1>6. CASE WakeOffered(p)
  <2>1. /\ Settle(Offer(queue, p), child) /\ UNCHANGED held /\ held = <<>>
        /\ SetOf(held) = {}
    BY <1>6 DEF WakeOffered, OrderInv, SetOf
  <2>2. p \in Messages => p \in SetOf(accepted') /\ Below(p, queue.seen, accepted')
    BY <1>1, <1>4, <2>1
  <2>3. /\ InOrder(Offer(queue, p), dispatched, accepted')
        /\ Kept(Offer(queue, p), dispatched, unsent' \cup carried')
        /\ Offer(queue, p) \in Queue /\ Offer(queue, p).seen = queue.seen \cup MessageIds(p)
    BY <1>1, <1>2, <1>3, <2>2, OfferInOrder, OfferTypes, OfferSeen
  <2>4. /\ InOrder(queue', dispatched', accepted') /\ Kept(queue', dispatched', unsent' \cup carried')
        /\ queue'.seen = queue.seen \cup MessageIds(p)
    BY <1>1, <2>1, <2>3, SettleLine
  <2>5. AllTaken'
    BY <1>2, <2>1, <2>4 DEF OrderInv, AllTaken
  <2> QED
    BY <1>2, <2>1, <2>4, <2>5 DEF OrderInv, HeldInOrder
<1> QED
  BY <1>5, <1>6 DEF Wake

LEMMA AnswerOrder ==
  ASSUME TypeOK, OrderInv, NEW id \in answers, HearAnswer(id)
  PROVE  OrderInv'
<1> DEFINE gone == unsent \cup carried
<1>1. /\ accepted \in Seq(Messages) /\ queue \in Queue /\ dispatched \in Seq(Prompts)
      /\ queue.sent = <<>> /\ queue.pending \in Seq(Prompts)
      /\ InOrder(queue, dispatched, accepted) /\ Kept(queue, dispatched, gone)
      /\ UNCHANGED <<held, gate, accepted, unsent>>
  BY DEF HearAnswer, TypeOK, OrderInv, Queue
<1>2. \A name \in Prompts \ Messages : MessageIds(name) = {}
  BY DEF MessageIds
<1>3. CASE approvals[id].decision = "deny"
  <2>1. UNCHANGED carried /\ Settle(Offer(queue, "denied"), child)
    BY <1>3 DEF HearAnswer
  <2>2. /\ InOrder(Offer(queue, "denied"), dispatched, accepted)
        /\ Kept(Offer(queue, "denied"), dispatched, gone)
        /\ Offer(queue, "denied") \in Queue /\ Offer(queue, "denied").seen = queue.seen
    BY <1>1, <1>2, NamedPrompts, OfferInOrder, OfferTypes, OfferSeen
  <2>3. /\ InOrder(queue', dispatched', accepted) /\ Kept(queue', dispatched', gone)
        /\ queue'.seen = queue.seen
    BY <1>1, <2>1, <2>2, SettleLine
  <2> QED
    BY <1>1, <2>1, <2>3, SeenGrows
<1>4. CASE approvals[id].decision # "deny"
  <2> DEFINE drained == Drained(queue)
             first == Offer(drained, "redispatch")
             all == OfferAll(first, queue.pending)
             left == gone \cup (SetOf(queue.pending) \cap Messages)
  <2>1. /\ unsent' \cup carried' = left
        /\ \E children : Settle(all, children)
    BY <1>1, <1>4 DEF HearAnswer, ReplaceChild
  <2>2. /\ drained \in Queue /\ drained.seen = queue.seen
        /\ InOrder(drained, dispatched, accepted) /\ Kept(drained, dispatched, left)
        /\ SetOf(queue.pending) \cap Messages \subseteq queue.seen
    BY <1>1, DrainedLine
  <2> HIDE DEF drained, left
  <2>3. /\ first \in Queue /\ first.seen = queue.seen
        /\ InOrder(first, dispatched, accepted) /\ Kept(first, dispatched, left)
    <3>1. first \in Queue /\ first.seen = drained.seen
      BY <1>2, <2>2, NamedPrompts, OfferTypes, OfferSeen
    <3>2. InOrder(first, dispatched, accepted) /\ Kept(first, dispatched, left)
      BY <1>1, <2>2, NamedPrompts, OfferInOrder
    <3> QED
      BY <2>2, <3>1, <3>2
  <2> HIDE DEF first
  <2>4. ASSUME NEW j \in DOMAIN queue.pending, queue.pending[j] \in Messages
        PROVE  /\ queue.pending[j] \in SetOf(accepted)
               /\ Below(queue.pending[j], first.seen \cup {queue.pending[i] : i \in 1..j - 1}, accepted)
    <3>1. queue.pending[j] \in queue.seen
      BY <2>2, <2>4 DEF SetOf
    <3> QED
      BY <1>1, <2>3, <3>1 DEF InOrder, Closed, Below
  <2>5. /\ all \in Queue
        /\ InOrder(all, dispatched, accepted) /\ Kept(all, dispatched, left)
        /\ first.seen \subseteq all.seen
    BY <1>1, <2>3, <2>4, OfferAllInOrder
  <2> HIDE DEF all
  <2>6. /\ InOrder(queue', dispatched', accepted) /\ Kept(queue', dispatched', left)
        /\ queue'.seen = all.seen
    BY <1>1, <2>1, <2>5, SettleLine
  <2> QED
    BY <1>1, <2>1, <2>3, <2>5, <2>6, SeenGrows
<1> QED
  BY <1>3, <1>4

LEMMA CallbackOrder ==
  ASSUME TypeOK, OrderInv, NEW g \in Generations, Callback(g)
  PROVE  OrderInv'
<1> DEFINE gone == unsent \cup carried
<1>1. /\ accepted \in Seq(Messages) /\ queue \in Queue /\ dispatched \in Seq(Prompts)
      /\ queue.sent = <<>> /\ held \in Seq(Prompts)
      /\ InOrder(queue, dispatched, accepted) /\ Kept(queue, dispatched, gone)
  BY DEF TypeOK, OrderInv
<1>2. CASE HearStale(g) \/ OnDenial(g)
  BY <1>2, QuietOrder DEF HearStale, OnDenial
<1>3. CASE OnTurnEnd(g)
  <2>1. Settle(TurnEnded(queue), Heard(g)) /\ UNCHANGED <<held, gate, accepted, unsent, carried>>
    BY <1>3 DEF OnTurnEnd
  <2>2. /\ TurnEnded(queue) \in Queue /\ TurnEnded(queue).seen = queue.seen
        /\ InOrder(TurnEnded(queue), dispatched, accepted)
        /\ Kept(TurnEnded(queue), dispatched, gone)
    BY <1>1, QueueTypes, TurnEndedLine
  <2>3. /\ InOrder(queue', dispatched', accepted) /\ Kept(queue', dispatched', gone)
        /\ queue'.seen = queue.seen
    BY <1>1, <2>1, <2>2, SettleLine
  <2> QED
    BY <2>1, <2>3, SeenGrows
<1>4. CASE OnUsage(g) /\ Allows(gate')
  <2> DEFINE all == OfferAll(queue, held)
  <2>1. Settle(all, Heard(g)) /\ held' = <<>> /\ UNCHANGED <<accepted, unsent, carried>>
    BY <1>4 DEF OnUsage
  <2>2. /\ all \in Queue
        /\ InOrder(all, dispatched, accepted) /\ Kept(all, dispatched, gone)
        /\ queue.seen \cup (SetOf(held) \cap Messages) \subseteq all.seen
    BY <1>1, OfferAllInOrder DEF OrderInv, HeldInOrder
  <2> HIDE DEF all
  <2>3. /\ InOrder(queue', dispatched', accepted) /\ Kept(queue', dispatched', gone)
        /\ queue'.seen = all.seen
    BY <1>1, <2>1, <2>2, SettleLine
  <2>4. SetOf(accepted) \subseteq Messages
    BY <1>1 DEF SetOf
  <2>5. AllTaken'
    BY <2>1, <2>2, <2>3, <2>4 DEF OrderInv, AllTaken
  <2>6. HeldInOrder'
    BY <2>1 DEF HeldInOrder
  <2> QED
    BY <2>1, <2>3, <2>5, <2>6 DEF OrderInv, Distinct
<1>5. CASE OnUsage(g) /\ ~Allows(gate')
  <2>1. Settle(queue, Heard(g)) /\ UNCHANGED <<held, accepted, unsent, carried>>
    BY <1>5 DEF OnUsage
  <2>2. /\ InOrder(queue', dispatched', accepted) /\ Kept(queue', dispatched', gone)
        /\ queue'.seen = queue.seen
    BY <1>1, <2>1, SettleLine
  <2> QED
    BY <1>5, <2>1, <2>2 DEF OrderInv, Distinct, HeldInOrder, AllTaken
<1>6. CASE OnExit(g)
  <2>1. UNCHANGED <<held, gate, accepted, dispatched, carried>>
    BY <1>6 DEF OnExit
  <2>2. CASE g = generation
    <3> DEFINE left == gone \cup (SetOf(queue.pending) \cap Messages)
    <3>1. queue' = Drained(queue) /\ unsent' \cup carried' = left
      BY <1>6, <2>1, <2>2 DEF OnExit, IfCurrent
    <3>2. /\ Drained(queue).seen = queue.seen
          /\ InOrder(Drained(queue), dispatched, accepted)
          /\ Kept(Drained(queue), dispatched, left)
      BY <1>1, DrainedLine
    <3> HIDE DEF left
    <3> QED
      BY <2>1, <3>1, <3>2, SeenGrows
  <2>3. CASE g # generation
    BY <1>6, <2>1, <2>3, QuietOrder DEF OnExit, IfCurrent
  <2> QED
    BY <2>2, <2>3
<1> QED
  BY <1>2, <1>3, <1>4, <1>5, <1>6 DEF Callback

LEMMA OrderStep == TypeOK /\ OrderInv /\ [Next]_vars => OrderInv'
<1> SUFFICES ASSUME TypeOK, OrderInv, [Next]_vars PROVE OrderInv'
  OBVIOUS
<1>1. CASE UNCHANGED vars
  BY <1>1, QuietOrder DEF vars
<1>2. ASSUME NEW id \in DOMAIN approvals, NEW decision \in {"approve", "deny"},
             NEW arrives \in BOOLEAN, AnswerAndNotify(id, decision, arrives)
      PROVE  OrderInv'
  BY <1>2, QuietOrder DEF AnswerAndNotify
<1>3. ASSUME NEW g \in Generations, ChildStep(g) PROVE OrderInv'
  BY <1>3, ChildStepTypes, QuietOrder DEF ChildMoves
<1> QED
  BY <1>1, <1>2, <1>3, WakeOrder, AnswerOrder, CallbackOrder DEF Next

LEMMA OrderMeansOrder == TypeOK /\ OrderInv => DispatchedInOrder
<1> SUFFICES ASSUME TypeOK, OrderInv,
                    NEW i \in DOMAIN dispatched, NEW j \in DOMAIN dispatched,
                    dispatched[i] \in Messages, dispatched[j] \in Messages, i < j
             PROVE  PositionIn(accepted, dispatched[i]) < PositionIn(accepted, dispatched[j])
  BY DEF DispatchedInOrder
<1>1. queue.pending \in Seq(Prompts) /\ dispatched \in Seq(Prompts) /\ queue.sent = <<>>
  BY DEF TypeOK, Queue
<1>2. dispatched \o queue.sent = dispatched
  BY <1>1, ConcatEmptySeq
<1>3. \A k \in DOMAIN dispatched :
        k \in DOMAIN Line(queue, dispatched) /\ Line(queue, dispatched)[k] = dispatched[k]
  BY <1>1, <1>2, ConcatProperties, LenProperties DEF Line
<1> QED
  BY <1>3 DEF OrderInv, InOrder, Ascends

LEMMA OrderMeansKept == TypeOK /\ OrderInv => LostOnlyToReplacement
<1> SUFFICES ASSUME TypeOK, OrderInv PROVE LostOnlyToReplacement
  OBVIOUS
<1>1. queue.pending \in Seq(Prompts) /\ dispatched \in Seq(Prompts) /\ queue.sent = <<>>
  BY DEF TypeOK, Queue
<1>2. dispatched \o queue.sent = dispatched
  BY <1>1, ConcatEmptySeq
<1>3. SetOf(Line(queue, dispatched)) = SetOf(dispatched) \cup SetOf(queue.pending)
  BY <1>1, <1>2, SetOfConcat DEF Line
<1> QED
  BY <1>3 DEF OrderInv, AllTaken, Kept, LostOnlyToReplacement, Waiting

(* However often an envelope comes, however the gate opens and closes, and *)
(* whichever children are replaced or die: no message is written to        *)
(* children twice, and none after one that was accepted later (offer,      *)
(* releaseHeld, turnEnded, replaceChild).                                  *)
THEOREM InOrderOnce == Spec => []DispatchedInOrder
<1>1. Spec => []OrderInv
  BY OrderInit, OrderStep, TypeCorrect, PTL DEF Spec
<1> QED
  BY <1>1, OrderMeansOrder, TypeCorrect, PTL

(* A message once accepted is held, waits in the queue, was written to a   *)
(* child or is in the log as UNSENT, but for those a replacement drained   *)
(* (offer, releaseHeld, onExit, replaceChild).                             *)
THEOREM NothingLost == Spec => []LostOnlyToReplacement
<1>1. Spec => []OrderInv
  BY OrderInit, OrderStep, TypeCorrect, PTL DEF Spec
<1> QED
  BY <1>1, OrderMeansKept, TypeCorrect, PTL

-----------------------------------------------------------------------------
Shaped(c) == {"events", "allowed"} \subseteq DOMAIN c /\ c.events \in Seq(Event)

Shapes == DOMAIN child = Generations /\ \A g \in Generations : Shaped(child[g])

Rows ==
  /\ approvals \in Seq(Approval)
  /\ answers \subseteq DOMAIN approvals
  /\ \A i \in answers : approvals[i].decision # "none"

Approved == {i \in DOMAIN approvals : approvals[i].decision = "approve"}
Granted == {approvals[i].tool : i \in Approved}

Bounded ==
  /\ generation \in Generations
  /\ child[generation].allowed \subseteq Base \cup Granted
  /\ generation <= 1 + Cardinality(Approved \ answers)
  /\ \A g \in 1..generation : child[g].allowed \subseteq child[generation].allowed

GrantInv == Shapes /\ Rows /\ Bounded

(* The children are the same but for what they were sent and have said. *)
SameLists ==
  /\ Shapes'
  /\ \A g \in Generations : child'[g].allowed = child[g].allowed

-----------------------------------------------------------------------------

(* What any change of one child's other fields leaves. *)
LEMMA OneChildChanges ==
  ASSUME Shapes, NEW g \in Generations, NEW c, Shaped(c), c.allowed = child[g].allowed,
         child' = [child EXCEPT ![g] = c]
  PROVE  SameLists
  BY DEF Shapes, SameLists

LEMMA WriteKeepsShape ==
  ASSUME NEW c, Shaped(c), NEW prompts
  PROVE  Shaped(Write(c, prompts)) /\ Write(c, prompts).allowed = c.allowed
  BY DEF Shaped, Write

LEMMA HeardKeepsLists ==
  ASSUME Shapes, NEW g \in Generations, child[g].events # <<>>
  PROVE  /\ DOMAIN Heard(g) = Generations
         /\ \A h \in Generations : Shaped(Heard(g)[h]) /\ Heard(g)[h].allowed = child[h].allowed
<1>1. Shaped([child[g] EXCEPT !.events = Tail(@)])
      /\ [child[g] EXCEPT !.events = Tail(@)].allowed = child[g].allowed
  BY DEF Shapes, Shaped
<1> QED
  BY <1>1 DEF Heard, Shapes

LEMMA SettleKeepsLists ==
  ASSUME NEW q, NEW children, Settle(q, children), generation' \in Generations,
         DOMAIN children = Generations, \A g \in Generations : Shaped(children[g])
  PROVE  /\ Shapes'
         /\ \A g \in Generations : child'[g].allowed = children[g].allowed
<1> DEFINE c == Write(children[generation'], q.sent)
<1>1. child' = [children EXCEPT ![generation'] = c]
  BY DEF Settle
<1>2. Shaped(c) /\ c.allowed = children[generation'].allowed
  BY WriteKeepsShape
<1> QED
  BY <1>1, <1>2 DEF Shapes

-----------------------------------------------------------------------------
LEMMA SomeRowsAreFinite ==
  ASSUME NEW n \in Nat, NEW S, S \subseteq 1..n
  PROVE  IsFiniteSet(S) /\ Cardinality(S) \in Nat
<1>1. IsFiniteSet(1..n)
  BY FS_Interval
<1>2. IsFiniteSet(S)
  BY <1>1, FS_Subset
<1> QED
  BY <1>2, FS_CardinalityType

(* A step that leaves the requests, the answers and the generation alone. *)
LEMMA QuietStep ==
  ASSUME GrantInv, SameLists, UNCHANGED <<generation, approvals, answers>>
  PROVE  GrantInv'
<1>1. generation \in Generations /\ 1..generation \subseteq Generations
  BY BoundsAssumption DEF GrantInv, Bounded, Generations
<1> QED
  BY <1>1 DEF GrantInv, SameLists, Rows, Bounded, Approved, Granted

LEMMA InitGrants == Init => GrantInv
<1> SUFFICES ASSUME Init PROVE GrantInv
  OBVIOUS
<1>1. Shapes
  BY DEF Init, Shapes, Shaped, NoChild
<1>2. Rows
  BY DEF Init, Rows
<1>3. Approved = {} /\ Approved \ answers = {} /\ Cardinality({}) = 0
  BY FS_EmptySet DEF Init, Approved
<1>4. child[1].allowed = Base
  BY GenerationsAreNumbers DEF Init, NoChild
<1> QED
  BY <1>1, <1>2, <1>3, <1>4, GenerationsAreNumbers DEF Init, GrantInv, Bounded

-----------------------------------------------------------------------------
LEMMA WakeGrants ==
  ASSUME GrantInv, NEW prompt, Wake(prompt)
  PROVE  GrantInv'
<1>1. generation' = generation /\ generation \in Generations
      /\ UNCHANGED <<approvals, answers>>
  BY DEF GrantInv, Bounded, Wake
<1>2. CASE WakeHeld(prompt)
  BY <1>1, <1>2, QuietStep DEF WakeHeld, GrantInv, Shapes, SameLists
<1>3. CASE WakeOffered(prompt)
  <2>1. Settle(Offer(queue, prompt), child)
    BY <1>3 DEF WakeOffered
  <2>2. SameLists
    BY <1>1, <2>1, SettleKeepsLists DEF GrantInv, Shapes, SameLists
  <2> QED
    BY <1>1, <2>2, QuietStep
<1> QED
  BY <1>2, <1>3 DEF Wake

LEMMA CallbackGrants ==
  ASSUME GrantInv, NEW g \in Generations,
         HearStale(g) \/ OnTurnEnd(g) \/ OnUsage(g) \/ OnExit(g)
  PROVE  GrantInv'
<1>1. UNCHANGED <<generation, approvals, answers>> /\ generation \in Generations /\ Shapes
  BY DEF GrantInv, Bounded, HearStale, OnTurnEnd, OnUsage, OnExit
<1>2. CASE HearStale(g)
  <2>1. child' = Heard(g) /\ child[g].events # <<>>
    BY <1>2 DEF HearStale
  <2> QED
    BY <1>1, <2>1, HeardKeepsLists, QuietStep DEF SameLists, Shapes
<1>3. CASE OnTurnEnd(g)
  <2>1. Settle(TurnEnded(queue), Heard(g)) /\ child[g].events # <<>>
    BY <1>3 DEF OnTurnEnd
  <2> QED
    BY <1>1, <2>1, HeardKeepsLists, SettleKeepsLists, QuietStep DEF SameLists
<1>4. CASE OnUsage(g)
  <2>1. PICK q : Settle(q, Heard(g)) /\ child[g].events # <<>>
    BY <1>4 DEF OnUsage
  <2> QED
    BY <1>1, <2>1, HeardKeepsLists, SettleKeepsLists, QuietStep DEF SameLists
<1>5. CASE OnExit(g)
  <2> DEFINE c == [child[g] EXCEPT !.life = "gone"]
  <2>1. child' = [child EXCEPT ![g] = c]
    BY <1>5 DEF OnExit
  <2>2. Shaped(c) /\ c.allowed = child[g].allowed
    BY <1>1 DEF Shapes, Shaped
  <2>3. SameLists
    BY <1>1, <2>1, <2>2, OneChildChanges
  <2> QED
    BY <1>1, <2>3, QuietStep
<1> QED
  BY <1>2, <1>3, <1>4, <1>5

LEMMA ChildGrants ==
  ASSUME GrantInv, NEW g \in Generations, ChildStep(g)
  PROVE  GrantInv'
<1>1. Shapes /\ Shaped(child[g])
  BY DEF GrantInv, Shapes
<1>2. ASSUME NEW c, ChildMoves(g, c), Shaped(c), c.allowed = child[g].allowed
      PROVE  GrantInv'
  BY <1>1, <1>2, OneChildChanges, QuietStep DEF ChildMoves
<1>3. ASSUME NEW e \in Event, Emit(g, e)
      PROVE  GrantInv'
  <2> DEFINE c == [child[g] EXCEPT !.events = Append(@, e)]
  <2>1. Shaped(c) /\ c.allowed = child[g].allowed
    BY <1>1 DEF Shaped
  <2> QED
    BY <1>2, <1>3, <2>1 DEF Emit
<1>4. CASE BeginTurn(g)
  <2> DEFINE c == [child[g] EXCEPT !.turn = child[g].stdin, !.stdin = <<>>]
  <2>1. Shaped(c) /\ c.allowed = child[g].allowed
    BY <1>1 DEF Shaped
  <2> QED
    BY <1>2, <1>4, <2>1 DEF BeginTurn
<1>5. ASSUME NEW full \in BOOLEAN, ReportUsage(g, full) PROVE GrantInv'
  BY <1>3, <1>5, EventsAreEvents DEF ReportUsage
<1>6. ASSUME NEW tool \in Tools \cup {Unnamed}, BeDenied(g, tool) PROVE GrantInv'
  BY <1>3, <1>6, EventsAreEvents DEF BeDenied
<1>7. CASE EndTurn(g)
  <2> DEFINE c == [child[g] EXCEPT !.turn = <<>>, !.events = Append(@, TurnEndEvent)]
  <2>1. Shaped(c) /\ c.allowed = child[g].allowed
    BY <1>1, EventsAreEvents DEF Shaped
  <2> QED
    BY <1>2, <1>7, <2>1 DEF EndTurn
<1>8. CASE Die(g)
  <2> DEFINE c == [child[g] EXCEPT !.life = "dead", !.stdin = <<>>, !.turn = <<>>]
  <2>1. Shaped(c) /\ c.allowed = child[g].allowed
    BY <1>1 DEF Shaped
  <2> QED
    BY <1>2, <1>8, <2>1 DEF Die
<1> QED
  BY <1>4, <1>5, <1>6, <1>7, <1>8 DEF ChildStep

(* A request is filed undecided or not at all, so nothing more is approved *)
(* than before.                                                            *)
LEMMA DenialGrants ==
  ASSUME GrantInv, NEW g \in Generations, OnDenial(g)
  PROVE  GrantInv'
<1> DEFINE row == [tool |-> Head(child[g].events).tool, decision |-> "none"]
<1>1. child' = Heard(g) /\ child[g].events # <<>>
      /\ (approvals' = Append(approvals, row) \/ approvals' = approvals)
      /\ UNCHANGED <<generation, answers>>
  BY DEF OnDenial
<1>2. Shapes /\ Rows /\ Bounded
  BY DEF GrantInv
<1>3. SameLists
  BY <1>1, <1>2, HeardKeepsLists DEF SameLists, Shapes
<1>4. row \in Approval
  <2>1. Head(child[g].events) \in Event
    BY <1>1, <1>2 DEF Shapes, Shaped
  <2> QED
    BY <2>1 DEF Event, Approval
<1>5. /\ approvals' \in Seq(Approval) /\ DOMAIN approvals \subseteq DOMAIN approvals'
      /\ \A i \in DOMAIN approvals : approvals'[i] = approvals[i]
      /\ \A i \in DOMAIN approvals' \ DOMAIN approvals : approvals'[i].decision = "none"
  <2>1. row.decision = "none"
    OBVIOUS
  <2> HIDE DEF row
  <2>2. CASE approvals' = Append(approvals, row)
    <3>1. /\ approvals' \in Seq(Approval) /\ Len(approvals) \in Nat
          /\ DOMAIN approvals' = 1..(Len(approvals) + 1) /\ DOMAIN approvals = 1..Len(approvals)
          /\ \A i \in DOMAIN approvals : approvals'[i] = approvals[i]
          /\ approvals'[Len(approvals) + 1] = row
      BY <1>2, <1>4, <2>2 DEF Rows
    <3> QED
      BY <2>1, <3>1
  <2>3. CASE approvals' = approvals
    BY <1>2, <2>3 DEF Rows
  <2> QED
    BY <1>1, <2>2, <2>3 DEF row
<1>6. Rows'
  BY <1>1, <1>2, <1>5 DEF Rows
<1>7. Approved' = Approved
  BY <1>5 DEF Approved
<1>8. Granted' = Granted
  BY <1>5, <1>7 DEF Granted, Approved
<1>9. 1..generation \subseteq Generations /\ generation \in Generations
  BY <1>2, BoundsAssumption DEF Bounded, Generations
<1>10. Bounded'
  BY <1>1, <1>2, <1>3, <1>7, <1>8, <1>9 DEF Bounded, SameLists
<1> QED
  BY <1>3, <1>6, <1>10 DEF GrantInv, SameLists

(* A row is decided once, and its answer is sent after that or not at all. *)
LEMMA AnswerGrants ==
  ASSUME GrantInv, NEW id \in DOMAIN approvals, NEW decision \in {"approve", "deny"},
         NEW arrives \in BOOLEAN, AnswerAndNotify(id, decision, arrives)
  PROVE  GrantInv'
<1>1. Shapes /\ Rows /\ Bounded
  BY DEF GrantInv
<1>2. /\ approvals[id].decision = "none"
      /\ approvals' = [approvals EXCEPT ![id].decision = decision]
      /\ answers' \in {answers, answers \cup {id}}
      /\ UNCHANGED <<generation, child>>
  BY DEF AnswerAndNotify, Answerable
<1>3. approvals[id] \in Approval
  BY <1>1 DEF Rows
<1>4. /\ approvals' \in Seq(Approval) /\ DOMAIN approvals' = DOMAIN approvals
      /\ \A i \in DOMAIN approvals : approvals'[i].tool = approvals[i].tool
      /\ \A i \in DOMAIN approvals \ {id} : approvals'[i] = approvals[i]
      /\ approvals'[id].decision = decision
  BY <1>1, <1>2, <1>3 DEF Rows, Approval
<1>5. Rows'
  BY <1>1, <1>2, <1>4 DEF Rows
<1>6. id \notin Approved /\ id \notin answers
  BY <1>1, <1>2 DEF Approved, Rows
<1>7. Approved \subseteq Approved' /\ Granted \subseteq Granted'
  BY <1>4, <1>6 DEF Approved, Granted
<1>8. Approved \ answers \subseteq Approved' \ answers'
  BY <1>2, <1>6, <1>7
<1>9. Len(approvals) \in Nat /\ Approved' \ answers' \subseteq 1..Len(approvals)
  BY <1>1, <1>4 DEF Rows, Approved
<1>10. /\ Cardinality(Approved \ answers) \in Nat /\ Cardinality(Approved' \ answers') \in Nat
       /\ Cardinality(Approved \ answers) <= Cardinality(Approved' \ answers')
  <2>1. IsFiniteSet(Approved' \ answers') /\ Cardinality(Approved' \ answers') \in Nat
    BY <1>9, SomeRowsAreFinite
  <2>2. Approved \ answers \subseteq 1..Len(approvals)
    BY <1>8, <1>9
  <2>3. Cardinality(Approved \ answers) \in Nat
    BY <1>9, <2>2, SomeRowsAreFinite
  <2> QED
    BY <1>8, <2>1, <2>3, FS_Subset
<1>11. Bounded'
  BY <1>1, <1>2, <1>7, <1>10, GenerationsAreNumbers DEF Bounded
<1> QED
  BY <1>1, <1>2, <1>5, <1>11 DEF GrantInv, Shapes

(* An answer that is heard was given once, so a denial widens nothing and  *)
(* an approval accounts for the one replacement it makes.                  *)
LEMMA HearingGrants ==
  ASSUME GrantInv, NEW id \in answers, HearAnswer(id)
  PROVE  GrantInv'
<1>1. Shapes /\ Rows /\ Bounded
  BY DEF GrantInv
<1>2. UNCHANGED approvals /\ answers' = answers \ {id}
  BY DEF HearAnswer
<1>3. Rows' /\ Approved' = Approved /\ Granted' = Granted
  BY <1>1, <1>2 DEF Rows, Approved, Granted
<1>4. id \in DOMAIN approvals /\ approvals[id] \in Approval /\ approvals[id].decision # "none"
  BY <1>1 DEF Rows
<1>5. /\ generation \in Generations /\ generation \in Nat
      /\ 1..generation \subseteq Generations
  BY <1>1, BoundsAssumption DEF Bounded, Generations
<1>6. CASE approvals[id].decision = "deny"
  <2>1. generation' = generation /\ Settle(Offer(queue, "denied"), child)
    BY <1>6 DEF HearAnswer
  <2>2. SameLists
    BY <1>1, <1>5, <2>1, SettleKeepsLists DEF Shapes, SameLists
  <2>3. Approved \ answers' = Approved \ answers
    BY <1>2, <1>6 DEF Approved
  <2>4. Bounded'
    BY <1>1, <1>3, <1>5, <2>1, <2>2, <2>3 DEF Bounded, SameLists
  <2> QED
    BY <1>3, <2>2, <2>4 DEF GrantInv, SameLists
<1>7. CASE approvals[id].decision = "approve"
  <2> DEFINE tool == {approvals[id].tool} \cap Tools
             old == child[generation]
             fresh == [NoChild EXCEPT !.life = "up",
                                      !.allowed = AllowlistWith(old.allowed, tool)]
             killed == [old EXCEPT !.life = IF @ = "up" THEN "killed" ELSE @]
             kids == [child EXCEPT ![generation] = killed, ![generation + 1] = fresh]
  <2>1. /\ generation < MaxChildren /\ generation' = generation + 1
        /\ \E q : Settle(q, kids)
    BY <1>7 DEF HearAnswer, ReplaceChild
  <2>2. generation' \in Generations /\ generation + 1 \in Generations
    BY <1>5, <2>1, BoundsAssumption DEF Generations
  <2>3. Shaped(killed) /\ killed.allowed = old.allowed
    BY <1>1, <1>5 DEF Shapes, Shaped
  <2>4. Shaped(fresh) /\ fresh.allowed = old.allowed \cup tool
    BY DEF Shaped, NoChild, AllowlistWith
  <2>5. /\ DOMAIN kids = Generations
        /\ \A g \in Generations : Shaped(kids[g])
        /\ kids[generation + 1].allowed = old.allowed \cup tool
        /\ \A g \in 1..generation : kids[g].allowed = child[g].allowed
    <3> HIDE DEF fresh, killed, tool
    <3>1. /\ DOMAIN kids = Generations
          /\ kids[generation + 1] = fresh /\ kids[generation] = killed
          /\ \A g \in Generations \ {generation, generation + 1} : kids[g] = child[g]
      BY <1>1, <1>5, <2>2 DEF Shapes
    <3> HIDE DEF kids
    <3> QED
      BY <1>1, <1>5, <2>2, <2>3, <2>4, <3>1 DEF Shapes
  <2> HIDE DEF kids
  <2>6. /\ Shapes'
        /\ child'[generation'].allowed = old.allowed \cup tool
        /\ \A g \in 1..generation : child'[g].allowed = child[g].allowed
    BY <1>5, <2>1, <2>2, <2>5, SettleKeepsLists
  <2>7. id \in Approved /\ tool \subseteq Granted
    BY <1>4, <1>7 DEF Approved, Granted
  <2>8. child'[generation'].allowed \subseteq Base \cup Granted'
    BY <1>1, <1>3, <2>6, <2>7 DEF Bounded
  <2>9. \A g \in 1..generation' : child'[g].allowed \subseteq child'[generation'].allowed
    BY <1>1, <1>5, <2>1, <2>6 DEF Bounded
  <2>10. Cardinality(Approved \ answers') = Cardinality(Approved \ answers) + 1
    <3>1. Approved \ answers' = (Approved \ answers) \cup {id} /\ id \notin Approved \ answers
      BY <1>2, <2>7
    <3>2. Len(approvals) \in Nat /\ Approved \ answers \subseteq 1..Len(approvals)
      BY <1>1 DEF Rows, Approved
    <3> QED
      BY <3>1, <3>2, SomeRowsAreFinite, FS_AddElement
  <2>11. generation' <= 1 + Cardinality(Approved' \ answers')
    <3>1. Len(approvals) \in Nat /\ Approved \ answers \subseteq 1..Len(approvals)
      BY <1>1 DEF Rows, Approved
    <3>2. Cardinality(Approved \ answers) \in Nat
      BY <3>1, SomeRowsAreFinite
    <3>3. generation <= 1 + Cardinality(Approved \ answers)
      BY <1>1 DEF Bounded
    <3> QED
      BY <1>3, <1>5, <2>1, <2>10, <3>2, <3>3
  <2>12. Bounded'
    BY <2>2, <2>8, <2>9, <2>11 DEF Bounded
  <2> QED
    BY <1>3, <2>6, <2>12 DEF GrantInv
<1> QED
  BY <1>4, <1>6, <1>7 DEF Approval

-----------------------------------------------------------------------------
(* Whatever is refused, asked, answered and lost, in whichever order and   *)
(* by however many operators: no child may use what no operator approved,  *)
(* none loses what an earlier one could, and there is at most one          *)
(* replacement to an approval (answerApproval, replaceChild).              *)
THEOREM Approvals == Spec => []OnlyWhatWasApproved
<1>1. ASSUME GrantInv, [Next]_vars PROVE GrantInv'
  <2>1. CASE UNCHANGED vars
    <3>1. SameLists /\ UNCHANGED <<generation, approvals, answers>>
      BY <1>1, <2>1 DEF vars, GrantInv, Shapes, SameLists
    <3> QED
      BY <1>1, <3>1, QuietStep
  <2>2. ASSUME NEW prompt, Wake(prompt) PROVE GrantInv'
    BY <1>1, <2>2, WakeGrants
  <2>3. ASSUME NEW id \in answers, HearAnswer(id) PROVE GrantInv'
    BY <1>1, <2>3, HearingGrants
  <2>4. ASSUME NEW g \in Generations, Callback(g) PROVE GrantInv'
    BY <1>1, <2>4, CallbackGrants, DenialGrants DEF Callback
  <2>5. ASSUME NEW g \in Generations, ChildStep(g) PROVE GrantInv'
    BY <1>1, <2>5, ChildGrants
  <2>6. ASSUME NEW id \in DOMAIN approvals, NEW decision \in {"approve", "deny"},
               NEW arrives \in BOOLEAN, AnswerAndNotify(id, decision, arrives)
        PROVE  GrantInv'
    BY <1>1, <2>6, AnswerGrants
  <2> QED
    BY <1>1, <2>1, <2>2, <2>3, <2>4, <2>5, <2>6 DEF Next
<1>2. GrantInv => OnlyWhatWasApproved
  BY DEF GrantInv, Bounded, OnlyWhatWasApproved, Approved, Granted
<1> QED
  BY InitGrants, <1>1, <1>2, PTL DEF Spec
=============================================================================
