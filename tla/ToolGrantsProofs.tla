-------------------------- MODULE ToolGrantsProofs --------------------------
(***************************************************************************)
(* Proofs about ToolGrants, for any number of calls, children, commands    *)
(* and messages on their way.                                              *)
(*                                                                         *)
(* None of the three properties is inductive.  A request is filed from     *)
(* what the driver remembers of a call, and a refusal is heard long after  *)
(* it was made: Tidy says of every message a child has sent and the        *)
(* supervisor has not heard that the calls in it are that child's, that    *)
(* its allowlist does not permit what is refused in it, that the driver    *)
(* will know every call by the time it hears of its result, and that no    *)
(* call is answered twice, so none is forgotten while it is needed.  Rows  *)
(* says of every request what it was made from, and that the live child    *)
(* has what was approved and heard.                                        *)
(***************************************************************************)
EXTENDS ToolGrants, FiniteSetTheorems, WellFoundedInduction, TLAPS

Made(g, cs, i) == i \in DOMAIN cs /\ cs[i].by = g

(* The driver has learned of call i, or will from a message before the     *)
(* k-th of those still to be heard.                                        *)
Learned(events, pend, i, k) ==
  \/ i \in pend
  \/ \E j \in DOMAIN events : j < k /\ events[j].kind = "calls" /\ i \in events[j].ids

(* A message says what the child did: the calls are its own, and what it   *)
(* calls a refusal its allowlist does not permit.                          *)
Truthful(g, event, allowed, cs) ==
  /\ \A i \in event.ids : Made(g, cs, i)
  /\ event.refused \subseteq event.ids
  /\ \A i \in event.refused : ~Permits(allowed, cs[i].asks)

(* A call is answered once, after the driver learned of it. *)
AnsweredOnce(kid, pend, k) ==
  \A i \in kid.events[k].ids :
    /\ Learned(kid.events, pend, i, k)
    /\ i \notin kid.waiting
    /\ \A j \in DOMAIN kid.events \ {k} :
         kid.events[j].kind = "results" => i \notin kid.events[j].ids

Tidy(g, kid, cs, pend) ==
  /\ \A i \in kid.waiting :
       Made(g, cs, i) /\ Learned(kid.events, pend, i, Len(kid.events) + 1)
  /\ \A k \in DOMAIN kid.events :
       /\ Truthful(g, kid.events[k], kid.allowed, cs)
       /\ kid.events[k].kind = "results" => AnsweredOnce(kid, pend, k)

RowOf(row, cs, ks, gen) ==
  /\ row.call \in DOMAIN cs /\ cs[row.call].by <= gen
  /\ row.allowlist = ks[cs[row.call].by].allowed
  /\ ~Permits(row.allowlist, cs[row.call].asks)
  /\ row.grant = GrantFor(cs[row.call].asks)
  /\ row.forms = GrantVariants(cs[row.call].asks)
  /\ row.decision = "approve" /\ row.wake = "heard" => row.forms \subseteq ks[gen].allowed

Unspawned == \A g \in Generations : g > generation => kids[g] = NoKid
Remembers ==
  /\ DOMAIN pendingCalls \subseteq DOMAIN calls
  /\ \A i \in DOMAIN pendingCalls : pendingCalls[i] = calls[i].asks
Children == \A g \in Generations : Tidy(g, kids[g], calls, DOMAIN pendingCalls)
Rows == \A n \in DOMAIN approvals : RowOf(approvals[n], calls, kids, generation)
Told == \A r \in kids[generation].told : Permits(kids[generation].allowed, r)
Excused ==
  \A u \in unasked :
    /\ u.call \in DOMAIN calls /\ calls[u.call].by <= generation
    /\ \/ calls[u.call].by < generation
       \/ \E n \in DOMAIN approvals : approvals[n].call \in u.beside
       \/ u.beside \cap unrecorded # {}

IInv == TypeOK /\ Unspawned /\ Remembers /\ Children /\ Rows /\ Told /\ Excused

-----------------------------------------------------------------------------
(* Invocations and entries. *)

LEMMA EntriesAreInvocations ==
  ASSUME NEW inv \in Invocation
  PROVE  GrantFor(inv) \in Invocation /\ GrantVariants(inv) \subseteq Invocation
<1>1. \A p \in Path \cup {NoPath} : Resolved(p) \in Path \cup {NoPath}
  BY DEF Path, NoPath, Resolved, Spellings
<1>2. \A p \in Path : Resolved(p) \in Path
  BY DEF Path, Resolved, Spellings
<1>3. \A p \in [of: Named, spelling: {"real"}] : Resolved(p) \in [of: Named, spelling: {"real"}]
  BY DEF Resolved
<1>4. Resolved(NoPath) = NoPath
  BY DEF Resolved, NoPath
<1>5. \A i \in Invocation : CanonicalisePaths(i) \in Invocation
  BY <1>1, <1>2, <1>3, <1>4 DEF CanonicalisePaths, Invocation
<1>6. \A i \in Invocation : LeadingSegment(i) \in Invocation
  BY DEF LeadingSegment, Invocation
<1>7. QED
  BY <1>5, <1>6 DEF GrantFor, GrantVariants

(* With every variant of an invocation in the allowlist, what the card     *)
(* shows is permitted, and so is every retry.                              *)
LEMMA VariantsPermit ==
  ASSUME NEW inv \in Invocation, NEW allowed, GrantVariants(inv) \subseteq allowed
  PROVE  /\ Permits(allowed, GrantFor(inv))
         /\ \A r \in Retries(inv) : Permits(allowed, r)
<1>1. GrantFor(inv) \in allowed
  BY DEF GrantFor, GrantVariants
<1>2. \A r \in Invocation : LeadingSegment(r) = [lead |-> r.lead, tail |-> NoPath]
  BY DEF LeadingSegment, Invocation
<1>3. Resolved(NoPath) = NoPath
  BY DEF Resolved, NoPath
<1>4. CanonicalisePaths(LeadingSegment(inv)) = [lead |-> Resolved(inv.lead), tail |-> NoPath]
  BY <1>2, <1>3 DEF CanonicalisePaths
<1>5. \A r \in Retries(inv) : LeadingSegment(r) \in GrantVariants(inv)
  BY <1>2, <1>4 DEF Retries, GrantVariants
<1>6. QED
  BY <1>1, <1>5 DEF Permits

-----------------------------------------------------------------------------
(* The refusal that is reported, and the row it is filed as. *)

LEMMA LeastNatural ==
  ASSUME NEW T, T \subseteq Nat, T # {}
  PROVE  \E m \in T : \A n \in T : m <= n
<1> DEFINE R == OpToRel(<, Nat)
<1>1. PICK m \in T : \A n \in T : ~(<<n, m>> \in R)
  <2>1. IsWellFoundedOn(R, Nat)
    BY NatLessThanWellFounded
  <2> HIDE DEF R
  <2>2. QED
    BY <2>1, WFMin
<1>2. \A n \in T : ~(n < m)
  BY <1>1 DEF OpToRel
<1>3. QED
  BY <1>2

LEMMA OneIsReported ==
  ASSUME NEW event \in Event, event.refused # {}
  PROVE  \E first \in event.refused : Reported(event) = {first}
<1>1. event.refused \subseteq Nat
  BY BoundsAssumption DEF Event, CallIds
<1>2. PICK first \in event.refused : \A j \in event.refused : first <= j
  BY <1>1, LeastNatural
<1>3. \A i \in Reported(event) : i = first
  BY <1>1, <1>2 DEF Reported
<1>4. first \in Reported(event)
  BY <1>2 DEF Reported
<1>5. QED
  BY <1>3, <1>4

LEMMA NoneAsSequence == SetToSeq({}) = << >>
<1>1. Cardinality({}) = 0
  BY FS_EmptySet
<1>2. SetToSeq({}) = CHOOSE f \in [1..0 -> {}] : IsInjective(f)
  BY <1>1 DEF SetToSeq
<1>3. << >> \in [1..0 -> {}] /\ IsInjective(<< >>)
  BY DEF IsInjective
<1>4. SetToSeq({}) \in [1..0 -> {}]
  BY <1>2, <1>3
<1>5. QED
  BY <1>4

LEMMA OneAsSequence ==
  ASSUME NEW x
  PROVE  SetToSeq({x}) = <<x>>
<1>1. Cardinality({x}) = 1
  BY FS_Singleton
<1>2. SetToSeq({x}) = CHOOSE f \in [1..1 -> {x}] : IsInjective(f)
  BY <1>1 DEF SetToSeq
<1>3. <<x>> \in [1..1 -> {x}] /\ IsInjective(<<x>>)
  BY DEF IsInjective
<1>4. SetToSeq({x}) \in [1..1 -> {x}]
  BY <1>2, <1>3
<1>5. QED
  BY <1>4

-----------------------------------------------------------------------------
(* What a child has said, as the queue grows and is heard. *)

Extends(cs, more) ==
  DOMAIN cs \subseteq DOMAIN more /\ \A i \in DOMAIN cs : more[i] = cs[i]

(* Nothing of what a child said changes when there are more calls, when    *)
(* the driver learns of some, or forgets those of another child.           *)
LEMMA TidyStays ==
  ASSUME NEW g, NEW kid, NEW cs, NEW more, NEW pend, NEW pendAfter, Extends(cs, more),
         \A i \in pend : Made(g, cs, i) => i \in pendAfter,
         Tidy(g, kid, cs, pend)
  PROVE  Tidy(g, kid, more, pendAfter)
<1>1. \A i : Made(g, cs, i) => Made(g, more, i) /\ more[i] = cs[i]
  BY DEF Made, Extends
<1>2. \A i, k : Made(g, cs, i) /\ Learned(kid.events, pend, i, k)
                => Learned(kid.events, pendAfter, i, k)
  BY DEF Learned
<1>3. \A i \in kid.waiting :
        Made(g, more, i) /\ Learned(kid.events, pendAfter, i, Len(kid.events) + 1)
  BY <1>1, <1>2 DEF Tidy
<1>4. ASSUME NEW k \in DOMAIN kid.events
      PROVE  /\ Truthful(g, kid.events[k], kid.allowed, more)
             /\ kid.events[k].kind = "results" => AnsweredOnce(kid, pendAfter, k)
  <2>1. /\ Truthful(g, kid.events[k], kid.allowed, cs)
        /\ kid.events[k].kind = "results" => AnsweredOnce(kid, pend, k)
    BY DEF Tidy
  <2>2. Truthful(g, kid.events[k], kid.allowed, more)
    BY <1>1, <2>1 DEF Truthful
  <2>3. \A i \in kid.events[k].ids : Made(g, cs, i)
    BY <2>1 DEF Truthful
  <2>4. kid.events[k].kind = "results" => AnsweredOnce(kid, pendAfter, k)
    BY <1>2, <2>1, <2>3 DEF AnsweredOnce
  <2>5. QED
    BY <2>2, <2>4
<1>5. QED
  BY <1>3, <1>4 DEF Tidy

(* A child that waits for less, or is killed, has said the same. *)
LEMMA TidyQuiet ==
  ASSUME NEW g, NEW kid, NEW quiet, NEW cs, NEW pend, Tidy(g, kid, cs, pend),
         quiet.events = kid.events, quiet.allowed = kid.allowed,
         quiet.waiting \subseteq kid.waiting
  PROVE  Tidy(g, quiet, cs, pend)
  BY DEF Tidy, AnsweredOnce

LEMMA NewKidIsTidy ==
  ASSUME NEW g, NEW kid, NEW cs, NEW pend, kid.events = << >>, kid.waiting = {}
  PROVE  Tidy(g, kid, cs, pend)
  BY DEF Tidy

LEMMA Appended ==
  ASSUME NEW S, NEW q \in Seq(S), NEW e
  PROVE  /\ Len(q) \in Nat /\ DOMAIN q = 1..Len(q)
         /\ Len(Append(q, e)) = Len(q) + 1
         /\ DOMAIN Append(q, e) = DOMAIN q \cup {Len(q) + 1}
         /\ \A j \in DOMAIN q : Append(q, e)[j] = q[j] /\ j < Len(q) + 1 /\ j \in Nat
         /\ Append(q, e)[Len(q) + 1] = e
  OBVIOUS

LEMMA Shortened ==
  ASSUME NEW S, NEW q \in Seq(S), q # << >>
  PROVE  /\ Len(q) \in Nat \ {0} /\ DOMAIN q = 1..Len(q) /\ Head(q) = q[1]
         /\ Tail(q) \in Seq(S) /\ Len(Tail(q)) = Len(q) - 1
         /\ DOMAIN Tail(q) = 1..Len(q) - 1
         /\ \A j \in DOMAIN Tail(q) : Tail(q)[j] = q[j + 1] /\ j + 1 \in DOMAIN q
                                      /\ j \in Nat \ {0}
         /\ \A j \in DOMAIN q : j # 1 => j - 1 \in DOMAIN Tail(q) /\ Tail(q)[j - 1] = q[j]
                                         /\ j \in Nat
  OBVIOUS

(* A message at the end of the queue is heard after the ones before it. *)
LEMMA LearnedStays ==
  ASSUME NEW S, NEW q \in Seq(S), NEW e, NEW pend, NEW i, NEW k \in 1..Len(q) + 1,
         Learned(q, pend, i, k)
  PROVE  Learned(Append(q, e), pend, i, k) /\ Learned(Append(q, e), pend, i, Len(q) + 2)
<1>1. Len(q) \in Nat
  OBVIOUS
<1>2. \A j \in DOMAIN q : j \in DOMAIN Append(q, e) /\ Append(q, e)[j] = q[j]
                          /\ j < Len(q) + 2
  BY Appended
<1>3. QED
  BY <1>1, <1>2 DEF Learned

(* A message with calls: new ones, or none that was answered. *)
LEMMA TidyAfterCalls ==
  ASSUME NEW g, NEW kid \in Kid, NEW cs, NEW pend, NEW ids, Tidy(g, kid, cs, pend),
         NEW after \in Kid, NEW event,
         event.kind = "calls", event.ids = ids, event.refused = {},
         after.events = Append(kid.events, event), after.allowed = kid.allowed,
         after.waiting = kid.waiting \cup ids,
         \A i \in ids : Made(g, cs, i),
         \A k \in DOMAIN kid.events : kid.events[k].ids \cap ids = {}
  PROVE  Tidy(g, after, cs, pend)
<1> DEFINE q == kid.events
           last == Len(q) + 1
<1>1. q \in Seq(Event)
  BY DEF Kid
<1>2. /\ Len(q) \in Nat /\ DOMAIN q = 1..Len(q) /\ Len(after.events) = last
      /\ DOMAIN after.events = DOMAIN q \cup {last}
      /\ \A j \in DOMAIN q : after.events[j] = q[j] /\ j < last /\ j \in Nat
      /\ after.events[last] = event /\ last \in 1..Len(q) + 1
      /\ Len(after.events) + 1 = Len(q) + 2
  <2>1. /\ Len(q) \in Nat /\ DOMAIN q = 1..Len(q) /\ Len(after.events) = last
        /\ DOMAIN after.events = DOMAIN q \cup {last}
        /\ \A j \in DOMAIN q : after.events[j] = q[j] /\ j < last /\ j \in Nat
        /\ after.events[last] = event
    BY <1>1, Appended
  <2>2. QED
    BY <2>1
<1>3. ASSUME NEW i \in kid.waiting
      PROVE  /\ Made(g, cs, i)
             /\ Learned(after.events, pend, i, last)
             /\ Learned(after.events, pend, i, Len(after.events) + 1)
  <2>1. Made(g, cs, i) /\ Learned(q, pend, i, last)
    BY DEF Tidy
  <2>2. Learned(after.events, pend, i, last) /\ Learned(after.events, pend, i, Len(q) + 2)
    BY <1>1, <1>2, <2>1, LearnedStays
  <2>3. QED
    BY <1>2, <2>1, <2>2
<1>4. ASSUME NEW i \in after.waiting
      PROVE  Made(g, cs, i) /\ Learned(after.events, pend, i, Len(after.events) + 1)
  <2>1. CASE i \in kid.waiting
    BY <1>3, <2>1
  <2>2. CASE i \in ids
    <3>1. last < Len(after.events) + 1
      BY <1>2
    <3>2. QED
      BY <1>2, <2>2, <3>1 DEF Learned
  <2>3. QED
    BY <2>1, <2>2
<1>5. ASSUME NEW k \in DOMAIN after.events
      PROVE  /\ Truthful(g, after.events[k], after.allowed, cs)
             /\ after.events[k].kind = "results" => AnsweredOnce(after, pend, k)
  <2>1. CASE k = last
    BY <1>2, <2>1 DEF Truthful
  <2>2. CASE k \in DOMAIN q
    <3>1. /\ Truthful(g, q[k], kid.allowed, cs)
          /\ q[k].kind = "results" => AnsweredOnce(kid, pend, k)
      BY <2>2 DEF Tidy
    <3>2. k \in 1..Len(q) + 1
      BY <1>2, <2>2
    <3>3. ASSUME q[k].kind = "results", NEW i \in q[k].ids
          PROVE  /\ Learned(after.events, pend, i, k)
                 /\ i \notin after.waiting
                 /\ \A j \in DOMAIN after.events \ {k} :
                      after.events[j].kind = "results" => i \notin after.events[j].ids
      <4>1. /\ Learned(q, pend, i, k) /\ i \notin kid.waiting
            /\ \A j \in DOMAIN q \ {k} : q[j].kind = "results" => i \notin q[j].ids
        BY <3>1, <3>3 DEF AnsweredOnce
      <4>2. Learned(after.events, pend, i, k)
        BY <1>1, <3>2, <4>1, LearnedStays
      <4>3. i \notin after.waiting
        BY <2>2, <3>3, <4>1
      <4>4. QED
        BY <1>2, <4>1, <4>2, <4>3
    <3>4. QED
      BY <1>2, <2>2, <3>1, <3>3 DEF AnsweredOnce
  <2>3. QED
    BY <1>2, <2>1, <2>2
<1>6. QED
  BY <1>4, <1>5 DEF Tidy

(* A message with the results of calls the child waited for. *)
LEMMA TidyAfterResults ==
  ASSUME NEW g, NEW kid \in Kid, NEW cs, NEW pend, NEW ids, Tidy(g, kid, cs, pend),
         NEW after \in Kid, NEW event,
         event.kind = "results", event.ids = ids, event.refused \subseteq ids,
         after.events = Append(kid.events, event), after.allowed = kid.allowed,
         after.waiting = kid.waiting \ ids, ids \subseteq kid.waiting,
         \A i \in event.refused : ~Permits(kid.allowed, cs[i].asks)
  PROVE  Tidy(g, after, cs, pend)
<1> DEFINE q == kid.events
           last == Len(q) + 1
<1>1. q \in Seq(Event)
  BY DEF Kid
<1>2. /\ Len(q) \in Nat /\ DOMAIN q = 1..Len(q) /\ Len(after.events) = last
      /\ DOMAIN after.events = DOMAIN q \cup {last}
      /\ \A j \in DOMAIN q : after.events[j] = q[j] /\ j < last /\ j \in Nat
      /\ after.events[last] = event /\ last \in 1..Len(q) + 1
      /\ Len(after.events) + 1 = Len(q) + 2
  <2>1. /\ Len(q) \in Nat /\ DOMAIN q = 1..Len(q) /\ Len(after.events) = last
        /\ DOMAIN after.events = DOMAIN q \cup {last}
        /\ \A j \in DOMAIN q : after.events[j] = q[j] /\ j < last /\ j \in Nat
        /\ after.events[last] = event
    BY <1>1, Appended
  <2>2. QED
    BY <2>1
<1>3. ASSUME NEW i \in kid.waiting
      PROVE  /\ Made(g, cs, i)
             /\ Learned(after.events, pend, i, last)
             /\ Learned(after.events, pend, i, Len(after.events) + 1)
  <2>1. Made(g, cs, i) /\ Learned(q, pend, i, last)
    BY DEF Tidy
  <2>2. Learned(after.events, pend, i, last) /\ Learned(after.events, pend, i, Len(q) + 2)
    BY <1>1, <1>2, <2>1, LearnedStays
  <2>3. QED
    BY <1>2, <2>1, <2>2
<1>4. \A k \in DOMAIN q : q[k].kind = "results" => q[k].ids \cap kid.waiting = {}
  BY DEF Tidy, AnsweredOnce
<1>5. ASSUME NEW k \in DOMAIN after.events
      PROVE  /\ Truthful(g, after.events[k], after.allowed, cs)
             /\ after.events[k].kind = "results" => AnsweredOnce(after, pend, k)
  <2>1. CASE k = last
    <3>1. Truthful(g, event, after.allowed, cs)
      BY <1>3 DEF Truthful
    <3>2. AnsweredOnce(after, pend, k)
      BY <1>2, <1>3, <1>4, <2>1 DEF AnsweredOnce
    <3>3. QED
      BY <1>2, <2>1, <3>1, <3>2
  <2>2. CASE k \in DOMAIN q
    <3>1. /\ Truthful(g, q[k], kid.allowed, cs)
          /\ q[k].kind = "results" => AnsweredOnce(kid, pend, k)
      BY <2>2 DEF Tidy
    <3>2. k \in 1..Len(q) + 1
      BY <1>2, <2>2
    <3>3. ASSUME q[k].kind = "results", NEW i \in q[k].ids
          PROVE  /\ Learned(after.events, pend, i, k)
                 /\ i \notin after.waiting
                 /\ \A j \in DOMAIN after.events \ {k} :
                      after.events[j].kind = "results" => i \notin after.events[j].ids
      <4>1. /\ Learned(q, pend, i, k) /\ i \notin kid.waiting
            /\ \A j \in DOMAIN q \ {k} : q[j].kind = "results" => i \notin q[j].ids
        BY <3>1, <3>3 DEF AnsweredOnce
      <4>2. Learned(after.events, pend, i, k)
        BY <1>1, <3>2, <4>1, LearnedStays
      <4>3. i \notin ids
        BY <4>1
      <4>4. QED
        BY <1>2, <4>1, <4>2, <4>3
    <3>4. QED
      BY <1>2, <2>2, <3>1, <3>3 DEF AnsweredOnce
  <2>3. QED
    BY <1>2, <2>1, <2>2
<1>6. QED
  BY <1>3, <1>5 DEF Tidy

(* The first message is heard.  The driver learns of the calls in it, or   *)
(* forgets some of the calls it has the results of.                        *)
LEMMA TidyAfterHearing ==
  ASSUME NEW g, NEW kid \in Kid, NEW cs, NEW pend, NEW pendAfter, Tidy(g, kid, cs, pend),
         kid.events # << >>,
         \/ Head(kid.events).kind = "calls" /\ pendAfter = pend \cup Head(kid.events).ids
         \/ /\ Head(kid.events).kind = "results"
            /\ pend \subseteq pendAfter \cup Head(kid.events).ids,
         NEW after, after.events = Tail(kid.events), after.allowed = kid.allowed,
         after.waiting = kid.waiting
  PROVE  Tidy(g, after, cs, pendAfter)
<1> DEFINE q == kid.events
           t == after.events
<1>1. q \in Seq(Event)
  BY DEF Kid
<1>2. /\ Len(q) \in Nat \ {0} /\ DOMAIN q = 1..Len(q) /\ Head(q) = q[1] /\ Len(t) = Len(q) - 1
      /\ \A j \in DOMAIN t : t[j] = q[j + 1] /\ j + 1 \in DOMAIN q /\ j \in Nat \ {0}
      /\ \A j \in DOMAIN q : j # 1 => j - 1 \in DOMAIN t /\ t[j - 1] = q[j] /\ j \in Nat
  BY <1>1, Shortened
<1>3. 1 \in DOMAIN q /\ Len(t) + 1 \in Nat /\ Len(q) + 1 = Len(t) + 2
  BY <1>2
<1> HIDE DEF q, t
<1>4. ASSUME NEW i, NEW n \in Nat, Learned(q, pend, i, n + 1),
             q[1].kind = "results" => i \notin q[1].ids
      PROVE  Learned(t, pendAfter, i, n)
  <2>1. CASE i \in pend
    BY <1>2, <1>4, <2>1 DEF Learned, q
  <2>2. ASSUME NEW j \in DOMAIN q, j < n + 1, q[j].kind = "calls", i \in q[j].ids
        PROVE  Learned(t, pendAfter, i, n)
    <3>1. CASE j = 1
      BY <1>2, <2>2, <3>1 DEF Learned, q
    <3>2. CASE j # 1
      <4>1. j - 1 \in DOMAIN t /\ t[j - 1] = q[j] /\ j - 1 < n
        BY <1>2, <2>2, <3>2
      <4>2. QED
        BY <2>2, <4>1 DEF Learned
    <3>3. QED
      BY <3>1, <3>2
  <2>3. QED
    BY <1>4, <2>1, <2>2 DEF Learned
<1>5. /\ \A i \in kid.waiting : Made(g, cs, i) /\ Learned(q, pend, i, Len(q) + 1)
      /\ \A k \in DOMAIN q : /\ Truthful(g, q[k], kid.allowed, cs)
                             /\ q[k].kind = "results" => AnsweredOnce(kid, pend, k)
  BY DEF Tidy, q
<1>6. \A k \in DOMAIN q : q[k].kind = "results" =>
        \A i \in q[k].ids :
          /\ Learned(q, pend, i, k) /\ i \notin kid.waiting
          /\ \A j \in DOMAIN q \ {k} : q[j].kind = "results" => i \notin q[j].ids
  BY <1>5 DEF AnsweredOnce, q
<1>7. ASSUME NEW i \in after.waiting
      PROVE  Made(g, cs, i) /\ Learned(t, pendAfter, i, Len(t) + 1)
  <2>1. q[1].kind = "results" => i \notin q[1].ids
    BY <1>3, <1>6, <1>7
  <2>2. Learned(q, pend, i, (Len(t) + 1) + 1)
    <3>1. (Len(t) + 1) + 1 = Len(q) + 1
      BY <1>2
    <3>2. QED
      BY <1>5, <3>1
  <2>3. QED
    BY <1>3, <1>4, <1>5, <2>1, <2>2
<1>8. ASSUME NEW k \in DOMAIN t
      PROVE  /\ Truthful(g, t[k], after.allowed, cs)
             /\ t[k].kind = "results" => AnsweredOnce(after, pendAfter, k)
  <2>1. t[k] = q[k + 1] /\ k + 1 \in DOMAIN q /\ k \in Nat \ {0} /\ k + 1 # 1
    BY <1>2
  <2>2. ASSUME t[k].kind = "results", NEW i \in t[k].ids
        PROVE  /\ Learned(t, pendAfter, i, k)
               /\ i \notin after.waiting
               /\ \A j \in DOMAIN t \ {k} : t[j].kind = "results" => i \notin t[j].ids
    <3>1. /\ Learned(q, pend, i, k + 1) /\ i \notin kid.waiting
          /\ \A j \in DOMAIN q \ {k + 1} : q[j].kind = "results" => i \notin q[j].ids
      BY <1>6, <2>1, <2>2
    <3>2. q[1].kind = "results" => i \notin q[1].ids
      BY <1>3, <2>1, <3>1
    <3>3. Learned(t, pendAfter, i, k)
      BY <1>4, <2>1, <3>1, <3>2
    <3>4. \A j \in DOMAIN t \ {k} : j + 1 \in DOMAIN q \ {k + 1} /\ t[j] = q[j + 1]
      BY <1>2, <2>1
    <3>5. QED
      BY <3>1, <3>3, <3>4
  <2>3. QED
    BY <1>5, <2>1, <2>2 DEF AnsweredOnce, t
<1>9. QED
  BY <1>7, <1>8 DEF Tidy, t

-----------------------------------------------------------------------------
(* What the steps of one child leave of what is said of the others, of the *)
(* requests and of the live child.                                         *)

(* Child g alone changes, to this record. *)
Becomes(g, kid) ==
  /\ kids' \in [Generations -> Kid] /\ kids'[g] = kid
  /\ \A h \in Generations \ {g} : kids'[h] = kids[h]

LEMMA KidSet ==
  ASSUME TypeOK, NEW g \in Generations, NEW kid \in Kid, kids' = [kids EXCEPT ![g] = kid]
  PROVE  Becomes(g, kid)
  BY DEF TypeOK, Becomes

LEMMA SaysChanges ==
  ASSUME TypeOK, NEW g \in Generations, NEW event \in Event, NEW waiting \in SUBSET CallIds,
         Says(g, event, waiting)
  PROVE  \E kid \in Kid :
           /\ Becomes(g, kid)
           /\ kid.events = Append(kids[g].events, event) /\ kid.waiting = waiting
           /\ kid.allowed = kids[g].allowed /\ kid.told = kids[g].told
<1> DEFINE kid == [kids[g] EXCEPT !.events = Append(@, event), !.waiting = waiting]
<1>1. kids[g] \in Kid
  BY DEF TypeOK
<1>2. Append(kids[g].events, event) \in Seq(Event)
  BY <1>1 DEF Kid
<1>3. /\ kid \in Kid
      /\ kid.events = Append(kids[g].events, event) /\ kid.waiting = waiting
      /\ kid.allowed = kids[g].allowed /\ kid.told = kids[g].told
  BY <1>1, <1>2 DEF Kid
<1>4. kids' = [kids EXCEPT ![g] = kid]
  BY DEF Says
<1> HIDE DEF kid
<1>5. Becomes(g, kid)
  BY <1>3, <1>4, KidSet
<1>6. QED
  BY <1>3, <1>5

LEMMA HeardChanges ==
  ASSUME TypeOK, NEW g \in Generations, kids[g].events # << >>, kids' = Heard(g)
  PROVE  \E kid \in Kid :
           /\ Becomes(g, kid)
           /\ kid.events = Tail(kids[g].events) /\ kid.waiting = kids[g].waiting
           /\ kid.allowed = kids[g].allowed /\ kid.told = kids[g].told
<1> DEFINE kid == [kids[g] EXCEPT !.events = Tail(@)]
<1>1. kids[g] \in Kid
  BY DEF TypeOK
<1>2. Tail(kids[g].events) \in Seq(Event)
  BY <1>1 DEF Kid
<1>3. /\ kid \in Kid
      /\ kid.events = Tail(kids[g].events) /\ kid.waiting = kids[g].waiting
      /\ kid.allowed = kids[g].allowed /\ kid.told = kids[g].told
  BY <1>1, <1>2 DEF Kid
<1>4. kids' = [kids EXCEPT ![g] = kid]
  BY DEF Heard
<1> HIDE DEF kid
<1>5. Becomes(g, kid)
  BY <1>3, <1>4, KidSet
<1>6. QED
  BY <1>3, <1>5

(* A child that is up, or of which something is still to be heard, was     *)
(* spawned.                                                                *)
LEMMA WasSpawned ==
  ASSUME TypeOK, Unspawned, NEW g \in Generations, Up(g) \/ kids[g].events # << >>
  PROVE  g <= generation
<1>1. kids[g] # NoKid
  BY DEF Up, NoKid
<1>2. g \in Nat /\ generation \in Nat
  BY BoundsAssumption DEF TypeOK, Generations
<1>3. QED
  BY <1>1, <1>2 DEF Unspawned

LEMMA NothingIsSequence ==
  ASSUME NEW S
  PROVE  << >> \in Seq(S)
  OBVIOUS

LEMMA NoKidTyped ==
  /\ NoKid \in Kid /\ NoKid.events = << >> /\ NoKid.waiting = {} /\ NoKid.told = {}
  /\ NoKid.allowed = {}
<1> DEFINE none == << >>
<1>1. none \in Seq(Event)
  BY NothingIsSequence
<1>2. NoKid = [life |-> "none", allowed |-> {}, told |-> {}, waiting |-> {}, events |-> none]
  BY DEF NoKid
<1>3. none = << >>
  OBVIOUS
<1> HIDE DEF none
<1>4. /\ NoKid \in Kid /\ NoKid.events = none /\ NoKid.waiting = {} /\ NoKid.told = {}
      /\ NoKid.allowed = {}
  BY <1>1, <1>2 DEF Kid
<1>5. QED
  BY <1>3, <1>4

SameAllowed == \A g \in Generations : kids'[g].allowed = kids[g].allowed

LEMMA CallTyped ==
  ASSUME TypeOK, NEW i \in DOMAIN calls
  PROVE  /\ calls[i].by \in Generations /\ calls[i].asks \in Invocation
         /\ i \in CallIds
<1> DEFINE Called == [by: Generations, asks: Invocation]
<1>1. calls \in Seq(Called) /\ Len(calls) \in Nat /\ Len(calls) <= MaxCalls
  BY DEF TypeOK
<1> HIDE DEF Called
<1>2. calls[i] \in Called /\ i \in 1..Len(calls)
  BY <1>1
<1>3. i \in CallIds
  BY <1>1, <1>2, BoundsAssumption DEF CallIds
<1>4. QED
  BY <1>2, <1>3 DEF Called

LEMMA RowStays ==
  ASSUME TypeOK, NEW row, RowOf(row, calls, kids, generation), Extends(calls, calls'),
         SameAllowed
  PROVE  RowOf(row, calls', kids', generation)
<1>1. row.call \in DOMAIN calls' /\ calls'[row.call] = calls[row.call]
  BY DEF RowOf, Extends
<1>2. calls[row.call].by \in Generations
  <2>1. row.call \in DOMAIN calls
    BY DEF RowOf
  <2>2. QED
    BY <2>1, CallTyped
<1>3. generation \in Generations
  BY DEF TypeOK
<1>4. QED
  BY <1>1, <1>2, <1>3 DEF RowOf, SameAllowed

LEMMA OthersStay ==
  ASSUME IInv, NEW g \in Generations, g <= generation, NEW kid, Becomes(g, kid),
         kid.allowed = kids[g].allowed, kid.told = kids[g].told,
         generation' = generation, Extends(calls, calls')
  PROVE  /\ Unspawned' /\ SameAllowed /\ Told'
         /\ approvals' = approvals => Rows'
         /\ approvals' = approvals /\ unrecorded' = unrecorded /\ unasked' = unasked => Excused'
<1>0. TypeOK /\ generation \in Generations
  BY DEF IInv, TypeOK
<1>1. \A h \in Generations : kids'[h].allowed = kids[h].allowed /\ kids'[h].told = kids[h].told
  BY DEF Becomes
<1>2. Unspawned'
  <2>1. SUFFICES ASSUME NEW h \in Generations, h > generation PROVE kids'[h] = NoKid
    BY DEF Unspawned
  <2>2. h # g
    BY <1>0, <2>1, BoundsAssumption DEF Generations
  <2>3. QED
    BY <2>1, <2>2 DEF Becomes, IInv, Unspawned
<1>3. SameAllowed
  BY <1>1 DEF SameAllowed
<1>4. Told'
  BY <1>0, <1>1 DEF IInv, Told
<1>5. ASSUME approvals' = approvals PROVE Rows'
  <2>1. \A n \in DOMAIN approvals : RowOf(approvals[n], calls, kids, generation)
    BY DEF IInv, Rows
  <2>2. \A n \in DOMAIN approvals : RowOf(approvals[n], calls', kids', generation)
    BY <1>0, <1>3, <2>1, RowStays
  <2>3. QED
    BY <1>5, <2>2 DEF Rows
<1>6. approvals' = approvals /\ unrecorded' = unrecorded /\ unasked' = unasked => Excused'
  BY DEF IInv, Excused, Extends
<1>7. QED
  BY <1>2, <1>3, <1>4, <1>5, <1>6

(* The child that changes is tidy, and so are all. *)
LEMMA ChildrenStay ==
  ASSUME Children, NEW g \in Generations, NEW kid, Becomes(g, kid), Extends(calls, calls'),
         \A h \in Generations \ {g} : \A i \in DOMAIN pendingCalls :
            Made(h, calls, i) => i \in DOMAIN pendingCalls',
         Tidy(g, kid, calls', DOMAIN pendingCalls')
  PROVE  Children'
<1>1. ASSUME NEW h \in Generations \ {g}
      PROVE  Tidy(h, kids'[h], calls', DOMAIN pendingCalls')
  <2>1. Tidy(h, kids[h], calls, DOMAIN pendingCalls) /\ kids'[h] = kids[h]
    BY DEF Children, Becomes
  <2>2. QED
    BY <2>1, TidyStays
<1>2. QED
  BY <1>1 DEF Children, Becomes

LEMMA SameExtends ==
  ASSUME calls' = calls
  PROVE  Extends(calls, calls')
  BY DEF Extends

-----------------------------------------------------------------------------
(* The child calls, is answered, dies. *)

LEMMA Concatenated ==
  ASSUME NEW S, NEW q \in Seq(S), NEW r \in Seq(S),
         NEW i \in Len(q) + 1 .. Len(q) + Len(r)
  PROVE  (q \o r)[i] = r[i - Len(q)]
  OBVIOUS

(* The calls of one message are new, and the child's. *)
LEMMA CallsAdded ==
  ASSUME TypeOK, NEW g \in Generations, NEW n \in Nat, NEW asked \in [1..n -> Asked],
         NEW ids, ids = Len(calls) + 1 .. Len(calls) + Len(asked),
         Len(calls) + Len(asked) <= MaxCalls,
         calls' = calls \o [i \in DOMAIN asked |-> [by |-> g, asks |-> asked[i]]]
  PROVE  /\ calls' \in Seq([by: Generations, asks: Invocation]) /\ Len(calls') <= MaxCalls
         /\ Extends(calls, calls')
         /\ ids \subseteq CallIds /\ ids \cap DOMAIN calls = {}
         /\ \A i \in ids : Made(g, calls', i)
<1> DEFINE Called == [by: Generations, asks: Invocation]
           new == [i \in 1..n |-> [by |-> g, asks |-> asked[i]]]
<1>1. calls \in Seq(Called) /\ Len(calls) \in Nat
  BY DEF TypeOK
<1>2. asked \in Seq(Asked) /\ Len(asked) = n /\ DOMAIN asked = 1..n
  OBVIOUS
<1>3. new \in Seq(Called)
  BY AskedAssumption
<1>4. calls' = calls \o new
  BY <1>2
<1>5. Len(new) = n /\ \A i \in 1..n : new[i].by = g
  OBVIOUS
<1> HIDE DEF new, Called
<1>6. calls' \in Seq(Called) /\ Len(calls') = Len(calls) + n
  BY <1>1, <1>3, <1>4, <1>5
<1>7. DOMAIN calls = 1..Len(calls) /\ DOMAIN calls' = 1..Len(calls) + n
  BY <1>1, <1>6
<1>8. \A i \in DOMAIN calls : calls'[i] = calls[i]
  BY <1>1, <1>3, <1>4, <1>7
<1>9. \A i \in ids : i \in DOMAIN calls' /\ calls'[i].by = g
  <2>1. SUFFICES ASSUME NEW i \in ids PROVE i \in DOMAIN calls' /\ calls'[i].by = g
    OBVIOUS
  <2>2. i \in Len(calls) + 1 .. Len(calls) + n
    BY <1>2, <2>1
  <2>3. i - Len(calls) \in 1..n /\ i \in DOMAIN calls'
    BY <1>1, <1>7, <2>2
  <2>4. calls'[i] = new[i - Len(calls)]
    BY <1>1, <1>3, <1>4, <1>5, <2>2, Concatenated
  <2>5. QED
    BY <1>5, <2>3, <2>4
<1>10. ids \subseteq CallIds /\ ids \cap DOMAIN calls = {}
  BY <1>1, <1>2, <1>7, BoundsAssumption DEF CallIds
<1>11. QED
  BY <1>2, <1>6, <1>7, <1>8, <1>9, <1>10 DEF Extends, Made, Called

LEMMA CallKeeps ==
  ASSUME IInv, NEW g \in Generations, NEW n \in Nat, NEW asked \in [1..n -> Asked],
         Call(g, asked)
  PROVE  IInv'
<1> DEFINE ids == Len(calls) + 1 .. Len(calls) + Len(asked)
           event == [kind |-> "calls", ids |-> ids, refused |-> {}]
<1>0. TypeOK /\ Unspawned /\ Children /\ Remembers /\ kids[g] \in Kid /\ Up(g)
  BY DEF IInv, TypeOK, Call
<1>1. /\ Len(calls) + Len(asked) <= MaxCalls
      /\ calls' = calls \o [i \in DOMAIN asked |-> [by |-> g, asks |-> asked[i]]]
      /\ Says(g, event, kids[g].waiting \cup ids)
      /\ UNCHANGED <<generation, pendingCalls, approvals, unrecorded, unasked>>
  BY DEF Call
<1>2. ids = Len(calls) + 1 .. Len(calls) + Len(asked)
  OBVIOUS
<1>3. event.kind = "calls" /\ event.ids = ids /\ event.refused = {}
  OBVIOUS
<1> HIDE DEF ids
<1>4. /\ calls' \in Seq([by: Generations, asks: Invocation]) /\ Len(calls') <= MaxCalls
      /\ Extends(calls, calls')
      /\ ids \subseteq CallIds /\ ids \cap DOMAIN calls = {}
      /\ \A i \in ids : Made(g, calls', i)
  BY <1>0, <1>1, <1>2, CallsAdded
<1>5. event \in Event /\ kids[g].waiting \cup ids \in SUBSET CallIds
  BY <1>0, <1>4 DEF Event, Kid
<1> HIDE DEF event
<1>6. PICK kid \in Kid :
        /\ Becomes(g, kid)
        /\ kid.events = Append(kids[g].events, event) /\ kid.waiting = kids[g].waiting \cup ids
        /\ kid.allowed = kids[g].allowed /\ kid.told = kids[g].told
  BY <1>0, <1>1, <1>5, SaysChanges
<1>7. Tidy(g, kids[g], calls, DOMAIN pendingCalls)
  BY <1>0 DEF Children
<1>8. Tidy(g, kids[g], calls', DOMAIN pendingCalls)
  BY <1>4, <1>7, TidyStays
<1>9. \A k \in DOMAIN kids[g].events : kids[g].events[k].ids \cap ids = {}
  BY <1>4, <1>7 DEF Tidy, Truthful, Made
<1>10. Tidy(g, kid, calls', DOMAIN pendingCalls)
  BY <1>0, <1>3, <1>4, <1>6, <1>8, <1>9, TidyAfterCalls
<1>11. Children'
  BY <1>0, <1>1, <1>4, <1>6, <1>10, ChildrenStay
<1>12. Unspawned' /\ Told' /\ Rows' /\ Excused'
  BY <1>0, <1>1, <1>4, <1>6, WasSpawned, OthersStay
<1>13. Remembers'
  BY <1>0, <1>1, <1>4 DEF Remembers, Extends
<1>14. TypeOK'
  BY <1>0, <1>1, <1>4, <1>6 DEF TypeOK, Becomes, Extends
<1>15. QED
  BY <1>11, <1>12, <1>13, <1>14 DEF IInv

LEMMA ReportKeeps ==
  ASSUME IInv, NEW g \in Generations, NEW ids \in SUBSET kids[g].waiting, Report(g, ids)
  PROVE  IInv'
<1> DEFINE refused == {i \in ids : ~Permits(kids[g].allowed, calls[i].asks)}
           event == [kind |-> "results", ids |-> ids, refused |-> refused]
<1>0. TypeOK /\ Unspawned /\ Children /\ Remembers /\ kids[g] \in Kid /\ Up(g)
  BY DEF IInv, TypeOK, Report
<1>1. /\ Says(g, event, kids[g].waiting \ ids)
      /\ UNCHANGED <<calls, generation, pendingCalls, approvals, unrecorded, unasked>>
  BY DEF Report
<1>2. /\ event.kind = "results" /\ event.ids = ids /\ event.refused \subseteq ids
      /\ \A i \in event.refused : ~Permits(kids[g].allowed, calls[i].asks)
  OBVIOUS
<1>3. event \in Event /\ kids[g].waiting \ ids \in SUBSET CallIds
  BY <1>0 DEF Event, Kid
<1> HIDE DEF event
<1>4. PICK kid \in Kid :
        /\ Becomes(g, kid)
        /\ kid.events = Append(kids[g].events, event) /\ kid.waiting = kids[g].waiting \ ids
        /\ kid.allowed = kids[g].allowed /\ kid.told = kids[g].told
  BY <1>0, <1>1, <1>3, SaysChanges
<1>5. Tidy(g, kids[g], calls, DOMAIN pendingCalls)
  BY <1>0 DEF Children
<1>6. Tidy(g, kid, calls, DOMAIN pendingCalls)
  BY <1>0, <1>2, <1>4, <1>5, TidyAfterResults
<1>7. Extends(calls, calls')
  BY <1>1, SameExtends
<1>8. Children'
  BY <1>0, <1>1, <1>4, <1>6, <1>7, ChildrenStay
<1>9. Unspawned' /\ Told' /\ Rows' /\ Excused'
  BY <1>0, <1>1, <1>4, <1>7, WasSpawned, OthersStay
<1>10. Remembers' /\ TypeOK'
  BY <1>0, <1>1, <1>4 DEF Remembers, TypeOK, Becomes
<1>11. QED
  BY <1>8, <1>9, <1>10 DEF IInv

LEMMA DieKeeps ==
  ASSUME IInv, NEW g \in Generations, Die(g)
  PROVE  IInv'
<1> DEFINE kid == [kids[g] EXCEPT !.life = "dead", !.waiting = {}]
<1>0. TypeOK /\ Unspawned /\ Children /\ Remembers /\ kids[g] \in Kid /\ Up(g)
  BY DEF IInv, TypeOK, Die
<1>1. kids' = [kids EXCEPT ![g] = kid]
      /\ UNCHANGED <<calls, generation, pendingCalls, approvals, unrecorded, unasked>>
  BY DEF Die
<1>2. /\ kid \in Kid /\ kid.events = kids[g].events /\ kid.waiting = {}
      /\ kid.allowed = kids[g].allowed /\ kid.told = kids[g].told
  BY <1>0 DEF Kid
<1> HIDE DEF kid
<1>3. Becomes(g, kid)
  BY <1>0, <1>1, <1>2, KidSet
<1>4. Tidy(g, kids[g], calls, DOMAIN pendingCalls)
  BY <1>0 DEF Children
<1>5. Tidy(g, kid, calls, DOMAIN pendingCalls)
  BY <1>2, <1>4, TidyQuiet
<1>6. Extends(calls, calls')
  BY <1>1, SameExtends
<1>7. Children'
  BY <1>0, <1>1, <1>3, <1>5, <1>6, ChildrenStay
<1>8. Unspawned' /\ Told' /\ Rows' /\ Excused'
  BY <1>0, <1>1, <1>2, <1>3, <1>6, WasSpawned, OthersStay
<1>9. Remembers' /\ TypeOK'
  BY <1>0, <1>1, <1>3 DEF Remembers, TypeOK, Becomes
<1>10. QED
  BY <1>7, <1>8, <1>9 DEF IInv

-----------------------------------------------------------------------------
(* The supervisor hears it. *)

(* What is known of the first message of a child. *)
LEMMA FirstMessage ==
  ASSUME IInv, NEW g \in Generations, kids[g].events # << >>
  PROVE  LET event == Head(kids[g].events)
         IN /\ event \in Event
            /\ Truthful(g, event, kids[g].allowed, calls)
            /\ event.kind = "results" => event.ids \subseteq DOMAIN pendingCalls
<1> DEFINE q == kids[g].events
<1>1. q \in Seq(Event)
  BY DEF IInv, TypeOK, Kid
<1>2. 1 \in DOMAIN q /\ Head(q) = q[1] /\ q[1] \in Event /\ DOMAIN q = 1..Len(q) /\ Len(q) \in Nat
  BY <1>1
<1>3. Tidy(g, kids[g], calls, DOMAIN pendingCalls)
  BY DEF IInv, Children
<1>4. Truthful(g, q[1], kids[g].allowed, calls)
  BY <1>2, <1>3 DEF Tidy
<1>5. ASSUME q[1].kind = "results", NEW i \in q[1].ids
      PROVE  i \in DOMAIN pendingCalls
  <2>1. Learned(q, DOMAIN pendingCalls, i, 1)
    BY <1>2, <1>3, <1>5 DEF Tidy, AnsweredOnce
  <2>2. \A j \in DOMAIN q : ~(j < 1)
    BY <1>2
  <2>3. QED
    BY <2>1, <2>2 DEF Learned
<1>6. QED
  BY <1>2, <1>4, <1>5

LEMMA HearCallsKeeps ==
  ASSUME IInv, NEW g \in Generations, HearCalls(g)
  PROVE  IInv'
<1> DEFINE event == Head(kids[g].events)
<1>0. /\ TypeOK /\ Unspawned /\ Children /\ Remembers /\ kids[g] \in Kid
      /\ kids[g].events # << >> /\ event.kind = "calls"
  BY DEF IInv, TypeOK, HearCalls
<1>1. /\ pendingCalls' = [i \in DOMAIN pendingCalls \cup event.ids |->
                            IF i \in event.ids THEN calls[i].asks ELSE pendingCalls[i]]
      /\ kids' = Heard(g)
      /\ UNCHANGED <<calls, generation, approvals, unrecorded, unasked>>
  BY DEF HearCalls, Remember
<1>2. PICK kid \in Kid :
        /\ Becomes(g, kid)
        /\ kid.events = Tail(kids[g].events) /\ kid.waiting = kids[g].waiting
        /\ kid.allowed = kids[g].allowed /\ kid.told = kids[g].told
  BY <1>0, <1>1, HeardChanges
<1>3. Truthful(g, event, kids[g].allowed, calls)
  BY <1>0, FirstMessage
<1>4. DOMAIN pendingCalls' = DOMAIN pendingCalls \cup event.ids
      /\ event.ids \subseteq DOMAIN calls
  BY <1>1, <1>3 DEF Truthful, Made
<1>5. Tidy(g, kids[g], calls, DOMAIN pendingCalls)
  BY <1>0 DEF Children
<1>6. Tidy(g, kid, calls, DOMAIN pendingCalls')
  BY <1>0, <1>2, <1>4, <1>5, TidyAfterHearing
<1>7. Extends(calls, calls')
  BY <1>1, SameExtends
<1>8. Children'
  BY <1>0, <1>1, <1>2, <1>4, <1>6, <1>7, ChildrenStay
<1>9. Unspawned' /\ Told' /\ Rows' /\ Excused'
  BY <1>0, <1>1, <1>2, <1>7, WasSpawned, OthersStay
<1>10. Remembers'
  BY <1>0, <1>1, <1>4 DEF Remembers
<1>11. pendingCalls' \in [DOMAIN pendingCalls' -> Invocation]
       /\ DOMAIN pendingCalls' \subseteq DOMAIN calls
  BY <1>0, <1>1, <1>4, CallTyped DEF Remembers
<1>12. TypeOK'
  BY <1>0, <1>1, <1>2, <1>11 DEF TypeOK, Becomes
<1>13. QED
  BY <1>8, <1>9, <1>10, <1>12 DEF IInv

(* The request made from what the driver remembers of a refused call. *)
LEMMA RequestIsTrue ==
  ASSUME IInv, NEW id \in DOMAIN pendingCalls,
         calls[id].by = generation,
         ~Permits(kids[generation].allowed, calls[id].asks)
  PROVE  /\ Request(id) \in Approval /\ Request(id).call = id
         /\ RowOf(Request(id), calls, kids, generation)
<1>1. /\ TypeOK /\ generation \in Generations /\ id \in DOMAIN calls
      /\ Paired(id) = calls[id].asks
  BY DEF IInv, TypeOK, Remembers, Paired
<1>2. calls[id].asks \in Invocation /\ id \in CallIds
  BY <1>1, CallTyped
<1>3. /\ GrantFor(calls[id].asks) \in Invocation
      /\ GrantVariants(calls[id].asks) \subseteq Invocation
  BY <1>2, EntriesAreInvocations
<1>4. kids[generation].allowed \subseteq Invocation
  BY <1>1 DEF TypeOK, Kid
<1>5. Request(id) \in Approval /\ Request(id).call = id
  BY <1>1, <1>2, <1>3, <1>4 DEF Request, Approval
<1>6. generation <= generation
  BY <1>1, BoundsAssumption DEF Generations
<1>7. RowOf(Request(id), calls, kids, generation)
  BY <1>1, <1>6 DEF Request, RowOf
<1>8. QED
  BY <1>5, <1>7

(* What is filed, if the insert does not fail: nothing, or one request for  *)
(* a refusal of the live child.                                            *)
LEMMA Filed ==
  ASSUME IInv, NEW g \in Generations, kids[g].events # << >>,
         NEW event, event = Head(kids[g].events), event.kind = "results",
         NEW filed, filed = IF IfCurrent(g) THEN Reported(event) ELSE {},
         approvals' = approvals \o SetToSeq({Request(id) : id \in filed})
  PROVE  \/ /\ approvals' = approvals /\ filed = {}
            /\ event.refused = {} \/ g # generation
         \/ \E first \in event.refused :
              /\ filed = {first} /\ g = generation
              /\ approvals' = Append(approvals, Request(first))
              /\ Request(first) \in Approval /\ Request(first).call = first
              /\ RowOf(Request(first), calls, kids, generation)
<1>0. approvals \in Seq(Approval) /\ event \in Event
  BY FirstMessage DEF IInv, TypeOK
<1>1. CASE filed = {}
  <2>1. {Request(id) : id \in filed} = {}
    BY <1>1
  <2>2. approvals' = approvals \o << >>
    BY <2>1, NoneAsSequence
  <2>3. approvals' = approvals
    BY <1>0, <2>2
  <2>4. event.refused = {} \/ g # generation
    BY <1>0, <1>1, OneIsReported DEF IfCurrent
  <2>5. QED
    BY <1>1, <2>3, <2>4
<1>2. CASE filed # {}
  <2>1. g = generation /\ filed = Reported(event) /\ event.refused # {}
    BY <1>2 DEF IfCurrent, Reported
  <2>2. PICK first \in event.refused : filed = {first}
    BY <1>0, <2>1, OneIsReported
  <2>3. {Request(id) : id \in filed} = {Request(first)}
    BY <2>2
  <2>4. approvals' = approvals \o <<Request(first)>>
    BY <2>3, OneAsSequence
  <2>5. /\ first \in DOMAIN pendingCalls /\ calls[first].by = generation
        /\ ~Permits(kids[generation].allowed, calls[first].asks)
    BY <2>1, FirstMessage DEF Truthful, Made
  <2>6. /\ Request(first) \in Approval /\ Request(first).call = first
        /\ RowOf(Request(first), calls, kids, generation)
    BY <2>5, RequestIsTrue
  <2> DEFINE row == Request(first)
  <2> HIDE DEF row
  <2>7. approvals' = Append(approvals, row)
    <3>1. approvals' = approvals \o <<row>> /\ row \in Approval
      BY <2>4, <2>6 DEF row
    <3>2. approvals \o <<row>> = Append(approvals, row)
      BY <1>0, <3>1
    <3>3. QED
      BY <3>1, <3>2
  <2>8. QED
    BY <2>1, <2>2, <2>6, <2>7 DEF row
<1>3. QED
  BY <1>1, <1>2

LEMMA HearResultsKeeps ==
  ASSUME IInv, NEW g \in Generations, NEW fails \in BOOLEAN, HearResults(g, fails)
  PROVE  IInv'
<1> DEFINE event == Head(kids[g].events)
           reported == IF IfCurrent(g) THEN Reported(event) ELSE {}
           filed == IF fails THEN {} ELSE reported
           rest == DOMAIN pendingCalls \ Reported(event)
<1>0. /\ TypeOK /\ Unspawned /\ Children /\ Remembers /\ kids[g] \in Kid
      /\ kids[g].events # << >> /\ event.kind = "results"
      /\ approvals \in Seq(Approval)
  BY DEF IInv, TypeOK, HearResults
<1>1. /\ pendingCalls' = [i \in rest |-> pendingCalls[i]]
      /\ approvals' = approvals \o SetToSeq({Request(id) : id \in filed})
      /\ unasked' = unasked \cup
           {[call |-> i, beside |-> event.refused] : i \in event.refused \ filed}
      /\ unrecorded' = unrecorded \cup (reported \ filed)
      /\ fails => reported # {}
      /\ kids' = Heard(g)
      /\ UNCHANGED <<calls, generation>>
  BY DEF HearResults
<1>2. PICK kid \in Kid :
        /\ Becomes(g, kid)
        /\ kid.events = Tail(kids[g].events) /\ kid.waiting = kids[g].waiting
        /\ kid.allowed = kids[g].allowed /\ kid.told = kids[g].told
  BY <1>0, <1>1, HeardChanges
<1>3. /\ event \in Event /\ Truthful(g, event, kids[g].allowed, calls)
      /\ event.ids \subseteq DOMAIN pendingCalls
  BY <1>0, FirstMessage
<1>4. DOMAIN pendingCalls' = rest /\ Reported(event) \subseteq event.ids
  BY <1>1, <1>3 DEF Truthful, Reported
<1>5. Tidy(g, kids[g], calls, DOMAIN pendingCalls)
  BY <1>0 DEF Children
<1>6. DOMAIN pendingCalls \subseteq DOMAIN pendingCalls' \cup event.ids
  BY <1>4
<1>7. Tidy(g, kid, calls, DOMAIN pendingCalls')
  BY <1>0, <1>2, <1>5, <1>6, TidyAfterHearing
<1>8. Extends(calls, calls')
  BY <1>1, SameExtends
<1>9. \A h \in Generations \ {g} : \A i \in DOMAIN pendingCalls :
        Made(h, calls, i) => i \in DOMAIN pendingCalls'
  BY <1>3, <1>4 DEF Made, Truthful
<1>10. Children'
  BY <1>0, <1>1, <1>2, <1>7, <1>8, <1>9, ChildrenStay
<1>11. g <= generation /\ generation' = generation
  BY <1>0, <1>1, WasSpawned
<1>12. Unspawned' /\ Told' /\ SameAllowed
  BY <1>0, <1>2, <1>8, <1>11, OthersStay
<1>13. Remembers' /\ pendingCalls' \in [rest -> Invocation] /\ rest \subseteq DOMAIN calls
  BY <1>0, <1>1, CallTyped DEF Remembers
<1>14. \A i \in event.refused : i \in DOMAIN calls /\ calls[i].by = g /\ i \in CallIds
  BY <1>0, <1>3, CallTyped DEF Truthful, Made
<1>15. unasked' \subseteq [call: CallIds, beside: SUBSET CallIds]
  BY <1>0, <1>1, <1>14 DEF TypeOK
<1>16. reported \subseteq event.refused /\ unrecorded' \subseteq CallIds
  <2>1. reported \subseteq event.refused
    BY DEF Reported
  <2>2. QED
    BY <1>0, <1>1, <1>14, <2>1 DEF TypeOK
<1>17. \/ /\ approvals' = approvals /\ filed = {}
          /\ \/ event.refused = {} \/ g # generation
             \/ reported \ filed # {} /\ reported \subseteq event.refused
       \/ \E first \in event.refused :
            /\ filed = {first} /\ g = generation
            /\ approvals' = Append(approvals, Request(first))
            /\ Request(first) \in Approval /\ Request(first).call = first
            /\ RowOf(Request(first), calls, kids, generation)
  <2>1. /\ event = Head(kids[g].events)
        /\ reported = IF IfCurrent(g) THEN Reported(event) ELSE {}
        /\ filed = IF fails THEN {} ELSE reported
    OBVIOUS
  <2> HIDE DEF event, reported, filed
  <2>2. CASE fails
    <3>1. filed = {} /\ reported \ filed # {} /\ reported \subseteq event.refused
      BY <1>1, <1>16, <2>1, <2>2
    <3>2. {Request(id) : id \in filed} = {}
      BY <3>1
    <3>3. approvals' = approvals \o << >>
      BY <1>1, <3>2, NoneAsSequence
    <3>4. approvals' = approvals
      BY <1>0, <3>3
    <3>5. QED
      BY <3>1, <3>4
  <2>3. CASE ~fails
    <3>1. filed = IF IfCurrent(g) THEN Reported(event) ELSE {}
      BY <2>1, <2>3
    <3>2. event = Head(kids[g].events) /\ kids[g].events # << >> /\ event.kind = "results"
      BY <1>0, <2>1
    <3>3. approvals' = approvals \o SetToSeq({Request(id) : id \in filed})
      BY <1>1
    <3>4. \/ /\ approvals' = approvals /\ filed = {}
             /\ event.refused = {} \/ g # generation
          \/ \E first \in event.refused :
               /\ filed = {first} /\ g = generation
               /\ approvals' = Append(approvals, Request(first))
               /\ Request(first) \in Approval /\ Request(first).call = first
               /\ RowOf(Request(first), calls, kids, generation)
      BY <2>1, <3>1, <3>2, <3>3, Filed, ZenonT(90)
    <3>5. QED
      BY <3>4
  <2>4. QED
    BY <2>2, <2>3
<1> HIDE DEF event, reported, filed, rest
<1>18. \A n \in DOMAIN approvals : RowOf(approvals[n], calls', kids', generation)
  <2>1. \A n \in DOMAIN approvals : RowOf(approvals[n], calls, kids, generation)
    BY DEF IInv, Rows
  <2>2. QED
    BY <1>0, <1>8, <1>12, <2>1, RowStays
<1>19. CASE /\ approvals' = approvals /\ filed = {}
            /\ \/ event.refused = {} \/ g # generation
               \/ reported \ filed # {} /\ reported \subseteq event.refused
  <2>1. Rows'
    BY <1>11, <1>18, <1>19 DEF Rows
  <2>2. Excused'
    <3>1. SUFFICES ASSUME NEW u \in unasked'
                   PROVE  /\ u.call \in DOMAIN calls /\ calls[u.call].by <= generation
                          /\ \/ calls[u.call].by < generation
                             \/ \E n \in DOMAIN approvals : approvals[n].call \in u.beside
                             \/ u.beside \cap unrecorded' # {}
      BY <1>1, <1>19 DEF Excused
    <3>2. CASE u \in unasked
      BY <1>1, <3>2 DEF IInv, Excused
    <3>3. ASSUME NEW i \in event.refused, u.call = i, u.beside = event.refused
          PROVE  /\ u.call \in DOMAIN calls /\ calls[u.call].by <= generation
                 /\ \/ calls[u.call].by < generation
                    \/ u.beside \cap unrecorded' # {}
      <4>1. u.call \in DOMAIN calls /\ calls[u.call].by = g /\ g <= generation
        BY <1>11, <1>14, <3>3
      <4>2. CASE g # generation
        <5>1. g \in Nat /\ generation \in Nat
          BY <1>0, BoundsAssumption DEF TypeOK, Generations
        <5>2. QED
          BY <4>1, <4>2, <5>1
      <4>3. CASE g = generation
        <5>1. reported \ filed # {} /\ reported \subseteq event.refused
          BY <1>19, <3>3, <4>3
        <5>2. QED
          BY <1>1, <3>3, <4>1, <5>1
      <4>4. QED
        BY <4>2, <4>3
    <3>4. u \in unasked \/ \E i \in event.refused : u.call = i /\ u.beside = event.refused
      BY <1>1, <3>1
    <3>5. QED
      BY <3>2, <3>3, <3>4
  <2>3. approvals' \in Seq(Approval)
    BY <1>0, <1>19
  <2>4. TypeOK'
    BY <1>0, <1>1, <1>2, <1>13, <1>15, <1>16, <2>3 DEF TypeOK, Becomes
  <2>5. QED
    BY <1>10, <1>12, <1>13, <2>1, <2>2, <2>4 DEF IInv
<1>20. ASSUME NEW first \in event.refused, filed = {first}, g = generation,
              approvals' = Append(approvals, Request(first)),
              Request(first) \in Approval, Request(first).call = first,
              RowOf(Request(first), calls, kids, generation)
       PROVE  IInv'
  <2> DEFINE row == Request(first)
  <2>1. RowOf(row, calls', kids', generation)
    BY <1>0, <1>8, <1>12, <1>20, RowStays
  <2>2. row \in Approval /\ row.call = first /\ approvals' = Append(approvals, row)
    BY <1>20
  <2> HIDE DEF row
  <2>3. /\ approvals' \in Seq(Approval)
        /\ DOMAIN approvals' = DOMAIN approvals \cup {Len(approvals) + 1}
        /\ \A n \in DOMAIN approvals : approvals'[n] = approvals[n]
        /\ approvals'[Len(approvals) + 1] = row
    BY <1>0, <2>2
  <2>4. Rows'
    BY <1>1, <1>18, <2>1, <2>3 DEF Rows
  <2>5. Excused'
    <3>1. SUFFICES ASSUME NEW u \in unasked'
                   PROVE  /\ u.call \in DOMAIN calls /\ calls[u.call].by <= generation
                          /\ \/ calls[u.call].by < generation
                             \/ \E n \in DOMAIN approvals' : approvals'[n].call \in u.beside
                             \/ u.beside \cap unrecorded' # {}
      BY <1>1 DEF Excused
    <3>2. CASE u \in unasked
      BY <1>1, <2>3, <3>2 DEF IInv, Excused
    <3>3. ASSUME NEW i \in event.refused, u.call = i, u.beside = event.refused
          PROVE  /\ u.call \in DOMAIN calls /\ calls[u.call].by <= generation
                 /\ \E n \in DOMAIN approvals' : approvals'[n].call \in u.beside
      BY <1>11, <1>14, <1>20, <2>2, <2>3, <3>3
    <3>4. u \in unasked \/ \E i \in event.refused : u.call = i /\ u.beside = event.refused
      BY <1>1, <3>1
    <3>5. QED
      BY <3>2, <3>3, <3>4
  <2>6. TypeOK'
    BY <1>0, <1>1, <1>2, <1>13, <1>15, <1>16, <2>3 DEF TypeOK, Becomes
  <2>7. QED
    BY <1>10, <1>12, <1>13, <2>4, <2>5, <2>6 DEF IInv
<1>21. QED
  BY <1>17, <1>19, <1>20

-----------------------------------------------------------------------------
(* The answer. *)

(* A row keeps its request, whatever is answered and heard. *)
SameRequests(rows) ==
  /\ rows \in Seq(Approval) /\ DOMAIN rows = DOMAIN approvals
  /\ \A n \in DOMAIN approvals :
       /\ rows[n].call = approvals[n].call /\ rows[n].grant = approvals[n].grant
       /\ rows[n].forms = approvals[n].forms /\ rows[n].allowlist = approvals[n].allowlist

LEMMA AnswerKeeps ==
  ASSUME IInv, NEW id \in DOMAIN approvals, NEW decision \in {"approve", "deny"},
         NEW wake \in {"underway", "lost"}, Answer(id, decision, wake)
  PROVE  IInv'
<1> DEFINE row == [approvals[id] EXCEPT !.decision = decision, !.wake = wake]
<1>0. approvals \in Seq(Approval) /\ approvals[id] \in Approval
  BY DEF IInv, TypeOK
<1>1. /\ approvals' = [approvals EXCEPT ![id] = row]
      /\ UNCHANGED <<calls, kids, generation, pendingCalls, unrecorded, unasked>>
  BY DEF Answer
<1>2. /\ row \in Approval /\ row.wake # "heard"
      /\ row.call = approvals[id].call /\ row.grant = approvals[id].grant
      /\ row.forms = approvals[id].forms /\ row.allowlist = approvals[id].allowlist
  BY <1>0 DEF Approval
<1> HIDE DEF row
<1>3. /\ approvals' \in Seq(Approval) /\ DOMAIN approvals' = DOMAIN approvals
      /\ approvals'[id] = row
      /\ \A n \in DOMAIN approvals \ {id} : approvals'[n] = approvals[n]
  BY <1>0, <1>1, <1>2
<1>4. Rows'
  <2>1. \A n \in DOMAIN approvals : RowOf(approvals[n], calls, kids, generation)
    BY DEF IInv, Rows
  <2>2. RowOf(row, calls, kids, generation)
    BY <1>2, <2>1 DEF RowOf
  <2>3. QED
    BY <1>1, <1>3, <2>1, <2>2 DEF Rows
<1>5. Excused'
  BY <1>1, <1>2, <1>3 DEF IInv, Excused
<1>6. TypeOK' /\ Unspawned' /\ Remembers' /\ Children' /\ Told'
  BY <1>1, <1>3 DEF IInv, TypeOK, Unspawned, Remembers, Children, Told
<1>7. QED
  BY <1>4, <1>5, <1>6 DEF IInv

(* The row of an answer that is heard. *)
LEMMA HearsRow ==
  ASSUME IInv, NEW id \in DOMAIN approvals, NEW decision, Hears(id, decision)
  PROVE  /\ SameRequests(approvals') /\ UNCHANGED <<calls, pendingCalls, unrecorded, unasked>>
         /\ \A n \in DOMAIN approvals \ {id} : approvals'[n] = approvals[n]
         /\ approvals'[id].decision = decision
<1> DEFINE row == [approvals[id] EXCEPT !.wake = "heard"]
<1>0. approvals \in Seq(Approval) /\ approvals[id] \in Approval
  BY DEF IInv, TypeOK
<1>1. /\ approvals' = [approvals EXCEPT ![id] = row]
      /\ UNCHANGED <<calls, pendingCalls, unrecorded, unasked>>
      /\ approvals[id].decision = decision
  BY DEF Hears
<1>2. /\ row \in Approval /\ row.decision = decision
      /\ row.call = approvals[id].call /\ row.grant = approvals[id].grant
      /\ row.forms = approvals[id].forms /\ row.allowlist = approvals[id].allowlist
  BY <1>0, <1>1 DEF Approval
<1> HIDE DEF row
<1>3. /\ approvals' \in Seq(Approval) /\ DOMAIN approvals' = DOMAIN approvals
      /\ approvals'[id] = row
      /\ \A n \in DOMAIN approvals \ {id} : approvals'[n] = approvals[n]
  BY <1>0, <1>1, <1>2
<1>4. QED
  BY <1>1, <1>2, <1>3 DEF SameRequests

LEMMA HearDenyKeeps ==
  ASSUME IInv, NEW id \in DOMAIN approvals, HearDeny(id)
  PROVE  IInv'
<1>1. /\ SameRequests(approvals') /\ UNCHANGED <<calls, pendingCalls, unrecorded, unasked>>
      /\ \A n \in DOMAIN approvals \ {id} : approvals'[n] = approvals[n]
      /\ approvals'[id].decision = "deny" /\ UNCHANGED <<kids, generation>>
  BY HearsRow DEF HearDeny
<1>2. Rows'
  <2>1. \A n \in DOMAIN approvals : RowOf(approvals[n], calls, kids, generation)
    BY DEF IInv, Rows
  <2>2. RowOf(approvals'[id], calls, kids, generation)
    BY <1>1, <2>1 DEF RowOf, SameRequests
  <2>3. QED
    BY <1>1, <2>1, <2>2 DEF Rows, SameRequests
<1>3. Excused'
  BY <1>1 DEF IInv, Excused, SameRequests
<1>4. TypeOK' /\ Unspawned' /\ Remembers' /\ Children' /\ Told'
  BY <1>1 DEF IInv, TypeOK, Unspawned, Remembers, Children, Told, SameRequests
<1>5. QED
  BY <1>2, <1>3, <1>4 DEF IInv

(* The next child has what the last one had, and every form of the entry. *)
LEMMA HearApproveKeeps ==
  ASSUME IInv, NEW id \in DOMAIN approvals, HearApprove(id)
  PROVE  IInv'
<1> DEFINE next == generation + 1
           old == [kids[generation] EXCEPT !.life = IF @ = "up" THEN "killed" ELSE @]
           new == [NoKid EXCEPT !.life = "up",
                     !.allowed = kids[generation].allowed \cup approvals[id].forms,
                     !.told = {approvals[id].grant}]
<1>0. /\ TypeOK /\ generation \in Generations /\ generation \in Nat /\ next \in Generations
      /\ kids[generation] \in Kid /\ kids[next] \in Kid /\ approvals[id] \in Approval
      /\ Generations \subseteq Nat
  BY BoundsAssumption DEF IInv, TypeOK, HearApprove, Generations
<1>1. /\ SameRequests(approvals') /\ UNCHANGED <<calls, pendingCalls, unrecorded, unasked>>
      /\ generation' = next
      /\ kids' = [kids EXCEPT ![generation].life = IF @ = "up" THEN "killed" ELSE @,
                              ![next] = new]
  BY HearsRow DEF HearApprove, AllowlistWith, CommandFromGrant
<1>2. /\ old \in Kid /\ old.events = kids[generation].events
      /\ old.allowed = kids[generation].allowed /\ old.waiting = kids[generation].waiting
  BY <1>0 DEF Kid
<1>3. /\ new \in Kid /\ new.events = << >> /\ new.waiting = {}
      /\ new.allowed = kids[generation].allowed \cup approvals[id].forms
      /\ new.told = {approvals[id].grant}
  <2>1. /\ kids[generation].allowed \cup approvals[id].forms \in SUBSET Invocation
        /\ {approvals[id].grant} \in SUBSET Invocation
    BY <1>0 DEF Kid, Approval
  <2>2. NoKid \in Kid /\ NoKid.events = << >> /\ NoKid.waiting = {}
    BY NoKidTyped
  <2>3. /\ new \in Kid /\ new.events = NoKid.events /\ new.waiting = NoKid.waiting
        /\ new.allowed = kids[generation].allowed \cup approvals[id].forms
        /\ new.told = {approvals[id].grant}
    BY <2>1, <2>2 DEF Kid
  <2> HIDE DEF new
  <2>4. QED
    BY <2>2, <2>3
<1>4. kids' = [kids EXCEPT ![generation] = old, ![next] = new]
  BY <1>0, <1>1 DEF TypeOK
<1>5. generation # next
  BY <1>0
<1> HIDE DEF old, new
<1>6. /\ kids' \in [Generations -> Kid] /\ kids'[generation] = old /\ kids'[next] = new
      /\ \A g \in Generations \ {generation, next} : kids'[g] = kids[g]
  BY <1>0, <1>2, <1>3, <1>4, <1>5 DEF TypeOK
<1>7. \A n \in DOMAIN approvals :
        /\ RowOf(approvals[n], calls, kids, generation)
        /\ calls[approvals[n].call].by \in Generations
        /\ calls[approvals[n].call].asks \in Invocation
  BY <1>0, CallTyped DEF IInv, Rows, RowOf
<1>8. \A g \in Generations : g <= generation => kids'[g].allowed = kids[g].allowed /\ g <= next
                                                /\ g # next
  BY <1>0, <1>2, <1>6
<1>9. ASSUME NEW n \in DOMAIN approvals
      PROVE  RowOf(approvals'[n], calls, kids', next)
  <2> DEFINE row == approvals[n]
             after == approvals'[n]
             by == calls[row.call].by
  <2>1. /\ row.call \in DOMAIN calls /\ by <= generation /\ by \in Generations
        /\ row.allowlist = kids[by].allowed
        /\ ~Permits(row.allowlist, calls[row.call].asks)
        /\ row.grant = GrantFor(calls[row.call].asks)
        /\ row.forms = GrantVariants(calls[row.call].asks)
        /\ row.decision = "approve" /\ row.wake = "heard"
             => row.forms \subseteq kids[generation].allowed
    BY <1>7 DEF RowOf
  <2>2. /\ after.call = row.call /\ after.grant = row.grant
        /\ after.forms = row.forms /\ after.allowlist = row.allowlist
    BY <1>1 DEF SameRequests
  <2>3. kids'[by].allowed = kids[by].allowed /\ by <= next
    BY <1>8, <2>1
  <2>4. after.decision = "approve" /\ after.wake = "heard" => after.forms \subseteq kids'[next].allowed
    <3>1. CASE n = id
      BY <1>3, <1>6, <2>2, <3>1
    <3>2. CASE n # id
      <4>1. after = row
        BY <3>2, HearsRow DEF HearApprove
      <4>2. QED
        BY <1>3, <1>6, <2>1, <4>1
    <3>3. QED
      BY <3>1, <3>2
  <2>5. QED
    BY <2>1, <2>2, <2>3, <2>4 DEF RowOf
<1>10. Rows'
  BY <1>1, <1>9 DEF Rows, SameRequests
<1>11. Told'
  <2>1. /\ approvals[id].grant = GrantFor(calls[approvals[id].call].asks)
        /\ GrantVariants(calls[approvals[id].call].asks) \subseteq new.allowed
        /\ calls[approvals[id].call].asks \in Invocation
    BY <1>3, <1>7 DEF RowOf
  <2>2. Permits(new.allowed, approvals[id].grant)
    BY <2>1, VariantsPermit
  <2>3. QED
    BY <1>1, <1>3, <1>6, <2>2 DEF Told
<1>12. Children'
  <2>1. \A g \in Generations : Tidy(g, kids[g], calls, DOMAIN pendingCalls)
    BY DEF IInv, Children
  <2>2. Tidy(generation, old, calls, DOMAIN pendingCalls)
    BY <1>0, <1>2, <2>1, TidyQuiet
  <2>3. Tidy(next, new, calls, DOMAIN pendingCalls)
    BY <1>3, NewKidIsTidy
  <2>4. QED
    BY <1>1, <1>6, <2>1, <2>2, <2>3 DEF Children
<1>13. Unspawned'
  <2>1. \A g \in Generations : g > next => g > generation /\ g # generation /\ g # next
    BY <1>0
  <2>2. QED
    BY <1>1, <1>6, <2>1 DEF IInv, Unspawned
<1>14. Excused'
  <2>1. SUFFICES ASSUME NEW u \in unasked
                 PROVE  /\ u.call \in DOMAIN calls /\ calls[u.call].by <= next
                        /\ calls[u.call].by < next
    BY <1>1 DEF Excused
  <2>2. u.call \in DOMAIN calls /\ calls[u.call].by <= generation
    BY <2>1 DEF IInv, Excused
  <2>3. calls[u.call].by \in Nat
    BY <1>0, <2>2, CallTyped
  <2>4. QED
    BY <1>0, <2>2, <2>3
<1>15. TypeOK' /\ Remembers'
  BY <1>0, <1>1, <1>6 DEF IInv, TypeOK, Remembers, SameRequests
<1>16. QED
  BY <1>10, <1>11, <1>12, <1>13, <1>14, <1>15 DEF IInv

-----------------------------------------------------------------------------
(* The invariant and the theorems. *)

LEMMA InitInv == Init => IInv
<1>1. SUFFICES ASSUME Init PROVE IInv
  OBVIOUS
<1> DEFINE first == [NoKid EXCEPT !.life = "up"]
<1>2. NoKid \in Kid /\ NoKid.events = << >> /\ NoKid.waiting = {} /\ NoKid.told = {}
  BY NoKidTyped
<1>3. /\ kids \in [Generations -> Kid]
      /\ \A g \in Generations : kids[g].events = << >> /\ kids[g].waiting = {}
                                /\ kids[g].told = {}
      /\ \A g \in Generations : g # 1 => kids[g] = NoKid
  <2>1. kids = [g \in Generations |-> IF g = 1 THEN first ELSE NoKid]
    BY <1>1 DEF Init
  <2>2. /\ first \in Kid /\ first.events = NoKid.events /\ first.waiting = NoKid.waiting
        /\ first.told = NoKid.told
    BY <1>2 DEF Kid
  <2> HIDE DEF first
  <2>3. QED
    BY <1>2, <2>1, <2>2
<1>4. calls = << >> /\ generation = 1 /\ pendingCalls = << >> /\ approvals = << >>
      /\ unrecorded = {} /\ unasked = {} /\ generation \in Generations
  BY <1>1, BoundsAssumption DEF Init, Generations
<1>5. TypeOK
  <2>1. pendingCalls \in [{} -> Invocation] /\ {} \in SUBSET DOMAIN calls
    BY <1>4
  <2>2. calls \in Seq([by: Generations, asks: Invocation]) /\ Len(calls) <= MaxCalls
    BY <1>4, BoundsAssumption
  <2>3. approvals \in Seq(Approval)
    BY <1>4
  <2>4. unasked \subseteq [call: CallIds, beside: SUBSET CallIds]
    BY <1>4
  <2>5. \E ids \in SUBSET DOMAIN calls : pendingCalls \in [ids -> Invocation]
    BY <2>1
  <2>6. QED
    BY <1>3, <1>4, <2>2, <2>3, <2>4, <2>5 DEF TypeOK
<1>6. Children
  BY <1>3, NewKidIsTidy DEF Children
<1>7. Unspawned
  BY <1>3, <1>4 DEF Unspawned
<1>8. Remembers /\ Rows /\ Told /\ Excused
  BY <1>3, <1>4 DEF Remembers, Rows, Told, Excused
<1>9. QED
  BY <1>5, <1>6, <1>7, <1>8 DEF IInv

LEMMA NextKeeps == IInv /\ [Next]_vars => IInv'
<1>1. SUFFICES ASSUME IInv, [Next]_vars PROVE IInv'
  OBVIOUS
<1>2. CASE UNCHANGED vars
  BY <1>1, <1>2 DEF IInv, TypeOK, Unspawned, Remembers, Children, Rows, Told, Excused, vars
<1>3. ASSUME NEW g \in Generations, NEW n \in 1..MaxTogether, NEW asked \in [1..n -> Asked],
             Call(g, asked)
      PROVE  IInv'
  BY <1>1, <1>3, CallKeeps, BoundsAssumption
<1>4. ASSUME NEW g \in Generations, NEW ids \in SUBSET kids[g].waiting, Report(g, ids)
      PROVE  IInv'
  BY <1>1, <1>4, ReportKeeps
<1>5. ASSUME NEW g \in Generations, Die(g) \/ HearCalls(g)
      PROVE  IInv'
  BY <1>1, <1>5, DieKeeps, HearCallsKeeps
<1>6. ASSUME NEW g \in Generations, NEW fails \in BOOLEAN, HearResults(g, fails)
      PROVE  IInv'
  BY <1>1, <1>6, HearResultsKeeps
<1>7. ASSUME NEW id \in DOMAIN approvals, NEW decision \in {"approve", "deny"},
             NEW wake \in {"underway", "lost"}, Answer(id, decision, wake)
      PROVE  IInv'
  BY <1>1, <1>7, AnswerKeeps
<1>8. ASSUME NEW id \in DOMAIN approvals, HearDeny(id) \/ HearApprove(id)
      PROVE  IInv'
  BY <1>1, <1>8, HearDenyKeeps, HearApproveKeeps
<1>9. QED
  BY <1>1, <1>2, <1>3, <1>4, <1>5, <1>6, <1>7, <1>8 DEF Next

(* In every reachable state the calls, the children, the driver's map and  *)
(* the requests have their types; the map is defined for calls only.       *)
THEOREM TypeCorrect == Spec => []TypeOK
<1>1. IInv => TypeOK
  BY DEF IInv
<1>2. QED
  BY <1>1, InitInv, NextKeeps, PTL DEF Spec

(* Every request is of the call that was refused, with the allowlist of the*)
(* child it was refused to, which does not cover it, and the entries made  *)
(* from it, however many messages of however many children are on their way*)
(* (ifCurrent, pendingCalls, denialFromClaude).                            *)
THEOREM RequestIsTheRefused == Spec => []RequestIsOfTheRefusal
<1>1. ASSUME IInv PROVE RequestIsOfTheRefusal
  <2>1. SUFFICES ASSUME NEW n \in DOMAIN approvals
                 PROVE  LET call == calls[approvals[n].call]
                        IN /\ approvals[n].allowlist = kids[call.by].allowed
                           /\ ~Permits(approvals[n].allowlist, call.asks)
                           /\ approvals[n].grant = GrantFor(call.asks)
                           /\ call.asks \in approvals[n].forms
    BY DEF RequestIsOfTheRefusal
  <2>2. RowOf(approvals[n], calls, kids, generation)
    BY <1>1 DEF IInv, Rows
  <2>3. QED
    BY <2>2 DEF RowOf, GrantVariants
<1>2. QED
  BY <1>1, InitInv, NextKeeps, PTL DEF Spec

(* What was approved stays usable: the live child is permitted every retry *)
(* of every line whose approval was heard, however many approvals there    *)
(* were since, and the line it was told to attempt (grantVariants,         *)
(* allowlistWith, commandFromGrant).                                       *)
THEOREM ApprovedStaysUsable == Spec => []ApprovedIsUsable
<1>1. ASSUME IInv PROVE ApprovedIsUsable
  <2>1. ASSUME NEW n \in DOMAIN approvals,
               approvals[n].decision = "approve", approvals[n].wake = "heard",
               NEW r \in Retries(calls[approvals[n].call].asks)
        PROVE  Permits(kids[generation].allowed, r)
    <3>1. RowOf(approvals[n], calls, kids, generation)
      BY <1>1 DEF IInv, Rows
    <3>2. calls[approvals[n].call].asks \in Invocation
      BY <1>1, <3>1, CallTyped DEF IInv, RowOf
    <3>3. GrantVariants(calls[approvals[n].call].asks) \subseteq kids[generation].allowed
      BY <2>1, <3>1 DEF RowOf
    <3>4. QED
      BY <2>1, <3>2, <3>3, VariantsPermit
  <2>2. QED
    BY <1>1, <2>1 DEF ApprovedIsUsable, IInv, Told
<1>2. QED
  BY <1>1, InitInv, NextKeeps, PTL DEF Spec

(* A refusal that was heard and not filed is of a child that was replaced, *)
(* or a request was filed for another refusal in the same message, or was  *)
(* to be filed for one and the insert failed, which the log says           *)
(* (onDenial).                                                             *)
THEOREM NoSilentRefusal == Spec => []UnaskedIsExcused
<1>1. IInv => UnaskedIsExcused
  BY DEF IInv, Excused, UnaskedIsExcused
<1>2. QED
  BY <1>1, InitInv, NextKeeps, PTL DEF Spec
=============================================================================
