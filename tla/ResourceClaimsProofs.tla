------------------------ MODULE ResourceClaimsProofs ------------------------
(***************************************************************************)
(* Proofs about ResourceClaims, for every set of agents and resources,     *)
(* every TTL and every stall.                                              *)
(***************************************************************************)
EXTENDS ResourceClaims, TLAPS

(* A call in flight works on a real resource, sampled the clock in the     *)
(* past, will write to a row that exists, and is not older than the rows   *)
(* its own process made: one process makes its calls one after the other.  *)
CallOK(a) ==
  call[a].pc # "idle" =>
    /\ call[a].resource \in Resources
    /\ call[a].now <= clock
    /\ call[a].outcome \in {"renewed", "released"} =>
         call[a].id \in DOMAIN claims[call[a].resource]
    /\ \A i \in DOMAIN claims[call[a].resource] :
         claims[call[a].resource][i].holder = a =>
           claims[call[a].resource][i].claimed <= call[a].now

(* No row is claimed in the future. *)
ClaimedInThePast ==
  \A r \in Resources : \A i \in DOMAIN claims[r] : claims[r][i].claimed <= clock

(* Two rows nobody released lie apart in time, the older one ending before *)
(* the younger one begins, unless the older one was revived.               *)
RowsApart(r, i, j) ==
  (i < j /\ ~claims[r][i].released /\ ~claims[r][j].released) =>
    i \in revived[r] \/ claims[r][i].expires <= claims[r][j].claimed

Apart == \A r \in Resources : \A i, j \in DOMAIN claims[r] : RowsApart(r, i, j)

IInv ==
  /\ TypeOK
  /\ \A a \in Agents : CallOK(a)
  /\ ClaimedInThePast
  /\ Apart

-----------------------------------------------------------------------------
(* ttlMinutes never yields zero, whatever the environment holds. *)
LEMMA TtlPositive == \A a \in Agents : Ttl(a) \in Nat \ {0}
  BY TtlAssumption DEF Ttl

LEMMA NoCallIsCall == NoCall \in Call
  BY DEF NoCall, Call

LEMMA AnswerIsReply ==
  ASSUME NEW d \in {"none", "granted", "renewed", "conflict",
                    "released", "not-yours", "not-held"},
         NEW h \in Agents \cup {NoAgent}, NEW lost \in BOOLEAN
  PROVE  /\ Answer(d) \in Reply
         /\ Answer(d).outcome = d
         /\ Answer(d).tookOver = NoAgent
         /\ [Answer(d) EXCEPT !.tookOver = h] \in Reply
         /\ [Answer(d) EXCEPT !.heldBy = h] \in Reply
         /\ [Answer(d) EXCEPT !.heldBy = h, !.lostRace = lost] \in Reply
  BY DEF Answer, NoReply, Reply

LEMMA RowTyped ==
  ASSUME TypeOK, NEW r \in Resources
  PROVE  /\ Len(claims[r]) \in Nat
         /\ DOMAIN claims[r] = 1 .. Len(claims[r])
         /\ \A i \in DOMAIN claims[r] :
              /\ claims[r][i] \in Row
              /\ claims[r][i].holder \in Agents
              /\ claims[r][i].claimed \in Nat
              /\ claims[r][i].expires \in Nat
              /\ claims[r][i].released \in BOOLEAN
<1>1. claims[r] \in Seq(Row)
  BY DEF TypeOK
<1>2. \A i \in DOMAIN claims[r] : claims[r][i] \in Row
  BY <1>1
<1>3. QED
  BY <1>1, <1>2 DEF Row

(* The decisions are replies, and a granted one never points at a row. *)
LEMMA DecisionIsReply ==
  ASSUME TypeOK, NEW a \in Agents, NEW r \in Resources, NEW now \in Nat,
         NEW force \in BOOLEAN
  PROVE  /\ DecideClaim(a, r, now) \in Reply
         /\ DecideRelease(a, r, now, force) \in Reply
         /\ DecideClaim(a, r, now).outcome \in {"granted", "renewed", "conflict"}
         /\ DecideRelease(a, r, now, force).outcome
              \in {"released", "not-yours", "not-held"}
         /\ DecideClaim(a, r, now).outcome = "renewed" => Len(claims[r]) # 0
         /\ DecideRelease(a, r, now, force).outcome = "released" => Len(claims[r]) # 0
<1> DEFINE i == Len(claims[r])
<1>1. i \in Nat /\ DOMAIN claims[r] = 1 .. i
  BY RowTyped
<1>2. i # 0 => claims[r][i].holder \in Agents
  BY <1>1, RowTyped
<1>3. /\ Answer("granted") \in Reply /\ Answer("granted").outcome = "granted"
      /\ Answer("renewed") \in Reply /\ Answer("renewed").outcome = "renewed"
      /\ Answer("conflict").outcome = "conflict"
      /\ Answer("released") \in Reply /\ Answer("released").outcome = "released"
      /\ Answer("not-held") \in Reply /\ Answer("not-held").outcome = "not-held"
      /\ Answer("not-yours").outcome = "not-yours"
  BY DEF Answer, NoReply, Reply
<1>4. ASSUME NEW h \in Agents
      PROVE  /\ [Answer("granted") EXCEPT !.tookOver = h] \in Reply
             /\ [Answer("granted") EXCEPT !.tookOver = h].outcome = "granted"
             /\ [Answer("conflict") EXCEPT !.heldBy = h] \in Reply
             /\ [Answer("conflict") EXCEPT !.heldBy = h].outcome = "conflict"
             /\ [Answer("not-yours") EXCEPT !.heldBy = h] \in Reply
             /\ [Answer("not-yours") EXCEPT !.heldBy = h].outcome = "not-yours"
  BY DEF Answer, NoReply, Reply
<1>5. /\ DecideClaim(a, r, now) \in Reply
      /\ DecideClaim(a, r, now).outcome \in {"granted", "renewed", "conflict"}
      /\ DecideClaim(a, r, now).outcome = "renewed" => i # 0
  <2>1. CASE i = 0
    BY <2>1, <1>3 DEF DecideClaim, LatestClaim
  <2>2. CASE i # 0
    BY <2>2, <1>2, <1>3, <1>4 DEF DecideClaim, LatestClaim
  <2>3. QED
    BY <2>1, <2>2
<1>6. /\ DecideRelease(a, r, now, force) \in Reply
      /\ DecideRelease(a, r, now, force).outcome
           \in {"released", "not-yours", "not-held"}
      /\ DecideRelease(a, r, now, force).outcome = "released" => i # 0
  BY <1>2, <1>3, <1>4 DEF DecideRelease, LatestClaim
<1>7. QED
  BY <1>5, <1>6

-----------------------------------------------------------------------------
(* A step that touches only calls and replies keeps the invariant when the *)
(* new call of the agent that moves is in order.                           *)
LEMMA CallStep ==
  ASSUME IInv, NEW a \in Agents, NEW c \in Call,
         UNCHANGED <<clock, claims, revived>>,
         call' = [call EXCEPT ![a] = c],
         reply' \in [Agents -> Reply],
         c.pc # "idle" =>
           /\ c.resource \in Resources
           /\ c.now <= clock
           /\ c.outcome \in {"renewed", "released"} =>
                c.id \in DOMAIN claims[c.resource]
           /\ \A i \in DOMAIN claims[c.resource] :
                claims[c.resource][i].holder = a =>
                  claims[c.resource][i].claimed <= c.now
  PROVE  IInv'
<1>1. TypeOK'
  BY DEF IInv, TypeOK
<1>2. ASSUME NEW b \in Agents PROVE CallOK(b)'
  <2>1. CASE b = a
    <3>1. call'[a] = c
      BY DEF IInv, TypeOK
    <3>2. QED
      BY <2>1, <3>1 DEF CallOK
  <2>2. CASE b # a
    <3>1. call'[b] = call[b]
      BY <2>2 DEF IInv, TypeOK
    <3>2. QED
      BY <3>1 DEF CallOK, IInv
  <2>3. QED
    BY <2>1, <2>2
<1>3. ClaimedInThePast'
  BY DEF IInv, ClaimedInThePast
<1>4. Apart'
  BY DEF IInv, Apart, RowsApart
<1>5. QED
  BY <1>1, <1>2, <1>3, <1>4 DEF IInv

-----------------------------------------------------------------------------
(* Each step keeps the invariant. *)

LEMMA StartKeeps ==
  ASSUME IInv, NEW a \in Agents, NEW op \in {"claim", "release"},
         NEW r \in Resources, NEW force \in BOOLEAN, Start(a, op, r, force)
  PROVE  IInv'
<1> DEFINE c == [pc |-> "sampled", op |-> op, resource |-> r, force |-> force,
                 now |-> clock, outcome |-> "none", id |-> 0,
                 tookOver |-> NoAgent]
<1>1. c \in Call
  BY DEF Call, IInv, TypeOK
<1>2. UNCHANGED <<clock, claims, revived>> /\ call' = [call EXCEPT ![a] = c]
  BY DEF Start
<1>3. reply' \in [Agents -> Reply]
  BY DEF Start, IInv, TypeOK, NoReply, Reply
<1>4. /\ c.resource \in Resources
      /\ c.now <= clock
      /\ c.outcome \notin {"renewed", "released"}
  BY DEF IInv, TypeOK
<1>5. \A i \in DOMAIN claims[c.resource] : claims[c.resource][i].claimed <= c.now
  BY DEF IInv, ClaimedInThePast
<1>6. QED
  BY <1>1, <1>2, <1>3, <1>4, <1>5, CallStep

LEMMA FinishKeeps ==
  ASSUME IInv, NEW a \in Agents, NEW d \in Reply, Finish(a, d),
         UNCHANGED <<clock, claims, revived>>
  PROVE  IInv'
<1>1. NoCall.pc = "idle"
  BY DEF NoCall
<1>2. call' = [call EXCEPT ![a] = NoCall]
  BY DEF Finish
<1>3. reply' \in [Agents -> Reply]
  BY DEF Finish, IInv, TypeOK
<1>4. QED
  BY <1>1, <1>2, <1>3, NoCallIsCall, CallStep

LEMMA ReadAndDecideKeeps ==
  ASSUME IInv, NEW a \in Agents, ReadAndDecide(a)
  PROVE  IInv'
<1> DEFINE c == call[a]
           d == IF c.op = "claim" THEN DecideClaim(a, c.resource, c.now)
                ELSE DecideRelease(a, c.resource, c.now, c.force)
           n == [c EXCEPT !.pc = "decided", !.outcome = d.outcome,
                          !.id = LatestClaim(c.resource), !.tookOver = d.tookOver]
<1>1. c \in Call /\ c.pc = "sampled"
  BY DEF ReadAndDecide, IInv, TypeOK
<1>2. c.resource \in Resources /\ c.now \in Nat /\ c.force \in BOOLEAN
  BY <1>1 DEF Call, IInv, CallOK
<1>3. d \in Reply /\ (d.outcome \in {"renewed", "released"} =>
                        Len(claims[c.resource]) # 0)
  BY <1>2, DecisionIsReply DEF IInv
<1>4. CASE d.outcome \in {"granted", "renewed", "released"}
  <2>1. call' = [call EXCEPT ![a] = n] /\ UNCHANGED <<clock, claims, revived, reply>>
    <3>1. ~(d.outcome \in {"conflict", "not-yours", "not-held"})
      BY <1>4
    <3>2. QED
      BY <1>1, <1>4, <3>1 DEF ReadAndDecide, IInv, TypeOK
  <2>2. LatestClaim(c.resource) \in Nat /\ d.tookOver \in Agents \cup {NoAgent}
    BY <1>2, <1>3, RowTyped DEF LatestClaim, IInv, Reply
  <2>3. n \in Call
    BY <1>1, <1>4, <2>2 DEF Call
  <2>4. /\ n.resource = c.resource /\ n.now = c.now /\ n.outcome = d.outcome
        /\ n.id = LatestClaim(c.resource)
    BY <1>1 DEF Call
  <2>5. d.outcome \in {"renewed", "released"} =>
          LatestClaim(c.resource) \in DOMAIN claims[c.resource]
    BY <1>2, <1>3, RowTyped DEF LatestClaim, IInv
  <2>6. CallOK(a)
    BY DEF IInv
  <2>7. reply' \in [Agents -> Reply]
    BY <2>1 DEF IInv, TypeOK
  <2> HIDE DEF n, d
  <2>8. QED
    BY <1>1, <2>1, <2>3, <2>4, <2>5, <2>6, <2>7, CallStep DEF CallOK
<1>5. CASE d.outcome \notin {"granted", "renewed", "released"}
  <2>1. Finish(a, d) /\ UNCHANGED <<clock, claims, revived>>
    BY <1>5 DEF ReadAndDecide
  <2>2. QED
    BY <2>1, <1>3, FinishKeeps
<1>6. QED
  BY <1>4, <1>5

LEMMA WriteRefusedKeeps ==
  ASSUME IInv, NEW a \in Agents, call[a].pc = "decided", WriteRefused(a)
  PROVE  IInv'
<1> DEFINE n == [call[a] EXCEPT !.pc = "refused"]
<1>1. call[a] \in Call
  BY DEF IInv, TypeOK
<1>2. /\ n \in Call
      /\ n.resource = call[a].resource /\ n.now = call[a].now
      /\ n.outcome = call[a].outcome /\ n.id = call[a].id
  BY <1>1 DEF Call
<1>3. call' = [call EXCEPT ![a] = n] /\ UNCHANGED <<clock, claims, revived, reply>>
  BY DEF WriteRefused
<1>4. CallOK(a) /\ reply' \in [Agents -> Reply]
  BY <1>3 DEF IInv, TypeOK
<1> HIDE DEF n
<1>5. QED
  BY <1>2, <1>3, <1>4, CallStep DEF CallOK

(* The three steps that write the table go through the rows one by one.    *)
LEMMA InsertLandsKeeps ==
  ASSUME IInv, NEW a \in Agents, call[a].pc = "decided",
         ~SomeLive(call[a].resource, call[a].now), InsertLands(a)
  PROVE  IInv'
<1> DEFINE r == call[a].resource
           now == call[a].now
           n == Len(claims[r])
<1>1. call[a] \in Call /\ r \in Resources /\ now \in Nat /\ now <= clock
  BY DEF IInv, TypeOK, CallOK, Call
<1>2. /\ NewRow(a) \in Row
      /\ NewRow(a).holder = a /\ NewRow(a).claimed = now
      /\ NewRow(a).claimed < NewRow(a).expires /\ ~NewRow(a).released
  BY <1>1, TtlPositive DEF NewRow, Row
<1>3. /\ claims' = [claims EXCEPT ![r] = Append(claims[r], NewRow(a))]
      /\ UNCHANGED <<clock, revived>>
  BY DEF InsertLands
<1>4. /\ claims[r] \in Seq(Row) /\ n \in Nat /\ DOMAIN claims[r] = 1 .. n
      /\ claims' \in [Resources -> Seq(Row)]
  BY <1>1, <1>2, <1>3 DEF IInv, TypeOK
<1>5. /\ claims'[r] = Append(claims[r], NewRow(a))
      /\ \A q \in Resources : q # r => claims'[q] = claims[q]
  BY <1>1, <1>3 DEF IInv, TypeOK
<1>6. /\ DOMAIN claims'[r] = 1 .. (n + 1)
      /\ \A i \in DOMAIN claims[r] : claims'[r][i] = claims[r][i]
      /\ claims'[r][n + 1] = NewRow(a)
  BY <1>2, <1>4, <1>5
<1>7. \A i \in DOMAIN claims'[r] : i \in DOMAIN claims[r] \/ i = n + 1
  BY <1>4, <1>6
<1>8. /\ call' = [call EXCEPT ![a] = NoCall] /\ call' \in [Agents -> Call]
      /\ reply' \in [Agents -> Reply]
  <2>1. call[a].tookOver \in Agents \cup {NoAgent}
    BY <1>1 DEF Call
  <2>2. [Answer("granted") EXCEPT !.tookOver = call[a].tookOver] \in Reply
    BY <2>1, AnswerIsReply
  <2>3. QED
    BY <2>2, NoCallIsCall DEF InsertLands, Finish, IInv, TypeOK
<1>9. TypeOK'
  <2>1. ASSUME NEW q \in Resources, NEW i \in DOMAIN claims'[q]
        PROVE  claims'[q][i].claimed < claims'[q][i].expires
    BY <1>2, <1>5, <1>6, <1>7 DEF IInv, TypeOK
  <2>2. QED
    BY <2>1, <1>3, <1>4, <1>8 DEF IInv, TypeOK
<1>10. ASSUME NEW b \in Agents PROVE CallOK(b)'
  <2>1. CASE b = a
    <3>1. call'[b].pc = "idle"
      BY <2>1, <1>8 DEF NoCall, IInv, TypeOK
    <3>2. QED
      BY <3>1 DEF CallOK
  <2>2. CASE b # a
    <3>1. call'[b] = call[b] /\ CallOK(b)
      BY <2>2, <1>8 DEF IInv, TypeOK
    <3>2. CASE call[b].pc # "idle" /\ call[b].resource = r
      BY <3>1, <3>2, <2>2, <1>1, <1>2, <1>3, <1>4, <1>6, <1>7 DEF CallOK
    <3>3. CASE call[b].pc # "idle" /\ call[b].resource # r
      BY <3>1, <3>3, <1>3, <1>5 DEF CallOK
    <3>4. QED
      BY <3>1, <3>2, <3>3 DEF CallOK
  <2>3. QED
    BY <2>1, <2>2
<1>11. ClaimedInThePast'
  BY <1>1, <1>2, <1>3, <1>5, <1>6, <1>7 DEF IInv, ClaimedInThePast
<1>12. Apart'
  <2>1. \A i \in DOMAIN claims[r] : claims[r][i].released \/ claims[r][i].expires <= now
    BY <1>1, RowTyped DEF SomeLive, IsLive, IInv
  <2>2. ASSUME NEW q \in Resources, NEW i \in DOMAIN claims'[q],
               NEW j \in DOMAIN claims'[q]
        PROVE  RowsApart(q, i, j)'
    <3>1. CASE q # r
      BY <3>1, <1>3, <1>5 DEF IInv, Apart, RowsApart
    <3>2. CASE q = r /\ i \in DOMAIN claims[r] /\ j \in DOMAIN claims[r]
      BY <3>2, <1>1, <1>3, <1>6 DEF IInv, Apart, RowsApart
    <3>3. CASE q = r /\ i \in DOMAIN claims[r] /\ j = n + 1
      BY <3>3, <2>1, <1>2, <1>6 DEF RowsApart
    <3>4. CASE q = r /\ i = n + 1
      BY <3>4, <1>4, <1>7 DEF RowsApart
    <3>5. QED
      BY <3>1, <3>2, <3>3, <3>4, <1>7
  <2>3. QED
    BY <2>2 DEF Apart
<1>13. QED
  BY <1>9, <1>10, <1>11, <1>12 DEF IInv

(* Writing one row in place leaves every other row and every index alone. *)
LEMMA RowUpdate ==
  ASSUME TypeOK, NEW r \in Resources, NEW k \in DOMAIN claims[r], NEW row \in Row,
         claims' = [claims EXCEPT ![r] = [claims[r] EXCEPT ![k] = row]]
  PROVE  /\ claims' \in [Resources -> Seq(Row)]
         /\ \A q \in Resources : DOMAIN claims'[q] = DOMAIN claims[q]
         /\ \A q \in Resources : \A i \in DOMAIN claims[q] :
              ~(q = r /\ i = k) => claims'[q][i] = claims[q][i]
         /\ claims'[r][k] = row
<1>1. claims \in [Resources -> Seq(Row)] /\ claims[r] \in Seq(Row)
  BY DEF TypeOK
<1>2. DOMAIN claims[r] = 1 .. Len(claims[r]) /\ Len(claims[r]) \in Nat
  BY <1>1
<1>3. /\ [claims[r] EXCEPT ![k] = row] \in Seq(Row)
      /\ DOMAIN [claims[r] EXCEPT ![k] = row] = DOMAIN claims[r]
  BY <1>1, <1>2
<1>4. claims' \in [Resources -> Seq(Row)] /\ claims'[r] = [claims[r] EXCEPT ![k] = row]
  BY <1>1, <1>3
<1>5. \A q \in Resources : q # r => claims'[q] = claims[q]
  BY <1>1
<1>6. QED
  BY <1>3, <1>4, <1>5

(* A call in flight stays in order when the rows keep their holders and    *)
(* beginnings.                                                             *)
LEMMA OtherCallKeeps ==
  ASSUME NEW b \in Agents, CallOK(b), call'[b] = call[b], clock' = clock,
         \A q \in Resources : DOMAIN claims'[q] = DOMAIN claims[q],
         \A q \in Resources : \A i \in DOMAIN claims[q] :
            /\ claims'[q][i].holder = claims[q][i].holder
            /\ claims'[q][i].claimed = claims[q][i].claimed
  PROVE  CallOK(b)'
<1>1. SUFFICES ASSUME call[b].pc # "idle"
               PROVE  CallOK(b)'
  BY DEF CallOK
<1> DEFINE r == call[b].resource
<1>2. /\ r \in Resources
      /\ call[b].now <= clock
      /\ call[b].outcome \in {"renewed", "released"} => call[b].id \in DOMAIN claims[r]
      /\ \A i \in DOMAIN claims[r] : claims[r][i].holder = b =>
           claims[r][i].claimed <= call[b].now
  BY <1>1 DEF CallOK
<1>3. DOMAIN claims'[r] = DOMAIN claims[r]
  BY <1>2
<1>4. \A i \in DOMAIN claims'[r] : claims'[r][i].holder = b =>
         claims'[r][i].claimed <= call[b].now
  BY <1>2, <1>3
<1>5. QED
  BY <1>2, <1>3, <1>4 DEF CallOK

(* A renewal that lands in time leaves no younger row behind its new end:  *)
(* a younger row nobody released would begin after the old end, and so in  *)
(* the future.  One that lands late is recorded in revived.                *)
LEMMA RenewalLandsKeeps ==
  ASSUME IInv, NEW a \in Agents, call[a].pc = "decided",
         call[a].outcome = "renewed",
         claims[call[a].resource][call[a].id].holder = a, RenewalLands(a)
  PROVE  IInv'
<1> DEFINE r == call[a].resource
           k == call[a].id
           e == call[a].now + Ttl(a)
<1>1. /\ call[a] \in Call /\ r \in Resources /\ k \in DOMAIN claims[r]
      /\ call[a].now \in Nat /\ claims[r][k].claimed <= call[a].now
  BY DEF IInv, TypeOK, CallOK, Call
<1>2. e \in Nat /\ claims[r][k].claimed < e
  BY <1>1, TtlPositive, RowTyped DEF IInv
<1>3. /\ claims' = [claims EXCEPT ![r] = [claims[r] EXCEPT ![k] =
                     [claims[r][k] EXCEPT !.expires = e]]]
      /\ UNCHANGED clock
      /\ revived' = IF claims[r][k].expires > clock THEN revived
                    ELSE [revived EXCEPT ![r] = @ \cup {k}]
  BY DEF RenewalLands
<1>4. /\ claims[r] \in Seq(Row) /\ claims[r][k] \in Row
      /\ [claims[r][k] EXCEPT !.expires = e] \in Row
  <2>1. claims[r] \in Seq(Row) /\ claims[r][k] \in Row
    BY <1>1, RowTyped DEF IInv, TypeOK
  <2>2. [claims[r][k] EXCEPT !.expires = e] \in Row
    BY <2>1, <1>2 DEF Row
  <2>3. QED
    BY <2>1, <2>2
<1>5. /\ claims' \in [Resources -> Seq(Row)]
      /\ \A q \in Resources : DOMAIN claims'[q] = DOMAIN claims[q]
      /\ \A q \in Resources : \A i \in DOMAIN claims[q] :
           ~(q = r /\ i = k) => claims'[q][i] = claims[q][i]
      /\ claims'[r][k] = [claims[r][k] EXCEPT !.expires = e]
  BY <1>1, <1>3, <1>4, RowUpdate DEF IInv
<1>6. /\ claims'[r][k].holder = claims[r][k].holder
      /\ claims'[r][k].claimed = claims[r][k].claimed
      /\ claims'[r][k].released = claims[r][k].released
      /\ claims'[r][k].expires = e
  BY <1>4, <1>5 DEF Row
<1>7. \A q \in Resources : \A i \in DOMAIN claims[q] :
         /\ claims'[q][i].holder = claims[q][i].holder
         /\ claims'[q][i].claimed = claims[q][i].claimed
         /\ claims'[q][i].released = claims[q][i].released
  BY <1>5, <1>6
<1>8. /\ revived' \in [Resources -> SUBSET Nat]
      /\ \A q \in Resources : revived[q] \subseteq revived'[q]
      /\ claims[r][k].expires <= clock => k \in revived'[r]
  <2>1. k \in Nat /\ claims[r][k].expires \in Nat /\ clock \in Nat
    BY <1>1, RowTyped DEF IInv, TypeOK
  <2>2. QED
    BY <2>1, <1>1, <1>3 DEF IInv, TypeOK
<1>9. /\ call' = [call EXCEPT ![a] = NoCall] /\ call' \in [Agents -> Call]
      /\ reply' \in [Agents -> Reply]
  <2>1. Answer("renewed") \in Reply
    BY DEF Answer, NoReply, Reply
  <2>2. QED
    BY <2>1, NoCallIsCall DEF RenewalLands, Finish, IInv, TypeOK
<1>10. TypeOK'
  <2>1. ASSUME NEW q \in Resources, NEW i \in DOMAIN claims'[q]
        PROVE  claims'[q][i].claimed < claims'[q][i].expires
    BY <1>2, <1>5, <1>6 DEF IInv, TypeOK
  <2>2. QED
    BY <2>1, <1>3, <1>5, <1>8, <1>9 DEF IInv, TypeOK
<1>11. ASSUME NEW b \in Agents PROVE CallOK(b)'
  <2>1. CASE b = a
    BY <2>1, <1>9 DEF CallOK, NoCall, IInv, TypeOK
  <2>2. CASE b # a
    <3>1. call'[b] = call[b] /\ CallOK(b)
      BY <2>2, <1>9 DEF IInv, TypeOK
    <3>2. QED
      BY <3>1, <1>3, <1>5, <1>7, OtherCallKeeps
  <2>3. QED
    BY <2>1, <2>2
<1>12. ClaimedInThePast'
  <2>1. ASSUME NEW q \in Resources, NEW i \in DOMAIN claims'[q]
        PROVE  claims'[q][i].claimed <= clock'
    <3>1. i \in DOMAIN claims[q] /\ clock' = clock
      BY <1>3, <1>5
    <3>2. claims'[q][i].claimed = claims[q][i].claimed
      BY <3>1, <1>7
    <3>3. QED
      BY <3>1, <3>2 DEF IInv, ClaimedInThePast
  <2>2. QED
    BY <2>1 DEF ClaimedInThePast
<1>13. Apart'
  <2>1. ASSUME NEW q \in Resources, NEW i \in DOMAIN claims[q],
               NEW j \in DOMAIN claims[q], RowsApart(q, i, j)
        PROVE  RowsApart(q, i, j)'
    <3>1. CASE ~(q = r /\ i = k)
      <4>1. claims'[q][i] = claims[q][i] /\ claims'[q][j].claimed = claims[q][j].claimed
            /\ claims'[q][j].released = claims[q][j].released
        BY <3>1, <1>5, <1>7
      <4>2. QED
        BY <4>1, <1>8, <2>1 DEF RowsApart
    <3>2. CASE q = r /\ i = k /\ claims[r][k].expires <= clock
      BY <3>2, <1>8 DEF RowsApart
    <3>3. CASE q = r /\ i = k /\ ~(claims[r][k].expires <= clock)
      <4>1. claims[r][j].claimed <= clock
        BY <3>3 DEF IInv, ClaimedInThePast
      <4>2. /\ claims[r][k].expires \in Nat /\ clock \in Nat
            /\ claims[r][j].claimed \in Nat
        BY <1>1, <3>3, RowTyped DEF IInv, TypeOK
      <4>3. ~(claims[r][k].expires <= claims[r][j].claimed)
        BY <4>1, <4>2, <3>3
      <4>4. QED
        BY <4>3, <3>3, <2>1, <1>7, <1>8 DEF RowsApart
    <3>4. QED
      BY <3>1, <3>2, <3>3
  <2>2. QED
    BY <2>1, <1>5 DEF IInv, Apart
<1>14. QED
  BY <1>10, <1>11, <1>12, <1>13 DEF IInv

LEMMA ReleaseClaimKeeps ==
  ASSUME IInv, NEW a \in Agents, ReleaseClaim(a)
  PROVE  IInv'
<1> DEFINE r == call[a].resource
           k == call[a].id
<1>1. call[a] \in Call /\ r \in Resources /\ k \in DOMAIN claims[r]
  BY DEF ReleaseClaim, IInv, TypeOK, CallOK, Call
<1>2. /\ claims' = [claims EXCEPT ![r] = [claims[r] EXCEPT ![k] =
                     [claims[r][k] EXCEPT !.released = TRUE]]]
      /\ UNCHANGED <<clock, revived>>
  BY DEF ReleaseClaim
<1>3. /\ claims[r] \in Seq(Row) /\ claims[r][k] \in Row
      /\ [claims[r][k] EXCEPT !.released = TRUE] \in Row
  BY <1>1, RowTyped DEF IInv, TypeOK, Row
<1>4. /\ claims' \in [Resources -> Seq(Row)]
      /\ \A q \in Resources : DOMAIN claims'[q] = DOMAIN claims[q]
      /\ \A q \in Resources : \A i \in DOMAIN claims[q] :
           ~(q = r /\ i = k) => claims'[q][i] = claims[q][i]
      /\ claims'[r][k] = [claims[r][k] EXCEPT !.released = TRUE]
  BY <1>1, <1>2, <1>3, RowUpdate DEF IInv
<1>5. \A q \in Resources : \A i \in DOMAIN claims[q] :
         /\ claims'[q][i].holder = claims[q][i].holder
         /\ claims'[q][i].claimed = claims[q][i].claimed
         /\ claims'[q][i].expires = claims[q][i].expires
         /\ claims[q][i].released => claims'[q][i].released
  <2>1. /\ claims'[r][k].holder = claims[r][k].holder
        /\ claims'[r][k].claimed = claims[r][k].claimed
        /\ claims'[r][k].expires = claims[r][k].expires
        /\ claims'[r][k].released
    BY <1>3, <1>4 DEF Row
  <2>2. QED
    BY <2>1, <1>4
<1>6. /\ call' = [call EXCEPT ![a] = NoCall] /\ call' \in [Agents -> Call]
      /\ reply' \in [Agents -> Reply]
  <2>1. Answer("released") \in Reply
    BY DEF Answer, NoReply, Reply
  <2>2. QED
    BY <2>1, NoCallIsCall DEF ReleaseClaim, Finish, IInv, TypeOK
<1>7. TypeOK'
  BY <1>2, <1>4, <1>5, <1>6 DEF IInv, TypeOK
<1>8. ASSUME NEW b \in Agents PROVE CallOK(b)'
  <2>1. CASE b = a
    BY <2>1, <1>6 DEF CallOK, NoCall, IInv, TypeOK
  <2>2. CASE b # a
    <3>1. call'[b] = call[b] /\ CallOK(b)
      BY <2>2, <1>6 DEF IInv, TypeOK
    <3>2. QED
      BY <3>1, <1>2, <1>4, <1>5, OtherCallKeeps
  <2>3. QED
    BY <2>1, <2>2
<1>9. ClaimedInThePast'
  <2>1. ASSUME NEW q \in Resources, NEW i \in DOMAIN claims'[q]
        PROVE  claims'[q][i].claimed <= clock'
    <3>1. i \in DOMAIN claims[q] /\ clock' = clock
      BY <1>2, <1>4
    <3>2. claims'[q][i].claimed = claims[q][i].claimed
      BY <3>1, <1>5
    <3>3. QED
      BY <3>1, <3>2 DEF IInv, ClaimedInThePast
  <2>2. QED
    BY <2>1 DEF ClaimedInThePast
<1>10. Apart'
  BY <1>2, <1>4, <1>5 DEF IInv, Apart, RowsApart
<1>11. QED
  BY <1>7, <1>8, <1>9, <1>10 DEF IInv

LEMMA TickKeeps ==
  ASSUME IInv, Tick
  PROVE  IInv'
<1>1. clock \in Nat /\ clock' = clock + 1 /\ UNCHANGED <<claims, call, reply, revived>>
  BY DEF Tick, IInv, TypeOK
<1>2. TypeOK'
  BY <1>1 DEF IInv, TypeOK
<1>3. \A a \in Agents : CallOK(a)'
  BY <1>1 DEF IInv, CallOK, TypeOK, Call
<1>4. ClaimedInThePast'
  BY <1>1, RowTyped DEF IInv, ClaimedInThePast
<1>5. Apart'
  BY <1>1 DEF IInv, Apart, RowsApart
<1>6. QED
  BY <1>2, <1>3, <1>4, <1>5 DEF IInv

-----------------------------------------------------------------------------
LEMMA InitIInv == Init => IInv
<1> SUFFICES ASSUME Init PROVE IInv
  OBVIOUS
<1>1. TypeOK
  <2>1. NoReply \in Reply
    BY DEF NoReply, Reply
  <2>2. QED
    BY <2>1, NoCallIsCall DEF Init, TypeOK
<1>2. \A a \in Agents : CallOK(a)
  BY DEF Init, CallOK, NoCall
<1>3. ClaimedInThePast /\ Apart
  BY DEF Init, ClaimedInThePast, Apart
<1>4. QED
  BY <1>1, <1>2, <1>3 DEF IInv

LEMMA NextIInv == IInv /\ [Next]_vars => IInv'
<1> SUFFICES ASSUME IInv, [Next]_vars PROVE IInv'
  OBVIOUS
<1>1. ASSUME NEW a \in Agents, NEW r \in Resources, StartClaim(a, r) PROVE IInv'
  BY <1>1, StartKeeps DEF StartClaim
<1>2. ASSUME NEW a \in Agents, NEW r \in Resources, NEW force \in BOOLEAN,
             StartRelease(a, r, force)
      PROVE  IInv'
  BY <1>2, StartKeeps DEF StartRelease
<1>3. ASSUME NEW a \in Agents, ReadAndDecide(a) PROVE IInv'
  BY <1>3, ReadAndDecideKeeps
<1>4. ASSUME NEW a \in Agents, InsertClaim(a) PROVE IInv'
  BY <1>4, InsertLandsKeeps, WriteRefusedKeeps DEF InsertClaim
<1>5. ASSUME NEW a \in Agents, RenewClaim(a) PROVE IInv'
  BY <1>5, RenewalLandsKeeps, WriteRefusedKeeps DEF RenewClaim
<1>6. ASSUME NEW a \in Agents, ReportLostRace(a) PROVE IInv'
  <2> DEFINE r == call[a].resource
             i == LatestClaim(r)
             h == IF i = 0 THEN NoAgent ELSE claims[r][i].holder
  <2>1. r \in Resources
    BY <1>6 DEF ReportLostRace, IInv, CallOK
  <2>2. h \in Agents \cup {NoAgent}
    BY <2>1, RowTyped DEF IInv, LatestClaim
  <2>3. [Answer("conflict") EXCEPT !.heldBy = h, !.lostRace = TRUE] \in Reply
    BY <2>2, AnswerIsReply
  <2>4. QED
    BY <1>6, <2>3, FinishKeeps DEF ReportLostRace
<1>7. ASSUME NEW a \in Agents, ReleaseClaim(a) PROVE IInv'
  BY <1>7, ReleaseClaimKeeps
<1>8. ASSUME NEW a \in Agents, Crash(a) PROVE IInv'
  <2>1. NoReply \in Reply
    BY DEF NoReply, Reply
  <2>2. QED
    BY <1>8, <2>1, FinishKeeps DEF Crash
<1>9. CASE Tick
  BY <1>9, TickKeeps
<1>10. CASE UNCHANGED vars
  BY <1>10 DEF vars, IInv, TypeOK, CallOK, ClaimedInThePast, Apart, RowsApart
<1>11. QED
  BY <1>1, <1>2, <1>3, <1>4, <1>5, <1>6, <1>7, <1>8, <1>9, <1>10
  DEF Next, AgentStep

LEMMA SpecIInv == Spec => []IInv
  BY InitIInv, NextIInv, PTL DEF Spec

(* Type correctness, for all agents, resources and TTL settings. *)
THEOREM TypeCorrect == Spec => []TypeOK
<1>1. IInv => TypeOK
  BY DEF IInv
<1>2. QED
  BY <1>1, SpecIInv, PTL

(* However many agents call however they like, and however long their      *)
(* calls stall, a resource has two live rows only after a renewal that     *)
(* landed on a lapsed row.                                                 *)
THEOREM SecondHolder == Spec => []SecondHolderOnlyByLateRenewal
<1>1. IInv => SecondHolderOnlyByLateRenewal
  <2> SUFFICES ASSUME IInv, NEW r \in Resources, NEW i \in LiveNow(r),
                      NEW j \in LiveNow(r), i < j
               PROVE  i \in revived[r]
    BY DEF SecondHolderOnlyByLateRenewal
  <2>1. /\ i \in DOMAIN claims[r] /\ ~claims[r][i].released
        /\ claims[r][i].expires > clock
        /\ j \in DOMAIN claims[r] /\ ~claims[r][j].released
    BY DEF LiveNow, IsLive
  <2>2. claims[r][j].claimed <= clock
    BY <2>1 DEF IInv, ClaimedInThePast
  <2>3. /\ claims[r][i].expires \in Nat /\ claims[r][j].claimed \in Nat
        /\ clock \in Nat
    BY <2>1, RowTyped DEF IInv, TypeOK
  <2>4. RowsApart(r, i, j)
    BY <2>1 DEF IInv, Apart
  <2>5. QED
    BY <2>1, <2>2, <2>3, <2>4 DEF RowsApart
<1>2. QED
  BY <1>1, SpecIInv, PTL

-----------------------------------------------------------------------------
(* When no time passes inside a call, no renewal is ever late. *)
Prompt ==
  /\ \A a \in Agents : call[a].pc # "idle" => call[a].now = clock
  /\ \A r \in Resources : revived[r] = {}

LEMMA CallKeepsPrompt ==
  ASSUME IInv, Prompt, NEW a \in Agents, UNCHANGED <<clock, revived>>,
         \A b \in Agents : b # a => call'[b] = call[b],
         call'[a].pc # "idle" => call'[a].now = clock
  PROVE  Prompt'
  BY DEF Prompt

LEMMA NextPrompt ==
  ASSUME MaxStall = 0, IInv, Prompt, [Next]_vars
  PROVE  Prompt'
<1>1. ASSUME NEW a \in Agents, AgentStep(a) PROVE Prompt'
  <2>1. call \in [Agents -> Call] /\ call[a] \in Call
    BY DEF IInv, TypeOK
  <2>2. ASSUME NEW r \in Resources, NEW op \in {"claim", "release"},
               NEW force \in BOOLEAN, Start(a, op, r, force)
        PROVE  Prompt'
    BY <2>1, <2>2, CallKeepsPrompt DEF Start
  <2>3. ASSUME NEW d, Finish(a, d), UNCHANGED <<clock, revived>> PROVE Prompt'
    BY <2>1, <2>3, CallKeepsPrompt DEF Finish, NoCall
  <2>4. CASE ReadAndDecide(a)
    <3> DEFINE d == IF call[a].op = "claim"
                    THEN DecideClaim(a, call[a].resource, call[a].now)
                    ELSE DecideRelease(a, call[a].resource, call[a].now, call[a].force)
               n == [call[a] EXCEPT !.pc = "decided", !.outcome = d.outcome,
                       !.id = LatestClaim(call[a].resource), !.tookOver = d.tookOver]
    <3>1. CASE d.outcome \in {"conflict", "not-yours", "not-held"}
      <4>1. Finish(a, d) /\ UNCHANGED <<clock, revived>>
        BY <2>4, <3>1 DEF ReadAndDecide
      <4>2. QED
        BY <4>1, <2>3
    <3>2. CASE d.outcome \notin {"conflict", "not-yours", "not-held"}
      <4>1. call' = [call EXCEPT ![a] = n] /\ UNCHANGED <<clock, revived>>
            /\ call[a].pc = "sampled"
        BY <2>4, <3>2, <2>1 DEF ReadAndDecide
      <4>2. n.now = call[a].now
        BY <2>1 DEF Call
      <4>3. call'[a] = n /\ \A b \in Agents : b # a => call'[b] = call[b]
        BY <4>1, <2>1
      <4>4. call[a].now = clock
        BY <4>1 DEF Prompt
      <4> HIDE DEF n, d
      <4>5. QED
        BY <4>1, <4>2, <4>3, <4>4, CallKeepsPrompt
    <3>3. QED
      BY <3>1, <3>2
  <2>5. ASSUME WriteRefused(a), call[a].pc = "decided" PROVE Prompt'
    <3>1. /\ call'[a].now = call[a].now /\ UNCHANGED <<clock, revived>>
          /\ \A b \in Agents : b # a => call'[b] = call[b]
      BY <2>1, <2>5 DEF WriteRefused, Call
    <3>2. call[a].now = clock
      BY <2>5 DEF Prompt
    <3>3. QED
      BY <3>1, <3>2, CallKeepsPrompt
  <2>6. CASE InsertClaim(a)
    BY <2>6, <2>3, <2>5 DEF InsertClaim, InsertLands
  <2>7. CASE RenewClaim(a)
    <3>1. CASE IsLive(claims[call[a].resource][call[a].id], call[a].now)
               /\ RenewalLands(a)
      <4>1. call[a].now = clock
        BY <2>7 DEF RenewClaim, Prompt
      <4>2. UNCHANGED <<clock, revived>>
        BY <3>1, <4>1 DEF IsLive, RenewalLands
      <4>3. QED
        BY <3>1, <4>2, <2>3 DEF RenewalLands
    <3>2. QED
      BY <2>7, <3>1, <2>5 DEF RenewClaim
  <2>8. QED
    BY <1>1, <2>2, <2>3, <2>4, <2>6, <2>7
    DEF AgentStep, StartClaim, StartRelease, ReportLostRace, ReleaseClaim, Crash
<1>2. CASE Tick
  <2>1. \A a \in Agents : call[a].pc = "idle"
    <3>1. ASSUME NEW a \in Agents, call[a].pc # "idle" PROVE FALSE
      <4>1. clock \in Nat /\ call[a].now = clock /\ clock - call[a].now < MaxStall
        BY <1>2, <3>1 DEF Tick, Prompt, IInv, TypeOK
      <4>2. QED
        BY <4>1
    <3>2. QED
      BY <3>1
  <2>2. QED
    BY <1>2, <2>1 DEF Tick, Prompt
<1>3. CASE UNCHANGED vars
  BY <1>3 DEF vars, Prompt
<1>4. QED
  BY <1>1, <1>2, <1>3 DEF Next

(* If calls take no time on the clock, a resource never has two live       *)
(* claims: the guarded INSERT and UPDATE are enough against every          *)
(* interleaving, and only the stall in SecondHolder defeats them.          *)
THEOREM PromptCallsAreExclusive ==
  ASSUME MaxStall = 0
  PROVE  Spec => []AtMostOneLive
<1>1. Init => Prompt
  BY DEF Init, Prompt, NoCall
<1>2. IInv /\ Prompt /\ [Next]_vars => Prompt'
  BY NextPrompt
<1>3. IInv /\ SecondHolderOnlyByLateRenewal /\ Prompt => AtMostOneLive
  <2> SUFFICES ASSUME IInv, SecondHolderOnlyByLateRenewal, Prompt,
                      NEW r \in Resources, NEW i \in LiveNow(r),
                      NEW j \in LiveNow(r), i # j
               PROVE  FALSE
    BY DEF AtMostOneLive
  <2>1. i \in Nat /\ j \in Nat
    BY RowTyped DEF LiveNow, IInv
  <2>2. i < j \/ j < i
    BY <2>1
  <2>3. QED
    BY <2>2 DEF SecondHolderOnlyByLateRenewal, Prompt
<1>4. QED
  BY <1>1, <1>2, <1>3, SpecIInv, SecondHolder, PTL DEF Spec

-----------------------------------------------------------------------------
(* What the steps do to the table: nothing, or one of three writes. *)
LEMMA TableStep ==
  ASSUME IInv, [Next]_vars
  PROVE  \/ UNCHANGED claims
         \/ \E a \in Agents : /\ call[a].pc = "decided" /\ call[a].outcome = "granted"
                              /\ ~SomeLive(call[a].resource, call[a].now)
                              /\ InsertLands(a)
         \/ \E a \in Agents : /\ RenewClaim(a)
                              /\ IsLive(claims[call[a].resource][call[a].id], call[a].now)
                              /\ claims[call[a].resource][call[a].id].holder = a
                              /\ RenewalLands(a)
         \/ \E a \in Agents : ReleaseClaim(a)
<1>1. ASSUME NEW a \in Agents, WriteRefused(a) PROVE UNCHANGED claims
  BY <1>1 DEF WriteRefused
<1>2. ASSUME NEW a \in Agents, ReadAndDecide(a) \/ ReportLostRace(a) \/ Crash(a)
      PROVE  UNCHANGED claims
  BY <1>2 DEF ReadAndDecide, ReportLostRace, Crash
<1>3. ASSUME NEW a \in Agents, NEW op, NEW r, NEW force, Start(a, op, r, force)
      PROVE  UNCHANGED claims
  BY <1>3 DEF Start
<1>4. Tick \/ UNCHANGED vars => UNCHANGED claims
  BY DEF Tick, vars
<1>5. QED
  BY <1>1, <1>2, <1>3, <1>4
  DEF Next, AgentStep, StartClaim, StartRelease, InsertClaim, RenewClaim

LEMMA RowsStay ==
  ASSUME IInv, [Next]_vars, NEW r \in Resources, NEW i \in DOMAIN claims[r]
  PROVE  RowStays(r, i)
<1>1. CASE UNCHANGED claims
  BY <1>1 DEF RowStays
<1>2. ASSUME NEW a \in Agents, call[a].pc = "decided", InsertLands(a)
      PROVE  RowStays(r, i)
  <2> DEFINE q == call[a].resource
  <2>1. q \in Resources /\ claims[r] \in Seq(Row) /\ claims[q] \in Seq(Row)
        /\ claims \in [Resources -> Seq(Row)]
    BY <1>2 DEF IInv, TypeOK, CallOK
  <2>2. claims' = [claims EXCEPT ![q] = Append(claims[q], NewRow(a))]
    BY <1>2 DEF InsertLands
  <2>3. CASE r # q
    BY <2>1, <2>2, <2>3 DEF RowStays
  <2>4. CASE r = q
    <3>1. claims'[r] = Append(claims[r], NewRow(a))
      BY <2>1, <2>2, <2>4
    <3>2. i \in DOMAIN claims'[r] /\ claims'[r][i] = claims[r][i]
      BY <3>1, <2>1
    <3>3. QED
      BY <3>2 DEF RowStays
  <2>5. QED
    BY <2>3, <2>4
<1>3. ASSUME NEW a \in Agents, RenewClaim(a), RenewalLands(a),
             IsLive(claims[call[a].resource][call[a].id], call[a].now)
      PROVE  RowStays(r, i)
  <2> DEFINE q == call[a].resource
             k == call[a].id
             row == [claims[q][k] EXCEPT !.expires = call[a].now + Ttl(a)]
  <2>1. q \in Resources /\ k \in DOMAIN claims[q] /\ call[a].now \in Nat
    BY <1>3 DEF RenewClaim, IInv, TypeOK, CallOK, Call
  <2>2. claims[q][k] \in Row /\ call[a].now + Ttl(a) \in Nat
    BY <2>1, RowTyped, TtlPositive DEF IInv
  <2>3. /\ row \in Row /\ row.holder = claims[q][k].holder
        /\ row.claimed = claims[q][k].claimed
    BY <2>2 DEF Row
  <2>4. claims' = [claims EXCEPT ![q] = [claims[q] EXCEPT ![k] = row]]
    BY <1>3 DEF RenewalLands
  <2>5. ~claims[q][k].released
    BY <1>3 DEF IsLive
  <2> HIDE DEF row
  <2>6. QED
    BY <2>1, <2>3, <2>4, <2>5, RowUpdate DEF RowStays, IInv
<1>4. ASSUME NEW a \in Agents, ReleaseClaim(a)
      PROVE  RowStays(r, i)
  <2> DEFINE q == call[a].resource
             k == call[a].id
             row == [claims[q][k] EXCEPT !.released = TRUE]
  <2>1. q \in Resources /\ k \in DOMAIN claims[q]
    BY <1>4 DEF ReleaseClaim, IInv, CallOK
  <2>2. claims[q][k] \in Row
    BY <2>1, RowTyped DEF IInv
  <2>3. /\ row \in Row /\ row.holder = claims[q][k].holder
        /\ row.claimed = claims[q][k].claimed
        /\ claims[q][k].released => row = claims[q][k]
    BY <2>2 DEF Row
  <2>4. claims' = [claims EXCEPT ![q] = [claims[q] EXCEPT ![k] = row]]
    BY <1>4 DEF ReleaseClaim
  <2> HIDE DEF row
  <2>5. QED
    BY <2>1, <2>3, <2>4, RowUpdate DEF RowStays, IInv
<1>5. QED
  BY <1>1, <1>2, <1>3, <1>4, TableStep

(* A release is final and a row's past is fixed, for every instance. *)
THEOREM ReleaseFinal == Spec => ReleaseIsFinal
<1> DEFINE AllStay == \A r \in Resources : \A i \in DOMAIN claims[r] : RowStays(r, i)
<1>1. IInv /\ [Next]_vars => [AllStay]_vars
  BY RowsStay
<1>2. QED
  BY <1>1, SpecIInv, PTL DEF Spec, ReleaseIsFinal

-----------------------------------------------------------------------------
(* A takeover is told from what the call read before its INSERT.  A row    *)
(* that was put in between was sampled at most MaxStall before it, which   *)
(* is less than it lasts, so it is still live and the INSERT is refused.   *)

InTime(a) == call[a].pc # "idle" => clock <= call[a].now + MaxStall

LastsItsTtl ==
  \A r \in Resources : \A i \in DOMAIN claims[r] :
    claims[r][i].claimed + Ttl(claims[r][i].holder) <= claims[r][i].expires

(* What a granted call knows of the rows of its resource. *)
Knows(c, rows) ==
  c.pc = "decided" /\ c.outcome = "granted" =>
    /\ c.id <= Len(rows)
    /\ \A i \in DOMAIN rows :
         /\ i = c.id => rows[i].released \/ rows[i].holder = c.tookOver
         /\ i > c.id => c.now <= rows[i].claimed + MaxStall

Audible ==
  /\ \A a \in Agents : InTime(a)
  /\ LastsItsTtl
  /\ \A a \in Agents : call[a].pc # "idle" => Knows(call[a], claims[call[a].resource])

LEMMA StepOfCall ==
  ASSUME IInv, [Next]_vars, NEW b \in Agents
  PROVE  \/ call'[b].pc = "idle"
         \/ call'[b].pc = "sampled" /\ call'[b].now = clock /\ clock' = clock
         \/ /\ call[b].pc # "idle" /\ call'[b].pc # "idle"
            /\ call'[b].now = call[b].now /\ call'[b].resource = call[b].resource
            /\ call'[b] = call[b] \/ call'[b].pc = "refused" \/ ReadAndDecide(b)
<1>1. call \in [Agents -> Call] /\ call[b] \in Call /\ NoCall.pc = "idle"
  BY DEF IInv, TypeOK, NoCall
<1>2. CASE UNCHANGED call
  BY <1>2
<1>3. ASSUME NEW a \in Agents, NEW d, Finish(a, d)
      PROVE  call'[b] = call[b] \/ call'[b].pc = "idle"
  BY <1>1, <1>3 DEF Finish
<1>4. ASSUME NEW a \in Agents, WriteRefused(a), call[a].pc = "decided"
      PROVE  \/ call'[b] = call[b]
             \/ /\ call[b].pc # "idle" /\ call'[b].pc = "refused" /\ call'[b].now = call[b].now
                /\ call'[b].resource = call[b].resource
  BY <1>1, <1>4 DEF WriteRefused, Call
<1>5. ASSUME NEW a \in Agents, NEW op, NEW r, NEW force, Start(a, op, r, force)
      PROVE  \/ call'[b] = call[b]
             \/ call'[b].pc = "sampled" /\ call'[b].now = clock /\ clock' = clock
  BY <1>1, <1>5 DEF Start
<1>6. ASSUME NEW a \in Agents, ReadAndDecide(a)
      PROVE  \/ call'[b] = call[b] \/ call'[b].pc = "idle"
             \/ /\ a = b /\ call[b].pc # "idle" /\ call'[b].pc # "idle"
                /\ call'[b].now = call[b].now /\ call'[b].resource = call[b].resource
  <2>1. call[a].pc = "sampled" /\ call[a] \in Call
    BY <1>1, <1>6 DEF ReadAndDecide
  <2>2. CASE \E d : Finish(a, d)
    BY <1>3, <2>2
  <2>3. CASE ~\E d : Finish(a, d)
    BY <1>1, <1>6, <2>1, <2>3 DEF ReadAndDecide, Call
  <2>4. QED
    BY <2>2, <2>3
<1>7. CASE Tick \/ UNCHANGED vars
  BY <1>2, <1>7 DEF Tick, vars
<1>8. ASSUME NEW a \in Agents, AgentStep(a)
      PROVE  \/ \E op, r, force : Start(a, op, r, force)
             \/ ReadAndDecide(a) \/ \E d : Finish(a, d)
             \/ WriteRefused(a) /\ call[a].pc = "decided"
  <2>1. CASE (\E r \in Resources : StartClaim(a, r)) \/ ReadAndDecide(a)
             \/ \E r \in Resources, force \in BOOLEAN : StartRelease(a, r, force)
    BY <2>1 DEF StartClaim, StartRelease
  <2>2. CASE InsertClaim(a) \/ RenewClaim(a)
    BY <2>2 DEF InsertClaim, InsertLands, RenewClaim, RenewalLands
  <2>3. CASE ReportLostRace(a) \/ ReleaseClaim(a) \/ Crash(a)
    BY <2>3 DEF ReportLostRace, ReleaseClaim, Crash
  <2>4. QED
    BY <1>8, <2>1, <2>2, <2>3 DEF AgentStep
<1>9. CASE \E a \in Agents : AgentStep(a)
  <2>1. PICK a \in Agents : AgentStep(a)
    BY <1>9
  <2>2. CASE \E op, r, force : Start(a, op, r, force)
    BY <1>5, <2>2
  <2>3. CASE ReadAndDecide(a)
    BY <1>6, <2>3
  <2>4. CASE (\E d : Finish(a, d)) \/ (WriteRefused(a) /\ call[a].pc = "decided")
    BY <1>3, <1>4, <2>4
  <2>5. \/ \E op, r, force : Start(a, op, r, force)
        \/ ReadAndDecide(a) \/ \E d : Finish(a, d)
        \/ WriteRefused(a) /\ call[a].pc = "decided"
    BY <1>8, <2>1
  <2>6. QED
    BY <2>2, <2>3, <2>4, <2>5
<1>10. QED
  BY <1>7, <1>9 DEF Next

(* A row appears by an INSERT alone, and is the next one. *)
LEMMA RowAppears ==
  ASSUME IInv, [Next]_vars, NEW r \in Resources, NEW i \in DOMAIN claims'[r],
         i \notin DOMAIN claims[r]
  PROVE  \E a \in Agents :
           /\ call[a].pc = "decided" /\ call[a].outcome = "granted" /\ call[a].resource = r
           /\ ~SomeLive(r, call[a].now) /\ InsertLands(a)
           /\ Len(claims[r]) \in Nat /\ i = Len(claims[r]) + 1 /\ Len(claims'[r]) = i
           /\ claims'[r][i] = NewRow(a)
<1>1. claims[r] \in Seq(Row) /\ claims \in [Resources -> Seq(Row)]
  BY DEF IInv, TypeOK
<1>2. ~UNCHANGED claims
  OBVIOUS
<1>3. ASSUME NEW q \in Resources, NEW k \in DOMAIN claims[q], NEW row \in Row,
             claims' = [claims EXCEPT ![q] = [claims[q] EXCEPT ![k] = row]]
      PROVE  FALSE
  BY <1>3, RowUpdate DEF IInv
<1>4. ASSUME NEW a \in Agents, RenewClaim(a), RenewalLands(a)
      PROVE  FALSE
  <2> DEFINE q == call[a].resource
             k == call[a].id
             row == [claims[q][k] EXCEPT !.expires = call[a].now + Ttl(a)]
  <2>1. /\ q \in Resources /\ k \in DOMAIN claims[q] /\ call[a].now \in Nat
    BY <1>4 DEF RenewClaim, IInv, TypeOK, CallOK, Call
  <2>2. claims[q][k] \in Row /\ call[a].now + Ttl(a) \in Nat
    BY <2>1, RowTyped, TtlPositive DEF IInv
  <2>3. row \in Row
    BY <2>2 DEF Row
  <2>4. claims' = [claims EXCEPT ![q] = [claims[q] EXCEPT ![k] = row]]
    BY <1>4 DEF RenewalLands
  <2> HIDE DEF row
  <2>5. QED
    BY <1>3, <2>1, <2>3, <2>4
<1>5. ASSUME NEW a \in Agents, ReleaseClaim(a)
      PROVE  FALSE
  <2> DEFINE q == call[a].resource
             k == call[a].id
             row == [claims[q][k] EXCEPT !.released = TRUE]
  <2>1. q \in Resources /\ k \in DOMAIN claims[q]
    BY <1>5 DEF ReleaseClaim, IInv, CallOK
  <2>2. claims[q][k] \in Row
    BY <2>1, RowTyped DEF IInv
  <2>3. row \in Row
    BY <2>2 DEF Row
  <2>4. claims' = [claims EXCEPT ![q] = [claims[q] EXCEPT ![k] = row]]
    BY <1>5 DEF ReleaseClaim
  <2> HIDE DEF row
  <2>5. QED
    BY <1>3, <2>1, <2>3, <2>4
<1>6. PICK a \in Agents : /\ call[a].pc = "decided" /\ call[a].outcome = "granted"
                          /\ InsertLands(a) /\ ~SomeLive(call[a].resource, call[a].now)
  BY <1>2, <1>4, <1>5, TableStep
<1>7. call[a].resource \in Resources
  BY <1>6 DEF IInv, CallOK
<1>8. claims' = [claims EXCEPT ![call[a].resource] = Append(claims[call[a].resource], NewRow(a))]
  BY <1>6 DEF InsertLands
<1>9. call[a].resource = r /\ claims'[r] = Append(claims[r], NewRow(a))
  BY <1>1, <1>7, <1>8
<1> DEFINE new == NewRow(a)
<1> HIDE DEF new
<1>10. /\ Len(claims[r]) \in Nat /\ i = Len(claims[r]) + 1 /\ Len(claims'[r]) = i
       /\ claims'[r][i] = new
  <2>1. claims'[r] = Append(claims[r], new) /\ DOMAIN claims[r] = 1..Len(claims[r])
    BY <1>1, <1>9 DEF new
  <2>2. QED
    BY <1>1, <2>1
<1>11. QED
  BY <1>6, <1>9, <1>10 DEF new

(* When a row ends changes with a renewal alone. *)
LEMMA RowEnds ==
  ASSUME IInv, [Next]_vars, NEW r \in Resources, NEW i \in DOMAIN claims[r]
  PROVE  \/ claims'[r][i].expires = claims[r][i].expires
         \/ \E a \in Agents : /\ call[a].pc # "idle" /\ call[a].resource = r
                              /\ claims[r][i].holder = a
                              /\ claims'[r][i].expires = call[a].now + Ttl(a)
<1>1. CASE UNCHANGED claims
  BY <1>1
<1>2. ASSUME NEW a \in Agents, call[a].pc = "decided", InsertLands(a)
      PROVE  claims'[r][i].expires = claims[r][i].expires
  <2> DEFINE q == call[a].resource
  <2>1. q \in Resources /\ claims[q] \in Seq(Row) /\ claims \in [Resources -> Seq(Row)]
    BY <1>2 DEF IInv, TypeOK, CallOK
  <2>2. claims' = [claims EXCEPT ![q] = Append(claims[q], NewRow(a))]
    BY <1>2 DEF InsertLands
  <2>3. r # q => claims'[r] = claims[r]
    BY <2>1, <2>2
  <2>4. r = q => claims'[r] = Append(claims[r], NewRow(a))
    BY <2>1, <2>2
  <2>5. r = q => claims'[r][i] = claims[r][i]
    BY <2>1, <2>4
  <2>6. QED
    BY <2>3, <2>5
<1>3. ASSUME NEW a \in Agents, RenewClaim(a), RenewalLands(a),
             claims[call[a].resource][call[a].id].holder = a
      PROVE  \/ claims'[r][i].expires = claims[r][i].expires
             \/ /\ call[a].pc # "idle" /\ call[a].resource = r /\ claims[r][i].holder = a
                /\ claims'[r][i].expires = call[a].now + Ttl(a)
  <2> DEFINE q == call[a].resource
             k == call[a].id
             row == [claims[q][k] EXCEPT !.expires = call[a].now + Ttl(a)]
  <2>1. /\ q \in Resources /\ k \in DOMAIN claims[q] /\ call[a].now \in Nat
        /\ call[a].pc # "idle"
    BY <1>3 DEF RenewClaim, IInv, TypeOK, CallOK, Call
  <2>2. claims[q][k] \in Row /\ call[a].now + Ttl(a) \in Nat
    BY <2>1, RowTyped, TtlPositive DEF IInv
  <2>3. row \in Row /\ row.expires = call[a].now + Ttl(a)
    BY <2>2 DEF Row
  <2>4. claims' = [claims EXCEPT ![q] = [claims[q] EXCEPT ![k] = row]]
    BY <1>3 DEF RenewalLands
  <2> HIDE DEF row
  <2>5. /\ ~(r = q /\ i = k) => claims'[r][i] = claims[r][i]
        /\ claims'[q][k] = row
    BY <2>1, <2>3, <2>4, RowUpdate DEF IInv
  <2>6. QED
    BY <1>3, <2>1, <2>3, <2>5
<1>4. ASSUME NEW a \in Agents, ReleaseClaim(a)
      PROVE  claims'[r][i].expires = claims[r][i].expires
  <2> DEFINE q == call[a].resource
             k == call[a].id
             row == [claims[q][k] EXCEPT !.released = TRUE]
  <2>1. q \in Resources /\ k \in DOMAIN claims[q]
    BY <1>4 DEF ReleaseClaim, IInv, CallOK
  <2>2. claims[q][k] \in Row
    BY <2>1, RowTyped DEF IInv
  <2>3. row \in Row /\ row.expires = claims[q][k].expires
    BY <2>2 DEF Row
  <2>4. claims' = [claims EXCEPT ![q] = [claims[q] EXCEPT ![k] = row]]
    BY <1>4 DEF ReleaseClaim
  <2> HIDE DEF row
  <2>5. /\ ~(r = q /\ i = k) => claims'[r][i] = claims[r][i]
        /\ claims'[q][k] = row
    BY <2>1, <2>3, <2>4, RowUpdate DEF IInv
  <2>6. QED
    BY <2>3, <2>5
<1>5. QED
  BY <1>1, <1>2, <1>3, <1>4, TableStep

LEMMA ReadKnows ==
  ASSUME IInv, NEW b \in Agents, ReadAndDecide(b)
  PROVE  call'[b].pc # "idle" => Knows(call'[b], claims'[call'[b].resource])
<1> DEFINE c == call[b]
           r == c.resource
           n == Len(claims[r])
           d == IF c.op = "claim" THEN DecideClaim(b, r, c.now)
                ELSE DecideRelease(b, r, c.now, c.force)
<1>1. /\ call \in [Agents -> Call] /\ c \in Call /\ c.pc = "sampled" /\ r \in Resources
      /\ NoCall.pc = "idle" /\ c.now \in Nat /\ c.force \in BOOLEAN
  BY DEF IInv, TypeOK, CallOK, ReadAndDecide, NoCall, Call
<1>2. n \in Nat /\ DOMAIN claims[r] = 1..n /\ claims' = claims
  BY <1>1, RowTyped DEF IInv, ReadAndDecide
<1>3. CASE Finish(b, d)
  BY <1>1, <1>3 DEF Finish
<1>4. CASE ~Finish(b, d)
  <2>1. call' = [call EXCEPT ![b].pc = "decided", ![b].outcome = d.outcome, ![b].id = n,
                             ![b].tookOver = d.tookOver]
    BY <1>4 DEF ReadAndDecide, LatestClaim
  <2>2. /\ call'[b].outcome = d.outcome /\ call'[b].id = n /\ call'[b].tookOver = d.tookOver
        /\ call'[b].resource = r
    BY <1>1, <2>1 DEF Call
  <2>3. d.outcome = "granted" /\ n # 0 =>
          claims[r][n].released \/ claims[r][n].holder = d.tookOver
    <3>1. d.outcome = "granted" => c.op = "claim"
      <4>1. DecideRelease(b, r, c.now, c.force).outcome # "granted"
        BY <1>1, DecisionIsReply DEF IInv
      <4>2. QED
        BY <4>1
    <3>2. ASSUME n # 0, DecideClaim(b, r, c.now).outcome = "granted"
          PROVE  claims[r][n].released \/ claims[r][n].holder = DecideClaim(b, r, c.now).tookOver
      <4> DEFINE row == claims[r][n]
      <4>1. row \in Row /\ row.holder \in Agents
        BY <1>1, <1>2, <3>2, RowTyped DEF IInv
      <4> HIDE DEF row
      <4>2. DecideClaim(b, r, c.now) =
              CASE IsLive(row, c.now) /\ row.holder = b -> Answer("renewed")
                [] IsLive(row, c.now) /\ row.holder # b ->
                     [Answer("conflict") EXCEPT !.heldBy = row.holder]
                [] ~IsLive(row, c.now) /\ ~row.released ->
                     [Answer("granted") EXCEPT !.tookOver = row.holder]
                [] OTHER -> Answer("granted")
        BY <3>2 DEF DecideClaim, LatestClaim, row
      <4>3. /\ Answer("renewed").outcome # "granted"
            /\ [Answer("conflict") EXCEPT !.heldBy = row.holder].outcome # "granted"
            /\ [Answer("granted") EXCEPT !.tookOver = row.holder].tookOver = row.holder
        BY DEF Answer, NoReply
      <4>4. QED
        BY <3>2, <4>2, <4>3 DEF row
    <3>3. QED
      BY <3>1, <3>2
  <2> HIDE DEF d, n
  <2>4. QED
    BY <1>2, <2>2, <2>3 DEF Knows, n
<1>5. QED
  BY <1>3, <1>4

LEMMA NextAudible ==
  ASSUME IInv, Audible, [Next]_vars
  PROVE  Audible'
<1>1. clock \in Nat /\ (clock' = clock \/ Tick)
  BY DEF Next, AgentStep, StartClaim, StartRelease, Start, ReadAndDecide, InsertClaim,
         InsertLands, WriteRefused, RenewClaim, RenewalLands, ReportLostRace,
         ReleaseClaim, Crash, vars, IInv, TypeOK
<1>2. ASSUME NEW b \in Agents
      PROVE  InTime(b)'
  <2>1. call[b] \in Call /\ call[b].now \in Nat /\ MaxStall \in Nat
    BY BoundsAssumption DEF IInv, TypeOK, Call
  <2>2. call'[b].pc # "idle" =>
          \/ call'[b].now = clock /\ clock' = clock
          \/ call[b].pc # "idle" /\ call'[b].now = call[b].now
    BY StepOfCall
  <2>3. call[b].pc # "idle" => clock' <= call[b].now + MaxStall
    <3>1. CASE clock' = clock
      BY <3>1 DEF Audible, InTime
    <3>2. CASE Tick
      BY <1>1, <2>1, <3>2 DEF Tick
    <3>3. QED
      BY <1>1, <3>1, <3>2
  <2>4. QED
    BY <1>1, <2>1, <2>2, <2>3 DEF InTime
<1>3. ASSUME NEW r \in Resources, NEW i \in DOMAIN claims'[r]
      PROVE  claims'[r][i].claimed + Ttl(claims'[r][i].holder) <= claims'[r][i].expires
  <2>1. CASE i \in DOMAIN claims[r]
    <3>1. claims'[r][i].holder = claims[r][i].holder /\ claims'[r][i].claimed = claims[r][i].claimed
      BY <2>1, RowsStay DEF RowStays
    <3>2. claims[r][i].claimed \in Nat /\ claims[r][i].holder \in Agents
          /\ claims[r][i].claimed + Ttl(claims[r][i].holder) <= claims[r][i].expires
      BY <2>1, RowTyped DEF Audible, LastsItsTtl, IInv
    <3>3. CASE claims'[r][i].expires = claims[r][i].expires
      BY <3>1, <3>2, <3>3
    <3>4. CASE claims'[r][i].expires # claims[r][i].expires
      <4>1. PICK a \in Agents : /\ call[a].pc # "idle" /\ call[a].resource = r
                                /\ claims[r][i].holder = a
                                /\ claims'[r][i].expires = call[a].now + Ttl(a)
        BY <2>1, <3>4, RowEnds
      <4>2. claims[r][i].claimed <= call[a].now /\ call[a].now \in Nat
        BY <2>1, <4>1 DEF IInv, CallOK, TypeOK, Call
      <4>3. Ttl(a) \in Nat
        BY TtlPositive
      <4>4. QED
        BY <3>1, <3>2, <4>1, <4>2, <4>3
    <3>5. QED
      BY <3>3, <3>4
  <2>2. CASE i \notin DOMAIN claims[r]
    <3>1. PICK a \in Agents : claims'[r][i] = NewRow(a)
      BY <2>2, RowAppears
    <3>2. call[a].now \in Nat /\ Ttl(a) \in Nat
      BY TtlPositive DEF IInv, TypeOK, Call
    <3>3. QED
      BY <3>1, <3>2 DEF NewRow
  <2>3. QED
    BY <2>1, <2>2
<1>4. ASSUME NEW b \in Agents, call'[b].pc # "idle"
      PROVE  Knows(call'[b], claims'[call'[b].resource])
  <2>1. CASE ReadAndDecide(b)
    BY <1>4, <2>1, ReadKnows
  <2>2. CASE call'[b].pc # "decided"
    BY <2>2 DEF Knows
  <2>3. CASE call'[b] = call[b] /\ call[b].pc # "idle"
    <3> DEFINE c == call[b]
               r == c.resource
    <3>1. /\ c \in Call /\ r \in Resources /\ c.now \in Nat /\ c.now <= clock /\ c.id \in Nat
          /\ Knows(c, claims[r])
      BY <2>3 DEF IInv, TypeOK, CallOK, Call, Audible
    <3>2. SUFFICES ASSUME c.pc = "decided", c.outcome = "granted"
                   PROVE  /\ c.id <= Len(claims'[r])
                          /\ \A i \in DOMAIN claims'[r] :
                               /\ i = c.id => claims'[r][i].released
                                                \/ claims'[r][i].holder = c.tookOver
                               /\ i > c.id => c.now <= claims'[r][i].claimed + MaxStall
      BY <2>3 DEF Knows
    <3>3. /\ Len(claims[r]) \in Nat /\ DOMAIN claims[r] = 1..Len(claims[r])
          /\ c.id <= Len(claims[r])
      BY <3>1, <3>2, RowTyped DEF IInv, Knows
    <3>4. ASSUME NEW i \in DOMAIN claims[r]
          PROVE  /\ i \in DOMAIN claims'[r]
                 /\ i = c.id => claims'[r][i].released \/ claims'[r][i].holder = c.tookOver
                 /\ i > c.id => c.now <= claims'[r][i].claimed + MaxStall
      <4>1. RowStays(r, i)
        BY <3>1, RowsStay
      <4>2. /\ i = c.id => claims[r][i].released \/ claims[r][i].holder = c.tookOver
            /\ i > c.id => c.now <= claims[r][i].claimed + MaxStall
        BY <3>1, <3>2 DEF Knows
      <4>3. claims[r][i].released => claims'[r][i].released
        BY <4>1 DEF RowStays
      <4>4. QED
        BY <4>1, <4>2, <4>3 DEF RowStays
    <3>5. ASSUME NEW i \in DOMAIN claims'[r], i \notin DOMAIN claims[r]
          PROVE  i > c.id /\ c.now <= claims'[r][i].claimed + MaxStall
      <4>1. PICK a \in Agents : /\ call[a].pc = "decided" /\ i = Len(claims[r]) + 1
                                /\ claims'[r][i] = NewRow(a)
        BY <3>1, <3>5, RowAppears
      <4>2. clock <= call[a].now + MaxStall /\ claims'[r][i].claimed = call[a].now
            /\ call[a].now \in Nat /\ MaxStall \in Nat
        BY <4>1, BoundsAssumption DEF Audible, InTime, NewRow, IInv, TypeOK, Call
      <4>3. QED
        BY <1>1, <3>1, <3>3, <4>1, <4>2
    <3>6. c.id <= Len(claims'[r])
      <4>1. claims'[r] \in Seq(Row)
        BY <3>1, NextIInv DEF IInv, TypeOK
      <4>2. DOMAIN claims'[r] = 1..Len(claims'[r]) /\ Len(claims'[r]) \in Nat
        BY <4>1
      <4>3. c.id = 0 \/ c.id \in DOMAIN claims[r]
        BY <3>1, <3>3
      <4>4. QED
        BY <3>4, <4>2, <4>3
    <3>7. QED
      BY <3>3, <3>4, <3>5, <3>6
  <2>4. QED
    BY <1>4, <2>1, <2>2, <2>3, StepOfCall
<1>5. QED
  BY <1>2, <1>3, <1>4 DEF Audible, LastsItsTtl

(* TakeoverIsAudible: if a call ends before a claim made as it began would *)
(* lapse, a claim that steps over a row nobody released names that row's   *)
(* holder, whatever was written between its read and its INSERT.           *)
THEOREM TakeoversAreTold ==
  ASSUME \A a \in Agents : MaxStall < Ttl(a)
  PROVE  Spec => TakeoverIsAudible
<1> DEFINE Told(a, r) ==
      LET n == Len(claims[r]) IN
      (Len(claims'[r]) > n /\ n > 0 /\ ~claims[r][n].released /\ claims'[r][n + 1].holder = a)
        => reply'[a].tookOver = claims[r][n].holder
<1>1. Init => Audible
  BY DEF Init, Audible, InTime, LastsItsTtl, NoCall
<1>2. IInv /\ Audible /\ [Next]_vars => Audible'
  BY NextAudible
<1>3. IInv /\ Audible /\ [Next]_vars => [\A a \in Agents, r \in Resources : Told(a, r)]_vars
  <2> SUFFICES ASSUME IInv, Audible, [Next]_vars, NEW a \in Agents, NEW r \in Resources,
                      Len(claims'[r]) > Len(claims[r]), Len(claims[r]) > 0,
                      ~claims[r][Len(claims[r])].released,
                      claims'[r][Len(claims[r]) + 1].holder = a
               PROVE  reply'[a].tookOver = claims[r][Len(claims[r])].holder
    OBVIOUS
  <2> DEFINE n == Len(claims[r])
             row == claims[r][n]
             now == call[a].now
  <2>1. n \in Nat /\ DOMAIN claims[r] = 1..n /\ n \in DOMAIN claims[r]
    BY RowTyped DEF IInv
  <2>2. n + 1 \in DOMAIN claims'[r] /\ n + 1 \notin DOMAIN claims[r]
    <3>1. claims'[r] \in Seq(Row)
      BY NextIInv DEF IInv, TypeOK
    <3>2. DOMAIN claims'[r] = 1..Len(claims'[r]) /\ Len(claims'[r]) \in Nat
      BY <3>1
    <3>3. QED
      BY <2>1, <3>2
  <2>3. PICK b \in Agents : /\ call[b].pc = "decided" /\ call[b].outcome = "granted"
                            /\ call[b].resource = r /\ ~SomeLive(r, call[b].now)
                            /\ InsertLands(b) /\ claims'[r][n + 1] = NewRow(b)
    BY <2>2, RowAppears
  <2>4. b = a
    BY <2>3 DEF NewRow
  <2>5. /\ call[a] \in Call /\ now \in Nat /\ call[a].id \in Nat
        /\ call[a].id <= n
        /\ n = call[a].id => row.released \/ row.holder = call[a].tookOver
        /\ n > call[a].id => now <= row.claimed + MaxStall
    <3>1. call[a] \in Call /\ now \in Nat /\ call[a].id \in Nat
      BY DEF IInv, TypeOK, Call
    <3>2. Knows(call[a], claims[r])
      BY <2>3, <2>4 DEF Audible
    <3>3. QED
      BY <2>1, <2>3, <2>4, <3>1, <3>2 DEF Knows
  <2>6. ~(row.expires > now)
    BY <2>1, <2>3, <2>4 DEF SomeLive, IsLive
  <2>7. /\ row.claimed \in Nat /\ row.expires \in Nat /\ row.holder \in Agents
        /\ row.claimed + Ttl(row.holder) <= row.expires
    BY <2>1, RowTyped DEF IInv, Audible, LastsItsTtl
  <2>8. MaxStall \in Nat /\ MaxStall < Ttl(row.holder) /\ Ttl(row.holder) \in Nat
    BY <2>7, BoundsAssumption, TtlPositive
  <2>9. n = call[a].id
    <3> HIDE DEF n, row, now
    <3>1. now <= row.claimed + MaxStall => row.expires > now
      BY <2>5, <2>7, <2>8
    <3>2. QED
      BY <2>1, <2>5, <2>6, <3>1
  <2>10. reply'[a].tookOver = call[a].tookOver
    <3>1. reply \in [Agents -> Reply]
      BY DEF IInv, TypeOK
    <3>2. reply' = [reply EXCEPT ![a] = [Answer("granted") EXCEPT !.tookOver = call[a].tookOver]]
      BY <2>3, <2>4 DEF InsertLands, Finish
    <3>3. QED
      BY <3>1, <3>2 DEF Answer, NoReply
  <2>11. QED
    BY <2>5, <2>9, <2>10
<1>4. QED
  BY <1>1, <1>2, <1>3, SpecIInv, PTL DEF Spec, TakeoverIsAudible

-----------------------------------------------------------------------------
(* The refinement of ExclusiveLease. *)
LEMMA VacateStep ==
  ASSUME \A r \in Resources : Owner'[r] \in {Owner[r], NoAgent}
  PROVE  Lease!Next
<1> DEFINE S == {r \in Resources : Owner'[r] = NoAgent}
<1>1. Owner' = [r \in Resources |-> Owner'[r]]
  BY DEF Owner
<1>2. Owner' = [r \in Resources |-> IF r \in S THEN NoAgent ELSE Owner[r]]
  BY <1>1
<1>3. QED
  BY <1>2 DEF Lease!Next, Lease!Vacate

(* What the owner of one resource is, spelt out. *)
LEMMA OwnerOf ==
  ASSUME NEW r \in Resources
  PROVE  /\ Owner[r] = IF Len(claims[r]) > 0 /\ IsLive(claims[r][Len(claims[r])], clock)
                       THEN claims[r][Len(claims[r])].holder ELSE NoAgent
         /\ Owner'[r] = IF Len(claims'[r]) > 0 /\ IsLive(claims'[r][Len(claims'[r])], clock')
                        THEN claims'[r][Len(claims'[r])].holder ELSE NoAgent
  BY DEF Owner, LatestClaim, IsLive

(* The newest row of every resource is an exclusive lease, whatever the    *)
(* interleaving, the stalls and the TTLs.                                  *)
THEOREM Refinement == Spec => ImplementsLease
<1>1. Init => Lease!Init
  BY DEF Init, Lease!Init, Owner, LatestClaim
<1>2. IInv /\ [Next]_vars => [Lease!Next]_Owner
  <2> SUFFICES ASSUME IInv, [Next]_vars PROVE Lease!Next \/ Owner' = Owner
    OBVIOUS
  <2>1. CASE UNCHANGED claims
    <3>1. clock \in Nat /\ (clock' = clock \/ clock' = clock + 1)
      BY DEF Next, AgentStep, StartClaim, StartRelease, Start, ReadAndDecide, InsertClaim,
             InsertLands, WriteRefused, RenewClaim, RenewalLands, ReportLostRace,
             ReleaseClaim, Crash, Tick, vars, IInv, TypeOK
    <3>2. ASSUME NEW r \in Resources PROVE Owner'[r] \in {Owner[r], NoAgent}
      <4>1. CASE Len(claims[r]) = 0
        BY <2>1, <4>1, OwnerOf
      <4>2. CASE Len(claims[r]) # 0
        <5>1. claims[r][Len(claims[r])].expires \in Nat
          BY <4>2, RowTyped DEF IInv
        <5>2. QED
          BY <2>1, <3>1, <5>1, OwnerOf DEF IsLive
      <4>3. QED
        BY <4>1, <4>2
    <3>3. QED
      BY <3>2, VacateStep
  <2>2. ASSUME NEW a \in Agents, call[a].pc = "decided", InsertLands(a),
               ~SomeLive(call[a].resource, call[a].now)
        PROVE  Lease!Next
    <3> DEFINE q == call[a].resource
    <3>1. /\ q \in Resources /\ claims[q] \in Seq(Row) /\ call[a].now <= clock
          /\ claims \in [Resources -> Seq(Row)] /\ call[a].now \in Nat /\ clock \in Nat
      BY <2>2 DEF IInv, TypeOK, CallOK, Call
    <3>2. claims' = [claims EXCEPT ![q] = Append(claims[q], NewRow(a))] /\ clock' = clock
      BY <2>2 DEF InsertLands
    <3>3. \A r \in Resources : r # q => Owner'[r] = Owner[r]
      BY <3>1, <3>2, OwnerOf DEF IsLive
    <3>4. Owner[q] = NoAgent
      <4>1. CASE Len(claims[q]) = 0
        BY <4>1, <3>1, OwnerOf
      <4>2. CASE Len(claims[q]) # 0
        <5>1. Len(claims[q]) \in DOMAIN claims[q]
              /\ claims[q][Len(claims[q])].expires \in Nat
          BY <3>1, <4>2, RowTyped DEF IInv
        <5>2. ~IsLive(claims[q][Len(claims[q])], clock)
          BY <2>2, <3>1, <5>1 DEF SomeLive, IsLive
        <5>3. QED
          BY <3>1, <5>2, OwnerOf
      <4>3. QED
        BY <4>1, <4>2
    <3>5. Owner'[q] \in {a, NoAgent}
      <4>1. claims'[q] = Append(claims[q], NewRow(a))
        BY <3>1, <3>2
      <4>2. Len(claims'[q]) = Len(claims[q]) + 1 /\ Len(claims[q]) \in Nat
            /\ claims'[q][Len(claims'[q])].holder = a
        BY <3>1, <4>1 DEF NewRow
      <4>3. QED
        BY <3>1, <4>2, OwnerOf
    <3>6. CASE Owner'[q] = NoAgent
      BY <3>3, <3>6, VacateStep
    <3>7. CASE Owner'[q] = a
      <4>1. Owner' = [r \in Resources |-> Owner'[r]] /\ Owner = [r \in Resources |-> Owner[r]]
        BY DEF Owner
      <4>2. Owner' = [Owner EXCEPT ![q] = a]
        BY <4>1, <3>1, <3>3, <3>7
      <4>3. QED
        BY <3>1, <3>4, <4>2 DEF Lease!Next, Lease!Acquire
    <3>8. QED
      BY <3>5, <3>6, <3>7
  <2>3. ASSUME NEW a \in Agents, RenewClaim(a), RenewalLands(a),
               claims[call[a].resource][call[a].id].holder = a
        PROVE  Lease!Next
    <3> DEFINE q == call[a].resource
               k == call[a].id
               row == [claims[q][k] EXCEPT !.expires = call[a].now + Ttl(a)]
    <3>1. /\ q \in Resources /\ k \in DOMAIN claims[q] /\ call[a].now \in Nat
      BY <2>3 DEF RenewClaim, IInv, TypeOK, CallOK, Call
    <3>2. claims[q][k] \in Row /\ call[a].now + Ttl(a) \in Nat
      BY <3>1, RowTyped, TtlPositive DEF IInv
    <3>3. row \in Row /\ row.holder = a
      BY <3>2, <2>3 DEF Row
    <3>4. claims' = [claims EXCEPT ![q] = [claims[q] EXCEPT ![k] = row]] /\ clock' = clock
      BY <2>3 DEF RenewalLands
    <3> HIDE DEF row
    <3>5. /\ claims' \in [Resources -> Seq(Row)]
          /\ \A r \in Resources : DOMAIN claims'[r] = DOMAIN claims[r]
          /\ \A r \in Resources : \A i \in DOMAIN claims[r] :
               ~(r = q /\ i = k) => claims'[r][i] = claims[r][i]
          /\ claims'[q][k] = row
      BY <3>1, <3>3, <3>4, RowUpdate DEF IInv
    <3>6. \A r \in Resources : Len(claims'[r]) = Len(claims[r])
                                /\ Len(claims[r]) \in Nat
                                /\ DOMAIN claims[r] = 1 .. Len(claims[r])
      BY <3>5, RowTyped DEF IInv
    <3>7. \A r \in Resources : ~(r = q /\ Len(claims[q]) = k) => Owner'[r] = Owner[r]
      <4> TAKE r \in Resources
      <4>1. HAVE ~(r = q /\ Len(claims[q]) = k)
      <4>2. Len(claims[r]) > 0 => claims'[r][Len(claims'[r])] = claims[r][Len(claims[r])]
        BY <4>1, <3>5, <3>6
      <4>3. QED
        BY <4>2, <3>4, <3>6, OwnerOf
    <3>8. Len(claims[q]) = k => Owner[q] \in {a, NoAgent} /\ Owner'[q] \in {a, NoAgent}
      BY <2>3, <3>1, <3>3, <3>5, <3>6, OwnerOf
    <3>9. CASE Owner[q] = NoAgent /\ Owner'[q] = a
      <4>1. Owner' = [r \in Resources |-> Owner'[r]] /\ Owner = [r \in Resources |-> Owner[r]]
        BY DEF Owner
      <4>2. Owner' = [Owner EXCEPT ![q] = a]
        BY <4>1, <3>1, <3>7, <3>9
      <4>3. QED
        BY <3>1, <3>9, <4>2 DEF Lease!Next, Lease!Acquire
    <3>10. CASE ~(Owner[q] = NoAgent /\ Owner'[q] = a)
      BY <3>1, <3>7, <3>8, <3>10, VacateStep
    <3>11. QED
      BY <3>9, <3>10
  <2>4. ASSUME NEW a \in Agents, ReleaseClaim(a)
        PROVE  Lease!Next
    <3> DEFINE q == call[a].resource
               k == call[a].id
               row == [claims[q][k] EXCEPT !.released = TRUE]
    <3>1. q \in Resources /\ k \in DOMAIN claims[q]
      BY <2>4 DEF ReleaseClaim, IInv, CallOK
    <3>2. claims[q][k] \in Row
      BY <3>1, RowTyped DEF IInv
    <3>3. row \in Row /\ row.released
      BY <3>2 DEF Row
    <3>4. claims' = [claims EXCEPT ![q] = [claims[q] EXCEPT ![k] = row]] /\ clock' = clock
      BY <2>4 DEF ReleaseClaim
    <3> HIDE DEF row
    <3>5. /\ claims' \in [Resources -> Seq(Row)]
          /\ \A r \in Resources : DOMAIN claims'[r] = DOMAIN claims[r]
          /\ \A r \in Resources : \A i \in DOMAIN claims[r] :
               ~(r = q /\ i = k) => claims'[r][i] = claims[r][i]
          /\ claims'[q][k] = row
      BY <3>1, <3>3, <3>4, RowUpdate DEF IInv
    <3>6. \A r \in Resources : Len(claims'[r]) = Len(claims[r])
                                /\ Len(claims[r]) \in Nat
                                /\ DOMAIN claims[r] = 1 .. Len(claims[r])
      BY <3>5, RowTyped DEF IInv
    <3>7. ASSUME NEW r \in Resources PROVE Owner'[r] \in {Owner[r], NoAgent}
      <4>1. CASE r = q /\ Len(claims[q]) = k
        BY <4>1, <3>3, <3>5, <3>6, OwnerOf DEF IsLive
      <4>2. CASE ~(r = q /\ Len(claims[q]) = k)
        <5>1. Len(claims[r]) > 0 => claims'[r][Len(claims'[r])] = claims[r][Len(claims[r])]
          BY <4>2, <3>5, <3>6
        <5>2. QED
          BY <5>1, <3>4, <3>6, OwnerOf
      <4>3. QED
        BY <4>1, <4>2
    <3>8. QED
      BY <3>7, VacateStep
  <2>5. QED
    BY <2>1, <2>2, <2>3, <2>4, TableStep
<1>3. QED
  BY <1>1, <1>2, SpecIInv, PTL DEF Spec, ImplementsLease, Lease!Spec
=============================================================================
