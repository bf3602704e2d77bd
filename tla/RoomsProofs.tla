---------------------------- MODULE RoomsProofs ----------------------------
(***************************************************************************)
(* Proofs about Rooms, for any number of agents and clients and any        *)
(* number of messages.                                                     *)
(*                                                                         *)
(* NothingSkipped is not inductive: a read carries ids from its SELECT to  *)
(* the UPDATE of the mark, with statements of others in between.  Reading  *)
(* says what it may carry: below its since_id and below its floor all is   *)
(* consumed, and between the floor and the id it will advance to all is in *)
(* its hands.  Known bounds every id by the next one, so what is posted    *)
(* meanwhile is never below a mark; Anchoring says that a join sets the    *)
(* mark no higher than the join's own announcement.                        *)
(*                                                                         *)
(* For what is shown twice or too early the mark must not be too low.      *)
(* Fresh says when it is not: above the anchor and all that was consumed,  *)
(* for every agent that no race has bared, but between the membership and  *)
(* the mark of its own join.                                               *)
(***************************************************************************)
EXTENDS Rooms, TLAPS

Targets == \A h \in Handles : call[h].pc # "idle" => call[h].who \in Handles

(* All that others posted after the join and with lo < id <= hi was shown. *)
Covered(ms, anc, con, a, lo, hi) ==
  \A m \in ms : m.from # a /\ anc[a] < m.id /\ lo < m.id /\ m.id <= hi => m.id \in con[a]

Known ==
  /\ \A h \in Handles : reads[h] < nextId
  /\ \A h \in Handles : /\ call[h].since < nextId
                        /\ call[h].floor < nextId
                        /\ call[h].upTo < nextId
  /\ \A a \in Agents : anchor[a] < nextId

AnchoringOf(h) ==
  call[h].pc = "anchor" /\ call[h].who \in Agents => call[h].upTo <= anchor[call[h].who]

ReadingOf(a) ==
  /\ call[a].pc \in {"fetch", "recheck", "advance"} =>
       Covered(msgs, anchor, consumed, a, call[a].since, call[a].floor)
  /\ call[a].pc \in {"recheck", "advance"} =>
       \A m \in msgs : m.from # a /\ call[a].floor < m.id /\ m.id <= call[a].upTo
                       => m.id \in call[a].got
  /\ call[a].pc = "advance" => Covered(msgs, anchor, consumed, a, 0, call[a].since)

Anchoring == \A h \in Handles : AnchoringOf(h)
Reading == \A a \in Agents : ReadingOf(a)

Marked == \A a \in Agents : Covered(msgs, anchor, consumed, a, 0, reads[a])

Typed == TypeOK /\ Targets
IInv == Typed /\ Known /\ Anchoring /\ Reading /\ Marked

-----------------------------------------------------------------------------
(* How a step changes the call that makes it. *)

(* The call of h alone changes, to this step, target and ids. *)
Becomes(h, step, who, since, floor, got, upTo) ==
  /\ call' \in [Handles -> Call]
  /\ \A g \in Handles \ {h} : call'[g] = call[g]
  /\ call'[h].pc = step /\ call'[h].who = who /\ call'[h].since = since
  /\ call'[h].floor = floor /\ call'[h].got = got /\ call'[h].upTo = upTo

LEMMA CallSet ==
  ASSUME TypeOK, NEW h \in Handles, NEW r \in Call, call' = [call EXCEPT ![h] = r]
  PROVE  /\ call' \in [Handles -> Call]
         /\ call'[h] = r
         /\ \A g \in Handles \ {h} : call'[g] = call[g]
  BY DEF TypeOK

LEMMA IdleTyped == Idle \in Call
  BY DEF Idle, Call, Steps

LEMMA Returned ==
  ASSUME TypeOK, NEW h \in Handles, Return(h)
  PROVE  Becomes(h, "idle", Nobody, 0, 0, {}, 0)
<1>1. call' \in [Handles -> Call] /\ call'[h] = Idle
      /\ \A g \in Handles \ {h} : call'[g] = call[g]
  BY IdleTyped, CallSet DEF Return
<1>2. QED
  BY <1>1 DEF Becomes, Idle

LEMMA Continued ==
  ASSUME TypeOK, NEW h \in Handles, NEW step \in Steps, Continue(h, step)
  PROVE  Becomes(h, step, call[h].who, call[h].since, call[h].floor, call[h].got,
                 call[h].upTo)
<1>1. call[h] \in Call
  BY DEF TypeOK
<1> DEFINE r == [call[h] EXCEPT !.pc = step]
<1>2. /\ r \in Call /\ r.pc = step /\ r.who = call[h].who /\ r.since = call[h].since
      /\ r.floor = call[h].floor /\ r.got = call[h].got /\ r.upTo = call[h].upTo
  BY <1>1 DEF Call
<1>3. call' = [call EXCEPT ![h] = r]
  BY DEF Continue
<1> HIDE DEF r
<1>4. call' \in [Handles -> Call] /\ call'[h] = r
      /\ \A g \in Handles \ {h} : call'[g] = call[g]
  BY <1>2, <1>3, CallSet
<1>5. QED
  BY <1>2, <1>4 DEF Becomes

LEMMA ContinuedAt ==
  ASSUME TypeOK, NEW h \in Handles, NEW step \in Steps, NEW n \in Nat,
         call' = [call EXCEPT ![h] = [@ EXCEPT !.pc = step, !.upTo = n]]
  PROVE  Becomes(h, step, call[h].who, call[h].since, call[h].floor, call[h].got, n)
<1>1. call[h] \in Call
  BY DEF TypeOK
<1> DEFINE r == [call[h] EXCEPT !.pc = step, !.upTo = n]
<1>2. /\ r \in Call /\ r.pc = step /\ r.who = call[h].who /\ r.since = call[h].since
      /\ r.floor = call[h].floor /\ r.got = call[h].got /\ r.upTo = n
  BY <1>1 DEF Call
<1>3. call' = [call EXCEPT ![h] = r]
  OBVIOUS
<1> HIDE DEF r
<1>4. call' \in [Handles -> Call] /\ call'[h] = r
      /\ \A g \in Handles \ {h} : call'[g] = call[g]
  BY <1>2, <1>3, CallSet
<1>5. QED
  BY <1>2, <1>4 DEF Becomes

LEMMA Entered ==
  ASSUME TypeOK, NEW h \in Handles, NEW op \in OpNames, NEW who \in Handles,
         NEW step \in Steps, Enter(h, op, who, step)
  PROVE  Becomes(h, step, who, 0, 0, {}, 0)
<1> DEFINE r == [Idle EXCEPT !.op = op, !.pc = step, !.who = who]
<1>1. /\ r \in Call /\ r.pc = step /\ r.who = who /\ r.since = 0
      /\ r.floor = 0 /\ r.got = {} /\ r.upTo = 0
  BY DEF Idle, Call
<1>2. call' = [call EXCEPT ![h] = r]
  BY DEF Enter
<1> HIDE DEF r
<1>3. call' \in [Handles -> Call] /\ call'[h] = r
      /\ \A g \in Handles \ {h} : call'[g] = call[g]
  BY <1>1, <1>2, CallSet
<1>4. QED
  BY <1>1, <1>3 DEF Becomes

-----------------------------------------------------------------------------
(* What most steps do: they return, go on or begin, and are not at a       *)
(* statement the invariant speaks of.                                      *)

Delicate == {"anchor", "fetch", "recheck", "advance"}

Settles(h) ==
  /\ call' \in [Handles -> Call]
  /\ \A g \in Handles \ {h} : call'[g] = call[g]
  /\ call'[h].pc \notin Delicate
  /\ call'[h].pc # "idle" => call'[h].who \in Handles
  /\ call'[h].since \in {0, call[h].since}
  /\ call'[h].floor \in {0, call[h].floor}
  /\ call'[h].upTo \in {0, call[h].upTo}

LEMMA ReturnSettles ==
  ASSUME TypeOK, NEW h \in Handles, Return(h)
  PROVE  Settles(h)
<1>1. Becomes(h, "idle", Nobody, 0, 0, {}, 0)
  BY Returned
<1>2. QED
  BY <1>1 DEF Becomes, Settles, Delicate

LEMMA ContinueSettles ==
  ASSUME Typed, NEW h \in Handles, NEW step \in Steps \ Delicate, Continue(h, step),
         call[h].pc # "idle"
  PROVE  Settles(h)
<1>1. Becomes(h, step, call[h].who, call[h].since, call[h].floor, call[h].got,
              call[h].upTo)
  BY Continued DEF Typed
<1>2. QED
  BY <1>1 DEF Becomes, Settles, Typed, Targets

LEMMA EnterSettles ==
  ASSUME TypeOK, NEW h \in Handles, NEW op \in OpNames, NEW who \in Handles,
         NEW step \in Steps \ Delicate, Enter(h, op, who, step)
  PROVE  Settles(h)
<1>1. Becomes(h, step, who, 0, 0, {}, 0)
  BY Entered
<1>2. QED
  BY <1>1 DEF Becomes, Settles

-----------------------------------------------------------------------------
(* The type invariant. *)

(* TypeOK but for the calls. *)
TablesTyped ==
  /\ owner \in Handles \cup {Nobody}
  /\ members \subseteq Handles
  /\ reads \in [Handles -> Nat]
  /\ msgs \subseteq Message
  /\ nextId \in Nat \ {0}
  /\ anchor \in [Agents -> Nat]
  /\ consumed \in [Agents -> SUBSET Nat]
  /\ bared \subseteq Agents
  /\ members # {} => owner # Nobody
  /\ \A m \in msgs : m.id < nextId

LEMMA SettledTyped ==
  ASSUME Typed, NEW h \in Handles, Settles(h), TablesTyped'
  PROVE  Typed'
<1>1. TypeOK'
  BY DEF TypeOK, TablesTyped, Settles
<1>2. Targets'
  BY DEF Typed, Targets, Settles
<1>3. QED
  BY <1>1, <1>2 DEF Typed

LEMMA BecomesTyped ==
  ASSUME Typed, NEW h \in Handles, NEW step, NEW who \in Handles, NEW since, NEW floor,
         NEW got, NEW upTo, Becomes(h, step, who, since, floor, got, upTo), TablesTyped'
  PROVE  Typed'
<1>1. TypeOK'
  BY DEF TypeOK, TablesTyped, Becomes
<1>2. Targets'
  BY DEF Typed, Targets, Becomes
<1>3. QED
  BY <1>1, <1>2 DEF Typed

LEMMA Posted ==
  ASSUME TablesTyped, NEW from \in Handles \cup {System}
  PROVE  LET ms == msgs \cup {[id |-> nextId, from |-> from]}
         IN /\ ms \subseteq Message /\ nextId + 1 \in Nat \ {0}
            /\ \A m \in ms : m.id < nextId + 1
            /\ \A m \in ms : m \in msgs \/ m.id = nextId
<1>1. [id |-> nextId, from |-> from] \in Message
  BY DEF TablesTyped, Message
<1>2. \A m \in msgs : m.id \in Nat
  BY DEF TablesTyped, Message
<1>3. QED
  BY <1>1, <1>2 DEF TablesTyped

LEMMA InitTyped == Init => Typed
<1>1. SUFFICES ASSUME Init PROVE Typed
  OBVIOUS
<1>2. \A h \in Handles : call[h] = Idle
  BY <1>1 DEF Init
<1>3. TypeOK
  BY <1>1, IdleTyped DEF Init, TypeOK
<1>4. Targets
  BY <1>2 DEF Targets, Idle
<1>5. QED
  BY <1>3, <1>4 DEF Typed

-----------------------------------------------------------------------------
(* What every step does to messages, ids and histories: ids go up, what is *)
(* new has the next id, a join moves its anchor up, and what was consumed  *)
(* stays consumed as long as there are messages.                           *)

Grows ==
  /\ nextId <= nextId'
  /\ \A m \in msgs' : m \in msgs \/ (m.id = nextId /\ nextId < nextId')
  /\ \A a \in Agents : anchor[a] <= anchor'[a] /\ anchor'[a] < nextId'
  /\ \/ msgs' = {}
     \/ \A a \in Agents : consumed[a] \subseteq consumed'[a]

LEMMA SameGrows ==
  ASSUME TypeOK, Known, msgs' = msgs, nextId' = nextId, anchor' = anchor,
         consumed' = consumed
  PROVE  Grows
  BY DEF TypeOK, Known, Grows

LEMMA CoveredGrows ==
  ASSUME TypeOK, TablesTyped', Grows, NEW a \in Agents, NEW lo, NEW hi \in Nat,
         hi < nextId, Covered(msgs, anchor, consumed, a, lo, hi)
  PROVE  Covered(msgs', anchor', consumed', a, lo, hi)
<1>1. SUFFICES ASSUME NEW m \in msgs', m.from # a, anchor'[a] < m.id, lo < m.id, m.id <= hi
               PROVE  m.id \in consumed'[a]
  BY DEF Covered
<1>2. m.id \in Nat /\ nextId \in Nat /\ anchor[a] \in Nat /\ anchor'[a] \in Nat
  BY DEF TypeOK, TablesTyped, Message
<1>3. m \in msgs
  BY <1>1, <1>2 DEF Grows
<1>4. anchor[a] < m.id
  BY <1>1, <1>2 DEF Grows
<1>5. m.id \in consumed[a]
  BY <1>1, <1>3, <1>4 DEF Covered
<1>6. QED
  BY <1>5 DEF Grows

(* The invariant of a call that stands still while others step. *)
LEMMA OthersKeep ==
  ASSUME Typed, Known, TablesTyped', Grows, NEW g \in Handles, call'[g] = call[g]
  PROVE  /\ AnchoringOf(g) => AnchoringOf(g)'
         /\ g \in Agents /\ ReadingOf(g) => ReadingOf(g)'
<1>1. call[g] \in Call
  BY DEF Typed, TypeOK
<1>2. ASSUME AnchoringOf(g), call[g].pc = "anchor", call[g].who \in Agents
      PROVE  call[g].upTo <= anchor'[call[g].who]
  <2>1. call[g].upTo <= anchor[call[g].who] /\ anchor[call[g].who] <= anchor'[call[g].who]
    BY <1>2 DEF AnchoringOf, Grows
  <2>2. call[g].upTo \in Nat /\ anchor[call[g].who] \in Nat /\ anchor'[call[g].who] \in Nat
    BY <1>1, <1>2 DEF Call, Typed, TypeOK, TablesTyped
  <2>3. QED
    BY <2>1, <2>2
<1>3. ASSUME g \in Agents, ReadingOf(g)
      PROVE  ReadingOf(g)'
  <2>1. /\ call[g].floor \in Nat /\ call[g].since \in Nat /\ call[g].upTo \in Nat
        /\ call[g].floor < nextId /\ call[g].since < nextId /\ call[g].upTo < nextId
    BY <1>1 DEF Known, Call
  <2>2. call[g].pc \in {"fetch", "recheck", "advance"} =>
          Covered(msgs', anchor', consumed', g, call[g].since, call[g].floor)
    BY <1>3, <2>1, CoveredGrows DEF Typed, ReadingOf
  <2>3. call[g].pc = "advance" =>
          Covered(msgs', anchor', consumed', g, 0, call[g].since)
    BY <1>3, <2>1, CoveredGrows DEF Typed, ReadingOf
  <2>4. ASSUME call[g].pc \in {"recheck", "advance"}, NEW m \in msgs',
               m.from # g, call[g].floor < m.id, m.id <= call[g].upTo
        PROVE  m.id \in call[g].got
    <3>1. m.id \in Nat /\ nextId \in Nat
      BY DEF TablesTyped, Typed, TypeOK, Message
    <3>2. m \in msgs
      BY <2>1, <2>4, <3>1 DEF Grows
    <3>3. QED
      BY <1>3, <2>4, <3>2 DEF ReadingOf
  <2>5. QED
    BY <2>2, <2>3, <2>4 DEF ReadingOf
<1>4. QED
  BY <1>2, <1>3 DEF AnchoringOf

(* A step preserves the invariant if it does for the call that makes it    *)
(* and for the marks it moves.                                             *)
LEMMA StepKeeps ==
  ASSUME IInv, NEW h \in Handles, Typed', Grows,
         \A g \in Handles \ {h} : call'[g] = call[g],
         AnchoringOf(h)', h \in Agents => ReadingOf(h)',
         call'[h].since < nextId', call'[h].floor < nextId', call'[h].upTo < nextId',
         \A g \in Handles : reads'[g] < nextId',
         \A a \in Agents : \/ reads'[a] = reads[a]
                           \/ Covered(msgs', anchor', consumed', a, 0, reads'[a])
  PROVE  IInv'
<1>1. TablesTyped' /\ TypeOK /\ nextId \in Nat /\ nextId' \in Nat /\ Agents \subseteq Handles
  BY DEF IInv, Typed, TypeOK, TablesTyped, Agents
<1>2. Known'
  <2>1. \A g \in Handles \ {h} : /\ call'[g].since < nextId'
                                 /\ call'[g].floor < nextId'
                                 /\ call'[g].upTo < nextId'
    <3>1. SUFFICES ASSUME NEW g \in Handles \ {h}
                   PROVE  /\ call[g].since < nextId'
                          /\ call[g].floor < nextId'
                          /\ call[g].upTo < nextId'
      OBVIOUS
    <3>2. call[g].since \in Nat /\ call[g].floor \in Nat /\ call[g].upTo \in Nat
      BY <1>1 DEF TypeOK, Call
    <3>3. QED
      BY <1>1, <3>2 DEF IInv, Known, Grows
  <2>2. QED
    BY <2>1 DEF Known, Grows
<1>3. Anchoring'
  <2>1. \A g \in Handles \ {h} : AnchoringOf(g)'
    BY <1>1, OthersKeep DEF IInv, Anchoring
  <2>2. QED
    BY <2>1 DEF Anchoring
<1>4. Reading'
  <2>1. \A g \in Agents \ {h} : ReadingOf(g)'
    BY <1>1, OthersKeep DEF IInv, Reading
  <2>2. QED
    BY <2>1 DEF Reading
<1>5. Marked'
  <2>1. SUFFICES ASSUME NEW a \in Agents
                 PROVE  Covered(msgs', anchor', consumed', a, 0, reads'[a])
    BY DEF Marked
  <2>2. CASE reads'[a] = reads[a]
    <3>1. reads[a] \in Nat /\ reads[a] < nextId
      BY <1>1 DEF IInv, Known, TypeOK
    <3>2. Covered(msgs, anchor, consumed, a, 0, reads[a])
      BY DEF IInv, Marked
    <3>3. Covered(msgs', anchor', consumed', a, 0, reads[a])
      BY <1>1, <3>1, <3>2, CoveredGrows
    <3>4. QED
      BY <2>2, <3>3
  <2>3. QED
    BY <2>2
<1>6. QED
  BY <1>2, <1>3, <1>4, <1>5 DEF IInv

(* A step that settles preserves it if the marks it leaves are covered. *)
LEMMA SettledKeeps ==
  ASSUME IInv, NEW h \in Handles, Settles(h), TablesTyped', Grows,
         \A g \in Handles : reads'[g] \in {0, reads[g]}
  PROVE  IInv'
<1>1. Typed'
  BY SettledTyped DEF IInv
<1>2. nextId \in Nat /\ nextId' \in Nat /\ 0 < nextId /\ call[h] \in Call
  BY DEF IInv, Typed, TypeOK, TablesTyped
<1>3. call'[h].since < nextId' /\ call'[h].floor < nextId' /\ call'[h].upTo < nextId'
  BY <1>2 DEF IInv, Known, Settles, Grows, Call
<1>4. \A g \in Handles : reads'[g] < nextId'
  <2>1. \A g \in Handles : reads[g] \in Nat /\ reads[g] < nextId
    BY DEF IInv, Typed, TypeOK, Known
  <2>2. QED
    BY <1>2, <2>1 DEF Grows
<1>5. ASSUME NEW a \in Agents
      PROVE  Covered(msgs', anchor', consumed', a, 0, 0)
  <2>1. \A m \in msgs' : m.id \in Nat
    BY DEF TablesTyped, Message
  <2>2. QED
    BY <2>1 DEF Covered
<1>6. \A a \in Agents : \/ reads'[a] = reads[a]
                        \/ Covered(msgs', anchor', consumed', a, 0, reads'[a])
  BY <1>5 DEF Agents
<1>7. AnchoringOf(h)' /\ ReadingOf(h)'
  BY DEF Settles, Delicate, AnchoringOf, ReadingOf
<1>8. QED
  BY <1>1, <1>3, <1>4, <1>6, <1>7, StepKeeps DEF Settles

-----------------------------------------------------------------------------
(* The steps that settle.  Each needs how its call goes on and what it     *)
(* does to the tables.                                                     *)

LEMMA Unmoved ==
  ASSUME IInv, NEW h \in Handles, Settles(h), UNCHANGED <<tables, history>>
  PROVE  IInv'
<1>1. TablesTyped'
  BY DEF IInv, Typed, TypeOK, TablesTyped, tables, history
<1>2. Grows
  BY SameGrows DEF IInv, Typed, tables, history
<1>3. QED
  BY <1>1, <1>2, SettledKeeps DEF tables

LEMMA QuietSteps ==
  ASSUME IInv, NEW h \in Handles,
         \/ \E op \in {"invite", "boot"}, who \in Handles : CheckCaller(h, op, who)
         \/ CheckTarget(h) \/ ReadMember(h) \/ ReadOwner(h) \/ ReadCaller(h) \/ Judge(h)
         \/ CheckSender(h) \/ CheckReader(h)
  PROVE  IInv'
<1>0. Typed /\ TypeOK
  BY DEF IInv, Typed
<1>1. ASSUME NEW op \in {"invite", "boot"}, NEW who \in Handles, CheckCaller(h, op, who)
      PROVE  IInv'
  <2>1. op \in OpNames /\ "checkTarget" \in Steps \ Delicate
    BY DEF OpNames, Steps, Delicate
  <2>2. Settles(h)
    BY <1>0, <1>1, <2>1, EnterSettles DEF CheckCaller
  <2>3. QED
    BY <1>1, <2>2, Unmoved DEF CheckCaller
<1>2. CASE CheckTarget(h)
  <2>1. {"deleteMember", "insertRoom"} \subseteq Steps \ Delicate
    BY DEF Steps, Delicate
  <2>2. Settles(h)
    BY <1>0, <1>2, <2>1, ReturnSettles, ContinueSettles DEF CheckTarget
  <2>3. QED
    BY <1>2, <2>2, Unmoved DEF CheckTarget
<1>3. CASE ReadMember(h)
  <2>1. "insertMember" \in Steps \ Delicate
    BY DEF Steps, Delicate
  <2>2. Settles(h)
    BY <1>0, <1>3, <2>1, ReturnSettles, ContinueSettles DEF ReadMember
  <2>3. QED
    BY <1>3, <2>2, Unmoved DEF ReadMember
<1>4. CASE ReadOwner(h)
  <2>1. "delete" \in OpNames /\ "readCaller" \in Steps \ Delicate
    BY DEF OpNames, Steps, Delicate
  <2>2. owner \in Handles
    BY <1>0, <1>4 DEF TypeOK, ReadOwner
  <2>3. Settles(h)
    BY <1>0, <1>4, <2>1, <2>2, EnterSettles DEF ReadOwner
  <2>4. QED
    BY <1>4, <2>3, Unmoved DEF ReadOwner
<1>5. CASE ReadCaller(h)
  <2>1. "judge" \in Steps \ Delicate
    BY DEF Steps, Delicate
  <2>2. Settles(h)
    BY <1>0, <1>5, <2>1, ReturnSettles, ContinueSettles DEF ReadCaller
  <2>3. QED
    BY <1>5, <2>2, Unmoved DEF ReadCaller
<1>6. CASE Judge(h)
  <2>1. "deleteMarks" \in Steps \ Delicate
    BY DEF Steps, Delicate
  <2>2. Settles(h)
    BY <1>0, <1>6, <2>1, ReturnSettles, ContinueSettles DEF Judge
  <2>3. QED
    BY <1>6, <2>2, Unmoved DEF Judge
<1>7. CASE CheckSender(h)
  <2>1. "send" \in OpNames /\ "post" \in Steps \ Delicate
    BY DEF OpNames, Steps, Delicate
  <2>2. Settles(h)
    BY <1>0, <1>7, <2>1, EnterSettles DEF CheckSender
  <2>3. QED
    BY <1>7, <2>2, Unmoved DEF CheckSender
<1>8. CASE CheckReader(h)
  <2>1. "inbox" \in OpNames /\ "readFloor" \in Steps \ Delicate
    BY DEF OpNames, Steps, Delicate
  <2>2. Settles(h)
    BY <1>0, <1>8, <2>1, EnterSettles DEF CheckReader
  <2>3. QED
    BY <1>8, <2>2, Unmoved DEF CheckReader
<1>9. QED
  BY <1>1, <1>2, <1>3, <1>4, <1>5, <1>6, <1>7, <1>8

(* Steps that write rooms, room_members or marks, and no message. *)
LEMMA MembershipSteps ==
  ASSUME IInv, NEW h \in Handles,
         \/ InsertRoom(h) \/ InsertMember(h) \/ DeleteMember(h) \/ DeleteMark(h)
         \/ DeleteMarks(h) \/ DeleteRoom(h) \/ ResetMarks(h) \/ Crash(h)
  PROVE  IInv'
<1>0. Typed /\ TypeOK /\ Known /\ Targets /\ TablesTyped
  BY DEF IInv, Typed, TypeOK, TablesTyped
<1>1. ASSUME Settles(h), msgs' = msgs, nextId' = nextId, anchor' = anchor,
             consumed' = consumed, owner' \in Handles \cup {Nobody},
             members' \subseteq Handles, bared' \subseteq Agents,
             reads' \in [Handles -> Nat], members' # {} => owner' # Nobody,
             \A g \in Handles : reads'[g] \in {0, reads[g]}
      PROVE  IInv'
  <2>1. TablesTyped'
    BY <1>0, <1>1 DEF TablesTyped
  <2>2. Grows
    BY <1>0, <1>1, SameGrows
  <2>3. QED
    BY <1>1, <2>1, <2>2, SettledKeeps
<1>2. \A who : Bare(who) \subseteq Agents
  BY <1>0 DEF Bare, TypeOK
<1>3. reads \in [Handles -> Nat] /\ owner \in Handles \cup {Nobody} /\ members \subseteq Handles
      /\ (members # {} => owner # Nobody) /\ bared \subseteq Agents
  BY <1>0 DEF TablesTyped
<1>4. CASE InsertRoom(h)
  <2>1. "join" \in OpNames /\ "readMember" \in Steps \ Delicate
    BY DEF OpNames, Steps, Delicate
  <2>2. PICK w \in Handles :
          /\ \/ w = h /\ Enter(h, "join", w, "readMember")
             \/ call[h].pc = "insertRoom" /\ Continue(h, "readMember")
          /\ owner' = IF owner = Nobody THEN w ELSE owner
          /\ UNCHANGED <<members, reads, msgs, nextId, history>>
    BY <1>4 DEF InsertRoom
  <2>3. Settles(h)
    BY <1>0, <2>1, <2>2, EnterSettles, ContinueSettles
  <2>4. owner' \in Handles
    BY <1>3, <2>2
  <2>5. QED
    BY <1>1, <1>3, <2>2, <2>3, <2>4, NamesAssumption DEF history
<1>5. CASE InsertMember(h)
  <2>1. "announce" \in Steps \ Delicate
    BY DEF Steps, Delicate
  <2>2. Settles(h)
    BY <1>0, <1>5, <2>1, ReturnSettles, ContinueSettles DEF InsertMember
  <2>3. call[h].who \in Handles
    BY <1>0, <1>5 DEF InsertMember, Targets
  <2>4. members' \subseteq Handles /\ (members' # {} => owner' # Nobody)
    BY <1>3, <1>5, <2>3 DEF InsertMember
  <2>5. bared' \subseteq Agents
    BY <1>2, <1>3, <1>5 DEF InsertMember
  <2>6. QED
    BY <1>1, <1>3, <1>5, <2>2, <2>4, <2>5 DEF InsertMember
<1>6. CASE DeleteMember(h)
  <2>1. {"leave", "kick"} \subseteq OpNames /\ "deleteMark" \in Steps \ Delicate
    BY DEF OpNames, Steps, Delicate
  <2>2. PICK w \in Handles :
          /\ \/ Enter(h, "leave", w, "deleteMark")
             \/ Enter(h, "kick", w, "deleteMark")
             \/ call[h].pc = "deleteMember" /\ Continue(h, "deleteMark")
          /\ members' = members \ {w}
          /\ UNCHANGED <<owner, reads, msgs, nextId, history>>
    BY <1>6 DEF DeleteMember
  <2>3. Settles(h)
    BY <1>0, <2>1, <2>2, EnterSettles, ContinueSettles
  <2>4. QED
    BY <1>1, <1>3, <2>2, <2>3 DEF history
<1>7. CASE DeleteMark(h)
  <2>1. "announceBoot" \in Steps \ Delicate
    BY DEF Steps, Delicate
  <2>2. Settles(h)
    BY <1>0, <1>7, <2>1, ReturnSettles, ContinueSettles DEF DeleteMark
  <2>3. reads' \in [Handles -> Nat] /\ \A g \in Handles : reads'[g] \in {0, reads[g]}
    BY <1>3, <1>7 DEF DeleteMark
  <2>4. QED
    BY <1>1, <1>2, <1>3, <1>7, <2>2, <2>3 DEF DeleteMark
<1>8. CASE DeleteMarks(h) \/ ResetMarks(h)
  <2>1. "deleteMessages" \in Steps \ Delicate
    BY DEF Steps, Delicate
  <2>2. Settles(h)
    BY <1>0, <1>8, <2>1, ReturnSettles, ContinueSettles DEF DeleteMarks, ResetMarks
  <2>3. reads' = [g \in Handles |-> 0]
    BY <1>8 DEF DeleteMarks, ResetMarks
  <2>4. QED
    BY <1>1, <1>2, <1>3, <1>8, <2>2, <2>3 DEF DeleteMarks, ResetMarks
<1>9. CASE DeleteRoom(h)
  <2>1. Settles(h)
    BY <1>0, <1>9, ReturnSettles DEF DeleteRoom
  <2>2. QED
    BY <1>1, <1>3, <1>9, <2>1 DEF DeleteRoom, history
<1>10. CASE Crash(h)
  <2>1. Settles(h)
    BY <1>0, <1>10, ReturnSettles DEF Crash
  <2>2. bared' \subseteq Agents
    BY <1>2, <1>3, <1>10 DEF Crash
  <2>3. QED
    BY <1>1, <1>3, <1>10, <2>1, <2>2 DEF Crash, tables
<1>11. QED
  BY <1>4, <1>5, <1>6, <1>7, <1>8, <1>9, <1>10

(* Steps that delete messages: what was consumed may be forgotten. *)
LEMMA DeletingSteps ==
  ASSUME IInv, NEW h \in Handles, DeleteMessages(h) \/ ClearMessages(h)
  PROVE  IInv'
<1>0. Typed /\ TypeOK /\ Known /\ TablesTyped
  BY DEF IInv, Typed, TypeOK, TablesTyped
<1>1. {"deleteRoom", "resetMarks"} \subseteq Steps \ Delicate /\ "clear" \in OpNames
  BY DEF OpNames, Steps, Delicate
<1>2. Settles(h)
  BY <1>0, <1>1, ContinueSettles, EnterSettles DEF DeleteMessages, ClearMessages
<1>3. msgs' = {} /\ consumed' = [a \in Agents |-> {}]
      /\ UNCHANGED <<owner, members, reads, nextId, anchor, bared>>
  BY DEF DeleteMessages, ClearMessages
<1>4. TablesTyped'
  BY <1>0, <1>3 DEF TablesTyped
<1>5. Grows
  BY <1>0, <1>3 DEF Grows, Known, TypeOK
<1>6. QED
  BY <1>2, <1>3, <1>4, <1>5, SettledKeeps

(* A post, or an announcement that moves no anchor. *)
LEMMA PostGrows ==
  ASSUME IInv, NEW from \in Handles \cup {System},
         msgs' = msgs \cup {[id |-> nextId, from |-> from]}, nextId' = nextId + 1,
         UNCHANGED <<owner, members, reads, history>>
  PROVE  TablesTyped' /\ Grows
<1>0. TablesTyped /\ TypeOK /\ Known
  BY DEF IInv, Typed, TypeOK, TablesTyped
<1>1. /\ msgs' \subseteq Message /\ nextId' \in Nat \ {0}
      /\ \A m \in msgs' : m.id < nextId'
      /\ \A m \in msgs' : m \in msgs \/ m.id = nextId
  BY <1>0, Posted
<1>2. TablesTyped'
  BY <1>0, <1>1 DEF TablesTyped, history
<1>3. Grows
  BY <1>0, <1>1 DEF Grows, Known, TypeOK, history
<1>4. QED
  BY <1>2, <1>3

(* A client goes on to move its own mark. *)
LEMMA ClientAdvances ==
  ASSUME IInv, NEW h \in Clients, NEW who \in Handles, NEW since, NEW floor, NEW got,
         NEW upTo \in Nat, Becomes(h, "advance", who, since, floor, got, upTo),
         since < nextId', floor < nextId', upTo < nextId', TablesTyped', Grows,
         reads' = reads
  PROVE  IInv'
<1>1. h \in Handles /\ h \notin Agents
  BY ClientsAssumption DEF Agents
<1>2. Typed'
  BY <1>1, BecomesTyped DEF IInv
<1>3. AnchoringOf(h)'
  BY DEF Becomes, AnchoringOf
<1>4. \A g \in Handles : reads'[g] < nextId'
  <2>1. \A g \in Handles : reads[g] \in Nat /\ reads[g] < nextId
    BY DEF IInv, Typed, TypeOK, Known
  <2>2. nextId \in Nat /\ nextId' \in Nat
    BY DEF IInv, Typed, TypeOK, TablesTyped
  <2>3. QED
    BY <2>1, <2>2 DEF Grows
<1>5. QED
  BY <1>1, <1>2, <1>3, <1>4, StepKeeps DEF Becomes

LEMMA PostStep ==
  ASSUME IInv, NEW h \in Handles, Post(h)
  PROVE  IInv'
<1>0. Typed /\ TypeOK /\ Known /\ TablesTyped /\ call[h].who \in Handles /\ call[h] \in Call
  BY DEF IInv, Typed, TypeOK, TablesTyped, Targets, Post
<1>1. TablesTyped' /\ Grows /\ reads' = reads /\ nextId' = nextId + 1 /\ nextId \in Nat
  BY <1>0, PostGrows DEF Post, TypeOK
<1>2. CASE h \in Clients
  <2>1. "advance" \in Steps
    BY DEF Steps
  <2>2. Becomes(h, "advance", call[h].who, call[h].since, call[h].floor, call[h].got, nextId)
    BY <1>0, <1>1, <1>2, <2>1, ContinuedAt DEF Post, AdvanceOwnRead
  <2>3. call[h].since < nextId' /\ call[h].floor < nextId' /\ nextId < nextId'
    BY <1>0, <1>1 DEF Known, Call
  <2>4. QED
    BY <1>0, <1>1, <1>2, <2>2, <2>3, ClientAdvances
<1>3. CASE h \notin Clients
  <2>1. Settles(h)
    BY <1>0, <1>3, ReturnSettles DEF Post, AdvanceOwnRead
  <2>2. QED
    BY <1>1, <2>1, SettledKeeps
<1>4. QED
  BY <1>2, <1>3

LEMMA AnnounceBootStep ==
  ASSUME IInv, NEW h \in Handles, AnnounceBoot(h)
  PROVE  IInv'
<1>0. Typed /\ TypeOK /\ Known /\ TablesTyped /\ call[h].who \in Handles /\ call[h] \in Call
  BY DEF IInv, Typed, TypeOK, TablesTyped, Targets, AnnounceBoot
<1>1. CASE Return(h) /\ UNCHANGED <<msgs, nextId>>
  <2>1. Settles(h)
    BY <1>0, <1>1, ReturnSettles
  <2>2. QED
    BY <1>1, <2>1, Unmoved DEF AnnounceBoot, tables, history
<1>2. CASE msgs' = msgs \cup {[id |-> nextId, from |-> System]} /\ nextId' = nextId + 1
  <2>1. TablesTyped' /\ Grows /\ reads' = reads /\ nextId \in Nat
    BY <1>0, <1>2, PostGrows DEF AnnounceBoot, TypeOK
  <2>2. CASE Return(h)
    BY <1>0, <2>1, <2>2, ReturnSettles, SettledKeeps
  <2>3. CASE h \in Clients /\ call' = [call EXCEPT ![h] = [@ EXCEPT !.pc = "advance", !.upTo = nextId]]
    <3>1. "advance" \in Steps
      BY DEF Steps
    <3>2. Becomes(h, "advance", call[h].who, call[h].since, call[h].floor, call[h].got, nextId)
      BY <1>0, <2>1, <2>3, <3>1, ContinuedAt
    <3>3. call[h].since < nextId' /\ call[h].floor < nextId' /\ nextId < nextId'
      BY <1>0, <1>2, <2>1 DEF Known, Call
    <3>4. QED
      BY <1>0, <2>1, <2>3, <3>2, <3>3, ClientAdvances
  <2>4. QED
    BY <1>2, <1>0, <2>1, <2>2, <2>3 DEF AnnounceBoot
<1>3. QED
  BY <1>1, <1>2 DEF AnnounceBoot

LEMMA MarkSeenStep ==
  ASSUME IInv, NEW h \in Handles, NEW shown \in Nat, MarkSeen(h, shown)
  PROVE  IInv'
<1>0. Typed /\ TypeOK /\ Known /\ TablesTyped /\ nextId \in Nat /\ 0 < nextId
  BY DEF IInv, Typed, TypeOK, TablesTyped
<1> DEFINE r == [Idle EXCEPT !.op = "mark", !.pc = "advance", !.who = h, !.upTo = shown]
<1>1. /\ r \in Call /\ r.pc = "advance" /\ r.who = h /\ r.since = 0
      /\ r.floor = 0 /\ r.got = {} /\ r.upTo = shown
  BY DEF Idle, Call, Steps, OpNames
<1>2. call' = [call EXCEPT ![h] = r]
  BY DEF MarkSeen
<1> HIDE DEF r
<1>3. Becomes(h, "advance", h, 0, 0, {}, shown)
  BY <1>0, <1>1, <1>2, CallSet DEF Becomes
<1>4. TablesTyped'
  BY <1>0 DEF TablesTyped, MarkSeen, tables, history
<1>5. Grows
  BY <1>0, SameGrows DEF MarkSeen, tables, history
<1>6. QED
  BY <1>0, <1>3, <1>4, <1>5, ClientAdvances DEF MarkSeen, tables

-----------------------------------------------------------------------------
(* The join's announcement and its mark. *)

LEMMA AnnounceStep ==
  ASSUME IInv, NEW h \in Handles, Announce(h)
  PROVE  IInv'
<1>0. Typed /\ TypeOK /\ Known /\ TablesTyped /\ call[h].who \in Handles /\ call[h] \in Call
  BY DEF IInv, Typed, TypeOK, TablesTyped, Targets, Announce
<1>1. nextId \in Nat \ {0} /\ nextId' = nextId + 1 /\ anchor \in [Agents -> Nat]
  BY <1>0 DEF Announce, TypeOK
<1>2. \A a \in Agents : anchor'[a] = IF a = call[h].who THEN nextId ELSE anchor[a]
  BY DEF Announce
<1>3. anchor' \in [Agents -> Nat]
  BY <1>1 DEF Announce
<1>4. /\ msgs' \subseteq Message
      /\ \A m \in msgs' : m.id < nextId'
      /\ \A m \in msgs' : m \in msgs \/ m.id = nextId
  BY <1>0, Posted DEF Announce
<1>5. TablesTyped'
  BY <1>0, <1>1, <1>3, <1>4 DEF TablesTyped, Announce
<1>6. Grows
  <2>1. \A a \in Agents : anchor[a] < nextId /\ anchor[a] \in Nat
    BY <1>0, <1>1 DEF Known
  <2>2. \A a \in Agents : anchor[a] <= anchor'[a] /\ anchor'[a] < nextId'
    BY <1>1, <1>2, <2>1
  <2>3. consumed' = consumed
    BY DEF Announce
  <2>4. QED
    BY <1>1, <1>4, <2>2, <2>3 DEF Grows
<1>7. Becomes(h, "anchor", call[h].who, call[h].since, call[h].floor, call[h].got, nextId)
  <2>1. "anchor" \in Steps
    BY DEF Steps
  <2>2. QED
    BY <1>0, <1>1, <2>1, ContinuedAt DEF Announce
<1>8. Typed'
  BY <1>0, <1>5, <1>7, BecomesTyped
<1>9. AnchoringOf(h)' /\ ReadingOf(h)'
  BY <1>1, <1>2, <1>7 DEF Becomes, AnchoringOf, ReadingOf
<1>10. call'[h].since < nextId' /\ call'[h].floor < nextId' /\ call'[h].upTo < nextId'
  BY <1>0, <1>1, <1>7 DEF Becomes, Known, Call
<1>11. reads' = reads /\ \A g \in Handles : reads'[g] < nextId'
  BY <1>0, <1>1 DEF Announce, Known, TypeOK
<1>12. QED
  BY <1>6, <1>7, <1>8, <1>9, <1>10, <1>11, StepKeeps DEF Becomes

LEMMA AnchorStep ==
  ASSUME IInv, NEW h \in Handles, Anchor(h)
  PROVE  IInv'
<1>0. Typed /\ TypeOK /\ Known /\ TablesTyped /\ call[h].who \in Handles /\ call[h] \in Call
  BY DEF IInv, Typed, TypeOK, TablesTyped, Targets, Anchor
<1>1. call[h].upTo \in Nat /\ call[h].upTo < nextId
  BY <1>0 DEF Call, Known
<1>2. /\ msgs' = msgs /\ nextId' = nextId /\ anchor' = anchor /\ consumed' = consumed
      /\ \A g \in Handles : reads'[g] = IF g = call[h].who THEN call[h].upTo ELSE reads[g]
  BY <1>0 DEF Anchor, TypeOK
<1>3. TablesTyped'
  <2>1. reads' \in [Handles -> Nat] /\ bared' \subseteq Agents
    BY <1>0, <1>1 DEF Anchor, Bare, TypeOK
  <2>2. QED
    BY <1>0, <1>2, <2>1 DEF TablesTyped, Anchor
<1>4. Grows
  BY <1>0, <1>2, SameGrows
<1>5. Settles(h)
  BY <1>0, ReturnSettles DEF Anchor
<1>6. Typed'
  BY <1>0, <1>3, <1>5, SettledTyped
<1>7. AnchoringOf(h)' /\ ReadingOf(h)'
  BY <1>5 DEF Settles, Delicate, AnchoringOf, ReadingOf
<1>8. call'[h].since < nextId' /\ call'[h].floor < nextId' /\ call'[h].upTo < nextId'
  BY <1>0, <1>2, <1>5 DEF Settles, Known, TypeOK, Call
<1>9. \A g \in Handles : reads'[g] < nextId'
  BY <1>0, <1>1, <1>2 DEF Known
<1>10. ASSUME NEW a \in Agents, reads'[a] # reads[a]
       PROVE  Covered(msgs', anchor', consumed', a, 0, reads'[a])
  <2>1. a = call[h].who /\ reads'[a] = call[h].upTo
    BY <1>2, <1>10 DEF Agents
  <2>2. call[h].upTo <= anchor[a] /\ anchor[a] \in Nat
    BY <1>0, <2>1 DEF IInv, Anchoring, AnchoringOf, Anchor, TypeOK
  <2>3. \A m \in msgs' : m.id \in Nat
    BY <1>3 DEF TablesTyped, Message
  <2>4. QED
    BY <1>1, <1>2, <2>1, <2>2, <2>3 DEF Covered
<1>11. QED
  BY <1>4, <1>5, <1>6, <1>7, <1>8, <1>9, <1>10, StepKeeps DEF Settles

-----------------------------------------------------------------------------
(* The read. *)

LEMMA ReadFloorStep ==
  ASSUME IInv, NEW h \in Handles, NEW since \in Nat, ReadFloor(h, since)
  PROVE  IInv'
<1>0. Typed /\ TypeOK /\ Known /\ TablesTyped /\ call[h].who \in Handles /\ call[h] \in Call
  BY DEF IInv, Typed, TypeOK, TablesTyped, Targets, ReadFloor
<1>1. reads[h] \in Nat /\ reads[h] < nextId /\ since < nextId /\ nextId \in Nat
  BY <1>0 DEF TypeOK, Known, ReadFloor
<1> DEFINE low == Floor(reads[h], since)
<1>2. low \in Nat /\ low < nextId /\ (low = since \/ low = reads[h])
  BY <1>1 DEF Floor, Larger
<1> DEFINE r == [call[h] EXCEPT !.pc = "fetch", !.since = since, !.floor = low]
<1> HIDE DEF low
<1>3. /\ r \in Call /\ r.pc = "fetch" /\ r.who = call[h].who /\ r.since = since
      /\ r.floor = low /\ r.got = call[h].got /\ r.upTo = call[h].upTo
  BY <1>0, <1>2 DEF Call, Steps
<1>4. call' = [call EXCEPT ![h] = r]
  BY DEF ReadFloor, low
<1> HIDE DEF r
<1>5. Becomes(h, "fetch", call[h].who, since, low, call[h].got, call[h].upTo)
  BY <1>0, <1>3, <1>4, CallSet DEF Becomes
<1>6. /\ msgs' = msgs /\ nextId' = nextId /\ anchor' = anchor /\ consumed' = consumed
      /\ reads' = reads
  BY DEF ReadFloor, tables, history
<1>7. TablesTyped'
  BY <1>0 DEF TablesTyped, ReadFloor, tables, history
<1>8. Grows
  BY <1>0, <1>6, SameGrows
<1>9. Typed'
  BY <1>0, <1>5, <1>7, BecomesTyped
<1>10. ASSUME h \in Agents PROVE Covered(msgs, anchor, consumed, h, since, low)
  <2>1. Covered(msgs, anchor, consumed, h, 0, reads[h])
    BY <1>10 DEF IInv, Marked
  <2>2. \A m \in msgs : m.id \in Nat
    BY <1>0 DEF TablesTyped, Message
  <2>3. QED
    BY <1>1, <1>2, <2>1, <2>2 DEF Covered
<1>11. AnchoringOf(h)' /\ (h \in Agents => ReadingOf(h)')
  BY <1>5, <1>6, <1>10 DEF Becomes, AnchoringOf, ReadingOf
<1>12. call'[h].since < nextId' /\ call'[h].floor < nextId' /\ call'[h].upTo < nextId'
  BY <1>0, <1>1, <1>2, <1>5, <1>6 DEF Becomes, Known
<1>13. QED
  BY <1>0, <1>5, <1>6, <1>8, <1>9, <1>11, <1>12, StepKeeps DEF Becomes, Known

LEMMA FetchStep ==
  ASSUME IInv, NEW h \in Handles, Fetch(h)
  PROVE  IInv'
<1>0. Typed /\ TypeOK /\ Known /\ TablesTyped /\ call[h].who \in Handles /\ call[h] \in Call
  BY DEF IInv, Typed, TypeOK, TablesTyped, Targets, Fetch
<1>1. CASE Return(h)
  BY <1>0, <1>1, ReturnSettles, Unmoved DEF Fetch
<1>2. ASSUME NEW last \in Unread(h),
             call' = [call EXCEPT ![h] =
                        [@ EXCEPT !.pc = IF call[h].since = 0 THEN "advance" ELSE "recheck",
                                  !.got = {i \in Unread(h) : i <= last},
                                  !.upTo = last]]
      PROVE  IInv'
  <2>1. PICK n \in msgs : n.id = last /\ n.id > call[h].floor
    BY DEF Unread
  <2>2. Unread(h) \subseteq Nat /\ last \in Nat /\ last < nextId
    BY <1>0, <2>1 DEF TablesTyped, Message, Unread
  <2> DEFINE step == IF call[h].since = 0 THEN "advance" ELSE "recheck"
             ids == {i \in Unread(h) : i <= last}
             r == [call[h] EXCEPT !.pc = step, !.got = ids, !.upTo = last]
  <2>3. step \in Steps /\ ids \in SUBSET Nat
    BY <2>2 DEF Steps
  <2>4. ids = {i \in Unread(h) : i <= last} /\ step \in {"advance", "recheck"}
        /\ (step = "advance" => call[h].since = 0)
    OBVIOUS
  <2>5. call' = [call EXCEPT ![h] = r]
    BY <1>2
  <2> HIDE DEF step, ids
  <2>6. /\ r \in Call /\ r.pc = step /\ r.who = call[h].who /\ r.since = call[h].since
        /\ r.floor = call[h].floor /\ r.got = ids /\ r.upTo = last
    BY <1>0, <2>2, <2>3 DEF Call
  <2> HIDE DEF r
  <2>7. Becomes(h, step, call[h].who, call[h].since, call[h].floor, ids, last)
    BY <1>0, <2>5, <2>6, CallSet DEF Becomes
  <2>8. /\ msgs' = msgs /\ nextId' = nextId /\ anchor' = anchor /\ consumed' = consumed
        /\ reads' = reads
    BY DEF Fetch, tables, history
  <2>9. TablesTyped'
    BY <1>0 DEF TablesTyped, Fetch, tables, history
  <2>10. Grows
    BY <1>0, <2>8, SameGrows
  <2>11. Typed'
    BY <1>0, <2>7, <2>9, BecomesTyped
  <2>12. ASSUME h \in Agents PROVE ReadingOf(h)'
    <3>1. Covered(msgs, anchor, consumed, h, call[h].since, call[h].floor)
      BY <2>12 DEF IInv, Reading, ReadingOf, Fetch
    <3>2. ASSUME NEW m \in msgs, m.from # h, call[h].floor < m.id, m.id <= last
          PROVE  m.id \in ids
      <4>1. m.id \in Unread(h)
        BY <1>0, <3>2 DEF Unread, TablesTyped, Message, Call
      <4>2. QED
        BY <2>4, <3>2, <4>1
    <3>3. step = "advance" => Covered(msgs, anchor, consumed, h, 0, call[h].since)
      <4>1. \A m \in msgs : m.id \in Nat
        BY <1>0 DEF TablesTyped, Message
      <4>2. QED
        BY <2>4, <4>1 DEF Covered
    <3>4. QED
      BY <2>7, <2>8, <3>1, <3>2, <3>3 DEF Becomes, ReadingOf
  <2>13. AnchoringOf(h)'
    BY <2>4, <2>7 DEF Becomes, AnchoringOf
  <2>14. call'[h].since < nextId' /\ call'[h].floor < nextId' /\ call'[h].upTo < nextId'
    BY <1>0, <2>2, <2>7, <2>8 DEF Becomes, Known
  <2>15. QED
    BY <1>0, <2>7, <2>8, <2>10, <2>11, <2>12, <2>13, <2>14, StepKeeps DEF Becomes, Known
<1>3. QED
  BY <1>1, <1>2 DEF Fetch

LEMMA RecheckStep ==
  ASSUME IInv, NEW h \in Handles, Recheck(h)
  PROVE  IInv'
<1>0. Typed /\ TypeOK /\ Known /\ TablesTyped /\ call[h].who \in Handles /\ call[h] \in Call
  BY DEF IInv, Typed, TypeOK, TablesTyped, Targets, Recheck
<1>1. CASE Return(h)
  BY <1>0, <1>1, ReturnSettles, Unmoved DEF Recheck
<1>2. CASE Continue(h, "advance") /\ ~LeavesGap(call[h].since, reads[h])
  <2>1. /\ call[h].since \in Nat /\ reads[h] \in Nat /\ call[h].since <= reads[h]
    BY <1>0, <1>2 DEF LeavesGap, TypeOK, Call
  <2>2. Becomes(h, "advance", call[h].who, call[h].since, call[h].floor, call[h].got,
                call[h].upTo)
    <3>1. "advance" \in Steps
      BY DEF Steps
    <3>2. QED
      BY <1>0, <1>2, <3>1, Continued
  <2>3. /\ msgs' = msgs /\ nextId' = nextId /\ anchor' = anchor /\ consumed' = consumed
        /\ reads' = reads
    BY DEF Recheck, tables, history
  <2>4. TablesTyped'
    BY <1>0 DEF TablesTyped, Recheck, tables, history
  <2>5. Grows
    BY <1>0, <2>3, SameGrows
  <2>6. Typed'
    BY <1>0, <2>2, <2>4, BecomesTyped
  <2>7. ASSUME h \in Agents PROVE ReadingOf(h)'
    <3>1. Covered(msgs, anchor, consumed, h, 0, reads[h])
      BY <2>7 DEF IInv, Marked
    <3>2. \A m \in msgs : m.id \in Nat
      BY <1>0 DEF TablesTyped, Message
    <3>3. Covered(msgs, anchor, consumed, h, 0, call[h].since)
      BY <2>1, <3>1, <3>2 DEF Covered
    <3>4. ReadingOf(h) /\ call[h].pc = "recheck"
      BY <2>7 DEF IInv, Reading, Recheck
    <3>5. QED
      BY <2>2, <2>3, <3>3, <3>4 DEF Becomes, ReadingOf
  <2>8. AnchoringOf(h)'
    BY <2>2 DEF Becomes, AnchoringOf
  <2>9. call'[h].since < nextId' /\ call'[h].floor < nextId' /\ call'[h].upTo < nextId'
    BY <1>0, <2>2, <2>3 DEF Becomes, Known
  <2>10. QED
    BY <1>0, <2>2, <2>3, <2>5, <2>6, <2>7, <2>8, <2>9, StepKeeps DEF Becomes, Known
<1>3. QED
  BY <1>1, <1>2 DEF Recheck

(* The mark moves to the last id in hand: below the since_id all was       *)
(* consumed, from there to the floor too, and the rest is in hand.         *)
LEMMA AdvanceStep ==
  ASSUME IInv, NEW h \in Handles, Advance(h)
  PROVE  IInv'
<1>0. Typed /\ TypeOK /\ Known /\ TablesTyped /\ call[h].who \in Handles /\ call[h] \in Call
  BY DEF IInv, Typed, TypeOK, TablesTyped, Targets, Advance
<1>1. /\ call[h].upTo \in Nat /\ call[h].upTo < nextId /\ call[h].got \subseteq Nat
      /\ call[h].since \in Nat /\ call[h].floor \in Nat
      /\ reads[h] \in Nat /\ reads[h] < nextId
  BY <1>0 DEF Call, Known, TypeOK
<1> DEFINE to == Larger(reads[h], call[h].upTo)
<1>2. to \in Nat /\ to < nextId /\ (to = reads[h] \/ to = call[h].upTo)
  BY <1>1 DEF Larger
<1>3. /\ msgs' = msgs /\ nextId' = nextId /\ anchor' = anchor
      /\ \A g \in Handles : reads'[g] = IF g = h THEN to ELSE reads[g]
      /\ \A a \in Agents : consumed'[a] = IF a = h THEN consumed[a] \cup call[h].got
                                                   ELSE consumed[a]
  BY <1>0 DEF Advance, TypeOK
<1> HIDE DEF to
<1>4. TablesTyped'
  <2>1. reads' \in [Handles -> Nat]
    BY <1>0, <1>2 DEF Advance, TypeOK, to
  <2>2. consumed' \in [Agents -> SUBSET Nat]
    BY <1>0, <1>1 DEF Advance, TypeOK
  <2>3. QED
    BY <1>0, <1>3, <2>1, <2>2 DEF TablesTyped, Advance
<1>5. Grows
  <2>1. \A a \in Agents : consumed[a] \subseteq consumed'[a]
    BY <1>3
  <2>2. \A a \in Agents : anchor'[a] = anchor[a] /\ anchor[a] \in Nat /\ anchor[a] < nextId'
    BY <1>0, <1>3 DEF Known, TypeOK
  <2>3. nextId \in Nat
    BY <1>0 DEF TypeOK
  <2>4. QED
    BY <1>3, <2>1, <2>2, <2>3 DEF Grows
<1>6. Settles(h)
  BY <1>0, ReturnSettles DEF Advance
<1>7. Typed'
  BY <1>0, <1>4, <1>6, SettledTyped
<1>8. AnchoringOf(h)' /\ ReadingOf(h)'
  BY <1>6 DEF Settles, Delicate, AnchoringOf, ReadingOf
<1>9. call'[h].since < nextId' /\ call'[h].floor < nextId' /\ call'[h].upTo < nextId'
  BY <1>0, <1>3, <1>6 DEF Settles, Known, TypeOK, Call
<1>10. \A g \in Handles : reads'[g] < nextId'
  BY <1>0, <1>2, <1>3 DEF Known
<1>11. ASSUME NEW a \in Agents, reads'[a] # reads[a]
       PROVE  Covered(msgs', anchor', consumed', a, 0, reads'[a])
  <2>1. a = h /\ reads'[a] = call[h].upTo
    BY <1>2, <1>3, <1>11 DEF Agents
  <2>2. SUFFICES ASSUME NEW m \in msgs, m.from # h, anchor[h] < m.id, 0 < m.id,
                        m.id <= call[h].upTo
                 PROVE  m.id \in consumed[h] \cup call[h].got
    BY <1>3, <1>11, <2>1 DEF Covered
  <2>3. m.id \in Nat
    BY <1>0 DEF TablesTyped, Message
  <2>4. ReadingOf(h) /\ call[h].pc = "advance"
    BY <1>11, <2>1 DEF IInv, Reading, Advance
  <2>5. CASE m.id <= call[h].since
    BY <2>2, <2>4, <2>5 DEF ReadingOf, Covered
  <2>6. CASE call[h].since < m.id /\ m.id <= call[h].floor
    BY <2>2, <2>4, <2>6 DEF ReadingOf, Covered
  <2>7. CASE call[h].floor < m.id
    BY <2>2, <2>4, <2>7 DEF ReadingOf
  <2>8. QED
    BY <1>1, <2>3, <2>5, <2>6, <2>7
<1>12. QED
  BY <1>5, <1>6, <1>7, <1>8, <1>9, <1>10, <1>11, StepKeeps DEF Settles

-----------------------------------------------------------------------------
(* The invariant and the theorems. *)

LEMMA InitInv == Init => IInv
<1>1. SUFFICES ASSUME Init PROVE IInv
  OBVIOUS
<1>2. Typed
  BY <1>1, InitTyped
<1>3. /\ \A h \in Handles : call[h].pc = "idle" /\ call[h].since = 0
                            /\ call[h].floor = 0 /\ call[h].upTo = 0 /\ reads[h] = 0
      /\ msgs = {} /\ nextId = 1 /\ \A a \in Agents : anchor[a] = 0
  BY <1>1 DEF Init, Idle
<1>4. Known
  BY <1>3 DEF Known
<1>5. Anchoring /\ Reading /\ Marked
  BY <1>3 DEF Anchoring, AnchoringOf, Reading, ReadingOf, Marked, Covered, Agents
<1>6. QED
  BY <1>2, <1>4, <1>5 DEF IInv

LEMMA StutterKeeps ==
  ASSUME IInv, UNCHANGED vars
  PROVE  IInv'
  BY DEF IInv, Typed, TypeOK, Targets, Known, Anchoring, AnchoringOf, Reading, ReadingOf,
         Marked, Covered, vars

LEMMA NextKeeps == IInv /\ [Next]_vars => IInv'
<1>1. SUFFICES ASSUME IInv, [Next]_vars PROVE IInv'
  OBVIOUS
<1>2. CASE UNCHANGED vars
  BY <1>1, <1>2, StutterKeeps
<1>3. ASSUME NEW h \in Handles, Step(h)
      PROVE  IInv'
  <2>1. 0 .. MaxPosts \subseteq Nat /\ 1 .. MaxPosts \subseteq Nat
    BY BoundAssumption
  <2>2. CASE \/ \E op \in {"invite", "boot"}, who \in Handles : CheckCaller(h, op, who)
             \/ CheckTarget(h) \/ ReadMember(h) \/ ReadOwner(h) \/ ReadCaller(h)
             \/ Judge(h) \/ CheckSender(h) \/ CheckReader(h)
    BY <1>1, <2>2, QuietSteps
  <2>3. CASE \/ InsertRoom(h) \/ InsertMember(h) \/ DeleteMember(h) \/ DeleteMark(h)
             \/ DeleteMarks(h) \/ DeleteRoom(h) \/ ResetMarks(h) \/ Crash(h)
    BY <1>1, <2>3, MembershipSteps
  <2>4. CASE DeleteMessages(h) \/ ClearMessages(h)
    BY <1>1, <2>4, DeletingSteps
  <2>5. CASE Announce(h) \/ Anchor(h)
    BY <1>1, <2>5, AnnounceStep, AnchorStep
  <2>6. CASE AnnounceBoot(h) \/ Post(h)
    BY <1>1, <2>6, AnnounceBootStep, PostStep
  <2>7. ASSUME NEW since \in 0 .. MaxPosts, ReadFloor(h, since) PROVE IInv'
    BY <1>1, <2>1, <2>7, ReadFloorStep
  <2>8. ASSUME NEW shown \in 1 .. MaxPosts, MarkSeen(h, shown) PROVE IInv'
    <3>1. h \in Clients /\ shown \in Nat
      BY <2>1, <2>8 DEF MarkSeen
    <3>2. QED
      BY <1>1, <2>8, <3>1, MarkSeenStep
  <2>9. CASE Fetch(h) \/ Recheck(h) \/ Advance(h)
    BY <1>1, <2>9, FetchStep, RecheckStep, AdvanceStep
  <2>10. QED
    BY <1>3, <2>2, <2>3, <2>4, <2>5, <2>6, <2>7, <2>8, <2>9 DEF Step
<1>4. QED
  BY <1>1, <1>2, <1>3 DEF Next

(* In every reachable state the tables, the calls and the histories have   *)
(* their types, a room with members has its row, and no message has an id  *)
(* that is still to come.                                                  *)
THEOREM TypeCorrect == Spec => []TypeOK
<1>1. IInv => TypeOK
  BY DEF IInv, Typed
<1>2. QED
  BY <1>1, InitInv, NextKeeps, PTL DEF Spec

(* No agent's mark ever passes a message of another that it was not shown, *)
(* whatever deletes, clears, boots, invitations and crashes happen between *)
(* the statements of its read (room_inbox, safeRoomAdvanceId).             *)
THEOREM NothingIsSkipped == Spec => []NothingSkipped
<1>1. ASSUME IInv PROVE NothingSkipped
  <2>1. \A a \in Agents : anchor[a] \in Nat
    BY <1>1 DEF IInv, Typed, TypeOK
  <2>2. \A m \in msgs : m.id \in Nat
    BY <1>1 DEF IInv, Typed, TypeOK, Message
  <2>3. QED
    BY <1>1, <2>1, <2>2 DEF IInv, Marked, Covered, NothingSkipped
<1>2. IInv => NothingSkipped
  BY <1>1
<1>3. QED
  BY <1>2, InitInv, NextKeeps, PTL DEF Spec

-----------------------------------------------------------------------------
(* Nothing comes back.  A mark that no race took back is above the anchor  *)
(* and above all that was consumed, except while its agent's own join has  *)
(* still to set it; and a join that someone else makes for an agent, not   *)
(* beside the agent's own, is a race.                                      *)

Above(a, mark) == anchor[a] <= mark /\ \A i \in consumed[a] : i <= mark

OnlyOwnJoin(a) == \A g \in Handles : Joins(g, a) => Joins(a, a)

KeptMark(a) ==
  a \notin bared =>
    /\ OnlyOwnJoin(a)
    /\ (a \in members \/ call[a].pc = "readFloor") /\ ~Joins(a, a) => Above(a, reads[a])
    /\ call[a].pc = "fetch" => Above(a, call[a].floor)

GotUpTo(a) ==
  call[a].pc \in {"recheck", "advance"} => \A i \in call[a].got : i <= call[a].upTo

FreshOf(a) == KeptMark(a) /\ GotUpTo(a)
Fresh == \A a \in Agents : FreshOf(a)

(* The call of h goes on, and neither to a join's writes nor, when h is an *)
(* agent, to the statements of a read past its floor.                      *)
Moves(h) ==
  /\ call' \in [Handles -> Call]
  /\ \A g \in Handles \ {h} : call'[g] = call[g]
  /\ call'[h].pc \notin {"announce", "anchor"}
  /\ call'[h].pc = "readFloor" => h \in members
  /\ h \in Agents => call'[h].pc \notin {"fetch", "recheck", "advance"}

Plain == Steps \ (Delicate \cup {"announce", "readFloor"})

LEMMA ReturnMoves ==
  ASSUME TypeOK, NEW h \in Handles, Return(h)
  PROVE  Moves(h)
<1>1. Becomes(h, "idle", Nobody, 0, 0, {}, 0)
  BY Returned
<1>2. QED
  BY <1>1 DEF Becomes, Moves

LEMMA ContinueMoves ==
  ASSUME TypeOK, NEW h \in Handles, NEW step \in Plain, Continue(h, step)
  PROVE  Moves(h)
<1>1. Becomes(h, step, call[h].who, call[h].since, call[h].floor, call[h].got,
              call[h].upTo)
  BY Continued DEF Plain
<1>2. QED
  BY <1>1 DEF Becomes, Moves, Plain, Delicate

LEMMA EnterMoves ==
  ASSUME TypeOK, NEW h \in Handles, NEW op \in OpNames, NEW who \in Handles,
         NEW step \in Plain, Enter(h, op, who, step)
  PROVE  Moves(h)
<1>1. Becomes(h, step, who, 0, 0, {}, 0)
  BY Entered DEF Plain
<1>2. QED
  BY <1>1 DEF Becomes, Moves, Plain, Delicate

(* A step that is no part of a join of a keeps what is said of a, if it    *)
(* takes a mark back only where nothing is exposed.                        *)
LEMMA MovesKeep ==
  ASSUME NEW h \in Handles, NEW a \in Agents, FreshOf(a), Moves(h), ~Joins(h, a),
         a \notin bared' => a \notin bared /\ (reads'[a] = reads[a] \/ a \notin Exposed),
         a \in members' => a \in members,
         anchor'[a] = anchor[a], consumed'[a] \subseteq consumed[a]
  PROVE  FreshOf(a)'
<1>0. a \in Handles
  BY DEF Agents
<1>1. GotUpTo(a)'
  BY <1>0 DEF FreshOf, GotUpTo, Moves
<1>2. SUFFICES ASSUME a \notin bared'
               PROVE  /\ OnlyOwnJoin(a)'
                      /\ ((a \in members \/ call[a].pc = "readFloor") /\ ~Joins(a, a))'
                         => Above(a, reads[a])'
                      /\ call'[a].pc = "fetch" => Above(a, call[a].floor)'
  BY <1>1 DEF FreshOf, KeptMark
<1>3. /\ OnlyOwnJoin(a)
      /\ (a \in members \/ call[a].pc = "readFloor") /\ ~Joins(a, a) => Above(a, reads[a])
      /\ call[a].pc = "fetch" => Above(a, call[a].floor)
  BY <1>2 DEF FreshOf, KeptMark
<1>4. ~Joins(h, a)' /\ (\A g \in Handles \ {h} : Joins(g, a)' <=> Joins(g, a))
  BY DEF Moves, Joins
<1>5. OnlyOwnJoin(a)'
  BY <1>0, <1>3, <1>4 DEF OnlyOwnJoin
<1>6. ASSUME a \in members' \/ call'[a].pc = "readFloor", ~Joins(a, a)'
      PROVE  Above(a, reads[a])'
  <2>1. a \in members \/ call[a].pc = "readFloor"
    BY <1>0, <1>6 DEF Moves
  <2>2. ~Joins(a, a)
    BY <1>0, <1>4, <1>6
  <2>3. reads'[a] = reads[a]
    BY <1>0, <1>2, <2>1 DEF Exposed
  <2>4. QED
    BY <1>3, <2>1, <2>2, <2>3 DEF Above
<1>7. ASSUME call'[a].pc = "fetch"
      PROVE  Above(a, call[a].floor)'
  <2>1. call'[a] = call[a]
    BY <1>0, <1>7 DEF Moves
  <2>2. QED
    BY <1>3, <1>7, <2>1 DEF Above
<1>8. QED
  BY <1>5, <1>6, <1>7

(* The steps that are no part of a join or of a read past its floor. *)
PlainStep(h) ==
  \/ \E op \in {"invite", "boot"}, who \in Handles : CheckCaller(h, op, who)
  \/ CheckTarget(h) \/ InsertRoom(h) \/ ReadMember(h)
  \/ DeleteMember(h) \/ DeleteMark(h) \/ AnnounceBoot(h)
  \/ ReadOwner(h) \/ ReadCaller(h) \/ Judge(h)
  \/ DeleteMarks(h) \/ DeleteMessages(h) \/ DeleteRoom(h)
  \/ ClearMessages(h) \/ ResetMarks(h)
  \/ CheckSender(h) \/ Post(h) \/ CheckReader(h)
  \/ \E shown \in 1 .. MaxPosts : MarkSeen(h, shown)

LEMMA PlainWords ==
  /\ OpNames = {"join", "invite", "leave", "boot", "kick", "delete", "send", "inbox",
                "mark", "clear"}
  /\ {"checkTarget", "insertRoom", "readMember", "insertMember", "deleteMember",
      "deleteMark", "announceBoot", "readCaller", "judge", "deleteMarks",
      "deleteMessages", "deleteRoom", "post", "resetMarks"} \subseteq Plain
  BY DEF OpNames, Plain, Steps, Delicate

LEMMA PlainMoves ==
  ASSUME Typed, NEW h \in Handles, PlainStep(h)
  PROVE  Moves(h)
<1>0. TypeOK
  BY DEF Typed
<1>1. ASSUME NEW op \in {"invite", "boot"}, NEW who \in Handles, CheckCaller(h, op, who)
      PROVE  Moves(h)
  BY <1>0, <1>1, PlainWords, EnterMoves DEF CheckCaller
<1>2. CASE CheckTarget(h)
  BY <1>0, <1>2, PlainWords, ReturnMoves, ContinueMoves DEF CheckTarget
<1>3. CASE InsertRoom(h)
  BY <1>0, <1>3, PlainWords, EnterMoves, ContinueMoves DEF InsertRoom
<1>4. CASE ReadMember(h)
  BY <1>0, <1>4, PlainWords, ReturnMoves, ContinueMoves DEF ReadMember
<1>5. CASE DeleteMember(h)
  BY <1>0, <1>5, PlainWords, EnterMoves, ContinueMoves DEF DeleteMember
<1>6. CASE DeleteMark(h)
  BY <1>0, <1>6, PlainWords, ReturnMoves, ContinueMoves DEF DeleteMark
<1>7. ASSUME h \in Clients, nextId \in Nat,
             call' = [call EXCEPT ![h] = [@ EXCEPT !.pc = "advance", !.upTo = nextId]]
      PROVE  Moves(h)
  <2>1. "advance" \in Steps
    BY DEF Steps
  <2>2. Becomes(h, "advance", call[h].who, call[h].since, call[h].floor, call[h].got, nextId)
    BY <1>0, <1>7, <2>1, ContinuedAt
  <2>3. QED
    BY <1>7, <2>2 DEF Becomes, Moves, Agents
<1>8. nextId \in Nat
  BY <1>0 DEF TypeOK
<1>9. CASE AnnounceBoot(h)
  BY <1>0, <1>7, <1>8, <1>9, ReturnMoves DEF AnnounceBoot
<1>10. CASE ReadOwner(h)
  <2>1. owner \in Handles
    BY <1>0, <1>10 DEF TypeOK, ReadOwner
  <2>2. QED
    BY <1>0, <1>10, <2>1, PlainWords, EnterMoves DEF ReadOwner
<1>11. CASE ReadCaller(h)
  BY <1>0, <1>11, PlainWords, ReturnMoves, ContinueMoves DEF ReadCaller
<1>12. CASE Judge(h)
  BY <1>0, <1>12, PlainWords, ReturnMoves, ContinueMoves DEF Judge
<1>13. CASE DeleteMarks(h) \/ DeleteMessages(h)
  BY <1>0, <1>13, PlainWords, ContinueMoves DEF DeleteMarks, DeleteMessages
<1>14. CASE DeleteRoom(h) \/ ResetMarks(h)
  BY <1>0, <1>14, ReturnMoves DEF DeleteRoom, ResetMarks
<1>15. CASE ClearMessages(h)
  BY <1>0, <1>15, PlainWords, EnterMoves DEF ClearMessages
<1>16. CASE CheckSender(h)
  BY <1>0, <1>16, PlainWords, EnterMoves DEF CheckSender
<1>17. CASE Post(h)
  BY <1>0, <1>7, <1>8, <1>17, ReturnMoves DEF Post, AdvanceOwnRead
<1>18. CASE CheckReader(h)
  <2>1. "inbox" \in OpNames /\ "readFloor" \in Steps
    BY DEF OpNames, Steps
  <2>2. Becomes(h, "readFloor", h, 0, 0, {}, 0)
    BY <1>0, <1>18, <2>1, Entered DEF CheckReader
  <2>3. QED
    BY <1>18, <2>2 DEF Becomes, Moves, CheckReader
<1>19. ASSUME NEW shown \in 1 .. MaxPosts, MarkSeen(h, shown)
       PROVE  Moves(h)
  <2> DEFINE r == [Idle EXCEPT !.op = "mark", !.pc = "advance", !.who = h, !.upTo = shown]
  <2>1. shown \in Nat
    BY BoundAssumption
  <2>2. r \in Call /\ r.pc = "advance"
    BY <2>1 DEF Idle, Call, Steps, OpNames
  <2>3. call' = [call EXCEPT ![h] = r]
    BY <1>19 DEF MarkSeen
  <2> HIDE DEF r
  <2>4. call' \in [Handles -> Call] /\ call'[h] = r
        /\ \A g \in Handles \ {h} : call'[g] = call[g]
    BY <1>0, <2>2, <2>3, CallSet
  <2>5. QED
    BY <1>19, <2>2, <2>4 DEF Moves, MarkSeen, Agents
<1>20. QED
  BY <1>1, <1>2, <1>3, <1>4, <1>5, <1>6, <1>9, <1>10, <1>11, <1>12, <1>13, <1>14, <1>15,
     <1>16, <1>17, <1>18, <1>19 DEF PlainStep

LEMMA PlainTables ==
  ASSUME Typed, NEW h \in Handles, PlainStep(h), NEW a \in Agents
  PROVE  /\ ~Joins(h, a)
         /\ a \notin bared' => a \notin bared /\ (reads'[a] = reads[a] \/ a \notin Exposed)
         /\ a \in members' => a \in members
         /\ anchor'[a] = anchor[a] /\ consumed'[a] \subseteq consumed[a]
<1>0. a \in Handles /\ TypeOK
  BY DEF Agents, Typed
<1>1. ~Joins(h, a)
  BY DEF PlainStep, Joins, CheckCaller, Enter, CheckTarget, InsertRoom, ReadMember,
         DeleteMember, DeleteMark, AnnounceBoot, ReadOwner, ReadCaller, Judge, DeleteMarks,
         DeleteMessages, DeleteRoom, ClearMessages, ResetMarks, CheckSender, Post,
         CheckReader, MarkSeen
<1>2. CASE UNCHANGED <<reads, history>> /\ members' \subseteq members
  BY <1>1, <1>2 DEF history
<1>3. CASE DeleteMark(h)
  <2>1. \A g \in Handles : g # call[h].who => reads'[g] = reads[g]
    BY <1>0, <1>3 DEF DeleteMark, TypeOK
  <2>2. QED
    BY <1>0, <1>1, <1>3, <2>1 DEF DeleteMark, Bare
<1>4. CASE DeleteMarks(h) \/ ResetMarks(h)
  BY <1>0, <1>1, <1>4 DEF DeleteMarks, ResetMarks, Bare
<1>5. CASE DeleteMessages(h) \/ ClearMessages(h)
  BY <1>0, <1>1, <1>5 DEF DeleteMessages, ClearMessages
<1>6. QED
  BY <1>1, <1>2, <1>3, <1>4, <1>5
     DEF PlainStep, CheckCaller, CheckTarget, InsertRoom, ReadMember, DeleteMember,
         AnnounceBoot, ReadOwner, ReadCaller, Judge, DeleteRoom, CheckSender, Post,
         CheckReader, MarkSeen, tables, history

LEMMA PlainKeeps ==
  ASSUME Typed, Fresh, NEW h \in Handles, PlainStep(h)
  PROVE  Fresh'
<1>1. ASSUME NEW a \in Agents PROVE FreshOf(a)'
  <2>1. FreshOf(a) /\ Moves(h)
    BY PlainMoves DEF Fresh
  <2>2. QED
    BY <2>1, PlainTables, MovesKeep
<1>2. QED
  BY <1>1 DEF Fresh

(* A join: its membership is inserted, it is announced, its mark is set.   *)
(* Of the agents other than the one that joins it says nothing.            *)

LEMMA JoinOfAnother ==
  ASSUME NEW h \in Handles, NEW a \in Agents, FreshOf(a),
         call' \in [Handles -> Call], \A g \in Handles \ {h} : call'[g] = call[g],
         call'[h].pc \in {"idle", "announce", "anchor"}, call'[h].who # a,
         call[h].pc \in {"insertMember", "announce", "anchor"}, call[h].who # a,
         a \in members' => a \in members, a \notin bared' => a \notin bared,
         reads'[a] = reads[a], anchor'[a] = anchor[a], consumed'[a] = consumed[a]
  PROVE  FreshOf(a)'
<1>0. a \in Handles
  BY DEF Agents
<1>1. \A g \in Handles : Joins(g, a)' <=> Joins(g, a)
  BY DEF Joins
<1>2. /\ call'[a].pc = "readFloor" => call[a].pc = "readFloor"
      /\ call'[a].pc \in {"fetch", "recheck", "advance"} => call'[a] = call[a]
  BY <1>0
<1>3. GotUpTo(a)'
  BY <1>2 DEF FreshOf, GotUpTo
<1>4. KeptMark(a)'
  BY <1>0, <1>1, <1>2 DEF FreshOf, KeptMark, OnlyOwnJoin, Above
<1>5. QED
  BY <1>3, <1>4 DEF FreshOf

LEMMA InsertMemberFresh ==
  ASSUME Typed, Fresh, NEW h \in Handles, InsertMember(h)
  PROVE  Fresh'
<1>0. TypeOK /\ call[h].who \in Handles /\ call[h].pc = "insertMember"
  BY DEF Typed, Targets, InsertMember
<1>1. SUFFICES ASSUME NEW a \in Agents PROVE FreshOf(a)'
  BY DEF Fresh
<1>2. FreshOf(a) /\ a \in Handles
  BY DEF Fresh, Agents
<1>3. CASE Return(h) /\ UNCHANGED <<members, bared>>
  <2>1. Moves(h) /\ ~Joins(h, a)
    BY <1>0, <1>3, ReturnMoves DEF Joins
  <2>2. QED
    BY <1>2, <1>3, <2>1, MovesKeep DEF InsertMember
<1>4. CASE /\ members' = members \cup {call[h].who}
           /\ bared' = IF call[h].who = h THEN bared \ {h} ELSE Bare({call[h].who})
           /\ Continue(h, "announce")
  <2>1. "announce" \in Steps
    BY DEF Steps
  <2>2. Becomes(h, "announce", call[h].who, call[h].since, call[h].floor, call[h].got,
                call[h].upTo)
    BY <1>0, <1>4, <2>1, Continued
  <2>3. CASE call[h].who # a
    <3>1. a \notin bared' => a \notin bared
      BY <1>4, <2>3 DEF Bare
    <3>2. QED
      BY <1>0, <1>2, <1>4, <2>2, <2>3, <3>1, JoinOfAnother DEF Becomes, InsertMember
  <2>4. CASE call[h].who = a /\ h = a
    <3>1. Joins(a, a)' /\ call'[a].pc = "announce"
      BY <2>2, <2>4 DEF Becomes, Joins
    <3>2. QED
      BY <3>1 DEF FreshOf, KeptMark, OnlyOwnJoin, GotUpTo
  <2>5. CASE call[h].who = a /\ h # a
    <3>1. a \in bared' /\ call'[a] = call[a]
      BY <1>2, <1>4, <2>2, <2>5 DEF Bare, Becomes
    <3>2. QED
      BY <1>2, <3>1 DEF FreshOf, KeptMark, GotUpTo
  <2>6. QED
    BY <2>3, <2>4, <2>5
<1>5. QED
  BY <1>3, <1>4 DEF InsertMember

LEMMA AnnounceFresh ==
  ASSUME Typed, Fresh, NEW h \in Handles, Announce(h)
  PROVE  Fresh'
<1>0. TypeOK /\ call[h].who \in Handles /\ call[h].pc = "announce" /\ nextId \in Nat
  BY DEF Typed, TypeOK, Targets, Announce
<1>1. SUFFICES ASSUME NEW a \in Agents PROVE FreshOf(a)'
  BY DEF Fresh
<1>2. FreshOf(a) /\ a \in Handles
  BY DEF Fresh, Agents
<1>3. "anchor" \in Steps
  BY DEF Steps
<1>4. Becomes(h, "anchor", call[h].who, call[h].since, call[h].floor, call[h].got, nextId)
  BY <1>0, <1>3, ContinuedAt DEF Announce
<1>5. CASE call[h].who # a
  <2>1. anchor'[a] = anchor[a]
    BY <1>5 DEF Announce
  <2>2. QED
    BY <1>0, <1>2, <1>4, <1>5, <2>1, JoinOfAnother DEF Becomes, Announce
<1>6. CASE call[h].who = a
  <2>1. Joins(h, a) /\ \A g \in Handles : Joins(g, a)' <=> Joins(g, a)
    BY <1>0, <1>4, <1>6 DEF Becomes, Joins
  <2>2. bared' = bared
    BY DEF Announce
  <2>3. GotUpTo(a)'
    BY <1>2, <1>4 DEF FreshOf, GotUpTo, Becomes
  <2>4. a \notin bared => Joins(a, a) /\ OnlyOwnJoin(a)
    BY <1>2, <2>1 DEF FreshOf, KeptMark, OnlyOwnJoin
  <2>5. a \notin bared => Joins(a, a)' /\ OnlyOwnJoin(a)' /\ call'[a].pc # "fetch"
    BY <1>2, <2>1, <2>4 DEF OnlyOwnJoin, Joins
  <2>6. QED
    BY <2>2, <2>3, <2>5 DEF FreshOf, KeptMark
<1>7. QED
  BY <1>5, <1>6

LEMMA AnchorFresh ==
  ASSUME Typed, Fresh, NEW h \in Handles, Anchor(h)
  PROVE  Fresh'
<1>0. /\ TypeOK /\ call[h].who \in Handles /\ call[h].pc = "anchor" /\ call[h] \in Call
      /\ call[h].upTo \in Nat
  BY DEF Typed, TypeOK, Targets, Anchor, Call
<1>1. SUFFICES ASSUME NEW a \in Agents PROVE FreshOf(a)'
  BY DEF Fresh
<1>2. FreshOf(a) /\ a \in Handles
  BY DEF Fresh, Agents
<1>3. Becomes(h, "idle", Nobody, 0, 0, {}, 0) /\ Nobody # a
  BY <1>0, <1>2, Returned, NamesAssumption DEF Anchor
<1>4. \A g \in Handles : reads'[g] = IF g = call[h].who THEN call[h].upTo ELSE reads[g]
  BY <1>0 DEF Anchor, TypeOK
<1>5. anchor' = anchor /\ consumed' = consumed /\ members' = members
  BY DEF Anchor
<1>6. CASE call[h].who # a
  <2>1. a \notin bared' => a \notin bared
    BY <1>6 DEF Anchor, Bare
  <2>2. QED
    BY <1>0, <1>2, <1>3, <1>4, <1>5, <1>6, <2>1, JoinOfAnother DEF Becomes
<1>7. CASE call[h].who = a
  <2>1. GotUpTo(a)'
    BY <1>2, <1>3 DEF FreshOf, GotUpTo, Becomes
  <2>2. CASE TakesBack(h)
    <3>1. a \in bared'
      BY <1>7, <2>2 DEF Anchor, Bare
    <3>2. QED
      BY <2>1, <3>1 DEF FreshOf, KeptMark
  <2>3. CASE ~TakesBack(h)
    <3>1. /\ ~(call[h].upTo < anchor[a]) /\ \A i \in consumed[a] : ~(call[h].upTo < i)
          /\ call[a].pc # "fetch" /\ \A g \in Handles \ {h} : ~Joins(g, a)
      BY <1>7, <2>3 DEF TakesBack
    <3>2. anchor[a] \in Nat /\ consumed[a] \subseteq Nat
      BY <1>0 DEF TypeOK
    <3>3. anchor[a] <= call[h].upTo /\ \A i \in consumed[a] : i <= call[h].upTo
      BY <1>0, <3>1, <3>2
    <3>4. Above(a, reads[a])'
      BY <1>2, <1>4, <1>5, <1>7, <3>3 DEF Above
    <3>5. \A g \in Handles : ~Joins(g, a)'
      BY <1>3, <3>1 DEF Becomes, Joins
    <3>6. call'[a].pc # "fetch"
      BY <1>2, <1>3, <3>1 DEF Becomes
    <3>7. QED
      BY <2>1, <3>4, <3>5, <3>6 DEF FreshOf, KeptMark, OnlyOwnJoin
  <2>4. QED
    BY <2>2, <2>3
<1>8. QED
  BY <1>6, <1>7

LEMMA CrashFresh ==
  ASSUME Typed, Fresh, NEW h \in Handles, Crash(h)
  PROVE  Fresh'
<1>0. TypeOK
  BY DEF Typed
<1>1. SUFFICES ASSUME NEW a \in Agents PROVE FreshOf(a)'
  BY DEF Fresh
<1>2. FreshOf(a) /\ a \in Handles
  BY DEF Fresh, Agents
<1>3. UNCHANGED <<tables, anchor, consumed>>
  BY DEF Crash
<1>4. CASE ~Joins(h, a)
  <2>1. Moves(h)
    BY <1>0, ReturnMoves DEF Crash
  <2>2. a \notin bared' => a \notin bared
    BY DEF Crash, Bare
  <2>3. QED
    BY <1>2, <1>3, <1>4, <2>1, <2>2, MovesKeep DEF tables
<1>5. CASE Joins(h, a)
  <2>1. a \in bared'
    BY <1>5 DEF Crash, Bare, Joins
  <2>2. Becomes(h, "idle", Nobody, 0, 0, {}, 0)
    BY <1>0, Returned DEF Crash
  <2>3. GotUpTo(a)'
    BY <1>2, <2>2 DEF FreshOf, GotUpTo, Becomes
  <2>4. QED
    BY <2>1, <2>3 DEF FreshOf, KeptMark
<1>6. QED
  BY <1>4, <1>5

(* The read of an agent: its floor is no lower than the mark, what it gets *)
(* is above the floor and up to the id it advances to.                     *)

LEMMA ReadOfAnother ==
  ASSUME NEW h \in Handles, NEW a \in Agents, a # h, FreshOf(a),
         call' \in [Handles -> Call], \A g \in Handles \ {h} : call'[g] = call[g],
         call[h].pc \notin {"announce", "anchor"}, call'[h].pc \notin {"announce", "anchor"},
         members' = members, bared' = bared, anchor' = anchor,
         reads'[a] = reads[a], consumed'[a] = consumed[a]
  PROVE  FreshOf(a)'
<1>0. a \in Handles /\ call'[a] = call[a]
  BY DEF Agents
<1>1. \A g \in Handles : Joins(g, a)' <=> Joins(g, a)
  BY DEF Joins
<1>2. QED
  BY <1>0, <1>1 DEF FreshOf, KeptMark, OnlyOwnJoin, GotUpTo, Above

LEMMA ReadFloorFresh ==
  ASSUME Typed, Fresh, NEW h \in Handles, NEW since \in Nat, ReadFloor(h, since)
  PROVE  Fresh'
<1>0. TypeOK /\ call[h] \in Call /\ call[h].pc = "readFloor" /\ reads[h] \in Nat
  BY DEF Typed, TypeOK, ReadFloor
<1>1. SUFFICES ASSUME NEW a \in Agents PROVE FreshOf(a)'
  BY DEF Fresh
<1>2. FreshOf(a) /\ a \in Handles
  BY DEF Fresh, Agents
<1> DEFINE low == Floor(reads[h], since)
           r == [call[h] EXCEPT !.pc = "fetch", !.since = since, !.floor = low]
<1>3. low \in Nat /\ reads[h] <= low
  BY <1>0 DEF Floor, Larger
<1>4. call' = [call EXCEPT ![h] = r]
  BY DEF ReadFloor
<1> HIDE DEF low
<1>5. r \in Call /\ r.pc = "fetch" /\ r.floor = low
  BY <1>0, <1>3 DEF Call, Steps
<1> HIDE DEF r
<1>6. call' \in [Handles -> Call] /\ call'[h] = r /\ \A g \in Handles \ {h} : call'[g] = call[g]
  BY <1>0, <1>4, <1>5, CallSet
<1>7. UNCHANGED <<tables, history>>
  BY DEF ReadFloor
<1>8. CASE a # h
  BY <1>0, <1>2, <1>5, <1>6, <1>7, <1>8, ReadOfAnother DEF tables, history
<1>9. CASE a = h
  <2>1. \A g \in Handles : Joins(g, a)' <=> Joins(g, a)
    BY <1>0, <1>5, <1>6, <1>9 DEF Joins
  <2>2. GotUpTo(a)' /\ call'[a].pc = "fetch" /\ ~Joins(a, a)
    BY <1>0, <1>5, <1>6, <1>9 DEF GotUpTo, Joins
  <2>3. SUFFICES ASSUME a \notin bared
                 PROVE  OnlyOwnJoin(a)' /\ Above(a, reads[a])' /\ Above(a, call[a].floor)'
    BY <1>7, <2>2 DEF FreshOf, KeptMark, history
  <2>4. OnlyOwnJoin(a) /\ Above(a, reads[a])
    BY <1>0, <1>2, <1>9, <2>2, <2>3 DEF FreshOf, KeptMark
  <2>5. OnlyOwnJoin(a)'
    BY <1>2, <2>1, <2>4 DEF OnlyOwnJoin
  <2>6. Above(a, low)
    <3>1. anchor[a] \in Nat /\ consumed[a] \subseteq Nat
      BY <1>0 DEF TypeOK
    <3>2. QED
      BY <1>0, <1>3, <1>9, <2>4, <3>1 DEF Above
  <2>7. QED
    BY <1>5, <1>6, <1>7, <1>9, <2>4, <2>5, <2>6 DEF Above, tables, history
<1>10. QED
  BY <1>8, <1>9

(* What a fetch puts in hand. *)
LEMMA Fetched ==
  ASSUME Typed, NEW h \in Handles, Fetch(h)
  PROVE  /\ call' \in [Handles -> Call] /\ \A g \in Handles \ {h} : call'[g] = call[g]
         /\ call'[h].pc \in {"idle", "advance", "recheck"}
         /\ \A i \in call'[h].got : i > call[h].floor /\ i <= call'[h].upTo
<1>0. TypeOK /\ call[h] \in Call
  BY DEF Typed, TypeOK
<1>1. CASE Return(h)
  <2>1. Becomes(h, "idle", Nobody, 0, 0, {}, 0)
    BY <1>0, <1>1, Returned
  <2>2. QED
    BY <2>1 DEF Becomes
<1>2. ASSUME NEW last \in Unread(h),
             call' = [call EXCEPT ![h] =
                        [@ EXCEPT !.pc = IF call[h].since = 0 THEN "advance" ELSE "recheck",
                                  !.got = {i \in Unread(h) : i <= last},
                                  !.upTo = last]]
      PROVE  /\ call' \in [Handles -> Call] /\ \A g \in Handles \ {h} : call'[g] = call[g]
             /\ call'[h].pc \in {"idle", "advance", "recheck"}
             /\ \A i \in call'[h].got : i > call[h].floor /\ i <= call'[h].upTo
  <2>1. /\ Unread(h) \subseteq Nat /\ last \in Nat
        /\ \A i \in Unread(h) : i > call[h].floor
    BY <1>0 DEF TypeOK, Message, Unread
  <2> DEFINE step == IF call[h].since = 0 THEN "advance" ELSE "recheck"
             ids == {i \in Unread(h) : i <= last}
             r == [call[h] EXCEPT !.pc = step, !.got = ids, !.upTo = last]
  <2>2. step \in Steps /\ ids \in SUBSET Nat /\ step \in {"advance", "recheck"}
        /\ \A i \in ids : i > call[h].floor /\ i <= last
    BY <2>1 DEF Steps
  <2>3. call' = [call EXCEPT ![h] = r]
    BY <1>2
  <2> HIDE DEF step, ids
  <2>4. r \in Call /\ r.pc = step /\ r.got = ids /\ r.upTo = last
    BY <1>0, <2>1, <2>2 DEF Call
  <2> HIDE DEF r
  <2>5. call' \in [Handles -> Call] /\ call'[h] = r /\ \A g \in Handles \ {h} : call'[g] = call[g]
    BY <1>0, <2>3, <2>4, CallSet
  <2>6. QED
    BY <2>2, <2>4, <2>5
<1>3. QED
  BY <1>1, <1>2 DEF Fetch

LEMMA FetchFresh ==
  ASSUME Typed, Fresh, NEW h \in Handles, Fetch(h)
  PROVE  Fresh'
<1>1. SUFFICES ASSUME NEW a \in Agents PROVE FreshOf(a)'
  BY DEF Fresh
<1>2. FreshOf(a) /\ a \in Handles
  BY DEF Fresh, Agents
<1>3. UNCHANGED <<tables, history>> /\ call[h].pc = "fetch"
  BY DEF Fetch
<1>4. /\ call' \in [Handles -> Call] /\ \A g \in Handles \ {h} : call'[g] = call[g]
      /\ call'[h].pc \in {"idle", "advance", "recheck"}
      /\ \A i \in call'[h].got : i > call[h].floor /\ i <= call'[h].upTo
  BY Fetched
<1>5. CASE a # h
  BY <1>2, <1>3, <1>4, <1>5, ReadOfAnother DEF tables, history
<1>6. CASE a = h
  <2>1. \A g \in Handles : Joins(g, a)' <=> Joins(g, a)
    BY <1>3, <1>4 DEF Joins
  <2>2. GotUpTo(a)'
    BY <1>4, <1>6 DEF GotUpTo
  <2>3. ~Joins(a, a) /\ call'[a].pc \notin {"readFloor", "fetch"}
    BY <1>3, <1>4, <1>6 DEF Joins
  <2>4. KeptMark(a)'
    BY <1>2, <1>3, <2>1, <2>3 DEF FreshOf, KeptMark, OnlyOwnJoin, Above, tables, history
  <2>5. QED
    BY <2>2, <2>4 DEF FreshOf
<1>7. QED
  BY <1>5, <1>6

LEMMA RecheckFresh ==
  ASSUME Typed, Fresh, NEW h \in Handles, Recheck(h)
  PROVE  Fresh'
<1>0. TypeOK /\ call[h].pc = "recheck" /\ UNCHANGED <<tables, history>>
  BY DEF Typed, Recheck
<1>1. SUFFICES ASSUME NEW a \in Agents PROVE FreshOf(a)'
  BY DEF Fresh
<1>2. FreshOf(a) /\ a \in Handles
  BY DEF Fresh, Agents
<1>3. CASE Return(h)
  <2>1. Moves(h) /\ ~Joins(h, a)
    BY <1>0, <1>3, ReturnMoves DEF Joins
  <2>2. QED
    BY <1>0, <1>2, <2>1, MovesKeep DEF tables, history
<1>4. CASE Continue(h, "advance")
  <2>1. "advance" \in Steps
    BY DEF Steps
  <2>2. Becomes(h, "advance", call[h].who, call[h].since, call[h].floor, call[h].got,
                call[h].upTo)
    BY <1>0, <1>4, <2>1, Continued
  <2>3. CASE a # h
    BY <1>0, <1>2, <2>2, <2>3, ReadOfAnother DEF Becomes, tables, history
  <2>4. CASE a = h
    <3>1. \A g \in Handles : Joins(g, a)' <=> Joins(g, a)
      BY <1>0, <2>2 DEF Joins, Becomes
    <3>2. GotUpTo(a)'
      BY <1>0, <1>2, <2>2, <2>4 DEF FreshOf, GotUpTo, Becomes
    <3>3. ~Joins(a, a) /\ call'[a].pc \notin {"readFloor", "fetch"}
      BY <1>0, <2>2, <2>4 DEF Joins, Becomes
    <3>4. KeptMark(a)'
      BY <1>0, <1>2, <3>1, <3>3 DEF FreshOf, KeptMark, OnlyOwnJoin, Above, tables, history
    <3>5. QED
      BY <3>2, <3>4 DEF FreshOf
  <2>5. QED
    BY <2>3, <2>4
<1>5. QED
  BY <1>3, <1>4 DEF Recheck

LEMMA AdvanceFresh ==
  ASSUME Typed, Fresh, NEW h \in Handles, Advance(h)
  PROVE  Fresh'
<1>0. /\ TypeOK /\ call[h].pc = "advance" /\ call[h] \in Call
      /\ reads[h] \in Nat /\ call[h].upTo \in Nat
  BY DEF Typed, TypeOK, Advance, Call
<1>1. SUFFICES ASSUME NEW a \in Agents PROVE FreshOf(a)'
  BY DEF Fresh
<1>2. FreshOf(a) /\ a \in Handles
  BY DEF Fresh, Agents
<1>3. Becomes(h, "idle", Nobody, 0, 0, {}, 0)
  BY <1>0, Returned DEF Advance
<1> DEFINE to == Larger(reads[h], call[h].upTo)
<1>4. to \in Nat /\ reads[h] <= to /\ call[h].upTo <= to
  BY <1>0 DEF Larger
<1>5. /\ members' = members /\ bared' = bared /\ anchor' = anchor
      /\ \A g \in Handles : reads'[g] = IF g = h THEN to ELSE reads[g]
      /\ \A b \in Agents : consumed'[b] = IF b = h THEN consumed[b] \cup call[h].got
                                                   ELSE consumed[b]
  BY <1>0 DEF Advance, TypeOK
<1> HIDE DEF to
<1>6. CASE a # h
  BY <1>0, <1>2, <1>3, <1>5, <1>6, ReadOfAnother DEF Becomes
<1>7. CASE a = h
  <2>1. \A g \in Handles : Joins(g, a)' <=> Joins(g, a)
    BY <1>0, <1>3 DEF Joins, Becomes
  <2>2. GotUpTo(a)' /\ ~Joins(a, a) /\ call'[a].pc = "idle"
    BY <1>0, <1>3, <1>7 DEF GotUpTo, Joins, Becomes
  <2>3. ASSUME Above(a, reads[a]) PROVE Above(a, reads[a])'
    <3>1. \A i \in call[a].got : i <= call[a].upTo
      BY <1>0, <1>2, <1>7 DEF FreshOf, GotUpTo
    <3>2. anchor[a] \in Nat /\ consumed[a] \subseteq Nat /\ call[a].got \subseteq Nat
      BY <1>0, <1>7 DEF TypeOK, Call
    <3>3. anchor[a] <= to
      BY <1>0, <1>4, <1>7, <2>3, <3>2 DEF Above
    <3>4. \A i \in consumed[a] : i <= to
      BY <1>0, <1>4, <1>7, <2>3, <3>2 DEF Above
    <3>5. \A i \in call[a].got : i <= to
      BY <1>0, <1>4, <1>7, <3>1, <3>2
    <3>6. QED
      BY <1>2, <1>5, <1>7, <3>3, <3>4, <3>5 DEF Above
  <2>4. KeptMark(a)'
    BY <1>2, <1>5, <2>1, <2>2, <2>3 DEF FreshOf, KeptMark, OnlyOwnJoin
  <2>5. QED
    BY <2>2, <2>4 DEF FreshOf
<1>8. QED
  BY <1>6, <1>7

LEMMA InitFresh == Init => Fresh
<1>1. SUFFICES ASSUME Init, NEW a \in Agents PROVE FreshOf(a)
  BY DEF Fresh
<1>2. a \in Handles /\ (\A h \in Handles : call[h].pc = "idle") /\ members = {}
  BY <1>1 DEF Init, Idle, Agents
<1>3. QED
  BY <1>2 DEF FreshOf, KeptMark, OnlyOwnJoin, GotUpTo, Joins

LEMMA NextFresh == Typed /\ Fresh /\ [Next]_vars => Fresh'
<1>1. SUFFICES ASSUME Typed, Fresh, [Next]_vars PROVE Fresh'
  OBVIOUS
<1>2. CASE UNCHANGED vars
  BY <1>1, <1>2 DEF Fresh, FreshOf, KeptMark, OnlyOwnJoin, GotUpTo, Joins, Above, vars
<1>3. ASSUME NEW h \in Handles, Step(h)
      PROVE  Fresh'
  <2>1. 0 .. MaxPosts \subseteq Nat
    BY BoundAssumption
  <2>2. CASE PlainStep(h)
    BY <1>1, <2>2, PlainKeeps
  <2>3. CASE InsertMember(h) \/ Announce(h) \/ Anchor(h) \/ Crash(h)
    BY <1>1, <2>3, InsertMemberFresh, AnnounceFresh, AnchorFresh, CrashFresh
  <2>4. ASSUME NEW since \in 0 .. MaxPosts, ReadFloor(h, since) PROVE Fresh'
    BY <1>1, <2>1, <2>4, ReadFloorFresh
  <2>5. CASE Fetch(h) \/ Recheck(h) \/ Advance(h)
    BY <1>1, <2>5, FetchFresh, RecheckFresh, AdvanceFresh
  <2>6. QED
    BY <1>3, <2>2, <2>3, <2>4, <2>5 DEF Step, PlainStep
<1>4. QED
  BY <1>1, <1>2, <1>3 DEF Next

(* A fetch of an agent whose mark no race took back is above its anchor    *)
(* and above everything it has consumed.                                   *)
LEMMA FetchIsFresh ==
  ASSUME Typed, Fresh, NEW h \in Agents, Fetch(h), h \notin bared
  PROVE  \A i \in call'[h].got : i > anchor[h] /\ i \notin consumed[h]
<1>1. h \in Handles /\ call[h].pc = "fetch"
  BY DEF Agents, Fetch
<1>2. call' \in [Handles -> Call] /\ \A i \in call'[h].got : i > call[h].floor
  BY <1>1, Fetched
<1>3. call'[h].got \subseteq Nat /\ call[h].floor \in Nat /\ anchor[h] \in Nat
      /\ consumed[h] \subseteq Nat
  BY <1>1, <1>2 DEF Typed, TypeOK, Call
<1>4. Above(h, call[h].floor)
  BY <1>1 DEF Fresh, FreshOf, KeptMark
<1>5. QED
  BY <1>2, <1>3, <1>4 DEF Above

(* What an agent's read returned and advanced over does not come back to   *)
(* it, also over a stale since_id, two joins and any crash, unless a       *)
(* delete, a clear, a boot or an invitation took its mark back (readFloor, *)
(* advanceRoomRead).                                                       *)
THEOREM NothingComesTwice == Spec => NothingTwice
<1>1. IInv /\ Fresh /\ [Next]_vars =>
        [\A h \in Agents : Fetch(h) /\ h \notin bared => call'[h].got \cap consumed[h] = {}]_vars
  BY FetchIsFresh DEF IInv
<1>2. IInv => Typed
  BY DEF IInv
<1>3. QED
  BY <1>1, <1>2, InitInv, NextKeeps, InitFresh, NextFresh, PTL DEF Spec, NothingTwice

(* No agent is shown what was posted up to the announcement of its last    *)
(* join, with the same exceptions and a join that died half-way (joinRoom).*)
THEOREM NothingIsOlder == Spec => NothingOlder
<1>1. IInv /\ Fresh /\ [Next]_vars =>
        [\A h \in Agents :
           Fetch(h) /\ h \notin bared => \A i \in call'[h].got : i > anchor[h]]_vars
  BY FetchIsFresh DEF IInv
<1>2. IInv => Typed
  BY DEF IInv
<1>3. QED
  BY <1>1, <1>2, InitInv, NextKeeps, InitFresh, NextFresh, PTL DEF Spec, NothingOlder
=============================================================================
