------------------------------ MODULE WebProofs ------------------------------
(***************************************************************************)
(* Proofs about the web page: the board of approvals, the composer and the *)
(* conversation pane, in this order.  The three share no variable, and each*)
(* has its own specification: Spec, ComposerSpec and PaneSpec.             *)
(***************************************************************************)
EXTENDS ApprovalBoard, WebComposer, WebPane, FiniteSetTheorems, SequenceTheorems, TLAPS

-----------------------------------------------------------------------------
(* ApprovalBoard, for any number of requests and of things on their way    *)
(* between the tab and the server.                                         *)
(*                                                                         *)
(* That a tab is not stale without an excuse is not inductive: an older    *)
(* list may be on its way while the tab draws the right one.  UpToDate     *)
(* says that such a list is older than the one shown, so that it is noticed*)
(* when it lands, and Coming asks of a response that it be of the table as *)
(* it is, not only of the same requests: the pending requests may be what  *)
(* they were two changes ago.  Versions tell the two apart, for a list of  *)
(* the table's version is the pending one.                                 *)

RowStates == {"none"} \cup Decisions
List == [ids: SUBSET Ids, version: Nat]
CallRecord == [kind: {"none", "event", "boot", "refresh", "answer"},
               at: {"none", "sent", "served", "recorded", "refused"},
               list: List, id: {0} \cup Ids, decision: RowStates]

Typed ==
  /\ rows \in Seq(RowStates) /\ Len(rows) <= MaxRows
  /\ wakes \in [Ids -> Seq(Decisions)]
  /\ clients \subseteq {Tab, Elsewhere}
  /\ shown \in List
  /\ calls \in [Slots -> CallRecord]
  /\ missed \in BOOLEAN

(* Every id anyone has of a request is that of a row. *)
Known ==
  signature \subseteq DOMAIN rows /\ drawn \subseteq DOMAIN rows /\ shown.ids \subseteq DOMAIN rows

(* A list that was served is older than the table, or is what is pending;  *)
(* an answer is of a row, and one that was recorded is its decision.       *)
Stands(call, table, pending) ==
  /\ call.list.ids \subseteq DOMAIN table
  /\ call.at = "served" => call.list.version < pending.version \/ call.list = pending
  /\ call.kind = "answer" /\ call.at = "sent" =>
       call.id \in DOMAIN table /\ call.decision \in Decisions
  /\ call.at = "recorded" =>
       /\ call.id \in DOMAIN table /\ call.decision \in Decisions
       /\ table[call.id] = call.decision

AllStand == \A s \in Slots : Stands(calls[s], rows, Pending)

Woken == \A i \in Ids : wakes[i] = IF i \in Answered THEN <<rows[i]>> ELSE << >>

Attended == ~up => clients = {}

(* Something on its way will make the tab draw what is pending now. *)
BringsNews(call, pending) ==
  \/ call.at = "recorded"
  \/ call.at = "sent" /\ call.kind # "answer"
  \/ call.at = "served" /\ call.list = pending

Coming == \E s \in Slots : BringsNews(calls[s], Pending)

(* The tab draws what is pending, and no list on its way can undo it and   *)
(* not be noticed to be older.                                             *)
UpToDate ==
  /\ drawn = Pending.ids /\ shown.ids = Pending.ids
  /\ \A s \in Slots : calls[s].at = "served" =>
       calls[s].list.ids = Pending.ids \/ calls[s].list.version < shown.version

Followed == stream /\ ~missed /\ signature = Pending.ids => Coming \/ UpToDate

Base == Typed /\ Known /\ AllStand /\ Woken /\ Attended
IInv == Base /\ Followed

-----------------------------------------------------------------------------
(* The table. *)

LEMMA TableTyped ==
  ASSUME Typed
  PROVE  /\ Len(rows) \in Nat /\ DOMAIN rows = 1..Len(rows) /\ DOMAIN rows \subseteq Ids
         /\ Answered \subseteq DOMAIN rows /\ IsFiniteSet(Answered)
         /\ Cardinality(Answered) \in Nat
         /\ Pending.ids = DOMAIN rows \ Answered
         /\ Pending.version = Len(rows) + Cardinality(Answered)
         /\ Pending.version \in Nat /\ Pending \in List
<1>1. rows \in Seq(RowStates) /\ Len(rows) \in Nat /\ DOMAIN rows = 1..Len(rows)
      /\ Len(rows) <= MaxRows
  BY DEF Typed
<1>2. DOMAIN rows \subseteq Ids
  BY <1>1, RowsAssumption DEF Ids
<1>3. Answered \subseteq DOMAIN rows
  BY DEF Answered
<1>4. IsFiniteSet(Answered)
  <2>1. IsFiniteSet(1..Len(rows))
    BY <1>1, FS_Interval
  <2>2. QED
    BY <1>1, <1>3, <2>1, FS_Subset
<1>5. Cardinality(Answered) \in Nat
  BY <1>4, FS_CardinalityType
<1>6. Pending.ids = DOMAIN rows \ Answered
      /\ Pending.version = Len(rows) + Cardinality(Answered)
  BY DEF Pending
<1> DEFINE count == Cardinality(Answered)
<1> HIDE DEF count
<1>7. Pending.version \in Nat
  <2>1. count \in Nat /\ Pending.version = Len(rows) + count
    BY <1>5, <1>6 DEF count
  <2>2. QED
    BY <1>1, <2>1
<1>8. Pending \in List
  <2>1. Pending = [ids |-> Pending.ids, version |-> Pending.version]
    BY DEF Pending
  <2>2. Pending.ids \subseteq Ids
    BY <1>2, <1>6
  <2>3. QED
    BY <1>7, <2>1, <2>2 DEF List
<1>9. QED
  BY <1>1, <1>2, <1>3, <1>4, <1>5, <1>6, <1>7, <1>8

(* The table has moved on: what was answered stays, and the version is new.*)
MovedOn ==
  /\ DOMAIN rows \subseteq DOMAIN rows'
  /\ Pending.version' \in Nat /\ Pending.version < Pending.version'
  /\ \A i \in Answered : rows'[i] = rows[i]

LEMMA FileMovesOn ==
  ASSUME Typed, rows' = Append(rows, "none"), Len(rows) < MaxRows
  PROVE  /\ rows' \in Seq(RowStates) /\ Len(rows') <= MaxRows
         /\ MovedOn /\ Answered' = Answered
         /\ \E new \in DOMAIN rows' : new \notin DOMAIN rows /\ new \in Pending.ids'
<1>1. rows \in Seq(RowStates) /\ Len(rows) \in Nat /\ DOMAIN rows = 1..Len(rows)
      /\ Cardinality(Answered) \in Nat /\ Pending.version = Len(rows) + Cardinality(Answered)
  BY TableTyped DEF Typed
<1>2. "none" \in RowStates
  BY DEF RowStates
<1>3. /\ rows' \in Seq(RowStates) /\ Len(rows') = Len(rows) + 1
      /\ DOMAIN rows' = 1..Len(rows) + 1 /\ rows'[Len(rows) + 1] = "none"
      /\ \A i \in DOMAIN rows : rows'[i] = rows[i]
  BY <1>1, <1>2
<1>4. Len(rows') <= MaxRows
  BY <1>1, <1>3, RowsAssumption
<1>5. Answered' = Answered
  BY <1>1, <1>3 DEF Answered
<1> DEFINE count == Cardinality(Answered)
<1>6. Pending.version' = Len(rows') + count
  BY <1>5 DEF Pending
<1> HIDE DEF count
<1>7. Pending.version' \in Nat /\ Pending.version < Pending.version'
  BY <1>1, <1>3, <1>6 DEF count
<1>8. MovedOn
  BY <1>1, <1>3, <1>7 DEF MovedOn, Answered
<1>9. /\ Len(rows) + 1 \in DOMAIN rows' /\ Len(rows) + 1 \notin DOMAIN rows
      /\ Len(rows) + 1 \in Pending.ids'
  <2>1. Len(rows) + 1 \in DOMAIN rows' /\ Len(rows) + 1 \notin DOMAIN rows
    BY <1>1, <1>3
  <2>2. Pending.ids' = DOMAIN rows' \ Answered'
    BY DEF Pending
  <2>3. QED
    BY <1>3, <2>1, <2>2 DEF Answered
<1>10. QED
  BY <1>3, <1>4, <1>5, <1>8, <1>9

LEMMA AnswerMovesOn ==
  ASSUME Typed, Woken, NEW id \in DOMAIN rows, NEW decision \in Decisions, rows[id] = "none",
         AnswerAndNotify(id, decision)
  PROVE  /\ rows' \in Seq(RowStates) /\ Len(rows') <= MaxRows /\ MovedOn
         /\ rows'[id] = decision /\ DOMAIN rows' = DOMAIN rows
         /\ Pending.ids' = Pending.ids \ {id}
         /\ wakes' \in [Ids -> Seq(Decisions)] /\ Woken'
<1>1. /\ rows \in Seq(RowStates) /\ Len(rows) \in Nat /\ DOMAIN rows = 1..Len(rows)
      /\ Len(rows) <= MaxRows /\ DOMAIN rows \subseteq Ids
      /\ Cardinality(Answered) \in Nat /\ Pending.version = Len(rows) + Cardinality(Answered)
      /\ IsFiniteSet(Answered) /\ Pending.ids = DOMAIN rows \ Answered
  BY TableTyped DEF Typed
<1>2. rows' = [rows EXCEPT ![id] = decision]
      /\ wakes' = [wakes EXCEPT ![id] = Append(@, decision)]
  BY DEF AnswerAndNotify
<1>3. decision \in RowStates /\ decision # "none"
  BY DEF RowStates, Decisions
<1>4. /\ rows' \in Seq(RowStates) /\ Len(rows') = Len(rows) /\ DOMAIN rows' = DOMAIN rows
      /\ rows'[id] = decision /\ \A i \in DOMAIN rows \ {id} : rows'[i] = rows[i]
  BY <1>1, <1>2, <1>3
<1>5. Answered' = Answered \cup {id} /\ id \notin Answered
  BY <1>3, <1>4 DEF Answered
<1>6. Cardinality(Answered') = Cardinality(Answered) + 1
  <2>1. Cardinality(Answered \cup {id}) = Cardinality(Answered) + 1
    BY <1>1, <1>5, FS_AddElement
  <2>2. QED
    BY <1>5, <2>1
<1> DEFINE count == Cardinality(Answered)
           more == Cardinality(Answered')
<1>7. Pending.version' = Len(rows') + more /\ more = count + 1 /\ count \in Nat
      /\ Pending.version = Len(rows) + count
  BY <1>1, <1>6 DEF Pending
<1> HIDE DEF count, more
<1>8. Pending.version' \in Nat /\ Pending.version < Pending.version'
  BY <1>1, <1>4, <1>7
<1>9. MovedOn
  BY <1>4, <1>5, <1>8 DEF MovedOn, Answered
<1>10. Pending.ids' = Pending.ids \ {id}
  <2>1. Pending.ids' = DOMAIN rows' \ Answered'
    BY DEF Pending
  <2>2. QED
    BY <1>1, <1>4, <1>5, <2>1
<1>11. wakes \in [Ids -> Seq(Decisions)] /\ wakes[id] = << >> /\ id \in Ids
  BY <1>1, <1>5 DEF Typed, Woken
<1>12. wakes'[id] = <<decision>> /\ (\A i \in Ids \ {id} : wakes'[i] = wakes[i])
       /\ wakes' \in [Ids -> Seq(Decisions)]
  <2>1. Append(wakes[id], decision) = <<decision>>
    BY <1>11
  <2>2. <<decision>> \in Seq(Decisions)
    OBVIOUS
  <2>3. wakes' = [wakes EXCEPT ![id] = <<decision>>]
    BY <1>2, <1>11, <2>1
  <2> DEFINE one == <<decision>>
  <2> HIDE DEF one
  <2>4. wakes' = [wakes EXCEPT ![id] = one] /\ one \in Seq(Decisions)
    BY <2>2, <2>3 DEF one
  <2>5. wakes'[id] = one /\ (\A i \in Ids \ {id} : wakes'[i] = wakes[i])
        /\ wakes' \in [Ids -> Seq(Decisions)]
    BY <1>11, <2>4
  <2>6. QED
    BY <2>5 DEF one
<1>13. Woken'
  <2>1. ASSUME NEW i \in Ids
        PROVE  wakes'[i] = IF i \in Answered' THEN <<rows'[i]>> ELSE << >>
    <3>1. CASE i = id
      BY <1>4, <1>5, <1>12, <3>1
    <3>2. CASE i # id
      <4>1. wakes'[i] = wakes[i] /\ wakes[i] = IF i \in Answered THEN <<rows[i]>> ELSE << >>
        BY <1>12, <3>2 DEF Woken
      <4>2. (i \in Answered' <=> i \in Answered) /\ (i \in Answered => rows'[i] = rows[i])
        BY <1>4, <1>5, <3>2 DEF Answered
      <4>3. QED
        BY <4>1, <4>2
    <3>3. QED
      BY <3>1, <3>2
  <2>2. QED
    BY <2>1 DEF Woken
<1>14. QED
  BY <1>1, <1>4, <1>9, <1>10, <1>12, <1>13

LEMMA StandsLater ==
  ASSUME Typed, MovedOn, NEW call \in CallRecord, Stands(call, rows, Pending)
  PROVE  Stands(call, rows', Pending')
<1> DEFINE served == call.list.version
           before == Pending.version
           after == Pending.version'
<1>1. before \in Nat /\ after \in Nat /\ before < after /\ served \in Nat
  BY TableTyped DEF MovedOn, CallRecord, List
<1>2. call.at = "served" => served = before \/ served < before
  BY DEF Stands
<1> HIDE DEF served, before, after
<1>3. call.at = "served" => served < after
  BY <1>1, <1>2
<1>4. call.at = "recorded" => rows'[call.id] = call.decision
  BY DEF Stands, MovedOn, Answered, Decisions
<1>5. QED
  BY <1>3, <1>4 DEF Stands, MovedOn, served, after

LEMMA SameTable ==
  ASSUME UNCHANGED tableVars
  PROVE  Pending' = Pending /\ Answered' = Answered /\ rows' = rows /\ wakes' = wakes
  BY DEF tableVars, Pending, Answered

-----------------------------------------------------------------------------
(* What is on its way. *)

(* One slot holds another call, and the others what they held. *)
One(s, call) ==
  /\ call \in CallRecord /\ calls' \in [Slots -> CallRecord]
  /\ calls'[s] = call /\ \A t \in Slots \ {s} : calls'[t] = calls[t]

LEMMA SetsOne ==
  ASSUME Typed, NEW s \in Slots, NEW call \in CallRecord, calls' = [calls EXCEPT ![s] = call]
  PROVE  One(s, call)
  BY DEF Typed, One

LEMMA SendsOne ==
  ASSUME Typed, NEW call \in CallRecord, Sends(call)
  PROVE  \E s \in Slots : calls[s] = NoCall /\ One(s, call)
<1> DEFINE s == CHOOSE s \in Free : TRUE
<1>1. s \in Free /\ calls' = [calls EXCEPT ![s] = call]
  BY DEF Sends
<1>2. s \in Slots /\ calls[s] = NoCall
  BY <1>1 DEF Free
<1> HIDE DEF s
<1>3. One(s, call)
  BY <1>1, <1>2, SetsOne
<1>4. QED
  BY <1>2, <1>3

(* A call that carries neither a list nor an answer claims nothing. *)
LEMMA PlainCalls ==
  ASSUME NEW kind \in {"none", "event", "boot", "refresh", "answer"},
         NEW at \in {"none", "sent", "refused"}, kind # "answer" \/ at # "sent",
         NEW table, NEW pending
  PROVE  Call(kind, at) \in CallRecord /\ Stands(Call(kind, at), table, pending)
<1>1. NoCards \in List
  BY DEF NoCards, List
<1>2. Call(kind, at) \in CallRecord
  BY <1>1 DEF Call, CallRecord, RowStates
<1>3. Stands(Call(kind, at), table, pending)
  BY DEF Stands, Call, NoCards
<1>4. QED
  BY <1>2, <1>3

LEMMA EmptySlot ==
  /\ NoCall \in CallRecord /\ NoCall.at = "none" /\ NoCall.kind = "none"
  /\ Stands(NoCall, rows, Pending) /\ Stands(NoCall, rows', Pending')
<1>1. NoCall \in CallRecord /\ Stands(NoCall, rows, Pending)
  BY PlainCalls DEF NoCall
<1>2. Stands(NoCall, rows', Pending')
  BY DEF Stands, Call, NoCall, NoCards
<1>3. QED
  BY <1>1, <1>2 DEF NoCall, Call

-----------------------------------------------------------------------------
(* What every step keeps. *)

(* The rest of the state is what it may be. *)
RestTyped ==
  /\ clients \subseteq {Tab, Elsewhere} /\ shown \in List /\ missed \in BOOLEAN
  /\ Known /\ Attended

LEMMA OneSlotKeeps ==
  ASSUME Base, UNCHANGED tableVars, RestTyped',
         NEW s \in Slots, NEW call, One(s, call), Stands(call, rows, Pending)
  PROVE  Base'
<1>1. Pending' = Pending /\ Answered' = Answered /\ rows' = rows /\ wakes' = wakes
  BY SameTable
<1>2. Typed'
  BY <1>1 DEF Base, Typed, RestTyped, One
<1>3. AllStand'
  BY <1>1 DEF Base, AllStand, One
<1>4. Woken'
  BY <1>1 DEF Base, Woken
<1>5. QED
  BY <1>2, <1>3, <1>4 DEF Base, RestTyped

LEMMA SameCallsKeep ==
  ASSUME Base, UNCHANGED tableVars, RestTyped', UNCHANGED calls
  PROVE  Base'
<1>1. Pending' = Pending /\ Answered' = Answered /\ rows' = rows /\ wakes' = wakes
  BY SameTable
<1>2. Typed'
  BY <1>1 DEF Base, Typed, RestTyped
<1>3. AllStand'
  BY <1>1 DEF Base, AllStand
<1>4. Woken'
  BY <1>1 DEF Base, Woken
<1>5. QED
  BY <1>2, <1>3, <1>4 DEF Base, RestTyped

(* The table and the calls stand; nobody else knows anything new. *)
LEMMA RestStays ==
  ASSUME Base, DOMAIN rows \subseteq DOMAIN rows', UNCHANGED <<serverVars, tabVars>>,
         missed' \in BOOLEAN
  PROVE  RestTyped'
<1>1. clients' \subseteq {Tab, Elsewhere} /\ shown' \in List
  BY DEF Base, Typed, serverVars, tabVars
<1>2. Known' /\ Attended'
  BY DEF Base, Known, Attended, serverVars, tabVars
<1>3. QED
  BY <1>1, <1>2 DEF RestTyped

(* A request is filed, or one is answered elsewhere. *)
LEMMA TableMovesKeeps ==
  ASSUME Base, MovedOn, rows' \in Seq(RowStates), Len(rows') <= MaxRows,
         wakes' \in [Ids -> Seq(Decisions)], Woken', UNCHANGED <<serverVars, tabVars>>,
         missed' \in BOOLEAN, calls' \in [Slots -> CallRecord],
         \A s \in Slots : Stands(calls'[s], rows', Pending')
  PROVE  Base'
<1>1. RestTyped'
  BY RestStays DEF MovedOn
<1>2. Typed'
  BY <1>1 DEF Typed, RestTyped
<1>3. AllStand'
  BY DEF AllStand
<1>4. QED
  BY <1>1, <1>2, <1>3 DEF Base, RestTyped

LEMMA OthersStand ==
  ASSUME Base, MovedOn, NEW s \in Slots
  PROVE  Stands(calls[s], rows', Pending')
<1>1. Typed /\ calls[s] \in CallRecord /\ Stands(calls[s], rows, Pending)
  BY DEF Base, Typed, AllStand
<1>2. QED
  BY <1>1, StandsLater

-----------------------------------------------------------------------------
(* What keeps the tab followed. *)

LEMMA NewsComes ==
  ASSUME NEW s \in Slots, BringsNews(calls'[s], Pending')
  PROVE  Followed'
  BY DEF Followed, Coming

LEMMA NoStream ==
  ASSUME Tab \notin clients'
  PROVE  Followed'
  BY DEF Followed, stream

LEMMA SameFollowed ==
  ASSUME Followed, UNCHANGED tableVars, UNCHANGED <<tabVars, calls, missed, signature>>,
         Tab \in clients' => Tab \in clients
  PROVE  Followed'
<1>1. Pending' = Pending
  BY SameTable
<1>2. shown' = shown /\ drawn' = drawn /\ calls' = calls /\ missed' = missed
      /\ signature' = signature
  BY DEF tabVars
<1>3. Coming => Coming'
  BY <1>1, <1>2 DEF Coming
<1>4. UpToDate => UpToDate'
  BY <1>1, <1>2 DEF UpToDate
<1>5. stream' => stream
  BY DEF stream
<1>6. QED
  BY <1>1, <1>2, <1>3, <1>4, <1>5 DEF Followed

(* A slot that brought nothing holds something else that is not a list. *)
LEMMA QuietFollowed ==
  ASSUME Followed, UNCHANGED tableVars, UNCHANGED <<tabVars, clients, missed, signature>>,
         NEW s \in Slots, NEW call, One(s, call), call.at # "served",
         ~BringsNews(calls[s], Pending)
  PROVE  Followed'
<1>1. Pending' = Pending
  BY SameTable
<1>2. shown' = shown /\ drawn' = drawn /\ missed' = missed /\ signature' = signature
      /\ clients' = clients
  BY DEF tabVars
<1>3. ASSUME Coming
      PROVE  Coming'
  <2>1. PICK t \in Slots : BringsNews(calls[t], Pending)
    BY <1>3 DEF Coming
  <2>2. calls'[t] = calls[t]
    BY <2>1 DEF One
  <2>3. QED
    BY <1>1, <2>1, <2>2 DEF Coming
<1>4. ASSUME UpToDate
      PROVE  UpToDate'
  <2>1. ASSUME NEW t \in Slots, calls'[t].at = "served"
        PROVE  calls'[t].list.ids = Pending.ids \/ calls'[t].list.version < shown.version
    <3>1. calls'[t] = calls[t]
      BY <2>1 DEF One
    <3>2. QED
      BY <1>4, <2>1, <3>1 DEF UpToDate
  <2>2. QED
    BY <1>1, <1>2, <1>4, <2>1 DEF UpToDate
<1>5. stream' <=> stream
  BY <1>2 DEF stream
<1>6. QED
  BY <1>1, <1>2, <1>3, <1>4, <1>5 DEF Followed

-----------------------------------------------------------------------------
(* The table's steps. *)

LEMMA FileKeeps ==
  ASSUME IInv, File
  PROVE  IInv'
<1>1. Base /\ Typed /\ Known
  BY DEF IInv, Base
<1>2. /\ rows' \in Seq(RowStates) /\ Len(rows') <= MaxRows /\ MovedOn /\ Answered' = Answered
      /\ \E new \in DOMAIN rows' : new \notin DOMAIN rows /\ new \in Pending.ids'
  BY <1>1, FileMovesOn DEF File
<1>3. wakes' = wakes /\ calls' = calls /\ missed' = missed /\ UNCHANGED <<serverVars, tabVars>>
  BY DEF File
<1>4. wakes' \in [Ids -> Seq(Decisions)] /\ missed' \in BOOLEAN /\ calls' \in [Slots -> CallRecord]
  BY <1>1, <1>3 DEF Typed
<1>5. Woken'
  BY <1>1, <1>2, <1>3 DEF Base, Woken, MovedOn
<1>6. \A s \in Slots : Stands(calls'[s], rows', Pending')
  BY <1>1, <1>2, <1>3, OthersStand
<1>7. Base'
  BY <1>1, <1>2, <1>3, <1>4, <1>5, <1>6, TableMovesKeeps
<1>8. signature' # Pending.ids'
  BY <1>1, <1>2, <1>3 DEF Known, serverVars
<1>9. QED
  BY <1>7, <1>8 DEF IInv, Followed

LEMMA AnswerElsewhereKeeps ==
  ASSUME IInv, NEW id \in Ids, NEW decision \in Decisions, AnswerElsewhere(id, decision)
  PROVE  IInv'
<1>1. Base /\ Typed /\ Woken
  BY DEF IInv, Base
<1>2. /\ id \in DOMAIN rows /\ rows[id] = "none" /\ AnswerAndNotify(id, decision)
      /\ missed' = (missed \/ Unannounced(id))
      /\ calls' = calls /\ UNCHANGED <<serverVars, tabVars>>
  BY DEF AnswerElsewhere, Answerable
<1>3. /\ rows' \in Seq(RowStates) /\ Len(rows') <= MaxRows /\ MovedOn
      /\ Pending.ids' = Pending.ids \ {id}
      /\ wakes' \in [Ids -> Seq(Decisions)] /\ Woken'
  BY <1>1, <1>2, AnswerMovesOn
<1>4. missed' \in BOOLEAN /\ calls' \in [Slots -> CallRecord]
  BY <1>1, <1>2 DEF Typed, Unannounced
<1>5. \A s \in Slots : Stands(calls'[s], rows', Pending')
  BY <1>1, <1>2, <1>3, OthersStand
<1>6. Base'
  BY <1>1, <1>2, <1>3, <1>4, <1>5, TableMovesKeeps
<1>7. ~missed' => signature' # Pending.ids'
  BY <1>2, <1>3 DEF Unannounced, serverVars
<1>8. QED
  BY <1>6, <1>7 DEF IInv, Followed

LEMMA ServeAnswerKeeps ==
  ASSUME IInv, NEW s \in Slots, ServeAnswer(s)
  PROVE  IInv'
<1> DEFINE id == calls[s].id
           decision == calls[s].decision
<1>1. Base /\ Typed /\ Woken /\ Followed
  BY DEF IInv, Base
<1>2. /\ calls[s].at = "sent" /\ calls[s].kind = "answer" /\ missed' = missed
      /\ UNCHANGED <<serverVars, tabVars>>
  BY DEF ServeAnswer
<1>3. /\ Stands(calls[s], rows, Pending) /\ calls[s] \in CallRecord
      /\ id \in DOMAIN rows /\ decision \in Decisions
  BY <1>1, <1>2 DEF Base, AllStand, Stands, Typed
<1>4. CASE Answerable(id, decision)
  <2> DEFINE call == [calls[s] EXCEPT !.at = "recorded"]
  <2>1. AnswerAndNotify(id, decision) /\ rows[id] = "none"
        /\ calls' = [calls EXCEPT ![s] = call]
    BY <1>4 DEF ServeAnswer, Goes, Answerable
  <2>2. /\ rows' \in Seq(RowStates) /\ Len(rows') <= MaxRows /\ MovedOn
        /\ rows'[id] = decision /\ DOMAIN rows' = DOMAIN rows
        /\ wakes' \in [Ids -> Seq(Decisions)] /\ Woken'
    <3> HIDE DEF id, decision
    <3>1. QED
      BY <1>1, <1>3, <2>1, AnswerMovesOn
  <2>3. call \in CallRecord /\ call.at = "recorded" /\ call.id = id /\ call.decision = decision
        /\ call.list = calls[s].list
    BY <1>3 DEF CallRecord
  <2>4. Stands(call, rows', Pending')
    <3> HIDE DEF call
    <3>1. call.list.ids \subseteq DOMAIN rows'
      BY <1>3, <2>2, <2>3 DEF Stands
    <3>2. QED
      BY <1>3, <2>2, <2>3, <3>1 DEF Stands
  <2> HIDE DEF call
  <2>5. One(s, call)
    BY <1>1, <2>1, <2>3, SetsOne
  <2>6. \A t \in Slots : Stands(calls'[t], rows', Pending')
    <3>1. \A t \in Slots : Stands(calls[t], rows', Pending')
      BY <1>1, <2>2, OthersStand
    <3>2. QED
      BY <2>4, <2>5, <3>1 DEF One
  <2>7. missed' \in BOOLEAN /\ calls' \in [Slots -> CallRecord]
    BY <1>1, <1>2, <2>5 DEF Typed, One
  <2>8. Base'
    BY <1>1, <1>2, <2>2, <2>6, <2>7, TableMovesKeeps
  <2>9. Followed'
    <3>1. BringsNews(calls'[s], Pending')
      BY <2>3, <2>5 DEF BringsNews, One
    <3>2. QED
      BY <3>1, NewsComes
  <2>10. QED
    BY <2>8, <2>9 DEF IInv
<1>5. CASE ~Answerable(id, decision)
  <2> DEFINE call == Call("answer", "refused")
  <2>1. UNCHANGED tableVars /\ calls' = [calls EXCEPT ![s] = call]
    BY <1>5 DEF ServeAnswer
  <2>2. call \in CallRecord /\ Stands(call, rows, Pending)
    BY PlainCalls
  <2>3. call.at = "refused"
    BY DEF Call
  <2> HIDE DEF call
  <2>4. One(s, call)
    BY <1>1, <2>1, <2>2, SetsOne
  <2>5. RestTyped'
    <3>1. DOMAIN rows \subseteq DOMAIN rows' /\ missed' \in BOOLEAN
      BY <1>1, <1>2, <2>1 DEF tableVars, Typed
    <3>2. QED
      BY <1>1, <1>2, <3>1, RestStays
  <2>6. Base'
    BY <1>1, <2>1, <2>2, <2>4, <2>5, OneSlotKeeps
  <2>7. ~BringsNews(calls[s], Pending)
    BY <1>2 DEF BringsNews
  <2>8. UNCHANGED <<tabVars, clients, missed, signature>>
    BY <1>2 DEF serverVars
  <2>9. Followed'
    BY <1>1, <2>1, <2>3, <2>4, <2>7, <2>8, QuietFollowed
  <2>10. QED
    BY <2>6, <2>9 DEF IInv
<1>6. QED
  BY <1>4, <1>5

-----------------------------------------------------------------------------
(* A slot that brings news, whatever else changes that may. *)

LEMMA NewsKeeps ==
  ASSUME IInv, UNCHANGED tableVars, RestTyped', NEW s \in Slots, NEW call, One(s, call),
         Stands(call, rows, Pending), BringsNews(call, Pending)
  PROVE  IInv'
<1>1. Base'
  BY OneSlotKeeps DEF IInv
<1>2. BringsNews(calls'[s], Pending')
  BY SameTable DEF One
<1>3. Followed'
  BY <1>2, NewsComes
<1>4. QED
  BY <1>1, <1>3 DEF IInv

(* A request for the list is sent. *)
LEMMA AskingKeeps ==
  ASSUME IInv, UNCHANGED tableVars, RestTyped',
         NEW kind \in {"event", "boot", "refresh"}, Sends(Call(kind, "sent"))
  PROVE  IInv'
<1> DEFINE call == Call(kind, "sent")
<1>1. call \in CallRecord /\ Stands(call, rows, Pending)
  BY PlainCalls
<1>2. BringsNews(call, Pending)
  BY DEF BringsNews, Call
<1>3. Typed
  BY DEF IInv, Base
<1>4. Sends(call)
  OBVIOUS
<1> HIDE DEF call
<1>5. PICK s \in Slots : One(s, call)
  BY <1>1, <1>3, <1>4, SendsOne
<1>6. QED
  BY <1>1, <1>2, <1>5, NewsKeeps

LEMMA ServeFetchKeeps ==
  ASSUME IInv, NEW s \in Slots, ServeFetch(s)
  PROVE  IInv'
<1> DEFINE call == [calls[s] EXCEPT !.at = "served", !.list = Pending]
<1>1. /\ calls[s].at = "sent" /\ calls[s].kind # "answer" /\ missed' = missed
      /\ calls' = [calls EXCEPT ![s] = call] /\ UNCHANGED <<tableVars, serverVars, tabVars>>
  BY DEF ServeFetch
<1>2. Base /\ Typed /\ calls[s] \in CallRecord /\ Pending \in List
      /\ Pending.ids \subseteq DOMAIN rows
  BY TableTyped DEF IInv, Base, Typed
<1>3. /\ call \in CallRecord /\ call.at = "served" /\ call.list = Pending
      /\ call.kind = calls[s].kind
  BY <1>2 DEF CallRecord
<1> HIDE DEF call
<1>4. One(s, call)
  BY <1>1, <1>2, <1>3, SetsOne
<1>5. Stands(call, rows, Pending) /\ BringsNews(call, Pending)
  BY <1>1, <1>2, <1>3 DEF Stands, BringsNews
<1>6. RestTyped'
  <2>1. DOMAIN rows \subseteq DOMAIN rows' /\ missed' \in BOOLEAN
    BY <1>1, <1>2 DEF tableVars, Typed
  <2>2. QED
    BY <1>1, <1>2, <2>1, RestStays
<1>7. QED
  BY <1>1, <1>4, <1>5, <1>6, NewsKeeps

LEMMA HearOutcomeKeeps ==
  ASSUME IInv, NEW s \in Slots, HearOutcome(s)
  PROVE  IInv'
<1> DEFINE call == Call("refresh", "sent")
<1>1. /\ calls' = [calls EXCEPT ![s] = call] /\ missed' = missed
      /\ UNCHANGED <<tableVars, serverVars, tabVars>>
  BY DEF HearOutcome
<1>2. call \in CallRecord /\ Stands(call, rows, Pending) /\ BringsNews(call, Pending)
  BY PlainCalls DEF BringsNews, Call
<1>3. Base /\ Typed
  BY DEF IInv, Base
<1> HIDE DEF call
<1>4. One(s, call)
  BY <1>1, <1>2, <1>3, SetsOne
<1>5. RestTyped'
  <2>1. DOMAIN rows \subseteq DOMAIN rows' /\ missed' \in BOOLEAN
    BY <1>1, <1>3 DEF tableVars, Typed
  <2>2. QED
    BY <1>1, <1>3, <2>1, RestStays
<1>6. QED
  BY <1>1, <1>2, <1>4, <1>5, NewsKeeps

LEMMA TickKeeps ==
  ASSUME IInv, Tick
  PROVE  IInv'
<1>1. Base /\ Typed /\ Known /\ Attended
  BY DEF IInv, Base
<1>2. /\ UNCHANGED tableVars /\ up' = up /\ clients' = clients /\ missed' = missed
      /\ UNCHANGED tabVars /\ signature' = Pending.ids
  BY DEF Tick, Announces, ApprovalsSignature
<1>3. signature' \subseteq DOMAIN rows /\ rows' = rows
  BY <1>1, <1>2, TableTyped DEF tableVars
<1>4. RestTyped'
  BY <1>1, <1>2, <1>3 DEF RestTyped, Typed, Known, Attended, tabVars
<1>5. CASE stream
  <2>1. Sends(Call("event", "sent"))
    BY <1>5 DEF Tick, Announces
  <2>2. QED
    BY <1>2, <1>4, <2>1, AskingKeeps
<1>6. CASE ~stream
  <2>1. calls' = calls
    BY <1>6 DEF Tick, Announces
  <2>2. Base'
    BY <1>1, <1>2, <1>4, <2>1, SameCallsKeep
  <2>3. Followed'
    BY <1>2, <1>6, NoStream DEF stream
  <2>4. QED
    BY <2>2, <2>3 DEF IInv
<1>7. QED
  BY <1>5, <1>6

LEMMA BootKeeps ==
  ASSUME IInv, Boot
  PROVE  IInv'
<1>1. Base /\ Typed /\ Known /\ Attended
  BY DEF IInv, Base
<1>2. /\ Sends(Call("boot", "sent")) /\ UNCHANGED tableVars /\ UNCHANGED serverVars
      /\ shown' = shown /\ drawn' = drawn /\ missed' = missed
  BY DEF Boot
<1>3. RestTyped'
  BY <1>1, <1>2 DEF RestTyped, Typed, Known, Attended, tableVars, serverVars
<1>4. QED
  BY <1>2, <1>3, AskingKeeps

LEMMA RefreshKeeps ==
  ASSUME IInv, Refresh
  PROVE  IInv'
<1>1. Base /\ Typed /\ Known /\ Attended
  BY DEF IInv, Base
<1>2. /\ Sends(Call("refresh", "sent")) /\ UNCHANGED tableVars /\ UNCHANGED serverVars
      /\ UNCHANGED tabVars /\ missed' = missed
  BY DEF Refresh
<1>3. RestTyped'
  BY <1>1, <1>2 DEF RestTyped, Typed, Known, Attended, tableVars, serverVars, tabVars
<1>4. QED
  BY <1>2, <1>3, AskingKeeps

-----------------------------------------------------------------------------
(* Steps that bring no news. *)

LEMMA ClickKeeps ==
  ASSUME IInv, NEW id \in Ids, NEW decision \in Decisions, Click(id, decision)
  PROVE  IInv'
<1> DEFINE call == [Call("answer", "sent") EXCEPT !.id = id, !.decision = decision]
<1>1. Base /\ Typed /\ Known /\ Followed
  BY DEF IInv, Base
<1>2. /\ id \in drawn /\ Sends(call) /\ UNCHANGED tableVars /\ missed' = missed
      /\ UNCHANGED <<serverVars, tabVars>>
  BY DEF Click
<1>3. NoCards \in List
  BY DEF NoCards, List
<1>4. /\ call \in CallRecord /\ call.at = "sent" /\ call.kind = "answer" /\ call.id = id
      /\ call.decision = decision /\ call.list.ids = {}
  BY <1>3 DEF Call, CallRecord, RowStates, NoCards
<1> HIDE DEF call
<1>5. Stands(call, rows, Pending)
  BY <1>1, <1>2, <1>4 DEF Stands, Known
<1>6. PICK s \in Slots : calls[s] = NoCall /\ One(s, call)
  BY <1>1, <1>2, <1>4, SendsOne
<1>7. ~BringsNews(calls[s], Pending)
  BY <1>6, EmptySlot DEF BringsNews
<1>8. RestTyped'
  <2>1. DOMAIN rows \subseteq DOMAIN rows' /\ missed' \in BOOLEAN
    BY <1>1, <1>2 DEF tableVars, Typed
  <2>2. QED
    BY <1>1, <1>2, <2>1, RestStays
<1>9. Base'
  BY <1>1, <1>2, <1>5, <1>6, <1>8, OneSlotKeeps
<1>10. UNCHANGED <<tabVars, clients, missed, signature>> /\ call.at # "served"
  BY <1>2, <1>4 DEF serverVars
<1>11. Followed'
  BY <1>1, <1>2, <1>6, <1>7, <1>10, QuietFollowed
<1>12. QED
  BY <1>9, <1>11 DEF IInv

(* Connections come and go, and the server. *)
LEMMA ServerStepsKeep ==
  ASSUME IInv, Leave \/ IdleShutdown \/ Interrupt \/ Start \/ Break \/ Connect(Elsewhere)
  PROVE  IInv'
<1>1. Base /\ Typed /\ Known /\ Attended /\ Followed
  BY DEF IInv, Base
<1>2. UNCHANGED tableVars /\ UNCHANGED calls /\ shown' = shown /\ drawn' = drawn
  BY DEF Leave, IdleShutdown, Interrupt, Start, Break, Connect, Exits, tabVars
<1>3. missed' = missed
  BY <1>1, TabsAssumption
     DEF Leave, IdleShutdown, Interrupt, Start, Break, Connect, Joins, Exits, Typed
<1>4. /\ clients' \subseteq {Tab, Elsewhere} /\ Attended'
      /\ Tab \in clients' => Tab \in clients /\ signature' = signature /\ up' = up
  <2>1. CASE Leave
    BY <1>1, <2>1 DEF Leave, Typed, Attended
  <2>2. CASE IdleShutdown \/ Interrupt
    BY <2>2 DEF IdleShutdown, Interrupt, Exits, Attended
  <2>3. CASE Start
    BY <1>1, <2>3 DEF Start, Attended, Typed
  <2>4. CASE Break
    BY <1>1, <2>4, TabsAssumption DEF Break, LeavesBehind, stream, Attended, Typed
  <2>5. CASE Connect(Elsewhere)
    BY <1>1, <2>5, TabsAssumption DEF Connect, Joins, Attended, Typed
  <2>6. QED
    BY <2>1, <2>2, <2>3, <2>4, <2>5
<1>5. signature' \subseteq DOMAIN rows
  <2>1. signature' = signature \/ signature' = {} \/ signature' = Pending.ids
    BY DEF Leave, IdleShutdown, Interrupt, Start, Break, Connect, Exits, ApprovalsSignature
  <2>2. Pending.ids \subseteq DOMAIN rows
    BY <1>1, TableTyped
  <2>3. QED
    BY <1>1, <2>1, <2>2 DEF Known
<1>6. RestTyped'
  BY <1>1, <1>2, <1>3, <1>4, <1>5 DEF RestTyped, Typed, Known, tableVars
<1>7. Base'
  BY <1>1, <1>2, <1>6, SameCallsKeep
<1>8. CASE Tab \in clients'
  <2>1. UNCHANGED <<shown, drawn, calls, missed, signature>> /\ Tab \in clients
    BY <1>2, <1>3, <1>4, <1>8
  <2>2. phase' = phase
    BY DEF Leave, IdleShutdown, Interrupt, Start, Break, Connect, Exits, tabVars
  <2>3. UNCHANGED <<tabVars, calls, missed, signature>>
    BY <2>1, <2>2 DEF tabVars
  <2>4. Followed'
    BY <1>1, <1>2, <2>1, <2>3, SameFollowed
  <2>5. QED
    BY <1>7, <2>4 DEF IInv
<1>9. CASE Tab \notin clients'
  BY <1>7, <1>9, NoStream DEF IInv
<1>10. QED
  BY <1>8, <1>9

(* A tab that connects without having missed anything draws what the poll  *)
(* last announced, and nothing else is served to it.                       *)
LEMMA ConnectTabKeeps ==
  ASSUME IInv, Connect(Tab)
  PROVE  IInv'
<1>1. Base /\ Typed /\ Known /\ Attended
  BY DEF IInv, Base
<1>2. /\ UNCHANGED tableVars /\ UNCHANGED calls /\ shown' = shown /\ drawn' = drawn
      /\ signature' = signature /\ up /\ up' = up /\ clients' = clients \cup {Tab}
      /\ missed' = (missed \/ Behind)
  BY DEF Connect, Joins
<1>3. missed' \in BOOLEAN
  BY <1>1, <1>2 DEF Typed, Behind
<1>4. RestTyped'
  BY <1>1, <1>2, <1>3 DEF RestTyped, Typed, Known, Attended, tableVars
<1>5. Base'
  BY <1>1, <1>2, <1>4, SameCallsKeep
<1>6. ASSUME ~missed', signature' = Pending.ids'
      PROVE  UpToDate'
  <2>1. Pending' = Pending /\ ~Behind /\ signature = Pending.ids
    BY <1>2, <1>6, SameTable
  <2>2. drawn = Pending.ids /\ shown.ids = Pending.ids
    BY <2>1 DEF Behind
  <2>3. ASSUME NEW t \in Slots, calls[t].at = "served"
        PROVE  calls[t].list.ids = Pending.ids
    <3>1. t \in Taken
      BY <2>3, EmptySlot DEF Taken, Free
    <3>2. QED
      BY <2>1, <2>3, <3>1 DEF Behind
  <2>4. QED
    BY <1>2, <2>1, <2>2, <2>3 DEF UpToDate
<1>7. Followed'
  BY <1>6 DEF Followed
<1>8. QED
  BY <1>5, <1>7 DEF IInv

LEMMA CloseKeeps ==
  ASSUME IInv, Close
  PROVE  IInv'
<1>1. Base /\ Typed /\ Known /\ Attended
  BY DEF IInv, Base
<1>2. /\ UNCHANGED tableVars /\ up' = up /\ signature' = signature /\ LeavesBehind
      /\ shown' = NoCards /\ drawn' = {} /\ calls' = [s \in Slots |-> NoCall] /\ missed' = FALSE
  BY DEF Close
<1>3. clients' \subseteq {Tab, Elsewhere} /\ Tab \notin clients' /\ Attended'
  BY <1>1, <1>2, TabsAssumption DEF LeavesBehind, stream, Typed, Attended
<1>4. NoCards \in List /\ NoCards.ids = {}
  BY DEF NoCards, List
<1>5. RestTyped'
  BY <1>1, <1>2, <1>3, <1>4 DEF RestTyped, Known, tableVars
<1>6. Pending' = Pending /\ Answered' = Answered /\ rows' = rows /\ wakes' = wakes
  BY <1>2, SameTable
<1>7. calls' \in [Slots -> CallRecord] /\ AllStand'
  BY <1>2, <1>6, EmptySlot DEF AllStand
<1>8. Typed' /\ Woken'
  BY <1>1, <1>5, <1>6, <1>7 DEF Typed, Base, Woken, RestTyped
<1>9. Followed'
  BY <1>3, NoStream
<1>10. QED
  BY <1>5, <1>7, <1>8, <1>9 DEF IInv, Base, RestTyped

-----------------------------------------------------------------------------
(* A response, or what comes instead of one. *)

LEMMA EndsOne ==
  ASSUME Base, NEW s \in Slots, Ends(s)
  PROVE  One(s, NoCall) /\ Stands(NoCall, rows, Pending)
<1>1. calls' = [calls EXCEPT ![s] = NoCall] /\ Typed
  BY DEF Ends, Base
<1>2. QED
  BY <1>1, EmptySlot, SetsOne

LEMMA FailsKeeps ==
  ASSUME IInv, NEW s \in Slots, FetchFails(s) \/ RefreshFails(s)
  PROVE  IInv'
<1>1. Base /\ Typed /\ Known /\ Attended /\ calls[s] \in CallRecord
      /\ Stands(calls[s], rows, Pending)
  BY DEF IInv, Base, Typed, AllStand
<1>2. /\ UNCHANGED tableVars /\ UNCHANGED serverVars /\ Ends(s) /\ missed' = TRUE
      /\ drawn' = drawn \/ drawn' = shown.ids
      /\ shown' = shown \/ shown' = calls[s].list
  BY DEF FetchFails, RefreshFails, GoesOn
<1>3. calls[s].list \in List /\ calls[s].list.ids \subseteq DOMAIN rows
  BY <1>1 DEF CallRecord, Stands
<1>4. RestTyped'
  BY <1>1, <1>2, <1>3 DEF RestTyped, Typed, Known, Attended, tableVars, serverVars
<1>5. Base'
  BY <1>1, <1>2, <1>4, EndsOne, OneSlotKeeps
<1>6. QED
  BY <1>2, <1>5 DEF IInv, Followed

LEMMA LandKeeps ==
  ASSUME IInv, NEW s \in Slots, Land(s)
  PROVE  IInv'
<1> DEFINE list == calls[s].list
<1>1. Base /\ Typed /\ Known /\ Attended /\ Followed /\ calls[s] \in CallRecord
      /\ Stands(calls[s], rows, Pending)
  BY DEF IInv, Base, Typed, AllStand
<1>2. /\ UNCHANGED tableVars /\ UNCHANGED serverVars /\ Ends(s) /\ calls[s].at = "served"
      /\ shown' = list /\ drawn' = list.ids
      /\ missed' = (list.version < shown.version \/ (missed /\ list # Pending))
  BY DEF Land, GoesOn
<1>3. list \in List /\ list.ids \subseteq DOMAIN rows
  BY <1>1 DEF CallRecord, Stands
<1>4. RestTyped'
  <2>1. missed' \in BOOLEAN
    BY <1>1, <1>2 DEF Typed
  <2>2. QED
    BY <1>1, <1>2, <1>3, <2>1 DEF RestTyped, Typed, Known, Attended, tableVars, serverVars
<1>5. Base'
  BY <1>1, <1>2, <1>4, EndsOne, OneSlotKeeps
<1>6. /\ Pending' = Pending /\ signature' = signature /\ (stream' <=> stream)
      /\ \A t \in Slots \ {s} : calls'[t] = calls[t]
      /\ calls'[s].at = "none"
  BY <1>1, <1>2, SameTable, EndsOne, EmptySlot DEF serverVars, stream, One
<1>7. ASSUME stream, ~missed', signature = Pending.ids
      PROVE  Coming' \/ UpToDate'
  <2>1. ~(list.version < shown.version) /\ (list = Pending \/ ~missed)
    BY <1>2, <1>7
  <2>2. CASE list = Pending
    <3>1. ASSUME NEW t \in Slots, calls'[t].at = "served"
          PROVE  calls'[t].list.ids = Pending.ids \/ calls'[t].list.version < list.version
      <4>1. t # s /\ calls'[t] = calls[t]
        BY <1>6, <3>1
      <4>2. Stands(calls[t], rows, Pending)
        BY <1>1, <3>1 DEF Base, AllStand
      <4>3. QED
        BY <2>2, <3>1, <4>1, <4>2 DEF Stands
    <3>2. QED
      BY <1>2, <1>6, <2>2, <3>1 DEF UpToDate
  <2>3. CASE list # Pending
    <3>1. Coming \/ UpToDate
      BY <1>1, <1>7, <2>1, <2>3 DEF Followed
    <3>2. ASSUME Coming
          PROVE  Coming'
      <4>1. PICK t \in Slots : BringsNews(calls[t], Pending)
        BY <3>2 DEF Coming
      <4>2. t # s
        BY <1>2, <2>3, <4>1 DEF BringsNews
      <4>3. QED
        BY <1>6, <4>1, <4>2 DEF Coming
    <3>3. ASSUME UpToDate
          PROVE  UpToDate'
      <4>1. list.ids = Pending.ids
        BY <1>2, <2>1, <3>3 DEF UpToDate
      <4>2. ASSUME NEW t \in Slots, calls'[t].at = "served"
            PROVE  calls'[t].list.ids = Pending.ids \/ calls'[t].list.version < list.version
        <5>1. t # s /\ calls'[t] = calls[t]
          BY <1>6, <4>2
        <5>2. calls[t].list.ids = Pending.ids \/ calls[t].list.version < shown.version
          BY <3>3, <4>2, <5>1 DEF UpToDate
        <5> DEFINE theirs == calls[t].list.version
                   mine == shown.version
                   landed == list.version
        <5>3. theirs \in Nat /\ mine \in Nat /\ landed \in Nat /\ ~(landed < mine)
          BY <1>1, <1>3, <2>1 DEF Typed, CallRecord, List
        <5> HIDE DEF theirs, mine, landed
        <5>4. theirs < mine => theirs < landed
          BY <5>3
        <5>5. QED
          BY <5>1, <5>2, <5>4 DEF theirs, mine, landed
      <4>3. QED
        BY <1>2, <1>6, <4>1, <4>2 DEF UpToDate
    <3>4. QED
      BY <3>1, <3>2, <3>3
  <2>4. QED
    BY <2>2, <2>3
<1>8. Followed'
  BY <1>6, <1>7 DEF Followed
<1>9. QED
  BY <1>5, <1>8 DEF IInv

-----------------------------------------------------------------------------

LEMMA StutterKeeps ==
  ASSUME IInv, UNCHANGED vars
  PROVE  IInv'
<1>1. Base /\ Typed /\ Known /\ Attended /\ Followed
  BY DEF IInv, Base
<1>2. UNCHANGED tableVars /\ UNCHANGED <<serverVars, tabVars>> /\ UNCHANGED <<calls, missed>>
  BY DEF vars, tableVars, serverVars, tabVars
<1>3. RestTyped'
  <2>1. DOMAIN rows \subseteq DOMAIN rows' /\ missed' \in BOOLEAN
    BY <1>1, <1>2 DEF tableVars, Typed
  <2>2. QED
    BY <1>1, <1>2, <2>1, RestStays
<1>4. Base'
  BY <1>1, <1>2, <1>3, SameCallsKeep
<1>5. Followed'
  <2>1. UNCHANGED <<tabVars, calls, missed, signature>> /\ clients' = clients
    BY <1>2 DEF serverVars
  <2>2. QED
    BY <1>1, <1>2, <2>1, SameFollowed
<1>6. QED
  BY <1>4, <1>5 DEF IInv

LEMMA Starts == Init => IInv
<1> SUFFICES ASSUME Init PROVE IInv
  OBVIOUS
<1>1. /\ rows = << >> /\ wakes = [i \in Ids |-> << >>] /\ signature = {} /\ clients = {}
      /\ shown = NoCards /\ drawn = {} /\ calls = [s \in Slots |-> NoCall] /\ missed = FALSE
  BY DEF Init
<1>2. rows \in Seq(RowStates) /\ Len(rows) = 0 /\ DOMAIN rows = {}
  BY <1>1
<1>3. Len(rows) <= MaxRows
  BY <1>2, RowsAssumption
<1>4. NoCards \in List /\ NoCards.ids = {}
  BY DEF NoCards, List
<1>5. wakes \in [Ids -> Seq(Decisions)]
  BY <1>1
<1>6. Typed
  BY <1>1, <1>2, <1>3, <1>4, <1>5, EmptySlot DEF Typed
<1>7. Known /\ Attended
  BY <1>1, <1>4 DEF Known, Attended
<1>8. AllStand
  BY <1>1, EmptySlot DEF AllStand
<1>9. Woken
  BY <1>1, <1>2 DEF Woken, Answered
<1>10. Followed
  BY <1>1 DEF Followed, stream
<1>11. QED
  BY <1>6, <1>7, <1>8, <1>9, <1>10 DEF IInv, Base

LEMMA Keeps == IInv /\ [Next]_vars => IInv'
<1> SUFFICES ASSUME IInv, [Next]_vars PROVE IInv'
  OBVIOUS
<1>1. CASE File \/ Tick
  BY <1>1, FileKeeps, TickKeeps
<1>2. CASE Leave \/ IdleShutdown \/ Interrupt \/ Start \/ Break
  BY <1>2, ServerStepsKeep
<1>3. CASE \E c \in {Tab, Elsewhere} : Connect(c)
  BY <1>3, ConnectTabKeeps, ServerStepsKeep
<1>4. CASE Boot \/ Close \/ Refresh
  BY <1>4, BootKeeps, CloseKeeps, RefreshKeeps
<1>5. CASE \E id \in Ids, decision \in Decisions :
             Click(id, decision) \/ AnswerElsewhere(id, decision)
  BY <1>5, ClickKeeps, AnswerElsewhereKeeps
<1>6. CASE \E s \in Slots : ServeFetch(s) \/ Land(s) \/ FetchFails(s)
                              \/ RefreshFails(s) \/ ServeAnswer(s) \/ HearOutcome(s)
  BY <1>6, ServeFetchKeeps, LandKeeps, FailsKeeps, ServeAnswerKeeps, HearOutcomeKeeps
<1>7. CASE UNCHANGED vars
  BY <1>7, StutterKeeps
<1>8. QED
  BY <1>1, <1>2, <1>3, <1>4, <1>5, <1>6, <1>7 DEF Next

LEMMA Inductive == Spec => []IInv
  BY Starts, Keeps, PTL DEF Spec

(* ToldIsTrue: whatever tabs and clicks there are, a decision that is about*)
(* to be reported as recorded is the row's, and its supervisor was woken   *)
(* once, with it (answerAndNotify, handleAnswerApproval).                  *)
THEOREM WhatIsToldStands == Spec => []ToldIsTrue
<1>1. IInv => ToldIsTrue
  <2> SUFFICES ASSUME IInv PROVE ToldIsTrue
    OBVIOUS
  <2>1. \A s \in Taken : calls[s].at = "recorded" => rows[calls[s].id] = calls[s].decision
    BY DEF IInv, Base, AllStand, Stands, Taken
  <2>2. \A i \in DOMAIN rows : wakes[i] = IF i \in Answered THEN <<rows[i]>> ELSE << >>
    BY TableTyped DEF IInv, Base, Woken
  <2>3. QED
    BY <2>1, <2>2 DEF ToldIsTrue
<1>2. QED
  BY <1>1, Inductive, PTL

(* StaleIsExcused: the cards of a connected tab are what is pending, or the*)
(* poll has it to announce, or it is on its way, or the tab missed it in   *)
(* one of the ways the code leaves open (the poll in runWeb,               *)
(* fetchApprovals, refresh).                                               *)
THEOREM StaleOnlyIfExcused == Spec => []StaleIsExcused
<1>1. IInv => StaleIsExcused
  <2> SUFFICES ASSUME IInv, stream, ~missed, drawn # Pending.ids, signature = Pending.ids
               PROVE  OnTheWay
    BY DEF StaleIsExcused, ApprovalsSignature
  <2>1. PICK s \in Slots : BringsNews(calls[s], Pending)
    BY DEF IInv, Followed, UpToDate, Coming
  <2>2. s \in Taken
    BY <2>1, EmptySlot DEF Taken, Free, BringsNews
  <2>3. QED
    BY <2>1, <2>2 DEF OnTheWay, BringsNews
<1>2. QED
  BY <1>1, Inductive, PTL

-----------------------------------------------------------------------------
(* WebComposer, for any names, commands and files.                         *)
(*                                                                         *)
(* That an open list is over what the composer holds, or excused, is       *)
(* inductive as it stands.  That no line is lost needs the draft to be     *)
(* empty while no line of the ring is recalled.                            *)

LEMMA ListOverIs ==
  ASSUME NEW v
  PROVE  ListOver(v) = NoList \/ ListOver(v).over = v
  BY DEF ListOver

LEMMA EntersKeepsList ==
  ASSUME NEW v, Enters(v)
  PROVE  ListIsOverTheText'
<1>1. CASE v.form = "path"
  <2> DEFINE q == [seq |-> hintSeq + 1, over |-> v]
  <2>1. q \in asked' /\ q.seq = hintSeq' /\ q.over = value'
    BY <1>1 DEF Enters, UpdateSuggest
  <2>2. QED
    BY <2>1 DEF ListIsOverTheText
<1>2. CASE v.form # "path"
  <2>1. suggest' = ListOver(v) /\ value' = v
    BY <1>2 DEF Enters, UpdateSuggest
  <2>2. suggest' # NoList => suggest'.over = value'
    BY <2>1, ListOverIs
  <2>3. QED
    BY <2>2 DEF ListIsOverTheText, Open
<1>3. QED
  BY <1>1, <1>2

LEMMA AcceptKeepsList ==
  ASSUME NEW i, Accept(i)
  PROVE  ListIsOverTheText'
<1> DEFINE v == Inserted(suggest.over, suggest.names[i])
<1>1. value' = v /\ (suggest' = NoList \/ suggest' = ListOver(v))
  BY DEF Accept
<1> HIDE DEF v
<1>2. suggest' # NoList => suggest'.over = value'
  BY <1>1, ListOverIs
<1>3. QED
  BY <1>2 DEF ListIsOverTheText, Open

LEMMA HintsKeepList ==
  ASSUME ListIsOverTheText, NEW q \in asked, HintsArrive(q)
  PROVE  ListIsOverTheText'
<1>1. asked' = asked \ {q} /\ value' = value /\ hintSeq' = hintSeq
  BY DEF HintsArrive
<1>2. CASE Lands(q)
  <2>1. suggest' = NoList \/ suggest' = ListOver(value)
    BY <1>2 DEF HintsArrive, Lands
  <2>2. suggest' # NoList => suggest'.over = value'
    BY <1>1, <2>1, ListOverIs
  <2>3. QED
    BY <2>2 DEF ListIsOverTheText, Open
<1>3. CASE ~Lands(q)
  <2>1. suggest' = suggest
    BY <1>3 DEF HintsArrive
  <2>2. ASSUME NEW p \in asked, p.seq = hintSeq, p.over = value
        PROVE  p \in asked'
    BY <1>1, <1>3, <2>2 DEF Lands
  <2>3. QED
    BY <1>1, <2>1, <2>2 DEF ListIsOverTheText, Open
<1>4. QED
  BY <1>2, <1>3

LEMMA ListStands ==
  ASSUME ListIsOverTheText, [ComposerNext]_composerVars
  PROVE  ListIsOverTheText'
<1>1. ASSUME suggest' = NoList
      PROVE  ListIsOverTheText'
  BY <1>1 DEF ListIsOverTheText, Open
<1>2. CASE (\E v \in Typable : Type(v)) \/ (\E c \in Takes : Prefill(c))
  <2>1. PICK v : Enters(v)
    BY <1>2 DEF Type, Prefill
  <2>2. QED
    BY <2>1, EntersKeepsList
<1>3. CASE \E q \in asked : HintsArrive(q)
  BY <1>3, HintsKeepList
<1>4. CASE \E i \in DOMAIN suggest.names : Pick(i)
  BY <1>4, AcceptKeepsList DEF Pick
<1>5. CASE PressEnter
  <2>1. Submit \/ Accept(suggest.index)
    BY <1>5 DEF PressEnter
  <2>2. Submit => suggest' = NoList
    BY DEF Submit
  <2>3. QED
    BY <1>1, <2>1, <2>2, AcceptKeepsList
<1>6. CASE PressTab
  BY <1>1, <1>6, AcceptKeepsList DEF PressTab
<1>7. CASE Escape \/ LoseFocus
  BY <1>1, <1>7 DEF Escape, LoseFocus, Closes
<1>8. CASE ArrowUp \/ ArrowDown
  <2>1. CASE ~Open
    BY <2>1, <1>8 DEF ArrowUp, ArrowDown, Browse, ListIsOverTheText, Open
  <2>2. ASSUME NEW delta, MoveSuggest(delta), Open
        PROVE  ListIsOverTheText'
    <3>1. suggest'.over = suggest.over \/ suggest' = suggest
      BY <2>2 DEF MoveSuggest
    <3>2. UNCHANGED <<value, asked, hintSeq>>
      BY <2>2 DEF MoveSuggest
    <3>3. QED
      BY <2>2, <3>1, <3>2 DEF ListIsOverTheText, Open
  <2>3. QED
    BY <1>8, <2>1, <2>2 DEF ArrowUp, ArrowDown
<1>9. CASE \E line \in BagToSet(submits) : Settle(line)
  BY <1>9 DEF Settle, ListIsOverTheText, Open
<1>10. CASE UNCHANGED composerVars
  BY <1>10 DEF composerVars, ListIsOverTheText, Open
<1>11. QED
  BY <1>2, <1>3, <1>4, <1>5, <1>6, <1>7, <1>8, <1>9, <1>10 DEF ComposerNext

(* ListIsOverTheText: accepting a row never replaces a text the row was not*)
(* offered for, but for the listing on its way and the late submit         *)
(* (updateSuggest, requestHints, acceptSuggestion).                        *)
THEOREM ListFollowsText == ComposerSpec => []ListIsOverTheText
<1>1. ComposerInit => ListIsOverTheText
  BY DEF ComposerInit, ListIsOverTheText, Open
<1>2. QED
  BY <1>1, ListStands, PTL DEF ComposerSpec

-----------------------------------------------------------------------------
(* The ring of WebComposer. *)

RingOf(S) == [entries: Seq(S), index: Nat, draft: S]

RingInv ==
  /\ typed \in Nat
  /\ \E S : history \in RingOf(S)
  /\ history.index = 0 => history.draft = Empty

LEMMA PushKeeps ==
  ASSUME NEW S, NEW entries \in Seq(S), NEW line \in S
  PROVE  PushHistory(entries, line) \in Seq(S) /\ line \in Range(PushHistory(entries, line))
<1> DEFINE next == IF entries # << >> /\ Last(entries) = line THEN entries
                   ELSE Append(entries, line)
           size == Len(next)
<1>1. next \in Seq(S) /\ size \in Nat /\ size # 0 /\ next[size] = line
  <2>1. CASE entries # << >> /\ Last(entries) = line
    BY <2>1 DEF Last
  <2>2. CASE ~(entries # << >> /\ Last(entries) = line)
    BY <2>2
  <2>3. QED
    BY <2>1, <2>2
<1>2. PushHistory(entries, line) = IF size > Cap THEN SubSeq(next, size - Cap + 1, size) ELSE next
  BY DEF PushHistory
<1> HIDE DEF next
<1>3. DOMAIN next = 1..size
  BY <1>1
<1>4. CASE size > Cap
  <2> DEFINE last == SubSeq(next, size - Cap + 1, size)
  <2>1. Cap \in Nat \ {0}
    BY BoundsAssumption
  <2>2. last \in Seq(S) /\ Len(last) = Cap /\ \A i \in 1..Cap : last[i] = next[size - Cap + i]
    <3> HIDE DEF size
    <3>1. size - Cap + 1 \in 1..size /\ size \in Nat
      BY <1>1, <1>4, <2>1
    <3>2. QED
      BY <1>1, <1>3, <1>4, <2>1, <3>1 DEF size
  <2> HIDE DEF last
  <2>3. Cap \in DOMAIN last /\ last[Cap] = line
    <3>1. Cap \in 1..Cap /\ size - Cap + Cap = size
      BY <1>1, <2>1
    <3>2. QED
      BY <1>1, <2>2, <3>1
  <2>4. QED
    BY <1>2, <1>4, <2>2, <2>3 DEF last, Range
<1>5. CASE ~(size > Cap)
  BY <1>1, <1>2, <1>3, <1>5 DEF Range
<1>6. QED
  BY <1>4, <1>5

(* A step that sends the line: it joins the ring. *)
LEMMA SubmitRing ==
  ASSUME RingInv, Submit, value # Empty
  PROVE  /\ RingInv' /\ typed' = typed
         /\ Trimmed(value) \in Range(history'.entries)
<1> DEFINE line == Trimmed(value)
           next == PushHistory(history.entries, line)
<1>1. PICK S : history \in RingOf(S)
  BY DEF RingInv
<1> DEFINE T == S \cup {line, Empty}
<1>2. history \in RingOf(T) /\ line \in T /\ Empty \in T
  BY <1>1 DEF RingOf
<1>3. history' = [LeaveHistory EXCEPT !.entries = PushHistory(@, line)] /\ typed' = typed
  BY DEF Submit
<1>4. LeaveHistory \in RingOf(T) /\ LeaveHistory.entries = history.entries
      /\ LeaveHistory.index = 0 /\ LeaveHistory.draft = Empty
  BY <1>2 DEF LeaveHistory, RingOf
<1> HIDE DEF line
<1>5. next \in Seq(T) /\ line \in Range(next)
  <2>1. history.entries \in Seq(T)
    BY <1>2 DEF RingOf
  <2> HIDE DEF T
  <2>2. QED
    BY <1>2, <2>1, PushKeeps
<1>6. history' = [LeaveHistory EXCEPT !.entries = next]
  BY <1>3, <1>4
<1> HIDE DEF next, T
<1>7. history' \in RingOf(T) /\ history'.entries = next /\ history'.index = 0 /\ history'.draft = Empty
  BY <1>4, <1>5, <1>6 DEF RingOf
<1>8. QED
  BY <1>3, <1>5, <1>7 DEF RingInv, line

(* A line of the ring is recalled, or the draft behind it. *)
LEMMA BrowseRing ==
  ASSUME RingInv,
         \/ history.entries # << >> /\ history.index # 1 /\ Browse(StepOlder(history, value))
         \/ history.index # 0 /\ Browse(StepNewer(history))
  PROVE  /\ RingInv' /\ typed' = typed
         /\ value \in {value', history'.draft} \/ history.index # 0
         /\ history.draft \in {value', history'.draft} \/ history.draft = Empty
<1>1. PICK S : history \in RingOf(S)
  BY DEF RingInv
<1> DEFINE T == S \cup {value, Empty}
<1>2. history \in RingOf(T) /\ value \in T /\ Empty \in T
  BY <1>1 DEF RingOf
<1> HIDE DEF T
<1>3. /\ history.entries \in Seq(T) /\ history.index \in Nat /\ history.draft \in T
      /\ Len(history.entries) \in Nat
  BY <1>2 DEF RingOf
<1>4. typed' = typed
  BY DEF Browse
<1>5. CASE history.entries # << >> /\ history.index # 1 /\ Browse(StepOlder(history, value))
  <2> DEFINE index == IF history.index = 0 THEN Len(history.entries) ELSE history.index - 1
             draft == IF history.index = 0 THEN value ELSE history.draft
  <2>1. history' = [history EXCEPT !.index = index, !.draft = draft]
    BY <1>5 DEF Browse, StepOlder
  <2>2. index \in Nat /\ index # 0
    <3>1. Len(history.entries) # 0
      BY <1>3, <1>5
    <3>2. history.index # 0 => history.index - 1 \in Nat /\ history.index - 1 # 0
      BY <1>3, <1>5
    <3>3. QED
      BY <1>3, <3>1, <3>2
  <2>3. draft \in T
    BY <1>2, <1>3
  <2> HIDE DEF index, draft
  <2>4. history' \in RingOf(T) /\ history'.index # 0 /\ history'.draft = draft
    BY <1>2, <2>1, <2>2, <2>3 DEF RingOf
  <2>5. history.index = 0 => history.draft = Empty
    BY DEF RingInv
  <2>6. QED
    BY <1>4, <2>4, <2>5 DEF RingInv, draft
<1>6. CASE history.index # 0 /\ Browse(StepNewer(history))
  <2>1. CASE history.index = Len(history.entries)
    <3>1. value' = history.draft /\ history' = [history EXCEPT !.index = 0, !.draft = Empty]
      BY <1>6, <2>1 DEF Browse, StepNewer
    <3>2. history' \in RingOf(T) /\ history'.index = 0 /\ history'.draft = Empty
      BY <1>2, <3>1 DEF RingOf
    <3>3. QED
      BY <1>4, <1>6, <3>1, <3>2 DEF RingInv
  <2>2. CASE history.index # Len(history.entries)
    <3> DEFINE index == history.index + 1
    <3>1. history' = [history EXCEPT !.index = index]
      BY <1>6, <2>2 DEF Browse, StepNewer
    <3>2. index \in Nat /\ index # 0
      BY <1>3
    <3> HIDE DEF index
    <3>3. history' \in RingOf(T) /\ history'.index # 0 /\ history'.draft = history.draft
      BY <1>2, <3>1, <3>2 DEF RingOf
    <3>4. QED
      BY <1>4, <1>6, <3>3 DEF RingInv
  <2>3. QED
    BY <2>1, <2>2
<1>7. QED
  BY <1>5, <1>6

(* What leaves the ring as it was, or stops browsing it. *)
LEMMA RingLeft ==
  ASSUME RingInv, typed' \in Nat, history' = history \/ history' = LeaveHistory
  PROVE  RingInv'
<1>1. PICK S : history \in RingOf(S)
  BY DEF RingInv
<1> DEFINE T == S \cup {Empty}
<1>2. history \in RingOf(T) /\ Empty \in T
  BY <1>1 DEF RingOf
<1> HIDE DEF T
<1>3. LeaveHistory \in RingOf(T) /\ LeaveHistory.index = 0 /\ LeaveHistory.draft = Empty
  BY <1>2 DEF LeaveHistory, RingOf
<1>4. QED
  BY <1>1, <1>3 DEF RingInv

TextStays ==
  Lost # {} =>
    \/ typed' # typed
    \/ Open
    \/ \E line \in BagToSet(submits) : submits' = submits (-) SetToBag({line})
    \/ Lost = {value} /\ history.index # 0
    \/ /\ Lost = {history.draft} /\ history.index # 0
       /\ Trimmed(value) \in Range(history'.entries)

LEMMA RingStep ==
  ASSUME RingInv, [ComposerNext]_composerVars
  PROVE  RingInv' /\ TextStays
<1>t. typed \in Nat
  BY DEF RingInv
<1>1. ASSUME value' = value, history' = history
      PROVE  TextStays
  BY <1>1 DEF TextStays, Lost
<1>2. CASE (\E v \in Typable : Type(v)) \/ (\E c \in Takes : Prefill(c))
  <2>1. typed' = typed + 1 /\ history' = LeaveHistory
    BY <1>2 DEF Type, Prefill, Enters
  <2>2. typed' \in Nat /\ typed' # typed
    BY <1>t, <2>1
  <2>3. QED
    BY <2>1, <2>2, RingLeft DEF TextStays
<1>3. CASE \E q \in asked : HintsArrive(q)
  <2>1. UNCHANGED <<value, history, typed>>
    BY <1>3 DEF HintsArrive
  <2>2. QED
    BY <1>1, <1>t, <2>1, RingLeft
<1>4. ASSUME NEW i, Accept(i), Open
      PROVE  RingInv' /\ TextStays
  <2>1. history' = history /\ typed' = typed
    BY <1>4 DEF Accept
  <2>2. QED
    BY <1>4, <1>t, <2>1, RingLeft DEF TextStays
<1>5. CASE Submit
  <2>1. CASE value = Empty
    <3>1. UNCHANGED <<value, history, typed>>
      BY <1>5, <2>1 DEF Submit
    <3>2. QED
      BY <1>1, <1>t, <3>1, RingLeft
  <2>2. CASE value # Empty
    <3>1. RingInv' /\ Trimmed(value) \in Range(history'.entries)
      BY <1>5, <2>2, SubmitRing
    <3>2. value \notin Lost
      BY <3>1 DEF Lost
    <3>3. Lost \subseteq {history.draft} /\ (history.index = 0 => Lost = {})
      BY <3>2 DEF Lost, RingInv
    <3>4. QED
      BY <3>1, <3>3 DEF TextStays
  <2>3. QED
    BY <2>1, <2>2
<1>6. CASE PressEnter
  BY <1>4, <1>5, <1>6 DEF PressEnter
<1>7. CASE PressTab
  <2>1. CASE EnterShouldSend
    <3>1. UNCHANGED <<value, history, typed>>
      BY <1>7, <2>1 DEF PressTab
    <3>2. QED
      BY <1>1, <1>t, <3>1, RingLeft
  <2>2. CASE ~EnterShouldSend
    BY <1>4, <1>7, <2>2 DEF PressTab
  <2>3. QED
    BY <2>1, <2>2
<1>8. CASE Escape \/ LoseFocus
  <2>1. Open /\ typed' = typed /\ (history' = history \/ history' = LeaveHistory)
    BY <1>8 DEF Escape, LoseFocus, Closes
  <2>2. QED
    BY <1>t, <2>1, RingLeft DEF TextStays
<1>9. ASSUME NEW delta, MoveSuggest(delta)
      PROVE  RingInv' /\ TextStays
  <2>1. UNCHANGED <<value, history, typed>>
    BY <1>9 DEF MoveSuggest
  <2>2. QED
    BY <1>1, <1>t, <2>1, RingLeft
<1>10. CASE ArrowUp \/ ArrowDown
  <2>1. CASE \/ history.entries # << >> /\ history.index # 1 /\ Browse(StepOlder(history, value))
             \/ history.index # 0 /\ Browse(StepNewer(history))
    <3>1. /\ RingInv'
          /\ value \in {value', history'.draft} \/ history.index # 0
          /\ history.draft \in {value', history'.draft} \/ history.draft = Empty
      BY <2>1, BrowseRing
    <3>2. history.draft \notin Lost
      BY <3>1 DEF Lost
    <3>3. Lost \subseteq {value} /\ (history.index = 0 => Lost = {})
      BY <3>1, <3>2 DEF Lost
    <3>4. QED
      BY <3>1, <3>3 DEF TextStays
  <2>2. QED
    BY <1>9, <1>10, <2>1 DEF ArrowUp, ArrowDown
<1>11. CASE \E line \in BagToSet(submits) : Settle(line)
  <2>1. PICK line \in BagToSet(submits) : Settle(line)
    BY <1>11
  <2>2. submits' = submits (-) SetToBag({line}) /\ UNCHANGED <<history, typed>>
    BY <2>1 DEF Settle
  <2>3. TextStays
    BY <2>1, <2>2 DEF TextStays
  <2>4. QED
    BY <1>t, <2>2, <2>3, RingLeft
<1>12. CASE UNCHANGED composerVars
  <2>1. UNCHANGED <<value, history, typed>>
    BY <1>12 DEF composerVars
  <2>2. QED
    BY <1>1, <1>t, <2>1, RingLeft
<1>13. CASE \E i \in DOMAIN suggest.names : Pick(i)
  BY <1>4, <1>13 DEF Pick
<1>14. QED
  BY <1>2, <1>3, <1>6, <1>7, <1>8, <1>10, <1>11, <1>12, <1>13 DEF ComposerNext

(* TextIsKept: what a step drops was typed over, or goes with a list, with *)
(* a submit that ends, or while a line is recalled (submit, pushHistory,   *)
(* stepOlder, stepNewer).                                                  *)
THEOREM TextStaysSomewhere == ComposerSpec => TextIsKept
<1>1. ComposerInit => RingInv
  <2> SUFFICES ASSUME ComposerInit PROVE RingInv
    OBVIOUS
  <2>1. history \in RingOf({Empty}) /\ history.draft = Empty /\ typed \in Nat
    BY DEF ComposerInit, Ring, RingOf
  <2>2. QED
    BY <2>1 DEF RingInv
<1>2. RingInv /\ [ComposerNext]_composerVars => RingInv'
  BY RingStep
<1>3. RingInv /\ [ComposerNext]_composerVars => [TextStays]_composerVars
  BY RingStep
<1>4. QED
  BY <1>1, <1>2, <1>3, PTL DEF ComposerSpec, TextIsKept, TextStays

-----------------------------------------------------------------------------
(* WebPane, for any rooms, peers, handlers under way, length of a page and *)
(* number of messages.                                                     *)
(*                                                                         *)
(* The pane keeps sets of ids and draws them in order.  So the first lemmas*)
(* are about InOrder: the ranks of n ids are 1..n, each once, InOrder lists*)
(* them by rank, and what lies beyond the last id drawn can be appended.   *)
(* The next are about pages: of the newest ids of a target, a full page    *)
(* lacks only ids that have a page of newer ones.  Carries says the same of*)
(* what a handler holds while it waits, and PaneBase that every handler    *)
(* carries such a list; the three invariants are inductive beside it.      *)

(* The place of an id in the order of the ids of S. *)
Rank(S, i) == Cardinality({j \in S : j <= i})

LEMMA RanksCount ==
  ASSUME NEW S \in SUBSET Nat, IsFiniteSet(S)
  PROVE  /\ Cardinality(S) \in Nat
         /\ \A i \in S : Rank(S, i) \in 1..Cardinality(S)
         /\ \A i, k \in S : i < k => Rank(S, i) < Rank(S, k)
<1>1. Cardinality(S) \in Nat
  BY FS_CardinalityType
<1>2. ASSUME NEW i \in S
      PROVE  Rank(S, i) \in 1..Cardinality(S)
  <2> DEFINE Below == {j \in S : j <= i}
  <2>1. IsFiniteSet(Below) /\ Cardinality(Below) <= Cardinality(S)
    BY FS_Subset
  <2>2. i \in Below
    OBVIOUS
  <2> HIDE DEF Below
  <2>3. Cardinality(Below) \in Nat /\ Cardinality(Below) # 0
    BY <2>1, <2>2, FS_CardinalityType, FS_EmptySet
  <2>4. Cardinality(Below) \in 1..Cardinality(S)
    BY <1>1, <2>1, <2>3
  <2>5. QED
    BY <2>4 DEF Rank, Below
<1>3. ASSUME NEW i \in S, NEW k \in S, i < k
      PROVE  Rank(S, i) < Rank(S, k)
  <2> DEFINE A == {j \in S : j <= i}
             B == {j \in S : j <= k}
  <2>a. i \in Nat /\ k \in Nat /\ \A j \in S : j \in Nat
    OBVIOUS
  <2>b. A \subseteq B
    <3>1. ASSUME NEW j \in S, j <= i
          PROVE  j <= k
      <4>1. j \in Nat
        BY <2>a
      <4>2. QED
        BY <1>3, <2>a, <3>1, <4>1
    <3>2. QED
      BY <3>1
  <2>c. k \in B /\ k \notin A
    BY <1>3, <2>a
  <2>1. A \subseteq B /\ k \in B /\ k \notin A /\ B \subseteq S /\ A \subseteq S
    BY <2>b, <2>c
  <2> HIDE DEF A, B
  <2>2. IsFiniteSet(B) /\ IsFiniteSet(A)
    BY <2>1, FS_Subset
  <2>3. Cardinality(A) <= Cardinality(B) /\ Cardinality(A) # Cardinality(B)
    BY <2>1, <2>2, FS_Subset
  <2>4. Cardinality(A) \in Nat /\ Cardinality(B) \in Nat
    BY <2>2, FS_CardinalityType
  <2>5. Cardinality(A) < Cardinality(B)
    BY <2>3, <2>4
  <2>6. QED
    BY <2>5 DEF A, B, Rank
<1>4. QED
  BY <1>1, <1>2, <1>3

LEMMA EveryRankTaken ==
  ASSUME NEW S \in SUBSET Nat, IsFiniteSet(S), NEW n \in 1..Cardinality(S)
  PROVE  \E i \in S : Rank(S, i) = n
<1> DEFINE f == [i \in S |-> Rank(S, i)]
           T == {f[i] : i \in S}
           N == 1..Cardinality(S)
<1>1. Cardinality(S) \in Nat
  BY RanksCount
<1>2. T \subseteq N
  BY RanksCount
<1>3. \A i, k \in S : f[i] = f[k] => i = k
  <2>1. SUFFICES ASSUME NEW i \in S, NEW k \in S, i # k PROVE Rank(S, i) # Rank(S, k)
    OBVIOUS
  <2>2. Rank(S, i) < Rank(S, k) \/ Rank(S, k) < Rank(S, i)
    BY <2>1, RanksCount
  <2>3. Rank(S, i) \in Nat /\ Rank(S, k) \in Nat
    BY RanksCount
  <2>4. QED
    BY <2>2, <2>3
<1>4. f \in Bijection(S, T)
  BY <1>3 DEF Bijection, Injection, Surjection, IsInjective
<1>5. IsFiniteSet(T) /\ Cardinality(T) = Cardinality(S)
  BY <1>4, FS_Bijection DEF ExistsBijection
<1>6. IsFiniteSet(N) /\ Cardinality(N) = Cardinality(S)
  BY <1>1, FS_Interval
<1>7. T = N
  <2> HIDE DEF T, N
  <2>1. QED
    BY <1>2, <1>5, <1>6, FS_Subset
<1>8. QED
  BY <1>7

(* InOrder lists the ids by their ranks. *)
LEMMA OrderIsByRank ==
  ASSUME NEW S \in SUBSET Nat, IsFiniteSet(S)
  PROVE  /\ InOrder(S) \in Seq(S) /\ Len(InOrder(S)) = Cardinality(S)
         /\ \A n \in 1..Cardinality(S) :
              InOrder(S)[n] \in S /\ Rank(S, InOrder(S)[n]) = n
         /\ \A i \in S : Rank(S, i) \in 1..Cardinality(S) /\ InOrder(S)[Rank(S, i)] = i
<1>1. Cardinality(S) \in Nat
  BY RanksCount
<1>2. ASSUME NEW n \in 1..Cardinality(S)
      PROVE  InOrder(S)[n] \in S /\ Rank(S, InOrder(S)[n]) = n
  BY EveryRankTaken DEF InOrder, Rank
<1>3. InOrder(S) \in [1..Cardinality(S) -> S]
  BY <1>2 DEF InOrder
<1>4. InOrder(S) \in Seq(S) /\ Len(InOrder(S)) = Cardinality(S)
  BY <1>1, <1>3, IsASeq, LenProperties
<1>5. ASSUME NEW i \in S
      PROVE  Rank(S, i) \in 1..Cardinality(S) /\ InOrder(S)[Rank(S, i)] = i
  <2> DEFINE n == Rank(S, i)
             k == InOrder(S)[n]
  <2>1. n \in 1..Cardinality(S)
    BY RanksCount
  <2>2. k \in S /\ Rank(S, k) = n
    BY <1>2, <2>1
  <2>3. n \in Nat
    BY <2>1
  <2>4. ~(i < k) /\ ~(k < i)
    <3> HIDE DEF k
    <3>1. (i < k => n < n) /\ (k < i => n < n)
      BY <2>2, RanksCount
    <3>2. QED
      BY <2>3, <3>1
  <2>5. k = i
    <3>1. k \in Nat /\ i \in Nat
      BY <2>2
    <3> HIDE DEF k
    <3>2. QED
      BY <2>4, <3>1
  <2>6. QED
    BY <2>1, <2>5
<1>6. QED
  BY <1>2, <1>4, <1>5

LEMMA OrderLists ==
  ASSUME NEW S \in SUBSET Nat, IsFiniteSet(S)
  PROVE  Range(InOrder(S)) = S
<1>1. InOrder(S) \in Seq(S) /\ Len(InOrder(S)) = Cardinality(S)
  BY OrderIsByRank
<1>2. DOMAIN InOrder(S) = 1..Cardinality(S)
  BY <1>1
<1>3. \A n \in 1..Cardinality(S) : InOrder(S)[n] \in S
  BY <1>1
<1>4. \A i \in S : Rank(S, i) \in 1..Cardinality(S) /\ InOrder(S)[Rank(S, i)] = i
  BY OrderIsByRank
<1>5. QED
  BY <1>2, <1>3, <1>4 DEF Range

LEMMA CountOfSplit ==
  ASSUME NEW S, IsFiniteSet(S), NEW A \in SUBSET S
  PROVE  /\ IsFiniteSet(A) /\ IsFiniteSet(S \ A)
         /\ Cardinality(A) \in Nat /\ Cardinality(S \ A) \in Nat
         /\ Cardinality(S) = Cardinality(A) + Cardinality(S \ A)
<1> DEFINE B == S \ A
<1>1. IsFiniteSet(A) /\ IsFiniteSet(B)
  BY FS_Subset
<1>2. A \cup B = S /\ A \cap B = {}
  OBVIOUS
<1> HIDE DEF B
<1>3. Cardinality(A) \in Nat /\ Cardinality(B) \in Nat
  BY <1>1, FS_CardinalityType
<1>4. Cardinality(A \cup B) = Cardinality(A) + Cardinality(B) - Cardinality(A \cap B)
  BY <1>1, FS_Union
<1>5. Cardinality(A \cap B) = 0
  BY <1>2, FS_EmptySet
<1>6. Cardinality(S) = Cardinality(A) + Cardinality(B)
  <2>1. \A x, y \in Nat : x + y - 0 = x + y
    OBVIOUS
  <2>2. Cardinality(S) = Cardinality(A) + Cardinality(B) - 0
    BY <1>2, <1>4, <1>5
  <2>3. QED
    BY <1>3, <2>1, <2>2
<1>7. QED
  BY <1>1, <1>3, <1>6 DEF B

(* A list of later ids goes after a list of earlier ones. *)
LEMMA OrderJoins ==
  ASSUME NEW A \in SUBSET Nat, IsFiniteSet(A), NEW B \in SUBSET Nat, IsFiniteSet(B),
         \A i \in B, j \in A : j < i
  PROVE  InOrder(A \cup B) = InOrder(A) \o InOrder(B)
<1> DEFINE S == A \cup B
           a == Cardinality(A)
           b == Cardinality(B)
<1>1. IsFiniteSet(S) /\ S \in SUBSET Nat /\ S \ A = B /\ A \in SUBSET S
  <2>1. \A i \in B : i \in Nat /\ i \notin A
    <3>1. ASSUME NEW i \in B, i \in A PROVE FALSE
      <4>1. i < i /\ i \in Nat
        BY <3>1
      <4>2. QED
        BY <4>1
    <3>2. QED
      BY <3>1
  <2>2. QED
    BY <2>1, FS_Union
<1>2. a \in Nat /\ b \in Nat /\ Cardinality(S) = a + b
  <2> HIDE DEF S
  <2>1. QED
    BY <1>1, CountOfSplit
<1>3. ASSUME NEW i \in A
      PROVE  Rank(S, i) = Rank(A, i)
  <2>1. ASSUME NEW j \in B PROVE ~(j <= i)
    <3>1. i < j /\ i \in Nat /\ j \in Nat
      BY <1>3, <2>1
    <3>2. QED
      BY <3>1
  <2>2. {j \in S : j <= i} = {j \in A : j <= i}
    BY <2>1
  <2>3. QED
    BY <2>2 DEF Rank
<1>4. ASSUME NEW i \in B
      PROVE  Rank(S, i) = a + Rank(B, i)
  <2> DEFINE T == {j \in S : j <= i}
             U == {j \in B : j <= i}
  <2>1. ASSUME NEW j \in A PROVE j <= i
    <3>1. j < i /\ i \in Nat /\ j \in Nat
      BY <1>4, <2>1
    <3>2. QED
      BY <3>1
  <2>2. T \in SUBSET S /\ A \in SUBSET T /\ T \ A = U
    BY <1>1, <2>1
  <2> HIDE DEF T, U, S
  <2>3. IsFiniteSet(T)
    BY <1>1, <2>2, FS_Subset
  <2>4. Cardinality(T) = a + Cardinality(U)
    BY <2>2, <2>3, CountOfSplit
  <2>5. QED
    BY <2>4 DEF T, U, Rank
<1> DEFINE p == InOrder(A)
           q == InOrder(B)
           s == InOrder(S)
<1>5. p \in Seq(Nat) /\ q \in Seq(Nat) /\ s \in Seq(Nat) /\ Len(p) = a /\ Len(q) = b /\ Len(s) = a + b
  <2> HIDE DEF S
  <2>1. p \in Seq(A) /\ q \in Seq(B) /\ s \in Seq(S) /\ Len(p) = a /\ Len(q) = b /\ Len(s) = a + b
    BY <1>1, <1>2, OrderIsByRank
  <2>2. QED
    BY <1>1, <2>1, SeqMonotonic
<1>6. ASSUME NEW n \in 1..(a + b)
      PROVE  s[n] = (p \o q)[n]
  <2>1. CASE n <= a
    <3>1. n \in 1..a
      BY <1>2, <2>1
    <3>2. p[n] \in A /\ Rank(A, p[n]) = n
      BY <3>1, OrderIsByRank
    <3>3. Rank(S, p[n]) = n
      BY <1>3, <3>2
    <3>4. s[Rank(S, p[n])] = p[n]
      <4>1. p[n] \in S
        BY <3>2
      <4> HIDE DEF p, S
      <4>2. QED
        BY <1>1, <4>1, OrderIsByRank DEF s
    <3>5. (p \o q)[n] = p[n]
      <4> HIDE DEF p, q, a, b
      <4>1. QED
        BY <1>5, <3>1, ConcatProperties
    <3>6. QED
      BY <3>3, <3>4, <3>5
  <2>2. CASE ~(n <= a)
    <3> DEFINE m == n - a
    <3>1. m \in 1..b /\ n = a + m
      BY <1>2, <2>2
    <3> HIDE DEF m
    <3>2. q[m] \in B /\ Rank(B, q[m]) = m
      BY <3>1, OrderIsByRank
    <3>3. Rank(S, q[m]) = n
      BY <1>4, <3>1, <3>2
    <3>4. s[Rank(S, q[m])] = q[m]
      <4>1. q[m] \in S
        BY <3>2
      <4> HIDE DEF q, S
      <4>2. QED
        BY <1>1, <4>1, OrderIsByRank DEF s
    <3>5. (p \o q)[n] = q[m]
      <4> HIDE DEF p, q, a, b
      <4>1. QED
        BY <1>2, <1>5, <2>2, <3>1, ConcatProperties DEF m
    <3>6. QED
      BY <3>3, <3>4, <3>5
  <2>3. QED
    BY <2>1, <2>2
<1>7. QED
  <2> HIDE DEF p, q, s, a, b, S
  <2>1. p \o q \in Seq(Nat) /\ Len(p \o q) = a + b
    BY <1>5, ConcatProperties
  <2>2. s = p \o q
    BY <1>5, <1>6, <2>1, SeqEqual
  <2>3. QED
    BY <2>2 DEF p, q, s, S

LEMMA MaxIsLast ==
  ASSUME NEW S \in SUBSET Nat, IsFiniteSet(S), S # {}
  PROVE  Max(S) \in S /\ \A j \in S : j <= Max(S)
<1> DEFINE n == Cardinality(S)
<1>1. n \in Nat /\ n # 0
  BY RanksCount, FS_EmptySet
<1>2. n \in 1..n
  BY <1>1
<1>3. PICK i \in S : Rank(S, i) = n
  BY <1>2, EveryRankTaken
<1>4. {j \in S : j <= i} = S
  <2> DEFINE T == {j \in S : j <= i}
  <2>1. T \in SUBSET S /\ Cardinality(T) = Cardinality(S)
    BY <1>3 DEF Rank
  <2> HIDE DEF T
  <2>2. T = S
    BY <2>1, FS_Subset
  <2>3. QED
    BY <2>2 DEF T
<1>5. \A j \in S : i >= j
  <2>1. ASSUME NEW j \in S PROVE i >= j
    <3>1. j <= i /\ j \in Nat /\ i \in Nat
      BY <1>4
    <3>2. QED
      BY <3>1
  <2>2. QED
    BY <2>1
<1>6. Max(S) \in S /\ \A j \in S : Max(S) >= j
  BY <1>5 DEF Max
<1>7. QED
  <2>1. ASSUME NEW j \in S PROVE j <= Max(S)
    <3>1. Max(S) >= j /\ j \in Nat /\ Max(S) \in Nat
      BY <1>6
    <3>2. QED
      BY <3>1
  <2>2. QED
    BY <1>6, <2>1

LEMMA NewestCounts ==
  ASSUME NEW B \in SUBSET Nat, IsFiniteSet(B), NEW n \in Nat, Cardinality(B) >= n
  PROVE  Cardinality(Newest(B, n)) >= n
<1> DEFINE b == Cardinality(B)
           I == (b - n + 1)..b
           N == Newest(B, n)
           h == [m \in I |-> InOrder(B)[m]]
<1>1. b \in Nat /\ b >= n
  BY RanksCount
<1>2. ASSUME NEW m \in I
      PROVE  h[m] \in N /\ Rank(B, h[m]) = m
  <2> DEFINE i == h[m]
             Below == {j \in B : j <= i}
             Above == {j \in B : j > i}
  <2>1. m \in 1..b /\ m \in Nat
    BY <1>1
  <2>2. i \in B /\ Rank(B, i) = m
    <3>1. i = InOrder(B)[m]
      OBVIOUS
    <3>2. InOrder(B)[m] \in B /\ Rank(B, InOrder(B)[m]) = m
      BY <2>1, OrderIsByRank
    <3>3. QED
      BY <3>1, <3>2
  <2> HIDE DEF i
  <2>3. Below \in SUBSET B /\ B \ Below = Above
    <3>1. \A j \in B : j > i <=> ~(j <= i)
      <4>1. ASSUME NEW j \in B PROVE j > i <=> ~(j <= i)
        <5>1. j \in Nat /\ i \in Nat
          BY <2>2
        <5>2. QED
          BY <5>1
      <4>2. QED
        BY <4>1
    <3>2. QED
      BY <3>1
  <2>4. Cardinality(Above) \in Nat /\ b = m + Cardinality(Above)
    <3>1. Cardinality(Below) = m
      BY <2>2 DEF Rank
    <3> HIDE DEF Below, Above
    <3>2. QED
      BY <2>3, <3>1, CountOfSplit
  <2>5. Cardinality(Above) < n
    <3> DEFINE c == Cardinality(Above)
    <3>1. c \in Nat /\ b = m + c /\ m >= b - n + 1
      BY <2>4
    <3> HIDE DEF c, b
    <3>2. c < n
      BY <1>1, <2>1, <3>1
    <3>3. QED
      BY <3>2 DEF c
  <2>6. i \in N
    BY <2>2, <2>5 DEF Newest
  <2>7. QED
    BY <2>2, <2>6 DEF i
<1>3. h \in Injection(I, N)
  <2> HIDE DEF h
  <2>1. \A m, k \in I : h[m] = h[k] => m = k
    BY <1>2
  <2>2. h \in [I -> N]
    BY <1>2 DEF h
  <2>3. QED
    BY <2>1, <2>2 DEF Injection, IsInjective
<1>4. IsFiniteSet(N)
  BY FS_Subset DEF Newest
<1>5. Cardinality(I) = n
  <2> HIDE DEF b
  <2>0. b - n + 1 \in Int /\ b \in Int
    BY <1>1
  <2> DEFINE low == b - n + 1
  <2> HIDE DEF low
  <2>1. Cardinality(low..b) = IF low > b THEN 0 ELSE b - low + 1
    <3>1. low \in Int
      BY <2>0 DEF low
    <3>2. QED
      BY <2>0, <3>1, FS_Interval
  <2>2. Cardinality(low..b) = n
    BY <1>1, <2>1 DEF low
  <2>3. QED
    BY <2>2 DEF low
<1>6. Cardinality(I) <= Cardinality(N) /\ Cardinality(N) \in Nat
  BY <1>3, <1>4, FS_Injection, FS_CardinalityType
<1>7. QED
  BY <1>5, <1>6

(* A full page: an id it lacks has as many later ones in it as it holds.   *)
LEMMA PageIsFull ==
  ASSUME NEW A \in SUBSET Nat, IsFiniteSet(A), NEW n \in Nat, NEW i \in A
  PROVE  \/ i \in Newest(A, n)
         \/ Cardinality({j \in Newest(A, n) : j > i}) >= n
<1> DEFINE B == {j \in A : j > i}
<1>1. B \in SUBSET Nat /\ IsFiniteSet(B) /\ B \in SUBSET A
  BY FS_Subset
<1>2. Cardinality(B) \in Nat
  BY <1>1, FS_CardinalityType
<1>3. CASE Cardinality(B) < n
  BY <1>3 DEF Newest
<1>4. CASE ~(Cardinality(B) < n)
  <2>1. Cardinality(B) >= n
    <3> HIDE DEF B
    <3>1. QED
      BY <1>2, <1>4
  <2>2. ASSUME NEW j \in B
        PROVE  {k \in B : k > j} = {k \in A : k > j}
    <3>1. ASSUME NEW k \in A, k > j PROVE k > i
      <4>1. k \in Nat /\ j \in Nat /\ i \in Nat /\ j > i
        BY <2>2
      <4>2. QED
        BY <3>1, <4>1
    <3>2. QED
      BY <1>1, <3>1
  <2>3. Newest(B, n) = {j \in Newest(A, n) : j > i}
    BY <2>2 DEF Newest
  <2>4. Cardinality(Newest(B, n)) >= n
    <3> HIDE DEF B
    <3>1. QED
      BY <1>1, <2>1, NewestCounts
  <2>5. QED
    BY <2>3, <2>4
<1>5. QED
  BY <1>3, <1>4

-----------------------------------------------------------------------------
(* What a handler that waits holds of the conversation it is for: only ids *)
(* posted to it, and every one that has not gone, but for those older than *)
(* a full page of it and those posted after it was served.                 *)

Belongs(ids, t, posts) == \A i \in ids : i \in DOMAIN posts /\ posts[i] = t

Carries(c, posts, dead, seen) ==
  /\ Belongs(c.got, c.target, posts) /\ Belongs(c.around, c.target, posts)
  /\ c.kind = "link" => c.got = {} /\ c.anchor \in DOMAIN posts
  /\ c.kind = "send" => c.target \in Targets
  /\ c.kind \in {"leave", "/leave", "remove", "join"} => c.target \in Rooms
  /\ c.step = "marking" => c.got # {} /\ c.got \subseteq seen /\ c.target \in Rooms
  /\ \A i \in DOMAIN posts \ dead :
       posts[i] = c.target =>
         \/ i \in c.got
         \/ Cardinality({j \in c.got : j > i}) >= Limit
         \/ \A j \in c.got : j < i

LEMMA EmptyCarries ==
  ASSUME NEW c, c.got = {}, c.around = {}, c.step # "marking", NEW posts, NEW dead, NEW seen,
         c.kind = "link" => c.anchor \in DOMAIN posts,
         c.kind = "send" => c.target \in Targets,
         c.kind \in {"leave", "/leave", "remove", "join"} => c.target \in Rooms
  PROVE  Carries(c, posts, dead, seen)
BY DEF Carries, Belongs

LEMMA SameLoad ==
  ASSUME NEW c, NEW d, NEW posts, NEW dead, NEW seen, Carries(c, posts, dead, seen),
         d.target = c.target, d.got = c.got, d.around = c.around, d.anchor = c.anchor,
         d.kind \in {c.kind, "open"}, d.step = "marking" => c.step = "marking"
  PROVE  Carries(d, posts, dead, seen)
BY DEF Carries

LEMMA StillCarries ==
  ASSUME NEW c, NEW posts \in Seq(Targets), NEW dead, NEW seen, Carries(c, posts, dead, seen),
         NEW later \in Seq(Targets), later = posts \/ \E t \in Targets : later = Append(posts, t),
         NEW more, dead \subseteq more, NEW known, seen \subseteq known
  PROVE  Carries(c, later, more, known)
<1> DEFINE n == Len(posts)
<1>1. n \in Nat /\ DOMAIN posts = 1..n
  OBVIOUS
<1>2. CASE later = posts
  BY <1>2 DEF Carries, Belongs
<1>3. ASSUME NEW t \in Targets, later = Append(posts, t)
      PROVE  Carries(c, later, more, known)
  <2>1. /\ DOMAIN later = 1..(n + 1)
        /\ \A i \in 1..n : later[i] = posts[i]
    BY <1>3
  <2> HIDE DEF n
  <2>2. \A i \in DOMAIN posts : i \in DOMAIN later /\ later[i] = posts[i]
    BY <1>1, <2>1
  <2>3. Belongs(c.got, c.target, later) /\ Belongs(c.around, c.target, later)
    BY <2>2 DEF Carries, Belongs
  <2>4. ASSUME NEW i \in DOMAIN later \ more, later[i] = c.target
        PROVE  \/ i \in c.got
               \/ Cardinality({j \in c.got : j > i}) >= Limit
               \/ \A j \in c.got : j < i
    <3>1. CASE i \in DOMAIN posts
      BY <2>2, <2>4, <3>1 DEF Carries
    <3>2. CASE i \notin DOMAIN posts
      <4>1. i = n + 1
        BY <1>1, <2>1, <3>2
      <4>2. \A j \in c.got : j \in 1..n
        BY <1>1 DEF Carries, Belongs
      <4>3. \A j \in c.got : j < i
        BY <1>1, <4>1, <4>2
      <4>4. QED
        BY <4>3
    <3>3. QED
      BY <3>1, <3>2
  <2>5. QED
    BY <2>3, <2>4 DEF Carries
<1>4. QED
  BY <1>2, <1>3

IsPane(p) ==
  p = [dom |-> p.dom, view |-> p.view, shown |-> p.shown, marked |-> p.marked,
       linked |-> p.linked, pinned |-> p.pinned, unread |-> p.unread, since |-> p.since]

PaneBase ==
  /\ of \in Seq(Targets) /\ joined \subseteq Rooms
  /\ readUpTo \in [Rooms -> Nat] /\ floor \in [Rooms -> Nat]
  /\ \A r \in Rooms : readUpTo[r] <= Len(of)
  /\ fetched \subseteq DOMAIN of /\ messages \subseteq DOMAIN of
  /\ current \in Targets \cup {Nowhere}
  /\ IsPane(pane) /\ pane.shown \subseteq DOMAIN of
  /\ task \in [Tasks -> Task]
  /\ \A s \in Tasks : Carries(task[s], of, gone, fetched)

(* What a render leaves in the pane. *)
Rebuilds(p, q, visible) ==
  q.dom = InOrder(visible) /\ q.marked = visible \cap {p.linked}
AppendsTo(p, q, visible) ==
  LET new == visible \ p.shown IN
  /\ p.shown \subseteq visible /\ \A i \in new, j \in p.shown : j < i
  /\ q.dom = p.dom \o InOrder(new) /\ q.marked = p.marked \cup (new \cap {p.linked})

LEMMA TalliedIs ==
  ASSUME NEW p, IsPane(p), NEW u
  PROVE  /\ IsPane(Tallied(p, u)) /\ Tallied(p, u).dom = p.dom
         /\ Tallied(p, u).shown = p.shown /\ Tallied(p, u).marked = p.marked
         /\ Tallied(p, u).linked = p.linked
<1> DEFINE x == NextUnreadSince(p.since, u)
           q == Tallied(p, u)
<1>1. q = [p EXCEPT !.unread = u, !.since = x]
  BY DEF Tallied
<1> HIDE DEF q, x
<1>2. q = [dom |-> p.dom, view |-> p.view, shown |-> p.shown, marked |-> p.marked,
           linked |-> p.linked, pinned |-> p.pinned, unread |-> u, since |-> x]
  BY <1>1 DEF IsPane
<1>3. IsPane(q) /\ q.dom = p.dom /\ q.shown = p.shown /\ q.marked = p.marked /\ q.linked = p.linked
  BY <1>2 DEF IsPane
<1>4. QED
  BY <1>3 DEF q

LEMMA RenderedIs ==
  ASSUME NEW p, IsPane(p), NEW target, NEW ids, NEW term, NEW force,
         NEW q \in Rendered(p, target, ids, term, force)
  PROVE  /\ IsPane(q) /\ q.linked = p.linked
         /\ \/ q.dom = << >> /\ q.shown = {} /\ q.marked = {}
            \/ /\ target # Nowhere /\ q.shown \subseteq ids
               /\ Rebuilds(p, q, q.shown) \/ AppendsTo(p, q, q.shown)
<1> DEFINE visible == IF term THEN ids \cap Hits ELSE ids
           view == <<target, term>>
           wasPinned == force \/ p.pinned
           append == Appends(p, view, visible)
           new == IF append THEN visible \ p.shown ELSE visible
           arrived == IF append THEN new ELSE FreshIds(p, view, visible)
           tally == Tallied(p, NextUnreadBelow(p.unread, Cardinality(arrived), wasPinned))
<1>1. CASE target = Nowhere \/ visible = {}
  <2>1. q = Emptied(p)
    BY <1>1 DEF Rendered
  <2>2. IsPane(Tallied(p, 0)) /\ Tallied(p, 0).linked = p.linked
    BY TalliedIs
  <2>3. QED
    BY <2>1, <2>2 DEF Emptied, IsPane
<1>2. CASE ~(target = Nowhere \/ visible = {})
  <2>1. PICK bottom :
          q = [tally EXCEPT !.dom = (IF append THEN @ ELSE << >>) \o InOrder(new),
                            !.view = view, !.shown = visible,
                            !.marked = (IF append THEN @ ELSE {}) \cup (new \cap {p.linked}),
                            !.pinned = bottom]
    BY <1>2 DEF Rendered
  <2>2. IsPane(tally) /\ tally.dom = p.dom /\ tally.marked = p.marked /\ tally.linked = p.linked
    BY TalliedIs
  <2>a. append => p.shown \subseteq visible /\ \A i \in visible \ p.shown, j \in p.shown : j < i
    BY DEF Appends
  <2>b. visible \subseteq ids
    OBVIOUS
  <2>c. new = IF append THEN visible \ p.shown ELSE visible
    OBVIOUS
  <2>d. target # Nowhere
    BY <1>2
  <2> HIDE DEF append, tally, new, visible, view
  <2>3. /\ IsPane(q) /\ q.linked = p.linked /\ q.shown = visible
        /\ q.dom = (IF append THEN p.dom ELSE << >>) \o InOrder(new)
        /\ q.marked = (IF append THEN p.marked ELSE {}) \cup (new \cap {p.linked})
    BY <2>1, <2>2 DEF IsPane
  <2>4. CASE append
    BY <2>3, <2>4, <2>a, <2>b, <2>c, <2>d DEF AppendsTo
  <2>5. CASE ~append
    <3>1. << >> \o InOrder(new) = InOrder(new)
      <4>1. InOrder(new) = [k \in 1..Cardinality(new) |->
                              CHOOSE i \in new : Cardinality({j \in new : j <= i}) = k]
        BY DEF InOrder
      <4>2. QED
        BY <4>1
    <3>2. QED
      BY <2>3, <2>5, <2>b, <2>c, <2>d, <3>1 DEF Rebuilds
  <2>6. QED
    BY <2>4, <2>5
<1>3. QED
  BY <1>1, <1>2

LEMMA RevealedIs ==
  ASSUME NEW p, IsPane(p), NEW id, NEW q \in Revealed(p, id)
  PROVE  /\ IsPane(q) /\ q.dom = p.dom /\ q.shown = p.shown
         /\ \/ q.linked = p.linked /\ q.marked = p.marked
            \/ q.linked = id /\ q.marked = {id} /\ id \in Range(p.dom)
<1>1. CASE id \notin Range(p.dom)
  BY <1>1 DEF Revealed
<1>2. CASE id \in Range(p.dom)
  <2>1. PICK bottom : q = [p EXCEPT !.linked = id, !.marked = {id}, !.pinned = bottom]
    BY <1>2 DEF Revealed
  <2>2. QED
    BY <1>2, <2>1 DEF IsPane
<1>3. QED
  BY <1>1, <1>2

Draws ==
  \E term, force : \E p \in Rendered(pane, current', messages', term, force) :
    pane' = p \/ \E id : pane' \in Revealed(p, id)

Rests ==
  /\ IsPane(pane') /\ pane'.dom = pane.dom /\ pane'.shown = pane.shown
  /\ \/ pane'.linked = pane.linked /\ pane'.marked = pane.marked
     \/ pane'.linked \in Range(pane.dom) /\ pane'.marked = {pane'.linked}
     \/ pane'.linked = 0 /\ pane'.marked = {}

LEMMA ViewStep ==
  ASSUME IsPane(pane), [PaneNext]_paneVars
  PROVE  Draws \/ Rests
<1>1. CASE pane' = pane
  BY <1>1 DEF Rests
<1>2. ASSUME NEW term, NEW force, Show(current', messages', term, force)
      PROVE  Draws
  BY <1>2 DEF Show, Draws
<1>3. CASE \E s \in Tasks : Ask(s) \/ (\E t \in Targets : SelectTarget(s, t))
                            \/ (\E id \in DOMAIN of : FollowLink(s, id))
  BY <1>1, <1>3 DEF Ask, SelectTarget, FollowLink
<1>4. CASE Back
  BY <1>2, <1>4 DEF Back
<1>5. CASE WalkMatches
  BY <1>5, RevealedIs DEF WalkMatches, Rests
<1>6. CASE JumpToNewest
  <2> DEFINE p == Tallied(pane, 0)
  <2>1. pane' = [p EXCEPT !.pinned = TRUE]
    BY <1>6 DEF JumpToNewest
  <2>2. /\ IsPane(p) /\ p.dom = pane.dom /\ p.shown = pane.shown
        /\ p.marked = pane.marked /\ p.linked = pane.linked
    BY TalliedIs
  <2> HIDE DEF p
  <2>3. QED
    BY <2>1, <2>2 DEF Rests, IsPane
<1>7. CASE \E b \in BOOLEAN : SetFilter(b)
  BY <1>2, <1>7 DEF SetFilter
<1>8. ASSUME NEW b \in BOOLEAN, Scroll(b)
      PROVE  Rests
  <2> DEFINE p == [pane EXCEPT !.pinned = b]
  <2>1. /\ IsPane(p) /\ p.dom = pane.dom /\ p.shown = pane.shown
        /\ p.marked = pane.marked /\ p.linked = pane.linked
    BY DEF IsPane
  <2>2. \E u : pane' = Tallied(p, u)
    BY <1>8 DEF Scroll
  <2> HIDE DEF p
  <2>3. QED
    BY <2>1, <2>2, TalliedIs DEF Rests
<1>9. CASE \E s \in Tasks : Serve(s)
  <2>1. PICK s \in Tasks : Serve(s)
    BY <1>9
  <2>2. CASE AnswerFetch(s)
    BY <1>1, <1>2, <2>2 DEF AnswerFetch
  <2>3. CASE \/ AnswerLink(s) \/ ServeLeave(s) \/ ServeRemove(s) \/ ServeClear(s)
             \/ ServeSend(s) \/ ServeJoin(s)
    BY <1>1, <2>3 DEF AnswerLink, ServeLeave, ServeRemove, ServeClear, ServeSend, ServeJoin
  <2>4. QED
    BY <2>1, <2>2, <2>3 DEF Serve
<1>10. CASE \E s \in Tasks : Continue(s)
  <2>1. PICK s \in Tasks : Continue(s)
    BY <1>10
  <2>2. CASE RefreshPane(s)
    BY <1>1, <1>2, <2>2 DEF RefreshPane
  <2>3. CASE LandFetch(s)
    BY <1>1, <1>2, <2>3 DEF LandFetch
  <2>4. CASE MarkRead(s) \/ RenderClosed(s)
    BY <1>2, <2>4 DEF MarkRead, RenderClosed
  <2>5. CASE OpenLink(s) \/ HearClosed(s) \/ HearJoined(s)
    BY <1>1, <2>5 DEF OpenLink, HearClosed, HearJoined
  <2>6. CASE ShowWindow(s)
    <3>1. \E p \in Rendered(pane, current', messages', filter, FALSE) :
            pane' \in Revealed(p, task[s].anchor)
      BY <2>6 DEF ShowWindow
    <3>2. QED
      BY <3>1 DEF Draws
  <2>7. QED
    BY <2>1, <2>2, <2>3, <2>4, <2>5, <2>6 DEF Continue
<1>11. CASE \E t \in Targets : Post(t)
  BY <1>1, <1>11 DEF Post
<1>12. CASE ForgetLinked
  <2>1. pane' = [pane EXCEPT !.linked = 0, !.marked = {}]
    BY <1>12 DEF ForgetLinked
  <2>2. QED
    BY <2>1 DEF Rests, IsPane
<1>13. CASE UNCHANGED paneVars
  BY <1>1, <1>13 DEF paneVars
<1>14. QED
  BY <1>3, <1>4, <1>5, <1>6, <1>7, <1>8, <1>9, <1>10, <1>11, <1>12, <1>13
     DEF PaneNext, Gesture

LEMMA DrawnIs ==
  ASSUME IsPane(pane), Draws
  PROVE  /\ IsPane(pane') /\ pane'.shown \subseteq messages'
         /\ current' = Nowhere => pane'.shown = {}
<1>1. PICK term, force : \E p \in Rendered(pane, current', messages', term, force) :
        pane' = p \/ \E id : pane' \in Revealed(p, id)
  BY DEF Draws
<1>2. PICK p \in Rendered(pane, current', messages', term, force) :
        pane' = p \/ \E id : pane' \in Revealed(p, id)
  BY <1>1
<1>3. /\ IsPane(p) /\ p.shown \subseteq messages'
      /\ current' = Nowhere => p.shown = {}
  BY <1>2, RenderedIs
<1>4. IsPane(pane') /\ pane'.shown = p.shown
  BY <1>2, <1>3, RevealedIs
<1>5. QED
  BY <1>3, <1>4

(* The rows drawn are those remembered, and in order. *)
LEMMA OrderOfNone == InOrder({}) = << >>
<1>1. {} \in SUBSET Nat /\ IsFiniteSet({}) /\ Cardinality({}) = 0
  BY FS_EmptySet
<1>2. InOrder({}) \in Seq({}) /\ Len(InOrder({})) = 0
  BY <1>1, OrderIsByRank
<1>3. QED
  BY <1>2, EmptySeq

FiniteIds(S) == S \in SUBSET Nat /\ IsFiniteSet(S)

LEMMA DrawsTheView ==
  ASSUME IsPane(pane), DomIsTheView, FiniteIds(pane.shown), FiniteIds(messages'), Draws
  PROVE  DomIsTheView'
<1>1. PICK term, force : \E p \in Rendered(pane, current', messages', term, force) :
        pane' = p \/ \E id : pane' \in Revealed(p, id)
  BY DEF Draws
<1>2. PICK p \in Rendered(pane, current', messages', term, force) :
        pane' = p \/ \E id : pane' \in Revealed(p, id)
  BY <1>1
<1>3. IsPane(p) /\ p.linked = pane.linked /\ p.shown \subseteq messages'
  BY <1>2, RenderedIs
<1>4. FiniteIds(p.shown)
  BY <1>3, FS_Subset DEF FiniteIds
<1>5. p.dom = InOrder(p.shown) /\ p.marked = p.shown \cap {p.linked}
  <2>1. CASE p.dom = << >> /\ p.shown = {} /\ p.marked = {}
    BY <2>1, OrderOfNone
  <2>2. CASE Rebuilds(pane, p, p.shown)
    BY <1>3, <2>2 DEF Rebuilds
  <2>3. CASE AppendsTo(pane, p, p.shown)
    <3> DEFINE new == p.shown \ pane.shown
    <3>1. /\ pane.shown \cup new = p.shown /\ \A i \in new, j \in pane.shown : j < i
          /\ p.dom = pane.dom \o InOrder(new)
          /\ p.marked = pane.marked \cup (new \cap {pane.linked})
      BY <2>3 DEF AppendsTo
    <3>2. FiniteIds(new)
      BY <1>4, FS_Subset DEF FiniteIds
    <3> HIDE DEF new
    <3>3. InOrder(pane.shown \cup new) = InOrder(pane.shown) \o InOrder(new)
      BY <3>1, <3>2, OrderJoins DEF FiniteIds
    <3>4. p.dom = InOrder(p.shown)
      BY <3>1, <3>3 DEF DomIsTheView
    <3>5. p.marked = p.shown \cap {p.linked}
      BY <1>3, <3>1 DEF DomIsTheView
    <3>6. QED
      BY <3>4, <3>5
  <2>4. QED
    BY <1>2, <2>1, <2>2, <2>3, RenderedIs
<1>6. CASE pane' = p
  BY <1>5, <1>6 DEF DomIsTheView
<1>7. ASSUME NEW id, pane' \in Revealed(p, id)
      PROVE  DomIsTheView'
  <2>1. Range(p.dom) = p.shown
    BY <1>4, <1>5, OrderLists DEF FiniteIds
  <2>2. QED
    BY <1>3, <1>5, <1>7, <2>1, RevealedIs DEF DomIsTheView
<1>8. QED
  BY <1>2, <1>6, <1>7

LEMMA RestsOnTheView ==
  ASSUME DomIsTheView, FiniteIds(pane.shown), 0 \notin pane.shown, Rests
  PROVE  DomIsTheView'
<1>1. Range(pane.dom) = pane.shown
  BY OrderLists DEF FiniteIds, DomIsTheView
<1>2. QED
  BY <1>1 DEF DomIsTheView, Rests

LEMMA Growth ==
  ASSUME NEW posts \in Seq(Targets), NEW t \in Targets
  PROVE  /\ Append(posts, t) \in Seq(Targets) /\ Len(Append(posts, t)) = Len(posts) + 1
         /\ DOMAIN posts \subseteq DOMAIN Append(posts, t)
         /\ \A i \in DOMAIN posts : Append(posts, t)[i] = posts[i]
         /\ \A i \in DOMAIN Append(posts, t) \ DOMAIN posts :
              i = Len(posts) + 1 /\ Append(posts, t)[i] = t
         /\ \A i \in DOMAIN posts : i \in 1..Len(posts)
<1> DEFINE n == Len(posts)
           later == Append(posts, t)
<1>1. n \in Nat /\ DOMAIN posts = 1..n
  OBVIOUS
<1>2. /\ later \in Seq(Targets) /\ Len(later) = n + 1 /\ DOMAIN later = 1..(n + 1)
      /\ later[n + 1] = t /\ \A i \in 1..n : later[i] = posts[i]
  BY AppendProperties
<1>3. QED
  <2> HIDE DEF n, later
  <2>1. 1..n \subseteq 1..(n + 1) /\ \A i \in 1..(n + 1) \ 1..n : i = n + 1
    BY <1>1
  <2>2. QED
    BY <1>1, <1>2, <2>1 DEF n, later

(* What a step may do to the server. *)
Reads(s) ==
  LET r == task[s].target IN
  /\ task[s].step = "marking" /\ UNCHANGED <<of, gone, joined, floor>>
  /\ readUpTo' = IF r \in joined THEN Advance(r, Max(task[s].got)) ELSE readUpTo
Forgets ==
  /\ UNCHANGED <<of, floor>> /\ gone \subseteq gone' /\ joined' \subseteq joined
  /\ readUpTo' \in [Rooms -> Nat] /\ \A r \in Rooms : readUpTo'[r] \in {0, readUpTo[r]}
Hears(t) ==
  of' = Append(of, t) /\ UNCHANGED <<gone, joined, readUpTo, floor>>
Speaks(t) ==
  PostOwn(t) /\ gone' = gone /\ joined' \in {joined, joined \cup ({t} \cap Rooms)}

Serves ==
  \/ UNCHANGED server
  \/ \E s \in Tasks : Reads(s)
  \/ Forgets
  \/ \E t \in Targets : Hears(t) \/ Speaks(t)

LEMMA ServerStep ==
  ASSUME PaneBase, [PaneNext]_paneVars
  PROVE  Serves
<1>1. CASE UNCHANGED server
  BY <1>1 DEF Serves
<1>2. CASE \/ \E s \in Tasks : Ask(s) \/ (\E t \in Targets : SelectTarget(s, t))
                                \/ (\E id \in DOMAIN of : FollowLink(s, id))
           \/ Back \/ WalkMatches \/ JumpToNewest \/ ForgetLinked
           \/ \E b \in BOOLEAN : SetFilter(b) \/ Scroll(b)
  BY <1>1, <1>2 DEF Ask, SelectTarget, FollowLink, Back, WalkMatches, JumpToNewest,
                    ForgetLinked, SetFilter, Scroll, Looks
<1>3. ASSUME NEW s \in Tasks, Continue(s)
      PROVE  Serves
  <2>1. CASE MarkRead(s)
    BY <2>1 DEF MarkRead, Serves, Reads
  <2>2. CASE \/ RefreshPane(s) \/ LandFetch(s) \/ OpenLink(s) \/ ShowWindow(s)
             \/ HearClosed(s) \/ RenderClosed(s) \/ HearJoined(s)
    BY <1>1, <2>2 DEF RefreshPane, LandFetch, OpenLink, ShowWindow, HearClosed, RenderClosed,
                      HearJoined
  <2>3. QED
    BY <1>3, <2>1, <2>2 DEF Continue
<1>4. CASE \E t \in Targets : Post(t)
  BY <1>4 DEF Post, Serves, Hears
<1>5. ASSUME NEW s \in Tasks, Serve(s)
      PROVE  Serves
  <2> DEFINE r == task[s].target
  <2>1. Carries(task[s], of, gone, fetched) /\ readUpTo \in [Rooms -> Nat]
    BY DEF PaneBase
  <2>2. CASE AnswerFetch(s) \/ AnswerLink(s)
    BY <1>1, <2>2 DEF AnswerFetch, AnswerLink
  <2>3. CASE ServeLeave(s)
    <3>1. r \in Rooms
      BY <2>1, <2>3 DEF ServeLeave, At, Carries
    <3>2. Forgets
      BY <2>1, <2>3, <3>1 DEF ServeLeave, Forgets
    <3>3. QED
      BY <3>2 DEF Serves
  <2>4. CASE ServeRemove(s)
    <3>1. r \in Rooms
      BY <2>1, <2>4 DEF ServeRemove, At, Carries
    <3>2. Forgets
      BY <2>1, <2>4, <3>1 DEF ServeRemove, Forgets
    <3>3. QED
      BY <3>2 DEF Serves
  <2>5. CASE ServeClear(s)
    <3>1. Forgets
      BY <2>1, <2>5 DEF ServeClear, Forgets
    <3>2. QED
      BY <3>1 DEF Serves
  <2>6. CASE ServeSend(s)
    <3>1. r \in Targets
      BY <2>1, <2>6 DEF ServeSend, At, Carries
    <3>2. UNCHANGED server \/ Speaks(r)
      BY <2>6 DEF ServeSend, Speaks, server
    <3>3. QED
      BY <3>1, <3>2 DEF Serves
  <2>7. CASE ServeJoin(s)
    <3>1. r \in Rooms /\ r \in Targets
      BY <2>1, <2>7 DEF ServeJoin, At, Carries, Targets
    <3>2. UNCHANGED server \/ Speaks(r)
      BY <2>7, <3>1 DEF ServeJoin, Speaks, server
    <3>3. QED
      BY <3>1, <3>2 DEF Serves
  <2>8. QED
    BY <1>5, <2>2, <2>3, <2>4, <2>5, <2>6, <2>7 DEF Serve
<1>6. CASE UNCHANGED paneVars
  BY <1>1, <1>6 DEF paneVars, server
<1>7. QED
  BY <1>2, <1>3, <1>4, <1>5, <1>6 DEF PaneNext, Gesture

LEMMA MaxOfTwo ==
  ASSUME NEW x \in Nat, NEW y \in Nat
  PROVE  Max({x, y}) \in {x, y} /\ x <= Max({x, y}) /\ y <= Max({x, y})
<1>1. IsFiniteSet({x, y})
  <2>1. {x, y} = {x} \cup {y}
    OBVIOUS
  <2>2. IsFiniteSet({x})
    BY FS_Singleton
  <2>3. IsFiniteSet({x} \cup {y})
    BY <2>2, FS_AddElement
  <2>4. QED
    BY <2>1, <2>3
<1>2. QED
  BY <1>1, MaxIsLast

LEMMA Advances ==
  ASSUME readUpTo \in [Rooms -> Nat], NEW r \in Rooms, NEW id \in Nat
  PROVE  /\ Advance(r, id) \in [Rooms -> Nat] /\ Advance(r, id)[r] \in {readUpTo[r], id}
         /\ \A x \in Rooms : x # r => Advance(r, id)[x] = readUpTo[x]
<1>1. Max({readUpTo[r], id}) \in {readUpTo[r], id}
  BY MaxOfTwo
<1> DEFINE m == Max({readUpTo[r], id})
<1>2. Advance(r, id) = [readUpTo EXCEPT ![r] = m]
  BY DEF Advance
<1>3. m \in Nat
  BY <1>1
<1> HIDE DEF m
<1>4. QED
  BY <1>1, <1>2, <1>3 DEF m

(* What a step may fetch, and for whom. *)
Fetches ==
  \/ fetched' = fetched /\ messages' \in {messages, {}}
  \/ /\ fetched' = fetched \cup messages' /\ of' = of
     /\ \E s \in Tasks : messages' \in {task[s].got, task[s].around}

LEMMA FetchStep ==
  ASSUME [PaneNext]_paneVars
  PROVE  Fetches
<1>1. CASE UNCHANGED <<messages, fetched>>
  BY <1>1 DEF Fetches
<1>2. CASE \/ \E s \in Tasks : Ask(s) \/ (\E t \in Targets : SelectTarget(s, t))
                                \/ (\E id \in DOMAIN of : FollowLink(s, id))
           \/ Back \/ WalkMatches \/ JumpToNewest \/ ForgetLinked
           \/ (\E b \in BOOLEAN : SetFilter(b) \/ Scroll(b))
           \/ (\E t \in Targets : Post(t))
  BY <1>1, <1>2 DEF Ask, SelectTarget, FollowLink, Back, WalkMatches, JumpToNewest,
                    ForgetLinked, SetFilter, Scroll, Looks, Post
<1>3. ASSUME NEW s \in Tasks, Continue(s)
      PROVE  Fetches
  <2>1. CASE LandFetch(s)
    BY <2>1 DEF LandFetch, Fetches, server
  <2>2. CASE ShowWindow(s)
    BY <2>2 DEF ShowWindow, Fetches, server
  <2>3. CASE \/ RefreshPane(s) \/ MarkRead(s) \/ OpenLink(s)
             \/ HearClosed(s) \/ RenderClosed(s) \/ HearJoined(s)
    BY <1>1, <2>3 DEF RefreshPane, MarkRead, OpenLink, HearClosed, RenderClosed, HearJoined
  <2>4. QED
    BY <1>3, <2>1, <2>2, <2>3 DEF Continue
<1>4. ASSUME NEW s \in Tasks, Serve(s)
      PROVE  Fetches
  <2>1. CASE AnswerFetch(s)
    BY <2>1 DEF AnswerFetch, Fetches
  <2>2. CASE \/ AnswerLink(s) \/ ServeLeave(s) \/ ServeRemove(s) \/ ServeClear(s)
             \/ ServeSend(s) \/ ServeJoin(s)
    BY <1>1, <2>2 DEF AnswerLink, ServeLeave, ServeRemove, ServeClear, ServeSend, ServeJoin
  <2>3. QED
    BY <1>4, <2>1, <2>2 DEF Serve
<1>5. CASE UNCHANGED paneVars
  BY <1>1, <1>5 DEF paneVars
<1>6. QED
  BY <1>2, <1>3, <1>4, <1>5 DEF PaneNext, Gesture

LEMMA IdsOfLog ==
  ASSUME NEW posts \in Seq(Targets), NEW S, S \subseteq DOMAIN posts
  PROVE  /\ FiniteIds(S) /\ 0 \notin S /\ Len(posts) \in Nat
         /\ \A i \in S : i \in Nat /\ i <= Len(posts)
<1> DEFINE n == Len(posts)
<1>1. n \in Nat /\ DOMAIN posts = 1..n
  OBVIOUS
<1> HIDE DEF n
<1>2. IsFiniteSet(1..n)
  BY <1>1, FS_Interval
<1>3. IsFiniteSet(S)
  BY <1>1, <1>2, FS_Subset
<1>4. \A i \in S : i \in Nat /\ i <= n /\ i # 0
  BY <1>1
<1>5. QED
  BY <1>1, <1>3, <1>4 DEF FiniteIds, n

(* The server and the page after a step: only ids there are, only forward. *)
Forward ==
  /\ of' \in Seq(Targets) /\ (of' = of \/ \E t \in Targets : of' = Append(of, t))
  /\ gone \subseteq gone' /\ joined' \subseteq Rooms
  /\ readUpTo' \in [Rooms -> Nat] /\ floor' \in [Rooms -> Nat]
  /\ \A r \in Rooms : readUpTo'[r] <= Len(of')

LEMMA ServerForward ==
  ASSUME PaneBase, [PaneNext]_paneVars
  PROVE  Forward
<1>1. /\ of \in Seq(Targets) /\ joined \subseteq Rooms
      /\ readUpTo \in [Rooms -> Nat] /\ floor \in [Rooms -> Nat]
      /\ \A r \in Rooms : readUpTo[r] <= Len(of)
  BY DEF PaneBase
<1>2. Len(of) \in Nat
  BY <1>1
<1> DEFINE n == Len(of)
<1>3. ASSUME NEW t \in Targets
      PROVE  /\ Append(of, t) \in Seq(Targets) /\ Len(Append(of, t)) = n + 1
             /\ \A r \in Rooms : readUpTo[r] <= n + 1
  <2>1. Append(of, t) \in Seq(Targets) /\ Len(Append(of, t)) = n + 1
    BY <1>1, Growth
  <2> HIDE DEF n
  <2>2. ASSUME NEW r \in Rooms PROVE readUpTo[r] <= n + 1
    <3>1. readUpTo[r] \in Nat /\ n \in Nat /\ readUpTo[r] <= n
      BY <1>1, <1>2 DEF n
    <3>2. QED
      BY <3>1
  <2>3. QED
    BY <2>1, <2>2
<1>4. CASE UNCHANGED server
  BY <1>1, <1>4 DEF server, Forward
<1>5. ASSUME NEW s \in Tasks, Reads(s)
      PROVE  Forward
  <2> DEFINE r == task[s].target
             m == Max(task[s].got)
  <2>1. /\ task[s].got # {} /\ r \in Rooms /\ task[s].got \subseteq DOMAIN of
    BY <1>5 DEF PaneBase, Reads, Carries, Belongs
  <2>2. m \in Nat /\ m <= n
    <3>1. FiniteIds(task[s].got) /\ \A i \in task[s].got : i \in Nat /\ i <= n
      BY <1>1, <2>1, IdsOfLog
    <3>2. m \in task[s].got
      BY <2>1, <3>1, MaxIsLast DEF FiniteIds
    <3>3. QED
      BY <3>1, <3>2
  <2> HIDE DEF m, r, n
  <2>3. Advance(r, m) \in [Rooms -> Nat] /\ \A x \in Rooms : Advance(r, m)[x] \in {readUpTo[x], m}
    BY <1>1, <2>1, <2>2, Advances DEF r
  <2>4. \A x \in Rooms : Advance(r, m)[x] <= n
    BY <1>1, <2>2, <2>3 DEF n
  <2>5. readUpTo' \in {readUpTo, Advance(r, m)} /\ UNCHANGED <<of, gone, joined, floor>>
    BY <1>5 DEF Reads, r, m
  <2>6. QED
    BY <1>1, <2>3, <2>4, <2>5 DEF Forward, n
<1>6. CASE Forgets
  <2>1. \A r \in Rooms : readUpTo'[r] <= n
    <3> HIDE DEF n
    <3>1. ASSUME NEW r \in Rooms PROVE readUpTo'[r] <= n
      <4>1. readUpTo'[r] = 0 \/ readUpTo'[r] = readUpTo[r]
        BY <1>6 DEF Forgets
      <4>2. readUpTo[r] <= n /\ n \in Nat
        BY <1>1, <1>2 DEF n
      <4>3. QED
        BY <4>1, <4>2
    <3>2. QED
      BY <3>1
  <2>2. QED
    BY <1>1, <1>6, <2>1 DEF Forgets, Forward
<1>7. ASSUME NEW t \in Targets, Hears(t)
      PROVE  Forward
  BY <1>1, <1>3, <1>7 DEF Hears, Forward
<1>8. ASSUME NEW t \in Targets, Speaks(t)
      PROVE  Forward
  <2>1. of' = Append(of, t) /\ gone' = gone /\ joined' \subseteq Rooms
    BY <1>1, <1>8 DEF Speaks, PostOwn
  <2>2. NextId = n + 1 /\ n + 1 \in Nat
    BY <1>2 DEF NextId
  <2>3. CASE t \notin Rooms
    <3>1. readUpTo' = readUpTo /\ floor' = floor
      BY <1>8, <2>3 DEF Speaks, PostOwn
    <3>2. QED
      BY <1>1, <1>3, <2>1, <3>1 DEF Forward
  <2>4. CASE t \in Rooms
    <3>1. readUpTo' = Advance(t, n + 1) /\ floor' = [floor EXCEPT ![t] = n + 1]
      BY <1>8, <2>2, <2>4 DEF Speaks, PostOwn
    <3>2. /\ readUpTo' \in [Rooms -> Nat]
          /\ \A x \in Rooms : readUpTo'[x] \in {readUpTo[x], n + 1}
      <4> HIDE DEF n
      <4>1. QED
        BY <1>1, <2>2, <2>4, <3>1, Advances
    <3>3. \A x \in Rooms : readUpTo'[x] <= n + 1
      <4> HIDE DEF n
      <4>1. QED
        BY <1>3, <2>2, <3>2
    <3>4. floor' \in [Rooms -> Nat]
      BY <1>1, <2>2, <3>1
    <3>5. QED
      BY <1>3, <2>1, <3>2, <3>3, <3>4 DEF Forward
  <2>5. QED
    BY <2>3, <2>4
<1>9. QED
  BY <1>4, <1>5, <1>6, <1>7, <1>8, ServerStep DEF Serves

LEMMA LogGrows ==
  ASSUME PaneBase, [PaneNext]_paneVars
  PROVE  DOMAIN of \subseteq DOMAIN of' /\ \A i \in DOMAIN of : of'[i] = of[i]
<1>1. Forward /\ of \in Seq(Targets)
  BY ServerForward DEF PaneBase
<1>2. CASE of' = of
  BY <1>2
<1>3. ASSUME NEW t \in Targets, of' = Append(of, t)
      PROVE  DOMAIN of \subseteq DOMAIN of' /\ \A i \in DOMAIN of : of'[i] = of[i]
  BY <1>1, <1>3, Growth
<1>4. QED
  BY <1>1, <1>2, <1>3 DEF Forward

LEMMA FetchedKept ==
  ASSUME PaneBase, [PaneNext]_paneVars
  PROVE  fetched \subseteq fetched' /\ fetched' \subseteq DOMAIN of' /\ messages' \subseteq DOMAIN of'
<1>1. Fetches /\ fetched \subseteq DOMAIN of /\ messages \subseteq DOMAIN of
  BY FetchStep DEF PaneBase
<1>2. DOMAIN of \subseteq DOMAIN of'
  BY LogGrows
<1>3. \A s \in Tasks : task[s].got \subseteq DOMAIN of /\ task[s].around \subseteq DOMAIN of
  BY DEF PaneBase, Carries, Belongs
<1>4. QED
  BY <1>1, <1>2, <1>3 DEF Fetches

(* One handler at a time moves on, with what it carries in order. *)
Puts(s, c) ==
  c \in Task /\ task' = [task EXCEPT ![s] = c] /\ Carries(c, of', gone', fetched')

LEMMA BeginPuts ==
  ASSUME NEW s \in Tasks, NEW kind \in Kinds, NEW target \in Targets \cup {Nowhere},
         NEW id \in Nat, Begin(s, kind, target, "asked", id),
         kind = "link" => id \in DOMAIN of', kind = "send" => target \in Targets,
         kind \in {"leave", "/leave", "remove", "join"} => target \in Rooms
  PROVE  /\ task[s].step = "idle"
         /\ \E c : Puts(s, c) /\ c.kind = kind /\ c.target = target /\ c.step = "asked"
<1> DEFINE c == [Idle EXCEPT !.kind = kind, !.step = "asked", !.target = target, !.anchor = id]
<1>1. task[s].step = "idle" /\ task' = [task EXCEPT ![s] = c]
  BY DEF Begin
<1>2. Idle \in Task /\ Idle.got = {} /\ Idle.around = {}
  BY DEF Idle, Task, Kinds, Steps
<1>3. /\ c \in Task /\ c.got = {} /\ c.around = {}
      /\ c.kind = kind /\ c.step = "asked" /\ c.target = target /\ c.anchor = id
  BY <1>2 DEF Task, Steps
<1> HIDE DEF c
<1>4. c.kind = kind /\ c.target = target /\ c.step = "asked"
  BY <1>3
<1>5. Carries(c, of', gone', fetched')
  BY <1>3, EmptyCarries
<1>6. Puts(s, c)
  BY <1>1, <1>3, <1>5 DEF Puts
<1>7. QED
  BY <1>1, <1>4, <1>6

LEMMA EndPuts ==
  ASSUME NEW s, End(s)
  PROVE  Puts(s, Idle)
<1>1. Idle \in Task
  BY DEF Idle, Task, Kinds, Steps
<1>2. Carries(Idle, of', gone', fetched')
  BY EmptyCarries DEF Idle
<1>3. QED
  BY <1>1, <1>2 DEF End, Puts

LEMMA Later ==
  ASSUME PaneBase, [PaneNext]_paneVars, NEW c, Carries(c, of, gone, fetched)
  PROVE  Carries(c, of', gone', fetched')
<1>1. of \in Seq(Targets) /\ Forward /\ fetched \subseteq fetched'
  BY ServerForward, FetchedKept DEF PaneBase
<1>2. QED
  BY <1>1, StillCarries DEF Forward

(* The same handler a step further, with the same load. *)
LEMMA GoPuts ==
  ASSUME PaneBase, [PaneNext]_paneVars, NEW s \in Tasks, NEW kind \in {task[s].kind, "open"},
         NEW step \in Steps, step # "marking",
         task' = [task EXCEPT ![s] = [task[s] EXCEPT !.kind = kind, !.step = step]]
  PROVE  LET c == [task[s] EXCEPT !.kind = kind, !.step = step] IN
         /\ Puts(s, c) /\ c.kind = kind /\ c.step = step /\ c.target = task[s].target
         /\ c.anchor = task[s].anchor
<1> DEFINE d == task[s]
           c == [d EXCEPT !.kind = kind, !.step = step]
<1>1. d \in Task /\ Carries(d, of', gone', fetched')
  BY Later DEF PaneBase
<1>2. kind \in Kinds
  BY <1>1 DEF Task, Kinds
<1> HIDE DEF d
<1>3. /\ c \in Task /\ c.kind = kind /\ c.step = step
      /\ c.target = d.target /\ c.got = d.got /\ c.around = d.around /\ c.anchor = d.anchor
  BY <1>1, <1>2 DEF Task
<1>4. kind \in {d.kind, "open"} /\ task' = [task EXCEPT ![s] = c]
  BY DEF d
<1> HIDE DEF c
<1>5. Carries(c, of', gone', fetched')
  BY <1>1, <1>3, <1>4, SameLoad
<1>6. Puts(s, c) /\ c.kind = kind /\ c.step = step /\ c.target = d.target /\ c.anchor = d.anchor
  BY <1>3, <1>4, <1>5 DEF Puts
<1>7. QED
  BY <1>6 DEF c, d

LEMMA StepPuts ==
  ASSUME PaneBase, [PaneNext]_paneVars, NEW s \in Tasks, NEW step \in Steps, step # "marking",
         Goto(s, step)
  PROVE  \E c : /\ Puts(s, c) /\ c.kind = task[s].kind /\ c.step = step
                /\ c.target = task[s].target /\ c.anchor = task[s].anchor
<1>1. task \in [Tasks -> Task] /\ task[s] \in Task
  BY DEF PaneBase
<1>2. task' = [task EXCEPT ![s] = [task[s] EXCEPT !.step = step]]
  BY DEF Goto
<1>3. [task[s] EXCEPT !.step = step] = [task[s] EXCEPT !.kind = task[s].kind, !.step = step]
  BY <1>1 DEF Task
<1>4. QED
  <2> DEFINE c == [task[s] EXCEPT !.kind = task[s].kind, !.step = step]
  <2>1. task[s].kind \in {task[s].kind, "open"} /\ task' = [task EXCEPT ![s] = c]
    BY <1>2, <1>3
  <2>2. /\ Puts(s, c) /\ c.kind = task[s].kind /\ c.step = step /\ c.target = task[s].target
        /\ c.anchor = task[s].anchor
    BY <2>1, GoPuts
  <2>3. QED
    BY <2>2

LEMMA DonePuts ==
  ASSUME PaneBase, [PaneNext]_paneVars, NEW s \in Tasks, Done(s)
  PROVE  \E c : /\ Puts(s, c)
                /\ \/ c = Idle
                   \/ c.kind = task[s].kind /\ c.kind = "open" /\ c.target = task[s].target
<1>1. CASE End(s)
  BY <1>1, EndPuts
<1>2. CASE task[s].kind = "open" /\ Goto(s, "window")
  <2>1. "window" \in Steps
    BY DEF Steps
  <2>2. QED
    BY <1>2, <2>1, StepPuts
<1>3. QED
  BY <1>1, <1>2 DEF Done, Opened

LEMMA AnswerPuts ==
  ASSUME PaneBase, [PaneNext]_paneVars, NEW s \in Tasks, AnswerFetch(s)
  PROVE  \E c : /\ Puts(s, c)
                /\ \/ c.kind = task[s].kind /\ c.step = "answered" /\ c.target = task[s].target
                   \/ Refused(task[s].target)
<1> DEFINE d == task[s]
           got == RecentMessages(d.target)
           c == [d EXCEPT !.step = "answered", !.got = got]
<1>1. CASE Refused(d.target)
  BY <1>1, DonePuts DEF AnswerFetch
<1>2. CASE ~Refused(d.target)
  <2>1. task' = [task EXCEPT ![s] = c] /\ UNCHANGED server
    BY <1>2 DEF AnswerFetch
  <2>2. d \in Task /\ Carries(d, of, gone, fetched) /\ of \in Seq(Targets)
    BY DEF PaneBase
  <2>3. d.kind \in {"open", "refresh"}
    BY DEF AnswerFetch
  <2>4. got \subseteq Log(d.target) /\ \A i \in Log(d.target) :
          i \in got \/ Cardinality({j \in got : j > i}) >= Limit
    <3>1. FiniteIds(Log(d.target))
      BY <2>2, IdsOfLog DEF Log
    <3>2. \A i \in Log(d.target) :
            i \in got \/ Cardinality({j \in got : j > i}) >= Limit
      BY <3>1, PageIsFull, LimitAssumption DEF FiniteIds, RecentMessages
    <3>3. QED
      BY <3>2 DEF RecentMessages, Newest
  <2>5. got \subseteq Nat
    BY <2>2, <2>4, IdsOfLog DEF Log
  <2> HIDE DEF d, got
  <2>6. /\ c \in Task /\ c.kind = d.kind /\ c.step = "answered"
        /\ c.target = d.target /\ c.got = got /\ c.around = d.around /\ c.anchor = d.anchor
    BY <2>2, <2>5 DEF Task, Steps
  <2> HIDE DEF c
  <2>7. Carries(c, of, gone, fetched)
    <3>1. Belongs(c.got, c.target, of) /\ Belongs(c.around, c.target, of)
      BY <2>2, <2>4, <2>6 DEF Carries, Belongs, Log
    <3>2. \A i \in DOMAIN of \ gone : of[i] = c.target =>
            i \in c.got \/ Cardinality({j \in c.got : j > i}) >= Limit
      BY <2>4, <2>6 DEF Log
    <3>3. QED
      BY <2>3, <2>6, <3>1, <3>2 DEF Carries
  <2>8. Carries(c, of', gone', fetched')
    BY <2>7, Later
  <2>9. QED
    BY <2>1, <2>6, <2>8 DEF Puts, d
<1>3. QED
  BY <1>1, <1>2

LEMMA MarkingPuts ==
  ASSUME PaneBase, [PaneNext]_paneVars, NEW s \in Tasks, Goto(s, "marking"),
         task[s].target \in Rooms, task[s].got # {}, task[s].got \subseteq fetched',
         task[s].kind \in {"open", "refresh"}
  PROVE  \E c : /\ Puts(s, c) /\ c.kind = task[s].kind /\ c.step = "marking"
                /\ c.target = task[s].target
<1> DEFINE d == task[s]
           c == [d EXCEPT !.step = "marking"]
<1>1. d \in Task /\ Carries(d, of', gone', fetched')
  BY Later DEF PaneBase
<1>2. task' = [task EXCEPT ![s] = c]
  BY DEF Goto
<1>3. d.target \in Rooms /\ d.got # {} /\ d.got \subseteq fetched' /\ d.kind \in {"open", "refresh"}
  OBVIOUS
<1> HIDE DEF d
<1>4. /\ c \in Task /\ c.kind = d.kind /\ c.step = "marking"
      /\ c.target = d.target /\ c.got = d.got /\ c.around = d.around /\ c.anchor = d.anchor
  BY <1>1 DEF Task, Steps
<1> HIDE DEF c
<1>5. Carries(c, of', gone', fetched')
  BY <1>1, <1>3, <1>4 DEF Carries
<1>6. QED
  BY <1>2, <1>4, <1>5 DEF Puts, d

LEMMA LinkPuts ==
  ASSUME PaneBase, [PaneNext]_paneVars, NEW s \in Tasks, AnswerLink(s)
  PROVE  \E c : Puts(s, c)
<1> DEFINE d == task[s]
           t == of[d.anchor]
           around == AroundWindow(d.anchor)
           c == [d EXCEPT !.step = "answered", !.target = t, !.around = around]
<1>1. CASE End(s)
  BY <1>1, EndPuts
<1>2. CASE task' = [task EXCEPT ![s] = c]
  <2>1. /\ d \in Task /\ Carries(d, of', gone', fetched') /\ Carries(d, of, gone, fetched)
        /\ of \in Seq(Targets)
    BY Later DEF PaneBase
  <2>2. d.kind = "link" /\ d.got = {} /\ d.anchor \in DOMAIN of
    BY <2>1 DEF AnswerLink, At, Carries
  <2>3. t \in Targets /\ of' = of
    BY <2>1, <2>2 DEF AnswerLink, server
  <2>4. around \subseteq Log(t)
    BY DEF AroundWindow, Newest, Oldest
  <2>5. around \subseteq Nat /\ Belongs(around, t, of)
    BY <2>1, <2>4, IdsOfLog DEF Log, Belongs
  <2> HIDE DEF t, around, d
  <2>6. /\ c \in Task /\ c.kind = "link" /\ c.step = "answered" /\ c.target = t /\ c.got = {}
        /\ c.around = around /\ c.anchor = d.anchor
    BY <2>1, <2>2, <2>3, <2>5 DEF Task, Steps
  <2> HIDE DEF c
  <2>7. Carries(c, of', gone', fetched')
    BY <2>1, <2>2, <2>3, <2>5, <2>6 DEF Carries, Belongs
  <2>8. QED
    BY <1>2, <2>6, <2>7 DEF Puts
<1>3. QED
  BY <1>1, <1>2 DEF AnswerLink

(* A handler that will show its conversation, t: it has not fetched it yet *)
(* or has not drawn it yet.                                                *)
Opening(c, t) == c.target = t /\ c.kind = "open" /\ c.step \in {"asked", "answered"}
Drawing(c, t) ==
  /\ c.target = t
  /\ \/ c.kind = "open" /\ c.step # "idle"
     \/ c.kind = "refresh" /\ c.step = "marking"

AnyOpening == \E s \in Tasks : Opening(task[s], current)
AnyDrawing == \E s \in Tasks : Drawing(task[s], current)

Shows == pane'.shown \subseteq messages'

Arrives ==
  /\ current' = current
  /\ late' \/ Belongs(messages', current', of)
  /\ Draws \/ late' \/ AnyDrawing'
Stays ==
  /\ current' = current /\ messages' = messages /\ late' = late
  /\ AnyOpening => AnyOpening'
  /\ Draws \/ (AnyDrawing => AnyDrawing')

Moves ==
  /\ task' = task \/ \E s \in Tasks : \E c : Puts(s, c)
  /\ current' = Nowhere \/ AnyOpening' \/ Arrives \/ Stays

LEMMA Turned ==
  ASSUME PaneBase, NEW s \in Tasks, NEW c, Puts(s, c), NEW t
  PROVE  /\ Opening(c, t) => \E x \in Tasks : Opening(task'[x], t)
         /\ Drawing(c, t) => \E x \in Tasks : Drawing(task'[x], t)
         /\ (Opening(task[s], t) => Opening(c, t)) =>
              ((\E x \in Tasks : Opening(task[x], t)) => \E x \in Tasks : Opening(task'[x], t))
         /\ (Drawing(task[s], t) => Drawing(c, t)) =>
              ((\E x \in Tasks : Drawing(task[x], t)) => \E x \in Tasks : Drawing(task'[x], t))
<1>1. task'[s] = c /\ \A x \in Tasks : x # s => task'[x] = task[x]
  BY DEF PaneBase, Puts
<1>2. QED
  BY <1>1

(* The page as it was, one handler further: neither an opening nor a       *)
(* drawing one is gone.                                                    *)
LEMMA OneOn ==
  ASSUME PaneBase, NEW s \in Tasks, NEW c, Puts(s, c),
         current' = current, messages' = messages, late' = late,
         Opening(task[s], current) => Opening(c, current),
         Draws \/ (Drawing(task[s], current) => Drawing(c, current))
  PROVE  Moves
<1>1. AnyOpening => AnyOpening'
  BY Turned DEF AnyOpening
<1>2. Draws \/ (AnyDrawing => AnyDrawing')
  BY Turned DEF AnyDrawing
<1>3. QED
  BY <1>1, <1>2 DEF Moves, Stays

LEMMA NoneOn ==
  ASSUME task' = task, current' = current, messages' = messages, late' = late
  PROVE  Moves
BY DEF Moves, Stays, AnyOpening, AnyDrawing

LEMMA OpenOn ==
  ASSUME PaneBase, NEW s \in Tasks, NEW c, Puts(s, c), Opening(c, current')
  PROVE  Moves
<1>1. \E x \in Tasks : Opening(task'[x], current')
  BY Turned
<1>2. QED
  BY <1>1 DEF Moves, AnyOpening

LEMMA HandlerStep ==
  ASSUME PaneBase, [PaneNext]_paneVars
  PROVE  Moves
<1>t. /\ task \in [Tasks -> Task] /\ current \in Targets \cup {Nowhere}
      /\ \A s \in Tasks : Carries(task[s], of, gone, fetched)
  BY DEF PaneBase
<1>a. ASSUME NEW s \in Tasks, NEW kind \in Kinds, NEW target \in Targets \cup {Nowhere},
             NEW id \in Nat, Begin(s, kind, target, "asked", id),
             kind = "link" => id \in DOMAIN of', kind = "send" => target \in Targets,
             kind \in {"leave", "/leave", "remove", "join"} => target \in Rooms,
             current' = current, messages' = messages, late' = late
      PROVE  Moves
  <2>1. task[s].step = "idle" /\ \E c : Puts(s, c)
    BY <1>a, BeginPuts
  <2>2. ~Opening(task[s], current) /\ ~Drawing(task[s], current)
    BY <2>1 DEF Opening, Drawing
  <2>3. QED
    BY <1>a, <2>1, <2>2, OneOn
<1>b. ASSUME NEW s \in Tasks, End(s), task[s].kind # "open", task[s].step # "marking",
             current' = current, messages' = messages, late' = late
      PROVE  Moves
  <2>1. Puts(s, Idle) /\ ~Opening(task[s], current) /\ ~Drawing(task[s], current)
    BY <1>b, EndPuts DEF Opening, Drawing
  <2>2. QED
    BY <1>b, <2>1, OneOn
<1>1. CASE \E s \in Tasks : Ask(s)
  <2>1. PICK s \in Tasks : Ask(s)
    BY <1>1
  <2>2. UNCHANGED <<current, messages, late, of>>
    BY <2>1 DEF Ask, server
  <2>3. Rooms \subseteq Targets
    BY DEF Targets
  <2>4. {"leave", "/leave", "remove", "join", "clear", "send"} \subseteq Kinds
    BY DEF Kinds
  <2>5. CASE AskSend(s)
    <3>1. current \in Targets
      BY <1>t, <2>5 DEF AskSend
    <3>2. QED
      BY <1>a, <2>2, <2>4, <2>5, <3>1 DEF AskSend
  <2>6. CASE \E r \in Rooms : AskLeave(s, r) \/ AskRemove(s, r) \/ AskJoin(s, r)
    BY <1>a, <2>2, <2>3, <2>4, <2>6 DEF AskLeave, AskRemove, AskJoin
  <2>7. CASE \E t \in Targets : AskClear(s, t)
    BY <1>a, <2>2, <2>4, <2>7 DEF AskClear
  <2>8. QED
    BY <2>1, <2>5, <2>6, <2>7 DEF Ask
<1>2. ASSUME NEW s \in Tasks, NEW t \in Targets, SelectTarget(s, t)
      PROVE  Moves
  <2>1. current' = t /\ Begin(s, "open", t, "asked", 0)
    BY <1>2 DEF SelectTarget, Enter
  <2>2. "open" \in Kinds
    BY DEF Kinds
  <2>3. \E c : Puts(s, c) /\ c.kind = "open" /\ c.target = t /\ c.step = "asked"
    BY <2>1, <2>2, BeginPuts
  <2>4. QED
    BY <2>1, <2>3, OpenOn DEF Opening
<1>3. ASSUME NEW s \in Tasks, NEW id \in DOMAIN of, FollowLink(s, id)
      PROVE  Moves
  <2>1. id \in Nat /\ "link" \in Kinds
    BY IdsOfLog DEF PaneBase, Kinds
  <2>2. Begin(s, "link", Nowhere, "asked", id) /\ UNCHANGED <<current, messages, late, of>>
    BY <1>3 DEF FollowLink, server
  <2>3. QED
    BY <1>a, <2>1, <2>2
<1>4. CASE Back
  BY <1>4 DEF Back, Moves
<1>5. CASE WalkMatches \/ JumpToNewest \/ ForgetLinked \/ \E b \in BOOLEAN : SetFilter(b) \/ Scroll(b)
  <2>1. UNCHANGED <<task, current, messages, late>>
    BY <1>5 DEF WalkMatches, JumpToNewest, ForgetLinked, SetFilter, Scroll, Looks
  <2>2. QED
    BY <2>1, NoneOn
<1>6. CASE \E t \in Targets : Post(t)
  <2>1. UNCHANGED <<task, current, messages, late>>
    BY <1>6 DEF Post
  <2>2. QED
    BY <2>1, NoneOn
<1>7. CASE UNCHANGED paneVars
  <2>1. UNCHANGED <<task, current, messages, late>>
    BY <1>7 DEF paneVars
  <2>2. QED
    BY <2>1, NoneOn
<1>8. ASSUME NEW s \in Tasks, Serve(s)
      PROVE  Moves
  <2>1. CASE AnswerFetch(s)
    <3>1. UNCHANGED <<current, late>> /\ task[s].step = "asked" /\ task[s].kind \in {"open", "refresh"}
      BY <2>1 DEF AnswerFetch
    <3>2. CASE ~Refused(task[s].target)
      <4>1. messages' = messages
        BY <2>1, <3>2 DEF AnswerFetch
      <4>2. PICK c : /\ Puts(s, c) /\ c.kind = task[s].kind
                     /\ c.step = "answered" /\ c.target = task[s].target
        BY <2>1, <3>2, AnswerPuts
      <4>3. /\ Opening(task[s], current) => Opening(c, current)
            /\ Drawing(task[s], current) => Drawing(c, current)
        BY <3>1, <4>2 DEF Opening, Drawing
      <4>4. QED
        BY <3>1, <4>1, <4>2, <4>3, OneOn
    <3>3. CASE Refused(task[s].target) /\ task[s].kind = "open"
      <4>1. messages' = {} /\ Show(current, {}, filter, TRUE)
        BY <2>1, <3>3 DEF AnswerFetch
      <4>2. Draws
        BY <3>1, <4>1 DEF Show, Draws
      <4>3. \E c : Puts(s, c)
        BY <2>1, AnswerPuts
      <4>4. QED
        BY <3>1, <4>1, <4>2, <4>3 DEF Moves, Arrives, Belongs
    <3>4. CASE Refused(task[s].target) /\ task[s].kind # "open"
      <4>1. messages' = messages /\ End(s)
        BY <2>1, <3>4 DEF AnswerFetch, Done
      <4>2. QED
        BY <1>b, <3>1, <3>4, <4>1
    <3>5. QED
      BY <3>2, <3>3, <3>4
  <2>2. CASE AnswerLink(s)
    <3>1. UNCHANGED <<current, messages, late>> /\ task[s].kind = "link" /\ \E c : Puts(s, c)
      BY <2>2, LinkPuts DEF AnswerLink, At
    <3>2. ~Opening(task[s], current) /\ ~Drawing(task[s], current)
      BY <3>1 DEF Opening, Drawing
    <3>3. QED
      BY <3>1, <3>2, OneOn
  <2>3. CASE ServeLeave(s) \/ ServeRemove(s) \/ ServeJoin(s)
    <3>1. /\ UNCHANGED <<current, messages, late>>
          /\ task[s].kind \in {"leave", "/leave", "remove", "join"}
          /\ Goto(s, "answered") \/ End(s)
      BY <2>3 DEF ServeLeave, ServeRemove, ServeJoin, At
    <3>2. \E c : Puts(s, c)
      <4>1. "answered" \in Steps
        BY DEF Steps
      <4>2. QED
        BY <3>1, <4>1, StepPuts, EndPuts
    <3>3. ~Opening(task[s], current) /\ ~Drawing(task[s], current)
      BY <3>1 DEF Opening, Drawing
    <3>4. QED
      BY <3>1, <3>2, <3>3, OneOn
  <2>4. CASE ServeClear(s) \/ ServeSend(s)
    <3>1. UNCHANGED <<current, messages, late>> /\ task[s].step = "asked" /\ End(s)
          /\ task[s].kind \in {"clear", "send"}
      BY <2>4 DEF ServeClear, ServeSend, ThenRefreshes, At
    <3>2. QED
      BY <1>b, <3>1
  <2>5. QED
    BY <1>8, <2>1, <2>2, <2>3, <2>4 DEF Serve
<1>9. ASSUME NEW s \in Tasks, Continue(s)
      PROVE  Moves
  <2>1. CASE RefreshPane(s)
    <3>1. UNCHANGED <<current, messages, late, of>>
      BY <2>1 DEF RefreshPane, server
    <3>2. CASE current = Nowhere
      BY <2>1, <3>1, <3>2, NoneOn DEF RefreshPane
    <3>3. CASE current # Nowhere
      <4>1. Begin(s, "refresh", current, "asked", 0) /\ "refresh" \in Kinds
        BY <2>1, <3>3 DEF RefreshPane, Kinds
      <4>2. QED
        BY <1>a, <1>t, <3>1, <4>1
    <3>4. QED
      BY <3>2, <3>3
  <2>2. CASE LandFetch(s)
    <3> DEFINE d == task[s]
    <3>1. /\ messages' = d.got /\ fetched' = fetched \cup d.got /\ late' = (d.target # current)
          /\ current' = current /\ d.kind \in {"open", "refresh"}
      BY <2>2 DEF LandFetch
    <3>2. late' \/ Belongs(messages', current', of)
      BY <1>t, <3>1 DEF Carries
    <3>3. CASE d.target \in Rooms /\ d.got # {}
      <4>1. Goto(s, "marking") /\ d.got \subseteq fetched'
        BY <2>2, <3>1, <3>3 DEF LandFetch
      <4>2. PICK c : Puts(s, c) /\ c.kind = d.kind /\ c.step = "marking" /\ c.target = d.target
        BY <3>1, <3>3, <4>1, MarkingPuts
      <4>3. Drawing(c, d.target)
        BY <3>1, <4>2 DEF Drawing
      <4>4. \E x \in Tasks : Drawing(task'[x], d.target)
        BY <4>2, <4>3, Turned
      <4>5. late' \/ AnyDrawing'
        BY <3>1, <4>4 DEF AnyDrawing
      <4>6. QED
        BY <3>1, <3>2, <4>2, <4>5 DEF Moves, Arrives
    <3>4. CASE ~(d.target \in Rooms /\ d.got # {})
      <4>1. Done(s) /\ Show(current, d.got, filter, d.kind = "open")
        BY <2>2, <3>4 DEF LandFetch
      <4>2. Draws
        BY <3>1, <4>1 DEF Show, Draws
      <4>3. \E c : Puts(s, c)
        BY <4>1, DonePuts
      <4>4. QED
        BY <3>1, <3>2, <4>2, <4>3 DEF Moves, Arrives
    <3>5. QED
      BY <3>3, <3>4
  <2>3. CASE MarkRead(s)
    <3>1. /\ UNCHANGED <<current, messages, late>> /\ task[s].step = "marking" /\ Done(s)
          /\ Show(current, messages, filter, task[s].kind = "open")
      BY <2>3 DEF MarkRead
    <3>2. Draws /\ ~Opening(task[s], current)
      BY <3>1 DEF Show, Draws, Opening
    <3>3. \E c : Puts(s, c)
      BY <3>1, DonePuts
    <3>4. QED
      BY <3>1, <3>2, <3>3, OneOn
  <2>4. CASE OpenLink(s)
    <3>1. /\ current' = task[s].target /\ "asked" \in Steps
          /\ task' = [task EXCEPT ![s].kind = "open", ![s].step = "asked"]
      BY <2>4 DEF OpenLink, Enter, Steps
    <3>2. task' = [task EXCEPT ![s] = [task[s] EXCEPT !.kind = "open", !.step = "asked"]]
      BY <3>1
    <3> DEFINE c == [task[s] EXCEPT !.kind = "open", !.step = "asked"]
    <3>3. Puts(s, c) /\ c.kind = "open" /\ c.step = "asked" /\ c.target = task[s].target
      BY <3>1, <3>2, GoPuts
    <3>4. QED
      BY <3>1, <3>3, OpenOn DEF Opening
  <2>5. CASE ShowWindow(s)
    <3> DEFINE d == task[s]
    <3>1. /\ messages' = d.around /\ late' = (d.target # current) /\ current' = current /\ End(s)
      BY <2>5 DEF ShowWindow
    <3>2. late' \/ Belongs(messages', current', of)
      BY <1>t, <3>1 DEF Carries
    <3>3. Draws
      <4>1. \E p \in Rendered(pane, current', messages', filter, FALSE) :
              pane' \in Revealed(p, d.anchor)
        BY <2>5 DEF ShowWindow
      <4>2. QED
        BY <4>1 DEF Draws
    <3>4. Puts(s, Idle)
      BY <3>1, EndPuts
    <3>5. QED
      BY <3>1, <3>2, <3>3, <3>4 DEF Moves, Arrives
  <2>6. CASE RenderClosed(s)
    <3>1. /\ UNCHANGED <<current, messages, late>> /\ task[s].step = "rendering" /\ End(s)
          /\ Show(current, messages, filter, task[s].kind = "remove")
      BY <2>6 DEF RenderClosed
    <3>2. Draws /\ ~Opening(task[s], current)
      BY <3>1 DEF Show, Draws, Opening
    <3>3. Puts(s, Idle)
      BY <3>1, EndPuts
    <3>4. QED
      BY <3>1, <3>2, <3>3, OneOn
  <2>7. CASE HearClosed(s)
    <3>1. /\ UNCHANGED <<messages, late>> /\ Goto(s, "rendering")
          /\ task[s].kind \in {"leave", "/leave", "remove"}
          /\ current' \in {Nowhere, current}
      BY <2>7 DEF HearClosed, At, Deselects
    <3>2. \E c : Puts(s, c)
      <4>1. "rendering" \in Steps
        BY DEF Steps
      <4>2. QED
        BY <3>1, <4>1, StepPuts
    <3>3. ~Opening(task[s], current) /\ ~Drawing(task[s], current)
      BY <3>1 DEF Opening, Drawing
    <3>4. CASE current' = Nowhere
      BY <3>2, <3>4 DEF Moves
    <3>5. CASE current' = current
      BY <3>1, <3>2, <3>3, <3>5, OneOn
    <3>6. QED
      BY <3>1, <3>4, <3>5
  <2>8. CASE HearJoined(s)
    <3>1. current' = task[s].target /\ "asked" \in Steps
          /\ task' = [task EXCEPT ![s] = [task[s] EXCEPT !.kind = "open", !.step = "asked"]]
      BY <2>8 DEF HearJoined, Enter, Steps
    <3> DEFINE c == [task[s] EXCEPT !.kind = "open", !.step = "asked"]
    <3>2. Puts(s, c) /\ c.kind = "open" /\ c.step = "asked" /\ c.target = task[s].target
      BY <3>1, GoPuts
    <3>3. QED
      BY <3>1, <3>2, OpenOn DEF Opening
  <2>9. QED
    BY <1>9, <2>1, <2>2, <2>3, <2>4, <2>5, <2>6, <2>7, <2>8 DEF Continue
<1>10. QED
  BY <1>1, <1>2, <1>3, <1>4, <1>5, <1>6, <1>7, <1>8, <1>9 DEF PaneNext, Gesture

LEMMA BaseStarts == PaneInit => PaneBase
<1> SUFFICES ASSUME PaneInit PROVE PaneBase
  OBVIOUS
<1>1. of = << >> /\ of \in Seq(Targets) /\ DOMAIN of = {} /\ Len(of) = 0
  BY DEF PaneInit
<1>2. /\ joined \subseteq Rooms /\ readUpTo \in [Rooms -> Nat] /\ floor \in [Rooms -> Nat]
      /\ \A r \in Rooms : readUpTo[r] <= Len(of)
  BY <1>1 DEF PaneInit
<1>3. fetched = {} /\ messages = {} /\ current \in Targets \cup {Nowhere}
  BY DEF PaneInit
<1>4. IsPane(pane) /\ pane.shown = {}
  BY DEF PaneInit, Blank, IsPane
<1>5. Idle \in Task /\ Carries(Idle, of, gone, fetched)
  <2>1. Idle \in Task
    BY DEF Idle, Task, Kinds, Steps
  <2>2. Carries(Idle, of, gone, fetched)
    BY EmptyCarries DEF Idle
  <2>3. QED
    BY <2>1, <2>2
<1>6. task \in [Tasks -> Task] /\ \A s \in Tasks : Carries(task[s], of, gone, fetched)
  BY <1>5 DEF PaneInit
<1>7. QED
  BY <1>1, <1>2, <1>3, <1>4, <1>6 DEF PaneBase

LEMMA BaseStep ==
  ASSUME PaneBase, [PaneNext]_paneVars
  PROVE  PaneBase'
<1>1. Forward /\ fetched' \subseteq DOMAIN of' /\ messages' \subseteq DOMAIN of'
      /\ DOMAIN of \subseteq DOMAIN of'
  BY ServerForward, FetchedKept, LogGrows
<1>2. Moves /\ IsPane(pane) /\ (Draws \/ Rests)
  BY HandlerStep, ViewStep DEF PaneBase
<1>3. task' \in [Tasks -> Task] /\ \A s \in Tasks : Carries(task'[s], of', gone', fetched')
  <2>1. task \in [Tasks -> Task] /\ \A s \in Tasks : Carries(task[s], of', gone', fetched')
    BY Later DEF PaneBase
  <2>2. CASE task' = task
    BY <2>1, <2>2
  <2>3. QED
    BY <1>2, <2>1, <2>2 DEF Moves, Puts
<1>4. current' \in Targets \cup {Nowhere}
  <2>1. \A s \in Tasks : task'[s].target \in Targets \cup {Nowhere}
    BY <1>3 DEF Task
  <2>2. AnyOpening' => current' \in Targets \cup {Nowhere}
    BY <2>1 DEF AnyOpening, Opening
  <2>3. QED
    BY <1>2, <2>2 DEF Moves, Arrives, Stays, PaneBase
<1>5. IsPane(pane') /\ pane'.shown \subseteq DOMAIN of'
  <2>1. CASE Draws
    BY <1>1, <1>2, <2>1, DrawnIs
  <2>2. CASE Rests
    BY <1>1, <2>2 DEF Rests, PaneBase
  <2>3. QED
    BY <1>2, <2>1, <2>2
<1>6. QED
  BY <1>1, <1>3, <1>4, <1>5 DEF PaneBase, Forward

(* DomIsTheView: however fetches overtake one another, gestures fall       *)
(* between them and rows are appended or rebuilt, the DOM holds exactly the*)
(* rows last decided on, in the order of their ids, and only the row of a  *)
(* followed link is marked (renderMessages, revealMessage, streamPlan).    *)
THEOREM DomFollowsRenders == PaneSpec => []DomIsTheView
<1> DEFINE I == PaneBase /\ DomIsTheView
<1>1. PaneInit => I
  <2>1. PaneInit => DomIsTheView
    BY OrderOfNone DEF PaneInit, Blank, DomIsTheView
  <2>2. QED
    BY <2>1, BaseStarts
<1>2. I /\ [PaneNext]_paneVars => I'
  <2> SUFFICES ASSUME I, [PaneNext]_paneVars PROVE I'
    OBVIOUS
  <2>1. PaneBase' /\ IsPane(pane) /\ (Draws \/ Rests)
    BY BaseStep, ViewStep DEF PaneBase
  <2>2. FiniteIds(pane.shown) /\ 0 \notin pane.shown
    BY IdsOfLog DEF PaneBase
  <2>3. FiniteIds(messages')
    <3>1. of' \in Seq(Targets) /\ messages' \subseteq DOMAIN of'
      BY <2>1 DEF PaneBase
    <3>2. QED
      BY <3>1, IdsOfLog
  <2>4. DomIsTheView'
    BY <2>1, <2>2, <2>3, DrawsTheView, RestsOnTheView
  <2>5. QED
    BY <2>1, <2>4
<1>3. QED
  BY <1>1, <1>2, PTL DEF PaneSpec

(* StrayRowsAreLate *)
Excused ==
  current # Nowhere /\ ~late =>
    /\ Belongs(messages, current, of) \/ AnyOpening
    /\ Belongs(pane.shown, current, of) \/ AnyDrawing

LEMMA ExcusedStep ==
  ASSUME PaneBase, Excused, [PaneNext]_paneVars
  PROVE  Excused'
<1>1. Moves /\ IsPane(pane) /\ (Draws \/ Rests)
  BY HandlerStep, ViewStep DEF PaneBase
<1>2. DOMAIN of \subseteq DOMAIN of' /\ \A i \in DOMAIN of : of'[i] = of[i]
  BY LogGrows
<1>3. \A S, t : Belongs(S, t, of) => Belongs(S, t, of')
  BY <1>2 DEF Belongs
<1>o. AnyOpening' => AnyDrawing'
  BY DEF AnyOpening, AnyDrawing, Opening, Drawing
<1>4. CASE current' = Nowhere
  BY <1>4 DEF Excused
<1>5. CASE AnyOpening'
  <2>1. AnyDrawing'
    BY <1>5, <1>o
  <2>2. QED
    BY <1>5, <2>1 DEF Excused
<1>6. ASSUME late' \/ Belongs(messages', current', of) \/ AnyOpening',
             Draws \/ late' \/ AnyDrawing' \/ Belongs(pane'.shown, current', of)
      PROVE  Excused'
  <2>1. late' \/ Belongs(messages', current', of') \/ AnyOpening'
    BY <1>3, <1>6
  <2>2. late' \/ Belongs(pane'.shown, current', of') \/ AnyDrawing'
    <3>1. CASE Draws
      <4>1. pane'.shown \subseteq messages'
        BY <1>1, <3>1, DrawnIs
      <4>2. QED
        BY <1>o, <2>1, <4>1 DEF Belongs
    <3>2. QED
      BY <1>3, <1>6, <3>1
  <2>3. QED
    BY <2>1, <2>2 DEF Excused
<1>7. CASE Arrives
  BY <1>6, <1>7 DEF Arrives
<1>8. CASE Stays /\ current' # Nowhere
  <2>1. late' \/ Belongs(messages', current', of) \/ AnyOpening'
    BY <1>8 DEF Stays, Excused
  <2>2. CASE Draws
    BY <1>6, <2>1, <2>2
  <2>3. CASE Rests
    <3>1. Draws \/ late' \/ AnyDrawing' \/ Belongs(pane'.shown, current', of)
      BY <1>8, <2>3 DEF Stays, Excused, Rests
    <3>2. QED
      BY <1>6, <2>1, <3>1
  <2>4. QED
    BY <1>1, <2>2, <2>3
<1>9. QED
  BY <1>1, <1>4, <1>5, <1>7, <1>8 DEF Moves

(* StrayRowsAreLate: rows of one conversation stand under the header of    *)
(* another only while that one is being fetched, or because a response was *)
(* handled for a target no longer selected (selectTarget, fetchMessages and*)
(* sendMessage, which await and then draw).                                *)
THEOREM StraysAreExcused == PaneSpec => []StrayRowsAreLate
<1> DEFINE I == PaneBase /\ Excused
<1>1. PaneInit => I
  <2>1. PaneInit => Excused
    BY DEF PaneInit, Blank, Excused, Belongs
  <2>2. QED
    BY <2>1, BaseStarts
<1>2. I /\ [PaneNext]_paneVars => I'
  BY BaseStep, ExcusedStep
<1>3. I => StrayRowsAreLate
  BY DEF Excused, Belongs, AnyDrawing, Drawing, StrayRowsAreLate, Fetching
<1>4. QED
  BY <1>1, <1>2, <1>3, PTL DEF PaneSpec

(* MarkedWasFetched *)
Noticed(r, i) ==
  \/ i \in fetched
  \/ i <= floor[r]
  \/ Cardinality({j \in fetched : of[j] = r /\ j > i}) >= Limit

LEMMA CountGrows ==
  ASSUME NEW S, IsFiniteSet(S), NEW T \in SUBSET S, Cardinality(T) >= Limit
  PROVE  Cardinality(S) >= Limit
<1>1. IsFiniteSet(T) /\ Cardinality(T) <= Cardinality(S)
  BY FS_Subset
<1>2. Cardinality(T) \in Nat /\ Cardinality(S) \in Nat /\ Limit \in Nat
  BY <1>1, FS_CardinalityType, LimitAssumption
<1>3. QED
  BY <1>1, <1>2

(* What was noticed stays so, unless it is the floor that goes down. *)
LEMMA NoticedStays ==
  ASSUME PaneBase, [PaneNext]_paneVars, NEW r \in Rooms, NEW i, Noticed(r, i),
         floor'[r] = floor[r]
  PROVE  Noticed(r, i)'
<1>1. fetched \subseteq fetched' /\ fetched' \subseteq DOMAIN of' /\ fetched \subseteq DOMAIN of
      /\ \A j \in DOMAIN of : of'[j] = of[j]
  BY FetchedKept, LogGrows DEF PaneBase
<1> DEFINE T == {j \in fetched : of[j] = r /\ j > i}
           S == {j \in fetched' : of'[j] = r /\ j > i}
<1>2. T \in SUBSET S
  BY <1>1
<1>3. IsFiniteSet(S)
  <2>1. IsFiniteSet(fetched')
    BY <1>1, ServerForward, IdsOfLog DEF Forward, FiniteIds
  <2>2. QED
    BY <2>1, FS_Subset
<1>4. Cardinality(T) >= Limit => Cardinality(S) >= Limit
  <2> HIDE DEF S, T
  <2>1. QED
    BY <1>2, <1>3, CountGrows
<1>5. QED
  BY <1>1, <1>4 DEF Noticed

LEMMA MarkedStep ==
  ASSUME PaneBase, MarkedWasFetched, [PaneNext]_paneVars
  PROVE  MarkedWasFetched'
<1>1. /\ of \in Seq(Targets) /\ joined \subseteq Rooms
      /\ readUpTo \in [Rooms -> Nat] /\ floor \in [Rooms -> Nat]
      /\ \A r \in Rooms : readUpTo[r] <= Len(of)
      /\ \A s \in Tasks : Carries(task[s], of, gone, fetched)
  BY DEF PaneBase
<1>2. Forward /\ Serves /\ fetched \subseteq fetched' /\ fetched' \subseteq DOMAIN of'
  BY ServerForward, ServerStep, FetchedKept
<1>3. Len(of) \in Nat /\ \A i \in DOMAIN of : i \in Nat /\ i <= Len(of) /\ i # 0
  BY <1>1, IdsOfLog
<1> SUFFICES ASSUME NEW r \in joined', NEW i \in Log(r)', i <= readUpTo'[r]
             PROVE  Noticed(r, i)'
  BY DEF MarkedWasFetched, Noticed
<1>4. r \in Rooms
  BY <1>2 DEF Forward
<1>5. ASSUME r \in joined, i \in Log(r), i <= readUpTo[r], floor'[r] = floor[r]
      PROVE  Noticed(r, i)'
  <2>1. Noticed(r, i)
    BY <1>5 DEF MarkedWasFetched, Noticed
  <2>2. QED
    BY <1>4, <1>5, <2>1, NoticedStays
<1>6. CASE UNCHANGED server
  BY <1>5, <1>6 DEF server, Log
<1>7. ASSUME NEW s \in Tasks, Reads(s)
      PROVE  Noticed(r, i)'
  <2> DEFINE d == task[s]
             m == Max(d.got)
  <2>1. /\ d.got # {} /\ d.target \in Rooms /\ d.got \subseteq DOMAIN of /\ d.got \subseteq fetched
        /\ \A j \in d.got : of[j] = d.target
        /\ \A j \in DOMAIN of \ gone : of[j] = d.target =>
             j \in d.got \/ Cardinality({k \in d.got : k > j}) >= Limit \/ \A k \in d.got : k < j
    BY <1>1, <1>7 DEF Reads, Carries, Belongs
  <2>2. r \in joined /\ i \in Log(r) /\ floor'[r] = floor[r] /\ UNCHANGED of
    BY <1>7 DEF Reads, Log
  <2>3. CASE i <= readUpTo[r]
    BY <1>5, <2>2, <2>3
  <2>4. CASE ~(i <= readUpTo[r])
    <3>1. FiniteIds(d.got)
      BY <1>1, <2>1, IdsOfLog
    <3>2. m \in d.got /\ m \in Nat
      BY <2>1, <3>1, MaxIsLast DEF FiniteIds
    <3> HIDE DEF d, m
    <3>3. readUpTo' = Advance(d.target, m)
      BY <1>7, <2>4 DEF Reads, d, m
    <3>4. r = d.target /\ readUpTo'[r] = m
      <4> DEFINE room == d.target
      <4>1. room \in Rooms /\ readUpTo' = Advance(room, m)
        BY <2>1, <3>3
      <4> HIDE DEF room
      <4>2. /\ readUpTo'[room] \in {readUpTo[room], m}
            /\ \A x \in Rooms : x # room => readUpTo'[x] = readUpTo[x]
        BY <1>1, <3>2, <4>1, Advances
      <4>3. readUpTo'[r] # readUpTo[r]
        BY <2>4
      <4>4. r = room
        BY <1>4, <4>2, <4>3
      <4>5. QED
        BY <4>2, <4>3, <4>4 DEF room
    <3>5. i \in Nat /\ i <= m
      BY <1>3, <2>2, <3>4 DEF Log
    <3>6. i \in d.got \/ Cardinality({k \in d.got : k > i}) >= Limit
      <4>1. ~(m < i)
        BY <3>2, <3>5
      <4>2. QED
        BY <2>1, <2>2, <3>2, <3>4, <4>1 DEF Log
    <3>7. CASE i \in d.got
      BY <1>2, <2>1, <3>7 DEF Noticed
    <3>8. CASE Cardinality({k \in d.got : k > i}) >= Limit
      <4> DEFINE T == {k \in d.got : k > i}
                 S == {j \in fetched : of[j] = r /\ j > i}
      <4>1. T \in SUBSET S
        BY <2>1, <3>4
      <4>2. IsFiniteSet(S)
        <5>1. IsFiniteSet(fetched)
          BY <1>1, IdsOfLog DEF PaneBase, FiniteIds
        <5>2. QED
          BY <5>1, FS_Subset
      <4>3. Cardinality(S) >= Limit
        <5> HIDE DEF S, T
        <5>1. QED
          BY <3>8, <4>1, <4>2, CountGrows DEF T
      <4>4. Noticed(r, i)
        BY <4>3 DEF Noticed
      <4>5. QED
        BY <1>4, <2>2, <4>4, NoticedStays
    <3>9. QED
      BY <3>6, <3>7, <3>8
  <2>5. QED
    BY <2>3, <2>4
<1>8. CASE Forgets
  <2>1. r \in joined /\ i \in Log(r) /\ floor'[r] = floor[r] /\ readUpTo'[r] \in {0, readUpTo[r]}
    BY <1>4, <1>8 DEF Forgets, Log
  <2>2. i \in Nat /\ i # 0
    BY <1>3, <2>1 DEF Log
  <2>3. readUpTo'[r] # 0
    BY <2>2
  <2>4. QED
    BY <1>5, <2>1, <2>3
<1>9. ASSUME NEW t \in Targets, Hears(t)
      PROVE  Noticed(r, i)'
  <2>1. /\ of' = Append(of, t) /\ gone' = gone /\ readUpTo' = readUpTo /\ joined' = joined
        /\ floor' = floor
    BY <1>9 DEF Hears
  <2>2. i \in DOMAIN of
    <3>1. ASSUME i \notin DOMAIN of PROVE FALSE
      <4>1. i = Len(of) + 1
        BY <1>1, <2>1, <3>1, Growth DEF Log
      <4>2. readUpTo[r] <= Len(of) /\ readUpTo[r] \in Nat
        BY <1>1, <1>4
      <4> DEFINE n == Len(of)
      <4> HIDE DEF n
      <4>3. n \in Nat /\ i = n + 1 /\ readUpTo[r] <= n /\ i <= readUpTo[r]
        BY <1>3, <2>1, <4>1, <4>2 DEF n
      <4>4. QED
        BY <4>2, <4>3
    <3>2. QED
      BY <3>1
  <2>3. i \in Log(r)
    BY <1>1, <2>1, <2>2, Growth DEF Log
  <2>4. QED
    BY <1>5, <2>1, <2>3
<1>10. ASSUME NEW t \in Targets, Speaks(t)
       PROVE  Noticed(r, i)'
  <2>1. /\ of' = Append(of, t) /\ gone' = gone /\ joined' \in {joined, joined \cup ({t} \cap Rooms)}
        /\ readUpTo' = IF t \in Rooms THEN Advance(t, NextId) ELSE readUpTo
        /\ floor' = IF t \in Rooms THEN [floor EXCEPT ![t] = NextId] ELSE floor
    BY <1>10 DEF Speaks, PostOwn
  <2>2. i \in 1..(Len(of) + 1) /\ NextId = Len(of) + 1 /\ NextId \in Nat
    <3>1. i \in DOMAIN of' /\ of' \in Seq(Targets)
      BY <1>2 DEF Log, Forward
    <3>2. Len(of') = Len(of) + 1
      BY <1>1, <2>1, Growth
    <3>3. QED
      BY <1>3, <3>1, <3>2 DEF NextId
  <2>3. CASE t = r
    <3>1. floor'[r] = NextId
      BY <1>1, <1>4, <2>1, <2>3
    <3>2. i <= NextId
      BY <1>3, <2>2
    <3>3. QED
      BY <3>1, <3>2 DEF Noticed
  <2>4. CASE t # r
    <3>1. r \in joined /\ floor'[r] = floor[r]
      BY <1>1, <1>4, <2>1, <2>4
    <3>2. readUpTo'[r] = readUpTo[r]
      BY <1>1, <1>4, <2>1, <2>2, <2>4, Advances
    <3>3. i \in Log(r)
      BY <1>1, <2>1, <2>4, Growth DEF Log
    <3>4. QED
      BY <1>5, <3>1, <3>2, <3>3
  <2>5. QED
    BY <2>3, <2>4
<1>11. QED
  BY <1>2, <1>6, <1>7, <1>8, <1>9, <1>10 DEF Serves

(* MarkedWasFetched: a message of a room counts as read only if a response *)
(* brought it, a full page of newer ones came instead, or a join or a post *)
(* of the reader's own moved the mark past it (the mark-read call of       *)
(* fetchMessages, handleRoomRead).                                         *)
THEOREM NothingReadUnseen == PaneSpec => []MarkedWasFetched
<1> DEFINE I == PaneBase /\ MarkedWasFetched
<1>1. PaneInit => I
  <2>1. PaneInit => MarkedWasFetched
    BY DEF PaneInit, MarkedWasFetched, Log
  <2>2. QED
    BY <2>1, BaseStarts
<1>2. I /\ [PaneNext]_paneVars => I'
  BY BaseStep, MarkedStep
<1>3. QED
  BY <1>1, <1>2, PTL DEF PaneSpec

=============================================================================
