------------------------------- MODULE WebPane -------------------------------
(***************************************************************************)
(* The conversation pane of the web page: the fetches, renders and reader's*)
(* actions of web/assets/app.js with the stream decisions of logic.js, over*)
(* the message handlers of cli/web/server.ts.                              *)
(*                                                                         *)
(* The page runs one handler at a time and gives way at each await, so a   *)
(* handler is a task and a step runs from one await to the next.  Every    *)
(* request is answered by the server at some moment after it is sent, and  *)
(* its response is handled at some moment after that: requests overtake one*)
(* another.  Messages are their ids; a list of messages is a set of ids,   *)
(* which every list is in the order of.                                    *)
(***************************************************************************)
EXTENDS Naturals, Sequences, FiniteSets, FiniteSetsExt, SequencesExt

CONSTANTS
  Rooms, Peers,  \* the targets of conversations
  Nowhere,       \* currentTarget = null
  Tasks,         \* the handlers that may be under way at once
  Hits,          \* the ids the reader's filter term matches
  Limit,         \* the rows a fetch asks for
  MaxId,         \* the bound on message ids
  MaxGestures    \* the bound on what the reader does

ASSUME TargetsAssumption == Rooms \cap Peers = {} /\ Nowhere \notin Rooms \cup Peers
ASSUME LimitAssumption == Limit \in Nat \ {0}
ASSUME BoundAssumption == MaxId \in Nat /\ MaxGestures \in Nat
ASSUME HitsAssumption == Hits \subseteq Nat

Targets == Rooms \cup Peers

VARIABLES
  of,        \* the conversation each message id was posted to
  gone,      \* the ids whose rows are deleted
  joined,    \* the rooms the reader is a member of
  readUpTo,  \* the reader's room_reads.last_read_id
  current,   \* state.currentTarget
  messages,  \* state.messages
  filter,    \* state.searchTerm is not blank
  pane,      \* what the DOM holds and what state remembers of it
  task,      \* the handlers under way
  due,       \* refreshes begun that have not read currentTarget yet
  gestures,  \* what the reader did so far
  fetched,   \* history: every id a response put in state.messages
  floor,     \* history: the newest id a join or the reader's own post marked
  late       \* history: the last response handled was for another target
             \* than the one selected

server == <<of, gone, joined, readUpTo, floor>>
paneVars == <<of, gone, joined, readUpTo, current, messages, filter, pane, task,
          due, gestures, fetched, floor, late>>

-----------------------------------------------------------------------------
(* Types *)

NoView == <<Nowhere, FALSE>>

Pane == [dom: Seq(Nat),        \* the rows, top to bottom
         view: (Targets \cup {Nowhere}) \X BOOLEAN,  \* renderedTarget: target and term
         shown: SUBSET Nat,    \* renderedIds
         marked: SUBSET Nat,   \* the rows that carry is-linked
         linked: Nat,          \* linkedId, 0 for null
         pinned: BOOLEAN,      \* the view is at its bottom
         unread: Nat,          \* unreadBelow
         since: Nat]           \* unreadSince, 0 for null

Blank == [dom |-> <<>>, view |-> NoView, shown |-> {}, marked |-> {},
          linked |-> 0, pinned |-> TRUE, unread |-> 0, since |-> 0]

Kinds == {"none", "open", "refresh", "link", "leave", "/leave", "remove", "clear", "send", "join"}
Steps == {"idle", "asked", "answered", "marking", "rendering", "window"}

Task == [kind: Kinds, step: Steps,
         target: Targets \cup {Nowhere},
         got: SUBSET Nat,        \* the response to the fetch
         anchor: Nat,            \* the id a link names, 0 for no link
         around: SUBSET Nat]     \* the window around it

Idle == [kind |-> "none", step |-> "idle", target |-> Nowhere, got |-> {},
         anchor |-> 0, around |-> {}]

PaneTypeOK ==
  /\ of \in Seq(Targets) /\ gone \subseteq DOMAIN of
  /\ joined \subseteq Rooms /\ readUpTo \in [Rooms -> Nat]
  /\ current \in Targets \cup {Nowhere}
  /\ messages \subseteq DOMAIN of /\ Cardinality(messages) <= Limit
  /\ fetched \subseteq DOMAIN of
  /\ filter \in BOOLEAN /\ late \in BOOLEAN
  /\ pane \in Pane
  /\ task \in [Tasks -> Task]
  /\ due \in Nat /\ gestures \in 0..MaxGestures
  /\ floor \in [Rooms -> Nat]

-----------------------------------------------------------------------------
(* The server: each operator is what one handler reads or writes. *)

Log(t) == {i \in DOMAIN of \ gone : of[i] = t}

Newest(ids, n) == {i \in ids : Cardinality({j \in ids : j > i}) < n}
Oldest(ids, n) == {i \in ids : Cardinality({j \in ids : j < i}) < n}

Refused(t) == t \in Rooms \ joined

RecentMessages(t) == Newest(Log(t), Limit)

(* The anchor and the rows before it, then the rows after it. *)
AroundWindow(id) ==
  LET after == (Limit - 1) \div 2
      before == (Limit - 1) - after
      log == Log(of[id])
  IN Newest({i \in log : i <= id}, before + 1) \cup Oldest({i \in log : i > id}, after)

Advance(r, id) == [readUpTo EXCEPT ![r] = Max({@, id})]

NextId == Len(of) + 1

(* The bound on ids keeps one for each request that will post. *)
MayPost ==
  NextId + Cardinality({s \in Tasks : /\ task[s].kind \in {"send", "join"}
                                      /\ task[s].step = "asked"}) <= MaxId

-----------------------------------------------------------------------------
(* The stream: what a render makes of the pane *)

InOrder(ids) ==
  [k \in 1..Cardinality(ids) |->
     CHOOSE i \in ids : Cardinality({j \in ids : j <= i}) = k]

AppendsIfLonger(p, view, visible) ==
  p.view = view /\ p.shown # {} /\ Cardinality(p.shown) <= Cardinality(visible)

(* streamPlan: the rows held are still the head of the new list. *)
Appends(p, view, visible) ==
  /\ p.view = view /\ p.shown # {}
  /\ p.shown \subseteq visible
  /\ \A i \in visible \ p.shown, j \in p.shown : j < i

(* rebuildNamingArrivals: what follows the last row held, if it is there. *)
FreshIds(p, view, visible) ==
  IF p.view = view /\ p.shown # {} /\ Cardinality(visible) >= Cardinality(p.shown)
       /\ Max(p.shown) \in visible
  THEN {i \in visible : i > Max(p.shown)}
  ELSE {}

NextUnreadBelow(previous, arrived, wasPinned) ==
  IF wasPinned THEN 0 ELSE previous + arrived

(* Time is told in message ids. *)
NextUnreadSince(previous, unread) ==
  IF unread = 0 THEN 0 ELSE IF previous # 0 THEN previous ELSE Len(of)

(* renderJumpNewest, after the tally was set to unread. *)
Tallied(p, unread) ==
  [p EXCEPT !.unread = unread, !.since = NextUnreadSince(p.since, unread)]

(* resetStreamPosition, in an emptied list. *)
Emptied(p) == [Tallied(p, 0) EXCEPT !.dom = <<>>, !.view = NoView, !.shown = {},
                                    !.marked = {}, !.pinned = TRUE]

(* renderMessages. A rebuild above the bottom may clamp the scroll to it.  *)
Rendered(p, target, ids, term, forceBottom) ==
  LET visible == IF term THEN ids \cap Hits ELSE ids
      view == <<target, term>>
      wasPinned == forceBottom \/ p.pinned
      append == Appends(p, view, visible)
      new == IF append THEN visible \ p.shown ELSE visible
      arrived == IF append THEN new ELSE FreshIds(p, view, visible)
      tally == Tallied(p, NextUnreadBelow(p.unread, Cardinality(arrived), wasPinned))
  IN IF target = Nowhere \/ visible = {} THEN {Emptied(p)}
     ELSE {[tally EXCEPT !.dom = (IF append THEN @ ELSE <<>>) \o InOrder(new),
                         !.view = view,
                         !.shown = visible,
                         !.marked = (IF append THEN @ ELSE {}) \cup (new \cap {p.linked}),
                         !.pinned = bottom] :
             bottom \in IF wasPinned THEN {TRUE}
                        ELSE IF append THEN {FALSE} ELSE BOOLEAN}

(* revealMessage: only a row that is rendered, and only one is marked. *)
Revealed(p, id) ==
  IF id \notin Range(p.dom) THEN {p}
  ELSE {[p EXCEPT !.linked = id, !.marked = {id}, !.pinned = bottom] : bottom \in BOOLEAN}

Show(target, ids, term, forceBottom) ==
  pane' \in Rendered(pane, target, ids, term, forceBottom)

-----------------------------------------------------------------------------
(* The tasks of the page *)

Begin(s, kind, target, step, anchor) ==
  /\ task[s].step = "idle"
  /\ task' = [task EXCEPT ![s] = [Idle EXCEPT !.kind = kind, !.step = step,
                                              !.target = target, !.anchor = anchor]]

At(s, kind, step) == task[s].kind = kind /\ task[s].step = step

Goto(s, step) == task' = [task EXCEPT ![s].step = step]

End(s) == task' = [task EXCEPT ![s] = Idle]

(* selectTarget returns; a link goes on with its window. *)
Opened(s) == IF task[s].anchor = 0 THEN End(s) ELSE Goto(s, "window")

Done(s) == IF task[s].kind = "open" THEN Opened(s) ELSE End(s)

Enter(target) == current' = target /\ filter' = FALSE

SelectTarget(s, t) ==
  /\ Begin(s, "open", t, "asked", 0)
  /\ Enter(t)
  /\ UNCHANGED <<server, messages, pane, due, fetched, late>>

(* A wake, a send and a clear each begin a refresh, which reads             *)
(* currentTarget only once the peers, approvals and claims are in.         *)
RefreshPane(s) ==
  /\ due > 0 /\ due' = due - 1
  /\ IF current = Nowhere
       THEN Show(Nowhere, messages, filter, FALSE) /\ UNCHANGED task
       ELSE Begin(s, "refresh", current, "asked", 0) /\ UNCHANGED pane
  /\ UNCHANGED <<server, current, messages, filter, fetched, late>>

AnswerFetchKeepingRows(s) ==
  /\ task[s].kind \in {"open", "refresh"} /\ task[s].step = "asked"
  /\ IF ~Refused(task[s].target)
       THEN task' = [task EXCEPT ![s].step = "answered",
                                 ![s].got = RecentMessages(task[s].target)]
       ELSE Done(s)
  /\ UNCHANGED <<server, current, messages, filter, pane, due, fetched, late>>

(* The server answers fetchMessages.  A refusal ends a refresh without a   *)
(* render and empties what selectTarget opens.                             *)
AnswerFetch(s) ==
  /\ task[s].kind \in {"open", "refresh"} /\ task[s].step = "asked"
  /\ IF ~Refused(task[s].target)
       THEN /\ task' = [task EXCEPT ![s].step = "answered",
                                    ![s].got = RecentMessages(task[s].target)]
            /\ UNCHANGED <<messages, pane>>
       ELSE /\ Done(s)
            /\ IF task[s].kind = "open"
                 THEN messages' = {} /\ Show(current, {}, filter, TRUE)
                 ELSE UNCHANGED <<messages, pane>>
  /\ UNCHANGED <<server, current, filter, due, fetched, late>>

(* The response is assigned, whatever is selected by now.  A room is marked*)
(* read before the render; a direct message renders at once.               *)
LandFetch(s) ==
  LET got == task[s].got IN
  /\ task[s].step = "answered" /\ task[s].kind \in {"open", "refresh"}
  /\ messages' = got
  /\ fetched' = fetched \cup got
  /\ late' = (task[s].target # current)
  /\ IF task[s].target \in Rooms /\ got # {}
       THEN Goto(s, "marking") /\ UNCHANGED pane
       ELSE Done(s) /\ Show(current, got, filter, task[s].kind = "open")
  /\ UNCHANGED <<server, current, filter, due>>

MarkReadToTheEnd(s) ==
  LET r == task[s].target IN
  /\ task[s].step = "marking"
  /\ readUpTo' = IF r \in joined THEN Advance(r, Len(of)) ELSE readUpTo
  /\ Done(s)
  /\ Show(current, messages, filter, task[s].kind = "open")
  /\ UNCHANGED <<of, gone, joined, current, messages, filter, due, fetched, floor, late>>

(* POST /api/rooms/read of the newest id fetched, then the render. *)
MarkRead(s) ==
  LET r == task[s].target IN
  /\ task[s].step = "marking"
  /\ readUpTo' = IF r \in joined THEN Advance(r, Max(task[s].got)) ELSE readUpTo
  /\ Done(s)
  /\ Show(current, messages, filter, task[s].kind = "open")
  /\ UNCHANGED <<of, gone, joined, current, messages, filter, due, fetched, floor, late>>

(* openHashTarget *)
FollowLink(s, id) ==
  /\ Begin(s, "link", Nowhere, "asked", id)
  /\ UNCHANGED <<server, current, messages, filter, pane, due, fetched, late>>

AnswerLink(s) ==
  LET id == task[s].anchor IN
  /\ At(s, "link", "asked")
  /\ IF id \in gone \/ Refused(of[id])
       THEN End(s)
       ELSE task' = [task EXCEPT ![s].step = "answered", ![s].target = of[id],
                                 ![s].around = AroundWindow(id)]
  /\ UNCHANGED <<server, current, messages, filter, pane, due, fetched, late>>

OpenLink(s) ==
  LET t == task[s].target IN
  /\ At(s, "link", "answered") /\ t # current
  /\ task' = [task EXCEPT ![s].kind = "open", ![s].step = "asked"]
  /\ Enter(t)
  /\ UNCHANGED <<server, messages, pane, due, fetched, late>>

ShowWindow(s) ==
  LET around == task[s].around IN
  /\ \/ task[s].step = "window"
     \/ At(s, "link", "answered") /\ task[s].target = current
  /\ messages' = around
  /\ fetched' = fetched \cup around
  /\ late' = (task[s].target # current)
  /\ pane' \in UNION {Revealed(p, task[s].anchor) :
                        p \in Rendered(pane, current, around, filter, FALSE)}
  /\ End(s)
  /\ UNCHANGED <<server, current, filter, due>>

-----------------------------------------------------------------------------
(* The page's other requests: asked here, served and handled below *)

(* /leave leaves the room that is open; the menu, any room. *)
AskLeave(s, r) ==
  Begin(s, "leave", r, "asked", 0) \/ (current = r /\ Begin(s, "/leave", r, "asked", 0))
AskRemove(s, r) == Begin(s, "remove", r, "asked", 0)
AskClear(s, t) == Begin(s, "clear", t, "asked", 0)
AskJoin(s, r) == MayPost /\ Begin(s, "join", r, "asked", 0)
AskSend(s) == MayPost /\ current # Nowhere /\ Begin(s, "send", current, "asked", 0)

Ask(s) ==
  /\ \/ AskSend(s)
     \/ \E r \in Rooms : AskLeave(s, r) \/ AskRemove(s, r) \/ AskJoin(s, r)
     \/ \E t \in Targets : AskClear(s, t)
  /\ UNCHANGED <<server, current, messages, filter, pane, due, fetched, late>>

Deselects(t) == current' = IF current = t THEN Nowhere ELSE current

(* leaveRoom drops the mark too. *)
ServeLeave(s) ==
  LET r == task[s].target IN
  /\ At(s, "leave", "asked") \/ At(s, "/leave", "asked")
  /\ joined' = joined \ {r}
  /\ readUpTo' = [readUpTo EXCEPT ![r] = 0]
  /\ Goto(s, "answered")
  /\ UNCHANGED <<of, gone, current, messages, filter, pane, due, fetched, floor, late>>

(* handleRoomDelete, of a room the reader may delete. *)
ServeRemove(s) ==
  LET r == task[s].target IN
  /\ At(s, "remove", "asked")
  /\ IF r \in joined
       THEN /\ joined' = joined \ {r}
            /\ gone' = gone \cup Log(r)
            /\ readUpTo' = [readUpTo EXCEPT ![r] = 0]
            /\ Goto(s, "answered")
       ELSE End(s) /\ UNCHANGED <<joined, gone, readUpTo>>
  /\ UNCHANGED <<of, current, messages, filter, pane, due, fetched, floor, late>>

(* The room is left or deleted.  The /leave command forgets whatever is    *)
(* open by now, the menu's entries only their room.                        *)
HearClosed(s) ==
  /\ \/ (At(s, "leave", "answered") \/ At(s, "remove", "answered")) /\ Deselects(task[s].target)
     \/ At(s, "/leave", "answered") /\ current' = Nowhere
  /\ Goto(s, "rendering")
  /\ UNCHANGED <<server, messages, filter, pane, due, fetched, late>>

(* The render after the whoami that follows a leave or a delete. *)
RenderClosed(s) ==
  /\ task[s].step = "rendering"
  /\ End(s)
  /\ Show(current, messages, filter, task[s].kind = "remove")
  /\ UNCHANGED <<server, current, messages, filter, due, fetched, late>>

ThenRefreshes(s) == End(s) /\ due' = due + 1

ServeClear(s) ==
  LET t == task[s].target IN
  /\ At(s, "clear", "asked")
  /\ IF Refused(t)
       THEN End(s) /\ UNCHANGED <<gone, readUpTo, due>>
       ELSE /\ ThenRefreshes(s)
            /\ gone' = gone \cup Log(t)
            /\ readUpTo' = [r \in Rooms |-> IF r = t THEN 0 ELSE readUpTo[r]]
  /\ UNCHANGED <<of, joined, current, messages, filter, pane, fetched, floor, late>>

(* A row the reader puts in a room moves the reader's own mark to it. *)
PostOwn(t) ==
  /\ of' = Append(of, t)
  /\ readUpTo' = IF t \in Rooms THEN Advance(t, NextId) ELSE readUpTo
  /\ floor' = IF t \in Rooms THEN [floor EXCEPT ![t] = NextId] ELSE floor

ServeSend(s) ==
  /\ At(s, "send", "asked")
  /\ IF Refused(task[s].target)
       THEN End(s) /\ UNCHANGED <<of, readUpTo, floor, due>>
       ELSE PostOwn(task[s].target) /\ ThenRefreshes(s)
  /\ UNCHANGED <<gone, joined, current, messages, filter, pane, fetched, late>>

(* joinRoom announces a new member and anchors its mark there. *)
ServeJoin(s) ==
  LET r == task[s].target IN
  /\ At(s, "join", "asked")
  /\ IF r \in joined
       THEN UNCHANGED <<of, joined, readUpTo, floor>>
       ELSE joined' = joined \cup {r} /\ PostOwn(r)
  /\ Goto(s, "answered")
  /\ UNCHANGED <<gone, current, messages, filter, pane, due, fetched, late>>

(* The room is joined; the page selects it. *)
HearJoined(s) ==
  /\ At(s, "join", "answered")
  /\ task' = [task EXCEPT ![s].kind = "open", ![s].step = "asked"]
  /\ Enter(task[s].target)
  /\ UNCHANGED <<server, messages, pane, due, fetched, late>>

-----------------------------------------------------------------------------
(* What happens without a request *)

(* A peer posts; the reader is woken if the message is for the reader. *)
Post(t) ==
  /\ MayPost
  /\ of' = Append(of, t)
  /\ due' = IF Refused(t) THEN due ELSE due + 1
  /\ UNCHANGED <<gone, joined, readUpTo, current, messages, filter, pane, task,
                 fetched, floor, late>>

Back ==
  /\ current # Nowhere
  /\ current' = Nowhere
  /\ Show(Nowhere, messages, filter, FALSE)
  /\ UNCHANGED <<server, messages, filter, task, due, fetched, late>>

SetFilter(on) ==
  /\ filter' = on
  /\ Show(current, messages, on, FALSE)
  /\ UNCHANGED <<server, current, messages, task, due, fetched, late>>

Looks == UNCHANGED <<server, current, messages, filter, task, due, fetched, late>>

(* Enter in the filter reveals one of the rows it left. *)
WalkMatches == filter /\ Looks /\ \E id \in pane.shown : pane' \in Revealed(pane, id)

(* The timer of revealMessage. *)
ForgetLinked == pane.linked # 0 /\ Looks /\ pane' = [pane EXCEPT !.linked = 0, !.marked = {}]

Scroll(bottom) ==
  /\ pane.dom # <<>>
  /\ pane' = LET p == [pane EXCEPT !.pinned = bottom]
             IN Tallied(p, IF bottom THEN 0 ELSE p.unread)
  /\ Looks

(* jumpToNewest: the pill and the End key. *)
JumpToNewest == Looks /\ pane' = [Tallied(pane, 0) EXCEPT !.pinned = TRUE]

-----------------------------------------------------------------------------

(* boot has run, and the reader may have opened a conversation that is     *)
(* still empty.                                                            *)
PaneInit ==
  /\ of = <<>> /\ gone = {} /\ joined = Rooms
  /\ readUpTo = [r \in Rooms |-> 0]
  /\ current \in Targets \cup {Nowhere} /\ messages = {} /\ filter = FALSE
  /\ pane = Blank
  /\ task = [s \in Tasks |-> Idle]
  /\ due = 0 /\ gestures = 0
  /\ fetched = {} /\ floor = [r \in Rooms |-> 0] /\ late = FALSE

Serve(s) == \/ AnswerFetch(s) \/ AnswerLink(s) \/ ServeLeave(s) \/ ServeRemove(s)
            \/ ServeClear(s) \/ ServeSend(s) \/ ServeJoin(s)

Continue(s) == \/ RefreshPane(s) \/ LandFetch(s) \/ MarkRead(s) \/ OpenLink(s)
               \/ ShowWindow(s) \/ HearClosed(s) \/ RenderClosed(s) \/ HearJoined(s)

Gesture ==
  \/ \E s \in Tasks : \/ Ask(s)
                       \/ \E t \in Targets : SelectTarget(s, t)
                       \/ \E id \in DOMAIN of : FollowLink(s, id)
  \/ Back \/ WalkMatches \/ JumpToNewest
  \/ \E b \in BOOLEAN : SetFilter(b) \/ Scroll(b)

PaneNext ==
  \/ gestures < MaxGestures /\ gestures' = gestures + 1 /\ Gesture
  \/ /\ \/ \E s \in Tasks : Serve(s) \/ Continue(s)
        \/ \E t \in Targets : Post(t)
        \/ ForgetLinked
     /\ UNCHANGED gestures

PaneSpec == PaneInit /\ [][PaneNext]_paneVars

-----------------------------------------------------------------------------
(* Properties *)

(* The DOM holds exactly the rows the last render decided on, in their     *)
(* order, whichever mix of appends and rebuilds put them there, and the    *)
(* mark of a followed link is on the row it was followed to and no other.  *)
DomIsTheView ==
  /\ pane.dom = InOrder(pane.shown)
  /\ pane.marked = pane.shown \cap {pane.linked}

(* Rows of one conversation stand under the header of another only while   *)
(* that one is still being fetched, or because a response asked for before *)
(* the switch was handled after it: nothing else mixes the two.            *)
Fetching == \E s \in Tasks : task[s].target = current /\ task[s].kind \in {"open", "refresh"}

StrayRowsAreLate ==
  current # Nowhere /\ (\E i \in pane.shown : of[i] # current) => late \/ Fetching

(* A message of a room counts as read only if the page was given it, or a  *)
(* join or an own post moved the mark past it, or a full fetch of newer    *)
(* messages did: one that arrives between a fetch and the mark it leads to *)
(* stays unread.                                                           *)
MarkedWasFetched ==
  \A r \in joined : \A i \in Log(r) :
    i <= readUpTo[r] =>
      \/ i \in fetched
      \/ i <= floor[r]
      \/ Cardinality({j \in fetched : of[j] = r /\ j > i}) >= Limit

=============================================================================
