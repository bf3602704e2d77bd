------------------------------ MODULE Terminal ------------------------------
(***************************************************************************)
(* The two terminal clients of one handle over the shared tables: the Ink  *)
(* console (cli/ink/App.tsx), which draws what the database holds whenever *)
(* its view or its tick changes and marks what is on view in an effect     *)
(* after that, and the line client (cli/index.ts), which prints and marks  *)
(* what is unread when the doorbell rings.  Neither looks at the database  *)
(* at any other time.                                                      *)
(*                                                                         *)
(* A message is its sender, its recipient and whether it is an alert; its  *)
(* id is its place in the log.  A client handles one event at a time.  An  *)
(* event of the console is one step with the render it asks for; the       *)
(* effect is a later step, before the next event.  What the commands do    *)
(* statement by statement beside other processes is in Rooms.tla, the      *)
(* doorbell's file in DirectMail.tla.                                      *)
(***************************************************************************)
EXTENDS Integers, Sequences, FiniteSetsExt, SequencesExt

CONSTANTS
  Me, System, \* the user's handle, and the sender of announcements
  Peers,      \* the other agents, all registered
  RoomNames,  \* the rooms in the order of their names
  Sent,       \* the messages of this instance, the user's and the peers'
  MaxLog,     \* bound on the messages
  Limit,      \* messages a view loads (200 in the code)
  Cap,        \* unread messages one query returns (50)
  LaneSize    \* alerts in the lane (5)

ASSUME BoundsAssumption ==
  {MaxLog, Limit, Cap, LaneSize} \subseteq Nat \ {0}
(* A room's name begins with #, and no handle does (util/naming.ts:9-10). *)
ASSUME NamesAssumption ==
  /\ RoomNames \in Seq(Range(RoomNames))
  /\ Range(RoomNames) \cap (Peers \cup {Me, System}) = {}
  /\ Me \notin Peers /\ IsFiniteSet(Peers)
ASSUME SentAssumption ==
  Sent \subseteq [from: Peers, to: Range(RoomNames) \cup {Me}, alert: BOOLEAN] \cup
                [from: {Me}, to: Range(RoomNames) \cup Peers, alert: BOOLEAN]

VARIABLES
  log,    \* the messages table
  gone,   \* the ids of the messages that were deleted
  read,   \* the ids of the direct messages with a read_at
  joined, \* the rooms the user is a member of
  mark,   \* room_reads: the user's watermark in each room, 0 for no row
  toRing, \* ids of messages whose sender has not rung, or never does
  bell,   \* the notify file has changed since it was last polled
  ui,     \* the client that runs
  view,   \* what it has open
  screen, \* what it drew or printed
  due     \* the log the last render saw, till its effect has run

tables == <<log, gone, read, joined, mark>>
client == <<ui, view, screen, due>>
vars == <<tables, toRing, bell, client>>

-----------------------------------------------------------------------------
(* The tables *)

RoomSet == Range(RoomNames)
Ids == 1..MaxLog
Home == [at |-> "home", of |-> System]
Views == {Home} \cup [at: {"dm"}, of: Peers] \cup [at: {"room"}, of: RoomSet]
NoScreen == [rows |-> {}, lane |-> {}, badged |-> {}]
Ran == -1

TypeOK ==
  /\ log \in Seq([from: Peers \cup {Me, System}, to: Peers \cup {Me} \cup RoomSet, alert: BOOLEAN])
  /\ Len(log) <= MaxLog
  /\ gone \cup read \cup toRing \subseteq DOMAIN log
  /\ joined \subseteq RoomSet
  /\ mark \in [RoomSet -> 0..MaxLog]
  /\ bell \in BOOLEAN /\ due \in {Ran} \cup 0..MaxLog
  /\ ui \in {"none", "ink", "repl"} /\ view \in Views
  /\ screen \in [rows: SUBSET Ids, lane: SUBSET Ids, badged: SUBSET Ids]

Live == DOMAIN log \ gone
To(target) == {id \in Live : log[id].to = target}

Oldest(n, ids) == {id \in ids : Cardinality({i \in ids : i < id}) < n}
Newest(n, ids) == {id \in ids : Cardinality({i \in ids : i > id}) < n}

(* pendingInbox: a page of the direct messages, oldest first. *)
PendingInbox == Oldest(Cap, To(Me) \ read)

RoomUnread(room) == {id \in To(room) : id > mark[room] /\ log[id].from # Me}

(* allRoomsUnread: one page for all the rooms, filled in the order of      *)
(* their names.                                                            *)
InRooms == UNION {RoomUnread(room) : room \in joined}
Place(room) == CHOOSE n \in DOMAIN RoomNames : RoomNames[n] = room
Precedes(i, id) ==
  \/ Place(log[i].to) < Place(log[id].to)
  \/ log[i].to = log[id].to /\ i < id
AllRoomsUnread == {id \in InRooms : Cardinality({i \in InRooms : Precedes(i, id)}) < Cap}

-----------------------------------------------------------------------------
(* What the clients show *)

Conversation(v) ==
  CASE v.at = "dm" -> {id \in To(v.of) : log[id].from = Me} \cup
                      {id \in To(Me) : log[id].from = v.of}
    [] v.at = "room" -> To(v.of)
    [] OTHER -> {}

(* The messages of a view: the newest of its conversation. *)
Rows(v) == Newest(Limit, Conversation(v))

(* The alert lane: the newest alerts nobody has read or dismissed. *)
Lane ==
  Newest(LaneSize, {id \in Live : log[id].alert /\
    \/ log[id].to = Me /\ id \notin read
    \/ log[id].to \in joined /\ id > mark[log[id].to]})

(* The badges of the sidebar, as the messages they count. *)
Badged == PendingInbox \cup AllRoomsUnread

-----------------------------------------------------------------------------
(* Writes.  Those of one call are one step here. *)

MayPost == Len(log) < MaxLog
NextId == Len(log) + 1
Message(from, to, alert) == [from |-> from, to |-> to, alert |-> alert]
Insert(message) == log' = Append(log, message)

(* advanceRoomRead *)
Advance(room, id) == mark' = [mark EXCEPT ![room] = IF id > @ THEN id ELSE @]

(* Mutant of Enter: the mark of who joins is not set. *)
EnterWithoutMark(room) ==
  IF room \in joined
  THEN UNCHANGED <<log, joined, mark>>
  ELSE /\ MayPost
       /\ Insert(Message(System, room, FALSE))
       /\ joined' = joined \cup {room}
       /\ UNCHANGED mark

(* joinRoom for the user: the announcement, and the mark at it. *)
Enter(room) ==
  IF room \in joined
  THEN UNCHANGED <<log, joined, mark>>
  ELSE /\ MayPost
       /\ Insert(Message(System, room, FALSE))
       /\ joined' = joined \cup {room}
       /\ mark' = [mark EXCEPT ![room] = NextId]

(* leaveRoom and bootFromRoom. *)
Exit(room) ==
  /\ joined' = joined \ {room}
  /\ mark' = [mark EXCEPT ![room] = 0]
  /\ UNCHANGED <<log, gone, read>>

(* deleteRoom, once it is allowed. *)
Drop(room) ==
  /\ gone' = gone \cup To(room)
  /\ joined' = joined \ {room}
  /\ mark' = [mark EXCEPT ![room] = 0]
  /\ UNCHANGED <<log, read>>

(* deleteRoomMessages and deleteDmMessages. *)
Wipe(v) ==
  /\ gone' = gone \cup Conversation(v)
  /\ mark' = IF v.at = "room" THEN [mark EXCEPT ![v.of] = 0] ELSE mark
  /\ UNCHANGED <<log, read, joined>>

-----------------------------------------------------------------------------
(* The others.  A sender writes the message and rings after that, or dies  *)
(* in between.  Of the rest some ring and some do not.                     *)

Post(message) ==
  /\ MayPost /\ message.from \in Peers
  /\ Insert(message)
  /\ toRing' = toRing \cup {NextId}
  /\ UNCHANGED <<gone, read, joined, mark, bell, client>>

Ring(id) ==
  /\ id \in toRing
  /\ toRing' = toRing \ {id}
  /\ bell' = (bell \/ log[id].to \in joined \cup {Me})
  /\ UNCHANGED <<tables, client>>

Invited(room) ==
  /\ room \notin joined
  /\ Enter(room)
  /\ toRing' = toRing \cup {NextId}
  /\ UNCHANGED <<gone, read, bell, client>>

MayRing == bell' \in {bell, TRUE} /\ UNCHANGED <<toRing, client>>

Booted(room) == room \in joined /\ Exit(room) /\ MayRing
Deleted(room) == (To(room) # {} \/ room \in joined) /\ Drop(room) /\ MayRing
Wiped(v) == Conversation(v) # {} /\ Wipe(v) /\ MayRing

-----------------------------------------------------------------------------
(* The line client *)

Quiet == UNCHANGED <<toRing, bell>>

(* flushInbox: what is unread is marked, and then printed. *)
Flush ==
  /\ read' = read \cup PendingInbox
  /\ mark' = [room \in RoomSet |-> Max({mark[room]} \cup (AllRoomsUnread \cap To(room)))]
  /\ screen' = [screen EXCEPT !.rows = @ \cup Badged, !.badged = Badged]
  /\ UNCHANGED <<log, gone, joined>>

(* One line of the prompt: the view it leaves, and its writes. *)
Line(v) ==
  /\ ui = "repl" /\ view' = v
  /\ Quiet /\ UNCHANGED <<ui, screen, due>>

LineLook(v) == v.at # "room" /\ Line(v) /\ UNCHANGED tables
LineJoin(room) == Line([at |-> "room", of |-> room]) /\ Enter(room) /\ UNCHANGED <<gone, read>>
LineLeave == view.at = "room" /\ Line(Home) /\ Exit(view.of)
LineDelete(room) ==
  /\ room \in joined
  /\ Line(IF view = [at |-> "room", of |-> room] THEN Home ELSE view)
  /\ Drop(room)

(* A line of text goes to what is open; in a room its id passes the mark   *)
(* over all that came before, and so does the announcement of a boot.      *)
LineText ==
  /\ MayPost /\ view.at # "home"
  /\ view.at = "room" => view.of \in joined
  /\ Line(view)
  /\ Insert(Message(Me, view.of, FALSE))
  /\ IF view.at = "room" THEN Advance(view.of, NextId) ELSE UNCHANGED mark
  /\ UNCHANGED <<gone, read, joined>>

LineBoot ==
  /\ MayPost /\ view.at = "room" /\ view.of \in joined
  /\ Line(view)
  /\ Insert(Message(System, view.of, FALSE))
  /\ Advance(view.of, NextId)
  /\ UNCHANGED <<gone, read, joined>>

-----------------------------------------------------------------------------
(* The console *)

(* Mutant of Render: the badges are kept with the view's rows. *)
RenderWithOldBadges(v, tick) ==
  /\ view' = v
  /\ screen' = [rows |-> Rows(v)',
                lane |-> IF tick THEN Lane' ELSE screen.lane,
                badged |-> IF v # view THEN Badged' ELSE screen.badged]
  /\ due' = Len(log')

(* A render.  The rows are loaded for the view and the tick, the rest of   *)
(* the screen for the tick alone.                                          *)
Render(v, tick) ==
  /\ view' = v
  /\ screen' = [rows |-> Rows(v)',
                lane |-> IF tick THEN Lane' ELSE screen.lane,
                badged |-> IF tick THEN Badged' ELSE screen.badged]
  /\ due' = Len(log')

(* A key, a command or the doorbell: it leaves v open, and redraws.        *)
Event(v, tick) == ui = "ink" /\ due = Ran /\ Render(v, tick) /\ UNCHANGED ui
Command(v) == Event(v, TRUE) /\ Quiet
RoomView(room) == [at |-> "room", of |-> room]

(* What only opens a view: commands, hotkeys and the rooms browser. *)
Look(v) == UNCHANGED tables /\ Event(v, FALSE) /\ Quiet
Close == Look(Home)
OpenDm(peer) == Look([at |-> "dm", of |-> peer])
OpenRoom(room) == Look(RoomView(room))

Join(room) ==
  /\ Enter(room) /\ UNCHANGED <<gone, read>>
  /\ Command(RoomView(room))

Leave == view.at = "room" /\ Exit(view.of) /\ Command(Home)

Delete(room) ==
  /\ room \in joined
  /\ Drop(room)
  /\ Command(IF view = RoomView(room) THEN Home ELSE view)

SendTo(message) ==
  /\ MayPost /\ message.from = Me
  /\ message.to \in RoomSet => message.to \in joined
  /\ Insert(message)
  /\ IF message.to \in RoomSet THEN Advance(message.to, NextId) ELSE UNCHANGED mark
  /\ UNCHANGED <<gone, read, joined>>
  /\ Command(view)

(* A line goes to what is open; /dispatch, /broadcast and /alert name who. *)
SendCurrent(message) == view.at # "home" /\ message.to = view.of /\ SendTo(message)
SendElsewhere(message) == SendTo(message)

(* /ack dismisses the alerts that are drawn, whatever came since. *)
Ack ==
  /\ read' = read \cup {id \in screen.lane \cap Live : log[id].to = Me}
  /\ mark' = [room \in RoomSet |->
               Max({mark[room]} \cup {id \in screen.lane : log[id].to = room})]
  /\ UNCHANGED <<log, gone, joined>>
  /\ Command(view)

Clear == view.at # "home" /\ Wipe(view) /\ Command(view)

(* /invite: somebody else joins, and the console does not ring itself.     *)
Invite(room) ==
  /\ MayPost /\ room \in joined
  /\ Insert(Message(System, room, FALSE))
  /\ UNCHANGED <<gone, read, joined, mark>>
  /\ Command(view)

(* /all-hands joins, and then alerts whoever is online; nobody is, and it  *)
(* returns before the tick.                                                *)
AllHands(room, online) ==
  /\ Len(log) + Cardinality(online) < MaxLog
  /\ LET alerts == SetToSeq({Message(Me, peer, TRUE) : peer \in online})
     IN IF room \in joined
        THEN log' = log \o alerts /\ UNCHANGED <<joined, mark>>
        ELSE /\ log' = Append(log, Message(System, room, FALSE)) \o alerts
             /\ joined' = joined \cup {room}
             /\ mark' = [mark EXCEPT ![room] = NextId]
  /\ UNCHANGED <<gone, read>>
  /\ IF online = {} THEN ui = "ink" /\ due = Ran /\ Quiet /\ UNCHANGED client ELSE Command(view)

(* /set-status, /kick, /rooms remove and /room-check: only a tick.         *)
Bump == UNCHANGED tables /\ Command(view)

(* The effect of the render marks what is unread in its view by now. *)
Seen == {id \in PendingInbox : view.at = "dm" /\ log[id].from = view.of}

(* Mutant of SeenInRoom: what the page holds of the other rooms too. *)
SeenInAnyRoom == {id \in AllRoomsUnread : view.at = "room"}

SeenInRoom == {id \in AllRoomsUnread : view.at = "room" /\ log[id].to = view.of}

Effect ==
  /\ due # Ran /\ due' = Ran
  /\ read' = read \cup Seen
  /\ mark' = [room \in RoomSet |-> Max({mark[room]} \cup (SeenInRoom \cap To(room)))]
  /\ Quiet /\ UNCHANGED <<log, gone, joined, ui, view, screen>>

-----------------------------------------------------------------------------
(* Both *)

(* Each tells the bus to call it, and then looks once by itself. *)
StartConsole ==
  /\ ui = "none" /\ ui' = "ink" /\ bell' = FALSE
  /\ UNCHANGED <<tables, toRing>>
  /\ Render(Home, TRUE)

StartLine ==
  /\ ui = "none" /\ ui' = "repl" /\ bell' = FALSE
  /\ Flush
  /\ UNCHANGED <<view, due, toRing>>

Poll ==
  /\ bell /\ bell' = FALSE
  /\ \/ UNCHANGED tables /\ Event(view, TRUE)
     \/ ui = "repl" /\ Flush /\ UNCHANGED <<ui, view, due>>
  /\ UNCHANGED toRing

Quit ==
  /\ ui # "none" /\ ui' = "none"
  /\ view' = Home /\ screen' = NoScreen /\ due' = Ran
  /\ Quiet /\ UNCHANGED tables

Init ==
  /\ log = <<>> /\ gone = {} /\ read = {} /\ joined \in SUBSET RoomSet
  /\ mark = [room \in RoomSet |-> 0]
  /\ toRing = {} /\ bell = FALSE
  /\ ui = "none" /\ view = Home /\ screen = NoScreen /\ due = Ran

Others ==
  \/ \E message \in Sent : Post(message)
  \/ \E id \in toRing : Ring(id)
  \/ \E room \in RoomSet : Invited(room) \/ Booted(room) \/ Deleted(room)
  \/ \E v \in Views : Wiped(v)

LineClient ==
  \/ \E v \in Views : LineLook(v)
  \/ \E room \in RoomSet : LineJoin(room) \/ LineDelete(room)
  \/ LineLeave \/ LineText \/ LineBoot

Console ==
  \/ Close
  \/ \E peer \in Peers : OpenDm(peer)
  \/ \E room \in RoomSet : OpenRoom(room) \/ Join(room) \/ Delete(room) \/ Invite(room)
  \/ \E room \in RoomSet, online \in SUBSET Peers : AllHands(room, online)
  \/ \E message \in Sent : SendCurrent(message) \/ SendElsewhere(message)
  \/ Leave \/ Ack \/ Clear \/ Bump \/ Effect

Next ==
  \/ Others \/ LineClient \/ Console
  \/ StartConsole \/ StartLine
  \/ Poll \/ Quit

Spec == Init /\ [][Next]_vars

-----------------------------------------------------------------------------
(* Properties *)

Unread(id) ==
  /\ id \in Live
  /\ \/ log[id].to = Me /\ id \notin read
     \/ log[id].to \in joined /\ log[id].from # Me /\ id > mark[log[id].to]

(* Messages of others that this step marks, in rooms it does not leave. *)
Consumed ==
  {id \in Live : /\ Unread(id) /\ ~Unread(id)' /\ id \notin gone'
                 /\ log[id].to \in RoomSet => log[id].to \in joined'}

PassedByOwnPost(id) ==
  Len(log') > Len(log) /\ log'[Len(log')].to = log[id].to

PassedByAlert(id) ==
  \E alert \in screen.lane : id < alert /\ log[alert].to = log[id].to

BeyondThePage(id) ==
  id \notin Newest(Limit, Conversation(
    IF log[id].to = Me THEN [at |-> "dm", of |-> log[id].from]
                       ELSE [at |-> "room", of |-> log[id].to]))

(* What a client marks read it shows, or prints in the same step; but for  *)
(* what came after the console drew, what is older than the page a view    *)
(* loads, and what an own post or a dismissed alert of the room passes     *)
(* over (App.tsx:209-227, 260, 544, cli/index.ts:68-96).                   *)
MarksWhatItShows ==
  [][\A id \in Consumed :
       \/ id \in screen.rows \cup screen.lane \cup screen'.rows
       \/ due # Ran /\ id > due
       \/ BeyondThePage(id) \/ PassedByOwnPost(id) \/ PassedByAlert(id)]_vars

IsDm(id) == log[id].to = Me
PageIsFull(dms) == Cardinality({id \in screen.badged : IsDm(id) = dms}) = Cap

(* When the doorbell is polled, every unread message that was rung is on   *)
(* the screen or counted by a badge, unless the last look filled a page:   *)
(* both clients look at the database on a ring alone, and what they marked *)
(* in between was under an older look (App.tsx:78-85, 229-243,             *)
(* cli/index.ts:98-99).                                                    *)
RungIsOnScreen ==
  ui # "none" /\ ~bell =>
    \A id \in (PendingInbox \cup AllRoomsUnread) \ toRing :
      id \in screen.rows \cup screen.badged \/ PageIsFull(IsDm(id))

(* The line client prints no message twice: not after a boot and a new     *)
(* invitation, which take the mark away and set it again, nor after a room *)
(* is emptied, which takes it to 0 (cli/index.ts:68-96, dao.ts:480-489).   *)
PrintsOnce ==
  [][ui = "repl" /\ bell /\ ~bell' => Badged \cap screen.rows = {}]_vars
=============================================================================
