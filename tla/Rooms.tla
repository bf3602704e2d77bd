------------------------------- MODULE Rooms -------------------------------
(***************************************************************************)
(* One room: the rooms functions of storage/dao.ts, sendToRoom, and the    *)
(* room tools and terminal commands that call them.  Rooms share nothing   *)
(* but the message ids, so one room stands for any.                        *)
(*                                                                         *)
(* Every handle has one process that reads its rooms (HandleClaim says why)*)
(* and it makes one call at a time; a call is a sequence of statements and *)
(* a step is one of them, with the decision taken from what it returns.    *)
(* Message ids are AUTOINCREMENT: they only go up, also over a delete.     *)
(***************************************************************************)
EXTENDS Naturals, FiniteSets

CONSTANTS
  Handles,    \* who takes part
  Clients,    \* those of them at a terminal or the web page, not agents
  Nobody,     \* the owner of a room that does not exist
  System,     \* the reserved author of announcements
  Operations, \* the operations each handle uses in this instance
  MaxPosts    \* the bound on message ids

OpNames == {"join", "invite", "leave", "boot", "kick", "delete", "send",
            "inbox", "mark", "clear"}

ASSUME OperationsAssumption == Operations \in [Handles -> SUBSET (OpNames \cup {"crash"})]
ASSUME BoundAssumption == MaxPosts \in Nat
ASSUME ClientsAssumption == Clients \subseteq Handles
ASSUME NamesAssumption == Nobody \notin Handles /\ System \notin Handles

Agents == Handles \ Clients

VARIABLES
  owner,     \* rooms.created_by, or Nobody when there is no row
  members,   \* room_members
  reads,     \* room_reads.last_read_id; no row reads as 0 and is 0 here
  msgs,      \* the messages of the room
  nextId,    \* the next message id
  call,      \* what the process of each handle is doing
  anchor,    \* history: the id of the last announcement of an agent's join
  consumed,  \* history: the ids an agent's reads returned and advanced over,
             \* forgotten when the messages are deleted
  bared      \* history: the agents whose mark was taken back by a race

tables == <<owner, members, reads, msgs, nextId>>
history == <<anchor, consumed, bared>>
vars == <<owner, members, reads, msgs, nextId, call, anchor, consumed, bared>>

-----------------------------------------------------------------------------
(* Types *)

Message == [id: Nat, from: Handles \cup {System}]

Steps == {"idle", "checkTarget", "insertRoom", "readMember", "insertMember",
          "announce", "anchor", "deleteMember", "deleteMark", "announceBoot",
          "readCaller", "judge", "deleteMarks", "deleteMessages", "deleteRoom",
          "post", "readFloor", "fetch", "recheck", "advance", "resetMarks"}

Call == [op: OpNames \cup {"none"}, pc: Steps,
         who: Handles \cup {Nobody},  \* the target, or the owner a delete read
         since: Nat,                  \* since_id; 0 is what leaving it out is
         floor: Nat,
         got: SUBSET Nat,             \* the ids a read returned
         upTo: Nat]                   \* the id to move a mark to

Idle == [op |-> "none", pc |-> "idle", who |-> Nobody, since |-> 0,
         floor |-> 0, got |-> {}, upTo |-> 0]

TypeOK ==
  /\ owner \in Handles \cup {Nobody}
  /\ members \subseteq Handles
  /\ reads \in [Handles -> Nat]
  /\ msgs \subseteq Message
  /\ nextId \in Nat \ {0}
  /\ call \in [Handles -> Call]
  /\ anchor \in [Agents -> Nat]
  /\ consumed \in [Agents -> SUBSET Nat]
  /\ bared \subseteq Agents
  /\ members # {} => owner # Nobody
  /\ \A m \in msgs : m.id < nextId

-----------------------------------------------------------------------------
(* The calls *)

Larger(a, b) == IF a >= b THEN a ELSE b

Continue(h, step) == call' = [call EXCEPT ![h] = [@ EXCEPT !.pc = step]]
Return(h) == call' = [call EXCEPT ![h] = Idle]

(* Handles that lose something if their mark goes now: members, and those  *)
(* whose read has passed its membership check and not yet read the mark.   *)
Exposed == {h \in Handles : h \in members \/ call[h].pc = "readFloor"}

Bare(who) == bared \cup (who \cap Agents)

(* Each call posts at most one message, so none is stopped by the bound.   *)
MayPost == nextId + Cardinality({h \in Handles : call[h].pc # "idle"}) <= MaxPosts

Enter(h, op, who, step) ==
  /\ call[h].pc = "idle"
  /\ op \in Operations[h]
  /\ op \in {"invite", "kick", "clear", "mark"} => h \in Clients
  /\ op \in {"join", "invite", "boot", "send"} => MayPost
  /\ call' = [call EXCEPT ![h] = [Idle EXCEPT !.op = op, !.pc = step, !.who = who]]

(* The calls that begin with isRoomMember of the caller; a caller that is  *)
(* none is refused, and nothing has happened.  An invitation then wants an *)
(* outsider, a boot a member.                                              *)
CheckCaller(h, op, who) ==
  /\ h \in members
  /\ op \in {"invite", "boot"} /\ who # h
  /\ Enter(h, op, who, "checkTarget")
  /\ UNCHANGED <<tables, history>>

CheckTarget(h) ==
  /\ call[h].pc = "checkTarget"
  /\ IF (call[h].who \in members) = (call[h].op = "boot")
       THEN Continue(h, IF call[h].op = "boot" THEN "deleteMember" ELSE "insertRoom")
       ELSE Return(h)
  /\ UNCHANGED <<tables, history>>

-----------------------------------------------------------------------------
(* joinRoom, of the caller or of the one it invites *)

InsertRoom(h) ==
  \E w \in Handles :
    /\ \/ w = h /\ Enter(h, "join", w, "readMember")
       \/ /\ call[h].pc = "insertRoom" /\ w = call[h].who
          /\ Continue(h, "readMember")
    /\ owner' = IF owner = Nobody THEN w ELSE owner
    /\ UNCHANGED <<members, reads, msgs, nextId, history>>

ReadMember(h) ==
  /\ call[h].pc = "readMember"
  /\ IF call[h].who \in members THEN Return(h) ELSE Continue(h, "insertMember")
  /\ UNCHANGED <<tables, history>>

(* The primary key and the foreign key make the statement throw. *)
InsertMember(h) ==
  /\ call[h].pc = "insertMember"
  /\ IF call[h].who \in members \/ owner = Nobody
       THEN Return(h) /\ UNCHANGED <<members, bared>>
       ELSE /\ members' = members \cup {call[h].who}
            /\ bared' = IF call[h].who = h THEN bared \ {h} ELSE Bare({call[h].who})
            /\ Continue(h, "announce")
  /\ UNCHANGED <<owner, reads, msgs, nextId, anchor, consumed>>

Announce(h) ==
  /\ call[h].pc = "announce"
  /\ msgs' = msgs \cup {[id |-> nextId, from |-> System]}
  /\ nextId' = nextId + 1
  /\ anchor' = [a \in Agents |-> IF a = call[h].who THEN nextId ELSE anchor[a]]
  /\ call' = [call EXCEPT ![h] = [@ EXCEPT !.pc = "anchor", !.upTo = nextId]]
  /\ UNCHANGED <<owner, members, reads, consumed, bared>>

Joins(g, w) == call[g].who = w /\ call[g].pc \in {"announce", "anchor"}

(* The upsert overwrites: a join that ends late, beside an invitation of   *)
(* the same handle, takes back a mark that has moved on.                   *)
TakesBack(h) ==
  LET w == call[h].who
  IN w \in Agents /\ \/ call[h].upTo < anchor[w]
                     \/ \E i \in consumed[w] : call[h].upTo < i
                     \/ call[w].pc = "fetch"
                     \/ \E g \in Handles \ {h} : Joins(g, w)

AnchorOnlyIfNone(h) ==
  /\ call[h].pc = "anchor"
  /\ reads' = [reads EXCEPT ![call[h].who] = IF @ = 0 THEN call[h].upTo ELSE @]
  /\ bared' = IF TakesBack(h) THEN Bare({call[h].who}) ELSE bared \ {call[h].who}
  /\ Return(h)
  /\ UNCHANGED <<owner, members, msgs, nextId, anchor, consumed>>

Anchor(h) ==
  /\ call[h].pc = "anchor"
  /\ reads' = [reads EXCEPT ![call[h].who] = call[h].upTo]
  /\ bared' = IF TakesBack(h) THEN Bare({call[h].who}) ELSE bared \ {call[h].who}
  /\ Return(h)
  /\ UNCHANGED <<owner, members, msgs, nextId, anchor, consumed>>

-----------------------------------------------------------------------------
(* leaveRoom, bootFromRoom, and what deleteAgent does to a room *)

DeleteMember(h) ==
  \E w \in Handles :
    /\ \/ w = h /\ Enter(h, "leave", w, "deleteMark")
       \/ w # h /\ Enter(h, "kick", w, "deleteMark")
       \/ /\ call[h].pc = "deleteMember" /\ w = call[h].who
          /\ Continue(h, "deleteMark")
    /\ members' = members \ {w}
    /\ UNCHANGED <<owner, reads, msgs, nextId, history>>

DeleteMark(h) ==
  /\ call[h].pc = "deleteMark"
  /\ reads' = [reads EXCEPT ![call[h].who] = 0]
  /\ bared' = Bare({call[h].who} \cap Exposed)
  /\ IF call[h].op = "boot" THEN Continue(h, "announceBoot") ELSE Return(h)
  /\ UNCHANGED <<owner, members, msgs, nextId, anchor, consumed>>

(* The old terminal moves its own mark over the announcement; the new one  *)
(* posts none.                                                             *)
AnnounceBoot(h) ==
  /\ call[h].pc = "announceBoot"
  /\ \/ /\ msgs' = msgs \cup {[id |-> nextId, from |-> System]}
        /\ nextId' = nextId + 1
        /\ IF h \in Clients
             THEN call' = [call EXCEPT ![h] = [@ EXCEPT !.pc = "advance", !.upTo = nextId]]
             ELSE Return(h)
     \/ /\ h \in Clients
        /\ Return(h)
        /\ UNCHANGED <<msgs, nextId>>
  /\ UNCHANGED <<owner, members, reads, history>>

-----------------------------------------------------------------------------
(* deleteRoom and deleteRoomMessages *)

ReadOwner(h) ==
  /\ owner # Nobody
  /\ Enter(h, "delete", owner, "readCaller")
  /\ UNCHANGED <<tables, history>>

ReadCaller(h) ==
  /\ call[h].pc = "readCaller"
  /\ IF h \in members THEN Continue(h, "judge") ELSE Return(h)
  /\ UNCHANGED <<tables, history>>

(* roomDeleteVerdict for a caller that is a member. *)
RoomDeleteVerdict(caller, own, present) ==
  IF own = caller \/ own \notin present THEN "allow" ELSE "owner-only"

Judge(h) ==
  /\ call[h].pc = "judge"
  /\ IF RoomDeleteVerdict(h, call[h].who, members) = "allow"
       THEN Continue(h, "deleteMarks")
       ELSE Return(h)
  /\ UNCHANGED <<tables, history>>

DeleteMarks(h) ==
  /\ call[h].pc = "deleteMarks"
  /\ reads' = [g \in Handles |-> 0]
  /\ bared' = Bare(Exposed)
  /\ Continue(h, "deleteMessages")
  /\ UNCHANGED <<owner, members, msgs, nextId, anchor, consumed>>

DeleteMessages(h) ==
  /\ call[h].pc = "deleteMessages"
  /\ msgs' = {}
  /\ consumed' = [a \in Agents |-> {}]
  /\ Continue(h, "deleteRoom")
  /\ UNCHANGED <<owner, members, reads, nextId, anchor, bared>>

(* The memberships go with the row, by the foreign key. *)
DeleteRoom(h) ==
  /\ call[h].pc = "deleteRoom"
  /\ owner' = Nobody
  /\ members' = {}
  /\ Return(h)
  /\ UNCHANGED <<reads, msgs, nextId, history>>

ClearMessages(h) ==
  /\ Enter(h, "clear", h, "resetMarks")
  /\ msgs' = {}
  /\ consumed' = [a \in Agents |-> {}]
  /\ UNCHANGED <<owner, members, reads, nextId, anchor, bared>>

ResetMarks(h) ==
  /\ call[h].pc = "resetMarks"
  /\ reads' = [g \in Handles |-> 0]
  /\ bared' = Bare(Exposed)
  /\ Return(h)
  /\ UNCHANGED <<owner, members, msgs, nextId, anchor, consumed>>

-----------------------------------------------------------------------------
(* sendToRoom *)

AdvancesOwnRead(h) == TRUE
AdvanceOwnRead(h) == h \in Clients

CheckSender(h) ==
  /\ h \in members
  /\ Enter(h, "send", h, "post")
  /\ UNCHANGED <<tables, history>>

Post(h) ==
  /\ call[h].pc = "post"
  /\ msgs' = msgs \cup {[id |-> nextId, from |-> h]}
  /\ nextId' = nextId + 1
  /\ IF AdvanceOwnRead(h)
       THEN call' = [call EXCEPT ![h] = [@ EXCEPT !.pc = "advance", !.upTo = nextId]]
       ELSE Return(h)
  /\ UNCHANGED <<owner, members, reads, history>>

-----------------------------------------------------------------------------
(* room_inbox, and the same read at a terminal *)

FloorIsSince(mark, since) == IF since = 0 THEN mark ELSE since
Floor(mark, since) == Larger(mark, since)

CheckReader(h) ==
  /\ h \in members
  /\ Enter(h, "inbox", h, "readFloor")
  /\ UNCHANGED <<tables, history>>

(* Only the tool of an agent takes a since_id. *)
ReadFloor(h, since) ==
  /\ call[h].pc = "readFloor"
  /\ since < nextId /\ (since > 0 => h \in Agents)
  /\ call' = [call EXCEPT ![h] = [@ EXCEPT !.pc = "fetch", !.since = since,
                                           !.floor = Floor(reads[h], since)]]
  /\ UNCHANGED <<tables, history>>

(* What roomUnread selects. *)
Unread(h) == {m.id : m \in {n \in msgs : n.id > call[h].floor /\ n.from # h}}

(* The LIMIT: the unread ids up to some last one. *)
Fetch(h) ==
  /\ call[h].pc = "fetch"
  /\ IF Unread(h) = {}
       THEN Return(h)
       ELSE \E last \in Unread(h) :
              call' = [call EXCEPT ![h] =
                         [@ EXCEPT !.pc = IF call[h].since = 0 THEN "advance" ELSE "recheck",
                                   !.got = {i \in Unread(h) : i <= last},
                                   !.upTo = last]]
  /\ UNCHANGED <<tables, history>>

AdvanceOverGap(since, mark) == FALSE
(* safeRoomAdvanceId: a since_id above the mark leaves a gap. *)
LeavesGap(since, mark) == since > mark

Recheck(h) ==
  /\ call[h].pc = "recheck"
  /\ IF LeavesGap(call[h].since, reads[h]) THEN Return(h) ELSE Continue(h, "advance")
  /\ UNCHANGED <<tables, history>>

(* The web page marks up to an id it has displayed. *)
MarkSeen(h, shown) ==
  /\ h \in members /\ shown < nextId
  /\ call[h].pc = "idle" /\ "mark" \in Operations[h] /\ h \in Clients
  /\ call' = [call EXCEPT ![h] = [Idle EXCEPT !.op = "mark", !.pc = "advance",
                                              !.who = h, !.upTo = shown]]
  /\ UNCHANGED <<tables, history>>

(* advanceRoomRead never lowers a mark. *)
Advance(h) ==
  /\ call[h].pc = "advance"
  /\ reads' = [reads EXCEPT ![h] = Larger(@, call[h].upTo)]
  /\ consumed' = [a \in Agents |-> IF a = h THEN consumed[a] \cup call[h].got
                                            ELSE consumed[a]]
  /\ Return(h)
  /\ UNCHANGED <<owner, members, msgs, nextId, anchor, bared>>

-----------------------------------------------------------------------------
(* A process dies in a call that has written: half of it stays, a join     *)
(* perhaps without its mark.  Before its first write nothing is left.      *)
Crash(h) ==
  /\ "crash" \in Operations[h]
  /\ call[h].pc \in {"readMember", "insertMember", "announce", "anchor", "deleteMark",
                     "announceBoot", "deleteMessages", "deleteRoom", "resetMarks"}
  /\ Return(h)
  /\ bared' = IF call[h].pc \in {"announce", "anchor"} THEN Bare({call[h].who}) ELSE bared
  /\ UNCHANGED <<tables, anchor, consumed>>

Init ==
  /\ owner = Nobody /\ members = {} /\ msgs = {} /\ nextId = 1
  /\ reads = [h \in Handles |-> 0]
  /\ call = [h \in Handles |-> Idle]
  /\ anchor = [h \in Agents |-> 0]
  /\ consumed = [h \in Agents |-> {}]
  /\ bared = {}

Step(h) ==
  \/ \E op \in {"invite", "boot"}, who \in Handles : CheckCaller(h, op, who)
  \/ CheckTarget(h)
  \/ InsertRoom(h) \/ ReadMember(h) \/ InsertMember(h) \/ Announce(h) \/ Anchor(h)
  \/ DeleteMember(h) \/ DeleteMark(h) \/ AnnounceBoot(h)
  \/ ReadOwner(h) \/ ReadCaller(h) \/ Judge(h)
  \/ DeleteMarks(h) \/ DeleteMessages(h) \/ DeleteRoom(h)
  \/ ClearMessages(h) \/ ResetMarks(h)
  \/ CheckSender(h) \/ Post(h)
  \/ CheckReader(h) \/ (\E since \in 0 .. MaxPosts : ReadFloor(h, since))
  \/ Fetch(h) \/ Recheck(h) \/ Advance(h)
  \/ (\E shown \in 1 .. MaxPosts : MarkSeen(h, shown))
  \/ Crash(h)

Next == \E h \in Handles : Step(h)

Spec == Init /\ [][Next]_vars

-----------------------------------------------------------------------------
(* Properties *)

(* A mark never passes a message its agent was not shown: whatever another *)
(* posted after the agent joined and the mark has passed was returned by   *)
(* one of the agent's reads (safeRoomAdvanceId, advanceRoomRead, and the   *)
(* advanceOwnRead that room_send must not set).                            *)
NothingSkipped ==
  \A h \in Agents : \A m \in msgs :
     m.from # h /\ anchor[h] < m.id /\ m.id <= reads[h] => m.id \in consumed[h]

(* What an agent's read returned and advanced over does not come back, a   *)
(* stale since_id included (readFloor), unless a delete, a clear, a boot   *)
(* or an invitation took the mark back under it.                           *)
NothingTwice ==
  [][\A h \in Agents :
       Fetch(h) /\ h \notin bared => call'[h].got \cap consumed[h] = {}]_vars

(* Nothing posted up to the announcement of its own join is shown to an    *)
(* agent (joinRoom anchors the watermark there), with the same exceptions  *)
(* and a join that died half-way.                                          *)
NothingOlder ==
  [][\A h \in Agents :
       Fetch(h) /\ h \notin bared => \A i \in call'[h].got : i > anchor[h]]_vars
=============================================================================
