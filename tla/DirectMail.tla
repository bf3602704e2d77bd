----------------------------- MODULE DirectMail -----------------------------
(***************************************************************************)
(* The direct messages to one handle and the doorfile that goes with them: *)
(* the message functions of storage/dao.ts, the send, inbox and            *)
(* wait_for_message tools with their one-shot siblings, and notify/bus.ts. *)
(*                                                                         *)
(* A message is a row; the notify file of its recipient is overwritten     *)
(* after it.  Every process that reads as the handle polls the file while  *)
(* it runs.  A process does what a tool does between two awaits in one go; *)
(* others come between its statements.                                     *)
(***************************************************************************)
EXTENDS Naturals, FiniteSets

CONSTANTS
  Senders,   \* processes that write to the handle, one send at a time
  Readers,   \* processes that read as the handle: a shim, one-shots, clients
  Shims,     \* those of them that serve wait_for_message
  MaxId      \* the bound on message ids

ASSUME BoundAssumption == MaxId \in Nat
ASSUME ShimsAssumption == Shims \subseteq Readers

VARIABLES
  from,      \* messages: who sent each id that is still there
  unread,    \* messages.read_at is null
  nextId,    \* the next message id
  file,      \* the notify file
  send,      \* what each sender is doing
  running,   \* the processes with an open NotifyBus
  seen,      \* NotifyBus.seen of a shim: the stamp of this file, of none, or
             \* another; what other processes subscribe may run at any time
  look,      \* the reading a process is in
  wait,      \* the since_id of a wait_for_message that is asleep, or Awake
  rung,      \* history: the unread ids whose envelope was written
  shown,     \* history: the ids in a reader's reply, also if it died with it
  together,  \* history: the ids in hand that two readers had unmarked at once
  overtaken  \* history: the ids the count in the file is too early or late for

mail == <<from, unread, nextId>>
readers == <<running, seen, look, wait>>
history == <<rung, shown, together, overtaken>>
vars == <<from, unread, nextId, file, send, running, seen, look, wait,
          rung, shown, together, overtaken>>

-----------------------------------------------------------------------------
(* Types *)

Awake == MaxId + 1

Ids == 1 .. MaxId

(* An id of 0 is no envelope, a count of 0 an absent one.                  *)
File == [there: BOOLEAN, id: Nat, count: Nat]

NoFile == [there |-> FALSE, id |-> 0, count |-> 0]

Send == [pc: {"idle", "count", "notify"},
         id: Nat, count: Nat,
         among: SUBSET Nat]   \* history: what was unread at a count of one

NoSend == [pc |-> "idle", id |-> 0, count |-> 0, among |-> {}]

Look == [pc: {"idle", "look", "mark", "reply"}, got: SUBSET Nat]

NoLook == [pc |-> "idle", got |-> {}]

TypeOK ==
  /\ nextId \in Nat \ {0}
  /\ from \in [DOMAIN from -> Senders] /\ DOMAIN from \subseteq 1 .. nextId - 1
  /\ unread \subseteq DOMAIN from
  /\ file \in File
  /\ send \in [Senders -> Send]
  /\ running \subseteq Readers
  /\ seen \in [Shims -> {"this", "none", "other"}]
  /\ look \in [Readers -> Look]
  /\ wait \in [Shims -> Nat]
  /\ \A r \in Readers : look[r].got \subseteq 1 .. nextId - 1
  /\ \A r \in Readers : look[r].pc = "look" => r \in Shims
  /\ rung \subseteq unread /\ shown \subseteq 1 .. nextId - 1
  /\ together \subseteq Nat /\ overtaken \subseteq Nat

-----------------------------------------------------------------------------
(* Sending *)

Insert(s, counts) ==
  /\ send[s].pc = "idle" /\ nextId <= MaxId
  /\ from' = [i \in DOMAIN from \cup {nextId} |-> IF i = nextId THEN s ELSE from[i]]
  /\ unread' = unread \cup {nextId}
  /\ nextId' = nextId + 1
  /\ send' = [send EXCEPT ![s] = [NoSend EXCEPT !.pc = IF counts THEN "count" ELSE "notify",
                                                !.id = nextId]]
  /\ UNCHANGED <<file, readers, history>>

CountOfOthers(ids) == Cardinality(ids) - 1
(* pendingInboxCount, this message included. *)
PendingCount(ids) == Cardinality(ids)

Count(s) ==
  /\ send[s].pc = "count"
  /\ send' = [send EXCEPT ![s] = [@ EXCEPT !.pc = "notify", !.count = PendingCount(unread),
                                           !.among = IF PendingCount(unread) = 1
                                                       THEN unread ELSE {}]]
  /\ UNCHANGED <<mail, file, readers, history>>

SameSize == seen
(* Every write, and a deletion, gives the file a stamp of its own.         *)
Stale == [r \in Shims |-> IF seen[r] = "this" THEN "other" ELSE seen[r]]

(* What is waiting, was rung for, and the writer's count of one is not     *)
(* about: it was posted after the count, or counted in place of the        *)
(* writer's own message, which had been read by then.                      *)
Overtaken(s) ==
  {i \in rung : i \notin send[s].among \/ send[s].id \notin send[s].among}

NotifyPeer(s) ==
  /\ send[s].pc = "notify"
  /\ file' = [there |-> TRUE, id |-> send[s].id, count |-> send[s].count]
  /\ seen' = Stale
  /\ rung' = rung \cup ({send[s].id} \cap unread)
  /\ overtaken' = IF send[s].count = 1 THEN Overtaken(s) ELSE {}
  /\ send' = [send EXCEPT ![s] = NoSend]
  /\ UNCHANGED <<mail, running, look, wait, shown, together>>

(* A sender dies after its insert: the message is there, nobody is rung.   *)
SenderDies(s) ==
  /\ send[s].pc # "idle"
  /\ send' = [send EXCEPT ![s] = NoSend]
  /\ UNCHANGED <<mail, file, readers, history>>

(* deleteDmMessages of the handle and one sender. *)
DeleteDm(s) ==
  /\ from' = [i \in {j \in DOMAIN from : from[j] # s} |-> from[i]]
  /\ unread' = {i \in unread : from[i] # s}
  /\ rung' = rung \cap unread'
  /\ shown' = shown \cap DOMAIN from'
  /\ overtaken' = overtaken \cap DOMAIN from'
  /\ UNCHANGED <<nextId, file, send, readers, together>>

-----------------------------------------------------------------------------
(* NotifyBus *)

Open(r) ==
  /\ r \notin running /\ look[r].pc = "idle"
  /\ running' = running \cup {r}
  /\ file' = [file EXCEPT !.there = TRUE]
  /\ seen' = [seen EXCEPT ![r] = "this"]
  /\ UNCHANGED <<mail, send, look, wait, history>>

Stamp == IF file.there THEN "this" ELSE "none"

(* A tick of the timer that finds another stamp fires the subscribers: a   *)
(* sleeping wait looks again.                                              *)
Poll(r) ==
  /\ r \in Shims \cap running /\ look[r].pc = "idle"
  /\ seen[r] # Stamp
  /\ seen' = [seen EXCEPT ![r] = Stamp]
  /\ look' = IF wait[r] # Awake THEN [look EXCEPT ![r] = [pc |-> "look", got |-> {}]] ELSE look
  /\ UNCHANGED <<mail, file, send, running, wait, history>>

(* close() takes the subscribers and the file with it. *)
Close(r) ==
  /\ r \in running /\ look[r].pc = "idle"
  /\ running' = running \ {r}
  /\ wait' = [wait EXCEPT ![r] = Awake]
  /\ file' = NoFile
  /\ seen' = [Stale EXCEPT ![r] = "none"]
  /\ UNCHANGED <<mail, send, look, history>>

-----------------------------------------------------------------------------
(* Reading *)

AnyRead(since) == {i \in DOMAIN from : i > since}
Pending(since) == {i \in unread : i > since}

InHand(r) == {i \in look[r].got : look[r].pc = "mark"}
Held == UNION {look[r].got : r \in Readers}

(* pendingInbox returned the ids up to last (the LIMIT): go on to mark.    *)
Take(r, since, last) ==
  LET got == {i \in Pending(since) : i <= last}
  IN /\ look' = [look EXCEPT ![r] = [pc |-> "mark", got |-> got]]
     /\ together' = together \cup
                      {i \in got : \E q \in Readers \ {r} : i \in InHand(q)}

(* The inbox tool; a one-shot or a client, which take no since_id. *)
Inbox(r, since) ==
  /\ look[r].pc = "idle" /\ (since > 0 => r \in Shims)
  /\ \E last \in Pending(since) : Take(r, since, last)
  /\ UNCHANGED <<mail, file, send, running, seen, wait, rung, shown, overtaken>>

(* The first look of wait_for_message: it takes what is there or sleeps.   *)
WaitForMessage(r, since) ==
  /\ r \in Shims \cap running /\ look[r].pc = "idle" /\ wait[r] = Awake
  /\ IF Pending(since) = {}
       THEN wait' = [wait EXCEPT ![r] = since] /\ UNCHANGED <<look, together>>
       ELSE (\E last \in Pending(since) : Take(r, since, last)) /\ UNCHANGED wait
  /\ UNCHANGED <<mail, file, send, running, seen, rung, shown, overtaken>>

(* It was notified: it looks again, and sleeps on or, out of time, gives up. *)
LookAgain(r) ==
  /\ look[r].pc = "look"
  /\ IF Pending(wait[r]) = {}
       THEN /\ look' = [look EXCEPT ![r] = NoLook]
            /\ wait' \in {wait, [wait EXCEPT ![r] = Awake]}
            /\ UNCHANGED together
       ELSE /\ \E last \in Pending(wait[r]) : Take(r, wait[r], last)
            /\ wait' = [wait EXCEPT ![r] = Awake]
  /\ UNCHANGED <<mail, file, send, running, seen, rung, shown, overtaken>>

(* The wait ends without another look. *)
Timeout(r) ==
  /\ r \in Shims /\ look[r].pc = "idle" /\ wait[r] # Awake
  /\ wait' = [wait EXCEPT ![r] = Awake]
  /\ UNCHANGED <<mail, file, send, running, seen, look, history>>

MarkEverything(r) == {}
(* What markRead of the ids in hand leaves unread. *)
LeftUnread(r) == unread \ look[r].got

MarkRead(r) ==
  /\ look[r].pc = "mark"
  /\ unread' = LeftUnread(r) /\ rung' = rung \cap unread'
  /\ look' = [look EXCEPT ![r] = [@ EXCEPT !.pc = "reply"]]
  /\ UNCHANGED <<from, nextId, file, send, running, seen, wait, shown, together, overtaken>>

Reply(r) ==
  /\ look[r].pc = "reply"
  /\ shown' = shown \cup look[r].got
  /\ look' = [look EXCEPT ![r] = NoLook]
  /\ together' = together \cap Held'
  /\ UNCHANGED <<mail, file, send, running, seen, wait, rung, overtaken>>

(* A reader is killed: no close, and what it had marked is with it.        *)
ReaderDies(r) ==
  /\ r \in running \/ look[r].pc # "idle"
  /\ shown' = IF look[r].pc = "reply" THEN shown \cup look[r].got ELSE shown
  /\ running' = running \ {r}
  /\ look' = [look EXCEPT ![r] = NoLook]
  /\ wait' = [wait EXCEPT ![r] = Awake]
  /\ seen' = [seen EXCEPT ![r] = "none"]
  /\ together' = together \cap Held'
  /\ UNCHANGED <<mail, file, send, rung, overtaken>>

-----------------------------------------------------------------------------
Init ==
  /\ from = <<>> /\ unread = {} /\ nextId = 1
  /\ file = NoFile
  /\ send = [s \in Senders |-> NoSend]
  /\ running = {} /\ seen = [r \in Shims |-> "none"]
  /\ look = [r \in Readers |-> NoLook]
  /\ wait = [r \in Shims |-> Awake]
  /\ rung = {} /\ shown = {} /\ together = {} /\ overtaken = {}

SenderStep(s) ==
  \/ \E counts \in BOOLEAN : Insert(s, counts)
  \/ Count(s) \/ NotifyPeer(s) \/ SenderDies(s) \/ DeleteDm(s)

ReaderStep(r) ==
  \/ Open(r) \/ Poll(r) \/ Close(r)
  \/ \E since \in 0 .. MaxId - 1 : Inbox(r, since) \/ WaitForMessage(r, since)
  \/ LookAgain(r) \/ Timeout(r) \/ MarkRead(r) \/ Reply(r) \/ ReaderDies(r)

Next == (\E s \in Senders : SenderStep(s)) \/ (\E r \in Readers : ReaderStep(r))

Spec == Init /\ [][Next]_vars

-----------------------------------------------------------------------------
(* Properties *)

(* A message is marked read only by a reader that hands it over: what is   *)
(* there and no longer unread was shown, is about to be, or went with a    *)
(* reader that died between its mark and its reply (inbox,                 *)
(* wait_for_message, markRead).                                            *)
ReadWasShown ==
  \A i \in DOMAIN from \ unread :
     \/ i \in shown
     \/ \E r \in Readers : look[r].pc = "reply" /\ i \in look[r].got

(* Nobody is shown a message twice, unless two processes of the handle had *)
(* read it before either marked it (pendingInbox and markRead are apart).  *)
ShownAgainOnlyTogether ==
  [][\A r \in Readers : Reply(r) => look[r].got \cap shown \subseteq together]_vars

(* A wait never sleeps through the file: while it sleeps and mail it would *)
(* take has been rung for, its bus has yet to see the newest stamp, unless *)
(* the file is gone with a process that closed (wait_for_message looks     *)
(* before it subscribes, notifyPeer writes after the insert).              *)
Answerable(r) == {i \in rung : i > wait[r]}

BellIsHeard ==
  \A r \in Shims \cap running :
     look[r].pc = "idle" /\ wait[r] # Awake /\ Answerable(r) # {}
       => seen[r] # Stamp \/ ~file.there

(* A count of one in the notify file means that nothing else is waiting:   *)
(* any other message was not rung for yet, or is in one of the two races   *)
(* in which a count is older or younger than what it is written over.      *)
OneIsAll ==
  file.count = 1 => rung \ {file.id} \subseteq overtaken
=============================================================================
