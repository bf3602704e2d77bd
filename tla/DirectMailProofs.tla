-------------------------- MODULE DirectMailProofs --------------------------
(***************************************************************************)
(* Proofs about DirectMail, for any senders, readers and number of         *)
(* messages.                                                               *)
(*                                                                         *)
(* BellIsHeard is not inductive: a shim may read its inbox while a wait of *)
(* its own sleeps, and a process may start where another died.  Heard      *)
(* leaves out only a wait that is about to look again; SeenThere says that *)
(* a stamp once seen goes with its file, and Sleeping that waits sleep in  *)
(* running processes.                                                      *)
(***************************************************************************)
EXTENDS DirectMail, FiniteSetTheorems, TLAPS

Sending == \A s \in Senders : send[s].pc # "idle" => send[s].id \in 1 .. nextId - 1

Sleeping == \A r \in Shims : r \notin running => wait[r] = Awake

SeenThere == \A r \in Shims : seen[r] = "this" => file.there

Heard ==
  \A r \in Shims \cap running :
     look[r].pc # "look" /\ wait[r] # Awake /\ seen[r] = "this" => Answerable(r) = {}

Typed == TypeOK /\ Sending
Bell == Sleeping /\ SeenThere /\ Heard
IInv == Typed /\ ReadWasShown /\ Bell

-----------------------------------------------------------------------------
(* Lemmas *)

LEMMA CountTyped ==
  ASSUME TypeOK
  PROVE  PendingCount(unread) \in Nat
<1>1. nextId - 1 \in Int /\ unread \subseteq 1 .. nextId - 1
  BY DEF TypeOK
<1>2. IsFiniteSet(1 .. nextId - 1)
  BY <1>1, FS_Interval
<1>3. IsFiniteSet(unread)
  BY <1>1, <1>2, FS_Subset
<1>4. QED
  BY <1>3, FS_CardinalityType DEF PendingCount

LEMMA AwakeTyped == Awake \in Nat
  BY BoundAssumption DEF Awake

(* What a step that leaves waits, stamps and the file alone keeps of the   *)
(* bell: it may take mail away, and rung mail may not come back.           *)
LEMMA BellKeeps ==
  ASSUME Bell, rung' \subseteq rung,
         file' = file, running' = running, seen' = seen,
         \A r \in Shims : wait'[r] \in {wait[r], Awake},
         \A r \in Shims \cap running :
            wait'[r] # Awake /\ look'[r].pc # "look" => look[r].pc # "look"
  PROVE  Bell'
<1>1. Sleeping' /\ SeenThere'
  BY DEF Bell, Sleeping, SeenThere
<1>2. Heard'
  <2>1. SUFFICES ASSUME NEW r \in Shims \cap running, look'[r].pc # "look",
                        wait'[r] # Awake, seen[r] = "this"
                 PROVE  {i \in rung' : i > wait[r]} = {}
    BY DEF Heard, Answerable
  <2>2. {i \in rung : i > wait[r]} = {}
    BY <2>1 DEF Bell, Heard, Answerable
  <2>3. QED
    BY <2>2
<1>3. QED
  BY <1>1, <1>2 DEF Bell

(* What was read stays accounted for where messages, marks and replies     *)
(* stand still.                                                            *)
LEMMA ShownKeeps ==
  ASSUME ReadWasShown, from' = from, unread' = unread, shown' = shown,
         \A r \in Readers : look[r].pc = "reply" => look'[r] = look[r]
  PROVE  ReadWasShown'
  BY DEF ReadWasShown

-----------------------------------------------------------------------------
(* The senders' steps *)

LEMMA InsertStep ==
  ASSUME IInv, NEW s \in Senders, NEW counts \in BOOLEAN, Insert(s, counts)
  PROVE  IInv'
<1>0. TypeOK /\ Sending /\ ReadWasShown /\ Bell
  BY DEF IInv, Typed
<1>1. /\ nextId \in Nat \ {0} /\ nextId' = nextId + 1 /\ unread' = unread \cup {nextId}
      /\ DOMAIN from' = DOMAIN from \cup {nextId}
      /\ UNCHANGED <<file, readers, history>>
  BY <1>0 DEF Insert, TypeOK
<1>2. 1 .. nextId - 1 \subseteq 1 .. nextId' - 1 /\ nextId \in 1 .. nextId' - 1
      /\ nextId \notin 1 .. nextId - 1
  BY <1>1
<1>3. from' \in [DOMAIN from' -> Senders]
  BY <1>0, <1>1 DEF Insert, TypeOK
<1> DEFINE new == [NoSend EXCEPT !.pc = IF counts THEN "count" ELSE "notify", !.id = nextId]
<1>4. new \in Send /\ new.id = nextId
  BY <1>1 DEF Send, NoSend
<1>5. send' = [send EXCEPT ![s] = new]
  BY DEF Insert
<1> HIDE DEF new
<1>6. send' \in [Senders -> Send]
      /\ \A q \in Senders : send'[q] = IF q = s THEN new ELSE send[q]
  BY <1>0, <1>4, <1>5 DEF TypeOK
<1>7. TypeOK'
  BY <1>0, <1>1, <1>2, <1>3, <1>6 DEF TypeOK, readers, history
<1>8. Sending'
  BY <1>0, <1>1, <1>2, <1>4, <1>6 DEF Sending
<1>9. ReadWasShown'
  BY <1>0, <1>1 DEF ReadWasShown, readers, history
<1>10. Bell'
  BY <1>0, <1>1, BellKeeps DEF readers, history
<1>11. QED
  BY <1>7, <1>8, <1>9, <1>10 DEF IInv, Typed

LEMMA CountStep ==
  ASSUME IInv, NEW s \in Senders, Count(s)
  PROVE  IInv'
<1>0. TypeOK /\ Sending /\ ReadWasShown /\ Bell
  BY DEF IInv, Typed
<1> DEFINE n == PendingCount(unread)
           among == IF n = 1 THEN unread ELSE {}
           new == [send[s] EXCEPT !.pc = "notify", !.count = n, !.among = among]
<1>1. n \in Nat /\ among \in SUBSET Nat
  BY <1>0, CountTyped DEF TypeOK
<1>2. send' = [send EXCEPT ![s] = new]
  BY DEF Count
<1> HIDE DEF n, among
<1>3. new \in Send /\ new.id = send[s].id
  BY <1>0, <1>1 DEF TypeOK, Send
<1> HIDE DEF new
<1>4. send' \in [Senders -> Send]
      /\ \A q \in Senders : send'[q] = IF q = s THEN new ELSE send[q]
  BY <1>0, <1>2, <1>3 DEF TypeOK
<1>5. UNCHANGED <<mail, file, readers, history>> /\ send[s].pc = "count"
  BY DEF Count
<1>6. TypeOK'
  BY <1>0, <1>4, <1>5 DEF TypeOK, mail, readers, history
<1>7. Sending'
  BY <1>0, <1>3, <1>4, <1>5 DEF Sending, mail
<1>8. ReadWasShown'
  BY <1>0, <1>5, ShownKeeps DEF mail, readers, history
<1>9. Bell'
  BY <1>0, <1>5, BellKeeps DEF mail, readers, history
<1>10. QED
  BY <1>6, <1>7, <1>8, <1>9 DEF IInv, Typed

LEMMA NotifyPeerStep ==
  ASSUME IInv, NEW s \in Senders, NotifyPeer(s)
  PROVE  IInv'
<1>0. TypeOK /\ Sending /\ ReadWasShown /\ Bell
  BY DEF IInv, Typed
<1>1. send[s] \in Send /\ send[s].id \in 1 .. nextId - 1 /\ rung \subseteq Nat
  BY <1>0 DEF TypeOK, Sending, NotifyPeer
<1>2. file' \in File /\ file'.there
  BY <1>1 DEF NotifyPeer, File, Send
<1>3. send' \in [Senders -> Send]
      /\ \A q \in Senders : send'[q] = IF q = s THEN NoSend ELSE send[q]
  BY <1>0 DEF NotifyPeer, TypeOK, Send, NoSend
<1>4. seen' \in [Shims -> {"this", "none", "other"}] /\ \A r \in Shims : seen'[r] # "this"
  BY <1>0 DEF NotifyPeer, Stale, TypeOK
<1>5. /\ UNCHANGED <<mail, running, look, wait, shown, together>>
      /\ rung' \subseteq unread /\ overtaken' \subseteq Nat
  BY <1>0, <1>1 DEF NotifyPeer, Overtaken, TypeOK
<1>6. TypeOK'
  BY <1>0, <1>1, <1>2, <1>3, <1>4, <1>5 DEF TypeOK, mail
<1>7. Sending'
  BY <1>0, <1>3, <1>5 DEF Sending, NoSend, mail
<1>8. ReadWasShown'
  BY <1>0, <1>5, ShownKeeps DEF mail
<1>9. Bell'
  BY <1>0, <1>2, <1>4, <1>5 DEF Bell, Sleeping, SeenThere, Heard
<1>10. QED
  BY <1>6, <1>7, <1>8, <1>9 DEF IInv, Typed

LEMMA SenderDiesStep ==
  ASSUME IInv, NEW s \in Senders, SenderDies(s)
  PROVE  IInv'
<1>0. TypeOK /\ Sending /\ ReadWasShown /\ Bell
  BY DEF IInv, Typed
<1>1. send' \in [Senders -> Send]
      /\ \A q \in Senders : send'[q] = IF q = s THEN NoSend ELSE send[q]
  BY <1>0 DEF SenderDies, TypeOK, Send, NoSend
<1>2. UNCHANGED <<mail, file, readers, history>>
  BY DEF SenderDies
<1>3. TypeOK'
  BY <1>0, <1>1, <1>2 DEF TypeOK, mail, readers, history
<1>4. Sending'
  BY <1>0, <1>1, <1>2 DEF Sending, NoSend, mail
<1>5. ReadWasShown'
  BY <1>0, <1>2, ShownKeeps DEF mail, readers, history
<1>6. Bell'
  BY <1>0, <1>2, BellKeeps DEF mail, readers, history
<1>7. QED
  BY <1>3, <1>4, <1>5, <1>6 DEF IInv, Typed

LEMMA DeleteDmStep ==
  ASSUME IInv, NEW s \in Senders, DeleteDm(s)
  PROVE  IInv'
<1>0. TypeOK /\ Sending /\ ReadWasShown /\ Bell
  BY DEF IInv, Typed
<1>1. /\ DOMAIN from' = {j \in DOMAIN from : from[j] # s}
      /\ \A i \in DOMAIN from' : from'[i] = from[i]
      /\ from' \in [DOMAIN from' -> Senders]
  BY <1>0 DEF DeleteDm, TypeOK
<1>2. /\ unread' = {i \in unread : from[i] # s} /\ shown' = shown \cap DOMAIN from'
      /\ rung' = rung \cap unread' /\ overtaken' = overtaken \cap DOMAIN from'
      /\ UNCHANGED <<nextId, file, send, readers, together>>
  BY DEF DeleteDm
<1>3. TypeOK'
  BY <1>0, <1>1, <1>2 DEF TypeOK, readers
<1>4. Sending'
  BY <1>0, <1>2 DEF Sending
<1>5. ReadWasShown'
  BY <1>0, <1>1, <1>2 DEF ReadWasShown, TypeOK, readers
<1>6. Bell'
  BY <1>0, <1>2, BellKeeps DEF readers
<1>7. QED
  BY <1>3, <1>4, <1>5, <1>6 DEF IInv, Typed

-----------------------------------------------------------------------------
(* The bus's steps *)

LEMMA OpenStep ==
  ASSUME IInv, NEW r \in Readers, Open(r)
  PROVE  IInv'
<1>0. TypeOK /\ Sending /\ ReadWasShown /\ Bell
  BY DEF IInv, Typed
<1>1. /\ file' \in File /\ file'.there
      /\ running' = running \cup {r} /\ r \notin running
      /\ UNCHANGED <<mail, send, look, wait, history>>
  BY <1>0 DEF Open, TypeOK, File
<1>2. /\ seen' \in [Shims -> {"this", "none", "other"}]
      /\ \A q \in Shims : seen'[q] = IF q = r THEN "this" ELSE seen[q]
  BY <1>0 DEF Open, TypeOK
<1>3. TypeOK'
  BY <1>0, <1>1, <1>2 DEF TypeOK, mail, history
<1>4. Sending'
  BY <1>0, <1>1 DEF Sending, mail
<1>5. ReadWasShown'
  BY <1>0, <1>1, ShownKeeps DEF mail, history
<1>6. Sleeping' /\ SeenThere'
  BY <1>0, <1>1 DEF Bell, Sleeping, SeenThere
<1>7. Heard'
  BY <1>0, <1>1, <1>2 DEF Bell, Sleeping, Heard, Answerable, history, Awake
<1>8. QED
  BY <1>3, <1>4, <1>5, <1>6, <1>7 DEF IInv, Typed, Bell

LEMMA PollStep ==
  ASSUME IInv, NEW r \in Readers, Poll(r)
  PROVE  IInv'
<1>0. TypeOK /\ Sending /\ ReadWasShown /\ Bell
  BY DEF IInv, Typed
<1>1. /\ r \in Shims \cap running /\ look[r].pc = "idle"
      /\ UNCHANGED <<mail, file, send, running, wait, history>>
  BY DEF Poll
<1>2. /\ seen' \in [Shims -> {"this", "none", "other"}]
      /\ \A q \in Shims : seen'[q] = IF q = r THEN Stamp ELSE seen[q]
  BY <1>0 DEF Poll, TypeOK, Stamp
<1>3. /\ look' \in [Readers -> Look]
      /\ \A q \in Readers \ {r} : look'[q] = look[q]
      /\ wait[r] # Awake => look'[r] = [pc |-> "look", got |-> {}]
      /\ wait[r] = Awake => look'[r] = look[r]
  BY <1>0 DEF Poll, TypeOK, Look
<1>4. TypeOK'
  <2>1. \A q \in Readers : look'[q].got \subseteq 1 .. nextId - 1
                          /\ (look'[q].pc = "look" => q \in Shims)
    BY <1>0, <1>1, <1>3 DEF TypeOK
  <2>2. QED
    BY <1>0, <1>1, <1>2, <1>3, <2>1 DEF TypeOK, mail, history
<1>5. Sending'
  BY <1>0, <1>1 DEF Sending, mail
<1>6. ReadWasShown'
  BY <1>0, <1>1, <1>3, ShownKeeps DEF mail, history
<1>7. Sleeping' /\ SeenThere'
  BY <1>0, <1>1, <1>2 DEF Bell, Sleeping, SeenThere, Stamp
<1>8. Heard'
  <2>1. SUFFICES ASSUME NEW q \in Shims \cap running, look'[q].pc # "look",
                        wait[q] # Awake, seen'[q] = "this"
                 PROVE  Answerable(q)'= {}
    BY <1>1 DEF Heard, Awake
  <2>2. q # r
    BY <1>3, <2>1
  <2>3. q \in Readers
    BY <2>1, ShimsAssumption
  <2>4. look'[q] = look[q] /\ seen'[q] = seen[q]
    BY <1>2, <1>3, <2>1, <2>2, <2>3
  <2>5. Answerable(q) = {}
    BY <1>0, <2>1, <2>4 DEF Bell, Heard
  <2>6. QED
    BY <1>1, <2>5 DEF Answerable, history
<1>9. QED
  BY <1>4, <1>5, <1>6, <1>7, <1>8 DEF IInv, Typed, Bell

LEMMA CloseStep ==
  ASSUME IInv, NEW r \in Readers, Close(r)
  PROVE  IInv'
<1>0. TypeOK /\ Sending /\ ReadWasShown /\ Bell
  BY DEF IInv, Typed
<1>1. file' \in File /\ running' = running \ {r}
      /\ UNCHANGED <<mail, send, look, history>>
  BY DEF Close, NoFile, File
<1>2. seen' \in [Shims -> {"this", "none", "other"}]
      /\ \A q \in Shims : seen'[q] # "this"
  BY <1>0 DEF Close, Stale, TypeOK
<1>3. wait' \in [Shims -> Nat]
      /\ \A q \in Shims : wait'[q] = IF q = r THEN Awake ELSE wait[q]
  BY <1>0, AwakeTyped DEF Close, TypeOK
<1>4. TypeOK'
  BY <1>0, <1>1, <1>2, <1>3 DEF TypeOK, mail, history
<1>5. Sending'
  BY <1>0, <1>1 DEF Sending, mail
<1>6. ReadWasShown'
  BY <1>0, <1>1, ShownKeeps DEF mail, history
<1>7. Bell'
  BY <1>0, <1>1, <1>2, <1>3 DEF Bell, Sleeping, SeenThere, Heard, Awake
<1>8. QED
  BY <1>4, <1>5, <1>6, <1>7 DEF IInv, Typed

-----------------------------------------------------------------------------
(* The readers' steps *)

LEMMA TakeTyped ==
  ASSUME TypeOK, NEW r \in Readers, NEW since \in Nat, NEW last, Take(r, since, last)
  PROVE  /\ look' \in [Readers -> Look]
         /\ \A q \in Readers \ {r} : look'[q] = look[q]
         /\ look'[r].pc = "mark" /\ look'[r].got \subseteq 1 .. nextId - 1
         /\ together' \subseteq Nat
<1> DEFINE got == {i \in Pending(since) : i <= last}
<1>1. got \subseteq 1 .. nextId - 1 /\ got \subseteq Nat
  BY DEF TypeOK, Pending
<1>2. /\ look' = [look EXCEPT ![r] = [pc |-> "mark", got |-> got]]
      /\ together' \subseteq together \cup got
  BY DEF Take
<1> HIDE DEF got
<1>3. QED
  BY <1>1, <1>2 DEF TypeOK, Look

(* A step of one reader that leaves mail, file, bus and what was shown     *)
(* alone, and is about no reply.                                           *)
LEMMA LookKeeps ==
  ASSUME IInv, NEW r \in Readers, look[r].pc # "reply",
         UNCHANGED <<mail, file, send, running, seen, rung, shown, overtaken>>,
         look' \in [Readers -> Look], \A q \in Readers \ {r} : look'[q] = look[q],
         look'[r].got \subseteq 1 .. nextId - 1, look'[r].pc # "look",
         together' \subseteq Nat, wait' \in [Shims -> Nat],
         \A q \in Shims : wait'[q] = wait[q] \/ (q = r /\ wait'[q] = Awake)
                          \/ (q \in running /\ Pending(wait'[q]) = {}),
         look[r].pc = "look" =>
           r \in Shims /\ (wait'[r] = Awake \/ Pending(wait'[r]) = {})
  PROVE  IInv'
<1>0. TypeOK /\ Sending /\ ReadWasShown /\ Bell
  BY DEF IInv, Typed
<1>1. TypeOK'
  BY <1>0 DEF TypeOK, mail
<1>2. Sending'
  BY <1>0 DEF Sending, mail
<1>3. ReadWasShown'
  BY <1>0, ShownKeeps DEF mail
<1>4. Sleeping' /\ SeenThere'
  BY <1>0 DEF Bell, Sleeping, SeenThere, Awake
<1>5. Heard'
  <2>1. SUFFICES ASSUME NEW q \in Shims \cap running, look'[q].pc # "look",
                        wait'[q] # Awake, seen[q] = "this"
                 PROVE  {i \in rung : i > wait'[q]} = {}
    BY DEF Heard, Answerable, Awake
  <2>2. CASE Pending(wait'[q]) = {}
    BY <1>0, <2>2 DEF Pending, TypeOK
  <2>3. CASE wait'[q] = wait[q] /\ look[q].pc # "look"
    <3>1. Answerable(q) = {}
      BY <1>0, <2>1, <2>3 DEF Bell, Heard
    <3>2. QED
      BY <2>3, <3>1 DEF Answerable
  <2>4. q \in Readers
    BY <2>1, ShimsAssumption
  <2>5. look[q].pc = "look" => q = r
    BY <2>1, <2>4
  <2>6. QED
    BY <2>1, <2>2, <2>3, <2>5
<1>6. QED
  BY <1>1, <1>2, <1>3, <1>4, <1>5 DEF IInv, Typed, Bell

LEMMA InboxStep ==
  ASSUME IInv, NEW r \in Readers, NEW since \in Nat, Inbox(r, since)
  PROVE  IInv'
<1>1. PICK last \in Pending(since) : Take(r, since, last)
  BY DEF Inbox
<1>2. TypeOK
  BY DEF IInv, Typed
<1>3. /\ look[r].pc = "idle" /\ wait' = wait
      /\ UNCHANGED <<mail, file, send, running, seen, rung, shown, overtaken>>
  BY DEF Inbox
<1>4. wait' \in [Shims -> Nat]
  BY <1>2, <1>3 DEF TypeOK
<1>5. QED
  BY <1>1, <1>2, <1>3, <1>4, TakeTyped, LookKeeps

LEMMA WaitForMessageStep ==
  ASSUME IInv, NEW r \in Readers, NEW since \in Nat, WaitForMessage(r, since)
  PROVE  IInv'
<1>1. TypeOK
  BY DEF IInv, Typed
<1>2. /\ look[r].pc = "idle" /\ r \in Shims \cap running
      /\ UNCHANGED <<mail, file, send, running, seen, rung, shown, overtaken>>
  BY DEF WaitForMessage
<1>3. CASE Pending(since) = {}
  <2>1. /\ wait' \in [Shims -> Nat] /\ look' = look /\ together' = together
        /\ \A q \in Shims : wait'[q] = IF q = r THEN since ELSE wait[q]
    BY <1>1, <1>3 DEF WaitForMessage, TypeOK
  <2>2. /\ look' \in [Readers -> Look] /\ look'[r].got \subseteq 1 .. nextId - 1
        /\ together' \subseteq Nat
    BY <1>1, <2>1 DEF TypeOK
  <2>3. \A q \in Shims : wait'[q] = wait[q] \/ (q \in running /\ Pending(wait'[q]) = {})
    BY <1>2, <1>3, <2>1
  <2>4. QED
    BY <1>2, <2>1, <2>2, <2>3, LookKeeps
<1>4. CASE Pending(since) # {}
  <2>1. PICK last \in Pending(since) : Take(r, since, last)
    BY <1>4 DEF WaitForMessage
  <2>2. wait' = wait /\ wait' \in [Shims -> Nat]
    BY <1>1, <1>4 DEF WaitForMessage, TypeOK
  <2>3. QED
    BY <1>1, <1>2, <2>1, <2>2, TakeTyped, LookKeeps
<1>5. QED
  BY <1>3, <1>4

LEMMA LookAgainStep ==
  ASSUME IInv, NEW r \in Readers, LookAgain(r)
  PROVE  IInv'
<1>1. TypeOK
  BY DEF IInv, Typed
<1>2. /\ look[r].pc = "look" /\ r \in Shims
      /\ UNCHANGED <<mail, file, send, running, seen, rung, shown, overtaken>>
  BY <1>1 DEF LookAgain, TypeOK
<1>3. wait[r] \in Nat
  BY <1>1, <1>2 DEF TypeOK
<1>4. CASE Pending(wait[r]) = {}
  <2>1. /\ look' \in [Readers -> Look] /\ look'[r] = NoLook
        /\ \A q \in Readers \ {r} : look'[q] = look[q]
        /\ together' = together
    BY <1>1, <1>4 DEF LookAgain, TypeOK, Look, NoLook
  <2>2. wait' = wait \/ wait' = [wait EXCEPT ![r] = Awake]
    BY <1>4 DEF LookAgain
  <2>3. /\ wait' \in [Shims -> Nat]
        /\ \A q \in Shims : wait'[q] = wait[q] \/ (q = r /\ wait'[q] = Awake)
        /\ wait'[r] = Awake \/ Pending(wait'[r]) = {}
    <3>1. CASE wait' = wait
      BY <1>1, <1>4, <3>1 DEF TypeOK
    <3>2. CASE wait' = [wait EXCEPT ![r] = Awake]
      BY <1>1, <1>2, <3>2, AwakeTyped DEF TypeOK
    <3>3. QED
      BY <2>2, <3>1, <3>2
  <2>4. look'[r].got \subseteq 1 .. nextId - 1 /\ look'[r].pc # "look" /\ together' \subseteq Nat
    BY <1>1, <2>1 DEF NoLook, TypeOK
  <2>5. QED
    BY <1>2, <2>1, <2>3, <2>4, LookKeeps
<1>5. CASE Pending(wait[r]) # {}
  <2>1. PICK last \in Pending(wait[r]) : Take(r, wait[r], last)
    BY <1>5 DEF LookAgain
  <2>2. /\ wait' \in [Shims -> Nat] /\ wait'[r] = Awake
        /\ \A q \in Shims : wait'[q] = wait[q] \/ (q = r /\ wait'[q] = Awake)
    BY <1>1, <1>2, <1>5, AwakeTyped DEF LookAgain, TypeOK
  <2>3. QED
    BY <1>1, <1>2, <1>3, <2>1, <2>2, TakeTyped, LookKeeps
<1>6. QED
  BY <1>4, <1>5

LEMMA TimeoutStep ==
  ASSUME IInv, NEW r \in Readers, Timeout(r)
  PROVE  IInv'
<1>1. TypeOK
  BY DEF IInv, Typed
<1>2. /\ look[r].pc = "idle" /\ look' = look /\ together' = together
      /\ UNCHANGED <<mail, file, send, running, seen, rung, shown, overtaken>>
  BY DEF Timeout, history
<1>3. /\ wait' \in [Shims -> Nat]
      /\ \A q \in Shims : wait'[q] = wait[q] \/ (q = r /\ wait'[q] = Awake)
  BY <1>1, AwakeTyped DEF Timeout, TypeOK
<1>4. /\ look' \in [Readers -> Look] /\ look'[r].got \subseteq 1 .. nextId - 1
      /\ together' \subseteq Nat
  BY <1>1, <1>2 DEF TypeOK
<1>5. QED
  BY <1>2, <1>3, <1>4, LookKeeps

LEMMA MarkReadStep ==
  ASSUME IInv, NEW r \in Readers, MarkRead(r)
  PROVE  IInv'
<1>0. TypeOK /\ Sending /\ ReadWasShown /\ Bell
  BY DEF IInv, Typed
<1>1. /\ look' \in [Readers -> Look]
      /\ \A q \in Readers \ {r} : look'[q] = look[q]
      /\ look'[r].pc = "reply" /\ look'[r].got = look[r].got /\ look[r].pc = "mark"
  BY <1>0 DEF MarkRead, TypeOK, Look
<1>2. unread' = unread \ look[r].got /\ rung' = rung \cap unread'
      /\ UNCHANGED <<from, nextId, file, send, running, seen, wait, shown, together, overtaken>>
  BY DEF MarkRead, LeftUnread
<1>3. TypeOK'
  <2>1. \A q \in Readers : look'[q].got \subseteq 1 .. nextId - 1
                          /\ (look'[q].pc = "look" => q \in Shims)
    BY <1>0, <1>1 DEF TypeOK
  <2>2. QED
    BY <1>0, <1>1, <1>2, <2>1 DEF TypeOK
<1>4. Sending'
  BY <1>0, <1>2 DEF Sending
<1>5. ReadWasShown'
  BY <1>0, <1>1, <1>2 DEF ReadWasShown
<1>6. Bell'
  <2>1. \A q \in Shims : look'[q].pc # "look" => look[q].pc # "look"
    BY <1>1, ShimsAssumption
  <2>2. QED
    BY <1>0, <1>2, <2>1, BellKeeps
<1>7. QED
  BY <1>3, <1>4, <1>5, <1>6 DEF IInv, Typed

LEMMA ReplyStep ==
  ASSUME IInv, NEW r \in Readers, Reply(r)
  PROVE  IInv'
<1>0. TypeOK /\ Sending /\ ReadWasShown /\ Bell
  BY DEF IInv, Typed
<1>1. /\ look' \in [Readers -> Look]
      /\ \A q \in Readers \ {r} : look'[q] = look[q]
      /\ look'[r] = NoLook /\ look[r].pc = "reply"
  BY <1>0 DEF Reply, TypeOK, Look, NoLook
<1>2. shown' = shown \cup look[r].got /\ together' \subseteq together
      /\ UNCHANGED <<mail, file, send, running, seen, wait, rung, overtaken>>
  BY DEF Reply
<1>3. TypeOK'
  <2>1. \A q \in Readers : look'[q].got \subseteq 1 .. nextId - 1
                          /\ (look'[q].pc = "look" => q \in Shims)
    BY <1>0, <1>1 DEF TypeOK, NoLook
  <2>2. QED
    BY <1>0, <1>1, <1>2, <2>1 DEF TypeOK, mail
<1>4. Sending'
  BY <1>0, <1>2 DEF Sending, mail
<1>5. ReadWasShown'
  BY <1>0, <1>1, <1>2 DEF ReadWasShown, mail
<1>6. Bell'
  <2>1. \A q \in Shims : look'[q].pc # "look" => look[q].pc # "look"
    BY <1>1, ShimsAssumption
  <2>2. QED
    BY <1>0, <1>2, <2>1, BellKeeps DEF mail
<1>7. QED
  BY <1>3, <1>4, <1>5, <1>6 DEF IInv, Typed

LEMMA ReaderDiesStep ==
  ASSUME IInv, NEW r \in Readers, ReaderDies(r)
  PROVE  IInv'
<1>0. TypeOK /\ Sending /\ ReadWasShown /\ Bell
  BY DEF IInv, Typed
<1>1. /\ look' \in [Readers -> Look]
      /\ \A q \in Readers \ {r} : look'[q] = look[q]
      /\ look'[r] = NoLook
  BY <1>0 DEF ReaderDies, TypeOK, Look, NoLook
<1>2. /\ shown' = IF look[r].pc = "reply" THEN shown \cup look[r].got ELSE shown
      /\ running' = running \ {r} /\ together' \subseteq together
      /\ UNCHANGED <<mail, file, send, rung, overtaken>>
  BY DEF ReaderDies
<1>3. /\ wait' \in [Shims -> Nat]
      /\ \A q \in Shims : wait'[q] = IF q = r THEN Awake ELSE wait[q]
  BY <1>0, AwakeTyped DEF ReaderDies, TypeOK
<1>4. /\ seen' \in [Shims -> {"this", "none", "other"}]
      /\ \A q \in Shims : seen'[q] = IF q = r THEN "none" ELSE seen[q]
  BY <1>0 DEF ReaderDies, TypeOK
<1>5. TypeOK'
  <2>1. \A q \in Readers : look'[q].got \subseteq 1 .. nextId - 1
                          /\ (look'[q].pc = "look" => q \in Shims)
    BY <1>0, <1>1, <1>2 DEF TypeOK, NoLook, mail
  <2>2. shown' \subseteq 1 .. nextId - 1
    BY <1>0, <1>2 DEF TypeOK
  <2>3. QED
    BY <1>0, <1>1, <1>2, <1>3, <1>4, <2>1, <2>2 DEF TypeOK, mail
<1>6. Sending'
  BY <1>0, <1>2 DEF Sending, mail
<1>7. ReadWasShown'
  BY <1>0, <1>1, <1>2 DEF ReadWasShown, mail
<1>8. Sleeping' /\ SeenThere'
  BY <1>0, <1>2, <1>3, <1>4 DEF Bell, Sleeping, SeenThere, Awake
<1>9. Heard'
  <2>1. SUFFICES ASSUME NEW q \in Shims \cap running, q # r, look'[q].pc # "look",
                        wait[q] # Awake, seen[q] = "this"
                 PROVE  {i \in rung : i > wait[q]} = {}
    BY <1>2, <1>3, <1>4 DEF Heard, Answerable, Awake
  <2>2. look[q].pc # "look"
    BY <1>1, <2>1, ShimsAssumption
  <2>3. QED
    BY <1>0, <2>1, <2>2 DEF Bell, Heard, Answerable
<1>10. QED
  BY <1>5, <1>6, <1>7, <1>8, <1>9 DEF IInv, Typed, Bell

-----------------------------------------------------------------------------
(* The invariant *)

LEMMA InitInv == Init => IInv
<1>1. SUFFICES ASSUME Init PROVE IInv
  OBVIOUS
<1>2. DOMAIN from = {} /\ from \in [DOMAIN from -> Senders]
  BY <1>1 DEF Init
<1>3. wait \in [Shims -> Nat]
  BY <1>1, AwakeTyped DEF Init
<1>4. TypeOK
  BY <1>1, <1>2, <1>3 DEF Init, TypeOK, NoFile, File, NoSend, Send, NoLook, Look
<1>5. Sending /\ ReadWasShown
  BY <1>1, <1>2 DEF Init, Sending, NoSend, ReadWasShown
<1>6. Bell
  BY <1>1 DEF Init, Bell, Sleeping, SeenThere, Heard
<1>7. QED
  BY <1>4, <1>5, <1>6 DEF IInv, Typed

LEMMA StutterKeeps ==
  ASSUME IInv, UNCHANGED vars
  PROVE  IInv'
<1>1. TypeOK'
  BY DEF IInv, Typed, TypeOK, vars
<1>2. Sending' /\ ReadWasShown'
  BY DEF IInv, Typed, Sending, ReadWasShown, vars
<1>3. Bell'
  BY BellKeeps DEF IInv, vars
<1>4. QED
  BY <1>1, <1>2, <1>3 DEF IInv, Typed

LEMMA NextKeeps == IInv /\ [Next]_vars => IInv'
<1>1. SUFFICES ASSUME IInv, [Next]_vars PROVE IInv'
  OBVIOUS
<1>2. CASE UNCHANGED vars
  BY <1>1, <1>2, StutterKeeps
<1>3. ASSUME NEW s \in Senders, SenderStep(s)
      PROVE  IInv'
  BY <1>1, <1>3, InsertStep, CountStep, NotifyPeerStep, SenderDiesStep, DeleteDmStep
     DEF SenderStep
<1>4. ASSUME NEW r \in Readers, ReaderStep(r)
      PROVE  IInv'
  <2>1. 0 .. MaxId - 1 \subseteq Nat
    BY BoundAssumption
  <2>2. ASSUME NEW since \in 0 .. MaxId - 1, Inbox(r, since) \/ WaitForMessage(r, since)
        PROVE  IInv'
    BY <1>1, <2>1, <2>2, InboxStep, WaitForMessageStep
  <2>3. CASE Open(r) \/ Poll(r) \/ Close(r)
    BY <1>1, <2>3, OpenStep, PollStep, CloseStep
  <2>4. CASE LookAgain(r) \/ Timeout(r) \/ MarkRead(r) \/ Reply(r) \/ ReaderDies(r)
    BY <1>1, <2>4, LookAgainStep, TimeoutStep, MarkReadStep, ReplyStep, ReaderDiesStep
  <2>5. QED
    BY <1>4, <2>2, <2>3, <2>4 DEF ReaderStep
<1>5. QED
  BY <1>1, <1>2, <1>3, <1>4 DEF Next

(* In every reachable state the messages, the notify file, what senders    *)
(* and readers are doing and the histories have their types: a reader has  *)
(* only ids in hand that were given out, and only a shim looks again.      *)
THEOREM TypeCorrect == Spec => []TypeOK
<1>1. IInv => TypeOK
  BY DEF IInv, Typed
<1>2. QED
  BY <1>1, InitInv, NextKeeps, PTL DEF Spec

(* No message is marked read that no reader of the handle handed over, or  *)
(* has in hand to hand over, whatever senders, deletions, other readers    *)
(* and deaths come between pendingInbox, markRead and the reply.           *)
THEOREM ReadIsShown == Spec => []ReadWasShown
<1>1. IInv => ReadWasShown
  BY DEF IInv
<1>2. QED
  BY <1>1, InitInv, NextKeeps, PTL DEF Spec

(* No wait_for_message sleeps on mail that was rung for once its bus has   *)
(* seen the newest stamp of the file, however many processes share it,     *)
(* open it, close it and die.                                              *)
THEOREM BellHeard == Spec => []BellIsHeard
<1>1. ASSUME IInv PROVE BellIsHeard
  <2>1. SUFFICES ASSUME NEW r \in Shims \cap running, look[r].pc = "idle", wait[r] # Awake,
                        seen[r] = Stamp, file.there
                 PROVE  Answerable(r) = {}
    BY DEF BellIsHeard
  <2>2. seen[r] = "this"
    BY <2>1 DEF Stamp
  <2>3. QED
    BY <1>1, <2>1, <2>2 DEF IInv, Bell, Heard
<1>2. IInv => BellIsHeard
  BY <1>1
<1>3. QED
  BY <1>2, InitInv, NextKeeps, PTL DEF Spec

-----------------------------------------------------------------------------
(* A count of one.  OneIsAll rests on what a sender carries to the file: a *)
(* count of one is of a single message.                                    *)

Singles == \A s \in Senders : send[s].count = 1 => \A i, j \in send[s].among : i = j

CountInv == Singles /\ OneIsAll

LEMMA InitCount == Init => CountInv
BY DEF Init, CountInv, Singles, OneIsAll, NoSend, NoFile

LEMMA OneIsSingle ==
  ASSUME TypeOK, PendingCount(unread) = 1
  PROVE  \A i, j \in unread : i = j
<1>1. IsFiniteSet(1 .. nextId - 1)
  BY FS_Interval DEF TypeOK
<1>2. unread \subseteq 1 .. nextId - 1
  BY DEF TypeOK
<1>3. IsFiniteSet(unread) /\ Cardinality(unread) = 1
  BY <1>1, <1>2, FS_Subset DEF PendingCount
<1>4. PICK x : unread = {x}
  BY <1>3, FS_Singleton
<1>5. QED
  BY <1>4

(* A step that writes no file and counts nothing. *)
LEMMA CountKeeps ==
  ASSUME CountInv, (file'.count = file.count /\ file'.id = file.id) \/ file'.count = 0,
         \A s \in Senders : send'[s] = send[s] \/ send'[s].count = 0,
         rung' \subseteq rung, rung' \cap overtaken \subseteq overtaken'
  PROVE  CountInv'
<1>1. Singles'
  BY DEF CountInv, Singles
<1>2. OneIsAll'
  BY DEF CountInv, OneIsAll
<1>3. QED
  BY <1>1, <1>2 DEF CountInv

LEMMA SenderCounts ==
  ASSUME TypeOK, TypeOK', CountInv, NEW s \in Senders, SenderStep(s)
  PROVE  CountInv'
<1>t. send \in [Senders -> Send]
  BY DEF TypeOK
<1>1. ASSUME NEW counts \in BOOLEAN, Insert(s, counts)
      PROVE  CountInv'
  <2>1. UNCHANGED <<file, rung, overtaken>> /\ \A q \in Senders : send'[q] = send[q] \/ send'[q].count = 0
    BY <1>1, <1>t DEF Insert, NoSend, history
  <2>2. QED
    BY <2>1, CountKeeps
<1>2. CASE Count(s)
  <2>1. /\ UNCHANGED <<file, rung, overtaken>>
        /\ send'[s].count = PendingCount(unread)
        /\ PendingCount(unread) = 1 => send'[s].among = unread
        /\ \A q \in Senders \ {s} : send'[q] = send[q]
    BY <1>2, <1>t DEF Count, Send, history
  <2>2. Singles'
    BY <2>1, OneIsSingle DEF CountInv, Singles
  <2>3. QED
    BY <2>1, <2>2 DEF CountInv, OneIsAll
<1>3. CASE NotifyPeer(s)
  <2>1. /\ file'.id = send[s].id /\ file'.count = send[s].count
        /\ rung' \subseteq rung \cup {send[s].id}
        /\ send[s].count = 1 => overtaken' = Overtaken(s)
        /\ \A q \in Senders : send'[q] = send[q] \/ send'[q].count = 0
    BY <1>3, <1>t DEF NotifyPeer, NoSend
  <2>2. ASSUME send[s].count = 1, NEW i \in rung, i # send[s].id
        PROVE  i \in Overtaken(s)
    BY <2>2 DEF Overtaken, CountInv, Singles
  <2>3. OneIsAll'
    BY <2>1, <2>2 DEF OneIsAll
  <2>4. Singles'
    BY <2>1 DEF CountInv, Singles
  <2>5. QED
    BY <2>3, <2>4 DEF CountInv
<1>4. CASE SenderDies(s)
  <2>1. UNCHANGED <<file, rung, overtaken>> /\ \A q \in Senders : send'[q] = send[q] \/ send'[q].count = 0
    BY <1>4, <1>t DEF SenderDies, NoSend, history
  <2>2. QED
    BY <2>1, CountKeeps
<1>5. CASE DeleteDm(s)
  <2>1. UNCHANGED <<file, send>> /\ rung' \subseteq rung /\ overtaken' = overtaken \cap DOMAIN from'
    BY <1>5 DEF DeleteDm
  <2>2. rung' \subseteq DOMAIN from'
    BY DEF TypeOK
  <2>3. QED
    BY <2>1, <2>2, CountKeeps
<1>6. QED
  BY <1>1, <1>2, <1>3, <1>4, <1>5 DEF SenderStep

LEMMA ReaderCounts ==
  ASSUME CountInv, NEW r \in Readers, ReaderStep(r)
  PROVE  CountInv'
<1>1. /\ (file'.count = file.count /\ file'.id = file.id) \/ file'.count = 0
      /\ UNCHANGED send /\ rung' \subseteq rung /\ UNCHANGED overtaken
  <2>1. CASE Open(r)
    BY <2>1 DEF Open, history
  <2>2. CASE Close(r)
    BY <2>2 DEF Close, NoFile, history
  <2>3. CASE MarkRead(r)
    BY <2>3 DEF MarkRead
  <2>4. CASE ~(Open(r) \/ Close(r) \/ MarkRead(r))
    BY <2>4 DEF ReaderStep, Poll, Inbox, WaitForMessage, LookAgain, Timeout, Reply,
                ReaderDies, history
  <2>5. QED
    BY <2>1, <2>2, <2>3, <2>4
<1>2. QED
  BY <1>1, CountKeeps

(* For any senders, readers and number of messages: where the notify file  *)
(* says one, nothing else that was rung for is waiting, but in the two     *)
(* races between a count and its writing.                                  *)
THEOREM OneMeansAll == Spec => []OneIsAll
<1>1. TypeOK /\ TypeOK' /\ CountInv /\ [Next]_vars => CountInv'
  <2>1. CASE UNCHANGED vars
    BY <2>1 DEF vars, CountInv, Singles, OneIsAll
  <2>2. QED
    BY <2>1, SenderCounts, ReaderCounts DEF Next
<1>2. CountInv => OneIsAll
  BY DEF CountInv
<1>3. QED
  BY <1>1, <1>2, InitCount, TypeCorrect, PTL DEF Spec

-----------------------------------------------------------------------------
(* Shown once.  What two readers hold at once they took while it was       *)
(* unread, so the later one took it from the other's unmarked hands        *)
(* (Shared); what is about to be handed over, or was, is marked (Marked);  *)
(* so what a reader holds that was shown was held by the other as well     *)
(* (Again).                                                                *)

EmptyHanded == \A r \in Readers : look[r].pc \in {"idle", "look"} => look[r].got = {}
Shared == \A r, q \in Readers : r # q => look[r].got \cap look[q].got \subseteq together
Marked ==
  /\ shown \cap unread = {}
  /\ \A r \in Readers : look[r].pc = "reply" => look[r].got \cap unread = {}
Again == \A r \in Readers : look[r].got \cap shown \subseteq together

OnceInv == EmptyHanded /\ Shared /\ Marked /\ Again

LEMMA InitOnce == Init => OnceInv
BY DEF Init, OnceInv, EmptyHanded, Shared, Marked, Again, NoLook

(* A step of a sender, or of the bus, that shows nothing; what it posts is *)
(* new.                                                                    *)
LEMMA OnceKeeps ==
  ASSUME TypeOK, OnceInv, unread' \subseteq unread \cup {nextId},
         shown' \subseteq shown, together' = together,
         \A r \in Readers : look'[r] = look[r]
                            \/ (look'[r].got = {} /\ look'[r].pc # "reply")
  PROVE  OnceInv'
<1>1. nextId \notin shown /\ \A r \in Readers : nextId \notin look[r].got
  BY DEF TypeOK
<1>2. EmptyHanded' /\ Shared' /\ Again'
  BY DEF OnceInv, EmptyHanded, Shared, Again
<1>3. Marked'
  BY <1>1 DEF OnceInv, Marked
<1>4. QED
  BY <1>2, <1>3 DEF OnceInv

LEMMA TakeOnce ==
  ASSUME TypeOK, OnceInv, NEW r \in Readers, NEW since \in Nat, NEW last, Take(r, since, last),
         unread' = unread, shown' = shown
  PROVE  OnceInv'
<1>1. /\ \A q \in Readers \ {r} : look'[q] = look[q]
      /\ look'[r].pc = "mark" /\ look'[r].got \subseteq unread
      /\ together \subseteq together'
      /\ \A q \in Readers \ {r} : look'[r].got \cap InHand(q) \subseteq together'
  BY DEF Take, Pending, TypeOK
<1>2. \A q \in Readers \ {r} : look'[r].got \cap look[q].got \subseteq together'
  <2>1. SUFFICES ASSUME NEW q \in Readers \ {r}, NEW i \in look'[r].got, i \in look[q].got
                 PROVE  i \in together'
    OBVIOUS
  <2>2. look[q].pc = "mark"
    BY <1>1, <2>1 DEF OnceInv, EmptyHanded, Marked, TypeOK, Look
  <2>3. QED
    BY <1>1, <2>1, <2>2 DEF InHand
<1>3. Shared'
  BY <1>1, <1>2 DEF OnceInv, Shared
<1>4. EmptyHanded' /\ Marked' /\ Again'
  BY <1>1 DEF OnceInv, EmptyHanded, Marked, Again
<1>5. QED
  BY <1>3, <1>4 DEF OnceInv

(* A reader lets go of what it holds, and may have shown it. *)
LEMMA LetGoOnce ==
  ASSUME TypeOK, OnceInv, NEW r \in Readers,
         look' = [look EXCEPT ![r] = NoLook], together' = together \cap Held',
         unread' = unread,
         shown' = shown \/ (look[r].pc = "reply" /\ shown' = shown \cup look[r].got)
  PROVE  OnceInv'
<1>1. look'[r] = NoLook /\ \A q \in Readers \ {r} : look'[q] = look[q]
  BY DEF TypeOK
<1>2. \A q \in Readers : look'[q].got \subseteq Held'
  BY DEF Held
<1>3. EmptyHanded'
  BY <1>1 DEF OnceInv, EmptyHanded, NoLook
<1>4. Shared'
  BY <1>1, <1>2 DEF OnceInv, Shared, NoLook
<1>5. Marked'
  BY <1>1 DEF OnceInv, Marked, NoLook
<1>6. Again'
  <2>1. \A q \in Readers \ {r} : look[q].got \cap look[r].got \subseteq together
    BY DEF OnceInv, Shared
  <2>2. \A q \in Readers \ {r} : look[q].got \cap shown \subseteq together
    BY DEF OnceInv, Again
  <2>3. QED
    BY <1>1, <1>2, <2>1, <2>2 DEF Again, NoLook
<1>7. QED
  BY <1>3, <1>4, <1>5, <1>6 DEF OnceInv

LEMMA SenderOnce ==
  ASSUME TypeOK, OnceInv, NEW s \in Senders, SenderStep(s)
  PROVE  OnceInv'
<1>1. /\ unread' \subseteq unread \cup {nextId} /\ shown' \subseteq shown
      /\ UNCHANGED <<together, look>>
  BY DEF SenderStep, Insert, Count, NotifyPeer, SenderDies, DeleteDm, mail, readers, history
<1>2. QED
  BY <1>1, OnceKeeps

LEMMA ReaderOnce ==
  ASSUME TypeOK, OnceInv, NEW r \in Readers, ReaderStep(r)
  PROVE  OnceInv'
<1>n. 0 .. MaxId - 1 \subseteq Nat
  BY BoundAssumption
<1>1. CASE Open(r) \/ Close(r) \/ Timeout(r)
  BY <1>1, OnceKeeps DEF Open, Close, Timeout, mail, history
<1>2. CASE Poll(r)
  <2>1. \A q \in Readers : look'[q] = look[q] \/ (look'[q].got = {} /\ look'[q].pc # "reply")
    BY <1>2 DEF Poll, TypeOK
  <2>2. QED
    BY <1>2, <2>1, OnceKeeps DEF Poll, mail, history
<1>3. ASSUME NEW since \in 0 .. MaxId - 1, Inbox(r, since)
      PROVE  OnceInv'
  BY <1>3, <1>n, TakeOnce DEF Inbox, mail
<1>4. ASSUME NEW since \in 0 .. MaxId - 1, WaitForMessage(r, since)
      PROVE  OnceInv'
  <2>1. UNCHANGED <<unread, shown>>
    BY <1>4 DEF WaitForMessage, mail
  <2>2. CASE Pending(since) = {}
    BY <1>4, <2>1, <2>2, OnceKeeps DEF WaitForMessage
  <2>3. CASE Pending(since) # {}
    BY <1>4, <1>n, <2>1, <2>3, TakeOnce DEF WaitForMessage
  <2>4. QED
    BY <2>2, <2>3
<1>5. CASE LookAgain(r)
  <2>1. r \in Shims /\ wait[r] \in Nat /\ UNCHANGED <<unread, shown>>
    BY <1>5 DEF LookAgain, TypeOK, mail
  <2>2. CASE Pending(wait[r]) = {}
    <3>1. \A q \in Readers : look'[q] = look[q] \/ (look'[q].got = {} /\ look'[q].pc # "reply")
      <4>1. look' = [look EXCEPT ![r] = NoLook]
        BY <1>5, <2>2 DEF LookAgain
      <4>2. \A q \in Readers : look'[q] = look[q] \/ look'[q] = NoLook
        BY <4>1 DEF TypeOK
      <4>3. QED
        BY <4>2 DEF NoLook
    <3>2. QED
      BY <1>5, <2>1, <2>2, <3>1, OnceKeeps DEF LookAgain
  <2>3. CASE Pending(wait[r]) # {}
    BY <1>5, <2>1, <2>3, TakeOnce DEF LookAgain
  <2>4. QED
    BY <2>2, <2>3
<1>6. CASE MarkRead(r)
  <2>1. /\ \A q \in Readers \ {r} : look'[q] = look[q]
        /\ look[r].pc = "mark" /\ look'[r].pc = "reply" /\ look'[r].got = look[r].got
        /\ unread' = unread \ look[r].got /\ UNCHANGED <<shown, together>>
    BY <1>6 DEF MarkRead, LeftUnread, TypeOK, Look
  <2>2. EmptyHanded' /\ Marked'
    BY <2>1 DEF OnceInv, EmptyHanded, Marked
  <2>3. \A q \in Readers : look'[q].got = look[q].got
    BY <2>1
  <2>4. Shared' /\ Again'
    BY <2>1, <2>3 DEF OnceInv, Shared, Again
  <2>5. QED
    BY <2>2, <2>4 DEF OnceInv
<1>7. CASE Reply(r)
  BY <1>7, LetGoOnce DEF Reply, mail
<1>8. CASE ReaderDies(r)
  <2>1. shown' = shown \/ (look[r].pc = "reply" /\ shown' = shown \cup look[r].got)
    BY <1>8 DEF ReaderDies
  <2>2. look' = [look EXCEPT ![r] = NoLook] /\ together' = together \cap Held' /\ unread' = unread
    BY <1>8 DEF ReaderDies, mail
  <2>3. QED
    BY <2>1, <2>2, LetGoOnce
<1>9. QED
  BY <1>1, <1>2, <1>3, <1>4, <1>5, <1>6, <1>7, <1>8 DEF ReaderStep

(* For any senders, readers and number of messages: nobody is shown what   *)
(* was shown before, but what two readers had in hand unmarked at once.    *)
THEOREM AgainTogether == Spec => ShownAgainOnlyTogether
<1> DEFINE A == \A r \in Readers : Reply(r) => look[r].got \cap shown \subseteq together
<1>1. TypeOK /\ OnceInv /\ [Next]_vars => OnceInv'
  <2>1. CASE UNCHANGED vars
    BY <2>1 DEF vars, OnceInv, EmptyHanded, Shared, Marked, Again
  <2>2. QED
    BY <2>1, SenderOnce, ReaderOnce DEF Next
<1>2. OnceInv /\ [Next]_vars => [A]_vars
  BY DEF OnceInv, Again
<1>3. Spec => []OnceInv
  BY <1>1, InitOnce, TypeCorrect, PTL DEF Spec
<1>4. QED
  BY <1>2, <1>3, PTL DEF Spec, ShownAgainOnlyTogether
=============================================================================
