---------------------------- MODULE ApprovalBoard ----------------------------
(***************************************************************************)
(* The approvals of the web page: what supervisors file in storage/dao.ts, *)
(* what the server tells its tabs and when it stops                        *)
(* (cli/web/server.ts), what a tab fetches, draws and answers              *)
(* (web/assets/app.js), and the decision it records (supervise/answer.ts). *)
(*                                                                         *)
(* One tab is followed.  Of the others there is what they do to the        *)
(* server: they have a connection, and they answer.  What the tab asks and *)
(* what it is told travel on their own: two requests or two responses may  *)
(* overtake one another, and any may be lost.  A frame of the event stream *)
(* travels as the request it makes the tab send.                           *)
(***************************************************************************)
EXTENDS Naturals, Sequences, FiniteSets

CONSTANTS
  Tab, Elsewhere, \* the tab, and the others
  Slots,          \* what is on its way at once between the tab and the server
  MaxRows,        \* bound on the rows of the approvals table
  Granted         \* the ids of those whose denial gave an allowlist entry

ASSUME TabsAssumption == Tab # Elsewhere
ASSUME RowsAssumption == MaxRows \in Nat /\ Granted \subseteq 1..MaxRows

VARIABLES
  rows,      \* the decisions of the approvals table, by id
  wakes,     \* history: the wakes supervisors were sent, by approval
  up,        \* the server runs
  timer,     \* idleTimer is set
  signature, \* lastApprovalSignature
  clients,   \* sseClients: the tab's connection, and any others
  phase,     \* the tab is closed, booting or open
  shown,     \* state.approvals
  drawn,     \* the cards on the page
  calls,     \* what is on its way
  missed     \* history: it missed a change in a way the code leaves open

vars == <<rows, wakes, up, timer, signature, clients, phase, shown,
          drawn, calls, missed>>
tableVars == <<rows, wakes>>
serverVars == <<up, timer, signature, clients>>
tabVars == <<phase, shown, drawn>>

-----------------------------------------------------------------------------
(* The table *)

Ids == 1..MaxRows
Decisions == {"approve", "deny"}
Answered == {i \in DOMAIN rows : rows[i] # "none"}

(* pendingApprovals; how many changes it comes after tells which of two    *)
(* lists is the older.                                                     *)
Pending == [ids |-> DOMAIN rows \ Answered, version |-> Len(rows) + Cardinality(Answered)]
NoCards == [ids |-> {}, version |-> 0]

ApprovalsCount(list) == {i \in Ids : i <= Cardinality(list.ids)}

(* approvalsSignature *)
ApprovalsSignature(list) == list.ids

(* insertApproval, by a supervisor *)
File ==
  /\ Len(rows) < MaxRows
  /\ rows' = Append(rows, "none")
  /\ UNCHANGED <<wakes, serverVars, tabVars, calls, missed>>

AnswerableAgain(id, decision) == decision = "approve" => id \in Granted

(* answerApproval: a row is answered once, and approved only with a grant. *)
Answerable(id, decision) ==
  /\ rows[id] = "none"
  /\ decision = "approve" => id \in Granted

(* answerAndNotify: the decision is recorded and the supervisor woken. *)
AnswerAndNotify(id, decision) ==
  /\ rows' = [rows EXCEPT ![id] = decision]
  /\ wakes' = [wakes EXCEPT ![id] = Append(@, decision)]

(* An answer that leaves the requests the poll last announced is nothing   *)
(* new to the poll.                                                        *)
Unannounced(id) == Pending.ids \ {id} = signature

-----------------------------------------------------------------------------
(* What is on its way between the tab and the server *)

Call(kind, at) == [kind |-> kind, at |-> at, list |-> NoCards, id |-> 0, decision |-> "none"]
NoCall == Call("none", "none")

Free == {s \in Slots : calls[s] = NoCall}
Taken == Slots \ Free
Sends(call) == Free # {} /\ calls' = [calls EXCEPT ![CHOOSE s \in Free : TRUE] = call]
Goes(s, at) == calls' = [calls EXCEPT ![s].at = at]
Ends(s) == calls' = [calls EXCEPT ![s] = NoCall]

(* Its EventSource has a connection. *)
stream == Tab \in clients

(* The server may go on for a while with a connection that is gone. *)
LeavesBehind == clients' = IF stream THEN {Elsewhere} ELSE clients

-----------------------------------------------------------------------------
(* The server *)

Announces ==
  /\ ApprovalsSignature(Pending) # signature
  /\ signature' = ApprovalsSignature(Pending)
  /\ IF stream THEN Sends(Call("event", "sent")) ELSE UNCHANGED calls
  /\ UNCHANGED <<tableVars, up, timer, clients, tabVars, missed>>

(* The interval: nobody watching means nothing to tell, and nothing noted. *)
Tick == up /\ clients # {} /\ Announces

(* GET /api/approvals *)
ServeFetch(s) ==
  /\ up /\ calls[s].at = "sent" /\ calls[s].kind # "answer"
  /\ calls' = [calls EXCEPT ![s].at = "served", ![s].list = Pending]
  /\ UNCHANGED <<tableVars, serverVars, tabVars, missed>>

(* POST /api/approvals/answer: recorded, or refused with 409 or 422 *)
ServeAnswer(s) ==
  /\ up /\ calls[s].at = "sent" /\ calls[s].kind = "answer"
  /\ IF Answerable(calls[s].id, calls[s].decision)
       THEN AnswerAndNotify(calls[s].id, calls[s].decision) /\ Goes(s, "recorded")
       ELSE UNCHANGED tableVars /\ calls' = [calls EXCEPT ![s] = Call("answer", "refused")]
  /\ UNCHANGED <<serverVars, tabVars, missed>>

(* The same from another tab, of this server or another. *)
AnswerElsewhere(id, decision) ==
  /\ id \in DOMAIN rows /\ Answerable(id, decision)
  /\ AnswerAndNotify(id, decision)
  /\ missed' = (missed \/ Unannounced(id))
  /\ UNCHANGED <<serverVars, tabVars, calls>>

(* The tab has, or is still to get from before, other cards than the server*)
(* last announced.                                                         *)
Behind ==
  \/ drawn # signature \/ shown.ids # signature
  \/ \E s \in Taken : calls[s].at = "served" /\ calls[s].list.ids # signature

(* sseClients.add: the idle timer is cleared. *)
Joins(c) ==
  /\ c = Tab => phase = "open"
  /\ clients' = clients \cup {c} /\ timer' = FALSE
  /\ missed' = (missed \/ (c = Tab /\ Behind))

(* connectSse, or EventSource connecting again, and handleSseStream.  What *)
(* was announced before is not told again.                                 *)
Connect(c) ==
  /\ up /\ c \notin clients
  /\ Joins(c)
  /\ UNCHANGED <<tableVars, up, signature, phase, shown, drawn, calls>>

(* sseClients.delete: the server sees that a connection is gone. *)
Leave ==
  /\ up /\ Elsewhere \in clients
  /\ clients' = clients \ {Elsewhere} /\ timer' = (clients' = {})
  /\ UNCHANGED <<tableVars, up, signature, tabVars, calls, missed>>

(* shutdown: every connection breaks. *)
Exits ==
  /\ up' = FALSE /\ timer' = FALSE /\ clients' = {} /\ signature' = {}
  /\ UNCHANGED <<tableVars, tabVars, calls, missed>>

IdleShutdown == up /\ timer /\ clients = {} /\ Exits
Interrupt == up /\ Exits

(* runWeb, once more *)
Start ==
  /\ ~up
  /\ up' = TRUE /\ timer' = TRUE
  /\ signature' = ApprovalsSignature(Pending)
  /\ UNCHANGED <<tableVars, clients, tabVars, calls, missed>>

-----------------------------------------------------------------------------
(* The tab *)

(* boot, up to its request for the approvals *)
Boot ==
  /\ up /\ phase = "closed"
  /\ phase' = "boot" /\ Sends(Call("boot", "sent"))
  /\ UNCHANGED <<tableVars, serverVars, shown, drawn, missed>>

Close ==
  /\ phase # "closed"
  /\ phase' = "closed" /\ LeavesBehind
  /\ shown' = NoCards /\ drawn' = {}
  /\ calls' = [s \in Slots |-> NoCall]
  /\ missed' = FALSE
  /\ UNCHANGED <<tableVars, up, timer, signature>>

(* The connection breaks under the open tab. *)
Break ==
  /\ stream /\ LeavesBehind
  /\ UNCHANGED <<tableVars, up, timer, signature, tabVars, calls, missed>>

(* A wake was heard, or something the reader did is followed by a refresh. *)
Refresh ==
  /\ stream /\ Sends(Call("refresh", "sent"))
  /\ UNCHANGED <<tableVars, serverVars, tabVars, missed>>

(* fetchApprovals goes on with the list it has, which is drawn: at once by *)
(* the boot and the approvals event, which leave the tab open, and by      *)
(* refresh when it has fetched the rest.                                   *)
GoesOn(s, list) ==
  /\ Ends(s)
  /\ shown' = list /\ drawn' = list.ids /\ phase' = "open"
  /\ UNCHANGED <<tableVars, serverVars>>

(* A response that was served before the one already shown puts the older  *)
(* list in its place.                                                      *)
Land(s) ==
  LET list == calls[s].list IN
  /\ calls[s].at = "served"
  /\ GoesOn(s, list)
  /\ missed' = \/ list.version < shown.version
               \/ missed /\ list # Pending

(* A failed fetch keeps whatever was last known. *)
FetchFails(s) ==
  /\ calls[s].at = "sent" /\ calls[s].kind # "answer"
  /\ GoesOn(s, shown)
  /\ missed' = TRUE

(* Another of refresh's fetches fails: nothing is drawn. *)
RefreshFails(s) ==
  /\ calls[s].kind = "refresh" /\ Ends(s)
  /\ shown' = IF calls[s].at = "served" THEN calls[s].list ELSE shown
  /\ missed' = TRUE
  /\ UNCHANGED <<tableVars, serverVars, phase, drawn>>

(* A button of a card; Approve is there only when there is a grant. *)
Click(id, decision) ==
  /\ id \in drawn
  /\ decision = "approve" => id \in Granted
  /\ Sends([Call("answer", "sent") EXCEPT !.id = id, !.decision = decision])
  /\ UNCHANGED <<tableVars, serverVars, tabVars, missed>>

(* answerApproval goes on: the toast says what became of it, "Not recorded"*)
(* also when the response was lost, and the tab refreshes.                 *)
HearOutcome(s) ==
  /\ calls[s].kind = "answer"
  /\ calls' = [calls EXCEPT ![s] = Call("refresh", "sent")]
  /\ UNCHANGED <<tableVars, serverVars, tabVars, missed>>

-----------------------------------------------------------------------------

Init ==
  /\ rows = <<>> /\ wakes = [i \in Ids |-> <<>>]
  /\ up = TRUE /\ timer = TRUE /\ signature = {} /\ clients = {}
  /\ phase = "closed" /\ shown = NoCards /\ drawn = {}
  /\ calls = [s \in Slots |-> NoCall] /\ missed = FALSE

Next ==
  \/ File \/ Tick \/ Leave \/ IdleShutdown \/ Interrupt \/ Start
  \/ \E c \in {Tab, Elsewhere} : Connect(c)
  \/ Boot \/ Close \/ Break \/ Refresh
  \/ \E id \in Ids, decision \in Decisions :
       Click(id, decision) \/ AnswerElsewhere(id, decision)
  \/ \E s \in Slots :
       \/ ServeFetch(s) \/ Land(s) \/ FetchFails(s)
       \/ RefreshFails(s) \/ ServeAnswer(s) \/ HearOutcome(s)

(* The interval ticks, and what is on its way arrives, is served or fails. *)
Fairness ==
  /\ SF_vars(Tick)
  /\ \A s \in Slots :
       WF_vars(ServeFetch(s) \/ ServeAnswer(s)
                 \/ Land(s) \/ HearOutcome(s))

Spec == Init /\ [][Next]_vars /\ Fairness

-----------------------------------------------------------------------------
(* Properties *)

OnTheWay ==
  \E s \in Taken :
    \/ calls[s].at = "recorded"
    \/ calls[s].at = "sent" /\ calls[s].kind # "answer"
    \/ calls[s].at = "served" /\ calls[s].list.ids = Pending.ids

(* The cards of a tab that is connected are the pending requests, or the   *)
(* poll is still to announce the change, or the tab is on its way to draw  *)
(* it.  It misses one only in a way the code leaves open: the change was   *)
(* announced while it was not connected, or came and went between two      *)
(* polls, a fetch failed, or an older response landed last (the poll in    *)
(* runWeb, fetchApprovals, refresh).                                       *)
StaleIsExcused ==
  stream /\ ~missed /\ drawn # Pending.ids =>
    signature # ApprovalsSignature(Pending) \/ OnTheWay

(* The operator is never told a decision that does not stand: the answer   *)
(* the tab is about to report as recorded is the row's, and a supervisor is*)
(* woken once for a row, with that decision, however many tabs and clicks  *)
(* there were (answerAndNotify, handleAnswerApproval).                     *)
ToldIsTrue ==
  /\ \A s \in Taken : calls[s].at = "recorded" => rows[calls[s].id] = calls[s].decision
  /\ \A i \in DOMAIN rows : wakes[i] = IF i \in Answered THEN <<rows[i]>> ELSE <<>>

(* A request appears in a tab that stays connected, unless it was answered *)
(* first or the tab missed it in one of the ways above.                    *)
CardAppears ==
  \A id \in Ids :
    id \in Pending.ids /\ stream ~>
      id \in drawn \/ id \notin Pending.ids \/ ~stream \/ missed
=============================================================================
