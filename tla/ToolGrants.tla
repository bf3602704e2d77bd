----------------------------- MODULE ToolGrants -----------------------------
(***************************************************************************)
(* From a tool call the child is refused to the allowlist its successor is *)
(* spawned with: the driver that pairs a refusal with the call it answers  *)
(* (drivers/claude-events.ts), the allowlist entries made from that call   *)
(* (denial.ts), the request filed with them (supervise/index.ts, dao.ts),  *)
(* and the replacement of the child once it is approved.  Supervisor.tla   *)
(* has the queue, the gate and what becomes of the messages.               *)
(*                                                                         *)
(* A Bash line is its first command and what follows it; a path in it is   *)
(* spelled as the resolved one, through a symlink, or quoted, where it is  *)
(* not rewritten.  Another tool is known by its name alone.                *)
(*                                                                         *)
(* External: the CLI permits a line that is in the allowlist or whose      *)
(* first command is, and answers the calls of one message in one or in     *)
(* several, as the comments of denial.ts and the fixtures record it.       *)
(***************************************************************************)
EXTENDS Integers, Sequences, SequencesExt

CONSTANTS
  Commands,    \* what a Bash line does first, and to which file
  Named,       \* tools without a command, known by their names
  None,        \* no second command
  Asked,       \* the invocations a child may make
  MaxCalls,    \* bound on the tool calls
  MaxChildren, \* bound on the spawns
  MaxTogether  \* bound on the calls of one message

ASSUME SetsAssumption == None \notin Commands /\ Commands \cap Named = {}
ASSUME BoundsAssumption ==
  MaxCalls \in Nat /\ MaxChildren \in Nat \ {0} /\ MaxTogether \in Nat \ {0}

VARIABLES
  calls,        \* history: the tool calls by id: who made it, what it asks
  kids,         \* the children, by generation
  generation,   \* childGeneration: the number of the live child
  pendingCalls, \* the driver's map from the id of a call to what it asks
  approvals,    \* the rows of the approvals table, by id
  unrecorded,   \* history: calls whose request could not be written to the
                \* table, which the log says
  unasked       \* history: calls whose refusal was heard and not filed, and
                \* the refusals that came in the same message

vars == <<calls, kids, generation, pendingCalls, approvals, unrecorded, unasked>>

-----------------------------------------------------------------------------
(* Invocations and allowlist entries *)

Spellings == {"real", "alias", "quoted"}
Path == [of: Commands, spelling: Spellings]
NoPath == [of |-> None, spelling |-> "real"]
Invocation == [lead: Path, tail: Path \cup {NoPath}]
             \cup [lead: [of: Named, spelling: {"real"}], tail: {NoPath}]

ASSUME AskedAssumption == Asked \subseteq Invocation

Resolved(path) == [path EXCEPT !.spelling = IF @ = "alias" THEN "real" ELSE @]

(* The whole line with its paths resolved, the ones that do not exist yet  *)
(* as their directories are.                                               *)
CanonicalisePaths(inv) == [lead |-> Resolved(inv.lead), tail |-> Resolved(inv.tail)]

LeadingSegment(inv) == [inv EXCEPT !.tail = NoPath]

(* The entry the card shows. *)
GrantFor(inv) == CanonicalisePaths(inv)

VariantsOfWhole(inv) == {inv, CanonicalisePaths(inv)}

(* Every spelling that is granted with it. *)
GrantVariants(inv) ==
  {inv, CanonicalisePaths(inv), LeadingSegment(inv),
   CanonicalisePaths(LeadingSegment(inv))}

(* What the prompt asks the next child to attempt: the entry, taken apart. *)
CommandFromGrant(grant) == grant

Permits(allowed, inv) == inv \in allowed \/ LeadingSegment(inv) \in allowed

-----------------------------------------------------------------------------
(* Types *)

Generations == 1..MaxChildren
CallIds == 1..MaxCalls

(* A message of the child: the calls it makes, or the results it was given *)
(* with the ones that are refusals.                                        *)
Event == [kind: {"calls", "results"}, ids: SUBSET CallIds, refused: SUBSET CallIds]

Kid == [life: {"none", "up", "killed", "dead"},
        allowed: SUBSET Invocation,
        told: SUBSET Invocation,
        waiting: SUBSET CallIds,
        events: Seq(Event)]

NoKid == [life |-> "none", allowed |-> {}, told |-> {}, waiting |-> {}, events |-> <<>>]

(* A row, and what became of the wake that carries its answer. *)
Approval == [call: CallIds, grant: Invocation,
             forms: SUBSET Invocation, allowlist: SUBSET Invocation,
             decision: {"none", "approve", "deny"},
             wake: {"none", "underway", "lost", "heard"}]

TypeOK ==
  /\ calls \in Seq([by: Generations, asks: Invocation]) /\ Len(calls) <= MaxCalls
  /\ kids \in [Generations -> Kid]
  /\ generation \in Generations
  /\ \E ids \in SUBSET DOMAIN calls : pendingCalls \in [ids -> Invocation]
  /\ approvals \in Seq(Approval)
  /\ unrecorded \subseteq CallIds
  /\ unasked \subseteq [call: CallIds, beside: SUBSET CallIds]


-----------------------------------------------------------------------------
(* The child *)

Up(g) == kids[g].life \in {"up", "killed"}

Says(g, event, waiting) ==
  kids' = [kids EXCEPT ![g].events = Append(@, event), ![g].waiting = waiting]

(* One message with a call or several. *)
Call(g, asked) ==
  LET ids == Len(calls) + 1 .. Len(calls) + Len(asked)
  IN  /\ Up(g)
      /\ Len(asked) \in 1..MaxTogether /\ Len(calls) + Len(asked) <= MaxCalls
      /\ calls' = calls \o [i \in DOMAIN asked |-> [by |-> g, asks |-> asked[i]]]
      /\ Says(g, [kind |-> "calls", ids |-> ids, refused |-> {}],
              kids[g].waiting \cup ids)
      /\ UNCHANGED <<generation, pendingCalls, approvals, unrecorded, unasked>>

(* The CLI answers some of them; what its allowlist does not permit is     *)
(* refused.                                                                *)
Report(g, ids) ==
  LET refused == {i \in ids : ~Permits(kids[g].allowed, calls[i].asks)}
  IN  /\ Up(g)
      /\ ids # {} /\ ids \subseteq kids[g].waiting
      /\ Says(g, [kind |-> "results", ids |-> ids, refused |-> refused],
              kids[g].waiting \ ids)
      /\ UNCHANGED <<calls, generation, pendingCalls, approvals, unrecorded, unasked>>

Die(g) ==
  /\ Up(g)
  /\ kids' = [kids EXCEPT ![g].life = "dead", ![g].waiting = {}]
  /\ UNCHANGED <<calls, generation, pendingCalls, approvals, unrecorded, unasked>>

-----------------------------------------------------------------------------
(* The supervisor hears it, a whole line at a time and in order *)

IfAny(g) == TRUE

(* The callbacks of a child that was replaced are logged and do nothing. *)
IfCurrent(g) == g = generation

Heard(g) == [kids EXCEPT ![g].events = Tail(@)]

(* rememberClaudeToolUse: module state, shared by every child. *)
Remember(ids) ==
  pendingCalls' = [i \in DOMAIN pendingCalls \cup ids |->
                     IF i \in ids THEN calls[i].asks ELSE pendingCalls[i]]

ReportedIfFirst(event) == {i \in event.refused : \A j \in event.ids : i <= j}

(* denialFromClaude: only the first refusal of a message is reported. *)
Reported(event) == {i \in event.refused : \A j \in event.refused : i <= j}

Paired(id) == pendingCalls[id]

(* onDenial: the request, with what was in force when it was refused. *)
Request(id) ==
  [call |-> id, grant |-> GrantFor(Paired(id)), forms |-> GrantVariants(Paired(id)),
   allowlist |-> kids[generation].allowed, decision |-> "none", wake |-> "none"]

(* routeClaudeEvent for a message with tool calls. *)
HearCalls(g) ==
  /\ kids[g].events # <<>> /\ Head(kids[g].events).kind = "calls"
  /\ Remember(Head(kids[g].events).ids)
  /\ kids' = Heard(g)
  /\ UNCHANGED <<calls, generation, approvals, unrecorded, unasked>>

(* routeClaudeEvent for a message with results: a refusal is paired with   *)
(* its call, which is forgotten, and if the child is the live one a request*)
(* is filed.  An insert that fails is logged, and nobody will be asked.    *)
HearResults(g, fails) ==
  /\ kids[g].events # <<>> /\ Head(kids[g].events).kind = "results"
  /\ LET event == Head(kids[g].events)
         reported == IF IfCurrent(g) THEN Reported(event) ELSE {}
         filed == IF fails THEN {} ELSE reported
     IN  /\ fails => reported # {}
         /\ unrecorded' = unrecorded \cup (reported \ filed)
         /\ pendingCalls' = [i \in DOMAIN pendingCalls \ Reported(event) |-> pendingCalls[i]]
         /\ approvals' = approvals \o SetToSeq({Request(id) : id \in filed})
         /\ unasked' = unasked \cup
              {[call |-> i, beside |-> event.refused] : i \in event.refused \ filed}
  /\ kids' = Heard(g)
  /\ UNCHANGED <<calls, generation>>

AllowlistOf(base, granted) == granted

(* Additive: a grant revokes nothing the agent already had. *)
AllowlistWith(base, granted) == base \cup granted

(* The row is answered once; the wake is sent once, and may be lost. *)
Answer(id, decision, wake) ==
  /\ approvals[id].decision = "none"
  /\ approvals' = [approvals EXCEPT ![id].decision = decision, ![id].wake = wake]
  /\ UNCHANGED <<calls, kids, generation, pendingCalls, unrecorded, unasked>>

Hears(id, decision) ==
  /\ approvals[id].wake = "underway" /\ approvals[id].decision = decision
  /\ approvals' = [approvals EXCEPT ![id].wake = "heard"]
  /\ UNCHANGED <<calls, pendingCalls, unrecorded, unasked>>

(* applyAnswer of a denial only tells the child. *)
HearDeny(id) == Hears(id, "deny") /\ UNCHANGED <<kids, generation>>

(* applyAnswer of an approval: replaceChild kills the live child and       *)
(* spawns one with the wider allowlist, which is told what to attempt.     *)
HearApprove(id) ==
  /\ Hears(id, "approve")
  /\ generation < MaxChildren
  /\ generation' = generation + 1
  /\ kids' = [kids EXCEPT
       ![generation].life = IF @ = "up" THEN "killed" ELSE @,
       ![generation + 1] =
         [NoKid EXCEPT !.life = "up",
                       !.allowed = AllowlistWith(kids[generation].allowed, approvals[id].forms),
                       !.told = {CommandFromGrant(approvals[id].grant)}]]

-----------------------------------------------------------------------------

Init ==
  /\ calls = <<>> /\ generation = 1
  /\ kids = [g \in Generations |-> IF g = 1 THEN [NoKid EXCEPT !.life = "up"] ELSE NoKid]
  /\ pendingCalls = <<>> /\ approvals = <<>> /\ unrecorded = {} /\ unasked = {}

Next ==
  \/ \E g \in Generations :
       \/ \E n \in 1..MaxTogether : \E asked \in [1..n -> Asked] : Call(g, asked)
       \/ \E ids \in SUBSET kids[g].waiting : Report(g, ids)
       \/ Die(g)
       \/ HearCalls(g)
       \/ \E fails \in BOOLEAN : HearResults(g, fails)
  \/ \E id \in DOMAIN approvals :
       \/ \E decision \in {"approve", "deny"}, wake \in {"underway", "lost"} :
            Answer(id, decision, wake)
       \/ HearDeny(id)
       \/ HearApprove(id)

Spec == Init /\ [][Next]_vars

-----------------------------------------------------------------------------
(* Properties *)

(* A request is of the call that was refused: it records the list in force *)
(* for it, which is its own child's and does not cover it, and its entries *)
(* are made from that call.  Neither a child that was replaced while its   *)
(* refusal was on the way nor one spawned with a wider list files a card   *)
(* for what is granted already, and the calls of one message may be        *)
(* answered apart and after those of another child (ifCurrent, onDenial,   *)
(* pendingCalls, denialFromClaude).                                        *)
RequestIsOfTheRefusal ==
  \A i \in DOMAIN approvals :
    LET call == calls[approvals[i].call] IN
    /\ approvals[i].allowlist = kids[call.by].allowed
    /\ ~Permits(approvals[i].allowlist, call.asks)
    /\ approvals[i].grant = GrantFor(call.asks) /\ call.asks \in approvals[i].forms

(* What the child may write instead of a line that was refused: the same   *)
(* first command, its path as it was or resolved, and anything after it.   *)
Retries(inv) ==
  {r \in Invocation : r.lead \in {inv.lead, Resolved(inv.lead)}}

(* An approval that has reached the supervisor lasts: whatever was         *)
(* approved after it, the live child is permitted every retry of it, and   *)
(* the line it was told to attempt (grantVariants, allowlistWith,          *)
(* commandFromGrant).                                                      *)
ApprovedIsUsable ==
  /\ \A i \in DOMAIN approvals :
       approvals[i].decision = "approve" /\ approvals[i].wake = "heard" =>
         \A r \in Retries(calls[approvals[i].call].asks) :
           Permits(kids[generation].allowed, r)
  /\ \A r \in kids[generation].told : Permits(kids[generation].allowed, r)

(* A refusal the supervisor heard and nobody is asked about is one of a    *)
(* child that was replaced, or came in one message with another one that   *)
(* was filed, or the log says that nobody will be asked: a child stops at a*)
(* refusal, so any other would be an agent that has given up and nobody can*)
(* tell why (onDenial, whose comment calls silence the failure mode this   *)
(* whole path exists to remove).                                           *)
UnaskedIsExcused ==
  \A u \in unasked :
    \/ calls[u.call].by < generation
    \/ \E i \in DOMAIN approvals : approvals[i].call \in u.beside
    \/ u.beside \cap unrecorded # {}
=============================================================================
