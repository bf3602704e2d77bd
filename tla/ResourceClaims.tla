--------------------------- MODULE ResourceClaims ---------------------------
(***************************************************************************)
(* Claims on shared resources: the claims table of storage/dao.ts, the     *)
(* decisions of claims/lifecycle.ts and the claim and release tools of     *)
(* shim/tools/claims.ts.                                                   *)
(*                                                                         *)
(* Every agent is a process of its own.  A tool call samples the clock,    *)
(* reads the newest row of the resource, decides, and writes with one      *)
(* guarded SQL statement; there is no transaction, so each of these is a   *)
(* step here and the calls of the agents interleave between them.  Time    *)
(* may pass between the sample and the write, up to MaxStall.              *)
(*                                                                         *)
(* The rows of a resource are a sequence in the order of their ids, which  *)
(* is the order latestClaim sorts by; released_at is kept as the only      *)
(* thing the code ever asks of it, whether it is null.                     *)
(***************************************************************************)
EXTENDS Integers, Sequences

CONSTANTS
  Agents,      \* the handles that make claims, one process each
  Resources,   \* the resource names, already trimmed and not blank
  NoAgent,     \* stands for null where a handle could be
  NoResource,  \* the resource of no call
  EnvTtl,      \* CHAT_MCP_CLAIM_TTL_MINUTES of each process (0: unset or junk)
  DefaultTtl,  \* DEFAULT_TTL_MINUTES
  MaxStall,    \* how long a call may take from its sample to its end
  MaxClock,    \* bound on the clock
  MaxRows      \* bound on the rows of a resource

ASSUME NullAssumption == NoAgent \notin Agents /\ NoResource \notin Resources
ASSUME TtlAssumption ==
  /\ EnvTtl \in [Agents -> Int]
  /\ DefaultTtl \in Nat \ {0}
ASSUME BoundsAssumption ==
  /\ MaxStall \in Nat
  /\ MaxClock \in Nat
  /\ MaxRows \in Nat

VARIABLES
  clock,    \* Date.now(), the same on every process of the host
  claims,   \* the rows of each resource, oldest first
  call,     \* the tool call each agent has in flight
  reply,    \* what the last finished call of each agent answered
  revived   \* history: the rows a renewal wrote to after they had lapsed

vars == <<clock, claims, call, reply, revived>>

-----------------------------------------------------------------------------
(* Types *)

Row == [holder: Agents, claimed: Nat, expires: Nat, released: BOOLEAN]

Call == [pc: {"idle", "sampled", "decided", "refused"},
         op: {"claim", "release"},
         resource: Resources \cup {NoResource},
         force: BOOLEAN,
         now: Nat,
         outcome: {"none", "granted", "renewed", "released"},
         id: Nat,
         tookOver: Agents \cup {NoAgent}]

NoCall == [pc |-> "idle", op |-> "claim", resource |-> NoResource,
           force |-> FALSE, now |-> 0, outcome |-> "none", id |-> 0,
           tookOver |-> NoAgent]

Reply == [outcome: {"none", "granted", "renewed", "conflict",
                    "released", "not-yours", "not-held"},
          heldBy: Agents \cup {NoAgent},
          tookOver: Agents \cup {NoAgent},
          lostRace: BOOLEAN]

NoReply == [outcome |-> "none", heldBy |-> NoAgent, tookOver |-> NoAgent,
            lostRace |-> FALSE]

Answer(outcome) == [NoReply EXCEPT !.outcome = outcome]

(* The TTL of a process; junk in its environment falls back to the default. *)
Ttl(a) == IF EnvTtl[a] > 0 THEN EnvTtl[a] ELSE DefaultTtl

-----------------------------------------------------------------------------
(* claims/lifecycle.ts: the pure decisions *)

IsLive(row, now) == ~row.released /\ row.expires > now

(* The newest row of r, or 0 when r has none. *)
LatestClaim(r) == Len(claims[r])

DecideFromLiveRows(a, r, now) ==
  LET i == LatestClaim(r) IN
  IF i = 0 \/ ~IsLive(claims[r][i], now) THEN Answer("granted")
  ELSE IF claims[r][i].holder = a THEN Answer("renewed")
  ELSE [Answer("conflict") EXCEPT !.heldBy = claims[r][i].holder]

DecideClaim(a, r, now) ==
  LET i == LatestClaim(r) IN
  IF i = 0 THEN Answer("granted")
  ELSE LET row == claims[r][i] IN
       CASE IsLive(row, now) /\ row.holder = a -> Answer("renewed")
         [] IsLive(row, now) /\ row.holder # a ->
              [Answer("conflict") EXCEPT !.heldBy = row.holder]
         [] ~IsLive(row, now) /\ ~row.released ->
              [Answer("granted") EXCEPT !.tookOver = row.holder]
         [] OTHER -> Answer("granted")

DecideRelease(a, r, now, force) ==
  LET i == LatestClaim(r) IN
  IF i = 0 \/ ~IsLive(claims[r][i], now) THEN Answer("not-held")
  ELSE IF claims[r][i].holder = a \/ force THEN Answer("released")
  ELSE [Answer("not-yours") EXCEPT !.heldBy = claims[r][i].holder]

-----------------------------------------------------------------------------
(* The tools *)

Finish(a, answer) ==
  /\ call' = [call EXCEPT ![a] = NoCall]
  /\ reply' = [reply EXCEPT ![a] = answer]

(* A tool call arrives and samples the clock. *)
Start(a, op, r, force) ==
  /\ call[a].pc = "idle"
  /\ call' = [call EXCEPT ![a] = [pc |-> "sampled", op |-> op, resource |-> r,
                                  force |-> force, now |-> clock,
                                  outcome |-> "none", id |-> 0,
                                  tookOver |-> NoAgent]]
  /\ reply' = [reply EXCEPT ![a] = NoReply]
  /\ UNCHANGED <<clock, claims, revived>>

StartClaim(a, r) == Start(a, "claim", r, FALSE)
StartRelease(a, r, force) == Start(a, "release", r, force)

(* Either tool reads the newest row and decides; a refusal ends the call. *)
ReadAndDecide(a) ==
  LET c == call[a]
      d == IF c.op = "claim" THEN DecideClaim(a, c.resource, c.now)
           ELSE DecideRelease(a, c.resource, c.now, c.force)
  IN
  /\ c.pc = "sampled"
  /\ \/ /\ d.outcome \in {"granted", "renewed", "released"}
        /\ call' = [call EXCEPT ![a].pc = "decided", ![a].outcome = d.outcome,
                                ![a].id = LatestClaim(c.resource),
                                ![a].tookOver = d.tookOver]
        /\ UNCHANGED reply
     \/ /\ d.outcome \in {"conflict", "not-yours", "not-held"}
        /\ Finish(a, d)
  /\ UNCHANGED <<clock, claims, revived>>

(* The guarded INSERT: it lands only while no row is live at the caller's  *)
(* sample of the clock.                                                    *)
NewRow(a) == [holder |-> a, claimed |-> call[a].now,
              expires |-> call[a].now + Ttl(a), released |-> FALSE]

SomeLive(r, now) == \E i \in DOMAIN claims[r] : IsLive(claims[r][i], now)

InsertLands(a) ==
  /\ claims' = [claims EXCEPT ![call[a].resource] = Append(@, NewRow(a))]
  /\ Finish(a, [Answer("granted") EXCEPT !.tookOver = call[a].tookOver])
  /\ UNCHANGED <<clock, revived>>

WriteRefused(a) ==
  /\ call' = [call EXCEPT ![a].pc = "refused"]
  /\ UNCHANGED <<clock, claims, reply, revived>>

InsertClaimUnguarded(a) ==
  /\ call[a].pc = "decided" /\ call[a].outcome = "granted"
  /\ Len(claims[call[a].resource]) < MaxRows
  /\ InsertLands(a)

InsertClaim(a) ==
  /\ call[a].pc = "decided" /\ call[a].outcome = "granted"
  /\ \/ /\ ~SomeLive(call[a].resource, call[a].now)
        /\ Len(claims[call[a].resource]) < MaxRows
        /\ InsertLands(a)
     \/ /\ SomeLive(call[a].resource, call[a].now)
        /\ WriteRefused(a)

(* The guarded UPDATE of a renewal, in place: claimed_at stays. *)
RenewalLands(a) ==
  LET r == call[a].resource
      i == call[a].id
  IN
  /\ claims' = [claims EXCEPT ![r][i].expires = call[a].now + Ttl(a)]
  /\ revived' = IF claims[r][i].expires > clock THEN revived
                ELSE [revived EXCEPT ![r] = @ \cup {i}]
  /\ Finish(a, Answer("renewed"))
  /\ UNCHANGED clock

RenewClaim(a) ==
  LET row == claims[call[a].resource][call[a].id] IN
  /\ call[a].pc = "decided" /\ call[a].outcome = "renewed"
  /\ \/ /\ row.holder = a /\ IsLive(row, call[a].now)
        /\ RenewalLands(a)
     \/ /\ ~(row.holder = a /\ IsLive(row, call[a].now))
        /\ WriteRefused(a)

(* The write was refused: the newest row is read again for the reply. *)
ReportLostRace(a) ==
  LET r == call[a].resource
      i == LatestClaim(r)
  IN
  /\ call[a].pc = "refused"
  /\ Finish(a, [Answer("conflict") EXCEPT
                  !.heldBy = IF i = 0 THEN NoAgent ELSE claims[r][i].holder,
                  !.lostRace = TRUE])
  /\ UNCHANGED <<clock, claims, revived>>

(* The UPDATE of a release, by id; a row already released stays as it is. *)
ReleaseClaim(a) ==
  /\ call[a].pc = "decided" /\ call[a].outcome = "released"
  /\ claims' = [claims EXCEPT ![call[a].resource][call[a].id].released = TRUE]
  /\ Finish(a, Answer("released"))
  /\ UNCHANGED <<clock, revived>>

(* The process dies with its call: what it wrote stays, no reply is seen. *)
Crash(a) ==
  /\ call[a].pc # "idle"
  /\ Finish(a, NoReply)
  /\ UNCHANGED <<clock, claims, revived>>

(* Time passes, for the calls in flight as for everybody else. *)
Tick ==
  /\ clock < MaxClock
  /\ \A a \in Agents : call[a].pc # "idle" => clock - call[a].now < MaxStall
  /\ clock' = clock + 1
  /\ UNCHANGED <<claims, call, reply, revived>>

-----------------------------------------------------------------------------
Init ==
  /\ clock = 0
  /\ claims = [r \in Resources |-> <<>>]
  /\ call = [a \in Agents |-> NoCall]
  /\ reply = [a \in Agents |-> NoReply]
  /\ revived = [r \in Resources |-> {}]

AgentStep(a) ==
  \/ \E r \in Resources : StartClaim(a, r)
  \/ \E r \in Resources, force \in BOOLEAN : StartRelease(a, r, force)
  \/ ReadAndDecide(a)
  \/ InsertClaim(a)
  \/ RenewClaim(a)
  \/ ReportLostRace(a)
  \/ ReleaseClaim(a)
  \/ Crash(a)

Next == Tick \/ \E a \in Agents : AgentStep(a)

Spec == Init /\ [][Next]_vars

-----------------------------------------------------------------------------
(* Properties *)

(* Types; a row never expires at or before the moment it was claimed at,   *)
(* which a junk CHAT_MCP_CLAIM_TTL_MINUTES would bring about if ttlMinutes *)
(* passed it on.                                                           *)
TypeOK ==
  /\ clock \in Nat
  /\ claims \in [Resources -> Seq(Row)]
  /\ \A r \in Resources : \A i \in DOMAIN claims[r] :
       claims[r][i].claimed < claims[r][i].expires
  /\ call \in [Agents -> Call]
  /\ reply \in [Agents -> Reply]
  /\ revived \in [Resources -> SUBSET Nat]

LiveNow(r) == {i \in DOMAIN claims[r] : IsLive(claims[r][i], clock)}

(* A resource has one live claim.  This is what renewClaim's comment says  *)
(* its guard secures; it does not survive a renewal that lands after the   *)
(* row has lapsed and a rival has stepped in.                              *)
AtMostOneLive == \A r \in Resources : \A i, j \in LiveNow(r) : i = j

(* However the calls interleave and stall, the only way to two live claims *)
(* on one resource is such a late renewal, and it is the older row that    *)
(* was revived: neither insertClaim nor releaseClaim can bring it about.   *)
SecondHolderOnlyByLateRenewal ==
  \A r \in Resources : \A i, j \in LiveNow(r) : i < j => i \in revived[r]

(* An expired claim is taken over audibly: a claim that steps over a row   *)
(* nobody released names that row's holder in its reply, although the row  *)
(* was read before the INSERT and others may have written in between.      *)
TakeoverIsAudible ==
  [][\A a \in Agents, r \in Resources :
       LET n == Len(claims[r]) IN
       (Len(claims'[r]) > n /\ n > 0 /\ ~claims[r][n].released
          /\ claims'[r][n + 1].holder = a)
         => reply'[a].tookOver = claims[r][n].holder]_vars

(* A release is final and a row's past is fixed: no call in flight, however *)
(* stale, reopens or prolongs a released row or rewrites whose a row is and *)
(* since when.                                                             *)
RowStays(r, i) ==
  /\ i \in DOMAIN claims'[r]
  /\ claims[r][i].released => claims'[r][i] = claims[r][i]
  /\ claims'[r][i].holder = claims[r][i].holder
  /\ claims'[r][i].claimed = claims[r][i].claimed

ReleaseIsFinal ==
  [][\A r \in Resources : \A i \in DOMAIN claims[r] : RowStays(r, i)]_vars

(* The newest row of each resource, as everybody who asks sees it,         *)
(* implements an exclusive lease.                                          *)
Owner == [r \in Resources |->
            LET n == LatestClaim(r) IN
            IF n > 0 /\ IsLive(claims[r][n], clock) THEN claims[r][n].holder
            ELSE NoAgent]

Lease == INSTANCE ExclusiveLease WITH owner <- Owner

ImplementsLease == Lease!Spec
=============================================================================
