# chat-mcp in TLA+

chat-mcp lets several coding agents and a human talk over one SQLite file. There
is no server: every participant (the MCP shim of an agent, the web server, the
two terminal clients, one-shot commands, the supervisor of an agent) is a
process of its own that opens the same database. Nothing locks anything for
longer than one SQL statement. This directory holds the models of what those
processes do to each other, the TLC runs that check them on small instances, and
proofs, checked by TLAPS, of what holds for every instance.

Paths below are relative to the source root `src/` of the repository.

## 1. The system

### How its parts interact

* **Shared state.** `storage/dao.ts` is one function per operation and one or
  several statements per function. `tx` of `storage/db.ts` is used by migrations
  only, so between two statements of one operation any other process may run.
  This is the grain of every model here: *one step is one statement*, with the
  decisions in JavaScript attached to the read they are made from.
* **Wakes.** `notifyPeer` overwrites a file per handle and hands the same
  envelope to the unix socket of a supervisor, if there is one, without waiting
  for it and without trying again.
* **Callbacks.** A supervisor is single-threaded: an envelope or a callback of
  its child runs to its end. Its children are processes and talk through pipes,
  so what they say comes late, also from a child that was already replaced.
* **The web page.** It runs one handler at a time too, but gives way at every
  await: of two requests it has sent, either may be answered first.
* **The terminal clients.** They look at the database when they are rung or spoken
  to, and at no other time.
* **The operating system.** A handle belongs to a process by its pid, and pids
  are reused.

### Inventory

| Component | State | Operations | Hard behaviour | What makes it correct |
|---|---|---|---|---|
| Resource claims (`claims/lifecycle.ts`, `shim/tools/claims.ts`, `dao.ts` claims) | rows with holder, claimed_at, expires_at, released_at | claim, renew, release, forced release, list | read, decide and write are apart; a clock sampled once per call; lapse; death with a claim | one live claim per resource; a release is final; a takeover is announced |
| Handle registration (`dao.ts` upsertAgent, deleteAgent, prune; `shim/index.ts`, `register.ts`) | `agents` row: pid, session | start, register, exit, force, kick, prune | two starts at once; dead holders; reused pids; deletes by name | one process reads the mail of a handle |
| Supervisor (`supervise/index.ts`, `turn-queue.ts`, `rate-limit.ts`) | queue, held prompts, usage window, live child and its allowlist | wake, answer, turn-end, usage, denial, exit, replacement | late events of replaced children; duplicate wakes; a window that fills and empties | one turn at a time; each message once, in order; none lost |
| Tool grants (`supervise/denial.ts`, `grant.ts`, `allowlist.ts`, `drivers/claude-events.ts`) | pending tool calls, allowlist of each child, entries of a request | call, refusal, request, answer, spawn | refusals apart from their calls, several to a message, from a replaced child; a path with several spellings | a request is of the call that was refused; what was approved can be used |
| Approvals (`dao.ts` approvals, `supervise/answer.ts`, the board of the web page) | request rows, decision; the server's last announced signature; the tab's cards | file, answer, notify, poll, fetch | two tabs; crash between the row and the wake; answers out of order | answered once; only what was approved is allowed; a request is seen |
| Direct messages (`dao.ts`, `send.ts`, `inbox.ts`, `wait_for_message.ts`) | messages with read_at; notify file | send, inbox, wait | read and mark are two statements; the notify file is last-writer-wins | shown once; a count in a wake never hides mail |
| Rooms (`dao.ts`, `messaging/room-send.ts`, room tools) | rooms, members, read watermarks, messages | join, leave, boot, delete, send, read | four statements per join, three per delete, reads long before writes | a member sees what was posted after the join, once; only who may delete deletes |
| Wake socket (`supervise/socket.ts`) | socket file, listener | bind, deliver, close | probe, unlink and listen are apart; close unlinks by path | a handle with supervisors has one that can be reached |
| Notify bus (`notify/bus.ts`, `transport.ts`, `util/notify-orphans.ts`) | file stamp, poll interval, subscribers | write, poll, wait, close | writes coalesce; timeouts race wakes | a write is noticed |
| Context gauge (`shim/gauge.ts`, `report_context.ts`) | warned band per agent | report | hook and tool report at once; a death between the threshold and the warning | a band warns once on the way up; the threshold fits the context |
| Storage (`storage/db.ts`) | schema version | migrate | two processes open an old database; programs of different ages; a death between migrations | each migration is there once and keeps what it made |
| Conversation pane of the page (`web/assets/app.js`, `logic.js`, routes of `cli/web/server.ts`) | target, messages, filter, rows in the DOM, unread below, linked row | open, refresh, link, leave, delete, clear, send, join, scroll | fetches answered late or out of order; a switch while a handler waits | rows are those of the conversation open; nothing is marked read that was not fetched |
| Composer of the page (the same files) | text, completion list, ring of sent lines, sends in flight | type, complete, recall, send | listings that answer late; a send that clears what was typed since | no text is lost; Enter sends |
| Terminal clients (`cli/ink/App.tsx`, `cli/index.ts`) | view, screen, badges, alert lane | commands, doorbell, effect | what is marked is read again after the render | what is marked read was shown |
| Conversation styles (`dao.ts` styles, `set_style`, the page's editor, the console's Ctrl-S) | two columns of a room | set, cycle, edit, save | writers that go on from an old list | a style has its text, and goes to the room it was written for |
| One-shot commands, search, project registry, adapters | configuration | thin callers of the above | file read-modify-write of `projects.json` | presentation |

`PROJECT.json` lists the components with what is modelled of each, and, line by
line, the hazards: what can go wrong there that a test hardly reaches, and which
property covers it.

### Plan

Done, in this order, each with its run (and proofs where named in section 4):

1. `ResourceClaims` with the abstract `ExclusiveLease`; proofs.
2. `HandleClaim`; proofs.
3. `TurnQueue`, `Supervisor` (with approvals); proofs of what a child may use, of one
   turn at a time, and of the order and the loss of prompts.
4. `Rooms`; proofs.
5. `DirectMail`; proofs.
6. `WakeSocket`, `ContextGauge`, `Migrations`: processes that overlap, composed for
   one run in `MCOverlap`; proofs of each.
7. `ToolGrants`: from a refused call to the next child's allowlist; proofs.
8. The web page: `WebPane`, `WebComposer`, `ApprovalBoard` (with the server's poll);
   proofs of each.
9. `Terminal` and `RoomStyle`, composed for one run in `MCTerminal`; proofs of each.

What is left: a composition of `Supervisor` with `HandleClaim`, in which the shim of
a new child registers while the one of the replaced child may still run; and abstract
specifications, beside `ExclusiveLease`, of what a supervisor promises to senders and
a mailbox to its reader, for the detailed modules to implement.

## 2. The models

A module on its own has the specification `Spec`. Modules that one proof module
extends together name theirs after themselves, so that no name is defined twice:
`HandleSpec`, `GaugeSpec` and `DbSpec` beside `Spec` of `WakeSocket`; `PaneSpec` and
`ComposerSpec` beside `Spec` of `ApprovalBoard`; `StyleSpec` beside `Spec` of `Terminal`.

### ResourceClaims (refines ExclusiveLease)

| Model | Code |
|---|---|
| `claims[r]`, oldest row first | the rows of a resource by id; `latestClaim` is the last |
| `call[a]` | the locals of `performClaim` or of the release handler between two statements |
| `clock`, `call[a].now` | `Date.now()`, and the one sample a call takes |
| `StartClaim`, `StartRelease` | a tool call arrives |
| `ReadAndDecide` | `latestClaim` and `decideClaim` / `decideRelease`; a refusal ends the call |
| `InsertClaim`, `RenewClaim`, `ReleaseClaim` | the guarded statements, each with its refusal |
| `ReportLostRace` | the second read after a refused write |
| `Crash`, `Tick` | a shim dies in mid-call; time passes, at most `MaxStall` for a call in flight |
| `EnvTtl` | the environment of each process: 0 stands for unset or junk |

`revived` is a history variable: the rows a renewal wrote to after they had
lapsed. Release times, notes and minutes are abstracted: the code asks only
whether released_at is null. An agent makes one call at a time.

`ExclusiveLease` says what everyone who asks may rely on: a resource has an
owner or none, and passes to another only through none. The refinement maps a
resource to the holder of its newest row while that row is live.

### HandleClaim

| Model | Code |
|---|---|
| `agent` | the `agents` row of the handle: pid and session |
| `proc[p]` | a run of the program and where it is in `upsertAgent` |
| `Spawn`, `Exit`, `used`, `Recycle` | the operating system: a free pid for a new process, reused or not |
| `ReadIncumbent`, `RefuseLiveRival` | `getAgent`, then `refuseLiveRival` with `isProcessAlive` |
| `WriteClaim`, `LoseSwap` | `writeClaim`, one statement, and its failure |
| `ReadBack` | the last `getAgent`; its absence is an error, another's row is not |
| `Kick` | `deleteAgent` from `/kick`, the web route, or an ephemeral supervisor |
| `PartitionPrunable`, `PruneAgents` | the prune script: a read, then a delete by name |

`ousted` is a history variable that names how a process lost its row: forced,
freed by a delete, or overwritten through a reused pid. There is no entry for
anything else, so `HoldsItsRow` says that nothing else happens. A process that
fails to register ends, if it was starting; the `register` tool of a serving
shim only reports the error. The row Init allows is any an earlier run may have
left, also one without a pid.

### TurnQueue and Supervisor

`TurnQueue` is the class as a value: a record of its three fields, and `sent` for
what it has handed to `events.send` and the caller has not yet written. A method
is an operator; `Supervisor` applies them and writes out what they send
(`Settle`), so an action is one whole callback. A loop of offers, the held list let go
or what a replacement carries over, is `OfferAll`, a function of how many were offered.

| Model | Code |
|---|---|
| `queue`, `held`, `gate` | `TurnQueue`, `held`, the verdict of `RateLimitGate` after its last update |
| `generation`, `child[g]` | `childGeneration` and the processes spawned so far, with stdin, turn in work, pipe of events and allowlist |
| `approvals`, `answers` | the rows, and the wakes of answers under way |
| `Wake` | the listener's handler for a message; hold it or offer it |
| `HearAnswer`, `ReplaceChild` | the handler for an answer: tell the denial, or drain, kill, spawn, wire, offer |
| `OnTurnEnd`, `OnUsage`, `OnDenial`, `OnExit`, `HearStale` | the callbacks, through `ifCurrent`; a request may fail to be filed, which is only logged |
| `AnswerAndNotify` | `answerAndNotify`; the wake may be lost |
| `BeginTurn`, `ReportUsage`, `BeDenied`, `EndTurn`, `Die` | external: the CLI |

`accepted`, `dispatched`, `unsent` and `carried` are history variables. The CLI
is external and modelled as the code describes it: it takes all lines that wait
on its stdin as one turn (the reason `turn-queue.ts` gives for existing), reports usage
only in a turn, and ends a turn with one event. A child that is killed goes on
until its death, and the exit may be heard before its last events.

### Rooms

| Model | Code |
|---|---|
| `owner`, `members`, `reads`, `msgs`, `nextId` | the room's row, `room_members`, `room_reads` (no row is 0, as `roomWatermark` has it), its `messages`, AUTOINCREMENT |
| `call[h]` | the locals of the one call the process of `h` is in, between two statements |
| `CheckCaller`, `CheckTarget` | the membership reads of `room_boot` and of `/rooms ... invite` |
| `InsertRoom`, `ReadMember`, `InsertMember`, `Announce`, `Anchor` | the five statements of `joinRoom`, for the caller or for the one it invites |
| `DeleteMember`, `DeleteMark`, `AnnounceBoot` | `leaveRoom`, `bootFromRoom`, what `deleteAgent` does to rooms, and the announcement of a boot |
| `ReadOwner`, `ReadCaller`, `Judge`, `DeleteMarks`, `DeleteMessages`, `DeleteRoom` | `deleteRoom`, with `RoomDeleteVerdict` |
| `ClearMessages`, `ResetMarks` | `deleteRoomMessages` |
| `CheckSender`, `Post` | `sendToRoom`; `AdvanceOwnRead` is the flag its callers pass |
| `CheckReader`, `ReadFloor`, `Fetch`, `Recheck`, `Advance` | `room_inbox`: the check, `readFloor`, the SELECT, `safeRoomAdvanceId`, `advanceRoomRead` |
| `MarkSeen` | the web page's `handleRoomRead` |
| `Crash` | a process dies after a write of a call |

Message ids are global and rooms share nothing else, so one room stands for any.
The LIMIT of a read may fall after any unread id. Bodies, kinds, times, and the
wakes of members are left out: no decision reads them. What agents are promised is
stated for agents (`Agents`); a human's clients move their own mark in more ways
(their own posts, what the page has displayed).

`anchor`, `consumed` and `bared` are history variables: where an agent's last join
was announced, what its reads returned and advanced over, and which agents lost
their mark to a named race (a delete, clear, boot or invitation beside their
membership or their read, or a join that died). `NothingSkipped` needs no such
exception; `NothingTwice` and `NothingOlder` do, and say that there is no other way. A message posted between a joiner's membership row and
its announcement lies below the mark the join sets, and is never shown to it;
the properties count from the announcement.

### DirectMail

| Model | Code |
|---|---|
| `from`, `unread`, `nextId` | the `messages` to one handle, those with no read_at, AUTOINCREMENT |
| `file` | the handle's notify file: whether it is there, and the envelope's id and unread count (0 is an absent one) |
| `send[s]`, `look[r]` | the locals of a send, and of a read, between two statements |
| `running`, `seen[r]` | the processes with an open `NotifyBus`, and a shim's `NotifyBus.seen`: this stamp, none ("missing"), or another |
| `wait[r]` | the since_id of a `wait_for_message` asleep in `waitForNext` |
| `Insert`, `Count`, `NotifyPeer` | `insertMessage`, `totalUnreadFor` (not for one-shots), `notifyPeer` |
| `DeleteDm` | `deleteDmMessages` |
| `Open`, `Poll`, `Close` | the constructor, a tick of `arm`, and `close`, which unlinks the file |
| `Inbox`, `MarkRead`, `Reply` | `pendingInbox`, `markRead` and the reply of the inbox tool and its one-shot and terminal siblings |
| `WaitForMessage`, `LookAgain`, `Timeout` | the loop of `wait_for_message`: its first look, another after a wake, and the timer of `waitForNext` |
| `SenderDies`, `ReaderDies` | a process dies between statements |

One handle stands for any: its mail and its file are its own. Processes that read
as the handle are its shims, one-shot commands and terminal clients (a shim
started over a live one with force reads beside it for a while). What other
processes do when the bus fires them is not modelled apart: they may read at any
time anyway. Every write and deletion gives the file a stamp of its own
(`mtimeMs` and size): two writes of one length within one tick of the file
system's clock, which the poll would take for one, are outside the model. The
terminal's view of one peer, which marks that peer's messages alone, is a read
of a prefix here. Of `totalUnreadFor` the rooms' part is left out, and so are
bodies, kinds and `delivered_at`, which no decision reads.

`rung`, `shown`, `together` and `overtaken` are history variables: what was rung
for and is unread, what readers replied with, what two readers held unmarked at
once, and what the count in the file is too early or too late for. `OneIsAll` is
what the comment on `unread` in `NotifyEnvelope` promises ("`1` means the body in
this payload is everything waiting"), with its two exceptions named: a message
posted after the count but rung for before the file is written, and a count
that found another's message in place of the writer's own, which had been read.
Both come from counting and writing in two steps.

### WakeSocket, ContextGauge, Migrations

| Model | Code |
|---|---|
| `file`, `at[p]` | whose socket is at the path; how far `bind` or `close` of supervisor p has come |
| `Look`, `FindDead`, `Refuse`, `Unlink`, `Bind`, `Listen`, `Chmod` | `existsSync`, `isLive` (also when its 250 ms are over first), `unlinkSync`, and `server.listen` as bind(2) and listen(2), `chmodSync`; each failure ends the process |
| `Close`, `Unlinked` | `close`: the unlink by path that closing a pipe makes, then the one `close` makes itself |
| `Crash` | the process is killed and the file stays |

| Model | Code |
|---|---|
| `warned`, `context`, `rooms` | `context_warned_threshold`, `context_used` over `context_total`, the agent's rows of `room_members` |
| `pc`, `percent`, `prev`, `left` | a report of the tool or of the hook between its statements; `left` is where its warning is still to go |
| `Fire`, `Down`, `NextWarned`, `Direct`, `Audience` | `nextGaugeState`, `deliveryFor` |
| `Read`, `SetContext`, `SetWarned`, `ReadAudience`, `Warn`, `Die` | `getAgent`, `setAgentContext`, `setAgentContextWarned`, `myRooms`, a message with its wake to the agent or to one room, a death or a statement that throws |
| `MoveRooms` | `joinRoom`, `leaveRoom`: between any two statements of a report, and into no room at all |

| Model | Code |
|---|---|
| `table`, `versions`, `schema` | the table `schema_version`, its rows, and the migrations whose effect is in the file |
| `step`, `current` | how far `openDb` of each program has come, and the version it goes on from |
| `Kinds`, `Succeeds`, `Effect` | what the migrations do: create, add columns to a table, rebuild that table (and lose columns added since), clear values |
| `Start`, `CreateVersions`, `ReadVersion`, `Migrate`, `Record`, `Done`, `TightenDbFiles` | `openDb` and `migrate`; `Migrate` runs the statements of one, `Record` inserts its version and commits |
| `Collide`, `MigrateBusy`, `OpenFails` | SQLITE_BUSY and the other errors, which end the open |
| `End` | the program ends or dies, anywhere |

`cut`, `beside`, `told`, `excused`, `alone` and `company` are history variables
that name the excuses: a supervisor that ended beside another or in the middle of
its start, reports that ran beside each other, died with a warning unsent or had no room to
send it to, a program that opened the file beside another. The bytes of a wake, the wording of
warnings and the file modes are left out.

### ToolGrants

| Model | Code |
|---|---|
| `pendingCalls` | the driver's map from a tool_use id to its call, module state that all children share |
| `kids[g]` | a child: its life, the allowlist it was spawned with, what it was told to attempt, calls it waits for, its pipe |
| `approvals`, `generation` | the rows with the entries made for them, and the live child |
| `HearCalls`, `HearResults` | `rememberClaudeToolUse`; `denialFromClaude` with the pairing, the forgetting and `ifCurrent`, then `onDenial`, whose insert may fail |
| `GrantFor`, `GrantVariants`, `CommandFromGrant`, `AllowlistWith` | the functions of those names |
| `Answer`, `HearDeny`, `HearApprove` | the recorded answer with its wake, and `applyAnswer` with `replaceChild` |
| `Call`, `Report`, `Die`, `Permits` | external: the CLI, which answers the calls of a message in one or in several |

An invocation is its first command and the rest of the line, each with the
spelling of its path: as it is on disk, through a symlink, or quoted. `calls`,
`unrecorded` (calls whose request could not be inserted) and `unasked` are history
variables.

### WebPane

| Model | Code |
|---|---|
| `of`, `gone`, `joined`, `readUpTo` | the messages by conversation, the deleted ones, the reader's rooms and its marks |
| `current`, `messages`, `filter` | `state.currentTarget`, `state.messages`, `state.searchTerm` |
| `pane` | the rows of the DOM and what the stream remembers of them: `renderedTarget`, `renderedIds`, `linkedId`, pinned, `unreadBelow`, `unreadSince` |
| `task[s]`, `due` | handlers that wait for a response, and refreshes that have not read the target yet |
| `Appends`, `FreshIds`, `NextUnreadBelow`, `NextUnreadSince`, `Rendered` | `streamPlan`, `rebuildNamingArrivals`, the tally, `renderMessages` |
| `SelectTarget`, `RefreshPane`, `FollowLink`, the `Ask...` actions | what the reader or a wake begins |
| `AnswerFetch`, `AnswerLink`, the `Serve...` actions | the handlers of the server, each with all it reads and writes |
| `LandFetch`, `MarkRead`, `OpenLink`, `ShowWindow`, `HearClosed`, `RenderClosed`, `HearJoined` | the handler goes on after an await |

A handler is a task and a step runs from one await to the next. Every request is
served at some moment after it was sent and heard at some moment after that. In two
places the answer is heard in the step that serves it: the mark (`MarkRead`), after
which the page only draws what it holds, and a fetch that is refused (`AnswerFetch`).
Messages are their ids; which of them the filter matches is a constant. `fetched`,
`floor` and `late` are history variables.

### WebComposer

| Model | Code |
|---|---|
| `value` | the composer's text as the token under the caret: a command, its argument, a mention, a path, or plain text |
| `suggest`, `asked`, `hintSeq` | the open list with the text it was made over, the listings asked for, the counter that outdates them |
| `history` | the ring of sent lines, with the position in it and the draft |
| `submits` | sends in flight, a bag: the same line may be under way twice |
| `Type`, `Prefill`, `HintsArrive` | the input event and `updateSuggest`, a menu's prefill, a listing that answers |
| `Pick`, `PressEnter`, `PressTab`, `Escape`, `LoseFocus`, `ArrowUp`, `ArrowDown` | the keys and the mouse, each the whole handler |
| `Settle` | the send has been answered, and what the composer holds by then is cleared |

The caret is wherever the token is. A caret moved over text that stays as it is makes no
input event and outdates no listing; one that lands after such a move is outside the
model, and so are files dropped on the composer.

### ApprovalBoard

| Model | Code |
|---|---|
| `rows`, `wakes` | the decisions in the approvals table, and what supervisors were woken with (history) |
| `up`, `timer`, `signature`, `clients` | the server: `idleTimer`, `lastApprovalSignature`, `sseClients` |
| `phase`, `shown`, `drawn` | the tab, `state.approvals`, the cards |
| `calls[s]` | requests and responses on their way; an event frame travels as the request it makes the tab send |
| `File`, `AnswerElsewhere`, `Tick`, `ServeFetch`, `ServeAnswer` | `insertApproval`, `answerAndNotify`, the poll of the server, its two routes |
| `Connect`, `Break`, `Leave`, `IdleShutdown`, `Interrupt`, `Start` | the event stream, and the server's ends and starts |
| `Boot`, `Refresh`, `Land`, `FetchFails`, `RefreshFails`, `Click`, `HearOutcome`, `Close` | the tab |

One tab is followed; the others are what they do to the server (`Elsewhere`).
`missed` is a history variable for the ways the code leaves a tab behind.

### Terminal and RoomStyle

| Model | Code |
|---|---|
| `log`, `gone`, `read`, `joined`, `mark` | the tables as the user's queries see them |
| `toRing`, `bell` | senders that have not rung yet; the notify file has changed |
| `ui`, `view`, `screen`, `due` | the client that runs, what it has open, what it drew or printed, and whether the effect of the last render is still to run |
| `Flush`, `LineText`, `LineLook`, ... | the line client: it marks and prints in one step |
| `Render`, `Command`, `Look`, `SendTo`, `Ack`, `AllHands`, ... | the console: an event is one step with the render it asks for |
| `Effect` | the effect after a render, which reads the tables again and marks |
| `Post`, `Ring`, `Invited`, `Booted`, `Deleted`, `Wiped` | other processes |

| Model | Code |
|---|---|
| `row` | `rooms.style` and `rooms.style_custom` |
| `drawn`, `target`, `editor`, `posts` | the console's list, the page's conversation, its style editor, its requests in flight |
| `SetStyle`, `Cycle`, `Save`, `PickPreset`, `HandleRoomStyle`, `Hear` | the tool, Ctrl-S, the page's two ways to write, the server's handler, the page's continuation |

What the commands do statement by statement beside other processes is in `Rooms`
and `DirectMail`; here the writes of one call are one step. The unread of all rooms
come, as the query orders them, by the names of rooms and then by ids, and its LIMIT
cuts that list (`InRooms`, `Place`, `AllRoomsUnread`). `NamesAssumption` says that a
room's name is no peer's: it begins with # (`util/naming.ts`).

## 3. The runs

| Run | Instance | States | Shows |
|---|---|---|---|
| `claims` | 2 agents (one with a junk TTL), 1 resource, 3 rows, clock to 3, TTL 2, stall 1 | 1.5 M | SecondHolderOnlyByLateRenewal, TakeoverIsAudible, ImplementsLease |
| `handles` | 3 processes, 3 pids, reuse | 212 k (with symmetry) | HoldsItsRow |
| `supervisor` | 2 messages and a bare wake in 3 envelopes, 2 children, 1 denial, 2 tools | 340 k | OneTurnInFlight, DispatchedInOrder, LostOnlyToReplacement, OnlyWhatWasApproved, PendingLeaves |
| `supervisor_carry_over` | the same | - | CarriedOver **fails** |
| `grants` | 3 calls, 3 children, 2 calls to a message, 1 command and 1 named tool | 1.0 M | RequestIsOfTheRefusal, ApprovedIsUsable, UnaskedIsExcused |
| `rooms` | an agent and a human, one room, message ids to 3; the agent may crash | 1.8 M | NothingSkipped, NothingTwice, NothingOlder |
| `mail` | 2 senders, a shim and another reader, 2 messages | 1.1 M (with symmetry) | ReadWasShown, BellIsHeard, OneIsAll, ShownAgainOnlyTogether |
| `overlap` | 3 programs of 2 ages and 6 migrations; 4 supervisors; 2 reporters, 3 percentages, 2 rooms | 273 k | SchemaIsWhole, FailsOnlyBeside; SomeoneIsReachable, StartsSucceed; FitsAlone, RiseIsTold, ToldOnce |
| `pane` | 1 room, 1 peer, 2 handlers, 3 messages, 2 rows a fetch, 2 gestures | 1.5 M (with symmetry) | DomIsTheView, StrayRowsAreLate, MarkedWasFetched |
| `composer` | 4 commands, 2 names, 2 paths, a ring of 2, 2 things typed, 2 sends | 234 k | ListIsOverTheText, TextIsKept, EnterGetsThrough |
| `approvals` | 2 requests, 2 things on their way, a tab and others | 408 k | StaleIsExcused, ToldIsTrue, CardAppears |
| `terminal` | 1 peer, 2 rooms, 2 messages, pages, views and a lane of 1; styles: 2 rooms, 1 markdown, 1 request | 420 k | RungIsOnScreen, MarksWhatItShows, PrintsOnce; SavesWhereItSays, HalfWrittenOnlyWhenStale |

`overlap` and `terminal` hold models that share no variable with each other. Each
runs while the others rest in their first state, so nothing is lost by it: their
product would show nothing that the parts do not.

**Bounds, and why they are enough.**

* `claims`: two agents race for a resource and a third adds nothing a second
  does not (every statement looks at one row or at whether one is live). Three
  rows and a clock of 3 with a TTL of 2 let a row lapse, be taken over, and the
  second row lapse again. `MaxStall` 1 is less than a TTL and already separates
  a call's sample from its write by an expiry.
* `handles`: three processes are a holder, a challenger, and one that comes
  between the challenger's read and its swap. A process runs once; a restart is
  another process. Three pids with reuse let a pid go round.
* `supervisor`: two messages are needed for an order, three envelopes for one of
  them to come twice while the other waits; one replacement needs two children
  and one approval. `MaxEvents` bounds what a child says within a turn before it
  is heard; turn-ends are not bounded by it.
* `rooms`: every race in this code is between a call of one handle and a
  statement of another, so two handles are enough: an agent, about whom the
  properties speak, and a human, whose clients can do everything else (a second
  agent does nothing the human does not). Only the agent crashes: a call cut short
  leaves the same tables whoever made it, and a join, a boot and a delete are
  among the agent's own. The agent's join takes the first
  message or the second; two more let a since_id leave a gap, and a read stop
  at its LIMIT. Each call posts at most once and begins only if its post fits
  (`MayPost`), so none is cut short by the bound.
* `mail`: a stale count needs two senders, a double showing two readers, and the
  bell one process that waits and one that opens and closes its file. Two
  messages make a prefix that leaves one behind, and a since_id with one on
  each side. Reads, waits, openings, closings and deaths are unbounded.
* `grants`: a replaced child, its successor and the one after that; two calls in one
  message and a third of another child between a call and its refusal. The lines
  asked for go through a symlink, are quoted, and have a second command.
* `overlap`: a file of any version, one program that knows fewer migrations and two
  that know all; `MCKinds` keeps the order of kinds in `db.ts` (create, rebuild, add
  after the rebuild, clear, create) with runs of one kind made short. Four
  supervisors are two that start beside each other, one that ends beside them, and
  one that comes after. The percentages are one under every band, one
  between the band of 70 and its reset, and one over every band; a report may rise or
  fall over several at once, and one of 85 goes where one of 95 goes. The proof of
  `Triggers` covers all of them. An agent of two rooms, of one, and of none may join
  and leave between any two statements.
* `pane`: two handlers overtake each other, a third adds nothing (a response is
  compared with what is open now). Three messages with two rows to a fetch leave one
  out of the window. `TaskSymmetry` permutes the handlers, which are alike; only
  safety is checked.
* `composer`: the ring of two overflows at a third line; two sends in flight let one
  clear what was typed for the other. Recalling, accepting and dismissing are not
  bounded.
* `approvals`: two requests make a change that is undone between two polls, two
  things on their way overtake each other. Restarts, breaks and fetches are unbounded.
* `terminal`: with pages, views and a lane of one, two messages overflow each of them.

The bounds are constants guarded in single actions: `MaxClock`, `MaxStall`,
`MaxRows` (Tick, InsertClaim); `MaxChildren` (ReplaceChild, HearApprove), `MaxWakes`
(Wake), `MaxApprovals` (BeDenied), `MaxEvents` (Emit), `MaxPosts` (MayPost of `Rooms`,
Ask of `RoomStyle`), `MaxId` (Insert of `DirectMail`, MayPost of `WebPane`),
`MaxGestures` (Gesture), `MaxTyped` (Type, Prefill), `MaxSubmits` (Submit), `MaxRows`
(File of `ApprovalBoard`) and `Slots` (Sends), `MaxCalls` and `MaxTogether` (Call),
`MaxLog` (MayPost of `Terminal`). `Limit`, `Cap` and `LaneSize` are limits of the code,
made small. The named assumptions are evaluated by TLC on each run.
`CHECK_DEADLOCK FALSE` is in `claims`, `handles`, the two supervisor runs, `grants`,
`overlap`, `pane` and `terminal`, where the bounds, the end of every process, or a dead
child end the behaviours. A room can always be read or left, a process can always
read its mail or die, the composer can always be sent, and a server can always be
started again, so `rooms`, `mail`, `composer` and `approvals` check for deadlock.

**Fairness.** Four runs have it, and none of them uses symmetry.

* `supervisor`: weak fairness of `Callback(g)` is the event loop of Node: what a pipe
  holds is delivered. Weak fairness of `BeginTurn` and `EndTurn` says the CLI works on
  what it was given and finishes, which the code relies on everywhere (there is no
  timeout on a turn). Nothing is assumed of operators, of senders, or of usage
  reports. Under these `PendingLeaves` holds: a queued prompt leaves the queue or the
  child is dead.
* `overlap`: weak fairness of `Proceed(p)`: a supervisor that has begun to start or to
  stop makes its next system call or is killed. Nothing is assumed of who starts.
* `composer`: weak fairness of `PressEnter`, which is the hypothesis of
  `EnterGetsThrough` (a reader who goes on pressing it), and of the answers of the
  server.
* `approvals`: strong fairness of `Tick`, an interval that runs for as long as the
  server does, and is cut off each time nobody is connected; weak fairness of each
  thing on its way: it is served, or heard. Servers and connections may break for
  ever.

**What the failing run shows.** *What a replacement drains is dropped.* The ids stay
in `seen`, the second offer answers `duplicate`, and the comment of `replaceChild`
promises otherwise (quoted in `PROJECT.json`).

**What the passing runs leave open.** Many properties say "but for": each exception
stands for a behaviour of the code without which the property would be simpler. These
are the ones a reader of the code may want to decide about:

* *A late renewal makes a second holder.* `renewClaim` judges its row by the time
  the call arrived. A sampled-then-stalled call revives a row that has lapsed,
  beside the rival's. `PromptCallsAreExclusive` shows the stall to be the whole cause.
* *The handle's swap compares the pid only.* A caller that read a dead holder's
  row replaces the row of a new holder with the same pid. `SwapIsOverTheRow`
  shows reuse to be the whole cause.
* *Pruning is a read and a delete.* A process that registers in between runs on
  without its row.
* *Held may be for ever.* Nothing but a usage report releases held messages, and
  a child with nothing to do makes none.
* *Unread does not start at the join.* An invited agent is a member three
  statements before its mark is set; a read of its own in between shows it the
  room's past.
* *A present owner loses its room.* `deleteRoom` judges by reads made before its
  three deletes.
* *A second refusal of one message is not filed* (`UnaskedIsExcused`), and a request
  that cannot be written to the table is only in the log: no one is asked.
* *A stopping supervisor unlinks its successor's file* (`SomeoneIsReachable`).
* *Two overlapping reports warn twice or leave a lower threshold* (`ToldOnce`,
  `FitsAlone`); a report that dies after it set its threshold warns nobody.
* *At 85 and 95 an agent in no room warns nobody* (`RiseIsTold`): the threshold is
  stored before the rooms are read, so that it is not told when it joins one either.
* *A response for a conversation that was left fills the one that is open*, until
  its own arrives (`StrayRowsAreLate`).
* *A send that ends late clears what was typed since* (`TextIsKept`).
* *A request that came and went between two polls, or a lost or overtaken fetch,
  leaves a tab with old cards* until the next change (`StaleIsExcused`).
* *The console marks as read what came after it drew* (`MarksWhatItShows`); the effect
  reads the tables again.
* *Ctrl-S over an old list leaves a custom style without its text*
  (`HalfWrittenOnlyWhenStale`).

## 4. The proofs

| Module | Models |
|---|---|
| `ResourceClaimsProofs` | `ResourceClaims`, `ExclusiveLease` |
| `OverlapProofs` | `HandleClaim`, `WakeSocket`, `ContextGauge`, `Migrations` |
| `SupervisorProofs` | `TurnQueue`, `Supervisor` |
| `RoomsProofs`, `DirectMailProofs`, `ToolGrantsProofs` | the models of those names |
| `WebProofs` | `ApprovalBoard`, `WebComposer`, `WebPane` |
| `TerminalProofs` | `Terminal`, `RoomStyle` |

Together they state every invariant and every action property that a passing run
checks, and the refinement of `ExclusiveLease`. They hold for any number of agents,
resources, processes, pids, handles, messages, supervisors, programs, reports, tools,
rooms, handlers and texts, and assume the named assumptions on the constants. Three
theorems have a hypothesis more, and each says what depends on it:
`TakeoversAreTold` (a call ends before a claim made as it began would lapse: the
default TTL is four hours, and a call a few statements), `PromptCallsAreExclusive` (no
call outlives the instant it sampled) and `SwapIsOverTheRow` (pids are not reused). The
inductive invariants were checked by TLC on the runs' instances before they were proved.

The theorems of induction cannot be used (they take an operator as a parameter), so
where lists matter the argument is about sets of numbers: a set with 0 and the
successor of each member has every number (from the library's theorem that < on the
naturals is well-founded), the place of an element is how many precede it, and n
different places among n are all places. What a page of the newest or the oldest is, and
in which order rows are drawn, follows from that and the library's theorems about
cardinality.

**ResourceClaims.** `SecondHolderOnlyByLateRenewal` is not inductive: an INSERT
looks only at who is live at the caller's sample, a time that may have passed.
`IInv` adds that no row is claimed in the future (`ClaimedInThePast`), that of two
rows nobody released the older one ends before the younger one begins unless it
was revived (`Apart`), and what a call in flight knows (`CallOK`): its sample is
in the past, it points to a row that exists, and it is not older than the rows
its own process made. Each action has its lemma, and
`NextIInv` puts them together. `ReleaseIsFinal` and `ImplementsLease` are action by
action from the same invariant: the insert is an Acquire or, behind a revived
row, a stutter of the map; a tick vacates the set of resources whose newest row
lapses. `TakeoverIsAudible` is about what a call read before its INSERT. A row that was
put in between was sampled at most a stall before it (`InTime`) and lasts a whole TTL
(`LastsItsTtl`), so it is still live and the INSERT is refused: `Knows` says this of
every granted call. That is where the hypothesis is needed: with a stall as long as a
TTL, the row in between can have lapsed, and its holder is not named.

**HandleClaim.** `HoldsItsRow` is not inductive either. `Judged` says that the
incumbent a call has judged dead is no other running process, which the write
needs, and rests on `RowsName` (a row that names a session has that process's
pid while it runs) and `OnePidEach` (running processes have pids of their own).
`LInv`, for `SwapIsOverTheRow`, adds that without reuse a pid names one row
among the table's and those still held by calls (`PidsNameRows`), and that a row
without a pid was there from the start (`NullRowIsOld`), so that an equal pid
means an unchanged row.

**Supervisor.** First the types, and what `OfferAll` does: it is a function of how many
prompts were offered, unfolded once (`OfferAllUnfolds`) and then taken by induction over
that number (`OfferAllInduction`). `OneTurnInFlight` counts, over the stdin of the live
child, its turn in work and the turn-ends it has said, what the queue believes to be in
flight; it is inductive once the types are known. For the order, `Line` is what was
written to children, is about to be and waits, one behind the other. `OrderInv` says
that this line ascends in the order of acceptance, that what the queue has seen is a
beginning of what was accepted, that what is held comes after all of it, and that
nothing is held while the gate is open. The last part is what the proof needed and no
property says: if the gate could be open over a held message, the next one would
overtake it. `DispatchedInOrder` is the line's, and `LostOnlyToReplacement` that what
was seen is in the line or among the drained.

`OnlyWhatWasApproved` does not depend on what the queue holds, so its invariant has only
the events typed, which requests are made from. `Bounded` says that the live child's list
is the base and what was approved, that it contains those of all children before, and
that there were at most as many replacements as approvals whose answer has arrived;
`Rows` that an answer on its way is of a decided row, without which one approval could
replace twice.

**ToolGrants.** A request is filed from what the driver remembers, long after the refusal.
`Tidy` says of every message a child has sent and nobody has heard that it is
`Truthful` (its calls are the child's, and its refusals not on the child's list), that
the driver has `Learned` of every call by the time it hears of the result, and that no
call is answered twice, so none is forgotten while it is needed. `RowOf` says of every
request what it was made from, and that the live child has what was approved and heard.
A message with one refusal is what files a request, unless the insert fails, so of the sequences made of a set
only those of none and of one are needed.

**Rooms.** `NothingSkipped` is about marks, and marks are moved by what calls
carry. `Reading` says what a read carries: all between its since_id and its
floor is consumed, all between the floor and the id it will advance to is in its
hands, and once it may advance, all below its since_id is consumed too.
`Anchoring` says that a join sets the mark no higher than its own announcement.
`Known` bounds every mark and every id in hand by the next message id, so what is
posted meanwhile is above all of them, and deletes only take messages away. A
step is one of three kinds: one that leaves its call at a statement the invariant
does not speak of (`SettledKeeps`), a client about to move its own mark
(`ClientAdvances`), and the few that read or anchor, which have their own lemmas.
For `NothingTwice` and `NothingOlder` the mark must not be too low. `Fresh` says that the
mark of an agent no race has bared, and the floor its read took from it, is not below its
anchor nor below anything it consumed, except between the membership and the mark of its
own join; that it is joined by nobody else meanwhile; and that a read advances to no
less than all it got.

**DirectMail.** `ReadWasShown` is inductive beside the types: only `MarkRead`
takes from `unread`, and what it takes is in its reader's hands. `BellIsHeard` is
not: it speaks of shims that are doing nothing, and a shim may read its inbox
while a wait of its own sleeps. `Heard` leaves out only a wait that is about to
look again; it holds when a wait falls asleep because the look came first, and
when a message is rung for because the write changes the stamp. `SeenThere` (a
stamp once seen goes with the file) carries it over a file that is created again,
`Sleeping` (waits sleep in running processes) over a process that starts. `OneIsAll` needs
`Singles`: what a count of one, in the file or about to be, was counted among. For
`ShownAgainOnlyTogether`, `Shared` says that what two readers hold at once they took
while it was unread, `Marked` that what is handed over, or about to be, is no longer
unread, and `Again` that what a reader holds that was shown another held as well.

**WakeSocket.** `SomeoneIsReachable` speaks of moments when no start is under way.
While some are, `LedOrBound` says that if anyone holds a socket, the path leads to one
who does, or someone is about to bind it; `BindsOverNobody` that the way of that one
is free or already led.

**ContextGauge.** `Triggers` is about the function alone: for every percentage and
every stored threshold, `nextGaugeState` fires the highest band entered, falls only
when the percentage is more than the hysteresis below, and then as far as it
warrants. `Fits` follows for reports that run beside no other: `Lone` and `Overlap`
say which those are and that nobody else writes meanwhile.
`RiseIsTold` and `ToldOnce` rest on what the agent was told so far: without gaps, and
never of a band above the threshold (`Ladder`); a threshold it was not told of has a
report that is about to ask who is to hear of it, or to send (`Pledged`), unless one of
the excuses holds, the want of a room among them; and what a report with none beside it is about
to tell is news (`News`).

**Migrations.** The argument is on versions alone. `Reached` says that a program that
migrates has read or recorded a version that is there, so its next one is either
recorded already, and the key of the table refuses it, or follows the newest, and a
rebuild then finds no later column to lose. The lock is not needed for
`SchemaIsWhole`. For `FailsOnlyBeside`, `Accompanied` adds that whoever opens while
another lives is said to have company, and that only another can have recorded what
a program has not.

**ApprovalBoard.** `ToldIsTrue` follows from `Stands`, which says of each thing on its way
that a recorded answer is the row's decision, and from `Woken`. For `StaleIsExcused`,
`Followed` says that while the stream is up, nothing was missed and the server has
announced what is pending, either a fetch that will bring it is `Coming`, or the tab is
`UpToDate`. The latter has to say more than that the cards are right: no list under way
may undo them, so each is either the same or older than what the tab has, and a
version is what tells the two apart.

**WebComposer.** `ListIsOverTheText` is inductive as it stands. `TextIsKept` rests on the
ring: it is a sequence of lines (`RingInv`), pushing keeps the newest, and browsing
puts the composer's text in the draft before it shows a line and gives it back after.

**WebPane.** `DomIsTheView` needs what `InOrder` lists (by rank, each id once), that what
lies beyond the last row can be appended to it, and that every render is one of
`Rebuilds` and `AppendsTo`. `PaneBase` says of every handler what it `Carries` while it
waits: a page of its target that lacks an id only if it is full of newer ones or the id
was posted later. For `StrayRowsAreLate`, `Moves` sorts all steps by what they do to a
conversation's rows: the page is left, a handler that will draw it is under way, a
response has filled it, or nothing changed. `MarkedWasFetched` follows from what a
handler carries when it marks; `floor` stands for what joins and own posts passed.

**Terminal.** `Tables` and `Forward` say what any write does: rows stay as they were, and
what was read stays read, but for a room that is left, emptied or entered anew. `PrintsOnce`
and `RungIsOnScreen` are inductive from there (`Printed`, `Rung`). For
`MarksWhatItShows`, `Awaits` says that between a render and its effect everything of the
view up to the render is on the screen or was beyond its page, or is gone: others only
add to a conversation or remove it whole. The lemmas about pages (`LackingIsFull`,
`OldestPage`, `RoomsPage`, `NewestLacks`) say of each query that what it leaves out,
it leaves out because its page is full.

**RoomStyle.** `SavesWhereItSays` rests on `EditorFits`: an open editor is for the room
that is open. `HalfWrittenOnlyWhenStale` rests on who may write: a request for a custom
style brings its text (`PostsBringText`), and a row with another style has none
(`NoStrayText`), so only a console that draws an older list can halve one.

**Model-checked only.** Liveness: `PendingLeaves`, `StartsSucceed`, `EnterGetsThrough` and
`CardAppears` need fairness and ENABLED, which are out of the prover's reach; and
`CarriedOver`, which fails. That the specifications say what the code does is, of
course, read and not proved. No module declares a RECURSIVE operator.

## 5. Not modelled, and why

* Rendering, layout, colour, themes, drag and drop, the palette of the page, argument
  parsing of the one-shot commands, line editing of the console, and search hold no
  shared state: each is a view or a query of tables that are modelled.
* Adapters (`adapters/`) write the settings and hooks of another program, and
  `projects.json` is one operator's file: a read-modify-write that overlaps only
  when that operator runs two commands on it at once. Containment of paths is string handling.
* The driver's recognition of event texts is a table of strings against one CLI, of
  which only the pairing of calls and refusals is modelled (`ToolGrants`). The session
  id and `--resume` of a supervised child influence no decision modelled; the failures
  of a first start, and `stop()`, end the process.
* The watch command of `notify/transport.ts` runs in a host outside this program:
  `fs.watch` and what it misses are not modelled, only the bus's own poll. The
  backoff of the interval and the removal of orphaned files are left out.
* The web server's assets, origin checks and login token are left out; its routes are
  in the models of what they read and write.
* Scripts under `scripts/`, the smoke test and the capture of permits among them, drive
  the program from outside; the one that changes the database on its own,
  `prune-test-agents.mjs`, is in `HandleClaim` by the functions it calls.

## 6. Running

    tlc -workers 2 -config claims.cfg MCResourceClaims
    tlc -workers 2 -config handles.cfg MCHandleClaim
    tlc -workers 2 -config supervisor.cfg MCSupervisor
    tlc -workers 2 -config supervisor_carry_over.cfg MCSupervisor
    tlc -workers 2 -config grants.cfg MCToolGrants
    tlc -workers 2 -config rooms.cfg MCRooms
    tlc -workers 2 -config mail.cfg MCDirectMail
    tlc -workers 2 -config overlap.cfg MCOverlap
    tlc -workers 2 -config pane.cfg MCWebPane
    tlc -workers 2 -config composer.cfg MCWebComposer
    tlc -workers 2 -config approvals.cfg MCApprovalBoard
    tlc -workers 2 -config terminal.cfg MCTerminal

    for m in *Proofs.tla; do tlapm $m; done
