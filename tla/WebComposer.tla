----------------------------- MODULE WebComposer -----------------------------
(***************************************************************************)
(* The composer of the web page: what is typed, the completion list over   *)
(* it, the lines sent before and the submits under way (web/assets/app.js  *)
(* and the decisions it takes from logic.js).                              *)
(*                                                                         *)
(* A value of the composer is its last token and what that token is: a     *)
(* command's name, its argument, a #name, an @path or plain text.  A stem  *)
(* is as much of a name as has been typed.  Every handler runs to its first*)
(* await in one step; a listing of files and a submit end in another.      *)
(***************************************************************************)
EXTENDS Integers, SequencesExt

CONSTANTS
  Commands,    \* the command table, in its order
  Takes,       \* the commands that take a name and suggest one
  Instant,     \* the commands that reach no server
  Names,       \* rooms and peers, in the order they are offered
  RoomNames,   \* those of them that carry a # of their own
  Paths,       \* files and directories
  Directories, \* those of them that are directories
  Lines,       \* texts without a token
  Nothing,     \* the stem before anything is typed of a name
  Completes,   \* the names each stem is the beginning of
  Cap,         \* HISTORY_CAP
  MaxTyped,    \* the bound on what the reader types
  MaxSubmits   \* the bound on the submits under way

Stems == DOMAIN Completes

ASSUME TokensAssumption ==
  /\ Commands \in Seq(Stems) /\ Takes \subseteq Range(Commands)
  /\ Instant \subseteq Range(Commands) \ Takes
  /\ Names \in Seq(Stems) /\ RoomNames \subseteq Range(Names)
  /\ Paths \in Seq(Stems) /\ Directories \subseteq Range(Paths)
  /\ Nothing \in Stems
ASSUME BoundsAssumption == Cap \in Nat \ {0} /\ {MaxTyped, MaxSubmits} \subseteq Nat \ {0}

VARIABLES
  value,    \* what the composer holds
  suggest,  \* state.suggest: the list and the value it was made for
  asked,    \* the listings asked for and not answered
  hintSeq,  \* the newest of them
  history,  \* state.history
  submits,  \* the submits under way, a bag: Enter twice sends twice
  typed     \* how much was typed so far

composerVars == <<value, suggest, asked, hintSeq, history, submits, typed>>

-----------------------------------------------------------------------------
(* Values and the lists over them *)

Value(form, cmd, stem) == [form |-> form, cmd |-> cmd, stem |-> stem]

Empty == Value("empty", Nothing, Nothing)
Text(x) == Value("text", Nothing, x)
Command(stem) == Value("command", Nothing, stem)
Argument(cmd, stem) == Value("argument", cmd, stem)
(* What mentionTokenAt and atTokenAt find under the caret: a text that ends *)
(* in "#" or "@" and a stem, and is no command.                            *)
Mention(stem) == Value("mention", Nothing, stem)
Path(stem) == Value("path", Nothing, stem)
Prefilled(cmd, name) == Value("prefilled", cmd, name)  \* a command, its argument and a space

(* The line without its last blanks, which is what is sent and recalled. *)
Trimmed(v) ==
  CASE v.form = "prefilled" -> Argument(v.cmd, v.stem)
    [] v.form = "argument" /\ v.stem = Nothing -> Command(v.cmd)
    [] OTHER -> v

Pool(v) == CASE v.form = "command" -> Commands
             [] v.form = "path" -> Paths
             [] v.form \in {"argument", "mention"} -> Names
             [] OTHER -> <<>>

(* What accepting a name puts in the composer. *)
Inserted(v, name) ==
  CASE v.form = "command" -> IF name \in Takes THEN Argument(name, Nothing) ELSE Command(name)
    [] v.form = "argument" -> Argument(v.cmd, name)
    [] v.form = "path" -> IF name \in Directories THEN Path(name) ELSE Text(name)
    [] OTHER -> Text(name)

Reopens(v, name) ==
  \/ v.form = "command" /\ name \in Takes
  \/ v.form = "path" /\ name \in Directories
  \/ v.form = "mention"

NoList == [over |-> Empty, names |-> <<>>, index |-> 0]

ListOver(v) ==
  LET names == SelectSeq(Pool(v), LAMBDA n : n \in Completes[v.stem])
  IN IF names = <<>> THEN NoList ELSE [over |-> v, names |-> names, index |-> 1]

Open == suggest # NoList
Active == suggest.names[suggest.index]

(* Nothing is left to complete.  A mention compares what was typed with the*)
(* name, and a peer's has no # to match the one that was typed.            *)
EnterShouldSend ==
  IF suggest.over.form = "mention"
    THEN Active \in RoomNames /\ suggest.over.stem = Active
    ELSE Inserted(suggest.over, Active) = value

MoveIndex(index, delta, length) == ((index - 1 + delta + length) % length) + 1

-----------------------------------------------------------------------------
(* The ring of lines sent before; index 0 is null *)

Ring == [entries |-> <<>>, index |-> 0, draft |-> Empty]

PushHistory(entries, line) ==
  LET next == IF entries # <<>> /\ Last(entries) = line THEN entries ELSE Append(entries, line)
  IN IF Len(next) > Cap THEN SubSeq(next, Len(next) - Cap + 1, Len(next)) ELSE next

LeaveHistory == [history EXCEPT !.index = 0, !.draft = Empty]

StepOlderDraftless(h, text) ==
  LET index == IF h.index = 0 THEN Len(h.entries) ELSE h.index - 1
  IN [value |-> h.entries[index], history |-> [h EXCEPT !.index = index]]

(* The first step saves what the composer holds. *)
StepOlder(h, text) ==
  LET index == IF h.index = 0 THEN Len(h.entries) ELSE h.index - 1
  IN [value |-> h.entries[index],
      history |-> [h EXCEPT !.index = index,
                            !.draft = IF h.index = 0 THEN text ELSE @]]

(* Past the newest line is the draft. *)
StepNewer(h) ==
  IF h.index = Len(h.entries)
    THEN [value |-> h.draft, history |-> [h EXCEPT !.index = 0, !.draft = Empty]]
    ELSE [value |-> h.entries[h.index + 1], history |-> [h EXCEPT !.index = @ + 1]]

-----------------------------------------------------------------------------
(* Typing *)

(* updateSuggest.  A listing of files is asked for, and the list that is   *)
(* open meanwhile stays as it is.                                          *)
UpdateSuggest(v) ==
  IF v.form = "path"
    THEN /\ hintSeq' = hintSeq + 1
         /\ asked' = asked \cup {[seq |-> hintSeq + 1, over |-> v]}
         /\ UNCHANGED suggest
    ELSE suggest' = ListOver(v) /\ UNCHANGED <<hintSeq, asked>>

(* The input handler: a keystroke, or the menu's prefillComposer, which    *)
(* raises the same event.                                                  *)
Enters(v) ==
  /\ value' = v
  /\ history' = LeaveHistory
  /\ UpdateSuggest(v)
  /\ UNCHANGED submits

Typable ==
  {Text(x) : x \in Lines} \cup {Command(s) : s \in Stems} \cup
  {Mention(s) : s \in Stems} \cup {Path(s) : s \in Stems} \cup
  {Argument(c, s) : c \in Takes, s \in Stems}

Type(v) == typed < MaxTyped /\ typed' = typed + 1 /\ v # value /\ Enters(v)

Prefill(c) ==
  /\ typed < MaxTyped /\ typed' = typed + 1
  /\ \E n \in Range(Names) : Enters(Prefilled(c, n))

LandsAlways(q) == q.seq = hintSeq

(* A reply lands only if it is the newest and the value is still the one it*)
(* was asked for.                                                          *)
Lands(q) == q.seq = hintSeq /\ value = q.over

(* requestHints goes on; a listing that failed is empty. *)
HintsArrive(q) ==
  /\ q \in asked
  /\ asked' = asked \ {q}
  /\ suggest' \in IF Lands(q) THEN {ListOver(q.over), NoList} ELSE {suggest}
  /\ UNCHANGED <<value, hintSeq, history, submits, typed>>

-----------------------------------------------------------------------------
(* Keys *)

(* acceptSuggestion: the list closes, and a name that wants more reopens it*)
(* over the new value, which for a directory takes a listing.              *)
Accept(i) ==
  LET name == suggest.names[i]
      v == Inserted(suggest.over, name) IN
  /\ value' = v
  /\ IF Reopens(suggest.over, name) /\ v.form = "path"
       THEN /\ hintSeq' = hintSeq + 1
            /\ asked' = asked \cup {[seq |-> hintSeq + 1, over |-> v]}
            /\ suggest' = NoList
       ELSE /\ suggest' = IF Reopens(suggest.over, name) THEN ListOver(v) ELSE NoList
            /\ UNCHANGED <<hintSeq, asked>>
  /\ UNCHANGED <<history, submits, typed>>

(* mousedown on a row of the list *)
Pick(i) == Open /\ Accept(i)

Slash(v) == v.form \in {"command", "argument"}

(* The commands that wait for the server; an argument may still be refused *)
(* before that.                                                            *)
Awaits(v) == \/ v.form = "command" /\ v.stem \in Range(Commands) \ (Takes \cup Instant)
             \/ v.form = "argument"

(* The submit handler, up to its first await: the line joins the ring, and *)
(* then it is done on the spot and cleared, or is under way, or has no     *)
(* target and stays.                                                       *)
Submit ==
  /\ suggest' = NoList
  /\ IF value = Empty
       THEN UNCHANGED <<value, history, submits>>
       ELSE LET line == Trimmed(value) IN
            /\ history' = [LeaveHistory EXCEPT !.entries = PushHistory(@, line)]
            /\ \/ Slash(line) /\ value' = Empty /\ UNCHANGED submits
               \/ /\ Slash(line) => Awaits(line)
                  /\ BagCardinality(submits) < MaxSubmits
                  /\ submits' = submits (+) SetToBag({line})
                  /\ UNCHANGED value
               \/ ~Slash(line) /\ UNCHANGED <<value, submits>>
  /\ UNCHANGED <<asked, hintSeq, typed>>

PressEnterReaccepts ==
  IF ~Open THEN Submit
  ELSE LET v == Inserted(suggest.over, Active) IN
       /\ value' = v /\ suggest' = ListOver(v)
       /\ UNCHANGED <<hintSeq, asked, history, submits, typed>>

PressEnter == IF Open /\ ~EnterShouldSend THEN Accept(suggest.index) ELSE Submit

PressTab ==
  /\ Open
  /\ IF EnterShouldSend
       THEN suggest' = NoList /\ UNCHANGED <<value, asked, hintSeq, history, submits, typed>>
       ELSE Accept(suggest.index)

(* The submit goes on: the composer is cleared, whatever it holds by now,  *)
(* unless the send failed.                                                 *)
Settle(line) ==
  /\ BagIn(line, submits)
  /\ submits' = submits (-) SetToBag({line})
  /\ value' \in {Empty, value}
  /\ UNCHANGED <<suggest, asked, hintSeq, history, typed>>

Browse(step) ==
  /\ value' = step.value
  /\ history' = step.history
  /\ UNCHANGED <<suggest, asked, hintSeq, submits, typed>>

MoveSuggest(delta) ==
  /\ suggest' = [suggest EXCEPT !.index = MoveIndex(@, delta, Len(suggest.names))]
  /\ UNCHANGED <<value, asked, hintSeq, history, submits, typed>>

(* The arrows belong to the list while it is open. *)
ArrowUp ==
  \/ ~Open /\ history.entries # <<>> /\ history.index # 1 /\ Browse(StepOlder(history, value))
  \/ Open /\ MoveSuggest(-1)

ArrowDown ==
  \/ ~Open /\ history.index # 0 /\ Browse(StepNewer(history))
  \/ Open /\ MoveSuggest(1)

Closes == Open /\ suggest' = NoList /\ UNCHANGED <<value, asked, hintSeq, submits, typed>>

Escape == Closes /\ history' = LeaveHistory

(* blur, and the keys that move the caret *)
LoseFocus == Closes /\ UNCHANGED history

-----------------------------------------------------------------------------

ComposerInit ==
  /\ value = Empty /\ suggest = NoList
  /\ asked = {} /\ hintSeq = 0
  /\ history = Ring /\ submits = EmptyBag /\ typed = 0

ComposerNext ==
  \/ \E v \in Typable : Type(v)
  \/ \E c \in Takes : Prefill(c)
  \/ \E q \in asked : HintsArrive(q)
  \/ \E i \in DOMAIN suggest.names : Pick(i)
  \/ PressEnter \/ PressTab \/ Escape \/ LoseFocus
  \/ ArrowUp \/ ArrowDown
  \/ \E line \in BagToSet(submits) : Settle(line)

(* The reader keeps pressing Enter, and the server answers what it is asked*)
ComposerFairness ==
  /\ WF_composerVars(PressEnter)
  /\ WF_composerVars(\E q \in asked : HintsArrive(q))
  /\ WF_composerVars(\E line \in BagToSet(submits) : Settle(line))

ComposerSpec == ComposerInit /\ [][ComposerNext]_composerVars /\ ComposerFairness

-----------------------------------------------------------------------------
(* Properties *)

(* The type invariant: an open list has an active row, the ring keeps its  *)
(* cap and only while it is browsed a draft.                               *)
ComposerTypeOK ==
  /\ value.form \in {"empty", "text", "command", "argument", "prefilled", "mention", "path"}
  /\ Open => suggest.index \in DOMAIN suggest.names
  /\ \A q \in asked : q.seq \in 1..hintSeq
  /\ Len(history.entries) <= Cap
  /\ history.index \in 0..Len(history.entries)
  /\ history.index = 0 => history.draft = Empty
  /\ Empty \notin BagToSet(submits) \cup Range(history.entries)
  /\ BagCardinality(submits) <= MaxSubmits
  /\ typed \in 0..MaxTyped

(* What an open list offers is meant for the value it is over: accepting   *)
(* replaces the composer by the row's insert.  It may be for another value *)
(* only while the listing for this one is on its way, or when a submit that*)
(* ended late cleared the composer under it.                               *)
ListIsOverTheText ==
  Open => \/ suggest.over = value
          \/ \E q \in asked : q.seq = hintSeq /\ q.over = value
          \/ value = Empty

(* The lines a step drops: neither in the composer after it nor in the ring*)
(* or its draft.                                                           *)
Lost == {v \in {value, history.draft} \ {Empty} :
           {v, Trimmed(v)} \cap ({value', history'.draft} \cup Range(history'.entries)) = {}}

(* A line is not lost between the composer, the ring and its draft: what a *)
(* step drops was typed over, replaced by accepting or dismissing a list,  *)
(* cleared by a submit that ended, was the draft behind a recalled line    *)
(* that was sent, or a recalled line a late list completed.                *)
TextIsKept ==
  [][Lost # {} =>
       \/ typed' # typed
       \/ Open
       \/ \E line \in BagToSet(submits) : submits' = submits (-) SetToBag({line})
       \/ Lost = {value} /\ history.index # 0
       \/ /\ Lost = {history.draft} /\ history.index # 0
          /\ Trimmed(value) \in Range(history'.entries)]_composerVars

(* Enter never gets stuck in the list: a reader who goes on pressing it    *)
(* gets the line sent (or finds it cleared), whatever was completed on the *)
(* way.                                                                    *)
EnterGetsThrough ==
  value # Empty ~> (value = Empty \/ Trimmed(value) \in Range(history.entries))
=============================================================================
