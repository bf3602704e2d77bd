----------------------------- MODULE RoomStyle -----------------------------
(***************************************************************************)
(* The conversation style of a room: two columns of its row, written by an *)
(* agent's set_style, by the web page's selector and editor through        *)
(* /api/rooms/style, and by the console's Ctrl-S, which cycles.  None of   *)
(* them rings anybody, so the page and the console go by what they last    *)
(* read.  A style is its name and its markdown is a model value; that a    *)
(* room has to exist, and the caller of the web route to be a member, is   *)
(* that a request may be refused.                                          *)
(***************************************************************************)
EXTENDS FiniteSets, Naturals

CONSTANTS
  StyledRooms, \* the rooms
  Dm,          \* a conversation of the page that is no room
  Markdowns,   \* what is written as a custom style
  NoMarkdown,  \* NULL, or nothing but spaces
  MaxPosts     \* bound on the page's requests in flight

ASSUME StyleAssumption ==
  Dm \notin StyledRooms /\ NoMarkdown \notin Markdowns /\ MaxPosts \in Nat

VARIABLES
  row,    \* rooms.style and rooms.style_custom
  drawn,  \* the style of each room in the console's list
  target, \* the conversation the page has open
  editor, \* the page's style editor
  posts   \* requests of the page that were not answered yet

styleVars == <<row, drawn, target, editor, posts>>

(* A preset that was removed from the code since it was stored. *)
Presets == {"succinct"}
Styles == Presets \cup {"none", "custom", "retired"}
Row == [style: Styles, custom: Markdowns \cup {NoMarkdown}]

(* label: the room the editor named when Save was pressed. *)
StylePost == [room: StyledRooms \cup {Dm}, style: Styles,
              custom: Markdowns \cup {NoMarkdown}, label: StyledRooms \cup {Dm},
              answer: {"none", "ok", "error"}]

StyleTypeOK ==
  /\ row \in [StyledRooms -> Row]
  /\ drawn \in [StyledRooms -> Styles]
  /\ target \in StyledRooms \cup {Dm}
  /\ editor \in [open: BOOLEAN, room: StyledRooms \cup {Dm},
                 markdown: Markdowns \cup {NoMarkdown}]
  /\ posts \subseteq StylePost /\ Cardinality(posts) <= MaxPosts

-----------------------------------------------------------------------------
(* storage/dao.ts *)

(* Mutant of SetRoomStyle: the markdown outlives the style it was for. *)
KeepCustom(room, style, custom) ==
  row' = [row EXCEPT ![room] =
            [style |-> style, custom |-> IF style = "custom" THEN custom ELSE @.custom]]

SetRoomStyle(room, style, custom) ==
  row' = [row EXCEPT ![room] =
            [style |-> style, custom |-> IF style = "custom" THEN custom ELSE NoMarkdown]]

AssertStyleName(style) == style \in Presets \cup {"custom"}
AssertStyleCustom(style, custom) == style = "custom" => custom # NoMarkdown
HasCustomStyle(room) == row[room].custom # NoMarkdown

(* resolveStyle: whether there is a text for an agent that reads the room. *)
Resolves(room) ==
  \/ row[room].style \in Presets
  \/ row[room].style = "custom" /\ HasCustomStyle(room)

NextStyle(style, hasCustom) ==
  CASE style = "none" -> "succinct"
    [] style = "succinct" /\ hasCustom -> "custom"
    [] OTHER -> "none"

-----------------------------------------------------------------------------
(* The agents and the console *)

(* The tool asks for no membership. *)
SetStyle(room, style, custom) ==
  /\ style # "none" => AssertStyleName(style) /\ AssertStyleCustom(style, custom)
  /\ SetRoomStyle(room, style, custom)
  /\ UNCHANGED <<drawn, target, editor, posts>>

(* Ctrl-S goes on from the style that is drawn, passes no markdown, and    *)
(* has the list read again.                                                *)
Cycle(room) ==
  /\ SetRoomStyle(room, NextStyle(drawn[room], HasCustomStyle(room)), NoMarkdown)
  /\ drawn' = [r \in StyledRooms |-> row'[r].style]
  /\ UNCHANGED <<target, editor, posts>>

(* Something else has the console read its list. *)
Redraw ==
  /\ drawn' = [r \in StyledRooms |-> row[r].style]
  /\ UNCHANGED <<row, target, editor, posts>>

-----------------------------------------------------------------------------
(* The page *)

Shut == [open |-> FALSE, room |-> Dm, markdown |-> NoMarkdown]

(* Mutant of Header: the editor stays open over another room. *)
HeaderLeavesEditor(t) == editor

(* renderPaneHeader shuts an editor that is for another room than the one  *)
(* on view; over a direct conversation it stays.                           *)
Header(t) == IF t \in StyledRooms /\ editor.room # t THEN Shut ELSE editor

SelectTarget(t) ==
  /\ target' = t
  /\ editor' = Header(t)
  /\ UNCHANGED <<row, drawn, posts>>

(* The selector's custom, or the button beside a style that is custom;     *)
(* both take the room that is on view, and the markdown its row had when   *)
(* the page last fetched it, which may be any.                             *)
OpenStyleEditor(markdown) ==
  /\ target \in StyledRooms
  /\ editor' = [open |-> TRUE, room |-> target, markdown |-> markdown]
  /\ UNCHANGED <<row, drawn, target, posts>>

Edit(markdown) ==
  /\ editor.open
  /\ editor' = [editor EXCEPT !.markdown = markdown]
  /\ UNCHANGED <<row, drawn, target, posts>>

Cancel ==
  /\ editor.open /\ editor' = Shut
  /\ UNCHANGED <<row, drawn, target, posts>>

Ask(style, custom, label) ==
  /\ Cardinality(posts) < MaxPosts
  /\ posts' = posts \cup {[room |-> target, style |-> style, custom |-> custom,
                           label |-> label, answer |-> "none"]}

(* Save sends the conversation that is on view, not the editor's label. *)
Save ==
  /\ editor.open /\ editor.markdown # NoMarkdown
  /\ Ask("custom", editor.markdown, editor.room)
  /\ UNCHANGED <<row, drawn, target, editor>>

PickPreset(style) ==
  /\ target \in StyledRooms /\ style \in Presets \cup {"none"}
  /\ editor' = Shut
  /\ Ask(style, NoMarkdown, target)
  /\ UNCHANGED <<row, drawn, target>>

Answered(post, answer) == posts' = (posts \ {post}) \cup {[post EXCEPT !.answer = answer]}

HandleRoomStyle(post) ==
  /\ post.answer = "none"
  /\ \/ /\ post.room \in StyledRooms
        /\ SetRoomStyle(post.room, post.style, post.custom)
        /\ Answered(post, "ok")
     \/ UNCHANGED row /\ Answered(post, "error")
  /\ UNCHANGED <<drawn, target, editor>>

(* A save that went through shuts the editor, whichever is open by then. *)
Hear(post) ==
  /\ post.answer # "none"
  /\ posts' = posts \ {post}
  /\ editor' = IF post.answer = "ok" /\ post.style = "custom" THEN Shut ELSE editor
  /\ UNCHANGED <<row, drawn, target>>

-----------------------------------------------------------------------------
StyleInit ==
  /\ row \in [StyledRooms -> {[style |-> s, custom |-> NoMarkdown] : s \in {"none", "retired"}}]
  /\ drawn = [r \in StyledRooms |-> row[r].style]
  /\ target = Dm /\ editor = Shut /\ posts = {}

StyleNext ==
  \/ \E room \in StyledRooms, style \in Styles \ {"retired"}, custom \in Markdowns \cup {NoMarkdown} :
       SetStyle(room, style, custom)
  \/ \E room \in StyledRooms : Cycle(room)
  \/ \E t \in StyledRooms \cup {Dm} : SelectTarget(t)
  \/ \E markdown \in Markdowns \cup {NoMarkdown} :
       OpenStyleEditor(markdown) \/ Edit(markdown)
  \/ \E style \in Styles : PickPreset(style)
  \/ \E post \in posts : HandleRoomStyle(post) \/ Hear(post)
  \/ Redraw \/ Cancel \/ Save

StyleSpec == StyleInit /\ [][StyleNext]_styleVars

-----------------------------------------------------------------------------
(* Properties *)

(* What is written in the editor for one room is never sent for another,   *)
(* though Save takes the room from the page and not from the editor: every *)
(* way to another room shuts the editor or names a room that does not      *)
(* exist (app.js:970, 1783-1797).                                          *)
SavesWhereItSays ==
  \A post \in posts : post.room \in StyledRooms => post.room = post.label

(* A style that says nothing. *)
HalfWritten(room) == row[room].style \in Presets \cup {"custom"} /\ ~Resolves(room)

(* A room gets a style without a text, which is pushed to nobody, only     *)
(* from a console that draws an old style: its key goes on from what is    *)
(* drawn and asks the row whether it has markdown (RoomsBrowserPane.tsx:   *)
(* 42-47, dao.ts:1254-1262).                                               *)
HalfWrittenOnlyWhenStale ==
  [][\A room \in StyledRooms :
       HalfWritten(room)' /\ ~HalfWritten(room) => drawn[room] # row[room].style]_styleVars
=============================================================================
