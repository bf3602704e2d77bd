----------------------------- MODULE MCTerminal -----------------------------
(***************************************************************************)
(* The console's messages and its rooms' styles.                           *)
(* One peer and two rooms, and messages to the user and to each room while *)
(* another is on view.  With two messages, pages and views of one and one  *)
(* alert in the lane each of them overflows.  The styles share no variable *)
(* with the rest, so one is run while the other is still as it began.      *)
(***************************************************************************)
EXTENDS Terminal, RoomStyle

CONSTANTS me, system, pal, red, blue

MCRoomNames == <<blue, red>>

MCSent ==
  {Message(pal, me, FALSE), Message(pal, blue, FALSE), Message(pal, red, TRUE),
   Message(me, red, FALSE)}

PlainRooms == log = <<>> /\ joined = {} /\ ui = "none" /\ ~bell
PlainStyles == StyleInit /\ \A room \in StyledRooms : row[room].style = "none"

MCInit == Init /\ StyleInit /\ (PlainRooms \/ PlainStyles)

MCNext ==
  \/ PlainStyles /\ Next /\ UNCHANGED styleVars
  \/ PlainRooms /\ StyleNext /\ UNCHANGED vars

MCSpec == MCInit /\ [][MCNext]_<<vars, styleVars>>
=============================================================================
