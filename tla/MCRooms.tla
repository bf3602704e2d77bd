------------------------------ MODULE MCRooms ------------------------------
(* The instance of Rooms: an agent and a human at a terminal. *)
EXTENDS Rooms

CONSTANTS a, b

Everything ==
  [h \in {a, b} |->
     IF h = a THEN {"join", "leave", "boot", "delete", "send", "inbox", "crash"}
     ELSE {"join", "invite", "boot", "kick", "delete", "mark", "clear", "send"}]
=============================================================================
