---------------------------- MODULE MCToolGrants ----------------------------
EXTENDS ToolGrants, TLC

CONSTANTS rm, status

Line(spelling) == [lead |-> [of |-> rm, spelling |-> spelling], tail |-> NoPath]

(* A line through a symlink, one that is quoted, one with a second command, *)
(* and a named tool, whose entry like that of a resolved line is itself.    *)
MCAsked ==
  {Line("alias"), Line("quoted")} \cup
  {[Line("alias") EXCEPT !.tail = [of |-> rm, spelling |-> "alias"]],
   [lead |-> [of |-> status, spelling |-> "real"], tail |-> NoPath]}
=============================================================================
