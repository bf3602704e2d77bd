--------------------------- MODULE MCApprovalBoard ---------------------------
(* The instance of ApprovalBoard: two requests, two things on their way. *)
EXTENDS ApprovalBoard, TLC
=============================================================================
