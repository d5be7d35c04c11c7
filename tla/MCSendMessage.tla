--------------------------- MODULE MCSendMessage ---------------------------
(* A small instance of SendMessage for TLC. *)
EXTENDS SendMessage
CONSTANTS r1, r2, r3, l1, l2
=============================================================================
