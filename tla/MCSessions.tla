------------------------------- MODULE MCSessions -------------------------------
(***************************************************************************)
(* Two conversations, a third that may be made, one ticket whose origin is *)
(* recorded.                                                               *)
(***************************************************************************)
EXTENDS SessionProperties

CONSTANT ticket
=============================================================================
