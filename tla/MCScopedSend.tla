---------------------------- MODULE MCScopedSend ----------------------------
(* The ways in which a command ends, for TLC. *)
EXTENDS ScopedSend

MCAnyEnd == Outcomes

=============================================================================
