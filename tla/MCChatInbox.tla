----------------------------- MODULE MCChatInbox -----------------------------
(* A few messages for TLC.                                                 *)
EXTENDS ChatInbox

MCFaulty == BOOLEAN

=============================================================================
