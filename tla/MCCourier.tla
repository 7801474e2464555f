------------------------------ MODULE MCCourier ------------------------------
(* Small outboxes for TLC.                                                 *)
EXTENDS Courier

MCPlain == {Unscheduled}
MCBoth == {Unscheduled, 1}
MCSaved == {TRUE}
MCFaulty == BOOLEAN

=============================================================================
