------------------------------ MODULE MCAdverts ------------------------------
(* The values that Adverts.cfg gives to the constants of Adverts, and its     *)
(* bound on the state.                                                        *)
EXTENDS Adverts

MCFaulty == BOOLEAN

\* Adverts by hand are sent from one of the two nodes.
MCByHandFromOne == send["user"].node # "m"
=============================================================================
