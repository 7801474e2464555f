--------------------------- MODULE MCCourierStore ---------------------------
(* A small outbox for TLC: every legal sequence of store calls.            *)
EXTENDS CourierStore

MCDelays == {Unscheduled}

\* bound: one entry of a behaviour has a counted try or the other body; the rest only
\* come, settle and leave.
MCOneTouched ==
  \E i \in Idents : \A j \in Idents \ {i} :
    entries[j].attempts = 0 /\ entries[j].text = CHOOSE x \in Texts : TRUE

=============================================================================
