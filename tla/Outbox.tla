------------------------------- MODULE Outbox -------------------------------
(***************************************************************************)
(* What the Courier promises to its user, as an abstract specification: an *)
(* outbox in which each message stands somewhere, and moves only for a     *)
(* reason. It knows nothing of passes, retries, late acks, prompts, files  *)
(* and restarts. Courier.tla implements it while the file can be written.  *)
(***************************************************************************)
EXTENDS Integers

CONSTANTS
  Messages,     \* the idents, in the order in which they are given out
  MAX_ATTEMPTS  \* the tries that the courier makes before it gives a message up

VARIABLES
  standing,   \* where each message stands
  tries,      \* how often each was tried
  confirmed   \* the messages of which an ack came

vars == <<standing, tries, confirmed>>

\* The messages that the outbox shows, and those of them that are finished.
Shown == {i \in Messages : standing[i] \in {"queued", "delivered", "gave-up"}}
Finished == {i \in Messages : standing[i] \in {"delivered", "gave-up"}}

Init ==
  /\ standing = [i \in Messages |-> "new"]
  /\ tries \in [Messages -> {0}]
  /\ confirmed = {}

\* The user queues a message, under the next ident.
Submit(i) ==
  /\ standing[i] = "new"
  /\ \A j \in Messages : j < i => standing[j] # "new"
  /\ standing' = [standing EXCEPT ![i] = "queued"]
  /\ tries' = [tries EXCEPT ![i] = 0]
  /\ UNCHANGED confirmed

\* The courier tries a message. (It may have been settled since it was chosen.)
Try(i) ==
  /\ i \in Shown
  /\ tries' = [tries EXCEPT ![i] = @ + 1]
  /\ UNCHANGED <<standing, confirmed>>

\* A message gets a verdict, and the history is cut: finished messages may leave.
Settles(i, verdict) ==
  /\ i \in Shown
  /\ \E cut \in SUBSET (Finished \cup {i}) :
       standing' = [j \in Messages |-> IF j \in cut THEN "removed"
                                       ELSE IF j = i THEN verdict ELSE standing[j]]

\* The ack of a message comes, and may settle it.
Acknowledge(i) ==
  /\ confirmed' = confirmed \cup {i}
  /\ Settles(i, "delivered") \/ UNCHANGED standing
  /\ UNCHANGED tries

\* A message that was acked is delivered.
Deliver(i) ==
  /\ i \in confirmed
  /\ Settles(i, "delivered")
  /\ UNCHANGED <<tries, confirmed>>

\* A message whose tries are spent is given up. The code does not exclude a message that was
\* delivered meanwhile.
GiveUp(i) ==
  /\ tries[i] >= MAX_ATTEMPTS
  /\ Settles(i, "gave-up")
  /\ UNCHANGED <<tries, confirmed>>

\* The user deletes a message, or clears the finished ones.
Remove(gone) ==
  /\ gone \subseteq Shown
  /\ standing' = [j \in Messages |-> IF j \in gone THEN "removed" ELSE standing[j]]
  /\ UNCHANGED <<tries, confirmed>>

Next ==
  \/ \E i \in Messages : Submit(i) \/ Try(i) \/ Acknowledge(i) \/ Deliver(i) \/ GiveUp(i)
  \/ \E gone \in SUBSET Messages : Remove(gone)

Spec == Init /\ [][Next]_vars

=============================================================================
