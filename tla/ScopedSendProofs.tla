-------------------------- MODULE ScopedSendProofs --------------------------
(***************************************************************************)
(* Proofs about a channel message in a scope.                              *)
(*                                                                         *)
(* Turns says who is where: only the holder of the lock is inside, and the *)
(* window is its own. What MeshTerm knows of the session scope             *)
(* (ScopeIsRestored) rests on it. Neither needs anything of how the        *)
(* commands end.                                                           *)
(***************************************************************************)
EXTENDS ScopedSend, TLAPS

USE ScopeAssumption

-----------------------------------------------------------------------------
(* How a command ends.                                                     *)

LEMMA OutcomeLemma ==
  ASSUME NEW outcome \in Outcomes
  PROVE  /\ outcome.done \in BOOLEAN
         /\ outcome.reply \in {"ok", "RuntimeError", "cancelled"}
         /\ Error(outcome) \in {"none", "RuntimeError", "cancelled"}
         /\ Named(Error(outcome)) = Error(outcome)
         /\ outcome.reply = "ok" => outcome.done
<1>1. /\ outcome.done \in BOOLEAN
      /\ outcome.reply \in {"ok", "RuntimeError", "cancelled"}
      /\ outcome.reply = "ok" => outcome.done
  <2>1. outcome = Obeyed \/ outcome = Refused \/ outcome = Unanswered
          \/ outcome = CutOff \/ outcome = CutShort
    BY DEF Outcomes
  <2>2. outcome.done = TRUE \/ outcome.done = FALSE
    BY <2>1 DEF Obeyed, Refused, Unanswered, CutOff, CutShort
  <2>3. outcome.reply \in {"ok", "RuntimeError", "cancelled"}
    BY <2>1 DEF Obeyed, Refused, Unanswered, CutOff, CutShort
  <2>4. outcome.reply = "ok" => outcome.done
    BY <2>1 DEF Obeyed, Refused, Unanswered, CutOff, CutShort
  <2> QED BY <2>2, <2>3, <2>4
<1>2. Error(outcome) \in {"none", "RuntimeError", "cancelled"}
  BY <1>1 DEF Error
<1> QED BY <1>1, <1>2 DEF Named

-----------------------------------------------------------------------------
(* The invariant.                                                          *)

Turns ==
  /\ \A t \in Senders : Inside(t) => owner = t
  /\ active => /\ owner \in Senders
               /\ ask[owner] \in Regions
               /\ pc[owner] = "entered"
               /\ session = ask[owner]
  /\ \A t \in Senders : pc[t] = "restoring" => ask[t] \in Regions
  /\ \A t \in Senders : (Inside(t) /\ ask[t] \in Regions /\ depth = 2) => active
  /\ \A t \in Senders : pc[t] = "repairing" => leaked # Default /\ ~active
  /\ \A t \in Senders : (pc[t] = "entered" /\ ~active /\ leaked # Default) => tried

Inv == TypeOK /\ Turns

Places == {"idle", "queued", "repairing", "entered", "restoring"}

LEMMA DoneKeepsType ==
  ASSUME TypeOK, NEW t \in Senders,
         NEW error \in {"none", "RuntimeError", "cancelled"}, Done(t, error)
  PROVE  /\ owner' = Nobody
         /\ depth' = 0
         /\ pc' \in [Senders -> Places]
         /\ pc'[t] = "idle"
         /\ \A s \in Senders \ {t} : pc'[s] = pc[s]
         /\ raised' \in [Senders -> {"none", "RuntimeError", "cancelled"}]
BY DEF TypeOK, Done, Places

\* Inside the lock there is one task: when it has left, no task is inside.
LEMMA AloneInside ==
  ASSUME Inv, NEW t \in Senders, Inside(t)
  PROVE  /\ owner = t
         /\ \A s \in Senders \ {t} : ~Inside(s)
BY DEF Inv, Turns

\* What a step that changes the session scope does to the record of the lost ones.
LEMMA LosesLemma ==
  ASSUME lost \in BOOLEAN, NEW unseen \in BOOLEAN, Loses(unseen)
  PROVE  /\ lost' \in BOOLEAN
         /\ session' # Default /\ (lost \/ unseen) => lost'
BY Zenon DEF Loses

LEMMA AskKeeps ==
  ASSUME Inv, NEW t \in Senders, NEW a \in Asks, Ask(t, a) PROVE Inv'
<1>1. TypeOK'
  BY DEF Ask, Inv, TypeOK
<1>2. Turns'
  BY DEF Ask, Inv, TypeOK, Turns, Inside
<1> QED BY <1>1, <1>2 DEF Inv

LEMMA AcquireKeeps == ASSUME Inv, NEW t \in Senders, Acquire(t) PROVE Inv'
<1>1. TypeOK'
  <2>1. waiters' \in Seq(Senders)
    BY DEF Acquire, Inv, TypeOK
  <2>2. pc' \in [Senders -> Places]
    BY DEF Acquire, Entered, Inv, TypeOK, Places
  <2> QED BY <2>1, <2>2 DEF Acquire, Inv, TypeOK, Places
<1>2. ~active /\ \A s \in Senders : ~Inside(s)
  BY DEF Acquire, Inv, Turns
<1>3. Turns'
  BY <1>2 DEF Acquire, Entered, Inv, TypeOK, Turns, Inside
<1> QED BY <1>1, <1>3 DEF Inv

LEMMA ReenterKeeps == ASSUME Inv, NEW t \in Senders, Reenter(t) PROVE Inv'
<1>1. TypeOK'
  BY DEF Reenter, Entered, Inv, TypeOK
<1>2. owner = t /\ \A s \in Senders \ {t} : ~Inside(s)
  BY AloneInside DEF Reenter, Inside
<1>3. Turns'
  BY <1>2 DEF Reenter, Entered, Inv, TypeOK, Turns, Inside
<1> QED BY <1>1, <1>3 DEF Inv

LEMMA CancelWaitingKeeps == ASSUME Inv, NEW t \in Senders, CancelWaiting(t) PROVE Inv'
<1>1. TypeOK'
  BY DEF CancelWaiting, RemoveAt, Inv, TypeOK
<1>2. Turns'
  BY DEF CancelWaiting, Inv, TypeOK, Turns, Inside
<1> QED BY <1>1, <1>2 DEF Inv

LEMMA RepairKeeps ==
  ASSUME Inv, NEW t \in Senders, NEW outcome \in ClearOutcomes, Repair(t, outcome)
  PROVE  Inv'
<1>0. lost' \in BOOLEAN
  BY LosesLemma DEF Repair, Inv, TypeOK
<1>1. owner = t /\ ~active /\ \A s \in Senders \ {t} : ~Inside(s)
  BY AloneInside DEF Repair, Inside, Inv, Turns
<1>2. CASE outcome.reply = "cancelled"
  <2>1. TypeOK'
    BY <1>0, <1>2, DoneKeepsType DEF Repair, Inv, TypeOK, Places
  <2>2. Turns'
    BY <1>1, <1>2, DoneKeepsType DEF Repair, Inv, TypeOK, Turns, Inside
  <2> QED BY <2>1, <2>2 DEF Inv
<1>3. CASE outcome.reply # "cancelled"
  <2>1. TypeOK'
    BY <1>0, <1>3 DEF Repair, Inv, TypeOK
  <2>2. Turns'
    BY <1>1, <1>3 DEF Repair, Inv, TypeOK, Turns, Inside
  <2> QED BY <2>1, <2>2 DEF Inv
<1> QED BY <1>2, <1>3

LEMMA SetScopeKeeps ==
  ASSUME Inv, NEW t \in Senders, NEW outcome \in SetOutcomes, SetScope(t, outcome)
  PROVE  Inv'
<1>0. lost' \in BOOLEAN
  <2>1. (outcome.done /\ outcome.reply # "ok") \in BOOLEAN
    OBVIOUS
  <2> QED BY <2>1, LosesLemma DEF SetScope, Inv, TypeOK
<1>1. owner = t /\ ~active /\ \A s \in Senders \ {t} : ~Inside(s)
  BY AloneInside DEF SetScope, Inside
<1>2. CASE outcome.reply = "ok"
  <2>1. outcome.done
    BY <1>2, OutcomeLemma
  <2>2. TypeOK'
    BY <1>0, <1>2 DEF SetScope, Inv, TypeOK
  <2>3. Turns'
    BY <1>1, <1>2, <2>1 DEF SetScope, Inv, TypeOK, Turns, Inside
  <2> QED BY <2>2, <2>3 DEF Inv
<1>3. CASE outcome.reply # "ok"
  <2>1. Named(Error(outcome)) \in {"none", "RuntimeError", "cancelled"}
    BY OutcomeLemma
  <2>2. TypeOK'
    BY <1>0, <1>3, <2>1, DoneKeepsType DEF SetScope, Inv, TypeOK, Places
  <2>3. Turns'
    BY <1>1, <1>3, <2>1, DoneKeepsType DEF SetScope, Inv, TypeOK, Turns, Inside
  <2> QED BY <2>2, <2>3 DEF Inv
<1> QED BY <1>2, <1>3

LEMMA SendKeeps ==
  ASSUME Inv, NEW t \in Senders, NEW outcome \in SendOutcomes, Send(t, outcome)
  PROVE  Inv'
<1>1. owner = t /\ \A s \in Senders \ {t} : ~Inside(s)
  BY AloneInside DEF Send, Airs, Inside
<1>2. Error(outcome) \in {"none", "RuntimeError", "cancelled"}
  BY OutcomeLemma
<1>3. CASE ask[t] \in Regions
  <2>1. TypeOK'
    <3>1. raised' \in [Senders -> {"none", "RuntimeError", "cancelled"}]
      BY <1>2, <1>3 DEF Send, Inv, TypeOK
    <3>2. pc' \in [Senders -> Places] /\ depth' \in {0, 1, 2} /\ active' \in BOOLEAN
      BY <1>3 DEF Send, Inv, TypeOK, Places
    <3> QED BY <1>3, <3>1, <3>2 DEF Send, Inv, TypeOK, Places
  <2>2. Turns'
    BY <1>1, <1>3 DEF Send, Inv, TypeOK, Turns, Inside
  <2> QED BY <2>1, <2>2 DEF Inv
<1>4. CASE ask[t] \notin Regions
  <2>1. ~active
    BY <1>1, <1>4 DEF Inv, Turns
  <2>2. TypeOK'
    BY <1>2, <1>4, DoneKeepsType DEF Send, Inv, TypeOK, Places
  <2>3. Turns'
    BY <1>1, <1>2, <1>4, <2>1, DoneKeepsType DEF Send, Inv, TypeOK, Turns, Inside
  <2> QED BY <2>2, <2>3 DEF Inv
<1> QED BY <1>3, <1>4

LEMMA RestoreKeeps ==
  ASSUME Inv, NEW t \in Senders, NEW outcome \in ClearOutcomes, Restore(t, outcome)
  PROVE  Inv'
<1> DEFINE error == IF outcome.reply = "cancelled" THEN "cancelled" ELSE raised[t]
<1>1. owner = t /\ ~active /\ \A s \in Senders \ {t} : ~Inside(s)
  BY AloneInside DEF Restore, Inside, Inv, Turns
<1>2. error \in {"none", "RuntimeError", "cancelled"} /\ Done(t, error)
  BY DEF Inv, TypeOK, Restore
<1>0. lost' \in BOOLEAN
  BY LosesLemma DEF Restore, Inv, TypeOK
<1>3. TypeOK'
  BY <1>0, <1>2, DoneKeepsType DEF Restore, Inv, TypeOK, Turns, Places
<1>4. Turns'
  BY <1>1, <1>2, DoneKeepsType DEF Restore, Inv, TypeOK, Turns, Inside
<1> QED BY <1>3, <1>4 DEF Inv

LEMMA ReconnectKeeps == ASSUME Inv, Reconnect PROVE Inv'
<1>0. lost' \in BOOLEAN
  BY LosesLemma DEF Reconnect, Inv, TypeOK
<1>1. TypeOK'
  BY <1>0 DEF Reconnect, Inv, TypeOK
<1>2. Turns'
  BY DEF Reconnect, Inv, TypeOK, Turns, Inside
<1> QED BY <1>1, <1>2 DEF Inv

\* However the commands end, whoever is cancelled and whenever the link is opened again, the
\* lock has one holder, and the window is that holder's own (transmitting,
\* send_channel_in_scope, TransmitLock.held).
THEOREM TurnsInvariant == Spec => []Inv
<1>1. Init => Inv
  <2> SUFFICES ASSUME Init PROVE Inv
    OBVIOUS
  <2>1. TypeOK
    <3>1. ask \in [Senders -> Asks]
      BY DEF Init, Asks
    <3>2. waiters \in Seq(Senders)
      BY DEF Init
    <3>3. active \in BOOLEAN /\ tried \in BOOLEAN /\ lost \in BOOLEAN
      BY Zenon DEF Init
    <3>4. depth \in {0, 1, 2}
      BY DEF Init
    <3>5. pc \in [Senders -> Places]
      BY DEF Init, Places
    <3>6. raised \in [Senders -> {"none", "RuntimeError", "cancelled"}]
      BY DEF Init
    <3> QED BY <3>1, <3>2, <3>4, <3>5, <3>6, <3>3 DEF Init, TypeOK, Places
  <2>2. Turns
    BY DEF Init, Turns, Inside
  <2> QED BY <2>1, <2>2 DEF Inv
<1>2. Inv /\ [Next]_vars => Inv'
  <2> SUFFICES ASSUME Inv, [Next]_vars PROVE Inv'
    OBVIOUS
  <2>1. CASE UNCHANGED vars
    BY <2>1 DEF vars, hostVars, Inv, TypeOK, Turns, Inside
  <2>2. CASE Next
    BY <2>2, AskKeeps, AcquireKeeps, ReenterKeeps, CancelWaitingKeeps, RepairKeeps,
       SetScopeKeeps, SendKeeps, RestoreKeeps, ReconnectKeeps DEF Next, Step
  <2> QED BY <2>1, <2>2
<1> QED BY <1>1, <1>2, PTL DEF Spec

\* The state keeps its type: no step leaves the lock at a depth, or the record of a leaked
\* scope at a value, that the code has no branch for (TransmitLock, transmitting).
THEOREM ScopeTypeCorrect == Spec => []TypeOK
BY TurnsInvariant, PTL DEF Inv

\* No flood of another task goes out inside the window of a scoped message: only the holder
\* of the lock gives commands, and the window and its scope are that holder's.
THEOREM OnlyTheHolderSends == Spec => []WindowIsClosed
<1>1. Inv => WindowIsClosed
  BY DEF Inv, Turns, WindowIsClosed
<1> QED BY <1>1, TurnsInvariant, PTL

\* A scoped message is given to the companion in its own scope or not at all: however the
\* earlier commands ended, the session scope is its region when it goes out.
THEOREM NoSilentReplacement == Spec => []ScopedGoesScoped
<1>1. Inv => ScopedGoesScoped
  <2> SUFFICES ASSUME Inv, NEW t \in Senders, Airs(t), ask[t] \in Regions
               PROVE  session = ask[t]
    BY DEF ScopedGoesScoped
  <2>1. Inside(t) /\ depth = 2
    BY DEF Airs, Inside, Inv, TypeOK
  <2>2. owner = t /\ active
    BY <2>1 DEF Inv, Turns
  <2> QED BY <2>2 DEF Inv, Turns
<1> QED BY <1>1, TurnsInvariant, PTL

-----------------------------------------------------------------------------
(* What MeshTerm knows of the scope that it left on the companion.         *)

LEMMA ScopesKeeps ==
  ASSUME Inv, ScopeIsRestored, Next PROVE ScopeIsRestored'
<1>1. ASSUME NEW t \in Senders, NEW a \in Asks, Ask(t, a) PROVE ScopeIsRestored'
  BY <1>1 DEF Ask, Inv, TypeOK, ScopeIsRestored
<1>2. ASSUME NEW t \in Senders, Acquire(t) PROVE ScopeIsRestored'
  <2>1. pc[t] # "restoring"
    BY <1>2 DEF Acquire, Inv, Turns, Inside
  <2> QED BY <1>2, <2>1 DEF Acquire, Entered, Inv, TypeOK, ScopeIsRestored
<1>3. ASSUME NEW t \in Senders, Reenter(t) PROVE ScopeIsRestored'
  BY <1>3 DEF Reenter, Entered, Inv, TypeOK, ScopeIsRestored
<1>4. ASSUME NEW t \in Senders, CancelWaiting(t) PROVE ScopeIsRestored'
  BY <1>4 DEF CancelWaiting, Inv, TypeOK, ScopeIsRestored
<1>5. ASSUME NEW t \in Senders, NEW outcome \in ClearOutcomes, Repair(t, outcome)
      PROVE  ScopeIsRestored'
  <2>1. outcome.reply = "ok" => outcome.done
    BY OutcomeLemma
  <2>2. leaked # Default
    BY <1>5 DEF Repair, Inv, Turns
  <2>3. outcome.reply = "ok" \/ leaked' # Default
    BY <1>5, <2>2 DEF Repair
  <2>4. outcome.reply = "ok" => session' = Default
    BY <1>5, <2>1 DEF Repair
  <2> QED BY <2>3, <2>4 DEF ScopeIsRestored
<1>6. ASSUME NEW t \in Senders, NEW outcome \in SetOutcomes, SetScope(t, outcome)
      PROVE  ScopeIsRestored'
  <2>1. CASE outcome.reply = "ok"
    BY <1>6, <2>1 DEF SetScope, ScopeIsRestored
  <2>2. CASE outcome.reply # "ok" /\ outcome.done
    <3>1. (outcome.done /\ outcome.reply # "ok") \in BOOLEAN
      OBVIOUS
    <3>2. session' # Default => lost'
      BY <1>6, <2>2, <3>1, LosesLemma DEF SetScope, Inv, TypeOK
    <3> QED BY <3>2 DEF ScopeIsRestored
  <2>3. CASE outcome.reply # "ok" /\ ~outcome.done
    <3>1. session' = session /\ Done(t, Named(Error(outcome))) /\ UNCHANGED <<active, leaked>>
      BY <1>6, <2>3 DEF SetScope
    <3>2. (outcome.done /\ outcome.reply # "ok") \in BOOLEAN
      OBVIOUS
    <3>3. session' # Default /\ lost => lost'
      BY <1>6, <3>2, LosesLemma DEF SetScope, Inv, TypeOK
    <3>4. ~active /\ \A s \in Senders : pc[s] # "restoring"
      <4>1. owner = t /\ \A s \in Senders \ {t} : ~Inside(s)
        BY <1>6, AloneInside DEF SetScope, Inside
      <4> QED BY <1>6, <4>1 DEF SetScope, Inside
    <3> QED BY <3>1, <3>3, <3>4 DEF ScopeIsRestored
  <2> QED BY <2>1, <2>2, <2>3
<1>7. ASSUME NEW t \in Senders, NEW outcome \in SendOutcomes, Send(t, outcome)
      PROVE  ScopeIsRestored'
  <2>1. CASE ask[t] \in Regions
    BY <1>7, <2>1 DEF Send, Inv, TypeOK, ScopeIsRestored
  <2>2. CASE ask[t] \notin Regions
    BY <1>7, <2>2 DEF Send, Airs, Done, Inv, TypeOK, ScopeIsRestored
  <2> QED BY <2>1, <2>2
<1>8. ASSUME NEW t \in Senders, NEW outcome \in ClearOutcomes, Restore(t, outcome)
      PROVE  ScopeIsRestored'
  <2>1. ask[t] # Default
    BY <1>8 DEF Restore, Inv, Turns
  <2>2. CASE outcome.reply = "ok"
    BY <1>8, <2>2, OutcomeLemma DEF Restore, ScopeIsRestored
  <2>3. CASE outcome.reply = "RuntimeError"
    BY <1>8, <2>1, <2>3 DEF Restore, ScopeIsRestored
  <2>4. CASE outcome.reply = "cancelled"
    <3>1. session' # Default => lost'
      BY <1>8, <2>4, LosesLemma DEF Restore, Inv, TypeOK
    <3> QED BY <3>1 DEF ScopeIsRestored
  <2> QED BY <2>2, <2>3, <2>4, OutcomeLemma
<1>9. ASSUME Reconnect PROVE ScopeIsRestored'
  <2>1. session' # Default /\ (lost \/ leaked # Default) => lost'
    BY <1>9, LosesLemma DEF Reconnect, Inv, TypeOK
  <2>2. ~active /\ \A t \in Senders : pc[t] # "restoring"
    BY <1>9 DEF Reconnect, Inv, Turns
  <2>3. session' = session \/ session' = Default
    BY <1>9 DEF Reconnect
  <2> QED BY <2>1, <2>2, <2>3 DEF ScopeIsRestored
<1> QED
  BY <1>1, <1>2, <1>3, <1>4, <1>5, <1>6, <1>7, <1>8, <1>9 DEF Next, Step

\* However the commands end, MeshTerm knows the scope it left on the companion, but for the
\* three ends that leave it no note: outside a window it is the default, or the leak is on
\* record (send_channel_in_scope).
THEOREM LeaksAreOnRecord == Spec => []ScopeIsRestored
<1>1. Init => ScopeIsRestored
  BY DEF Init, ScopeIsRestored
<1>2. Inv /\ ScopeIsRestored /\ [Next]_vars => ScopeIsRestored'
  <2> SUFFICES ASSUME Inv, ScopeIsRestored, [Next]_vars PROVE ScopeIsRestored'
    OBVIOUS
  <2>1. CASE UNCHANGED vars
    BY <2>1 DEF vars, hostVars, ScopeIsRestored
  <2> QED BY <2>1, ScopesKeeps
<1> QED BY <1>1, <1>2, TurnsInvariant, PTL DEF Spec

\* A flood that carries the region of a channel by accident went out after the companion had
\* refused to take the scope back, in the same turn of the lock (transmitting).
THEOREM RepairComesFirst == Spec => []ForeignScopeWasRefused
<1>1. Inv /\ ScopeIsRestored => ForeignScopeWasRefused
  <2> SUFFICES ASSUME Inv, ScopeIsRestored, NEW t \in Senders,
                      Airs(t), ask[t] \notin Regions, session # Default, ~lost
               PROVE  tried
    BY DEF ForeignScopeWasRefused
  <2>1. pc[t] = "entered" /\ Inside(t)
    BY DEF Airs, Inside
  <2>2. owner = t /\ \A s \in Senders \ {t} : ~Inside(s)
    BY <2>1, AloneInside
  <2>3. ~active
    BY <2>2 DEF Inv, Turns
  <2>4. \A s \in Senders : pc[s] # "restoring"
    BY <2>1, <2>2 DEF Inside
  <2>5. leaked # Default
    BY <2>3, <2>4 DEF ScopeIsRestored
  <2> QED BY <2>1, <2>3, <2>5 DEF Inv, Turns
<1> QED BY <1>1, LeaksAreOnRecord, TurnsInvariant, PTL

=============================================================================
