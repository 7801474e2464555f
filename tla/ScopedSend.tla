----------------------------- MODULE ScopedSend -----------------------------
(***************************************************************************)
(* A channel message in a scope (core/transmit_lock.py, and transmitting   *)
(* and send_channel_in_scope of core/connection.py).                       *)
(*                                                                         *)
(* The companion has one session scope, which applies to each flood it     *)
(* sends. A scoped message takes three commands: set the scope, send, set  *)
(* it back. Every transmission holds one lock for the commands it gives,   *)
(* and the lock is re-entrant for its task: the send inside the window     *)
(* takes it a second time.                                                 *)
(*                                                                         *)
(* A command ends in one of these ways: `done` says whether the companion  *)
(* obeyed, and `reply` what its sender got: an answer, an exception, or    *)
(* the cancellation of its task at the await.                              *)
(***************************************************************************)
EXTENDS Integers, SequencesExt

CONSTANTS
  Senders,        \* the tasks that transmit
  Regions,        \* the scopes a channel can have
  SetOutcomes,    \* how the command that sets the scope can end
  SendOutcomes,   \* how a transmission can end
  ClearOutcomes,  \* how the command that sets the scope back can end
  RECONNECTS      \* the link may be opened again, between two transmissions

\* How a command ends. The companion refuses it or answers it too late with a RuntimeError
\* (_ok); the last two are the cancellation of the task, after the effect and before it.
Obeyed     == [done |-> TRUE,  reply |-> "ok"]
Refused    == [done |-> FALSE, reply |-> "RuntimeError"]
Unanswered == [done |-> TRUE,  reply |-> "RuntimeError"]
CutOff     == [done |-> TRUE,  reply |-> "cancelled"]
CutShort   == [done |-> FALSE, reply |-> "cancelled"]

Outcomes == {Obeyed, Refused, Unanswered, CutOff, CutShort}

Nobody  == "nobody"
Default == "default"   \* the session scope with no override, and no leaked scope
Flood   == "flood"     \* what a sender asks: a flood that is no channel message
Plain   == "plain"     \* a channel message with no scope of its own, or unscoped where that is plain

ASSUME ScopeAssumption ==
  /\ Nobody \notin Senders
  /\ Regions \cap {Default, Flood, Plain} = {}
  /\ SetOutcomes \subseteq Outcomes
  /\ SendOutcomes \subseteq Outcomes
  /\ ClearOutcomes \subseteq Outcomes
  /\ RECONNECTS \in BOOLEAN

VARIABLES
  owner,    \* TransmitLock._owner
  depth,    \* TransmitLock._depth
  waiters,  \* the tasks that wait for the asyncio.Lock, in their order
  pc,       \* where each task is
  ask,      \* what each task sends
  active,   \* Device._scope_active
  leaked,   \* Device._scope_leaked, Default when it is None
  session,  \* the session scope of the companion
  tried,    \* history: the holder of the lock tried to repair a leaked scope
  raised,   \* history: the last exception that each task got
  lost      \* history: the companion has a scope that no task could take note of

hostVars == <<owner, depth, waiters, pc, ask, active, leaked>>
vars == <<hostVars, session, tried, raised, lost>>

Asks == {Flood, Plain} \cup Regions

Init ==
  /\ owner = Nobody
  /\ depth = 0
  /\ waiters = <<>>
  /\ pc = [t \in Senders |-> "idle"]
  /\ ask = [t \in Senders |-> Flood]
  /\ active = FALSE
  /\ leaked = Default
  /\ session = Default
  /\ tried = FALSE
  /\ raised = [t \in Senders |-> "none"]
  /\ lost = FALSE

-----------------------------------------------------------------------------
(* The lock.                                                               *)

\* A task asks for a transmission, and queues up for the lock.
Ask(t, a) ==
  /\ pc[t] = "idle"
  /\ ask' = [ask EXCEPT ![t] = a]
  /\ pc' = [pc EXCEPT ![t] = "queued"]
  /\ waiters' = Append(waiters, t)
  /\ raised' = [raised EXCEPT ![t] = "none"]
  /\ UNCHANGED <<owner, depth, active, leaked, session, tried, lost>>

\* transmitting(), after it took the lock: a leaked scope is repaired first.
Entered == IF leaked # Default /\ ~active THEN "repairing" ELSE "entered"

\* A plausible slip of held(): each task keeps a lock of its own.
AcquireOwnLock(t) ==
  /\ waiters # <<>> /\ t = Head(waiters)
  /\ waiters' = Tail(waiters)
  /\ owner' = t
  /\ depth' = 1
  /\ pc' = [pc EXCEPT ![t] = Entered]
  /\ tried' = FALSE
  /\ UNCHANGED <<ask, active, leaked, session, raised, lost>>

\* The asyncio.Lock goes to the task that waits longest.
Acquire(t) ==
  /\ owner = Nobody
  /\ waiters # <<>> /\ t = Head(waiters)
  /\ waiters' = Tail(waiters)
  /\ owner' = t
  /\ depth' = 1
  /\ pc' = [pc EXCEPT ![t] = Entered]
  /\ tried' = FALSE
  /\ UNCHANGED <<ask, active, leaked, session, raised, lost>>

\* The holder enters again: send_channel_message inside send_channel_in_scope.
Reenter(t) ==
  /\ owner = t /\ pc[t] = "entered" /\ depth = 1
  /\ (ask[t] = Plain) \/ (ask[t] \in Regions /\ active)
  /\ depth' = 2
  /\ pc' = [pc EXCEPT ![t] = Entered]
  /\ UNCHANGED <<owner, waiters, ask, active, leaked, session, tried, raised, lost>>

\* A plausible slip: the exception of a command skips the release of the lock.
DoneUnlessRaised(t, error) ==
  /\ pc' = [pc EXCEPT ![t] = "idle"]
  /\ owner' = IF error = "none" THEN Nobody ELSE owner
  /\ depth' = 0
  /\ raised' = [raised EXCEPT ![t] = error]

\* The task leaves the lock, with a result or with an exception.
Done(t, error) ==
  /\ pc' = [pc EXCEPT ![t] = "idle"]
  /\ owner' = Nobody
  /\ depth' = 0
  /\ raised' = [raised EXCEPT ![t] = error]

\* A task is cancelled while it waits for the lock.
CancelWaiting(t) ==
  /\ CutShort \in SendOutcomes
  /\ pc[t] = "queued"
  /\ pc' = [pc EXCEPT ![t] = "idle"]
  /\ \E i \in 1..Len(waiters) : waiters[i] = t /\ waiters' = RemoveAt(waiters, i)
  /\ raised' = [raised EXCEPT ![t] = "cancelled"]
  /\ UNCHANGED <<owner, depth, ask, active, leaked, session, tried, lost>>

-----------------------------------------------------------------------------
(* The commands.                                                           *)

\* The exception that an outcome leaves.
Error(outcome) == IF outcome.reply = "ok" THEN "none" ELSE outcome.reply

\* send_channel_in_scope() turns one kind of exception of the first step into a refusal.
Named(error) == IF error = "DeviceCommandError" THEN "FloodScopeError" ELSE error

\* Whether the scope that the companion now has escaped the notes of MeshTerm.
Loses(unseen) == lost' = (session' # Default /\ (lost \/ unseen))

\* transmitting(): set a leaked scope back. When the companion does not accept that, the send
\* goes out in the scope that it has.
Repair(t, outcome) ==
  /\ pc[t] = "repairing"
  /\ session' = IF outcome.done THEN Default ELSE session
  /\ leaked' = IF outcome.reply = "ok" THEN Default ELSE leaked
  /\ tried' = TRUE
  /\ IF outcome.reply = "cancelled"
     THEN Done(t, "cancelled")
     ELSE /\ pc' = [pc EXCEPT ![t] = "entered"]
          /\ UNCHANGED <<owner, depth, raised>>
  /\ Loses(FALSE)
  /\ UNCHANGED <<waiters, ask, active>>

\* A plausible slip of send_channel_in_scope(): a refused scope does not stop the message.
SetScopeAnyway(t, outcome) ==
  /\ pc[t] = "entered" /\ depth = 1 /\ ask[t] \in Regions /\ ~active
  /\ session' = IF outcome.done THEN ask[t] ELSE session
  /\ IF outcome.reply # "cancelled"
     THEN active' = TRUE /\ UNCHANGED <<pc, owner, depth, raised>>
     ELSE Done(t, "cancelled") /\ UNCHANGED active
  /\ Loses(outcome.done /\ outcome.reply # "ok")
  /\ UNCHANGED <<waiters, ask, leaked, tried>>

\* send_channel_in_scope(): open the window, or leave it shut and send nothing.
SetScope(t, outcome) ==
  /\ pc[t] = "entered" /\ depth = 1 /\ ask[t] \in Regions /\ ~active
  /\ session' = IF outcome.done THEN ask[t] ELSE session
  /\ IF outcome.reply = "ok"
     THEN active' = TRUE /\ UNCHANGED <<pc, owner, depth, raised>>
     ELSE Done(t, Named(Error(outcome))) /\ UNCHANGED active
  /\ Loses(outcome.done /\ outcome.reply # "ok")
  /\ UNCHANGED <<waiters, ask, leaked, tried>>

\* The task gives its transmission to the companion: at depth two for a channel message.
Airs(t) ==
  /\ pc[t] = "entered"
  /\ depth = IF ask[t] = Flood THEN 1 ELSE 2

\* A plausible slip: the window is closed only after a send that succeeded.
SendThenRestore(t, outcome) ==
  /\ Airs(t)
  /\ IF ask[t] \in Regions /\ outcome.reply = "ok"
     THEN /\ active' = FALSE
          /\ depth' = 1
          /\ pc' = [pc EXCEPT ![t] = "restoring"]
          /\ raised' = [raised EXCEPT ![t] = Error(outcome)]
          /\ UNCHANGED owner
     ELSE Done(t, Error(outcome)) /\ active' = FALSE
  /\ UNCHANGED <<waiters, ask, leaked, session, tried, lost>>

\* The transmission. However it ends, a scoped message closes its window after it.
Send(t, outcome) ==
  /\ Airs(t)
  /\ IF ask[t] \in Regions
     THEN /\ active' = FALSE
          /\ depth' = 1
          /\ pc' = [pc EXCEPT ![t] = "restoring"]
          /\ raised' = [raised EXCEPT ![t] = Error(outcome)]
          /\ UNCHANGED owner
     ELSE Done(t, Error(outcome)) /\ UNCHANGED active
  /\ UNCHANGED <<waiters, ask, leaked, session, tried, lost>>

\* A plausible slip: a failed restore is only logged.
RestoreForgets(t, outcome) ==
  /\ pc[t] = "restoring"
  /\ session' = IF outcome.done THEN Default ELSE session
  /\ Done(t, IF outcome.reply = "cancelled" THEN "cancelled" ELSE raised[t])
  /\ Loses(outcome.reply = "cancelled")
  /\ UNCHANGED <<waiters, ask, active, tried, leaked>>

\* The end of the window: a restore that failed is left to the next transmission. The
\* cancellation of the task is no Exception, so it passes by that note.
Restore(t, outcome) ==
  /\ pc[t] = "restoring"
  /\ session' = IF outcome.done THEN Default ELSE session
  /\ leaked' = IF outcome.reply = "RuntimeError" THEN ask[t] ELSE leaked
  /\ Done(t, IF outcome.reply = "cancelled" THEN "cancelled" ELSE raised[t])
  /\ Loses(outcome.reply = "cancelled")
  /\ UNCHANGED <<waiters, ask, active, tried>>

\* The link is opened again: a new Device, on a companion that may have rebooted.
Reconnect ==
  /\ RECONNECTS
  /\ \A t \in Senders : pc[t] = "idle"
  /\ leaked' = Default
  /\ active' = FALSE
  /\ session' \in {session, Default}
  /\ Loses(leaked # Default)
  /\ UNCHANGED <<owner, depth, waiters, pc, ask, tried, raised>>

-----------------------------------------------------------------------------
Step(t) ==
  \/ Acquire(t)
  \/ Reenter(t)
  \/ \E outcome \in ClearOutcomes : Repair(t, outcome) \/ Restore(t, outcome)
  \/ \E outcome \in SetOutcomes : SetScope(t, outcome)
  \/ \E outcome \in SendOutcomes : Send(t, outcome)

Next ==
  \/ \E t \in Senders : Step(t) \/ CancelWaiting(t) \/ \E a \in Asks : Ask(t, a)
  \/ Reconnect

Spec == Init /\ [][Next]_vars

\* Each command ends: the library gives up on an answer that does not come.
FairSpec == Spec /\ \A t \in Senders : WF_vars(Step(t))

-----------------------------------------------------------------------------
(* Properties.                                                             *)

\* The type of the state.
TypeOK ==
  /\ owner \in Senders \cup {Nobody}
  /\ depth \in {0, 1, 2}
  /\ waiters \in Seq(Senders)
  /\ pc \in [Senders -> {"idle", "queued", "repairing", "entered", "restoring"}]
  /\ ask \in [Senders -> Asks]
  /\ active \in BOOLEAN
  /\ leaked \in Regions \cup {Default}
  /\ session \in Regions \cup {Default}
  /\ tried \in BOOLEAN
  /\ raised \in [Senders -> {"none", "RuntimeError", "cancelled"}]
  /\ lost \in BOOLEAN

Inside(t) == pc[t] \in {"repairing", "entered", "restoring"}

\* Only the holder of the lock gives commands, and the window on the session scope is its
\* own: no other flood can go out between the three steps of a scoped message, however one
\* of them ends (transmit_lock, send_channel_in_scope).
WindowIsClosed ==
  /\ \A t \in Senders : Inside(t) => owner = t
  /\ active => /\ owner \in Senders
               /\ ask[owner] \in Regions
               /\ pc[owner] = "entered"
               /\ session = ask[owner]

\* A scoped message never goes out silently unscoped, or in another scope, whatever happened
\* to the transmissions before it (send_channel_in_scope).
ScopedGoesScoped == \A t \in Senders : (Airs(t) /\ ask[t] \in Regions) => session = ask[t]

\* Outside a window, the session scope is the default, or MeshTerm knows which region it left
\* on the companion. Three ends leave it no note, and only these: the command that sets the
\* scope is obeyed but not answered (or its task is cancelled), the command that sets it back
\* is cancelled, and the Device that has the note is replaced (send_channel_in_scope).
ScopeIsRestored ==
  (\A t \in Senders : pc[t] # "restoring") /\ ~active /\ leaked = Default /\ ~lost
    => session = Default

\* A flood goes out in the scope of a channel only when the holder tried to set the scope
\* back, immediately before, and the companion did not accept it (transmitting). The scope
\* that is on no note is excepted.
ForeignScopeWasRefused ==
  \A t \in Senders : (Airs(t) /\ ask[t] \notin Regions /\ session # Default /\ ~lost) => tried

\* Each transmission that is asked for has its turn: no exception, cancellation or nesting
\* leaves the lock taken (TransmitLock.held).
TurnComes == \A t \in Senders : (pc[t] = "queued") ~> (pc[t] = "idle")

=============================================================================
