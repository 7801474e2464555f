---------------------------- MODULE CourierProofs ----------------------------
(***************************************************************************)
(* Theorems about the Courier service, for every number of messages, tries *)
(* and transmissions, every contact list and every outcome of a write.     *)
(***************************************************************************)
EXTENDS Courier, CourierStoreProofs

USE StoreAssumption, CourierAssumption

-----------------------------------------------------------------------------
(* The guard of the tries. `inFlight` and the held entries are consistent  *)
(* with the coroutines; every action touches them in one of three ways:    *)
(* it begins a try, ends one, or moves one to its next await.              *)

Slots ==
  /\ try \in [Actors -> Try]
  /\ inFlight \in Idents \cup {None}
  /\ held \in SUBSET Idents
  /\ OneTryAtATime
  /\ HeldIsNotTried

\* A value of the idle slot, and what Begin puts into it.
LEMMA IdleLemma ==
  /\ Idle \in Try /\ Idle.pc = "idle"
  /\ \A i \in Idents :
       LET t == [Idle EXCEPT !.pc = "resolving", !.ident = i]
       IN t \in Try /\ t.pc = "resolving" /\ t.ident = i
<1>1. (CHOOSE x \in Texts : TRUE) \in Texts
  OBVIOUS
<1>2. Idle \in Try /\ Idle.pc = "idle"
  BY <1>1 DEF Idle, Try, None
<1>3. ASSUME NEW i \in Idents
      PROVE  LET t == [Idle EXCEPT !.pc = "resolving", !.ident = i]
             IN t \in Try /\ t.pc = "resolving" /\ t.ident = i
  BY <1>2 DEF Try
<1> QED BY <1>2, <1>3

\* A try in progress has an ident of the outbox.
LEMMA TryIdent ==
  ASSUME Slots, NEW a \in Actors, Trying(a)
  PROVE  try[a].ident \in Idents /\ inFlight = try[a].ident /\ try[a] \in Try
BY DEF Slots, OneTryAtATime, None

\* _pass and attempt_now begin a try only when none is in progress, on an entry that is not
\* held.
LEMMA BeginKeeps ==
  ASSUME Slots, NEW a \in Actors, NEW i \in Idents \ held, inFlight = None, Begin(a, i),
         UNCHANGED held
  PROVE  Slots'
<1> DEFINE t == [Idle EXCEPT !.pc = "resolving", !.ident = i]
<1>1. t \in Try /\ t.pc = "resolving" /\ t.ident = i
  BY IdleLemma
<1> HIDE DEF t
<1>2. try' = [try EXCEPT ![a] = t] /\ inFlight' = i
  BY DEF Begin, t
<1>3. \A b \in Actors : ~Trying(b)
  BY DEF Slots, OneTryAtATime
<1>4. \A b \in Actors : Trying(b)' => b = a
  BY <1>2, <1>3 DEF Slots, Trying
<1>5. try'[a] = t
  BY <1>2 DEF Slots
<1>6. i # None
  BY DEF Idents, None
<1> QED BY <1>1, <1>2, <1>4, <1>5, <1>6 DEF Slots, OneTryAtATime, HeldIsNotTried, Trying

\* Only one try is in progress, so its end leaves none.
LEMMA EndKeeps ==
  ASSUME Slots, NEW a \in Actors, Trying(a), End(a), UNCHANGED held
  PROVE  Slots' /\ \A b \in Actors : ~Trying(b)'
<1>1. try' = [try EXCEPT ![a] = Idle] /\ inFlight' = None
  BY DEF End
<1>2. \A b \in Actors : ~Trying(b)'
  BY <1>1, IdleLemma DEF Slots, OneTryAtATime, Trying
<1>3. try' \in [Actors -> Try]
  BY <1>1, IdleLemma DEF Slots
<1> QED BY <1>1, <1>2, <1>3 DEF Slots, OneTryAtATime, HeldIsNotTried

\* A try moves to its next await.
LEMMA MoveKeeps ==
  ASSUME Slots, NEW a \in Actors, Trying(a), NEW t \in Try, t.ident = try[a].ident,
         t.pc # "idle", try' = [try EXCEPT ![a] = t], UNCHANGED <<inFlight, held>>
  PROVE  Slots'
<1>1. try' \in [Actors -> Try]
  BY DEF Slots
<1>2. \A b \in Actors : (Trying(b)' <=> Trying(b)) /\ try'[b].ident = try[b].ident
  BY DEF Slots, Trying
<1> QED BY <1>1, <1>2 DEF Slots, OneTryAtATime, HeldIsNotTried

\* A step that leaves the guard alone.
LEMMA SlotsUnchanged ==
  ASSUME Slots, UNCHANGED <<try, inFlight, held>>
  PROVE  Slots'
BY DEF Slots, OneTryAtATime, HeldIsNotTried, Trying

-----------------------------------------------------------------------------
(* The type of the state, with what keeps it.                              *)

TypeInv == StoreInv /\ ServiceTypeOK /\ Slots

\* What is left of ServiceTypeOK beside the guard and the history variables.
Types ==
  /\ running \in BOOLEAN /\ connected \in BOOLEAN
  /\ silence \in [Nodes -> 0..(FRESH_S + 1)]
  /\ awaiting \in SUBSET Chat
  /\ alerts \in SUBSET (Idents \X {"delivered", "late", "gave up"})
  /\ sent \in [Idents -> Seq(Texts)]
  /\ acked \in [Idents -> SUBSET Nat]

\* TypeInv, conjunct by conjunct.
LEMMA TypeInvParts ==
  /\ TypeInv <=> StoreInv /\ Types /\ Slots
  /\ TypeInv' <=> StoreInv' /\ Types' /\ Slots'
BY DEF TypeInv, ServiceTypeOK, Types, Slots

\* The first state.
LEMMA InitHolds == Init => TypeInv
<1> SUFFICES ASSUME Init PROVE TypeInv
  OBVIOUS
<1>1. StoreInv
  BY StoreInitHolds DEF Init
<1>2. Types
  <2>1. silence \in [Nodes -> 0..(FRESH_S + 1)] /\ sent \in [Idents -> Seq(Texts)]
    BY DEF Init
  <2> QED BY <2>1 DEF Init, Types
<1>3. Slots
  BY IdleLemma DEF Init, Slots, OneTryAtATime, HeldIsNotTried, Trying
<1> QED BY <1>1, <1>2, <1>3, TypeInvParts

\* The begin of a try, by the loop or by Send now.
LEMMA BeginsKeep ==
  ASSUME TypeInv, Pass \/ \E i \in Idents : AttemptNow(i)
  PROVE  TypeInv'
<1>1. StoreInv /\ Types /\ Slots
  BY TypeInvParts
<1>2. UNCHANGED <<storeVars, running, silence, held, awaiting, connected, alerts, sent, acked>>
  BY DEF Pass, AttemptNow
<1>3. PICK a \in Actors, i \in Idents \ held : inFlight = None /\ Begin(a, i)
  <2>1. CASE Pass
    <3>1. PICK i \in Candidates : Begin("loop", i)
      BY <2>1 DEF Pass
    <3>2. Candidates \subseteq Idents \ held
      BY <1>1, MemoryLemma DEF Candidates, Waiting, StoreInv, Sound
    <3> QED BY <2>1, <3>1, <3>2 DEF Pass, Actors
  <2>2. CASE \E i \in Idents : AttemptNow(i)
    BY <2>2 DEF AttemptNow, UserIsFree, Actors
  <2> QED BY <2>1, <2>2
<1>4. Slots'
  BY <1>1, <1>2, <1>3, BeginKeeps
<1>5. StoreInv' /\ Types'
  BY <1>1, <1>2, StoreUnchanged DEF Types
<1> QED BY <1>4, <1>5, TypeInvParts

\* A try ends with no contact for its recipient, or with an exception.
LEMMA QuietEndsKeep ==
  ASSUME TypeInv, NEW a \in Actors, ResolveUnknown(a) \/ TryFails(a)
  PROVE  TypeInv'
<1>1. StoreInv /\ Types /\ Slots
  BY TypeInvParts
<1>2. /\ UNCHANGED <<storeVars, running, silence, held, awaiting, connected, alerts, sent, acked>>
      /\ End(a) /\ Trying(a)
  BY DEF ResolveUnknown, TryFails, Trying
<1>3. Slots'
  BY <1>1, <1>2, EndKeeps
<1>4. StoreInv' /\ Types'
  BY <1>1, <1>2, StoreUnchanged DEF Types
<1> QED BY <1>3, <1>4, TypeInvParts

\* A try ends with its verdict.
LEMMA VerdictsKeep ==
  ASSUME TypeInv, NEW a \in Actors, NEW saves, TryUnacked(a, saves) \/ TryAcked(a, saves)
  PROVE  TypeInv'
<1>1. StoreInv /\ Types /\ Slots
  BY TypeInvParts
<1> DEFINE i == try[a].ident
           chat == [ident |-> i, codes |-> try[a].codes]
<1>2. Trying(a) /\ End(a) /\ UNCHANGED <<running, silence, held, connected, sent, acked>>
  BY DEF TryUnacked, TryAcked, Trying
<1>3. i \in Idents /\ try[a] \in Try
  BY <1>1, <1>2, TryIdent
<1>4. chat \in Chat
  BY <1>3 DEF Chat, Try
<1>5. StoreInv'
  <2>1. CASE TryUnacked(a, saves)
    BY <1>1, <1>3, <2>1, FinishKeeps, StoreUnchanged DEF TryUnacked
  <2>2. CASE TryAcked(a, saves)
    BY <1>1, <1>3, <2>2, FinishKeeps DEF TryAcked
  <2> QED BY <2>1, <2>2
<1>6. awaiting' \in SUBSET Chat
  BY <1>1, <1>4 DEF TryUnacked, TryAcked, Types
<1>7. alerts' \in SUBSET (Idents \X {"delivered", "late", "gave up"})
  <2>1. <<i, "gave up">> \in Idents \X {"delivered", "late", "gave up"}
    BY <1>3
  <2>2. <<i, "delivered">> \in Idents \X {"delivered", "late", "gave up"}
    BY <1>3
  <2>3. \/ alerts' = alerts
        \/ alerts' = alerts \cup {<<i, "gave up">>}
        \/ alerts' = alerts \cup {<<i, "delivered">>}
    BY DEF TryUnacked, TryAcked
  <2> QED BY <1>1, <2>1, <2>2, <2>3 DEF Types
<1>8. Slots'
  BY <1>1, <1>2, EndKeeps
<1>9. Types'
  BY <1>1, <1>2, <1>6, <1>7 DEF Types
<1> QED BY <1>5, <1>8, <1>9, TypeInvParts

\* A try is counted, and goes on or ends.
LEMMA StartSendKeeps ==
  ASSUME TypeInv, NEW a \in Actors, NEW saves, StartSend(a, saves)
  PROVE  TypeInv'
<1>1. StoreInv /\ Types /\ Slots
  BY TypeInvParts
<1>2. Trying(a) /\ UNCHANGED <<running, silence, held, awaiting, connected, alerts, sent, acked>>
  BY DEF StartSend, Trying
<1>3. try[a].ident \in Idents /\ try[a] \in Try
  BY <1>1, <1>2, TryIdent
<1>4. StoreInv'
  BY <1>1, <1>3, NoteAttemptKeeps DEF StartSend
<1>5. Types'
  BY <1>1, <1>2 DEF Types
<1>6. Slots'
  <2>1. CASE End(a)
    BY <1>1, <1>2, <2>1, EndKeeps
  <2>2. CASE /\ try' = [try EXCEPT ![a].pc = "sending",
                                   ![a].text = entries[try[a].ident].text]
             /\ UNCHANGED inFlight
    <3> DEFINE text == entries[try[a].ident].text
               t == [try[a] EXCEPT !.pc = "sending", !.text = text]
    <3>1. text \in Texts
      BY <1>1, <1>3, MemoryLemma DEF StoreInv, Sound, Entry
    <3> HIDE DEF text
    <3>2. t \in Try /\ t.ident = try[a].ident /\ t.pc # "idle"
      BY <1>3, <3>1 DEF Try
    <3>3. try' = [try EXCEPT ![a] = t]
      BY <1>1, <2>2 DEF Slots, text
    <3> HIDE DEF t
    <3> QED BY <1>1, <1>2, <2>2, <3>2, <3>3, MoveKeeps
  <2> QED BY <2>1, <2>2 DEF StartSend
<1> QED BY <1>4, <1>5, <1>6, TypeInvParts

\* A transmission, and the return to the transmission by a soft retry.
LEMMA SendsKeep ==
  ASSUME TypeInv, NEW a \in Actors, Transmit(a) \/ SoftRetry(a)
  PROVE  TypeInv'
<1>1. StoreInv /\ Types /\ Slots
  BY TypeInvParts
<1>2. /\ Trying(a)
      /\ UNCHANGED <<storeVars, running, silence, inFlight, held, awaiting, connected, alerts, acked>>
  BY DEF Transmit, SoftRetry, Trying
<1>3. try[a].ident \in Idents /\ try[a] \in Try
  BY <1>1, <1>2, TryIdent
<1>4. StoreInv'
  BY <1>1, <1>2, StoreUnchanged
<1>5. CASE SoftRetry(a)
  <2> DEFINE t == [try[a] EXCEPT !.pc = "sending"]
  <2>1. t \in Try /\ t.ident = try[a].ident /\ t.pc # "idle"
    BY <1>3 DEF Try
  <2>2. try' = [try EXCEPT ![a] = t]
    BY <1>1, <1>5 DEF Slots, SoftRetry
  <2> HIDE DEF t
  <2>3. Slots'
    BY <1>1, <1>2, <2>1, <2>2, MoveKeeps
  <2>4. Types'
    BY <1>1, <1>2, <1>5 DEF Types, SoftRetry
  <2> QED BY <1>4, <2>3, <2>4, TypeInvParts
<1>6. CASE Transmit(a)
  <2> DEFINE i == try[a].ident
             k == Len(sent[i]) + 1
             t == [try[a] EXCEPT !.pc = "waiting", !.round = try[a].round + 1,
                                 !.codes = try[a].codes \cup {k}]
  <2>s. sent \in [Idents -> Seq(Texts)]
    BY <1>1 DEF Types
  <2>1. sent[i] \in Seq(Texts) /\ k \in Nat
    BY <1>3, <2>s
  <2>2. try[a].round + 1 \in Nat /\ try[a].codes \cup {k} \in SUBSET Nat /\ try[a].text \in Texts
    BY <1>3, <2>1 DEF Try
  <2>3. try' = [try EXCEPT ![a] = t] /\ sent' = [sent EXCEPT ![i] = Append(sent[i], try[a].text)]
    BY <1>1, <1>3, <1>6 DEF Slots, Types, Transmit
  <2> HIDE DEF k
  <2>4. t \in Try /\ t.ident = try[a].ident /\ t.pc # "idle"
    BY <1>3, <2>2 DEF Try
  <2> HIDE DEF t
  <2>5. Slots'
    BY <1>1, <1>2, <2>3, <2>4, MoveKeeps
  <2>6. sent' \in [Idents -> Seq(Texts)]
    <3>1. Append(sent[i], try[a].text) \in Seq(Texts)
      BY <2>1, <2>2
    <3> QED BY <2>s, <2>3, <3>1
  <2>7. Types'
    BY <1>1, <1>2, <2>6 DEF Types
  <2> QED BY <1>4, <2>5, <2>7, TypeInvParts
<1> QED BY <1>5, <1>6

\* The settlement of a late ack.
LEMMA DeliveredLateKeeps ==
  ASSUME StoreInv, Types, NEW i \in Idents, NEW saves, DeliveredLate(i, saves)
  PROVE  StoreInv' /\ alerts' \in SUBSET (Idents \X {"delivered", "late", "gave up"})
<1>1. StoreInv'
  BY FinishKeeps, StoreUnchanged DEF DeliveredLate
<1>2. <<i, "late">> \in Idents \X {"delivered", "late", "gave up"}
  OBVIOUS
<1>3. alerts' = alerts \/ alerts' = alerts \cup {<<i, "late">>}
  BY DEF DeliveredLate
<1> QED BY <1>1, <1>2, <1>3 DEF Types

\* An ack ends the wait of a send, settles a filed message, or is of no use to anyone.
LEMMA AckKeeps ==
  ASSUME TypeInv, NEW i \in Idents, NEW k \in 1..MAX_SENDS, NEW saves, AckArrives(i, k, saves)
  PROVE  TypeInv'
<1>1. StoreInv /\ Types /\ Slots
  BY TypeInvParts
<1>2. /\ acked' = [acked EXCEPT ![i] = acked[i] \cup {k}]
      /\ UNCHANGED <<running, silence, inFlight, held, connected, sent>>
  BY DEF AckArrives
<1>3. acked' \in [Idents -> SUBSET Nat]
  <2>1. acked \in [Idents -> SUBSET Nat]
    BY <1>1 DEF Types
  <2>2. k \in Nat
    OBVIOUS
  <2>3. acked[i] \cup {k} \in SUBSET Nat
    BY <2>1, <2>2
  <2> QED BY <1>2, <2>1, <2>3
<1>4. CASE AckInTime(i, k)
  <2>1. PICK a \in Actors : WaitsFor(a, i, k) /\ try' = [try EXCEPT ![a].pc = "acked"]
    BY <1>4 DEF AckInTime
  <2> DEFINE t == [try[a] EXCEPT !.pc = "acked"]
  <2>2. try[a] \in Try /\ try' = [try EXCEPT ![a] = t]
    BY <1>1, <2>1 DEF Slots
  <2>3. t \in Try /\ t.ident = try[a].ident /\ t.pc # "idle"
    BY <2>2 DEF Try
  <2> HIDE DEF t
  <2>4. Slots'
    BY <1>1, <1>2, <2>1, <2>2, <2>3, MoveKeeps DEF WaitsFor, Trying
  <2>5. StoreInv' /\ Types'
    BY <1>1, <1>2, <1>3, <1>4, StoreUnchanged DEF AckInTime, Types
  <2> QED BY <2>4, <2>5, TypeInvParts
<1>5. CASE AckLate(i, k, saves)
  <2>1. UNCHANGED try /\ DeliveredLate(i, saves) /\ awaiting' \subseteq awaiting
    BY <1>5 DEF AckLate
  <2>2. StoreInv' /\ Types'
    BY <1>1, <1>2, <1>3, <2>1, DeliveredLateKeeps DEF Types
  <2> QED BY <1>1, <1>2, <2>1, <2>2, SlotsUnchanged, TypeInvParts
<1>6. CASE AckUnknown(i, k)
  <2>1. StoreInv' /\ Types'
    BY <1>1, <1>2, <1>3, <1>6, StoreUnchanged DEF AckUnknown, Types
  <2> QED BY <1>1, <1>2, <1>6, <2>1, SlotsUnchanged, TypeInvParts DEF AckUnknown
<1> QED BY <1>4, <1>5, <1>6 DEF AckArrives

\* What the user does at the outbox screen.
LEMMA UserStepKeeps ==
  ASSUME TypeInv, UserStep
  PROVE  TypeInv'
<1>1. StoreInv /\ Types /\ Slots
  BY TypeInvParts
<1>2. ASSUME NEW i \in Idents, OpenEntry(i) PROVE TypeInv'
  <2>1. /\ held' = held \cup {i} /\ inFlight # i
        /\ UNCHANGED <<storeVars, running, silence, inFlight, try, awaiting, connected, alerts, sent, acked>>
    BY <1>2 DEF OpenEntry
  <2>2. Slots'
    BY <1>1, <2>1 DEF Slots, OneTryAtATime, HeldIsNotTried, Trying
  <2> QED BY <1>1, <2>1, <2>2, StoreUnchanged, TypeInvParts DEF Types
<1>3. ASSUME NEW i \in Idents, NEW text \in Texts, NEW saves, CloseEntry(i, text, saves)
      PROVE  TypeInv'
  <2>1. /\ held' = held \ {i}
        /\ UNCHANGED <<running, silence, inFlight, try, awaiting, connected, alerts, sent, acked>>
    BY <1>3 DEF CloseEntry
  <2>2. StoreInv'
    BY <1>1, <1>3, EditBodyKeeps, StoreUnchanged DEF CloseEntry
  <2>3. Slots'
    BY <1>1, <2>1 DEF Slots, OneTryAtATime, HeldIsNotTried, Trying
  <2> QED BY <1>1, <2>1, <2>2, <2>3, TypeInvParts DEF Types
<1>4. ASSUME UNCHANGED serviceVars, StoreInv' PROVE TypeInv'
  BY <1>1, <1>4, SlotsUnchanged, TypeInvParts DEF serviceVars, Types
<1>5. ASSUME NEW node \in Nodes, NEW text \in Texts, NEW delay \in Delays, NEW saves,
             UserQueues(node, text, delay, saves)
      PROVE  TypeInv'
  BY <1>1, <1>4, <1>5, StoreQueueKeeps DEF UserQueues
<1>6. ASSUME NEW i \in Idents, NEW saves, UserDeletes(i, saves) PROVE TypeInv'
  BY <1>1, <1>4, <1>6, DeleteKeeps DEF UserDeletes
<1>7. ASSUME NEW saves, UserClearsDone(saves) PROVE TypeInv'
  BY <1>1, <1>4, <1>7, ClearDoneKeeps DEF UserClearsDone
<1> QED BY <1>2, <1>3, <1>5, <1>6, <1>7, BeginsKeep DEF UserStep

\* A restart leaves no try, and loads a well formed outbox.
LEMMA RestartKeeps ==
  ASSUME TypeInv, Restart
  PROVE  TypeInv'
<1>1. StoreInv /\ Types /\ Slots
  BY TypeInvParts
<1>2. StoreInv'
  BY <1>1, LoadKeeps DEF Restart
<1>3. Slots'
  BY IdleLemma DEF Restart, Slots, OneTryAtATime, HeldIsNotTried, Trying
<1>4. silence' \in [Nodes -> 0..(FRESH_S + 1)]
  BY DEF Restart
<1>5. Types'
  BY <1>1, <1>4 DEF Restart, Types
<1> QED BY <1>2, <1>3, <1>5, TypeInvParts

\* The start and the stop of the service, the link, the radio and the clock.
LEMMA SessionKeeps ==
  ASSUME TypeInv, \/ Start \/ Stop \/ LinkChanges \/ Tick
                  \/ \E node \in Nodes : Hear(node)
  PROVE  TypeInv'
<1>1. StoreInv /\ Types /\ Slots
  BY TypeInvParts
<1>2. CASE Start \/ LinkChanges
  BY <1>1, <1>2, StoreUnchanged, SlotsUnchanged, TypeInvParts DEF Start, LinkChanges, Types
<1>3. CASE Stop
  <2>1. StoreInv' /\ Types'
    BY <1>1, <1>3, StoreUnchanged DEF Stop, Types
  <2>2. Slots'
    BY <1>1, <1>3, EndKeeps, SlotsUnchanged DEF Stop, Trying, Actors
  <2> QED BY <2>1, <2>2, TypeInvParts
<1>4. CASE Tick
  <2>1. StoreInv' /\ Slots'
    BY <1>1, <1>4, AgeKeeps, SlotsUnchanged DEF Tick
  <2>2. silence' \in [Nodes -> 0..(FRESH_S + 1)]
    <3>1. silence \in [Nodes -> 0..(FRESH_S + 1)]
      BY <1>1 DEF Types
    <3>2. silence' = [n \in Nodes |-> IF silence[n] <= FRESH_S THEN silence[n] + 1 ELSE silence[n]]
      BY <1>4 DEF Tick
    <3> QED BY <3>1, <3>2
  <2> QED BY <1>1, <1>4, <2>1, <2>2, TypeInvParts DEF Tick, Types
<1>5. ASSUME NEW node \in Nodes, Hear(node) PROVE TypeInv'
  <2>1. silence' \in [Nodes -> 0..(FRESH_S + 1)]
    <3>1. silence \in [Nodes -> 0..(FRESH_S + 1)] /\ silence' = [silence EXCEPT ![node] = 0]
      BY <1>1, <1>5 DEF Hear, Types
    <3> QED BY <3>1
  <2> QED BY <1>1, <1>5, <2>1, StoreUnchanged, SlotsUnchanged, TypeInvParts DEF Hear, Types
<1> QED BY <1>2, <1>3, <1>4, <1>5

\* Every step keeps the invariant.
LEMMA NextKeeps == TypeInv /\ [Next]_vars => TypeInv'
<1> SUFFICES ASSUME TypeInv, [Next]_vars PROVE TypeInv'
  OBVIOUS
<1>1. CASE Pass
  BY <1>1, BeginsKeep
<1>2. ASSUME NEW a \in Actors, TryStep(a) PROVE TypeInv'
  BY <1>2, QuietEndsKeep, StartSendKeeps, VerdictsKeep, SendsKeep DEF TryStep
<1>3. CASE UserStep
  BY <1>3, UserStepKeeps
<1>4. CASE Ack
  BY <1>4, AckKeeps DEF Ack
<1>5. CASE World
  BY <1>5, SessionKeeps, RestartKeeps, QuietEndsKeep DEF World
<1>6. CASE UNCHANGED vars
  <2>1. StoreInv /\ Types /\ Slots
    BY TypeInvParts
  <2> QED BY <1>6, <2>1, StoreUnchanged, SlotsUnchanged, TypeInvParts DEF vars, serviceVars, Types
<1> QED BY <1>1, <1>2, <1>3, <1>4, <1>5, <1>6 DEF Next

\* The invariant holds in every reachable state.
THEOREM TypeInvariant == Spec => []TypeInv
BY InitHolds, NextKeeps, PTL DEF Spec

\* The state keeps its type, in the outbox and in the service.
THEOREM TypeCorrect == Spec => []TypeOK
<1>1. TypeInv => TypeOK
  BY StoreInvImplies DEF TypeInv, TypeOK
<1> QED BY <1>1, TypeInvariant, PTL

\* At most one try is in progress, from a pass or forced, and in_flight names its entry.
THEOREM OneTry == Spec => []OneTryAtATime
<1>1. TypeInv => OneTryAtATime
  BY DEF TypeInv, Slots
<1> QED BY <1>1, TypeInvariant, PTL

\* No try sends a message while its edit prompt is open.
THEOREM HeldStays == Spec => []HeldIsNotTried
<1>1. TypeInv => HeldIsNotTried
  BY DEF TypeInv, Slots
<1> QED BY <1>1, TypeInvariant, PTL

\* What the service does to its store is what the store allows any caller.
LEMMA StepsAreCalls == TypeInv /\ [Next]_vars => [StoreNext]_storeVars
<1> SUFFICES ASSUME TypeInv, [Next]_vars PROVE StoreNext \/ UNCHANGED storeVars
  OBVIOUS
<1>1. /\ Sound(entries, listed, nextId, history) /\ Slots /\ awaiting \in SUBSET Chat
      /\ SaveOutcomes \subseteq BOOLEAN
  BY MemoryLemma, TypeInvParts DEF StoreInv, Types
<1>2. ASSUME NEW i \in Idents, NEW status \in {DELIVERED, GAVE_UP}, NEW saves \in SaveOutcomes,
             Finish(i, status, saves)
      PROVE  StoreNext \/ UNCHANGED storeVars
  <2>1. CASE i \notin listed
    BY <1>2, <2>1 DEF Finish
  <2>2. CASE i \in listed
    BY <1>1, <1>2, <2>2 DEF StoreNext, Sound
  <2> QED BY <2>1, <2>2
<1>3. ASSUME NEW a \in Actors, NEW saves \in SaveOutcomes, StartSend(a, saves)
      PROVE  StoreNext \/ UNCHANGED storeVars
  <2>1. try[a].ident \in Idents
    BY <1>1, <1>3, TryIdent DEF StartSend, Trying
  <2>2. CASE try[a].ident \notin listed
    BY <1>3, <2>2 DEF StartSend, NoteAttempt
  <2>3. CASE try[a].ident \in listed
    BY <1>1, <1>3, <2>1, <2>3 DEF StartSend, StoreNext, Sound
  <2> QED BY <2>2, <2>3
<1>4. ASSUME NEW a \in Actors, NEW saves \in SaveOutcomes, TryUnacked(a, saves) \/ TryAcked(a, saves)
      PROVE  StoreNext \/ UNCHANGED storeVars
  <2>1. try[a].ident \in Idents
    BY <1>1, <1>4, TryIdent DEF TryUnacked, TryAcked, Trying
  <2> QED BY <1>2, <1>4, <2>1 DEF TryUnacked, TryAcked
<1>5. CASE Pass \/ \E a \in Actors : \/ ResolveUnknown(a) \/ Transmit(a) \/ SoftRetry(a) \/ TryFails(a)
  BY <1>5 DEF Pass, ResolveUnknown, Transmit, SoftRetry, TryFails
<1>6. CASE UserStep
  BY <1>1, <1>6 DEF UserStep, AttemptNow, OpenEntry, UserQueues, UserDeletes, CloseEntry,
                    UserClearsDone, StoreNext
<1>7. CASE Ack
  <2>1. PICK i \in Idents, k \in 1..MAX_SENDS, saves \in SaveOutcomes : AckArrives(i, k, saves)
    BY <1>7 DEF Ack
  <2>2. UNCHANGED storeVars \/ DeliveredLate(i, saves)
    BY <2>1 DEF AckArrives, AckInTime, AckUnknown, AckLate
  <2> QED BY <1>2, <2>2 DEF DeliveredLate
<1>8. CASE \/ Start \/ Stop \/ Restart \/ LinkChanges \/ Tick \/ \E node \in Nodes : Hear(node)
  BY <1>8 DEF Start, Stop, Restart, LinkChanges, Tick, Hear, StoreNext
<1>9. CASE UNCHANGED vars
  BY <1>9 DEF vars
<1> QED BY <1>3, <1>4, <1>5, <1>6, <1>7, <1>8, <1>9 DEF Next, TryStep, World

\* The service uses its store only by legal sequences of its operations, so what is proved of
\* the store alone holds of the outbox of the service: no order of tries, acks, edits, failed
\* writes and restarts gives an ident of the file to another message.
THEOREM OutboxIsSound == Spec => []IdentsAreMonotonic /\ IdentsAreSingle
<1>1. Init => StoreInit
  BY DEF Init
<1>2. Spec => StoreSpec
  BY <1>1, StepsAreCalls, TypeInvariant, PTL DEF Spec, StoreSpec
<1> QED BY <1>2, StoreIdentsAreMonotonic, StoreIdentsAreSingle

-----------------------------------------------------------------------------
(* The verdicts. A message is delivered only with an ack, and given up     *)
(* only with its tries spent. Both hold of the file too, because a restart *)
(* makes the file the memory; and the ack of a try that has not resumed    *)
(* yet is one that came.                                                   *)

AckedIn(box) == \A i \in box.listed : box.entries[i].status = DELIVERED => acked[i] # {}

SpentIn(box) ==
  \A i \in box.listed : box.entries[i].status = GAVE_UP => box.entries[i].attempts >= MAX_ATTEMPTS

Verdicts ==
  /\ AckedIn(Memory) /\ AckedIn(disk)
  /\ SpentIn(Memory) /\ SpentIn(disk)
  /\ \A a \in Actors : try[a].pc = "acked" => acked[try[a].ident] # {}

\* What a step may do to the entry i: leave its verdict, or give it a justified one.
Justified(i) ==
  \/ /\ i \in listed /\ entries'[i].status = entries[i].status
     /\ entries'[i].attempts >= entries[i].attempts
  \/ entries'[i].status = QUEUED
  \/ entries'[i].status = DELIVERED /\ acked'[i] # {}
  \/ entries'[i].status = GAVE_UP /\ entries'[i].attempts >= MAX_ATTEMPTS

\* A step that gives justified verdicts keeps them justified, in memory and on disk.
LEMMA VerdictsStep ==
  ASSUME TypeInv, TypeInv', Verdicts,
         \A i \in listed' : Justified(i),
         disk' = disk \/ disk' = Memory',
         \A i \in Idents : acked[i] \subseteq acked'[i],
         \A a \in Actors : try'[a].pc = "acked" =>
           \/ try[a].pc = "acked" /\ try'[a].ident = try[a].ident
           \/ acked'[try'[a].ident] # {}
  PROVE  Verdicts'
<1>1. Sound(entries, listed, nextId, history) /\ Sound(entries', listed', nextId', history')
  BY MemoryLemma, TypeInvParts DEF StoreInv
<1>2. \A i \in Idents : entries[i].attempts \in Nat /\ entries'[i].attempts \in Nat
  BY <1>1 DEF Sound, Entry
<1>3. listed \subseteq Idents /\ listed' \subseteq Idents
  BY <1>1 DEF Sound
<1>4. AckedIn(Memory)'
  <2> SUFFICES ASSUME NEW i \in listed', entries'[i].status = DELIVERED PROVE acked'[i] # {}
    BY DEF AckedIn, Memory
  <2> QED BY <1>3 DEF Justified, Verdicts, AckedIn, Memory, QUEUED, DELIVERED, GAVE_UP
<1>5. SpentIn(Memory)'
  <2> SUFFICES ASSUME NEW i \in listed', entries'[i].status = GAVE_UP
               PROVE  entries'[i].attempts >= MAX_ATTEMPTS
    BY DEF SpentIn, Memory
  <2>1. i \in listed /\ entries[i].status = GAVE_UP => entries[i].attempts >= MAX_ATTEMPTS
    BY DEF Verdicts, SpentIn, Memory
  <2> QED BY <1>2, <1>3, <2>1 DEF Justified, QUEUED, DELIVERED, GAVE_UP
<1>6. disk \in BoxType
  BY TypeInvParts DEF StoreInv, WellFormed
<1>7. AckedIn(disk)'
  BY <1>4, <1>6 DEF Verdicts, AckedIn, BoxType
<1>8. SpentIn(disk)'
  BY <1>5 DEF Verdicts, SpentIn
<1>9. ASSUME NEW a \in Actors, try'[a].pc = "acked" PROVE acked'[try'[a].ident] # {}
  <2>1. CASE try[a].pc = "acked" /\ try'[a].ident = try[a].ident
    <3>1. try[a].ident \in Idents
      BY <2>1, TryIdent, TypeInvParts DEF Trying
    <3> QED BY <2>1, <3>1 DEF Verdicts
  <2> QED BY <1>9, <2>1
<1> QED BY <1>4, <1>5, <1>7, <1>8, <1>9 DEF Verdicts

\* _finish() gives a verdict to one entry only.
LEMMA FinishVerdict ==
  ASSUME StoreInv, NEW i \in Idents, NEW status \in {DELIVERED, GAVE_UP}, NEW saves,
         Finish(i, status, saves),
         status = DELIVERED => acked'[i] # {},
         status = GAVE_UP => entries[i].attempts >= MAX_ATTEMPTS
  PROVE  (\A j \in listed' : Justified(j)) /\ (disk' = disk \/ disk' = Memory')
<1>1. Sound(entries, listed, nextId, history)
  BY MemoryLemma DEF StoreInv
<1>2. \A j \in Idents : entries[j] \in Entry /\ entries[j].attempts \in Nat
  BY <1>1 DEF Sound, Entry
<1>3. CASE i \notin listed
  BY <1>1, <1>2, <1>3 DEF Finish, storeVars, Justified, Sound
<1>4. CASE i \in listed
  <2> DEFINE rest == Without(history, i)
             done == Append(rest, i)
             kept == Newest(done, HISTORY_KEPT)
  <2>1. /\ entries' = [entries EXCEPT ![i].status = status]
        /\ listed' = (listed \ Elements(done)) \cup Elements(kept)
        /\ Save(saves)
    BY <1>4 DEF Finish
  <2>2. rest \in Seq(Idents) /\ Elements(rest) = Elements(history) \ {i}
    BY <1>1, WithoutLemma DEF Sound
  <2> HIDE DEF rest
  <2>3. done \in Seq(Idents) /\ Elements(done) = Elements(history) \cup {i}
    BY <2>2, AppendLemma
  <2> HIDE DEF done
  <2>4. Elements(kept) \subseteq Elements(done)
    BY <2>3, NewestLemma
  <2> HIDE DEF kept
  <2>5. listed' \subseteq listed
    BY <1>1, <1>4, <2>1, <2>3, <2>4 DEF Sound
  <2>6. \A j \in Idents \ {i} : entries'[j] = entries[j]
    BY <1>1, <2>1 DEF Sound
  <2>7. entries'[i].status = status /\ entries'[i].attempts = entries[i].attempts
    BY <1>1, <1>2, <2>1 DEF Sound, Entry
  <2> QED BY <1>1, <1>2, <2>1, <2>5, <2>6, <2>7 DEF Justified, Save, Sound
<1> QED BY <1>3, <1>4

\* A step that gives no verdict.
LEMMA NoVerdict ==
  ASSUME StoreInv, listed' \subseteq listed,
         \A i \in listed' : /\ entries'[i].status = entries[i].status
                            /\ entries'[i].attempts = entries[i].attempts
  PROVE  \A j \in listed' : Justified(j)
<1>1. Sound(entries, listed, nextId, history)
  BY MemoryLemma DEF StoreInv
<1>2. \A j \in listed : entries[j].attempts \in Nat
  BY <1>1 DEF Sound, Entry
<1> QED BY <1>2 DEF Justified

\* note_attempt() gives no verdict, and never lowers the count.
LEMMA NoteAttemptVerdict ==
  ASSUME StoreInv, NEW i \in Idents, NEW saves, NoteAttempt(i, saves)
  PROVE  (\A j \in listed' : Justified(j)) /\ (disk' = disk \/ disk' = Memory')
<1>1. Sound(entries, listed, nextId, history)
  BY MemoryLemma DEF StoreInv
<1>2. \A j \in Idents : entries[j] \in Entry /\ entries[j].attempts \in Nat
  BY <1>1 DEF Sound, Entry
<1>3. CASE i \notin listed
  BY <1>1, <1>2, <1>3 DEF NoteAttempt, storeVars, Justified, Sound
<1>4. CASE i \in listed
  <2>1. entries' = [entries EXCEPT ![i].attempts = @ + 1, ![i].since = 0] /\ listed' = listed
    BY <1>4 DEF NoteAttempt
  <2>2. \A j \in Idents \ {i} : entries'[j] = entries[j]
    BY <1>1, <2>1 DEF Sound
  <2>3. entries'[i].status = entries[i].status /\ entries'[i].attempts = entries[i].attempts + 1
    BY <1>1, <1>2, <2>1 DEF Sound, Entry
  <2> QED BY <1>1, <1>2, <1>4, <2>1, <2>2, <2>3, SMTT(30) DEF NoteAttempt, Justified, Save, Sound
<1> QED BY <1>3, <1>4

\* The operations of the user give no verdict.
LEMMA UserVerdict ==
  ASSUME StoreInv,
         \/ \E node \in Nodes, text \in Texts, delay \in Delays, saves \in BOOLEAN :
              StoreQueue(node, text, delay, saves)
         \/ \E i \in Idents, text \in Texts, saves \in BOOLEAN : EditBody(i, text, saves)
         \/ \E i \in Idents, saves \in BOOLEAN : Delete(i, saves)
         \/ \E saves \in BOOLEAN : ClearDone(saves)
  PROVE  (\A j \in listed' : Justified(j)) /\ (disk' = disk \/ disk' = Memory')
<1>1. Sound(entries, listed, nextId, history)
  BY MemoryLemma DEF StoreInv
<1>2. \A j \in Idents : entries[j] \in Entry
  BY <1>1 DEF Sound
<1>3. ASSUME NEW node \in Nodes, NEW text \in Texts, NEW delay \in Delays, NEW saves \in BOOLEAN,
             StoreQueue(node, text, delay, saves)
      PROVE  (\A j \in listed' : Justified(j)) /\ (disk' = disk \/ disk' = Memory')
  <2>1. entries'[nextId].status = QUEUED
    BY <1>1, <1>3 DEF StoreQueue, NewEntry, Sound
  <2>2. \A j \in Idents \ {nextId} : entries'[j] = entries[j]
    BY <1>1, <1>3 DEF StoreQueue, Sound
  <2> QED BY <1>1, <1>2, <1>3, <2>1, <2>2 DEF StoreQueue, Save, Justified, Sound, Entry
<1>4. ASSUME NEW i \in Idents, NEW text \in Texts, NEW saves \in BOOLEAN, EditBody(i, text, saves)
      PROVE  (\A j \in listed' : Justified(j)) /\ (disk' = disk \/ disk' = Memory')
  <2>1. \A j \in Idents : /\ entries'[j].status = entries[j].status
                          /\ entries'[j].attempts = entries[j].attempts
    BY <1>1, <1>2, <1>4 DEF EditBody, Sound, Entry
  <2> QED BY <1>1, <1>4, <2>1, NoVerdict DEF EditBody, Save, Sound
<1>5. ASSUME NEW i \in Idents, NEW saves \in BOOLEAN, Delete(i, saves)
      PROVE  (\A j \in listed' : Justified(j)) /\ (disk' = disk \/ disk' = Memory')
  BY <1>5, NoVerdict DEF Delete, Save
<1>6. ASSUME NEW saves \in BOOLEAN, ClearDone(saves)
      PROVE  (\A j \in listed' : Justified(j)) /\ (disk' = disk \/ disk' = Memory')
  BY <1>6, NoVerdict DEF ClearDone, Save, Waiting
<1> QED BY <1>3, <1>4, <1>5, <1>6

\* A step that leaves the store alone gives no verdict.
LEMMA QuietVerdict ==
  ASSUME StoreInv, UNCHANGED storeVars
  PROVE  (\A j \in listed' : Justified(j)) /\ (disk' = disk \/ disk' = Memory')
BY NoVerdict DEF storeVars

\* The end of a try leaves no ack unread.
LEMMA EndReads ==
  ASSUME Slots, NEW a \in Actors, Trying(a), End(a), UNCHANGED held
  PROVE  \A b \in Actors : try'[b].pc # "acked"
BY EndKeeps DEF Trying

\* A step of a try gives only justified verdicts.
LEMMA TryVerdicts ==
  ASSUME TypeInv, TypeInv', Verdicts, NEW a \in Actors, TryStep(a) \/ TryFails(a)
  PROVE  Verdicts'
<1>1. StoreInv /\ Types /\ Slots
  BY TypeInvParts
<1>2. Trying(a) /\ UNCHANGED <<held, acked>>
  BY DEF TryStep, TryFails, ResolveUnknown, StartSend, TryUnacked, TryAcked, Transmit, SoftRetry,
         Trying
<1>3. try[a].ident \in Idents /\ try[a] \in Try
  BY <1>1, <1>2, TryIdent
<1>5. CASE ResolveUnknown(a) \/ TryFails(a)
  BY <1>1, <1>2, <1>5, EndReads, QuietVerdict, VerdictsStep DEF ResolveUnknown, TryFails
<1>6. ASSUME NEW saves, StartSend(a, saves) PROVE Verdicts'
  <2>1. (\A j \in listed' : Justified(j)) /\ (disk' = disk \/ disk' = Memory')
    BY <1>1, <1>3, <1>6, NoteAttemptVerdict DEF StartSend
  <2>2. \A b \in Actors : try'[b].pc = "acked" =>
          try[b].pc = "acked" /\ try'[b].ident = try[b].ident
    <3>1. CASE End(a)
      BY <1>1, <1>2, <3>1, EndReads
    <3>2. CASE try' = [try EXCEPT ![a].pc = "sending", ![a].text = entries[try[a].ident].text]
      <4>1. try'[a].pc = "sending" /\ \A b \in Actors \ {a} : try'[b] = try[b]
        BY <1>1, <1>3, <3>2 DEF Slots, Try
      <4> QED BY <4>1
    <3> QED BY <1>6, <3>1, <3>2 DEF StartSend
  <2> QED BY <1>2, <2>1, <2>2, VerdictsStep
<1>7. ASSUME NEW saves, TryUnacked(a, saves) PROVE Verdicts'
  <2>1. (\A j \in listed' : Justified(j)) /\ (disk' = disk \/ disk' = Memory')
    BY <1>1, <1>3, <1>7, FinishVerdict, QuietVerdict DEF TryUnacked, DELIVERED, GAVE_UP
  <2>2. \A b \in Actors : try'[b].pc # "acked"
    BY <1>1, <1>2, <1>7, EndReads DEF TryUnacked
  <2> QED BY <1>2, <2>1, <2>2, VerdictsStep
<1>8. ASSUME NEW saves, TryAcked(a, saves) PROVE Verdicts'
  <2>1. acked'[try[a].ident] # {}
    BY <1>2, <1>8 DEF TryAcked, Verdicts
  <2>2. (\A j \in listed' : Justified(j)) /\ (disk' = disk \/ disk' = Memory')
    BY <1>1, <1>3, <1>8, <2>1, FinishVerdict DEF TryAcked, DELIVERED, GAVE_UP
  <2>3. \A b \in Actors : try'[b].pc # "acked"
    BY <1>1, <1>2, <1>8, EndReads DEF TryAcked
  <2> QED BY <1>2, <2>2, <2>3, VerdictsStep
<1>9. CASE Transmit(a) \/ SoftRetry(a)
  <2>1. \A b \in Actors : try'[b].pc = "acked" =>
          try[b].pc = "acked" /\ try'[b].ident = try[b].ident
    <3>1. CASE Transmit(a)
      <4>1. try'[a].pc = "waiting" /\ \A b \in Actors \ {a} : try'[b] = try[b]
        BY <1>1, <1>3, <3>1 DEF Slots, Transmit, Try
      <4> QED BY <4>1
    <3>2. CASE SoftRetry(a)
      <4>1. try'[a].pc = "sending" /\ \A b \in Actors \ {a} : try'[b] = try[b]
        BY <1>1, <1>3, <3>2 DEF Slots, SoftRetry, Try
      <4> QED BY <4>1
    <3> QED BY <1>9, <3>1, <3>2
  <2> QED BY <1>1, <1>2, <1>9, <2>1, QuietVerdict, VerdictsStep DEF Transmit, SoftRetry
<1> QED BY <1>5, <1>6, <1>7, <1>8, <1>9 DEF TryStep

\* An ack gives the only verdict that it justifies.
LEMMA AckVerdicts ==
  ASSUME TypeInv, TypeInv', Verdicts, NEW i \in Idents, NEW k \in 1..MAX_SENDS, NEW saves,
         AckArrives(i, k, saves)
  PROVE  Verdicts'
<1>1. StoreInv /\ Types /\ Slots
  BY TypeInvParts
<1>2. acked' = [acked EXCEPT ![i] = acked[i] \cup {k}]
  BY DEF AckArrives
<1>3. acked'[i] # {} /\ \A j \in Idents : acked[j] \subseteq acked'[j]
  <2>1. acked \in [Idents -> SUBSET Nat]
    BY <1>1 DEF Types
  <2> QED BY <1>2, <2>1
<1>4. (\A j \in listed' : Justified(j)) /\ (disk' = disk \/ disk' = Memory')
  BY <1>1, <1>3, FinishVerdict, QuietVerdict
     DEF AckArrives, AckInTime, AckLate, AckUnknown, DeliveredLate, storeVars, DELIVERED, GAVE_UP
<1>5. \A a \in Actors : try'[a].pc = "acked" =>
        \/ try[a].pc = "acked" /\ try'[a].ident = try[a].ident
        \/ acked'[try'[a].ident] # {}
  <2>1. CASE AckInTime(i, k)
    <3>1. PICK a \in Actors : WaitsFor(a, i, k) /\ try' = [try EXCEPT ![a].pc = "acked"]
      BY <2>1 DEF AckInTime
    <3>2. try'[a].ident = i /\ \A b \in Actors \ {a} : try'[b] = try[b]
      BY <1>1, <3>1 DEF Slots, WaitsFor, Try
    <3> QED BY <1>3, <3>2
  <2>2. CASE UNCHANGED try
    BY <2>2
  <2> QED BY <2>1, <2>2 DEF AckArrives, AckLate, AckUnknown
<1> QED BY <1>3, <1>4, <1>5, VerdictsStep

\* The begin of a try gives no verdict, and neither does the user.
LEMMA UserVerdicts ==
  ASSUME TypeInv, TypeInv', Verdicts, Pass \/ UserStep
  PROVE  Verdicts'
<1>1. StoreInv /\ Types /\ Slots
  BY TypeInvParts
<1>2. ASSUME UNCHANGED <<try, acked>>,
             (\A j \in listed' : Justified(j)) /\ (disk' = disk \/ disk' = Memory')
      PROVE  Verdicts'
  BY <1>2, VerdictsStep
<1>3. ASSUME NEW a \in Actors, NEW i \in Idents, Begin(a, i), UNCHANGED <<storeVars, acked>>
      PROVE  Verdicts'
  <2>1. try' = [try EXCEPT ![a] = [Idle EXCEPT !.pc = "resolving", !.ident = i]]
    BY <1>3 DEF Begin
  <2>2. \A b \in Actors : try'[b].pc = "acked" =>
          try[b].pc = "acked" /\ try'[b].ident = try[b].ident
    BY <1>1, <2>1, IdleLemma DEF Slots
  <2> QED BY <1>1, <1>3, <2>2, QuietVerdict, VerdictsStep
<1>4. CASE Pass
  <2>1. Candidates \subseteq Idents
    BY <1>1, MemoryLemma DEF Candidates, Waiting, StoreInv, Sound
  <2> QED BY <1>3, <1>4, <2>1 DEF Pass, Actors
<1>5. CASE \E i \in Idents : AttemptNow(i)
  BY <1>3, <1>5 DEF AttemptNow, Actors
<1>6. CASE \E i \in Idents : OpenEntry(i)
  BY <1>1, <1>2, <1>6, QuietVerdict DEF OpenEntry
<1>7. ASSUME NEW saves \in BOOLEAN, NEW i \in Idents, NEW text \in Texts, CloseEntry(i, text, saves)
      PROVE  Verdicts'
  BY <1>1, <1>2, <1>7, QuietVerdict, UserVerdict DEF CloseEntry
<1>8. ASSUME NEW saves \in BOOLEAN, NEW node \in Nodes, NEW text \in Texts, NEW delay \in Delays,
             UserQueues(node, text, delay, saves)
      PROVE  Verdicts'
  BY <1>1, <1>2, <1>8, UserVerdict DEF UserQueues, serviceVars
<1>9. ASSUME NEW saves \in BOOLEAN, NEW i \in Idents, UserDeletes(i, saves) PROVE Verdicts'
  BY <1>1, <1>2, <1>9, UserVerdict DEF UserDeletes, serviceVars
<1>10. ASSUME NEW saves \in BOOLEAN, UserClearsDone(saves) PROVE Verdicts'
  BY <1>1, <1>2, <1>10, UserVerdict DEF UserClearsDone, serviceVars
<1>11. SaveOutcomes \subseteq BOOLEAN
  OBVIOUS
<1> QED BY <1>4, <1>5, <1>6, <1>7, <1>8, <1>9, <1>10, <1>11 DEF UserStep

\* A restart takes the verdicts of the file, and the clock and the session give none.
LEMMA WorldVerdicts ==
  ASSUME TypeInv, TypeInv', Verdicts, World
  PROVE  Verdicts'
<1>1. StoreInv /\ Types /\ Slots
  BY TypeInvParts
<1>2. CASE Restart
  BY <1>2, IdleLemma DEF Restart, Load, Verdicts, AckedIn, SpentIn, Memory
<1>3. CASE Tick
  <2>1. Sound(entries, listed, nextId, history) /\ disk \in BoxType
    BY <1>1, MemoryLemma DEF StoreInv, WellFormed
  <2>2. ASSUME NEW box \in [Idents -> Entry], NEW i \in Idents
        PROVE  Older(box)[i].status = box[i].status /\ Older(box)[i].attempts = box[i].attempts
    BY DEF Older, Entry
  <2>3. /\ entries' = Older(entries) /\ listed' = listed /\ listed \subseteq Idents
        /\ disk'.entries = Older(disk.entries) /\ disk'.listed = disk.listed
        /\ disk.listed \subseteq Idents /\ disk.entries \in [Idents -> Entry]
        /\ entries \in [Idents -> Entry] /\ UNCHANGED <<try, acked>>
    BY <1>3, <2>1 DEF Tick, Age, Sound, BoxType
  <2> QED BY <2>2, <2>3 DEF Verdicts, AckedIn, SpentIn, Memory
<1>4. CASE Stop
  <2>1. \A b \in Actors : try'[b].pc = "acked" =>
          try[b].pc = "acked" /\ try'[b].ident = try[b].ident
    BY <1>1, <1>4, EndReads DEF Stop, Trying, Actors
  <2> QED BY <1>1, <1>4, <2>1, QuietVerdict, VerdictsStep DEF Stop
<1>5. CASE Start \/ LinkChanges \/ \E node \in Nodes : Hear(node)
  BY <1>1, <1>5, QuietVerdict, VerdictsStep DEF Start, LinkChanges, Hear
<1> QED BY <1>2, <1>3, <1>4, <1>5, TryVerdicts DEF World

\* The verdicts are justified in every reachable state.
THEOREM VerdictInvariant == Spec => []Verdicts
<1>1. Init => Verdicts
  <2> SUFFICES ASSUME Init PROVE Verdicts
    OBVIOUS
  <2>1. Memory.listed = {} /\ disk.listed = {}
    BY DEF Init, StoreInit, Memory
  <2>2. \A a \in Actors : try[a].pc = "idle"
    BY IdleLemma DEF Init
  <2> QED BY <2>1, <2>2 DEF Verdicts, AckedIn, SpentIn
<1>2. TypeInv /\ TypeInv' /\ Verdicts /\ [Next]_vars => Verdicts'
  <2> SUFFICES ASSUME TypeInv, TypeInv', Verdicts, [Next]_vars PROVE Verdicts'
    OBVIOUS
  <2>1. CASE UNCHANGED vars
    BY <2>1, QuietVerdict, VerdictsStep, TypeInvParts DEF vars, serviceVars
  <2> QED BY <2>1, TryVerdicts, AckVerdicts, UserVerdicts, WorldVerdicts DEF Next, Ack
<1> QED BY <1>1, <1>2, TypeInvariant, PTL DEF Spec

\* The outbox shows a message as delivered only if an ack of one of its transmissions came.
THEOREM Delivered == Spec => []DeliveredMeansAcked
<1>1. Verdicts => DeliveredMeansAcked
  BY DEF Verdicts, AckedIn, Memory, DeliveredMeansAcked
<1> QED BY <1>1, VerdictInvariant, PTL

\* The courier gives up on a message only after all its tries.
THEOREM GaveUp == Spec => []GaveUpMeansSpent
<1>1. Verdicts => GaveUpMeansSpent
  BY DEF Verdicts, SpentIn, Memory, GaveUpMeansSpent
<1> QED BY <1>1, VerdictInvariant, PTL

-----------------------------------------------------------------------------
(* The tries of a message: what they send, when, and how often. A try may  *)
(* transmit SOFT_RETRIES + 1 times, and that much is reserved for it in    *)
(* the counts of the memory and of the file before its first transmission. *)

Budget(n) == n * (SOFT_RETRIES + 1)

\* What one more manual try may cost.
LEMMA BudgetLemma ==
  ASSUME NEW n \in Nat
  PROVE  Budget(n) \in Nat /\ Budget(n + 1) = Budget(n) + SOFT_RETRIES + 1
<1>1. SOFT_RETRIES \in Nat
  OBVIOUS
<1> QED BY <1>1 DEF Budget

Talks(a) == try[a].pc \in {"sending", "waiting", "acked"}

\* The entry of a try was given out, and if it is not in the list any more, that is on record.
Named ==
  \A a \in Actors : Trying(a) =>
    try[a].ident < nextId /\ (try[a].ident \in listed \/ try[a].ident \in gone)

Rounds ==
  \A a \in Actors :
    /\ try[a].pc = "resolving" => try[a].round = 0
    /\ try[a].pc = "sending" => try[a].round <= SOFT_RETRIES
    /\ try[a].pc \in {"waiting", "acked"} => try[a].round <= SOFT_RETRIES + 1

Bodies ==
  \A a \in Actors : Talks(a) =>
    /\ entries[try[a].ident].text = try[a].text
    /\ try[a].round > 0 =>
         /\ sent[try[a].ident] # <<>>
         /\ sent[try[a].ident][Len(sent[try[a].ident])] = try[a].text

\* The entry that a pass chose keeps its distance from the try before while the device is asked
\* for its contacts.
Spaced ==
  try["loop"].pc = "resolving" =>
    LET e == entries[try["loop"].ident]
    IN e.attempts > 0 => e.since >= Backoff(e.attempts)

\* The transmissions of a message that always was in the list since it was queued.
Counted ==
  \A i \in Idents \ gone :
    /\ i \notin listed => sent[i] = <<>> /\ i \notin disk.listed
    /\ i \in listed => Len(sent[i]) <= Budget(entries[i].attempts)
    /\ i \in disk.listed => Len(sent[i]) <= Budget(disk.entries[i].attempts)

\* What a try in progress may still transmit is counted already.
Reserved ==
  \A a \in Actors : Talks(a) /\ try[a].ident \notin gone =>
    /\ try[a].ident \in disk.listed
    /\ Len(sent[try[a].ident]) + SOFT_RETRIES + 1
         <= Budget(entries[try[a].ident].attempts) + try[a].round
    /\ Len(sent[try[a].ident]) + SOFT_RETRIES + 1
         <= Budget(disk.entries[try[a].ident].attempts) + try[a].round

TriesInv == Named /\ Rounds /\ Bodies /\ Spaced /\ Counted /\ Reserved

\* What a step of the store does: the bodies of the entries outside `edited` and the counts
\* of those outside `counted` stay, new entries are numbered above the old ones, and the file
\* is left alone or becomes the memory.
StoreMove(counted, edited) ==
  /\ nextId' >= nextId
  /\ \A i \in Idents : i < nextId =>
       /\ i \notin edited => entries'[i].text = entries[i].text
       /\ i \notin counted => /\ entries'[i].attempts = entries[i].attempts
                              /\ entries'[i].since = entries[i].since
  /\ \A i \in listed' \ listed : i >= nextId
  /\ Departs
  /\ disk' = disk \/ disk' = Memory'

\* Steps that leave the store.
LEMMA QuietMove == ASSUME StoreInv, UNCHANGED storeVars PROVE StoreMove({}, {})
<1>1. UNCHANGED <<entries, listed, nextId, history, disk, gone>>
  BY DEF storeVars
<1>2. nextId \in Nat
  BY MemoryLemma DEF StoreInv, Sound
<1>3. nextId' >= nextId
  BY <1>1, <1>2
<1> QED BY <1>1, <1>3 DEF StoreMove, Departs

\* A verdict moves the message to the history.
LEMMA FinishMove ==
  ASSUME StoreInv, NEW i \in Idents, NEW status \in {DELIVERED, GAVE_UP}, NEW saves,
         Finish(i, status, saves)
  PROVE  StoreMove({}, {})
<1>1. Sound(entries, listed, nextId, history)
  BY MemoryLemma DEF StoreInv
<1>2. CASE i \notin listed
  BY <1>2, QuietMove DEF Finish
<1>3. CASE i \in listed
  <2> DEFINE rest == Without(history, i)
             done == Append(rest, i)
             kept == Newest(done, HISTORY_KEPT)
  <2>1. /\ entries' = [entries EXCEPT ![i].status = status] /\ nextId' = nextId
        /\ listed' = (listed \ Elements(done)) \cup Elements(kept)
        /\ Save(saves)
    BY <1>3 DEF Finish
  <2>2. rest \in Seq(Idents) /\ Elements(rest) = Elements(history) \ {i}
    BY <1>1, WithoutLemma DEF Sound
  <2> HIDE DEF rest
  <2>3. done \in Seq(Idents) /\ Elements(done) = Elements(history) \cup {i}
    BY <2>2, AppendLemma
  <2> HIDE DEF done
  <2>4. Elements(kept) \subseteq Elements(done)
    BY <2>3, NewestLemma
  <2> HIDE DEF kept
  <2>5. listed' \subseteq listed
    BY <1>1, <1>3, <2>1, <2>3, <2>4 DEF Sound
  <2>6. ASSUME NEW j \in Idents
        PROVE  /\ entries'[j].text = entries[j].text
               /\ entries'[j].attempts = entries[j].attempts
               /\ entries'[j].since = entries[j].since
    BY <1>1, <2>1 DEF Sound, Entry
  <2>7. nextId' >= nextId
    BY <1>1, <2>1 DEF Sound
  <2> QED BY <2>1, <2>5, <2>6, <2>7 DEF StoreMove, Save
<1> QED BY <1>2, <1>3

\* An attempt is counted for a message that still waits.
LEMMA NoteAttemptMove ==
  ASSUME StoreInv, NEW i \in Idents, NEW saves, NoteAttempt(i, saves)
  PROVE  /\ StoreMove({i}, {})
         /\ i \in listed => /\ listed' = listed /\ gone' = gone
                            /\ entries'[i].attempts = entries[i].attempts + 1
                            /\ disk' = IF saves THEN Memory' ELSE disk
         /\ i \notin listed => UNCHANGED storeVars
<1>1. Sound(entries, listed, nextId, history)
  BY MemoryLemma DEF StoreInv
<1>2. CASE i \notin listed
  <2>1. StoreMove({}, {})
    BY <1>2, QuietMove DEF NoteAttempt
  <2> QED BY <1>2, <2>1 DEF StoreMove, NoteAttempt
<1>3. CASE i \in listed
  <2>1. /\ entries' = [entries EXCEPT ![i].attempts = @ + 1, ![i].since = 0]
        /\ UNCHANGED <<listed, nextId, history>> /\ Save(saves)
    BY <1>3 DEF NoteAttempt
  <2>2. \A j \in Idents \ {i} : entries'[j] = entries[j]
    BY <1>1, <2>1 DEF Sound
  <2>3. entries'[i].text = entries[i].text /\ entries'[i].attempts = entries[i].attempts + 1
    BY <1>1, <2>1 DEF Sound, Entry
  <2>4. nextId' >= nextId
    BY <1>1, <2>1 DEF Sound
  <2>5. StoreMove({i}, {})
    BY <2>1, <2>2, <2>3, <2>4 DEF StoreMove, Save
  <2> QED BY <1>3, <2>1, <2>3, <2>5 DEF Save, Departs
<1> QED BY <1>2, <1>3

\* What the user does to the outbox.
LEMMA UserMoves ==
  ASSUME StoreInv, NEW saves
  PROVE  /\ \A node \in Nodes, text \in Texts, delay \in Delays :
              StoreQueue(node, text, delay, saves) => StoreMove({}, {})
         /\ \A i \in Idents, text \in Texts : EditBody(i, text, saves) => StoreMove({}, {i})
         /\ \A i \in Idents : Delete(i, saves) => StoreMove({}, {})
         /\ ClearDone(saves) => StoreMove({}, {})
<1>1. Sound(entries, listed, nextId, history)
  BY MemoryLemma DEF StoreInv
<1>2. nextId \in Nat /\ nextId >= nextId /\ nextId + 1 >= nextId
  BY <1>1 DEF Sound
<1>3. ASSUME NEW node \in Nodes, NEW text \in Texts, NEW delay \in Delays,
             StoreQueue(node, text, delay, saves)
      PROVE  StoreMove({}, {})
  <2>1. \A j \in Idents : j < nextId => entries'[j] = entries[j]
    BY <1>1, <1>2, <1>3 DEF StoreQueue, Sound, Idents
  <2> QED BY <1>2, <1>3, <2>1 DEF StoreQueue, Save, StoreMove
<1>4. ASSUME NEW i \in Idents, NEW text \in Texts, EditBody(i, text, saves)
      PROVE  StoreMove({}, {i})
  <2>1. \A j \in Idents \ {i} : entries'[j] = entries[j]
    BY <1>1, <1>4 DEF EditBody, Sound
  <2>2. entries'[i].attempts = entries[i].attempts /\ entries'[i].since = entries[i].since
    BY <1>1, <1>4 DEF EditBody, Sound, Entry
  <2> QED BY <1>2, <1>4, <2>1, <2>2 DEF EditBody, Save, StoreMove
<1>5. ASSUME NEW i \in Idents, Delete(i, saves) PROVE StoreMove({}, {})
  BY <1>2, <1>5 DEF Delete, Save, StoreMove
<1>6. ClearDone(saves) => StoreMove({}, {})
  BY <1>2 DEF ClearDone, Save, StoreMove, Waiting
<1> QED BY <1>3, <1>4, <1>5, <1>6

\* A step of the store that counts nothing and edits held entries only, while the tries stand
\* still or end.
LEMMA StoreMoveKeeps ==
  ASSUME TypeInv, TypeInv', TriesInv, NEW edited, edited \subseteq held, StoreMove({}, edited),
         UNCHANGED sent,
         \A a \in Actors : try'[a] = try[a] \/ try'[a].pc = "idle"
  PROVE  TriesInv'
<1>1. /\ Sound(entries, listed, nextId, history) /\ Sound(entries', listed', nextId', history')
      /\ Slots
  BY MemoryLemma, TypeInvParts DEF StoreInv
<1>2. /\ \A i \in Idents : entries[i].attempts \in Nat /\ entries'[i].attempts \in Nat
      /\ nextId \in Nat /\ nextId' \in Nat /\ nextId' >= nextId
      /\ \A i \in listed : i < nextId /\ i \in Idents
      /\ \A i \in listed' : i \in Idents
  BY <1>1 DEF Sound, Entry, StoreMove
<1>3. ASSUME NEW a \in Actors, Trying(a)'
      PROVE  /\ try'[a] = try[a] /\ Trying(a)
             /\ try[a].ident \in Idents /\ try[a].ident < nextId
             /\ try[a].ident \in listed \/ try[a].ident \in gone
             /\ try[a].ident \notin held
  <2>1. try'[a] = try[a] /\ Trying(a)
    BY <1>3 DEF Trying
  <2> QED BY <1>1, <2>1, TryIdent DEF TriesInv, Named, Slots, HeldIsNotTried
<1>4. gone' = gone \cup (listed \ listed')
  BY DEF StoreMove, Departs
<1>5. Named'
  <2> SUFFICES ASSUME NEW a \in Actors, Trying(a)'
               PROVE  /\ try'[a].ident < nextId'
                      /\ try'[a].ident \in listed' \/ try'[a].ident \in gone'
    BY DEF Named
  <2> QED BY <1>2, <1>3, <1>4 DEF Idents
<1>6. Rounds'
  BY <1>3 DEF TriesInv, Rounds, Trying
<1>7. Bodies'
  <2> SUFFICES ASSUME NEW a \in Actors, Talks(a)'
               PROVE  /\ entries'[try'[a].ident].text = try'[a].text
                      /\ try'[a].round > 0 =>
                           /\ sent'[try'[a].ident] # <<>>
                           /\ sent'[try'[a].ident][Len(sent'[try'[a].ident])] = try'[a].text
    BY DEF Bodies
  <2>1. Trying(a)' /\ try'[a] = try[a] /\ Talks(a)
    BY <1>3 DEF Trying, Talks
  <2>2. entries'[try[a].ident].text = entries[try[a].ident].text
    BY <1>3, <2>1 DEF StoreMove
  <2> QED BY <2>1, <2>2 DEF TriesInv, Bodies
<1>8. Spaced'
  <2> SUFFICES ASSUME try'["loop"].pc = "resolving",
                      entries'[try'["loop"].ident].attempts > 0
               PROVE  entries'[try'["loop"].ident].since
                        >= Backoff(entries'[try'["loop"].ident].attempts)
    BY DEF Spaced
  <2>1. /\ try'["loop"] = try["loop"] /\ try["loop"].ident \in Idents
        /\ try["loop"].ident < nextId
    BY <1>3 DEF Trying, Actors
  <2>2. /\ entries'[try["loop"].ident].attempts = entries[try["loop"].ident].attempts
        /\ entries'[try["loop"].ident].since = entries[try["loop"].ident].since
    BY <2>1 DEF StoreMove
  <2> QED BY <2>1, <2>2 DEF TriesInv, Spaced
<1>9. \A i \in Idents \ gone' : i \in listed' => Len(sent[i]) <= Budget(entries'[i].attempts)
  <2> SUFFICES ASSUME NEW i \in Idents \ gone', i \in listed'
               PROVE  Len(sent[i]) <= Budget(entries'[i].attempts)
    OBVIOUS
  <2>1. i \notin gone
    BY <1>4
  <2>2. CASE i \in listed
    <3>1. entries'[i].attempts = entries[i].attempts
      BY <1>2, <2>2 DEF StoreMove
    <3> QED BY <2>1, <2>2, <3>1 DEF TriesInv, Counted
  <2>3. CASE i \notin listed
    <3>1. sent[i] = <<>>
      BY <2>1, <2>3 DEF TriesInv, Counted
    <3>2. Len(sent[i]) = 0 /\ Budget(entries'[i].attempts) \in Nat
      BY <1>2, <3>1, BudgetLemma
    <3> QED BY <3>2
  <2> QED BY <2>2, <2>3
<1>10. disk' = disk \/ (disk'.entries = entries' /\ disk'.listed = listed')
  BY DEF StoreMove, Memory
<1>11. Counted'
  <2> SUFFICES ASSUME NEW i \in Idents \ gone'
               PROVE  /\ i \notin listed' => sent[i] = <<>> /\ i \notin disk'.listed
                      /\ i \in listed' => Len(sent[i]) <= Budget(entries'[i].attempts)
                      /\ i \in disk'.listed => Len(sent[i]) <= Budget(disk'.entries[i].attempts)
    BY DEF Counted
  <2>1. i \notin gone /\ (i \in listed => i \in listed')
    BY <1>4
  <2>2. i \notin listed' => sent[i] = <<>> /\ i \notin disk'.listed
    BY <1>10, <2>1 DEF TriesInv, Counted
  <2>3. i \in disk'.listed => Len(sent[i]) <= Budget(disk'.entries[i].attempts)
    BY <1>9, <1>10, <2>1 DEF TriesInv, Counted
  <2> QED BY <1>9, <2>2, <2>3
<1>12. Reserved'
  <2> SUFFICES ASSUME NEW a \in Actors, Talks(a)', try'[a].ident \notin gone'
               PROVE  /\ try'[a].ident \in disk'.listed
                      /\ Len(sent'[try'[a].ident]) + SOFT_RETRIES + 1
                           <= Budget(entries'[try'[a].ident].attempts) + try'[a].round
                      /\ Len(sent'[try'[a].ident]) + SOFT_RETRIES + 1
                           <= Budget(disk'.entries[try'[a].ident].attempts) + try'[a].round
    BY DEF Reserved
  <2> DEFINE i == try[a].ident
  <2>1. /\ try'[a] = try[a] /\ Talks(a) /\ i \in Idents /\ i < nextId
        /\ i \in listed \/ i \in gone
    BY <1>3 DEF Trying, Talks
  <2>2. i \notin gone /\ i \in listed /\ i \in listed'
    BY <1>4, <2>1
  <2>3. entries'[i].attempts = entries[i].attempts
    BY <2>1 DEF StoreMove
  <2> QED BY <1>10, <2>1, <2>2, <2>3 DEF TriesInv, Reserved
<1> QED BY <1>5, <1>6, <1>7, <1>8, <1>11, <1>12 DEF TriesInv

\* The begin of a try, on an entry of the list that a pass found to be eligible.
LEMMA BeginsTries ==
  ASSUME TypeInv, TriesInv, Pass \/ \E i \in Idents : AttemptNow(i)
  PROVE  TriesInv'
<1>1. Slots /\ Sound(entries, listed, nextId, history)
  BY MemoryLemma, TypeInvParts DEF StoreInv
<1>2. PICK a \in Actors, i \in listed :
        /\ inFlight = None /\ Begin(a, i) /\ UNCHANGED <<storeVars, sent>>
        /\ a = "loop" => Eligible(i)
  <2>1. CASE Pass
    <3>1. PICK i \in Candidates : Begin("loop", i)
      BY <2>1 DEF Pass
    <3>2. i \in listed /\ Eligible(i)
      BY DEF Candidates, Waiting
    <3> QED BY <2>1, <3>1, <3>2 DEF Pass, Actors
  <2>2. CASE \E i \in Idents : AttemptNow(i)
    BY <2>2 DEF AttemptNow, Waiting, Actors
  <2> QED BY <2>1, <2>2
<1> DEFINE t == [Idle EXCEPT !.pc = "resolving", !.ident = i]
<1>3. i \in Idents /\ i < nextId
  BY <1>1 DEF Sound
<1>4. t \in Try /\ t.pc = "resolving" /\ t.ident = i
  BY <1>3, IdleLemma
<1>5. t.round = 0
  BY DEF Idle
<1> HIDE DEF t
<1>6. try' = [try EXCEPT ![a] = t]
  BY <1>2 DEF Begin, t
<1>7. try'[a] = t /\ \A b \in Actors : b # a => try'[b] = try[b] /\ ~Trying(b)
  BY <1>1, <1>2, <1>6 DEF Slots, OneTryAtATime
<1>8. UNCHANGED <<entries, listed, nextId, disk, gone, sent>>
  BY <1>2 DEF storeVars
<1>9. \A b \in Actors : ~Talks(b)'
  BY <1>4, <1>7 DEF Talks, Trying
<1>10. Named' /\ Rounds'
  BY <1>2, <1>3, <1>4, <1>5, <1>7, <1>8 DEF TriesInv, Named, Rounds, Trying
<1>11. Bodies' /\ Reserved'
  BY <1>9 DEF Bodies, Reserved
<1>12. Spaced'
  <2>1. CASE a = "loop"
    <3>1. entries[i].attempts > 0 => entries[i].since >= Backoff(entries[i].attempts)
      BY <1>2, <2>1 DEF Eligible
    <3> QED BY <1>4, <1>7, <1>8, <2>1, <3>1 DEF Spaced
  <2>2. CASE a # "loop"
    BY <1>7, <2>2 DEF Spaced, Trying, Actors
  <2> QED BY <2>1, <2>2
<1>13. Counted'
  BY <1>8 DEF TriesInv, Counted
<1> QED BY <1>10, <1>11, <1>12, <1>13 DEF TriesInv

\* The transmissions of a message, in order.
LEMMA SentLemma ==
  ASSUME TypeInv, NEW i \in Idents
  PROVE  sent[i] \in Seq(Texts) /\ Len(sent[i]) \in Nat
<1>1. sent[i] \in Seq(Texts)
  BY TypeInvParts DEF Types
<1> QED BY <1>1

\* A try is counted in the memory and in the file, and then it may transmit; or it ends.
LEMMA StartSendTries ==
  ASSUME TypeInv, TypeInv', TriesInv, NEW a \in Actors, NEW saves, StartSend(a, saves)
  PROVE  TriesInv'
<1> DEFINE i == try[a].ident
<1>1. /\ Sound(entries, listed, nextId, history) /\ Sound(entries', listed', nextId', history')
      /\ StoreInv /\ Slots
  BY MemoryLemma, TypeInvParts DEF StoreInv
<1>2. /\ try[a].pc = "resolving" /\ Trying(a) /\ NoteAttempt(i, saves)
      /\ UNCHANGED <<held, sent>>
  BY DEF StartSend, Trying
<1>3. i \in Idents /\ try[a] \in Try
  BY <1>1, <1>2, TryIdent
<1>4. /\ StoreMove({i}, {})
      /\ i \in listed => /\ listed' = listed /\ gone' = gone
                         /\ entries'[i].attempts = entries[i].attempts + 1
                         /\ disk' = IF saves THEN Memory' ELSE disk
      /\ i \notin listed => UNCHANGED storeVars
  BY <1>1, <1>2, <1>3, NoteAttemptMove
<1>5. /\ \A j \in Idents : entries[j].attempts \in Nat /\ entries'[j].attempts \in Nat
      /\ nextId \in Nat /\ nextId' \in Nat /\ nextId' >= nextId
      /\ i < nextId /\ (i \in listed \/ i \in gone)
      /\ \A j \in listed : j < nextId /\ j \in Idents
      /\ listed' = listed /\ gone' = gone
  <2>1. \A j \in Idents : entries[j].attempts \in Nat /\ entries'[j].attempts \in Nat
    BY <1>1 DEF Sound, Entry
  <2>2. nextId \in Nat /\ nextId' \in Nat /\ \A j \in listed : j < nextId /\ j \in Idents
    BY <1>1 DEF Sound
  <2>3. nextId' >= nextId
    BY <1>4 DEF StoreMove
  <2>4. i < nextId /\ (i \in listed \/ i \in gone)
    BY <1>2 DEF TriesInv, Named
  <2>5. listed' = listed /\ gone' = gone
    BY <1>4 DEF storeVars
  <2> QED BY <2>1, <2>2, <2>3, <2>4, <2>5
<1>6. disk' = disk \/ (disk'.entries = entries' /\ disk'.listed = listed')
  BY <1>4 DEF StoreMove, Memory
<1>7. ASSUME NEW j \in Idents \ gone, j \in listed
      PROVE  Len(sent[j]) <= Budget(entries'[j].attempts)
  <2>1. Len(sent[j]) <= Budget(entries[j].attempts)
    BY <1>7 DEF TriesInv, Counted
  <2>2. CASE j = i
    <3>1. Budget(entries'[i].attempts) = Budget(entries[i].attempts) + SOFT_RETRIES + 1
      BY <1>4, <1>5, <1>7, <2>2, BudgetLemma
    <3>2. Budget(entries[i].attempts) \in Nat /\ Len(sent[j]) \in Nat
      BY <1>3, <1>5, <2>2, BudgetLemma, SentLemma
    <3> QED BY <2>1, <2>2, <3>1, <3>2
  <2>3. CASE j # i
    BY <1>4, <1>5, <1>7, <2>1, <2>3 DEF StoreMove
  <2> QED BY <2>2, <2>3
<1>8. Counted'
  <2> SUFFICES ASSUME NEW j \in Idents \ gone
               PROVE  /\ j \notin listed => sent[j] = <<>> /\ j \notin disk'.listed
                      /\ j \in listed => Len(sent[j]) <= Budget(entries'[j].attempts)
                      /\ j \in disk'.listed => Len(sent[j]) <= Budget(disk'.entries[j].attempts)
    BY <1>2, <1>5 DEF Counted
  <2>1. j \notin listed => sent[j] = <<>> /\ j \notin disk'.listed
    BY <1>5, <1>6 DEF TriesInv, Counted
  <2>2. j \in disk'.listed => Len(sent[j]) <= Budget(disk'.entries[j].attempts)
    BY <1>5, <1>6, <1>7 DEF TriesInv, Counted
  <2> QED BY <1>7, <2>1, <2>2
<1>9. \A b \in Actors : b # a => ~Trying(b)
  BY <1>1, <1>2 DEF Slots, OneTryAtATime
<1>10. CASE End(a)
  <2>1. \A b \in Actors : ~Trying(b)'
    BY <1>1, <1>2, <1>10, EndKeeps
  <2>2. Named' /\ Rounds' /\ Bodies' /\ Spaced' /\ Reserved'
    BY <2>1 DEF Named, Rounds, Bodies, Spaced, Reserved, Trying, Talks, Actors
  <2> QED BY <1>8, <2>2 DEF TriesInv
<1>11. CASE /\ saves \/ i \notin listed
            /\ try' = [try EXCEPT ![a].pc = "sending", ![a].text = entries[i].text]
  <2>1. /\ try'[a].pc = "sending" /\ try'[a].text = entries[i].text /\ try'[a].ident = i
        /\ try'[a].round = try[a].round
        /\ \A b \in Actors : b # a => try'[b] = try[b]
    BY <1>1, <1>3, <1>11 DEF Slots, Try
  <2>2. try[a].round = 0
    BY <1>2 DEF TriesInv, Rounds
  <2>3. \A b \in Actors : Trying(b)' => b = a
    BY <1>9, <2>1 DEF Trying
  <2>4. Named'
    <3>1. i < nextId'
      BY <1>3, <1>5 DEF Idents
    <3> QED BY <1>5, <2>1, <2>3, <3>1 DEF Named
  <2>5. Rounds'
    <3> SUFFICES ASSUME NEW b \in Actors
                 PROVE  /\ try'[b].pc = "resolving" => try'[b].round = 0
                        /\ try'[b].pc = "sending" => try'[b].round <= SOFT_RETRIES
                        /\ try'[b].pc \in {"waiting", "acked"} => try'[b].round <= SOFT_RETRIES + 1
      BY DEF Rounds
    <3> QED BY <2>1, <2>2 DEF TriesInv, Rounds
  <2>6. Bodies'
    <3>1. entries'[i].text = entries[i].text
      BY <1>3, <1>4, <1>5 DEF StoreMove
    <3> QED BY <2>1, <2>2, <2>3, <3>1 DEF Bodies, Talks, Trying
  <2>7. Spaced'
    BY <2>1, <2>3 DEF Spaced, Trying, Actors
  <2>8. Reserved'
    <3> SUFFICES ASSUME i \notin gone
                 PROVE  /\ i \in disk'.listed
                        /\ Len(sent[i]) + SOFT_RETRIES + 1 <= Budget(entries'[i].attempts) + 0
                        /\ Len(sent[i]) + SOFT_RETRIES + 1 <= Budget(disk'.entries[i].attempts) + 0
      BY <1>2, <1>5, <2>1, <2>2, <2>3 DEF Reserved, Talks, Trying
    <3>1. i \in listed /\ saves
      BY <1>5, <1>11
    <3>2. disk'.entries = entries' /\ disk'.listed = listed
      BY <1>4, <1>5, <3>1 DEF Memory
    <3>3. Len(sent[i]) <= Budget(entries[i].attempts)
      BY <1>3, <3>1 DEF TriesInv, Counted
    <3>4. /\ Budget(entries'[i].attempts) = Budget(entries[i].attempts) + SOFT_RETRIES + 1
          /\ Budget(entries[i].attempts) \in Nat
      BY <1>3, <1>4, <1>5, <3>1, BudgetLemma
    <3>5. Len(sent[i]) \in Nat
      BY <1>3, SentLemma
    <3> QED BY <3>1, <3>2, <3>3, <3>4, <3>5
  <2> QED BY <1>8, <2>4, <2>5, <2>6, <2>7, <2>8 DEF TriesInv
<1> QED BY <1>10, <1>11 DEF StartSend

\* A try in its budget has one more transmission left.
LEMMA ReserveLemma ==
  ASSUME NEW n \in Nat, NEW r \in Nat, NEW b \in Nat,
         n + SOFT_RETRIES + 1 <= b + r, r <= SOFT_RETRIES
  PROVE  n + 1 + SOFT_RETRIES + 1 <= b + (r + 1) /\ n + 1 <= b
<1>1. SOFT_RETRIES \in Nat
  OBVIOUS
<1> QED BY <1>1

\* A transmission uses up what is reserved for it, a soft retry is allowed while some is left,
\* and an ack in time ends the wait.
LEMMA MovesTries ==
  ASSUME TypeInv, TypeInv', TriesInv, UNCHANGED storeVars,
         NEW a \in Actors, NEW pc \in {"sending", "waiting", "acked"},
         try[a].pc \in {"sending", "waiting"},
         \A b \in Actors : b # a => try'[b] = try[b],
         try'[a].pc = pc, try'[a].ident = try[a].ident, try'[a].text = try[a].text,
         \/ /\ UNCHANGED sent /\ try'[a].round = try[a].round
            /\ pc = "sending" => try[a].round <= SOFT_RETRIES
            /\ pc = "acked" => try[a].pc = "waiting"
            /\ pc # "waiting"
         \/ /\ sent' = [sent EXCEPT ![try[a].ident] = Append(sent[try[a].ident], try[a].text)]
            /\ try'[a].round = try[a].round + 1
            /\ try[a].pc = "sending" /\ pc = "waiting"
  PROVE  TriesInv'
<1> DEFINE i == try[a].ident
<1>1. /\ Sound(entries, listed, nextId, history) /\ StoreInv /\ Slots
      /\ sent \in [Idents -> Seq(Texts)]
  BY MemoryLemma, TypeInvParts DEF StoreInv, Types
<1>2. Trying(a) /\ Talks(a) /\ i \in Idents /\ try[a] \in Try
  BY <1>1, TryIdent DEF Trying, Talks
<1>3. \A b \in Actors : b # a => ~Trying(b) /\ ~Trying(b)'
  BY <1>1, <1>2 DEF Slots, OneTryAtATime, Trying
<1>4. UNCHANGED <<entries, listed, nextId, disk, gone>>
  BY DEF storeVars
<1>5. /\ \A j \in Idents : entries[j].attempts \in Nat /\ disk.entries[j].attempts \in Nat
      /\ sent[i] \in Seq(Texts) /\ Len(sent[i]) \in Nat
      /\ try[a].round \in Nat /\ try[a].text \in Texts
  <2>1. \A j \in Idents : entries[j].attempts \in Nat
    BY <1>1 DEF Sound, Entry
  <2>2. \A j \in Idents : disk.entries[j].attempts \in Nat
    BY <1>1 DEF StoreInv, WellFormed, BoxType, Entry
  <2>3. sent[i] \in Seq(Texts) /\ Len(sent[i]) \in Nat
    BY <1>2, SentLemma
  <2>4. try[a].round \in Nat /\ try[a].text \in Texts
    BY <1>2 DEF Try
  <2> QED BY <2>1, <2>2, <2>3, <2>4
<1>6. Named'
  BY <1>2, <1>3, <1>4 DEF TriesInv, Named, Trying
<1>7. Rounds'
  <2>1. \A b \in Actors : b # a => try[b].pc = "idle" /\ try'[b].pc = "idle"
    BY <1>3 DEF Trying
  <2>2. /\ try[a].pc = "sending" => try[a].round <= SOFT_RETRIES
        /\ try[a].pc = "waiting" => try[a].round <= SOFT_RETRIES + 1
    BY DEF TriesInv, Rounds
  <2>3. /\ try'[a].pc = "sending" => try'[a].round <= SOFT_RETRIES
        /\ try'[a].pc \in {"waiting", "acked"} => try'[a].round <= SOFT_RETRIES + 1
        /\ try'[a].pc # "resolving"
    BY <1>5, <2>2
  <2> QED BY <2>1, <2>3 DEF Rounds
<1>8. CASE UNCHANGED sent /\ try'[a].round = try[a].round
  <2>1. Bodies'
    BY <1>2, <1>3, <1>4, <1>8 DEF TriesInv, Bodies, Talks, Trying
  <2>2. Spaced'
    BY <1>3 DEF Spaced, Trying, Actors
  <2>3. Counted'
    BY <1>4, <1>8 DEF TriesInv, Counted
  <2>4. Reserved'
    BY <1>2, <1>3, <1>4, <1>8 DEF TriesInv, Reserved, Talks, Trying
  <2> QED BY <1>6, <1>7, <2>1, <2>2, <2>3, <2>4 DEF TriesInv
<1>9. CASE /\ sent' = [sent EXCEPT ![i] = Append(sent[i], try[a].text)]
           /\ try'[a].round = try[a].round + 1
           /\ try[a].pc = "sending" /\ pc = "waiting"
  <2>1. /\ sent'[i] = Append(sent[i], try[a].text)
        /\ \A j \in Idents : j # i => sent'[j] = sent[j]
    BY <1>1, <1>2, <1>9
  <2>2. /\ Len(sent'[i]) = Len(sent[i]) + 1 /\ sent'[i] # <<>>
        /\ sent'[i][Len(sent'[i])] = try[a].text
    <3>1. /\ Len(Append(sent[i], try[a].text)) = Len(sent[i]) + 1
          /\ Append(sent[i], try[a].text)[Len(sent[i]) + 1] = try[a].text
          /\ Append(sent[i], try[a].text) # <<>>
      BY <1>5
    <3> QED BY <2>1, <3>1
  <2>3. Bodies'
    <3>1. entries[i].text = try[a].text
      BY <1>2 DEF TriesInv, Bodies
    <3> QED BY <1>3, <1>4, <2>2, <3>1 DEF Bodies, Talks, Trying
  <2>4. Spaced'
    BY <1>3, <1>9 DEF Spaced, Trying, Actors
  <2>5. ASSUME i \notin gone
        PROVE  /\ i \in disk.listed
               /\ Len(sent'[i]) + SOFT_RETRIES + 1 <= Budget(entries[i].attempts) + try'[a].round
               /\ Len(sent'[i]) + SOFT_RETRIES + 1
                    <= Budget(disk.entries[i].attempts) + try'[a].round
               /\ Len(sent'[i]) <= Budget(entries[i].attempts)
               /\ Len(sent'[i]) <= Budget(disk.entries[i].attempts)
    <3>1. /\ i \in disk.listed
          /\ Len(sent[i]) + SOFT_RETRIES + 1 <= Budget(entries[i].attempts) + try[a].round
          /\ Len(sent[i]) + SOFT_RETRIES + 1 <= Budget(disk.entries[i].attempts) + try[a].round
      BY <1>2, <2>5 DEF TriesInv, Reserved
    <3>2. try[a].round <= SOFT_RETRIES
      BY <1>9 DEF TriesInv, Rounds
    <3>3. Budget(entries[i].attempts) \in Nat /\ Budget(disk.entries[i].attempts) \in Nat
      BY <1>2, <1>5, BudgetLemma
    <3>4. /\ Len(sent[i]) + 1 + SOFT_RETRIES + 1 <= Budget(entries[i].attempts) + (try[a].round + 1)
          /\ Len(sent[i]) + 1 <= Budget(entries[i].attempts)
      BY <1>5, <3>1, <3>2, <3>3, ReserveLemma
    <3>5. /\ Len(sent[i]) + 1 + SOFT_RETRIES + 1
               <= Budget(disk.entries[i].attempts) + (try[a].round + 1)
          /\ Len(sent[i]) + 1 <= Budget(disk.entries[i].attempts)
      BY <1>5, <3>1, <3>2, <3>3, ReserveLemma
    <3> QED BY <1>9, <2>2, <3>1, <3>4, <3>5
  <2>6. Counted'
    <3> SUFFICES ASSUME NEW j \in Idents \ gone
                 PROVE  /\ j \notin listed => sent'[j] = <<>> /\ j \notin disk.listed
                        /\ j \in listed => Len(sent'[j]) <= Budget(entries[j].attempts)
                        /\ j \in disk.listed => Len(sent'[j]) <= Budget(disk.entries[j].attempts)
      BY <1>4 DEF Counted
    <3>1. CASE j # i
      BY <2>1, <3>1 DEF TriesInv, Counted
    <3>2. CASE j = i
      <4>1. i \in listed
        BY <1>2, <3>2 DEF TriesInv, Named
      <4> QED BY <2>5, <3>2, <4>1
    <3> QED BY <3>1, <3>2
  <2>7. Reserved'
    BY <1>3, <1>4, <2>5 DEF Reserved, Talks, Trying
  <2> QED BY <1>6, <1>7, <2>3, <2>4, <2>6, <2>7 DEF TriesInv
<1> QED BY <1>8, <1>9

\* The steps of a try.
LEMMA TryTries ==
  ASSUME TypeInv, TypeInv', TriesInv, NEW a \in Actors, TryStep(a) \/ TryFails(a)
  PROVE  TriesInv'
<1>1. StoreInv /\ Slots /\ StoreInv'
  BY TypeInvParts
<1>2. Trying(a)
  BY DEF TryStep, TryFails, ResolveUnknown, StartSend, TryUnacked, TryAcked, Transmit, SoftRetry,
         Trying
<1>3. try[a].ident \in Idents /\ try[a] \in Try
  BY <1>1, <1>2, TryIdent
<1>4. ASSUME End(a) PROVE \A b \in Actors : try'[b] = try[b] \/ try'[b].pc = "idle"
  BY <1>1, <1>4, IdleLemma DEF End, Slots
<1>5. CASE ResolveUnknown(a) \/ TryFails(a)
  <2>1. End(a) /\ UNCHANGED <<storeVars, sent>>
    BY <1>5 DEF ResolveUnknown, TryFails
  <2> QED BY <1>1, <1>4, <2>1, QuietMove, StoreMoveKeeps
<1>6. ASSUME NEW saves, TryUnacked(a, saves) \/ TryAcked(a, saves) PROVE TriesInv'
  <2>1. End(a) /\ UNCHANGED sent
    BY <1>6 DEF TryUnacked, TryAcked
  <2>2. StoreMove({}, {})
    BY <1>1, <1>3, <1>6, FinishMove, QuietMove DEF TryUnacked, TryAcked
  <2> QED BY <1>4, <2>1, <2>2, StoreMoveKeeps
<1>7. ASSUME NEW saves, StartSend(a, saves) PROVE TriesInv'
  BY <1>7, StartSendTries
<1>8. CASE Transmit(a)
  <2>1. /\ UNCHANGED storeVars /\ try[a].pc = "sending"
        /\ sent' = [sent EXCEPT ![try[a].ident] = Append(sent[try[a].ident], try[a].text)]
    BY <1>8 DEF Transmit
  <2>2. /\ try'[a].pc = "waiting" /\ try'[a].ident = try[a].ident /\ try'[a].text = try[a].text
        /\ try'[a].round = try[a].round + 1
        /\ \A b \in Actors : b # a => try'[b] = try[b]
    BY <1>1, <1>3, <1>8 DEF Transmit, Slots, Try
  <2> QED BY <2>1, <2>2, MovesTries
<1>9. CASE SoftRetry(a)
  <2>1. /\ UNCHANGED <<storeVars, sent>> /\ try[a].pc = "waiting" /\ try[a].round <= SOFT_RETRIES
    BY <1>9 DEF SoftRetry
  <2>2. /\ try'[a].pc = "sending" /\ try'[a].ident = try[a].ident /\ try'[a].text = try[a].text
        /\ try'[a].round = try[a].round
        /\ \A b \in Actors : b # a => try'[b] = try[b]
    BY <1>1, <1>3, <1>9 DEF SoftRetry, Slots, Try
  <2> QED BY <2>1, <2>2, MovesTries
<1> QED BY <1>5, <1>6, <1>7, <1>8, <1>9 DEF TryStep

\* The acks.
LEMMA AckTries ==
  ASSUME TypeInv, TypeInv', TriesInv, NEW i \in Idents, NEW k \in 1..MAX_SENDS, NEW saves,
         AckArrives(i, k, saves)
  PROVE  TriesInv'
<1>1. StoreInv /\ Slots /\ UNCHANGED sent
  BY TypeInvParts DEF AckArrives
<1>2. CASE AckInTime(i, k)
  <2>1. PICK a \in Actors : WaitsFor(a, i, k) /\ try' = [try EXCEPT ![a].pc = "acked"]
    BY <1>2 DEF AckInTime
  <2>2. try[a] \in Try /\ try[a].pc = "waiting"
    BY <1>1, <2>1 DEF Slots, WaitsFor
  <2>3. /\ try'[a].pc = "acked" /\ try'[a].ident = try[a].ident /\ try'[a].text = try[a].text
        /\ try'[a].round = try[a].round
        /\ \A b \in Actors : b # a => try'[b] = try[b]
    BY <1>1, <2>1, <2>2 DEF Slots, Try
  <2> QED BY <1>1, <1>2, <2>2, <2>3, MovesTries DEF AckInTime
<1>3. CASE AckLate(i, k, saves) \/ AckUnknown(i, k)
  <2>1. UNCHANGED try /\ (DeliveredLate(i, saves) \/ UNCHANGED storeVars)
    BY <1>3 DEF AckLate, AckUnknown
  <2>2. StoreMove({}, {})
    BY <1>1, <2>1, FinishMove, QuietMove DEF DeliveredLate
  <2> QED BY <1>1, <2>1, <2>2, StoreMoveKeeps
<1> QED BY <1>2, <1>3 DEF AckArrives

\* The user at the outbox screen. An edit changes an entry that is held.
LEMMA UserTries ==
  ASSUME TypeInv, TypeInv', TriesInv, UserStep
  PROVE  TriesInv'
<1>1. StoreInv
  BY TypeInvParts
<1>2. ASSUME NEW edited, edited \subseteq held, StoreMove({}, edited), UNCHANGED <<sent, try>>
      PROVE  TriesInv'
  BY <1>2, StoreMoveKeeps
<1>3. CASE \E i \in Idents : AttemptNow(i)
  BY <1>3, BeginsTries
<1>4. CASE \E i \in Idents : OpenEntry(i)
  BY <1>1, <1>2, <1>4, QuietMove DEF OpenEntry
<1>5. ASSUME NEW saves, NEW i \in Idents, NEW text \in Texts, CloseEntry(i, text, saves)
      PROVE  TriesInv'
  <2>1. i \in held /\ UNCHANGED <<sent, try>>
    BY <1>5 DEF CloseEntry
  <2>2. StoreMove({}, {i}) \/ StoreMove({}, {})
    BY <1>1, <1>5, UserMoves, QuietMove DEF CloseEntry
  <2> QED BY <1>2, <2>1, <2>2
<1>6. ASSUME NEW saves, NEW node \in Nodes, NEW text \in Texts, NEW delay \in Delays,
             UserQueues(node, text, delay, saves)
      PROVE  TriesInv'
  BY <1>1, <1>2, <1>6, UserMoves DEF UserQueues, serviceVars
<1>7. ASSUME NEW saves, NEW i \in Idents, UserDeletes(i, saves) PROVE TriesInv'
  BY <1>1, <1>2, <1>7, UserMoves DEF UserDeletes, serviceVars
<1>8. ASSUME NEW saves, UserClearsDone(saves) PROVE TriesInv'
  BY <1>1, <1>2, <1>8, UserMoves DEF UserClearsDone, serviceVars
<1> QED BY <1>3, <1>4, <1>5, <1>6, <1>7, <1>8 DEF UserStep

\* A restart takes the counts of the file, and what was only in the memory is on record.
LEMMA RestartTries ==
  ASSUME TypeInv, TypeInv', TriesInv, Restart
  PROVE  TriesInv'
<1>1. \A a \in Actors : try'[a].pc = "idle"
  BY IdleLemma DEF Restart
<1>2. /\ entries' = disk.entries /\ listed' = disk.listed /\ disk' = disk /\ sent' = sent
      /\ gone' = gone \cup (listed \ listed')
  BY DEF Restart, Load, Departs
<1>3. Named' /\ Rounds' /\ Bodies' /\ Spaced' /\ Reserved'
  BY <1>1 DEF Named, Rounds, Bodies, Spaced, Reserved, Trying, Talks, Actors
<1>4. Counted'
  <2> SUFFICES ASSUME NEW i \in Idents \ gone'
               PROVE  /\ i \notin listed' => sent[i] = <<>> /\ i \notin disk.listed
                      /\ i \in disk.listed => Len(sent[i]) <= Budget(disk.entries[i].attempts)
    BY <1>2 DEF Counted
  <2>1. i \notin gone /\ (i \in listed => i \in listed')
    BY <1>2
  <2> QED BY <1>2, <2>1 DEF TriesInv, Counted
<1> QED BY <1>3, <1>4 DEF TriesInv

\* The clock only makes the last try of an entry older.
LEMMA TickTries ==
  ASSUME TypeInv, TypeInv', TriesInv, Tick
  PROVE  TriesInv'
<1>1. /\ Sound(entries, listed, nextId, history) /\ disk \in BoxType /\ Slots
  BY MemoryLemma, TypeInvParts DEF StoreInv, WellFormed
<1>2. /\ entries' = Older(entries) /\ UNCHANGED <<listed, nextId, gone, sent, try>>
      /\ disk'.entries = Older(disk.entries) /\ disk'.listed = disk.listed
  BY <1>1 DEF Tick, Age, BoxType
<1>3. ASSUME NEW box \in [Idents -> Entry], NEW i \in Idents
      PROVE  /\ Older(box)[i].text = box[i].text /\ Older(box)[i].attempts = box[i].attempts
             /\ Older(box)[i].since = box[i].since \/ Older(box)[i].since = box[i].since + 1
  BY DEF Older, Entry
<1>4. ASSUME NEW i \in Idents
      PROVE  /\ entries'[i].text = entries[i].text
             /\ entries'[i].attempts = entries[i].attempts
             /\ entries'[i].since = entries[i].since \/ entries'[i].since = entries[i].since + 1
             /\ disk'.entries[i].attempts = disk.entries[i].attempts
             /\ entries[i].since \in Nat /\ entries[i].attempts \in Nat
  <2>1. entries \in [Idents -> Entry] /\ disk.entries \in [Idents -> Entry]
    BY <1>1 DEF Sound, BoxType
  <2>2. entries[i].since \in Nat /\ entries[i].attempts \in Nat
    BY <2>1 DEF Entry
  <2> QED BY <1>2, <1>3, <2>1, <2>2
<1>5. \A a \in Actors : Trying(a) => try[a].ident \in Idents
  BY <1>1, TryIdent
<1>6. Named' /\ Rounds'
  BY <1>2 DEF TriesInv, Named, Rounds, Trying
<1>7. Bodies'
  BY <1>2, <1>4, <1>5 DEF TriesInv, Bodies, Talks, Trying
<1>8. Spaced'
  <2> DEFINE i == try["loop"].ident
  <2> SUFFICES ASSUME try["loop"].pc = "resolving", entries'[i].attempts > 0
               PROVE  entries'[i].since >= Backoff(entries'[i].attempts)
    BY <1>2 DEF Spaced
  <2>1. i \in Idents
    BY <1>5 DEF Trying, Actors
  <2>2. entries[i].attempts \in Nat /\ entries[i].attempts > 0 /\ entries[i].since \in Nat
    BY <1>4, <2>1
  <2>3. entries[i].since >= Backoff(entries[i].attempts)
    BY <2>2 DEF TriesInv, Spaced
  <2>4. Backoff(entries[i].attempts) \in Int
    <3>1. entries[i].attempts - 1 \in Nat
      BY <2>2
    <3>2. 2 ^ (entries[i].attempts - 1) \in Int
      BY <3>1
    <3>3. BACKOFF_BASE_S \in Nat /\ BACKOFF_CAP_S \in Nat
      OBVIOUS
    <3> QED BY <3>2, <3>3 DEF Backoff
  <2> HIDE DEF i
  <2>5. entries'[i].since >= entries[i].since /\ entries'[i].since \in Nat
    BY <1>4, <2>1, <2>2
  <2>6. entries'[i].attempts = entries[i].attempts
    BY <1>4, <2>1
  <2> QED BY <2>2, <2>3, <2>4, <2>5, <2>6
<1>9. Counted'
  BY <1>2, <1>4 DEF TriesInv, Counted
<1>10. Reserved'
  BY <1>2, <1>4, <1>5 DEF TriesInv, Reserved, Talks, Trying
<1> QED BY <1>6, <1>7, <1>8, <1>9, <1>10 DEF TriesInv

\* The other steps of the session and the link.
LEMMA WorldTries ==
  ASSUME TypeInv, TypeInv', TriesInv, World
  PROVE  TriesInv'
<1>1. StoreInv /\ Slots
  BY TypeInvParts
<1>2. CASE Start \/ LinkChanges \/ (\E node \in Nodes : Hear(node)) \/ Stop
  <2>1. UNCHANGED <<storeVars, sent>>
    BY <1>2 DEF Start, LinkChanges, Hear, Stop
  <2>2. \A b \in Actors : try'[b] = try[b] \/ try'[b].pc = "idle"
    BY <1>1, <1>2, IdleLemma DEF Start, LinkChanges, Hear, Stop, End, Slots
  <2> QED BY <1>1, <2>1, <2>2, QuietMove, StoreMoveKeeps
<1> QED BY <1>2, RestartTries, TickTries, TryTries DEF World

\* The tries are in order in every reachable state.
THEOREM TriesInvariant == Spec => []TriesInv
<1>1. Init => TriesInv
  <2> SUFFICES ASSUME Init PROVE TriesInv
    OBVIOUS
  <2>1. \A a \in Actors : try[a].pc = "idle"
    BY IdleLemma DEF Init
  <2>2. Named /\ Rounds /\ Bodies /\ Spaced /\ Reserved
    BY <2>1 DEF Named, Rounds, Bodies, Spaced, Reserved, Trying, Talks, Actors
  <2>3. Counted
    BY DEF Init, StoreInit, Memory, Counted
  <2> QED BY <2>2, <2>3 DEF TriesInv
<1>2. TypeInv /\ TypeInv' /\ TriesInv /\ [Next]_vars => TriesInv'
  <2> SUFFICES ASSUME TypeInv, TypeInv', TriesInv, [Next]_vars PROVE TriesInv'
    OBVIOUS
  <2>1. CASE UNCHANGED vars
    <3>1. StoreInv /\ UNCHANGED <<storeVars, sent, try>>
      BY <2>1, TypeInvParts DEF vars, serviceVars
    <3> QED BY <3>1, QuietMove, StoreMoveKeeps
  <2> QED BY <2>1, BeginsTries, TryTries, AckTries, UserTries, WorldTries DEF Next, Ack
<1> QED BY <1>1, <1>2, TypeInvariant, PTL DEF Spec

\* The body of a message does not change while a try sends it, and each soft retry sends what
\* the first round sent: an edit needs the open prompt of the entry, and a held entry is not
\* tried.
THEOREM BodyStays == Spec => []BodyFixedDuringTry
<1>1. TriesInv => BodyFixedDuringTry
  BY DEF TriesInv, Bodies, BodyFixedDuringTry, Talks
<1> QED BY <1>1, TriesInvariant, PTL

\* The file has counted each try of a message before its first transmission, whatever writes
\* fail and whenever the process ends: a message is transmitted at most once per soft round of
\* each try that the file knows.
THEOREM BudgetHolds == Spec => []BudgetSurvivesCrash
<1>1. TypeInv /\ TriesInv => BudgetSurvivesCrash
  <2> SUFFICES ASSUME TypeInv, TriesInv, NEW i \in disk.listed \ gone
               PROVE  Len(sent[i]) <= disk.entries[i].attempts * (SOFT_RETRIES + 1)
    BY DEF BudgetSurvivesCrash
  <2>1. i \in Idents
    BY TypeInvParts DEF StoreInv, WellFormed, BoxType
  <2> QED BY <2>1 DEF TriesInv, Counted, Budget
<1> QED BY <1>1, TypeInvariant, TriesInvariant, PTL

\* A try that the courier counts by itself comes a full backoff after the last one, although
\* the eligibility was looked at before the await on the contact list.
THEOREM AutomaticTriesKeepDistance == Spec => AutomaticTriesAreSpaced
<1> DEFINE Far(i) == \/ entries[i].since >= BACKOFF_CAP_S
                     \/ entries[i].since >= BACKOFF_BASE_S * 2 ^ (entries[i].attempts - 1)
           Again(i) == /\ try["loop"].ident = i /\ entries'[i].attempts = entries[i].attempts + 1
                       /\ try["loop"].pc = "resolving" /\ try["user"].pc = "idle"
                       /\ entries[i].attempts > 0
<1>1. TriesInv => \A i \in listed : Again(i) => Far(i)
  BY DEF TriesInv, Spaced, Backoff
<1> QED BY <1>1, TriesInvariant, PTL DEF AutomaticTriesAreSpaced

-----------------------------------------------------------------------------
(* The acks of a message. The codes of two tries of one message are apart, *)
(* because a code names one transmission; and the code a send waits for is *)
(* the newest, and has not come. So the ack of a code finds one filed      *)
(* message at most, and what remains filed has its last code to come.      *)

CodesOf(i) == 1..Len(sent[i])

\* A filed message: its codes are of transmissions, and the last of them has not come.
Lasts ==
  \A c \in awaiting :
    /\ c.codes \subseteq CodesOf(c.ident)
    /\ \E k \in c.codes : k \notin acked[c.ident] /\ \A j \in c.codes : j <= k

Apart == \A c, d \in awaiting : c.ident = d.ident /\ c # d => c.codes \cap d.codes = {}

\* The codes of a try that a filed message does not have.
Fresh(a) ==
  /\ try[a].codes \subseteq CodesOf(try[a].ident)
  /\ \A c \in awaiting : c.ident = try[a].ident => c.codes \cap try[a].codes = {}

Waits(a) == try[a].pc = "waiting" =>
  Len(sent[try[a].ident]) \in try[a].codes \ acked[try[a].ident]

Came == \A i \in Idents : acked[i] \subseteq CodesOf(i)

Filed == Lasts /\ Apart /\ Came /\ \A a \in Actors : Trying(a) => Fresh(a) /\ Waits(a)

\* A step in which nothing is sent, filed or heard keeps the table.
LEMMA FiledSame ==
  ASSUME Filed, UNCHANGED <<awaiting, sent, acked>>,
         \A a \in Actors : Trying(a)' =>
           \/ /\ Trying(a) /\ try'[a].ident = try[a].ident /\ try'[a].codes = try[a].codes
              /\ try'[a].pc = "waiting" => try[a].pc = "waiting"
           \/ try'[a].codes = {} /\ try'[a].pc # "waiting"
  PROVE  Filed'
<1>1. Lasts' /\ Apart' /\ Came'
  BY DEF Filed, Lasts, Apart, Came, CodesOf
<1>2. ASSUME NEW a \in Actors, Trying(a)' PROVE Fresh(a)' /\ Waits(a)'
  <2>1. CASE try'[a].codes = {} /\ try'[a].pc # "waiting"
    BY <2>1 DEF Fresh, Waits
  <2>2. CASE /\ Trying(a) /\ try'[a].ident = try[a].ident /\ try'[a].codes = try[a].codes
             /\ try'[a].pc = "waiting" => try[a].pc = "waiting"
    <3>1. Fresh(a) /\ Waits(a)
      BY <2>2 DEF Filed
    <3> QED BY <2>2, <3>1 DEF Fresh, Waits, CodesOf
  <2> QED BY <1>2, <2>1, <2>2
<1> QED BY <1>1, <1>2 DEF Filed

\* A try that begins has no codes.
LEMMA BeginCodes ==
  \A i \in Idents : LET t == [Idle EXCEPT !.pc = "resolving", !.ident = i]
                    IN t.codes = {} /\ t.pc = "resolving"
BY DEF Idle

\* A begin leaves the other actor as it was.
LEMMA BeginFiled ==
  ASSUME TypeInv, Filed, Pass \/ \E i \in Idents : AttemptNow(i)
  PROVE  Filed'
<1>1. StoreInv /\ Slots
  BY TypeInvParts
<1>2. UNCHANGED <<awaiting, sent, acked>>
  BY DEF Pass, AttemptNow
<1>3. PICK a \in Actors, i \in Idents : Begin(a, i)
  <2>1. Candidates \subseteq Idents
    BY <1>1, MemoryLemma DEF Candidates, Waiting, StoreInv, Sound
  <2> QED BY <2>1 DEF Pass, AttemptNow, Actors
<1> DEFINE t == [Idle EXCEPT !.pc = "resolving", !.ident = i]
<1>4. t.codes = {} /\ t.pc = "resolving"
  BY BeginCodes
<1>5. try' = [try EXCEPT ![a] = t]
  BY <1>3 DEF Begin
<1> HIDE DEF t
<1>6. try'[a] = t /\ \A b \in Actors : b # a => try'[b] = try[b]
  BY <1>1, <1>5 DEF Slots
<1> QED BY <1>2, <1>4, <1>6, FiledSame DEF Trying

\* The end of a try leaves no try.
LEMMA EndFiled ==
  ASSUME TypeInv, TypeInv', NEW a \in Actors, Trying(a), End(a)
  PROVE  \A b \in Actors : ~Trying(b)'
BY EndKeeps, TypeInvParts, IdleLemma DEF End, Slots, OneTryAtATime, Trying

\* A transmission has a code that no one knows yet.
LEMMA TransmitFiled ==
  ASSUME TypeInv, TypeInv', Filed, NEW a \in Actors, Transmit(a)
  PROVE  Filed'
<1>1. Slots /\ Types /\ Trying(a)
  BY TypeInvParts DEF Transmit, Trying
<1>2. PICK i \in Idents : i = try[a].ident /\ try[a] \in Try
  BY <1>1, TryIdent
<1>3. sent \in [Idents -> Seq(Texts)] /\ awaiting \in SUBSET Chat
  BY <1>1 DEF Types
<1>4. PICK n \in Nat : n = Len(sent[i])
  BY <1>3
<1>5. /\ sent'[i] = Append(sent[i], try[a].text)
      /\ \A j \in Idents : j # i => sent'[j] = sent[j]
      /\ UNCHANGED <<awaiting, acked>>
  BY <1>2, <1>3 DEF Transmit
<1>6. Len(sent'[i]) = n + 1
  BY <1>2, <1>3, <1>4, <1>5, SentLemma
<1>7. /\ try'[a].pc = "waiting" /\ try'[a].ident = i
      /\ try'[a].codes = try[a].codes \cup {n + 1}
  BY <1>1, <1>2, <1>4 DEF Transmit, Slots, Try
<1>8. \A b \in Actors : Trying(b)' => b = a
  BY <1>7, TypeInvParts DEF Slots, OneTryAtATime, Trying
<1>9. \A j \in Idents : CodesOf(j) \subseteq CodesOf(j)'
  <2> SUFFICES ASSUME NEW j \in Idents PROVE CodesOf(j) \subseteq CodesOf(j)'
    OBVIOUS
  <2>1. CASE j = i
    BY <1>4, <1>6, <2>1 DEF CodesOf
  <2>2. CASE j # i
    BY <1>5, <2>2 DEF CodesOf
  <2> QED BY <2>1, <2>2
<1>10. CodesOf(i) = 1..n /\ CodesOf(i)' = 1..(n + 1)
  BY <1>4, <1>6 DEF CodesOf
<1>11. n + 1 \notin CodesOf(i)
  BY <1>4, <1>10
<1>12. Lasts' /\ Apart' /\ Came'
  <2>1. \A c \in awaiting : c.ident \in Idents
    BY <1>3 DEF Chat
  <2>2. Lasts'
    BY <1>5, <1>9, <2>1 DEF Filed, Lasts
  <2> QED BY <1>5, <1>9, <2>2 DEF Filed, Apart, Came
<1>13. Fresh(a)
  BY <1>1 DEF Filed
<1>14. Fresh(a)'
  <2>1. try'[a].codes \subseteq CodesOf(i)'
    BY <1>2, <1>4, <1>7, <1>9, <1>10, <1>13 DEF Fresh
  <2>2. ASSUME NEW c \in awaiting, c.ident = i PROVE c.codes \cap try'[a].codes = {}
    <3>1. c.codes \subseteq CodesOf(i) /\ c.codes \cap try[a].codes = {}
      BY <1>2, <1>13, <2>2 DEF Filed, Lasts, Fresh
    <3> QED BY <1>7, <1>11, <3>1
  <2> QED BY <1>5, <1>7, <2>1, <2>2 DEF Fresh
<1>15. Waits(a)'
  <2>1. n + 1 \notin acked[i]
    BY <1>2, <1>11 DEF Filed, Came
  <2> QED BY <1>5, <1>6, <1>7, <2>1 DEF Waits
<1> QED BY <1>8, <1>12, <1>14, <1>15 DEF Filed

\* The message of an unacked try is filed with all its codes, the last of which has not come.
LEMMA UnackedFiled ==
  ASSUME TypeInv, TypeInv', Filed, NEW a \in Actors, NEW saves, TryUnacked(a, saves)
  PROVE  Filed'
<1> DEFINE i == try[a].ident
           chat == [ident |-> i, codes |-> try[a].codes]
<1>1. /\ Trying(a) /\ try[a].pc = "waiting" /\ End(a) /\ UNCHANGED <<sent, acked>>
      /\ awaiting' = awaiting \cup {chat}
  BY DEF TryUnacked, Trying
<1>2. i \in Idents /\ Types
  BY <1>1, TypeInvParts, TryIdent
<1>3. Fresh(a) /\ Waits(a)
  BY <1>1 DEF Filed
<1>4. chat.ident = i /\ chat.codes = try[a].codes
  OBVIOUS
<1> HIDE DEF chat
<1>5. Lasts'
  <2>1. Len(sent[i]) \in Nat
    <3>1. sent \in [Idents -> Seq(Texts)]
      BY <1>2 DEF Types
    <3> QED BY <1>2, <3>1
  <2>2. chat.codes \subseteq CodesOf(i)
    BY <1>3, <1>4 DEF Fresh
  <2>3. Len(sent[i]) \in chat.codes /\ Len(sent[i]) \notin acked[i]
    BY <1>1, <1>3, <1>4 DEF Waits
  <2>4. \A j \in chat.codes : j <= Len(sent[i])
    BY <2>1, <2>2 DEF CodesOf
  <2>5. \E k \in chat.codes : k \notin acked[i] /\ \A j \in chat.codes : j <= k
    BY <2>3, <2>4
  <2> HIDE DEF i
  <2> QED BY <1>1, <1>4, <2>2, <2>5 DEF Filed, Lasts, CodesOf
<1>6. Apart'
  <2>1. \A c \in awaiting : c.ident = i => c.codes \cap chat.codes = {}
    BY <1>3, <1>4 DEF Fresh
  <2> HIDE DEF i
  <2> QED BY <1>1, <1>4, <2>1 DEF Filed, Apart
<1>7. Came'
  BY <1>1 DEF Filed, Came, CodesOf
<1> QED BY <1>1, <1>5, <1>6, <1>7, EndFiled DEF Filed

\* An ack ends the wait for it, or takes the one filed message that has it off the table, or
\* is of no code that anyone waits for.
LEMMA AckFiled ==
  ASSUME TypeInv, TypeInv', Filed, NEW i \in Idents, NEW k \in 1..MAX_SENDS, NEW saves,
         AckArrives(i, k, saves)
  PROVE  Filed'
<1>1. Slots /\ Types
  BY TypeInvParts
<1>2. /\ k \in CodesOf(i) /\ UNCHANGED sent
      /\ acked'[i] = acked[i] \cup {k}
      /\ \A j \in Idents : j # i => acked'[j] = acked[j]
  BY <1>1 DEF AckArrives, CodesOf, Types
<1>3. Came'
  BY <1>2 DEF Filed, Came, CodesOf
<1>4. awaiting \in SUBSET Chat
  BY <1>1 DEF Types
<1>5. ASSUME awaiting' \subseteq awaiting,
             \A c \in awaiting' : c.ident = i => k \notin c.codes
      PROVE  Lasts' /\ Apart'
  <2>1. Lasts'
    <3> SUFFICES ASSUME NEW c \in awaiting'
                 PROVE  /\ c.codes \subseteq CodesOf(c.ident)
                        /\ \E m \in c.codes : m \notin acked'[c.ident] /\ \A j \in c.codes : j <= m
      BY <1>2 DEF Lasts, CodesOf
    <3>1. c \in awaiting /\ c.ident \in Idents
      BY <1>4, <1>5 DEF Chat
    <3>2. PICK m \in c.codes : m \notin acked[c.ident] /\ \A j \in c.codes : j <= m
      BY <3>1 DEF Filed, Lasts
    <3>3. m \notin acked'[c.ident]
      BY <1>2, <1>5, <3>1, <3>2
    <3> QED BY <3>1, <3>2, <3>3 DEF Filed, Lasts
  <2> QED BY <1>5, <2>1 DEF Filed, Apart
<1>6. CASE AckInTime(i, k)
  <2>1. PICK a \in Actors : WaitsFor(a, i, k) /\ try' = [try EXCEPT ![a].pc = "acked"]
    BY <1>6 DEF AckInTime
  <2>2. awaiting' = awaiting /\ Trying(a) /\ try[a].ident = i /\ try[a].pc = "waiting"
        /\ k = Len(sent[i])
    BY <1>6, <2>1 DEF AckInTime, WaitsFor, Trying
  <2>3. try'[a].pc = "acked" /\ try'[a].ident = i /\ try'[a].codes = try[a].codes
    BY <1>1, <2>1, <2>2 DEF Slots, Try
  <2>4. \A b \in Actors : Trying(b)' => b = a
    BY <2>3, TypeInvParts DEF Slots, OneTryAtATime, Trying
  <2>5. Fresh(a) /\ k \in try[a].codes
    BY <2>2 DEF Filed, Waits
  <2>6. Lasts' /\ Apart'
    BY <1>5, <2>2, <2>5 DEF Fresh
  <2>7. Fresh(a)' /\ Waits(a)'
    BY <1>2, <2>2, <2>3, <2>5 DEF Fresh, Waits, CodesOf
  <2> QED BY <1>3, <2>4, <2>6, <2>7 DEF Filed
<1>7. ASSUME awaiting' \subseteq awaiting, UNCHANGED try,
             \A c \in awaiting' : c.ident = i => k \notin c.codes,
             \A a \in Actors : ~WaitsFor(a, i, k)
      PROVE  Filed'
  <2>1. ASSUME NEW a \in Actors, Trying(a)' PROVE Fresh(a)' /\ Waits(a)'
    <3>1. Trying(a) /\ Fresh(a) /\ Waits(a)
      BY <1>7, <2>1 DEF Filed, Trying
    <3>2. try[a].ident \in Idents
      BY <1>1, <3>1, TryIdent
    <3>3. Fresh(a)'
      BY <1>2, <1>7, <3>1 DEF Fresh, CodesOf
    <3>4. try[a].pc = "waiting" /\ try[a].ident = i => k # Len(sent[i])
      BY <1>7 DEF WaitsFor
    <3> QED BY <1>2, <1>7, <3>1, <3>2, <3>3, <3>4 DEF Waits
  <2> QED BY <1>3, <1>5, <1>7, <2>1 DEF Filed
<1>8. CASE AckUnknown(i, k)
  BY <1>7, <1>8 DEF AckUnknown
<1>9. CASE AckLate(i, k, saves)
  <2>1. PICK chat \in awaiting : chat.ident = i /\ k \in chat.codes /\ awaiting' = awaiting \ {chat}
    BY <1>9 DEF AckLate
  <2>2. \A c \in awaiting' : c.ident = i => k \notin c.codes
    BY <2>1 DEF Filed, Apart
  <2>3. ASSUME NEW a \in Actors, WaitsFor(a, i, k) PROVE FALSE
    <3>1. Fresh(a) /\ Waits(a) /\ try[a].ident = i /\ try[a].pc = "waiting" /\ k = Len(sent[i])
      BY <2>3 DEF Filed, WaitsFor, Trying
    <3> QED BY <2>1, <3>1 DEF Fresh, Waits
  <2> QED BY <1>7, <1>9, <2>1, <2>2, <2>3 DEF AckLate
<1> QED BY <1>6, <1>8, <1>9 DEF AckArrives

\* The other steps of a try.
LEMMA TryFiled ==
  ASSUME TypeInv, TypeInv', Filed, NEW a \in Actors, TryStep(a) \/ TryFails(a)
  PROVE  Filed'
<1>1. Slots
  BY TypeInvParts
<1>2. Trying(a)
  BY DEF TryStep, TryFails, ResolveUnknown, StartSend, TryUnacked, TryAcked, Transmit, SoftRetry,
         Trying
<1>3. try[a] \in Try
  BY <1>1 DEF Slots
<1>4. ASSUME End(a), UNCHANGED <<awaiting, sent, acked>> PROVE Filed'
  BY <1>2, <1>4, EndFiled, FiledSame
<1>5. CASE ResolveUnknown(a) \/ TryFails(a)
  BY <1>4, <1>5 DEF ResolveUnknown, TryFails
<1>6. ASSUME NEW saves, TryAcked(a, saves) PROVE Filed'
  BY <1>4, <1>6 DEF TryAcked
<1>7. ASSUME NEW pc, NEW text, pc # "waiting", UNCHANGED <<awaiting, sent, acked>>,
             try' = [try EXCEPT ![a].pc = pc, ![a].text = text]
      PROVE  Filed'
  <2>1. try'[a].codes = try[a].codes /\ try'[a].ident = try[a].ident /\ try'[a].pc = pc
    BY <1>1, <1>3, <1>7 DEF Slots, Try
  <2>2. \A b \in Actors : b # a => try'[b] = try[b]
    BY <1>1, <1>7 DEF Slots
  <2> QED BY <1>2, <1>7, <2>1, <2>2, FiledSame DEF Trying
<1>8. ASSUME NEW saves, StartSend(a, saves) PROVE Filed'
  BY <1>4, <1>7, <1>8 DEF StartSend
<1>9. CASE SoftRetry(a)
  <2>1. try' = [try EXCEPT ![a].pc = "sending"] /\ UNCHANGED <<awaiting, sent, acked>>
    BY <1>9 DEF SoftRetry
  <2>2. try'[a].codes = try[a].codes /\ try'[a].ident = try[a].ident /\ try'[a].pc = "sending"
    BY <1>1, <1>3, <2>1 DEF Slots, Try
  <2>3. \A b \in Actors : b # a => try'[b] = try[b]
    BY <1>1, <2>1 DEF Slots
  <2> QED BY <1>2, <2>1, <2>2, <2>3, FiledSame DEF Trying
<1> QED BY <1>5, <1>6, <1>8, <1>9, TransmitFiled, UnackedFiled DEF TryStep

\* The user, the session and the clock.
LEMMA OthersFiled ==
  ASSUME TypeInv, TypeInv', Filed, UserStep \/ World
  PROVE  Filed'
<1>1. Slots
  BY TypeInvParts
<1>2. ASSUME UNCHANGED <<try, awaiting, sent, acked>> PROVE Filed'
  BY <1>2, FiledSame DEF Trying
<1>3. CASE \E i \in Idents : AttemptNow(i)
  BY <1>3, BeginFiled
<1>4. CASE UserStep /\ ~\E i \in Idents : AttemptNow(i)
  BY <1>2, <1>4
     DEF UserStep, OpenEntry, CloseEntry, UserQueues, UserDeletes, UserClearsDone, serviceVars
<1>5. CASE Start \/ LinkChanges \/ Tick \/ \E node \in Nodes : Hear(node)
  BY <1>2, <1>5 DEF Start, LinkChanges, Tick, Hear
<1>6. CASE Stop
  <2>1. UNCHANGED <<awaiting, sent, acked>> /\ "loop" \in Actors
    BY <1>6 DEF Stop, Actors
  <2>2. CASE End("loop") /\ Trying("loop")
    BY <2>1, <2>2, EndFiled, FiledSame
  <2>3. CASE UNCHANGED try
    BY <1>2, <2>1, <2>3
  <2> QED BY <1>6, <2>2, <2>3 DEF Stop, Trying
<1>7. CASE Restart
  <2>1. awaiting' = {} /\ UNCHANGED <<sent, acked>> /\ \A a \in Actors : ~Trying(a)'
    BY <1>7, IdleLemma DEF Restart, Trying
  <2> QED BY <2>1 DEF Filed, Lasts, Apart, Came, CodesOf
<1> QED BY <1>3, <1>4, <1>5, <1>6, <1>7, TryFiled DEF World

\* The table of the late acks is in order in every reachable state.
THEOREM FiledInvariant == Spec => []Filed
<1>1. Init => Filed
  <2> SUFFICES ASSUME Init PROVE Filed
    OBVIOUS
  <2>1. \A a \in Actors : ~Trying(a)
    BY IdleLemma DEF Init, Trying
  <2> QED BY <2>1 DEF Init, Filed, Lasts, Apart, Came
<1>2. TypeInv /\ TypeInv' /\ Filed /\ [Next]_vars => Filed'
  <2> SUFFICES ASSUME TypeInv, TypeInv', Filed, [Next]_vars PROVE Filed'
    OBVIOUS
  <2>1. CASE UNCHANGED vars
    BY <2>1, FiledSame DEF vars, serviceVars, Trying
  <2> QED BY <2>1, BeginFiled, TryFiled, AckFiled, OthersFiled DEF Next, Ack
<1> QED BY <1>1, <1>2, TypeInvariant, PTL DEF Spec

\* The ack of the last transmission of a message is never lost between the wait of its send
\* and the table of the late acks: what stays in the table has not had it.
THEOREM FiledUnacked == Spec => []FiledIsUnacked
<1>1. Filed => FiledIsUnacked
  BY DEF Filed, Lasts, FiledIsUnacked
<1> QED BY <1>1, FiledInvariant, PTL

\* A message whose late ack the outbox has told of is settled in an outbox, and its ident is
\* below the counter there.
Told(box) ==
  \A i \in Idents : <<i, "late">> \in alerts => i < box.nextId /\ box.entries[i].status # QUEUED

\* It is settled in the file too, which is what the next session loads.
LateIsKept == Told(Memory) /\ Told(disk)

\* A call of the store queues no settled entry again, and moves no counter back, but to the
\* file.
LEMMA CallsKeepVerdicts ==
  ASSUME StoreInv, StoreNext \/ UNCHANGED storeVars, NEW i \in Idents,
         i < nextId, entries[i].status # QUEUED, i < disk.nextId, disk.entries[i].status # QUEUED
  PROVE  /\ i < nextId' /\ entries'[i].status # QUEUED
         /\ i < disk'.nextId /\ disk'.entries[i].status # QUEUED
<1>1. /\ Sound(entries, listed, nextId, history)
      /\ disk \in BoxType /\ nextId \in Nat /\ i \in Nat
  BY MemoryLemma, StoreAssumption DEF StoreInv, WellFormed, BoxType, Memory, Idents
<1>2. ASSUME NEW saves, Save(saves), nextId' = nextId \/ nextId' = nextId + 1,
             entries'[i].status # QUEUED
      PROVE  /\ i < nextId' /\ entries'[i].status # QUEUED
             /\ i < disk'.nextId /\ disk'.entries[i].status # QUEUED
  <2>1. i < nextId'
    BY <1>1, <1>2
  <2> QED BY <1>2, <2>1 DEF Save, Memory
<1>3. CASE UNCHANGED storeVars
  BY <1>3 DEF storeVars
<1>4. ASSUME NEW saves, NEW node \in Nodes, NEW text \in Texts, NEW delay \in Delays,
             StoreQueue(node, text, delay, saves)
      PROVE  entries'[i].status # QUEUED
  BY <1>1, <1>4 DEF StoreQueue, Sound
<1>5. ASSUME NEW saves, NEW j \in Idents, NoteAttempt(j, saves) PROVE entries'[i].status # QUEUED
  <2>1. CASE j \notin listed
    BY <1>5, <2>1 DEF NoteAttempt, storeVars
  <2>2. CASE j \in listed /\ j # i
    BY <1>1, <1>5, <2>2 DEF NoteAttempt, Sound
  <2>3. CASE j \in listed /\ j = i
    <3>1. /\ entries' = [entries EXCEPT ![i].attempts = @ + 1, ![i].since = 0]
          /\ entries \in [Idents -> Entry]
      BY <1>1, <1>5, <2>3 DEF NoteAttempt, Sound
    <3>2. entries'[i] = [entries[i] EXCEPT !.attempts = entries[i].attempts + 1, !.since = 0]
      BY <3>1
    <3>3. entries'[i].status = entries[i].status
      BY <3>1, <3>2 DEF Entry
    <3> QED BY <3>3
  <2> QED BY <2>1, <2>2, <2>3
<1>6. ASSUME NEW saves, NEW j \in Idents, NEW status \in {DELIVERED, GAVE_UP},
             Finish(j, status, saves)
      PROVE  entries'[i].status # QUEUED
  BY <1>1, <1>6 DEF Finish, Sound, Entry, storeVars, QUEUED, DELIVERED, GAVE_UP
<1>7. ASSUME NEW saves, NEW j \in Idents, NEW text \in Texts, EditBody(j, text, saves)
      PROVE  entries'[i].status # QUEUED
  BY <1>1, <1>7 DEF EditBody, Sound, Entry
<1>8. CASE Load
  BY <1>8 DEF Load
<1>9. CASE Age
  <2>1. /\ entries'[i].status = entries[i].status /\ disk'.entries[i].status = disk.entries[i].status
        /\ nextId' = nextId /\ disk'.nextId = disk.nextId
    <3>1. entries \in [Idents -> Entry] /\ disk.entries \in [Idents -> Entry]
      BY <1>1 DEF Sound, BoxType
    <3>2. entries' = Older(entries) /\ disk' = [disk EXCEPT !.entries = Older(disk.entries)]
      BY <1>9 DEF Age
    <3>3. disk'.entries = Older(disk.entries) /\ disk'.nextId = disk.nextId
      BY <1>1, <3>2 DEF BoxType
    <3> QED BY <1>9, <3>1, <3>2, <3>3, OlderLemma DEF Age
  <2> QED BY <2>1
<1>10. ASSUME NEW saves \in BOOLEAN, NEW j \in Idents,
              NoteAttempt(j, saves) \/ Finish(j, DELIVERED, saves) \/ Finish(j, GAVE_UP, saves)
       PROVE  /\ i < nextId' /\ entries'[i].status # QUEUED
              /\ i < disk'.nextId /\ disk'.entries[i].status # QUEUED
  <2>1. CASE j \notin listed
    BY <1>3, <1>10, <2>1 DEF NoteAttempt, Finish
  <2>2. CASE j \in listed
    <3>1. Save(saves) /\ nextId' = nextId
      BY <1>10, <2>2 DEF NoteAttempt, Finish
    <3>2. entries'[i].status # QUEUED
      BY <1>5, <1>6, <1>10
    <3> QED BY <1>2, <3>1, <3>2
  <2> QED BY <2>1, <2>2
<1>11. ASSUME NEW saves \in BOOLEAN,
              \/ \E node \in Nodes, text \in Texts, delay \in Delays : StoreQueue(node, text, delay, saves)
              \/ \E j \in Idents : \/ \E text \in Texts : EditBody(j, text, saves)
                                   \/ Cancel(j, saves) \/ Delete(j, saves)
              \/ ClearDone(saves)
       PROVE  /\ i < nextId' /\ entries'[i].status # QUEUED
              /\ i < disk'.nextId /\ disk'.entries[i].status # QUEUED
  <2>1. Save(saves) /\ (nextId' = nextId \/ nextId' = nextId + 1)
    BY <1>11 DEF StoreQueue, EditBody, Cancel, Delete, ClearDone
  <2>2. entries'[i].status # QUEUED
    BY <1>4, <1>7, <1>11 DEF Cancel, Delete, ClearDone
  <2> QED BY <1>2, <2>1, <2>2
<1> QED BY <1>3, <1>8, <1>9, <1>10, <1>11 DEF StoreNext

\* A late ack is told of in one step only, in which its entry is delivered and the file written.
LEMMA ToldByDelivery ==
  ASSUME TypeInv, [Next]_vars, NEW i \in Idents, <<i, "late">> \in alerts', <<i, "late">> \notin alerts
  PROVE  i \in listed /\ Finish(i, DELIVERED, TRUE)
<1>1. ~UNCHANGED alerts
  OBVIOUS
<1>2. ASSUME NEW a \in Actors, NEW saves, TryUnacked(a, saves) \/ TryAcked(a, saves) PROVE FALSE
  <2>1. \/ alerts' = alerts
        \/ \E j : alerts' = alerts \cup {<<j, "gave up">>}
        \/ \E j : alerts' = alerts \cup {<<j, "delivered">>}
    BY <1>2 DEF TryUnacked, TryAcked
  <2>2. ASSUME NEW j, NEW word, word # "late", alerts' = alerts \cup {<<j, word>>} PROVE FALSE
    <3>1. <<i, "late">> = <<j, word>>
      BY <2>2
    <3> QED BY <2>2, <3>1
  <2>3. "gave up" # "late" /\ "delivered" # "late"
    OBVIOUS
  <2> QED BY <1>1, <2>1, <2>2, <2>3
<1>3. PICK j \in Idents, k \in 1..MAX_SENDS, saves \in SaveOutcomes : AckArrives(j, k, saves)
  BY <1>1, <1>2 DEF Next, Pass, TryStep, ResolveUnknown, StartSend, Transmit, SoftRetry, UserStep,
     AttemptNow, OpenEntry, UserQueues, UserDeletes, CloseEntry, UserClearsDone, serviceVars, Ack,
     World, Start, Stop, Restart, LinkChanges, Tick, Hear, TryFails, vars
<1>4. DeliveredLate(j, saves)
  BY <1>1, <1>3 DEF AckArrives, AckInTime, AckUnknown, AckLate
<1>5. j \in listed /\ Finish(j, DELIVERED, saves) /\ alerts' = alerts \cup {<<j, "late">>} /\ saves
  BY <1>1, <1>4 DEF DeliveredLate
<1>6. saves = TRUE /\ i = j
  BY <1>5
<1> QED BY <1>5, <1>6

LEMMA LateKeeps == TypeInv /\ LateIsKept /\ [Next]_vars => LateIsKept'
<1> SUFFICES ASSUME TypeInv, LateIsKept, [Next]_vars, NEW i \in Idents, <<i, "late">> \in alerts'
             PROVE  /\ i < nextId' /\ entries'[i].status # QUEUED
                    /\ i < disk'.nextId /\ disk'.entries[i].status # QUEUED
  BY DEF LateIsKept, Told, Memory
<1>1. StoreInv /\ Sound(entries, listed, nextId, history)
  BY MemoryLemma, TypeInvParts DEF StoreInv
<1>2. CASE <<i, "late">> \in alerts
  <2>1. i < nextId /\ entries[i].status # QUEUED /\ i < disk.nextId /\ disk.entries[i].status # QUEUED
    BY <1>2 DEF LateIsKept, Told, Memory
  <2>2. StoreNext \/ UNCHANGED storeVars
    BY StepsAreCalls
  <2> QED BY <1>1, <2>1, <2>2, CallsKeepVerdicts
<1>3. CASE <<i, "late">> \notin alerts
  <2>1. i \in listed /\ Finish(i, DELIVERED, TRUE)
    BY <1>3, ToldByDelivery
  <2>2. /\ entries' = [entries EXCEPT ![i].status = DELIVERED] /\ nextId' = nextId /\ disk' = Memory'
    BY <2>1 DEF Finish, Save
  <2>3. i < nextId /\ entries'[i].status = DELIVERED
    BY <1>1, <2>1, <2>2 DEF Sound, Entry
  <2> QED BY <2>2, <2>3 DEF Memory, QUEUED, DELIVERED
<1> QED BY <1>2, <1>3

\* The ack of a filed message settles its entry, and once the outbox has told of it no new
\* try of this message begins, whatever its try, the user and the writes of the file have
\* done to it since, in this session and in the later ones.
THEOREM LateAckSettlesIt == Spec => LateAckSettles
<1> DEFINE Settled == \A chat \in awaiting \ awaiting' : connected' => chat.ident \notin Waiting'
           Quiet == \A a \in Actors :
                      try[a].pc = "idle" /\ try'[a].pc # "idle" => <<try'[a].ident, "late">> \notin alerts
<1>1. TypeInv /\ [Next]_vars => Settled
  <2> SUFFICES ASSUME TypeInv, [Next]_vars,
                      NEW chat \in awaiting \ awaiting', connected'
               PROVE  chat.ident \notin Waiting'
    OBVIOUS
  <2>1. PICK i \in Idents, k \in 1..MAX_SENDS, saves \in SaveOutcomes : AckArrives(i, k, saves)
    <3>1. ~Restart
      BY DEF Restart
    <3>2. ~Pass /\ ~UserStep
      BY DEF Pass, UserStep, AttemptNow, OpenEntry, CloseEntry, UserQueues, UserDeletes,
             UserClearsDone, serviceVars
    <3>3. \A a \in Actors : ~TryStep(a) /\ ~TryFails(a)
      BY DEF TryStep, TryFails, ResolveUnknown, StartSend, TryUnacked, TryAcked, Transmit, SoftRetry
    <3>4. ~Start /\ ~Stop /\ ~LinkChanges /\ ~Tick /\ \A node \in Nodes : ~Hear(node)
      BY DEF Start, Stop, LinkChanges, Tick, Hear
    <3>5. ~UNCHANGED vars
      BY DEF vars, serviceVars
    <3> QED BY <3>1, <3>2, <3>3, <3>4, <3>5 DEF Next, World, Ack
  <2>2. chat.ident = i /\ DeliveredLate(i, saves)
    BY <2>1 DEF AckArrives, AckInTime, AckUnknown, AckLate
  <2>3. Sound(entries, listed, nextId, history)
    BY MemoryLemma, TypeInvParts DEF StoreInv
  <2>4. CASE i \in listed /\ entries[i].status # DELIVERED
    <3>1. entries' = [entries EXCEPT ![i].status = DELIVERED]
      BY <2>2, <2>4 DEF DeliveredLate, Finish
    <3>2. entries'[i].status = DELIVERED
      BY <2>3, <3>1 DEF Sound, Entry
    <3> QED BY <2>2, <3>2 DEF Waiting, QUEUED, DELIVERED
  <2>5. CASE i \notin listed \/ entries[i].status = DELIVERED
    <3>1. UNCHANGED storeVars
      BY <2>2, <2>5 DEF DeliveredLate
    <3> QED BY <2>2, <2>5, <3>1 DEF storeVars, Waiting, QUEUED, DELIVERED
  <2> QED BY <2>4, <2>5
<1>2. TypeInv /\ LateIsKept /\ [Next]_vars => Quiet
  <2> SUFFICES ASSUME TypeInv, LateIsKept, [Next]_vars, NEW a \in Actors,
                      try[a].pc = "idle", try'[a].pc # "idle"
               PROVE  <<try'[a].ident, "late">> \notin alerts
    OBVIOUS
  <2>1. try \in [Actors -> Try] /\ listed \subseteq Idents
    BY MemoryLemma, TypeInvParts DEF Slots, StoreInv, Sound
  <2>2. PICK b \in Actors, i \in Waiting : Begin(b, i)
    <3>1. ASSUME NEW b \in Actors, End(b) PROVE FALSE
      BY <2>1, <3>1, IdleLemma DEF End
    <3>2. ASSUME NEW b \in Actors, TryStep(b) \/ TryFails(b) PROVE FALSE
      BY <2>1, <3>1, <3>2 DEF TryStep, TryFails, ResolveUnknown, StartSend, TryUnacked, TryAcked,
                              Transmit, SoftRetry
    <3>3. ASSUME Ack PROVE FALSE
      BY <2>1, <3>3 DEF Ack, AckArrives, AckInTime, AckUnknown, AckLate, WaitsFor
    <3>4. ~(\/ Start \/ Stop \/ Restart \/ LinkChanges \/ Tick \/ \E node \in Nodes : Hear(node))
      <4>1. ~Stop
        BY <3>1 DEF Stop, Actors
      <4>2. ~Restart
        <5>1. ASSUME Restart PROVE try'[a] = Idle
          BY <5>1 DEF Restart
        <5> QED BY <5>1, IdleLemma
      <4>3. try' # try
        OBVIOUS
      <4> QED BY <4>1, <4>2, <4>3 DEF Start, LinkChanges, Tick, Hear
    <3>5. CASE Pass
      BY <3>5 DEF Pass, Candidates, Actors
    <3>6. CASE UserStep
      BY <2>1, <3>6 DEF UserStep, AttemptNow, OpenEntry, UserQueues, UserDeletes, CloseEntry,
                        UserClearsDone, serviceVars, Actors
    <3>7. ~UNCHANGED vars
      BY DEF vars, serviceVars
    <3> QED BY <3>2, <3>3, <3>4, <3>5, <3>6, <3>7 DEF Next, World
  <2>3. try'[a].ident = i
    <3> DEFINE t == [Idle EXCEPT !.pc = "resolving", !.ident = i]
    <3>1. t \in Try /\ t.ident = i
      BY <2>1, IdleLemma DEF Waiting
    <3>2. try' = [try EXCEPT ![b] = t]
      BY <2>2 DEF Begin
    <3> HIDE DEF t
    <3>3. a = b
      BY <2>1, <3>2
    <3> QED BY <2>1, <3>1, <3>2, <3>3
  <2>4. i \in Idents /\ entries[i].status = QUEUED
    BY <2>1 DEF Waiting
  <2> QED BY <2>3, <2>4 DEF LateIsKept, Told, Memory
<1>3. Init => LateIsKept
  BY DEF Init, LateIsKept, Told, StoreInit, Memory
<1> QED BY <1>1, <1>2, <1>3, LateKeeps, TypeInvariant, PTL DEF Spec, LateAckSettles

-----------------------------------------------------------------------------
(* The Courier implements the abstract outbox (Outbox.tla), while each     *)
(* write of the file succeeds. The mapping of a state depends on the list, *)
(* the counter, the status and the attempts of the entries, and the acks.  *)

\* What the mapped state of the outbox is.
standingMap == [i \in Idents |-> Standing(i)]

\* A step of the abstract outbox, or one that it does not see.
Seen == Promise!Next \/ UNCHANGED Promise!vars

\* Where a message stands, by the parts of the state it depends on.
LEMMA StandingLemma ==
  ASSUME Sound(entries, listed, nextId, history), NEW i \in Idents
  PROVE  /\ i \in listed => standingMap[i] = entries[i].status /\ i \in Promise!Shown
         /\ i \in Promise!Shown => i \in listed
         /\ i \notin listed /\ i < nextId => standingMap[i] = "removed"
         /\ i >= nextId => standingMap[i] = "new"
         /\ i \in Promise!Finished <=> i \in listed /\ entries[i].status # QUEUED
<1>1. entries[i].status \in {QUEUED, DELIVERED, GAVE_UP} /\ nextId \in Int /\ i \in Int
  BY DEF Sound, Entry, Idents
<1>2. i \in listed => i < nextId
  BY DEF Sound
<1>3. standingMap[i] = IF i \in listed THEN entries[i].status
                       ELSE IF i < nextId THEN "removed" ELSE "new"
  BY DEF standingMap, Standing
<1> QED BY <1>1, <1>2, <1>3
        DEF Promise!Shown, Promise!Finished, standingMap, QUEUED, DELIVERED, GAVE_UP

\* A step that changes none of these parts is a step that the abstract outbox does not see.
LEMMA Unseen ==
  ASSUME UNCHANGED <<listed, nextId, acked>>,
         \A i \in Idents : /\ entries'[i].status = entries[i].status
                           /\ entries'[i].attempts = entries[i].attempts
  PROVE  UNCHANGED Promise!vars
BY DEF Promise!vars, Standing

-----------------------------------------------------------------------------
(* The operations of the store, while they are saved.                      *)

\* queue() submits the message of the next ident.
LEMMA QueueSeen ==
  ASSUME StoreInv, StoreInv', UNCHANGED acked,
         NEW node \in Nodes, NEW text \in Texts, NEW delay \in Delays, NEW saves,
         StoreQueue(node, text, delay, saves)
  PROVE  Seen
<1>1. Sound(entries, listed, nextId, history) /\ Sound(entries', listed', nextId', history')
  BY MemoryLemma DEF StoreInv
<1>2. PICK n \in Idents :
        /\ n = nextId /\ listed' = listed \cup {n} /\ nextId' = n + 1
        /\ entries' = [entries EXCEPT ![n] = NewEntry(node, text, delay)]
  BY DEF StoreQueue
<1>3. /\ entries'[n].status = QUEUED /\ entries'[n].attempts = 0
      /\ \A j \in Idents \ {n} : entries'[j] = entries[j]
  BY <1>1, <1>2 DEF Sound, NewEntry
<1>4. \A j \in Idents : j < n => standingMap[j] # "new"
  <2> SUFFICES ASSUME NEW j \in Idents, j < n PROVE standingMap[j] # "new"
    OBVIOUS
  <2>1. entries[j].status \in {QUEUED, DELIVERED, GAVE_UP}
    BY <1>1 DEF Sound, Entry
  <2> QED BY <1>1, <1>2, <2>1, StandingLemma DEF QUEUED, DELIVERED, GAVE_UP
<1>5. standingMap[n] = "new"
  BY <1>1, <1>2, StandingLemma DEF Idents
<1>6. standingMap' = [standingMap EXCEPT ![n] = "queued"]
  <2>1. \A j \in Idents : n \in Int /\ j \in Int
    BY DEF Idents
  <2>2. \A j \in Idents \ {n} : Standing(j)' = Standing(j)
    BY <1>2, <1>3, <2>1 DEF Standing
  <2>3. Standing(n)' = "queued"
    BY <1>2, <1>3 DEF Standing, QUEUED
  <2> QED BY <2>2, <2>3 DEF standingMap
<1>7. [i \in Idents |-> entries[i].attempts]' =
        [[i \in Idents |-> entries[i].attempts] EXCEPT ![n] = 0]
  BY <1>3
<1>8. Promise!Submit(n)
  BY <1>4, <1>5, <1>6, <1>7 DEF Promise!Submit, standingMap
<1> QED BY <1>8 DEF Seen, Promise!Next

\* note_attempt() is a try.
LEMMA NoteAttemptSeen ==
  ASSUME StoreInv, UNCHANGED acked, NEW i \in Idents, NEW saves, NoteAttempt(i, saves)
  PROVE  Seen
<1>1. Sound(entries, listed, nextId, history)
  BY MemoryLemma DEF StoreInv
<1>2. CASE i \notin listed
  BY <1>2, Unseen DEF NoteAttempt, storeVars, Seen
<1>3. CASE i \in listed
  <2>1. /\ entries' = [entries EXCEPT ![i].attempts = @ + 1, ![i].since = 0]
        /\ UNCHANGED <<listed, nextId>>
    BY <1>3 DEF NoteAttempt
  <2>2. entries[i] \in Entry
    BY <1>1 DEF Sound
  <2>3. /\ entries'[i].attempts = entries[i].attempts + 1
        /\ entries'[i].status = entries[i].status
        /\ \A j \in Idents \ {i} : entries'[j] = entries[j]
    BY <1>1, <2>1, <2>2 DEF Sound, Entry
  <2>4. standingMap' = standingMap
    <3>1. ASSUME NEW j \in Idents PROVE entries'[j].status = entries[j].status
      BY <2>3
    <3>2. ASSUME NEW j \in Idents PROVE Standing(j)' = Standing(j)
      BY <2>1, <3>1 DEF Standing
    <3> QED BY <3>2 DEF standingMap
  <2>5. [j \in Idents |-> entries[j].attempts]' =
          [[j \in Idents |-> entries[j].attempts] EXCEPT ![i] = @ + 1]
    BY <2>3
  <2>6. i \in Promise!Shown
    BY <1>1, <1>3, StandingLemma
  <2>7. Promise!Try(i)
    BY <2>4, <2>5, <2>6 DEF Promise!Try, standingMap
  <2> QED BY <2>7 DEF Seen, Promise!Next
<1> QED BY <1>2, <1>3

\* _finish() settles a listed message, and cuts only finished ones.
LEMMA FinishSettles ==
  ASSUME StoreInv, NEW i \in listed, NEW status \in {DELIVERED, GAVE_UP}, NEW saves,
         Finish(i, status, saves)
  PROVE  /\ i \in Idents /\ Promise!Settles(i, status)
         /\ UNCHANGED [j \in Idents |-> entries[j].attempts]
<1>1. Sound(entries, listed, nextId, history)
  BY MemoryLemma DEF StoreInv
<1>2. i \in Idents /\ entries[i] \in Entry
  BY <1>1 DEF Sound
<1> DEFINE done == Append(Without(history, i), i)
           kept == Newest(done, HISTORY_KEPT)
           cut == Elements(done) \ Elements(kept)
<1>3. /\ entries' = [entries EXCEPT ![i].status = status]
      /\ listed' = (listed \ Elements(done)) \cup Elements(kept)
      /\ nextId' = nextId
  BY DEF Finish
<1>4. done \in Seq(Idents) /\ Elements(done) = Elements(history) \cup {i}
  <2>1. /\ Without(history, i) \in Seq(Idents)
        /\ Elements(Without(history, i)) = Elements(history) \ {i}
    BY <1>1, <1>2, WithoutLemma DEF Sound
  <2> QED BY <1>2, <2>1, AppendLemma
<1> HIDE DEF done
<1>5. Elements(kept) \subseteq Elements(done)
  <2> HISTORY_KEPT \in Nat
    BY StoreAssumption
  <2> QED BY <1>4, NewestLemma
<1>6. Elements(done) \subseteq listed
  BY <1>1, <1>4 DEF Sound
<1>7. listed' = listed \ cut
  BY <1>3, <1>5, <1>6
<1>8. cut \in SUBSET (Promise!Finished \cup {i})
  <2>1. \A j \in Elements(history) : j \in Promise!Finished
    BY <1>1, StandingLemma DEF Sound
  <2> QED BY <1>4, <2>1
<1> HIDE DEF kept, cut
<1>9. /\ entries'[i].status = status /\ entries'[i].attempts = entries[i].attempts
      /\ \A j \in Idents \ {i} : entries'[j] = entries[j]
  BY <1>1, <1>2, <1>3 DEF Sound, Entry
<1>10. \A j \in Idents : Standing(j)' = IF j \in cut THEN "removed"
                                        ELSE IF j = i THEN status ELSE standingMap[j]
  <2> SUFFICES ASSUME NEW j \in Idents
               PROVE  Standing(j)' = IF j \in cut THEN "removed"
                                     ELSE IF j = i THEN status ELSE standingMap[j]
    OBVIOUS
  <2>1. cut \subseteq listed /\ \A k \in listed : k < nextId
    BY <1>1, <1>6 DEF cut, Sound
  <2> QED BY <1>3, <1>7, <1>9, <2>1 DEF Standing, standingMap
<1>11. Promise!Settles(i, status)
  <2>1. i \in Promise!Shown
    BY <1>1, <1>2, StandingLemma
  <2>2. standingMap' = [j \in Idents |-> IF j \in cut THEN "removed"
                                         ELSE IF j = i THEN status ELSE standingMap[j]]
    BY <1>10 DEF standingMap
  <2> QED BY <1>8, <2>1, <2>2 DEF Promise!Settles, standingMap
<1> QED BY <1>2, <1>9, <1>11

\* Removing messages that are shown.
LEMMA RemoveSeen ==
  ASSUME StoreInv, UNCHANGED <<entries, nextId, acked>>, listed' \subseteq listed
  PROVE  Seen
<1> DEFINE out == listed \ listed'
<1>1. Sound(entries, listed, nextId, history)
  BY MemoryLemma DEF StoreInv
<1>2. out \subseteq Promise!Shown /\ out \in SUBSET Idents
  BY <1>1, StandingLemma DEF Sound
<1>3. ASSUME NEW j \in Idents
      PROVE  Standing(j)' = IF j \in out THEN "removed" ELSE standingMap[j]
  <2>1. \A k \in listed : k < nextId
    BY <1>1 DEF Sound
  <2> QED BY <2>1 DEF Standing, standingMap
<1>4. standingMap' = [j \in Idents |-> IF j \in out THEN "removed" ELSE standingMap[j]]
  BY <1>3 DEF standingMap
<1> HIDE DEF out
<1>5. Promise!Remove(out)
  BY <1>2, <1>4 DEF Promise!Remove, standingMap
<1> QED BY <1>2, <1>5 DEF Seen, Promise!Next

\* mark_delivered() of a message whose ack is known.
LEMMA DeliverSeen ==
  ASSUME StoreInv, UNCHANGED acked, NEW i \in Idents, acked[i] # {}, NEW saves,
         Finish(i, DELIVERED, saves)
  PROVE  Seen
<1>1. CASE i \notin listed
  BY <1>1, Unseen DEF Finish, storeVars, Seen
<1>2. CASE i \in listed
  <2>1. Promise!Settles(i, DELIVERED) /\ UNCHANGED [j \in Idents |-> entries[j].attempts]
    BY <1>2, FinishSettles
  <2>2. Promise!Deliver(i)
    BY <2>1 DEF Promise!Deliver, DELIVERED
  <2> QED BY <2>2 DEF Seen, Promise!Next
<1> QED BY <1>1, <1>2

\* mark_gave_up() of a message whose tries are spent.
LEMMA GiveUpSeen ==
  ASSUME StoreInv, UNCHANGED acked, NEW i \in Idents, entries[i].attempts >= MAX_ATTEMPTS,
         NEW saves, Finish(i, GAVE_UP, saves)
  PROVE  Seen
<1>1. CASE i \notin listed
  BY <1>1, Unseen DEF Finish, storeVars, Seen
<1>2. CASE i \in listed
  <2>1. Promise!Settles(i, GAVE_UP) /\ UNCHANGED [j \in Idents |-> entries[j].attempts]
    BY <1>2, FinishSettles
  <2>2. Promise!GiveUp(i)
    BY <2>1 DEF Promise!GiveUp, GAVE_UP
  <2> QED BY <2>2 DEF Seen, Promise!Next
<1> QED BY <1>1, <1>2

-----------------------------------------------------------------------------
(* The steps of the service.                                               *)

\* The file holds the memory, while each write succeeds.
Saved == disk = Memory

\* A restart loads what the memory held.
LEMMA RestartSeen ==
  ASSUME Saved, Restart
  PROVE  Seen
<1>1. UNCHANGED <<entries, listed, nextId, acked>>
  BY DEF Saved, Restart, Load, Memory
<1> QED BY <1>1, Unseen DEF Seen

\* A tick ages the entries and settles none.
LEMMA TickSeen ==
  ASSUME StoreInv, Tick
  PROVE  Seen
<1>1. entries \in [Idents -> Entry]
  BY MemoryLemma DEF StoreInv, Sound
<1>2. entries' = Older(entries) /\ UNCHANGED <<listed, nextId, acked>>
  BY DEF Tick, Age
<1>3. \A i \in Idents : /\ entries'[i].status = entries[i].status
                        /\ entries'[i].attempts = entries[i].attempts
  BY <1>1, <1>2 DEF Older, Entry
<1> QED BY <1>2, <1>3, Unseen DEF Seen

\* An ack that reaches this host, in time, late or unknown.
LEMMA AckSeen ==
  ASSUME StoreInv, Types, NEW i \in Idents, NEW k \in 1..MAX_SENDS, NEW saves,
         AckArrives(i, k, saves)
  PROVE  Seen
<1>1. acked' = [acked EXCEPT ![i] = @ \cup {k}] /\ acked \in [Idents -> SUBSET Nat]
  BY DEF AckArrives, Types
<1>2. {j \in Idents : acked[j] # {}}' = {j \in Idents : acked[j] # {}} \cup {i}
  BY <1>1
<1>3. \/ UNCHANGED storeVars
      \/ i \in listed /\ Finish(i, DELIVERED, saves)
  BY DEF AckArrives, AckInTime, AckLate, AckUnknown, DeliveredLate
<1>4. CASE UNCHANGED storeVars
  <2>1. Promise!Acknowledge(i)
    BY <1>2, <1>4 DEF Promise!Acknowledge, storeVars, Standing
  <2> QED BY <2>1 DEF Seen, Promise!Next
<1>5. CASE i \in listed /\ Finish(i, DELIVERED, saves)
  <2>1. Promise!Settles(i, DELIVERED) /\ UNCHANGED [j \in Idents |-> entries[j].attempts]
    BY <1>5, FinishSettles
  <2>2. Promise!Acknowledge(i)
    BY <1>2, <2>1 DEF Promise!Acknowledge, DELIVERED
  <2> QED BY <2>2 DEF Seen, Promise!Next
<1> QED BY <1>3, <1>4, <1>5

\* A step of a try.
LEMMA TrySeen ==
  ASSUME TypeInv, Verdicts, NEW a \in Actors, TryStep(a)
  PROVE  Seen
<1>1. StoreInv /\ Slots
  BY TypeInvParts
<1>2. Trying(a)
  BY DEF TryStep, ResolveUnknown, StartSend, TryUnacked, TryAcked, Transmit, SoftRetry, Trying
<1>3. try[a].ident \in Idents
  BY <1>1, <1>2, TryIdent
<1>4. UNCHANGED acked
  BY DEF TryStep, ResolveUnknown, StartSend, TryUnacked, TryAcked, Transmit, SoftRetry
<1>5. CASE UNCHANGED storeVars
  BY <1>4, <1>5, Unseen DEF storeVars, Seen
<1>6. CASE \E saves \in SaveOutcomes : StartSend(a, saves)
  BY <1>1, <1>3, <1>4, <1>6, NoteAttemptSeen DEF StartSend
<1>7. CASE \E saves \in SaveOutcomes : TryUnacked(a, saves) /\ entries[try[a].ident].attempts >= MAX_ATTEMPTS
  BY <1>1, <1>3, <1>4, <1>7, GiveUpSeen DEF TryUnacked
<1>8. CASE \E saves \in SaveOutcomes : TryAcked(a, saves)
  BY <1>1, <1>3, <1>4, <1>8, DeliverSeen DEF TryAcked, Verdicts
<1>9. \/ UNCHANGED storeVars
      \/ \E saves \in SaveOutcomes :
           \/ StartSend(a, saves) \/ TryAcked(a, saves)
           \/ TryUnacked(a, saves) /\ entries[try[a].ident].attempts >= MAX_ATTEMPTS
  BY DEF TryStep, ResolveUnknown, TryUnacked, Transmit, SoftRetry
<1> QED BY <1>5, <1>6, <1>7, <1>8, <1>9

\* A step of the user.
LEMMA UserSeen ==
  ASSUME TypeInv, TypeInv', UserStep
  PROVE  Seen
<1>1. StoreInv /\ StoreInv'
  BY TypeInvParts
<1>2. UNCHANGED acked
  BY DEF UserStep, AttemptNow, OpenEntry, CloseEntry, UserQueues, UserDeletes, UserClearsDone,
         serviceVars
<1>3. CASE UNCHANGED storeVars
  BY <1>2, <1>3, Unseen DEF storeVars, Seen
<1>4. CASE \E node \in Nodes, text \in Texts, delay \in Delays, saves \in SaveOutcomes :
             StoreQueue(node, text, delay, saves)
  BY <1>1, <1>2, <1>4, QueueSeen
<1>5. CASE \E i \in Idents, text \in Texts, saves \in SaveOutcomes : EditBody(i, text, saves)
  <2>1. PICK i \in Idents, text \in Texts, saves \in SaveOutcomes : EditBody(i, text, saves)
    BY <1>5
  <2>2. entries \in [Idents -> Entry]
    BY <1>1, MemoryLemma DEF StoreInv, Sound
  <2>3. /\ entries' = [entries EXCEPT ![i].text = text]
        /\ UNCHANGED <<listed, nextId>>
    BY <2>1 DEF EditBody
  <2>4. \A j \in Idents : /\ entries'[j].status = entries[j].status
                          /\ entries'[j].attempts = entries[j].attempts
    BY <2>2, <2>3 DEF Entry
  <2> QED BY <1>2, <2>3, <2>4, Unseen DEF Seen
<1>6. CASE \E i \in Idents, saves \in SaveOutcomes : Delete(i, saves)
  BY <1>1, <1>2, <1>6, RemoveSeen DEF Delete
<1>7. CASE \E saves \in SaveOutcomes : ClearDone(saves)
  BY <1>1, <1>2, <1>7, RemoveSeen DEF ClearDone, Waiting
<1> QED BY <1>3, <1>4, <1>5, <1>6, <1>7
        DEF UserStep, AttemptNow, OpenEntry, CloseEntry, UserQueues, UserDeletes, UserClearsDone

-----------------------------------------------------------------------------
(* The refinement.                                                         *)

\* Each step keeps the file equal to the memory, while each write succeeds.
LEMMA NextSaves ==
  ASSUME SaveOutcomes = {TRUE}, Saved, TypeInv, [Next]_vars
  PROVE  Saved'
<1>1. CASE UNCHANGED storeVars
  BY <1>1 DEF Saved, storeVars, Memory
<1>2. CASE Save(TRUE)
  BY <1>2 DEF Save, Saved
<1>3. CASE Load
  BY <1>3 DEF Load, Saved, Memory
<1>4. CASE Age
  BY <1>4 DEF Age, Saved, Memory
<1>5. CASE UNCHANGED vars
  BY <1>1, <1>5 DEF vars
<1>n. ASSUME NEW i, NoteAttempt(i, TRUE)
      PROVE  Saved'
  BY <1>1, <1>2, <1>n DEF NoteAttempt
<1>f. ASSUME NEW i, NEW status, Finish(i, status, TRUE)
      PROVE  Saved'
  BY <1>1, <1>2, <1>f DEF Finish
<1>6. CASE Pass
  BY <1>1, <1>6 DEF Pass
<1>10. ASSUME NEW a \in Actors, TryStep(a)
       PROVE  Saved'
  <2>1. CASE ResolveUnknown(a) \/ Transmit(a) \/ SoftRetry(a)
    BY <1>1, <2>1 DEF ResolveUnknown, Transmit, SoftRetry
  <2>2. CASE StartSend(a, TRUE)
    BY <1>n, <2>2 DEF StartSend
  <2>3. CASE TryUnacked(a, TRUE)
    BY <1>1, <1>f, <2>3 DEF TryUnacked
  <2>4. CASE TryAcked(a, TRUE)
    BY <1>f, <2>4 DEF TryAcked
  <2> QED BY <1>10, <2>1, <2>2, <2>3, <2>4 DEF TryStep
<1>7. CASE UserStep
  <2>1. \/ UNCHANGED storeVars
        \/ \E node \in Nodes, text \in Texts, delay \in Delays : StoreQueue(node, text, delay, TRUE)
        \/ \E i \in Idents, text \in Texts : EditBody(i, text, TRUE)
        \/ \E i \in Idents : Delete(i, TRUE)
        \/ ClearDone(TRUE)
    BY <1>7
       DEF UserStep, AttemptNow, OpenEntry, CloseEntry, UserQueues, UserDeletes, UserClearsDone
  <2> QED BY <1>1, <1>2, <2>1 DEF StoreQueue, EditBody, Delete, ClearDone
<1>8. CASE Ack
  BY <1>1, <1>2, <1>8
     DEF Ack, AckArrives, AckInTime, AckLate, AckUnknown, DeliveredLate, Finish
<1>9. CASE World
  BY <1>1, <1>3, <1>4, <1>9
     DEF World, Start, Stop, Restart, LinkChanges, Tick, Hear, TryFails
<1> QED BY <1>5, <1>6, <1>7, <1>8, <1>9, <1>10 DEF Next

\* Each step of the service is one of the abstract outbox, or is not seen there.
LEMMA NextSeen ==
  ASSUME Saved, TypeInv, TypeInv', Verdicts, [Next]_vars
  PROVE  [Promise!Next]_Promise!vars
<1>1. StoreInv /\ Types
  BY TypeInvParts
<1>2. CASE UNCHANGED <<storeVars, acked>>
  BY <1>2, Unseen DEF storeVars, Seen
<1>3. CASE UNCHANGED vars
  BY <1>2, <1>3 DEF vars, serviceVars
<1>4. CASE Pass
  BY <1>2, <1>4 DEF Pass
<1>5. CASE \E a \in Actors : TryStep(a)
  BY <1>5, TrySeen DEF Seen
<1>6. CASE UserStep
  BY <1>6, UserSeen DEF Seen
<1>7. CASE Ack
  BY <1>1, <1>7, AckSeen DEF Ack, Seen
<1>8. CASE World
  <2>1. CASE Restart
    BY <2>1, RestartSeen DEF Seen
  <2>2. CASE Tick
    BY <1>1, <2>2, TickSeen DEF Seen
  <2> QED BY <1>2, <1>8, <2>1, <2>2 DEF World, Start, Stop, LinkChanges, Hear, TryFails
<1> QED BY <1>3, <1>4, <1>5, <1>6, <1>7, <1>8 DEF Next

\* The empty outbox of the first start is the empty abstract outbox.
LEMMA InitSeen == Init => Promise!Init /\ Saved
<1> SUFFICES ASSUME Init PROVE Promise!Init /\ Saved
  OBVIOUS
<1>1. /\ listed = {} /\ nextId = 1 /\ disk = Memory /\ acked = [i \in Idents |-> {}]
      /\ \A i \in Idents : entries[i].attempts = 0
  BY DEF Init, StoreInit, NewEntry
<1>2. \A i \in Idents : Standing(i) = "new"
  BY <1>1 DEF Standing, Idents
<1> QED BY <1>1, <1>2 DEF Promise!Init, Saved

\* Through every order of tries, acks, prompts, deletions, stops and restarts, a message moves
\* only as the abstract outbox lets it, while each write of the file succeeds: a removed one
\* never returns, an ident names one message, a verdict has its reason, and the cut takes no
\* waiting message (services/courier.py, core/courier_store.py).
THEOREM Implements == SaveOutcomes = {TRUE} => (Spec => ImplementsOutbox)
<1> SUFFICES ASSUME SaveOutcomes = {TRUE} PROVE Spec => ImplementsOutbox
  OBVIOUS
<1>1. Init => Promise!Init /\ Saved
  BY InitSeen
<1>2. Saved /\ TypeInv /\ [Next]_vars => Saved'
  BY NextSaves
<1>3. Saved /\ TypeInv /\ TypeInv' /\ Verdicts /\ [Next]_vars => [Promise!Next]_Promise!vars
  BY NextSeen
<1> QED BY <1>1, <1>2, <1>3, TypeInvariant, VerdictInvariant, PTL
        DEF Spec, ImplementsOutbox, Promise!Spec

=============================================================================
