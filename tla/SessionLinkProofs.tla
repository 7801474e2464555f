-------------------------- MODULE SessionLinkProofs --------------------------
(***************************************************************************)
(* Proofs about the device connection of a session, for any number of      *)
(* device objects and any number of losses and tries.                      *)
(*                                                                         *)
(* Resuming says what the note of the reconnector is worth at each place   *)
(* of the front task. Holding says, until a device is overtaken, who has   *)
(* which device: at most one task opens one, it opens the current one, and *)
(* nothing else has a link. Both need the type, and the type needs         *)
(* Resuming, because a chat that resumes needs its hub.                    *)
(***************************************************************************)
EXTENDS SessionLink, TLAPS

USE LinkAssumption DEF LinkAssumption

Working == front.pc = "menu" \/ (front.pc \in {"opening", "settling"} /\ front.for # "reconnect")

Resuming ==
  /\ wanted.recorded = TRUE
  /\ wanted.chat = TRUE => wanted.hub = TRUE
  /\ Working => /\ wanted.hub = TRUE <=> hub # 0
                /\ wanted.monitor = monitor
                /\ wanted.chat = chat
                /\ intent = None
  /\ ~Working => chat = FALSE /\ (front.pc # "over" => intent = wanted)

Linked(d) == phase[d] \in {"open", "dead"}

Holding ==
  /\ \A d \in Objects : Linked(d) => d = dev
  /\ back.pc = "opening" => back.d = dev /\ dev # 0 /\ phase[dev] = "new"
  /\ front.pc = "opening" =>
       front.d = dev /\ dev # 0 /\ phase[dev] = "new" /\ back.pc # "opening"
  /\ front.pc = "stopping" => dev # 0 /\ Linked(dev)
  /\ front.pc = "closing" => dev = front.d \/ (dev = 0 /\ back.pc = "idle")
  /\ front.pc = "closing" /\ front.for = "menu" => dev = front.d /\ Linked(dev)
  /\ dev # 0 => Linked(dev) \/ front.pc = "opening" \/ back.pc = "opening"
  /\ front.pc = "over" => dev = 0 /\ back.pc = "idle"
  /\ hub # 0 => /\ hub = dev /\ Linked(dev)
                /\ \/ front.pc \in {"menu", "stopping"}
                   \/ front.pc = "settling" /\ front.for # "reconnect"

-----------------------------------------------------------------------------
(* The type, and the note of the services.                                 *)

\* TypeOK, one variable at a time.
Shape ==
  /\ dev \in 0..DEVICES
  /\ hub \in 0..DEVICES
  /\ phase \in [Objects -> {"new", "open", "dead", "closed"}]
  /\ front \in [pc: {"menu", "opening", "settling", "stopping", "closing", "waiting", "over"},
                d: 0..DEVICES, for: {"menu", "tool", "chat", "reconnect"}]
  /\ back \in [pc: {"idle", "checked", "opening"}, d: 0..DEVICES, for: {"menu"}]
  /\ front.d # 0 <=> front.pc \in {"opening", "closing"}
  /\ monitor \in BOOLEAN
  /\ chat \in BOOLEAN
  /\ overtaken \in BOOLEAN
  /\ intent \in [hub: BOOLEAN, monitor: BOOLEAN, chat: BOOLEAN, recorded: BOOLEAN]
  /\ wanted \in [hub: BOOLEAN, monitor: BOOLEAN, chat: BOOLEAN, recorded: BOOLEAN]
  /\ chat = TRUE => hub # 0

Places == [pc: {"menu", "opening", "settling", "stopping", "closing", "waiting", "over"},
           d: 0..DEVICES, for: {"menu", "tool", "chat", "reconnect"}]

LEMMA ShapeLemma == TypeOK <=> Shape
BY DEF TypeOK, Shape

Steady == Shape /\ Resuming

LEMMA SteadyInit == Init => Steady
<1> SUFFICES ASSUME Init PROVE Steady
  OBVIOUS
<1> USE DEF Init, Objects, At, None
<1>1. Shape
  <2>1. wanted = [hub |-> FALSE, monitor |-> TRUE, chat |-> FALSE, recorded |-> TRUE]
    OBVIOUS
  <2>2. intent \in [hub: BOOLEAN, monitor: BOOLEAN, chat: BOOLEAN, recorded: BOOLEAN]
    OBVIOUS
  <2>3. wanted \in [hub: BOOLEAN, monitor: BOOLEAN, chat: BOOLEAN, recorded: BOOLEAN]
    BY <2>1
  <2>4. /\ front \in Places
        /\ front.d = 0 /\ front.pc = "menu"
        /\ back \in [pc: {"idle", "checked", "opening"}, d: 0..DEVICES, for: {"menu"}]
    BY DEF Places
  <2>5. /\ phase \in [Objects -> {"new", "open", "dead", "closed"}]
        /\ dev \in 0..DEVICES /\ hub \in 0..DEVICES
    OBVIOUS
  <2>6. monitor \in BOOLEAN /\ chat \in BOOLEAN /\ overtaken \in BOOLEAN
    OBVIOUS
  <2>7. chat = TRUE => hub # 0
    OBVIOUS
  <2> HIDE DEF None, Init, At
  <2> QED BY <2>2, <2>3, <2>4, <2>5, <2>6, <2>7 DEF Shape, Places
<1>2. Resuming
  BY DEF Resuming, Working
<1> QED BY <1>1, <1>2 DEF Steady

\* A chat that starts is a service of the session, with its hub.
LEMMA StartChatLemma ==
  ASSUME Steady, Working, Working', dev # 0, StartChat,
         UNCHANGED <<dev, phase, front, back, monitor, intent, overtaken>>
  PROVE  Steady'
<1> USE DEF Steady, Shape, Resuming, Objects
<1>1. CASE phase[dev] \in {"open", "dead"}
  <2>1. /\ hub' \in 1..DEVICES
        /\ chat' = TRUE
        /\ wanted' = [hub |-> TRUE, monitor |-> wanted.monitor, chat |-> TRUE,
                      recorded |-> wanted.recorded]
    <3>1. /\ hub' = IF hub = 0 THEN dev ELSE hub
          /\ chat' = TRUE
          /\ wanted' = [wanted EXCEPT !.hub = TRUE, !.chat = TRUE]
      BY <1>1 DEF StartChat
    <3>2. wanted' = [hub |-> TRUE, monitor |-> wanted.monitor, chat |-> TRUE,
                     recorded |-> wanted.recorded]
      BY <3>1
    <3>3. hub' \in 1..DEVICES
      BY <3>1
    <3> QED BY <3>1, <3>2, <3>3
  <2>2. Shape'
    BY <2>1
  <2>3. Resuming'
    BY <2>1
  <2> QED BY <2>2, <2>3
<1>2. CASE phase[dev] \notin {"open", "dead"}
  <2>1. UNCHANGED <<hub, chat, wanted>>
    BY <1>2 DEF StartChat
  <2>2. Shape'
    BY <2>1
  <2>3. Resuming'
    BY <2>1
  <2> QED BY <2>2, <2>3
<1> QED BY <1>1, <1>2

LEMMA SteadyNext == Steady /\ [Next]_vars => Steady'
<1> SUFFICES ASSUME Steady, [Next]_vars
             PROVE  Steady'
  OBVIOUS
<1> USE DEF Steady, Shape, Resuming, Working, Objects, At, None, Unused
<1>1. ASSUME NEW for \in {"tool", "chat"}, MenuAsks(for)
      PROVE  Steady'
  <2>1. CASE dev = 0
    <3>1. /\ phase' \in [Objects -> {"new", "open", "dead", "closed"}]
          /\ dev' \in Objects
          /\ \E d \in Objects : front' = [pc |-> "opening", d |-> d, for |-> for]
          /\ UNCHANGED <<back, hub, monitor, chat, intent, wanted, overtaken>>
      BY <1>1, <2>1 DEF MenuAsks, Create
    <3> QED BY <1>1, <3>1 DEF MenuAsks
  <2>2. CASE dev # 0
    <3>1. StartChat /\ UNCHANGED <<dev, phase, front, back, monitor, intent, overtaken>>
      BY <1>1, <2>2 DEF MenuAsks
    <3>2. Working /\ Working'
      BY <1>1, <3>1 DEF MenuAsks
    <3> QED BY <2>2, <3>1, <3>2, StartChatLemma
  <2> QED BY <2>1, <2>2
<1>2. CASE FrontOpened
  <2> USE <1>2 DEF FrontOpened, Connects
  <2>0. front' = [pc |-> "settling", d |-> 0, for |-> front.for]
    OBVIOUS
  <2>1. phase' \in [Objects -> {"new", "open", "dead", "closed"}]
    OBVIOUS
  <2>2. front' \in Places
    BY <2>0 DEF Places
  <2>3. /\ intent' \in [hub: BOOLEAN, monitor: BOOLEAN, chat: BOOLEAN, recorded: BOOLEAN]
        /\ wanted' \in [hub: BOOLEAN, monitor: BOOLEAN, chat: BOOLEAN, recorded: BOOLEAN]
    OBVIOUS
  <2>4. Shape'
    BY <2>1, <2>2, <2>3 DEF Places
  <2>5. Resuming'
    OBVIOUS
  <2> QED BY <2>4, <2>5
<1>3. CASE FrontFails
  BY <1>3 DEF FrontFails, OpenFailed
<1>4. CASE Settled
  BY <1>4 DEF Settled, StartChat
<1>5. ASSUME NEW d \in Objects, LinkDrops(d)
      PROVE  Steady'
  BY <1>5 DEF LinkDrops
<1>6. CASE Release
  <2> USE <1>6 DEF Release, Services
  <2>1. phase' \in [Objects -> {"new", "open", "dead", "closed"}]
    OBVIOUS
  <2>2. front' \in Places
    BY DEF Places
  <2>3. /\ intent' \in [hub: BOOLEAN, monitor: BOOLEAN, chat: BOOLEAN, recorded: BOOLEAN]
        /\ wanted' \in [hub: BOOLEAN, monitor: BOOLEAN, chat: BOOLEAN, recorded: BOOLEAN]
    <3>1. Services \in [hub: BOOLEAN, monitor: BOOLEAN, chat: BOOLEAN, recorded: BOOLEAN]
      BY DEF Services
    <3>2. intent' \in {intent, Services} /\ wanted' = wanted
      BY DEF Release
    <3> HIDE DEF Services
    <3> QED BY <3>1, <3>2
  <2>4. Shape'
    BY <2>1, <2>2, <2>3 DEF Places
  <2>5. Resuming'
    OBVIOUS
  <2> QED BY <2>4, <2>5
<1>7. CASE LetGo
  BY <1>7 DEF LetGo
<1>8. CASE Closed
  BY <1>8 DEF Closed, Disconnected
<1>9. CASE Reconnect
  BY <1>9 DEF Reconnect, Create
<1>10. CASE Reopen
  BY <1>10 DEF Reopen, Disconnected
<1>11. CASE Resume
  <2> USE <1>11 DEF Resume, Create
  <2>1. phase' \in [Objects -> {"new", "open", "dead", "closed"}]
    OBVIOUS
  <2>2. front' \in Places
    BY DEF Places
  <2>3. /\ intent' \in [hub: BOOLEAN, monitor: BOOLEAN, chat: BOOLEAN, recorded: BOOLEAN]
        /\ wanted' \in [hub: BOOLEAN, monitor: BOOLEAN, chat: BOOLEAN, recorded: BOOLEAN]
    <3>1. intent' \in {intent, None} /\ wanted' = wanted
      BY DEF Resume
    <3>2. None \in [hub: BOOLEAN, monitor: BOOLEAN, chat: BOOLEAN, recorded: BOOLEAN]
      OBVIOUS
    <3> HIDE DEF None, Resume
    <3> QED BY <3>1, <3>2
  <2>4. Shape'
    BY <2>1, <2>2, <2>3 DEF Places
  <2>5. Resuming'
    OBVIOUS
  <2> QED BY <2>4, <2>5
<1>12. CASE BackChecks
  BY <1>12 DEF BackChecks
<1>13. CASE BackAsks
  BY <1>13 DEF BackAsks, Create
<1>14. CASE BackOpened
  <2> USE <1>14 DEF BackOpened, Connects
  <2>1. phase' \in [Objects -> {"new", "open", "dead", "closed"}]
    OBVIOUS
  <2>2. front' \in Places
    BY DEF Places
  <2>3. /\ intent' \in [hub: BOOLEAN, monitor: BOOLEAN, chat: BOOLEAN, recorded: BOOLEAN]
        /\ wanted' \in [hub: BOOLEAN, monitor: BOOLEAN, chat: BOOLEAN, recorded: BOOLEAN]
    OBVIOUS
  <2>4. Shape'
    BY <2>1, <2>2, <2>3 DEF Places
  <2>5. Resuming'
    OBVIOUS
  <2> QED BY <2>4, <2>5
<1>15. CASE BackFails
  BY <1>15 DEF BackFails, OpenFailed
<1>16. CASE Quit
  <2> USE <1>16 DEF Quit
  <2>1. phase' \in [Objects -> {"new", "open", "dead", "closed"}]
    OBVIOUS
  <2>2. front' \in Places
    BY DEF Places
  <2>3. /\ intent' \in [hub: BOOLEAN, monitor: BOOLEAN, chat: BOOLEAN, recorded: BOOLEAN]
        /\ wanted' \in [hub: BOOLEAN, monitor: BOOLEAN, chat: BOOLEAN, recorded: BOOLEAN]
    OBVIOUS
  <2>4. Shape'
    BY <2>1, <2>2, <2>3 DEF Places
  <2>5. Resuming'
    OBVIOUS
  <2> QED BY <2>4, <2>5
<1>17. CASE UNCHANGED vars
  BY <1>17 DEF vars
<1> QED
  BY <1>1, <1>2, <1>3, <1>4, <1>5, <1>6, <1>7, <1>8, <1>9, <1>10, <1>11, <1>12, <1>13, <1>14,
     <1>15, <1>16, <1>17 DEF Next, Reconnecting

-----------------------------------------------------------------------------
(* Who has which device.                                                   *)

LEMMA HoldingInit == Init => (~overtaken => Holding)
BY DEF Init, Holding, Linked, At

LEMMA HoldingNext ==
  ASSUME Shape, Shape', ~overtaken => Holding, [Next]_vars, ~overtaken'
  PROVE  Holding'
<1> USE DEF Shape, Holding, Linked, Objects, At, Unused
<1>1. ASSUME NEW for \in {"tool", "chat"}, MenuAsks(for)
      PROVE  Holding'
  BY <1>1 DEF MenuAsks, Create, StartChat
<1>2. CASE FrontOpened
  BY <1>2 DEF FrontOpened, Connects
<1>3. CASE FrontFails
  BY <1>3 DEF FrontFails, OpenFailed
<1>4. CASE Settled
  BY <1>4 DEF Settled, StartChat
<1>5. ASSUME NEW d \in Objects, LinkDrops(d)
      PROVE  Holding'
  BY <1>5 DEF LinkDrops
<1>6. CASE Release
  BY <1>6 DEF Release
<1>7. CASE LetGo
  BY <1>7 DEF LetGo
<1>8. CASE Closed
  BY <1>8 DEF Closed, Disconnected
<1>9. CASE Reconnect
  BY <1>9 DEF Reconnect, Create
<1>10. CASE Reopen
  <2>1. /\ front.pc = "closing" /\ ~overtaken
        /\ back.pc = "opening" => back.d # front.d
    BY <1>10 DEF Reopen
  <2>2. back.pc # "opening"
    BY <2>1
  <2>3. hub = 0
    BY <2>1
  <2>4. PICK d \in Unused : /\ dev' = d
                           /\ phase' = [Disconnected(front.d) EXCEPT ![d] = "new"]
                           /\ front' = [pc |-> "opening", d |-> d, for |-> "reconnect"]
    BY <1>10 DEF Reopen
  <2>5. \A x \in Objects : ~Linked(x)'
    BY <2>1, <2>4 DEF Disconnected
  <2>6. d # 0 /\ phase'[d] = "new" /\ UNCHANGED <<back, hub>>
    BY <1>10, <2>4 DEF Reopen, Disconnected
  <2> QED BY <2>2, <2>3, <2>4, <2>5, <2>6
<1>11. CASE Resume
  BY <1>11 DEF Resume, Create
<1>12. CASE BackChecks
  BY <1>12 DEF BackChecks
<1>13. CASE BackAsks
  BY <1>13 DEF BackAsks, Create
<1>14. CASE BackOpened
  BY <1>14 DEF BackOpened, Connects
<1>15. CASE BackFails
  BY <1>15 DEF BackFails, OpenFailed
<1>16. CASE Quit
  BY <1>16 DEF Quit
<1>17. CASE UNCHANGED vars
  BY <1>17 DEF vars
<1> QED
  BY <1>1, <1>2, <1>3, <1>4, <1>5, <1>6, <1>7, <1>8, <1>9, <1>10, <1>11, <1>12, <1>13, <1>14,
     <1>15, <1>16, <1>17 DEF Next, Reconnecting

-----------------------------------------------------------------------------
(* The theorems.                                                           *)

Inv == Steady /\ (~overtaken => Holding)

LEMMA Invariant == Spec => []Inv
<1>1. Init => Inv
  BY SteadyInit, HoldingInit DEF Inv
<1>2. Inv /\ [Next]_vars => Inv'
  BY SteadyNext, HoldingNext DEF Inv, Steady
<1> QED BY <1>1, <1>2, PTL DEF Spec

\* The session, its two tasks and its device objects keep their type; and the chat never
\* records without the hub that feeds it.
THEOREM LinkTypeCorrect == Spec => []TypeOK
<1>1. Inv => TypeOK
  BY ShapeLemma DEF Inv, Steady
<1> QED BY <1>1, Invariant, PTL

\* After any number of losses, failed tries and reconnects, the services run that the session
\* has started (release_link, reconnect, _resume).
THEOREM ServicesComeBack == Spec => []ResumedAsBefore
<1>1. Inv => ResumedAsBefore
  BY DEF Inv, Steady, Shape, Resuming, Working, ResumedAsBefore, Services
<1> QED BY <1>1, Invariant, PTL

\* The hub is subscribed to the current device or to none, when the session rests.
THEOREM HubIsOnCurrent == Spec => []HubFollowsLink
<1>1. Inv => HubFollowsLink
  BY DEF Inv, Holding, HubFollowsLink
<1> QED BY <1>1, Invariant, PTL

\* No link is held but that of the current device, and none after the end of the session,
\* until a device is overtaken.
THEOREM OneLink == Spec => []NothingElseIsHeld
<1>1. Inv => NothingElseIsHeld
  BY DEF Inv, Steady, Shape, Holding, Linked, NothingElseIsHeld, OnlyCurrentIsHeld, OverIsOver,
         Held, Objects
<1> QED BY <1>1, Invariant, PTL

\* What the session calls its device has a link, or its owner is opening it.
THEOREM CurrentIsOpen == Spec => []ConnectedWasOpened
<1>1. Inv => ConnectedWasOpened
  BY DEF Inv, Steady, Shape, Holding, Linked, ConnectedWasOpened, Held, Objects
<1> QED BY <1>1, Invariant, PTL

=============================================================================
