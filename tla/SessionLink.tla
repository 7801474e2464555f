----------------------------- MODULE SessionLink -----------------------------
(***************************************************************************)
(* The one device connection of a session (context.py): who opens it, what *)
(* hangs on it (the event hub, the recorders), how it is let go when the   *)
(* link is lost and opened again (ui/menu.py), and how the session ends.   *)
(*                                                                         *)
(* The front task is the worker of the menu, or the reconnector that takes *)
(* its place while the link is lost. The back task stands for a service    *)
(* that works behind the screens (the courier, the battery poller): it     *)
(* looks whether a device is connected, waits for something, and then asks *)
(* for the device. A device object is a number, which is used again when   *)
(* nothing refers to the object any more.                                  *)
(***************************************************************************)
EXTENDS Integers, FiniteSets

CONSTANTS
  DEVICES  \* bound: how many device objects are referred to at one time

ASSUME LinkAssumption == DEVICES \in Nat \ {0}

VARIABLES
  dev,      \* _device: the current device object, or 0
  phase,    \* what each object is: new (not open yet), open, dead (its link is lost), closed
  front,    \* the front task: where it is, the object it opens or closes, and what for
  back,     \* the back task
  hub,      \* the object to which the event hub is subscribed, or 0
  monitor,  \* MonitorService.active
  chat,     \* ChatService.active
  intent,   \* _resume_intent: the services to resume, or None
  wanted,   \* history: the services that the session has started
  overtaken \* history: a device that another task was opening was let go

vars == <<dev, phase, front, back, hub, monitor, chat, intent, wanted, overtaken>>

Objects == 1..DEVICES
None == [hub |-> FALSE, monitor |-> FALSE, chat |-> FALSE, recorded |-> FALSE]
Services == [hub |-> hub # 0, monitor |-> monitor, chat |-> chat, recorded |-> TRUE]
Held == {d \in Objects : phase[d] \in {"open", "dead"}}
At(pc) == [pc |-> pc, d |-> 0, for |-> "menu"]
Unused == Objects \ {dev, hub, front.d, back.d}

\* The session starts: the monitor waits for the hub, and no device is open.
Init ==
  /\ dev = 0 /\ phase = [d \in Objects |-> "closed"]
  /\ front = At("menu") /\ back = At("idle")
  /\ hub = 0 /\ monitor = TRUE /\ chat = FALSE
  /\ intent = None
  /\ wanted = [None EXCEPT !.monitor = TRUE, !.recorded = TRUE]
  /\ overtaken = FALSE

-----------------------------------------------------------------------------
(* device() and _open().                                                   *)

\* device() without a device: the object is current before it is open.
Create(d) == d \in Unused /\ dev' = d /\ phase' = [phase EXCEPT ![d] = "new"]

\* connect() returns, also for an object that was let go meanwhile.
Connects(d) == phase' = [phase EXCEPT ![d] = "open"]

\* disconnect() of an object: one that is not open yet has nothing to close.
Disconnected(d) == [phase EXCEPT ![d] = IF @ \in {"open", "dead"} THEN "closed" ELSE @]

\* A plausible slip of _open(): the device that failed to open stays the current one.
OpenFailedKeeps(d) ==
  /\ phase' = [phase EXCEPT ![d] = "closed"]
  /\ UNCHANGED <<dev, overtaken>>

\* connect() raises: _open drops the current device, which is not always the one that failed.
OpenFailed(d) ==
  /\ dev' = 0
  /\ phase' = [x \in Objects |->
                 IF x = d \/ (x = dev /\ phase[x] \in {"open", "dead"}) THEN "closed" ELSE phase[x]]
  /\ overtaken' = (overtaken \/ dev \notin {0, d})

-----------------------------------------------------------------------------
(* The menu.                                                               *)

\* chat.start(), which starts the hub first. It raises on a device that is not open.
StartChat ==
  IF phase[dev] \in {"open", "dead"}
  THEN /\ hub' = IF hub = 0 THEN dev ELSE hub
       /\ chat' = TRUE
       /\ wanted' = [wanted EXCEPT !.hub = TRUE, !.chat = TRUE]
  ELSE UNCHANGED <<hub, chat, wanted>>

\* A tool of the menu asks for the device, or a chat screen (or the start of the session)
\* starts the recording.
MenuAsks(for) ==
  /\ front.pc = "menu"
  /\ \/ /\ dev = 0
        /\ \E d \in Objects : Create(d) /\ front' = [pc |-> "opening", d |-> d, for |-> for]
        /\ UNCHANGED <<hub, chat, wanted>>
     \/ /\ dev # 0 /\ for = "chat"
        /\ StartChat
        /\ UNCHANGED <<dev, phase, front>>
  /\ UNCHANGED <<back, monitor, intent, overtaken>>

\* Its device is open. _settle_connection() follows.
FrontOpened ==
  /\ front.pc = "opening"
  /\ Connects(front.d)
  /\ front' = [front EXCEPT !.pc = "settling", !.d = 0]
  /\ UNCHANGED <<dev, back, hub, monitor, chat, intent, wanted, overtaken>>

\* A plausible slip of the reconnector: an error of the connection ends it.
FrontFailsEnds ==
  /\ front.pc = "opening"
  /\ OpenFailed(front.d)
  /\ front' = IF front.for = "reconnect" THEN At("gone") ELSE At("menu")
  /\ UNCHANGED <<back, hub, monitor, chat, intent, wanted>>

\* The tool says so; the reconnector waits, and tries again.
FrontFails ==
  /\ front.pc = "opening"
  /\ OpenFailed(front.d)
  /\ front' = IF front.for = "reconnect" THEN At("waiting") ELSE At("menu")
  /\ UNCHANGED <<back, hub, monitor, chat, intent, wanted>>

\* The tool goes on with the device that is now current.
Settled ==
  /\ front.pc = "settling" /\ front.for # "reconnect"
  /\ front' = At("menu")
  /\ IF front.for = "chat" /\ dev # 0 THEN StartChat ELSE UNCHANGED <<hub, chat, wanted>>
  /\ UNCHANGED <<dev, phase, back, monitor, intent, overtaken>>

-----------------------------------------------------------------------------
(* The loss of the link, and the reconnector.                              *)

LinkDrops(d) ==
  /\ phase[d] = "open"
  /\ phase' = [phase EXCEPT ![d] = "dead"]
  /\ UNCHANGED <<dev, front, back, hub, monitor, chat, intent, wanted, overtaken>>

\* The watcher finds the link lost, or the user sent a reboot, and the worker is cancelled.
\* release_link() notes what was running, once, and stops the recorders.
Release ==
  /\ front.pc = "menu" \/ (front.pc = "settling" /\ front.for # "reconnect")
  /\ dev # 0 /\ phase[dev] \in {"open", "dead"}
  /\ intent' = IF intent.recorded THEN intent ELSE Services
  /\ monitor' = FALSE /\ chat' = FALSE
  /\ front' = At("stopping")
  /\ UNCHANGED <<dev, phase, back, hub, wanted, overtaken>>

\* A plausible slip of release_link(): the hub is forgotten.
LetGoKeepsHub ==
  /\ front.pc = "stopping"
  /\ front' = IF dev = 0 THEN At("waiting") ELSE [pc |-> "closing", d |-> dev, for |-> "menu"]
  /\ UNCHANGED <<dev, phase, back, hub, monitor, chat, intent, wanted, overtaken>>

\* The hub stops, and the disconnect of the device begins.
LetGo ==
  /\ front.pc = "stopping"
  /\ hub' = 0
  /\ front' = IF dev = 0 THEN At("waiting") ELSE [pc |-> "closing", d |-> dev, for |-> "menu"]
  /\ UNCHANGED <<dev, phase, back, monitor, chat, intent, wanted, overtaken>>

\* A plausible slip of release_link(): the device is dropped, and its link is kept.
ClosedForgets ==
  /\ front.pc = "closing" /\ front.for = "menu"
  /\ front' = At("waiting") /\ dev' = 0
  /\ UNCHANGED <<phase, back, hub, monitor, chat, intent, wanted, overtaken>>

\* The disconnect is over, and no device is current.
Closed ==
  /\ front.pc = "closing" /\ front.for = "menu"
  /\ phase' = Disconnected(front.d)
  /\ front' = At("waiting") /\ dev' = 0
  /\ UNCHANGED <<back, hub, monitor, chat, intent, wanted, overtaken>>

\* A plausible slip of reconnect(): release_link() notes again what is running.
ReconnectRecords ==
  /\ front.pc = "waiting"
  /\ intent' = Services
  /\ IF dev = 0
     THEN \E d \in Objects : Create(d) /\ front' = [pc |-> "opening", d |-> d, for |-> "reconnect"]
     ELSE front' = [pc |-> "closing", d |-> dev, for |-> "reconnect"] /\ UNCHANGED <<dev, phase>>
  /\ UNCHANGED <<back, hub, monitor, chat, wanted, overtaken>>

\* The device is there again: reconnect() releases what is current now (a device that the
\* back task has opened, or is opening), and opens one.
Reconnect ==
  /\ front.pc = "waiting"
  /\ IF dev = 0
     THEN \E d \in Objects : Create(d) /\ front' = [pc |-> "opening", d |-> d, for |-> "reconnect"]
     ELSE front' = [pc |-> "closing", d |-> dev, for |-> "reconnect"] /\ UNCHANGED <<dev, phase>>
  /\ UNCHANGED <<back, hub, monitor, chat, intent, wanted, overtaken>>

Reopen ==
  /\ front.pc = "closing" /\ front.for = "reconnect"
  /\ overtaken' = (overtaken \/ (back.pc = "opening" /\ back.d = front.d))
  /\ \E d \in Unused :
       /\ dev' = d
       /\ phase' = [Disconnected(front.d) EXCEPT ![d] = "new"]
       /\ front' = [pc |-> "opening", d |-> d, for |-> "reconnect"]
  /\ UNCHANGED <<back, hub, monitor, chat, intent, wanted>>

\* The device is settled: what was running starts again on the current device, and the note
\* of it goes. Without a current device the hub opens one; on one that is not open it
\* raises, and the reconnector tries again.
Resume ==
  /\ front.pc = "settling" /\ front.for = "reconnect"
  /\ \/ /\ intent.hub /\ dev = 0
        /\ \E d \in Objects : Create(d) /\ front' = [pc |-> "opening", d |-> d, for |-> "reconnect"]
        /\ UNCHANGED <<hub, monitor, chat, intent>>
     \/ /\ intent.hub /\ dev # 0 /\ phase[dev] \notin {"open", "dead"}
        /\ front' = At("waiting")
        /\ UNCHANGED <<dev, phase, hub, monitor, chat, intent>>
     \/ /\ intent.hub => (dev # 0 /\ phase[dev] \in {"open", "dead"})
        /\ hub' = IF intent.hub THEN dev ELSE 0
        /\ monitor' = intent.monitor /\ chat' = intent.chat
        /\ intent' = None
        /\ front' = At("menu")
        /\ UNCHANGED <<dev, phase>>
  /\ UNCHANGED <<back, wanted, overtaken>>

-----------------------------------------------------------------------------
(* The back task.                                                          *)

BackChecks ==
  /\ back.pc = "idle" /\ dev # 0 /\ front.pc # "over"
  /\ back' = At("checked")
  /\ UNCHANGED <<dev, phase, front, hub, monitor, chat, intent, wanted, overtaken>>

BackAsks ==
  /\ back.pc = "checked"
  /\ IF dev = 0
     THEN \E d \in Objects : Create(d) /\ back' = [At("opening") EXCEPT !.d = d]
     ELSE back' = At("idle") /\ UNCHANGED <<dev, phase>>
  /\ UNCHANGED <<front, hub, monitor, chat, intent, wanted, overtaken>>

BackOpened ==
  /\ back.pc = "opening"
  /\ Connects(back.d)
  /\ back' = At("idle")
  /\ UNCHANGED <<dev, front, hub, monitor, chat, intent, wanted, overtaken>>

BackFails ==
  /\ back.pc = "opening"
  /\ OpenFailed(back.d)
  /\ back' = At("idle")
  /\ UNCHANGED <<front, hub, monitor, chat, intent, wanted>>

-----------------------------------------------------------------------------
(* The end of the session.                                                 *)

Quits == front.pc \in {"menu", "waiting"} \/ (front.for = "reconnect" /\ front.pc # "closing")

\* The user quits, from the menu or from the dialog of the reconnector, and what the front
\* task opens is cancelled. aclose(): the services behind the screens end before the
\* recorders, the hub, and the device at last.
Quit ==
  /\ Quits
  /\ back' = At("idle")
  /\ phase' = [d \in Objects |-> IF d \in {dev, front.d, back.d} THEN "closed" ELSE phase[d]]
  /\ front' = At("over")
  /\ hub' = 0 /\ monitor' = FALSE /\ chat' = FALSE /\ dev' = 0
  /\ UNCHANGED <<intent, wanted, overtaken>>

-----------------------------------------------------------------------------
Reconnecting == LetGo \/ Closed \/ Reconnect \/ Reopen \/ FrontOpened \/ FrontFails \/ Resume

Next ==
  \/ \E for \in {"tool", "chat"} : MenuAsks(for)
  \/ Settled
  \/ \E d \in Objects : LinkDrops(d)
  \/ Release \/ Reconnecting
  \/ BackChecks \/ BackAsks \/ BackOpened \/ BackFails
  \/ Quit

\* The reconnector goes on, each wait of it is limited, and a device that is tried again and
\* again answers some time.
Spec == Init /\ [][Next]_vars /\ WF_vars(Reconnecting) /\ SF_vars(FrontOpened)

-----------------------------------------------------------------------------
(* Properties.                                                             *)

\* The types; the recording of the chat never runs without the hub that feeds it; and the
\* front task opens or closes an object exactly at the two places where it waits for one.
TypeOK ==
  /\ dev \in 0..DEVICES /\ hub \in 0..DEVICES
  /\ phase \in [Objects -> {"new", "open", "dead", "closed"}]
  /\ front \in [pc: {"menu", "opening", "settling", "stopping", "closing", "waiting", "over"},
                d: 0..DEVICES, for: {"menu", "tool", "chat", "reconnect"}]
  /\ back \in [pc: {"idle", "checked", "opening"}, d: 0..DEVICES, for: {"menu"}]
  /\ front.d # 0 <=> front.pc \in {"opening", "closing"}
  /\ {monitor, chat, overtaken} \subseteq BOOLEAN
  /\ {intent, wanted} \subseteq [hub: BOOLEAN, monitor: BOOLEAN, chat: BOOLEAN, recorded: BOOLEAN]
  /\ chat => hub # 0

\* In the menu, the services run that the session has started, after any number of losses and
\* failed tries of the reconnector ("records what was running one time, and keeps the record
\* across retries").
ResumedAsBefore == front.pc = "menu" => Services = wanted

\* The hub listens to the current device, or to none: a subscription never stays on a device
\* that was let go (unless a device was overtaken).
HubFollowsLink ==
  front.pc \in {"menu", "waiting", "over"} /\ ~overtaken => hub \in {0, dev}

\* No link is held but that of the current device ("if MeshTerm releases the link first, the
\* peripheral is on the air again"), and none after the end of the session.
OnlyCurrentIsHeld == ~overtaken => Held \subseteq {dev} \ {0}

\* What is_connected calls a connection has been opened, unless its owner is opening it now
\* ("MeshTerm does not keep a device that failed to open").
ConnectedWasOpened ==
  dev # 0 /\ ~overtaken => dev \in Held \/ dev \in {front.d, back.d}

\* Nothing holds a device when the session is over.
OverIsOver == front.pc = "over" /\ ~overtaken => dev = 0 /\ Held = {} /\ back.pc = "idle"

\* Whoever opens, loses and lets go devices, and in whatever order: no link is left behind,
\* in the session or after it (release_link, reconnect, aclose).
NothingElseIsHeld == OnlyCurrentIsHeld /\ OverIsOver

\* A lost link comes back, or the user quits, whatever the back task does meanwhile; unless
\* the reconnector has overtaken it.
ReconnectEnds ==
  front.pc = "waiting" ~> front.pc \in {"menu", "over"} \/ overtaken

=============================================================================
