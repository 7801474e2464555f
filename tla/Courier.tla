------------------------------- MODULE Courier -------------------------------
(***************************************************************************)
(* The Courier service (services/courier.py) on its store, with the part   *)
(* of the chat service a try goes through: send_direct, the soft retries   *)
(* and the late acks (services/chat_service.py).                           *)
(*                                                                         *)
(* Everything runs on one event loop, so control moves between the actors  *)
(* only at an await. The actors are the loop of the courier, which runs    *)
(* the passes, and the user at the outbox screen, who does one thing at a  *)
(* time. Each can run a try; `try` holds the await at which its coroutine  *)
(* is:                                                                     *)
(*   resolving  _resolve reads the contact list of the device              *)
(*   sending    the message is handed to the companion                     *)
(*   waiting    the send waits for the ack of its last transmission        *)
(*   acked      that ack arrived, and the coroutine has not resumed yet    *)
(*                                                                         *)
(* The code of an ack names one transmission: <<i, k>> is the k-th         *)
(* transmission of entry i. Ack codes do not repeat. The device pushes an  *)
(* ack at any time after its transmission, or never, or more than once.    *)
(***************************************************************************)
EXTENDS CourierStore

CONSTANTS
  Known,           \* the recipients in the contact list of the device
  MAX_ATTEMPTS,    \* the tries before the courier stops
  FRESH_S,         \* a node heard this many ticks ago is still fresh
  BACKOFF_BASE_S,  \* the wait after the first failed try
  SOFT_RETRIES,    \* the preference direct_message_soft_retries
  MAX_SENDS,       \* bound: how many transmissions of an entry a behaviour makes
  SaveOutcomes     \* {TRUE}, or BOOLEAN when the writes of courier.json may fail

ASSUME CourierAssumption ==
  /\ Known \subseteq Nodes
  /\ MAX_ATTEMPTS \in Nat \ {0}
  /\ FRESH_S \in Nat
  /\ BACKOFF_BASE_S \in Nat
  /\ SOFT_RETRIES \in Nat
  /\ MAX_SENDS \in Nat
  /\ SaveOutcomes \subseteq BOOLEAN

VARIABLES
  running,    \* the loop runs, and the courier listens to the hub
  silence,    \* _heard: ticks since each node was heard, FRESH_S + 1 for stale or never
  inFlight,   \* _in_flight
  held,       \* _held: the entries whose edit prompt is open
  try,        \* the try that each actor runs
  awaiting,   \* ChatService._awaiting: for each unacked message, the codes it waits for
  connected,  \* AppContext.is_connected
  alerts,     \* the Watchtower alerts of the courier
  sent,       \* history: the body of each transmission of each entry
  acked       \* history: the codes of each entry whose ack reached this host

serviceVars == <<running, silence, inFlight, held, try, awaiting, connected, alerts, sent, acked>>
vars == <<storeVars, serviceVars>>

Actors == {"loop", "user"}
None == 0   \* inFlight of no entry: idents start at 1

Idle == [pc |-> "idle", ident |-> None, text |-> CHOOSE x \in Texts : TRUE,
         round |-> 0, codes |-> {}]

Try == [pc: {"idle", "resolving", "sending", "waiting", "acked"}, ident: Idents \cup {None},
        text: Texts, round: Nat, codes: SUBSET Nat]

Chat == [ident: Idents, codes: SUBSET Nat]

Init ==
  /\ StoreInit
  /\ running = FALSE
  /\ silence = [n \in Nodes |-> FRESH_S + 1]
  /\ inFlight = None
  /\ held = {}
  /\ try = [a \in Actors |-> Idle]
  /\ awaiting = {}
  /\ connected = FALSE
  /\ alerts = {}
  /\ sent = [i \in Idents |-> <<>>]
  /\ acked = [i \in Idents |-> {}]

-----------------------------------------------------------------------------
(* Eligibility.                                                            *)

Backoff(attempts) ==
  LET wait == BACKOFF_BASE_S * 2 ^ (attempts - 1)
  IN IF wait < BACKOFF_CAP_S THEN wait ELSE BACKOFF_CAP_S

HeardRecently(node) == silence[node] <= FRESH_S

\* A plausible slip of eligible(): the wait does not grow with the failures.
EligibleFlatBackoff(i) ==
  /\ entries[i].status = QUEUED
  /\ entries[i].delay <= 0
  /\ entries[i].attempts > 0 => entries[i].since >= BACKOFF_BASE_S
  /\ \/ entries[i].delay # Unscheduled /\ entries[i].attempts = 0
     \/ HeardRecently(entries[i].node)

\* eligible(): the rules under which a pass may try an entry.
Eligible(i) ==
  /\ entries[i].status = QUEUED
  /\ entries[i].delay <= 0
  /\ entries[i].attempts > 0 => entries[i].since >= Backoff(entries[i].attempts)
  /\ \/ entries[i].delay # Unscheduled /\ entries[i].attempts = 0
     \/ HeardRecently(entries[i].node)

-----------------------------------------------------------------------------
(* One try (_attempt).                                                     *)

\* _attempt() up to its first await.
Begin(a, i) ==
  /\ inFlight' = i
  /\ try' = [try EXCEPT ![a] = [Idle EXCEPT !.pc = "resolving", !.ident = i]]

\* A plausible slip of the end of a try: it releases only its own guard.
EndKeepsGuard(a) ==
  /\ try' = [try EXCEPT ![a] = Idle]
  /\ UNCHANGED inFlight

\* The end of a try, by a return or an exception (the finally of _attempt).
End(a) ==
  /\ try' = [try EXCEPT ![a] = Idle]
  /\ inFlight' = None

\* The entries a pass may try now.
Candidates == {i \in Waiting : i \notin held /\ Eligible(i)}

\* A plausible slip of _pass(): it does not look at the guard of a try in progress.
PassUnguarded ==
  /\ running /\ connected
  /\ try["loop"].pc = "idle"
  /\ \E i \in Candidates :
       /\ \A j \in Candidates : i <= j
       /\ Begin("loop", i)
  /\ UNCHANGED <<storeVars, running, silence, held, awaiting, connected, alerts, sent, acked>>

\* Another one: it does not look at the held entries.
PassIgnoresHold ==
  /\ running /\ connected
  /\ inFlight = None
  /\ try["loop"].pc = "idle"
  /\ \E i \in Waiting :
       /\ Eligible(i)
       /\ \A j \in Waiting : Eligible(j) => i <= j
       /\ Begin("loop", i)
  /\ UNCHANGED <<storeVars, running, silence, held, awaiting, connected, alerts, sent, acked>>

\* _pass(): try the oldest eligible entry, if there is one.
Pass ==
  /\ running /\ connected
  /\ inFlight = None
  /\ try["loop"].pc = "idle"
  /\ \E i \in Candidates :
       /\ \A j \in Candidates : i <= j
       /\ Begin("loop", i)
  /\ UNCHANGED <<storeVars, running, silence, held, awaiting, connected, alerts, sent, acked>>

\* The user is at the outbox list: no prompt is open, and no Send now runs.
UserIsFree == held = {} /\ try["user"].pc = "idle"

\* attempt_now(): Send now, without the eligibility rules. (A busy courier and a gone entry
\* only get an answer.)
AttemptNow(i) ==
  /\ UserIsFree
  /\ i \in Waiting
  /\ inFlight = None
  /\ Begin("user", i)
  /\ UNCHANGED <<storeVars, running, silence, held, awaiting, connected, alerts, sent, acked>>

\* _resolve() found no contact: the entry stays as it is.
ResolveUnknown(a) ==
  /\ try[a].pc = "resolving"
  /\ connected
  /\ entries[try[a].ident].node \notin Known
  /\ End(a)
  /\ UNCHANGED <<storeVars, running, silence, held, awaiting, connected, alerts, sent, acked>>

\* A plausible slip of _attempt(): the try is counted only after its message went out.
StartSendUncounted(a, saves) ==
  /\ try[a].pc = "resolving"
  /\ connected
  /\ entries[try[a].ident].node \in Known
  /\ entries[try[a].ident].attempts < MAX_TRIES
  /\ saves
  /\ try' = [try EXCEPT ![a].pc = "sending", ![a].text = entries[try[a].ident].text]
  /\ UNCHANGED <<storeVars, inFlight>>
  /\ UNCHANGED <<running, silence, held, awaiting, connected, alerts, sent, acked>>

\* _resolve() found the contact: count the try, then call send_direct. When the file cannot
\* be written, note_attempt raises and nothing is sent.
StartSend(a, saves) ==
  /\ try[a].pc = "resolving"
  /\ connected
  /\ entries[try[a].ident].node \in Known
  /\ entries[try[a].ident].attempts < MAX_TRIES
  /\ NoteAttempt(try[a].ident, saves)
  /\ IF saves \/ try[a].ident \notin listed
     THEN /\ try' = [try EXCEPT ![a].pc = "sending", ![a].text = entries[try[a].ident].text]
          /\ UNCHANGED inFlight
     ELSE End(a)
  /\ UNCHANGED <<running, silence, held, awaiting, connected, alerts, sent, acked>>

\* send_direct_message(): the companion takes the message, and names the code of its ack.
Transmit(a) ==
  LET i == try[a].ident
      k == Len(sent[i]) + 1
  IN /\ try[a].pc = "sending"
     /\ connected
     /\ k <= MAX_SENDS
     /\ sent' = [sent EXCEPT ![i] = Append(@, try[a].text)]
     /\ try' = [try EXCEPT ![a].pc = "waiting", ![a].round = @ + 1, ![a].codes = @ \cup {k}]
     /\ UNCHANGED <<storeVars, running, silence, inFlight, held, awaiting, connected, alerts, acked>>

\* The wait for the ack ended without it, and _deliver_direct has a soft retry left.
SoftRetry(a) ==
  /\ try[a].pc = "waiting"
  /\ try[a].round <= SOFT_RETRIES
  /\ try' = [try EXCEPT ![a].pc = "sending"]
  /\ UNCHANGED <<storeVars, running, silence, inFlight, held, awaiting, connected, alerts, sent, acked>>

\* A plausible slip of _attempt(): the budget is compared before this try is in it.
TryUnackedEarly(a, saves) ==
  LET i == try[a].ident
      spent == entries[i].attempts + 1 >= MAX_ATTEMPTS
  IN /\ try[a].pc = "waiting"
     /\ try[a].round > SOFT_RETRIES
     /\ awaiting' = awaiting \cup {[ident |-> i, codes |-> try[a].codes]}
     /\ IF spent THEN Finish(i, GAVE_UP, saves) ELSE UNCHANGED storeVars
     /\ alerts' = IF spent /\ (saves \/ i \notin listed)
                  THEN alerts \cup {<<i, "gave up">>} ELSE alerts
     /\ End(a)
     /\ UNCHANGED <<running, silence, held, connected, sent, acked>>

\* The last wait ended without the ack: send_direct stores the message and files its codes
\* (_await_ack), and the courier gives up when the budget is spent.
TryUnacked(a, saves) ==
  LET i == try[a].ident
      spent == entries[i].attempts >= MAX_ATTEMPTS
  IN /\ try[a].pc = "waiting"
     /\ try[a].round > SOFT_RETRIES
     /\ awaiting' = awaiting \cup {[ident |-> i, codes |-> try[a].codes]}
     /\ IF spent THEN Finish(i, GAVE_UP, saves) ELSE UNCHANGED storeVars
     /\ alerts' = IF spent /\ (saves \/ i \notin listed)
                  THEN alerts \cup {<<i, "gave up">>} ELSE alerts
     /\ End(a)
     /\ UNCHANGED <<running, silence, held, connected, sent, acked>>

\* A plausible slip of _await_ack: the codes are filed before the wait is looked at.
TryAckedFiles(a, saves) ==
  LET i == try[a].ident
  IN /\ try[a].pc = "acked"
     /\ awaiting' = awaiting \cup {[ident |-> i, codes |-> try[a].codes]}
     /\ Finish(i, DELIVERED, saves)
     /\ alerts' = IF saves \/ i \notin listed THEN alerts \cup {<<i, "delivered">>} ELSE alerts
     /\ End(a)
     /\ UNCHANGED <<running, silence, held, connected, sent, acked>>

\* The ack came in the wait: send_direct stores the message, and the entry is delivered.
TryAcked(a, saves) ==
  LET i == try[a].ident
  IN /\ try[a].pc = "acked"
     /\ Finish(i, DELIVERED, saves)
     /\ alerts' = IF saves \/ i \notin listed THEN alerts \cup {<<i, "delivered">>} ELSE alerts
     /\ End(a)
     /\ UNCHANGED <<running, silence, held, awaiting, connected, sent, acked>>

\* An exception ends the try: the device or its contact list cannot be read, the companion
\* rejects the send, or the history row cannot be written after the last wait. The codes of
\* the transmissions that the try already made are filed nowhere.
TryFails(a) ==
  /\ \/ try[a].pc \in {"resolving", "sending", "acked"}
     \/ try[a].pc = "waiting" /\ try[a].round > SOFT_RETRIES
  /\ End(a)
  /\ UNCHANGED <<storeVars, running, silence, held, awaiting, connected, alerts, sent, acked>>

-----------------------------------------------------------------------------
(* Acks.                                                                   *)

\* A plausible slip of _delivered_late(): only an entry that was given up needs the news.
DeliveredLateAfterGiveUp(i, saves) ==
  IF i \in listed /\ entries[i].status = GAVE_UP
  THEN /\ Finish(i, DELIVERED, saves)
       /\ alerts' = IF saves THEN alerts \cup {<<i, "late">>} ELSE alerts
  ELSE UNCHANGED <<storeVars, alerts>>

\* _delivered_late(): the ack of a try that stopped its wait.
DeliveredLate(i, saves) ==
  IF i \in listed /\ entries[i].status # DELIVERED
  THEN /\ Finish(i, DELIVERED, saves)
       /\ alerts' = IF saves THEN alerts \cup {<<i, "late">>} ELSE alerts
  ELSE UNCHANGED <<storeVars, alerts>>

\* A send waits for this very ack (on_ack of send_direct_message).
WaitsFor(a, i, k) == try[a].pc = "waiting" /\ try[a].ident = i /\ k = Len(sent[i])

AckInTime(i, k) ==
  /\ \E a \in Actors :
       /\ WaitsFor(a, i, k)
       /\ try' = [try EXCEPT ![a].pc = "acked"]
  /\ UNCHANGED <<storeVars, awaiting, alerts>>

\* A plausible slip of _attempt(): the listener of a late ack binds the entry of a later try.
AckLateRebound(i, k, saves) ==
  /\ \E chat \in awaiting :
       /\ chat.ident = i /\ k \in chat.codes
       /\ awaiting' = awaiting \ {chat}
  /\ \E j \in {chat.ident : chat \in awaiting} :
       /\ \A chat \in awaiting : chat.ident <= j
       /\ DeliveredLate(j, saves)
  /\ UNCHANGED try

\* The ack of a message filed in _awaiting: its codes are released and its listener called
\* (_settle_ack).
AckLate(i, k, saves) ==
  /\ \E chat \in awaiting :
       /\ chat.ident = i /\ k \in chat.codes
       /\ awaiting' = awaiting \ {chat}
  /\ DeliveredLate(i, saves)
  /\ UNCHANGED try

\* Nothing waits for the ack. While a soft retry runs, the ack of its earlier round is such
\* an ack: the send listens for its last code, and the codes are filed only when it ends.
AckUnknown(i, k) ==
  /\ \A a \in Actors : ~WaitsFor(a, i, k)
  /\ \A chat \in awaiting : ~(chat.ident = i /\ k \in chat.codes)
  /\ UNCHANGED <<storeVars, try, awaiting, alerts>>

\* The hub gets an ack.
AckArrives(i, k, saves) ==
  /\ connected
  /\ k \in 1..Len(sent[i])
  /\ AckInTime(i, k) \/ AckLate(i, k, saves) \/ AckUnknown(i, k)
  /\ acked' = [acked EXCEPT ![i] = @ \cup {k}]
  /\ UNCHANGED <<running, silence, inFlight, held, connected, sent>>

-----------------------------------------------------------------------------
(* The user at the outbox screen (ui/courier_screen.py).                   *)

UserQueues(node, text, delay, saves) ==
  /\ UserIsFree
  /\ StoreQueue(node, text, delay, saves)
  /\ UNCHANGED serviceVars

\* A plausible slip of _open_entry(): the prompt opens on an entry that a try sends now.
OpenInFlight(i) ==
  /\ UserIsFree
  /\ i \in Waiting
  /\ held' = held \cup {i}
  /\ UNCHANGED <<storeVars, running, silence, inFlight, try, awaiting, connected, alerts, sent, acked>>

\* _open_entry() on a waiting entry that no try sends now: the edit prompt opens, and the
\* entry is held.
OpenEntry(i) ==
  /\ UserIsFree
  /\ i \in Waiting
  /\ inFlight # i
  /\ held' = held \cup {i}
  /\ UNCHANGED <<storeVars, running, silence, inFlight, try, awaiting, connected, alerts, sent, acked>>

\* The prompt closes. A new body goes into the entry if it still waits.
CloseEntry(i, text, saves) ==
  /\ i \in held
  /\ held' = held \ {i}
  /\ \/ EditBody(i, text, saves)
     \/ (text = entries[i].text \/ i \notin Waiting) /\ UNCHANGED storeVars
  /\ UNCHANGED <<running, silence, inFlight, try, awaiting, connected, alerts, sent, acked>>

UserDeletes(i, saves) ==
  /\ UserIsFree
  /\ Delete(i, saves)
  /\ UNCHANGED serviceVars

UserClearsDone(saves) ==
  /\ UserIsFree
  /\ ClearDone(saves)
  /\ UNCHANGED serviceVars

-----------------------------------------------------------------------------
(* The session, the link and the clock.                                    *)

\* start(): the loop and the freshness subscription.
Start ==
  /\ ~running
  /\ running' = TRUE
  /\ UNCHANGED <<storeVars, silence, inFlight, held, try, awaiting, connected, alerts, sent, acked>>

\* stop(): the task of the loop is cancelled at its await, and no packet is heard any more.
Stop ==
  /\ running
  /\ running' = FALSE
  /\ IF try["loop"].pc # "idle" THEN End("loop") ELSE UNCHANGED <<try, inFlight>>
  /\ UNCHANGED <<storeVars, silence, held, awaiting, connected, alerts, sent, acked>>

\* The process ends, at any point, and the next one loads the outbox.
Restart ==
  /\ Load
  /\ running' = FALSE
  /\ silence' = [n \in Nodes |-> FRESH_S + 1]
  /\ inFlight' = None
  /\ held' = {}
  /\ try' = [a \in Actors |-> Idle]
  /\ awaiting' = {}
  /\ connected' = FALSE
  /\ UNCHANGED <<alerts, sent, acked>>

\* The link to the companion drops or comes back. The table of awaited acks stays.
LinkChanges ==
  /\ connected' = ~connected
  /\ UNCHANGED <<storeVars, running, silence, inFlight, held, try, awaiting, alerts, sent, acked>>

\* An observation of the hub names a node (on_event of start).
Hear(node) ==
  /\ running /\ connected
  /\ silence' = [silence EXCEPT ![node] = 0]
  /\ UNCHANGED <<storeVars, running, inFlight, held, try, awaiting, connected, alerts, sent, acked>>

Tick ==
  /\ Age
  /\ silence' = [n \in Nodes |-> IF silence[n] <= FRESH_S THEN silence[n] + 1 ELSE silence[n]]
  /\ UNCHANGED <<running, inFlight, held, try, awaiting, connected, alerts, sent, acked>>

-----------------------------------------------------------------------------
TryStep(a) ==
  \/ ResolveUnknown(a)
  \/ \E saves \in SaveOutcomes : StartSend(a, saves) \/ TryUnacked(a, saves) \/ TryAcked(a, saves)
  \/ Transmit(a)
  \/ SoftRetry(a)

UserStep ==
  \/ \E i \in Idents : AttemptNow(i) \/ OpenEntry(i)
  \/ \E saves \in SaveOutcomes :
       \/ \E node \in Nodes, text \in Texts, delay \in Delays : UserQueues(node, text, delay, saves)
       \/ \E i \in Idents : UserDeletes(i, saves) \/ \E text \in Texts : CloseEntry(i, text, saves)
       \/ UserClearsDone(saves)

Ack == \E i \in Idents, saves \in SaveOutcomes : \E k \in 1..MAX_SENDS : AckArrives(i, k, saves)

World ==
  \/ Start \/ Stop \/ Restart \/ LinkChanges \/ Tick
  \/ \E node \in Nodes : Hear(node)
  \/ \E a \in Actors : TryFails(a)

Next ==
  \/ Pass
  \/ \E a \in Actors : TryStep(a)
  \/ UserStep
  \/ Ack
  \/ World

Spec == Init /\ [][Next]_vars

-----------------------------------------------------------------------------
(* Safety.                                                                 *)

ServiceTypeOK ==
  /\ running \in BOOLEAN /\ connected \in BOOLEAN
  /\ silence \in [Nodes -> 0..(FRESH_S + 1)]
  /\ inFlight \in Idents \cup {None}
  /\ held \in SUBSET Idents
  /\ try \in [Actors -> Try]
  /\ awaiting \in SUBSET Chat
  /\ alerts \in SUBSET (Idents \X {"delivered", "late", "gave up"})
  /\ sent \in [Idents -> Seq(Texts)]
  /\ acked \in [Idents -> SUBSET Nat]

\* The type of the state: of the outbox, and of the service on it.
TypeOK == StoreTypeOK /\ ServiceTypeOK

Trying(a) == try[a].pc # "idle"

\* Only one try is in progress, from a pass or forced, and in_flight names its entry: the
\* screen reads it to decide whether the message may still be edited.
OneTryAtATime ==
  /\ \A a \in Actors : Trying(a) => inFlight = try[a].ident /\ inFlight # None
  /\ \A a, b \in Actors : Trying(a) /\ Trying(b) => a = b

\* While the edit prompt of a message is open, no try sends it: neither a pass that starts
\* behind the prompt, nor a try that was already in progress when the prompt opened
\* (holding, in_flight, _open_entry).
HeldIsNotTried == \A a \in Actors : Trying(a) => try[a].ident \notin held

\* The body of a message does not change while a try sends it: each soft retry sends what the
\* first round sent, and what the outbox shows (holding; edit changes the stored object).
BodyFixedDuringTry ==
  \A a \in Actors : try[a].pc \in {"sending", "waiting", "acked"} =>
    /\ entries[try[a].ident].text = try[a].text
    /\ try[a].round > 0 => sent[try[a].ident][Len(sent[try[a].ident])] = try[a].text

\* The file has counted each try of a message before its first transmission, so no crash
\* makes the courier spend the budget two times (note_attempt). An entry that left the list
\* in a session, and comes back because the file could not be written, is excepted.
BudgetSurvivesCrash ==
  \A i \in disk.listed \ gone :
    Len(sent[i]) <= disk.entries[i].attempts * (SOFT_RETRIES + 1)

\* The outbox shows a message as delivered only if an ack of one of its own transmissions
\* arrived, in its wait or later (_attempt, _delivered_late).
DeliveredMeansAcked ==
  \A i \in listed : entries[i].status = DELIVERED => acked[i] # {}

\* The courier gives up on a message only after all its tries.
GaveUpMeansSpent ==
  \A i \in listed : entries[i].status = GAVE_UP => entries[i].attempts >= MAX_ATTEMPTS

\* The ack of a filed message takes its entry out of the waiting ones, whatever its try, the
\* user and the writes of the file did to it since; and once the outbox says "late ack", which
\* it does when the file has it, no new try of this message begins, by a pass, by Send now or
\* in a later session. (A try that is already between two of its awaits goes on.)
LateAckSettles ==
  [][/\ \A chat \in awaiting \ awaiting' : connected' => chat.ident \notin Waiting'
     /\ \A a \in Actors :
          try[a].pc = "idle" /\ try'[a].pc # "idle" => <<try'[a].ident, "late">> \notin alerts]_vars

\* The tries that the courier makes by itself keep their distance, measured from the start of
\* the last try to the start of the next, across the await on the contact list.
AutomaticTriesAreSpaced ==
  [][\A i \in listed :
       /\ try["loop"].ident = i /\ entries'[i].attempts = entries[i].attempts + 1
       /\ try["loop"].pc = "resolving" /\ try["user"].pc = "idle"
       /\ entries[i].attempts > 0
       => \/ entries[i].since >= BACKOFF_CAP_S
          \/ entries[i].since >= BACKOFF_BASE_S * 2 ^ (entries[i].attempts - 1)]_vars

\* A filed message has not had the ack of its last transmission: no ack falls between the wait
\* of the send and the table of the late acks (_await_ack). The ack of an earlier soft round
\* can, see AckUnknown.
FiledIsUnacked ==
  \A chat \in awaiting :
    \E k \in chat.codes : k \notin acked[chat.ident] /\ \A j \in chat.codes : j <= k

-----------------------------------------------------------------------------
(* Liveness: a session that stays up, with a link that holds, in which the *)
(* user only queues. The menu starts the courier. Time passes, and each    *)
(* recipient is heard again and again. A freshness window (FRESH_S, ten    *)
(* minutes) holds twenty polls of the loop and is longer than a try: so no *)
(* tick falls into a try, where a tick is a window, and a message that is  *)
(* the oldest eligible one in window after window gets its pass, which is  *)
(* strong fairness for the pass of each message. The coroutine of a try    *)
(* always resumes, because each of its awaits has a limit.                 *)

LinkReturns == ~connected /\ LinkChanges
WindowPasses == (\A a \in Actors : try[a].pc = "idle") /\ Tick

SteadyNext ==
  \/ Pass
  \/ \E a \in Actors : TryStep(a)
  \/ \E node \in Nodes, text \in Texts, delay \in Delays : UserQueues(node, text, delay, TRUE)
  \/ Ack
  \/ Start \/ LinkReturns \/ WindowPasses
  \/ \E node \in Nodes : Hear(node)

SteadySpec ==
  /\ Init /\ [][SteadyNext]_vars
  /\ WF_vars(Start) /\ WF_vars(LinkReturns) /\ SF_vars(WindowPasses)
  /\ \A node \in Nodes : WF_vars(Hear(node))
  /\ \A i \in Idents : SF_vars(Pass /\ inFlight' = i)
  /\ \A a \in Actors : WF_vars(TryStep(a))

\* Each message for a contact that the device knows leaves the outbox, delivered or given up,
\* unless an older message waits for a recipient that the device does not know: "The message
\* goes out when MeshTerm next hears the contact" (docs/cli/README.md:1432). The exception is
\* real: _pass tries the oldest eligible message only, and one without a contact is neither
\* counted nor settled. A younger one without a contact takes nothing from the others.
KnownMessagesSettle ==
  \A i \in Idents :
    ( /\ i \in Waiting /\ entries[i].node \in Known
      /\ \A j \in Waiting : j < i => entries[j].node \in Known ) ~> (i \notin Waiting)

-----------------------------------------------------------------------------
(* The abstract outbox (Outbox.tla), and where a message stands in it.     *)

Standing(i) ==
  IF i \in listed THEN entries[i].status ELSE IF i < nextId THEN "removed" ELSE "new"

Promise == INSTANCE Outbox WITH
  Messages <- Idents,
  standing <- [i \in Idents |-> Standing(i)],
  tries <- [i \in Idents |-> entries[i].attempts],
  confirmed <- {i \in Idents : acked[i] # {}}

\* Through tries, acks in every order, prompts, deletions, stops and restarts, a message only
\* moves as the abstract outbox lets it: a removed one never returns, an ident names one
\* message, a verdict has its reason, and the cut takes no waiting message. This is so while
\* each write of the file succeeds (services/courier.py, core/courier_store.py).
ImplementsOutbox == Promise!Spec

=============================================================================
