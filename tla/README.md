# A TLA+ model of MeshTerm

MeshTerm is a terminal program for a MeshCore companion radio: it sends and reads messages on a
mesh, logs in to room servers, and keeps its data in JSON files and one SQLite database. It runs on
one asyncio event loop. So there are no data races, but there are many tasks (the loop of the
Courier, the workers of the services, the screens, the callbacks of the radio), and control moves
between them at each `await`. Everything here is about what can happen at those points: state
that is read before an `await` and used after it, answers that come late, tasks that are
cancelled, files that cannot be written, and processes that end.

This directory holds TLA+ modules that follow the code, TLC configurations that check them on small
instances, and TLAPS proofs of their main invariants. `PROJECT.json` lists the runs, and for each
definition the lines it models. To check a module, `tlc -config RoomReturns.cfg MCRooms`; to check
a proof, `tlapm CourierProofs.tla`.

## 1. The system

| Part | Source | State | Operations | Meets |
|---|---|---|---|---|
| Outbox store | `core/courier_store.py` | the list of queued and finished messages, the next ident, `courier.json` | queue, note_attempt, mark_delivered, mark_gave_up, edit, cancel, delete, clear_done, load, save | the Courier, the outbox screen, the `courier` commands |
| Courier | `services/courier.py` | the try in progress, the held entries, when each node was heard | start, stop, pass, attempt_now, holding, the late ack | the store, the chat service, the event hub, the Watchtower |
| Chat service | `services/chat_service.py` | the awaited ack codes, the queue of inbound messages, unread counts, the identity of each slot | send_direct, send_channel, ack, inbound message, set_active, clear_unread, refresh_channels, start, stop | the device, the event hub, the database, the chat screens |
| Transmit lock, scoped send | `core/transmit_lock.py`, `core/connection.py` | owner and depth of the lock, the window, the leaked scope; on the companion, the session scope | transmitting, send_channel_in_scope | every sender |
| Room service and stores | `services/rooms.py`, `core/room_store.py`, `core/admin_store.py` | the logins in progress, the memberships, their passwords | login, login_due, forget, heard, record | the device, the room screens |
| Device connection | `core/connection.py` | the client, its subscriptions, the message pump | connect, disconnect, contacts, login, send, settings | everything |
| Application context | `context.py`, `ui/menu.py` | the one device of the session, the note of what to resume | device, release_link, reconnect, aclose; the watcher and the reconnector of the menu | everything |
| Event hub | `services/event_hub.py` | the handlers, the started tasks, the device subscription | start, stop, subscribe, publish | the device, the services |
| Device state | `services/device_state.py`, `core/channel_probe.py` | caches of contacts, channels, self information; the lock and the epoch of the channels | read, probe, invalidate, forget | the device, the screens |
| Channel manager | `ui/channels.py`, `core/channel_file.py` | its working list of the slots | add, edit, clear, reorder, import, reload | the device, the device state, the chat service |
| Advert scheduler | `services/advert_scheduler.py`, `core/advert_store.py` | the key, the due verdict, the last packet heard; `adverts.json`: the switch-on time, the week of each node | pass, recheck, set_enabled, sync_enabled, arm, mark_flood | the device, the transmit gate, the preferences |
| Transmit gate | `core/transmit_gate.py` | when something was last sent | mark, remaining | the senders, the advert scheduler |
| Session lock, atomic write | `core/instancelock.py`, `core/atomicwrite.py` | the lock file, the renamed file | acquire, write | sessions and one-shot commands |
| Monitor, Watchtower, battery, clock | `services/` | rows, alerts, readings | start, stop, event, poll | the event hub, the device |
| Persistence | `persistence/` | SQLite | inserts and queries | the services |
| Views, probes, screens, tools, platforms | `services/`, `ui/`, `tools/`, `core/` | almost none that lasts | rendering, parsing, computation | the user |

What makes the parts hard, and what makes them correct:

- **Courier and outbox.** Two actors start tries (the loop and *Send now*), a third changes the
  entries (the edit prompt, delete), and acks come at any time, early, late, twice or never. Correct:
  one try at a time; a message that is open in the editor is not sent; a try is counted in the
  file before its transmission, so a crash does not spend the budget twice; a message is shown as
  delivered only when it was acked, and given up only when its budget is spent; the cut of the
  finished history never takes a waiting message.
- **Scoped send.** A channel message in a region is three commands to the companion (set the
  session scope, send, set it back), each of which can be refused, lost or cancelled. Correct: no
  other flood goes out between them; a scoped message goes out in its scope or not at all; a
  scope that stays on the companion is known and repaired first.
- **Rooms.** A login is a task that outlives the caller that began it; other callers share it or
  wait for it; the answers of a room name the room and not the login. Correct: one login at a time;
  only passwords that worked are kept; the room password survives later logins; each caller returns.
- **Inbound messages.** A message waits in the companion, in a queue and at two reads of the device,
  while screens open and close, slots change and rooms repeat their posts. Correct: the history is in
  the order of arrival, has each post once, and files each channel message under its channel; no
  message is neither on a screen nor in a badge.
- **Channel slots.** The layout is on the device, in a cache, in the list of the manager and in the
  map of the recorder; probes fail on their way, and a change is a row of writes without a
  transaction. Correct: what is kept as a layout is that of the device; a new channel overwrites
  none; a reorder or an import loses and doubles none.
- **The link.** The menu, the services behind the screens and the reconnector open and let go one
  device, each across awaits. Correct: after any number of losses the same services run, on the
  device that is current; no other link is held; nothing is held at the end.
- **The weekly advert.** Its verdict is cached, its store may not be writable, adverts are also sent
  by hand, and everything may end between the air and the mark. Correct: at most one in a week,
  none in the week after a switch-on, and one that is due goes out.

`PROJECT.json` ("hazards") lists the points one by one with their lines, those of the parts that
are not modelled yet included.

## 2. The modules

| Module | Extends | What it is |
|---|---|---|
| `CourierStore` | | the outbox file and every operation on it, with any order of calls (`StoreSpec`) |
| `Courier` | `CourierStore` | the service, the user, the companion and the clock, on that store (`Spec`, `SteadySpec`) |
| `Outbox` | | the abstract outbox: what the Courier promises, without passes, acks in flight, files or crashes |
| `ScopedSend` | | the lock, the window on the session scope, the companion (`Spec`, `FairSpec`) |
| `Rooms` | | the callers, logins and stores of one room, and the room (`Spec`, `FairSpec`) |
| `ChatInbox` | | the way of an inbound message to the history, the badge and the screen (`Spec`) |
| `ChannelTable` | | the slots of the companion, their cache and probe, the manager and the recorder (`Spec`) |
| `SessionLink` | | the device of the session, the hub and the recorders on it, the reconnector and a service behind the screens (`Spec`) |
| `Adverts` | | the scheduler of the weekly advert, its store, the transmit gate and lock, adverts by hand (`Spec`) |
| `MC...` | each of them | the small sets for TLC |
| `CourierStoreProofs`, `CourierProofs`, `ScopedSendProofs`, `RoomsProofs`, `ChatInboxProofs`, `ChannelTableProofs`, `SessionLinkProofs`, `AdvertsProofs` | each of them, and `TLAPS` | the theorems |

`Courier` composes the service with the store, the chat service, the user and the companion, and
instantiates `Outbox` under its refinement mapping. `Adverts` composes the scheduler with the store,
the gate and the lock. `ChannelTable` composes the cache of the device state with the manager and with
the slot map of the recorder, of which `ChatInbox` models the use for one slot. The parts that do not
share state (the outbox, the scopes, a room, the channels) are modelled apart.

A definition that is commented as *a plausible slip* stands beside the operation it is a slip of.
No specification uses it: it is there to show that a property notices the mistake.

### CourierStore

`entries` has the object of each ident and `listed` says which are in the list: callers keep
references to an entry after it was removed, and so does the code. `history` is the order of the
finished ones by the time they were settled (the code sorts by it), `disk` what `_load` would read now. Each operation takes `saves`, whether the write
succeeds; if not, the memory keeps the change, as in the code. Times are ages that saturate where
no comparison of the code tells them apart. `gone` is a history variable.

### Outbox

The abstract specification. A message stands somewhere (`new`, `queued`, `delivered`, `gave-up`,
`removed`) and moves for a reason: it is submitted under the next ident, it is delivered with an ack,
given up when its tries are spent, or removed by the user, and only finished messages leave by
themselves, when another settles. `Courier` instantiates it as `Promise`: `standing` comes from the
list and the status of an entry, `tries` from its attempts, `confirmed` from the acks that came.
`GiveUp` is allowed from `delivered`, because the code does not exclude it (section 3). The refinement
needs writes that succeed: after a failed one, a restart brings an older outbox back.

### Courier

An action is what one task does from one `await` to the next. `try[a]` is the place of the
coroutine of actor `a` in `_attempt` and below it: `resolving` (the contact list is read), `sending`
(the message goes to the companion), `waiting` (for the ack of the last transmission), `acked` (the
ack came, the coroutine has not resumed). `awaiting` is the table of the chat service, `sent` and
`acked` are history. `AckArrives` splits in the three places an ack can find: a send that listens
for this code, the table, or nothing. `TryFails` is any exception in a try, `Restart` the end of the
process and the start of the next one at any point.

Left out of it: the companion that accepts a message and names no ack code; the cap of
`_awaiting` (sixteen messages); a damaged outbox file; contacts that are found by name and not by
key (both are `Known`).

### ScopedSend

`pc[t]` is the command that task `t` is about to give: `repairing` a leak, `entered` (in
`transmitting`, about to set its scope or to send), `restoring`. The lock is the one of
`TransmitLock`: `waiters` is the queue of the `asyncio.Lock`, and `Reenter` the second entry of its
owner. `Outcomes` are the ways a command ends: `done` says whether the companion obeyed, `reply`
what the task sees. `Reconnect` makes a new `Device` on a companion that may have kept its scope.
A message in the scope `*` is `Plain` where plain is unscoped, and in the same three steps as a
region otherwise. Where the override is not available the code refuses before the first command;
that is `SetScope` with the outcome `Refused`, without the command.

### Rooms

A login is a slot of `login`, with its phase on the air; a caller `shares` a login or `waits` for its
end. `air` holds the answers that are on their way; `LATE` lets one arrive after its login stopped
its wait, when the next login takes it. `Accepted` is the rest of `_login_once`, the record in both
stores included, with `_settle`: no caller runs between the end of the task and its done callback
in a way that it could notice. The room (its owner's passwords, its members, its restarts) is
external. Its rooms do not interact, so one is modelled. A write of the stores that fails is not
modelled.

### ChatInbox

Messages are numbered as the mesh brings them. `inbox` is the queue of the companion, `Pull` one
round of the drain with the delivery by the hub, `queue` and `worker` those of the service. The worker
is `resolving` while it reads the slot of a channel message, and `notifying` while `_notifies` asks the
caches; its answer is any Boolean, but that a channel that could not be named never notifies. `rows` are
the inbound rows of the history. The screen reads the history (`OpenChat`), gathers what else it needs,
and is up (`ScreenUp`), which is where the code calls `set_active` and subscribes. The unread count is the
set of the messages that it stands for. `read`, `unsure` and `missed` are history: what was shown or
waived, which channel messages cannot be attributed (their slot changed before its read, or the read
failed), and which came while the screen of their conversation was put together. Starting the hub and
the service is one step, since nothing is awaited between their two subscriptions.

### ChannelTable

A layout gives the channel of each slot. `device` is that of the companion, `cache` what `channel_slots`
keeps, `probe` the one that holds its lock, `known` the slot map of the recorder. The manager is a task
with a program point: it loads, refiles, shows its menu, and writes a row of slots (`todo`: the content of
the slots that are left, lowest first). Each write reaches the device (`WriteDone`), is stored, and then
drops the cache (`Written`); or it raises (`WriteRaises`): `refused`, or `lost` when the device took it and
its answer did not come, or `unsaved` when the channel store cannot be written after it. `FlowRaises` is a
flow that is unwound after its write returned. `moved` says whether the epoch changed since the round
began. `ApplyOrder` and `PlanImport` are the two algorithms that make the writes. `stale` is history: the
slots that a copy did not read, or that were changed under it by another client or by a write that
raised; a new copy takes over those of the probe or of the copy that it comes from. An import reads the
device in one step (its own probe, which must be complete). Keys, names and derived secrets are
abstracted to an identity.

### SessionLink

`dev` is `_device`, and `phase` says of each device object whether it is new (stored, not open yet), open,
dead or closed. The front task is the worker of the menu or the reconnector that replaces it; the back
task stands for any service that checks `is_connected`, waits, and then calls `device()`. `OpenFailed`
drops the device that is current, as `_open` does, which is another one when the reconnector has
overtaken a task that still opens; `overtaken` is the history of that. `Resume` starts the hub, the
monitor and the chat on what is then current.

### Adverts

Times are ages in ticks, kept up to the limit at which they stop to matter. A pass of the scheduler is
one step but for its two awaits (the key, the advert). `Decides` has both looks at the store, with the
write that `sync_enabled` may need and its failure. An advert marks the gate (`Starts`), waits for the lock
in `line` for as long as it takes, goes out (`HandOver`), and is answered and marked by its caller
(`Answered`), or raises. The random extension of the silence is part of `QUIET_S`; the advert of the
command line does not wait for the cooldown, so `UserSends` has no such guard. `onFor`, `backdated` and
`flooded` are history: how long the preference has been on, whether its switch-on could not be written
over an earlier time, and when each node was last flooded by an advert that was not left unmarked
(`last` gives back what an unmarked one replaced). `Reachable` are the nodes whose advert is answered
some time; only the liveness property uses it.

## 3. The runs

Runs that pass:

| Run | Question | Bounds |
|---|---|---|
| `CourierStore` | does the cut of the finished history keep the waiting messages, and is an ident that the file has passed ever given to another message, after failed writes and restarts too? | 3 entries for a history of 1, 2 bodies, 1 counted try; one entry of a behaviour has the try or the other body (`MCOneTouched`) |
| `CourierBudget` | budget, backoff, body and give-up across crashes and failed writes; what waits for a late ack, and does a new try begin after it? | 1 message with 2 bodies, 3 tries against a budget of 2, a soft retry in each, a backoff that grows once |
| `CourierTries` | passes, *Send now*, edits and late acks together: do they implement the abstract outbox? | 2 messages, 2 tries each, one recipient that the device does not know |
| `CourierSettles` | does each message leave the outbox? | 2 messages, scheduled or not, for a recipient that the device knows and one that it does not |
| `ScopedSend` | who knows of the session scope, when does a flood carry a foreign region, does the window stay closed, and does each transmission have its turn? | 3 senders, 2 regions, every outcome of every command, reconnects |
| `RoomPasswords` | what do the stores remember, and does the room password survive? | 1 caller at a time, every password, a room that may refuse and whose owner may open the reading to any password |
| `RoomReturns` | do shared, awaited and abandoned logins return? | 2 callers, 3 slots, late answers |
| `ChatInbox` | order, repeated posts, the right channel, and no message lost between badge and screen | 2 messages of any kind, 2 channels, 1 change of the slot, screens of a channel and of the room, failing reads and writes, stops |
| `ChannelTable` | what do the cache, the list and the map hold, and what do rounds of writes do to the channels? | 2 slots, 2 channels, files of at most 2, failing probes, writes that succeed, are refused, lose their answer or cannot be stored, flows that are unwound, 1 write of another client; the channels are symmetric |
| `SessionLink` | what does a reconnect bring back, which links are held, and does it end? | 4 device objects referred to at a time, any number of losses, failures and tries |
| `Adverts` | at most one in a week, none after a switch-on, and does a due one go out? | 2 identities, a week of 2 ticks, quiet and cooldowns of 1, a due check every 2, failing writes, key imports, restarts, any wait for the lock; adverts by hand from one of the nodes (`MCByHandFromOne`), the scheduled one is answered in the end on the same node |

The bounds: two messages are what it takes for one to overtake or starve the other; three for a cut of
a finished one beside one that waits, in a history of one (for every number and every cap this is proved); two tries have a first
and a last one; three senders are a holder, one that waits, and one that comes later; two callers are
one that began a login and one that waits. Two slots hold a swap, a gap and a full table; a third
slot gives longer rows of writes and takes TLC out of minutes. Four device objects are those of the
hub, the context and the two tasks, so a new one is always there. A week of two ticks is longer than
the quiet period and the cooldowns, as long as a due check, and lets a restart, a switch and an advert
by hand fall into it. `MAX_IDENT`, `MAX_TRIES`, `MAX_SENDS`, `SLOTS`, `MAX_MESSAGES`, `MAX_CHANGES`,
`MAX_FOREIGN` and `MAX_FILE` only bound the state space: the code has no such limits. The deadlock check is off because the counters end
each behaviour, and because a session may stop.

One run ends in a violation. It checks a sentence of a docstring, and TLC finds a behaviour of
the code against it (`PROJECT.json`, findings): in `RoomTogether`, two callers that waited for the same
login begin two logins.

### Where the code stops short of its texts

The models show more places of that kind. The configurations that pass leave their circumstances
out, or the property names them as its exception and the run has them; changing the constants or the
formula that is named brings the behaviour back.

- *Courier.* An entry that a late ack delivered is given up by the try that waited for another ack:
  `_attempt` does not look at the status again ("a late acknowledgement still marks the message as
  delivered", `CHANGELOG.md:440`). The property
  `[][\A i \in listed : entries[i].status = DELIVERED => entries'[i].status # GAVE_UP]_vars` fails in
  `CourierTries`. The step `GiveUp` of `Outbox` allows it.
- A message that a late ack delivers, or that the user deletes, while its next try reads
  the contacts (`resolving`) or is between two rounds, is sent all the same, one time more: `note_attempt`
  ignores an ident that it does not find, and nothing looks at the status again. So `LateAckSettles` is about
  the tries that begin after the late ack.
- A message that is edited between a try and the late ack of that try is shown as delivered with a
  body that never went out (`_delivered_late` settles the entry, whatever its body is now).
- A try that ends with an exception or with the process does not compare the budget, and `eligible`
  does not look at it, so more than `MAX_ATTEMPTS` tries can be made (`CourierBudget` makes three of
  two). `GaveUpMeansSpent` states the half that holds.
- The ack of an earlier round, when it comes in the wait of a later one, reaches nothing, and its code
  is filed afterwards with the others. So `FiledIsUnacked` speaks of the last code only;
  `\A chat \in awaiting : chat.codes \cap acked[chat.ident] = {}` fails in `CourierBudget`.
- A message to a contact that the device does not know keeps all younger ones from the air: its try
  is not counted, so it stays eligible and takes every pass, although "the message goes out when MeshTerm next
  hears the contact" (`docs/cli/README.md:1432`). `CourierSettles` has such a message.
  `KnownMessagesSettle` excepts what is younger than it; without the conjunct on `j` it fails.
- The next session gives out an ident again whose queueing was never written: it cannot know of it.
  `IdentsAreSingle` therefore speaks of the idents that the file has passed.
- *Scoped send.* "The first transmission that comes through here after that puts the scope back"
  (`core/connection.py:1619`) needs a note of the scope, and three ends leave none: the command that
  sets the scope is obeyed, but its answer is lost or its task is cancelled; the command that sets it back is cancelled (a
  cancellation passes by `except Exception`); and the `Device` that has the note is replaced. The
  history variable `lost` follows them, and `ScopeIsRestored` and `ForeignScopeWasRefused` except them
  and nothing else. Without `~lost`, both fail in `ScopedSend`.
- A scope that the companion refuses raises `RuntimeError` (from `_ok`) and not `FloodScopeError`, which
  only a `DeviceCommandError` becomes. `Refused` has that reply for this reason.
- *Rooms.* With `LATE = TRUE` in `RoomPasswords`, `OnlyWhatWorked` fails: the late answer of one login
  makes the wrong password of the next a stored one. A room that is forgotten during a login is joined
  again when the login is accepted (`Forget`, then `Accepted`). For that reason, in `RoomPasswords` one caller
  is active at a time (the screens of one user), and no answer is late.
- *Inbound messages.* Between the read of the history and `set_active` (`ui/chat.py:1719` to `1780`) a
  message of the conversation is stored and counted, is not on the screen, and loses its badge when the
  screen comes up, although `set_active` clears the count "because the user looks at it". These are the
  messages in `missed`; without that disjunct `ShownOrCounted`, a part of `NoticesAreRight`, fails.
- When the service stops, the messages in its queue go, and so does what the pump still pulls before
  the hub stops: the companion has given them away, and no row is written. A row that cannot be
  written is counted all the same, and a room post without a row is counted again when the room sends
  it again.
- *Channel slots.* `write_channel` drops the cache after a write that returned (`ui/channels.py:397`). When
  the device took a write and then its answer is lost, or the channel store cannot be written
  (`ui/channels.py:419`), cache and epoch stay as they were, so the manager shows the old layout. Three
  comments say otherwise: "a write that reached the device and then raised an error changed the device as
  much as a write that returned [...] The epoch shows this" (`ui/channels.py:274`), "the user will look at the
  half-applied layout" (`ui/channels.py:1379`) and the one at the epoch (`services/device_state.py:552`). The run
  has both ends. `CopiesAreDevice` excepts the slot of that write, in each copy until that slot is read
  again, and no other slot; with `stale' = stale` in `Failure` it fails.
- A probe across which a write came is cached when it ends, over the invalidation of the write: the
  layout that serves then is a mixture. The slot of that write, if the probe had read it, is in `stale`.
- *The link.* `_open` drops `_device`, whatever it is by then. When a service opens a device, the
  reconnector lets it go and opens another, and the first fails to open, the second is dropped and
  disconnected, or its link stays held by nobody. The history variable `overtaken` stands for it;
  without `~overtaken`, `NothingElseIsHeld` and `ConnectedWasOpened` fail.
- *The weekly advert.* Nothing can be known of an advert whose mark was never written: after a crash,
  a lost answer or a failed write between the air and the file a second one goes out in the week, and
  while the file cannot be written, one after each flood cooldown.
- A preference that is switched on, when `set_enabled` cannot write over the time of an earlier switch-on,
  is on with that time (`tools/preferences.py:129`: the preference is saved first; `sync_enabled`,
  `core/advert_store.py:201`, only compares on with off). The same is so when the file of the preferences is
  edited by hand over a stale time. An advert may go out at once, although "when the user turns the preference on,
  MeshTerm never sends an advert" (`services/advert_scheduler.py:16`). `backdated` stands for it: without that
  disjunct, `SwitchOnWaits` fails.
- The scheduler does not see an advert by hand that is in line for the lock, or on the air and not answered
  yet, when it decides: the advert waits behind it and follows it (`behind`). `transmit_gate.mark` is called
  before the lock is asked for (`core/connection.py:4565`), and not "after the send returns" as
  `core/transmit_gate.py:56` has it, so the gate may be open again by then. Without `behind`, `AtMostWeekly` fails.
- After a key import the scheduler keeps the key that it read first on this connection, and reads and
  marks the week of the old identity. A node whose `arm` cannot be written is not armed until the next
  connection. `AtMostWeekly` and `GoesOut` name this too.

### Fairness

`SteadySpec` (`CourierSettles`) is a session that stays up, with a link that comes back, in which
the user only queues. Time passes, and each recipient is heard again and again (the premise of the
promise). Each await of a try has a limit, hence weak fairness of its steps. The loop polls twenty
times in a freshness window, which is longer than a try, so a tick is a window there and falls
between two tries (`WindowPasses`), and a message that is the oldest eligible one in window after window
gets its pass: strong fairness of the pass of each message. `FairSpec` of `ScopedSend`: the library answers or gives up on each command;
the lock itself is a queue. `FairSpec` of `Rooms`: each await of an exchange has a limit, and the
loop resumes what is ready; only the login steps are in its next-state relation, because nothing
else moves a caller or a login.

`ChatInbox`: the worker resumes, because the reads that it awaits have a limit (weak fairness of
`WorkerStep`). `SessionLink`: the reconnector goes on
(weak fairness), and a device that is tried again and again answers some time (strong fairness of
`FrontOpened`); a user that quits is an outcome and not assumed. `Adverts`: a pass comes every second and
time passes; an advert ends. Of the nodes in `Reachable`, and of no other, it is assumed that an advert that
is tried again and again is handed over, answered and marked some time. The premise of `GoesOut` is that
the moment in which an advert of the node may go (`Clear`: its key, a live link, the silence, the cooldown, a
free lock) comes again and again; that it lasts for more than one pass is the strong fairness of
`Clear(n) /\ Sends`. Links that are lost, restarts and failed adverts may come between, without end, and do not
settle the debt: only an advert or the switch of the preference does.

## 4. The proofs

All theorems hold for every value of the constants that the named assumptions allow; those are the
types of the parameters (`StoreAssumption`, `CourierAssumption`, `ScopeAssumption`, `RoomAssumption`,
`NoneAssumption`, `LinkAssumption`, `InboxAssumption`, `TableAssumption`, `AdvertsAssumption`), and TLC evaluates them in each run. Where a theorem assumes more, its
statement says so.

**The store.** `StoreInvariant` proves the type, the order of idents and that `history` and `listed` agree
together. They need each other: the cut takes elements out of `history` and the same
ones out of `listed`, which keeps the two equal only if the history has no duplicates, and `disk`
must satisfy all of it as well, because `Load` makes it the memory. The lemmas on sequences say
what `Without`, `Append` and `Newest` do to the elements and to their being distinct. One lemma for
each operation shows that the memory stays sound, and one for `Save` that the file does. From the order
of the idents in memory and in the file, `StoreIdentsAreSingle` follows step by step: a queued ident is past
the counter of the memory, which is never behind that of the file, and a load brings back what the file has.
`OutboxIsSound` is both for the store as the Courier uses it.

**The service.** `TypeInvariant` and `OneTry` rest on: a coroutine that is not idle has its entry in
`inFlight`, at most one is, and no held entry is tried. `HeldIsNotTried` alone is not inductive: a
hold on the entry of a try would break it at the next `Pass`, so the guards of `OpenEntry` and `Pass`
are needed together. `VerdictInvariant` carries the two facts about verdicts through crashes:
`DeliveredMeansAcked` and `GaveUpMeansSpent` must hold of the entries that are in memory, whether
listed or not, and of those on disk, since both can be listed again; it adds that a `waiting` or
`acked` coroutine and a filed message belong to transmissions that were made.

**The tries of a message.** `BudgetSurvivesCrash` compares what was transmitted with the count in the
file, so it is not inductive: a try transmits several times on one count. `TriesInvariant` reserves them:
while a try sends, what was sent and what its rounds may still send together are within the counts of
the memory and of the file (`Reserved`), and outside a try what was sent is (`Counted`). `note_attempt`
raises the counts by a whole budget of a try before the first transmission, and a try whose count could
not be written does not begin. The body stays because an edit needs the prompt of its entry, which holds
it (`HeldIsNotTried`). An automatic try keeps its distance although the contacts are read between the
look and the transmission, because the age of the last attempt only grows meanwhile (`Spaced`).

**The acks of a message.** `FiledInvariant`: a code names one transmission of one message, so the codes
of two filed tries, and those of a filed one and of one that is on the air, are apart (`Apart`, `Fresh`);
and the code for which a send waits is the newest and has not come (`Waits`). Then an ack finds at most one
filed message, which it settles; and an entry whose late ack is in the file is in no list of waiting ones
again, neither here nor after a restart, so no try of it begins (`LateAckSettlesIt`); and a try that is filed has its last code to come
(`FiledUnacked`), for every number of soft retries.

**The outbox as a whole.** `Implements` shows that `Courier` refines `Outbox`, while each
write of the file succeeds: the initial states map, and each action maps to a step of the abstract
outbox or to one that it does not see. It rests on `TypeInvariant` (the mapping must be well defined,
and the list, the history and the statuses agree), on `VerdictInvariant` (a delivery has its ack, a
give-up its tries) and on one invariant of its own, `Saved`: the file is what is in memory, so that a
restart changes nothing that the abstract outbox sees. The lemma for each operation of the store says
how the standings of the messages move; the lemma about the cut says that only finished ones leave.

**The cut.** `StoreHistoryCapped` and `StoreWaitingIsNeverCut` hold for every cap and every number of
entries: the first needs that a settle adds at most one ident to a history within its cap, also when
the entry is settled a second time; the second that the history has finished entries only.

**The scoped send.** `TurnsInvariant` is the heart: who is past the queue owns the lock, the owner is
not in the queue, the queue has no duplicates, and the window is active only at its owner's send.
`OnlyTheHolderSends` and `NoSilentReplacement` follow for all outcomes. So do `LeaksAreOnRecord` and
`RepairComesFirst`, whose invariant says where a scope that is not the default can be: in the window of
the holder, in the note, or on the record of `lost`.

**The rooms.** `InflightIsRunning` holds for any number of callers and with late answers: a login that
ends takes its entry away whoever awaits it, and a new one takes a slot that no caller refers to. The two
theorems on the stores assume `OneUser`, which is what `RoomPasswords` checks: one caller, and no late
answer. Then at most one login runs (`Alone`), so each answer is an answer to it (`Truthful`): an
accepted password worked, the room password is never refused, and only it (or the blank login) makes a
member. That is why `record()` of `core/room_store.py` can trust the role that it is given.

**The link.** `Resuming` gives the worth of the note at each place of the front task: while a task of the
menu runs, the services are the wanted ones and there is no note; from the release on, the note is what is
wanted, and nothing records. `Holding` says who has which device until one is overtaken: at most one task
opens a device, it opens the current one, the reconnector closes only that, and nothing else has a link.
The two give all safety properties of `SessionLink`, for any number of device objects.

**The inbound messages.** `InOrder`, the invariant under `HistoryInOrder`, lines the places up: what is in
the history came before what the worker has, that before the queue, and that before what is still in the
companion. `PostsOnce` adds that the post with which the worker goes on, after its look at the history, is
in no row; that lasts through its waits, since nobody else writes rows. `FiledRight` carries
the channel of a message through inbox, queue and worker: it is that of the slot, or the message is one of
the unsure. `NoticesKept` says of the messages on their way that they were shown, if they belong to the
conversation on the screen, or came in its gap; so its badge stays empty when they arrive in the history.

**The channel slots.** First, what the plans do to a layout, for every layout, order and file:
`ApplyOrderLemma` and `PlanImportLemma` say that after all its writes no channel is gone, and none is in two
slots that was in one. The order of a reorder reaches each slot because an injection of a finite set into
itself does; an import has room for what it places because the channels of the file that the device
has take no more slots than they had (`RoomLemma`), and its places are apart because ranks are
(`RankLemma`). Then the steps: `Kept` says of the layout *to come* (the device with the writes that are
left) what the plan said of it. Each write takes one slot from the plan to the device and leaves the layout to
come as it is, so at the last write the device has it. `Copied` says, slot by slot, where each copy is that of the
device but for its `stale` slots: the slots that a probe has read so far among them, the map of the recorder
while a round has not moved a slot, and, between the acknowledgement of a write and its bookkeeping, all but
the slot of that write (`Underway`). None of these theorems restricts how a probe or a write ends.

**The weekly advert.** The scheduler decides by what it has stored, and the promise is about what was on
the air. `Clocks` joins the two: the stored week of a node is behind its last flood advert only while that
advert waits for its answer, and the stored switch-on is never before the real one, if it was not backdated.
`Turns` says who is in the line of the lock and who is on the air. `Rested` carries the verdict over the wait
for the lock, however long that is: an advert of the scheduler that found the line empty keeps its node's
full week until it is on the air, since nobody else can send before it.

**The types.** The `TypeOK` of each module is proved (`StoreTypeCorrect`, `TypeCorrect`,
`ScopeTypeCorrect`, `RoomsTypeCorrect`, `InboxTypeCorrect`, `TableTypeCorrect`, `LinkTypeCorrect`,
`AdvertsTypeCorrect`), so no run repeats them.

**Only model-checked**: the liveness properties (`KnownMessagesSettle`, `TurnComes`, `LoginReturns`,
`PulledIsHandled`, `ReconnectEnds`, `GoesOut`), which are out of the reach of this proof system
with its `ENABLED`. Every safety property that a passing run checks is the statement of a theorem.

## 5. What is left, in order

1. Abstract specifications of more parts, with their refinement proved: the history as one that takes the
   messages in order, the layout as one that a round changes at once.
2. A session and one-shot commands on one `courier.json`, each with its own memory, on `CourierStore`
   and against the abstract `Outbox`.
3. The cap of the awaited acks, and `send_channel` with its echoes.
4. The retries of a Bluetooth connect and the leaked client; the contacts stream and the other
   exchanges of `connection.py` whose answers do not name their question; the drains of the message pump.
5. The Watchtower, the battery and clock services, if something in them is worth a property.

**Not modelled, and why.** SQLite, its queries and its transactions: their correctness is
SQLite's. The views (topology, records, map, paths): pure functions of stored rows. Screens, command
line, emulator, demo: rendering, parsing and canned data, which are most of the lines of this
repository. The SPI radio and BlueZ: programs and buses outside of this code. The other JSON stores
repeat the pattern of the outbox store.
