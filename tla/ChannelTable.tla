----------------------------- MODULE ChannelTable -----------------------------
(***************************************************************************)
(* The channel slots of the companion and what MeshTerm holds of them: the *)
(* layout that the session caches (services/device_state.py) and how it is *)
(* probed (core/channel_probe.py), the working list of the channel manager *)
(* and its writes (ui/channels.py, core/channel_file.py), and the map from *)
(* slots to identities of the recorder (services/chat_service.py).         *)
(*                                                                         *)
(* The manager is the task of the user, and the recorder stands for each   *)
(* task that reads the layout behind it. A third writer is another client  *)
(* of the companion. A layout gives the channel of each slot, or Empty.    *)
(***************************************************************************)
EXTENDS Integers, FiniteSets, Functions

CONSTANTS
  Channels,    \* the identities of the channels
  CAPACITY,    \* the number of slots
  READ_FAILS,  \* a read of a slot may fail, and with it the probe
  WriteEnds,   \* how a write may end: done, refused, lost (done, but its answer is lost), or
               \* unsaved (done, but the channel store cannot be written)
  MAX_FOREIGN, \* bound: how many writes the other client makes
  MAX_FILE     \* bound: how many channels a file has

Empty == "empty"
None == "none"

ASSUME TableAssumption ==
  /\ CAPACITY \in Nat \ {0} /\ MAX_FOREIGN \in Nat /\ MAX_FILE \in Nat /\ READ_FAILS \in BOOLEAN
  /\ WriteEnds \subseteq {"done", "refused", "lost", "unsaved"}
  /\ {Empty, None} \cap Channels = {}

VARIABLES
  device,   \* the slots of the companion
  cache,    \* _channels: a layout, or NoLayout
  probe,    \* the probe that holds _channels_lock: whose, and what it has read
  moved,    \* channels_epoch has changed since the writes of the manager began
  known,    \* _channel_ids of the recorder
  manager,  \* where the manager is, its working list and its writes
  recorder, \* "idle", or "asking" for the layout
  foreign,  \* bound: the writes of the other client
  stale     \* history: the slots that a copy (the cache, the list, the map) did not read, and
            \* those that another client or a write that raised has changed under it

vars == <<device, cache, probe, moved, known, manager, recorder, foreign, stale>>

Slots == 0..CAPACITY-1
Layouts == [Slots -> Channels \cup {Empty}]
NoLayout == <<>>
On(layout) == {layout[i] : i \in Slots} \ {Empty}
Twice(layout) == \E i, j \in Slots : i # j /\ layout[i] = layout[j] /\ layout[i] # Empty
Unread == [i \in Slots |-> Empty]

\* The writes of a round that are left: the content of some slots. They are made lowest slot
\* first.
Writes == UNION {[S -> Channels \cup {Empty}] : S \in SUBSET Slots}
NoWrites == [i \in {} |-> Empty]
NoManager == [pc |-> "closed", slots |-> Unread, refile |-> FALSE, kind |-> None,
              todo |-> NoWrites, keep |-> {}, once |-> TRUE, ok |-> TRUE]
Free == [by |-> None, at |-> 0, found |-> Unread, stale |-> Slots]
Copies == {"cache", "list", "known"}

Init ==
  /\ device \in {d \in Layouts : ~Twice(d)}
  /\ cache = NoLayout /\ probe = Free /\ moved = FALSE
  /\ known = device
  /\ manager = NoManager
  /\ recorder = "idle" /\ foreign = 0
  /\ stale = [c \in Copies |-> {}]

-----------------------------------------------------------------------------
(* channel_slots(): the cached layout, or one probe at a time.             *)

Asking(who) ==
  \/ who = "manager" /\ manager.pc \in {"loading", "refiling", "raising"}
  \/ who = "recorder" /\ recorder = "asking"

\* channel_slots() returns: to the list of the manager (reload), to the map of the recorder
\* (refresh_channels, in settle or before an error goes on), or to the badge rule.
Return(who, layout, unread, others) ==
  LET mark(copy) == stale' = [others EXCEPT ![copy] = unread]
      menu == [NoManager EXCEPT !.pc = "menu", !.slots = layout]
  IN \/ /\ who = "recorder"
        /\ recorder' = "idle" /\ stale' = others
        /\ UNCHANGED <<manager, known>>
     \/ /\ who = "manager" /\ manager.pc = "loading"
        /\ manager' = IF manager.refile THEN [menu EXCEPT !.pc = "refiling"] ELSE menu
        /\ mark("list") /\ UNCHANGED <<recorder, known>>
     \/ /\ who = "manager" /\ manager.pc \in {"refiling", "raising"}
        /\ known' = layout
        /\ manager' = IF manager.pc = "refiling" THEN [manager EXCEPT !.pc = "menu"] ELSE NoManager
        /\ mark("known") /\ UNCHANGED recorder

FromCache(who) ==
  /\ Asking(who) /\ cache # NoLayout
  /\ Return(who, cache, stale["cache"], stale)
  /\ UNCHANGED <<device, cache, probe, moved, foreign>>

ProbeStart(who) ==
  /\ Asking(who) /\ cache = NoLayout /\ probe.by = None
  /\ probe' = [Free EXCEPT !.by = who]
  /\ UNCHANGED <<device, cache, moved, known, manager, recorder, foreign, stale>>

ProbeReads ==
  /\ probe.by # None /\ probe.at < CAPACITY
  /\ probe' = [probe EXCEPT !.at = @ + 1, !.found[probe.at] = device[probe.at],
                            !.stale = @ \ {probe.at}]
  /\ UNCHANGED <<device, cache, moved, known, manager, recorder, foreign, stale>>

\* The firmware refuses the index after the last slot: the layout is complete, and is kept.
ProbeEnds ==
  /\ probe.by # None /\ probe.at = CAPACITY
  /\ cache' = probe.found
  /\ Return(probe.by, probe.found, probe.stale, [stale EXCEPT !["cache"] = probe.stale])
  /\ probe' = Free
  /\ UNCHANGED <<device, moved, foreign>>

\* A read fails: the caller gets the slots before it, and nothing is kept.
ProbeFails ==
  /\ READ_FAILS /\ probe.by # None /\ probe.at < CAPACITY
  /\ Return(probe.by, probe.found, probe.stale, stale)
  /\ probe' = Free
  /\ UNCHANGED <<device, cache, moved, foreign>>

-----------------------------------------------------------------------------
(* The recorder, and the other client.                                     *)

\* A write reaches the device. A probe in progress has not read it.
Reaches(i, content) ==
  /\ device' = [device EXCEPT ![i] = content]
  /\ probe' = [probe EXCEPT !.stale = @ \cup {i}]

\* The history, when slot i changes and no copy is told.
Behind(i) == [c \in Copies |-> stale[c] \cup {i}]

\* channel_id_for() reads the slot of a message. _note_slot: when the slot was known as
\* something else, the cached layout goes. Then _notifies() asks for the layout.
Resolve(i) ==
  /\ recorder = "idle" /\ recorder' = "asking"
  /\ known' = [known EXCEPT ![i] = device[i]]
  /\ stale' = [stale EXCEPT !["known"] = @ \ {i}]
  /\ IF known[i] \notin {Empty, device[i]}
     THEN /\ cache' = NoLayout
          /\ moved' = (manager.pc \in {"writing", "remembering"})
     ELSE UNCHANGED <<cache, moved>>
  /\ UNCHANGED <<device, probe, manager, foreign>>

ForeignWrite(i, content) ==
  /\ foreign < MAX_FOREIGN /\ content # device[i]
  /\ Reaches(i, content) /\ stale' = Behind(i)
  /\ foreign' = foreign + 1
  /\ UNCHANGED <<cache, moved, known, manager, recorder>>

-----------------------------------------------------------------------------
(* The manager: plans.                                                     *)

Occupied(layout) == {i \in Slots : layout[i] # Empty}

\* _next_free_slot().
NextFree(layout) == {i \in Slots : layout[i] = Empty /\ \A j \in Slots : j < i => layout[j] # Empty}

Orders(S) == {p \in [S -> S] : IsInjective(p)}

\* A plausible slip of _apply_order(): each write reads the slot that the one before left.
ApplyOrderChained(layout, order) ==
  LET after[i \in Occupied(layout)] ==
        IF order[i] < i THEN after[order[i]] ELSE layout[order[i]]
  IN [i \in {j \in Occupied(layout) : after[j] # layout[j]} |-> after[i]]

\* _apply_order(): the occupied slots in another order, and only those that change.
ApplyOrder(layout, order) ==
  [i \in {j \in Occupied(layout) : order[j] # j} |-> layout[order[i]]]

\* The place of the slot or position x among those of S.
Rank(S, x) == Cardinality({y \in S : y < x})

\* plan_import(): the channels of the file first, as far as there is room, then those that
\* only the device has; from slot 0, and the slots past them are cleared.
PlanImport(file, layout) ==
  LET new == {p \in DOMAIN file : file[p] \notin On(layout)}
      room == CAPACITY - Cardinality(Occupied(layout))
      placed == {p \in DOMAIN file : p \in new => Rank(new, p) < room}
      rest == {i \in Occupied(layout) : layout[i] \notin Range(file)}
      at(i) == {file[p] : p \in {q \in placed : Rank(placed, q) = i}}
                 \cup {layout[j] : j \in {r \in rest : Cardinality(placed) + Rank(rest, r) = i}}
      wanted == [i \in Slots |-> IF at(i) = {} THEN Empty ELSE CHOOSE c \in at(i) : TRUE]
  IN [i \in {j \in Slots : wanted[j] # layout[j]} |-> wanted[i]]

-----------------------------------------------------------------------------
(* The manager: steps.                                                     *)

\* The manager opens, and settle() loads its list.
OpenManager ==
  /\ manager.pc = "closed"
  /\ manager' = [NoManager EXCEPT !.pc = "loading"]
  /\ UNCHANGED <<device, cache, probe, moved, known, recorder, foreign, stale>>

\* A round begins, and the epoch is noted: its writes, after which the channels `keep` should
\* still be there. No writes, no change.
Begin(kind, writes, keep) ==
  /\ manager.pc = "menu"
  /\ manager' = [manager EXCEPT !.pc = IF DOMAIN writes = {} THEN "loading" ELSE "writing",
                                !.kind = kind, !.todo = writes, !.keep = keep, !.ok = TRUE,
                                !.once = ~Twice(device), !.refile = FALSE]
  /\ UNCHANGED <<device, cache, probe, moved, known, recorder, foreign>>

\* A plausible slip of the add flows: no read confirms that the slot is free.
AddUnconfirmed(channel) ==
  /\ \E i \in NextFree(manager.slots) : Begin("add", [j \in {i} |-> channel], On(device))
  /\ stale' = [stale EXCEPT !["list"] = {}]

\* The flows that add a channel (create, join, import a link): _pick_free_slot() takes the
\* first slot that is free in the list, and reads it again; the prompts follow. From there
\* on the add rests on that slot alone.
Add(channel) ==
  LET confirmed == {i \in NextFree(manager.slots) : device[i] = Empty}
  IN \/ /\ confirmed # {}
        /\ \E i \in confirmed : Begin("add", [j \in {i} |-> channel], On(device))
        /\ stale' = [stale EXCEPT !["list"] = {}]
     \/ /\ confirmed = {} \/ READ_FAILS
        /\ Begin("refused", NoWrites, {}) /\ UNCHANGED stale

\* _edit() and _clear(): another channel in the slot, or none.
Edit(i, content) ==
  /\ manager.slots[i] \notin {Empty, content}
  /\ Begin("edit", [j \in {i} |-> content], On(device) \ {manager.slots[i]})
  /\ UNCHANGED stale

\* _reorder_channels().
Reorder(order) ==
  /\ Begin("reorder", ApplyOrder(manager.slots, order), On(device))
  /\ UNCHANGED stale

\* _import_channels(): a complete probe of its own, in one step here, then the plan.
Import(file) ==
  /\ Begin("import", PlanImport(file, device), On(device))
  /\ stale' = [stale EXCEPT !["list"] = {}]

\* The slot whose write is next.
Turn(i) == i \in DOMAIN manager.todo /\ \A j \in DOMAIN manager.todo : i <= j

Batch == manager.kind \in {"reorder", "import"}

\* set_channel() reaches the device and is acknowledged.
WriteDone ==
  /\ manager.pc = "writing"
  /\ \E i \in Slots : Turn(i) /\ Reaches(i, manager.todo[i])
  /\ manager' = [manager EXCEPT !.pc = "remembering"]
  /\ UNCHANGED <<cache, moved, known, recorder, foreign, stale>>

\* The write is in the channel store, and the cached layout goes (write_channel).
Written ==
  /\ manager.pc = "remembering"
  /\ cache' = NoLayout
  /\ \E i \in Slots :
       LET left == DOMAIN manager.todo \ {i}
           last == left = {}
       IN /\ Turn(i)
          /\ manager' = [manager EXCEPT !.todo = Restrict(@, left),
                                        !.refile = last,
                                        !.pc = IF last THEN "loading" ELSE "writing"]
          /\ moved' = ~last
  /\ UNCHANGED <<device, probe, known, recorder, foreign, stale>>

\* A write raises: set_channel(), after the device took it ("lost") or without ("refused"),
\* or the save of the channel store after that ("unsaved"), which leaves the cached layout.
Failure(end) ==
  /\ manager.pc = IF end = "unsaved" THEN "remembering" ELSE "writing"
  /\ \E i \in Slots :
       /\ Turn(i)
       /\ IF end = "lost" THEN Reaches(i, manager.todo[i]) ELSE UNCHANGED <<device, probe>>
       /\ stale' = IF end = "refused" THEN stale ELSE Behind(i)
  /\ moved' = FALSE
  /\ UNCHANGED <<cache, known, recorder, foreign>>

\* A plausible slip of the manager: the return value of a flow says whether slots moved,
\* and a batch that stopped returns none.
WriteRaisesUncounted(end) ==
  /\ Failure(end)
  /\ manager' = IF Batch THEN [manager EXCEPT !.pc = "loading", !.todo = NoWrites, !.ok = FALSE]
                 ELSE NoManager

\* The manager when an error goes through it: the map of the recorder is read again when
\* the epoch has changed.
Leaves(changed) == IF changed THEN [NoManager EXCEPT !.pc = "raising"] ELSE NoManager

\* A batch says that a write raised, and the list is loaded again; the error of another flow
\* closes the manager.
WriteRaises(end) ==
  /\ Failure(end)
  /\ manager' = IF Batch
                 THEN [manager EXCEPT !.pc = "loading", !.todo = NoWrites, !.ok = FALSE, !.refile = moved]
                 ELSE Leaves(moved)

\* A flow raises after its write: the share screen of an add or the page of the edited
\* channel is unwound (^W).
FlowRaises ==
  /\ manager.pc = "loading" /\ manager.kind \in {"add", "edit"} /\ probe.by # "manager"
  /\ manager' = Leaves(manager.refile)
  /\ UNCHANGED <<device, cache, probe, moved, known, recorder, foreign, stale>>

CloseManager ==
  /\ manager.pc = "menu"
  /\ manager' = NoManager
  /\ UNCHANGED <<device, cache, probe, moved, known, recorder, foreign, stale>>

-----------------------------------------------------------------------------
Files == {f \in UNION {[1..n -> Channels] : n \in 1..MAX_FILE} : IsInjective(f)}

Round ==
  \/ \E c \in Channels : Add(c)
  \/ \E i \in Slots, content \in Channels \cup {Empty} : Edit(i, content)
  \/ \E order \in Orders(Occupied(manager.slots)) : Reorder(order)
  \/ \E file \in Files : Import(file)

Write ==
  \/ "done" \in WriteEnds /\ WriteDone
  \/ Written
  \/ \E end \in WriteEnds \ {"done"} : WriteRaises(end)

Probing == ProbeReads \/ ProbeEnds \/ ProbeFails

Load(who) == FromCache(who) \/ ProbeStart(who)

Next ==
  \/ \E who \in {"manager", "recorder"} : Load(who)
  \/ Probing
  \/ \E i \in Slots : Resolve(i)
  \/ \E i \in Slots, content \in Channels \cup {Empty} : ForeignWrite(i, content)
  \/ OpenManager \/ Round \/ Write \/ FlowRaises \/ CloseManager

Spec == Init /\ [][Next]_vars

-----------------------------------------------------------------------------
(* Properties.                                                             *)

\* The types; the lock belongs to a task that asks.
TypeOK ==
  /\ device \in Layouts /\ known \in Layouts /\ cache \in Layouts \cup {NoLayout}
  /\ probe \in [by: {"manager", "recorder", None}, at: 0..CAPACITY, found: Layouts,
               stale: SUBSET Slots]
  /\ probe.by # None => Asking(probe.by) /\ cache = NoLayout
  /\ stale \in [Copies -> SUBSET Slots]
  /\ moved \in BOOLEAN /\ recorder \in {"idle", "asking"} /\ foreign \in 0..MAX_FOREIGN
  /\ manager.pc \in {"closed", "loading", "refiling", "raising", "menu", "writing", "remembering"}
  /\ manager.slots \in Layouts /\ manager.refile \in BOOLEAN /\ manager.ok \in BOOLEAN
  /\ manager.kind \in {None, "refused", "add", "edit", "reorder", "import"}
  /\ manager.todo \in Writes
  /\ manager.pc \in {"writing", "remembering"} <=> DOMAIN manager.todo # {}
  /\ manager.keep \subseteq Channels /\ manager.once \in BOOLEAN

\* A layout agrees with the device at each slot outside `but`.
Agrees(layout, but) == \A i \in Slots \ but : layout[i] = device[i]

\* The slot of a write that the device has taken, and whose bookkeeping is under way.
Underway == {i \in Slots : manager.pc = "remembering" /\ Turn(i)}

\* A layout that serves for the session is that of the device: no failed probe becomes a
\* layout ("a short list is not a layout"), and each write drops what was cached. Slot by
\* slot, excepted are what another client wrote, until the slot is read again; a write that
\* came across a probe (what it read is cached all the same); and a write that reached the
\* device and then raised, which leaves the layout as it was.
CacheIsDevice ==
  cache # NoLayout => Agrees(cache, stale["cache"] \cup Underway)

\* The list that the manager shows, and from which it moves and edits channels, is the
\* layout of the device, also after a batch that stopped on the way ("the user will look at
\* the half-applied layout"), with the same exceptions, and the slots that a failed probe
\* did not reach.
ManagerShowsDevice ==
  manager.pc = "menu" => Agrees(manager.slots, stale["list"])

\* The identity that the recorder takes for a slot when it cannot read it is that of the
\* channel in the slot, also after a batch that stopped or a flow that raised (the epoch,
\* and not the return value, says that slots moved), with the same exceptions.
FallbackIsCurrent ==
  manager.pc \in {"menu", "closed"} => Agrees(known, stale["known"])

\* Each copy of the layout that the session works from is the layout of the device, after
\* every way a probe and a round of writes can end, but for the slot of a write that reached
\* the device and then raised, since its answer was lost or the channel store could not be
\* written: neither the cache nor the epoch hears of it, though the comments at the epoch
\* and in the manager say so.
CopiesAreDevice == CacheIsDevice /\ ManagerShowsDevice /\ FallbackIsCurrent

\* An add never overwrites a channel, however incomplete the list from which its slot was
\* chosen, unless another client writes between the confirming read and the write.
AddOverwritesNothing ==
  manager.pc = "writing" /\ manager.kind = "add"
     => \A i \in DOMAIN manager.todo \ stale["list"] : device[i] = Empty

\* A round has ended well, and the slots it was planned from were those of the device.
Finished == manager.pc = "loading" /\ manager.kind # None /\ manager.ok /\ stale["list"] = {}

\* A round of the manager that ends well loses no channel but the one that the user edited or
\* cleared, whatever slots its writes cross ("the writes between them never overwrite a
\* channel that is not placed yet", "the plan never removes a channel").
OnlyNamedChannelsGo ==
  Finished => manager.keep \subseteq On(device)

\* A reorder or an import that ends well puts no channel in two slots ("otherwise the
\* device holds that channel two times").
NoChannelTwice ==
  Finished /\ Batch /\ manager.once => ~Twice(device)

\* A round of writes that ends well moves channels, and neither loses nor doubles one.
RoundsKeepChannels == OnlyNamedChannelsGo /\ NoChannelTwice

=============================================================================
