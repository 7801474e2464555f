---------------------------- MODULE CourierStore ----------------------------
(***************************************************************************)
(* The outbox file of the Courier (core/courier_store.py): a list of       *)
(* entries kept in memory, and written to disk in full after each change.  *)
(*                                                                         *)
(* An entry is an object that its callers keep a reference to: removing it *)
(* from the list does not change it. So `entries` holds the object of each *)
(* ident, and `listed` says which objects are in the list now.             *)
(*                                                                         *)
(* Times are ages, counted in ticks and saturating where no comparison of  *)
(* the code tells the larger values apart: `since` is now - last_attempt,  *)
(* `delay` is not_before - now, and the order of the `finished` times is   *)
(* the order of `history`.                                                 *)
(*                                                                         *)
(* Each operation takes `saves`: whether the write of the file succeeds.   *)
(* When it does not, the memory keeps the change and the caller gets the   *)
(* exception.                                                              *)
(***************************************************************************)
EXTENDS Integers, Sequences, FiniteSets

CONSTANTS
  MAX_IDENT,      \* bound: how many entries a behaviour queues
  MAX_TRIES,      \* bound: how many tries of an entry a behaviour counts
  Nodes,          \* the recipients (node_key)
  Texts,          \* the message bodies
  Delays,         \* the schedules a user can ask for: Unscheduled, or ticks from now
  BACKOFF_CAP_S,  \* an attempt older than this is never compared again
  HISTORY_KEPT    \* the preference courier_history_kept (DONE_CAP is its default)

Unscheduled == -1

ASSUME StoreAssumption ==
  /\ MAX_IDENT \in Nat \ {0}
  /\ MAX_TRIES \in Nat
  /\ Nodes # {} /\ Texts # {}
  /\ Delays \subseteq Nat \cup {Unscheduled}
  /\ BACKOFF_CAP_S \in Nat
  /\ HISTORY_KEPT \in Nat

VARIABLES
  entries,  \* the object of each ident that was given out
  listed,   \* the idents in the list of the store (_messages)
  nextId,   \* _next_id
  history,  \* the finished entries of the list, in the order of their `finished` times
  disk,     \* the content of courier.json
  gone      \* history: the entries that were in the list, and then at some time were not

storeVars == <<entries, listed, nextId, history, disk, gone>>

QUEUED    == "queued"
DELIVERED == "delivered"
GAVE_UP   == "gave-up"

Idents == 1..MAX_IDENT

Entry == [node: Nodes, text: Texts, delay: Nat \cup {Unscheduled}, attempts: Nat,
          since: 0..BACKOFF_CAP_S, status: {QUEUED, DELIVERED, GAVE_UP}]

NewEntry(node, text, delay) ==
  [node |-> node, text |-> text, delay |-> delay, attempts |-> 0,
   since |-> BACKOFF_CAP_S, status |-> QUEUED]

\* What _save writes and _load reads back.
Memory == [entries |-> entries, listed |-> listed, nextId |-> nextId, history |-> history]

StoreInit ==
  /\ entries = [i \in Idents |-> NewEntry(CHOOSE n \in Nodes : TRUE,
                                          CHOOSE x \in Texts : TRUE, Unscheduled)]
  /\ listed = {}
  /\ nextId = 1
  /\ history = <<>>
  /\ disk = Memory
  /\ gone = {}

Departs == gone' = gone \cup (listed \ listed')

\* _save(), at the end of each operation.
Save(saves) ==
  /\ disk' = IF saves THEN Memory' ELSE disk
  /\ Departs

Waiting == {i \in listed : entries[i].status = QUEUED}
Finished == listed \ Waiting

-----------------------------------------------------------------------------
(* Sequences of distinct idents.                                           *)

Elements(s) == {s[k] : k \in 1..Len(s)}

\* The sequence s with its element i taken out.
Without(s, i) ==
  IF i \in Elements(s)
  THEN LET k == CHOOSE k \in 1..Len(s) : s[k] = i
       IN SubSeq(s, 1, k - 1) \o SubSeq(s, k + 1, Len(s))
  ELSE s

\* The newest n elements of s: what the cut of the history keeps.
Newest(s, n) == IF Len(s) > n THEN SubSeq(s, Len(s) - n + 1, Len(s)) ELSE s

-----------------------------------------------------------------------------
(* The operations.                                                         *)

\* A plausible slip of queue(): the file is written before the counter moves.
QueueCountsAfterSave(node, text, delay, saves) ==
  /\ nextId \in Idents
  /\ entries' = [entries EXCEPT ![nextId] = NewEntry(node, text, delay)]
  /\ listed' = listed \cup {nextId}
  /\ nextId' = nextId + 1
  /\ UNCHANGED history
  /\ disk' = IF saves THEN [Memory' EXCEPT !.nextId = nextId] ELSE disk
  /\ Departs

\* Another one: the next ident follows the idents that are in the list now.
QueueReusesIdent(node, text, delay, saves) ==
  \E i \in Idents :
    /\ i - 1 \in listed \cup {0} /\ \A j \in listed : j < i
    /\ entries' = [entries EXCEPT ![i] = NewEntry(node, text, delay)]
    /\ listed' = listed \cup {i}
    /\ nextId' = i + 1
    /\ UNCHANGED history
    /\ Save(saves)

\* queue(): append a new entry under the next ident.
StoreQueue(node, text, delay, saves) ==
  /\ nextId \in Idents
  /\ entries' = [entries EXCEPT ![nextId] = NewEntry(node, text, delay)]
  /\ listed' = listed \cup {nextId}
  /\ nextId' = nextId + 1
  /\ UNCHANGED history
  /\ Save(saves)

\* note_attempt(): count a try, before its transmission.
NoteAttempt(i, saves) ==
  IF i \in listed
  THEN /\ entries' = [entries EXCEPT ![i].attempts = @ + 1, ![i].since = 0]
       /\ UNCHANGED <<listed, nextId, history>>
       /\ Save(saves)
  ELSE UNCHANGED storeVars

\* A plausible slip of _finish: the cut takes the oldest of the whole list, the waiting
\* entries included.
FinishCutsTheList(i, status, saves) ==
  IF i \in listed
  THEN LET kept == {j \in listed : Cardinality({k \in listed : k > j}) < HISTORY_KEPT}
       IN /\ entries' = [entries EXCEPT ![i].status = status]
          /\ history' = SelectSeq(Append(Without(history, i), i), LAMBDA j : j \in kept)
          /\ listed' = kept
          /\ UNCHANGED nextId
          /\ Save(saves)
  ELSE UNCHANGED storeVars

\* _finish(): settle an entry (whatever its status is), and cut the finished history to its
\* cap, the oldest first. mark_delivered and mark_gave_up are its two callers.
Finish(i, status, saves) ==
  IF i \in listed
  THEN LET done == Append(Without(history, i), i)
           kept == Newest(done, HISTORY_KEPT)
       IN /\ entries' = [entries EXCEPT ![i].status = status]
          /\ history' = kept
          /\ listed' = (listed \ Elements(done)) \cup Elements(kept)
          /\ UNCHANGED nextId
          /\ Save(saves)
  ELSE UNCHANGED storeVars

\* edit(): a new body for a waiting entry.
EditBody(i, text, saves) ==
  /\ i \in Waiting
  /\ entries[i].text # text
  /\ entries' = [entries EXCEPT ![i].text = text]
  /\ UNCHANGED <<listed, nextId, history>>
  /\ Save(saves)

\* cancel(): remove a waiting entry.
Cancel(i, saves) ==
  /\ i \in Waiting
  /\ listed' = listed \ {i}
  /\ UNCHANGED <<entries, nextId, history>>
  /\ Save(saves)

\* delete(): remove an entry, waiting or finished.
Delete(i, saves) ==
  /\ i \in listed
  /\ listed' = listed \ {i}
  /\ history' = Without(history, i)
  /\ UNCHANGED <<entries, nextId>>
  /\ Save(saves)

\* clear_done(): remove the finished entries.
ClearDone(saves) ==
  /\ Finished # {}
  /\ listed' = Waiting
  /\ history' = <<>>
  /\ UNCHANGED <<entries, nextId>>
  /\ Save(saves)

\* _load() in a new process: the outbox is what the file holds.
Load ==
  /\ entries' = disk.entries
  /\ listed' = disk.listed
  /\ nextId' = disk.nextId
  /\ history' = disk.history
  /\ UNCHANGED disk
  /\ Departs

\* One tick of the clock, for the entries in memory and for those on disk.
Older(box) ==
  [i \in Idents |->
     [box[i] EXCEPT !.since = IF @ < BACKOFF_CAP_S THEN @ + 1 ELSE @,
                    !.delay = IF @ > 0 THEN @ - 1 ELSE @]]

Age ==
  /\ entries' = Older(entries)
  /\ disk' = [disk EXCEPT !.entries = Older(@)]
  /\ UNCHANGED <<listed, nextId, history, gone>>

-----------------------------------------------------------------------------
(* The store alone: any legal sequence of calls, of failed writes and of   *)
(* restarts. Courier.tla gives the calls the order the service gives them. *)

StoreNext ==
  \/ \E saves \in BOOLEAN :
       \/ \E node \in Nodes, text \in Texts, delay \in Delays :
            StoreQueue(node, text, delay, saves)
       \/ \E i \in Idents :
            \/ i < nextId /\ entries[i].attempts < MAX_TRIES /\ NoteAttempt(i, saves)
            \/ i < nextId /\ Finish(i, DELIVERED, saves)
            \/ i < nextId /\ Finish(i, GAVE_UP, saves)
            \/ \E text \in Texts : EditBody(i, text, saves)
            \/ Cancel(i, saves)
            \/ Delete(i, saves)
       \/ ClearDone(saves)
  \/ Load
  \/ Age

StoreSpec == StoreInit /\ [][StoreNext]_storeVars

-----------------------------------------------------------------------------
(* Properties.                                                             *)

BoxType == [entries: [Idents -> Entry], listed: SUBSET Idents, nextId: 1..(MAX_IDENT + 1),
            history: Seq(Idents)]

\* The type of the outbox, in memory and on disk.
StoreTypeOK == Memory \in BoxType /\ disk \in BoxType /\ gone \in SUBSET Idents

\* The finished history stays within its cap (courier_history_kept), in memory and on disk.
HistoryCapped ==
  Cardinality(Finished) <= HISTORY_KEPT /\ Len(disk.history) <= HISTORY_KEPT

\* The cut of the finished history never takes a waiting message out of the outbox: a step
\* that settles an entry leaves every other waiting entry where it was (_finish).
WaitingIsNeverCut ==
  [][\/ \A i \in Waiting \ listed' :
          entries'[i].status = QUEUED =>
            \A j \in Idents : entries'[j].status = entries[j].status
     \/ Memory' = disk]_storeVars

\* The file never names an ident that the next session would give out a second time
\* (queue: the counter moves before the save).
IdentsAreMonotonic ==
  /\ \A i \in listed : i < nextId
  /\ \A i \in disk.listed : i < disk.nextId

\* An ident that the file has passed is never given to another message, whatever was
\* settled, cut or deleted, and whatever writes failed before a restart: what comes into
\* the list is past the counter of the file, or is what the file has under that ident, and
\* the counter of the file does not go back (queue, _save, _load).
IdentsAreSingle ==
  [][/\ disk.nextId <= disk'.nextId
     /\ \A i \in listed' \ listed :
          \/ i >= disk.nextId
          \/ i \in disk.listed /\ entries'[i] = disk.entries[i]]_storeVars

=============================================================================
