------------------------------ MODULE ChatInbox ------------------------------
(***************************************************************************)
(* The inbound half of the chat service (services/chat_service.py): from   *)
(* the queue of the companion, through the pump of the connection and the  *)
(* event hub, to the worker that files each message in the history and     *)
(* counts it as unread, and to the chat screen that is open meanwhile      *)
(* (ui/chat.py, ui/room.py).                                               *)
(*                                                                         *)
(* Messages are numbered as the mesh brings them to the companion. A       *)
(* channel message carries the slot of its channel and not the channel; a  *)
(* room may send a post again; any other message is a direct one. One slot *)
(* is modelled, which another client may give to another channel.          *)
(***************************************************************************)
EXTENDS Integers, Sequences, SequencesExt, FiniteSets

CONSTANTS
  Channels,     \* the identities of the channels that may be in the slot
  Posts,        \* the posts of the room
  Opened,       \* the conversations that the user opens, mutes or clears
  MAX_MESSAGES, \* bound: how many messages the mesh brings
  MAX_CHANGES,  \* bound: how often the slot is given to another channel
  SaveOutcomes  \* {TRUE}, or BOOLEAN when a write of the history may fail

None == "none"
Fallback == "slot:0"
Friend == "friend"
Room == "room"

ASSUME InboxAssumption ==
  /\ MAX_MESSAGES \in Nat /\ MAX_CHANGES \in Nat /\ SaveOutcomes \subseteq BOOLEAN
  /\ None \notin Channels \cup Posts
  /\ {Fallback, Friend, Room} \cap Channels = {}
  /\ Opened \subseteq Channels \cup {Friend, Room}

VARIABLES
  sent,       \* what each message is, in the order in which the mesh brought them
  slot,       \* the channel in the slot of the companion, or None
  changes,    \* bound: how often that has changed
  inbox,      \* the messages that wait on the companion
  recording,  \* ChatService.active, and the hub is subscribed and its pump runs
  queue,      \* _queue
  worker,     \* where the worker is with which message
  channelIds, \* _channel_ids of the slot, or None
  rows,       \* the inbound rows of the history, in insertion order
  unread,     \* _unread: the messages that each count stands for
  active,     \* _active
  view,       \* the chat screen: its conversation, and the part of the history that it read
  read,       \* history: the messages that a screen has shown, or whose count was waived
  unsure,     \* history: the channel messages whose slot changed before its read, or had none
  missed      \* history: the messages that came while the screen of a conversation was
              \* put together, each with that conversation

table == <<slot, changes>>
link == <<inbox, recording>>
history == <<read, unsure, missed>>
vars == <<sent, slot, changes, inbox, recording, queue, worker, channelIds, rows, unread,
          active, view, history>>

Keys == Channels \cup {Fallback, Friend, Room}
Numbers == 1..MAX_MESSAGES
Off == [pc |-> "off", msg |-> 0, key |-> None]
Idle == [Off EXCEPT !.pc = "idle"]
Closed == [pc |-> "closed", key |-> None, shown |-> {}]

Init ==
  /\ sent = <<>> /\ slot \in Channels /\ changes = 0
  /\ inbox = <<>> /\ recording = FALSE
  /\ queue = <<>> /\ worker = Off /\ channelIds = None
  /\ rows = <<>> /\ unread = [k \in Keys |-> {}]
  /\ active = None /\ view = Closed
  /\ read = {} /\ unsure = {} /\ missed = {}

IsChannel(m) == sent[m].channel # None
IsPost(m) == sent[m].post # None

\* The messages between the pump and the history.
InTransit == Range(queue) \cup ({worker.msg} \ {0})

\* What the history has of a conversation (a screen asks for a limited number of rows).
Transcript(key) == {rows[n].msg : n \in {o \in DOMAIN rows : rows[o].key = key}}

-----------------------------------------------------------------------------
(* The mesh, the companion and other clients.                              *)

MeshBrings(channel, post) ==
  /\ Len(sent) < MAX_MESSAGES
  /\ \/ channel = None
     \/ post = None /\ channel = slot
  /\ sent' = Append(sent, [channel |-> channel, post |-> post])
  /\ inbox' = Append(inbox, Len(sent'))
  /\ UNCHANGED <<table, recording, queue, worker, channelIds, rows, unread, active, view, history>>

\* Another client gives the slot to another channel, or clears it.
SlotChanges ==
  /\ changes < MAX_CHANGES /\ changes' = changes + 1
  /\ slot' \in (Channels \cup {None}) \ {slot}
  /\ LET waiting == Range(inbox) \cup Range(queue)
                     \cup (IF worker.pc = "resolving" THEN {worker.msg} ELSE {})
     IN unsure' = unsure \cup {m \in waiting : IsChannel(m)}
  /\ UNCHANGED <<sent, link, queue, worker, channelIds, rows, unread, active, view, read, missed>>

\* Whether the open screen takes the message (_belongs): a channel screen by the slot.
Belongs(m, key) ==
  \/ key \in Channels /\ IsChannel(m)
  \/ key = Room /\ IsPost(m)
  \/ key = Friend /\ ~IsChannel(m) /\ ~IsPost(m)

\* A drain of the pump gets the next message, and the hub publishes it: to the recorder
\* (on_event of start), and to the screen that is up.
Pull ==
  /\ recording /\ inbox # <<>>
  /\ inbox' = Tail(inbox)
  /\ queue' = Append(queue, Head(inbox))
  /\ IF view.pc = "up" /\ Belongs(Head(inbox), view.key)
     THEN read' = read \cup {Head(inbox)} ELSE UNCHANGED read
  /\ UNCHANGED <<sent, table, recording, worker, channelIds, rows, unread, active, view, unsure, missed>>

-----------------------------------------------------------------------------
(* The worker (_process_inbound).                                          *)

\* A plausible slip of has_room_post(): only the posts that the user has not read are
\* looked at.
HasRoomPostUnread(m) == IsPost(m) /\ \E n \in unread[Room] : sent[n].post = sent[m].post

\* has_room_post(): the history has this post.
HasRoomPost(m) == IsPost(m) /\ \E n \in DOMAIN rows : sent[rows[n].msg].post = sent[m].post

\* A plausible slip of the queue: the newest message first.
TakeNewest ==
  /\ worker.pc = "idle" /\ queue # <<>>
  /\ queue' = Front(queue)
  /\ LET m == Last(queue)
     IN worker' = IF HasRoomPost(m) THEN Idle
                  ELSE [pc |-> IF IsChannel(m) THEN "resolving" ELSE "notifying", msg |-> m,
                        key |-> IF IsPost(m) THEN Room ELSE Friend]
  /\ UNCHANGED <<sent, table, link, channelIds, rows, unread, active, view, history>>

\* The worker gets the next message, up to its first await. A post that the history has is
\* passed over. (That a post came also goes to RoomService.heard.)
Take ==
  /\ worker.pc = "idle" /\ queue # <<>>
  /\ queue' = Tail(queue)
  /\ LET m == Head(queue)
     IN worker' = IF HasRoomPost(m) THEN Idle
                  ELSE [pc |-> IF IsChannel(m) THEN "resolving" ELSE "notifying", msg |-> m,
                        key |-> IF IsPost(m) THEN Room ELSE Friend]
  /\ UNCHANGED <<sent, table, link, channelIds, rows, unread, active, view, history>>

Resolved(key) == worker' = [worker EXCEPT !.pc = "notifying", !.key = key]

\* A plausible slip of channel_id_for(): the identity that was read for the slot before is
\* good for the session.
ResolveCached ==
  /\ worker.pc = "resolving"
  /\ IF channelIds # None
     THEN Resolved(channelIds) /\ UNCHANGED channelIds
     ELSE Resolved(IF slot = None THEN Fallback ELSE slot) /\ channelIds' = slot
  /\ UNCHANGED <<sent, table, link, queue, rows, unread, active, view, history>>

\* channel_id_for(): the slot was read, and _note_slot keeps what is in it.
Resolve ==
  /\ worker.pc = "resolving"
  /\ Resolved(IF slot = None THEN Fallback ELSE slot)
  /\ channelIds' = slot
  /\ UNCHANGED <<sent, table, link, queue, rows, unread, active, view, history>>

\* A plausible slip of _process_inbound: the exception of a read ends the worker.
ReadFailsEnds ==
  /\ worker.pc = "resolving"
  /\ worker' = Off
  /\ UNCHANGED <<sent, table, link, queue, channelIds, rows, unread, active, view, history>>

\* channel_id_for(): the read failed, and the last identity of the slot stands in.
ReadFails ==
  /\ worker.pc = "resolving"
  /\ Resolved(IF channelIds = None THEN Fallback ELSE channelIds)
  /\ unsure' = unsure \cup {worker.msg}
  /\ UNCHANGED <<sent, table, link, queue, channelIds, rows, unread, active, view, read, missed>>

File(saves) ==
  /\ rows' = IF saves THEN Append(rows, [msg |-> worker.msg, key |-> worker.key])
              ELSE rows
  /\ worker' = Idle

\* _notifies() has its answer, from the mutes and the lists of the device, and
\* _store_inbound() counts the message and writes its row. (A channel that could not be
\* named never notifies.)
StoreInbound(notify, saves) ==
  /\ worker.pc = "notifying"
  /\ worker.key = Fallback => ~notify
  /\ unread' = IF notify /\ worker.key # active
               THEN [unread EXCEPT ![worker.key] = @ \cup {worker.msg}] ELSE unread
  /\ File(saves)
  /\ read' = IF notify THEN read ELSE read \cup {worker.msg}
  /\ UNCHANGED <<sent, table, link, queue, channelIds, active, view, unsure, missed>>

-----------------------------------------------------------------------------
(* The screens.                                                            *)

\* open_chat() reads the history, and then gathers what else its screen needs.
OpenChat(key) ==
  /\ view.pc = "closed" /\ recording
  /\ view' = [pc |-> "gathering", key |-> key,
              shown |-> Transcript(key)]
  /\ UNCHANGED <<sent, table, link, queue, worker, channelIds, rows, unread, active, history>>

\* The screen is up: set_active, which clears the count, and the subscription to the hub.
ScreenUp ==
  /\ view.pc = "gathering"
  /\ view' = [view EXCEPT !.pc = "up", !.shown = {}]
  /\ active' = view.key
  /\ unread' = [unread EXCEPT ![view.key] = {}]
  /\ read' = read \cup view.shown
  /\ missed' = missed \cup ((InTransit \cup Transcript(view.key)) \ view.shown) \X {view.key}
  /\ UNCHANGED <<sent, table, link, queue, worker, channelIds, rows, unsure>>

\* A plausible slip of the end of open_chat(): it clears the count of what it leaves.
CloseChatClears ==
  /\ view.pc # "closed"
  /\ view' = Closed /\ active' = None
  /\ unread' = [unread EXCEPT ![view.key] = {}]
  /\ UNCHANGED <<sent, table, link, queue, worker, channelIds, rows, history>>

\* The user leaves the screen, or its task is cancelled.
CloseChat ==
  /\ view.pc # "closed"
  /\ view' = Closed /\ active' = None
  /\ UNCHANGED <<sent, table, link, queue, worker, channelIds, rows, unread, history>>

\* clear_unread(): the user mutes the channel, or leaves the room.
ClearUnread(key) ==
  /\ unread[key] # {} /\ view.pc = "closed"
  /\ unread' = [unread EXCEPT ![key] = {}]
  /\ read' = read \cup unread[key]
  /\ UNCHANGED <<sent, table, link, queue, worker, channelIds, rows, active, view, unsure, missed>>

-----------------------------------------------------------------------------
(* The service. It stops when the link is lost or the session ends; the    *)
(* task of the screen has ended before.                                    *)

\* start() of the hub and of the service, with no suspension between the two subscriptions.
Start ==
  /\ ~recording
  /\ recording' = TRUE
  /\ queue' = <<>> /\ worker' = Idle
  /\ UNCHANGED <<sent, table, inbox, channelIds, rows, unread, active, view, history>>

\* refresh_channels(), for the priming at the start and after an edit of the channels. (It
\* reads through the session cache; ChannelTable says what that may hold.)
RefreshChannels ==
  /\ recording /\ channelIds # slot
  /\ channelIds' = slot
  /\ UNCHANGED <<sent, table, link, queue, worker, rows, unread, active, view, history>>

\* stop(): the subscription is gone, and the worker is cancelled and awaited. Then the hub
\* stops; what its pump has still pulled until then goes to no subscriber.
Stop ==
  /\ recording /\ view.pc = "closed"
  /\ recording' = FALSE
  /\ worker' = Off /\ queue' = <<>>
  /\ \E pulled \in 0..Len(inbox) : inbox' = SubSeq(inbox, pulled + 1, Len(inbox))
  /\ UNCHANGED <<sent, table, channelIds, rows, unread, active, view, history>>

-----------------------------------------------------------------------------
WorkerStep ==
  \/ Take \/ Resolve \/ ReadFails
  \/ \E notify \in BOOLEAN, saves \in SaveOutcomes : StoreInbound(notify, saves)

Next ==
  \/ \E channel \in Channels \cup {None}, post \in Posts \cup {None} : MeshBrings(channel, post)
  \/ SlotChanges \/ Pull
  \/ WorkerStep
  \/ \E key \in Opened : OpenChat(key) \/ ClearUnread(key)
  \/ ScreenUp \/ CloseChat
  \/ Start \/ RefreshChannels \/ Stop

\* The worker resumes when its read, which has a limit, returns.
Spec == Init /\ [][Next]_vars /\ WF_vars(WorkerStep)

-----------------------------------------------------------------------------
(* Properties.                                                             *)

\* The types, and the worker that runs exactly while the service records; a worker that has a message knows it.
TypeOK ==
  /\ sent \in Seq([channel: Channels \cup {None}, post: Posts \cup {None}])
  /\ Len(sent) <= MAX_MESSAGES
  /\ slot \in Channels \cup {None} /\ changes \in 0..MAX_CHANGES
  /\ channelIds \in Channels \cup {None}
  /\ inbox \in Seq(Numbers) /\ queue \in Seq(Numbers)
  /\ recording \in BOOLEAN
  /\ worker \in [pc: {"off", "idle", "resolving", "notifying"}, msg: {0} \cup Numbers,
                  key: Keys \cup {None}]
  /\ worker.pc \in {"resolving", "notifying"} <=> worker.msg # 0
  /\ recording <=> worker.pc # "off"
  /\ rows \in Seq([msg: Numbers, key: Keys])
  /\ unread \in [Keys -> SUBSET Numbers]
  /\ active \in {None, view.key}
  /\ view \in [pc: {"closed", "gathering", "up"}, key: Keys \cup {None}, shown: SUBSET Numbers]
  /\ read \subseteq Numbers /\ unsure \subseteq Numbers /\ missed \subseteq Numbers \X Keys

\* The history is in the order of arrival, although the worker waits for the device before
\* it writes ("stored in the order in which they arrived": the one serial worker, across
\* stops and starts of the service).
StoredInOrder ==
  \A i, j \in DOMAIN rows : i < j => rows[i].msg < rows[j].msg

\* A post that the room sends again is in the history one time, however long the first of
\* the two waited for the device (the look at the history comes after the wait for the
\* queue, and the worker has one message at a time).
PostStoredOnce ==
  \A i, j \in DOMAIN rows :
     IsPost(rows[i].msg) /\ sent[rows[i].msg].post = sent[rows[j].msg].post => i = j

\* A message whose slot was read is filed under the channel on which it came, unless the
\* slot was given away between its arrival and that read: whatever the slot held before,
\* and whatever the session knew of it (the new read for each message).
FiledUnderItsChannel ==
  \A n \in DOMAIN rows :
     IsChannel(rows[n].msg) /\ rows[n].msg \notin unsure
        => rows[n].key = sent[rows[n].msg].channel

\* The conversation that is on the screen has no badge, while the worker still files what
\* came before and what comes (set_active clears once, and the counting looks again).
ActiveHasNoBadge == active # None => unread[active] = {}

\* A message in the history has been on the screen of its conversation, or its badge stands
\* for it, or it was not to notify; through opened, abandoned and closed screens. Messages
\* that are on the way while the screen of their conversation is put together are excepted:
\* the screen has read the history, is not subscribed, and clears the count that they get.
ShownOrCounted ==
  \A n \in DOMAIN rows :
     LET row == rows[n]
     IN row.msg \in read \cup unread[row.key] \/ <<row.msg, row.key>> \in missed

\* The badges are right: none on the conversation that is read, and none that is missing.
NoticesAreRight == ActiveHasNoBadge /\ ShownOrCounted

\* A message that was pulled from the companion does not stay on the way: failed reads,
\* failed writes and posts that are known do not stop the worker.
PulledIsHandled ==
  \A m \in Numbers : m \in InTransit ~> m \notin InTransit

=============================================================================
