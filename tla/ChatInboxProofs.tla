--------------------------- MODULE ChatInboxProofs ---------------------------
(***************************************************************************)
(* Theorems about the way of an inbound message to the history, the badge  *)
(* and the screen, for any number of messages, channels and posts, and for *)
(* every change of the slot, failed read, failed write and stop.           *)
(*                                                                         *)
(* InOrder says where a message can be: what is stored came before what    *)
(* the worker has, that before the queue, and that before what waits on    *)
(* the companion. The other invariants rest on it, because it tells that a *)
(* message is in one of these places only.                                 *)
(***************************************************************************)
EXTENDS ChatInbox, TLAPS

USE InboxAssumption

-----------------------------------------------------------------------------
(* The type of the state.                                                  *)

Message == [channel: Channels \cup {None}, post: Posts \cup {None}]
Row == [msg: Numbers, key: Keys]
Doing == [pc: {"off", "idle", "resolving", "notifying"}, msg: {0} \cup Numbers,
          key: Keys \cup {None}]
Screen == [pc: {"closed", "gathering", "up"}, key: Keys \cup {None}, shown: SUBSET Numbers]

Busy == worker.pc \in {"resolving", "notifying"}

\* The messages and the places that they pass.
Path ==
  /\ sent \in Seq(Message) /\ Len(sent) <= MAX_MESSAGES
  /\ slot \in Channels \cup {None} /\ changes \in 0..MAX_CHANGES
  /\ channelIds \in Channels \cup {None}
  /\ inbox \in Seq(Numbers) /\ queue \in Seq(Numbers)
  /\ recording \in BOOLEAN
  /\ worker \in Doing
  /\ Busy <=> worker.msg # 0
  /\ Busy => worker.key \in Keys
  /\ recording <=> worker.pc # "off"
  /\ rows \in Seq(Row)

\* What the user sees of them. A conversation is active exactly while its screen is up.
Sight ==
  /\ unread \in [Keys -> SUBSET Numbers]
  /\ view \in Screen
  /\ view.pc # "closed" => view.key \in Opened
  /\ active = IF view.pc = "up" THEN view.key ELSE None
  /\ read \in SUBSET Numbers /\ unsure \in SUBSET Numbers /\ missed \in SUBSET (Numbers \X Keys)

Types == Path /\ Sight

LEMMA NamesLemma ==
  /\ Fallback \in Keys /\ Friend \in Keys /\ Room \in Keys /\ Channels \subseteq Keys
  /\ Opened \subseteq Keys
  /\ None \notin Keys
  /\ Off \in Doing /\ Idle \in Doing /\ Closed \in Screen
  /\ Off.pc = "off" /\ Off.msg = 0 /\ Idle.pc = "idle" /\ Idle.msg = 0
  /\ Closed.pc = "closed"
BY DEF Keys, Fallback, Friend, Room, None, Off, Idle, Closed, Doing, Screen

\* The positions of a sequence that is one longer than another.
LEMMA LongerLemma ==
  ASSUME NEW old \in Nat, NEW longer, longer = old + 1
  PROVE  \A k \in 1..longer : k \in 1..old \/ k = old + 1
OBVIOUS

\* What the stored rows and the sequences of messages have in them.
LEMMA RowsLemma ==
  ASSUME Path
  PROVE  /\ DOMAIN rows = 1..Len(rows) /\ Len(rows) \in Nat
         /\ \A n \in DOMAIN rows : /\ rows[n] = [msg |-> rows[n].msg, key |-> rows[n].key]
                                 /\ rows[n].msg \in Numbers /\ rows[n].key \in Keys
         /\ \A key : Transcript(key) \in SUBSET Numbers
         /\ Range(inbox) \subseteq Numbers /\ Range(queue) \subseteq Numbers
<1>1. rows \in Seq(Row) /\ inbox \in Seq(Numbers) /\ queue \in Seq(Numbers)
  BY DEF Path
<1>2. DOMAIN rows = 1..Len(rows) /\ Len(rows) \in Nat
  BY <1>1
<1>3. ASSUME NEW n \in DOMAIN rows
      PROVE  /\ rows[n] = [msg |-> rows[n].msg, key |-> rows[n].key]
             /\ rows[n].msg \in Numbers /\ rows[n].key \in Keys
  <2>1. rows[n] \in Row
    BY <1>1, <1>2
  <2> QED BY <2>1 DEF Row
<1>4. \A key : Transcript(key) \in SUBSET Numbers
  BY <1>3 DEF Transcript
<1>5. Range(inbox) \subseteq Numbers
  BY <1>1 DEF Range
<1>6. Range(queue) \subseteq Numbers
  BY <1>1 DEF Range
<1> QED BY <1>2, <1>3, <1>4, <1>5, <1>6

LEMMA TypesInit == Init => Types
<1> SUFFICES ASSUME Init PROVE Types
  OBVIOUS
<1>1. Path
  <2>1. worker = Off /\ sent = <<>> /\ inbox = <<>> /\ queue = <<>> /\ rows = <<>>
    BY DEF Init
  <2>2. sent \in Seq(Message) /\ inbox \in Seq(Numbers) /\ queue \in Seq(Numbers) /\ rows \in Seq(Row)
    BY <2>1
  <2>3. Len(sent) <= MAX_MESSAGES /\ changes \in 0..MAX_CHANGES
    BY <2>1 DEF Init
  <2>4. slot \in Channels \cup {None} /\ channelIds \in Channels \cup {None} /\ recording = FALSE
    BY DEF Init
  <2> QED BY <2>1, <2>2, <2>3, <2>4, NamesLemma DEF Path, Busy
<1>2. Sight
  BY NamesLemma DEF Init, Sight
<1> QED BY <1>1, <1>2 DEF Types

\* The mesh brings a message to the companion.
LEMMA BringsKeepsTypes ==
  ASSUME Types, NEW channel \in Channels \cup {None}, NEW post \in Posts \cup {None},
         MeshBrings(channel, post)
  PROVE  Types'
<1> DEFINE m == [channel |-> channel, post |-> post]
<1>1. m \in Message
  BY DEF Message
<1> HIDE DEF m
<1>2. sent' = Append(sent, m) /\ inbox' = Append(inbox, Len(sent'))
  BY DEF MeshBrings, m
<1>3. sent' \in Seq(Message) /\ Len(sent') = Len(sent) + 1 /\ Len(sent') <= MAX_MESSAGES
  BY <1>1, <1>2 DEF MeshBrings, Types, Path
<1>4. inbox' \in Seq(Numbers)
  BY <1>2, <1>3 DEF Types, Path, Numbers
<1>5. UNCHANGED <<slot, changes, recording, queue, worker, channelIds, rows, unread, active, view,
                  read, unsure, missed>>
  BY DEF MeshBrings, table, history
<1> QED BY <1>3, <1>4, <1>5 DEF Types, Path, Sight, Busy

LEMMA TypesNext == Types /\ [Next]_vars => Types'
<1> SUFFICES ASSUME Types, [Next]_vars
             PROVE  Types'
  OBVIOUS
<1> USE NamesLemma DEF Types, table, link, history
<1>0. Path /\ Sight /\ worker.pc \in {"off", "idle", "resolving", "notifying"}
        /\ worker.msg \in {0} \cup Numbers /\ worker.key \in Keys \cup {None}
        /\ view.pc \in {"closed", "gathering", "up"} /\ view.key \in Keys \cup {None}
        /\ view.shown \in SUBSET Numbers
  BY DEF Path, Sight, Doing, Screen
<1>1. CASE \E channel \in Channels \cup {None}, post \in Posts \cup {None} : MeshBrings(channel, post)
  BY <1>1, BringsKeepsTypes
<1>2. CASE SlotChanges
  <2> DEFINE waiting == Range(inbox) \cup Range(queue)
                          \cup (IF worker.pc = "resolving" THEN {worker.msg} ELSE {})
  <2>1. waiting \subseteq Numbers
    BY <1>0, RowsLemma DEF Path, Busy
  <2> HIDE DEF waiting
  <2>2. unsure' \in SUBSET Numbers
    <3>1. unsure' = unsure \cup {m \in waiting : IsChannel(m)}
      BY <1>2 DEF SlotChanges, waiting
    <3> QED BY <2>1, <3>1 DEF Sight
  <2>3. slot' \in Channels \cup {None} /\ changes' \in 0..MAX_CHANGES
    BY <1>2 DEF SlotChanges, Path
  <2>4. UNCHANGED <<sent, inbox, recording, queue, worker, channelIds, rows, unread, active, view,
                    read, missed>>
    BY <1>2 DEF SlotChanges
  <2> QED BY <2>2, <2>3, <2>4 DEF Path, Sight, Busy
<1>3. CASE Pull
  BY <1>3 DEF Pull, Path, Sight, Busy
<1>4. CASE Take
  <2> DEFINE m == Head(queue)
  <2>1. queue' \in Seq(Numbers) /\ m \in Numbers
    BY <1>4 DEF Take, Path
  <2>2. UNCHANGED <<sent, table, inbox, recording, channelIds, rows, unread, active, view, history>>
    BY <1>4 DEF Take
  <2>3. CASE HasRoomPost(m)
    <3>1. worker' = Idle
      BY <1>4, <2>3 DEF Take
    <3>2. worker' \in Doing /\ (Busy' <=> worker'.msg # 0) /\ (Busy' => worker'.key \in Keys) /\ worker'.pc # "off"
      BY <3>1 DEF Busy
    <3> QED BY <1>4, <2>1, <2>2, <3>2 DEF Path, Sight, Take
  <2>4. CASE ~HasRoomPost(m)
    <3> DEFINE pc == IF IsChannel(m) THEN "resolving" ELSE "notifying"
               key == IF IsPost(m) THEN Room ELSE Friend
    <3>1. worker' = [pc |-> pc, msg |-> m, key |-> key]
      BY <1>4, <2>4 DEF Take
    <3>2. pc \in {"resolving", "notifying"} /\ key \in Keys
      OBVIOUS
    <3> HIDE DEF pc, key, m
    <3>3. worker' \in Doing /\ (Busy' <=> worker'.msg # 0) /\ (Busy' => worker'.key \in Keys) /\ worker'.pc # "off"
      BY <2>1, <3>1, <3>2 DEF Busy, Doing, Numbers
    <3> QED BY <1>4, <2>1, <2>2, <3>3 DEF Path, Sight, Take
  <2> QED BY <2>3, <2>4
<1>5. ASSUME Resolve \/ ReadFails PROVE Types'
  <2>1. PICK key \in Keys : Resolved(key)
    <3>1. CASE Resolve
      BY <3>1 DEF Resolve, Path
    <3>2. CASE ReadFails
      BY <3>2 DEF ReadFails, Path
    <3> QED BY <1>5, <3>1, <3>2
  <2>2. worker' = [pc |-> "notifying", msg |-> worker.msg, key |-> key]
    BY <2>1 DEF Resolved, Path, Doing
  <2>3. worker.pc = "resolving" /\ worker.msg \in Numbers
    BY <1>0, <1>5 DEF Resolve, ReadFails, Path, Busy
  <2>4. worker' \in Doing /\ (Busy' <=> worker'.msg # 0) /\ (Busy' => worker'.key \in Keys) /\ worker'.pc # "off"
    BY <2>2, <2>3 DEF Busy, Doing, Numbers
  <2>5. channelIds' \in Channels \cup {None} /\ unsure' \in SUBSET Numbers
    BY <1>5, <2>3 DEF Resolve, ReadFails, Path, Sight
  <2>6. UNCHANGED <<sent, slot, changes, inbox, recording, queue, rows, unread, active, view, read,
                    missed>>
    BY <1>5 DEF Resolve, ReadFails
  <2> QED BY <2>3, <2>4, <2>5, <2>6 DEF Path, Sight
<1>6. ASSUME NEW notify \in BOOLEAN, NEW saves \in SaveOutcomes, StoreInbound(notify, saves)
      PROVE  Types'
  <2>1. worker.pc = "notifying" /\ worker.msg \in Numbers
    BY <1>0, <1>6 DEF StoreInbound, Path, Busy
  <2>2. rows' \in Seq(Row)
    <3>1. CASE saves = FALSE
      BY <1>6, <3>1 DEF StoreInbound, File, Path
    <3>2. CASE saves = TRUE
      <4>1. rows' = Append(rows, [msg |-> worker.msg, key |-> worker.key])
        BY <1>6, <3>2 DEF StoreInbound, File
      <4>2. [msg |-> worker.msg, key |-> worker.key] \in Row
        BY <2>1 DEF Row, Path, Busy
      <4> QED BY <4>1, <4>2 DEF Path
    <3> QED BY <3>1, <3>2
  <2>3. unread' \in [Keys -> SUBSET Numbers] /\ read' \in SUBSET Numbers
    BY <1>6, <2>1 DEF StoreInbound, Sight
  <2>4. worker' = Idle
    BY <1>6 DEF StoreInbound, File
  <2> QED BY <1>6, <2>1, <2>2, <2>3, <2>4 DEF StoreInbound, Path, Sight, Busy
<1>7. ASSUME NEW key \in Opened, OpenChat(key)
      PROVE  Types'
  <2>1. view' = [pc |-> "gathering", key |-> key, shown |-> Transcript(key)]
    BY <1>7 DEF OpenChat
  <2>2. Transcript(key) \in SUBSET Numbers
    BY RowsLemma
  <2>3. view' \in Screen /\ view'.pc = "gathering" /\ view'.key = key
    BY <2>1, <2>2 DEF Screen
  <2> QED BY <1>7, <2>3 DEF OpenChat, Path, Sight, Busy
<1>8. CASE ScreenUp
  <2>1. view.pc = "gathering" /\ view.key \in Opened /\ view.key \in Keys
    BY <1>8 DEF ScreenUp, Sight
  <2>2. view' = [pc |-> "up", key |-> view.key, shown |-> {}]
    BY <1>8 DEF ScreenUp, Sight, Screen
  <2>3. view' \in Screen /\ view'.pc = "up" /\ view'.key = view.key
    BY <2>1, <2>2 DEF Screen
  <2>4. InTransit \cup Transcript(view.key) \subseteq Numbers
    BY <1>0, RowsLemma DEF InTransit
  <2>5. missed' \in SUBSET (Numbers \X Keys)
    BY <1>8, <2>1, <2>4 DEF ScreenUp, Sight
  <2>6. unread' \in [Keys -> SUBSET Numbers] /\ read' \in SUBSET Numbers /\ active' = view.key
    BY <1>0, <1>8, <2>1 DEF ScreenUp, Sight
  <2>7. UNCHANGED <<sent, table, inbox, recording, queue, worker, channelIds, rows, unsure>>
    BY <1>8 DEF ScreenUp
  <2> QED BY <2>1, <2>3, <2>5, <2>6, <2>7 DEF Path, Sight, Busy
<1>9. CASE CloseChat
  BY <1>9 DEF CloseChat, Path, Sight, Busy
<1>10. ASSUME NEW key \in Opened, ClearUnread(key)
       PROVE  Types'
  BY <1>10 DEF ClearUnread, Path, Sight, Busy
<1>11. CASE Start
  <2>1. queue' \in Seq(Numbers) /\ worker' = Idle /\ recording' = TRUE
    BY <1>11 DEF Start
  <2> QED BY <1>11, <2>1 DEF Start, Path, Sight, Busy
<1>12. CASE RefreshChannels
  BY <1>12 DEF RefreshChannels, Path, Sight, Busy
<1>13. CASE Stop
  <2>1. queue' \in Seq(Numbers) /\ worker' = Off /\ recording' = FALSE
    BY <1>13 DEF Stop
  <2>2. inbox' \in Seq(Numbers)
    BY <1>13 DEF Stop, Path
  <2> QED BY <1>13, <2>1, <2>2 DEF Stop, Path, Sight, Busy
<1>14. CASE UNCHANGED vars
  BY <1>14 DEF vars, Path, Sight, Busy
<1> QED BY <1>1, <1>2, <1>3, <1>4, <1>5, <1>6, <1>7, <1>8, <1>9, <1>10, <1>11, <1>12, <1>13, <1>14
       DEF Next, WorkerStep

\* The type of the state (TypeOK), and with it: the worker runs exactly while the service
\* records, and knows the message that it has.
THEOREM InboxTypeCorrect == Spec => []TypeOK
<1>1. Types => TypeOK
  BY DEF Types, Path, Sight, Busy, TypeOK, Message, Row, Doing, Screen
<1> QED BY <1>1, TypesInit, TypesNext, PTL DEF Spec

-----------------------------------------------------------------------------
(* The order of arrival.                                                   *)

Rising(s) == \A j, k \in 1..Len(s) : j < k => s[j] < s[k]

InOrder ==
  /\ Rising(queue) /\ Rising(inbox)
  /\ \A n, m \in 1..Len(rows) : n < m => rows[n].msg < rows[m].msg
  /\ \A n \in 1..Len(rows), k \in 1..Len(queue) : rows[n].msg < queue[k]
  /\ \A n \in 1..Len(rows), l \in 1..Len(inbox) : rows[n].msg < inbox[l]
  /\ \A k \in 1..Len(queue), l \in 1..Len(inbox) : queue[k] < inbox[l]
  /\ \A n \in 1..Len(rows) : rows[n].msg <= Len(sent) /\ (Busy => rows[n].msg < worker.msg)
  /\ \A k \in 1..Len(queue) : worker.msg < queue[k] /\ queue[k] <= Len(sent)
  /\ \A l \in 1..Len(inbox) : worker.msg < inbox[l] /\ inbox[l] <= Len(sent)
  /\ worker.msg <= Len(sent)

\* What is left of a queue when its head, or some first part of it, was taken.
LEMMA RestLemma ==
  ASSUME NEW s \in Seq(Numbers), NEW d \in 0..Len(s)
  PROVE  /\ SubSeq(s, d + 1, Len(s)) \in Seq(Numbers)
         /\ Len(SubSeq(s, d + 1, Len(s))) = Len(s) - d
         /\ \A k \in 1..(Len(s) - d) : SubSeq(s, d + 1, Len(s))[k] = s[k + d]
         /\ s # <<>> => /\ Head(s) = s[1] /\ Len(s) >= 1
                        /\ Tail(s) \in Seq(Numbers) /\ Len(Tail(s)) = Len(s) - 1
                        /\ \A k \in 1..(Len(s) - 1) : Tail(s)[k] = s[k + 1]
OBVIOUS

\* A step that leaves the places of the messages alone.
LEMMA OrderUnchanged ==
  ASSUME InOrder, UNCHANGED <<sent, inbox, queue, rows>>, worker'.msg = worker.msg, Busy' <=> Busy
  PROVE  InOrder'
BY DEF InOrder, Rising

LEMMA OrderNext == Types /\ Types' /\ InOrder /\ [Next]_vars => InOrder'
<1> SUFFICES ASSUME Types, Types', InOrder, [Next]_vars
             PROVE  InOrder'
  OBVIOUS
<1> USE DEF table, link, history
<1>0. /\ inbox \in Seq(Numbers) /\ queue \in Seq(Numbers) /\ rows \in Seq(Row) /\ sent \in Seq(Message)
      /\ inbox' \in Seq(Numbers) /\ queue' \in Seq(Numbers) /\ rows' \in Seq(Row)
      /\ worker \in Doing /\ worker.msg \in Nat
      /\ Busy <=> worker.msg # 0
  BY DEF Types, Path, Doing, Numbers
<1>n. /\ worker.msg \in Nat /\ Len(sent) \in Nat /\ Len(rows) \in Nat /\ Len(queue) \in Nat /\ Len(inbox) \in Nat
      /\ \A n \in 1..Len(rows) : rows[n].msg \in Nat /\ 0 < rows[n].msg
      /\ \A k \in 1..Len(queue) : queue[k] \in Nat /\ 0 < queue[k]
      /\ \A l \in 1..Len(inbox) : inbox[l] \in Nat /\ 0 < inbox[l]
  <2>1. \A n \in 1..Len(rows) : rows[n].msg \in Nat /\ 0 < rows[n].msg
    BY RowsLemma DEF Types, Numbers
  <2>2. \A k \in 1..Len(queue) : queue[k] \in Nat /\ 0 < queue[k]
    BY <1>0, SMTT(30) DEF Numbers
  <2>3. \A l \in 1..Len(inbox) : inbox[l] \in Nat /\ 0 < inbox[l]
    BY <1>0, SMTT(30) DEF Numbers
  <2>4. Len(sent) \in Nat /\ Len(rows) \in Nat /\ Len(queue) \in Nat /\ Len(inbox) \in Nat
    BY <1>0
  <2> QED BY <1>0, <2>1, <2>2, <2>3, <2>4
<1>1. ASSUME NEW channel \in Channels \cup {None}, NEW post \in Posts \cup {None},
             MeshBrings(channel, post)
      PROVE  InOrder'
  <2> DEFINE n == Len(sent) + 1
  <2>1. Len(sent') = n /\ inbox' = Append(inbox, n)
    BY <1>0, <1>1 DEF MeshBrings
  <2>2. Len(inbox') = Len(inbox) + 1 /\ inbox'[Len(inbox) + 1] = n
        /\ \A l \in 1..Len(inbox) : inbox'[l] = inbox[l]
    BY <1>0, <2>1
  <2>3. n \in Nat /\ Len(sent) < n
    BY <1>0
  <2> HIDE DEF n
  <2>4. UNCHANGED <<queue, worker, rows>>
    BY <1>1 DEF MeshBrings
  <2>5. \A l \in 1..Len(inbox') : l \in 1..Len(inbox) \/ l = Len(inbox) + 1
    <3>1. Len(inbox) \in Nat
      BY <1>n
    <3>2. Len(inbox') = Len(inbox) + 1
      BY <2>2
    <3> QED BY <3>1, <3>2, LongerLemma
  <2> HIDE DEF Busy
  <2>6. Busy' <=> Busy
    BY <2>4 DEF Busy
  <2>7. \A k \in 1..Len(inbox') : inbox'[k] \in Nat /\ inbox'[k] <= n
    <3> SUFFICES ASSUME NEW k \in 1..Len(inbox')
                 PROVE  inbox'[k] \in Nat /\ inbox'[k] <= n
      OBVIOUS
    <3>1. CASE k \in 1..Len(inbox)
      <4>1. inbox'[k] = inbox[k] /\ inbox[k] \in Nat /\ inbox[k] <= Len(sent)
        BY <1>n, <2>2, <3>1 DEF InOrder
      <4> QED BY <1>n, <2>3, <4>1
    <3>2. CASE k = Len(inbox) + 1
      BY <2>2, <2>3, <3>2
    <3> QED BY <2>5, <3>1, <3>2
  <2>8. Rising(inbox')
    <3> SUFFICES ASSUME NEW j \in 1..Len(inbox'), NEW k \in 1..Len(inbox'), j < k
                 PROVE  inbox'[j] < inbox'[k]
      BY DEF Rising
    <3>1. CASE k \in 1..Len(inbox)
      BY <1>n, <2>2, <3>1, SMTT(30) DEF InOrder, Rising
    <3>2. CASE k = Len(inbox) + 1
      <4>1. j \in 1..Len(inbox)
        BY <1>n, <2>2, <3>2
      <4> QED BY <1>n, <2>2, <2>3, <3>2, <4>1 DEF InOrder
    <3> QED BY <2>5, <3>1, <3>2
  <2>9. ASSUME NEW l \in 1..Len(inbox')
        PROVE  /\ \A k \in 1..Len(queue) : queue[k] < inbox'[l]
               /\ \A k \in 1..Len(rows) : rows[k].msg < inbox'[l]
               /\ worker.msg < inbox'[l]
    <3>1. CASE l \in 1..Len(inbox)
      BY <1>n, <2>2, <3>1 DEF InOrder
    <3>2. CASE l = Len(inbox) + 1
      BY <1>n, <2>2, <2>3, <3>2 DEF InOrder
    <3> QED BY <2>5, <3>1, <3>2
  <2>10. /\ \A k \in 1..Len(queue) : queue[k] <= n
         /\ \A k \in 1..Len(rows) : rows[k].msg <= n
         /\ worker.msg <= n
    <3>1. worker.msg <= n
      BY <1>n, <2>3 DEF InOrder
    <3>2. \A k \in 1..Len(queue) : queue[k] <= n
      BY <1>n, <2>3 DEF InOrder
    <3>3. \A k \in 1..Len(rows) : rows[k].msg <= n
      BY <1>n, <2>3 DEF InOrder
    <3> QED BY <3>1, <3>2, <3>3
  <2> QED BY <2>1, <2>4, <2>6, <2>7, <2>8, <2>9, <2>10 DEF InOrder
<1>2. CASE Pull
  <2>1. /\ inbox # <<>> /\ inbox' = Tail(inbox) /\ queue' = Append(queue, Head(inbox))
        /\ UNCHANGED <<sent, worker, rows>>
    BY <1>2 DEF Pull
  <2>2. /\ Head(inbox) = inbox[1] /\ Len(inbox) >= 1 /\ Len(inbox') = Len(inbox) - 1
        /\ \A k \in 1..Len(inbox') : inbox'[k] = inbox[k + 1] /\ k + 1 \in 1..Len(inbox)
    BY <1>0, <2>1, RestLemma
  <2>3. /\ Len(queue') = Len(queue) + 1 /\ queue'[Len(queue) + 1] = inbox[1]
        /\ \A k \in 1..Len(queue) : queue'[k] = queue[k]
        /\ \A k \in 1..Len(queue') : k \in 1..Len(queue) \/ k = Len(queue) + 1
    BY <1>0, <2>1, <2>2
  <2>4. (Busy' <=> Busy) /\ Rising(inbox')
    BY <1>n, <2>1, <2>2 DEF Busy, InOrder, Rising
  <2>5. ASSUME NEW k \in 1..Len(queue')
        PROVE  /\ worker.msg < queue'[k] /\ queue'[k] <= Len(sent)
               /\ \A l \in 1..Len(inbox') : queue'[k] < inbox'[l]
               /\ \A n \in 1..Len(rows) : rows[n].msg < queue'[k]
               /\ \A j \in 1..Len(queue') : j < k => queue'[j] < queue'[k]
    <3>1. CASE k \in 1..Len(queue)
      <4>1. /\ worker.msg < queue[k] /\ queue[k] <= Len(sent)
            /\ \A n \in 1..Len(rows) : rows[n].msg < queue[k]
        BY <3>1 DEF InOrder
      <4>2. \A l \in 1..Len(inbox') : queue[k] < inbox'[l]
        BY <2>2, <3>1 DEF InOrder
      <4>3. \A j \in 1..Len(queue') : j < k => j \in 1..Len(queue)
        BY <1>n, <2>3, <3>1
      <4>4. \A j \in 1..Len(queue') : j < k => queue'[j] < queue'[k]
        BY <2>3, <3>1, <4>3 DEF InOrder, Rising
      <4> QED BY <2>3, <3>1, <4>1, <4>2, <4>4
    <3>2. CASE k = Len(queue) + 1
      <4>1. /\ worker.msg < inbox[1] /\ inbox[1] <= Len(sent)
            /\ \A n \in 1..Len(rows) : rows[n].msg < inbox[1]
            /\ \A j \in 1..Len(queue) : queue[j] < inbox[1]
        BY <1>n, <2>2 DEF InOrder
      <4>2. \A l \in 1..Len(inbox') : inbox[1] < inbox'[l]
        <5> SUFFICES ASSUME NEW l \in 1..Len(inbox')
                     PROVE  inbox[1] < inbox'[l]
          OBVIOUS
        <5>1. inbox'[l] = inbox[l + 1] /\ l + 1 \in 1..Len(inbox) /\ 1 \in 1..Len(inbox)
          BY <2>2
        <5>2. 1 < l + 1
          BY <1>n, <5>1
        <5>3. Rising(inbox)
          BY DEF InOrder
        <5> QED BY <5>1, <5>2, <5>3 DEF Rising
      <4>3. \A j \in 1..Len(queue') : j < k => j \in 1..Len(queue)
        <5>1. Len(queue) \in Nat
          BY <1>n
        <5>2. Len(queue') = Len(queue) + 1
          BY <2>3
        <5>3. \A j \in 1..Len(queue') : j \in 1..Len(queue) \/ j = Len(queue) + 1
          BY <5>1, <5>2, LongerLemma
        <5>4. ~(k < k)
          BY <3>2, <5>1
        <5> QED BY <3>2, <5>3, <5>4
      <4> QED BY <2>3, <3>2, <4>1, <4>2, <4>3
    <3> QED BY <2>3, <3>1, <3>2
  <2>6. \A l \in 1..Len(inbox') : /\ worker.msg < inbox'[l] /\ inbox'[l] <= Len(sent)
                                 /\ \A n \in 1..Len(rows) : rows[n].msg < inbox'[l]
    BY <1>n, <2>2 DEF InOrder
  <2>7. Rising(queue')
    BY <2>5 DEF Rising
  <2> QED BY <2>1, <2>4, <2>5, <2>6, <2>7 DEF InOrder
<1>3. CASE Take
  <2>1. /\ queue # <<>> /\ queue' = Tail(queue) /\ UNCHANGED <<sent, inbox, rows>>
        /\ worker.pc = "idle"
    BY <1>3 DEF Take
  <2>2. /\ Head(queue) = queue[1] /\ Len(queue) >= 1 /\ Len(queue') = Len(queue) - 1
        /\ \A k \in 1..Len(queue') : queue'[k] = queue[k + 1] /\ k + 1 \in 1..Len(queue)
    BY <1>0, <2>1, RestLemma
  <2>3. (worker'.msg = 0 /\ ~Busy') \/ worker'.msg = queue[1]
    BY <1>3, <2>2, NamesLemma DEF Take, Busy
  <2> QED BY <1>0, <1>n, <2>1, <2>2, <2>3 DEF InOrder, Rising, Busy
<1>4. CASE Resolve \/ ReadFails
  <2>1. worker'.msg = worker.msg /\ Busy' /\ Busy
    BY <1>0, <1>4 DEF Resolve, ReadFails, Resolved, Busy, Doing
  <2> QED BY <1>4, <2>1, OrderUnchanged DEF Resolve, ReadFails
<1>5. ASSUME NEW notify \in BOOLEAN, NEW saves \in SaveOutcomes, StoreInbound(notify, saves)
      PROVE  InOrder'
  <2>1. /\ Busy /\ worker.msg # 0 /\ worker'.msg = 0 /\ ~Busy'
        /\ UNCHANGED <<sent, inbox, queue>>
    BY <1>0, <1>5, NamesLemma DEF StoreInbound, File, Busy
  <2>2. CASE rows' = rows
    <3>1. 0 <= Len(sent) /\ \A l \in 1..Len(inbox) : 0 < inbox[l]
      BY <1>n
    <3>2. \A k \in 1..Len(queue) : 0 < queue[k]
      BY <1>n
    <3> QED BY <2>1, <2>2, <3>1, <3>2 DEF InOrder, Rising
  <2>3. CASE rows' = Append(rows, [msg |-> worker.msg, key |-> worker.key])
    <3>1. /\ Len(rows') = Len(rows) + 1 /\ rows'[Len(rows) + 1].msg = worker.msg
          /\ \A n \in 1..Len(rows) : rows'[n] = rows[n]
          /\ \A n \in 1..Len(rows') : n \in 1..Len(rows) \/ n = Len(rows) + 1
      BY <1>0, <2>3
    <3>2. ASSUME NEW n \in 1..Len(rows')
          PROVE  /\ rows'[n].msg <= Len(sent)
                 /\ \A k \in 1..Len(queue) : rows'[n].msg < queue[k]
                 /\ \A l \in 1..Len(inbox) : rows'[n].msg < inbox[l]
      <4>1. CASE n \in 1..Len(rows)
        BY <1>n, <3>1, <4>1 DEF InOrder
      <4>2. CASE n = Len(rows) + 1
        BY <1>n, <3>1, <4>2 DEF InOrder
      <4> QED BY <3>1, <4>1, <4>2
    <3>3. ASSUME NEW n \in 1..Len(rows'), NEW m \in 1..Len(rows'), n < m
          PROVE  rows'[n].msg < rows'[m].msg
      <4>1. n \in 1..Len(rows)
        BY <1>n, <3>1, <3>3
      <4>2. CASE m \in 1..Len(rows)
        BY <1>n, <3>1, <3>3, <4>1, <4>2 DEF InOrder
      <4>3. CASE m = Len(rows) + 1
        BY <1>n, <2>1, <3>1, <4>1, <4>3 DEF InOrder
      <4> QED BY <3>1, <4>2, <4>3
    <3>4. Rising(queue') /\ Rising(inbox')
      BY <2>1 DEF InOrder, Rising
    <3>5. 0 <= Len(sent)
      BY <1>n
    <3> QED BY <1>n, <2>1, <3>2, <3>3, <3>4, <3>5 DEF InOrder
  <2> QED BY <1>5, <2>2, <2>3 DEF StoreInbound, File
<1>6. CASE Start
  <2>1. queue' = <<>> /\ worker'.msg = 0 /\ ~Busy' /\ UNCHANGED <<sent, inbox, rows>>
    BY <1>6, NamesLemma DEF Start, Busy
  <2> QED BY <1>n, <2>1 DEF InOrder, Rising
<1>7. CASE Stop
  <2>1. queue' = <<>> /\ worker'.msg = 0 /\ ~Busy' /\ UNCHANGED <<sent, rows>>
    BY <1>7, NamesLemma DEF Stop, Busy
  <2>2. PICK pulled \in 0..Len(inbox) : inbox' = SubSeq(inbox, pulled + 1, Len(inbox))
    BY <1>7 DEF Stop
  <2>3. /\ Len(inbox') = Len(inbox) - pulled
        /\ \A k \in 1..(Len(inbox) - pulled) : inbox'[k] = inbox[k + pulled]
    BY <1>0, <2>2, RestLemma
  <2>4. \A k \in 1..Len(inbox') : inbox'[k] = inbox[k + pulled] /\ k + pulled \in 1..Len(inbox)
    BY <1>n, <2>3
  <2>5. Rising(inbox') /\ Rising(queue')
    <3>1. \A j, k \in 1..Len(inbox') : j < k => j + pulled < k + pulled
      BY <1>n, <2>3
    <3>2. Rising(inbox')
      BY <2>4, <3>1 DEF InOrder, Rising
    <3> QED BY <2>1, <3>2 DEF Rising
  <2>6. \A l \in 1..Len(inbox') : /\ 0 < inbox'[l] /\ inbox'[l] <= Len(sent)
                                 /\ \A n \in 1..Len(rows) : rows[n].msg < inbox'[l]
    BY <1>n, <2>4 DEF InOrder
  <2>7. Len(queue') = 0
    BY <2>1
  <2> QED BY <1>n, <2>1, <2>5, <2>6, <2>7 DEF InOrder
<1>8. CASE SlotChanges \/ ScreenUp \/ CloseChat \/ RefreshChannels
             \/ \E key \in Opened : OpenChat(key) \/ ClearUnread(key)
  BY <1>8, OrderUnchanged
     DEF SlotChanges, ScreenUp, CloseChat, RefreshChannels, OpenChat, ClearUnread, Busy
<1>9. CASE UNCHANGED vars
  BY <1>9, OrderUnchanged DEF vars, Busy
<1> QED BY <1>1, <1>2, <1>3, <1>4, <1>5, <1>6, <1>7, <1>8, <1>9 DEF Next, WorkerStep

\* The types and the order of the queue hold in every reachable state.
THEOREM OrderInvariant == Spec => [](Types /\ InOrder)
<1>1. Init => InOrder
  BY NamesLemma DEF Init, InOrder, Rising, Busy
<1> QED BY <1>1, TypesInit, TypesNext, OrderNext, PTL DEF Spec

\* The history is in the order of arrival (the one serial worker), whatever fails or stops.
THEOREM HistoryInOrder == Spec => []StoredInOrder
<1>1. Types /\ InOrder => StoredInOrder
  BY RowsLemma DEF Types, InOrder, StoredInOrder
<1> QED BY <1>1, OrderInvariant, PTL

-----------------------------------------------------------------------------
(* What a message is does not change, and each place has known messages.   *)

Known == 1..Len(sent)

LEMMA KnownLemma ==
  ASSUME Types, InOrder
  PROVE  /\ \A n \in 1..Len(rows) : rows[n].msg \in Known
         /\ \A k \in 1..Len(queue) : queue[k] \in Known
         /\ \A l \in 1..Len(inbox) : inbox[l] \in Known
         /\ Busy => worker.msg \in Known
         /\ \A m \in Known : sent[m] \in Message
<1>1. /\ sent \in Seq(Message) /\ Len(sent) \in Nat /\ queue \in Seq(Numbers) /\ inbox \in Seq(Numbers)
      /\ worker.msg \in {0} \cup Numbers /\ (Busy <=> worker.msg # 0)
  BY DEF Types, Path, Doing
<1>2. \A n \in 1..Len(rows) : rows[n].msg \in Known
  <2>1. \A n \in 1..Len(rows) : rows[n].msg \in Numbers
    BY RowsLemma DEF Types
  <2> QED BY <1>1, <2>1 DEF InOrder, Known, Numbers
<1>3. \A k \in 1..Len(queue) : queue[k] \in Known
  BY <1>1 DEF InOrder, Known, Numbers
<1>4. \A l \in 1..Len(inbox) : inbox[l] \in Known
  BY <1>1 DEF InOrder, Known, Numbers
<1>5. Busy => worker.msg \in Known
  BY <1>1 DEF InOrder, Known, Numbers
<1>6. \A m \in Known : sent[m] \in Message
  BY <1>1 DEF Known
<1> QED BY <1>2, <1>3, <1>4, <1>5, <1>6

LEMMA SentLemma ==
  ASSUME Types, [Next]_vars
  PROVE  \A m \in Known : /\ sent'[m] = sent[m] /\ m \in Known'
                          /\ IsChannel(m)' = IsChannel(m) /\ IsPost(m)' = IsPost(m)
<1>1. UNCHANGED sent \/ \E message \in Message : sent' = Append(sent, message)
  BY DEF Next, vars, MeshBrings, SlotChanges, Pull, WorkerStep, Take, Resolve, ReadFails, StoreInbound,
         OpenChat, ClearUnread, ScreenUp, CloseChat, Start, RefreshChannels, Stop, Message
<1>2. sent \in Seq(Message)
  BY DEF Types, Path
<1>3. \A m \in Known : sent'[m] = sent[m] /\ m \in Known'
  BY <1>1, <1>2 DEF Known
<1> QED BY <1>3 DEF IsChannel, IsPost

-----------------------------------------------------------------------------
(* A post is stored one time: the worker has looked at the history after   *)
(* the last row was written, and it writes the next.                       *)

PostsApart ==
  /\ \A i, j \in 1..Len(rows) :
       IsPost(rows[i].msg) /\ sent[rows[i].msg].post = sent[rows[j].msg].post => i = j
  /\ Busy /\ IsPost(worker.msg) =>
       \A n \in 1..Len(rows) : sent[rows[n].msg].post # sent[worker.msg].post

LEMMA PostsNext == Types /\ Types' /\ InOrder /\ PostsApart /\ [Next]_vars => PostsApart'
<1> SUFFICES ASSUME Types, Types', InOrder, PostsApart, [Next]_vars
             PROVE  PostsApart'
  OBVIOUS
<1>0. \A m \in Known : sent'[m] = sent[m] /\ IsPost(m)' = IsPost(m)
  BY SentLemma
<1>k. (\A n \in 1..Len(rows) : rows[n].msg \in Known) /\ (Busy => worker.msg \in Known)
  BY KnownLemma
<1>1. CASE rows' = rows /\ (Busy' => Busy /\ worker'.msg = worker.msg)
  BY <1>0, <1>1, <1>k DEF PostsApart
<1>2. CASE Take
  <2>1. rows' = rows /\ sent' = sent
    BY <1>2 DEF Take
  <2>2. CASE HasRoomPost(Head(queue))
    <3>1. ~Busy'
      BY <1>2, <2>2, NamesLemma DEF Take, Busy
    <3> QED BY <1>1, <2>1, <3>1
  <2>3. CASE ~HasRoomPost(Head(queue))
    <3>1. worker'.msg = Head(queue)
      BY <1>2, <2>3 DEF Take
    <3>2. IsPost(worker'.msg) => \A n \in 1..Len(rows) : sent[rows[n].msg].post # sent[worker'.msg].post
      BY <2>3, <3>1, RowsLemma DEF HasRoomPost, Types
    <3> QED BY <2>1, <3>2 DEF PostsApart, IsPost
  <2> QED BY <2>2, <2>3
<1>3. ASSUME NEW notify \in BOOLEAN, NEW saves \in SaveOutcomes, StoreInbound(notify, saves)
      PROVE  PostsApart'
  <2>1. ~Busy' /\ Busy /\ sent' = sent
    BY <1>3, NamesLemma DEF StoreInbound, File, Busy
  <2>2. CASE rows' = rows
    BY <1>1, <2>1, <2>2
  <2>3. CASE rows' = Append(rows, [msg |-> worker.msg, key |-> worker.key])
    <3>1. rows \in Seq(Row)
      BY DEF Types, Path
    <3>2. /\ Len(rows') = Len(rows) + 1 /\ rows'[Len(rows) + 1].msg = worker.msg
          /\ \A n \in 1..Len(rows) : rows'[n] = rows[n]
          /\ \A n \in 1..Len(rows') : n \in 1..Len(rows) \/ n = Len(rows) + 1
      BY <2>3, <3>1
    <3> QED BY <2>1, <3>2 DEF PostsApart, IsPost
  <2> QED BY <1>3, <2>2, <2>3 DEF StoreInbound, File
<1>4. CASE Resolve \/ ReadFails
  <2>1. worker'.msg = worker.msg /\ Busy /\ rows' = rows
    BY <1>4 DEF Resolve, ReadFails, Resolved, Busy, Types, Path, Doing
  <2> QED BY <1>1, <2>1
<1>5. CASE Start \/ Stop
  BY <1>1, <1>5, NamesLemma DEF Start, Stop, Busy
<1>6. CASE UNCHANGED <<rows, worker>>
  BY <1>1, <1>6 DEF Busy
<1> QED BY <1>2, <1>3, <1>4, <1>5, <1>6
       DEF Next, vars, WorkerStep, MeshBrings, SlotChanges, Pull, OpenChat, ClearUnread, ScreenUp,
           CloseChat, RefreshChannels

\* A post that the room sends again is in the history one time.
THEOREM PostsOnce == Spec => []PostStoredOnce
<1>1. Init => PostsApart
  BY NamesLemma DEF Init, PostsApart, Busy
<1>2. Types /\ PostsApart => PostStoredOnce
  BY RowsLemma DEF Types, PostsApart, PostStoredOnce
<1> QED BY <1>1, <1>2, PostsNext, OrderInvariant, PTL DEF Spec

-----------------------------------------------------------------------------
(* A channel message is filed under its channel: while it waits, the slot  *)
(* is that of its channel, or it is one of the unsure.                     *)

Sure(messages, content, u, m) ==
  messages[m].channel # None /\ m \notin u => messages[m].channel = content

Attributed ==
  /\ \A m \in Known : IsChannel(m) => ~IsPost(m)
  /\ \A l \in 1..Len(inbox) : Sure(sent, slot, unsure, inbox[l])
  /\ \A k \in 1..Len(queue) : Sure(sent, slot, unsure, queue[k])
  /\ worker.pc = "resolving" => IsChannel(worker.msg) /\ Sure(sent, slot, unsure, worker.msg)
  /\ worker.pc = "notifying" /\ IsChannel(worker.msg) =>
       /\ worker.key \in Channels \cup {Fallback}
       /\ worker.msg \notin unsure => worker.key = sent[worker.msg].channel
  /\ worker.pc = "notifying" /\ ~IsChannel(worker.msg) =>
       worker.key = IF IsPost(worker.msg) THEN Room ELSE Friend
  /\ \A n \in 1..Len(rows) : IsChannel(rows[n].msg) /\ rows[n].msg \notin unsure
                               => rows[n].key = sent[rows[n].msg].channel

\* What is stored stays attributed while the unsure only grow.
LEMMA AttributedRows ==
  ASSUME Types, InOrder, Attributed, [Next]_vars, unsure \subseteq unsure', NEW n \in 1..Len(rows),
         sent'[rows[n].msg].channel # None, rows[n].msg \notin unsure'
  PROVE  rows[n].key = sent'[rows[n].msg].channel
<1>1. rows[n].msg \in Known
  BY KnownLemma
<1>2. sent'[rows[n].msg] = sent[rows[n].msg]
  BY <1>1, SentLemma
<1> QED BY <1>2 DEF Attributed, IsChannel

LEMMA AttributedNext == Types /\ Types' /\ InOrder /\ Attributed /\ [Next]_vars => Attributed'
<1> SUFFICES ASSUME Types, Types', InOrder, Attributed, [Next]_vars
             PROVE  Attributed'
  OBVIOUS
<1> USE DEF table, link, history
<1>0. \A m \in Known : /\ sent'[m] = sent[m]
                       /\ IsChannel(m)' = IsChannel(m) /\ IsPost(m)' = IsPost(m)
  BY SentLemma
<1>k. /\ \A n \in 1..Len(rows) : rows[n].msg \in Known
      /\ \A k \in 1..Len(queue) : queue[k] \in Known
      /\ \A l \in 1..Len(inbox) : inbox[l] \in Known
      /\ Busy => worker.msg \in Known
  BY KnownLemma
<1>t. /\ sent \in Seq(Message) /\ inbox \in Seq(Numbers) /\ queue \in Seq(Numbers) /\ worker \in Doing
      /\ rows \in Seq(Row)
  BY DEF Types, Path
<1>1. ASSUME NEW channel \in Channels \cup {None}, NEW post \in Posts \cup {None},
             MeshBrings(channel, post)
      PROVE  Attributed'
  <2> DEFINE n == Len(sent) + 1
  <2>1. /\ sent' = Append(sent, [channel |-> channel, post |-> post])
        /\ inbox' = Append(inbox, Len(sent'))
        /\ channel # None => post = None /\ channel = slot
        /\ UNCHANGED <<slot, queue, worker, rows, unsure>>
    BY <1>1 DEF MeshBrings
  <2>2. /\ Len(sent') = n /\ sent'[n].channel = channel /\ sent'[n].post = post
        /\ \A m \in Known' : m \in Known \/ m = n
    BY <1>t, <2>1 DEF Known
  <2>3. /\ Len(inbox') = Len(inbox) + 1 /\ inbox'[Len(inbox) + 1] = n
        /\ \A l \in 1..Len(inbox) : inbox'[l] = inbox[l]
        /\ \A l \in 1..Len(inbox') : l \in 1..Len(inbox) \/ l = Len(inbox) + 1
    BY <1>t, <2>1, <2>2
  <2> HIDE DEF n
  <2>4. Sure(sent', slot', unsure', n) /\ (sent'[n].channel # None => sent'[n].post = None)
    BY <2>1, <2>2 DEF Sure
  <2>5. \A m \in Known : Sure(sent, slot, unsure, m) => Sure(sent', slot', unsure', m)
    BY <1>0, <2>1 DEF Sure
  <2>6. \A l \in 1..Len(inbox') : Sure(sent', slot', unsure', inbox'[l])
    BY <1>k, <2>3, <2>4, <2>5 DEF Attributed
  <2>7. \A m \in Known' : sent'[m].channel # None => sent'[m].post = None
    BY <1>0, <2>2, <2>4 DEF Attributed, IsChannel, IsPost
  <2>8. \A k \in 1..Len(queue') : Sure(sent', slot', unsure', queue'[k])
    BY <1>k, <2>1, <2>5 DEF Attributed
  <2>9. \A m \in 1..Len(rows) : sent'[rows[m].msg].channel # None /\ rows[m].msg \notin unsure'
                                  => rows[m].key = sent'[rows[m].msg].channel
    BY <2>1, AttributedRows
  <2>10. Busy => sent'[worker.msg] = sent[worker.msg]
                 /\ (Sure(sent, slot, unsure, worker.msg) => Sure(sent', slot', unsure', worker.msg))
    BY <1>0, <1>k, <2>5
  <2> QED BY <2>1, <2>6, <2>7, <2>8, <2>9, <2>10 DEF Attributed, Busy, IsChannel, IsPost
<1>2. CASE SlotChanges
  <2> DEFINE waiting == Range(inbox) \cup Range(queue)
                          \cup (IF worker.pc = "resolving" THEN {worker.msg} ELSE {})
  <2>1. /\ unsure' = unsure \cup {m \in waiting : IsChannel(m)}
        /\ UNCHANGED <<sent, inbox, queue, worker, rows>>
    BY <1>2 DEF SlotChanges
  <2>2. /\ \A l \in 1..Len(inbox) : inbox[l] \in waiting
        /\ \A k \in 1..Len(queue) : queue[k] \in waiting
        /\ worker.pc = "resolving" => worker.msg \in waiting
    BY <1>t DEF Range
  <2> HIDE DEF waiting
  <2>3. \A m \in waiting : Sure(sent', slot', unsure', m)
    BY <2>1 DEF Sure, IsChannel
  <2>4. \A m \in 1..Len(rows) : sent'[rows[m].msg].channel # None /\ rows[m].msg \notin unsure'
                                  => rows[m].key = sent'[rows[m].msg].channel
    BY <2>1, AttributedRows
  <2> QED BY <2>1, <2>2, <2>3, <2>4 DEF Attributed, IsChannel, IsPost, Known
<1>3. CASE Pull
  <2>1. /\ inbox # <<>> /\ inbox' = Tail(inbox) /\ queue' = Append(queue, Head(inbox))
        /\ UNCHANGED <<sent, slot, unsure, worker, rows>>
    BY <1>3 DEF Pull
  <2>2. /\ Head(inbox) = inbox[1] /\ 1 \in 1..Len(inbox)
        /\ \A k \in 1..Len(inbox') : inbox'[k] = inbox[k + 1] /\ k + 1 \in 1..Len(inbox)
    BY <1>t, <2>1, RestLemma
  <2>3. /\ queue'[Len(queue) + 1] = inbox[1]
        /\ \A k \in 1..Len(queue) : queue'[k] = queue[k]
        /\ \A k \in 1..Len(queue') : k \in 1..Len(queue) \/ k = Len(queue) + 1
    BY <1>t, <2>1, <2>2
  <2> QED BY <2>1, <2>2, <2>3, SMTT(60) DEF Attributed, Sure, IsChannel, IsPost, Known
<1>4. CASE Take
  <2>1. /\ queue # <<>> /\ queue' = Tail(queue) /\ UNCHANGED <<sent, slot, unsure, inbox, rows>>
    BY <1>4 DEF Take
  <2>2. /\ Head(queue) = queue[1] /\ 1 \in 1..Len(queue)
        /\ \A k \in 1..Len(queue') : queue'[k] = queue[k + 1] /\ k + 1 \in 1..Len(queue)
    BY <1>t, <2>1, RestLemma
  <2>3. CASE worker' = Idle
    BY <2>1, <2>2, <2>3, NamesLemma DEF Attributed, Sure, IsChannel, IsPost, Known
  <2>4. CASE worker' = [pc |-> IF IsChannel(queue[1]) THEN "resolving" ELSE "notifying",
                        msg |-> queue[1], key |-> IF IsPost(queue[1]) THEN Room ELSE Friend]
    BY <2>1, <2>2, <2>4 DEF Attributed, Sure, IsChannel, IsPost, Known
  <2> QED BY <1>4, <2>2, <2>3, <2>4 DEF Take
<1>5. CASE Resolve
  <2>1. /\ worker.pc = "resolving" /\ UNCHANGED <<sent, slot, unsure, inbox, queue, rows>>
        /\ worker' = [pc |-> "notifying", msg |-> worker.msg,
                      key |-> IF slot = None THEN Fallback ELSE slot]
    BY <1>5, <1>t DEF Resolve, Resolved, Doing
  <2>2. slot \in Channels \cup {None}
    BY DEF Types, Path
  <2> QED BY <2>1, <2>2 DEF Attributed, Sure, IsChannel, IsPost, Known
<1>6. CASE ReadFails
  <2>1. /\ worker.pc = "resolving" /\ UNCHANGED <<sent, slot, inbox, queue, rows>>
        /\ unsure' = unsure \cup {worker.msg}
        /\ worker' = [pc |-> "notifying", msg |-> worker.msg,
                      key |-> IF channelIds = None THEN Fallback ELSE channelIds]
    BY <1>6, <1>t DEF ReadFails, Resolved, Doing
  <2>2. channelIds \in Channels \cup {None}
    BY DEF Types, Path
  <2> QED BY <2>1, <2>2 DEF Attributed, Sure, IsChannel, IsPost, Known
<1>7. ASSUME NEW notify \in BOOLEAN, NEW saves \in SaveOutcomes, StoreInbound(notify, saves)
      PROVE  Attributed'
  <2>1. /\ worker.pc = "notifying" /\ worker' = Idle
        /\ UNCHANGED <<sent, slot, unsure, inbox, queue>>
    BY <1>7 DEF StoreInbound, File
  <2>2. CASE rows' = rows
    BY <2>1, <2>2, NamesLemma DEF Attributed, Sure, IsChannel, IsPost, Known
  <2>3. CASE rows' = Append(rows, [msg |-> worker.msg, key |-> worker.key])
    <3>1. /\ rows'[Len(rows) + 1] = [msg |-> worker.msg, key |-> worker.key]
          /\ \A n \in 1..Len(rows) : rows'[n] = rows[n]
          /\ \A n \in 1..Len(rows') : n \in 1..Len(rows) \/ n = Len(rows) + 1
      BY <1>t, <2>3
    <3> QED BY <2>1, <3>1, NamesLemma DEF Attributed, Sure, IsChannel, IsPost, Known
  <2> QED BY <1>7, <2>2, <2>3 DEF StoreInbound, File
<1>8. CASE Start
  <2>1. Len(queue') = 0 /\ worker' = Idle /\ UNCHANGED <<sent, slot, unsure, inbox, rows>>
    BY <1>8 DEF Start
  <2> QED BY <2>1, NamesLemma DEF Attributed, Sure, IsChannel, IsPost, Known
<1>9. CASE Stop
  <2>1. Len(queue') = 0 /\ worker' = Off /\ UNCHANGED <<sent, slot, unsure, rows>>
    BY <1>9 DEF Stop
  <2>2. PICK pulled \in 0..Len(inbox) : inbox' = SubSeq(inbox, pulled + 1, Len(inbox))
    BY <1>9 DEF Stop
  <2>3. /\ Len(inbox') = Len(inbox) - pulled
        /\ \A k \in 1..(Len(inbox) - pulled) : inbox'[k] = inbox[k + pulled]
    BY <1>t, <2>2, RestLemma
  <2>4. \A k \in 1..Len(inbox') : inbox'[k] = inbox[k + pulled] /\ k + pulled \in 1..Len(inbox)
    BY <1>t, <2>3
  <2>5. \A k \in 1..Len(inbox') : Sure(sent, slot, unsure, inbox'[k])
    BY <2>4 DEF Attributed
  <2>6. worker'.pc = "off"
    BY <2>1, NamesLemma
  <2>7. \A k \in 1..Len(queue') : FALSE
    BY <2>1
  <2> QED BY <2>1, <2>5, <2>6, <2>7 DEF Attributed, Sure, IsChannel, IsPost, Known
<1>10. CASE UNCHANGED <<sent, slot, unsure, inbox, queue, worker, rows>>
  BY <1>10 DEF Attributed, Sure, IsChannel, IsPost, Known
<1> QED BY <1>1, <1>2, <1>3, <1>4, <1>5, <1>6, <1>7, <1>8, <1>9, <1>10
       DEF Next, vars, WorkerStep, OpenChat, ClearUnread, ScreenUp, CloseChat, RefreshChannels

LEMMA AttributedInvariant == Spec => []Attributed
<1>1. Init => Attributed
  BY NamesLemma DEF Init, Attributed, Known
<1> QED BY <1>1, AttributedNext, OrderInvariant, PTL DEF Spec

\* A message whose slot was read is filed under the channel on which it came.
THEOREM FiledRight == Spec => []FiledUnderItsChannel
<1>1. Types /\ Attributed => FiledUnderItsChannel
  BY RowsLemma DEF Types, Attributed, FiledUnderItsChannel
<1> QED BY <1>1, OrderInvariant, AttributedInvariant, PTL

-----------------------------------------------------------------------------
(* The notices. A message of the conversation on the screen, while it is   *)
(* on its way to the history, was shown when it was pulled, or it is one   *)
(* of those that came while the screen was put together.                   *)

Shown(m) == Belongs(m, view.key) => m \in read \/ <<m, view.key>> \in missed

Noticed ==
  /\ view.pc = "up" => /\ unread[view.key] = {}
                       /\ \A k \in 1..Len(queue) : Shown(queue[k])
                       /\ Busy => Shown(worker.msg)
  /\ \A n \in 1..Len(rows) :
       rows[n].msg \in read \cup unread[rows[n].key] \/ <<rows[n].msg, rows[n].key>> \in missed

\* A step that shows more, and leaves the places, the badges and the screen alone.
LEMMA NoticedUnchanged ==
  ASSUME Types, InOrder, Noticed, [Next]_vars, UNCHANGED <<unread, rows, view, queue, missed>>,
         read \subseteq read', Busy' => Busy /\ worker'.msg = worker.msg
  PROVE  Noticed'
<1>1. \A m \in Known : Belongs(m, view.key)' <=> Belongs(m, view.key)
  BY SentLemma DEF Belongs
<1>2. \A m \in Known : Shown(m) => Shown(m)'
  BY <1>1 DEF Shown
<1>3. (\A k \in 1..Len(queue) : queue[k] \in Known) /\ (Busy => worker.msg \in Known)
  BY KnownLemma
<1> QED BY <1>2, <1>3 DEF Noticed, Shown, Belongs, IsChannel, IsPost

\* A message that the worker is about to count belongs to the conversation that it is
\* filed under.
LEMMA FiledBelongs ==
  ASSUME Types, Attributed, worker.pc = "notifying", worker.key \in Opened
  PROVE  Belongs(worker.msg, worker.key)
<1>1. CASE IsChannel(worker.msg)
  BY <1>1 DEF Attributed, Belongs, Fallback, Friend, Room
<1>2. CASE ~IsChannel(worker.msg)
  BY <1>2 DEF Attributed, Belongs, Friend, Room
<1> QED BY <1>1, <1>2

LEMMA NoticedNext ==
  Types /\ Types' /\ InOrder /\ Attributed /\ Noticed /\ [Next]_vars => Noticed'
<1> SUFFICES ASSUME Types, Types', InOrder, Attributed, Noticed, [Next]_vars
             PROVE  Noticed'
  OBVIOUS
<1> USE DEF table, link, history
<1>t. /\ inbox \in Seq(Numbers) /\ queue \in Seq(Numbers) /\ worker \in Doing /\ rows \in Seq(Row)
      /\ unread \in [Keys -> SUBSET Numbers] /\ view \in Screen
      /\ view.pc # "closed" => view.key \in Opened /\ view.key \in Keys
      /\ active = IF view.pc = "up" THEN view.key ELSE None
  BY NamesLemma DEF Types, Path, Sight
<1>r. \A n \in 1..Len(rows) : rows[n].key \in Keys
  BY RowsLemma DEF Types
<1>1. CASE Pull
  <2>1. /\ inbox # <<>> /\ queue' = Append(queue, Head(inbox))
        /\ UNCHANGED <<sent, worker, rows, unread, view, missed>>
        /\ read \subseteq read'
        /\ view.pc = "up" /\ Belongs(Head(inbox), view.key) => Head(inbox) \in read'
    BY <1>1 DEF Pull
  <2>2. Head(inbox) \in Numbers
    BY <1>t, <2>1
  <2>3. /\ queue'[Len(queue) + 1] = Head(inbox)
        /\ \A k \in 1..Len(queue) : queue'[k] = queue[k]
        /\ \A k \in 1..Len(queue') : k \in 1..Len(queue) \/ k = Len(queue) + 1
    BY <1>t, <2>1, <2>2
  <2> QED BY <2>1, <2>3 DEF Noticed, Shown, Belongs, IsChannel, IsPost, Busy
<1>2. CASE Take
  <2>1. queue # <<>> /\ queue' = Tail(queue) /\ UNCHANGED <<sent, rows, unread, view, read, missed>>
    BY <1>2 DEF Take
  <2>2. /\ Head(queue) = queue[1] /\ 1 \in 1..Len(queue)
        /\ \A k \in 1..Len(queue') : queue'[k] = queue[k + 1] /\ k + 1 \in 1..Len(queue)
    BY <1>t, <2>1, RestLemma
  <2>3. ~Busy' \/ worker'.msg = queue[1]
    BY <1>2, <2>2, NamesLemma DEF Take, Busy
  <2> QED BY <2>1, <2>2, <2>3 DEF Noticed, Shown, Belongs, IsChannel, IsPost
<1>3. CASE Resolve \/ ReadFails
  <2>1. worker'.msg = worker.msg /\ Busy
    BY <1>3, <1>t DEF Resolve, ReadFails, Resolved, Doing, Busy
  <2> QED BY <1>3, <2>1, NoticedUnchanged DEF Resolve, ReadFails
<1>4. ASSUME NEW notify \in BOOLEAN, NEW saves \in SaveOutcomes, StoreInbound(notify, saves)
      PROVE  Noticed'
  <2>1. /\ worker.pc = "notifying" /\ Busy /\ worker.key \in Keys /\ worker' = Idle /\ ~Busy'
        /\ worker.key = Fallback => ~notify
        /\ UNCHANGED <<sent, queue, view, missed>>
        /\ read' = IF notify THEN read ELSE read \cup {worker.msg}
    BY <1>4, NamesLemma DEF StoreInbound, File, Busy, Types, Path
  <2>2. /\ \A key \in Keys : unread[key] \subseteq unread'[key]
        /\ view.pc = "up" => unread'[view.key] = unread[view.key]
    BY <1>4, <1>t, <2>1 DEF StoreInbound
  <2>3. \/ worker.msg \in read' \cup unread'[worker.key]
        \/ <<worker.msg, worker.key>> \in missed
    <3>1. CASE ~notify
      BY <2>1, <3>1
    <3>2. CASE notify /\ worker.key # active
      BY <1>4, <1>t, <2>1, <3>2 DEF StoreInbound
    <3>3. CASE notify /\ worker.key = active
      <4>1. view.pc = "up" /\ worker.key = view.key /\ worker.key \in Opened
        BY <1>t, <2>1, <3>3, NamesLemma
      <4>2. Belongs(worker.msg, view.key)
        BY <2>1, <4>1, FiledBelongs
      <4> QED BY <2>1, <3>3, <4>1, <4>2 DEF Noticed, Shown
    <3> QED BY <3>1, <3>2, <3>3
  <2>4. \A n \in 1..Len(rows) :
          rows[n].msg \in read' \cup unread'[rows[n].key] \/ <<rows[n].msg, rows[n].key>> \in missed'
    BY <1>r, <2>1, <2>2 DEF Noticed
  <2>5. \A n \in 1..Len(rows') :
          rows'[n].msg \in read' \cup unread'[rows'[n].key] \/ <<rows'[n].msg, rows'[n].key>> \in missed'
    <3>1. CASE rows' = rows
      BY <2>4, <3>1
    <3>2. CASE rows' = Append(rows, [msg |-> worker.msg, key |-> worker.key])
      <4>1. /\ rows'[Len(rows) + 1] = [msg |-> worker.msg, key |-> worker.key]
            /\ \A n \in 1..Len(rows) : rows'[n] = rows[n]
            /\ \A n \in 1..Len(rows') : n \in 1..Len(rows) \/ n = Len(rows) + 1
        BY <1>t, <3>2
      <4> QED BY <2>1, <2>3, <2>4, <4>1
    <3> QED BY <1>4, <3>1, <3>2 DEF StoreInbound, File
  <2> QED BY <2>1, <2>2, <2>5 DEF Noticed, Shown, Belongs, IsChannel, IsPost
<1>5. CASE ScreenUp
  <2>1. /\ view.pc = "gathering" /\ view'.pc = "up" /\ view'.key = view.key
        /\ unread' = [unread EXCEPT ![view.key] = {}]
        /\ read' = read \cup view.shown
        /\ missed' = missed \cup ((InTransit \cup Transcript(view.key)) \ view.shown) \X {view.key}
        /\ UNCHANGED <<sent, queue, worker, rows>>
    BY <1>5, <1>t DEF ScreenUp, Screen
  <2>2. \A k \in 1..Len(queue) : queue[k] \in InTransit
    BY <1>t DEF InTransit, Range
  <2>3. Busy => worker.msg \in InTransit
    BY DEF InTransit, Types, Path
  <2>4. \A m \in InTransit \cup Transcript(view.key) : m \in read' \/ <<m, view.key>> \in missed'
    BY <2>1
  <2>5. ASSUME NEW n \in 1..Len(rows)
        PROVE  \/ rows[n].msg \in read' \cup unread'[rows[n].key]
               \/ <<rows[n].msg, rows[n].key>> \in missed'
    <3>1. CASE rows[n].key = view.key
      <4>1. rows[n].msg \in Transcript(view.key)
        BY <1>t, <3>1 DEF Transcript
      <4> QED BY <2>4, <3>1, <4>1
    <3>2. CASE rows[n].key # view.key
      <4>1. unread'[rows[n].key] = unread[rows[n].key]
        BY <1>t, <1>r, <2>1, <3>2
      <4> QED BY <2>1, <4>1 DEF Noticed
    <3> QED BY <3>1, <3>2
  <2>6. unread'[view.key] = {}
    BY <1>t, <2>1
  <2>7. (\A k \in 1..Len(queue') : Shown(queue[k])') /\ (Busy' => Shown(worker.msg)')
    BY <2>1, <2>2, <2>3, <2>4 DEF Shown, Busy
  <2> QED BY <2>1, <2>5, <2>6, <2>7 DEF Noticed
<1>6. CASE CloseChat \/ \E key \in Opened : OpenChat(key)
  <2>1. view'.pc # "up" /\ UNCHANGED <<unread, rows, read, missed>>
    BY <1>6, NamesLemma DEF CloseChat, OpenChat
  <2> QED BY <2>1 DEF Noticed
<1>7. ASSUME NEW key \in Opened, ClearUnread(key)
      PROVE  Noticed'
  <2>1. /\ view'.pc # "up" /\ UNCHANGED <<rows, missed>>
        /\ unread' = [unread EXCEPT ![key] = {}]
        /\ read' = read \cup unread[key]
    BY <1>7 DEF ClearUnread
  <2>2. \A k \in Keys : unread[k] \subseteq read' \cup unread'[k]
    BY <1>t, <2>1
  <2> QED BY <1>r, <2>1, <2>2 DEF Noticed
<1>8. CASE Start \/ Stop
  <2>1. queue' = <<>> /\ ~Busy' /\ UNCHANGED <<unread, rows, view, read, missed>>
    BY <1>8, NamesLemma DEF Start, Stop, Busy
  <2> QED BY <2>1 DEF Noticed
<1>9. CASE UNCHANGED <<unread, rows, view, queue, missed, read, worker>>
  BY <1>9, NoticedUnchanged DEF Busy
<1> QED BY <1>1, <1>2, <1>3, <1>4, <1>5, <1>6, <1>7, <1>8, <1>9
       DEF Next, vars, WorkerStep, MeshBrings, SlotChanges, RefreshChannels

\* The conversation on the screen has no badge, and what is in the history was shown, is
\* counted, or came while its screen was put together.
THEOREM NoticesKept == Spec => []NoticesAreRight
<1>1. Init => Noticed
  BY NamesLemma DEF Init, Noticed, Closed
<1>2. Types /\ Noticed => NoticesAreRight
  <2> SUFFICES ASSUME Types, Noticed PROVE NoticesAreRight
    OBVIOUS
  <2>1. ActiveHasNoBadge
    BY DEF Types, Sight, Noticed, ActiveHasNoBadge
  <2>2. ShownOrCounted
    BY RowsLemma DEF Types, Noticed, ShownOrCounted
  <2> QED BY <2>1, <2>2 DEF NoticesAreRight
<1> QED BY <1>1, <1>2, NoticedNext, OrderInvariant, AttributedInvariant, PTL DEF Spec

=============================================================================
