------------------------- MODULE CourierStoreProofs -------------------------
(***************************************************************************)
(* Theorems about the outbox file, for every number of entries, every cap  *)
(* of the history and every sequence of calls, failed writes and restarts. *)
(***************************************************************************)
EXTENDS CourierStore, SequenceTheorems, FiniteSetTheorems, TLAPS

USE StoreAssumption

-----------------------------------------------------------------------------
(* Sequences of distinct idents.                                           *)

Distinct(s) == \A j, k \in 1..Len(s) : j # k => s[j] # s[k]

\* Taking an element out of a sequence without repetitions leaves the other elements, each
\* one time (the history when an entry is deleted, or settled a second time).
LEMMA WithoutLemma ==
  ASSUME NEW s \in Seq(Idents), NEW i \in Idents
  PROVE  /\ Without(s, i) \in Seq(Idents)
         /\ Distinct(s) => Distinct(Without(s, i))
         /\ Distinct(s) => Elements(Without(s, i)) = Elements(s) \ {i}
         /\ Len(Without(s, i)) <= Len(s)
<1>1. CASE i \notin Elements(s)
  <2>1. Without(s, i) = s
    BY <1>1 DEF Without
  <2> QED BY <1>1, <2>1
<1>2. CASE i \in Elements(s)
  <2> DEFINE p == CHOOSE k \in 1..Len(s) : s[k] = i
             l == SubSeq(s, 1, p - 1)
             r == SubSeq(s, p + 1, Len(s))
             w == l \o r
  <2>1. p \in 1..Len(s) /\ s[p] = i
    BY <1>2 DEF Elements
  <2>2. Without(s, i) = w
    BY <1>2 DEF Without
  <2> HIDE DEF p
  <2>3. l \in Seq(Idents) /\ Len(l) = p - 1 /\ \A k \in 1..(p - 1) : l[k] = s[k]
    BY <2>1
  <2>4. /\ r \in Seq(Idents) /\ Len(r) = Len(s) - p
        /\ \A k \in 1..(Len(s) - p) : r[k] = s[k + p]
    BY <2>1
  <2> HIDE DEF l, r
  <2>5. /\ w \in Seq(Idents) /\ Len(w) = Len(s) - 1
        /\ \A k \in 1..(p - 1) : w[k] = s[k]
        /\ \A k \in p..(Len(s) - 1) : w[k] = s[k + 1]
    <3>1. /\ w \in Seq(Idents) /\ Len(w) = Len(l) + Len(r)
          /\ \A k \in 1..(Len(l) + Len(r)) : w[k] = IF k <= Len(l) THEN l[k] ELSE r[k - Len(l)]
      BY <2>3, <2>4, ConcatProperties
    <3> HIDE DEF w
    <3>n. Len(s) \in Nat /\ p \in Int /\ Len(w) = Len(s) - 1
      BY <2>1, <2>3, <2>4, <3>1
    <3>i. \A k \in 1..(Len(s) - 1) : w[k] = IF k <= p - 1 THEN l[k] ELSE r[k - (p - 1)]
      BY <2>3, <2>4, <3>1, <3>n
    <3>2. ASSUME NEW k \in 1..(p - 1) PROVE w[k] = s[k]
      BY <2>1, <2>3, <2>4, <3>1
    <3>3. ASSUME NEW k \in p..(Len(s) - 1) PROVE w[k] = s[k + 1]
      <4>1. w[k] = r[k - (p - 1)]
        BY <2>1, <3>i, <3>n
      <4>2. PICK m \in 1..(Len(s) - p) : m = k - (p - 1) /\ m + p = k + 1
        BY <2>1, <3>n
      <4> QED BY <2>4, <4>1, <4>2
    <3> QED BY <3>1, <3>n, <3>2, <3>3
  <2> HIDE DEF w
  <2>6. Distinct(s) => Distinct(w)
    <3> SUFFICES ASSUME Distinct(s), NEW j \in 1..Len(w), NEW k \in 1..Len(w), j # k
                 PROVE  w[j] # w[k]
      BY DEF Distinct
    <3> DEFINE old(m) == IF m < p THEN m ELSE m + 1
    <3>1. Len(s) \in Nat /\ p \in Int /\ Len(w) = Len(s) - 1
      BY <2>1, <2>5
    <3>2. ASSUME NEW m \in 1..Len(w) PROVE old(m) \in 1..Len(s) /\ w[m] = s[old(m)]
      <4>1. CASE m < p
        BY <2>1, <2>5, <3>1, <4>1
      <4>2. CASE m >= p
        BY <2>1, <2>5, <3>1, <4>2
      <4> QED BY <3>1, <4>1, <4>2
    <3>3. old(j) # old(k)
      BY <3>1
    <3> HIDE DEF old
    <3> QED BY <3>2, <3>3 DEF Distinct
  <2>7. Distinct(s) => Elements(w) = Elements(s) \ {i}
    <3> SUFFICES ASSUME Distinct(s) PROVE Elements(w) = Elements(s) \ {i}
      OBVIOUS
    <3>1. ASSUME NEW x \in Elements(w) PROVE x \in Elements(s) \ {i}
      BY <2>1, <2>5, <3>1 DEF Elements, Distinct
    <3>2. ASSUME NEW x \in Elements(s), x # i PROVE x \in Elements(w)
      <4>1. PICK k \in 1..Len(s) : s[k] = x
        BY DEF Elements
      <4>2. k # p
        BY <2>1, <3>2, <4>1
      <4>3. CASE k < p
        BY <2>1, <2>5, <4>1, <4>3 DEF Elements
      <4>4. CASE k > p
        <5>1. k - 1 \in 1..Len(w) /\ w[k - 1] = x
          BY <2>1, <2>5, <4>1, <4>4
        <5> QED BY <5>1 DEF Elements
      <4> QED BY <2>1, <4>2, <4>3, <4>4
    <3> QED BY <3>1, <3>2
  <2> QED BY <2>2, <2>5, <2>6, <2>7
<1> QED BY <1>1, <1>2

\* Appending an element that is not there yet.
LEMMA AppendLemma ==
  ASSUME NEW s \in Seq(Idents), NEW i \in Idents
  PROVE  /\ Append(s, i) \in Seq(Idents)
         /\ Distinct(s) /\ i \notin Elements(s) => Distinct(Append(s, i))
         /\ Elements(Append(s, i)) = Elements(s) \cup {i}
         /\ Len(Append(s, i)) = Len(s) + 1
<1>1. Append(s, i) \in Seq(Idents) /\ Len(Append(s, i)) = Len(s) + 1
  OBVIOUS
<1>2. \A k \in 1..Len(s) : Append(s, i)[k] = s[k]
  OBVIOUS
<1>3. Append(s, i)[Len(s) + 1] = i
  OBVIOUS
<1>4. Elements(Append(s, i)) = Elements(s) \cup {i}
  BY <1>1, <1>2, <1>3 DEF Elements
<1>5. Distinct(s) /\ i \notin Elements(s) => Distinct(Append(s, i))
  BY <1>1, <1>2, <1>3 DEF Elements, Distinct
<1> QED BY <1>1, <1>4, <1>5

\* The cut keeps some of the elements, each one time, and no more than the cap.
LEMMA NewestLemma ==
  ASSUME NEW s \in Seq(Idents), NEW n \in Nat
  PROVE  /\ Newest(s, n) \in Seq(Idents)
         /\ Distinct(s) => Distinct(Newest(s, n))
         /\ Elements(Newest(s, n)) \subseteq Elements(s)
         /\ Len(Newest(s, n)) <= n
<1>1. CASE Len(s) <= n
  BY <1>1 DEF Newest
<1>2. CASE Len(s) > n
  <2> DEFINE w == Newest(s, n)
  <2>1. /\ w \in Seq(Idents) /\ Len(w) = n
        /\ \A k \in 1..n : w[k] = s[k + Len(s) - n]
    BY <1>2 DEF Newest
  <2> HIDE DEF w
  <2>2. Elements(w) \subseteq Elements(s)
    <3> SUFFICES ASSUME NEW k \in 1..Len(w) PROVE w[k] \in Elements(s)
      BY DEF Elements
    <3>1. k + Len(s) - n \in 1..Len(s) /\ w[k] = s[k + Len(s) - n]
      BY <1>2, <2>1
    <3> QED BY <3>1 DEF Elements
  <2>3. Distinct(s) => Distinct(w)
    <3> SUFFICES ASSUME Distinct(s), NEW j \in 1..Len(w), NEW k \in 1..Len(w), j # k
                 PROVE  w[j] # w[k]
      BY DEF Distinct
    <3>1. j + Len(s) - n \in 1..Len(s) /\ k + Len(s) - n \in 1..Len(s)
      BY <1>2, <2>1
    <3> QED BY <1>2, <2>1, <3>1 DEF Distinct
  <2> QED BY <2>1, <2>2, <2>3 DEF w
<1> QED BY <1>1, <1>2

-----------------------------------------------------------------------------
(* The inductive invariant: a box (the memory, or the file) is well formed *)
(* when it has its type, numbers its entries below its counter and lists   *)
(* in its history exactly the finished ones. The numbering is what keeps a *)
(* new entry from taking the place of a finished one.                      *)

Numbered(box) == \A i \in box.listed : i < box.nextId

\* The finished rows of a list are its finished entries, each one time.
HistoryOf(box) ==
  /\ Elements(box.history) = {i \in box.listed : box.entries[i].status # QUEUED}
  /\ \A j, k \in 1..Len(box.history) : j # k => box.history[j] # box.history[k]

WellFormed(box) == box \in BoxType /\ Numbered(box) /\ HistoryOf(box)

StoreInv == WellFormed(Memory) /\ WellFormed(disk) /\ gone \in SUBSET Idents

\* The same of an outbox that is given field by field.
Sound(e, l, n, h) ==
  /\ e \in [Idents -> Entry] /\ l \in SUBSET Idents
  /\ n \in 1..(MAX_IDENT + 1) /\ h \in Seq(Idents)
  /\ \A i \in l : i < n
  /\ Elements(h) = {i \in l : e[i].status # QUEUED}
  /\ Distinct(h)

\* The memory is well formed when its fields are.
LEMMA MemoryLemma ==
  /\ WellFormed(Memory) <=> Sound(entries, listed, nextId, history)
  /\ WellFormed(Memory)' <=> Sound(entries', listed', nextId', history')
BY DEF WellFormed, Memory, BoxType, Numbered, HistoryOf, Distinct, Elements, Sound

\* A write of the file, or its failure, keeps the invariant when the memory is well formed.
LEMMA SaveKeeps ==
  ASSUME StoreInv, NEW saves, Save(saves), WellFormed(Memory)'
  PROVE  StoreInv'
<1>1. WellFormed(disk)'
  <2>1. CASE saves
    BY <2>1 DEF Save, WellFormed, BoxType, Numbered, HistoryOf, Memory, Elements
  <2>2. CASE ~saves
    BY <2>2 DEF Save, StoreInv, WellFormed, BoxType, Numbered, HistoryOf, Elements
  <2> QED BY <2>1, <2>2
<1>2. gone' \in SUBSET Idents
  BY DEF Save, Departs, StoreInv, WellFormed, BoxType, Memory
<1> QED BY <1>1, <1>2 DEF StoreInv

\* A step that leaves the store alone.
LEMMA StoreUnchanged ==
  ASSUME StoreInv, UNCHANGED storeVars
  PROVE  StoreInv'
BY DEF StoreInv, storeVars, WellFormed, BoxType, Numbered, HistoryOf, Memory, Elements

-----------------------------------------------------------------------------
(* Each operation keeps the invariant, whether its write succeeds or not.  *)

\* queue(): the new entry is numbered above every listed one, so it replaces none of them.
LEMMA StoreQueueKeeps ==
  ASSUME StoreInv, NEW node \in Nodes, NEW text \in Texts, NEW delay \in Delays,
         NEW saves, StoreQueue(node, text, delay, saves)
  PROVE  StoreInv'
<1>1. NewEntry(node, text, delay) \in Entry /\ NewEntry(node, text, delay).status = QUEUED
  BY DEF NewEntry, Entry
<1>2. Sound(entries, listed, nextId, history)
  BY MemoryLemma DEF StoreInv
<1>3. Sound(entries', listed', nextId', history')
  BY <1>1, <1>2 DEF StoreQueue, Sound, Idents
<1> QED BY <1>3, MemoryLemma, SaveKeeps DEF StoreQueue

\* note_attempt(): the status of the entry stays.
LEMMA NoteAttemptKeeps ==
  ASSUME StoreInv, NEW i \in Idents, NEW saves, NoteAttempt(i, saves)
  PROVE  StoreInv'
<1>1. CASE i \notin listed
  BY <1>1, StoreUnchanged DEF NoteAttempt
<1>2. CASE i \in listed
  <2>1. Sound(entries, listed, nextId, history)
    BY MemoryLemma DEF StoreInv
  <2>2. entries' = [entries EXCEPT ![i].attempts = @ + 1, ![i].since = 0]
    BY <1>2 DEF NoteAttempt
  <2>3. entries \in [Idents -> Entry]
    BY <2>1 DEF Sound
  <2>4. \A j \in Idents : entries'[j] \in Entry /\ entries'[j].status = entries[j].status
    <3>1. entries[i] \in Entry /\ entries[i].attempts + 1 \in Nat
      BY <2>3 DEF Entry
    <3>2. entries'[i] = [entries[i] EXCEPT !.attempts = entries[i].attempts + 1, !.since = 0]
      BY <2>2, <2>3
    <3>3. entries'[i] \in Entry /\ entries'[i].status = entries[i].status
      <4> DEFINE n == entries[i].attempts + 1
      <4>1. n \in Nat /\ 0 \in 0..BACKOFF_CAP_S
        BY <3>1
      <4> HIDE DEF n
      <4>2. [entries[i] EXCEPT !.attempts = n, !.since = 0] \in Entry
        BY <3>1, <4>1 DEF Entry
      <4>3. [entries[i] EXCEPT !.attempts = n, !.since = 0].status = entries[i].status
        BY <3>1 DEF Entry
      <4> QED BY <3>2, <4>2, <4>3 DEF n
    <3>4. \A j \in Idents \ {i} : entries'[j] = entries[j]
      BY <2>2, <2>3
    <3> QED BY <2>3, <3>3, <3>4
  <2>5. Sound(entries', listed', nextId', history')
    BY <1>2, <2>1, <2>2, <2>4 DEF NoteAttempt, Sound
  <2> QED BY <1>2, <2>5, MemoryLemma, SaveKeeps DEF NoteAttempt
<1> QED BY <1>1, <1>2

\* _finish(): the settled entry moves to the end of the history, and what the cut takes
\* from the history leaves the list too.
LEMMA FinishKeeps ==
  ASSUME StoreInv, NEW i \in Idents, NEW status \in {DELIVERED, GAVE_UP}, NEW saves,
         Finish(i, status, saves)
  PROVE  StoreInv'
<1>1. CASE i \notin listed
  BY <1>1, StoreUnchanged DEF Finish
<1>2. CASE i \in listed
  <2> DEFINE rest == Without(history, i)
             done == Append(rest, i)
             kept == Newest(done, HISTORY_KEPT)
  <2>1. Sound(entries, listed, nextId, history)
    BY MemoryLemma DEF StoreInv
  <2>2. /\ entries' = [entries EXCEPT ![i].status = status]
        /\ listed' = (listed \ Elements(done)) \cup Elements(kept)
        /\ history' = kept /\ nextId' = nextId
        /\ Save(saves)
    BY <1>2 DEF Finish
  <2>3. /\ rest \in Seq(Idents) /\ Distinct(rest) /\ Elements(rest) = Elements(history) \ {i}
    BY <2>1, WithoutLemma DEF Sound
  <2> HIDE DEF rest
  <2>4. /\ done \in Seq(Idents) /\ Distinct(done) /\ Elements(done) = Elements(history) \cup {i}
    BY <2>3, AppendLemma
  <2> HIDE DEF done
  <2>5. /\ kept \in Seq(Idents) /\ Distinct(kept) /\ Elements(kept) \subseteq Elements(done)
    BY <2>4, NewestLemma
  <2> HIDE DEF kept
  <2>6. status # QUEUED
    BY DEF DELIVERED, GAVE_UP, QUEUED
  <2>7. entries' \in [Idents -> Entry]
    BY <2>1, <2>2 DEF Sound, Entry
  <2>8. Elements(done) \subseteq listed
    BY <1>2, <2>1, <2>4 DEF Sound
  <2>9. \A j \in Idents : entries'[j].status = IF j = i THEN status ELSE entries[j].status
    BY <2>1, <2>2 DEF Sound, Entry
  <2>10. Elements(history') = {j \in listed' : entries'[j].status # QUEUED}
    BY <2>1, <2>2, <2>4, <2>5, <2>6, <2>8, <2>9 DEF Sound
  <2>11. Sound(entries', listed', nextId', history')
    BY <2>1, <2>2, <2>5, <2>7, <2>8, <2>10 DEF Sound
  <2> QED BY <2>2, <2>11, MemoryLemma, SaveKeeps
<1> QED BY <1>1, <1>2

\* edit(): the status of the entry stays.
LEMMA EditBodyKeeps ==
  ASSUME StoreInv, NEW i \in Idents, NEW text \in Texts, NEW saves, EditBody(i, text, saves)
  PROVE  StoreInv'
<1>1. Sound(entries, listed, nextId, history)
  BY MemoryLemma DEF StoreInv
<1>2. Sound(entries', listed', nextId', history')
  BY <1>1 DEF EditBody, Sound, Entry
<1> QED BY <1>2, MemoryLemma, SaveKeeps DEF EditBody

\* cancel(): a waiting entry is not in the history.
LEMMA CancelKeeps ==
  ASSUME StoreInv, NEW i \in Idents, NEW saves, Cancel(i, saves)
  PROVE  StoreInv'
<1>1. Sound(entries, listed, nextId, history)
  BY MemoryLemma DEF StoreInv
<1>2. Sound(entries', listed', nextId', history')
  BY <1>1 DEF Cancel, Sound, Waiting
<1> QED BY <1>2, MemoryLemma, SaveKeeps DEF Cancel

\* delete(): the entry leaves the list and the history together.
LEMMA DeleteKeeps ==
  ASSUME StoreInv, NEW i \in Idents, NEW saves, Delete(i, saves)
  PROVE  StoreInv'
<1>1. Sound(entries, listed, nextId, history)
  BY MemoryLemma DEF StoreInv
<1>2. /\ Without(history, i) \in Seq(Idents) /\ Distinct(Without(history, i))
      /\ Elements(Without(history, i)) = Elements(history) \ {i}
  BY <1>1, WithoutLemma DEF Sound
<1>3. Sound(entries', listed', nextId', history')
  BY <1>1, <1>2 DEF Delete, Sound
<1> QED BY <1>3, MemoryLemma, SaveKeeps DEF Delete

\* clear_done(): the waiting entries remain, with no history.
LEMMA ClearDoneKeeps ==
  ASSUME StoreInv, NEW saves, ClearDone(saves)
  PROVE  StoreInv'
<1>1. Sound(entries, listed, nextId, history)
  BY MemoryLemma DEF StoreInv
<1>2. <<>> \in Seq(Idents) /\ Elements(<<>>) = {} /\ Distinct(<<>>)
  BY DEF Elements, Distinct
<1>3. Sound(entries', listed', nextId', history')
  BY <1>1, <1>2 DEF ClearDone, Sound, Waiting
<1> QED BY <1>3, MemoryLemma, SaveKeeps DEF ClearDone

\* _load(): the memory is the file again.
LEMMA LoadKeeps ==
  ASSUME StoreInv, Load
  PROVE  StoreInv'
<1>1. Sound(disk.entries, disk.listed, disk.nextId, disk.history)
  BY DEF StoreInv, WellFormed, BoxType, Numbered, HistoryOf, Sound, Distinct, Elements
<1>2. WellFormed(Memory)'
  BY <1>1, MemoryLemma DEF Load
<1>3. WellFormed(disk)'
  BY DEF Load, StoreInv, WellFormed, BoxType, Numbered, HistoryOf, Elements
<1>4. gone' \in SUBSET Idents
  BY DEF Load, Departs, StoreInv, WellFormed, BoxType, Memory
<1> QED BY <1>2, <1>3, <1>4 DEF StoreInv

\* The clock changes no status.
LEMMA OlderLemma ==
  ASSUME NEW box \in [Idents -> Entry]
  PROVE  /\ Older(box) \in [Idents -> Entry]
         /\ \A i \in Idents : Older(box)[i].status = box[i].status
<1> SUFFICES ASSUME NEW i \in Idents
             PROVE  Older(box)[i] \in Entry /\ Older(box)[i].status = box[i].status
  BY DEF Older
<1> DEFINE e == box[i]
           since == IF e.since < BACKOFF_CAP_S THEN e.since + 1 ELSE e.since
           delay == IF e.delay > 0 THEN e.delay - 1 ELSE e.delay
<1>1. e \in Entry
  OBVIOUS
<1>2. Older(box)[i] = [e EXCEPT !.since = since, !.delay = delay]
  BY DEF Older
<1>3. since \in 0..BACKOFF_CAP_S
  BY <1>1 DEF Entry
<1>4. delay \in Nat \cup {Unscheduled}
  BY <1>1 DEF Entry, Unscheduled
<1> HIDE DEF e, since, delay
<1>5. [e EXCEPT !.since = since, !.delay = delay] \in Entry
  BY <1>1, <1>3, <1>4 DEF Entry
<1>6. [e EXCEPT !.since = since, !.delay = delay].status = e.status
  BY <1>1 DEF Entry
<1> QED BY <1>2, <1>5, <1>6 DEF e

\* One tick of the clock.
LEMMA AgeKeeps ==
  ASSUME StoreInv, Age
  PROVE  StoreInv'
<1>1. Sound(entries, listed, nextId, history)
  BY MemoryLemma DEF StoreInv
<1>2. Sound(entries', listed', nextId', history')
  BY <1>1, OlderLemma DEF Age, Sound
<1>3. WellFormed(Memory)'
  BY <1>2, MemoryLemma
<1>4. disk \in BoxType /\ disk' = [disk EXCEPT !.entries = Older(disk.entries)]
  BY DEF Age, StoreInv, WellFormed
<1>5. WellFormed(disk)'
  <2>1. /\ disk'.listed = disk.listed /\ disk'.nextId = disk.nextId
        /\ disk'.history = disk.history /\ disk'.entries = Older(disk.entries)
        /\ DOMAIN disk' = DOMAIN disk
    BY <1>4 DEF BoxType
  <2>2. disk.entries \in [Idents -> Entry] /\ disk.listed \in SUBSET Idents
    BY <1>4 DEF BoxType
  <2>3. disk' \in BoxType
    BY <1>4, <2>2, OlderLemma DEF BoxType
  <2>4. Numbered(disk) /\ HistoryOf(disk)
    BY DEF StoreInv, WellFormed
  <2>5. \A i \in disk.listed : disk'.entries[i].status = disk.entries[i].status
    BY <2>1, <2>2, OlderLemma
  <2>6. Numbered(disk)'
    BY <2>1, <2>4 DEF Numbered
  <2>7. HistoryOf(disk)'
    BY <2>1, <2>4, <2>5 DEF HistoryOf
  <2> QED BY <2>3, <2>6, <2>7 DEF WellFormed
<1>6. gone' \in SUBSET Idents
  BY DEF Age, StoreInv
<1> QED BY <1>3, <1>5, <1>6 DEF StoreInv

-----------------------------------------------------------------------------
(* The theorems of the store.                                              *)

\* The outbox of the first start.
LEMMA StoreInitHolds == StoreInit => StoreInv
<1> SUFFICES ASSUME StoreInit PROVE StoreInv
  OBVIOUS
<1> DEFINE fresh == NewEntry(CHOOSE n \in Nodes : TRUE, CHOOSE x \in Texts : TRUE, Unscheduled)
<1>1. fresh \in Entry
  BY DEF NewEntry, Entry
<1> HIDE DEF fresh
<1>2. entries = [i \in Idents |-> fresh]
  BY DEF StoreInit, fresh
<1>3. Sound(entries, listed, nextId, history)
  BY <1>1, <1>2 DEF StoreInit, Sound, Elements, Distinct
<1> QED BY <1>3, MemoryLemma DEF StoreInit, StoreInv

\* Every step of the store keeps the invariant.
LEMMA StoreNextKeeps == StoreInv /\ [StoreNext]_storeVars => StoreInv'
<1> SUFFICES ASSUME StoreInv, [StoreNext]_storeVars PROVE StoreInv'
  OBVIOUS
<1>1. ASSUME NEW saves \in BOOLEAN, NEW node \in Nodes, NEW text \in Texts, NEW delay \in Delays,
             StoreQueue(node, text, delay, saves)
      PROVE  StoreInv'
  BY <1>1, StoreQueueKeeps
<1>2. ASSUME NEW saves \in BOOLEAN, NEW i \in Idents, NoteAttempt(i, saves)
      PROVE  StoreInv'
  BY <1>2, NoteAttemptKeeps
<1>3. ASSUME NEW saves \in BOOLEAN, NEW i \in Idents, NEW status \in {DELIVERED, GAVE_UP},
             Finish(i, status, saves)
      PROVE  StoreInv'
  BY <1>3, FinishKeeps
<1>4. ASSUME NEW saves \in BOOLEAN, NEW i \in Idents, NEW text \in Texts, EditBody(i, text, saves)
      PROVE  StoreInv'
  BY <1>4, EditBodyKeeps
<1>5. ASSUME NEW saves \in BOOLEAN, NEW i \in Idents, Cancel(i, saves)
      PROVE  StoreInv'
  BY <1>5, CancelKeeps
<1>6. ASSUME NEW saves \in BOOLEAN, NEW i \in Idents, Delete(i, saves)
      PROVE  StoreInv'
  BY <1>6, DeleteKeeps
<1>7. ASSUME NEW saves \in BOOLEAN, ClearDone(saves)
      PROVE  StoreInv'
  BY <1>7, ClearDoneKeeps
<1>8. CASE Load
  BY <1>8, LoadKeeps
<1>9. CASE Age
  BY <1>9, AgeKeeps
<1>10. CASE UNCHANGED storeVars
  BY <1>10, StoreUnchanged
<1> QED BY <1>1, <1>2, <1>3, <1>4, <1>5, <1>6, <1>7, <1>8, <1>9, <1>10 DEF StoreNext

\* What the invariant says of the properties that the runs check.
LEMMA StoreInvImplies == StoreInv => StoreTypeOK /\ IdentsAreMonotonic
BY DEF StoreInv, WellFormed, Numbered, Memory, StoreTypeOK, IdentsAreMonotonic

\* The memory and the file are well formed after any sequence of calls, failed writes and
\* restarts.
THEOREM StoreInvariant == StoreSpec => []StoreInv
BY StoreInitHolds, StoreNextKeeps, PTL DEF StoreSpec

\* The outbox keeps its type, in memory and on disk.
THEOREM StoreTypeCorrect == StoreSpec => []StoreTypeOK
BY StoreInvariant, StoreInvImplies, PTL

\* No ident in the list, or in the file, is one that the counter beside it would give out:
\* in this session, and in the next one after any failed writes (queue).
THEOREM StoreIdentsAreMonotonic == StoreSpec => []IdentsAreMonotonic
BY StoreInvariant, StoreInvImplies, PTL

\* The counter in memory is never behind that of the file.
AheadOfFile == disk.nextId <= nextId

LEMMA SaveStaysAhead ==
  ASSUME StoreInv, StoreInv', AheadOfFile, nextId <= nextId', NEW saves, Save(saves)
  PROVE  AheadOfFile' /\ disk.nextId <= disk'.nextId
BY DEF Save, Memory, AheadOfFile, StoreInv, WellFormed, BoxType

LEMMA AheadKeeps ==
  StoreInv /\ AheadOfFile /\ [StoreNext]_storeVars => AheadOfFile' /\ disk.nextId <= disk'.nextId
<1> SUFFICES ASSUME StoreInv, AheadOfFile, [StoreNext]_storeVars
             PROVE  AheadOfFile' /\ disk.nextId <= disk'.nextId
  OBVIOUS
<1>1. StoreInv'
  BY StoreNextKeeps
<1>2. nextId \in Nat /\ disk.nextId \in Nat /\ disk \in BoxType
  BY StoreAssumption DEF StoreInv, WellFormed, BoxType, Memory
<1>3. CASE UNCHANGED <<nextId, disk>>
  BY <1>2, <1>3 DEF AheadOfFile
<1>4. ASSUME NEW saves, Save(saves), nextId' = nextId \/ nextId' = nextId + 1
      PROVE  AheadOfFile' /\ disk.nextId <= disk'.nextId
  BY <1>1, <1>2, <1>4, SaveStaysAhead
<1>5. CASE Load
  BY <1>2, <1>5 DEF Load, AheadOfFile
<1>6. CASE Age
  BY <1>2, <1>6 DEF Age, AheadOfFile, BoxType
<1> QED BY <1>3, <1>4, <1>5, <1>6
        DEF StoreNext, StoreQueue, NoteAttempt, Finish, EditBody, Cancel, Delete, ClearDone, storeVars

\* An ident that the file has passed is never given to another message, for any number of
\* messages and any order of calls, failed writes and restarts (queue, _save, _load).
THEOREM StoreIdentsAreSingle == StoreSpec => IdentsAreSingle
<1> DEFINE Single == /\ disk.nextId <= disk'.nextId
                     /\ \A i \in listed' \ listed :
                          \/ i >= disk.nextId
                          \/ i \in disk.listed /\ entries'[i] = disk.entries[i]
<1>1. StoreInit => AheadOfFile
  BY DEF StoreInit, Memory, AheadOfFile
<1>2. ASSUME StoreInv, AheadOfFile, StoreNext PROVE Single
  <2>1. disk.nextId <= disk'.nextId
    BY <1>2, AheadKeeps
  <2>2. ASSUME listed' \subseteq listed PROVE Single
    BY <2>1, <2>2
  <2>3. ASSUME NEW node \in Nodes, NEW text \in Texts, NEW delay \in Delays, NEW saves,
               StoreQueue(node, text, delay, saves)
        PROVE  Single
    BY <1>2, <2>1, <2>3 DEF StoreQueue, AheadOfFile
  <2>4. ASSUME NEW i \in Idents, NEW status \in {DELIVERED, GAVE_UP}, NEW saves,
               Finish(i, status, saves)
        PROVE  Single
    <3>1. CASE i \notin listed
      BY <2>2, <2>4, <3>1 DEF Finish, storeVars
    <3>2. CASE i \in listed
      <4>1. Sound(entries, listed, nextId, history) /\ HISTORY_KEPT \in Nat
        BY <1>2, MemoryLemma, StoreAssumption DEF StoreInv
      <4> DEFINE done == Append(Without(history, i), i)
                 kept == Newest(done, HISTORY_KEPT)
      <4>2. listed' = (listed \ Elements(done)) \cup Elements(kept)
        BY <2>4, <3>2 DEF Finish
      <4>3. done \in Seq(Idents) /\ Elements(done) = Elements(history) \cup {i}
        BY <4>1, WithoutLemma, AppendLemma DEF Sound
      <4>4. Elements(kept) \subseteq Elements(done)
        BY <4>1, <4>3, NewestLemma
      <4> HIDE DEF done, kept
      <4>5. Elements(history) \subseteq listed
        BY <4>1 DEF Sound
      <4> QED BY <2>2, <3>2, <4>2, <4>3, <4>4, <4>5
    <3> QED BY <3>1, <3>2
  <2>5. CASE Load
    BY <2>1, <2>5 DEF Load
  <2>6. CASE ClearDone(TRUE) \/ ClearDone(FALSE)
    BY <2>2, <2>6 DEF ClearDone, Waiting
  <2> QED BY <1>2, <2>2, <2>3, <2>4, <2>5, <2>6
          DEF StoreNext, NoteAttempt, EditBody, Cancel, Delete, Age, storeVars
<1>3. StoreInv /\ AheadOfFile /\ [StoreNext]_storeVars => [Single]_storeVars
  BY <1>2
<1>4. StoreInv /\ AheadOfFile /\ [StoreNext]_storeVars => AheadOfFile'
  BY AheadKeeps
<1> QED BY <1>1, <1>3, <1>4, StoreInvariant, PTL DEF StoreSpec, IdentsAreSingle

-----------------------------------------------------------------------------
(* The cap of the history, and what its cut takes.                         *)

\* The elements of a sequence are no more than its length.
LEMMA ElementsLemma ==
  ASSUME NEW s \in Seq(Idents)
  PROVE  Cardinality(Elements(s)) <= Len(s)
<1>1. Len(s) \in Nat /\ s \in Surjection(1..Len(s), Elements(s))
  BY DEF Surjection, Elements
<1>2. ExistsSurjection(1..Len(s), Elements(s))
  BY <1>1 DEF ExistsSurjection
<1> QED BY <1>1, <1>2, FS_SurjCardinalityBound

\* The history is within its cap, in memory and in the file.
Capped == Len(history) <= HISTORY_KEPT /\ Len(disk.history) <= HISTORY_KEPT

\* A step that saves or does not save a history within the cap keeps both within it.
LEMMA SaveCaps ==
  ASSUME Capped, Len(history') <= HISTORY_KEPT, NEW saves, Save(saves)
  PROVE  Capped'
BY DEF Save, Memory, Capped

LEMMA CapKeeps == StoreInv /\ Capped /\ [StoreNext]_storeVars => Capped'
<1> SUFFICES ASSUME StoreInv, Capped, [StoreNext]_storeVars PROVE Capped'
  OBVIOUS
<1>1. Sound(entries, listed, nextId, history) /\ HISTORY_KEPT \in Nat
  BY MemoryLemma DEF StoreInv
<1>2. CASE UNCHANGED <<history, disk>>
  BY <1>2 DEF Capped
<1>3. ASSUME NEW saves, Save(saves), UNCHANGED history PROVE Capped'
  BY <1>3, SaveCaps DEF Capped
<1>4. ASSUME NEW i \in Idents, NEW status \in {DELIVERED, GAVE_UP}, NEW saves,
             Finish(i, status, saves)
      PROVE  Capped'
  <2>1. CASE i \notin listed
    BY <1>2, <1>4, <2>1 DEF Finish, storeVars
  <2>2. CASE i \in listed
    <3>1. Append(Without(history, i), i) \in Seq(Idents)
      BY <1>1, WithoutLemma, AppendLemma DEF Sound
    <3>2. Len(Newest(Append(Without(history, i), i), HISTORY_KEPT)) <= HISTORY_KEPT
      BY <1>1, <3>1, NewestLemma
    <3> QED BY <1>4, <2>2, <3>2, SaveCaps DEF Finish
  <2> QED BY <2>1, <2>2
<1>5. ASSUME NEW i \in Idents, NEW saves, Delete(i, saves) PROVE Capped'
  <2>1. /\ Len(Without(history, i)) <= Len(history) /\ Len(history) \in Nat
        /\ Len(Without(history, i)) \in Nat
    BY <1>1, WithoutLemma DEF Sound
  <2>2. Len(history') <= HISTORY_KEPT
    BY <1>1, <1>5, <2>1 DEF Delete, Capped
  <2> QED BY <1>5, <2>2, SaveCaps DEF Delete
<1>6. ASSUME NEW saves, ClearDone(saves) PROVE Capped'
  <2>1. Len(history') <= HISTORY_KEPT
    BY <1>1, <1>6 DEF ClearDone
  <2> QED BY <1>6, <2>1, SaveCaps DEF ClearDone
<1>7. CASE Load
  BY <1>7 DEF Load, Capped
<1>8. CASE Age
  <2>1. history' = history /\ disk'.history = disk.history
    BY <1>8 DEF Age, StoreInv, WellFormed, BoxType
  <2> QED BY <2>1 DEF Capped
<1>9. ASSUME NEW saves, NEW i \in Idents, NoteAttempt(i, saves) PROVE Capped'
  BY <1>2, <1>3, <1>9 DEF NoteAttempt, storeVars
<1> QED BY <1>2, <1>3, <1>4, <1>5, <1>6, <1>7, <1>8, <1>9
        DEF StoreNext, StoreQueue, EditBody, Cancel, storeVars

\* The finished history stays within its cap, for any cap: in memory, however often an entry
\* is settled, and in the file, however many of its writes failed (_finish).
THEOREM StoreHistoryCapped == StoreSpec => []HistoryCapped
<1>1. StoreInit => Capped
  BY DEF StoreInit, Memory, Capped
<1>2. StoreInv /\ Capped => HistoryCapped
  <2> SUFFICES ASSUME StoreInv, Capped PROVE HistoryCapped
    OBVIOUS
  <2>1. history \in Seq(Idents) /\ Elements(history) = Finished
    BY MemoryLemma DEF StoreInv, Sound, Finished, Waiting
  <2>2. Cardinality(Finished) <= Len(history) /\ Len(history) \in Nat
    BY <2>1, ElementsLemma
  <2>3. IsFiniteSet(Finished)
    <3>1. IsFiniteSet(Idents)
      BY FS_Interval DEF Idents
    <3> QED BY <3>1, <2>1, FS_Subset DEF Elements
  <2>4. Cardinality(Finished) \in Nat
    BY <2>3, FS_CardinalityType
  <2> QED BY <2>2, <2>4 DEF Capped, HistoryCapped
<1> QED BY <1>1, <1>2, CapKeeps, StoreInvariant, PTL DEF StoreSpec

\* No step takes a waiting message out of the outbox together with a verdict: the cut of the
\* history takes finished entries only, for any cap and any order of calls (_finish).
THEOREM StoreWaitingIsNeverCut == StoreSpec => WaitingIsNeverCut
<1> DEFINE Uncut == \/ Memory' = disk
                    \/ \A i \in Waiting \ listed' :
                         entries'[i].status = QUEUED =>
                           \A j \in Idents : entries'[j].status = entries[j].status
<1>1. ASSUME StoreInv, StoreNext PROVE Uncut
  <2>1. Sound(entries, listed, nextId, history)
    BY <1>1, MemoryLemma DEF StoreInv
  <2>2. ASSUME NEW i \in Idents, NEW status \in {DELIVERED, GAVE_UP}, NEW saves,
               Finish(i, status, saves)
        PROVE  Uncut
    <3>1. CASE i \notin listed
      BY <2>2, <3>1 DEF Finish, storeVars
    <3>2. CASE i \in listed
      <4>1. /\ entries' = [entries EXCEPT ![i].status = status]
            /\ listed \ listed' \subseteq Elements(Append(Without(history, i), i))
        BY <2>2, <3>2 DEF Finish
      <4>2. Elements(Append(Without(history, i), i)) = Elements(history) \cup {i}
        BY <2>1, WithoutLemma, AppendLemma DEF Sound
      <4>3. entries'[i].status # QUEUED
        BY <2>1, <4>1 DEF Sound, Entry, DELIVERED, GAVE_UP, QUEUED
      <4> QED BY <2>1, <4>1, <4>2, <4>3 DEF Sound, Waiting
    <3> QED BY <3>1, <3>2
  <2>3. CASE Load
    <3> DEFINE held == [entries |-> disk.entries, listed |-> disk.listed,
                        nextId |-> disk.nextId, history |-> disk.history]
    <3>1. Memory' = held
      BY <2>3 DEF Load, Memory
    <3>2. disk \in BoxType
      BY <1>1 DEF StoreInv, WellFormed
    <3>3. disk = held
      BY <3>2 DEF BoxType
    <3> QED BY <3>1, <3>3
  <2>4. ASSUME UNCHANGED entries PROVE Uncut
    BY <2>4
  <2>5. ASSUME listed \subseteq listed' PROVE Uncut
    BY <2>5 DEF Waiting
  <2>6. ASSUME NEW saves, NEW i \in Idents, NoteAttempt(i, saves) PROVE Uncut
    BY <2>5, <2>6 DEF NoteAttempt, storeVars
  <2>7. CASE Age
    BY <2>5, <2>7 DEF Age
  <2> QED BY <1>1, <2>2, <2>3, <2>4, <2>5, <2>6, <2>7
          DEF StoreNext, StoreQueue, EditBody, Cancel, Delete, ClearDone
<1>2. StoreInv /\ [StoreNext]_storeVars => [Uncut]_storeVars
  BY <1>1
<1> QED BY <1>2, StoreInvariant, PTL DEF StoreSpec, WaitingIsNeverCut

=============================================================================
