-------------------------- MODULE ChannelTableProofs --------------------------
(***************************************************************************)
(* Theorems about the channel slots and their copies, for every number of  *)
(* slots, every set of channels, every file and any number of foreign      *)
(* writes. First what the plans of the manager do to a layout, then the    *)
(* invariants of the steps.                                                *)
(***************************************************************************)
EXTENDS ChannelTable, FiniteSetTheorems, TLAPS

-----------------------------------------------------------------------------
(* Plans. The layout after the writes of a plan, and what plan leaves a    *)
(* channel in place.                                                       *)

After(layout, writes) ==
  [i \in Slots |-> IF i \in DOMAIN writes THEN writes[i] ELSE layout[i]]

\* The assumptions on the constants, in the form the proofs use.
LEMMA TableLemma ==
  /\ CAPACITY \in Nat /\ CAPACITY > 0 /\ MAX_FOREIGN \in Nat /\ MAX_FILE \in Nat
  /\ Empty \notin Channels /\ None \notin Channels
BY TableAssumption

\* A set of numbers keeps its places apart, and in a row.
LEMMA RankLemma ==
  ASSUME NEW S \in SUBSET Int, IsFiniteSet(S), NEW x \in S
  PROVE  /\ Rank(S, x) \in Nat /\ Rank(S, x) < Cardinality(S)
         /\ \A y \in S : Rank(S, x) = Rank(S, y) => x = y
<1> DEFINE below(z) == {w \in S : w < z}
<1>1. \A z \in S : IsFiniteSet(below(z)) /\ Cardinality(below(z)) \in Nat
  <2> SUFFICES ASSUME NEW z \in S PROVE IsFiniteSet(below(z)) /\ Cardinality(below(z)) \in Nat
    OBVIOUS
  <2>1. below(z) \in SUBSET S
    OBVIOUS
  <2> QED BY <2>1, FS_Subset, FS_CardinalityType
<1>2. ASSUME NEW y \in S, NEW z \in S, y < z PROVE Rank(S, y) < Rank(S, z)
  <2>1. below(y) \in SUBSET below(z) /\ below(y) # below(z)
    <3>1. y \in below(z) /\ y \notin below(y)
      BY <1>2
    <3>2. ASSUME NEW w \in S, w < y PROVE w < z
      <4>1. w \in Int /\ y \in Int /\ z \in Int
        OBVIOUS
      <4> QED BY <1>2, <3>2, <4>1
    <3> QED BY <3>1, <3>2
  <2> HIDE DEF below
  <2>2. Cardinality(below(y)) <= Cardinality(below(z))
        /\ Cardinality(below(y)) # Cardinality(below(z))
    BY <1>1, <2>1, FS_Subset
  <2>3. Rank(S, y) = Cardinality(below(y)) /\ Rank(S, z) = Cardinality(below(z))
    BY DEF Rank, below
  <2> QED BY <1>1, <2>2, <2>3
<1>3. Rank(S, x) < Cardinality(S)
  <2>1. below(x) \in SUBSET S /\ below(x) # S
    <3>1. x \notin below(x)
      OBVIOUS
    <3> QED BY <3>1
  <2> HIDE DEF below
  <2>2. Cardinality(below(x)) <= Cardinality(S) /\ Cardinality(below(x)) # Cardinality(S)
    BY <2>1, FS_Subset
  <2>3. Cardinality(S) \in Nat
    BY FS_CardinalityType
  <2> QED BY <1>1, <2>2, <2>3 DEF Rank, below
<1>4. \A z \in S : Rank(S, z) \in Nat
  BY <1>1 DEF Rank
<1>5. ASSUME NEW y \in S, Rank(S, x) = Rank(S, y) PROVE x = y
  <2>1. ~(x < y) /\ ~(y < x)
    BY <1>2, <1>4, <1>5
  <2> QED BY <2>1
<1> QED BY <1>3, <1>4, <1>5

\* The slots are finite, and so are the parts of a layout.
LEMMA SlotsLemma ==
  /\ Slots \in SUBSET Int /\ IsFiniteSet(Slots) /\ Cardinality(Slots) = CAPACITY
  /\ \A S \in SUBSET Slots : /\ S \in SUBSET Int /\ IsFiniteSet(S)
                             /\ Cardinality(S) \in Nat /\ Cardinality(S) <= CAPACITY
<1>1. Slots \in SUBSET Int /\ IsFiniteSet(Slots) /\ Cardinality(Slots) = CAPACITY
  BY TableLemma, FS_Interval DEF Slots
<1>2. ASSUME NEW S \in SUBSET Slots
      PROVE  S \in SUBSET Int /\ IsFiniteSet(S) /\ Cardinality(S) \in Nat /\ Cardinality(S) <= CAPACITY
  BY <1>1, FS_Subset, FS_CardinalityType
<1> QED BY <1>1, <1>2

\* The channels of a file are apart.
LEMMA FileLemma ==
  ASSUME NEW file \in Files
  PROVE  /\ DOMAIN file \in SUBSET Int /\ IsFiniteSet(DOMAIN file)
         /\ \A p \in DOMAIN file : file[p] \in Channels
         /\ \A p, q \in DOMAIN file : file[p] = file[q] => p = q
         /\ Range(file) = {file[p] : p \in DOMAIN file}
<1>1. PICK n \in 1..MAX_FILE : file \in [1..n -> Channels]
  BY DEF Files
<1>2. n \in Nat /\ DOMAIN file = 1..n
  BY <1>1, TableLemma
<1>3. IsFiniteSet(1..n)
  BY <1>2, FS_Interval
<1> QED BY <1>1, <1>2, <1>3 DEF Files, IsInjective, Range

\* An order of the slots of S reaches each of them.
LEMMA OrderLemma ==
  ASSUME NEW S, IsFiniteSet(S), NEW order \in Orders(S)
  PROVE  /\ order \in [S -> S]
         /\ \A i, j \in S : order[i] = order[j] => i = j
         /\ \A i \in S : \E j \in S : order[j] = i
<1>1. order \in [S -> S] /\ IsInjective(order)
  BY DEF Orders
<1>2. order \in Injection(S, S)
  BY <1>1 DEF Injection
<1>3. order \in Surjection(S, S)
  BY <1>2, FS_Injection
<1> QED BY <1>1, <1>3 DEF IsInjective, Surjection

\* A reorder moves the channels, and neither loses nor doubles one.
LEMMA ApplyOrderLemma ==
  ASSUME NEW layout \in Layouts, NEW order \in Orders(Occupied(layout))
  PROVE  LET after == After(layout, ApplyOrder(layout, order))
         IN  /\ On(layout) \subseteq On(after)
             /\ Twice(after) => Twice(layout)
<1> DEFINE S == Occupied(layout)
           after == After(layout, ApplyOrder(layout, order))
<1>1. S \in SUBSET Slots
  BY DEF Occupied
<1>2. /\ order \in [S -> S]
      /\ \A i, j \in S : order[i] = order[j] => i = j
      /\ \A i \in S : \E j \in S : order[j] = i
  BY <1>1, SlotsLemma, OrderLemma
<1>3. \A i \in S : after[i] = layout[order[i]]
  BY <1>1, <1>2 DEF After, ApplyOrder
<1>4. \A i \in Slots \ S : after[i] = Empty
  BY DEF After, ApplyOrder, Occupied
<1>5. \A i \in S : layout[i] # Empty
  BY DEF Occupied
<1> HIDE DEF S, after
<1>6. ASSUME NEW c \in On(layout) PROVE c \in On(after)
  <2>1. PICK i \in Slots : layout[i] = c /\ c # Empty
    BY DEF On
  <2>2. PICK j \in S : order[j] = i
    BY <1>2, <2>1 DEF S, Occupied
  <2> QED BY <1>1, <1>3, <2>1, <2>2 DEF On
<1>7. ASSUME Twice(after) PROVE Twice(layout)
  <2>1. PICK i \in Slots, j \in Slots : i # j /\ after[i] = after[j] /\ after[i] # Empty
    BY <1>7 DEF Twice
  <2>2. i \in S /\ j \in S
    BY <1>4, <2>1
  <2>3. order[i] \in Slots /\ order[j] \in Slots /\ order[i] # order[j]
    BY <1>1, <1>2, <2>1, <2>2
  <2> QED BY <1>3, <2>1, <2>2, <2>3 DEF Twice
<1> QED BY <1>6, <1>7 DEF after

\* The parts of an import: the positions of the file that get a slot, and the slots whose
\* channel only the device has.
News(file, layout) == {p \in DOMAIN file : file[p] \notin On(layout)}
Room(layout) == CAPACITY - Cardinality(Occupied(layout))
Placed(file, layout) ==
  {p \in DOMAIN file : p \in News(file, layout) => Rank(News(file, layout), p) < Room(layout)}
Rest(file, layout) == {i \in Occupied(layout) : layout[i] \notin Range(file)}
At(file, layout, i) ==
  {file[p] : p \in {q \in Placed(file, layout) : Rank(Placed(file, layout), q) = i}}
    \cup {layout[j] : j \in {r \in Rest(file, layout) :
                               Cardinality(Placed(file, layout)) + Rank(Rest(file, layout), r) = i}}
Wanted(file, layout) ==
  [i \in Slots |-> IF At(file, layout, i) = {} THEN Empty ELSE CHOOSE c \in At(file, layout, i) : TRUE]

\* The device after the writes of an import is the layout that the plan wants.
LEMMA WantedLemma ==
  ASSUME NEW layout \in Layouts, NEW file
  PROVE  /\ PlanImport(file, layout)
              = [i \in {j \in Slots : Wanted(file, layout)[j] # layout[j]} |-> Wanted(file, layout)[i]]
         /\ After(layout, PlanImport(file, layout)) = Wanted(file, layout)
<1>1. PlanImport(file, layout)
        = [i \in {j \in Slots : Wanted(file, layout)[j] # layout[j]} |-> Wanted(file, layout)[i]]
  BY DEF PlanImport, Wanted, At, Placed, News, Room, Rest
<1> DEFINE w == Wanted(file, layout)
<1>2. w = [i \in Slots |-> w[i]]
  BY DEF Wanted
<1> HIDE DEF w
<1>3. After(layout, [i \in {j \in Slots : w[j] # layout[j]} |-> w[i]]) = [i \in Slots |-> w[i]]
  BY DEF After
<1> QED BY <1>1, <1>2, <1>3 DEF w

\* There is room for all that the plan places.
LEMMA RoomLemma ==
  ASSUME NEW layout \in Layouts, NEW file \in Files
  PROVE  /\ Placed(file, layout) \in SUBSET Int /\ IsFiniteSet(Placed(file, layout))
         /\ Rest(file, layout) \in SUBSET Int /\ IsFiniteSet(Rest(file, layout))
         /\ Cardinality(Placed(file, layout)) \in Nat /\ Cardinality(Rest(file, layout)) \in Nat
         /\ Cardinality(Placed(file, layout)) + Cardinality(Rest(file, layout)) <= CAPACITY
<1> DEFINE occupied == Occupied(layout)
           new == News(file, layout)
           room == Room(layout)
           placed == Placed(file, layout)
           rest == Rest(file, layout)
           added == {p \in new : Rank(new, p) < room}
           old == DOMAIN file \ new
           taken == occupied \ rest
<1>1. /\ DOMAIN file \in SUBSET Int /\ IsFiniteSet(DOMAIN file)
      /\ \A p, q \in DOMAIN file : file[p] = file[q] => p = q
      /\ Range(file) = {file[p] : p \in DOMAIN file}
  BY FileLemma
<1>2. /\ new \in SUBSET DOMAIN file /\ placed \in SUBSET DOMAIN file
      /\ added \in SUBSET DOMAIN file /\ old \in SUBSET DOMAIN file
      /\ placed = old \cup added /\ old \cap added = {}
  BY DEF News, Placed
<1>3. occupied \in SUBSET Slots /\ rest \in SUBSET occupied /\ taken \in SUBSET Slots
  BY DEF Occupied, Rest
<1>4. /\ IsFiniteSet(new) /\ IsFiniteSet(placed) /\ IsFiniteSet(added) /\ IsFiniteSet(old)
      /\ Cardinality(added) \in Nat /\ Cardinality(old) \in Nat /\ Cardinality(placed) \in Nat
  BY <1>1, <1>2, FS_Subset, FS_CardinalityType
<1>5. /\ IsFiniteSet(rest) /\ IsFiniteSet(taken) /\ IsFiniteSet(occupied)
      /\ rest \in SUBSET Int /\ room \in Nat
      /\ Cardinality(occupied) \in Nat /\ room = CAPACITY - Cardinality(occupied)
      /\ Cardinality(rest) \in Nat /\ Cardinality(taken) \in Nat
  <2>1. rest \in SUBSET Slots
    BY <1>3
  <2>2. Cardinality(occupied) \in Nat /\ Cardinality(occupied) <= CAPACITY
    BY <1>3, SlotsLemma
  <2>3. room \in Nat /\ room = CAPACITY - Cardinality(occupied)
    BY <2>2, TableLemma DEF Room
  <2>4. rest \in SUBSET Int /\ IsFiniteSet(rest) /\ Cardinality(rest) \in Nat
    BY <2>1, SlotsLemma
  <2>5. IsFiniteSet(taken) /\ Cardinality(taken) \in Nat
    BY <1>3, SlotsLemma
  <2>6. IsFiniteSet(occupied)
    BY <1>3, SlotsLemma
  <2> QED BY <2>2, <2>3, <2>4, <2>5, <2>6
<1>6. Cardinality(taken) = Cardinality(occupied) - Cardinality(rest)
  <2>1. occupied \cap rest = rest
    BY <1>3
  <2>2. Cardinality(occupied \ rest) = Cardinality(occupied) - Cardinality(occupied \cap rest)
    <3>1. IsFiniteSet(occupied) /\ IsFiniteSet(rest)
      BY <1>5
    <3> HIDE DEF occupied, rest
    <3> QED BY <3>1, FS_Difference
  <2> HIDE DEF occupied, rest
  <2> QED BY <2>1, <2>2
<1>7. Cardinality(added) <= room
  <2> DEFINE place == [p \in added |-> Rank(new, p)]
  <2>1. new \in SUBSET Int
    BY <1>1, <1>2
  <2>2. \A p \in new : Rank(new, p) \in Nat /\ \A q \in new : Rank(new, p) = Rank(new, q) => p = q
    BY <1>4, <2>1, RankLemma
  <2>3. place \in [added -> 0..room-1]
    <3> SUFFICES ASSUME NEW p \in added PROVE Rank(new, p) \in 0..room-1
      OBVIOUS
    <3>1. Rank(new, p) \in Nat /\ Rank(new, p) < room
      BY <2>2
    <3> HIDE DEF room
    <3> QED BY <1>5, <3>1
  <2>4. IsInjective(place)
    BY <2>2 DEF IsInjective
  <2>5. place \in Injection(added, 0..room-1)
    BY <2>3, <2>4 DEF Injection
  <2> HIDE DEF place, room
  <2>6. IsFiniteSet(0..room-1) /\ Cardinality(0..room-1) = room
    <3>1. 0 \in Int /\ room - 1 \in Int
      BY <1>5
    <3> QED BY <1>5, <3>1, FS_Interval
  <2> HIDE DEF added
  <2> QED BY <2>5, <2>6, FS_Injection
<1>8. Cardinality(old) <= Cardinality(taken)
  <2> DEFINE slot == [p \in old |-> CHOOSE i \in Slots : layout[i] = file[p] /\ layout[i] # Empty]
  <2>1. ASSUME NEW p \in old
        PROVE  slot[p] \in taken /\ layout[slot[p]] = file[p]
    <3>1. file[p] \in On(layout) /\ p \in DOMAIN file
      BY DEF News
    <3>2. \E i \in Slots : layout[i] = file[p] /\ layout[i] # Empty
      BY <3>1 DEF On
    <3>3. slot[p] \in Slots /\ layout[slot[p]] = file[p] /\ layout[slot[p]] # Empty
      BY <3>2
    <3>4. file[p] \in Range(file)
      BY <1>1, <3>1
    <3> QED BY <3>3, <3>4 DEF Occupied, Rest
  <2>2. slot = [p \in old |-> slot[p]]
    OBVIOUS
  <2> HIDE DEF slot
  <2>3. slot \in [old -> taken]
    <3>1. \A p \in old : slot[p] \in taken
      BY <2>1
    <3> HIDE DEF old, taken
    <3> QED BY <2>2, <3>1
  <2>4. IsInjective(slot)
    <3> SUFFICES ASSUME NEW p \in old, NEW q \in old, slot[p] = slot[q] PROVE p = q
      BY <2>2 DEF IsInjective
    <3>1. file[p] = file[q]
      BY <2>1
    <3> QED BY <1>1, <1>2, <3>1
  <2>5. slot \in Injection(old, taken)
    BY <2>3, <2>4 DEF Injection
  <2> HIDE DEF old, taken
  <2> QED BY <1>5, <2>5, FS_Injection
<1>9. Cardinality(placed) = Cardinality(old) + Cardinality(added)
  <2>1. Cardinality(old \cap added) = 0
    BY <1>2, FS_EmptySet
  <2> HIDE DEF old, added, placed
  <2> QED BY <1>2, <1>4, <2>1, FS_Union
<1>10. placed \in SUBSET Int
  BY <1>1, <1>2
<1> HIDE DEF placed, rest, old, added, taken, occupied, room
<1>11. Cardinality(placed) + Cardinality(rest) <= CAPACITY
  <2>1. CAPACITY \in Nat
    BY TableLemma
  <2> QED BY <1>4, <1>5, <1>6, <1>7, <1>8, <1>9, <2>1
<1> QED BY <1>4, <1>5, <1>10, <1>11 DEF placed, rest

\* Each channel that the plan places gets a slot of its own.
LEMMA PlacesLemma ==
  ASSUME NEW layout \in Layouts, NEW file \in Files
  PROVE  /\ \A p \in Placed(file, layout) :
              \E i \in Slots : Wanted(file, layout)[i] = file[p]
         /\ \A r \in Rest(file, layout) :
              \E i \in Slots : Wanted(file, layout)[i] = layout[r]
         /\ \A i \in Slots : Wanted(file, layout)[i] # Empty =>
              \/ \E p \in Placed(file, layout) :
                   Rank(Placed(file, layout), p) = i /\ Wanted(file, layout)[i] = file[p]
              \/ \E r \in Rest(file, layout) :
                   /\ Cardinality(Placed(file, layout)) + Rank(Rest(file, layout), r) = i
                   /\ Wanted(file, layout)[i] = layout[r]
<1> DEFINE placed == Placed(file, layout)
           rest == Rest(file, layout)
           n == Cardinality(placed)
<1>1. /\ placed \in SUBSET Int /\ IsFiniteSet(placed) /\ rest \in SUBSET Int /\ IsFiniteSet(rest)
      /\ n \in Nat /\ Cardinality(rest) \in Nat /\ n + Cardinality(rest) <= CAPACITY
  BY RoomLemma
<1>2. \A p \in placed : /\ Rank(placed, p) \in Nat /\ Rank(placed, p) < n
                        /\ \A q \in placed : Rank(placed, p) = Rank(placed, q) => p = q
  BY <1>1, RankLemma
<1>3. \A r \in rest : /\ Rank(rest, r) \in Nat /\ Rank(rest, r) < Cardinality(rest)
                      /\ \A s \in rest : Rank(rest, r) = Rank(rest, s) => r = s
  BY <1>1, RankLemma
<1>4. CAPACITY \in Nat
  BY TableLemma
<1>5. \A i : At(file, layout, i) = {file[p] : p \in {q \in placed : Rank(placed, q) = i}}
                                     \cup {layout[j] : j \in {r \in rest : n + Rank(rest, r) = i}}
  BY DEF At
<1>6. \A i \in Slots : Wanted(file, layout)[i] = IF At(file, layout, i) = {} THEN Empty
                                                 ELSE CHOOSE c \in At(file, layout, i) : TRUE
  BY DEF Wanted
<1> HIDE DEF placed, rest, n
<1>7. ASSUME NEW p \in placed PROVE \E i \in Slots : Wanted(file, layout)[i] = file[p]
  <2>1. PICK i \in Slots : i = Rank(placed, p)
    BY <1>1, <1>2, <1>4 DEF Slots
  <2>2. \A q \in placed : Rank(placed, q) = i => q = p
    BY <1>2, <2>1
  <2>3. \A r \in rest : n + Rank(rest, r) # i
    BY <1>1, <1>2, <1>3, <2>1
  <2>4. {q \in placed : Rank(placed, q) = i} = {p} /\ {r \in rest : n + Rank(rest, r) = i} = {}
    BY <2>1, <2>2, <2>3
  <2>5. At(file, layout, i) = {file[p]}
    BY <1>5, <2>4
  <2> QED BY <1>6, <2>5
<1>8. ASSUME NEW r \in rest PROVE \E i \in Slots : Wanted(file, layout)[i] = layout[r]
  <2>1. PICK i \in Slots : i = n + Rank(rest, r)
    BY <1>1, <1>3, <1>4 DEF Slots
  <2>2. \A q \in placed : Rank(placed, q) # i
    BY <1>1, <1>2, <1>3, <2>1
  <2>3. ASSUME NEW s \in rest, n + Rank(rest, s) = i PROVE s = r
    <3>1. Rank(rest, s) \in Nat /\ Rank(rest, r) \in Nat
      BY <1>3
    <3>2. Rank(rest, s) = Rank(rest, r)
      BY <1>1, <2>1, <2>3, <3>1
    <3> QED BY <1>3, <3>2
  <2>4. {q \in placed : Rank(placed, q) = i} = {} /\ {s \in rest : n + Rank(rest, s) = i} = {r}
    BY <2>1, <2>2, <2>3
  <2>5. At(file, layout, i) = {layout[r]}
    BY <1>5, <2>4
  <2> QED BY <1>6, <2>5
<1>9. ASSUME NEW i \in Slots, Wanted(file, layout)[i] # Empty
      PROVE  \/ \E p \in placed : Rank(placed, p) = i /\ Wanted(file, layout)[i] = file[p]
             \/ \E r \in rest : n + Rank(rest, r) = i /\ Wanted(file, layout)[i] = layout[r]
  <2>1. Wanted(file, layout)[i] \in At(file, layout, i)
    BY <1>6, <1>9
  <2> QED BY <1>5, <2>1
<1> QED BY <1>7, <1>8, <1>9 DEF placed, rest, n

\* An import keeps each channel of the device, and doubles none.
LEMMA PlanImportLemma ==
  ASSUME NEW layout \in Layouts, NEW file \in Files
  PROVE  LET after == After(layout, PlanImport(file, layout))
         IN  /\ On(layout) \subseteq On(after)
             /\ Twice(after) => Twice(layout)
<1> DEFINE w == Wanted(file, layout)
           placed == Placed(file, layout)
           rest == Rest(file, layout)
<1>1. After(layout, PlanImport(file, layout)) = w
  BY WantedLemma
<1>2. /\ \A p, q \in DOMAIN file : file[p] = file[q] => p = q
      /\ Range(file) = {file[p] : p \in DOMAIN file}
  BY FileLemma
<1>3. /\ \A p \in placed : \E i \in Slots : w[i] = file[p]
      /\ \A r \in rest : \E i \in Slots : w[i] = layout[r]
      /\ \A i \in Slots : w[i] # Empty =>
           \/ \E p \in placed : Rank(placed, p) = i /\ w[i] = file[p]
           \/ \E r \in rest : Cardinality(placed) + Rank(rest, r) = i /\ w[i] = layout[r]
  BY PlacesLemma
<1>4. placed \subseteq DOMAIN file
  BY DEF Placed
<1>5. \A r \in rest : r \in Slots /\ layout[r] # Empty /\ layout[r] \notin Range(file)
  BY DEF Rest, Occupied
<1>6. ASSUME NEW c \in On(layout) PROVE c \in On(w)
  <2>1. PICK i \in Slots : layout[i] = c /\ c # Empty
    BY DEF On
  <2>2. \E j \in Slots : w[j] = c
    <3>1. CASE c \in Range(file)
      <4>1. PICK p \in DOMAIN file : file[p] = c
        BY <1>2, <3>1
      <4>2. p \in placed
        BY <4>1 DEF Placed, News
      <4> QED BY <1>3, <4>1, <4>2
    <3>2. CASE c \notin Range(file)
      <4>1. i \in rest
        BY <2>1, <3>2 DEF Rest, Occupied
      <4> QED BY <1>3, <2>1, <4>1
    <3> QED BY <3>1, <3>2
  <2> HIDE DEF w
  <2> QED BY <2>1, <2>2 DEF On
<1> HIDE DEF w, placed, rest
<1>7. ASSUME Twice(w) PROVE Twice(layout)
  <2>1. PICK i \in Slots, j \in Slots : i # j /\ w[i] = w[j] /\ w[i] # Empty
    BY <1>7 DEF Twice
  <2>2. ASSUME NEW p \in placed, w[i] = file[p], NEW r \in rest, w[j] = layout[r] PROVE FALSE
    BY <1>2, <1>4, <1>5, <2>1, <2>2
  <2>3. ASSUME NEW p \in placed, w[j] = file[p], NEW r \in rest, w[i] = layout[r] PROVE FALSE
    BY <1>2, <1>4, <1>5, <2>1, <2>3
  <2>4. ASSUME NEW p \in placed, NEW q \in placed, w[i] = file[p], w[j] = file[q],
               Rank(placed, p) = i, Rank(placed, q) = j
        PROVE  FALSE
    BY <1>2, <1>4, <2>1, <2>4
  <2>5. CASE \E r, s \in rest : /\ w[i] = layout[r] /\ w[j] = layout[s]
                                /\ Cardinality(placed) + Rank(rest, r) = i
                                /\ Cardinality(placed) + Rank(rest, s) = j
    BY <1>5, <2>1, <2>5 DEF Twice
  <2> QED BY <1>3, <2>1, <2>2, <2>3, <2>4, <2>5
<1> QED BY <1>1, <1>6, <1>7

-----------------------------------------------------------------------------
(* The types. The lock on the probe belongs to a task that asks for the    *)
(* layout, and a round has writes left as long as it writes.               *)

Contents == Channels \cup {Empty}
Tasks == {"manager", "recorder"}

Probe == [by: Tasks \cup {None}, at: 0..CAPACITY, found: Layouts, stale: SUBSET Slots]

Stale == [Copies -> SUBSET Slots]

Manager ==
  [pc: {"closed", "loading", "refiling", "raising", "menu", "writing", "remembering"},
   slots: Layouts, refile: BOOLEAN, kind: {None, "refused", "add", "edit", "reorder", "import"},
   todo: Writes, keep: SUBSET Channels, once: BOOLEAN, ok: BOOLEAN]

Types ==
  /\ device \in Layouts /\ known \in Layouts /\ cache \in Layouts \cup {NoLayout}
  /\ probe \in Probe /\ manager \in Manager
  /\ moved \in BOOLEAN /\ recorder \in {"idle", "asking"} /\ foreign \in 0..MAX_FOREIGN
  /\ stale \in Stale

Locked == probe.by # None => Asking(probe.by) /\ cache = NoLayout

Busy == manager.pc \in {"writing", "remembering"} <=> DOMAIN manager.todo # {}

TypeInv == Types /\ Locked /\ Busy

\* The writes of a round, and what is left of them.
LEMMA WritesLemma ==
  /\ NoWrites \in Writes /\ DOMAIN NoWrites = {}
  /\ \A w \in Writes : /\ DOMAIN w \subseteq Slots
                       /\ \A i \in DOMAIN w : w[i] \in Contents
                       /\ \A S \in SUBSET DOMAIN w : Restrict(w, S) \in Writes
  /\ \A S \in SUBSET Slots : \A f \in [S -> Contents] : f \in Writes
<1>1. \A S \in SUBSET Slots : \A f \in [S -> Contents] : f \in Writes
  BY DEF Writes, Contents
<1>2. NoWrites \in [{} -> Contents]
  BY DEF NoWrites
<1>3. NoWrites \in Writes /\ DOMAIN NoWrites = {}
  BY <1>1, <1>2
<1>4. ASSUME NEW w \in Writes
      PROVE  /\ DOMAIN w \subseteq Slots
             /\ \A i \in DOMAIN w : w[i] \in Contents
             /\ \A S \in SUBSET DOMAIN w : Restrict(w, S) \in Writes
  <2>1. PICK T \in SUBSET Slots : w \in [T -> Contents]
    BY DEF Writes, Contents
  <2>2. ASSUME NEW S \in SUBSET DOMAIN w PROVE Restrict(w, S) \in Writes
    <3>1. S \in SUBSET Slots /\ Restrict(w, S) \in [S -> Contents]
      BY <2>1 DEF Restrict
    <3> QED BY <1>1, <3>1
  <2> QED BY <2>1, <2>2
<1> QED BY <1>1, <1>3, <1>4

\* The empty values.
LEMMA EmptyLemma ==
  /\ Unread \in Layouts
  /\ NoManager \in Manager /\ NoManager.pc = "closed" /\ NoManager.todo = NoWrites
  /\ Free \in Probe /\ Free.by = None
<1>1. Unread \in Layouts
  BY DEF Unread, Layouts
<1>2. NoManager \in Manager /\ NoManager.pc = "closed" /\ NoManager.todo = NoWrites
  BY <1>1, WritesLemma DEF NoManager, Manager
<1>3. Free \in Probe /\ Free.by = None
  BY <1>1, TableLemma DEF Free, Probe
<1> QED BY <1>1, <1>2, <1>3

\* The tasks are apart.
LEMMA TasksLemma == None \notin Tasks
BY DEF None, Tasks

\* What the return of channel_slots() does: nothing but the end of the request for the
\* recorder, a new list for a manager that loads, a new map for one that files or fails.
Returns(who, layout, unread, others) ==
  \/ /\ who = "recorder" /\ recorder' = "idle"
     /\ stale' = others /\ UNCHANGED <<manager, known>>
  \/ /\ who = "manager" /\ manager.pc = "loading"
     /\ manager'.pc = (IF manager.refile THEN "refiling" ELSE "menu")
     /\ manager'.slots = layout /\ manager'.todo = NoWrites /\ manager'.kind = None
     /\ stale' = [others EXCEPT !["list"] = unread]
     /\ UNCHANGED <<recorder, known>>
  \/ /\ who = "manager" /\ manager.pc = "refiling" /\ known' = layout
     /\ manager'.pc = "menu" /\ manager'.slots = manager.slots /\ manager'.todo = manager.todo
     /\ stale' = [others EXCEPT !["known"] = unread]
     /\ UNCHANGED recorder
  \/ /\ who = "manager" /\ manager.pc = "raising" /\ known' = layout
     /\ manager'.pc = "closed" /\ manager'.todo = NoWrites
     /\ stale' = [others EXCEPT !["known"] = unread]
     /\ UNCHANGED recorder

\* Each way channel_slots() returns is one of these.
LEMMA ReturnLemma ==
  ASSUME TypeInv, NEW who \in Tasks, Asking(who), NEW layout \in Layouts, NEW unread \in SUBSET Slots,
         NEW others \in Stale, Return(who, layout, unread, others)
  PROVE  /\ Returns(who, layout, unread, others)
         /\ manager' \in Manager /\ known' \in Layouts /\ recorder' \in {"idle", "asking"}
         /\ stale' \in Stale /\ Busy'
<1>1. Types /\ Busy
  BY DEF TypeInv
<1>2. manager \in Manager
  BY <1>1 DEF Types
<1>3. [others EXCEPT !["list"] = unread] \in Stale /\ [others EXCEPT !["known"] = unread] \in Stale
  BY DEF Stale
<1>4. CASE who = "recorder"
  <2>1. recorder' = "idle" /\ stale' = others /\ UNCHANGED <<manager, known>>
    BY <1>4 DEF Return
  <2> QED BY <1>1, <1>4, <2>1 DEF Types, Returns, Busy
<1>5. CASE who = "manager" /\ manager.pc = "loading"
  <2> DEFINE pc == IF manager.refile THEN "refiling" ELSE "menu"
             menu == [NoManager EXCEPT !.pc = "menu", !.slots = layout]
             t == IF manager.refile THEN [menu EXCEPT !.pc = "refiling"] ELSE menu
  <2>1. /\ manager' = t /\ UNCHANGED <<recorder, known>>
        /\ stale' = [others EXCEPT !["list"] = unread]
    BY <1>5 DEF Return
  <2>2. /\ t \in Manager /\ t.pc = pc /\ t.slots = layout /\ t.todo = NoWrites /\ t.kind = None
    BY EmptyLemma DEF Manager, NoManager
  <2> HIDE DEF t
  <2> QED BY <1>1, <1>3, <1>5, <2>1, <2>2, WritesLemma DEF Types, Returns, Busy
<1>6. CASE who = "manager" /\ manager.pc = "refiling"
  <2> DEFINE t == [manager EXCEPT !.pc = "menu"]
  <2>1. /\ manager' = t /\ known' = layout /\ UNCHANGED recorder
        /\ stale' = [others EXCEPT !["known"] = unread]
    BY <1>6 DEF Return
  <2>2. t \in Manager /\ t.pc = "menu" /\ t.slots = manager.slots /\ t.todo = manager.todo
    BY <1>2 DEF Manager
  <2> HIDE DEF t
  <2> QED BY <1>1, <1>3, <1>6, <2>1, <2>2 DEF Types, Returns, Busy
<1>7. CASE who = "manager" /\ manager.pc = "raising"
  <2>1. /\ manager' = NoManager /\ known' = layout /\ UNCHANGED recorder
        /\ stale' = [others EXCEPT !["known"] = unread]
    BY <1>7 DEF Return
  <2> QED BY <1>1, <1>3, <1>7, <2>1, EmptyLemma, WritesLemma DEF Types, Returns, Busy
<1> QED BY <1>4, <1>5, <1>6, <1>7 DEF Asking

\* The plans of the manager are writes of slots.
LEMMA PlansLemma ==
  /\ \A i \in Slots, c \in Contents : [j \in {i} |-> c] \in Writes /\ DOMAIN [j \in {i} |-> c] = {i}
  /\ \A layout \in Layouts : \A order \in Orders(Occupied(layout)) :
       ApplyOrder(layout, order) \in Writes
  /\ \A layout \in Layouts, file \in Files : PlanImport(file, layout) \in Writes
<1>1. \A S \in SUBSET Slots : \A f \in [S -> Contents] : f \in Writes
  BY WritesLemma
<1>2. ASSUME NEW i \in Slots, NEW c \in Contents PROVE [j \in {i} |-> c] \in Writes
  <2>1. {i} \in SUBSET Slots /\ [j \in {i} |-> c] \in [{i} -> Contents]
    OBVIOUS
  <2> QED BY <1>1, <2>1
<1>3. ASSUME NEW layout \in Layouts, NEW order \in Orders(Occupied(layout))
      PROVE  ApplyOrder(layout, order) \in Writes
  <2> DEFINE S == {j \in Occupied(layout) : order[j] # j}
  <2>1. Occupied(layout) \in SUBSET Slots
    BY DEF Occupied
  <2>2. order \in [Occupied(layout) -> Occupied(layout)]
    BY DEF Orders
  <2>3. S \in SUBSET Slots /\ [i \in S |-> layout[order[i]]] \in [S -> Contents]
    BY <2>1, <2>2 DEF Layouts, Contents
  <2>4. ApplyOrder(layout, order) = [i \in S |-> layout[order[i]]]
    BY DEF ApplyOrder
  <2> QED BY <1>1, <2>3, <2>4
<1>4. ASSUME NEW layout \in Layouts, NEW file \in Files PROVE PlanImport(file, layout) \in Writes
  <2> DEFINE w == Wanted(file, layout)
             S == {j \in Slots : w[j] # layout[j]}
  <2>1. PlanImport(file, layout) = [i \in S |-> w[i]]
    BY WantedLemma
  <2>2. ASSUME NEW i \in Slots PROVE w[i] \in Contents
    <3>1. \A p \in Placed(file, layout) : file[p] \in Channels
      BY FileLemma DEF Placed
    <3>2. \A r \in Rest(file, layout) : layout[r] \in Contents
      BY DEF Rest, Occupied, Layouts, Contents
    <3>3. Empty \in Contents /\ Channels \subseteq Contents
      BY DEF Contents
    <3>4. CASE w[i] # Empty
      BY <3>1, <3>2, <3>3, <3>4, PlacesLemma
    <3> HIDE DEF w
    <3> QED BY <3>3, <3>4
  <2> HIDE DEF w
  <2>3. S \in SUBSET Slots /\ [i \in S |-> w[i]] \in [S -> Contents]
    BY <2>2
  <2> QED BY <1>1, <2>1, <2>3
<1> QED BY <1>2, <1>3, <1>4

\* What the begin of a round does.
Begins(kind, writes, keep) ==
  /\ manager.pc = "menu" /\ manager' \in Manager
  /\ manager'.pc = (IF DOMAIN writes = {} THEN "loading" ELSE "writing")
  /\ manager'.kind = kind /\ manager'.todo = writes /\ manager'.keep = keep
  /\ manager'.ok = TRUE /\ manager'.once = ~Twice(device) /\ manager'.refile = FALSE
  /\ UNCHANGED <<device, cache, probe, moved, known, recorder, foreign>>

Kinds == {"refused", "add", "edit", "reorder", "import"}

\* The begin of a round, field by field.
LEMMA BeginLemma ==
  ASSUME TypeInv, NEW kind \in Kinds, NEW writes \in Writes, NEW keep \in SUBSET Channels,
         Begin(kind, writes, keep)
  PROVE  Begins(kind, writes, keep)
<1> DEFINE t == [manager EXCEPT !.pc = IF DOMAIN writes = {} THEN "loading" ELSE "writing",
                                !.kind = kind, !.todo = writes, !.keep = keep, !.ok = TRUE,
                                !.once = ~Twice(device), !.refile = FALSE]
<1>1. manager \in Manager
  BY DEF TypeInv, Types
<1>2. manager.pc = "menu" /\ manager' = t
      /\ UNCHANGED <<device, cache, probe, moved, known, recorder, foreign>>
  BY DEF Begin
<1>3. (~Twice(device)) \in BOOLEAN
  BY DEF Twice
<1>4. /\ t.pc = (IF DOMAIN writes = {} THEN "loading" ELSE "writing")
      /\ t.kind = kind /\ t.todo = writes /\ t.keep = keep
      /\ t.ok = TRUE /\ t.once = ~Twice(device) /\ t.refile = FALSE
  BY <1>1 DEF Manager
<1>5. t \in Manager
  <2>1. \A pc \in {"loading", "writing"}, once \in BOOLEAN :
          [manager EXCEPT !.pc = pc, !.kind = kind, !.todo = writes, !.keep = keep, !.ok = TRUE,
                          !.once = once, !.refile = FALSE] \in Manager
    BY <1>1 DEF Manager, Kinds
  <2>2. (IF DOMAIN writes = {} THEN "loading" ELSE "writing") \in {"loading", "writing"}
    OBVIOUS
  <2> QED BY <1>3, <2>1, <2>2
<1> HIDE DEF t
<1> QED BY <1>2, <1>4, <1>5 DEF Begins

\* A round of the manager is the begin of one plan.
LEMMA RoundLemma ==
  ASSUME TypeInv, Round
  PROVE  /\ stale' = stale \/ stale' = [stale EXCEPT !["list"] = {}]
         /\ \E kind \in Kinds, writes \in Writes, keep \in SUBSET Channels :
              Begins(kind, writes, keep)
<1>1. device \in Layouts /\ manager.slots \in Layouts
  BY DEF TypeInv, Types, Manager
<1>2. On(device) \in SUBSET Channels
  BY <1>1 DEF On, Layouts
<1>3. ASSUME NEW c \in Channels, Add(c)
      PROVE  \E kind \in Kinds, writes \in Writes, keep \in SUBSET Channels : Begin(kind, writes, keep)
  <2>1. CASE \E i \in Slots : Begin("add", [j \in {i} |-> c], On(device))
    BY <1>2, <2>1, PlansLemma DEF Kinds, Contents
  <2>2. CASE Begin("refused", NoWrites, {})
    BY <2>2, WritesLemma DEF Kinds
  <2> QED BY <1>3, <2>1, <2>2 DEF Add, NextFree
<1>4. ASSUME NEW i \in Slots, NEW content \in Contents, Edit(i, content)
      PROVE  \E kind \in Kinds, writes \in Writes, keep \in SUBSET Channels : Begin(kind, writes, keep)
  BY <1>2, <1>4, PlansLemma DEF Edit, Kinds
<1>5. ASSUME NEW order \in Orders(Occupied(manager.slots)), Reorder(order)
      PROVE  \E kind \in Kinds, writes \in Writes, keep \in SUBSET Channels : Begin(kind, writes, keep)
  BY <1>1, <1>2, <1>5, PlansLemma DEF Reorder, Kinds
<1>6. ASSUME NEW file \in Files, Import(file)
      PROVE  \E kind \in Kinds, writes \in Writes, keep \in SUBSET Channels : Begin(kind, writes, keep)
  BY <1>1, <1>2, <1>6, PlansLemma DEF Import, Kinds
<1>7. stale' = stale \/ stale' = [stale EXCEPT !["list"] = {}]
  BY DEF Round, Add, Edit, Reorder, Import
<1> QED BY <1>3, <1>4, <1>5, <1>6, <1>7, BeginLemma DEF Round, Contents

\* One slot at most is the next.
LEMMA TurnLemma == \A i, j \in Slots : Turn(i) /\ Turn(j) => i = j
<1> SUFFICES ASSUME NEW i \in Slots, NEW j \in Slots, Turn(i), Turn(j) PROVE i = j
  OBVIOUS
<1>1. i <= j /\ j <= i /\ i \in Int /\ j \in Int
  BY SlotsLemma DEF Turn
<1> QED BY <1>1

\* A write that reaches the device changes its slot and no other, and leaves a probe in
\* progress as it is, except that the slot counts as not read.
LEMMA ReachesLemma ==
  ASSUME TypeInv, NEW i \in Slots, NEW content \in Contents, Reaches(i, content)
  PROVE  /\ device' \in Layouts /\ device'[i] = content
         /\ \A j \in Slots \ {i} : device'[j] = device[j]
         /\ probe' \in Probe /\ probe'.by = probe.by /\ probe'.at = probe.at
         /\ probe'.found = probe.found /\ probe'.stale = probe.stale \cup {i}
<1>1. device \in Layouts /\ probe \in Probe
  BY DEF TypeInv, Types
<1>2. device' = [device EXCEPT ![i] = content]
  BY DEF Reaches
<1>3. /\ device' \in Layouts /\ device'[i] = content
      /\ \A j \in Slots \ {i} : device'[j] = device[j]
  BY <1>1, <1>2 DEF Layouts, Contents
<1>4. probe' = [probe EXCEPT !.stale = probe.stale \cup {i}]
  BY <1>1 DEF Reaches, Probe
<1>5. probe.stale \cup {i} \in SUBSET Slots
  BY <1>1 DEF Probe
<1> HIDE DEF Reaches
<1>6. /\ probe' \in Probe /\ probe'.by = probe.by /\ probe'.at = probe.at
      /\ probe'.found = probe.found /\ probe'.stale = probe.stale \cup {i}
  BY <1>1, <1>4, <1>5 DEF Probe
<1> QED BY <1>3, <1>6

\* A write of the slot whose turn it is.
Puts(i) == i \in Slots /\ Turn(i) /\ Reaches(i, manager.todo[i])

\* A write of a round changes its slot.
LEMMA PutsLemma ==
  ASSUME TypeInv, NEW i, Puts(i)
  PROVE  /\ device' \in Layouts /\ i \in DOMAIN manager.todo
         /\ device'[i] = manager.todo[i]
         /\ \A j \in Slots \ {i} : device'[j] = device[j]
         /\ probe' \in Probe /\ probe'.by = probe.by
         /\ probe'.found = probe.found /\ probe'.stale = probe.stale \cup {i}
<1>1. manager.todo \in Writes
  BY DEF TypeInv, Types, Manager
<1>2. i \in DOMAIN manager.todo /\ manager.todo[i] \in Contents
  BY <1>1, WritesLemma DEF Puts, Turn
<1> QED BY <1>2, ReachesLemma DEF Puts

\* What the acknowledged write does, its bookkeeping, and a write that raises.
WritesSlot ==
  /\ manager.pc = "writing" /\ manager'.pc = "remembering" /\ manager' \in Manager
  /\ manager'.todo = manager.todo /\ manager'.kind = manager.kind /\ manager'.keep = manager.keep
  /\ manager'.ok = manager.ok /\ manager'.once = manager.once
  /\ manager'.slots = manager.slots /\ manager'.refile = manager.refile
  /\ \E i \in Slots : Puts(i)
  /\ UNCHANGED <<cache, moved, known, recorder, foreign, stale>>

\* An acknowledged write, field by field.
LEMMA WriteDoneLemma ==
  ASSUME TypeInv, WriteDone
  PROVE  WritesSlot
<1> DEFINE t == [manager EXCEPT !.pc = "remembering"]
<1>1. manager \in Manager /\ manager' = t
  BY DEF TypeInv, Types, WriteDone
<1>2. /\ t \in Manager /\ t.pc = "remembering" /\ t.todo = manager.todo /\ t.kind = manager.kind
      /\ t.keep = manager.keep /\ t.ok = manager.ok /\ t.once = manager.once
      /\ t.slots = manager.slots /\ t.refile = manager.refile
  BY <1>1 DEF Manager
<1> HIDE DEF t
<1> QED BY <1>1, <1>2 DEF WriteDone, WritesSlot, Puts

Remembers(i) ==
  /\ i \in Slots /\ Turn(i) /\ manager.pc = "remembering" /\ manager' \in Manager
  /\ cache' = NoLayout
  /\ DOMAIN manager'.todo = DOMAIN manager.todo \ {i}
  /\ \A j \in DOMAIN manager'.todo : manager'.todo[j] = manager.todo[j]
  /\ \/ /\ DOMAIN manager'.todo = {} /\ manager'.pc = "loading" /\ manager'.refile = TRUE
        /\ moved' = FALSE
     \/ /\ DOMAIN manager'.todo # {} /\ manager'.pc = "writing" /\ moved' = TRUE
  /\ manager'.kind = manager.kind /\ manager'.keep = manager.keep
  /\ manager'.ok = manager.ok /\ manager'.once = manager.once
  /\ UNCHANGED <<device, probe, known, recorder, foreign, stale>>

\* The bookkeeping of a write ends the round, or leaves the other writes as they are.
LEMMA WrittenLemma ==
  ASSUME TypeInv, Written
  PROVE  \E i \in Slots : Remembers(i)
<1>1. manager \in Manager
  BY DEF TypeInv, Types
<1>2. PICK i \in Slots :
        LET left == DOMAIN manager.todo \ {i}
            last == left = {}
        IN /\ Turn(i)
           /\ manager' = [manager EXCEPT !.todo = Restrict(@, left), !.refile = last,
                                         !.pc = IF last THEN "loading" ELSE "writing"]
           /\ moved' = ~last
  BY DEF Written
<1> DEFINE left == DOMAIN manager.todo \ {i}
           rest == Restrict(manager.todo, left)
           t(last) == [manager EXCEPT !.todo = rest, !.refile = last,
                                      !.pc = IF last THEN "loading" ELSE "writing"]
<1>3. manager.todo \in Writes
  BY <1>1 DEF Manager
<1>4. rest \in Writes /\ DOMAIN rest = left /\ \A j \in left : rest[j] = manager.todo[j]
  BY <1>3, WritesLemma DEF Restrict
<1> HIDE DEF rest
<1>5. \A last \in BOOLEAN :
        /\ t(last) \in Manager /\ t(last).todo = rest /\ t(last).refile = last
        /\ t(last).pc = (IF last THEN "loading" ELSE "writing")
        /\ t(last).kind = manager.kind /\ t(last).keep = manager.keep
        /\ t(last).ok = manager.ok /\ t(last).once = manager.once
  BY <1>1, <1>4 DEF Manager
<1>6. manager' = t(left = {}) /\ moved' = ~(left = {}) /\ Turn(i)
  BY <1>2 DEF rest
<1>7. (left = {}) = TRUE \/ (left = {}) = FALSE
  OBVIOUS
<1>8. /\ manager.pc = "remembering" /\ cache' = NoLayout
      /\ UNCHANGED <<device, probe, known, recorder, foreign, stale>>
  BY DEF Written
<1>9. CASE left = {}
  <2>1. manager' = t(TRUE) /\ moved' = FALSE
    BY <1>6, <1>9
  <2> HIDE DEF t
  <2> QED BY <1>4, <1>5, <1>6, <1>8, <1>9, <2>1 DEF Remembers
<1>10. CASE left # {}
  <2>1. manager' = t(FALSE) /\ moved' = TRUE
    BY <1>6, <1>10
  <2> HIDE DEF t
  <2> QED BY <1>4, <1>5, <1>6, <1>8, <1>10, <2>1 DEF Remembers
<1> QED BY <1>9, <1>10

\* The manager after a write or a flow that raised.
Left ==
  /\ manager' \in Manager /\ manager'.todo = NoWrites
  /\ \/ manager'.pc = "loading" /\ manager'.ok = FALSE /\ manager'.refile = moved
     \/ manager'.pc = "raising" /\ moved
     \/ manager'.pc = "closed" /\ ~moved

Raises(end) ==
  /\ \E i \in Slots :
       \/ /\ end = "lost" /\ manager.pc = "writing" /\ Puts(i) /\ stale' = Behind(i)
       \/ /\ end = "unsaved" /\ manager.pc = "remembering" /\ Turn(i) /\ stale' = Behind(i)
          /\ UNCHANGED <<device, probe>>
       \/ /\ end \notin {"lost", "unsaved"} /\ manager.pc = "writing"
          /\ UNCHANGED <<device, probe, stale>>
  /\ Left /\ moved' = FALSE
  /\ UNCHANGED <<cache, known, recorder, foreign>>

\* The manager that an error goes through.
LEMMA LeavesLemma ==
  ASSUME NEW changed \in BOOLEAN
  PROVE  /\ Leaves(changed) \in Manager /\ Leaves(changed).todo = NoWrites
         /\ Leaves(changed).pc = (IF changed THEN "raising" ELSE "closed")
<1> DEFINE r == [NoManager EXCEPT !.pc = "raising"]
<1>1. r \in Manager /\ r.pc = "raising" /\ r.todo = NoWrites
  BY EmptyLemma DEF Manager
<1>2. Leaves(changed) = IF changed THEN r ELSE NoManager
  BY DEF Leaves
<1> HIDE DEF r
<1> QED BY <1>1, <1>2, EmptyLemma

\* A write that raises leaves no writes, and reads the map again if slots moved.
LEMMA WriteRaisesLemma ==
  ASSUME TypeInv, NEW end \in WriteEnds \ {"done"}, WriteRaises(end)
  PROVE  Raises(end)
<1> DEFINE t == [manager EXCEPT !.pc = "loading", !.todo = NoWrites, !.ok = FALSE, !.refile = moved]
<1>1. manager \in Manager /\ moved \in BOOLEAN
  BY DEF TypeInv, Types
<1>2. t \in Manager /\ t.pc = "loading" /\ t.todo = NoWrites /\ t.ok = FALSE /\ t.refile = moved
  BY <1>1, WritesLemma DEF Manager
<1>3. manager' = IF Batch THEN t ELSE Leaves(moved)
  BY DEF WriteRaises
<1> HIDE DEF t
<1>4. Left
  BY <1>1, <1>2, <1>3, LeavesLemma DEF Left
<1>5. Failure(end)
  BY DEF WriteRaises
<1>6. /\ manager.pc = IF end = "unsaved" THEN "remembering" ELSE "writing"
      /\ \E i \in Slots :
           /\ Turn(i)
           /\ IF end = "lost" THEN Reaches(i, manager.todo[i]) ELSE UNCHANGED <<device, probe>>
           /\ stale' = IF end = "refused" THEN stale ELSE Behind(i)
      /\ moved' = FALSE
      /\ UNCHANGED <<cache, known, recorder, foreign>>
  BY <1>5 DEF Failure
<1>7. end \in {"refused", "lost", "unsaved"}
  BY TableAssumption
<1> QED BY <1>4, <1>6, <1>7 DEF Raises, Puts

\* A flow that raises after its writes, too.
LEMMA FlowRaisesLemma ==
  ASSUME TypeInv, FlowRaises
  PROVE  /\ manager.pc = "loading" /\ probe.by # "manager"
         /\ manager' \in Manager /\ manager'.todo = NoWrites
         /\ manager'.pc = (IF manager.refile THEN "raising" ELSE "closed")
         /\ UNCHANGED <<device, cache, probe, moved, known, recorder, foreign, stale>>
<1>1. manager.refile \in BOOLEAN
  BY DEF TypeInv, Types, Manager
<1> QED BY <1>1, LeavesLemma DEF FlowRaises

\* The open manager asks for its list.
LEMMA OpenLemma ==
  ASSUME TypeInv, OpenManager
  PROVE  /\ manager.pc = "closed" /\ manager' \in Manager /\ manager'.pc = "loading"
         /\ manager'.todo = NoWrites /\ manager'.kind = None /\ manager'.refile = FALSE
         /\ UNCHANGED <<device, cache, probe, moved, known, recorder, foreign, stale>>
<1> DEFINE t == [NoManager EXCEPT !.pc = "loading"]
<1>1. t \in Manager /\ t.pc = "loading" /\ t.todo = NoWrites /\ t.kind = None /\ t.refile = FALSE
  BY EmptyLemma DEF Manager, NoManager
<1> HIDE DEF t
<1> QED BY <1>1 DEF OpenManager, t

\* The probe.
LEMMA ProbeLemma ==
  ASSUME TypeInv
  PROVE  /\ \A who \in Tasks : ProbeStart(who) =>
              /\ Asking(who) /\ cache = NoLayout /\ probe' \in Probe
              /\ probe'.by = who /\ probe'.stale = Slots /\ UNCHANGED <<cache, manager, recorder>>
         /\ ProbeReads =>
              /\ probe.by # None /\ probe.at \in Slots /\ probe' \in Probe
              /\ probe'.by = probe.by /\ probe'.stale = probe.stale \ {probe.at}
              /\ probe'.found[probe.at] = device[probe.at]
              /\ \A j \in Slots \ {probe.at} : probe'.found[j] = probe.found[j]
<1>1. probe \in Probe /\ device \in Layouts
  BY DEF TypeInv, Types
<1>2. ASSUME NEW who \in Tasks, ProbeStart(who)
      PROVE  /\ Asking(who) /\ cache = NoLayout /\ probe' \in Probe
             /\ probe'.by = who /\ probe'.stale = Slots /\ UNCHANGED <<cache, manager, recorder>>
  BY <1>2, EmptyLemma DEF ProbeStart, Probe, Free
<1>3. ASSUME ProbeReads
      PROVE  /\ probe.by # None /\ probe.at \in Slots /\ probe' \in Probe
             /\ probe'.by = probe.by /\ probe'.stale = probe.stale \ {probe.at}
             /\ probe'.found[probe.at] = device[probe.at]
             /\ \A j \in Slots \ {probe.at} : probe'.found[j] = probe.found[j]
  <2> DEFINE found == [probe.found EXCEPT ![probe.at] = device[probe.at]]
             left == probe.stale \ {probe.at}
             t == [probe EXCEPT !.at = probe.at + 1, !.found = found, !.stale = left]
  <2>1. probe.by # None /\ probe.at < CAPACITY /\ probe' = t
    BY <1>1, <1>3 DEF ProbeReads, Probe
  <2>2. probe.at \in Slots /\ probe.at + 1 \in 0..CAPACITY
    BY <1>1, <2>1, TableLemma DEF Probe, Slots
  <2>3. probe.found \in Layouts /\ left \in SUBSET Slots
    BY <1>1 DEF Probe
  <2>4. found \in Layouts /\ found[probe.at] = device[probe.at]
        /\ \A j \in Slots \ {probe.at} : found[j] = probe.found[j]
    BY <1>1, <2>2, <2>3 DEF Layouts
  <2> HIDE DEF found, left
  <2>5. t \in Probe /\ t.by = probe.by /\ t.stale = left /\ t.found = found
    BY <1>1, <2>2, <2>3, <2>4 DEF Probe
  <2> HIDE DEF t
  <2> QED BY <2>1, <2>2, <2>4, <2>5 DEF left
<1> QED BY <1>2, <1>3

\* The other client.
LEMMA ForeignLemma ==
  ASSUME TypeInv, NEW i \in Slots, NEW content \in Contents, ForeignWrite(i, content)
  PROVE  /\ Reaches(i, content) /\ stale' = Behind(i) /\ stale' \in Stale
         /\ foreign' \in 0..MAX_FOREIGN /\ UNCHANGED <<cache, moved, known, manager, recorder>>
<1>1. foreign \in 0..MAX_FOREIGN /\ foreign' = foreign + 1 /\ foreign < MAX_FOREIGN
  BY DEF TypeInv, Types, ForeignWrite
<1>2. foreign' \in 0..MAX_FOREIGN
  BY <1>1, TableLemma
<1>3. Behind(i) \in Stale
  BY DEF TypeInv, Types, Stale, Behind
<1> QED BY <1>2, <1>3 DEF ForeignWrite

\* A step keeps the types.
LEMMA LoadTypes ==
  ASSUME TypeInv, NEW who \in Tasks, Load(who)
  PROVE  TypeInv'
<1>1. Types /\ Locked /\ Busy
  BY DEF TypeInv
<1>2. CASE FromCache(who)
  <2>1. /\ Asking(who) /\ cache # NoLayout /\ Return(who, cache, stale["cache"], stale)
        /\ UNCHANGED <<device, cache, probe, moved, foreign>>
    BY <1>2 DEF FromCache
  <2>2. cache \in Layouts /\ stale \in Stale /\ stale["cache"] \in SUBSET Slots
    BY <1>1, <2>1 DEF Types, Stale, Copies
  <2>3. /\ manager' \in Manager /\ known' \in Layouts /\ recorder' \in {"idle", "asking"}
        /\ stale' \in Stale /\ Busy'
    BY <2>1, <2>2, ReturnLemma
  <2>4. probe.by = None
    BY <1>1, <2>1 DEF Locked
  <2>5. Locked'
    BY <2>1, <2>4 DEF Locked
  <2> QED BY <1>1, <2>1, <2>3, <2>5 DEF TypeInv, Types
<1>3. CASE ProbeStart(who)
  <2>1. /\ Asking(who) /\ cache = NoLayout /\ probe' \in Probe
        /\ probe'.by = who /\ UNCHANGED <<cache, manager, recorder>>
    BY <1>3, ProbeLemma
  <2>2. Locked' /\ Busy'
    BY <1>1, <2>1 DEF Locked, Busy, Asking
  <2> QED BY <1>1, <1>3, <2>1, <2>2 DEF TypeInv, Types, ProbeStart
<1> QED BY <1>2, <1>3 DEF Load

\* The probe reads slots, and gives the lock back when it ends.
LEMMA ProbingTypes ==
  ASSUME TypeInv, Probing
  PROVE  TypeInv'
<1>1. Types /\ Locked /\ Busy
  BY DEF TypeInv
<1>2. probe \in Probe /\ stale \in Stale /\ probe.stale \in SUBSET Slots
  BY <1>1 DEF Types, Probe
<1>3. CASE ProbeReads
  <2>1. probe' \in Probe /\ probe'.by = probe.by
    BY <1>3, ProbeLemma
  <2>2. Locked' /\ Busy'
    BY <1>1, <1>3, <2>1 DEF Locked, Busy, Asking, ProbeReads
  <2> QED BY <1>1, <1>3, <2>1, <2>2 DEF TypeInv, Types, ProbeReads
<1>4. ASSUME NEW others \in Stale, probe.by # None,
             Return(probe.by, probe.found, probe.stale, others), probe' = Free,
             UNCHANGED <<device, moved, foreign>>, cache' \in Layouts \cup {NoLayout}
      PROVE  TypeInv'
  <2>1. probe.by \in Tasks /\ Asking(probe.by) /\ probe.found \in Layouts
    BY <1>1, <1>2, <1>4 DEF Locked, Probe
  <2>2. /\ manager' \in Manager /\ known' \in Layouts /\ recorder' \in {"idle", "asking"}
        /\ stale' \in Stale /\ Busy'
    BY <1>2, <1>4, <2>1, ReturnLemma
  <2>3. Locked' /\ probe' \in Probe
    BY <1>4, EmptyLemma DEF Locked
  <2> QED BY <1>1, <1>4, <2>2, <2>3 DEF TypeInv, Types
<1>5. CASE ProbeEnds
  <2> DEFINE others == [stale EXCEPT !["cache"] = probe.stale]
  <2>1. /\ probe.by # None /\ cache' = probe.found /\ probe' = Free
        /\ Return(probe.by, probe.found, probe.stale, others)
        /\ UNCHANGED <<device, moved, foreign>>
    BY <1>5 DEF ProbeEnds
  <2>2. others \in Stale /\ probe.found \in Layouts
    BY <1>2 DEF Stale, Probe
  <2> HIDE DEF others
  <2> QED BY <1>4, <2>1, <2>2
<1>6. CASE ProbeFails
  BY <1>1, <1>2, <1>4, <1>6 DEF ProbeFails, Types
<1> QED BY <1>3, <1>5, <1>6 DEF Probing

\* The recorder and the other client take no lock.
LEMMA OutsideTypes ==
  ASSUME TypeInv, \/ \E i \in Slots : Resolve(i)
                  \/ \E i \in Slots, content \in Contents : ForeignWrite(i, content)
  PROVE  TypeInv'
<1>1. Types /\ Locked /\ Busy
  BY DEF TypeInv
<1>2. ASSUME NEW i \in Slots, Resolve(i) PROVE TypeInv'
  <2>1. /\ recorder' = "asking" /\ known' = [known EXCEPT ![i] = device[i]]
        /\ cache' = NoLayout \/ cache' = cache
        /\ stale' = [stale EXCEPT !["known"] = stale["known"] \ {i}]
        /\ UNCHANGED <<device, probe, manager, foreign>>
    BY <1>1, <1>2 DEF Resolve, Types, Stale, Copies
  <2>2. known' \in Layouts
    BY <1>1, <2>1 DEF Types, Layouts
  <2>3. moved' \in BOOLEAN
    <3>1. (manager.pc \in {"writing", "remembering"}) \in BOOLEAN /\ moved \in BOOLEAN
      BY <1>1 DEF Types
    <3> QED BY <1>2, <3>1 DEF Resolve
  <2>4. stale' \in Stale
    <3>1. stale["known"] \ {i} \in SUBSET Slots
      BY <1>1 DEF Types, Stale, Copies
    <3> QED BY <1>1, <2>1, <3>1 DEF Types, Stale
  <2>5. Locked' /\ Busy'
    BY <1>1, <2>1 DEF Locked, Busy, Asking
  <2> QED BY <1>1, <2>1, <2>2, <2>3, <2>4, <2>5 DEF TypeInv, Types
<1>3. ASSUME NEW i \in Slots, NEW content \in Contents, ForeignWrite(i, content) PROVE TypeInv'
  <2>1. /\ Reaches(i, content) /\ stale' \in Stale /\ foreign' \in 0..MAX_FOREIGN
        /\ UNCHANGED <<cache, moved, known, manager, recorder>>
    BY <1>3, ForeignLemma
  <2>2. device' \in Layouts /\ probe' \in Probe /\ probe'.by = probe.by
    BY <2>1, ReachesLemma
  <2>3. Locked' /\ Busy'
    BY <1>1, <2>1, <2>2 DEF Locked, Busy, Asking
  <2> QED BY <1>1, <2>1, <2>2, <2>3 DEF TypeInv, Types
<1> QED BY <1>2, <1>3

\* The steps of the manager, who holds no probe while it has its menu open or writes.
LEMMA ManagerTypes ==
  ASSUME TypeInv, OpenManager \/ Round \/ Write \/ FlowRaises \/ CloseManager
  PROVE  TypeInv'
<1>1. Types /\ Locked /\ Busy
  BY DEF TypeInv
<1>2. ASSUME UNCHANGED recorder, probe'.by = probe.by,
             probe.by # "manager" \/ manager.pc \notin {"loading", "refiling", "raising"}, cache' = cache \/ cache' = NoLayout
      PROVE  Locked'
  BY <1>1, <1>2 DEF Locked, Asking
<1>3. CASE OpenManager
  <2>1. /\ manager.pc = "closed" /\ manager' \in Manager /\ manager'.pc = "loading"
        /\ manager'.todo = NoWrites
        /\ UNCHANGED <<device, cache, probe, moved, known, recorder, foreign, stale>>
    BY <1>3, OpenLemma
  <2>2. Locked' /\ Busy'
    BY <1>2, <2>1, WritesLemma DEF Busy
  <2> QED BY <1>1, <2>1, <2>2 DEF TypeInv, Types
<1>4. CASE Round
  <2>1. PICK kind \in Kinds, writes \in Writes, keep \in SUBSET Channels :
          Begins(kind, writes, keep)
    BY <1>4, RoundLemma
  <2>2. Locked' /\ Busy'
    BY <1>2, <2>1 DEF Begins, Busy
  <2>3. stale' \in Stale
    <3>1. {} \in SUBSET Slots /\ stale \in Stale
      BY <1>1 DEF Types
    <3>2. [stale EXCEPT !["list"] = {}] \in Stale
      BY <3>1 DEF Stale
    <3> QED BY <1>4, <3>1, <3>2, RoundLemma
  <2> QED BY <1>1, <2>1, <2>2, <2>3 DEF TypeInv, Types, Begins
<1>5. CASE WriteDone
  <2>1. WritesSlot
    BY <1>5, WriteDoneLemma
  <2>2. device' \in Layouts /\ probe' \in Probe /\ probe'.by = probe.by
    BY <2>1, PutsLemma DEF WritesSlot
  <2>3. Locked' /\ Busy'
    BY <1>1, <1>2, <2>1, <2>2 DEF WritesSlot, Busy
  <2> QED BY <1>1, <2>1, <2>2, <2>3 DEF TypeInv, Types, WritesSlot
<1>6. CASE Written
  <2>1. PICK i \in Slots : Remembers(i)
    BY <1>6, WrittenLemma
  <2>2. Locked' /\ Busy'
    BY <1>2, <2>1 DEF Remembers, Busy
  <2> QED BY <1>1, <2>1, <2>2 DEF TypeInv, Types, Remembers
<1>7. ASSUME NEW end \in WriteEnds \ {"done"}, WriteRaises(end) PROVE TypeInv'
  <2>1. Raises(end)
    BY <1>7, WriteRaisesLemma
  <2>2. device' \in Layouts /\ probe' \in Probe /\ probe'.by = probe.by
    BY <1>1, <2>1, PutsLemma DEF Raises, Types
  <2>3. stale' \in Stale
    <3>1. stale \in Stale /\ \A i \in Slots : Behind(i) \in Stale
      BY <1>1 DEF Types, Stale, Behind
    <3> QED BY <2>1, <3>1 DEF Raises
  <2>4. manager.pc \in {"writing", "remembering"} /\ UNCHANGED <<cache, recorder>>
    BY <2>1 DEF Raises
  <2>5. Locked'
    BY <1>2, <2>2, <2>4
  <2>6. Busy'
    BY <2>1, WritesLemma DEF Raises, Left, Busy
  <2> QED BY <1>1, <2>1, <2>2, <2>3, <2>5, <2>6 DEF TypeInv, Types, Raises, Left
<1>8. CASE FlowRaises
  <2>1. /\ probe.by # "manager" /\ manager' \in Manager /\ manager'.todo = NoWrites
        /\ manager'.pc \in {"raising", "closed"}
        /\ UNCHANGED <<device, cache, probe, moved, known, recorder, foreign, stale>>
    BY <1>8, FlowRaisesLemma
  <2>2. Locked' /\ Busy'
    BY <1>2, <2>1, WritesLemma DEF Busy
  <2> QED BY <1>1, <2>1, <2>2 DEF TypeInv, Types
<1>9. CASE CloseManager
  <2>1. /\ manager.pc = "menu" /\ manager' = NoManager
        /\ UNCHANGED <<device, cache, probe, moved, known, recorder, foreign, stale>>
    BY <1>9 DEF CloseManager
  <2>2. Locked' /\ Busy'
    BY <1>2, <2>1, EmptyLemma, WritesLemma DEF Busy
  <2> QED BY <1>1, <2>1, <2>2, EmptyLemma DEF TypeInv, Types
<1> QED BY <1>3, <1>4, <1>5, <1>6, <1>7, <1>8, <1>9 DEF Write

\* Each step keeps the types.
LEMMA NextTypes == TypeInv /\ [Next]_vars => TypeInv'
<1> SUFFICES ASSUME TypeInv, [Next]_vars PROVE TypeInv'
  OBVIOUS
<1>1. CASE UNCHANGED vars
  BY <1>1 DEF vars, TypeInv, Types, Locked, Busy, Asking
<1> QED BY <1>1, LoadTypes, ProbingTypes, OutsideTypes, ManagerTypes DEF Next, Tasks, Contents

\* In the first state nothing is cached, and the recorder knows the device.
LEMMA InitTypes == Init => TypeInv
<1> SUFFICES ASSUME Init PROVE TypeInv
  OBVIOUS
<1>1. Types
  <2>1. device \in Layouts /\ known \in Layouts /\ foreign \in 0..MAX_FOREIGN
    BY TableLemma DEF Init
  <2>2. probe \in Probe /\ manager \in Manager
    BY EmptyLemma DEF Init
  <2>3. stale \in Stale
    BY DEF Init, Stale
  <2> QED BY <2>1, <2>2, <2>3 DEF Init, Types
<1>2. Locked /\ Busy
  BY EmptyLemma, WritesLemma DEF Init, Locked, Busy
<1> QED BY <1>1, <1>2 DEF TypeInv

\* The types hold in every reachable state.
THEOREM TypeInvariant == Spec => []TypeInv
BY InitTypes, NextTypes, PTL DEF Spec

\* The state keeps its type; the lock of the probe belongs to a task that asks for the
\* layout, and then nothing is cached.
THEOREM TableTypeCorrect == Spec => []TypeOK
<1>1. TypeInv => TypeOK
  BY DEF TypeInv, Types, Locked, Busy, TypeOK, Probe, Stale, Manager, Tasks
<1> QED BY <1>1, TypeInvariant, PTL

-----------------------------------------------------------------------------
(* The copies, slot by slot, however a probe or a write ends.              *)

\* The slots that the probe has read.
ProbeCopied == Agrees(probe.found, probe.stale)

\* The list of the manager, as soon as it is loaded.
ListCopied == manager.pc \in {"menu", "refiling"} => Agrees(manager.slots, stale["list"])

\* The map of the recorder is read again before the manager is at rest, or no slot moved.
Settled ==
  \/ manager.pc \in {"menu", "closed"}
  \/ manager.pc = "loading" /\ ~manager.refile
  \/ manager.pc \in {"writing", "remembering"} /\ ~moved

MapCopied == Settled => Agrees(known, stale["known"] \cup Underway)

\* Every copy is that of the device, the slots that a probe has read so far among them.
Copied == ProbeCopied /\ CacheIsDevice /\ ListCopied /\ MapCopied

\* In the first state the map of the recorder is the only copy.
LEMMA InitCopied == Init => Copied
<1> SUFFICES ASSUME Init PROVE Copied
  OBVIOUS
<1>1. manager.pc = "closed" /\ probe.stale = Slots /\ cache = NoLayout /\ known = device
  BY EmptyLemma DEF Init, Free
<1> QED BY <1>1 DEF Copied, ProbeCopied, CacheIsDevice, ListCopied, MapCopied, Agrees

\* No write is under way but between its acknowledgement and its bookkeeping.
LEMMA UnderwayLemma ==
  /\ manager.pc # "remembering" => Underway = {}
  /\ manager.pc = "remembering" => \A i \in Slots : Turn(i) => Underway = {i}
BY TurnLemma DEF Underway

\* The same in the next state.
LEMMA UnderwayNext ==
  /\ manager'.pc # "remembering" => Underway' = {}
  /\ manager' = manager => Underway' = Underway
BY DEF Underway, Turn

\* A return of a layout that agrees with the device at the slots that were read.
LEMMA ReturnCopied ==
  ASSUME TypeInv, Copied, NEW who \in Tasks, Asking(who), NEW layout \in Layouts,
         NEW unread \in SUBSET Slots, who = "manager" => Agrees(layout, unread),
         NEW others \in Stale, others["list"] = stale["list"], others["known"] = stale["known"],
         Return(who, layout, unread, others), UNCHANGED <<device, moved>>
  PROVE  ListCopied' /\ MapCopied' /\ stale'["cache"] = others["cache"]
<1>1. Returns(who, layout, unread, others)
  BY ReturnLemma
<1>2. ListCopied /\ MapCopied
  BY DEF Copied
<1>3. /\ [others EXCEPT !["list"] = unread]["list"] = unread
      /\ [others EXCEPT !["list"] = unread]["known"] = stale["known"]
      /\ [others EXCEPT !["list"] = unread]["cache"] = others["cache"]
      /\ [others EXCEPT !["known"] = unread]["list"] = stale["list"]
      /\ [others EXCEPT !["known"] = unread]["known"] = unread
      /\ [others EXCEPT !["known"] = unread]["cache"] = others["cache"]
  BY DEF Stale, Copies
<1>4. CASE who = "recorder"
  <2>1. stale' = others /\ UNCHANGED <<manager, known>>
    BY <1>1, <1>4 DEF Returns
  <2>2. Underway' = Underway
    BY <2>1, UnderwayNext
  <2> QED BY <1>2, <2>1, <2>2 DEF ListCopied, MapCopied, Settled, Agrees
<1>5. CASE who = "manager" /\ manager.pc = "loading"
  <2>1. /\ manager'.pc = (IF manager.refile THEN "refiling" ELSE "menu")
        /\ manager'.slots = layout /\ UNCHANGED known
        /\ stale'["list"] = unread /\ stale'["known"] = stale["known"]
        /\ stale'["cache"] = others["cache"]
    BY <1>1, <1>3, <1>5 DEF Returns
  <2>2. Agrees(layout, unread) /\ device' = device
    BY <1>5
  <2>3. ListCopied'
    BY <2>1, <2>2 DEF ListCopied, Agrees
  <2>4. Underway = {} /\ Underway' = {}
    BY <1>5, <2>1, UnderwayLemma, UnderwayNext
  <2>5. Settled' => Settled
    BY <1>5, <2>1 DEF Settled
  <2>6. MapCopied'
    BY <1>2, <2>1, <2>2, <2>4, <2>5 DEF MapCopied, Agrees
  <2> QED BY <2>1, <2>3, <2>6
<1>6. CASE who = "manager" /\ manager.pc \in {"refiling", "raising"}
  <2>1. /\ known' = layout
        /\ \/ manager'.pc = "menu" /\ manager.pc = "refiling" /\ manager'.slots = manager.slots
           \/ manager'.pc = "closed"
        /\ stale'["known"] = unread /\ stale'["list"] = stale["list"]
        /\ stale'["cache"] = others["cache"]
    BY <1>1, <1>3, <1>6 DEF Returns
  <2>2. Agrees(layout, unread) /\ device' = device
    BY <1>6
  <2>3. MapCopied'
    BY <2>1, <2>2 DEF MapCopied, Agrees
  <2>4. ListCopied'
    BY <1>2, <2>1, <2>2 DEF ListCopied, Agrees
  <2> QED BY <2>1, <2>3, <2>4
<1> QED BY <1>4, <1>5, <1>6 DEF Tasks, Asking

\* The cached layout is handed over as it is, and a new probe has read nothing.
LEMMA LoadCopied ==
  ASSUME TypeInv, Copied, NEW who \in Tasks, Load(who)
  PROVE  Copied'
<1>1. Types /\ ProbeCopied /\ CacheIsDevice /\ ListCopied /\ MapCopied
  BY DEF TypeInv, Copied
<1>2. CASE FromCache(who)
  <2>1. /\ Asking(who) /\ cache # NoLayout /\ Return(who, cache, stale["cache"], stale)
        /\ UNCHANGED <<device, cache, probe, moved, foreign>>
    BY <1>2 DEF FromCache
  <2>2. cache \in Layouts /\ stale \in Stale /\ stale["cache"] \in SUBSET Slots
    BY <1>1, <2>1 DEF Types, Stale, Copies
  <2>3. Agrees(cache, stale["cache"] \cup Underway)
    BY <1>1, <2>1 DEF CacheIsDevice
  <2>4. who = "manager" => Agrees(cache, stale["cache"])
    <3> SUFFICES ASSUME who = "manager" PROVE Agrees(cache, stale["cache"])
      OBVIOUS
    <3>1. Underway = {}
      BY <2>1, UnderwayLemma DEF Asking
    <3> QED BY <2>3, <3>1
  <2>5. ListCopied' /\ MapCopied' /\ stale'["cache"] = stale["cache"]
    BY <2>1, <2>2, <2>4, ReturnCopied
  <2>6. ProbeCopied'
    BY <1>1, <2>1 DEF ProbeCopied, Agrees
  <2>7. Underway \subseteq Underway'
    <3>1. CASE who = "manager"
      BY <2>1, <3>1, UnderwayLemma DEF Asking
    <3>2. CASE who = "recorder"
      <4>1. manager' = manager
        BY <2>1, <2>2, <3>2, ReturnLemma DEF Returns
      <4> QED BY <4>1, UnderwayNext
    <3> QED BY <3>1, <3>2 DEF Tasks
  <2>8. CacheIsDevice'
    BY <2>1, <2>3, <2>5, <2>7 DEF CacheIsDevice, Agrees
  <2> QED BY <2>5, <2>6, <2>8 DEF Copied
<1>3. CASE ProbeStart(who)
  <2>1. /\ probe'.stale = Slots
        /\ UNCHANGED <<device, cache, moved, known, manager, stale>>
    BY <1>3, ProbeLemma DEF ProbeStart
  <2>2. ProbeCopied'
    BY <2>1 DEF ProbeCopied, Agrees
  <2>3. Underway' = Underway
    BY <2>1, UnderwayNext
  <2> QED BY <1>1, <2>1, <2>2, <2>3 DEF Copied, CacheIsDevice, ListCopied, MapCopied, Settled, Agrees
<1> QED BY <1>2, <1>3 DEF Load

\* A probe reads the layout of the device, but for the slots that are written after it.
LEMMA ProbingCopied ==
  ASSUME TypeInv, Copied, Probing
  PROVE  Copied'
<1>1. Types /\ Locked /\ ProbeCopied /\ CacheIsDevice /\ ListCopied /\ MapCopied
  BY DEF TypeInv, Copied
<1>2. probe \in Probe /\ stale \in Stale /\ probe.stale \in SUBSET Slots /\ probe.found \in Layouts
  BY <1>1 DEF Types, Probe
<1>3. CASE ProbeReads
  <2>1. /\ probe'.stale = probe.stale \ {probe.at}
        /\ probe'.found[probe.at] = device[probe.at]
        /\ \A j \in Slots \ {probe.at} : probe'.found[j] = probe.found[j]
    BY <1>3, ProbeLemma
  <2>2. UNCHANGED <<device, cache, moved, known, manager, stale>>
    BY <1>3 DEF ProbeReads
  <2>3. ProbeCopied'
    BY <1>1, <2>1, <2>2 DEF ProbeCopied, Agrees
  <2>4. Underway' = Underway
    BY <2>2, UnderwayNext
  <2> QED BY <1>1, <2>2, <2>3, <2>4 DEF Copied, CacheIsDevice, ListCopied, MapCopied, Settled, Agrees
<1>4. probe.by # None => probe.by \in Tasks /\ Asking(probe.by)
  BY <1>1, <1>2 DEF Locked, Probe
<1>5. Agrees(probe.found, probe.stale)
  BY <1>1 DEF ProbeCopied
<1>6. probe' = Free => ProbeCopied'
  BY DEF ProbeCopied, Agrees, Free
<1>7. CASE ProbeEnds
  <2> DEFINE others == [stale EXCEPT !["cache"] = probe.stale]
  <2>1. /\ probe.by # None /\ cache' = probe.found /\ probe' = Free
        /\ Return(probe.by, probe.found, probe.stale, others)
        /\ UNCHANGED <<device, moved, foreign>>
    BY <1>7 DEF ProbeEnds
  <2>2. /\ others \in Stale /\ others["cache"] = probe.stale
        /\ others["list"] = stale["list"] /\ others["known"] = stale["known"]
    BY <1>2 DEF Copies, Stale
  <2> HIDE DEF others
  <2>3. ListCopied' /\ MapCopied' /\ stale'["cache"] = probe.stale
    BY <1>2, <1>4, <1>5, <2>1, <2>2, ReturnCopied
  <2>4. CacheIsDevice'
    BY <1>5, <2>1, <2>3 DEF CacheIsDevice, Agrees
  <2> QED BY <1>6, <2>1, <2>3, <2>4 DEF Copied
<1>8. CASE ProbeFails
  <2>1. /\ probe.by # None /\ probe' = Free
        /\ Return(probe.by, probe.found, probe.stale, stale)
        /\ UNCHANGED <<device, cache, moved, foreign>>
    BY <1>8 DEF ProbeFails
  <2>2. ListCopied' /\ MapCopied'
    BY <1>2, <1>4, <1>5, <2>1, ReturnCopied
  <2>3. CacheIsDevice'
    BY <1>1, <2>1 DEF CacheIsDevice, Locked
  <2> QED BY <1>6, <2>1, <2>2, <2>3 DEF Copied
<1> QED BY <1>3, <1>7, <1>8 DEF Probing

\* When slot i of the device changes, or may have, and no copy is told, the copies agree at
\* the other slots.
LEMMA BehindLemma ==
  ASSUME TypeInv, NEW i \in Slots, stale' = Behind(i),
         \A j \in Slots \ {i} : device'[j] = device[j]
  PROVE  /\ \A c \in Copies : stale'[c] = stale[c] \cup {i}
         /\ \A layout, but : Agrees(layout, but) =>
              \A j \in Slots \ (but \cup {i}) : layout[j] = device'[j]
BY DEF Behind, Agrees

\* The recorder learns from a message, and the other client leaves every copy behind.
LEMMA OutsideCopied ==
  ASSUME TypeInv, Copied, \/ \E i \in Slots : Resolve(i)
                          \/ \E i \in Slots, content \in Contents : ForeignWrite(i, content)
  PROVE  Copied'
<1>1. Types /\ ProbeCopied /\ CacheIsDevice /\ ListCopied /\ MapCopied
  BY DEF TypeInv, Copied
<1>2. ASSUME NEW i \in Slots, Resolve(i) PROVE Copied'
  <2>1. /\ known' = [known EXCEPT ![i] = device[i]] /\ UNCHANGED <<device, probe, manager>>
        /\ cache' = NoLayout \/ cache' = cache
    BY <1>2 DEF Resolve
  <2>2. /\ stale'["known"] = stale["known"] \ {i}
        /\ stale'["list"] = stale["list"] /\ stale'["cache"] = stale["cache"]
    BY <1>1, <1>2 DEF Resolve, Types, Stale, Copies
  <2>3. Underway' = Underway
    BY <2>1, UnderwayNext
  <2>4. ProbeCopied' /\ CacheIsDevice' /\ ListCopied'
    BY <1>1, <2>1, <2>2, <2>3 DEF ProbeCopied, CacheIsDevice, ListCopied, Agrees
  <2>5. Settled' => Settled
    <3>1. moved' = moved \/ moved' = (manager.pc \in {"writing", "remembering"})
      BY <1>2 DEF Resolve
    <3> QED BY <2>1, <3>1 DEF Settled
  <2>6. known \in Layouts
    BY <1>1 DEF Types
  <2>7. known'[i] = device[i] /\ \A j \in Slots \ {i} : known'[j] = known[j]
    BY <2>1, <2>6 DEF Layouts
  <2>8. MapCopied'
    BY <1>1, <2>1, <2>2, <2>3, <2>5, <2>7 DEF MapCopied, Agrees
  <2> QED BY <2>4, <2>8 DEF Copied
<1>3. ASSUME NEW i \in Slots, NEW content \in Contents, ForeignWrite(i, content) PROVE Copied'
  <2>1. /\ Reaches(i, content) /\ stale' = Behind(i)
        /\ UNCHANGED <<cache, moved, known, manager>>
    BY <1>3, ForeignLemma
  <2>2. /\ \A j \in Slots \ {i} : device'[j] = device[j]
        /\ probe'.found = probe.found /\ probe'.stale = probe.stale \cup {i}
    BY <2>1, ReachesLemma
  <2>3. /\ \A c \in Copies : stale'[c] = stale[c] \cup {i}
        /\ Underway' = Underway
    BY <2>1, <2>2, BehindLemma, UnderwayNext
  <2> QED BY <1>1, <2>1, <2>2, <2>3
          DEF Copied, ProbeCopied, CacheIsDevice, ListCopied, MapCopied, Settled, Agrees, Copies
<1> QED BY <1>2, <1>3

\* The manager drops the cache at each write, and reads list and map again after its round.
LEMMA ManagerCopied ==
  ASSUME TypeInv, Copied, OpenManager \/ Round \/ FlowRaises \/ CloseManager
  PROVE  Copied'
<1>1. Types /\ ProbeCopied /\ CacheIsDevice /\ ListCopied /\ MapCopied
  BY DEF TypeInv, Copied
<1>2. CASE Round
  <2>1. PICK kind \in Kinds, writes \in Writes, keep \in SUBSET Channels :
          Begins(kind, writes, keep)
    BY <1>2, RoundLemma
  <2>2. /\ manager.pc = "menu" /\ manager'.pc \in {"loading", "writing"}
        /\ UNCHANGED <<device, cache, probe, moved, known>>
    BY <2>1 DEF Begins
  <2>3. stale'["known"] = stale["known"] /\ stale'["cache"] = stale["cache"]
    BY <1>1, <1>2, RoundLemma DEF Types, Stale, Copies
  <2>4. Underway = {} /\ Underway' = {}
    BY <2>2, UnderwayLemma, UnderwayNext
  <2> QED BY <1>1, <2>2, <2>3, <2>4
          DEF Copied, ProbeCopied, CacheIsDevice, ListCopied, MapCopied, Settled, Agrees
<1>3. ASSUME manager.pc # "remembering", manager'.pc \in {"loading", "raising", "closed"},
             Settled' => Settled, UNCHANGED <<device, cache, probe, known, stale>>
      PROVE  Copied'
  <2>1. Underway = {} /\ Underway' = {}
    BY <1>3, UnderwayLemma, UnderwayNext
  <2> QED BY <1>1, <1>3, <2>1
          DEF Copied, ProbeCopied, CacheIsDevice, ListCopied, MapCopied, Agrees
<1>4. CASE OpenManager
  <2>1. manager.pc = "closed" /\ manager'.pc = "loading"
        /\ UNCHANGED <<device, cache, probe, known, stale>>
    BY <1>4, OpenLemma
  <2> QED BY <1>3, <2>1 DEF Settled
<1>5. CASE FlowRaises
  <2>1. manager.pc = "loading" /\ manager'.pc = (IF manager.refile THEN "raising" ELSE "closed")
        /\ UNCHANGED <<device, cache, probe, known, stale>>
    BY <1>5, FlowRaisesLemma
  <2>2. Settled' => Settled
    BY <2>1 DEF Settled
  <2> QED BY <1>3, <2>1, <2>2
<1>6. CASE CloseManager
  <2>1. manager.pc = "menu" /\ manager'.pc = "closed"
        /\ UNCHANGED <<device, cache, probe, known, stale>>
    BY <1>6, EmptyLemma DEF CloseManager
  <2> QED BY <1>3, <2>1 DEF Settled
<1> QED BY <1>2, <1>4, <1>5, <1>6

\* A write drops the cache once it is done; where it raises, its slot is the only one behind.
LEMMA WritesCopied ==
  ASSUME TypeInv, Copied, Write
  PROVE  Copied'
<1>1. Types /\ ProbeCopied /\ CacheIsDevice /\ ListCopied /\ MapCopied
  BY DEF TypeInv, Copied
<1>2. CASE WriteDone
  <2>1. /\ manager.pc = "writing" /\ manager'.pc = "remembering" /\ manager'.todo = manager.todo
        /\ UNCHANGED <<cache, moved, known, stale>>
    BY <1>2, WriteDoneLemma DEF WritesSlot
  <2>2. PICK i \in Slots : Puts(i)
    BY <1>2, WriteDoneLemma DEF WritesSlot
  <2>3. /\ \A j \in Slots \ {i} : device'[j] = device[j]
        /\ probe'.found = probe.found /\ probe'.stale = probe.stale \cup {i}
    BY <2>2, PutsLemma
  <2>4. i \in Underway' /\ Underway = {}
    BY <2>1, <2>2, UnderwayLemma DEF Underway, Turn, Puts
  <2> QED BY <1>1, <2>1, <2>3, <2>4
          DEF Copied, ProbeCopied, CacheIsDevice, ListCopied, MapCopied, Settled, Agrees
<1>3. CASE Written
  <2>1. PICK i \in Slots : Remembers(i)
    BY <1>3, WrittenLemma
  <2>2. /\ cache' = NoLayout /\ UNCHANGED <<device, probe>>
        /\ \/ manager'.pc = "loading" /\ manager'.refile = TRUE
           \/ manager'.pc = "writing" /\ moved' = TRUE
    BY <2>1 DEF Remembers
  <2> QED BY <1>1, <2>2
          DEF Copied, ProbeCopied, CacheIsDevice, ListCopied, MapCopied, Settled, Agrees
<1>4. ASSUME NEW end \in WriteEnds \ {"done"}, WriteRaises(end) PROVE Copied'
  <2>1. Raises(end)
    BY <1>4, WriteRaisesLemma
  <2>2. /\ manager'.pc \in {"loading", "raising", "closed"} /\ Underway' = {}
        /\ UNCHANGED <<cache, known>>
    BY <2>1, UnderwayNext DEF Raises, Left
  <2>3. ListCopied'
    BY <2>2 DEF ListCopied
  <2>4. Settled' => Settled
    BY <2>1 DEF Raises, Left, Settled
  <2>5. CASE UNCHANGED <<device, probe, stale>> /\ manager.pc = "writing"
    <3>1. Underway = {}
      BY <2>5, UnderwayLemma
    <3> QED BY <1>1, <2>2, <2>3, <2>4, <2>5, <3>1
            DEF Copied, ProbeCopied, CacheIsDevice, MapCopied, Agrees
  <2>6. ASSUME NEW i \in Slots, stale' = Behind(i), Underway \subseteq {i},
               \A j \in Slots \ {i} : device'[j] = device[j], ProbeCopied'
        PROVE  Copied'
    <3>1. \A c \in Copies : stale'[c] = stale[c] \cup {i}
      BY <2>6, BehindLemma
    <3>2. CacheIsDevice'
      BY <1>1, <2>2, <2>6, <3>1 DEF CacheIsDevice, Agrees, Copies
    <3>3. MapCopied'
      BY <1>1, <2>2, <2>4, <2>6, <3>1 DEF MapCopied, Agrees, Copies
    <3> QED BY <2>3, <2>6, <3>2, <3>3 DEF Copied
  <2>7. ASSUME NEW i \in Slots, manager.pc = "writing", Puts(i), stale' = Behind(i)
        PROVE  Copied'
    <3>1. /\ \A j \in Slots \ {i} : device'[j] = device[j]
          /\ probe'.found = probe.found /\ probe'.stale = probe.stale \cup {i}
      BY <2>7, PutsLemma
    <3>2. ProbeCopied'
      BY <1>1, <3>1 DEF ProbeCopied, Agrees
    <3> QED BY <2>6, <2>7, <3>1, <3>2, UnderwayLemma
  <2>8. ASSUME NEW i \in Slots, manager.pc = "remembering", Turn(i), stale' = Behind(i),
               UNCHANGED <<device, probe>>
        PROVE  Copied'
    <3>1. ProbeCopied'
      BY <1>1, <2>8 DEF ProbeCopied, Agrees
    <3> QED BY <2>6, <2>8, <3>1, UnderwayLemma
  <2> QED BY <2>1, <2>5, <2>7, <2>8 DEF Raises
<1> QED BY <1>2, <1>3, <1>4 DEF Write

\* Each step keeps the copies true.
LEMMA NextCopied == TypeInv /\ Copied /\ [Next]_vars => Copied'
<1> SUFFICES ASSUME TypeInv, Copied, [Next]_vars PROVE Copied'
  OBVIOUS
<1>1. CASE UNCHANGED vars
  <2>1. UNCHANGED <<device, cache, probe, moved, known, manager, stale>> /\ Underway' = Underway
    BY <1>1, UnderwayNext DEF vars
  <2> QED BY <2>1 DEF Copied, ProbeCopied, CacheIsDevice, ListCopied, MapCopied, Settled, Agrees
<1> QED BY <1>1, LoadCopied, ProbingCopied, OutsideCopied, ManagerCopied, WritesCopied
        DEF Next, Tasks, Contents

\* The copies of the layout, with the probe in progress and the map between two rounds.
THEOREM CopiedInvariant == Spec => []Copied
BY InitCopied, NextCopied, TypeInvariant, PTL DEF Spec

\* Each copy of the layout that the session works from agrees with the device slot by slot,
\* however a probe or a write ends: the cache of the session, the list of the manager, and
\* the map of the recorder when the manager is at rest. A write that reached the device and
\* then raised leaves the copies behind at its own slot, and at no other.
THEOREM CopiesHold == Spec => []CopiesAreDevice
<1>1. Copied => CopiesAreDevice
  <2> SUFFICES ASSUME Copied PROVE CopiesAreDevice
    OBVIOUS
  <2>1. manager.pc \in {"menu", "closed"} => Underway = {}
    BY UnderwayLemma
  <2> QED BY <2>1 DEF Copied, ListCopied, MapCopied, Settled, CopiesAreDevice, CacheIsDevice,
                      ManagerShowsDevice, FallbackIsCurrent, Agrees
<1> QED BY <1>1, CopiedInvariant, PTL

-----------------------------------------------------------------------------
(* The rounds. The layout to come is that of the device after the writes   *)
(* that are left: each write takes a slot from one to the other, so that   *)
(* it stays as the plan made it.                                           *)

\* A round has begun, and no write of it has failed.
InRound ==
  \/ manager.pc \in {"writing", "remembering"}
  \/ manager.pc = "loading" /\ manager.kind # None /\ manager.ok

\* The layout when the writes that are left are done.
ToCome == After(device, manager.todo)

\* An add has at most one write to make, to a free slot.
Added ==
  /\ manager.kind = "add" => \A i, j \in DOMAIN manager.todo : i = j
  /\ AddOverwritesNothing

\* The layout to come has the channels that the round is to keep, and none twice; a write
\* that the device has acknowledged is there.
Kept ==
  stale["list"] = {} /\ InRound =>
    /\ manager.keep \subseteq On(ToCome)
    /\ Batch /\ manager.once => ~Twice(ToCome)
    /\ manager.pc = "remembering" => \A i \in Slots : Turn(i) => device[i] = manager.todo[i]

\* A plan of one write keeps what is in the other slots.
LEMMA OneWriteLemma ==
  ASSUME NEW layout \in Layouts, NEW i \in Slots, NEW content \in Contents
  PROVE  On(layout) \ {layout[i]} \subseteq On(After(layout, [j \in {i} |-> content]))
<1> DEFINE after == After(layout, [j \in {i} |-> content])
<1>1. \A j \in Slots \ {i} : after[j] = layout[j]
  BY DEF After
<1> HIDE DEF after
<1>2. ASSUME NEW c \in On(layout) \ {layout[i]} PROVE c \in On(after)
  <2>1. PICK j \in Slots : layout[j] = c /\ c # Empty
    BY DEF On
  <2>2. j # i
    BY <2>1
  <2> QED BY <1>1, <2>1, <2>2 DEF On
<1> QED BY <1>2 DEF after

\* Without writes that are left, the layout to come is there.
LEMMA NothingLeft ==
  ASSUME NEW layout \in Layouts, NEW w, DOMAIN w = {}
  PROVE  After(layout, w) = layout
BY DEF After, Layouts

\* A step keeps the two invariants, each by itself.
Keeps == (Added => Added') /\ (Kept => Kept')

\* What a round begins with: an add with one write, to a slot that was read as free, and any
\* round with writes that keep the channels.
Confirmed(kind, writes) ==
  kind = "add" => \E i \in Slots : DOMAIN writes = {i} /\ device[i] = Empty

Sound(kind, writes, keep) ==
  /\ stale'["list"] = {} => keep \subseteq On(After(device, writes))
  /\ stale'["list"] = {} /\ kind \in {"reorder", "import"} /\ ~Twice(device)
       => ~Twice(After(device, writes))

\* An add has one write, to a slot that it has read as free.
LEMMA AddSound ==
  ASSUME TypeInv, NEW c \in Channels, Add(c)
  PROVE  \E kind \in Kinds, writes \in Writes, keep \in SUBSET Channels :
           /\ Begins(kind, writes, keep) /\ Confirmed(kind, writes)
           /\ Copied => Sound(kind, writes, keep)
<1>1. device \in Layouts /\ c \in Contents
  BY DEF TypeInv, Types, Contents
<1>2. On(device) \in SUBSET Channels
  BY <1>1 DEF On, Layouts
<1>3. CASE \E i \in Slots : device[i] = Empty /\ Begin("add", [j \in {i} |-> c], On(device))
  <2>1. PICK i \in Slots : device[i] = Empty /\ Begin("add", [j \in {i} |-> c], On(device))
    BY <1>3
  <2> DEFINE writes == [j \in {i} |-> c]
  <2>2. writes \in Writes /\ DOMAIN writes = {i}
    BY <1>1, PlansLemma
  <2>3. Begins("add", writes, On(device))
    BY <1>2, <2>1, <2>2, BeginLemma DEF Kinds
  <2>4. On(device) \subseteq On(After(device, writes))
    <3>1. On(device) \ {device[i]} = On(device)
      BY <2>1 DEF On
    <3> QED BY <1>1, <3>1, OneWriteLemma
  <2> HIDE DEF writes
  <2>5. Confirmed("add", writes) /\ Sound("add", writes, On(device))
    BY <2>1, <2>2, <2>4 DEF Confirmed, Sound
  <2> QED BY <1>2, <2>2, <2>3, <2>5 DEF Kinds
<1>4. CASE Begin("refused", NoWrites, {})
  <2>1. Begins("refused", NoWrites, {})
    BY <1>4, WritesLemma, BeginLemma DEF Kinds
  <2>2. Confirmed("refused", NoWrites) /\ Sound("refused", NoWrites, {})
    BY DEF Confirmed, Sound
  <2> QED BY <2>1, <2>2, WritesLemma DEF Kinds
<1> QED BY <1>3, <1>4 DEF Add, NextFree

\* An edit overwrites the channel that the user named.
LEMMA EditSound ==
  ASSUME TypeInv, NEW i \in Slots, NEW content \in Contents, Edit(i, content)
  PROVE  \E kind \in Kinds, writes \in Writes, keep \in SUBSET Channels :
           /\ Begins(kind, writes, keep) /\ Confirmed(kind, writes)
           /\ Copied => Sound(kind, writes, keep)
<1> DEFINE writes == [j \in {i} |-> content]
           keep == On(device) \ {manager.slots[i]}
<1>1. device \in Layouts /\ manager.slots \in Layouts
  BY DEF TypeInv, Types, Manager
<1>2. keep \in SUBSET Channels
  BY <1>1 DEF On, Layouts
<1>3. writes \in Writes
  BY PlansLemma
<1>4. Begin("edit", writes, keep) /\ stale' = stale
  BY DEF Edit
<1>5. Begins("edit", writes, keep)
  BY <1>2, <1>3, <1>4, BeginLemma DEF Kinds
<1>6. Copied /\ stale'["list"] = {} => keep \subseteq On(After(device, writes))
  <2> SUFFICES ASSUME Copied, stale["list"] = {} PROVE keep \subseteq On(After(device, writes))
    BY <1>4
  <2>1. manager.slots = device
    BY <1>1, <1>4 DEF Copied, ListCopied, Agrees, Begin, Layouts
  <2> QED BY <1>1, <2>1, OneWriteLemma
<1> HIDE DEF writes, keep
<1>7. Confirmed("edit", writes) /\ (Copied => Sound("edit", writes, keep))
  BY <1>6 DEF Confirmed, Sound
<1> QED BY <1>2, <1>3, <1>5, <1>7 DEF Kinds

\* A reorder of a true list keeps the channels.
LEMMA ReorderSound ==
  ASSUME TypeInv, NEW order \in Orders(Occupied(manager.slots)), Reorder(order)
  PROVE  \E kind \in Kinds, writes \in Writes, keep \in SUBSET Channels :
           /\ Begins(kind, writes, keep) /\ Confirmed(kind, writes)
           /\ Copied => Sound(kind, writes, keep)
<1> DEFINE writes == ApplyOrder(manager.slots, order)
<1>1. device \in Layouts /\ manager.slots \in Layouts
  BY DEF TypeInv, Types, Manager
<1>2. On(device) \in SUBSET Channels
  BY <1>1 DEF On, Layouts
<1>3. writes \in Writes
  BY <1>1, PlansLemma
<1>4. Begin("reorder", writes, On(device)) /\ stale' = stale
  BY DEF Reorder
<1>5. Begins("reorder", writes, On(device))
  BY <1>2, <1>3, <1>4, BeginLemma DEF Kinds
<1>6. Copied /\ stale'["list"] = {} => /\ On(device) \subseteq On(After(device, writes))
                                       /\ Twice(After(device, writes)) => Twice(device)
  <2> SUFFICES ASSUME Copied, stale["list"] = {}
               PROVE  /\ On(device) \subseteq On(After(device, writes))
                      /\ Twice(After(device, writes)) => Twice(device)
    BY <1>4
  <2>1. manager.slots = device
    BY <1>1, <1>4 DEF Copied, ListCopied, Agrees, Begin, Layouts
  <2> QED BY <1>1, <2>1, ApplyOrderLemma
<1> HIDE DEF writes
<1>7. Confirmed("reorder", writes) /\ (Copied => Sound("reorder", writes, On(device)))
  BY <1>6 DEF Confirmed, Sound
<1> QED BY <1>2, <1>3, <1>5, <1>7 DEF Kinds

\* An import of any file keeps the channels.
LEMMA ImportSound ==
  ASSUME TypeInv, NEW file \in Files, Import(file)
  PROVE  \E kind \in Kinds, writes \in Writes, keep \in SUBSET Channels :
           /\ Begins(kind, writes, keep) /\ Confirmed(kind, writes)
           /\ Copied => Sound(kind, writes, keep)
<1> DEFINE writes == PlanImport(file, device)
<1>1. device \in Layouts
  BY DEF TypeInv, Types
<1>2. On(device) \in SUBSET Channels
  BY <1>1 DEF On, Layouts
<1>3. writes \in Writes
  BY <1>1, PlansLemma
<1>4. Begin("import", writes, On(device))
  BY DEF Import
<1>5. Begins("import", writes, On(device))
  BY <1>2, <1>3, <1>4, BeginLemma DEF Kinds
<1>6. /\ On(device) \subseteq On(After(device, writes))
      /\ Twice(After(device, writes)) => Twice(device)
  BY <1>1, PlanImportLemma
<1> HIDE DEF writes
<1>7. Confirmed("import", writes) /\ (Copied => Sound("import", writes, On(device)))
  BY <1>6 DEF Confirmed, Sound
<1> QED BY <1>2, <1>3, <1>5, <1>7 DEF Kinds

\* A round begins, and its plan keeps the channels.
LEMMA RoundKeeps ==
  ASSUME TypeInv, Round
  PROVE  Added' /\ (Copied => Kept')
<1>1. PICK kind \in Kinds, writes \in Writes, keep \in SUBSET Channels :
        /\ Begins(kind, writes, keep) /\ Confirmed(kind, writes)
        /\ Copied => Sound(kind, writes, keep)
  BY AddSound, EditSound, ReorderSound, ImportSound DEF Round, Contents
<1>2. /\ manager'.kind = kind /\ manager'.todo = writes /\ manager'.keep = keep
      /\ manager'.once = ~Twice(device) /\ manager'.pc # "remembering" /\ device' = device
  BY <1>1 DEF Begins
<1>3. Added'
  BY <1>1, <1>2 DEF Confirmed, Added, AddOverwritesNothing
<1>4. ToCome' = After(device, writes)
  BY <1>2 DEF ToCome, After
<1>5. Copied => Kept'
  BY <1>1, <1>2, <1>4 DEF Kept, Sound, Batch
<1> QED BY <1>3, <1>5

\* Steps that leave the device and the manager, and do not bring a list up to date.
LEMMA OthersKeep ==
  ASSUME UNCHANGED <<device, manager>>, stale["list"] \subseteq stale'["list"]
  PROVE  Keeps
BY DEF Keeps, Added, AddOverwritesNothing, Kept, InRound, ToCome, After, Batch, Turn

\* A return of the layout ends the round of the manager, or is none of its steps.
LEMMA ReturnKeeps ==
  ASSUME TypeInv, NEW who \in Tasks, Asking(who), NEW layout \in Layouts,
         NEW unread \in SUBSET Slots, NEW others \in Stale, others["list"] = stale["list"],
         Return(who, layout, unread, others), UNCHANGED device
  PROVE  Keeps
<1>1. Returns(who, layout, unread, others)
  BY ReturnLemma
<1>2. CASE who = "recorder"
  BY <1>1, <1>2, OthersKeep DEF Returns
<1>3. CASE who = "manager"
  <2>1. Asking("manager") /\ Busy /\ Busy'
    BY <1>3, ReturnLemma DEF TypeInv
  <2>2. manager'.pc \in {"menu", "refiling", "closed"}
    BY <1>1, <1>3 DEF Returns
  <2>3. DOMAIN manager'.todo = {}
    BY <2>1, <2>2 DEF Busy
  <2> QED BY <2>2, <2>3 DEF Keeps, Added, AddOverwritesNothing, Kept, InRound
<1> QED BY <1>2, <1>3 DEF Tasks

\* A probe leaves the writes alone.
LEMMA ProbesKeep ==
  ASSUME TypeInv, Probing \/ \E who \in Tasks : Load(who)
  PROVE  Keeps
<1>1. /\ probe \in Probe /\ stale \in Stale /\ Locked /\ cache \in Layouts \cup {NoLayout}
      /\ probe.stale \in SUBSET Slots /\ probe.found \in Layouts
  BY DEF TypeInv, Types, Probe
<1>2. ASSUME NEW who \in Tasks, FromCache(who) PROVE Keeps
  <2>1. /\ Asking(who) /\ cache # NoLayout /\ Return(who, cache, stale["cache"], stale)
        /\ UNCHANGED device
    BY <1>2 DEF FromCache
  <2>2. cache \in Layouts /\ stale["cache"] \in SUBSET Slots
    BY <1>1, <2>1 DEF Stale, Copies
  <2> QED BY <1>1, <2>1, <2>2, ReturnKeeps
<1>3. ASSUME NEW who \in Tasks, ProbeStart(who) PROVE Keeps
  BY <1>3, OthersKeep DEF ProbeStart
<1>4. CASE ProbeReads
  BY <1>4, OthersKeep DEF ProbeReads
<1>5. probe.by # None => probe.by \in Tasks /\ Asking(probe.by)
  BY <1>1 DEF Probe, Locked
<1>6. CASE ProbeEnds
  <2> DEFINE others == [stale EXCEPT !["cache"] = probe.stale]
  <2>1. probe.by # None /\ Return(probe.by, probe.found, probe.stale, others) /\ UNCHANGED device
    BY <1>6 DEF ProbeEnds
  <2>2. others \in Stale /\ others["list"] = stale["list"]
    BY <1>1 DEF Stale, Copies
  <2> HIDE DEF others
  <2> QED BY <1>1, <1>5, <2>1, <2>2, ReturnKeeps
<1>7. CASE ProbeFails
  <2>1. probe.by # None /\ Return(probe.by, probe.found, probe.stale, stale) /\ UNCHANGED device
    BY <1>7 DEF ProbeFails
  <2> QED BY <1>1, <1>5, <2>1, ReturnKeeps
<1> QED BY <1>2, <1>3, <1>4, <1>6, <1>7 DEF Probing, Load

\* The recorder writes nothing, and the other client ends what the plan promised.
LEMMA OutsideKeeps ==
  ASSUME TypeInv, \/ \E i \in Slots : Resolve(i)
                  \/ \E i \in Slots, content \in Contents : ForeignWrite(i, content)
  PROVE  Keeps
<1>1. stale \in Stale
  BY DEF TypeInv, Types
<1>2. ASSUME NEW i \in Slots, Resolve(i) PROVE Keeps
  <2>1. stale'["list"] = stale["list"] /\ UNCHANGED <<device, manager>>
    BY <1>1, <1>2 DEF Resolve, Stale, Copies
  <2> QED BY <2>1, OthersKeep
<1>3. ASSUME NEW i \in Slots, NEW content \in Contents, ForeignWrite(i, content)
      PROVE  Keeps
  <2>1. Reaches(i, content) /\ stale' = Behind(i) /\ manager' = manager
    BY <1>3, ForeignLemma
  <2>2. \A j \in Slots \ {i} : device'[j] = device[j]
    BY <2>1, ReachesLemma
  <2>3. stale'["list"] = stale["list"] \cup {i}
    BY <2>1 DEF Behind, Copies
  <2>4. Kept'
    BY <2>3 DEF Kept
  <2>5. DOMAIN manager.todo \subseteq Slots
    BY WritesLemma DEF TypeInv, Types, Manager
  <2>6. Added => Added'
    BY <2>1, <2>2, <2>3, <2>5 DEF Added, AddOverwritesNothing
  <2> QED BY <2>4, <2>6 DEF Keeps
<1> QED BY <1>2, <1>3

\* A write, its bookkeeping and a write that raises.
LEMMA WritesKeep ==
  ASSUME TypeInv, Write
  PROVE  Keeps
<1>1. manager.todo \in Writes /\ device \in Layouts
  BY DEF TypeInv, Types, Manager
<1>2. DOMAIN manager.todo \subseteq Slots
  BY <1>1, WritesLemma
<1>3. \A i, j \in Slots : Turn(i) /\ Turn(j) => i = j
  BY TurnLemma
<1>4. CASE WriteDone
  <2>1. /\ manager.pc = "writing" /\ manager'.pc = "remembering" /\ manager'.todo = manager.todo
        /\ manager'.kind = manager.kind /\ manager'.keep = manager.keep
        /\ manager'.once = manager.once /\ stale' = stale
    BY <1>4, WriteDoneLemma DEF WritesSlot
  <2>2. PICK i \in Slots : Puts(i)
    BY <1>4, WriteDoneLemma DEF WritesSlot
  <2>3. /\ device' \in Layouts /\ i \in DOMAIN manager.todo /\ device'[i] = manager.todo[i]
        /\ \A j \in Slots \ {i} : device'[j] = device[j]
    BY <2>2, PutsLemma
  <2>4. ToCome' = ToCome
    BY <2>1, <2>3 DEF ToCome, After
  <2>5. \A j \in Slots : Turn(j)' => device'[j] = manager.todo[j]
    <3> SUFFICES ASSUME NEW j \in Slots, Turn(j)' PROVE device'[j] = manager.todo[j]
      OBVIOUS
    <3>1. Turn(j)
      BY <2>1 DEF Turn
    <3> QED BY <1>3, <2>2, <2>3, <3>1 DEF Puts
  <2>6. Kept => Kept'
    BY <2>1, <2>4, <2>5 DEF Kept, InRound, Batch
  <2>7. Added => Added'
    BY <2>1 DEF Added, AddOverwritesNothing
  <2> QED BY <2>6, <2>7 DEF Keeps
<1>5. CASE Written
  <2>1. PICK i \in Slots : Remembers(i)
    BY <1>5, WrittenLemma
  <2>2. /\ Turn(i) /\ manager.pc = "remembering" /\ manager'.pc # "remembering"
        /\ DOMAIN manager'.todo = DOMAIN manager.todo \ {i}
        /\ \A j \in DOMAIN manager'.todo : manager'.todo[j] = manager.todo[j]
        /\ manager'.kind = manager.kind /\ manager'.keep = manager.keep
        /\ manager'.once = manager.once /\ device' = device
        /\ stale' = stale
    BY <2>1 DEF Remembers
  <2>3. Added /\ manager.kind = "add" => DOMAIN manager'.todo = {}
    BY <2>2 DEF Added, Turn
  <2>4. Added => Added'
    BY <2>2, <2>3 DEF Added, AddOverwritesNothing
  <2>5. Kept /\ stale["list"] = {} => device[i] = manager.todo[i]
    BY <2>2 DEF Kept, InRound
  <2>6. Kept /\ stale["list"] = {} => ToCome' = ToCome
    BY <2>2, <2>5 DEF ToCome, After, Turn
  <2>7. Kept => Kept'
    BY <2>2, <2>6 DEF Kept, InRound, Batch
  <2> QED BY <2>4, <2>7 DEF Keeps
<1>6. ASSUME NEW end \in WriteEnds \ {"done"}, WriteRaises(end) PROVE Keeps
  <2>1. /\ DOMAIN manager'.todo = {}
        /\ \/ manager'.pc = "loading" /\ manager'.ok = FALSE
           \/ manager'.pc \in {"raising", "closed"}
    BY <1>6, WriteRaisesLemma, WritesLemma DEF Raises, Left
  <2> QED BY <2>1 DEF Keeps, Added, AddOverwritesNothing, Kept, InRound
<1> QED BY <1>4, <1>5, <1>6 DEF Write

\* Each step keeps the two; a reorder needs a true list.
LEMMA NextKeeps ==
  ASSUME TypeInv, [Next]_vars
  PROVE  (Added => Added') /\ (Copied /\ Kept => Kept')
<1>1. CASE UNCHANGED vars
  BY <1>1, OthersKeep DEF vars, Keeps
<1>2. CASE OpenManager
  <2>1. manager'.pc = "loading" /\ manager'.todo = NoWrites /\ manager'.kind = None
    BY <1>2, OpenLemma
  <2> QED BY <2>1, WritesLemma DEF Added, AddOverwritesNothing, Kept, InRound
<1>3. CASE CloseManager
  <2>1. manager'.pc = "closed" /\ manager'.todo = NoWrites
    BY <1>3, EmptyLemma DEF CloseManager
  <2> QED BY <2>1, WritesLemma DEF Added, AddOverwritesNothing, Kept, InRound
<1>4. CASE FlowRaises
  <2>1. manager'.pc \in {"raising", "closed"} /\ manager'.todo = NoWrites
    BY <1>4, FlowRaisesLemma
  <2> QED BY <2>1, WritesLemma DEF Added, AddOverwritesNothing, Kept, InRound
<1>5. CASE Round
  BY <1>5, RoundKeeps
<1>6. CASE Keeps
  BY <1>6 DEF Keeps
<1> QED BY <1>1, <1>2, <1>3, <1>4, <1>5, <1>6, ProbesKeep, OutsideKeeps, WritesKeep DEF Next, Tasks, Contents

\* At first there is no round.
LEMMA InitKeeps == Init => Added /\ Kept
<1> SUFFICES ASSUME Init PROVE Added /\ Kept
  OBVIOUS
<1>1. manager.pc = "closed" /\ manager.todo = NoWrites
  BY EmptyLemma DEF Init
<1> QED BY <1>1, WritesLemma DEF Added, AddOverwritesNothing, Kept, InRound

\* An add writes to a slot that is free, whatever list the slot was chosen from and however
\* the writes of the session end, unless another client writes after the confirming read.
THEOREM AddsAreSafe == Spec => []AddOverwritesNothing
<1>1. Init => Added
  BY InitKeeps
<1>2. TypeInv /\ Added /\ [Next]_vars => Added'
  BY NextKeeps
<1>3. Added => AddOverwritesNothing
  BY DEF Added
<1> QED BY <1>1, <1>2, <1>3, TypeInvariant, PTL DEF Spec

\* However the writes of earlier rounds ended, a round of the manager that ends well has lost
\* no channel but the one that the user named, and a reorder or an import has doubled none:
\* for every order of the slots, and every file, however full the device is, as long as the
\* list that the round was planned from is not behind the device.
THEOREM ChannelsAreKept == Spec => []RoundsKeepChannels
<1>1. Init => Kept
  BY InitKeeps
<1>2. TypeInv /\ Copied /\ Kept /\ [Next]_vars => Kept'
  BY NextKeeps
<1>3. TypeInv /\ Kept => RoundsKeepChannels
  <2> SUFFICES ASSUME TypeInv, Kept, Finished PROVE RoundsKeepChannels
    BY DEF RoundsKeepChannels, OnlyNamedChannelsGo, NoChannelTwice
  <2>1. DOMAIN manager.todo = {} /\ device \in Layouts
    BY DEF TypeInv, Types, Busy, Finished
  <2>2. ToCome = device
    BY <2>1, NothingLeft DEF ToCome
  <2> QED BY <2>2 DEF Kept, InRound, Finished, RoundsKeepChannels, OnlyNamedChannelsGo, NoChannelTwice
<1> QED BY <1>1, <1>2, <1>3, TypeInvariant, CopiedInvariant, PTL DEF Spec

=============================================================================
