---------------------------- MODULE AdvertsProofs ----------------------------
(***************************************************************************)
(* Theorems about the weekly advert, for any number of nodes, every length *)
(* of a week, of a quiet period and of a cooldown, and every failed write, *)
(* refusal, lost link, key import and restart.                             *)
(*                                                                         *)
(* Turns says that only the holder of the lock has an advert on the air,   *)
(* Clocks that a stored week is older than the last flood advert only      *)
(* while that advert waits for its answer, and Rested that an advert of    *)
(* the scheduler that found the lock free keeps the full week of its node  *)
(* until it is on the air, however long that takes.                        *)
(***************************************************************************)
EXTENDS Adverts, SequenceTheorems, TLAPS

-----------------------------------------------------------------------------
(* The operators of the model.                                             *)

LEMMA LimitsLemma ==
  /\ WEEK \in Nat /\ WEEK >= 1
  /\ QUIET_S \in Nat /\ COOLDOWN_S \in Nat /\ DUE_CHECK_S \in Nat
  /\ FLOOD_COOLDOWN_S \in Nat
  /\ 0 \in Age(WEEK) /\ Never \in Age(WEEK) /\ 0 \in 0..WEEK /\ WEEK \in 0..WEEK
  /\ DUE_CHECK_S \in 0..DUE_CHECK_S /\ 0 \in 0..QUIET_S
<1>1. /\ WEEK \in Nat /\ WEEK >= 1
      /\ QUIET_S \in Nat /\ COOLDOWN_S \in Nat /\ DUE_CHECK_S \in Nat
      /\ FLOOD_COOLDOWN_S \in Nat
  BY AdvertsAssumption
<1> QED BY <1>1 DEF Age, Never

\* No node has the name of none.
LEMMA NoneLemma == None \notin Nodes
BY AdvertsAssumption

\* The later of two times.
LEMMA MaxLemma ==
  ASSUME NEW a \in Nat, NEW b \in Nat
  PROVE  Max({a, b}) \in {a, b} /\ Max({a, b}) >= a /\ Max({a, b}) >= b
<1>1. \E x \in {a, b} : \A y \in {a, b} : x >= y
  <2>1. CASE a >= b
    BY <2>1
  <2>2. CASE b >= a
    BY <2>2
  <2> QED BY <2>1, <2>2
<1>2. /\ Max({a, b}) \in {a, b}
      /\ \A y \in {a, b} : Max({a, b}) >= y
  BY <1>1 DEF Max
<1> QED BY <1>2

Longest == Max({COOLDOWN_S, FLOOD_COOLDOWN_S})

LEMMA LongestLemma == Longest \in Nat /\ Longest >= COOLDOWN_S
BY LimitsLemma, MaxLemma DEF Longest

Send == [node: Nodes \cup {None}, out: BOOLEAN, behind: BOOLEAN, last: 0..WEEK]

LEMMA NoSendLemma == NoSend \in Send /\ NoSend.node = None /\ NoSend.out = FALSE
BY LimitsLemma DEF NoSend, Send

\* A line of the lock: each actor stands in it once.
IsLine(l) == l \in Seq(Actors) /\ \A j, k \in DOMAIN l : l[j] = l[k] => j = k

\* The line when an actor joins it who is not in it.
LEMMA JoinLemma ==
  ASSUME IsLine(line), NEW a \in Actors, ~InLine(a)
  PROVE  /\ IsLine(Append(line, a)) /\ Append(line, a) # <<>>
         /\ Len(Append(line, a)) = Len(line) + 1
         /\ \A k \in DOMAIN Append(line, a) :
              \/ k \in DOMAIN line /\ Append(line, a)[k] = line[k]
              \/ Append(line, a)[k] = a
         /\ line # <<>> => Head(Append(line, a)) = Head(line)
<1>1. line \in Seq(Actors) /\ DOMAIN line = 1..Len(line) /\ Len(line) \in Nat
  BY DEF IsLine
<1>2. /\ Append(line, a) \in Seq(Actors) /\ Len(Append(line, a)) = Len(line) + 1
      /\ DOMAIN Append(line, a) = 1..(Len(line) + 1)
      /\ Append(line, a)[Len(line) + 1] = a
      /\ \A k \in 1..Len(line) : Append(line, a)[k] = line[k]
  BY <1>1
<1>3. \A k \in DOMAIN Append(line, a) : k \in 1..Len(line) \/ k = Len(line) + 1
  BY <1>1, <1>2
<1>4. \A k \in 1..Len(line) : line[k] # a
  BY <1>1 DEF InLine
<1>5. ASSUME NEW j \in DOMAIN Append(line, a), NEW k \in DOMAIN Append(line, a),
             Append(line, a)[j] = Append(line, a)[k]
      PROVE  j = k
  BY <1>1, <1>2, <1>3, <1>4, <1>5 DEF IsLine
<1>6. line # <<>> => Head(Append(line, a)) = Head(line)
  BY <1>1
<1>7. Append(line, a) # <<>>
  BY <1>1, <1>2
<1> QED BY <1>1, <1>2, <1>3, <1>5, <1>6, <1>7 DEF IsLine

\* The line when an actor leaves it, from any place in it.
LEMMA WithoutLemma ==
  ASSUME IsLine(line), NEW a \in Actors
  PROVE  /\ IsLine(Without(a))
         /\ \A k \in DOMAIN Without(a) :
              \E j \in DOMAIN line : Without(a)[k] = line[j] /\ line[j] # a
         /\ \A b \in Actors : line # <<>> /\ Head(line) = b /\ b # a
              => Without(a) # <<>> /\ Head(Without(a)) = b
<1>1. line \in Seq(Actors) /\ DOMAIN line = 1..Len(line) /\ Len(line) \in Nat
  BY DEF IsLine
<1>2. CASE ~InLine(a)
  <2>1. Without(a) = line
    BY <1>2 DEF Without
  <2> QED BY <1>1, <1>2, <2>1 DEF InLine
<1>3. CASE InLine(a)
  <2> DEFINE p == CHOOSE k \in DOMAIN line : line[k] = a
             head == SubSeq(line, 1, p - 1)
             tail == SubSeq(line, p + 1, Len(line))
  <2>1. p \in 1..Len(line) /\ line[p] = a
    BY <1>1, <1>3 DEF InLine
  <2>2. Without(a) = head \o tail
    BY <1>3 DEF Without
  <2> HIDE DEF p
  <2>3. /\ head \in Seq(Actors) /\ Len(head) = p - 1
        /\ \A k \in 1..(p - 1) : head[k] = line[k]
    BY <1>1, <2>1
  <2>4. /\ tail \in Seq(Actors) /\ Len(tail) = Len(line) - p
        /\ \A k \in 1..(Len(line) - p) : tail[k] = line[p + k]
    <3>1. /\ \A k \in (p + 1)..Len(line) : line[k] \in Actors
          /\ p + 1 \in Int /\ Len(line) \in Int
      BY <1>1, <2>1
    <3>2. /\ tail \in Seq(Actors)
          /\ Len(tail) = IF p + 1 <= Len(line) THEN Len(line) - (p + 1) + 1 ELSE 0
          /\ \A k \in 1..(Len(line) - (p + 1) + 1) : tail[k] = line[p + 1 + k - 1]
      BY <3>1, SubSeqProperties
    <3>3. Len(line) - (p + 1) + 1 = Len(line) - p /\ \A k \in Int : p + 1 + k - 1 = p + k
      BY <1>1, <2>1
    <3> HIDE DEF tail
    <3>4. Len(tail) = Len(line) - p
      <4>1. p \in Nat /\ Len(line) \in Nat /\ p <= Len(line)
        BY <1>1, <2>1
      <4>2. CASE p + 1 <= Len(line)
        <5>1. Len(tail) = Len(line) - (p + 1) + 1
          BY <3>2, <4>2
        <5> QED BY <3>3, <5>1
      <4>3. CASE ~(p + 1 <= Len(line))
        <5>1. Len(tail) = 0 /\ Len(line) = p
          BY <3>2, <4>1, <4>3
        <5> QED BY <4>1, <5>1
      <4> QED BY <4>2, <4>3
    <3>5. ASSUME NEW k \in 1..(Len(line) - p)
          PROVE  tail[k] = line[p + k]
      <4>1. tail[k] = line[p + 1 + k - 1]
        BY <3>2, <3>3
      <4>2. p + 1 + k - 1 = p + k
        BY <2>1
      <4> QED BY <4>1, <4>2
    <3> QED BY <3>2, <3>4, <3>5
  <2> HIDE DEF head, tail
  <2> DEFINE rest == head \o tail
             at(k) == IF k < p THEN k ELSE k + 1
  <2>5. /\ rest \in Seq(Actors) /\ Len(rest) = Len(line) - 1
        /\ DOMAIN rest = 1..(Len(line) - 1)
    <3>1. rest \in Seq(Actors) /\ Len(rest) = Len(head) + Len(tail)
      BY <2>3, <2>4, ConcatProperties
    <3>2. Len(rest) = Len(line) - 1
      BY <1>1, <2>1, <2>3, <2>4, <3>1
    <3> HIDE DEF rest
    <3> QED BY <3>1, <3>2
  <2>6. ASSUME NEW k \in 1..(Len(line) - 1)
        PROVE  rest[k] = line[at(k)] /\ at(k) \in DOMAIN line /\ at(k) # p
    <3>1. CASE k < p
      BY <1>1, <2>1, <2>3, <2>4, <3>1
    <3>2. CASE ~(k < p)
      <4>1. /\ k - (p - 1) \in 1..(Len(line) - p)
            /\ rest[k] = tail[k - (p - 1)]
        BY <1>1, <2>1, <2>3, <2>4, <3>2
      <4>2. tail[k - (p - 1)] = line[p + (k - (p - 1))] /\ p + (k - (p - 1)) = k + 1
        BY <2>1, <2>4, <4>1
      <4> QED BY <1>1, <2>1, <3>2, <4>1, <4>2
    <3> QED BY <3>1, <3>2
  <2> HIDE DEF rest
  <2>7. \A j, k \in DOMAIN rest : rest[j] = rest[k] => j = k
    <3> SUFFICES ASSUME NEW j \in 1..(Len(line) - 1), NEW k \in 1..(Len(line) - 1),
                        rest[j] = rest[k]
                 PROVE  j = k
      BY <2>5
    <3>1. line[at(j)] = line[at(k)] /\ at(j) \in DOMAIN line /\ at(k) \in DOMAIN line
      BY <2>6
    <3>2. at(j) = at(k)
      BY <3>1 DEF IsLine
    <3> QED BY <3>2, <2>1
  <2>8. \A k \in DOMAIN rest : \E j \in DOMAIN line : rest[k] = line[j] /\ line[j] # a
    <3> SUFFICES ASSUME NEW k \in 1..(Len(line) - 1)
                 PROVE  \E j \in DOMAIN line : rest[k] = line[j] /\ line[j] # a
      BY <2>5
    <3>1. rest[k] = line[at(k)] /\ at(k) \in DOMAIN line /\ at(k) # p
      BY <2>6
    <3>2. line[at(k)] # a
      BY <1>1, <2>1, <3>1 DEF IsLine
    <3> QED BY <3>1, <3>2
  <2>9. ASSUME line # <<>>, Head(line) # a
        PROVE  rest # <<>> /\ Head(rest) = Head(line)
    <3>1. Head(line) = line[1] /\ p # 1
      BY <1>1, <2>1, <2>9
    <3>2. 1 \in 1..(Len(line) - 1) /\ 1 < p
      BY <1>1, <2>1, <3>1
    <3>3. rest[1] = line[1]
      BY <2>6, <3>2
    <3> QED BY <2>5, <3>1, <3>2, <3>3
  <2> QED BY <2>2, <2>5, <2>7, <2>8, <2>9 DEF IsLine, rest
<1> QED BY <1>2, <1>3

-----------------------------------------------------------------------------
(* The invariants.                                                         *)

\* The parts of the type.
StoreOK ==
  /\ pref \in BOOLEAN /\ on \in Age(WEEK) /\ since \in [Nodes -> Age(WEEK)]
  /\ onFor \in 0..WEEK /\ backdated \in BOOLEAN /\ flooded \in [Nodes -> 0..WEEK]

LinkOK ==
  /\ conn \in Nodes \cup {None} /\ mine \in BOOLEAN /\ heard \in BOOLEAN
  /\ mine \/ heard => conn # None

MindOK == key \in Nodes \cup {None} /\ due \in BOOLEAN /\ checked \in 0..DUE_CHECK_S

AirOK ==
  /\ silent \in 0..QUIET_S /\ cool \in 0..Longest
  /\ send \in [Actors -> Send]
  /\ IsLine(line)

PassOK == pass = "sending" <=> send["scheduler"] # NoSend

LEMMA TypeParts == TypeOK <=> StoreOK /\ LinkOK /\ MindOK /\ AirOK /\ PassOK
BY DEF TypeOK, StoreOK, LinkOK, MindOK, AirOK, PassOK, Longest, Send, IsLine

\* Who stands in the line sends. Only its head has an advert on the air, from a node.
Turns ==
  /\ \A k \in DOMAIN line : send[line[k]].node # None
  /\ line # <<>> => conn # None
  /\ \A a \in Actors : send[a].out => line # <<>> /\ Head(line) = a /\ send[a].node \in Nodes
  /\ \A a \in Actors : send[a].node = None => send[a] = NoSend

\* The store and what happened: the stored week of a node is behind its last flood advert
\* only while that advert waits for its answer, and never behind the one before. The stored
\* switch-on is not before the real one, if it could be written.
Clocks ==
  /\ \A n \in Nodes : since[n] <= flooded[n] \/ \E a \in Actors : send[a].out /\ send[a].node = n
  /\ \A a \in Actors : send[a].out => since[send[a].node] <= send[a].last
  /\ pref /\ ~backdated => on <= onFor

\* An advert of the scheduler that found the lock free holds it, and no flood advert of its
\* node has gone out for a week, until it is on the air itself.
Rested ==
  \A k \in DOMAIN line :
    line[k] = "scheduler" /\ ~send["scheduler"].behind /\ ~send["scheduler"].out
      => k = 1 /\ key \in Nodes /\ flooded[key] >= WEEK

Inv == StoreOK /\ LinkOK /\ MindOK /\ AirOK /\ PassOK /\ Turns /\ Clocks /\ Rested

LEMMA SendLemma ==
  ASSUME AirOK, NEW a \in Actors
  PROVE  /\ send[a] \in Send
         /\ send[a].node \in Nodes \cup {None} /\ send[a].out \in BOOLEAN
         /\ send[a].behind \in BOOLEAN /\ send[a].last \in 0..WEEK
<1>1. send[a] \in Send
  BY DEF AirOK
<1> QED BY <1>1 DEF Send

LEMMA InvInit == Init => Inv
<1> SUFFICES ASSUME Init PROVE Inv
  OBVIOUS
<1>1. StoreOK /\ LinkOK /\ MindOK
  <2>1. StoreOK
    BY LimitsLemma DEF Init, StoreOK
  <2>2. LinkOK
    BY DEF Init, LinkOK
  <2>3. MindOK
    BY LimitsLemma DEF Init, MindOK
  <2> QED BY <2>1, <2>2, <2>3
<1>2. line = <<>> /\ \A a \in Actors : send[a] = NoSend
  BY DEF Init
<1>3. AirOK
  <2>1. send \in [Actors -> Send]
    BY NoSendLemma DEF Init
  <2>2. IsLine(<<>>)
    BY DEF IsLine
  <2> QED BY <1>2, <2>1, <2>2, LimitsLemma, LongestLemma DEF Init, AirOK
<1>4. PassOK
  BY <1>2 DEF Init, PassOK, Actors
<1>5. Turns
  BY <1>2, NoSendLemma DEF Turns
<1>6. Clocks
  <2>1. -1 <= WEEK
    BY LimitsLemma
  <2> QED BY <1>2, <2>1, NoSendLemma DEF Init, Clocks, Never
<1>7. Rested
  BY <1>2 DEF Rested
<1> QED BY <1>1, <1>3, <1>4, <1>5, <1>6, <1>7 DEF Inv

\* An actor that sends nothing asks for the lock.
LEMMA StartsLemma ==
  ASSUME Inv, NEW a \in Actors, conn \in Nodes, send[a] = NoSend, Starts(a), conn' = conn
  PROVE  /\ AirOK' /\ Turns'
         /\ send'[a].node = conn /\ send'[a] # NoSend
         /\ \A b \in Actors : b # a => send'[b] = send[b]
         /\ \A b \in Actors : /\ send'[b].out = send[b].out
                              /\ send[b].out => send'[b] = send[b]
         /\ \A k \in DOMAIN line' : \/ k \in DOMAIN line /\ line'[k] = line[k]
                                    \/ line'[k] = a
         /\ a = "scheduler" /\ ~send'[a].behind => line = <<>> /\ \A k \in DOMAIN line' : k = 1
<1> DEFINE new == [NoSend EXCEPT !.node = conn, !.behind = (a = "scheduler" /\ line # <<>>)]
<1>1. AirOK /\ Turns
  BY DEF Inv
<1>2. /\ send' = [send EXCEPT ![a].node = conn, ![a].behind = (a = "scheduler" /\ line # <<>>)]
      /\ line' = Append(line, a)
      /\ silent' = 0 /\ cool' = Longest
  BY DEF Starts, Longest
<1>3. send' = [send EXCEPT ![a] = new] /\ new \in Send
  <2>1. send' = [send EXCEPT ![a] = [send[a] EXCEPT !.node = conn,
                                                    !.behind = (a = "scheduler" /\ line # <<>>)]]
    BY <1>1, <1>2 DEF AirOK
  <2>2. send' = [send EXCEPT ![a] = new]
    BY <2>1
  <2>3. new \in Send
    BY LimitsLemma DEF NoSend, Send
  <2> QED BY <2>2, <2>3
<1>4. ~InLine(a)
  BY <1>1, NoSendLemma DEF InLine, Turns
<1>5. /\ IsLine(line') /\ line' # <<>>
      /\ \A k \in DOMAIN line' :
           \/ k \in DOMAIN line /\ line'[k] = line[k]
           \/ line'[k] = a
      /\ line # <<>> => Head(line') = Head(line)
      /\ Len(line') = Len(line) + 1
  BY <1>1, <1>2, <1>4, JoinLemma DEF AirOK
<1>6. send'[a] = new /\ \A b \in Actors : b # a => send'[b] = send[b]
  BY <1>1, <1>3 DEF AirOK
<1>7. /\ new.node = conn /\ new.out = FALSE /\ conn # None
      /\ new.behind = (a = "scheduler" /\ line # <<>>)
  BY NoneLemma DEF NoSend
<1> HIDE DEF new
<1>8. AirOK'
  <2>1. send' \in [Actors -> Send]
    BY <1>1, <1>3 DEF AirOK
  <2>2. cool' \in 0..Longest /\ silent' \in 0..QUIET_S
    BY <1>2, LimitsLemma, LongestLemma
  <2> QED BY <1>5, <2>1, <2>2 DEF AirOK
<1>9. Turns'
  <2>1. \A k \in DOMAIN line' : send'[line'[k]].node # None
    <3> SUFFICES ASSUME NEW k \in DOMAIN line' PROVE send'[line'[k]].node # None
      OBVIOUS
    <3>1. CASE line'[k] = a
      BY <1>6, <1>7, <3>1
    <3>2. CASE line'[k] # a
      <4>1. k \in DOMAIN line /\ line'[k] = line[k] /\ line[k] \in Actors
        BY <1>1, <1>5, <3>2 DEF AirOK, IsLine
      <4> QED BY <1>1, <1>6, <3>2, <4>1 DEF Turns
    <3> QED BY <3>1, <3>2
  <2>2. \A b \in Actors : send'[b].out => line' # <<>> /\ Head(line') = b /\ send'[b].node \in Nodes
    BY <1>1, <1>5, <1>6, <1>7 DEF Turns
  <2>3. \A b \in Actors : send'[b].node = None => send'[b] = NoSend
    BY <1>1, <1>6, <1>7 DEF Turns
  <2> QED BY <1>7, <2>1, <2>2, <2>3 DEF Turns
<1>10. send'[a] # NoSend
  BY <1>6, <1>7, NoSendLemma
<1>11. a = "scheduler" /\ ~send'[a].behind => line = <<>> /\ \A k \in DOMAIN line' : k = 1
  <2> SUFFICES ASSUME a = "scheduler", ~send'[a].behind
               PROVE  line = <<>> /\ \A k \in DOMAIN line' : k = 1
    OBVIOUS
  <2>1. line = <<>>
    BY <1>6, <1>7
  <2>2. Len(line') = 1 /\ DOMAIN line' = 1..Len(line')
    BY <1>5, <2>1 DEF IsLine
  <2> QED BY <2>1, <2>2
<1> QED BY <1>5, <1>6, <1>7, <1>8, <1>9, <1>10, <1>11, NoSendLemma

\* An actor leaves send_advert().
LEMMA EndsLemma ==
  ASSUME Inv, NEW a \in Actors, Ends(a), UNCHANGED <<conn, key, silent, cool>>,
         flooded' \in {flooded, Unmarked({a})}
  PROVE  /\ AirOK' /\ Turns' /\ Rested'
         /\ send'[a] = NoSend
         /\ \A b \in Actors : b # a => send'[b] = send[b]
<1>1. AirOK /\ Turns
  BY DEF Inv
<1>2. send' = [send EXCEPT ![a] = NoSend] /\ line' = Without(a)
  BY DEF Ends
<1>3. send'[a] = NoSend /\ \A b \in Actors : b # a => send'[b] = send[b]
  BY <1>1, <1>2 DEF AirOK
<1>4. /\ IsLine(line')
      /\ \A k \in DOMAIN line' : \E j \in DOMAIN line : line'[k] = line[j] /\ line[j] # a
      /\ \A b \in Actors : line # <<>> /\ Head(line) = b /\ b # a => line' # <<>> /\ Head(line') = b
  BY <1>1, <1>2, WithoutLemma DEF AirOK
<1>5. AirOK'
  BY <1>1, <1>2, <1>4, NoSendLemma DEF AirOK
<1>6. Turns'
  <2>1. \A k \in DOMAIN line' : send'[line'[k]].node # None
    <3> SUFFICES ASSUME NEW k \in DOMAIN line' PROVE send'[line'[k]].node # None
      OBVIOUS
    <3>1. PICK j \in DOMAIN line : line'[k] = line[j] /\ line[j] # a
      BY <1>4
    <3>2. line[j] \in Actors
      BY <1>1 DEF AirOK, IsLine
    <3> QED BY <1>1, <1>3, <3>1, <3>2 DEF Turns
  <2>2. line' # <<>> => line # <<>>
    <3>1. line' # <<>> => 1 \in DOMAIN line'
      BY <1>4 DEF IsLine
    <3>2. 1 \in DOMAIN line' => \E j \in DOMAIN line : TRUE
      BY <1>4
    <3>3. line = <<>> => DOMAIN line = {}
      OBVIOUS
    <3> QED BY <3>1, <3>2, <3>3
  <2>3. \A b \in Actors : send'[b].out => line' # <<>> /\ Head(line') = b /\ send'[b].node \in Nodes
    BY <1>1, <1>3, <1>4, NoSendLemma DEF Turns
  <2> QED BY <1>1, <1>3, <2>1, <2>2, <2>3, NoSendLemma DEF Turns
<1>7. Rested'
  <2> SUFFICES ASSUME NEW k \in DOMAIN line', line'[k] = "scheduler",
                      ~send'["scheduler"].behind, ~send'["scheduler"].out
               PROVE  k = 1 /\ key \in Nodes /\ flooded'[key] >= WEEK
    BY DEF Rested
  <2>1. PICK j \in DOMAIN line : line'[k] = line[j] /\ line[j] # a
    BY <1>4
  <2>2. "scheduler" \in Actors /\ a # "scheduler" /\ send'["scheduler"] = send["scheduler"]
    BY <1>3, <2>1 DEF Actors
  <2>3. j = 1 /\ key \in Nodes /\ flooded[key] >= WEEK
    BY <2>1, <2>2 DEF Inv, Rested
  <2>4. line # <<>> /\ Head(line) = "scheduler"
    BY <1>1, <2>1, <2>3 DEF AirOK, IsLine
  <2>5. line' # <<>> /\ Head(line') = "scheduler"
    BY <1>4, <2>2, <2>4
  <2>6. 1 \in DOMAIN line' /\ line'[1] = "scheduler"
    BY <1>4, <2>5 DEF IsLine
  <2>7. k = 1
    BY <1>4, <2>6 DEF IsLine
  <2>8. ~send[a].out
    BY <1>1, <2>2, <2>4 DEF Turns
  <2>9. Unmarked({a})[key] = flooded[key]
    BY <2>3, <2>8 DEF Unmarked
  <2> QED BY <2>3, <2>7, <2>9
<1> QED BY <1>3, <1>5, <1>6, <1>7

\* What the history says when the adverts of some actors are never marked.
LEMMA UnmarkedLemma ==
  ASSUME AirOK, StoreOK, NEW lost \in SUBSET Actors
  PROVE  /\ Unmarked(lost) \in [Nodes -> 0..WEEK]
         /\ \A n \in Nodes :
              \/ \E a \in lost : /\ send[a].out /\ send[a].node = n
                                  /\ Unmarked(lost)[n] = send[a].last
              \/ /\ Unmarked(lost)[n] = flooded[n]
                 /\ \A a \in lost : ~(send[a].out /\ send[a].node = n)
<1> DEFINE gone(n) == {a \in lost : send[a].out /\ send[a].node = n}
           before(n) == IF gone(n) = {} THEN flooded[n] ELSE send[CHOOSE a \in gone(n) : TRUE].last
<1>1. Unmarked(lost) = [n \in Nodes |-> before(n)]
  BY DEF Unmarked
<1>2. ASSUME NEW n \in Nodes
      PROVE  /\ before(n) \in 0..WEEK
             /\ \/ \E a \in lost : send[a].out /\ send[a].node = n /\ before(n) = send[a].last
                \/ before(n) = flooded[n] /\ \A a \in lost : ~(send[a].out /\ send[a].node = n)
  <2>1. CASE gone(n) = {}
    BY <2>1 DEF StoreOK
  <2>2. CASE gone(n) # {}
    <3>1. PICK a \in gone(n) : before(n) = send[a].last
      BY <2>2
    <3>2. a \in lost /\ a \in Actors /\ send[a].out /\ send[a].node = n
      BY <3>1
    <3> QED BY <3>1, <3>2, SendLemma
  <2> QED BY <2>1, <2>2
<1> QED BY <1>1, <1>2

\* The clocks when some adverts end without a mark, those of the others unchanged.
LEMMA EndedClocks ==
  ASSUME Inv, NEW lost \in SUBSET Actors, flooded' = Unmarked(lost),
         \A n \in Nodes : since'[n] \in {0, since[n]},
         pref' /\ ~backdated' => on' <= onFor',
         \A b \in Actors : IF b \in lost THEN ~send'[b].out ELSE send'[b] = send[b]
  PROVE  flooded' \in [Nodes -> 0..WEEK] /\ Clocks'
<1>1. StoreOK /\ AirOK /\ Turns /\ Clocks
  BY DEF Inv
<1>2. /\ flooded' \in [Nodes -> 0..WEEK]
      /\ \A n \in Nodes :
           \/ \E a \in lost : send[a].out /\ send[a].node = n /\ flooded'[n] = send[a].last
           \/ flooded'[n] = flooded[n] /\ \A a \in lost : ~(send[a].out /\ send[a].node = n)
  BY <1>1, UnmarkedLemma
<1>3. \A n \in Nodes : since[n] \in Age(WEEK)
  BY <1>1 DEF StoreOK
<1>4. ASSUME NEW n \in Nodes
      PROVE  since'[n] <= flooded'[n] \/ \E a \in Actors : send'[a].out /\ send'[a].node = n
  <2>1. CASE \E a \in lost : send[a].out /\ send[a].node = n /\ flooded'[n] = send[a].last
    <3>1. PICK a \in lost : send[a].out /\ send[a].node = n /\ flooded'[n] = send[a].last
      BY <2>1
    <3>2. a \in Actors /\ since[n] <= send[a].last
      BY <1>1, <3>1 DEF Clocks
    <3>3. send[a].last \in 0..WEEK
      BY <1>1, <3>2, SendLemma
    <3> QED BY <1>3, <3>1, <3>2, <3>3, LimitsLemma DEF Age
  <2>2. CASE flooded'[n] = flooded[n] /\ \A a \in lost : ~(send[a].out /\ send[a].node = n)
    <3>1. CASE since[n] <= flooded[n]
      BY <1>1, <1>3, <2>2, <3>1, LimitsLemma DEF StoreOK, Age
    <3>2. CASE \E a \in Actors : send[a].out /\ send[a].node = n
      BY <2>2, <3>2
    <3> QED BY <1>1, <3>1, <3>2 DEF Clocks
  <2> QED BY <1>2, <2>1, <2>2
<1>5. ASSUME NEW a \in Actors, send'[a].out
      PROVE  since'[send'[a].node] <= send'[a].last
  <2>1. send'[a] = send[a] /\ send[a].node \in Nodes
    BY <1>1, <1>5 DEF Turns
  <2>2. since[send[a].node] <= send[a].last /\ send[a].last \in 0..WEEK
    BY <1>1, <1>5, <2>1, SendLemma DEF Clocks
  <2> QED BY <1>3, <2>1, <2>2, LimitsLemma DEF Age
<1> QED BY <1>2, <1>4, <1>5 DEF Clocks

-----------------------------------------------------------------------------
(* The adverts.                                                            *)

\* The clocks when no advert begins or ends to be on the air.
LEMMA ClocksKeep ==
  ASSUME Inv, flooded' = flooded, pref' /\ ~backdated' => on' <= onFor',
         \A n \in Nodes : since'[n] = since[n] \/ since'[n] = 0,
         \A b \in Actors : send'[b].out = send[b].out /\ (send[b].out => send'[b] = send[b])
  PROVE  Clocks'
<1>1. \A n \in Nodes : flooded[n] \in 0..WEEK
  BY DEF Inv, StoreOK
<1>2. \A n \in Nodes : since'[n] <= flooded[n] \/ \E a \in Actors : send[a].out /\ send[a].node = n
  BY <1>1 DEF Inv, Clocks
<1>3. ASSUME NEW a \in Actors, send[a].out
      PROVE  since'[send[a].node] <= send[a].last
  <2>1. send[a].node \in Nodes /\ since[send[a].node] <= send[a].last
    BY <1>3 DEF Inv, Turns, Clocks
  <2>2. send[a].last \in 0..WEEK
    BY SendLemma DEF Inv
  <2> QED BY <2>1, <2>2, LimitsLemma
<1> QED BY <1>2, <1>3 DEF Inv, Clocks

\* While the scheduler sends nothing, it does not stand in the line.
LEMMA NotInLine ==
  ASSUME Inv, pass # "sending"
  PROVE  \A k \in DOMAIN line : line[k] # "scheduler"
BY NoSendLemma DEF Inv, PassOK, Turns

\* What an advert of the scheduler keeps, when the lock and the history stay as they are.
LEMMA RestedKeeps ==
  ASSUME Inv, UNCHANGED <<line, flooded, send>>, key' = key \/ pass # "sending"
  PROVE  Rested'
<1>1. CASE key' = key
  BY <1>1 DEF Inv, Rested
<1>2. CASE pass # "sending"
  BY <1>2, NotInLine DEF Rested
<1> QED BY <1>1, <1>2

LEMMA UserSendsKeeps == Inv /\ UserSends => Inv'
<1> SUFFICES ASSUME Inv, UserSends PROVE Inv'
  OBVIOUS
<1>1. /\ conn \in Nodes /\ send["user"] = NoSend /\ Starts("user")
      /\ UNCHANGED <<pref, on, since, conn, mine, heard, key, due, checked, pass, onFor, backdated,
                     flooded>>
  BY DEF Inv, LinkOK, UserSends, store, link, mind, history
<1>2. "user" \in Actors /\ "scheduler" \in Actors /\ "user" # "scheduler"
  BY DEF Actors
<1>3. /\ AirOK' /\ Turns'
      /\ send'["scheduler"] = send["scheduler"]
      /\ \A b \in Actors : send'[b].out = send[b].out /\ (send[b].out => send'[b] = send[b])
      /\ \A k \in DOMAIN line' : \/ k \in DOMAIN line /\ line'[k] = line[k]
                                 \/ line'[k] = "user"
  BY <1>1, <1>2, StartsLemma
<1>4. pref' /\ ~backdated' => on' <= onFor'
  BY <1>1 DEF Inv, Clocks
<1>5. Clocks'
  BY <1>1, <1>3, <1>4, ClocksKeep
<1>6. Rested'
  BY <1>1, <1>2, <1>3 DEF Inv, Rested
<1> QED BY <1>1, <1>3, <1>5, <1>6 DEF Inv, StoreOK, LinkOK, MindOK, PassOK

LEMMA OtherSendKeeps == Inv /\ OtherSend => Inv'
<1> SUFFICES ASSUME Inv, OtherSend PROVE Inv'
  OBVIOUS
<1>1. /\ silent' = 0 /\ cool' = Max({cool, COOLDOWN_S})
      /\ UNCHANGED <<pref, on, since, conn, mine, heard, key, due, checked, send, line, pass,
                     onFor, backdated, flooded>>
  BY DEF OtherSend, store, link, mind, history
<1>2. cool \in 0..Longest /\ Longest \in Nat
  BY LongestLemma DEF Inv, AirOK
<1>3. cool' \in 0..Longest
  BY <1>1, <1>2, LimitsLemma, LongestLemma, MaxLemma
<1>4. AirOK'
  BY <1>1, <1>3, LimitsLemma DEF Inv, AirOK, IsLine
<1>5. Turns' /\ Clocks'
  BY <1>1 DEF Inv, Turns, Clocks
<1>6. Rested'
  BY <1>1, RestedKeeps
<1> QED BY <1>1, <1>4, <1>5, <1>6 DEF Inv, StoreOK, LinkOK, MindOK, PassOK

\* Only the holder of the lock has an advert on the air.
LEMMA OneOnAir ==
  ASSUME Inv, NEW a \in Actors, NEW b \in Actors, send[a].out, send[b].out
  PROVE  a = b
BY DEF Inv, Turns

LEMMA HandOverKeeps == ASSUME NEW a \in Actors, Inv, HandOver(a) PROVE Inv'
<1> DEFINE new == [node |-> conn, out |-> TRUE, behind |-> FALSE, last |-> flooded[conn]]
<1>1. /\ line # <<>> /\ Head(line) = a /\ ~send[a].out
      /\ send' = [send EXCEPT ![a] = new]
      /\ flooded' = [flooded EXCEPT ![conn] = 0]
      /\ UNCHANGED <<pref, on, since, conn, mine, heard, key, due, checked, silent, cool, line, pass,
                     onFor, backdated>>
  BY DEF HandOver, store, link, mind
<1>2. StoreOK /\ LinkOK /\ MindOK /\ AirOK /\ PassOK /\ Turns /\ Clocks /\ Rested
  BY DEF Inv
<1>3. conn \in Nodes
  BY <1>1, <1>2 DEF Turns, LinkOK
<1>4. /\ new \in Send /\ new.node = conn /\ new.out = TRUE
      /\ new.last = flooded[conn] /\ flooded[conn] \in 0..WEEK
  BY <1>2, <1>3 DEF Send, StoreOK
<1> HIDE DEF new
<1>5. send'[a] = new /\ \A b \in Actors : b # a => send'[b] = send[b]
  BY <1>1, <1>2 DEF AirOK
<1>6. \A b \in Actors : ~send[b].out
  BY <1>1, <1>2 DEF Turns
<1>7. AirOK'
  BY <1>1, <1>2, <1>4 DEF AirOK, IsLine
<1>8. 1 \in DOMAIN line /\ line[1] = a
  BY <1>1, <1>2 DEF AirOK, IsLine
<1>9. send[a].node # None /\ send[a] # NoSend /\ new # NoSend
  BY <1>2, <1>4, <1>8, NoSendLemma DEF Turns
<1>10. PassOK'
  BY <1>1, <1>2, <1>5, <1>9 DEF PassOK, Actors
<1>11. Turns'
  <2>1. \A k \in DOMAIN line : send'[line[k]].node # None
    BY <1>2, <1>3, <1>4, <1>5, NoneLemma DEF Turns, AirOK, IsLine
  <2>2. \A b \in Actors : send'[b].out => b = a
    BY <1>5, <1>6
  <2>3. \A b \in Actors : send'[b].node = None => send'[b] = NoSend
    BY <1>2, <1>3, <1>4, <1>5, NoneLemma DEF Turns
  <2> QED BY <1>1, <1>3, <1>4, <1>5, <2>1, <2>2, <2>3, NoneLemma DEF Turns
<1>12. StoreOK'
  BY <1>1, <1>2, <1>3, LimitsLemma DEF StoreOK
<1>13. Clocks'
  <2>1. flooded'[conn] = 0 /\ \A n \in Nodes : n # conn => flooded'[n] = flooded[n]
    BY <1>1, <1>2, <1>3 DEF StoreOK
  <2>2. \A n \in Nodes : since[n] <= flooded[n]
    BY <1>2, <1>6 DEF Clocks
  <2>3. \A b \in Actors : send'[b].out => since[send'[b].node] <= send'[b].last
    BY <1>3, <1>4, <1>5, <1>6, <2>2
  <2>4. \A n \in Nodes : since[n] <= flooded'[n] \/ \E b \in Actors : send'[b].out /\ send'[b].node = n
    BY <1>4, <1>5, <2>1, <2>2
  <2> QED BY <1>1, <1>2, <2>3, <2>4 DEF Clocks
<1>14. Rested'
  <2>1. CASE a = "scheduler"
    BY <1>4, <1>5, <2>1 DEF Rested
  <2>2. CASE a # "scheduler"
    <3>1. "scheduler" \in Actors /\ send'["scheduler"] = send["scheduler"]
      BY <1>5, <2>2 DEF Actors
    <3> QED BY <1>1, <1>2, <1>8, <2>2, <3>1 DEF Rested
  <2> QED BY <2>1, <2>2
<1> QED BY <1>1, <1>2, <1>7, <1>10, <1>11, <1>12, <1>13, <1>14 DEF Inv, LinkOK, MindOK

\* An advert that ends without a mark.
LEMMA RaisesKeeps == ASSUME NEW a \in Actors, Inv, Raises(a) PROVE Inv'
<1>1. /\ flooded' = Unmarked({a}) /\ Ends(a)
      /\ IF a = "scheduler" THEN due' = FALSE /\ pass' = "idle" ELSE UNCHANGED <<due, pass>>
      /\ UNCHANGED <<pref, on, since, conn, mine, heard, key, checked, silent, cool, onFor, backdated>>
  BY DEF Raises, store, link
<1>2. StoreOK /\ LinkOK /\ MindOK /\ AirOK /\ PassOK /\ Turns /\ Clocks
  BY DEF Inv
<1>3. /\ AirOK' /\ Turns' /\ Rested' /\ send'[a] = NoSend
      /\ \A b \in Actors : b # a => send'[b] = send[b]
  BY <1>1, EndsLemma
<1>4. flooded' \in [Nodes -> 0..WEEK] /\ Clocks'
  <2>1. pref' /\ ~backdated' => on' <= onFor'
    BY <1>1, <1>2 DEF Clocks
  <2>2. \A b \in Actors : IF b \in {a} THEN ~send'[b].out ELSE send'[b] = send[b]
    BY <1>3, NoSendLemma
  <2> QED BY <1>1, <2>1, <2>2, EndedClocks
<1>5. StoreOK' /\ LinkOK' /\ MindOK'
  BY <1>1, <1>2, <1>4 DEF StoreOK, LinkOK, MindOK
<1>6. PassOK'
  BY <1>1, <1>2, <1>3 DEF PassOK, Actors
<1> QED BY <1>3, <1>4, <1>5, <1>6 DEF Inv

\* An answered advert restarts at most the week of its own node, or of the key.
LEMMA AnsweredKeeps == ASSUME NEW a \in Actors, NEW saves \in BOOLEAN, Inv, Answered(a, saves) PROVE Inv'
<1> DEFINE marked == IF a = "scheduler" THEN key ELSE send[a].node
           right == saves /\ (a = "scheduler" => key = send[a].node)
<1>1. /\ send[a].out /\ Ends(a)
      /\ since' = IF saves THEN [since EXCEPT ![marked] = 0] ELSE since
      /\ due' \in {FALSE, due} /\ checked' \in {DUE_CHECK_S, checked}
      /\ pass' = IF a = "scheduler" THEN "idle" ELSE pass
      /\ flooded' = IF right THEN flooded ELSE Unmarked({a})
      /\ UNCHANGED <<pref, on, key, conn, mine, heard, silent, cool, onFor, backdated>>
  BY DEF Answered, MarksOwn, MarkFlood, mind, link
<1>2. StoreOK /\ LinkOK /\ MindOK /\ AirOK /\ PassOK /\ Turns /\ Clocks
  BY DEF Inv
<1>3. /\ AirOK' /\ Turns' /\ Rested' /\ send'[a] = NoSend
      /\ \A b \in Actors : b # a => send'[b] = send[b]
  BY <1>1, EndsLemma
<1>4. \A b \in Actors : ~send'[b].out
  <2>1. \A b \in Actors : send[b].out => b = a
    BY <1>1, OneOnAir
  <2> QED BY <1>3, <2>1, NoSendLemma
<1>5. /\ since' \in [Nodes -> Age(WEEK)]
      /\ \A n \in Nodes : since'[n] \in {0, since[n]}
      /\ \A n \in Nodes : saves /\ marked = n => since'[n] = 0
  BY <1>1, <1>2, LimitsLemma DEF StoreOK
<1>6. pref' /\ ~backdated' => on' <= onFor'
  BY <1>1, <1>2 DEF Clocks
<1>7. flooded' \in [Nodes -> 0..WEEK] /\ Clocks'
  <2>1. CASE right
    <3>1. flooded' = flooded /\ flooded \in [Nodes -> 0..WEEK]
      BY <1>1, <1>2, <2>1 DEF StoreOK
    <3>2. ASSUME NEW n \in Nodes
          PROVE  since'[n] <= flooded[n]
      <4>1. flooded[n] \in 0..WEEK
        BY <3>1
      <4>2. CASE since[n] <= flooded[n]
        BY <1>5, <4>1, <4>2
      <4>3. CASE \E b \in Actors : send[b].out /\ send[b].node = n
        <5>1. send[a].node = n
          BY <1>1, <4>3, OneOnAir
        <5> QED BY <1>5, <2>1, <4>1, <5>1
      <4> QED BY <1>2, <4>2, <4>3 DEF Clocks
    <3> QED BY <1>4, <1>6, <3>1, <3>2 DEF Clocks
  <2>2. CASE ~right
    <3>1. \A b \in Actors : IF b \in {a} THEN ~send'[b].out ELSE send'[b] = send[b]
      BY <1>3, <1>4
    <3> QED BY <1>1, <1>5, <1>6, <2>2, <3>1, EndedClocks
  <2> QED BY <2>1, <2>2
<1>8. StoreOK' /\ LinkOK' /\ MindOK'
  BY <1>1, <1>2, <1>5, <1>7, LimitsLemma DEF StoreOK, LinkOK, MindOK
<1>9. PassOK'
  BY <1>1, <1>2, <1>3 DEF PassOK, Actors
<1> QED BY <1>3, <1>7, <1>8, <1>9 DEF Inv

-----------------------------------------------------------------------------
(* The scheduler.                                                          *)

LEMMA PassAsksKeeps == Inv /\ PassAsks => Inv'
<1> SUFFICES ASSUME Inv, PassAsks PROVE Inv'
  OBVIOUS
<1>1. /\ conn # None /\ mine' = TRUE /\ key' = None /\ due' = (mine /\ due)
      /\ checked' \in {checked, DUE_CHECK_S}
      /\ pass = "idle" /\ pass' = "asking"
      /\ UNCHANGED <<pref, on, since, conn, heard, silent, cool, send, line, onFor, backdated, flooded>>
  BY DEF PassAsks, store, air, history
<1>2. MindOK'
  BY <1>1, LimitsLemma DEF Inv, MindOK
<1>3. StoreOK' /\ LinkOK' /\ AirOK' /\ PassOK'
  BY <1>1 DEF Inv, StoreOK, LinkOK, AirOK, PassOK, IsLine
<1>4. Turns' /\ Clocks'
  BY <1>1 DEF Inv, Turns, Clocks
<1>5. Rested'
  BY <1>1, RestedKeeps
<1> QED BY <1>2, <1>3, <1>4, <1>5 DEF Inv

LEMMA AskFailsKeeps == Inv /\ AskFails => Inv'
<1> SUFFICES ASSUME Inv, AskFails PROVE Inv'
  OBVIOUS
<1>1. /\ pass = "asking" /\ pass' = "idle"
      /\ UNCHANGED <<pref, on, since, conn, mine, heard, key, due, checked, silent, cool, send,
                     line, onFor, backdated, flooded>>
  BY DEF AskFails, store, link, mind, air, history
<1>2. StoreOK' /\ LinkOK' /\ MindOK' /\ AirOK' /\ PassOK'
  BY <1>1 DEF Inv, StoreOK, LinkOK, MindOK, AirOK, PassOK, IsLine
<1>3. Turns' /\ Clocks'
  BY <1>1 DEF Inv, Turns, Clocks
<1>4. Rested'
  BY <1>1, RestedKeeps
<1> QED BY <1>2, <1>3, <1>4 DEF Inv

\* The switch-on time after a look at the store is not before the real one.
LEMMA SyncedLemma ==
  ASSUME Inv
  PROVE  /\ Synced \in Age(WEEK)
         /\ pref /\ ~backdated => Synced <= onFor
<1>1. on \in Age(WEEK) /\ onFor \in 0..WEEK /\ (pref /\ ~backdated => on <= onFor)
  BY DEF Inv, StoreOK, Clocks
<1> QED BY <1>1, LimitsLemma DEF Synced, Never

\* The rest of a pass: an advert starts only at a quiet moment, and only if the store, read
\* in this very step, says that it is due.
LEMMA DecidesLemma ==
  ASSUME Inv, NEW week, NEW saves \in BOOLEAN, Decides(week, saves),
         pass # "sending", UNCHANGED <<conn, mine, flooded>>,
         mine => key' \in Nodes /\ (week >= WEEK => since[key'] >= WEEK)
  PROVE  /\ on' \in Age(WEEK) /\ (pref /\ ~backdated => on' <= onFor)
         /\ checked' \in 0..DUE_CHECK_S /\ due' \in BOOLEAN
         /\ AirOK' /\ Turns' /\ PassOK' /\ Rested'
         /\ \A b \in Actors : send'[b].out = send[b].out /\ (send[b].out => send'[b] = send[b])
         /\ pass' = "sending" => Quiet /\ mine /\ IsDue(Synced, week)
<1> DEFINE looks == checked = DUE_CHECK_S
           goes == (IF looks THEN IsDue(Synced, week) ELSE due) /\ mine /\ Quiet
           reads == looks \/ goes
           raises == reads /\ OutOfStep /\ ~saves
           starts == goes /\ ~raises /\ due'
<1>1. /\ on' = IF reads /\ ~raises THEN Synced ELSE on
      /\ checked' = IF looks THEN 0 ELSE checked
      /\ due' = IF reads /\ ~raises THEN IsDue(Synced, week) ELSE due
      /\ IF starts
         THEN Starts("scheduler") /\ pass' = "sending"
         ELSE pass' = "idle" /\ UNCHANGED air
  BY DEF Decides
<1>2. StoreOK /\ LinkOK /\ MindOK /\ AirOK /\ PassOK /\ Turns /\ Clocks
  BY DEF Inv
<1>3. on' \in Age(WEEK) /\ (pref /\ ~backdated => on' <= onFor)
  BY <1>1, <1>2, SyncedLemma DEF StoreOK, Clocks
<1>4. checked' \in 0..DUE_CHECK_S
  BY <1>1, <1>2, LimitsLemma DEF MindOK
<1>5. due' \in BOOLEAN
  BY <1>1, <1>2 DEF MindOK, IsDue
<1>6. send["scheduler"] = NoSend /\ "scheduler" \in Actors
  BY <1>2 DEF PassOK, Actors
<1>7. CASE starts
  <2>1. conn \in Nodes /\ mine /\ Quiet /\ IsDue(Synced, week)
    <3>1. goes /\ ~raises /\ due'
      BY <1>7
    <3>2. conn # None
      BY <1>2, <3>1 DEF LinkOK
    <3> QED BY <1>1, <1>2, <3>1, <3>2 DEF LinkOK
  <2>2. /\ AirOK' /\ Turns' /\ send'["scheduler"] # NoSend
        /\ \A b \in Actors : /\ send'[b].out = send[b].out
                             /\ send[b].out => send'[b] = send[b]
        /\ ~send'["scheduler"].behind => line = <<>> /\ \A k \in DOMAIN line' : k = 1
    BY <1>1, <1>6, <1>7, <2>1, StartsLemma
  <2>3. PassOK'
    BY <1>1, <1>7, <2>2 DEF PassOK
  <2>4. Rested'
    <3> SUFFICES ASSUME ~send'["scheduler"].behind
                 PROVE  flooded[key'] >= WEEK /\ key' \in Nodes /\ \A k \in DOMAIN line' : k = 1
      BY DEF Rested
    <3>1. \A b \in Actors : ~send[b].out
      BY <1>2, <2>2 DEF Turns
    <3>2. key' \in Nodes /\ since[key'] >= WEEK
      BY <2>1 DEF IsDue
    <3>3. since[key'] <= flooded[key'] /\ since[key'] \in Age(WEEK) /\ flooded[key'] \in 0..WEEK
      BY <1>2, <3>1, <3>2 DEF Clocks, StoreOK
    <3> QED BY <2>2, <3>2, <3>3, LimitsLemma DEF Age
  <2> QED BY <1>3, <1>4, <1>5, <2>1, <2>2, <2>3, <2>4
<1>8. CASE ~starts
  <2>1. pass' = "idle" /\ UNCHANGED <<silent, cool, send, line>>
    BY <1>1, <1>8 DEF air
  <2>2. AirOK' /\ PassOK'
    BY <1>2, <1>6, <2>1 DEF AirOK, PassOK, IsLine
  <2>3. Turns'
    BY <1>2, <2>1 DEF Turns
  <2>4. Rested'
    BY <2>1, RestedKeeps
  <2> QED BY <1>3, <1>4, <1>5, <2>1, <2>2, <2>3, <2>4
<1> QED BY <1>7, <1>8

LEMMA PassDecidesKeeps == ASSUME NEW saves \in BOOLEAN, Inv, PassDecides(saves) PROVE Inv'
<1>1. /\ pass # "sending" /\ mine /\ key # None /\ Decides(since[key], saves)
      /\ UNCHANGED <<pref, since, conn, mine, heard, key, onFor, backdated, flooded>>
  BY DEF PassDecides, link, history
<1>2. PICK week : week = since[key]
  OBVIOUS
<1>3. Decides(week, saves) /\ key' \in Nodes /\ (week >= WEEK => since[key'] >= WEEK)
  BY <1>1, <1>2 DEF Inv, MindOK
<1>4. /\ on' \in Age(WEEK) /\ (pref /\ ~backdated => on' <= onFor)
      /\ checked' \in 0..DUE_CHECK_S /\ due' \in BOOLEAN
      /\ AirOK' /\ Turns' /\ PassOK' /\ Rested'
      /\ \A b \in Actors : send'[b].out = send[b].out /\ (send[b].out => send'[b] = send[b])
  BY <1>1, <1>3, DecidesLemma
<1>5. Clocks'
  BY <1>1, <1>4, ClocksKeep
<1>6. StoreOK' /\ LinkOK' /\ MindOK'
  BY <1>1, <1>4 DEF Inv, StoreOK, LinkOK, MindOK
<1> QED BY <1>4, <1>5, <1>6 DEF Inv

LEMMA AskAnsweredKeeps == ASSUME NEW saves \in BOOLEAN, Inv, AskAnswered(saves) PROVE Inv'
<1>1. /\ pass = "asking" /\ conn # None /\ key' = conn
      /\ UNCHANGED <<conn, mine, heard, onFor, backdated, flooded>>
  BY DEF AskAnswered, link, history
<1>2. StoreOK /\ LinkOK /\ MindOK /\ AirOK /\ PassOK /\ Turns /\ Clocks
  BY DEF Inv
<1>3. conn \in Nodes
  BY <1>1, <1>2 DEF LinkOK
<1>4. CASE pass' = "idle" /\ UNCHANGED <<store, due, checked, air>>
  <2>1. /\ pass' = "idle"
        /\ UNCHANGED <<pref, on, since, due, checked, silent, cool, send, line>>
    BY <1>4 DEF store, air
  <2>2. StoreOK' /\ LinkOK' /\ MindOK' /\ AirOK' /\ PassOK'
    BY <1>1, <1>2, <1>3, <2>1 DEF StoreOK, LinkOK, MindOK, AirOK, PassOK, IsLine
  <2>3. Turns' /\ Clocks'
    BY <1>1, <1>2, <2>1 DEF Turns, Clocks
  <2>4. Rested'
    BY <1>1, <2>1, RestedKeeps
  <2> QED BY <2>2, <2>3, <2>4 DEF Inv
<1>5. CASE /\ since' = IF since[conn] = Never THEN [since EXCEPT ![conn] = 0] ELSE since
           /\ Decides(since'[conn], saves)
           /\ UNCHANGED pref
  <2>1. PICK week : week = since'[conn]
    OBVIOUS
  <2>2. Decides(week, saves)
    BY <1>5, <2>1
  <2>3. /\ since' \in [Nodes -> Age(WEEK)]
        /\ \A n \in Nodes : since'[n] = since[n] \/ since'[n] = 0
    BY <1>2, <1>3, <1>5, LimitsLemma DEF StoreOK
  <2>4. key' \in Nodes /\ (week >= WEEK => since[key'] >= WEEK)
    BY <1>1, <1>3, <2>1, <2>3, LimitsLemma
  <2>5. /\ on' \in Age(WEEK) /\ (pref /\ ~backdated => on' <= onFor)
        /\ checked' \in 0..DUE_CHECK_S /\ due' \in BOOLEAN
        /\ AirOK' /\ Turns' /\ PassOK' /\ Rested'
        /\ \A b \in Actors : send'[b].out = send[b].out /\ (send[b].out => send'[b] = send[b])
    BY <1>1, <2>2, <2>4, DecidesLemma
  <2>6. Clocks'
    BY <1>1, <1>5, <2>3, <2>5, ClocksKeep
  <2>7. StoreOK' /\ LinkOK' /\ MindOK'
    BY <1>1, <1>2, <1>3, <1>5, <2>3, <2>5 DEF StoreOK, LinkOK, MindOK
  <2> QED BY <2>5, <2>6, <2>7 DEF Inv
<1>6. CASE since[conn] = Never /\ ~saves
  BY <1>4, <1>6 DEF AskAnswered
<1>7. CASE ~(since[conn] = Never /\ ~saves)
  BY <1>5, <1>7 DEF AskAnswered
<1> QED BY <1>6, <1>7

LEMMA RecheckKeeps == Inv /\ Recheck => Inv'
<1> SUFFICES ASSUME Inv, Recheck PROVE Inv'
  OBVIOUS
<1>1. /\ checked' = DUE_CHECK_S
      /\ UNCHANGED <<pref, on, since, conn, mine, heard, key, due, silent, cool, send, line, pass,
                     onFor, backdated, flooded>>
  BY DEF Recheck, store, link, air, history
<1>2. StoreOK' /\ LinkOK' /\ MindOK' /\ AirOK' /\ PassOK'
  BY <1>1, LimitsLemma DEF Inv, StoreOK, LinkOK, MindOK, AirOK, PassOK, IsLine
<1>3. Turns' /\ Clocks'
  BY <1>1 DEF Inv, Turns, Clocks
<1>4. Rested'
  BY <1>1, RestedKeeps
<1> QED BY <1>2, <1>3, <1>4 DEF Inv

-----------------------------------------------------------------------------
(* The user, the link, the process and the clock.                          *)

LEMMA SetPrefKeeps ==
  ASSUME NEW to \in BOOLEAN, NEW saves \in BOOLEAN, Inv, SetPref(to, saves) PROVE Inv'
<1>1. /\ pref' = to /\ onFor' = 0
      /\ on' = IF ~saves THEN on ELSE IF to THEN 0 ELSE Never
      /\ backdated' = (to /\ ~saves /\ on # Never)
      /\ UNCHANGED <<since, conn, mine, heard, key, due, checked, silent, cool, send, line, pass,
                     flooded>>
  BY DEF SetPref, SetEnabled, link, mind, air
<1>2. on \in Age(WEEK)
  BY DEF Inv, StoreOK
<1>3. on' \in Age(WEEK) /\ onFor' \in 0..WEEK /\ (pref' /\ ~backdated' => on' <= onFor')
  BY <1>1, <1>2, LimitsLemma DEF Never
<1>4. StoreOK' /\ LinkOK' /\ MindOK' /\ AirOK' /\ PassOK'
  BY <1>1, <1>3 DEF Inv, StoreOK, LinkOK, MindOK, AirOK, PassOK, IsLine
<1>5. Turns' /\ Clocks'
  BY <1>1, <1>3 DEF Inv, Turns, Clocks
<1>6. Rested'
  BY <1>1, RestedKeeps
<1> QED BY <1>4, <1>5, <1>6 DEF Inv

LEMMA ConnectKeeps == ASSUME NEW n \in Nodes, Inv, Connect(n) PROVE Inv'
<1>1. /\ conn = None /\ conn' = n
      /\ UNCHANGED <<pref, on, since, mine, heard, key, due, checked, silent, cool, send, line,
                     pass, onFor, backdated, flooded>>
  BY DEF Connect, store, mind, air, history
<1>2. StoreOK' /\ LinkOK' /\ MindOK' /\ AirOK' /\ PassOK'
  BY <1>1, NoneLemma DEF Inv, StoreOK, LinkOK, MindOK, AirOK, PassOK, IsLine
<1>3. Turns' /\ Clocks'
  BY <1>1, NoneLemma DEF Inv, Turns, Clocks
<1>4. Rested'
  BY <1>1, RestedKeeps
<1> QED BY <1>2, <1>3, <1>4 DEF Inv

LEMMA RekeyKeeps == ASSUME NEW n \in Nodes, Inv, Rekey(n) PROVE Inv'
<1>1. /\ conn' = n
      /\ UNCHANGED <<pref, on, since, mine, heard, key, due, checked, silent, cool, send, line,
                     pass, onFor, backdated, flooded>>
  BY DEF Rekey, store, mind, air, history
<1>2. StoreOK' /\ LinkOK' /\ MindOK' /\ AirOK' /\ PassOK'
  BY <1>1, NoneLemma DEF Inv, StoreOK, LinkOK, MindOK, AirOK, PassOK, IsLine
<1>3. Turns' /\ Clocks'
  BY <1>1, NoneLemma DEF Inv, Turns, Clocks
<1>4. Rested'
  BY <1>1, RestedKeeps
<1> QED BY <1>2, <1>3, <1>4 DEF Inv

LEMMA HearKeeps == Inv /\ Hear => Inv'
<1> SUFFICES ASSUME Inv, Hear PROVE Inv'
  OBVIOUS
<1>1. /\ conn # None /\ heard' = TRUE /\ silent' = 0
      /\ UNCHANGED <<pref, on, since, conn, mine, key, due, checked, cool, send, line, pass,
                     onFor, backdated, flooded>>
  BY DEF Hear, store, mind, history
<1>2. StoreOK' /\ LinkOK' /\ MindOK' /\ AirOK' /\ PassOK'
  BY <1>1, LimitsLemma DEF Inv, StoreOK, LinkOK, MindOK, AirOK, PassOK, IsLine
<1>3. Turns' /\ Clocks'
  BY <1>1 DEF Inv, Turns, Clocks
<1>4. Rested'
  BY <1>1, RestedKeeps
<1> QED BY <1>2, <1>3, <1>4 DEF Inv

LEMMA LoseKeeps == Inv /\ Lose => Inv'
<1> SUFFICES ASSUME Inv, Lose PROVE Inv'
  OBVIOUS
<1>1. /\ conn' = None /\ mine' = FALSE /\ heard' = FALSE
      /\ key' = None /\ due' = FALSE /\ checked' = DUE_CHECK_S
      /\ silent' = 0 /\ line' = <<>>
      /\ send' = [a \in Actors |-> [send[a] EXCEPT !.out = FALSE, !.behind = FALSE, !.last = 0]]
      /\ flooded' = Unmarked(Actors)
      /\ UNCHANGED <<pref, on, since, cool, pass, onFor, backdated>>
  BY DEF Lose, store
<1>2. StoreOK /\ LinkOK /\ MindOK /\ AirOK /\ PassOK /\ Turns /\ Clocks
  BY DEF Inv
<1>3. line' = <<>> /\ DOMAIN line' = {}
  <2>1. line' = <<>>
    BY DEF Lose
  <2> QED BY <2>1
<1>4. ASSUME NEW a \in Actors
      PROVE  /\ send'[a] \in Send /\ send'[a].out = FALSE
             /\ send'[a].node = send[a].node
             /\ send'[a] = NoSend <=> send[a] = NoSend
  <2>1. send[a] \in Send
    BY <1>2, SendLemma
  <2>2. send'[a] = [node |-> send[a].node, out |-> FALSE, behind |-> FALSE, last |-> 0]
    BY <1>1, <2>1 DEF Send
  <2>3. send'[a] \in Send /\ send'[a].out = FALSE /\ send'[a].node = send[a].node
    BY <2>1, <2>2, LimitsLemma DEF Send
  <2>4. send[a] = NoSend => send'[a] = NoSend
    BY <2>2 DEF NoSend
  <2>5. send'[a] = NoSend => send[a] = NoSend
    BY <1>2, <2>3, NoSendLemma DEF Turns
  <2> QED BY <2>3, <2>4, <2>5
<1>5. AirOK'
  <2>1. send' \in [Actors -> Send]
    BY <1>1, <1>4
  <2>2. IsLine(line')
    BY <1>3 DEF IsLine
  <2> QED BY <1>1, <1>2, <2>1, <2>2, LimitsLemma DEF AirOK
<1>6. PassOK'
  BY <1>1, <1>2, <1>4 DEF PassOK, Actors
<1>7. Turns'
  BY <1>1, <1>2, <1>4, <1>3 DEF Turns
<1>8. flooded' \in [Nodes -> 0..WEEK] /\ Clocks'
  <2>1. pref' /\ ~backdated' => on' <= onFor'
    BY <1>1, <1>2 DEF Clocks
  <2> QED BY <1>1, <1>4, <2>1, EndedClocks
<1>9. StoreOK' /\ LinkOK' /\ MindOK'
  BY <1>1, <1>2, <1>8, LimitsLemma DEF StoreOK, LinkOK, MindOK
<1>10. Rested'
  BY <1>3 DEF Rested
<1> QED BY <1>5, <1>6, <1>7, <1>8, <1>9, <1>10 DEF Inv

LEMMA RestartKeeps == Inv /\ Restart => Inv'
<1> SUFFICES ASSUME Inv, Restart PROVE Inv'
  OBVIOUS
<1>1. /\ pref' \in BOOLEAN
      /\ onFor' = IF pref' /\ pref THEN onFor ELSE 0
      /\ backdated' = (pref' /\ IF pref THEN backdated ELSE on # Never)
      /\ conn' = None /\ mine' = FALSE /\ heard' = FALSE
      /\ key' = None /\ due' = FALSE /\ checked' = DUE_CHECK_S
      /\ silent' = 0 /\ cool' = 0
      /\ send' = [a \in Actors |-> NoSend] /\ line' = <<>> /\ pass' = "idle"
      /\ flooded' = Unmarked(Actors)
      /\ UNCHANGED <<on, since>>
  BY DEF Restart
<1>2. StoreOK /\ Clocks
  BY DEF Inv
<1>3. \A a \in Actors : send'[a] = NoSend
  BY <1>1
<1>4. /\ onFor' \in 0..WEEK /\ backdated' \in BOOLEAN
      /\ pref' /\ ~backdated' => on' <= onFor'
  BY <1>1, <1>2, LimitsLemma DEF StoreOK, Clocks, Never
<1>5. flooded' \in [Nodes -> 0..WEEK] /\ Clocks'
  BY <1>1, <1>3, <1>4, EndedClocks, NoSendLemma
<1>6. StoreOK' /\ LinkOK' /\ MindOK'
  BY <1>1, <1>2, <1>4, <1>5, LimitsLemma DEF StoreOK, LinkOK, MindOK
<1>7. AirOK' /\ PassOK'
  <2>1. IsLine(line')
    BY <1>1 DEF IsLine
  <2>2. send' \in [Actors -> Send] /\ cool' \in 0..Longest
    BY <1>1, NoSendLemma, LongestLemma
  <2> QED BY <1>1, <2>1, <2>2, LimitsLemma DEF AirOK, PassOK, Actors
<1>8. Turns' /\ Rested'
  BY <1>1, <1>3, NoSendLemma DEF Turns, Rested
<1> QED BY <1>5, <1>6, <1>7, <1>8 DEF Inv

\* An age that grows stays in its range, and does not overtake an older one.
LEMMA OlderLemma ==
  ASSUME NEW limit \in Nat, NEW a \in Age(limit), NEW b \in Age(limit)
  PROVE  /\ Older(a, limit) \in Age(limit)
         /\ Older(a, limit) >= a
         /\ a \in 0..limit => Older(a, limit) \in 0..limit
         /\ a <= b => Older(a, limit) <= Older(b, limit)
         /\ a <= b /\ a # b => Older(a, limit) <= b
         /\ Older(a, limit) <= a + 1
BY DEF Older, Age, Never

LEMMA TickKeeps == Inv /\ Tick => Inv'
<1> SUFFICES ASSUME Inv, Tick PROVE Inv'
  OBVIOUS
<1>1. /\ on' = Older(on, WEEK) /\ since' = [n \in Nodes |-> Older(since[n], WEEK)]
      /\ checked' = Older(checked, DUE_CHECK_S)
      /\ silent' = IF heard THEN Older(silent, QUIET_S) ELSE 0
      /\ cool' = IF cool = 0 THEN 0 ELSE cool - 1
      /\ send' = [a \in Actors |->
                    IF send[a].out THEN [send[a] EXCEPT !.last = Older(@, WEEK)] ELSE send[a]]
      /\ onFor' = IF pref /\ ~backdated THEN Older(onFor, WEEK) ELSE 0
      /\ flooded' = [n \in Nodes |-> Older(flooded[n], WEEK)]
      /\ UNCHANGED <<pref, conn, mine, heard, key, due, line, pass, backdated>>
  BY DEF Tick, link
<1>2. StoreOK /\ LinkOK /\ MindOK /\ AirOK /\ PassOK /\ Turns /\ Clocks /\ Rested
  BY DEF Inv
<1>3. /\ on \in Age(WEEK) /\ onFor \in Age(WEEK) /\ onFor \in 0..WEEK
      /\ pref /\ ~backdated => on <= onFor
      /\ checked \in Age(DUE_CHECK_S) /\ checked \in 0..DUE_CHECK_S
      /\ silent \in Age(QUIET_S) /\ silent \in 0..QUIET_S
      /\ \A n \in Nodes : since[n] \in Age(WEEK) /\ flooded[n] \in Age(WEEK) /\ flooded[n] \in 0..WEEK
  BY <1>2, LimitsLemma DEF StoreOK, MindOK, AirOK, Clocks, Age
<1>4. /\ on' \in Age(WEEK) /\ onFor' \in 0..WEEK /\ (pref /\ ~backdated => on' <= onFor')
      /\ checked' \in 0..DUE_CHECK_S /\ silent' \in 0..QUIET_S
  BY <1>1, <1>3, OlderLemma, LimitsLemma
<1>5. /\ since' \in [Nodes -> Age(WEEK)] /\ flooded' \in [Nodes -> 0..WEEK]
      /\ \A n \in Nodes : since[n] <= flooded[n] => since'[n] <= flooded'[n]
      /\ \A n \in Nodes : flooded'[n] >= flooded[n] /\ flooded'[n] \in 0..WEEK
  BY <1>1, <1>3, OlderLemma, LimitsLemma
<1>6. ASSUME NEW a \in Actors
      PROVE  /\ send'[a] \in Send
             /\ send'[a].node = send[a].node /\ send'[a].out = send[a].out
             /\ send'[a].behind = send[a].behind
             /\ send[a].out => send'[a].last = Older(send[a].last, WEEK)
             /\ send[a] = NoSend <=> send'[a] = NoSend
  <2>1. CASE ~send[a].out
    BY <1>1, <1>2, <2>1, SendLemma
  <2>2. CASE send[a].out
    <3>1. send[a] \in Send /\ send[a].last \in Age(WEEK) /\ send[a].last \in 0..WEEK
      BY <1>2, SendLemma DEF Age
    <3>2. Older(send[a].last, WEEK) \in 0..WEEK
      BY <3>1, OlderLemma, LimitsLemma
    <3>3. send'[a] = [send[a] EXCEPT !.last = Older(send[a].last, WEEK)]
      BY <1>1, <2>2
    <3>4. /\ send'[a] \in Send
          /\ send'[a].node = send[a].node /\ send'[a].out = send[a].out
          /\ send'[a].behind = send[a].behind
          /\ send'[a].last = Older(send[a].last, WEEK)
      BY <3>1, <3>2, <3>3 DEF Send
    <3> QED BY <2>2, <3>4, NoSendLemma
  <2> QED BY <2>1, <2>2
<1>7. cool' \in 0..Longest
  BY <1>1, <1>2, LongestLemma DEF AirOK
<1>8. AirOK'
  <2>1. send' \in [Actors -> Send]
    BY <1>1, <1>6
  <2> QED BY <1>1, <1>2, <1>4, <1>7, <2>1 DEF AirOK, IsLine
<1>9. PassOK'
  BY <1>1, <1>2, <1>6 DEF PassOK, Actors
<1>10. Turns'
  <2>1. \A k \in DOMAIN line : line[k] \in Actors
    BY <1>2 DEF AirOK, IsLine
  <2>2. \A k \in DOMAIN line : send'[line[k]].node # None
    BY <1>2, <1>6, <2>1 DEF Turns
  <2> QED BY <1>1, <1>2, <1>6, <2>2 DEF Turns
<1>11. Clocks'
  <2>1. ASSUME NEW a \in Actors, send'[a].out
        PROVE  since'[send'[a].node] <= send'[a].last
    <3>1. send[a].out /\ send[a].node \in Nodes /\ send'[a].node = send[a].node
      BY <1>2, <1>6, <2>1 DEF Turns
    <3>2. /\ since[send[a].node] <= send[a].last /\ since[send[a].node] \in Age(WEEK)
          /\ send[a].last \in Age(WEEK)
      BY <1>2, <1>3, <3>1, SendLemma DEF Clocks, Age
    <3>3. /\ since'[send[a].node] = Older(since[send[a].node], WEEK)
          /\ send'[a].last = Older(send[a].last, WEEK)
      BY <1>1, <1>6, <3>1
    <3> QED BY <3>1, <3>2, <3>3, OlderLemma, LimitsLemma
  <2>2. \A n \in Nodes : since'[n] <= flooded'[n] \/ \E a \in Actors : send'[a].out /\ send'[a].node = n
    BY <1>2, <1>5, <1>6 DEF Clocks
  <2> QED BY <1>1, <1>4, <2>1, <2>2 DEF Clocks
<1>12. StoreOK' /\ LinkOK' /\ MindOK'
  BY <1>1, <1>2, <1>4, <1>5 DEF StoreOK, LinkOK, MindOK
<1>13. Rested'
  <2> SUFFICES ASSUME NEW k \in DOMAIN line, line[k] = "scheduler",
                      ~send'["scheduler"].behind, ~send'["scheduler"].out
               PROVE  k = 1 /\ key \in Nodes /\ flooded'[key] >= WEEK
    BY <1>1 DEF Rested
  <2>1. ~send["scheduler"].behind /\ ~send["scheduler"].out
    BY <1>6 DEF Actors
  <2>2. k = 1 /\ key \in Nodes /\ flooded[key] >= WEEK
    BY <1>2, <2>1 DEF Rested
  <2> QED BY <1>3, <1>5, <2>2, LimitsLemma
<1> QED BY <1>8, <1>9, <1>10, <1>11, <1>12, <1>13 DEF Inv

LEMMA StutterKeeps == Inv /\ UNCHANGED vars => Inv'
BY DEF vars, store, link, mind, air, history, Inv, StoreOK, LinkOK, MindOK, AirOK, PassOK, IsLine,
       Turns, Clocks, Rested

LEMMA StepKeeps == Inv /\ [Next]_vars => Inv'
<1> SUFFICES ASSUME Inv, [Next]_vars PROVE Inv'
  OBVIOUS
<1> USE AdvertsAssumption
<1>1. CASE PassAsks \/ AskFails \/ Recheck
  BY <1>1, PassAsksKeeps, AskFailsKeeps, RecheckKeeps
<1>2. CASE \E saves \in SaveOutcomes : AskAnswered(saves) \/ PassDecides(saves)
  BY <1>2, AskAnsweredKeeps, PassDecidesKeeps
<1>3. CASE \E a \in Actors : Advert(a)
  BY <1>3, HandOverKeeps, RaisesKeeps, AnsweredKeeps DEF Advert
<1>4. CASE UserSends \/ OtherSend
  BY <1>4, UserSendsKeeps, OtherSendKeeps
<1>5. CASE Lose \/ Hear \/ Restart \/ Tick
  BY <1>5, LoseKeeps, HearKeeps, RestartKeeps, TickKeeps
<1>6. CASE \E to \in BOOLEAN, saves \in SaveOutcomes : SetPref(to, saves)
  BY <1>6, SetPrefKeeps
<1>7. CASE \E n \in Nodes : Connect(n) \/ Rekey(n)
  BY <1>7, ConnectKeeps, RekeyKeeps
<1>8. CASE UNCHANGED vars
  BY <1>8, StutterKeeps
<1> QED BY <1>1, <1>2, <1>3, <1>4, <1>5, <1>6, <1>7, <1>8 DEF Next, Scheduler, World

\* The invariant holds in every reachable state.
THEOREM InvAlways == Spec => []Inv
BY InvInit, StepKeeps, PTL DEF Spec

-----------------------------------------------------------------------------
(* The theorems.                                                           *)

\* The preference, the times of the store, the connection, the gate, the lock and the pass
\* have their types; nobody stands in the line of the lock twice, and the scheduler waits for
\* an advert exactly while it sends one.
THEOREM AdvertsTypeCorrect == Spec => []TypeOK
<1>1. Inv => TypeOK
  BY TypeParts DEF Inv
<1> QED BY <1>1, InvAlways, PTL

\* The scheduler starts an advert only in a pass that read in the store, in the same step,
\* that the switch-on lies a week back.
LEMMA StartedLemma ==
  ASSUME Inv, Next, Started
  PROVE  pref /\ Synced >= WEEK
<1>1. pass # "sending" /\ pass' = "sending"
  BY DEF Started
<1>2. CASE \E saves \in SaveOutcomes : AskAnswered(saves) \/ PassDecides(saves)
  <2>1. PICK saves \in BOOLEAN : AskAnswered(saves) \/ PassDecides(saves)
    BY <1>2, AdvertsAssumption
  <2>2. PICK week : Decides(week, saves)
    BY <1>1, <2>1 DEF AskAnswered, PassDecides
  <2>3. due'
    BY <1>1, <2>2 DEF Decides
  <2>4. due' = IsDue(Synced, week)
    BY <1>1, <2>2 DEF Decides
  <2> QED BY <2>3, <2>4 DEF IsDue
<1>3. CASE PassAsks \/ AskFails \/ Recheck
  BY <1>1, <1>3 DEF PassAsks, AskFails, Recheck
<1>4. CASE \E a \in Actors : Advert(a)
  BY <1>1, <1>4 DEF Advert, HandOver, Raises, Answered, MarksOwn
<1>5. CASE UserSends \/ OtherSend \/ Lose \/ Hear \/ Restart \/ Tick
  BY <1>1, <1>5 DEF UserSends, OtherSend, Lose, Hear, Restart, Tick
<1>6. CASE \E to \in BOOLEAN, saves \in SaveOutcomes : SetPref(to, saves)
  BY <1>1, <1>6 DEF SetPref
<1>7. CASE \E n \in Nodes : Connect(n) \/ Rekey(n)
  BY <1>1, <1>7 DEF Connect, Rekey
<1> QED BY <1>2, <1>3, <1>4, <1>5, <1>6, <1>7 DEF Next, Scheduler, World

\* The adverts that begin to be on the air in a step are handed over in it.
LEMMA ToAirLemma ==
  ASSUME Inv, Next, NEW a \in Actors, ~send[a].out, send'[a].out
  PROVE  HandOver(a)
<1>1. CASE \E saves \in SaveOutcomes : AskAnswered(saves)
  <2>1. PICK saves \in BOOLEAN : AskAnswered(saves)
    BY <1>1, AdvertsAssumption
  <2>2. PICK week : UNCHANGED air \/ Decides(week, saves)
    BY <2>1 DEF AskAnswered
  <2>3. UNCHANGED air \/ Starts("scheduler")
    BY <2>2 DEF Decides
  <2> QED BY <2>3 DEF Starts, air, Inv, AirOK, Send
<1>2. CASE \E saves \in SaveOutcomes : PassDecides(saves)
  <2>1. PICK saves \in BOOLEAN : Decides(since[key], saves)
    BY <1>2, AdvertsAssumption DEF PassDecides
  <2>2. UNCHANGED air \/ Starts("scheduler")
    BY <2>1 DEF Decides
  <2> QED BY <2>2 DEF Starts, air, Inv, AirOK, Send
<1>3. CASE PassAsks \/ AskFails \/ Recheck \/ OtherSend \/ Hear
  BY <1>3 DEF PassAsks, AskFails, Recheck, OtherSend, Hear, air
<1>4. CASE \E b \in Actors : HandOver(b)
  <2>1. PICK b \in Actors : HandOver(b)
    BY <1>4
  <2>2. CASE b = a
    BY <2>1, <2>2
  <2>3. CASE b # a
    BY <2>1, <2>3 DEF HandOver, Inv, AirOK
  <2> QED BY <2>2, <2>3
<1>5. CASE \E b \in Actors : Raises(b) \/ \E saves \in SaveOutcomes : Answered(b, saves)
  <2>1. PICK b \in Actors : Ends(b)
    BY <1>5 DEF Raises, Answered
  <2> QED BY <2>1, NoSendLemma DEF Ends, Inv, AirOK
<1>6. CASE UserSends
  BY <1>6 DEF UserSends, Starts, Inv, AirOK, Send
<1>7. CASE Lose \/ Restart
  <2>1. send' = [b \in Actors |-> NoSend] \/
        send' = [b \in Actors |-> [send[b] EXCEPT !.out = FALSE, !.behind = FALSE, !.last = 0]]
    BY <1>7 DEF Lose, Restart
  <2>2. send[a] \in Send
    BY SendLemma DEF Inv
  <2> QED BY <2>1, <2>2, NoSendLemma DEF Send
<1>8. CASE Tick
  <2>1. send'[a] = send[a]
    BY <1>8 DEF Tick
  <2> QED BY <2>1
<1>9. CASE \E to \in BOOLEAN, saves \in SaveOutcomes : SetPref(to, saves)
  BY <1>9 DEF SetPref, air
<1>10. CASE \E n \in Nodes : Connect(n) \/ Rekey(n)
  BY <1>10 DEF Connect, Rekey, air
<1> QED BY <1>1, <1>2, <1>3, <1>4, <1>5, <1>6, <1>7, <1>8, <1>9, <1>10
        DEF Next, Scheduler, Advert, World

\* An advert of the scheduler that found the lock free goes on the air only a full week after
\* the last flood advert of the node, whoever sent it: the week that was read at the quiet
\* moment is not behind that advert, and until the hand-over nobody else holds the lock.
THEOREM OnceAWeek == Spec => AtMostWeekly
<1>1. ASSUME Inv, [Next]_vars
      PROVE  [~send["scheduler"].out /\ send'["scheduler"].out /\ key = conn
                => flooded[conn] >= WEEK \/ send["scheduler"].behind]_vars
  <2> SUFFICES ASSUME ~send["scheduler"].out, send'["scheduler"].out, key = conn,
                      ~send["scheduler"].behind
               PROVE  flooded[conn] >= WEEK
    OBVIOUS
  <2>1. Next
    BY <1>1 DEF vars, air
  <2>2. HandOver("scheduler")
    BY <1>1, <2>1, ToAirLemma DEF Actors
  <2>3. 1 \in DOMAIN line /\ line[1] = "scheduler"
    BY <1>1, <2>2 DEF HandOver, Inv, AirOK, IsLine
  <2> QED BY <1>1, <2>3 DEF Inv, Rested
<1> QED BY <1>1, InvAlways, PTL DEF Spec, AtMostWeekly

\* The scheduler starts no advert before the preference has been on for a full week, if its
\* last switch-on could be written or found no earlier one in the store.
THEOREM NeverOnSwitch == Spec => SwitchOnWaits
<1>1. ASSUME Inv, [Next]_vars
      PROVE  [Started => pref /\ (onFor >= WEEK \/ backdated)]_vars
  <2> SUFFICES ASSUME Started PROVE pref /\ (onFor >= WEEK \/ backdated)
    OBVIOUS
  <2>1. Next
    BY <1>1 DEF Started, vars
  <2>2. pref /\ Synced >= WEEK
    BY <1>1, <2>1, StartedLemma
  <2>3. /\ pref /\ ~backdated => Synced <= onFor
        /\ Synced \in Age(WEEK) /\ onFor \in 0..WEEK
    BY <1>1, SyncedLemma DEF Inv, StoreOK
  <2> QED BY <2>2, <2>3, LimitsLemma DEF Age
<1> QED BY <1>1, InvAlways, PTL DEF Spec, SwitchOnWaits

\* The stored week of a node starts again only when an advert is answered that was handed
\* over for it.
THEOREM WeekNeedsAdvert == Spec => WeekMovesWithAdvert
<1> DEFINE Marked(n) == \E a \in Actors : /\ send[a].out
                                          /\ n = IF a = "scheduler" THEN key ELSE send[a].node
<1>1. ASSUME Inv, [Next]_vars
      PROVE  [\A n \in Nodes : since'[n] < since[n] => Marked(n)]_vars
  <2> SUFFICES ASSUME NEW n \in Nodes, since'[n] < since[n] PROVE Marked(n)
    OBVIOUS
  <2>1. since[n] \in Age(WEEK) /\ since \in [Nodes -> Age(WEEK)]
    BY <1>1 DEF Inv, StoreOK
  <2>2. ASSUME since'[n] = since[n] PROVE FALSE
    BY <2>1, <2>2, LimitsLemma DEF Age
  <2>3. Next
    BY <1>1, <2>2 DEF vars, store
  <2>4. CASE \E a \in Actors, saves \in SaveOutcomes : Answered(a, saves)
    <3>1. PICK a \in Actors, saves \in SaveOutcomes : Answered(a, saves)
      BY <2>4
    <3> DEFINE marked == IF a = "scheduler" THEN key ELSE send[a].node
    <3>2. send[a].out /\ since' = IF saves THEN [since EXCEPT ![marked] = 0] ELSE since
      BY <3>1 DEF Answered, MarksOwn, MarkFlood
    <3>3. n = marked
      BY <2>1, <2>2, <3>2
    <3> QED BY <3>2, <3>3
  <2>5. CASE \E saves \in SaveOutcomes : AskAnswered(saves)
    <3>1. CASE since' = since
      BY <2>2, <3>1
    <3>2. CASE since' = [since EXCEPT ![conn] = 0] /\ since[conn] = Never
      <4>1. since'[n] = since[n] \/ (since'[n] = 0 /\ since[n] = Never)
        BY <2>1, <3>2
      <4> QED BY <2>1, <2>2, <4>1, LimitsLemma DEF Age, Never
    <3> QED BY <2>5, <3>1, <3>2 DEF AskAnswered, store
  <2>6. CASE \E saves \in SaveOutcomes : PassDecides(saves)
    BY <2>2, <2>6 DEF PassDecides
  <2>7. CASE PassAsks \/ AskFails \/ Recheck \/ UserSends \/ OtherSend \/ Lose \/ Hear \/ Restart
    BY <2>2, <2>7 DEF PassAsks, AskFails, Recheck, UserSends, OtherSend, Lose, Hear, Restart, store
  <2>8. CASE Tick
    <3>1. since'[n] = Older(since[n], WEEK)
      BY <2>8 DEF Tick
    <3>2. since'[n] >= since[n] /\ since'[n] \in Age(WEEK)
      BY <2>1, <3>1, LimitsLemma, OlderLemma
    <3> QED BY <2>1, <3>2, LimitsLemma DEF Age
  <2>9. CASE \E a \in Actors : HandOver(a) \/ Raises(a)
    BY <2>2, <2>9 DEF HandOver, Raises, store
  <2>10. CASE \E to \in BOOLEAN, saves \in SaveOutcomes : SetPref(to, saves)
    BY <2>2, <2>10 DEF SetPref
  <2>11. CASE \E m \in Nodes : Connect(m) \/ Rekey(m)
    BY <2>2, <2>11 DEF Connect, Rekey, store
  <2> QED BY <2>3, <2>4, <2>5, <2>6, <2>7, <2>8, <2>9, <2>10, <2>11
          DEF Next, Scheduler, Advert, World
<1> QED BY <1>1, InvAlways, PTL DEF Spec, WeekMovesWithAdvert

=============================================================================
