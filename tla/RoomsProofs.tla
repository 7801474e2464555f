----------------------------- MODULE RoomsProofs -----------------------------
(***************************************************************************)
(* Proofs about the logins to a room, for any passwords and any number of  *)
(* callers and logins.                                                     *)
(*                                                                         *)
(* The type and the entry of the login in progress are invariants of every *)
(* behaviour. What the stores keep is safe when the screens of one user    *)
(* call one after the other and no answer comes after its wait, which is   *)
(* the assumption of the last two theorems: then one login runs at a time  *)
(* (Alone), and an answer is an answer to it (Truthful).                   *)
(***************************************************************************)
EXTENDS Rooms, TLAPS

USE RoomAssumption, NoneAssumption DEF RoomAssumption, NoneAssumption

Phases == {"free", "started", "sent", "answered"}
Answers == Roles \cup {"refused", None}
Places == {"away", "shares", "waits"}
Tasks == [phase: Phases, password: Typed \cup {None}, answer: Answers]
Calls == [pc: Places, password: Typed \cup {None}, flood: BOOLEAN, on: Logins \cup {0}]

LEMMA Names ==
  /\ Free \in Tasks /\ Away \in Calls
  /\ Free.phase = "free" /\ Away.pc = "away"
  /\ "refused" \notin Roles /\ None \notin Roles /\ None \notin Typed
BY DEF Free, Away, Tasks, Calls, Phases, Answers, Places, Roles, None, Typed

\* TypeOK; and a login that exists, and a caller that waits, have a password; an answered one has
\* its answer, and a caller that waits a login.
Shape ==
  /\ member \in [access: Roles, password: Typed \cup {None}] \cup {NotJoined}
  /\ admin \in Typed \cup {None}
  /\ heard \in BOOLEAN
  /\ inflight \in Logins \cup {0}
  /\ login \in [Logins -> Tasks]
  /\ caller \in [Callers -> Calls]
  /\ known \in Roles \cup {None}
  /\ air \subseteq [to: Logins \cup {0}, role: Roles \cup {"refused"}]
  /\ worked \subseteq Typed
  /\ \A n \in Logins : login[n].phase # "free" => login[n].password \in Typed
  /\ \A n \in Logins : login[n].phase = "answered" => login[n].answer # None
  /\ \A c \in Callers : caller[c].pc # "away" =>
       caller[c].password \in Typed /\ caller[c].on \in Logins

LEMMA ShapeIsType == Shape => TypeOK
BY DEF Shape, TypeOK, Tasks, Calls, Phases, Answers, Places

-----------------------------------------------------------------------------
(* The steps that change a login task.                                     *)

LEMMA BeginLemma ==
  ASSUME Shape, NEW c \in Callers, NEW p \in Typed, NEW flood \in BOOLEAN, Begin(c, p, flood)
  PROVE  \E n \in Logins :
           /\ login[n].phase = "free"
           /\ \A d \in Callers : caller[d].on # n
           /\ login' = [login EXCEPT ![n] = [phase |-> "started", password |-> p, answer |-> None]]
           /\ inflight' = n
           /\ caller' = [caller EXCEPT ![c] =
                           [pc |-> "shares", password |-> p, flood |-> flood, on |-> n]]
<1>1. [Free EXCEPT !.phase = "started", !.password = p]
        = [phase |-> "started", password |-> p, answer |-> None]
  <2> DEFINE result == [Free EXCEPT !.phase = "started", !.password = p]
  <2>1. /\ DOMAIN result = {"phase", "password", "answer"}
        /\ result.phase = "started" /\ result.password = p /\ result.answer = None
    BY DEF Free
  <2>2. result = [x \in {"phase", "password", "answer"} |-> result[x]]
    BY <2>1 DEF Free
  <2>3. [phase |-> "started", password |-> p, answer |-> None]
          = [x \in {"phase", "password", "answer"} |-> result[x]]
    <3> HIDE DEF result
    <3> QED BY <2>1
  <2> QED BY <2>2, <2>3
<1>2. PICK n \in Logins :
         /\ login[n].phase = "free"
         /\ \A d \in Callers : caller[d].on # n
         /\ login' = [login EXCEPT ![n] = [Free EXCEPT !.phase = "started", !.password = p]]
         /\ inflight' = n
         /\ caller' = [caller EXCEPT ![c] =
                         [pc |-> "shares", password |-> p, flood |-> flood, on |-> n]]
  BY DEF Begin
<1> QED BY <1>1, <1>2

LEMMA TransmitLemma ==
  ASSUME Shape, NEW n \in Logins, Transmit(n)
  PROVE  /\ login' = [login EXCEPT ![n] = [phase |-> "sent", password |-> login[n].password,
                                           answer |-> login[n].answer]]
         /\ login' \in [Logins -> Tasks]
<1>1. login[n] \in Tasks
  BY DEF Shape
<1>2. [login[n] EXCEPT !.phase = "sent"] = [phase |-> "sent", password |-> login[n].password,
                                           answer |-> login[n].answer]
  BY <1>1 DEF Tasks
<1>3. login' = [login EXCEPT ![n] = [login[n] EXCEPT !.phase = "sent"]]
  BY DEF Transmit
<1>4. [phase |-> "sent", password |-> login[n].password, answer |-> login[n].answer] \in Tasks
  BY <1>1 DEF Tasks, Phases
<1> QED BY <1>2, <1>3, <1>4 DEF Shape

LEMMA AnsweredLemma ==
  ASSUME NEW task \in Tasks, NEW role
  PROVE  [task EXCEPT !.phase = "answered", !.answer = role]
           = [phase |-> "answered", password |-> task.password, answer |-> role]
<1> DEFINE result == [task EXCEPT !.phase = "answered", !.answer = role]
<1>1. /\ DOMAIN result = {"phase", "password", "answer"}
      /\ result.phase = "answered" /\ result.password = task.password /\ result.answer = role
  BY DEF Tasks
<1>2. result = [x \in {"phase", "password", "answer"} |-> result[x]]
  BY <1>1 DEF Tasks
<1>3. [phase |-> "answered", password |-> task.password, answer |-> role]
        = [x \in {"phase", "password", "answer"} |-> result[x]]
  <2> HIDE DEF result
  <2> QED BY <1>1
<1> QED BY <1>2, <1>3

LEMMA AnswerLemma ==
  ASSUME Shape, NEW a \in air, Answer(a)
  PROVE  /\ login' \in [Logins -> Tasks]
         /\ \A n \in Logins :
              IF login[n].phase = "sent"
              THEN login'[n] = [phase |-> "answered", password |-> login[n].password, answer |-> a.role]
              ELSE login'[n] = login[n]
<1>1. a.role \in Roles \cup {"refused"}
  BY DEF Shape
<1>2. ASSUME NEW n \in Logins
      PROVE  [login[n] EXCEPT !.phase = "answered", !.answer = a.role]
               = [phase |-> "answered", password |-> login[n].password, answer |-> a.role]
  BY AnsweredLemma DEF Shape
<1>3. \A n \in Logins :
        [phase |-> "answered", password |-> login[n].password, answer |-> a.role] \in Tasks
  BY <1>1 DEF Shape, Tasks, Phases, Answers
<1>4. \A n \in Logins :
        login'[n] = IF login[n].phase = "sent"
                    THEN [login[n] EXCEPT !.phase = "answered", !.answer = a.role]
                    ELSE login[n]
  BY DEF Answer
<1>5. login \in [Logins -> Tasks]
  BY DEF Shape
<1>6. login' = [n \in Logins |-> login'[n]]
  BY DEF Answer
<1>7. \A n \in Logins :
        IF login[n].phase = "sent"
        THEN login'[n] = [phase |-> "answered", password |-> login[n].password, answer |-> a.role]
        ELSE login'[n] = login[n]
  BY <1>2, <1>4
<1>8. \A n \in Logins : login'[n] \in Tasks
  BY <1>3, <1>5, <1>7
<1> QED BY <1>6, <1>7, <1>8

LEMMA SettleLemma ==
  ASSUME Shape, NEW n \in Logins, Settle(n)
  PROVE  /\ login' = [login EXCEPT ![n] = Free]
         /\ login' \in [Logins -> Tasks]
         /\ inflight' \in {inflight, 0} /\ inflight' # n
         /\ air' \subseteq [to: Logins \cup {0}, role: Roles \cup {"refused"}]
<1>1. login' = [login EXCEPT ![n] = Free] /\ login' \in [Logins -> Tasks]
  BY Names DEF Settle, Shape
<1>2. inflight' \in {inflight, 0} /\ inflight' # n
  BY DEF Settle, Logins
<1>3. air' \subseteq [to: Logins \cup {0}, role: Roles \cup {"refused"}]
  <2>1. ASSUME NEW a \in air
        PROVE  [a EXCEPT !.to = 0] \in [to: Logins \cup {0}, role: Roles \cup {"refused"}]
    BY DEF Shape
  <2> QED BY <2>1 DEF Settle, Shape
<1> QED BY <1>1, <1>2, <1>3

-----------------------------------------------------------------------------
(* The type.                                                               *)

LEMMA AskKeepsType ==
  ASSUME Shape, NEW c \in Callers, NEW p \in Typed, NEW flood \in BOOLEAN, Ask(c, p, flood)
  PROVE  Shape'
<1>1. UNCHANGED <<stores, known, air, worked>>
  BY DEF Ask
<1>2. CASE inflight = 0 /\ Begin(c, p, flood)
  <2>1. PICK n \in Logins :
           /\ login' = [login EXCEPT ![n] = [phase |-> "started", password |-> p, answer |-> None]]
           /\ inflight' = n
           /\ caller' = [caller EXCEPT ![c] =
                           [pc |-> "shares", password |-> p, flood |-> flood, on |-> n]]
    BY <1>2, BeginLemma
  <2>2. /\ [phase |-> "started", password |-> p, answer |-> None] \in Tasks
        /\ [pc |-> "shares", password |-> p, flood |-> flood, on |-> n] \in Calls
    BY DEF Tasks, Phases, Answers, Calls, Places
  <2> QED BY <1>1, <2>1, <2>2 DEF stores, Shape
<1>3. CASE inflight # 0 /\ UNCHANGED <<login, inflight>>
  <2>1. caller' = [caller EXCEPT ![c] =
             [pc |-> IF login[inflight].password = p /\ ~flood THEN "shares" ELSE "waits",
              password |-> p, flood |-> flood, on |-> inflight]]
    BY <1>3 DEF Ask
  <2>2. [pc |-> IF login[inflight].password = p /\ ~flood THEN "shares" ELSE "waits",
         password |-> p, flood |-> flood, on |-> inflight] \in Calls
    BY DEF Calls, Places, Shape
  <2> QED BY <1>1, <1>3, <2>1, <2>2 DEF stores, Shape
<1> QED BY <1>2, <1>3 DEF Ask

LEMMA SettledType ==
  ASSUME Shape, NEW n \in Logins, Settle(n), UNCHANGED <<caller, known, worked>>,
         heard' \in BOOLEAN,
         member' \in [access: Roles, password: Typed \cup {None}] \cup {NotJoined},
         admin' \in Typed \cup {None}
  PROVE  Shape'
<1>1. \A m \in Logins : /\ login'[m].phase # "free" => login'[m].password \in Typed
                        /\ login'[m].phase = "answered" => login'[m].answer # None
  BY SettleLemma, Names DEF Shape
<1> QED BY <1>1, SettleLemma DEF Shape

LEMMA RoomsTypeInit == Init => Shape
<1> SUFFICES ASSUME Init PROVE Shape
  OBVIOUS
<1>1. login \in [Logins -> Tasks] /\ caller \in [Callers -> Calls]
  BY Names DEF Init
<1>2. \A n \in Logins : login[n].phase = "free"
  BY Names DEF Init
<1>3. \A c \in Callers : caller[c].pc = "away"
  BY Names DEF Init
<1> QED BY <1>1, <1>2, <1>3 DEF Init, Typed, Roles, Shape

LEMMA RoomsTypeNext == Shape /\ [Next]_vars => Shape'
<1> SUFFICES ASSUME Shape, [Next]_vars
             PROVE  Shape'
  OBVIOUS
<1>1. ASSUME NEW c \in Callers, NEW p \in Passwords, NEW flood \in BOOLEAN, Ask(c, p, flood)
      PROVE  Shape'
  BY <1>1, AskKeepsType DEF Typed
<1>2. ASSUME NEW c \in Callers, Resume(c)
      PROVE  Shape'
  <2>1. caller[c].password \in Typed /\ caller[c].flood \in BOOLEAN
    BY <1>2 DEF Calls, Resume, Shape
  <2>2. PICK n \in Logins :
           /\ login' = [login EXCEPT ![n] = [phase |-> "started", password |-> caller[c].password,
                                             answer |-> None]]
           /\ inflight' = n
           /\ caller' = [caller EXCEPT ![c] = [pc |-> "shares", password |-> caller[c].password,
                                               flood |-> caller[c].flood, on |-> n]]
    <3>1. Begin(c, caller[c].password, caller[c].flood)
      BY <1>2 DEF Resume
    <3> QED BY <2>1, <3>1, BeginLemma
  <2>3. /\ [phase |-> "started", password |-> caller[c].password, answer |-> None] \in Tasks
        /\ [pc |-> "shares", password |-> caller[c].password,
            flood |-> caller[c].flood, on |-> n] \in Calls
    BY <2>1 DEF Tasks, Phases, Answers, Calls, Places
  <2>4. UNCHANGED <<member, admin, heard, known, air, worked>>
    BY <1>2 DEF Resume, stores
  <2> QED BY <2>1, <2>2, <2>3, <2>4 DEF Shape
<1>3. ASSUME NEW c \in Callers, Return(c) \/ Leave(c)
      PROVE  Shape'
  <2>1. caller' = [caller EXCEPT ![c] = Away]
    BY <1>3 DEF Return, Leave
  <2>2. UNCHANGED <<member, admin, heard, inflight, login, known, air, worked>>
    BY <1>3 DEF Return, Leave, stores
  <2> QED BY <2>1, <2>2, Names DEF Shape
<1>4. ASSUME NEW n \in Logins, Transmit(n)
      PROVE  Shape'
  <2>1. /\ login' = [login EXCEPT ![n] = [phase |-> "sent", password |-> login[n].password,
                                          answer |-> login[n].answer]]
        /\ login' \in [Logins -> Tasks]
    BY <1>4, TransmitLemma
  <2>2. login[n].password \in Typed
    BY <1>4 DEF Transmit, Shape
  <2>3. UNCHANGED <<member, admin, heard, inflight, caller>>
    BY <1>4 DEF Transmit, stores
  <2>4. PICK role \in Gives(login[n].password) :
          \/ /\ role # None
             /\ known' = role
             /\ air' = air \cup {[to |-> n, role |-> role]}
             /\ worked' = worked \cup {login[n].password}
          \/ /\ role = None /\ REFUSES
             /\ air' = air \cup {[to |-> n, role |-> "refused"]}
             /\ UNCHANGED <<known, worked>>
          \/ UNCHANGED <<known, air, worked>>
    BY <1>4 DEF Transmit
  <2>5. role \in Roles \cup {None}
    BY <2>4 DEF Gives, Roles, Shape
  <2>6. \A m \in Logins : /\ login'[m].phase # "free" => login'[m].password \in Typed
                          /\ login'[m].phase = "answered" => login'[m].answer # None
    BY <2>1, <2>2 DEF Shape
  <2>7. /\ known' \in Roles \cup {None}
        /\ air' \subseteq [to: Logins \cup {0}, role: Roles \cup {"refused"}]
        /\ worked' \subseteq Typed
    BY <2>2, <2>4, <2>5 DEF Shape
  <2> QED BY <2>1, <2>3, <2>6, <2>7 DEF Shape
<1>5. ASSUME NEW n \in Logins, Accepted(n)
      PROVE  Shape'
  <2>1. login[n].answer \in Roles /\ login[n].password \in Typed
    BY <1>5 DEF Accepted, Tasks, Answers, Shape
  <2>3. Record(login[n].password, login[n].answer) /\ Settle(n) /\ UNCHANGED <<caller, known, worked>>
    BY <1>5 DEF Accepted
  <2>4. Password \in Typed \cup {None}
    BY DEF Password, NotJoined, Shape
  <2>5. /\ member' \in [access: Roles, password: Typed \cup {None}]
        /\ admin' \in Typed \cup {None} /\ heard' \in BOOLEAN
    BY <2>1, <2>3, <2>4 DEF Record, Shape
  <2> QED BY <2>3, <2>5, SettledType
<1>6. ASSUME NEW n \in Logins, Refused(n)
      PROVE  Shape'
  BY <1>6, SettledType DEF Refused, Shape
<1>7. ASSUME NEW n \in Logins, Silence(n)
      PROVE  Shape'
  BY <1>7, SettledType DEF Silence, stores, Shape
<1>8. ASSUME NEW a \in air, Answer(a)
      PROVE  Shape'
  <2>0. a.role \in Roles \cup {"refused"}
    BY <1>8 DEF Shape
  <2>1. ASSUME NEW n \in Logins
        PROVE  /\ login'[n].phase # "free" => login'[n].password \in Typed
               /\ login'[n].phase = "answered" => login'[n].answer # None
    <3>1. CASE login[n].phase = "sent"
      <4>1. login'[n] = [phase |-> "answered", password |-> login[n].password, answer |-> a.role]
        BY <1>8, <3>1, AnswerLemma
      <4>2. login[n].password \in Typed
        BY <3>1 DEF Shape
      <4>3. a.role # None
        BY <2>0 DEF None, Roles
      <4> QED BY <4>1, <4>2, <4>3
    <3>2. CASE login[n].phase # "sent"
      BY <1>8, <3>2, AnswerLemma DEF Shape
    <3> QED BY <3>1, <3>2
  <2> QED BY <1>8, <2>1, AnswerLemma DEF Answer, stores, Shape
<1>9. ASSUME NEW a \in air, Lost(a)
      PROVE  Shape'
  BY <1>9 DEF Lost, stores, Shape
<1>10. ASSUME NEW c \in Callers, OpenRoom(c)
      PROVE  Shape'
  <2>1. PICK p \in {admin, Password} : p # None /\ Ask(c, p, FALSE)
    BY <1>10 DEF OpenRoom
  <2>2. p \in Typed
    BY <2>1 DEF Password, NotJoined, Shape
  <2> QED BY <2>1, <2>2, AskKeepsType
<1>11. CASE Forget \/ HearPost \/ Quiet \/ RoomRestarts
  BY <1>11 DEF Forget, HearPost, Quiet, RoomRestarts, stores, Shape
<1>12. CASE UNCHANGED vars
  BY <1>12 DEF vars, stores, Shape
<1> QED
  BY <1>1, <1>2, <1>3, <1>4, <1>5, <1>6, <1>7, <1>8, <1>9, <1>10, <1>11, <1>12
     DEF Next, LoginNext, CallerStep, LoginStep

-----------------------------------------------------------------------------
(* The entry of the login in progress.                                     *)

LEMMA BeginRuns ==
  ASSUME Shape, InflightRuns, NEW c \in Callers, NEW p \in Typed, NEW flood \in BOOLEAN,
         Begin(c, p, flood)
  PROVE  InflightRuns'
<1>1. PICK n \in Logins :
         /\ login[n].phase = "free"
         /\ \A d \in Callers : caller[d].on # n
         /\ login' = [login EXCEPT ![n] = [phase |-> "started", password |-> p, answer |-> None]]
         /\ inflight' = n
         /\ caller' = [caller EXCEPT ![c] =
                         [pc |-> "shares", password |-> p, flood |-> flood, on |-> n]]
  BY BeginLemma
<1>2. /\ login'[n] = [phase |-> "started", password |-> p, answer |-> None]
      /\ \A m \in Logins : m # n => login'[m] = login[m]
  BY <1>1 DEF Shape
<1>3. /\ caller'[c] = [pc |-> "shares", password |-> p, flood |-> flood, on |-> n]
      /\ \A d \in Callers : d # c => caller'[d] = caller[d]
  BY <1>1 DEF Shape
<1>4. \A d \in Callers : d # c /\ caller[d].pc = "shares" => caller[d].on \in Logins \ {n}
  BY <1>1 DEF Shape
<1> QED BY <1>1, <1>2, <1>3, <1>4 DEF InflightRuns, Running

LEMMA InflightNext == Shape /\ InflightRuns /\ [Next]_vars => InflightRuns'
<1> SUFFICES ASSUME Shape, InflightRuns, [Next]_vars
             PROVE  InflightRuns'
  OBVIOUS
<1> USE DEF InflightRuns, Running
<1>1. ASSUME NEW c \in Callers, NEW p \in Typed, NEW flood \in BOOLEAN, Ask(c, p, flood)
      PROVE  InflightRuns'
  <2>1. CASE inflight = 0 /\ Begin(c, p, flood)
    BY <2>1, BeginRuns
  <2>2. CASE inflight # 0 /\ UNCHANGED <<login, inflight>>
    BY <1>1, <2>2 DEF Ask, Shape
  <2> QED BY <1>1, <2>1, <2>2 DEF Ask
<1>2. ASSUME NEW c \in Callers, Resume(c)
      PROVE  InflightRuns'
  <2>1. /\ caller[c].password \in Typed /\ caller[c].flood \in BOOLEAN
        /\ Begin(c, caller[c].password, caller[c].flood)
    BY <1>2 DEF Calls, Resume, Shape
  <2> QED BY <2>1, BeginRuns
<1>3. ASSUME NEW c \in Callers, Return(c) \/ Leave(c)
      PROVE  InflightRuns'
  BY <1>3, Names DEF Return, Leave, Shape
<1>4. ASSUME NEW n \in Logins, Transmit(n)
      PROVE  InflightRuns'
  <2>1. UNCHANGED <<inflight, caller>> /\ login[n].phase = "started"
    BY <1>4 DEF Transmit
  <2>2. \A m \in Logins : Running(m)' <=> Running(m)
    BY <1>4, <2>1, TransmitLemma DEF Shape
  <2>3. \A m \in Logins : login'[m].password = login[m].password
    BY <1>4, TransmitLemma DEF Shape
  <2> QED BY <2>1, <2>2, <2>3 DEF Shape
<1>5. ASSUME NEW n \in Logins, Settle(n), UNCHANGED caller
      PROVE  InflightRuns'
  <2>1. inflight' # 0 => inflight' = inflight /\ inflight # n
    BY <1>5, SettleLemma
  <2>2. \A m \in Logins : m # n => login'[m] = login[m]
    BY <1>5, SettleLemma DEF Shape
  <2>3. login'[n].phase = "free"
    BY <1>5, SettleLemma, Names DEF Shape
  <2> QED BY <1>5, <2>1, <2>2, <2>3 DEF Shape
<1>6. ASSUME NEW n \in Logins, Accepted(n) \/ Refused(n) \/ Silence(n)
      PROVE  InflightRuns'
  BY <1>5, <1>6 DEF Accepted, Refused, Silence
<1>7. ASSUME NEW a \in air, Answer(a)
      PROVE  InflightRuns'
  <2>1. UNCHANGED <<inflight, caller>>
    BY <1>7 DEF Answer
  <2>2. \A n \in Logins : (Running(n)' <=> Running(n)) /\ login'[n].password = login[n].password
    <3>1. ASSUME NEW n \in Logins, login[n].phase = "sent"
          PROVE  login'[n].phase = "answered" /\ login'[n].password = login[n].password
      <4>1. login'[n] = [phase |-> "answered", password |-> login[n].password, answer |-> a.role]
        BY <1>7, <3>1, AnswerLemma
      <4> QED BY <4>1
    <3>2. ASSUME NEW n \in Logins, login[n].phase # "sent"
          PROVE  login'[n] = login[n]
      BY <1>7, <3>2, AnswerLemma
    <3> QED BY <3>1, <3>2
  <2> QED BY <2>1, <2>2 DEF Shape
<1>8. ASSUME NEW a \in air, Lost(a)
      PROVE  InflightRuns'
  BY <1>8 DEF Lost
<1>9. ASSUME NEW c \in Callers, OpenRoom(c)
      PROVE  InflightRuns'
  <2>1. PICK p \in {admin, Password} : p # None /\ Ask(c, p, FALSE)
    BY <1>9 DEF OpenRoom
  <2>2. p \in Typed
    BY <2>1 DEF Password, NotJoined, Shape
  <2> QED BY <1>1, <2>1, <2>2
<1>10. CASE Forget \/ HearPost \/ Quiet \/ RoomRestarts
  BY <1>10 DEF Forget, HearPost, Quiet, RoomRestarts
<1>11. CASE UNCHANGED vars
  BY <1>11 DEF vars
<1> QED
  BY <1>1, <1>2, <1>3, <1>4, <1>6, <1>7, <1>8, <1>9, <1>10, <1>11
     DEF Next, LoginNext, CallerStep, LoginStep, Typed

-----------------------------------------------------------------------------
(* One user whose answers are not late.                                    *)

\* The screens of one user call one after the other, and no answer comes after its wait.
OneUser == ~LATE /\ \A c, d \in Callers : c = d

Alone ==
  /\ \A n \in Logins : Running(n) => inflight = n
  /\ \A c \in Callers : caller[c].pc = "waits" => inflight \in {0, caller[c].on}

\* What an answer to password p says of it.
Honest(p, role) ==
  /\ role # "refused" => p \in worked
  /\ p = MemberPw /\ p # Blank => role = "member"
  /\ role = "member" => p \in {MemberPw, Blank}

Truthful ==
  /\ \A a \in air : /\ a.to \in Logins
                    /\ login[a.to].phase \in {"sent", "answered"}
                    /\ Honest(login[a.to].password, a.role)
  /\ \A n \in Logins : login[n].phase = "answered" => Honest(login[n].password, login[n].answer)

UserInv == Shape /\ InflightRuns /\ Alone /\ Truthful /\ OnlyWhatWorked

LEMMA BeginIsAlone ==
  ASSUME OneUser, UserInv, inflight = 0, NEW c \in Callers, NEW p \in Typed, NEW flood \in BOOLEAN,
         Begin(c, p, flood), UNCHANGED <<stores, air, worked>>
  PROVE  Alone' /\ Truthful' /\ OnlyWhatWorked'
<1>1. PICK n \in Logins :
         /\ login[n].phase = "free"
         /\ login' = [login EXCEPT ![n] = [phase |-> "started", password |-> p, answer |-> None]]
         /\ inflight' = n
         /\ caller' = [caller EXCEPT ![c] =
                         [pc |-> "shares", password |-> p, flood |-> flood, on |-> n]]
  BY BeginLemma DEF UserInv
<1>2. /\ login'[n] = [phase |-> "started", password |-> p, answer |-> None]
      /\ \A m \in Logins : m # n => login'[m] = login[m]
  BY <1>1 DEF Shape, UserInv
<1>3. \A m \in Logins : ~Running(m)
  BY DEF UserInv, Alone, Logins
<1>4. Alone'
  <2>1. \A m \in Logins : Running(m)' => m = n
    BY <1>2, <1>3 DEF Running
  <2>2. \A d \in Callers : caller'[d].pc = "shares"
    BY <1>1 DEF OneUser, Shape, UserInv
  <2> QED BY <1>1, <2>1, <2>2 DEF Alone
<1>5. air = {}
  BY <1>3 DEF UserInv, Truthful, Running
<1>6. Truthful'
  <2>1. \A m \in Logins : login'[m].phase # "answered"
    BY <1>2, <1>3 DEF Running
  <2> QED BY <1>5, <2>1 DEF Truthful
<1>7. OnlyWhatWorked'
  BY DEF UserInv, OnlyWhatWorked, stores, Password
<1> QED BY <1>4, <1>6, <1>7

LEMMA AskIsAlone ==
  ASSUME OneUser, UserInv, NEW c \in Callers, NEW p \in Typed, NEW flood \in BOOLEAN,
         Ask(c, p, flood)
  PROVE  Alone' /\ Truthful' /\ OnlyWhatWorked'
<1>1. UNCHANGED <<stores, air, worked>>
  BY DEF Ask
<1>2. CASE inflight = 0 /\ Begin(c, p, flood)
  BY <1>1, <1>2, BeginIsAlone
<1>3. CASE inflight # 0 /\ UNCHANGED <<login, inflight>>
  <2>1. caller'[c].on = inflight
    BY <1>3 DEF Ask, UserInv, Shape
  <2>2. Alone'
    BY <1>3, <2>1 DEF UserInv, Alone, OneUser, Running
  <2>3. Truthful'
    BY <1>1, <1>3 DEF UserInv, Truthful, Honest
  <2>4. OnlyWhatWorked'
    BY <1>1 DEF UserInv, OnlyWhatWorked, stores, Password
  <2> QED BY <2>2, <2>3, <2>4
<1> QED BY <1>2, <1>3 DEF Ask

\* A login ends: no other was running, and its answers go with it.
LEMMA SettleIsAlone ==
  ASSUME OneUser, UserInv, NEW n \in Logins, Settle(n), Running(n), UNCHANGED <<caller, worked>>
  PROVE  Alone' /\ Truthful'
<1>1. /\ login'[n] = Free
      /\ \A m \in Logins : m # n => login'[m] = login[m]
  BY SettleLemma DEF UserInv, Shape
<1>2. \A m \in Logins : ~Running(m)'
  BY <1>1, Names DEF UserInv, Alone, Running
<1>3. inflight' = 0
  BY DEF UserInv, Alone, Settle
<1>4. Alone'
  BY <1>2, <1>3 DEF Alone
<1>5. air' = {}
  <2>1. air' = {a \in air : a.to # n}
    BY DEF Settle, OneUser
  <2>2. \A a \in air : a.to = n
    BY DEF UserInv, Truthful, Alone, Running
  <2> QED BY <2>1, <2>2
<1>6. Truthful'
  BY <1>2, <1>5 DEF Truthful, Running
<1> QED BY <1>4, <1>6

LEMMA TransmitIsTruthful ==
  ASSUME OneUser, UserInv, NEW n \in Logins, Transmit(n)
  PROVE  Alone' /\ Truthful' /\ OnlyWhatWorked'
<1>1. /\ login[n].phase = "started" /\ login'[n].phase = "sent"
      /\ \A m \in Logins : login'[m].password = login[m].password
      /\ \A m \in Logins : m # n => login'[m] = login[m]
      /\ UNCHANGED <<member, admin, inflight, caller>>
  <2>1. login'[n] = [phase |-> "sent", password |-> login[n].password, answer |-> login[n].answer]
    BY TransmitLemma DEF UserInv, Shape
  <2>2. \A m \in Logins : m # n => login'[m] = login[m]
    BY TransmitLemma DEF UserInv, Shape
  <2>3. login'[n].password = login[n].password /\ login'[n].phase = "sent"
    BY <2>1
  <2> QED BY <2>2, <2>3 DEF Transmit, stores
<1>2. \A m \in Logins : m # n => ~Running(m)
  BY <1>1 DEF UserInv, Alone, Running
<1>3. Alone'
  BY <1>1, <1>2 DEF UserInv, Alone, Running
<1>4. air = {}
  BY <1>1, <1>2 DEF UserInv, Truthful, Running
<1>5. PICK role \in Gives(login[n].password) :
        \/ /\ role # None
           /\ air' = air \cup {[to |-> n, role |-> role]}
           /\ worked' = worked \cup {login[n].password}
        \/ /\ role = None
           /\ air' = air \cup {[to |-> n, role |-> "refused"]}
           /\ UNCHANGED worked
        \/ UNCHANGED <<air, worked>>
  BY DEF Transmit
<1>6. worked \subseteq worked'
  BY <1>5
<1>7. ASSUME NEW a \in air'
      PROVE  a.to = n /\ Honest(login[n].password, a.role)'
  <2>1. CASE role # None /\ a = [to |-> n, role |-> role] /\ login[n].password \in worked'
    <3>1. a.to = n /\ a.role = role
      BY <2>1
    <3>2. login[n].password = MemberPw /\ login[n].password # Blank => role = "member"
      BY <1>5 DEF Gives
    <3>3. role = "member" => login[n].password \in {MemberPw, Blank}
      BY <1>5 DEF Gives, None
    <3> QED BY <1>1, <2>1, <3>1, <3>2, <3>3 DEF Honest
  <2>2. CASE role = None /\ a = [to |-> n, role |-> "refused"]
    <3>1. a.to = n /\ a.role = "refused"
      BY <2>2
    <3>2. ~(login[n].password = MemberPw /\ login[n].password # Blank)
      BY <1>5, <2>2 DEF Gives, None
    <3> QED BY <1>1, <3>1, <3>2 DEF Honest
  <2> QED BY <1>4, <1>5, <2>1, <2>2
<1>8. \A m \in Logins : login'[m].phase # "answered"
  BY <1>1, <1>2 DEF Running
<1>9. Truthful'
  BY <1>1, <1>7, <1>8 DEF Truthful
<1>10. OnlyWhatWorked'
  BY <1>1, <1>6 DEF UserInv, OnlyWhatWorked, Password
<1> QED BY <1>3, <1>9, <1>10

LEMMA AnswerIsTruthful ==
  ASSUME OneUser, UserInv, NEW a \in air, Answer(a)
  PROVE  Alone' /\ Truthful' /\ OnlyWhatWorked'
<1>1. /\ air' \subseteq air
      /\ UNCHANGED <<member, admin, inflight, caller, worked>>
  BY DEF Answer, stores
<1>2. \A n \in Logins : /\ Running(n)' <=> Running(n)
                        /\ login'[n].password = login[n].password
                        /\ login[n].phase # "sent" => login'[n] = login[n]
                        /\ login[n].phase = "sent" =>
                             login'[n].phase = "answered" /\ login'[n].answer = a.role
  <2>1. ASSUME NEW n \in Logins, login[n].phase = "sent"
        PROVE  /\ login'[n].phase = "answered" /\ login'[n].answer = a.role
               /\ login'[n].password = login[n].password
    <3>1. login'[n] = [phase |-> "answered", password |-> login[n].password, answer |-> a.role]
      BY <2>1, AnswerLemma DEF UserInv
    <3> QED BY <3>1
  <2>2. ASSUME NEW n \in Logins, login[n].phase # "sent"
        PROVE  login'[n] = login[n]
    BY <2>2, AnswerLemma DEF UserInv
  <2> QED BY <2>1, <2>2 DEF Running
<1>3. Alone'
  BY <1>1, <1>2 DEF UserInv, Alone
<1>4. \A n \in Logins : login[n].phase = "sent" => n = a.to
  BY DEF UserInv, Truthful, Alone, Running
<1>5. Truthful'
  <2>1. ASSUME NEW b \in air'
        PROVE  /\ b.to \in Logins
               /\ login'[b.to].phase \in {"sent", "answered"}
               /\ Honest(login[b.to].password, b.role)'
    BY <1>1, <1>2 DEF UserInv, Truthful, Honest
  <2>2. ASSUME NEW n \in Logins, login'[n].phase = "answered"
        PROVE  Honest(login[n].password, login[n].answer)'
    <3>1. CASE login[n].phase = "sent"
      BY <1>1, <1>2, <1>4, <3>1 DEF UserInv, Truthful, Honest
    <3>2. CASE login[n].phase # "sent"
      BY <1>1, <1>2, <2>2, <3>2 DEF UserInv, Truthful, Honest
    <3> QED BY <3>1, <3>2
  <2> QED BY <2>1, <2>2 DEF Truthful
<1>6. OnlyWhatWorked'
  BY <1>1 DEF UserInv, OnlyWhatWorked, Password
<1> QED BY <1>3, <1>5, <1>6

LEMMA UserNext == OneUser /\ UserInv /\ [Next]_vars => UserInv'
<1> SUFFICES ASSUME OneUser, UserInv, [Next]_vars
             PROVE  Alone' /\ Truthful' /\ OnlyWhatWorked'
  BY RoomsTypeNext, InflightNext DEF UserInv
<1>1. ASSUME NEW c \in Callers, NEW p \in Passwords, NEW flood \in BOOLEAN, Ask(c, p, flood)
      PROVE  Alone' /\ Truthful' /\ OnlyWhatWorked'
  BY <1>1, AskIsAlone DEF Typed
<1>2. ASSUME NEW c \in Callers, Resume(c)
      PROVE  Alone' /\ Truthful' /\ OnlyWhatWorked'
  <2>1. /\ caller[c].password \in Typed /\ caller[c].flood \in BOOLEAN
        /\ Begin(c, caller[c].password, caller[c].flood)
        /\ UNCHANGED <<stores, air, worked>>
    BY <1>2 DEF Calls, Resume, Shape, UserInv
  <2>2. inflight = 0
    BY <1>2 DEF Resume, UserInv, Alone, InflightRuns
  <2> QED BY <2>1, <2>2, BeginIsAlone
<1>3. ASSUME NEW c \in Callers, Return(c) \/ Leave(c)
      PROVE  Alone' /\ Truthful' /\ OnlyWhatWorked'
  <2>1. /\ caller' = [caller EXCEPT ![c] = Away]
        /\ UNCHANGED <<member, admin, inflight, login, air, worked>>
    BY <1>3 DEF Return, Leave, stores
  <2>2. Alone'
    BY <2>1, Names DEF UserInv, Alone, Running, Shape
  <2> QED BY <2>1, <2>2 DEF UserInv, Truthful, Honest, OnlyWhatWorked, Password
<1>4. ASSUME NEW n \in Logins, Transmit(n)
      PROVE  Alone' /\ Truthful' /\ OnlyWhatWorked'
  BY <1>4, TransmitIsTruthful
<1>5. ASSUME NEW n \in Logins, Accepted(n)
      PROVE  Alone' /\ Truthful' /\ OnlyWhatWorked'
  <2>1. /\ Settle(n) /\ Running(n) /\ UNCHANGED <<caller, worked>>
        /\ Record(login[n].password, login[n].answer)
    BY <1>5 DEF Accepted, Running
  <2>2. login[n].password \in worked
    BY <1>5 DEF Accepted, UserInv, Truthful, Honest
  <2>3. OnlyWhatWorked'
    BY <2>1, <2>2 DEF Record, UserInv, OnlyWhatWorked, Password
  <2> QED BY <2>1, <2>3, SettleIsAlone
<1>6. ASSUME NEW n \in Logins, Refused(n)
      PROVE  Alone' /\ Truthful' /\ OnlyWhatWorked'
  <2>1. Settle(n) /\ Running(n) /\ UNCHANGED <<caller, worked>>
    BY <1>6 DEF Refused, Running
  <2>2. OnlyWhatWorked'
    BY <1>6 DEF Refused, UserInv, OnlyWhatWorked, Password, NotJoined
  <2> QED BY <2>1, <2>2, SettleIsAlone
<1>7. ASSUME NEW n \in Logins, Silence(n)
      PROVE  Alone' /\ Truthful' /\ OnlyWhatWorked'
  <2>1. Settle(n) /\ Running(n) /\ UNCHANGED <<member, admin, caller, worked>>
    BY <1>7 DEF Silence, Running, stores
  <2>2. OnlyWhatWorked'
    BY <2>1 DEF UserInv, OnlyWhatWorked, Password
  <2> QED BY <2>1, <2>2, SettleIsAlone
<1>8. ASSUME NEW a \in air, Answer(a)
      PROVE  Alone' /\ Truthful' /\ OnlyWhatWorked'
  BY <1>8, AnswerIsTruthful
<1>9. ASSUME NEW a \in air, Lost(a)
      PROVE  Alone' /\ Truthful' /\ OnlyWhatWorked'
  BY <1>9 DEF Lost, stores, UserInv, Alone, Running, Truthful, Honest, OnlyWhatWorked, Password
<1>10. ASSUME NEW c \in Callers, OpenRoom(c)
      PROVE  Alone' /\ Truthful' /\ OnlyWhatWorked'
  <2>1. PICK p \in {admin, Password} : p # None /\ Ask(c, p, FALSE)
    BY <1>10 DEF OpenRoom
  <2>2. p \in Typed
    BY <2>1 DEF Password, NotJoined, Shape, UserInv
  <2> QED BY <2>1, <2>2, AskIsAlone
<1>11. CASE Forget
  BY <1>11 DEF Forget, NotJoined, UserInv, Alone, Running, Truthful, Honest, OnlyWhatWorked, Password
<1>12. CASE HearPost \/ Quiet \/ RoomRestarts \/ UNCHANGED vars
  BY <1>12 DEF HearPost, Quiet, RoomRestarts, vars, stores, UserInv, Alone, Running, Truthful,
               Honest, OnlyWhatWorked, Password
<1> QED
  BY <1>1, <1>2, <1>3, <1>4, <1>5, <1>6, <1>7, <1>8, <1>9, <1>10, <1>11, <1>12
     DEF Next, LoginNext, CallerStep, LoginStep

\* A step that stays in the room keeps its password.
LEMMA KeptNext ==
  ASSUME OneUser, UserInv, [Next]_vars, ~Forget, Password = MemberPw, MemberPw # Blank
  PROVE  Password' = MemberPw
<1>1. ASSUME NEW n \in Logins, Accepted(n)
      PROVE  Password' = MemberPw
  <2>1. Honest(login[n].password, login[n].answer) /\ Record(login[n].password, login[n].answer)
    BY <1>1 DEF Accepted, UserInv, Truthful
  <2>2. Password' = IF login[n].answer = "admin" /\ login[n].password # Blank THEN Password
                    ELSE IF login[n].answer = "member" /\ login[n].password # Blank
                    THEN login[n].password
                    ELSE IF Password # None THEN Password ELSE login[n].password
    BY <2>1 DEF Record, Password
  <2> QED BY <2>1, <2>2 DEF Honest
<1>2. ASSUME NEW n \in Logins, Refused(n)
      PROVE  Password' = MemberPw
  <2>1. login[n].password # MemberPw
    BY <1>2 DEF Refused, UserInv, Truthful, Honest
  <2> QED BY <1>2, <2>1 DEF Refused, Password
<1>3. ASSUME UNCHANGED member
      PROVE  Password' = MemberPw
  BY <1>3 DEF Password
<1>4. \/ \E n \in Logins : Accepted(n) \/ Refused(n)
      \/ UNCHANGED member
  BY DEF Next, LoginNext, CallerStep, LoginStep, OpenRoom, Ask, Resume, Return, Leave, Transmit,
         Silence, Answer, Lost, HearPost, Quiet, RoomRestarts, vars, stores
<1> QED BY <1>1, <1>2, <1>3, <1>4

-----------------------------------------------------------------------------
(* The theorems.                                                           *)

LEMMA RoomsInvariant == Spec => [](Shape /\ InflightRuns)
<1>1. Init => Shape /\ InflightRuns
  <2>1. Init => InflightRuns
    BY Names DEF Init, InflightRuns
  <2> QED BY <2>1, RoomsTypeInit
<1>2. Shape /\ InflightRuns /\ [Next]_vars => (Shape /\ InflightRuns)'
  BY RoomsTypeNext, InflightNext
<1> QED BY <1>1, <1>2, PTL DEF Spec

LEMMA UserInvariant ==
  ASSUME OneUser
  PROVE  Spec => []UserInv
<1>1. Init => UserInv
  <2> SUFFICES ASSUME Init PROVE UserInv
    OBVIOUS
  <2>1. Shape /\ InflightRuns
    BY Names, RoomsTypeInit DEF Init, InflightRuns
  <2>2. Alone /\ Truthful
    BY Names DEF Init, Alone, Truthful, Running
  <2>3. OnlyWhatWorked
    BY DEF Init, OnlyWhatWorked, Password, NotJoined
  <2> QED BY <2>1, <2>2, <2>3 DEF UserInv
<1>2. UserInv /\ [Next]_vars => UserInv'
  BY UserNext
<1> QED BY <1>1, <1>2, PTL DEF Spec

\* The stores, the logins, the callers and the answers on their way keep their type, for any
\* number of callers and with late answers too.
THEOREM RoomsTypeCorrect == Spec => []TypeOK
BY RoomsInvariant, ShapeIsType, PTL

\* The login in progress is one that runs, and a login is shared only by callers with its own
\* password: for any number of callers, cancelled ones and late answers included (_settle).
THEOREM InflightIsRunning == Spec => []InflightRuns
BY RoomsInvariant, PTL

\* No store has a password that never worked, while the screens of one user call one after
\* the other and no answer is late (RoomStore.record, AdminStore.record).
THEOREM OnlyWorkedIsStored ==
  ASSUME OneUser
  PROVE  Spec => []OnlyWhatWorked
<1>1. UserInv => OnlyWhatWorked
  BY DEF UserInv
<1> QED BY <1>1, UserInvariant, PTL

\* The room password survives every login, with any password and any answer, until the room
\* is forgotten, under the same assumption.
THEOREM PasswordSurvives ==
  ASSUME OneUser
  PROVE  Spec => RoomPasswordKept
<1>1. UserInv /\ [Next]_vars =>
        [(Password = MemberPw /\ MemberPw # Blank) => Password' = MemberPw \/ Forget]_vars
  BY KeptNext
<1> QED BY <1>1, UserInvariant, PTL DEF Spec, RoomPasswordKept

=============================================================================
