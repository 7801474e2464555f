-------------------------------- MODULE Rooms --------------------------------
(***************************************************************************)
(* The logins to one room server (services/rooms.py), what they leave in   *)
(* the room store and the admin store, and the exchange on the air that    *)
(* each makes (_login of core/connection.py). Everything RoomService keeps *)
(* is indexed by the room, so the rooms do not interact.                   *)
(*                                                                         *)
(* A login is a task of its own, which a caller awaits behind a shield: a  *)
(* caller that is cancelled (its screen was closed) leaves it running.     *)
(* Answers of a room name the room and not the login they answer.          *)
(***************************************************************************)
EXTENDS Integers, FiniteSets

CONSTANTS
  Callers,    \* the tasks that call login()
  Passwords,  \* the passwords they give; Blank may be one
  MemberPw,   \* the room password, as its owner set it
  AdminPw,    \* the admin password of the room
  READ_ONLY,  \* the owner may let any password in, to read (allow.read.only)
  REFUSES,    \* the room may refuse a password with a frame, and not by silence only
  LATE,       \* an answer may come after its login stopped its wait
  SLOTS       \* bound: how many logins exist at one time

ASSUME RoomAssumption ==
  /\ MemberPw \in Passwords /\ MemberPw # AdminPw
  /\ READ_ONLY \in BOOLEAN /\ REFUSES \in BOOLEAN /\ LATE \in BOOLEAN
  /\ SLOTS \in Nat \ {0}

Blank == "blank"
None == "none"
ASSUME NoneAssumption == None \notin Passwords \cup {AdminPw}

VARIABLES
  member,    \* the membership in the room store (its access is None: not joined)
  admin,     \* the password in the admin store, or None
  heard,     \* heard_recently: a login or a post, not too long ago
  inflight,  \* _inflight: the login in progress, or 0
  login,     \* the login tasks
  caller,    \* where each caller is in login()
  known,     \* the room: the role it keeps for our node, or None
  air,       \* the answers of the room on their way
  worked     \* history: the passwords with which the room let us in

stores == <<member, admin, heard>>
vars == <<stores, inflight, login, caller, known, air, worked>>

Roles == {"admin", "member", "read-only"}
Logins == 1..SLOTS

NotJoined == [access |-> None, password |-> None]
Free == [phase |-> "free", password |-> None, answer |-> None]
Away == [pc |-> "away", password |-> None, flood |-> FALSE, on |-> 0]

Init ==
  /\ member = NotJoined
  /\ admin \in {None, AdminPw}
  /\ heard = FALSE
  /\ inflight = 0
  /\ login = [n \in Logins |-> Free]
  /\ caller = [c \in Callers |-> Away]
  /\ known = IF admin = None THEN None ELSE "admin"
  /\ air = {}
  /\ worked = {admin} \ {None}

Running(n) == login[n].phase \in {"started", "sent", "answered"}

-----------------------------------------------------------------------------
(* login().                                                                *)

\* The task of a new login, which its caller awaits. (A slot is free again when no caller
\* awaits its task.)
Begin(c, p, flood) ==
  \E n \in Logins :
    /\ login[n].phase = "free"
    /\ \A d \in Callers : caller[d].on # n
    /\ \A m \in Logins : m < n => login[m].phase # "free" \/ \E d \in Callers : caller[d].on = m
    /\ login' = [login EXCEPT ![n] = [Free EXCEPT !.phase = "started", !.password = p]]
    /\ inflight' = n
    /\ caller' = [caller EXCEPT ![c] = [pc |-> "shares", password |-> p, flood |-> flood, on |-> n]]

\* A plausible slip of login(): the login in progress is not looked at.
AskAtOnce(c, p, flood) ==
  /\ caller[c].pc = "away"
  /\ Begin(c, p, flood)
  /\ UNCHANGED <<stores, known, air, worked>>

\* login() up to its first await: with no login in progress it begins one, with one that
\* carries the same password it shares its answer, and it waits for the end of any other.
Ask(c, p, flood) ==
  /\ caller[c].pc = "away"
  /\ \/ inflight = 0 /\ Begin(c, p, flood)
     \/ /\ inflight # 0
        /\ caller' = [caller EXCEPT ![c] =
             [pc |-> IF login[inflight].password = p /\ ~flood THEN "shares" ELSE "waits",
              password |-> p, flood |-> flood, on |-> inflight]]
        /\ UNCHANGED <<login, inflight>>
  /\ UNCHANGED <<stores, known, air, worked>>

\* The login that the caller waited for has ended: it begins its own.
Resume(c) ==
  /\ caller[c].pc = "waits" /\ ~Running(caller[c].on)
  /\ Begin(c, caller[c].password, caller[c].flood)
  /\ UNCHANGED <<stores, known, air, worked>>

\* The caller gets the answer of the login it shares.
Return(c) ==
  /\ caller[c].pc = "shares" /\ ~Running(caller[c].on)
  /\ caller' = [caller EXCEPT ![c] = Away]
  /\ UNCHANGED <<stores, inflight, login, known, air, worked>>

\* The caller is cancelled, and the login it awaits goes on.
Leave(c) ==
  /\ caller[c].pc # "away"
  /\ caller' = [caller EXCEPT ![c] = Away]
  /\ UNCHANGED <<stores, inflight, login, known, air, worked>>

-----------------------------------------------------------------------------
(* One exchange (_login_once, _login), and the room at its other end.      *)

\* What the room may give for a password: a role, or None for a wrong one. (Where reading is
\* open to any password, the owner may close it and open it again.)
Gives(p) ==
  IF p = AdminPw THEN {"admin"}
  ELSE IF p = Blank /\ known # None THEN {known}
  ELSE IF p = MemberPw THEN {"member"}
  ELSE IF READ_ONLY THEN {"read-only", None} ELSE {None}

\* The login goes out. The room hears it, or it does not.
Transmit(n) ==
  /\ login[n].phase = "started"
  /\ login' = [login EXCEPT ![n].phase = "sent"]
  /\ \E role \in Gives(login[n].password) :
        \/ /\ role # None
           /\ known' = role
           /\ air' = air \cup {[to |-> n, role |-> role]}
           /\ worked' = worked \cup {login[n].password}
        \/ /\ role = None /\ REFUSES
           /\ air' = air \cup {[to |-> n, role |-> "refused"]}
           /\ UNCHANGED <<known, worked>>
        \/ UNCHANGED <<known, air, worked>>
  /\ UNCHANGED <<stores, inflight, caller>>

\* An answer of the room arrives: each login that listens to this room takes it for its own.
Answer(a) ==
  /\ a \in air
  /\ air' = air \ {a}
  /\ login' = [n \in Logins |-> IF login[n].phase = "sent"
                                THEN [login[n] EXCEPT !.phase = "answered", !.answer = a.role]
                                ELSE login[n]]
  /\ UNCHANGED <<stores, inflight, caller, known, worked>>

Lost(a) ==
  /\ a \in air
  /\ air' = air \ {a}
  /\ UNCHANGED <<stores, inflight, login, caller, known, worked>>

Joined == member.access # None
Password == member.password

\* A plausible slip of record(): what was accepted last is remembered.
RecordLast(p, role) ==
  /\ member' = [access |-> role, password |-> p]
  /\ admin' = IF role = "admin" /\ p # Blank THEN p ELSE admin
  /\ heard' = TRUE

\* record() of the two stores, after the room accepted password p in a role.
Record(p, role) ==
  /\ member' = [access |-> role,
                password |-> IF role = "admin" /\ p # Blank THEN Password
                             ELSE IF role = "member" /\ p # Blank THEN p
                             ELSE IF Password # None THEN Password ELSE p]
  /\ admin' = IF role = "admin" /\ p # Blank THEN p ELSE admin
  /\ heard' = TRUE

\* A plausible slip: the caller clears the entry, and a caller that was cancelled does not.
SettleForCaller(n) ==
  /\ login' = [login EXCEPT ![n] = Free]
  /\ inflight' = IF inflight = n /\ \E c \in Callers : caller[c].on = n THEN 0 ELSE inflight
  /\ air' = {a \in air : a.to # n}

\* _settle(): the task has ended.
Settle(n) ==
  /\ login' = [login EXCEPT ![n] = Free]
  /\ inflight' = IF inflight = n THEN 0 ELSE inflight
  /\ air' = IF LATE THEN {IF a.to = n THEN [a EXCEPT !.to = 0] ELSE a : a \in air}
            ELSE {a \in air : a.to # n}

\* The login was accepted: the stores and the session remember it.
Accepted(n) ==
  /\ login[n].phase = "answered" /\ login[n].answer # "refused"
  /\ Record(login[n].password, login[n].answer)
  /\ Settle(n)
  /\ UNCHANGED <<caller, known, worked>>

\* The login was refused: each store forgets the password that was tried, if it holds that.
Refused(n) ==
  /\ login[n].phase = "answered" /\ login[n].answer = "refused"
  /\ member' = IF Password = login[n].password THEN NotJoined ELSE member
  /\ admin' = IF admin = login[n].password THEN None ELSE admin
  /\ Settle(n)
  /\ UNCHANGED <<heard, caller, known, worked>>

\* A plausible slip: the wait for the answer has no limit.
SilenceUnlimited(n) ==
  /\ login[n].phase = "started"
  /\ Settle(n)
  /\ UNCHANGED <<stores, caller, known, worked>>

\* No answer came in time, or the device raised: nothing is remembered and nothing forgotten.
Silence(n) ==
  /\ login[n].phase \in {"started", "sent"}
  /\ Settle(n)
  /\ UNCHANGED <<stores, caller, known, worked>>

-----------------------------------------------------------------------------
(* The rest of the session.                                                *)

\* forget(): leave the room.
Forget ==
  /\ member' = NotJoined
  /\ heard' = FALSE
  /\ UNCHANGED <<admin, inflight, login, caller, known, air, worked>>

\* heard(): the room sends a post.
HearPost ==
  /\ heard' = TRUE
  /\ known # None
  /\ UNCHANGED <<member, admin, inflight, login, caller, known, air, worked>>

\* room_relogin_minutes pass.
Quiet ==
  /\ heard /\ heard' = FALSE
  /\ UNCHANGED <<member, admin, inflight, login, caller, known, air, worked>>

\* login_due(), and password(): the room screen logs in when it opens.
OpenRoom(c) ==
  LET p == IF admin # None THEN admin ELSE Password
  IN /\ Joined /\ p # None /\ ~heard /\ inflight = 0
     /\ Ask(c, p, FALSE)

\* The room restarts, and keeps only its admins.
RoomRestarts ==
  /\ known \in {"member", "read-only"}
  /\ known' = None
  /\ UNCHANGED <<stores, inflight, login, caller, air, worked>>

-----------------------------------------------------------------------------
CallerStep(c) == Resume(c) \/ Return(c)
LoginStep(n) == Transmit(n) \/ Accepted(n) \/ Refused(n) \/ Silence(n)

LoginNext ==
  \/ \E c \in Callers :
       \/ \E p \in Passwords, flood \in BOOLEAN : Ask(c, p, flood)
       \/ CallerStep(c)
       \/ Leave(c)
  \/ \E n \in Logins : LoginStep(n)
  \/ \E a \in air : Answer(a) \/ Lost(a)

Next ==
  \/ LoginNext
  \/ \E c \in Callers : OpenRoom(c)
  \/ Forget \/ HearPost \/ Quiet \/ RoomRestarts

Spec == Init /\ [][Next]_vars

\* Each await of an exchange has a limit, and the event loop resumes what is ready. Nothing
\* else changes where a caller or a login is.
FairSpec ==
  /\ Init /\ [][LoginNext]_vars
  /\ \A c \in Callers : WF_vars(CallerStep(c))
  /\ \A n \in Logins : WF_vars(LoginStep(n))

-----------------------------------------------------------------------------
(* Properties.                                                             *)

Typed == Passwords \cup {AdminPw}

\* The type of the state.
TypeOK ==
  /\ member \in [access: Roles, password: Typed \cup {None}] \cup {NotJoined}
  /\ admin \in Typed \cup {None}
  /\ heard \in BOOLEAN
  /\ inflight \in Logins \cup {0}
  /\ login \in [Logins -> [phase: {"free", "started", "sent", "answered"},
                           password: Typed \cup {None}, answer: Roles \cup {"refused", None}]]
  /\ caller \in [Callers -> [pc: {"away", "shares", "waits"}, password: Typed \cup {None},
                             flood: BOOLEAN, on: Logins \cup {0}]]
  /\ known \in Roles \cup {None}
  /\ air \subseteq [to: Logins \cup {0}, role: Roles \cup {"refused"}]
  /\ worked \subseteq Typed

\* "Only one login to a room at a time, from any caller" (services/rooms.py:170).
OneLoginAtATime == \A m, n \in Logins : Running(m) /\ Running(n) => m = n

\* "A password that never worked is never written" (core/room_store.py:145), neither to the
\* room store nor to the admin store.
OnlyWhatWorked ==
  /\ admin # None => admin \in worked
  /\ Password # None => Password \in worked

\* A login never costs the member the password of the room: what the owner set, once it is
\* remembered, is remembered until the room is forgotten, whatever is tried afterwards.
RoomPasswordKept ==
  [][(Password = MemberPw /\ MemberPw # Blank) =>
       Password' = MemberPw \/ Forget]_vars

\* The login in progress is a login that runs: a room is never closed to later logins by one
\* that ended (_settle), and a caller shares only a login that carries its own password.
InflightRuns ==
  /\ inflight # 0 => Running(inflight)
  /\ \A c \in Callers : (caller[c].pc = "shares" /\ Running(caller[c].on))
                          => login[caller[c].on].password = caller[c].password

\* Each call of login() returns, or its caller is cancelled.
LoginReturns == \A c \in Callers : (caller[c].pc # "away") ~> (caller[c].pc = "away")

=============================================================================
