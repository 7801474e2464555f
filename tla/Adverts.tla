------------------------------- MODULE Adverts -------------------------------
(***************************************************************************)
(* The weekly flood advert: the scheduler (services/advert_scheduler.py),  *)
(* the store of the weeks (core/advert_store.py), the transmit clock       *)
(* (core/transmit_gate.py) and the hand-over of an advert to the companion *)
(* (core/connection.py), beside the adverts that the user sends by hand    *)
(* and the switch of the preference.                                       *)
(*                                                                         *)
(* A node is an identity (a public key). The companion that is connected   *)
(* has one, and a key import gives it another on the same connection. All  *)
(* times are ages in ticks, kept up to the limit at which they stop to     *)
(* matter. The scales are nearer than in the code: a week is some ticks    *)
(* long, and the quiet period, with its random extension, some ticks too.  *)
(***************************************************************************)
EXTENDS Integers, Sequences, FiniteSetsExt

CONSTANTS
  Nodes,             \* the identities of the companions
  Reachable,         \* those whose advert, tried again and again, is answered in the end
  WEEK,              \* the ticks of a week
  QUIET_S,           \* advert_quiet_s and its random extension
  COOLDOWN_S,        \* trace_cooldown_s
  FLOOD_COOLDOWN_S,  \* flood_advert_cooldown_s
  DUE_CHECK_S,       \* the ticks between two reads of the store
  REKEYS,            \* whether a key is imported
  SaveOutcomes       \* {TRUE}, or BOOLEAN when the writes of adverts.json may fail

None == "no node"

ASSUME AdvertsAssumption ==
  /\ None \notin Nodes /\ Reachable \subseteq Nodes
  /\ {WEEK, QUIET_S, COOLDOWN_S, FLOOD_COOLDOWN_S, DUE_CHECK_S} \subseteq Nat \ {0}
  /\ REKEYS \in BOOLEAN
  /\ SaveOutcomes \subseteq BOOLEAN

VARIABLES
  pref,      \* the preference weekly_flood_advert
  on,        \* adverts.json: the age of the switch-on time, or Never
  since,     \* adverts.json: the age of the start of the week of each node, or Never
  conn,      \* the identity of the connected companion, or None
  mine,      \* _device is the current connection
  key,       \* _key
  due,       \* _due
  checked,   \* _checked_at: its age; DUE_CHECK_S also stands for None
  heard,     \* _heard_on is the current connection
  silent,    \* ticks since anything was heard or sent, from the first packet of a connection
  cool,      \* what remaining(flood_advert=True) answers
  send,      \* the advert that each actor sends
  line,      \* the transmit lock: its holder, and who waits for it
  pass,      \* where the pass of the scheduler waits: idle, asking or sending
  onFor,     \* history: for how long the preference has been on, 0 if backdated
  backdated, \* history: it could not be written over the time of an earlier one
  flooded    \* history: the age of the last flood advert of each node that was not left unmarked

store == <<pref, on, since>>
link == <<conn, mine, heard>>
mind == <<key, due, checked>>
air == <<silent, cool, send, line>>
history == <<onFor, backdated, flooded>>
vars == <<store, link, mind, air, pass, history>>

Never == -1
Actors == {"scheduler", "user"}

\* An advert: the node that it is from, whether it is on the air, and, for the history,
\* whether another one was on its way first, and what flooded was before it.
NoSend == [node |-> None, out |-> FALSE, behind |-> FALSE, last |-> 0]

Init ==
  /\ pref = FALSE /\ on = Never /\ since = [n \in Nodes |-> Never]
  /\ conn = None /\ mine = FALSE /\ heard = FALSE
  /\ key = None /\ due = FALSE /\ checked = DUE_CHECK_S
  /\ silent = 0 /\ cool = 0
  /\ send = [a \in Actors |-> NoSend] /\ line = <<>> /\ pass = "idle"
  /\ onFor = 0 /\ backdated = FALSE /\ flooded = [n \in Nodes |-> WEEK]

-----------------------------------------------------------------------------
(* The store.                                                              *)

\* A plausible slip of set_enabled(): a switch that is on in the file is left alone.
SetEnabledOnce(to, saves) ==
  on' = IF ~saves THEN on ELSE IF ~to THEN Never ELSE IF on = Never THEN 0 ELSE on

\* set_enabled(): the week starts at each switch-on, whatever the file says.
SetEnabled(to, saves) == on' = IF ~saves THEN on ELSE IF to THEN 0 ELSE Never

\* sync_enabled() has something to write.
OutOfStep == pref # (on # Never)

\* The switch-on time after sync_enabled().
Synced == IF ~OutOfStep THEN on ELSE IF pref THEN 0 ELSE Never

\* due(), with a switch-on time and a week.
IsDue(enabled, week) == pref /\ enabled >= WEEK /\ week >= WEEK

\* mark_flood() for a node, or its failure.
MarkFlood(n, saves) ==
  /\ since' = IF saves THEN [since EXCEPT ![n] = 0] ELSE since
  /\ UNCHANGED <<pref, on>>

-----------------------------------------------------------------------------
(* One advert: send_advert() of the device, by the scheduler or by hand.   *)

\* The gate is marked before the lock is asked for.
Starts(a) ==
  /\ send' = [send EXCEPT ![a].node = conn, 
                         ![a].behind = a = "scheduler" /\ line # <<>>]
  /\ line' = Append(line, a)
  /\ silent' = 0
  /\ cool' = Max({COOLDOWN_S, FLOOD_COOLDOWN_S})

\* Whether an actor holds the lock or waits for it, and the line without it.
InLine(a) == \E k \in DOMAIN line : line[k] = a

Without(a) ==
  LET k == CHOOSE k \in DOMAIN line : line[k] = a
  IN IF InLine(a) THEN SubSeq(line, 1, k - 1) \o SubSeq(line, k + 1, Len(line)) ELSE line

\* send_advert() is left, and the lock with it.
Ends(a) ==
  /\ send' = [send EXCEPT ![a] = NoSend]
  /\ line' = Without(a)

\* The holder of the lock hands its advert over, and the companion floods it.
HandOver(a) ==
  /\ line # <<>> /\ Head(line) = a
  /\ ~send[a].out
  /\ send' = [send EXCEPT ![a] = [node |-> conn, out |-> TRUE, behind |-> FALSE,
                                  last |-> flooded[conn]]]
  /\ flooded' = [flooded EXCEPT ![conn] = 0]
  /\ UNCHANGED <<store, link, mind, silent, cool, line, pass, onFor, backdated>>

\* The history, when the adverts of some actors are never marked: the ones before count.
Unmarked(lost) ==
  [n \in Nodes |->
     LET gone == {a \in lost : send[a].out /\ send[a].node = n}
     IN IF gone = {} THEN flooded[n] ELSE send[CHOOSE a \in gone : TRUE].last]

\* What the scheduler does after its advert.
MarksOwn(saves) ==
  /\ MarkFlood(key, saves)
  /\ due' = IF saves THEN FALSE ELSE due
  /\ checked' = IF saves THEN DUE_CHECK_S ELSE checked
  /\ pass' = "idle"

\* The answer comes, and the caller marks the flood advert, the scheduler under its own key.
Answered(a, saves) ==
  /\ send[a].out /\ line # <<>> /\ Head(line) = a
  /\ IF a = "scheduler" THEN MarksOwn(saves) /\ UNCHANGED key
     ELSE MarkFlood(send[a].node, saves) /\ UNCHANGED <<mind, pass>>
  /\ flooded' = IF saves /\ (a = "scheduler" => key = send[a].node)
                THEN flooded ELSE Unmarked({a})
  /\ Ends(a)
  /\ UNCHANGED <<link, silent, cool, onFor, backdated>>

\* Whom send_advert() can leave with an error: the holder of the lock, the user, whose wait
\* for it may be given up, and whoever lost the link.
MayRaise(a) ==
  /\ send[a].node # None
  /\ InLine(a) /\ a = "scheduler" => Head(line) = a

\* A plausible slip of _pass(): an advert that failed is marked too.
RaisesMarked(a) ==
  /\ MayRaise(a)
  /\ flooded' = Unmarked({a})
  /\ IF a = "scheduler" THEN due' = FALSE /\ pass' = "idle" /\ MarkFlood(key, TRUE)
     ELSE UNCHANGED <<due, pass, store>>
  /\ Ends(a)
  /\ UNCHANGED <<link, key, checked, silent, cool, onFor, backdated>>

\* send_advert() raises: a refusal, no answer, or no link. The scheduler waits for its next
\* check. Whether the advert went out or not, nothing is marked.
Raises(a) ==
  /\ MayRaise(a)
  /\ flooded' = Unmarked({a})
  /\ IF a = "scheduler" THEN due' = FALSE /\ pass' = "idle" ELSE UNCHANGED <<due, pass>>
  /\ Ends(a)
  /\ UNCHANGED <<store, link, key, checked, silent, cool, onFor, backdated>>

\* The user sends a flood advert: from the menu, which waits for the cooldown first, or from
\* its command line, which does not.
UserSends ==
  /\ conn # None /\ send["user"] = NoSend
  /\ Starts("user")
  /\ UNCHANGED <<store, link, mind, pass, history>>

\* Any other transmission marks the general clock.
OtherSend ==
  /\ conn # None
  /\ silent' = 0 /\ cool' = Max({cool, COOLDOWN_S})
  /\ UNCHANGED <<store, link, mind, send, line, pass, history>>

-----------------------------------------------------------------------------
(* The pass of the scheduler.                                              *)

\* A connection that has no key yet: its public key is read.
PassAsks ==
  /\ pass = "idle" /\ conn # None
  /\ ~mine \/ key = None
  /\ mine' = TRUE /\ key' = None
  /\ due' = (mine /\ due)
  /\ checked' = IF mine THEN checked ELSE DUE_CHECK_S
  /\ pass' = "asking"
  /\ UNCHANGED <<store, conn, heard, air, history>>

\* The key cannot be read: the next tick tries again.
AskFails ==
  /\ pass = "asking" /\ pass' = "idle"
  /\ UNCHANGED <<store, link, mind, air, history>>

Quiet == heard /\ silent >= QUIET_S /\ cool = 0

\* A plausible slip of _check_due(): the scheduled look is the only one, so a cached verdict
\* sends.
DecidesCached(week, saves) ==
  LET looks == checked = DUE_CHECK_S
      verdict == IF looks THEN IsDue(Synced, week) ELSE due
  IN /\ on' = IF looks /\ saves THEN Synced ELSE on
     /\ checked' = IF looks THEN 0 ELSE checked
     /\ due' = IF looks /\ ~saves /\ OutOfStep THEN due ELSE verdict
     /\ IF due' /\ mine /\ Quiet
        THEN Starts("scheduler") /\ pass' = "sending"
        ELSE pass' = "idle" /\ UNCHANGED air

\* Another one: the store is read once for each connection.
DecidesOnce(week, saves) ==
  LET looks == checked = DUE_CHECK_S /\ ~due /\ key = None
      goes == (IF looks THEN IsDue(Synced, week) ELSE due) /\ mine /\ Quiet
      reads == looks \/ goes
      raises == reads /\ OutOfStep /\ ~saves
  IN /\ on' = IF reads /\ ~raises THEN Synced ELSE on
     /\ checked' = IF looks THEN 0 ELSE checked
     /\ due' = IF reads /\ ~raises THEN IsDue(Synced, week) ELSE due
     /\ IF goes /\ ~raises /\ due'
        THEN Starts("scheduler") /\ pass' = "sending"
        ELSE pass' = "idle" /\ UNCHANGED air

\* The rest of _pass(), with the key: the look at the store when its time has come, and, on a
\* due and quiet moment, the second look and the advert. A write that fails ends the pass.
Decides(week, saves) ==
  LET looks == checked = DUE_CHECK_S
      goes == (IF looks THEN IsDue(Synced, week) ELSE due) /\ mine /\ Quiet
      reads == looks \/ goes
      raises == reads /\ OutOfStep /\ ~saves
  IN /\ on' = IF reads /\ ~raises THEN Synced ELSE on
     /\ checked' = IF looks THEN 0 ELSE checked
     /\ due' = IF reads /\ ~raises THEN IsDue(Synced, week) ELSE due
     /\ IF goes /\ ~raises /\ due'
        THEN Starts("scheduler") /\ pass' = "sending"
        ELSE pass' = "idle" /\ UNCHANGED air

\* The key is there, of the connection that is now current: a node without a week gets one,
\* and the pass goes on. When arm() cannot write, the pass ends, and no later pass of this
\* connection arms the node.
AskAnswered(saves) ==
  /\ pass = "asking" /\ conn # None
  /\ key' = conn
  /\ IF since[conn] = Never /\ ~saves
     THEN pass' = "idle" /\ UNCHANGED <<store, due, checked, air>>
     ELSE /\ since' = IF since[conn] = Never THEN [since EXCEPT ![conn] = 0] ELSE since
          /\ Decides(since'[conn], saves)
          /\ UNCHANGED pref
  /\ UNCHANGED <<link, history>>

\* A pass with the key.
PassDecides(saves) ==
  /\ pass = "idle" /\ mine /\ key # None
  /\ Decides(since[key], saves)
  /\ UNCHANGED <<pref, since, link, key, history>>

\* recheck(): a screen that shows the status wants the store to be read at the next pass.
Recheck ==
  /\ checked # DUE_CHECK_S /\ checked' = DUE_CHECK_S
  /\ UNCHANGED <<store, link, key, due, air, pass, history>>

-----------------------------------------------------------------------------
(* The user, the link, the process and the clock.                          *)

\* The preference is switched and saved, and then the switch-on time is stored.
SetPref(to, saves) ==
  /\ pref # to /\ pref' = to
  /\ SetEnabled(to, saves)
  /\ onFor' = 0
  /\ backdated' = (to /\ ~saves /\ on # Never)
  /\ UNCHANGED <<since, link, mind, air, pass, flooded>>

Connect(n) ==
  /\ conn = None /\ conn' = n
  /\ UNCHANGED <<store, mine, heard, mind, air, pass, history>>

\* The link is let go, and its lock with it: the adverts on it raise (Raises). What is known of
\* the connection is not read any more.
Lose ==
  /\ conn # None /\ conn' = None /\ mine' = FALSE /\ heard' = FALSE
  /\ key' = None /\ due' = FALSE /\ checked' = DUE_CHECK_S
  /\ silent' = 0 /\ line' = <<>>
  /\ send' = [a \in Actors |-> [send[a] EXCEPT !.out = FALSE, !.behind = FALSE, !.last = 0]]
  /\ flooded' = Unmarked(Actors)
  /\ UNCHANGED <<store, cool, pass, onFor, backdated>>

\* A packet is heard.
Hear ==
  /\ conn # None
  /\ heard' = TRUE /\ silent' = 0
  /\ UNCHANGED <<store, conn, mine, mind, cool, send, line, pass, history>>

\* A key import: the same connection, with another identity.
Rekey(n) ==
  /\ REKEYS /\ conn \notin {None, n} /\ send["user"] = NoSend
  /\ conn' = n
  /\ UNCHANGED <<store, mine, heard, mind, air, pass, history>>

\* The process ends at any point. Before the next one starts, the user may edit the
\* preferences file. Nobody writes the time of a switch-on by hand.
Restart ==
  /\ pref' \in BOOLEAN
  /\ onFor' = IF pref' /\ pref THEN onFor ELSE 0
  /\ backdated' = (pref' /\ IF pref THEN backdated ELSE on # Never)
  /\ conn' = None /\ mine' = FALSE /\ heard' = FALSE
  /\ key' = None /\ due' = FALSE /\ checked' = DUE_CHECK_S
  /\ silent' = 0 /\ cool' = 0
  /\ send' = [a \in Actors |-> NoSend] /\ line' = <<>> /\ pass' = "idle"
  /\ flooded' = Unmarked(Actors)
  /\ UNCHANGED <<on, since>>

Older(age, limit) == IF age = Never \/ age = limit THEN age ELSE age + 1

Tick ==
  /\ on' = Older(on, WEEK) /\ since' = [n \in Nodes |-> Older(since[n], WEEK)]
  /\ checked' = Older(checked, DUE_CHECK_S) /\ silent' = IF heard THEN Older(silent, QUIET_S) ELSE 0
  /\ cool' = IF cool = 0 THEN 0 ELSE cool - 1
  /\ send' = [a \in Actors |->
                IF send[a].out THEN [send[a] EXCEPT !.last = Older(@, WEEK)] ELSE send[a]]
  /\ onFor' = IF pref /\ ~backdated THEN Older(onFor, WEEK) ELSE 0
  /\ flooded' = [n \in Nodes |-> Older(flooded[n], WEEK)]
  /\ UNCHANGED <<pref, link, key, due, line, pass, backdated>>

-----------------------------------------------------------------------------
Scheduler ==
  \/ PassAsks \/ AskFails
  \/ \E saves \in SaveOutcomes : AskAnswered(saves) \/ PassDecides(saves)

Advert(a) == HandOver(a) \/ Raises(a) \/ \E saves \in SaveOutcomes : Answered(a, saves)

World ==
  \/ UserSends \/ OtherSend \/ Recheck \/ Lose \/ Hear \/ Restart \/ Tick
  \/ \E to \in BOOLEAN, saves \in SaveOutcomes : SetPref(to, saves)
  \/ \E n \in Nodes : Connect(n) \/ Rekey(n)

Next == Scheduler \/ (\E a \in Actors : Advert(a)) \/ World

\* A quiet moment of the scheduler on a connection that began with a node, while nobody holds
\* the lock.
Clear(n) == Quiet /\ line = <<>> /\ mine /\ key = n

Sends == PassDecides(TRUE) /\ pass' = "sending"

\* The passes come every second, time passes, and an advert ends. A silence lasts for more
\* than one pass, and an advert and its mark, tried again and again for a node that can be
\* reached, succeed.
Fairness ==
  /\ WF_vars(Tick) /\ WF_vars(PassAsks \/ PassDecides(TRUE))
  /\ \A a \in Actors : WF_vars(Advert(a))
  /\ \A n \in Reachable :
       /\ SF_vars(Clear(n) /\ Sends)
       /\ SF_vars(key = n /\ HandOver("scheduler"))
       /\ SF_vars(key = n /\ Answered("scheduler", TRUE))

Spec == Init /\ [][Next]_vars /\ Fairness

-----------------------------------------------------------------------------
Age(limit) == -1..limit

\* The type of the state.
TypeOK ==
  /\ pref \in BOOLEAN /\ on \in Age(WEEK) /\ since \in [Nodes -> Age(WEEK)]
  /\ conn \in Nodes \cup {None} /\ mine \in BOOLEAN /\ heard \in BOOLEAN
  /\ mine \/ heard => conn # None
  /\ key \in Nodes \cup {None} /\ due \in BOOLEAN /\ checked \in 0..DUE_CHECK_S
  /\ silent \in 0..QUIET_S /\ cool \in 0..Max({COOLDOWN_S, FLOOD_COOLDOWN_S})
  /\ send \in [Actors -> [node: Nodes \cup {None}, out: BOOLEAN, behind: BOOLEAN, last: 0..WEEK]]
  /\ line \in Seq(Actors)
  /\ \A j, k \in DOMAIN line : line[j] = line[k] => j = k
  /\ pass = "sending" <=> send["scheduler"] # NoSend
  /\ onFor \in 0..WEEK /\ backdated \in BOOLEAN /\ flooded \in [Nodes -> 0..WEEK]

Started == pass # "sending" /\ pass' = "sending"

\* "at most once a week" (services/advert_scheduler.py): the advert of the scheduler goes on
\* the air only a full week after the last flood advert of the node, its own or one sent by
\* hand, also one that was in progress at its last scheduled look. Excepted are an earlier
\* advert that was never marked (a crash, a lost answer or a failed write between the air and
\* the file), one by hand that still had, or still waited for, the lock when the scheduler
\* decided, and a node that has another identity than its connection began with.
AtMostWeekly ==
  [][~send["scheduler"].out /\ send'["scheduler"].out /\ key = conn
       => flooded[conn] >= WEEK \/ send["scheduler"].behind]_vars

\* "when the user turns the preference on, MeshTerm never sends an advert"
\* (services/advert_scheduler.py): the preference has been on for a full week, through
\* restarts and failed writes. Excepted is a switch-on whose time could not be written over
\* that of an earlier one, which the code then takes for its own.
SwitchOnWaits == [][Started => pref /\ (onFor >= WEEK \/ backdated)]_vars

\* The week of a node starts again only with a flood advert that was handed over: for a
\* manual one, the week of the node that flooded it, for one of the scheduler, the week of its
\* key. One that was refused, or whose link was lost first, does not put the next advert off
\* (_pass, apply_ops).
WeekMovesWithAdvert ==
  [][\A n \in Nodes : since'[n] < since[n] =>
       \E a \in Actors : /\ send[a].out
                         /\ n = IF a = "scheduler" THEN key ELSE send[a].node]_vars

\* A due advert of a node that can be reached goes out, if quiet moments on connections that
\* began with that node come again and again: after failed adverts and failed writes, and also
\* when links are lost and processes end with the advert unsent, again and again ("the advert
\* stays due"). Only an advert or a switch of the preference ends the debt; after a key import
\* on the same connection, the advert is sent under the other identity.
GoesOut ==
  \A n \in Reachable : []<>Clear(n) => (IsDue(on, since[n]) ~> ~IsDue(on, since[n]))

=============================================================================
