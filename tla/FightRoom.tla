----------------------------- MODULE FightRoom -----------------------------
(***************************************************************************)
(* One fight on the game server: server/src/ws/fight-room.ts, with the     *)
(* turn timer of fight-pause.ts, the forfeit budget of reconnect-grace.ts  *)
(* and the socket and session handlers of handler.ts that call them.       *)
(*                                                                         *)
(* Node runs one callback at a time, so a callback is one action and the   *)
(* interleavings are those of socket events, timers and the continuations  *)
(* of awaits.  setTimeout is a countdown: Tick moves all of them, and time *)
(* stands still while one is due, so that due callbacks, messages and      *)
(* socket events run in any order.                                         *)
(*                                                                         *)
(* Combat (zones, damage, HP) is abstracted to one bit per resolved turn:  *)
(* whether checkFightEnd ends the fight.                                   *)
(***************************************************************************)
EXTENDS Integers, Sequences, FiniteSets, Bags

CONSTANTS
  PlayerA, PlayerB,             \* the fighters; PlayerB is the bot of a bot fight
  None,                         \* undefined
  TURN_TIMER_MS,                \* turn timer
  TURN_GAP_MS,                  \* delay between a result and the next turn
  GRACE_BUDGET_MS,              \* reconnect budget of a wallet for one fight
  MaxResults,                   \* bound: the fight ends at this many results
  MaxAuth                       \* bound: logins of a wallet in flight at once

Fighters == {PlayerA, PlayerB}

ASSUME FighterAssumption == PlayerA # PlayerB

ASSUME TimerAssumption ==
  /\ TURN_TIMER_MS \in Nat \ {0}
  /\ TURN_GAP_MS \in Nat \ {0}
  /\ GRACE_BUDGET_MS \in Nat \ {0}
  /\ MaxResults \in Nat \ {0}
  /\ MaxAuth \in Nat \ {0}
  /\ None \notin Nat

VARIABLES
  fight,        \* the FightState object, with the timers that point at it
  grace,        \* reconnect-grace records, one per wallet
  session,      \* the wallet's live socket, as connectedClients holds it
  seen,         \* history: events of this fight the handlers do not expect
  away          \* history: time each wallet spent offline in the active fight

vars == <<fight, grace, session, seen, away>>

Events == {"absent_at_start", "late_auth", "replaced", "resumed_between_turns"}

NoGrace == [active |-> FALSE, elapsed |-> 0, usedMs |-> 0]

\* Wallets a human plays: the bot has no socket.
Humans == IF fight.type = "bot" THEN {PlayerA} ELSE Fighters

Active == fight.status = "active"

\* Bound: once the fight is over, only callbacks already in flight are followed.
Over == fight.status = "finished"

Init ==
  /\ fight \in [type : {"pvp", "bot"}, status : {"creating"}, turn : {0},
                turnActions : {{}}, disconnectedWallets : {{}},
                turnPaused : {FALSE}, turnPausedRemainingMs : {0},
                turnTimer : {None}, strayTimers : {EmptyBag},
                gapTimers : {EmptyBag}, turnResults : {<<>>}, finishes : {0}]
  /\ grace = [p \in Fighters |-> NoGrace]
  /\ session = [p \in Fighters |->
                  [online |-> TRUE, seat |-> FALSE, authing |-> 0]]
  /\ seen = {}
  /\ away = [p \in Fighters |-> 0]

-----------------------------------------------------------------------------
(* What the functions of fight-room.ts and fight-pause.ts make of a fight *)

\* (Operators named Bug... are the function that follows them with a plausible
\* mistake in it; no definition uses one.)

\* The Math.max(0, ...) around deadline - now is forgotten.
BugNoClamp(f) == IF f.turnTimer = None THEN -1 ELSE f.turnTimer

\* The deadline is cleared or past whenever no turn timer runs.
RemainingMs(f) == IF f.turnTimer = None THEN 0 ELSE f.turnTimer

\* The disconnectedWallets check is forgotten: a turn always starts running.
BugStartsRunning(f) ==
  [f EXCEPT !.turn = @ + 1,
            !.turnActions = IF f.type = "bot" THEN {PlayerB} ELSE {},
            !.turnPaused = FALSE, !.turnPausedRemainingMs = 0,
            !.turnTimer = TURN_TIMER_MS]

\* A new turn.  The handle of a timer that is still running is overwritten, so
\* that nobody can clear it any more.
StartNextTurn(f) ==
  LET paused == f.disconnectedWallets # {}
  IN  [f EXCEPT
         !.turn = @ + 1,
         !.turnActions = IF f.type = "bot" /\ ~paused THEN {PlayerB} ELSE {},
         !.turnPaused = paused,
         !.turnPausedRemainingMs = IF paused THEN TURN_TIMER_MS ELSE 0,
         !.turnTimer = IF paused THEN None ELSE TURN_TIMER_MS,
         !.strayTimers = IF f.turnTimer = None THEN @
                         ELSE @ (+) SetToBag({f.turnTimer})]

\* The clearTimeout is forgotten.
BugTimerNotCleared(f) == [f EXCEPT !.turnPaused = FALSE, !.turnPausedRemainingMs = 0]

\* No timer drives the turn any more.
TurnOver(f) ==
  [f EXCEPT !.turnTimer = None, !.turnPaused = FALSE, !.turnPausedRemainingMs = 0]

\* The status is set by the settlement's continuation, later.
BugStatusSetLater(f) == [TurnOver(f) EXCEPT !.finishes = @ + 1]

FinishFight(f) ==
  [TurnOver(f) EXCEPT !.status = "finished", !.finishes = @ + 1]

ResolveFightTurn(f, ended) ==
  LET g == [f EXCEPT !.turnResults = Append(@, f.turn)]
  IN  IF ended THEN FinishFight(g)
      ELSE [g EXCEPT !.gapTimers = @ (+) SetToBag({TURN_GAP_MS})]

\* Players who did not submit get a random action.
HandleTurnTimeout(f, ended) ==
  IF f.status = "active"
  THEN ResolveFightTurn([f EXCEPT !.turnActions = Fighters], ended)
  ELSE f

PauseFightTimer(f) ==
  IF f.turnPaused THEN f
  ELSE [f EXCEPT !.turnPaused = TRUE,
                 !.turnPausedRemainingMs = RemainingMs(f),
                 !.turnTimer = None]

\* turnPaused is not reset.
BugStaysPaused(f) ==
  IF f.turnPaused THEN [f EXCEPT !.turnTimer = f.turnPausedRemainingMs] ELSE f

\* Nothing is scheduled when no time remained.
BugZeroNotScheduled(f) ==
  IF ~f.turnPaused THEN f
  ELSE [TurnOver(f) EXCEPT !.turnTimer = IF f.turnPausedRemainingMs = 0 THEN None
                                         ELSE f.turnPausedRemainingMs]

ResumeFightTimer(f) ==
  IF ~f.turnPaused THEN f
  ELSE [f EXCEPT !.turnPaused = FALSE,
                 !.turnPausedRemainingMs = 0,
                 !.turnTimer = f.turnPausedRemainingMs]

\* A fight cannot go on for ever in a bounded model.
MayEnd(ended) == Len(fight.turnResults) + 1 >= MaxResults => ended

\* The fight becomes f, with session s and grace records g.  If that finished
\* it, the players lose their seats and, unless it was a bot fight, the grace
\* records are wiped.
Becomes(f, s, g) ==
  /\ fight' = f
  /\ IF fight.status = "active" /\ f.status = "finished"
     THEN /\ session' = [p \in Fighters |-> [s[p] EXCEPT !.seat = FALSE]]
          /\ grace' = IF f.type = "bot" THEN g ELSE [p \in Fighters |-> NoGrace]
     ELSE session' = s /\ grace' = g

-----------------------------------------------------------------------------
(* Fight start, moves and timers *)

\* The end of createFight's chain reads, or createBotFight, which a message of
\* PlayerA's socket runs.  Sockets that are open get a seat.
CreateFight ==
  /\ fight.status = "creating"
  /\ fight.type = "bot" => session[PlayerA].online
  /\ fight' = StartNextTurn([fight EXCEPT !.status = "active"])
  /\ session' = [p \in Fighters |-> [session[p] EXCEPT !.seat = session[p].online]]
  /\ seen' = IF \E p \in Humans : ~session[p].online
             THEN seen \cup {"absent_at_start"} ELSE seen
  /\ UNCHANGED <<grace, away>>

\* fight_action: accepted from a seated socket, once per turn.
SubmitTurnAction(p) ==
  /\ Active
  /\ session[p].online /\ session[p].seat
  /\ p \notin fight.turnActions
  /\ LET f == [fight EXCEPT !.turnActions = @ \cup {p}]
     IN  IF f.turnActions # Fighters
         THEN Becomes(f, session, grace)
         ELSE \E ended \in BOOLEAN :
                /\ MayEnd(ended)
                /\ Becomes(ResolveFightTurn(TurnOver(f), ended), session, grace)
  /\ UNCHANGED <<seen, away>>

TurnTimerFires ==
  /\ fight.turnTimer = 0
  /\ \E ended \in BOOLEAN :
       /\ MayEnd(ended)
       /\ Becomes(HandleTurnTimeout([fight EXCEPT !.turnTimer = None], ended),
                  session, grace)
  /\ UNCHANGED <<seen, away>>

\* A turn timer whose handle was overwritten still runs its callback.
StrayTimerFires ==
  /\ BagIn(0, fight.strayTimers)
  /\ \E ended \in BOOLEAN :
       /\ MayEnd(ended)
       /\ Becomes(HandleTurnTimeout(
                    [fight EXCEPT !.strayTimers = @ (-) SetToBag({0})], ended),
                  session, grace)
  /\ UNCHANGED <<seen, away>>

GapTimerFires ==
  /\ BagIn(0, fight.gapTimers)
  /\ LET f == [fight EXCEPT !.gapTimers = @ (-) SetToBag({0})]
     IN  fight' = IF Active THEN StartNextTurn(f) ELSE f
  /\ UNCHANGED <<grace, session, seen, away>>

-----------------------------------------------------------------------------
(* Sockets, sessions and the forfeit budget *)

\* A fresh budget at every disconnect.
BugFreshBudget(g) == GRACE_BUDGET_MS

GraceLeft(g) == GRACE_BUDGET_MS - g.usedMs

\* The budget is charged but the forfeit timer is not cancelled.
BugForfeitNotCancelled(g) == [g EXCEPT !.usedMs = 0]

\* What a pending record becomes when its wallet returns: the budget is spent
\* over the whole fight.
MarkReconnect(g) ==
  [active |-> FALSE, elapsed |-> 0,
   usedMs |-> IF g.usedMs + g.elapsed < GRACE_BUDGET_MS
              THEN g.usedMs + g.elapsed ELSE GRACE_BUDGET_MS]

\* The new socket is not given the fight.
BugNoSeat(s, p) == s

\* The wallet's current socket, if there is one, may act in the fight again.
Reseated(s, p) == [s EXCEPT ![p].seat = s[p].online]

\* handleDisconnect of a registered socket, with handlePlayerDisconnect and
\* markDisconnect: out of budget forfeits at once; otherwise a forfeit timer
\* starts and the turn timer stops.
SocketCloses(p) ==
  /\ session[p].online /\ ~Over
  /\ LET s == [session EXCEPT ![p].online = FALSE, ![p].seat = FALSE]
     IN  IF ~Active \/ grace[p].active
         THEN Becomes(fight, s, grace)
         ELSE IF GraceLeft(grace[p]) <= 0
         THEN Becomes(FinishFight(fight), s, [grace EXCEPT ![p] = NoGrace])
         ELSE Becomes(PauseFightTimer(
                        [fight EXCEPT !.disconnectedWallets = @ \cup {p}]),
                      s, [grace EXCEPT ![p].active = TRUE, ![p].elapsed = 0])
  /\ UNCHANGED <<seen, away>>

\* acceptAuthenticatedSession up to its first await.  A live session of the
\* wallet is dropped without handlePlayerDisconnect, and a session has no seat
\* at first.  The socket may have closed while its signature was verified.
AuthStarts(p, open) ==
  /\ ~Over
  /\ session[p].authing < MaxAuth
  /\ session' = [session EXCEPT ![p].online = open, ![p].seat = FALSE,
                                ![p].authing = @ + 1]
  /\ seen' = CASE ~open                       -> seen \cup {"late_auth"}
               [] open /\ session[p].online   -> seen \cup {"replaced"}
               [] OTHER                       -> seen
  /\ UNCHANGED <<fight, grace, away>>

\* Its last part, with handlePlayerReconnect and markReconnect: it looks the
\* wallet up, and runs whether or not the socket it began on is still open.
AuthEnds(p) ==
  LET pending == grace[p].active
      s == [session EXCEPT ![p].authing = @ - 1]
      f == [fight EXCEPT !.disconnectedWallets = @ \ {p}]
      resumes == f.disconnectedWallets = {} /\ f.turnPaused
  IN  /\ session[p].authing > 0
      /\ grace' = IF pending THEN [grace EXCEPT ![p] = MarkReconnect(@)] ELSE grace
      /\ IF pending /\ Active
         THEN /\ session' = Reseated(s, p)
              /\ fight' = IF resumes THEN ResumeFightTimer(f) ELSE f
              /\ seen' = seen
                   \cup (IF s[p].online THEN {} ELSE {"late_auth"})
                   \cup (IF resumes /\ fight.gapTimers # EmptyBag
                         THEN {"resumed_between_turns"} ELSE {})
         ELSE session' = s /\ UNCHANGED <<fight, seen>>
      /\ UNCHANGED away

\* The forfeit timer: its callback looks the fight up again.
GraceExpires(p) ==
  /\ grace[p].active
  /\ grace[p].elapsed >= GraceLeft(grace[p])
  /\ Becomes(IF Active THEN FinishFight(fight) ELSE fight, session,
             [grace EXCEPT ![p] = NoGrace])
  /\ UNCHANGED <<seen, away>>

-----------------------------------------------------------------------------
(* Time *)

Countdown(b) == [c \in {d - 1 : d \in DOMAIN b} |-> b[c + 1]]

SomethingDue ==
  \/ fight.turnTimer = 0
  \/ BagIn(0, fight.strayTimers)
  \/ BagIn(0, fight.gapTimers)
  \/ \E p \in Fighters : grace[p].active /\ grace[p].elapsed >= GraceLeft(grace[p])

SomethingRuns ==
  \/ fight.turnTimer # None
  \/ fight.strayTimers # EmptyBag
  \/ fight.gapTimers # EmptyBag
  \/ \E p \in Fighters : grace[p].active

Tick ==
  /\ SomethingRuns
  /\ ~SomethingDue
  /\ fight' = [fight EXCEPT !.turnTimer = IF @ = None THEN None ELSE @ - 1,
                            !.strayTimers = Countdown(@),
                            !.gapTimers = Countdown(@)]
  /\ grace' = [p \in Fighters |-> IF grace[p].active
                                  THEN [grace[p] EXCEPT !.elapsed = @ + 1]
                                  ELSE grace[p]]
  /\ away' = [p \in Fighters |-> IF Active /\ ~session[p].online
                                    /\ away[p] <= GRACE_BUDGET_MS
                                 THEN away[p] + 1 ELSE away[p]]
  /\ UNCHANGED <<session, seen>>

PlayerStep(p) ==
  \/ SubmitTurnAction(p)
  \/ SocketCloses(p)
  \/ \E open \in BOOLEAN : AuthStarts(p, open)
  \/ AuthEnds(p)
  \/ GraceExpires(p)

Next ==
  \/ CreateFight
  \/ TurnTimerFires
  \/ StrayTimerFires
  \/ GapTimerFires
  \/ \E p \in Humans : PlayerStep(p)
  \/ Tick

Spec == Init /\ [][Next]_vars

\* Node runs every due callback and time passes, however fast sockets come and
\* go (so Tick is strongly fair).  Nothing is assumed of players.
FairSpec ==
  /\ Spec
  /\ SF_vars(Tick)
  /\ WF_vars(TurnTimerFires)
  /\ WF_vars(StrayTimerFires)
  /\ WF_vars(GapTimerFires)
  /\ \A p \in Fighters : WF_vars(GraceExpires(p))
-----------------------------------------------------------------------------
(* What a fight must keep true *)

\* One type invariant.
TypeOK ==
  /\ fight.type \in {"pvp", "bot"}
  /\ fight.status \in {"creating", "active", "finished"}
  /\ fight.turn \in Nat
  /\ fight.turnActions \subseteq Fighters
  /\ fight.disconnectedWallets \subseteq Fighters
  /\ fight.turnPaused \in BOOLEAN
  /\ fight.turnPausedRemainingMs \in 0 .. TURN_TIMER_MS
  /\ fight.turnTimer \in 0 .. TURN_TIMER_MS \cup {None}
  /\ IsABag(fight.strayTimers) /\ DOMAIN fight.strayTimers \subseteq 0 .. TURN_TIMER_MS
  /\ IsABag(fight.gapTimers) /\ DOMAIN fight.gapTimers \subseteq 0 .. TURN_GAP_MS
  /\ fight.turnResults \in Seq(Nat)
  /\ fight.finishes \in Nat
  /\ grace \in [Fighters -> [active : BOOLEAN, elapsed : 0 .. GRACE_BUDGET_MS,
                             usedMs : 0 .. GRACE_BUDGET_MS]]
  /\ session \in [Fighters -> [online : BOOLEAN, seat : BOOLEAN,
                               authing : 0 .. MaxAuth]]
  /\ seen \subseteq Events
  /\ away \in [Fighters -> Nat]

\* disconnectedWallets and the forfeit timers are kept by two modules; an active
\* fight counts a wallet absent exactly while its forfeit timer runs, and is
\* paused only for such a wallet.
AbsenceIsTimed ==
  Active => /\ fight.disconnectedWallets = {p \in Fighters : grace[p].active}
            /\ fight.turnPaused => fight.disconnectedWallets # {}

\* An active fight always has a timer that will move it: a turn, a gap between
\* turns or a forfeit.
SomethingDrivesTheFight == Active => SomethingRuns

\* At most one timer drives the turns, and none that cannot be cleared.
\* (Unless a reconnection between two turns resumed a turn already resolved.)
OneTurnClock ==
  "resumed_between_turns" \notin seen =>
    /\ fight.strayTimers = EmptyBag
    /\ \A d \in DOMAIN fight.gapTimers : fight.gapTimers = SetToBag({d})
    /\ fight.turnTimer # None => fight.gapTimers = EmptyBag

\* Turns are resolved in order, each once.  (Same exception.)
TurnsInOrder ==
  "resumed_between_turns" \notin seen =>
    /\ fight.turnResults = [i \in 1 .. Len(fight.turnResults) |-> i]
    /\ Active => fight.turn - Len(fight.turnResults) \in {0, 1}

\* The turn timer never runs against a wallet that is offline, and that wallet
\* is on its way to a forfeit.  (Unless the drop was never seen: before the
\* fight existed, or undone by a login whose socket had closed.)
AbsentWalletStopsTheClock ==
  Active /\ seen \cap {"absent_at_start", "late_auth"} = {} =>
    \A p \in Humans : ~session[p].online =>
      grace[p].active /\ fight.turnTimer = None

\* Over a whole fight nobody stays away longer than the budget.  (Same
\* exceptions.)
AwayWithinBudget ==
  seen \cap {"absent_at_start", "late_auth"} = {} =>
    \A p \in Humans : away[p] <= GRACE_BUDGET_MS

\* A player who is connected and logged in can act.  (Unless the drop was never
\* seen, or the session replaced a live one.)
ConnectedPlayerHasASeat ==
  Active /\ seen \cap {"absent_at_start", "late_auth", "replaced"} = {} =>
    \A p \in Humans : session[p].online /\ session[p].authing = 0
                        => session[p].seat

\* finishFight, which starts the settlement of the stakes, runs at most once,
\* whatever timers are left behind.
FinishedOnce == fight.finishes <= 1

\* A fight in progress is always on its way to an end, and has one end: its
\* timers and its absentees agree, and only one finishFight takes effect.
DrivenToOneEnd == AbsenceIsTimed /\ SomethingDrivesTheFight /\ FinishedOnce

\* One clock resolves the turns, one after the other.
OneTurnAtATime == OneTurnClock /\ TurnsInOrder

\* Absence stops the clock, is limited over the whole fight, and ends with a
\* player who can act again.
AbsenceIsFair == AbsentWalletStopsTheClock /\ AwayWithinBudget /\ ConnectedPlayerHasASeat

\* Only a wallet that is offline, or has not finished logging in again, is
\* forfeited by the clock.
OnlyTheAbsentForfeit ==
  [][\A p \in Fighters :
       Active /\ GraceExpires(p) => ~session[p].online \/ session[p].authing > 0]_vars

\* Every turn is resolved or the fight ends, whatever the players do.
FightAdvances ==
  \A n \in 0 .. MaxResults - 1 :
    Active /\ Len(fight.turnResults) = n
      ~> fight.status = "finished" \/ Len(fight.turnResults) > n

\* The game design says fights are turn-based: each turn both players choose
\* once, and a turn has one result.
EveryTurnResolvedOnce ==
  \A i, j \in 1 .. Len(fight.turnResults) :
    fight.turnResults[i] = fight.turnResults[j] => i = j
=============================================================================
