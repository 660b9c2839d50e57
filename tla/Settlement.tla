----------------------------- MODULE Settlement -----------------------------
(***************************************************************************)
(* What happens on chain because of a fight: the treasury queue of         *)
(* server/src/utils/sui-settle.ts, the settlement flows that createFight   *)
(* and finishFight (server/src/ws/fight-room.ts) put into it, the          *)
(* wager_in_flight rows, and the boot sweeper that refunds the wagers of   *)
(* a crashed process (server/src/data/orphan-wager-recovery.ts).           *)
(*                                                                         *)
(* A transaction may land without its answer reaching the server.  All     *)
(* treasury transactions spend one gas coin and the queue sends one at a   *)
(* time, so a transaction that was sent lands before the next one or       *)
(* never.  No request of the server has a timeout (marketplace.ts switches  *)
(* the header and body timeouts of its fetch off), so one may also stay    *)
(* unanswered for ever.  One pair of players fights a sequence of fights.  *)
(*                                                                         *)
(* Elo arithmetic is abstracted: a rating is the set of the fights whose   *)
(* change it contains.  Fight locks do not expire here, and both Character *)
(* records stay in memory (a character deleted during a fight is left out).*)
(***************************************************************************)
EXTENDS Integers, Sequences, FiniteSets

CONSTANTS
  PlayerA, PlayerB,             \* the two players
  None, Draw,
  NumFights,                    \* bound: fights are 1 .. NumFights, in order
  Kinds,                        \* among "friendly", "ranked", "wager"
  Attempts,                     \* attempts of withRetry
  MaxCrashes,                   \* bound
  MaxFaults                     \* bound: needless failures of tasks and requests, requests
                                \* never answered, and timeouts of the chain

Players == {PlayerA, PlayerB}
Fights == 1 .. NumFights
Opponent(p) == IF p = PlayerA THEN PlayerB ELSE PlayerA

ASSUME PlayerAssumption ==
  /\ PlayerA # PlayerB
  /\ Players \cap {None, Draw} = {} /\ None # Draw
  /\ (Players \cup {None, Draw})
       \cap {"ABSENT", "ACTIVE", "tie", "split", "settled", "failed"} = {}
ASSUME SettlementAssumption ==
  /\ Kinds \subseteq {"friendly", "ranked", "wager"}
  /\ NumFights \in Nat /\ Attempts \in Nat \ {0} /\ MaxCrashes \in Nat
  /\ MaxFaults \in Nat

VARIABLES
  chain,        \* wagers and Character objects
  cache,        \* the server's Character records, saved in the database
  fights,       \* kind, stage and result of every fight
  taskQueue,    \* treasury tasks, the first one running
  attempt,      \* failed attempts of the running task, or Unanswered
  db,           \* wager_in_flight rows, and requests on their way to them
  todo,         \* rows the boot sweeper has yet to look at
  up,           \* the server process runs
  told,         \* what the players were told of the stakes
  seen          \* history: what went wrong so far

vars == <<chain, cache, fights, taskQueue, attempt, db, todo, up, told, seen>>

Unanswered == -1

Task(op, f, p, r) == [op |-> op, fight |-> f, who |-> p, rating |-> r]

Init ==
  /\ chain = [wager  |-> [f \in Fights |-> "ABSENT"],
              record |-> [p \in Players |-> [f \in Fights |-> 0]],
              rating |-> [p \in Players |-> {}],
              locked |-> {}]
  /\ cache = [record |-> chain.record, rating |-> chain.rating]
  /\ fights \in [Fights -> [kind : Kinds, stage : {"none"}, winner : {None}]]
  /\ taskQueue = <<>>
  /\ attempt = 0
  /\ db = [rows |-> {}, requests |-> {}, failed |-> {}]
  /\ todo = {}
  /\ up = TRUE
  /\ told = [f \in Fights |-> None]
  /\ seen = [lost |-> {}, failed |-> {}, interrupted |-> {}, expired |-> {},
             overlap |-> FALSE, crashes |-> 0, faults |-> 0]

-----------------------------------------------------------------------------
(* Helpers *)

Decided(f) == fights[f].winner \in Players
Drawn(f) == fights[f].winner = Draw
Over(f) == fights[f].stage = "over"
Ended(f) == \/ fights[f].stage \in {"over", "gone", "unseen"}
            \/ fights[f].stage = "none" /\ chain.wager[f] = "split"
IsWager(f) == fights[f].kind = "wager"
Rated(f) == fights[f].kind \in {"ranked", "wager"}

\* The one fight the players can start: the earlier ones are over.
IsNext(f) == fights[f].stage = "none" /\ \A g \in 1 .. f - 1 : Ended(g)

\* The running task awaits a request that is never answered.
Stalled == attempt = Unanswered

Enqueue(ts) == taskQueue' = taskQueue \o ts

Stage(f, s) == fights' = [fights EXCEPT ![f].stage = s]

-----------------------------------------------------------------------------
(* Fights *)

\* approve_challenger: the wager becomes ACTIVE on chain (see Arena).
Approve(f) ==
  /\ IsWager(f) /\ IsNext(f)
  /\ chain.wager[f] = "ABSENT"
  /\ chain' = [chain EXCEPT !.wager[f] = "ACTIVE"]
  /\ UNCHANGED <<cache, fights, taskQueue, attempt, db, todo, up, told, seen>>

\* handleWagerAccepted after its status probe: the recovery row is requested
\* and the wager leaves the lobby.
WagerAccepted(f) ==
  /\ up
  /\ IsWager(f) /\ IsNext(f)
  /\ chain.wager[f] = "ACTIVE"
  /\ Stage(f, "accepted")
  /\ db' = [db EXCEPT !.requests = @ \cup {<<"insert", f>>}]
  /\ UNCHANGED <<chain, cache, taskQueue, attempt, todo, up, told, seen>>

\* A character is missing: the handler gives up after the lobby entry is gone.
AcceptGivesUp(f) ==
  /\ up
  /\ fights[f].stage = "accepted"
  /\ Stage(f, "gone")
  /\ seen' = [seen EXCEPT !.interrupted = @ \cup {f}]
  /\ UNCHANGED <<chain, cache, taskQueue, attempt, db, todo, up, told>>

\* createFight after its chain reads; it locks both characters.
CreateFight(f) ==
  /\ up
  /\ IF IsWager(f) THEN fights[f].stage = "accepted" ELSE IsNext(f)
  /\ Stage(f, "fighting")
  /\ Enqueue(<<Task("lock", f, PlayerA, {}), Task("lock", f, PlayerB, {})>>)
  /\ UNCHANGED <<chain, cache, attempt, db, todo, up, told, seen>>

\* (Operators named Bug... are the definition that follows them with a
\* plausible mistake in it; no definition uses one.)

\* Only the winner is unlocked.
BugLoserStaysLocked(f, w) ==
  (IF IsWager(f) THEN <<Task("settle", f, w, {})>> ELSE <<>>)
  \o <<Task("unlock", f, w, {}), Task("update", f, w, cache'.rating[w])>>

\* The rating of before the fight is sent.
BugOldRating(f, w) ==
  (IF IsWager(f) THEN <<Task("settle", f, w, {})>> ELSE <<>>)
  \o <<Task("unlock", f, w, {}), Task("unlock", f, Opponent(w), {}),
       Task("update", f, w, cache.rating[w])>>

\* What a decided fight sends at once.  The update of the loser is sent when
\* that of the winner is answered.
WinTasks(f, w) ==
  (IF IsWager(f) THEN <<Task("settle", f, w, {})>> ELSE <<>>)
  \o <<Task("unlock", f, w, {}), Task("unlock", f, Opponent(w), {}),
       Task("update", f, w, cache'.rating[w])>>

\* finishFight with winner w.  The records are updated before the chain is.
FinishWon(f, w) ==
  /\ fights[f].stage = "fighting" /\ up
  /\ fights' = [fights EXCEPT ![f].stage = "over", ![f].winner = w]
  /\ cache' = [record |-> [p \in Players |-> [cache.record[p] EXCEPT ![f] = @ + 1]],
               rating |-> [p \in Players |-> IF Rated(f) THEN cache.rating[p] \cup {f}
                                             ELSE cache.rating[p]]]
  /\ Enqueue(WinTasks(f, w))
  /\ seen' = [seen EXCEPT !.overlap =
                @ \/ \E i \in DOMAIN taskQueue : taskQueue[i].op = "update"]
  /\ UNCHANGED <<chain, attempt, db, todo, up, told>>

\* finishFight of a mutual knock-out: one transaction for everything.
FinishDrawn(f) ==
  /\ fights[f].stage = "fighting" /\ up
  /\ fights' = [fights EXCEPT ![f].stage = "over", ![f].winner = Draw]
  /\ Enqueue(<<Task("bundle", f, None, {})>>)
  /\ UNCHANGED <<chain, cache, attempt, db, todo, up, told, seen>>

-----------------------------------------------------------------------------
(* The treasury queue *)

\* The wager's status is not looked at.
BugNoStatusCheck(t) == TRUE

\* The Move calls of a task abort unless this holds (see Arena).
CanExecute(t) ==
  CASE t.op \in {"settle", "cancel"} -> chain.wager[t.fight] = "ACTIVE"
    [] t.op = "bundle" -> IsWager(t.fight) => chain.wager[t.fight] = "ACTIVE"
    [] OTHER -> TRUE

\* The chain after the transaction of a task.
Executed(t) ==
  LET f == t.fight IN
  CASE t.op = "lock"   -> [chain EXCEPT !.locked = @ \cup {t.who}]
    [] t.op = "unlock" -> [chain EXCEPT !.locked = @ \ {t.who}]
    [] t.op = "settle" -> [chain EXCEPT !.wager[f] = t.who]
    [] t.op = "cancel" -> [chain EXCEPT !.wager[f] = "split"]
    [] t.op = "update" -> [chain EXCEPT !.record[t.who][f] = @ + 1,
                                        !.rating[t.who] = t.rating]
    [] t.op = "bundle" -> [chain EXCEPT !.wager[f] = IF IsWager(f) THEN "tie" ELSE @,
                                        !.record[PlayerA][f] = @ + 1,
                                        !.record[PlayerB][f] = @ + 1,
                                        !.locked = @ \ Players]

\* The server's own count is kept.
BugKeepsOwnCount(p, drawn) == cache.record[p]

\* The part of p's record an answer carries: wins and losses, or draws.
Mirrored(p, drawn) ==
  [g \in Fights |-> IF Drawn(g) = drawn THEN chain'.record[p][g] ELSE cache.record[p][g]]

\* The loser's update is forgotten.
BugWinnerOnly(t) == <<>>

\* What is sent when an update was answered, or was given up.
NextUpdate(t) ==
  IF t.op = "update" /\ t.who = fights[t.fight].winner
  THEN LET l == Opponent(t.who) IN <<Task("update", t.fight, l, cache'.rating[l])>>
  ELSE <<>>

\* The task is over: the queue goes on, with what its continuation sends.
Dequeue(t) ==
  /\ taskQueue' = Tail(taskQueue) \o NextUpdate(t)
  /\ attempt' = 0

Tell(t, what) ==
  told' = IF t.op = "settle" \/ (t.op = "bundle" /\ IsWager(t.fight))
          THEN [told EXCEPT ![t.fight] = what] ELSE told

\* The continuation of a task that succeeded.
Resolve(t) ==
  /\ cache' = CASE t.op = "update" ->
                     [record |-> [cache.record EXCEPT ![t.who] = Mirrored(t.who, FALSE)],
                      rating |-> [cache.rating EXCEPT ![t.who] = t.rating]]
                [] t.op = "bundle" ->
                     [cache EXCEPT !.record = [p \in Players |-> Mirrored(p, TRUE)]]
                [] OTHER -> cache
  /\ Tell(t, "settled")
  /\ db' = IF \/ t.op \in {"settle", "cancel"}
              \/ t.op = "bundle" /\ IsWager(t.fight)
           THEN [db EXCEPT !.requests = @ \cup {<<"delete", t.fight>>}] ELSE db
  /\ Dequeue(t)

\* An abort is taken for "already settled".
BugAbortMeansSettled(t) ==
  /\ Tell(t, "settled")
  /\ UNCHANGED <<cache, db>>
  /\ Dequeue(t)

\* The row is dropped whatever the outcome.
BugRowAlwaysDropped(t) ==
  /\ Tell(t, "failed")
  /\ db' = [db EXCEPT !.requests = @ \cup {<<"delete", t.fight>>}]
  /\ UNCHANGED cache
  /\ Dequeue(t)

\* The continuation of a task that used up its attempts.
Reject(t) ==
  /\ Tell(t, "failed")
  /\ UNCHANGED <<cache, db>>
  /\ Dequeue(t)

\* An attempt that succeeds and is seen to.
AttemptSucceeds ==
  LET t == Head(taskQueue) IN
  /\ up /\ taskQueue # <<>> /\ ~Stalled
  /\ CanExecute(t)
  /\ chain' = Executed(t)
  /\ Resolve(t)
  /\ UNCHANGED <<fights, todo, up, seen>>

\* One attempt too many.
BugOneMore == attempt = Attempts

\* withRetry has no delay left to wait for.
LastAttempt == attempt + 1 = Attempts

\* Attempts are not counted.
BugRetriesForever ==
  LET t == Head(taskQueue) IN
  /\ up /\ taskQueue # <<>> /\ ~Stalled
  /\ \E landed \in IF CanExecute(t) THEN BOOLEAN ELSE {FALSE} :
       chain' = IF landed THEN Executed(t) ELSE chain
  /\ UNCHANGED <<cache, fights, taskQueue, attempt, db, todo, up, told, seen>>

\* An attempt withRetry sees fail: the transaction aborted or did not arrive,
\* or it landed and only the answer was lost.
AttemptFails ==
  LET t == Head(taskQueue)
      id == <<t.op, t.fight, t.who>>
  IN
  /\ up /\ taskQueue # <<>> /\ ~Stalled
  /\ CanExecute(t) /\ attempt = 0 => seen.faults < MaxFaults
  /\ \E landed \in IF CanExecute(t) THEN BOOLEAN ELSE {FALSE} :
       /\ chain' = IF landed THEN Executed(t) ELSE chain
       /\ seen' = [seen EXCEPT !.lost = IF landed /\ t.op \in {"update", "bundle"}
                                        THEN @ \cup {id} ELSE @,
                               !.failed = IF LastAttempt THEN @ \cup {id} ELSE @,
                               !.faults = IF CanExecute(t) /\ attempt = 0 THEN @ + 1 ELSE @]
  /\ IF LastAttempt THEN Reject(t)
     ELSE attempt' = attempt + 1 /\ UNCHANGED <<taskQueue, cache, db, told>>
  /\ UNCHANGED <<fights, todo, up>>

\* The request is accepted, and no answer or error ever comes: the queue waits
\* for it until the process dies.
AttemptStalls ==
  LET t == Head(taskQueue)
      id == <<t.op, t.fight, t.who>>
  IN
  /\ up /\ taskQueue # <<>> /\ ~Stalled
  /\ seen.faults < MaxFaults
  /\ \E landed \in IF CanExecute(t) THEN BOOLEAN ELSE {FALSE} :
       /\ chain' = IF landed THEN Executed(t) ELSE chain
       /\ seen' = [seen EXCEPT !.lost = IF landed /\ t.op \in {"update", "bundle"}
                                        THEN @ \cup {id} ELSE @,
                               !.faults = @ + 1]
  /\ attempt' = Unanswered
  /\ UNCHANGED <<cache, fights, taskQueue, db, todo, up, told>>

-----------------------------------------------------------------------------
(* Database, crashes and the boot sweeper *)

\* Requests are not awaited, arrive in any order, and a failure is only logged.
RequestDone(r) ==
  /\ r \in db.requests
  /\ \E ok \in IF seen.faults < MaxFaults THEN BOOLEAN ELSE {TRUE} :
       /\ seen' = [seen EXCEPT !.faults = IF ok THEN @ ELSE @ + 1]
       /\ db' = [rows |-> IF ~ok THEN db.rows
                       ELSE IF r[1] = "insert" THEN db.rows \cup {r[2]}
                       ELSE db.rows \ {r[2]},
              requests |-> db.requests \ {r},
              failed |-> IF ok THEN db.failed ELSE db.failed \cup {r}]
  /\ UNCHANGED <<chain, cache, fights, taskQueue, attempt, todo, up, told>>

\* The process dies: fights, lobby and queue are in memory only.
Crash ==
  LET lostFights == {f \in Fights : fights[f].stage \in {"accepted", "fighting"}}
      unseen == {f \in Fights : fights[f].stage = "none" /\ chain.wager[f] # "ABSENT"}
  IN
  /\ up
  /\ seen.crashes < MaxCrashes
  /\ up' = FALSE
  /\ fights' = [f \in Fights |->
                  [fights[f] EXCEPT !.stage = IF f \in lostFights THEN "gone"
                                              ELSE IF f \in unseen THEN "unseen" ELSE @]]
  /\ taskQueue' = <<>> /\ attempt' = 0 /\ todo' = {}
  /\ seen' = [seen EXCEPT !.crashes = @ + 1,
                !.interrupted = @ \cup lostFights
                  \cup {f \in Fights : Over(f) /\ told[f] # "settled"}]
  /\ UNCHANGED <<chain, cache, db, told>>

\* The sweeper runs again and again.
BugSweepsAgain ==
  /\ up' = TRUE
  /\ todo' \in SUBSET db.rows
  /\ UNCHANGED <<chain, cache, fights, taskQueue, attempt, db, told, seen>>

\* Boot: the sweeper loads the rows older than STALE_AGE_MS, once.
Restart ==
  /\ ~up
  /\ up' = TRUE
  /\ todo' \in SUBSET db.rows
  /\ UNCHANGED <<chain, cache, fights, taskQueue, attempt, db, told, seen>>

\* sweepOne up to the treasury call; the loop awaits it before the next row.
\* A status that cannot be read leaves the row.
SweepOne(f) ==
  /\ up
  /\ f \in todo
  /\ \A i \in DOMAIN taskQueue : taskQueue[i].op # "cancel"
  /\ todo' = todo \ {f}
  /\ \/ UNCHANGED <<taskQueue, db>>
     \/ /\ chain.wager[f] = "ACTIVE"
        /\ Enqueue(<<Task("cancel", f, None, {})>>)
        /\ UNCHANGED db
     \/ /\ chain.wager[f] # "ACTIVE"
        /\ db' = [db EXCEPT !.requests = @ \cup {<<"delete", f>>}]
        /\ UNCHANGED taskQueue
  /\ UNCHANGED <<chain, cache, fights, attempt, up, told, seen>>

\* cancel_expired_wager or reclaim_stalled_wager, sent by anyone once the chain
\* allows it.  (Time is not modelled: it may happen at any moment.)
Expire(f) ==
  /\ chain.wager[f] = "ACTIVE"
  /\ seen.faults < MaxFaults
  /\ chain' = [chain EXCEPT !.wager[f] = "split"]
  /\ seen' = [seen EXCEPT !.expired = @ \cup {f}, !.faults = @ + 1]
  /\ UNCHANGED <<cache, fights, taskQueue, attempt, db, todo, up, told>>

Next ==
  \/ \E f \in Fights :
       \/ Approve(f)
       \/ WagerAccepted(f)
       \/ AcceptGivesUp(f)
       \/ CreateFight(f)
       \/ \E w \in Players : FinishWon(f, w)
       \/ FinishDrawn(f)
       \/ SweepOne(f)
       \/ Expire(f)
  \/ AttemptSucceeds
  \/ AttemptFails
  \/ AttemptStalls
  \/ \E r \in db.requests : RequestDone(r)
  \/ Crash
  \/ Restart

Spec == Init /\ [][Next]_vars

\* The queue sends the request of its first task, which is then answered, fails
\* or stalls; nothing is assumed of players, chain or database.
FairSpec == Spec /\ WF_vars(AttemptSucceeds \/ AttemptFails \/ AttemptStalls)
-----------------------------------------------------------------------------
(* What settlement must keep true *)

Ops == {"lock", "unlock", "settle", "cancel", "update", "bundle"}
TaskIds == Ops \X Fights \X (Players \cup {None})

\* One type invariant.
TypeOK ==
  /\ chain.wager \in [Fights -> {"ABSENT", "ACTIVE", "tie", "split"} \cup Players]
  /\ chain.record \in [Players -> [Fights -> Nat]]
  /\ chain.rating \in [Players -> SUBSET Fights]
  /\ chain.locked \subseteq Players
  /\ cache.record \in [Players -> [Fights -> Nat]]
  /\ cache.rating \in [Players -> SUBSET Fights]
  /\ fights \in [Fights -> [kind : Kinds,
                            stage : {"none", "accepted", "fighting", "over", "gone", "unseen"},
                            winner : Players \cup {None, Draw}]]
  /\ taskQueue \in Seq([op : Ops, fight : Fights, who : Players \cup {None},
                        rating : SUBSET Fights])
  /\ attempt \in {Unanswered} \cup 0 .. Attempts - 1
  /\ db.rows \subseteq Fights
  /\ db.requests \cup db.failed \subseteq {"insert", "delete"} \X Fights
  /\ todo \subseteq Fights
  /\ up \in BOOLEAN
  /\ told \in [Fights -> {None, "settled", "failed"}]
  /\ seen.lost \cup seen.failed \subseteq TaskIds
  /\ seen.interrupted \cup seen.expired \subseteq Fights
  /\ seen.overlap \in BOOLEAN /\ seen.crashes \in 0 .. MaxCrashes
  /\ seen.faults \in 0 .. MaxFaults

NoCrash == seen.crashes = 0

Idle == up /\ taskQueue = <<>>

Pending(op, f) == \E i \in DOMAIN taskQueue : taskQueue[i].op = op /\ taskQueue[i].fight = f

\* Players told that the stakes are settled have been paid as they fought,
\* whoever else can close the wager.
ToldTheTruth ==
  \A f \in Fights : told[f] = "settled" =>
    chain.wager[f] = IF Drawn(f) THEN "tie" ELSE fights[f].winner

\* A 50/50 refund takes a won stake from nobody, unless the fight or its
\* settlement was cut short or the chain's own timeout was used: the sweeper
\* never refunds a fight the server is still running or settling.
RefundsOnlyTheInterrupted ==
  \A f \in Fights : chain.wager[f] = "split" => f \in seen.interrupted \cup seen.expired

\* While the stakes of an accepted fight are in escrow its recovery row exists,
\* is on its way, or could not be written: no path drops it too early.
RowCoversActiveWager ==
  \A f \in Fights :
    chain.wager[f] = "ACTIVE" /\ fights[f].stage \notin {"none", "unseen"} =>
      f \in db.rows \/ <<"insert", f>> \in db.requests \cup db.failed

\* With the queue drained, exactly the characters that fight are locked.
\* (Unless the server crashed or a transaction about locks was given up.)
LocksFollowFights ==
  Idle /\ NoCrash /\ (\A id \in seen.failed : id[1] \notin {"lock", "unlock", "bundle"}) =>
    chain.locked = IF \E f \in Fights : fights[f].stage = "fighting" THEN Players ELSE {}

\* A result is counted on chain once for each answer the server saw: once if
\* every answer came, not at all if the update was given up with none lost,
\* and at least once if it was not given up.
CountedAsAnswered ==
  \A f \in Fights, p \in Players :
    LET id == IF Drawn(f) THEN <<"bundle", f, None>> ELSE <<"update", f, p>>
    IN  Over(f) /\ NoCrash /\ up /\ ~Pending(id[1], f) =>
          /\ id \notin seen.lost => chain.record[p][f] = IF id \in seen.failed THEN 0 ELSE 1
          /\ id \notin seen.failed => chain.record[p][f] >= 1

\* With the queue drained the server's records are those of the chain, even
\* if lost answers made the chain count twice.  (Unless an update was given up
\* or lost in a crash.)
CacheMirrorsChain ==
  Idle /\ NoCrash /\ (\A id \in seen.failed : id[1] \notin {"update", "bundle"}) =>
    cache.record = chain.record /\ cache.rating = chain.rating

\* A drawn wager fight is counted for both players together with the refund of
\* its stakes, and once, whatever answers are lost: the refund cannot be
\* repeated, and it is in the same transaction.
WagerDrawCountedOnce ==
  \A f \in Fights, p \in Players : IsWager(f) /\ Drawn(f) =>
    chain.record[p][f] = IF chain.wager[f] = "tie" THEN 1 ELSE 0

RatingComplete ==
  Idle /\ NoCrash /\ (\A id \in seen.failed : id[1] # "update") =>
    \A p \in Players : chain.rating[p] = {f \in Fights : Decided(f) /\ Rated(f)}

\* The rating on chain contains the change of every rated fight.  (Unless a
\* fight ended while an update of an earlier one was still in the queue.)
RatingCompleteWithoutOverlap == ~seen.overlap => RatingComplete

\* The stakes of an accepted fight are remembered until they have left the
\* contract, are refunded only when something was cut short, and the players
\* are told what happened to them.
StakesAreTracked == ToldTheTruth /\ RefundsOnlyTheInterrupted /\ RowCoversActiveWager

\* Counters, ratings, locks and the server's copy of them tell the same story
\* as the fights, up to lost answers and given-up transactions.
RecordsAgree == LocksFollowFights /\ CountedAsAnswered /\ CacheMirrorsChain

\* What a fight changes on chain beside the stakes is complete.
ResultsCount == WagerDrawCountedOnce /\ RatingCompleteWithoutOverlap

\* The players of a wager fight are told what became of the stakes, unless the
\* server crashes first or a request is never answered: no failing transaction
\* holds the queue for ever, whatever else is in it.
SettlementAnswers ==
  \A f \in Fights :
    Over(f) /\ IsWager(f) ~> told[f] # None \/ f \in seen.interrupted \/ Stalled
=============================================================================
