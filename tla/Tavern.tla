------------------------------- MODULE Tavern -------------------------------
(***************************************************************************)
(* The social hub: who is online and in a fight                            *)
(* (server/src/data/presence.ts, ws/tavern-handlers.ts), player-to-player  *)
(* challenges (data/fight-requests.ts), the fights that accepted ones      *)
(* start (ws/handler.ts, ws/fight-room.ts), and what a restart brings back *)
(* from the database (index.ts).                                           *)
(*                                                                         *)
(* Node runs one callback at a time: a handler is one action up to its     *)
(* await.  A login awaits the character and a fight's creation the chain;  *)
(* writes to the database are awaited by nobody.                           *)
(*                                                                         *)
(* A fight is named by the challenge it came from.  Left out: the turns of *)
(* a fight and its clocks (module FightRoom), fights of the queue and the  *)
(* wager lobby (Admission), stub names, rooms other than the fight, the    *)
(* messages to clients, chat, profiles, and the copy of presence in the    *)
(* database, which is written and swept and never read back.               *)
(***************************************************************************)
EXTENDS Naturals, FiniteSets

CONSTANTS
  Wallets,                      \* players, each with a character
  None,                         \* undefined
  MAX_PENDING_PER_SENDER,       \* challenges a player may have open
  MaxRequests,                  \* bound: challenges ever sent
  MaxWrites,                    \* bound: writes under way before the next one starts
  MaxMishaps                    \* bound: closed and silent sockets, restarts, failed
                                \* writes and failed creations of fights, together

ASSUME TavernAssumption ==
  /\ None \notin Nat /\ None \notin {"pending", "accepted", "over"}
  /\ MAX_PENDING_PER_SENDER \in Nat \ {0}
  /\ MaxRequests \in Nat /\ MaxWrites \in Nat /\ MaxMishaps \in Nat

\* Operators named Bug... are the definition that follows them with a plausible
\* mistake in it; no definition uses one.
VARIABLES
  client,       \* connectedClients: the session of a wallet, if it has one
  closed,       \* logins under way whose session was closed or replaced
  presence,     \* presenceByWallet
  loaded,       \* wallets whose character is in memory
  requests,     \* every challenge sent: [from, to, status]; status is
                \* None if it is not in requestsById
  rows, writes, \* fight_requests: status by challenge; upserts on their way
  boot,         \* the rehydration: not read yet, or the rows it still has to do
  starting,     \* accepted challenges whose fight is being created
  fights,       \* activeFights
  grace,        \* the fight a wallet is missed in, while a forfeit is pending
  past          \* history: acceptances by challenge; faults; mishaps

sessionVars == <<client, closed, loaded>>
requestVars == <<requests, rows, writes, boot>>
fightVars == <<starting, fights, grace>>
vars == <<client, closed, presence, loaded, requests, rows, writes, boot, starting,
          fights, grace, past>>

Ids == 1 .. MaxRequests
Kinds == {"friendly", "wager"}
\* Declined, canceled and expired ones are over.
Statuses == {"pending", "accepted", "over"}
Faults == {"row", "boot", "zombie"}

Sent == DOMAIN requests
Pending == {id \in Sent : requests[id].status = "pending"}
Players(id) == {requests[id].from, requests[id].to}

Init ==
  /\ client = [w \in Wallets |-> None] /\ closed = {}
  /\ presence = [w \in Wallets |-> None]
  /\ loaded = {} /\ requests = << >> /\ rows = << >> /\ writes = {} /\ boot = {}
  /\ starting = {} /\ fights = {} /\ grace = [w \in Wallets |-> None]
  /\ past = [accepts |-> [id \in Ids |-> 0], faults |-> {}, mishaps |-> 0]

Happens(faults) == past' = [past EXCEPT !.faults = @ \cup faults]
Mishap(faults) ==
  /\ past.mishaps < MaxMishaps
  /\ past' = [past EXCEPT !.mishaps = @ + 1, !.faults = @ \cup faults]

(***************************************************************************)
(* Presence                                                                *)
(***************************************************************************)
\* upsertPresence with the fight the caller knows of.
BugShown(fight) == [fight |-> IF fight = None THEN 0 ELSE fight]
Shown(fight) == [fight |-> fight]

handleEnterRoom(w) ==
  /\ client[w] # None
  /\ presence' = [presence EXCEPT ![w] = Shown(client[w].seat)]
  /\ client' = [client EXCEPT ![w].entered = client[w].ready]
  /\ UNCHANGED <<closed, loaded, past>> /\ UNCHANGED requestVars /\ UNCHANGED fightVars

\* A row goes when its player gave no sign for PRESENCE_STALE_MS.  A session sends
\* heartbeats: that one falls silent, its browser asleep, is a mishap; the next
\* heartbeat does not bring the row back.
BugsweepStalePresence(w) ==
  /\ presence[w] # None /\ client[w] # None /\ Mishap({})
  /\ presence' = [presence EXCEPT ![w] = None]
  /\ UNCHANGED sessionVars /\ UNCHANGED requestVars /\ UNCHANGED fightVars
sweepStalePresence(w) ==
  /\ presence[w] # None
  /\ IF client[w] = None THEN UNCHANGED past ELSE Mishap({})
  /\ presence' = [presence EXCEPT ![w] = None]
  /\ UNCHANGED sessionVars /\ UNCHANGED requestVars /\ UNCHANGED fightVars

(***************************************************************************)
(* Sessions                                                                *)
(***************************************************************************)
\* A login under way goes on when its socket is gone, with the seat it had.
Orphaned(w) ==
  IF client[w] # None /\ ~client[w].ready THEN {[wallet |-> w, seat |-> client[w].seat]} ELSE {}

\* acceptAuthenticatedSession up to its await.  A session it replaces is removed
\* without the teardown of handleDisconnect.
Login(w) ==
  /\ IF client[w] = None THEN UNCHANGED past ELSE Mishap({})
  /\ closed' = closed \cup Orphaned(w)
  /\ client' = [client EXCEPT ![w] = [ready |-> FALSE, entered |-> FALSE, seat |-> None]]
  /\ UNCHANGED <<presence, loaded>> /\ UNCHANGED requestVars /\ UNCHANGED fightVars

\* handlePlayerReconnect gives whoever is connected now the seat in the fight.
Reseated(c, w) ==
  IF grace[w] \in fights /\ c # None THEN [c EXCEPT !.seat = grace[w]] ELSE c

\* ... and after it: the player is announced with the session's own seat.
SessionReady(w) ==
  /\ client[w] # None /\ ~client[w].ready
  /\ loaded' = loaded \cup {w}
  /\ presence' = [presence EXCEPT ![w] = Shown(client[w].seat)]
  /\ client' = [client EXCEPT ![w] = Reseated([@ EXCEPT !.ready = TRUE], w)]
  /\ grace' = [grace EXCEPT ![w] = None]
  /\ UNCHANGED <<closed, starting, fights, past>> /\ UNCHANGED requestVars

\* The same for a session that is gone.
ClosedSessionReady(s) ==
  /\ s \in closed /\ closed' = closed \ {s}
  /\ loaded' = loaded \cup {s.wallet}
  /\ presence' = [presence EXCEPT ![s.wallet] = Shown(s.seat)]
  /\ client' = [client EXCEPT ![s.wallet] = Reseated(@, s.wallet)]
  /\ grace' = [grace EXCEPT ![s.wallet] = None]
  /\ Happens({"zombie"})
  /\ UNCHANGED <<starting, fights>> /\ UNCHANGED requestVars

\* handleDisconnect, with handlePlayerDisconnect for the fight it finds.
handleDisconnect(w) ==
  /\ client[w] # None /\ Mishap({})
  /\ client' = [client EXCEPT ![w] = None] /\ closed' = closed \cup Orphaned(w)
  /\ presence' = [presence EXCEPT ![w] = None]
  /\ IF \E f \in fights : w \in Players(f)
     THEN \E f \in fights : w \in Players(f) /\ grace' = [grace EXCEPT ![w] = f]
     ELSE UNCHANGED grace
  /\ UNCHANGED <<loaded, starting, fights>> /\ UNCHANGED requestVars

(***************************************************************************)
(* Challenges                                                              *)
(***************************************************************************)
Persisted(id, status) ==
  Cardinality(writes) < MaxWrites /\ writes' = writes \cup {<<id, status>>}
Reordered(id) == IF \E wr \in writes : wr[1] = id THEN {"row"} ELSE {}

\* createRequest, with the checks of evaluateCreate.
BugMayChallenge(from, to) ==
  LET open == {id \in Pending : requests[id].to = from} IN
  /\ from # to
  /\ Cardinality(open) < MAX_PENDING_PER_SENDER
  /\ \A id \in open : requests[id].to # to
MayChallenge(from, to) ==
  LET open == {id \in Pending : requests[id].from = from} IN
  /\ from # to
  /\ Cardinality(open) < MAX_PENDING_PER_SENDER
  /\ \A id \in open : requests[id].to # to

createRequest(from, to) ==
  LET id == Cardinality(Sent) + 1 IN
  /\ client[from] # None /\ id \in Ids
  /\ MayChallenge(from, to)
  /\ requests' = [i \in Sent \cup {id} |-> IF i # id THEN requests[i] ELSE
                   [from |-> from, to |-> to, status |-> "pending"]]
  /\ rows' = [i \in Sent \cup {id} |-> IF i # id THEN rows[i] ELSE None]
  /\ Persisted(id, "pending")
  /\ Happens(IF boot # {} THEN {"boot"} ELSE {})
  /\ UNCHANGED <<presence, boot>> /\ UNCHANGED sessionVars /\ UNCHANGED fightVars

\* transitionRequest.  A challenge past its time is refused until the sweep finds
\* it, which changes nothing.
BugTransition(id, status) ==
  /\ requests[id].status # None
  /\ requests' = [requests EXCEPT ![id].status = status]
  /\ Persisted(id, status)
  /\ UNCHANGED <<rows, boot, loaded, closed>>
Transition(id, status) ==
  /\ requests[id].status = "pending"
  /\ requests' = [requests EXCEPT ![id].status = status]
  /\ Persisted(id, status)
  /\ UNCHANGED <<rows, boot, loaded, closed>>

\* decline by the target, cancel by the sender.
Refuse(w, id) ==
  /\ id \in Sent /\ client[w] # None
  /\ w \in Players(id) /\ Transition(id, "over")
  /\ Happens(Reordered(id))
  /\ UNCHANGED <<client, presence>> /\ UNCHANGED fightVars

\* onAcceptFightRequest starts a fight if the challenge is a friendly one (a wager
\* is left to the players), both characters are in memory and no session of the
\* two has a seat; the challenger may be away.  A fight being created, and one of a
\* player whose session has no seat in it, are not seen: fights can overlap.
Busy(id) == \E w \in Players(id) : client[w] # None /\ client[w].seat # None

Accept(id, kind) ==
  LET starts == /\ kind = "friendly" /\ Players(id) \subseteq loaded
                /\ ~Busy(id)
  IN
  /\ id \in Sent /\ client[requests[id].to] # None
  /\ Transition(id, "accepted")
  /\ starting' = IF starts THEN starting \cup {id} ELSE starting
  /\ past' = [accepts |-> [past.accepts EXCEPT ![id] = @ + 1],
              faults |-> past.faults \cup Reordered(id), mishaps |-> past.mishaps]
  /\ UNCHANGED <<client, presence, fights, grace>>

\* sweepExpired, TTL_MS after the challenge was sent.
sweepExpired(id) ==
  /\ id \in Sent /\ Transition(id, "over")
  /\ Happens(Reordered(id))
  /\ UNCHANGED <<client, presence>> /\ UNCHANGED fightVars

(***************************************************************************)
(* Fights                                                                  *)
(***************************************************************************)
\* createFight after its reads of the chain: the sessions get their seat, and
\* presence, of absent players too, the fight.
FightCreated(id) ==
  /\ id \in starting /\ starting' = starting \ {id} /\ fights' = fights \cup {id}
  /\ client' = [w \in Wallets |-> IF w \in Players(id) /\ client[w] # None
                                  THEN [client[w] EXCEPT !.seat = id] ELSE client[w]]
  /\ presence' = [w \in Wallets |-> IF w \in Players(id) THEN Shown(id) ELSE presence[w]]
  /\ UNCHANGED <<closed, loaded, grace, past>> /\ UNCHANGED requestVars

\* The reads fail.
FightNotCreated(id) ==
  /\ id \in starting /\ starting' = starting \ {id} /\ Mishap({})
  /\ UNCHANGED <<presence, fights, grace>> /\ UNCHANGED sessionVars /\ UNCHANGED requestVars

\* finishFight.
BugFightForgotten(id) ==
  /\ id \in fights /\ fights' = fights \ {id}
  /\ client' = [w \in Wallets |-> IF w \in Players(id) /\ client[w] # None
                                  THEN [client[w] EXCEPT !.seat = None] ELSE client[w]]
  /\ presence' = [w \in Wallets |-> IF w \in Players(id) THEN Shown(None) ELSE presence[w]]
  /\ grace' = [w \in Wallets |-> IF grace[w] = id /\ client[w] # None THEN None ELSE grace[w]]
  /\ UNCHANGED <<closed, loaded, starting, past>> /\ UNCHANGED requestVars
BugfinishFight(id) ==
  /\ id \in fights /\ fights' = fights \ {id}
  /\ client' = [w \in Wallets |-> IF w \in Players(id) /\ client[w] # None
                                  THEN [client[w] EXCEPT !.seat = None] ELSE client[w]]
  /\ presence' = [w \in Wallets |-> IF w \in Players(id) /\ client[w] # None
                                    THEN Shown(None) ELSE presence[w]]
  /\ grace' = [w \in Wallets |-> IF grace[w] = id THEN None ELSE grace[w]]
  /\ UNCHANGED <<closed, loaded, starting, past>> /\ UNCHANGED requestVars
finishFight(id) ==
  /\ id \in fights /\ fights' = fights \ {id}
  /\ client' = [w \in Wallets |-> IF w \in Players(id) /\ client[w] # None
                                  THEN [client[w] EXCEPT !.seat = None] ELSE client[w]]
  /\ presence' = [w \in Wallets |-> IF w \in Players(id) THEN Shown(None) ELSE presence[w]]
  /\ grace' = [w \in Wallets |-> IF grace[w] = id THEN None ELSE grace[w]]
  /\ UNCHANGED <<closed, loaded, starting, past>> /\ UNCHANGED requestVars

(***************************************************************************)
(* The database and the restart                                            *)
(***************************************************************************)
WriteLands(wr) ==
  /\ wr \in writes /\ writes' = writes \ {wr}
  /\ rows' = [rows EXCEPT ![wr[1]] = wr[2]]
  /\ UNCHANGED <<presence, requests, boot, past>> /\ UNCHANGED sessionVars
  /\ UNCHANGED fightVars

\* The error is logged; or the server stops before the request is out.
WriteFails(wr) ==
  /\ wr \in writes /\ Mishap({"row"})
  /\ writes' = writes \ {wr}
  /\ UNCHANGED <<presence, requests, rows, boot>> /\ UNCHANGED sessionVars
  /\ UNCHANGED fightVars

\* The server stops and starts.  Rehydration is not awaited by the server's
\* sockets; it reads the pending rows at once or never.
Unread == {0}
Restart ==
  /\ Mishap(IF writes # {} THEN {"row"} ELSE {})
  /\ client' = [w \in Wallets |-> None] /\ closed' = {} /\ loaded' = {}
  /\ presence' = [w \in Wallets |-> None]
  /\ starting' = {} /\ fights' = {} /\ grace' = [w \in Wallets |-> None]
  /\ requests' = [id \in Sent |-> [requests[id] EXCEPT !.status = None]]
  /\ boot' = Unread
  /\ UNCHANGED <<rows, writes>>

rehydratePendingFromDb ==
  /\ boot = Unread
  /\ boot' = {id \in Sent : rows[id] = "pending"}
  /\ Happens(IF writes # {} THEN {"row"} ELSE {})
  /\ UNCHANGED <<presence, requests, rows, writes>> /\ UNCHANGED sessionVars
  /\ UNCHANGED fightVars

\* The rows stay open in the database, for a later restart to find.
RehydrationFails ==
  /\ boot = Unread /\ boot' = {} /\ Happens({"boot"})
  /\ UNCHANGED <<presence, requests, rows, writes>> /\ UNCHANGED sessionVars
  /\ UNCHANGED fightVars

\* Row by row: a live one is in memory again; one whose time is over is marked in
\* the database, which is awaited.
RehydrateRow(id) ==
  /\ id \in boot \ Unread /\ boot' = boot \ {id}
  /\ \/ rows' = [rows EXCEPT ![id] = "over"] /\ UNCHANGED requests
     \/ requests' = [requests EXCEPT ![id].status = "pending"] /\ UNCHANGED rows
  /\ UNCHANGED <<presence, writes, past>> /\ UNCHANGED sessionVars /\ UNCHANGED fightVars

Next ==
  \/ \E w \in Wallets :
       \/ handleEnterRoom(w) \/ sweepStalePresence(w)
       \/ Login(w) \/ SessionReady(w) \/ handleDisconnect(w)
       \/ \E to \in Wallets : createRequest(w, to)
       \/ \E id \in Sent : Refuse(w, id)
  \/ \E s \in closed : ClosedSessionReady(s)
  \/ \E id \in Sent : sweepExpired(id) \/ RehydrateRow(id) \/ \E kind \in Kinds : Accept(id, kind)
  \/ \E id \in starting : FightCreated(id) \/ FightNotCreated(id)
  \/ \E id \in fights : finishFight(id)
  \/ \E wr \in writes : WriteLands(wr) \/ WriteFails(wr)
  \/ Restart \/ rehydratePendingFromDb \/ RehydrationFails

Spec == Init /\ [][Next]_vars

\* Time passes, the intervals of index.ts run, and the boot gets its answers.
FairSpec ==
  /\ Spec
  /\ WF_vars(\E w \in Wallets : client[w] = None /\ sweepStalePresence(w))
  /\ WF_vars(\E id \in Sent : sweepExpired(id))
  /\ WF_vars(\E wr \in writes : WriteLands(wr))
  /\ WF_vars(rehydratePendingFromDb \/ \E id \in Sent : RehydrateRow(id))

(***************************************************************************)
(* Properties                                                              *)
(***************************************************************************)
TypeOK ==
  /\ \A w \in Wallets :
       /\ client[w] = None \/ client[w] \in [ready : BOOLEAN, entered : BOOLEAN,
                                             seat : Sent \cup {None}]
       /\ presence[w] = None \/ presence[w] \in [fight : Sent \cup {None}]
  /\ closed \subseteq [wallet : Wallets, seat : Sent \cup {None}] /\ loaded \subseteq Wallets
  /\ \A id \in Sent :
       requests[id] \in [from : Wallets, to : Wallets,
                         status : Statuses \cup {None}]
  /\ DOMAIN rows = Sent /\ \A id \in Sent : rows[id] \in Statuses \cup {None}
  /\ writes \subseteq Sent \X Statuses /\ boot \subseteq Sent \cup Unread
  /\ starting \subseteq Sent /\ fights \subseteq Sent
  /\ \A w \in Wallets : grace[w] \in Sent \cup {None}

\* A player is shown in a fight only while that fight is on, whoever left when
\* and however it ended; and a seated player who came back and entered a room is
\* shown in that fight.  A login that completes after its socket closed is what
\* this excepts.
ShownAsFighting ==
  "zombie" \notin past.faults =>
    \A w \in Wallets : presence[w] # None =>
      /\ presence[w].fight # None =>
           presence[w].fight \in {f \in fights : w \in Players(f)}
      /\ client[w] # None /\ client[w].entered => presence[w].fight = client[w].seat

\* Whoever has a seat, or is awaited back, has it or is so in a fight of theirs that
\* is still on, even when fights of one player overlap, one of them ends while the
\* player is away, and the seat of the other is given back by a login: a seat that
\* outlives its fight would keep its player busy for good.
SeatsAreLive ==
  \A w \in Wallets :
    LET own == {f \in fights : w \in Players(f)} IN
    /\ client[w] # None => client[w].seat \in own \cup {None}
    /\ grace[w] \in own \cup {None}

\* A challenge is accepted at most once, and an accepted one is not open again,
\* across restarts too, unless a write of its row was lost, overtaken or still
\* under way when the rows were read, or a challenge was sent before they were, or
\* they could not be read.
AcceptedOnce ==
  past.faults \cap {"row", "boot"} = {} =>
    \A id \in Sent : /\ past.accepts[id] <= 1
                     /\ past.accepts[id] = 1 => requests[id].status \in {"accepted", None}

\* No player has more challenges open than allowed, nor two to one player, with
\* the same exceptions.
PendingWithinLimits ==
  past.faults \cap {"row", "boot"} = {} =>
    \A w \in Wallets :
      LET open == {id \in Pending : requests[id].from = w} IN
      /\ Cardinality(open) <= MAX_PENDING_PER_SENDER
      /\ \A i, j \in open : requests[i].to = requests[j].to => i = j

\* Challenges obey their state machine and their limits in memory, in the
\* database and across restarts.
ChallengesAreSound == AcceptedOnce /\ PendingWithinLimits

\* When no more challenges are sent (they are bounded), none stays open, and
\* nobody stays on the list of those online without a session.
NothingLingers ==
  []<>(Pending = {} /\ \A w \in Wallets : presence[w] # None => client[w] # None)
=============================================================================
