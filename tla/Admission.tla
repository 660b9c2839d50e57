----------------------------- MODULE Admission -----------------------------
(***************************************************************************)
(* How fights come about: the wager lobby and its handlers (the wager part *)
(* of server/src/ws/handler.ts, with wager-accept-gate.ts and              *)
(* busy-state.ts), the matchmaking queue (game/matchmaking.ts), accepted   *)
(* friendly requests, and the boot pass that fills the lobby from the      *)
(* chain (data/lobby-rehydration.ts).                                      *)
(*                                                                         *)
(* A player's client signs a transaction, then sends a message; the        *)
(* handler of the message keeps what it read of the lobby while it asks    *)
(* the chain for the wager's status, and other handlers run meanwhile.     *)
(* Messages and answers come in any order, or not at all.  The escrow      *)
(* itself is module Arena, the fight module FightRoom, and the treasury    *)
(* queue and its retries module Settlement: here a wager is its status and *)
(* its challenger, and a treasury transaction one step.  A recovery row is *)
(* written at once or never (a crash before the request arrives counts as  *)
(* never); rows that arrive late, and deletions that fail, are Settlement. *)
(*                                                                         *)
(* Left out: the wager_accepted of a challenger, which only clients of the *)
(* contract's previous version send, and fights against the bot.           *)
(***************************************************************************)
EXTENDS Naturals, FiniteSets

CONSTANTS
  Wallets, Wagers,
  CreatorOf,                    \* which wallet creates which wager
  None,                         \* no challenger, no wager
  Absent,                       \* no lobby entry
  Casual,                       \* bound: wallets that look for fights without a stake
  MaxFriendly,                  \* bound: fights without a stake, at one time
  MaxChallenges,                \* bound: challenges, of all wagers together
  MaxInFlight,                  \* bound: messages and handlers under way
  MaxMishaps                    \* bound: crashes, replaced sessions, and accepts sent
                                \* again or early, together

ASSUME AdmissionAssumption ==
  /\ CreatorOf \in [Wagers -> Wallets]
  /\ {None, Absent} \cap (Wallets \cup Wagers) = {} /\ None # Absent
  /\ None \notin [id : Nat, wager : Wagers \cup {None}, players : SUBSET Wallets]
  /\ Casual \subseteq Wallets
  /\ MaxFriendly \in Nat /\ MaxChallenges \in Nat /\ MaxInFlight \in Nat
  /\ MaxMishaps \in Nat

VARIABLES
  chain,        \* status and challenger (pending, then player_b) of each wager
  client,       \* wallets online, messages they sent, wagers they saw listed
  lobby,        \* wagerLobby: no entry, or its pending challenger
  queue,        \* wallets in the matchmaking queue
  rooms,        \* fights being created and running; currentFightId of wallets
  handlers,     \* handlers waiting for an answer of the chain
  cancels,      \* admin_cancel_wager tasks in the treasury queue
  boot,         \* what the passes that run at boot have yet to look at
  rows,         \* wager_in_flight, in the database
  past          \* history: wagers given up, wagers whose row was not written,
                \* seats taken away from a fight that goes on; and counters of the
                \* bounds

vars == <<chain, client, lobby, queue, rooms, handlers, cancels, boot, rows, past>>

OpenStatuses == {"WAITING", "PENDING_APPROVAL", "ACTIVE"}
Open(w) == chain[w].status \in OpenStatuses

\* The kinds of message, and of handler, that wait for the chain.
Handshakes == {"wager_request_accepted", "wager_declined", "wager_reclaimed"}
Kinds == Handshakes \cup {"wager_accepted"}

Message(kind, p, w) == [kind |-> kind, who |-> p, wager |-> w]

Init ==
  /\ chain = [w \in Wagers |-> [status |-> "ABSENT", challenger |-> None]]
  /\ client = [online |-> Wallets, posted |-> {}, listed |-> {}]
  /\ lobby = [w \in Wagers |-> Absent]
  /\ queue = {}
  /\ rooms = [starting |-> {}, active |-> {}, seat |-> [p \in Wallets |-> None]]
  /\ handlers = {} /\ cancels = {} /\ rows = {}
  /\ boot = [registry |-> {}, rows |-> {}]
  /\ past = [givenUp |-> {}, unwritten |-> {}, unseated |-> FALSE,
             challenges |-> 0, mishaps |-> 0]

(***************************************************************************)
(* The players: a transaction that lands, then its message                 *)
(***************************************************************************)
ServerUnchanged == UNCHANGED <<lobby, queue, rooms, handlers, cancels, boot, rows>>

\* A message of a wallet without a connection goes nowhere.
Posts(m) ==
  /\ Cardinality(client.posted) + Cardinality(handlers) < MaxInFlight
  /\ client' = IF m.who \in client.online
               THEN [client EXCEPT !.posted = @ \cup {m}] ELSE client

HasOpenWager(p) == \E w \in Wagers : CreatorOf[w] = p /\ Open(w)

create_wager(w) ==
  /\ chain[w].status = "ABSENT" /\ ~HasOpenWager(CreatorOf[w])
  /\ chain' = [chain EXCEPT ![w].status = "WAITING"]
  /\ Posts(Message("queue_fight", CreatorOf[w], w))
  /\ UNCHANGED past /\ ServerUnchanged

\* A client challenges a wager it has seen in the lobby.
request_accept_wager(p, w) ==
  /\ past.challenges < MaxChallenges
  /\ chain[w].status = "WAITING" /\ w \in client.listed
  /\ p # CreatorOf[w] /\ ~HasOpenWager(p)
  /\ chain' = [chain EXCEPT ![w] = [status |-> "PENDING_APPROVAL", challenger |-> p]]
  /\ Posts(Message("wager_request_accepted", p, w))
  /\ past' = [past EXCEPT !.challenges = @ + 1]
  /\ ServerUnchanged

approve_challenger(w) ==
  /\ chain[w].status = "PENDING_APPROVAL"
  /\ chain' = [chain EXCEPT ![w].status = "ACTIVE"]
  /\ Posts(Message("wager_accepted", CreatorOf[w], w))
  /\ UNCHANGED past /\ ServerUnchanged

\* The creator declines, or the challenger withdraws or clears the expired
\* challenge: the three messages have the same handler and the same effect.
ChallengeEnds(p, w) ==
  /\ chain[w].status = "PENDING_APPROVAL" /\ p \in {CreatorOf[w], chain[w].challenger}
  /\ chain' = [chain EXCEPT ![w] = [status |-> "WAITING", challenger |-> None]]
  /\ Posts(Message("wager_declined", p, w))
  /\ UNCHANGED past /\ ServerUnchanged

\* The chain's record of a wager that ends; player_b stays in the object.
Closed(w) ==
  [chain EXCEPT ![w] = [status |-> "SETTLED",
                        challenger |-> IF @.status = "ACTIVE" THEN @.challenger ELSE None]]

reclaim_stalled_wager(p, w) ==
  /\ chain[w].status = "ACTIVE" /\ p \in {CreatorOf[w], chain[w].challenger}
  /\ chain' = Closed(w)
  /\ Posts(Message("wager_reclaimed", p, w))
  /\ UNCHANGED past /\ ServerUnchanged

\* The creator cancels, or anybody once the wager is old: no message.
cancel_wager(w) ==
  /\ Open(w)
  /\ chain' = Closed(w)
  /\ UNCHANGED <<client, past>> /\ ServerUnchanged

\* A client sends wager_accepted again, or for an approval that failed or has
\* not landed yet (the server waits for it three seconds, then goes on).
Resend(w) ==
  /\ past.mishaps < MaxMishaps
  /\ chain[w].status \in {"PENDING_APPROVAL", "ACTIVE"} /\ CreatorOf[w] \in client.online
  /\ Posts(Message("wager_accepted", CreatorOf[w], w))
  /\ past' = [past EXCEPT !.mishaps = @ + 1]
  /\ UNCHANGED chain /\ ServerUnchanged

\* A message is lost with its connection.
Lost(m) ==
  /\ m \in client.posted
  /\ client' = [client EXCEPT !.posted = @ \ {m}]
  /\ UNCHANGED <<chain, past>> /\ ServerUnchanged

(***************************************************************************)
(* Lobby, queue and friendly fights: handlers that run in one go           *)
(***************************************************************************)
\* evaluateServerBusy
Busy(p) ==
  \/ rooms.seat[p] # None
  \/ \E w \in Wagers : lobby[w] # Absent /\ CreatorOf[w] = p
  \/ p \in queue

Fights == rooms.starting \cup rooms.active

\* A new fight of a wager, or of none, told apart from others by its number.
NewFight(w, players) ==
  LET used == {f.id : f \in {g \in Fights : g.wager = w}}
      n == CHOOSE i \in 1 .. Cardinality(used) + 1 : i \notin used
  IN [id |-> n, wager |-> w, players |-> players]

RoomForFriendly == Cardinality({f \in Fights : f.wager = None}) < MaxFriendly

Listed(w, challenger) ==
  /\ lobby' = [lobby EXCEPT ![w] = challenger]
  /\ client' = [client EXCEPT !.listed = @ \cup {w}]

\* queue_fight with a stake: the wager is taken from the message as it is.
QueueWager(m) ==
  /\ m \in client.posted /\ m.kind = "queue_fight"
  /\ LET rest == client.posted \ {m}
     IN IF Busy(m.who)
        THEN client' = [client EXCEPT !.posted = rest] /\ UNCHANGED lobby
        ELSE /\ client' = [client EXCEPT !.posted = rest, !.listed = @ \cup {m.wager}]
             /\ lobby' = [lobby EXCEPT ![m.wager] = None]
  /\ UNCHANGED <<chain, queue, rooms, handlers, cancels, boot, rows, past>>

QueueFight(p) ==
  /\ p \in Casual \cap client.online /\ ~Busy(p)
  /\ queue' = queue \cup {p}
  /\ UNCHANGED <<chain, client, lobby, rooms, handlers, cancels, boot, rows, past>>

\* handleCancelQueue, and the close of a socket.
LeaveQueue(p) ==
  /\ p \in queue
  /\ queue' = queue \ {p}
  /\ UNCHANGED <<chain, client, lobby, rooms, handlers, cancels, boot, rows, past>>

\* tryMatchPlayers; the rating range decides who fits whom.  createFight only
\* runs up to its first await.
TryMatchPlayers(p, q) ==
  /\ {p, q} \subseteq queue /\ p # q /\ RoomForFriendly
  /\ queue' = queue \ {p, q}
  /\ rooms' = [rooms EXCEPT !.starting = @ \cup {NewFight(None, {p, q})}]
  /\ UNCHANGED <<chain, client, lobby, handlers, cancels, boot, rows, past>>

\* A friendly request of p that q accepts.
OnAcceptFightRequest(p, q) ==
  /\ {p, q} \subseteq Casual \cap client.online /\ p # q /\ RoomForFriendly
  /\ rooms.seat[p] = None /\ rooms.seat[q] = None
  /\ rooms' = [rooms EXCEPT !.starting = @ \cup {NewFight(None, {p, q})}]
  /\ UNCHANGED <<chain, client, lobby, queue, handlers, cancels, boot, rows, past>>

\* (Operators named Bug... are the definition that follows them with a
\* plausible mistake in it; no definition uses one.)

\* The refund of the entries that are dropped is forgotten.
BugOnlyDropped(ws) ==
  /\ lobby' = [w \in Wagers |-> IF w \in ws THEN Absent ELSE lobby[w]]
  /\ UNCHANGED cancels

\* Wagers leave the lobby and their stakes go back.
CancelEntries(ws) ==
  /\ lobby' = [w \in Wagers |-> IF w \in ws THEN Absent ELSE lobby[w]]
  /\ cancels' = cancels \cup ws

CancelWagerLobby(w) ==
  /\ lobby[w] # Absent /\ CreatorOf[w] \in client.online
  /\ CancelEntries({w})
  /\ UNCHANGED <<chain, client, queue, rooms, handlers, boot, rows, past>>

\* The interval that drops entries older than ten minutes.
SweepLobby(w) ==
  /\ lobby[w] # Absent
  /\ CancelEntries({w})
  /\ UNCHANGED <<chain, client, queue, rooms, handlers, boot, rows, past>>

(***************************************************************************)
(* Handlers that ask the chain: start, answer, continuation                *)
(***************************************************************************)
\* What a handler keeps over its awaits, as far as it uses it then: the lobby
\* entry (an accept its challenger, a reclaim whether there is one), a wager of
\* the caller in the lobby, whether the caller is queued, the chain's answer.
Handler(m, entry, own, queued) ==
  [kind |-> m.kind, who |-> m.who, wager |-> m.wager, entry |-> entry, own |-> own,
   queued |-> queued, status |-> "UNREAD"]

\* The set of accepts under way is forgotten.
BugNotSingleFlight(w) == FALSE

\* processingWagerAccepts: an accept is processed until its fight is created.
Processing(w) ==
  \/ \E h \in handlers : h.kind = "wager_accepted" /\ h.wager = w
  \/ \E f \in rooms.starting : f.wager = w

OwnWagers(p) == {w \in Wagers : lobby[w] # Absent /\ CreatorOf[w] = p}

\* callerOwnWager: the first of the caller's entries, whichever that is; one
\* that is the target itself counts for nothing.
OwnWagerSeen(m) ==
  IF OwnWagers(m.who) = {} THEN {None}
  ELSE {IF w = m.wager THEN None ELSE w : w \in OwnWagers(m.who)}

HandleWagerAccepted(m) ==
  /\ m \in client.posted /\ m.kind = "wager_accepted"
  /\ client' = [client EXCEPT !.posted = @ \ {m}]
  /\ IF Processing(m.wager) \/ rooms.seat[m.who] # None
     THEN UNCHANGED handlers
     ELSE \E own \in OwnWagerSeen(m) :
            handlers' = handlers \cup {Handler(m, lobby[m.wager], own, m.who \in queue)}
  /\ UNCHANGED <<chain, lobby, queue, rooms, cancels, boot, rows, past>>

HandleWagerHandshake(m) ==
  /\ m \in client.posted /\ m.kind \in Handshakes
  /\ client' = [client EXCEPT !.posted = @ \ {m}]
  /\ handlers' =
       IF lobby[m.wager] # Absent THEN handlers \cup {Handler(m, None, None, FALSE)}
       ELSE IF m.kind = "wager_reclaimed" THEN handlers \cup {Handler(m, Absent, None, FALSE)}
       ELSE handlers
  /\ UNCHANGED <<chain, lobby, queue, rooms, cancels, boot, rows, past>>

\* getWagerStatus: the status now, known to the handler some time later.
GetWagerStatus(h) ==
  /\ h \in handlers /\ h.status = "UNREAD"
  /\ handlers' = (handlers \ {h}) \cup {[h EXCEPT !.status = chain[h.wager].status]}
  /\ UNCHANGED <<chain, client, lobby, queue, rooms, cancels, boot, rows, past>>

\* getWagerStatus returns null: the handler gives the message up.
NoAnswer(h) ==
  /\ h \in handlers /\ h.status = "UNREAD"
  /\ handlers' = handlers \ {h}
  /\ UNCHANGED <<chain, client, lobby, queue, rooms, cancels, boot, rows, past>>

Answered(h) == h \in handlers /\ h.status # "UNREAD"

\* decideAcceptOutcome
HasDifferentOwnWager(h) == h.own # None

\* The chain's answer is not looked at.
BugNoStatusCheck(h) ==
  IF h.entry = Absent THEN "reject"
  ELSE IF HasDifferentOwnWager(h) \/ h.queued THEN "autoRollback"
  ELSE "proceed"

Outcome(h) ==
  IF h.entry = Absent \/ h.status # "ACTIVE" THEN "reject"
  ELSE IF HasDifferentOwnWager(h) \/ h.queued THEN "autoRollback"
  ELSE "proceed"

\* Rejected by the gate, or by resolveChallengerWallet: the caller is the
\* creator and the entry names no challenger.
AcceptRejected(h) ==
  /\ Answered(h) /\ h.kind = "wager_accepted"
  /\ Outcome(h) = "reject" \/ (Outcome(h) = "proceed" /\ h.entry = None)
  /\ handlers' = handlers \ {h}
  /\ UNCHANGED <<chain, client, lobby, queue, rooms, cancels, boot, rows, past>>

AutoRollback(h) ==
  /\ Answered(h) /\ h.kind = "wager_accepted" /\ Outcome(h) = "autoRollback"
  /\ handlers' = handlers \ {h}
  /\ CancelEntries({h.wager} \cup (IF HasDifferentOwnWager(h) THEN {h.own} ELSE {}))
  /\ queue' = IF h.queued THEN queue \ {h.who} ELSE queue
  /\ UNCHANGED <<chain, client, rooms, boot, rows, past>>

\* The fight of the entry the handler has kept.  The insertion of the recovery
\* row is not awaited, and its failure only logged.  Only characters of wallets
\* that logged in since the last restart are in memory; the caller's is.
Proceed(h) ==
  /\ Answered(h) /\ h.kind = "wager_accepted"
  /\ Outcome(h) = "proceed" /\ h.entry # None
  /\ handlers' = handlers \ {h}
  /\ \/ rows' = rows \cup {h.wager} /\ UNCHANGED past
     \/ UNCHANGED rows /\ past' = [past EXCEPT !.unwritten = @ \cup {h.wager}]
  /\ lobby' = [lobby EXCEPT ![h.wager] = Absent]
  /\ IF h.entry \in client.online
     THEN rooms' = [rooms EXCEPT !.starting = @ \cup {NewFight(h.wager, {h.who, h.entry})}]
     ELSE UNCHANGED rooms
  /\ UNCHANGED <<chain, client, queue, cancels, boot>>

Expected == [kind \in Handshakes |->
  CASE kind = "wager_request_accepted" -> "PENDING_APPROVAL"
    [] kind = "wager_declined" -> "WAITING"
    [] kind = "wager_reclaimed" -> "SETTLED"]

\* The entry is written anew from the one the handler kept.
HandshakeEnds(h) ==
  /\ Answered(h) /\ h.kind \in Handshakes
  /\ handlers' = handlers \ {h}
  /\ IF h.status # Expected[h.kind]
     THEN UNCHANGED <<lobby, rows>>
     ELSE /\ lobby' = [lobby EXCEPT ![h.wager] =
                         CASE h.kind = "wager_request_accepted" -> h.who
                           [] h.kind = "wager_declined" -> None
                           [] h.kind = "wager_reclaimed" ->
                                IF h.entry = Absent THEN @ ELSE Absent]
          /\ rows' = IF h.kind = "wager_reclaimed" THEN rows \ {h.wager} ELSE rows
  /\ UNCHANGED <<chain, client, queue, rooms, cancels, boot, past>>

(***************************************************************************)
(* Fights, treasury, crash and boot                                        *)
(***************************************************************************)
\* createFight after its awaits; the handler of an accepted wager goes on at
\* once, cancels what the two players have left in the lobby, and takes the
\* creator and the caller, who is the creator too, out of the queue.
CreateFight(f) ==
  /\ f \in rooms.starting
  /\ rooms' = [starting |-> rooms.starting \ {f},
               active   |-> rooms.active \cup {f},
               seat     |-> [p \in Wallets |-> IF p \in f.players \cap client.online
                                               THEN f ELSE rooms.seat[p]]]
  /\ IF f.wager = None
     THEN UNCHANGED <<lobby, queue, cancels>>
     ELSE /\ CancelEntries({w \in Wagers : lobby[w] # Absent /\ CreatorOf[w] \in f.players})
          /\ queue' = queue \ {CreatorOf[f.wager]}
  /\ UNCHANGED <<chain, client, handlers, boot, rows, past>>

\* Only one of the two players is let go.
BugOneFreed(f) == LET p == CHOOSE p \in f.players : TRUE
                  IN [rooms.seat EXCEPT ![p] = None]

\* finishFight clears currentFightId, whichever fight it names.
Freed(f) == [p \in Wallets |-> IF p \in f.players THEN None ELSE rooms.seat[p]]

\* finishFight: settle_wager wants an ACTIVE wager and one of its two players
\* (settle_tie only the former); the row outlives a settlement that fails.
FinishFight(f, winner) ==
  LET w == f.wager
      settles == /\ w # None /\ chain[w].status = "ACTIVE"
                 /\ winner \in {None, CreatorOf[w], chain[w].challenger}
  IN /\ f \in rooms.active /\ winner \in f.players \cup {None}
     /\ rooms' = [rooms EXCEPT !.active = @ \ {f}, !.seat = Freed(f)]
     /\ chain' = IF settles THEN Closed(w) ELSE chain
     /\ rows' = IF settles THEN rows \ {w} ELSE rows
     /\ past' = [past EXCEPT !.unseated =
                   @ \/ \E g \in rooms.active \ {f} : f.players \cap g.players # {}]
     /\ UNCHANGED <<client, lobby, queue, handlers, cancels, boot>>

\* A wallet's currentFightId goes with its session: a login that replaces a
\* live one brings it back for no fight (module FightRoom has the details).
SessionReplaced(p) ==
  /\ past.mishaps < MaxMishaps /\ rooms.seat[p] # None
  /\ rooms' = [rooms EXCEPT !.seat[p] = None]
  /\ past' = [past EXCEPT !.unseated = TRUE, !.mishaps = @ + 1]
  /\ UNCHANGED <<chain, client, lobby, queue, handlers, cancels, boot, rows>>

\* admin_cancel_wager lands, or aborts because the wager has ended.
AdminCancel(w) ==
  /\ w \in cancels
  /\ cancels' = cancels \ {w}
  /\ chain' = IF Open(w) THEN Closed(w) ELSE chain
  /\ UNCHANGED <<client, lobby, queue, rooms, handlers, boot, rows, past>>

\* The last attempt of the task fails; its caller only logs that.
AdminCancelFails(w) ==
  /\ w \in cancels
  /\ cancels' = cancels \ {w}
  /\ past' = [past EXCEPT !.givenUp = IF Open(w) THEN @ \cup {w} ELSE @]
  /\ UNCHANGED <<chain, client, lobby, queue, rooms, handlers, boot, rows>>

\* The process dies and starts again.  The boot sweep reads the rows older
\* than a minute, rehydration the wagers of the registry.
Crash(old) ==
  /\ past.mishaps < MaxMishaps /\ old \in SUBSET rows
  /\ past' = [past EXCEPT !.mishaps = @ + 1]
  /\ client' = [client EXCEPT !.online = {}, !.posted = {}]
  /\ lobby' = [w \in Wagers |-> Absent]
  /\ queue' = {} /\ handlers' = {} /\ cancels' = {}
  /\ rooms' = [starting |-> {}, active |-> {}, seat |-> [p \in Wallets |-> None]]
  /\ boot' = [registry |-> {w \in Wagers : Open(w)}, rows |-> old]
  /\ UNCHANGED <<chain, rows>>

Login(p) ==
  /\ p \notin client.online
  /\ client' = [client EXCEPT !.online = @ \cup {p}]
  /\ UNCHANGED <<chain, lobby, queue, rooms, handlers, cancels, boot, rows, past>>

\* rehydrateLobbyFromChain reads one wager after the other; it leaves an
\* ACTIVE one to the sweep, which knows only those that have a row.
ReadWagerFields(w) ==
  /\ w \in boot.registry /\ ~\E h \in handlers : h.kind = "rehydrate"
  /\ boot' = [boot EXCEPT !.registry = @ \ {w}]
  /\ handlers' =
       IF chain[w].status \in {"WAITING", "PENDING_APPROVAL"}
       THEN handlers \cup
              {[Handler(Message("rehydrate", CreatorOf[w], w), chain[w].challenger,
                        None, FALSE) EXCEPT !.status = chain[w].status]}
       ELSE handlers
  /\ past' = [past EXCEPT !.givenUp = IF chain[w].status = "ACTIVE" /\ w \notin rows
                                      THEN @ \cup {w} ELSE @]
  /\ UNCHANGED <<chain, client, lobby, queue, rooms, cancels, rows>>

\* The registry, or the wager, cannot be read: it stays out of the lobby.
RehydrateFails(w) ==
  /\ w \in boot.registry
  /\ boot' = [boot EXCEPT !.registry = @ \ {w}]
  /\ past' = [past EXCEPT !.givenUp = IF Open(w) THEN @ \cup {w} ELSE @]
  /\ UNCHANGED <<chain, client, lobby, queue, rooms, handlers, cancels, rows>>

AdoptIntoLobby(h) ==
  /\ Answered(h) /\ h.kind = "rehydrate"
  /\ handlers' = handlers \ {h}
  /\ IF lobby[h.wager] = Absent THEN Listed(h.wager, h.entry)
                                ELSE UNCHANGED <<lobby, client>>
  /\ UNCHANGED <<chain, queue, rooms, cancels, boot, rows, past>>

\* sweepOne: the wager of a crashed fight is cancelled and its row dropped, or
\* a read or the cancel fails and the row stays for the next start.
SweepOne(w) ==
  /\ w \in boot.rows
  /\ boot' = [boot EXCEPT !.rows = @ \ {w}]
  /\ \/ /\ chain' = IF chain[w].status \in {"ACTIVE", "PENDING_APPROVAL"}
                    THEN Closed(w) ELSE chain
        /\ rows' = rows \ {w}
     \/ UNCHANGED <<chain, rows>>
  /\ UNCHANGED <<client, lobby, queue, rooms, handlers, cancels, past>>

PlayerStep(w) ==
  \/ create_wager(w) \/ approve_challenger(w) \/ cancel_wager(w) \/ Resend(w)
  \/ CancelWagerLobby(w)
  \/ \E p \in Wallets : \/ request_accept_wager(p, w) \/ ChallengeEnds(p, w)
                        \/ reclaim_stalled_wager(p, w)

QueueStep(p) ==
  \/ Login(p) \/ SessionReplaced(p) \/ QueueFight(p) \/ LeaveQueue(p)
  \/ \E q \in Wallets : TryMatchPlayers(p, q) \/ OnAcceptFightRequest(p, q)

MessageStep(m) ==
  QueueWager(m) \/ HandleWagerAccepted(m) \/ HandleWagerHandshake(m) \/ Lost(m)

HandlerStep(h) ==
  \/ GetWagerStatus(h) \/ NoAnswer(h)
  \/ AcceptRejected(h) \/ AutoRollback(h) \/ Proceed(h)
  \/ HandshakeEnds(h) \/ AdoptIntoLobby(h)

FightStep(f) ==
  \/ CreateFight(f)
  \/ \E winner \in f.players \cup {None} : FinishFight(f, winner)

ServerStep(w) ==
  \/ SweepLobby(w) \/ AdminCancel(w) \/ AdminCancelFails(w)
  \/ ReadWagerFields(w) \/ RehydrateFails(w) \/ SweepOne(w)

Next ==
  \/ \E w \in Wagers : PlayerStep(w) \/ ServerStep(w)
  \/ \E p \in Wallets : QueueStep(p)
  \/ \E m \in client.posted : MessageStep(m)
  \/ \E h \in handlers : HandlerStep(h)
  \/ \E f \in Fights : FightStep(f)
  \/ \E old \in SUBSET rows : Crash(old)

Spec == Init /\ [][Next]_vars

(***************************************************************************)
(* Properties                                                              *)
(***************************************************************************)
\* The type invariant of the server's maps, the queue, fights and handlers.
TypeOK ==
  /\ chain \in [Wagers -> [status : OpenStatuses \cup {"ABSENT", "SETTLED"},
                           challenger : Wallets \cup {None}]]
  /\ client.online \subseteq Wallets /\ client.listed \subseteq Wagers
  /\ client.posted \subseteq [kind : Kinds \cup {"queue_fight"}, who : Wallets, wager : Wagers]
  /\ lobby \in [Wagers -> Wallets \cup {None, Absent}]
  /\ queue \subseteq client.online
  /\ rooms.starting \cap rooms.active = {}
  /\ \A f \in Fights : /\ Cardinality(f.players) = 2 /\ f.players \subseteq Wallets
                       /\ f.wager \in Wagers \cup {None} /\ f.id \in Nat
  /\ rooms.seat \in [Wallets -> rooms.active \cup {None}]
  /\ handlers \subseteq [kind : Kinds \cup {"rehydrate"}, who : Wallets, wager : Wagers,
                         entry : Wallets \cup {None, Absent}, own : Wagers \cup {None},
                         queued : BOOLEAN,
                         status : OpenStatuses \cup {"UNREAD", "SETTLED"}]
  /\ cancels \subseteq Wagers /\ rows \subseteq Wagers
  /\ boot.registry \subseteq Wagers /\ boot.rows \subseteq Wagers

\* A wager is fought for only after its creator approved a challenger on
\* chain, so that both stakes were in escrow: whatever a handler kept over
\* its awaits, and although the entry it reads may be a stale one.
FightOnlyAfterApproval ==
  \A f \in Fights : f.wager # None =>
    /\ chain[f.wager].status \in {"ACTIVE", "SETTLED"}
    /\ chain[f.wager].challenger # None

\* A wager has one fight at a time: repeated wager_accepted messages and
\* entries that come back to the lobby start no second one, unless the end of
\* another fight, or of a session, has taken its creator's seat away.
OneFightPerWager ==
  \A w \in Wagers :
    Cardinality({f \in Fights : f.wager = w}) > 1 => past.unseated

\* A wager leads to a fight when it is entitled to one, and to one only.
FightsAreEntitled == FightOnlyAfterApproval /\ OneFightPerWager

\* Once both stakes are in escrow somebody on the server's side has the wager
\* in hand: the lobby and its ten-minute sweep, a handler, a fight, a cancel in
\* the treasury queue, a wager_in_flight row, or a boot pass; or it was given
\* up in one of the ways the code has: a failed admin cancel, a restart
\* between the approval and the row, a row that could not be written, or a
\* boot pass that could not read the wager.
ActiveIsOwned ==
  \A w \in Wagers : chain[w].status = "ACTIVE" =>
    \/ lobby[w] # Absent
    \/ Processing(w)
    \/ \E f \in rooms.active : f.wager = w
    \/ w \in cancels \cup rows \cup boot.registry
    \/ w \in past.givenUp \cup past.unwritten
    \/ \E h \in handlers : h.kind = "rehydrate" /\ h.wager = w

\* The two players of a wager's fight are the two whose stakes are in escrow
\* (violated: the opponent is the one the lobby entry names).
FightersAreTheStakers ==
  \A f \in rooms.active : f.wager # None =>
    f.players = {CreatorOf[f.wager], chain[f.wager].challenger}
=============================================================================
