-------------------------- MODULE CharacterRecord --------------------------
(***************************************************************************)
(* One player's character as a record that is kept three times: on chain   *)
(* (contracts/sources/character.move), in the server's memory              *)
(* (server/src/data/characters.ts) and in its database (data/db.ts).       *)
(*                                                                         *)
(* A client connects, authenticates and waits behind a gate until it has   *)
(* the character (frontend hooks/useGameSocket.ts, app/game-provider.tsx,  *)
(* lib/auth-phase.ts); the server answers a login from memory, else from   *)
(* the database, and a client that is told "no character" looks at the     *)
(* chain and asks for a restore (ws/handler.ts).  Fights raise the level:  *)
(* at once in memory, later on chain, and what the chain says is mirrored. *)
(* The player spends the points on chain, then tells the server.           *)
(*                                                                         *)
(* A record is its level, the points still free and the points spent; each *)
(* fight raises the level, and points are spent one by one.  Left out: the *)
(* name, the other statistics, equipment (module Loadout), requests for    *)
(* data already shown, a second tab (its login closes the first one's      *)
(* socket), admin_burn, and the local JSON store, whose writes are ordered.*)
(* So is the gate's phase "chain_check_failed" with its retry, which the   *)
(* code cannot reach: the scan reports an error as an absent character.    *)
(***************************************************************************)
EXTENDS Naturals, FiniteSets, Sequences

CONSTANTS
  None,                         \* no row
  PointsPerLevel,               \* STAT_POINTS_PER_LEVEL
  MaxIds,                       \* bound: records ever created in memory
  MaxFights,                    \* bound: fights, each of which raises the level
  MaxWrites,                    \* bound: writes to the database under way at a time
  MaxMishaps                    \* bound: dropped connections, restarts, failed reads, writes,
                                \* scans and updates, presence checks, deletions,
                                \* allocations without a transaction, together

ASSUME RecordAssumption ==
  /\ PointsPerLevel \in Nat /\ MaxIds \in Nat /\ MaxFights \in Nat /\ MaxWrites \in Nat /\ MaxMishaps \in Nat

\* Operators named Bug... are the definition that follows them with a plausible
\* mistake in it; no definition uses one.
VARIABLES
  chain,        \* the Character object: registered, level, points spent
  client,       \* phase of the gate, has the character, authenticated, the scan,
                \* whether the on-chain character is loaded (onChainCharacter)
  unsent,       \* messages queued while the socket is closed
  alloc,        \* an allocation that landed and was not sent yet
  conn,         \* the connection: its number, open or not
  up, down,     \* messages on the open connection
  session,      \* the server's ConnectedClient of the connection
  handlers,     \* handlers of messages that wait for an answer
  records,      \* characters: every record ever made; in the map or not
  index,        \* walletToCharacter; 0 is none
  updates,      \* update_after_fight tasks in the treasury queue, by record
  effects,      \* the result of such a task that is not mirrored yet
  row, writes,  \* the database row; writes on their way to it
  past          \* history: faults that happened, allocations that nobody told
                \* the server of; counters of the bounds

clientVars == <<client, unsent, alloc>>
linkVars == <<conn, up, down>>
serverVars == <<session, handlers, records, index>>
queueVars == <<updates, effects>>
vars == <<chain, client, unsent, alloc, conn, up, down, session, handlers, records,
          index, updates, effects, row, writes, past>>

Phases == {"auth_pending", "chain_check_pending", "no_character"}
Points == [lvl : Nat, free : Nat, spent : Nat]
Granted(lvl) == lvl * PointsPerLevel
NoPoints == [lvl |-> 0, free |-> 0, spent |-> 0]
Faults == {"row", "crossed", "unsigned", "scan", "update", "overlap", "deleted"}

\* Messages: of the client; of the server.
Msg(type, points) == [type |-> type, points |-> points]
Reply(type, has) == [type |-> type, has |-> has]

Handler(stage, kind, char, points) ==
  [conn |-> conn.no, stage |-> stage, kind |-> kind, char |-> char, points |-> points]
NoSession == [auth |-> FALSE, char |-> 0]

Init ==
  /\ chain \in [registered : BOOLEAN, lvl : {0}, spent : {0}]
  /\ client = [phase |-> "auth_pending", has |-> FALSE, auth |-> FALSE, due |-> FALSE,
               inFlight |-> FALSE, scan |-> FALSE, stale |-> FALSE, loaded |-> FALSE]
  /\ unsent = << >> /\ alloc = 0
  /\ conn = [no |-> 0, open |-> FALSE] /\ up = << >> /\ down = << >>
  /\ session = NoSession /\ handlers = {} /\ index = 0 /\ records = << >>
  /\ updates = << >> /\ effects = {}
  /\ row \in (IF chain.registered THEN {None, NoPoints} ELSE {None})
  /\ writes = {}
  /\ past = [faults |-> {}, lost |-> 0, fights |-> 0, mishaps |-> 0]

Happens(fault) == past' = [past EXCEPT !.faults = @ \cup fault]
Mishap(fault, lost) ==
  /\ past.mishaps < MaxMishaps
  /\ past' = [past EXCEPT !.mishaps = @ + 1, !.faults = @ \cup fault, !.lost = @ + lost]

\* The allocations that a queue of messages announces.
Allocations(q) == Cardinality({n \in 1 .. Len(q) : q[n].type = "allocate"})

(***************************************************************************)
(* The connection                                                          *)
(***************************************************************************)
\* onopen: the handshake starts and the queue is drained behind it.  With a
\* stored token the login is one message; else a signature has to be asked
\* for, and what was queued arrives before it.  The oldest messages of the
\* queue may be too old to be sent.
Connect(token, stale) ==
  LET kept == SubSeq(unsent, stale + 1, Len(unsent)) IN
  /\ ~conn.open
  /\ conn' = [no |-> conn.no + 1, open |-> TRUE]
  /\ up' = IF token THEN <<Msg("login", NoPoints)>> \o kept
           ELSE kept \o <<Msg("login", NoPoints)>>
  /\ down' = << >> /\ unsent' = << >>
  /\ session' = NoSession
  /\ IF stale = 0 THEN UNCHANGED past ELSE Mishap({}, Allocations(SubSeq(unsent, 1, stale)))
  /\ UNCHANGED <<chain, client, alloc, handlers, records, index, updates, effects,
                 row, writes>>

\* onclose; the gate is rolled back.  Handlers under way on the server go on.
ClientLosesLink ==
  /\ conn' = [conn EXCEPT !.open = FALSE] /\ up' = << >> /\ down' = << >>
  /\ client' = IF client.auth
               THEN [client EXCEPT !.auth = FALSE, !.phase = "auth_pending",
                                   !.inFlight = FALSE, !.due = TRUE]
               ELSE client
  /\ session' = NoSession
  /\ UNCHANGED <<chain, unsent, alloc, row, writes>>

Drop ==
  /\ conn.open /\ Mishap({}, Allocations(up))
  /\ ClientLosesLink
  /\ UNCHANGED <<handlers, records, index, updates, effects>>

\* The server stops and starts: its memory is empty, and a write it had sent
\* lands or is lost.
Restart ==
  /\ conn.open
  /\ Mishap(IF updates # << >> \/ effects # {} THEN {"update"} ELSE {}, Allocations(up))
  /\ ClientLosesLink
  /\ handlers' = {} /\ index' = 0 /\ updates' = << >> /\ effects' = {}
  /\ records' = [r \in DOMAIN records |-> [records[r] EXCEPT !.on = FALSE]]

Post(m) ==
  IF conn.open THEN up' = Append(up, m) /\ UNCHANGED unsent
  ELSE unsent' = Append(unsent, m) /\ UNCHANGED up

(***************************************************************************)
(* The database                                                            *)
(***************************************************************************)
\* dbSaveCharacter and dbDeleteCharacter are not awaited: a write that starts
\* while another is under way may land before it.
Persist(points, faults, lost) ==
  /\ Cardinality(writes) < MaxWrites
  /\ writes' = writes \cup {points}
  /\ past' = [past EXCEPT !.faults = @ \cup faults \cup (IF writes # {} THEN {"row"} ELSE {}),
                          !.lost = lost]

WriteLands(w) ==
  /\ w \in writes
  /\ writes' = writes \ {w} /\ row' = w
  /\ UNCHANGED <<chain, past>> /\ UNCHANGED clientVars /\ UNCHANGED linkVars
  /\ UNCHANGED serverVars /\ UNCHANGED queueVars

\* The error is logged.
WriteFails(w) ==
  /\ w \in writes /\ Mishap({"row"}, 0)
  /\ writes' = writes \ {w}
  /\ UNCHANGED <<chain, row>> /\ UNCHANGED clientVars /\ UNCHANGED linkVars
  /\ UNCHANGED serverVars /\ UNCHANGED queueVars

(***************************************************************************)
(* The server: logins, restores, creation                                  *)
(***************************************************************************)
New == Len(records) + 1
CanAdd == Len(records) < MaxIds
Add(points) == records' = Append(records, [on |-> TRUE, p |-> points])

\* A record is inserted while a restore is past its own check of memory.
OverlapFault(others) == IF \E h \in others : h.stage = "items" THEN {"overlap"} ELSE {}

Received(type) == up # << >> /\ Head(up).type = type /\ up' = Tail(up)
Current(h) == conn.open /\ h.conn = conn.no
Seat(h, char) == session' = IF Current(h) THEN [session EXCEPT !.char = char] ELSE session
Answer(h, has) ==
  down' = IF Current(h) THEN Append(down, Reply(h.kind, has)) ELSE down

\* acceptAuthenticatedSession: from memory, else from the database.
HandleLogin ==
  /\ Received("login")
  /\ session' = [auth |-> TRUE, char |-> index]
  /\ handlers' = handlers \cup
       {Handler(IF index = 0 THEN "load" ELSE "hydrate", "auth_ok", index, NoPoints)}
  /\ UNCHANGED <<chain, conn, down, records, index, row, writes, past>>
  /\ UNCHANGED clientVars /\ UNCHANGED queueVars

\* restoreCharacterFromDb after its first await: no row is no character; a
\* record that appeared meanwhile is taken ...
BugRowLoaded(h) ==
  /\ h.stage = "load"
  /\ IF row = None
     THEN /\ handlers' = handlers \ {h} /\ Answer(h, FALSE)
     ELSE /\ handlers' = (handlers \ {h}) \cup {[h EXCEPT !.stage = "items", !.points = row]}
          /\ UNCHANGED down
  /\ Happens(IF writes # {} THEN {"row"} ELSE {})
  /\ UNCHANGED <<chain, conn, up, session, records, index, row, writes>>
  /\ UNCHANGED clientVars /\ UNCHANGED queueVars
RowLoaded(h) ==
  /\ h.stage = "load"
  /\ IF row = None
     THEN /\ handlers' = handlers \ {h} /\ Answer(h, FALSE) /\ UNCHANGED session
     ELSE /\ handlers' = (handlers \ {h}) \cup
               {IF index # 0 THEN [h EXCEPT !.stage = "hydrate", !.char = index]
                ELSE [h EXCEPT !.stage = "items", !.points = row]}
          /\ IF index # 0 THEN Seat(h, index) ELSE UNCHANGED session
          /\ UNCHANGED down
  /\ Happens(IF writes # {} THEN {"row"} ELSE {})
  /\ UNCHANGED <<chain, conn, up, records, index, row, writes>>
  /\ UNCHANGED clientVars /\ UNCHANGED queueVars

\* A failed read looks like no row.
RowReadFails(h) ==
  /\ h.stage = "load" /\ Mishap({}, 0)
  /\ handlers' = handlers \ {h} /\ Answer(h, FALSE)
  /\ UNCHANGED <<chain, conn, up, session, records, index, row, writes>>
  /\ UNCHANGED clientVars /\ UNCHANGED queueVars

\* Points a row does not account for are free again.
Retroactive(p) ==
  IF p.free = 0 /\ Granted(p.lvl) > p.spent
  THEN [p EXCEPT !.free = Granted(p.lvl) - p.spent] ELSE p

\* ... and after the second await, for the items, it is not checked again.
ItemsLoaded(h) ==
  /\ h.stage = "items" /\ CanAdd
  /\ Add(Retroactive(h.points)) /\ index' = New
  /\ handlers' = (handlers \ {h}) \cup {[h EXCEPT !.stage = "hydrate", !.char = New]}
  /\ Seat(h, New)
  /\ Happens(OverlapFault(handlers \ {h}))
  /\ UNCHANGED <<chain, conn, up, down, row, writes>>
  /\ UNCHANGED clientVars /\ UNCHANGED queueVars

\* The equipment was read; the client gets the character.
Hydrated(h) ==
  /\ h.stage = "hydrate"
  /\ handlers' = handlers \ {h} /\ Answer(h, TRUE)
  /\ UNCHANGED <<chain, conn, up, session, records, index, row, writes, past>>
  /\ UNCHANGED clientVars /\ UNCHANGED queueVars

\* A message that needs a login, before it: "Not authenticated".
Refuse ==
  /\ up # << >> /\ Head(up).type # "login" /\ ~session.auth
  /\ up' = Tail(up)
  /\ past' = [past EXCEPT !.lost = @ + Allocations(<<Head(up)>>)]
  /\ UNCHANGED <<chain, conn, down, row, writes>> /\ UNCHANGED clientVars
  /\ UNCHANGED serverVars /\ UNCHANGED queueVars

\* restoreCharacterFromChain: what the client read on chain, unless there is a
\* record by now.  An allocation the client has still to announce may be in
\* what it read; one that was lost is.
Announced == Allocations(up) + Allocations(unsent) > 0
HandleRestore ==
  /\ Received("restore") /\ session.auth
  /\ IF index # 0
     THEN /\ session' = [session EXCEPT !.char = index]
          /\ handlers' = handlers \cup {Handler("hydrate", "character", index, NoPoints)}
          /\ UNCHANGED <<records, index, writes, past>>
     ELSE /\ CanAdd /\ Add(Head(up).points) /\ index' = New
          /\ session' = [session EXCEPT !.char = New]
          /\ handlers' = handlers \cup {Handler("hydrate", "character", New, NoPoints)}
          /\ Persist(Head(up).points,
                     (IF alloc > 0 \/ Announced THEN {"crossed"} ELSE {})
                       \cup OverlapFault(handlers), 0)
  /\ UNCHANGED <<chain, conn, down, row>> /\ UNCHANGED clientVars /\ UNCHANGED queueVars

\* handleCreateCharacter asks the chain for the wallet's characters first ...
HandleCreate ==
  /\ Received("create") /\ session.auth
  /\ handlers' = handlers \cup {Handler("ids", "character", 0, NoPoints)}
  /\ UNCHANGED <<chain, conn, down, session, records, index, row, writes, past>>
  /\ UNCHANGED clientVars /\ UNCHANGED queueVars

\* ... and then registers a fresh record, or reports an error.
IdsFound(h) ==
  /\ h.stage = "ids"
  /\ handlers' = handlers \ {h}
  /\ IF index # 0 THEN UNCHANGED <<down, session, records, index, writes, past>>
     ELSE /\ CanAdd /\ Add(NoPoints) /\ index' = New /\ Seat(h, New)
          /\ Persist(NoPoints, OverlapFault(handlers), past.lost)
          /\ Answer(h, TRUE)
  /\ UNCHANGED <<chain, conn, up, row>> /\ UNCHANGED clientVars /\ UNCHANGED queueVars

\* delete_character forgets the server's record; the chain keeps its own.
HandleDelete ==
  /\ Received("delete") /\ session.auth
  /\ IF index = 0 THEN UNCHANGED <<down, session, records, index, writes, past>>
     ELSE /\ records' = [records EXCEPT ![index].on = FALSE] /\ index' = 0
          /\ session' = [session EXCEPT !.char = 0]
          /\ Persist(None, {"deleted"}, past.lost)
          /\ down' = Append(down, Reply("deleted", FALSE))
  /\ UNCHANGED <<chain, conn, handlers, row>> /\ UNCHANGED clientVars
  /\ UNCHANGED queueVars

(***************************************************************************)
(* Points                                                                  *)
(***************************************************************************)
Pts(char) == records[char].p

\* finishFight: the record of the session levels up, and the chain will.
FightEnds ==
  /\ past.fights < MaxFights /\ Cardinality(writes) < MaxWrites
  /\ session.char # 0 /\ records[session.char].on
  /\ LET p == [Pts(session.char) EXCEPT !.lvl = @ + 1, !.free = @ + PointsPerLevel] IN
     /\ records' = [records EXCEPT ![session.char].p = p]
     /\ writes' = writes \cup {p}
     /\ past' = [past EXCEPT !.fights = @ + 1,
                             !.faults = @ \cup (IF writes # {} THEN {"row"} ELSE {})]
  /\ updates' = Append(updates, session.char)
  /\ UNCHANGED <<chain, session, handlers, index, effects, row>> /\ UNCHANGED clientVars
  /\ UNCHANGED linkVars

\* The answer is mirrored before the queue's next task reaches the chain.
update_after_fight ==
  /\ updates # << >> /\ effects = {} /\ updates' = Tail(updates)
  /\ chain' = [chain EXCEPT !.lvl = @ + 1]
  /\ effects' = effects \cup
       {[char |-> Head(updates), lvl |-> chain'.lvl, free |-> Granted(chain'.lvl) - chain.spent]}
  /\ UNCHANGED <<row, writes, past>> /\ UNCHANGED clientVars /\ UNCHANGED linkVars
  /\ UNCHANGED serverVars

\* Three attempts fail; the player is told.
UpdateFails ==
  /\ updates # << >> /\ updates' = Tail(updates)
  /\ Mishap({"update"}, 0)
  /\ UNCHANGED <<chain, effects, row, writes>> /\ UNCHANGED clientVars
  /\ UNCHANGED linkVars /\ UNCHANGED serverVars

\* Chain truth is mirrored into the record, which is in the map again.
EffectsMirrored(e) ==
  /\ e \in effects /\ effects' = effects \ {e}
  /\ LET p == [Pts(e.char) EXCEPT !.lvl = e.lvl, !.free = e.free] IN
     /\ records' = [records EXCEPT ![e.char] = [on |-> TRUE, p |-> p]]
     /\ Persist(p, {}, past.lost)
  /\ UNCHANGED <<chain, updates, row, session, handlers, index>> /\ UNCHANGED clientVars
  /\ UNCHANGED linkVars

\* With the on-chain character loaded, the player's wallet signs
\* allocate_points for one point ...
allocate_points ==
  /\ client.has /\ client.loaded /\ alloc = 0 /\ chain.spent < Granted(chain.lvl)
  /\ chain' = [chain EXCEPT !.spent = @ + 1]
  /\ alloc' = 1
  /\ UNCHANGED <<client, unsent, row, writes, past>> /\ UNCHANGED linkVars
  /\ UNCHANGED serverVars /\ UNCHANGED queueVars

\* ... and the client, after it has read the character again, tells the server.
BugSendAllocate ==
  /\ alloc > 0
  /\ Post(Msg("allocate", NoPoints))
  /\ UNCHANGED <<chain, client, alloc, conn, down, row, writes, past>> /\ UNCHANGED serverVars
  /\ UNCHANGED queueVars
SendAllocate ==
  /\ alloc > 0 /\ alloc' = 0
  /\ Post(Msg("allocate", NoPoints))
  /\ UNCHANGED <<chain, client, conn, down, row, writes, past>> /\ UNCHANGED serverVars
  /\ UNCHANGED queueVars

\* Without it there is no transaction: the server is told at once, and does
\* not ask the chain.
SendUnsigned ==
  /\ client.has /\ ~client.loaded /\ alloc = 0 /\ Mishap({"unsigned"}, 0)
  /\ Post(Msg("allocate", NoPoints))
  /\ UNCHANGED <<chain, client, alloc, conn, down, row, writes>> /\ UNCHANGED serverVars
  /\ UNCHANGED queueVars

\* handleAllocatePoints: no record, or too few points, is an error.
BugUncheckedAllocate ==
  /\ Received("allocate") /\ session.auth
  /\ IF session.char # 0 /\ index # 0
     THEN LET p == [Pts(index) EXCEPT !.free = @ - 1, !.spent = @ + 1] IN
          /\ records' = [records EXCEPT ![index].p = p]
          /\ Persist(p, {}, past.lost)
     ELSE /\ past' = [past EXCEPT !.lost = @ + 1] /\ UNCHANGED <<records, writes>>
  /\ UNCHANGED <<chain, conn, down, row, session, handlers, index>>
  /\ UNCHANGED clientVars /\ UNCHANGED queueVars
BugHandleAllocate ==
  /\ Received("allocate") /\ session.auth
  /\ IF session.char # 0 /\ index # 0 /\ Pts(index).free > 0
     THEN LET p == [Pts(index) EXCEPT !.free = @ - 1, !.spent = @ + 1] IN
          /\ records' = [records EXCEPT ![index].p = p] /\ UNCHANGED past
     ELSE /\ past' = [past EXCEPT !.lost = @ + 1] /\ UNCHANGED records
  /\ UNCHANGED <<chain, conn, down, row, session, handlers, index, writes>>
  /\ UNCHANGED clientVars /\ UNCHANGED queueVars
HandleAllocate ==
  /\ Received("allocate") /\ session.auth
  /\ IF session.char # 0 /\ index # 0 /\ Pts(index).free > 0
     THEN LET p == [Pts(index) EXCEPT !.free = @ - 1, !.spent = @ + 1] IN
          /\ records' = [records EXCEPT ![index].p = p]
          /\ Persist(p, {}, past.lost)
     ELSE /\ past' = [past EXCEPT !.lost = @ + 1] /\ UNCHANGED <<records, writes>>
  /\ UNCHANGED <<chain, conn, down, row, session, handlers, index>>
  /\ UNCHANGED clientVars /\ UNCHANGED queueVars

(***************************************************************************)
(* The client's gate                                                       *)
(***************************************************************************)
ClientOnly ==
  /\ UNCHANGED <<alloc, conn, row, writes>> /\ UNCHANGED serverVars /\ UNCHANGED queueVars

\* auth_ok brings the character, or sends the gate to the chain.
AuthOk ==
  /\ down # << >> /\ Head(down).type = "auth_ok" /\ down' = Tail(down)
  /\ client' = [client EXCEPT !.auth = TRUE, !.has = Head(down).has, !.inFlight = FALSE,
                              !.phase = IF Head(down).has THEN @ ELSE "chain_check_pending",
                              !.due = TRUE]
  /\ UNCHANGED <<chain, unsent, up, past>> /\ ClientOnly

CharacterArrives ==
  /\ down # << >> /\ Head(down).type = "character" /\ down' = Tail(down)
  /\ client' = [client EXCEPT !.has = TRUE, !.due = @ \/ ~client.has]
  /\ UNCHANGED <<chain, unsent, up, past>> /\ ClientOnly

CharacterDeleted ==
  /\ down # << >> /\ Head(down).type = "deleted" /\ down' = Tail(down)
  /\ client' = [client EXCEPT !.has = FALSE, !.phase = "no_character", !.due = TRUE,
                              !.loaded = FALSE]
  /\ UNCHANGED <<chain, unsent, up, past>> /\ ClientOnly

\* The effect on [authenticated, character, authPhase] runs when one of them
\* changed.  Its cleanup cancels the scan its last run had started.
GateEffect ==
  LET scans == client.auth /\ ~client.has /\ ~client.inFlight
                 /\ client.phase = "chain_check_pending"
      primes == client.auth /\ ~client.has /\ client.phase = "auth_pending"
  IN
  /\ client.due
  /\ client' = [client EXCEPT !.stale = @ \/ client.scan, !.scan = scans,
                              !.inFlight = @ \/ scans, !.due = primes,
                              !.phase = IF primes THEN "chain_check_pending" ELSE @]
  /\ UNCHANGED <<chain, unsent, up, down, past>> /\ ClientOnly

\* fetchCharacterNFT answers: the character is restored from what it says, or
\* the form to create one opens.
ScanDone ==
  /\ client.scan /\ ~client.due
  /\ IF chain.registered
     THEN /\ Post(Msg("restore", [lvl |-> chain.lvl, spent |-> chain.spent,
                                  free |-> Granted(chain.lvl) - chain.spent]))
          /\ client' = [client EXCEPT !.scan = FALSE, !.inFlight = FALSE]
     ELSE /\ client' = [client EXCEPT !.scan = FALSE, !.inFlight = FALSE,
                                      !.phase = "no_character", !.due = TRUE]
          /\ UNCHANGED <<up, unsent>>
  /\ UNCHANGED <<chain, down, past>> /\ ClientOnly

\* An error of the node, or a character that is not among the newest fifty
\* CharacterCreated events, looks the same to the gate as no character.
ScanMisses ==
  /\ client.scan /\ ~client.due /\ chain.registered /\ Mishap({"scan"}, 0)
  /\ client' = [client EXCEPT !.scan = FALSE, !.inFlight = FALSE,
                              !.phase = "no_character", !.due = TRUE]
  /\ UNCHANGED <<chain, unsent, up, down>> /\ ClientOnly

\* A cancelled scan does nothing but give the in-flight mark back.
StaleScanDone ==
  /\ client.stale
  /\ client' = [client EXCEPT !.stale = FALSE, !.inFlight = FALSE]
  /\ UNCHANGED <<chain, unsent, up, down, past>> /\ ClientOnly

\* The on-chain character is read for its points and level; a read that fails
\* leaves it as it was.
SET_ONCHAIN_CHARACTER ==
  /\ client.auth /\ ~client.loaded /\ chain.registered
  /\ client' = [client EXCEPT !.loaded = TRUE]
  /\ UNCHANGED <<chain, unsent, up, down, past>> /\ ClientOnly

\* The presence check before a wager is signed got no answer in time.  The
\* phase may be "no_character", from before the character was created.
BugBEGIN_SERVER_REHYDRATE ==
  /\ client.auth /\ client.has /\ Mishap({}, 0)
  /\ client' = [client EXCEPT !.has = FALSE, !.due = TRUE]
  /\ UNCHANGED <<chain, unsent, up, down>> /\ ClientOnly
BEGIN_SERVER_REHYDRATE ==
  /\ client.auth /\ client.has /\ Mishap({}, 0)
  /\ client' = [client EXCEPT !.has = FALSE, !.phase = "chain_check_pending", !.due = TRUE]
  /\ UNCHANGED <<chain, unsent, up, down>> /\ ClientOnly

\* The form mints; the registry of the chain has one character per wallet.
create_character ==
  /\ client.phase = "no_character" /\ ~client.has /\ ~chain.registered
  /\ chain' = [chain EXCEPT !.registered = TRUE]
  /\ Post(Msg("create", NoPoints))
  /\ UNCHANGED <<client, down, past>> /\ ClientOnly

DeleteCharacter ==
  /\ client.auth /\ client.has /\ Mishap({}, 0)
  /\ Post(Msg("delete", NoPoints))
  /\ UNCHANGED <<chain, client, down>> /\ ClientOnly

Gate == \/ AuthOk \/ CharacterArrives \/ CharacterDeleted \/ GateEffect \/ ScanDone
        \/ StaleScanDone \/ create_character
HandlerStep(h) == RowLoaded(h) \/ ItemsLoaded(h) \/ Hydrated(h) \/ IdsFound(h)
ServerStep == \/ HandleLogin \/ Refuse \/ HandleRestore \/ HandleCreate \/ HandleDelete
              \/ HandleAllocate
Connects == \E token \in BOOLEAN, stale \in 0 .. Len(unsent) : Connect(token, stale)

Next ==
  \/ Connects \/ Drop \/ Restart \/ Gate \/ ScanMisses \/ BEGIN_SERVER_REHYDRATE
  \/ SET_ONCHAIN_CHARACTER \/ DeleteCharacter \/ ServerStep
  \/ \E h \in handlers : HandlerStep(h) \/ RowReadFails(h)
  \/ \E w \in writes : WriteLands(w) \/ WriteFails(w)
  \/ FightEnds \/ update_after_fight \/ UpdateFails \/ allocate_points \/ SendAllocate
  \/ SendUnsigned
  \/ \E e \in effects : EffectsMirrored(e)

Spec == Init /\ [][Next]_vars

\* The client reconnects, its effects run and its requests are answered; so are
\* the server's, and the player fills in the form.
FairSpec ==
  /\ Spec /\ WF_vars(Connects) /\ WF_vars(Gate) /\ WF_vars(ServerStep)
  /\ WF_vars(\E h \in handlers : HandlerStep(h)) /\ WF_vars(\E w \in writes : WriteLands(w))

(***************************************************************************)
(* Properties                                                              *)
(***************************************************************************)
TypeOK ==
  /\ chain \in [registered : BOOLEAN, lvl : Nat, spent : Nat]
  /\ client \in [phase : Phases, has : BOOLEAN, auth : BOOLEAN, due : BOOLEAN,
                 inFlight : BOOLEAN, scan : BOOLEAN, stale : BOOLEAN, loaded : BOOLEAN]
  /\ alloc \in {0, 1} /\ conn \in [no : Nat, open : BOOLEAN]
  /\ session \in [auth : BOOLEAN, char : 0 .. Len(records)] /\ index \in 0 .. Len(records)
  /\ \A h \in handlers : h.conn \in Nat /\ h.char \in 0 .. Len(records)
  /\ \A r \in DOMAIN records : records[r] \in [on : BOOLEAN, p : Points]
  /\ row \in Points \cup {None} /\ writes \subseteq Points \cup {None}
  /\ past.faults \subseteq Faults /\ past.lost \in Nat

\* The wallet's record is the only one in the map, and the session plays with
\* it and no other, unless a restore overlapped another one or a record was
\* deleted: fights use the session's record, everything else the wallet's.
SessionUsesTheRecord ==
  past.faults \cap {"overlap", "deleted"} = {} =>
    /\ \A r \in DOMAIN records : records[r].on <=> r = index
    /\ session.char # 0 => session.char = index

\* The server never counts a point as spent that the chain has not seen spent,
\* unless a restore read the chain between an allocation and its announcement,
\* or the client announced one it had not signed.
SpentOnceAtMost ==
  past.faults \cap {"crossed", "unsigned"} = {} =>
    \A r \in DOMAIN records : records[r].p.spent <= chain.spent

\* When nothing is under way, the record and the chain agree on the level, and
\* each announcement the server did not get or refused is one point it misses,
\* until a restore from the chain: nothing else makes up for it, or loses one.
AgreesWhenQuiet ==
  /\ past.faults = {} /\ index # 0
  /\ updates = << >> /\ effects = {} /\ alloc = 0 /\ ~Announced
  => Pts(index).lvl = chain.lvl /\ Pts(index).spent + past.lost = chain.spent

\* Whoever has a character on chain gets past the gate, whatever connections
\* drop and whenever the server restarts.  What can be in the way is the form,
\* which the chain then refuses: after a scan that missed the character, or a
\* deletion on the server.
GateOpens ==
  []<>(\/ client.has \/ ~chain.registered
       \/ client.phase = "no_character" /\ past.faults \cap {"scan", "deleted"} # {})
=============================================================================
