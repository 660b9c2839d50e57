# SUI Combats: specifications, model checking and proofs

SUI Combats is a player-versus-player game. A Move package (`contracts/`) holds characters, equipment
and the stakes of wager fights; a Node.js server (`server/`) runs lobby, matchmaking and fights over
WebSockets and is the *treasury*: the one address that may settle or cancel wagers and update
characters; a web client (`frontend/`) signs the players' own transactions. What can go wrong lies
between these parts: a stake is in escrow while the server decides, waits for the chain, crashes or
is told the same thing twice. This directory specifies those parts in TLA+.

## The system

| Part | State | Operations | Talks to | Module |
|---|---|---|---|---|
| Wager contract (`arena.move`) | `WagerMatch` objects with two escrows, `OpenWagerRegistry` | create, request, approve, decline, withdraw, settle, tie, cancel, reclaim, expire | clock, characters; called by players, treasury, anyone | `Arena`, `StakeVault`, `MCArena`, `ArenaProofs` |
| Fight room (`fight-room.ts`, `fight-pause.ts`, `reconnect-grace.ts`) | `activeFights`, turn timer, pause, forfeit budgets, `currentFightId` of sessions | create, act, resolve, pause, resume, forfeit, finish | sockets, timers, settlement | `FightRoom`, `FightRoomProofs` |
| Settlement (`sui-settle.ts`, end of `finishFight`, `orphan-wager-recovery.ts`) | treasury queue, retries, `wager_in_flight` rows, cached characters | settle, tie bundle, update, lock, cancel, sweep at boot | contract, database, players | `Settlement`, `SettlementProofs` |
| Lobby and queue (`handler.ts`, `wager-accept-gate.ts`, `busy-state.ts`, `matchmaking.ts`, `lobby-rehydration.ts`) | `wagerLobby`, queue, handlers waiting for the chain | queue, list, handshake, accept, cancel, sweep, rehydrate | clients, contract, fight room, treasury queue | `Admission`, `MCAdmission`, `AdmissionProofs` |
| Equipment (`equipment.move`, fight lock of `character.move`, `sui-read.ts`, client's `loadout-tx.ts`) | slots, wallet, lock, the server's copy, staged and committed gear | equip, unequip, stage, save, read slot by slot, lock | chain, server, client, fights | `Loadout`, `MCLoadout`, `LoadoutProofs` |
| Character record (`character.move`, `characters.ts`, `db.ts`, `game-provider.tsx`) | level and points on chain, in memory, in the database; the client's gate | login, restore, create, delete, fight, allocate, mirror | chain, server, database, client | `CharacterRecord`, `CharacterRecordProofs` |
| Tavern (`presence.ts`, `fight-requests.ts`, `tavern-handlers.ts`) | presence, challenges, rows, sessions | enter, heartbeat, challenge, accept, refuse, expire, rehydrate | sockets, database, fight room | `Tavern`, `TavernProofs` |
| Market (`marketplace.move`, `royalty_rule.move`, `data/marketplace.ts`, the market page) | kiosks, listings, events, index, cursor, page | list, delist, buy, withdraw, cold sync, gap fill, stream, broadcast | chain, server, client | `Market`, `MarketProofs` |
| Direct messages, chat | channels, message order | send, read | sockets, database | not modelled |
| Combat, Elo, loot | none (formulas) | - | fight room | abstracted |
| HTTP API, readers, user interface, scripts | none of authority | - | - | not modelled |

The hard behaviours: three kinds of caller in any order on the contract; timers, sockets and logins in
any order around a fight; handlers that read, wait for the chain and act on what they read; treasury
transactions whose answers get lost; copies of one character in four places; an event index that loses
its stream; a crash anywhere. The correctness properties of each part are under its module below;
`PROJECT.json` lists the hazards at their lines.

## Modules

**`Arena`** translates every state-changing entry function of `arena.move`, one action each; `sender`
is a parameter where the code asks for it. A wager is a record with the fields of `WagerMatch`; the two
`Balance`s are `escrow` and `challenger_escrow`; the registry is a function from wallets to the open
wager they created. The fee is computed in u64 and aborts at `U64_MAX`. The branches several
entry functions share (refund of the creator, of the challenger, splitting of a merged escrow) are
operators of their own. From `character.move` it has what the arena reads: level and fight lock.

**`StakeVault`** is the abstract contract: a stake leaves a purse once, then comes back whole or is
awarded, less the fee, in a fight both paid for. `Arena!ImplementsVault` maps `held[w][p]` to what the
wager owes `p` in its status and `done` to the settled wagers.

**`FightRoom`** is one fight. Node runs one callback at a time, so a callback, or the part of an async
function between two awaits, is one action. `setTimeout` is a countdown; `Tick` moves all of them and
time stands still while one is due, so due callbacks, messages and socket events come in every order.
Timers whose handle was overwritten are kept in `strayTimers`: nobody can clear them any more. Combat
is one bit per turn: it ends the fight or not. `seen` and `away` are history: `away` measures absence,
`seen` records the four events the handlers do not expect (a drop before the fight exists, a login that
completes after its socket closed, a login that replaces a live session, a resumption between two
turns). Properties with an exception name the event; the violation runs show what the event does.

**`Settlement`** is what fights do on chain: the one treasury queue, `withRetry`, the tasks that
`createFight` and `finishFight` enqueue in their order, the continuations of the answers, database rows
and the boot sweep. An attempt can land with its answer lost, or get none: no request has a
timeout, and `data/marketplace.ts` (lines 64-70) switches those of the server's `fetch` off, so a request
accepted and never answered holds the queue until the process dies (`AttemptStalls`, `Stalled`). One pair of players fights a sequence of
fights, of which a second can start before the first is settled. A rating is the set of fights it
reflects, a record the number of times each fight was counted. Fight locks do not expire, and both
character records stay in memory.

**`Admission`** is how fights come about. A player's transaction changes `chain` and posts a message;
messages are handled in any order, or lost. A handler that asks the chain is an element of `handlers`
with what it keeps over its awaits: the lobby entry, the caller's own wager, queue membership, then the
answer. `GetWagerStatus` fixes the answer, and the continuation runs later. `HandshakeEnds` writes
the kept entry back, as the code does. `rooms.starting` holds fights whose `createFight` is still
waiting. A crash empties the memory; `boot` is what the two boot passes have yet to read. The
insertion of the recovery row is not awaited and its error only logged, so `Proceed` may leave no row. `past`
is history: wagers the code gave up, wagers whose row was not written (`unwritten`), and whether a seat was
taken from a fight that goes on.
Arena's escrow, FightRoom's turns and Settlement's queue appear as one step each: `chain` holds a
wager's status and challenger, a fight goes from started to finished, and an `admin_cancel_wager` task
lands or fails.

**`Loadout`** follows the gear of one character through its four copies. A save is the one transaction
`buildSaveLoadoutTx` builds: all unequips, then all equips in slot order, under the contract's checks,
and nothing happens if one aborts. The picker offers what `owned` lists, the client's copy of the wallet,
which is fetched again a second after a save if that fetch succeeds (`FetchOwnedItems`); until then it lists
what the save has equipped. The server reads the slots one after another, so a read is no
snapshot. The lock of a fight is a task of the treasury queue, which runs some time after the fight
began. `used.failed` and `used.others` count the failures and the steps of a second client that a
property excepts, `used.stale` that an item was staged which the wallet did not hold; `fight.raced` remembers
gear that changed before the lock had landed. Items that only the server's inventory has are left out.

**`CharacterRecord`** is one player's record on chain, in the server's memory (every record ever made
is kept in `records`, since a session or a queued update may still hold one that was deleted) and in the
database, with the connection and the gate of the client. A login that awaits the database is a
`handlers` element. Points: a fight raises the level in memory at once, on chain by a queued task, whose
answer is mirrored; an allocation lands on chain first and is announced by a message, unless the client has
not loaded the on-chain character: then it is announced with no transaction (`SendUnsigned`), and the server
does not ask the chain. A scan of the chain that fails, or misses a character that is not among the newest
fifty, opens the form (`ScanMisses`): the retry screen is never reached. `past.lost` counts the announcements
the server did not get or refused since the last restore. `past.faults` names what happened that the code has
no answer to: a row overtaken or lost, an allocation crossed by a restore, one that was not signed, a missed
scan, a failed update, overlapping restores, a deletion.

**`Tavern`** is presence and challenges. A login is `Login` and, after its await, `SessionReady`, or
`ClosedSessionReady` if its socket is gone by then. The database is `rows`, upserts on their way are
`writes`; a restart empties everything else and `boot` is what rehydration has still to read or do. A rehydration that fails
leaves the open rows in the database, and a later restart brings them back beside newer ones: the limits on open
challenges then do not hold (the flag `boot`).

**`Market`** is the chain's market with its events (`log`), the index the server builds from them and a
page that shows it. A signed transaction (`tx`) runs later, or fails. The index is a small machine:
cold sync, gap fill from `cursor`, an open stream, waiting for the next attempt, dead. A page of events
is handled event by event; the listing's item is fetched, which may fail (`past.lost`). What a page shows is a fold of the
reducer over the messages on their way; `Without`, the reducer's filter, is a fold too, so that both can be reasoned about.

Operators named `Bug...` are definitions with a plausible mistake; no definition uses them. Each names a
mistake that one of the properties catches.

## Runs

`tlc -config <name>.cfg <module>`; module, properties and a sentence for each are in `PROJECT.json`.

| Run | What it shows | Bounds and why they are enough |
|---|---|---|
| `arena_safety` | type, funding, registry, conservation, only a fight costs money, refinement of `StakeVault` | Treasury and two players (all three can also create and challenge), two wagers, purses of two stakes: every pair of roles and two wagers of one wallet occur; time 0..2 passes every timeout. |
| `arena_liveness` | `EveryWagerUnwinds`: with only the clock and calls open to anyone, every open wager settles | One wager; two stakes (one overflows the fee computation), three levels, locks: everything that could disable a call. `LastCommit` ends new commitments while `MaxTime` leaves time for the timeouts. |
| `fight_room` | five properties of timers, seats, absence and results, conjunctions of named parts | Two results: the gap between turns, a pause in either turn and a forfeit at any moment occur; the budget of two ticks can be spent in two absences; one login under way per wallet. |
| `fight_progress` | `FightAdvances` | As above with unit timers. |
| `settlement` | five properties of stakes, rows, locks, records, ratings and answers, conjunctions of named parts | Two fights, so updates overlap; two attempts, so an answer can be lost and the retry refused; one crash at any point; one needless failure or unanswered request. |
| `admission` | types, approval before fight, one fight per wager, an owner for every ACTIVE wager | Two wallets, one wager, two messages or handlers under way, two challenges, one casual fight, a row that is written or not, one mishap (a crash, a replaced session, or a repeated or early accept). Two in flight is what a race of an accept with a handshake, sweep, cancel or second accept takes. Own wagers *other than* the target need two wagers, a size out of reach. |
| `loadout` | no item lost, copied or worn illegally; an honest save lands; the lock guards the fight | A one-handed and a two-handed weapon and a shield, the two slots with a rule between them; a swap takes two edits; two saves, so the list of owned items can be older than the last one; two fights, so a release can meet the next lock; one mishap (a step of a second client, a login, a failed read or task): what takes two of them is left to the proofs, which hold for every bound. |
| `character_record` | session and record agree, no point counted twice, records agree when quiet, the gate opens | Three records, so one can be forgotten and replaced twice; two writes under way, so they can be reordered; one fight; two mishaps, of which one can be an allocation without a transaction or a missed scan. |
| `tavern` | who is shown fighting, no seat outlives its fight, challenges keep their state machine over restarts, nothing lingers | Two wallets, two challenges, so that two fights of one pair overlap; two writes under way, one mishap (closed socket, silent session, restart, failed write or fight). |
| `market` | events tell the market, a fill repairs the index, the page follows the index, the index is followed | One item traded between two wallets at two prices, four events in pages of two, two mishaps: list, delist, list at another price around a lost stream occurs. |

Two runs end in a counterexample. Each states what the repository says of itself and shows that the code does
otherwise:

- `fight_double_result`: dropping out and back in during the 1.5 s between two turns resolves the finished
  turn a second time.
- `admission_wrong_opponent`: the opponent comes from the lobby entry, and a late message of a declined
  challenger changes it. The fight is then played by a wallet without a stake.

Other properties hold up to exceptions, and each exception is a behaviour of the code: challengers are never
registered (`RegistryMatchesOpenWagers` speaks of creators); a login that replaces a live session loses the
seat (`AbsenceIsFair`); ratings overlap when a fight ends while the previous one is being settled
(`ResultsCount`); a request that is never answered holds the treasury queue and its players are told nothing
(`SettlementAnswers`); a recovery row that could not be written leaves an ACTIVE wager whose fight does not
start to the contract's own timeouts (`ActiveIsOwned`); an item staged off an old list makes a save that the
chain refuses (`HonestSaveLands`); an allocation without a transaction counts points the chain never saw
(`SpentOnceAtMost`, `AgreesWhenQuiet`); a scan that missed the character ends at a form the chain refuses
(`GateOpens`); a restore that overlaps another leaves a session on a forgotten record
(`SessionUsesTheRecord`); a login that outlives its socket leaves a ghost until the sweep (`ShownAsFighting`);
a cold sync that fails is never tried again (`IndexIsFollowed`). The exceptions are flags of `seen`, `used` and `past`.

What the code does not keep, no property claims: one fight at a time for a wallet. A fight that is being
created, and one whose player's session has no seat, are not seen by the gates (`handler.ts` lines 141 and
1823), so fights of one player can overlap, although the comment at `handler.ts:1079` says that one fight at a
time holds. `SeatsAreLive` is what must be true even so.

Two comments of the client are contradicted by its code, which the model follows. `game-provider.tsx` (lines
699-701) and `auth-phase.ts` (lines 14-16) say that RPC failures surface a retry instead of falling through to the
form; but `fetchCharacterNFT` (`sui-contracts.ts:195-198`) answers every error with null, which the gate takes for
a wallet without a character. The chain's registry then refuses the second one. And `stat-allocate-modal.tsx`
(lines 100-104) says that the server reconciles its record when an announcement is refused; but a login and
`get_character` read the equipment again, never the points. `AgreesWhenQuiet` says by how many points the record is
behind.

The runs set `CHECK_DEADLOCK FALSE` because these systems really may stop:
the fight is over, or every wager is settled and the bounds are used up.

### Fairness

`Arena!TrustlessSpec`: the clock advances, and for each wager somebody eventually makes a call open to anyone
that stays possible; players and treasury owe nothing. `FightRoom!FairSpec`: Node runs due callbacks (weak
fairness of each timer) and time passes (strong fairness of `Tick`, since messages can keep interrupting it by
making something due, but cannot stop it); players and sockets owe nothing. `Settlement!FairSpec`: the queue
sends the request of its first task, which then succeeds, fails or stays unanswered for ever; that calls end is
not assumed. No liveness is claimed for `Admission` and `Loadout`: whether a message is sent or a save
signed is up to the players. `CharacterRecord!FairSpec`: the client reconnects, its effects run, requests are
answered. `Tavern!FairSpec`: the sweeps are intervals, the database answers. `Market!FairSpec`: the index's own
steps, its timer and the answers to a page; nobody has to trade. That the node answers a query and goes on
streaming is assumed here: since no timeout is set (`data/marketplace.ts:64-70`), a query or a stream that falls
silent without an error is outside `IndexIsFollowed`, and the index then stands still until the server is
restarted. Failures are bounded everywhere and never owed.

## Proofs

Eight modules of proofs, each about the module its name begins with, for all sets of wallets, wagers, items, players and
fights and for every value of the bounds. Every safety invariant and action property that a run checks is a theorem, and so is
the refinement of `StakeVault`; what is left to TLC is liveness. Each module proves `Spec => []TypeOK` (`TypeCorrect`), types
being inductive alone, strengthened, or together with the first invariant named, and:

| Module | Theorems | Inductive invariant, and what it adds to the property |
|---|---|---|
| `ArenaProofs` | `EscrowCorrect`, `RegistryCorrect`, `Refinement` | `IInv`: types, funding, registry. The registry is not inductive without funding: a step that frees the creator's slot must know that the object names a creator who is a wallet and that this wallet's slot is this wager. |
| | `CoinsStay`, `OnlyFightsCost` | No more than `IInv`, but sums: of all coins, and of what a wallet owns and can claim. Each of the eleven effects changes at most two purses and two wagers, and the sums by nothing. |
| `FightRoomProofs` | `EveryFightIsDriven`, `TurnsStayInOrder`, `AbsenceStaysFair`, `ForfeitsAreEarned` | `FightInv`: a fresh fight has no timers, a pause has an absentee, each absentee a forfeit timer. `OrderInv`: an active fight is either in a turn or between two, one clock in each case. `AbsenceInv`, per wallet: measured absence plus what is left of the grace never exceeds the budget. |
| `SettlementProofs` | `StakesTracked`, `DrawsCountOnce` | `SettleInv`: for each fight, what its stage, its task, its row and its wager may be together (a settle task in the queue means a fight that is over and not told; a row is dropped only by the answer that closed the wager or by the sweep), and a server that is down has nothing queued. `RecordInv` adds that a draw is counted exactly with its tie. |
| | `AccountsAgree`, `ResultsComplete` | `AgreeInv`: fights follow one another (`InOrder`) and, as long as the server runs, `Accounts`: a counting task is in the queue at most once, and what the chain and the memory have counted of a fight is told by whether its task is outstanding, lost its answer or was given up (`Counted`); the last task of a player's lock leaves it as the fights say (`Locks`); memory and queue have the rating that is due unless fights overlapped (`RatingsDue`), and the chain follows (`RatingsMirrored`). |
| `AdmissionProofs` | `BothStakesAreWatched`, `FightsHaveATitle` | `AdmissionInv`: what a message, a handler and a fight may count on. A handler that read ACTIVE knows for ever that the creator approved, since the status only goes on; an open wager that was listed once is in hand or was given up, which holds before it is ACTIVE too: the approval itself finds it there. `UniqueInv`: at most one accept of a wager from its message to the creation of its fight, and none while that runs, as its creator then has a seat. |
| `LoadoutProofs` | `GearStaysSound`, `LockIsOfTheFight` | For the lock, `LockInv`: queued tasks belong to fights that began, a lock that is held is on chain, the gear of a locked fight is the gear it began with, and a fight's release is the last of its tasks. |
| | `SavesAreHonest` | `SaveInv`: while nobody else changed the character, a staged loadout whose committed one is what the chain holds *fits* it (every change is of an item in the wallet that the slot accepts, none in two slots, no shield beside a two-handed weapon), unless something was staged off an old list, and so does the goal of a save built on it. Of a stale or torn committed loadout it says nothing: the client drops what was staged when a message changes it, and without that reset this is not inductive. |
| `CharacterRecordProofs` | `SessionPlaysItsRecord` | `OneRecord`: while nothing unexpected happened, the map, the session, the queued updates and their answers name the same record, and no login restores a second one. |
| | `PointsSpentOnce` | `Counted`: any number of spent points that is written anywhere (record, row, write, login that read a row), *plus* the announcements still on their way, is at most what the chain has seen spent; so are the announcements on their way and those lost together (`Bill`). |
| | `ChainAndRecordAgree` | `Agrees`: before registration there is nothing anywhere (`Fresh`); while the server has no record no client has or is given the character, so no point is spent and a restore on its way says what the chain says (`Gated`, `Kinds`, `Told`); record and row, once their writes landed, have the chain's points less the `Bill`, and its level when no update is queued (`Kept`). |
| `TavernProofs` | `ShownWhileFighting`, `NoSeatOutlivesItsFight`, `ChallengesStaySound` | `SeatInv`: a seat and a grace period are of a running fight of their player, and only a session that is ready has entered a room; presence then agrees with the seats. `ChallengeInv`: a row is what memory says or a write under way will make it so, what boot has yet to restore was never touched since, and the limits count the challenges that are open or will be once boot is done. |
| `MarketProofs` | `EventsTell` | `ChainInv`: the last word of the log on an item is what the kiosks offer, and an item is listed only when the events before say it is not for sale. `MoneyInv`: fees, royalties and the sum of all coins, against the number of events of each kind. |
| | `FillsRepair` | `IndexInv`: what the index holds of an item, unless its fetch failed, is what the events said of it at *some* moment between `Base` and `Top`. `Base` is what the current reading has handled, or else the cursor; `Top` is the end of the log, until a reading has its last page, which narrows it to the end of that page. A stream does not move `Base`, so the index may be ahead of the cursor or, after a lost stream, behind the log; a fill does, and when it is done both are the cursor. Handling an event twice is harmless because a listing of an item that is in the index is ignored and the log never lists an item twice in a row (`ChainInv`). |
| | `PagesFollow` | `PageInv`: what a subscribed page will show after the messages on their way is the index, without repetition. Each broadcast appends to the fold what the index took in; an `item_listed` is only sent for an item that was not in it. |

How the proofs go: the actions are first reduced to their effects on the variables, since many of them differ in who calls
and not in what changes (`StepCases` in `ArenaProofs`, `Signed`, `TreasuryKeeps` and `Quiet` in `AdmissionProofs`, `ListCoins`
and its neighbours in `MarketProofs`); then each effect is shown to keep each part of the invariant, with frame lemmas for the
wagers, wallets and fights it leaves alone. `Refinement` maps each effect to `Deposit`, `GiveBack`, `Award` or a stutter.
`AdmissionProofs` needs a pigeonhole argument for the number of a new fight, `TavernProofs` and `OneFightPerWager` count with
the theorems on finite sets.

Sums and folds are recursive functions, and what they compute is proved by induction over *sets* of arguments, which needs no
operator as a parameter: every set of subsets of a finite set that contains a subset whenever it contains all smaller ones
contains them all (`SubsetInduction`, from the well-foundedness of inclusion), and the same for the naturals
(`NatSetInduction`). From these: a sum does not depend on the order of its terms, changes with a term by what the term changes,
and multiplies equal terms (`TotalRemove`, `TotalChange`, `TotalConst`; `SummingRemove`, `SumChange`, `SumConst`), and a fold
over a sequence with one element more is one step more (`PrefixesRun`, `RunsAgree`, `ShownAppend`, `ShownTail`). The folds of
the community modules are unfolded to the recursive functions they are, so the theorems speak of `SumFunction` and `FoldLeft`
themselves.

Assumptions: those named in the modules. Constants that bound something are naturals; `None` and `Absent` are no wallet,
wager or fight, and in `Market` `None` is neither a price nor an entry of the index; stakes and timeouts are positive; in
`Settlement` the two players, `None` and `Draw` differ from each other and from the status words they share a variable with.
`CoinsStay` and
`EventsTell` take the set of wallets to be finite, `CoinsStay` and `OnlyFightsCost` that of wagers, since they are about sums
over them.

Only model-checked:

- all liveness, since fairness and ENABLED are out of the prover's reach: `EveryWagerUnwinds`, `FightAdvances`,
  `SettlementAnswers`, `GateOpens`, `NothingLingers`, `IndexIsFollowed`;
- the two counterexamples, which are runs by nature.

No module that is proved about declares a RECURSIVE operator.

## Not modelled, and why

- Combat formulas, Elo numbers and loot: floating point and randomness; a turn ends the fight or not, a rating is a set.
- Fights against the bot in `Admission` (they are in `FightRoom`), spectators, replay of missed outcomes, wording of messages.
- Direct messages and chat: an encrypted text and its order on one socket; they change nothing a fight or a stake depends on.
- The accept of a challenger under the previous contract version; the admin endpoints of `index.ts`, which call operations
  that are modelled by hand.
- A full node that answers from an older state than the transaction the client waited for.
- Wallet authentication and token expiry: a login succeeds.
- A request of the web client that is never answered: what it waits for fails or arrives.
- The contract's balance and table libraries, the Sui clock and Node's timers are taken as they behave in use.
