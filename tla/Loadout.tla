------------------------------ MODULE Loadout ------------------------------
(***************************************************************************)
(* The equipment of one character, in the four places that hold it: the    *)
(* dynamic object fields of the on-chain Character (contracts/sources/     *)
(* equipment.move, under the fight lock of character.move), the server's   *)
(* record (utils/sui-read.ts, the login and create-fight paths), the gear  *)
(* a fight is fought with (ws/fight-room.ts), and the client's committed   *)
(* and staged loadout (frontend lib/loadout-tx.ts, hooks/                  *)
(* useEquipmentActions.ts, hooks/useGameStore.ts).                         *)
(*                                                                         *)
(* The server reads the chain slot by slot while transactions land; the    *)
(* lock of a fight is a treasury task that runs after the fight began; the *)
(* server's answers reach the client late.                                 *)
(*                                                                         *)
(* Left out: items that exist only on the server (drops of the game's      *)
(* first version), items in a kiosk, items above the character's level     *)
(* (levels never fall), and fights against the bot, which read no chain    *)
(* and take no lock.                                                       *)
(***************************************************************************)
EXTENDS Naturals, FiniteSets, Sequences

CONSTANTS
  OneHanded, TwoHanded, Shields, Others,   \* items, by kind
  OtherSlots,                   \* helmet, ring_1, ...: slots without a cross-slot rule
  SlotOf,                       \* the slots an item of Others fits
  Empty,                        \* no item
  FIGHT_LOCK_DURATION_MS,
  MaxTime,                      \* bound: the clock
  StartGears,                   \* bound: what the character wears at first
  MaxEdits, MaxSaves,           \* bounds: staged changes, saves
  MaxFights,                    \* bound: fights
  MaxMishaps                    \* bound: equips and unequips of another client, logins,
                                \* get_character requests, failed reads and failed
                                \* treasury tasks, together

Items == OneHanded \cup TwoHanded \cup Shields \cup Others
Weapons == OneHanded \cup TwoHanded
Slots == {"weapon", "offhand"} \cup OtherSlots
Gear == [Slots -> Items \cup {Empty}]
Naked == [s \in Slots |-> Empty]

ASSUME LoadoutAssumption ==
  /\ OneHanded \cap TwoHanded = {} /\ Weapons \cap (Shields \cup Others) = {}
  /\ Shields \cap Others = {} /\ Empty \notin Items
  /\ {"weapon", "offhand"} \cap OtherSlots = {}
  /\ SlotOf \in [Others -> SUBSET OtherSlots]
  /\ StartGears \subseteq Gear
  /\ FIGHT_LOCK_DURATION_MS \in Nat /\ MaxTime \in Nat
  /\ MaxEdits \in Nat /\ MaxSaves \in Nat /\ MaxFights \in Nat /\ MaxMishaps \in Nat

VARIABLES
  slots,        \* the character's dynamic object fields
  wallet,       \* items the player's address owns
  lock,         \* fight_lock_expires_at; 0 is no lock
  now,          \* the chain's clock
  server,       \* character.equipment of the server's record
  read,         \* reads of the chain under way: by a login, by createFight
  fight,        \* the character's fight, and the gear its stats were derived from
  tasks,        \* set_fight_lock transactions in the treasury queue
  committed, pending,   \* the client's committedEquipment, pendingEquipment
  owned,        \* the client's onChainItems: the wallet, when last fetched
  save,         \* the save the client signs
  inbox,        \* the server's messages that carry the record, on their way
  used          \* counters of the bounds, and (history) of failures and of the
                \* other client's steps; whether an item was staged that the
                \* wallet did not hold, off an old list

chainVars == <<slots, wallet, lock, now>>
serverVars == <<server, read, fight, tasks>>
clientVars == <<committed, pending, owned, save, inbox>>
vars == <<slots, wallet, lock, now, server, read, fight, tasks,
          committed, pending, owned, save, inbox, used>>

Readers == {"login", "fight"}
Spend(what, bound) == used[what] < bound /\ used' = [used EXCEPT ![what] = @ + 1]
Mishap(failed, others) ==
  /\ used.mishaps < MaxMishaps
  /\ used' = [used EXCEPT !.mishaps = @ + 1, !.failed = @ \/ failed, !.others = @ \/ others]

(***************************************************************************)
(* equipment.move: what the chain accepts                                  *)
(***************************************************************************)
Accepts(s, i) ==
  CASE s = "weapon"  -> i \in Weapons
    [] s = "offhand" -> i \in OneHanded \cup Shields
    [] OTHER         -> i \in Others /\ s \in SlotOf[i]

\* is_fight_locked: a lock is over at its expiry.
Locked == lock > now

\* (Operators named Bug... are the definition that follows them with a
\* plausible mistake in it; no definition uses one.)

\* equip_offhand does not look at the weapon.
BugCanEquip(gear, s, i) ==
  /\ Accepts(s, i) /\ gear[s] = Empty
  /\ s = "weapon" /\ i \in TwoHanded => gear["offhand"] = Empty

\* The checks of equip_<slot> on a character that wears gear.
CanEquip(gear, s, i) ==
  /\ Accepts(s, i) /\ gear[s] = Empty
  /\ s = "weapon" /\ i \in TwoHanded => gear["offhand"] = Empty
  /\ s = "offhand" => gear["weapon"] \notin TwoHanded

Worn(gear) == {gear[s] : s \in Slots} \ {Empty}
Legal(gear) ==
  /\ \A s \in Slots : gear[s] # Empty => Accepts(s, gear[s])
  /\ \A s, t \in Slots : s # t /\ gear[s] # Empty => gear[s] # gear[t]
  /\ gear["weapon"] \in TwoHanded => gear["offhand"] = Empty

NoFight == [on |-> FALSE, gear |-> Naked, held |-> FALSE, expiry |-> 0, raced |-> FALSE]
NoSave == [st |-> "none", base |-> Naked, goal |-> Naked]

\* The player is logged in; the last save may have been too recent for the
\* list of owned items to have been fetched again.
Init ==
  /\ lock = 0 /\ now = 0
  /\ slots \in {g \in StartGears : Legal(g)}
  /\ wallet = Items \ Worn(slots)
  /\ server = slots /\ committed = slots /\ pending = slots
  /\ owned \in {wallet, wallet \cup Worn(slots)}
  /\ read = [r \in Readers |-> [on |-> FALSE, todo |-> {}, got |-> Naked]]
  /\ fight = NoFight
  /\ tasks = << >> /\ inbox = << >>
  /\ save = NoSave
  /\ used = [edits |-> 0, saves |-> 0, fights |-> 0, mishaps |-> 0, failed |-> FALSE,
             others |-> FALSE, stale |-> FALSE]

\* The time that is left is sent, where the contract takes the expiry.
BugLockTask(expiry, n) == [expiry |-> expiry - now, of |-> n]

\* A treasury task, with the fight it belongs to (history).
LockTask(expiry, n) == [expiry |-> expiry, of |-> n]

\* History: the chain's gear is not what the fight read, and the fight's lock
\* had not landed yet when it changed.
Races(gear) ==
  fight' = [fight EXCEPT !.raced = @ \/ (fight.on /\ ~fight.held /\ gear # fight.gear)]

ChainOnly == UNCHANGED <<lock, now, server, read, tasks>>

\* Another client of the player, or its other tab, calls one primitive.
equip(s, i) ==
  /\ Mishap(FALSE, TRUE)
  /\ ~Locked /\ i \in wallet /\ CanEquip(slots, s, i)
  /\ slots' = [slots EXCEPT ![s] = i] /\ wallet' = wallet \ {i}
  /\ Races(slots') /\ ChainOnly /\ UNCHANGED clientVars

unequip(s) ==
  /\ Mishap(FALSE, TRUE)
  /\ ~Locked /\ slots[s] # Empty
  /\ slots' = [slots EXCEPT ![s] = Empty] /\ wallet' = wallet \cup {slots[s]}
  /\ Races(slots') /\ ChainOnly /\ UNCHANGED clientVars

Tick ==
  /\ now < MaxTime /\ now' = now + 1
  /\ UNCHANGED <<slots, wallet, lock, used>> /\ UNCHANGED serverVars
  /\ UNCHANGED clientVars

(***************************************************************************)
(* The client's staged loadout                                             *)
(***************************************************************************)
\* The list of owned items is fetched again a second after a save, and on
\* other occasions; one that fails, or comes late, leaves the old list.
FetchOwnedItems ==
  /\ owned # wallet /\ owned' = wallet
  /\ UNCHANGED <<committed, pending, save, inbox, used>> /\ UNCHANGED chainVars
  /\ UNCHANGED serverVars

\* The picker offers what the list holds and pending does not: an item just
\* equipped, too, if the list is old and the item is no longer in pending.
Offered == owned \ Worn(pending)

\* Staging a two-handed weapon clears the offhand, and the offhand waits for
\* its end.
StageEquip(s, i) ==
  /\ used.edits < MaxEdits
  /\ i \in Offered /\ Accepts(s, i)
  /\ s = "offhand" => pending["weapon"] \notin TwoHanded
  /\ pending' = IF s = "weapon" /\ i \in TwoHanded
                THEN [pending EXCEPT ![s] = i, !["offhand"] = Empty]
                ELSE [pending EXCEPT ![s] = i]
  /\ used' = [used EXCEPT !.edits = @ + 1, !.stale = @ \/ i \notin wallet]
  /\ UNCHANGED <<committed, owned, save, inbox>> /\ UNCHANGED chainVars
  /\ UNCHANGED serverVars

StageUnequip(s) ==
  /\ pending[s] # Empty /\ Spend("edits", MaxEdits)
  /\ pending' = [pending EXCEPT ![s] = Empty]
  /\ UNCHANGED <<committed, owned, save, inbox>> /\ UNCHANGED chainVars
  /\ UNCHANGED serverVars

StageDiscard ==
  /\ pending # committed /\ pending' = committed /\ Spend("edits", MaxEdits)
  /\ UNCHANGED <<committed, owned, save, inbox>> /\ UNCHANGED chainVars
  /\ UNCHANGED serverVars

\* Step 1 of buildSaveLoadoutTx: a two-handed weapon keeps no offhand.
Reconciled(gear) ==
  IF gear["weapon"] \in TwoHanded THEN [gear EXCEPT !["offhand"] = Empty] ELSE gear

Dirty(base, goal) == {s \in Slots : base[s] # goal[s]}

\* Save is pressed outside a fight: the transaction is built from what the
\* client holds now, and the wallet asks the player to sign it.
saveLoadout ==
  /\ save.st = "none" /\ ~fight.on /\ committed # pending
  /\ Dirty(committed, Reconciled(pending)) # {}
  /\ Spend("saves", MaxSaves)
  /\ save' = [st |-> "signing", base |-> committed, goal |-> Reconciled(pending)]
  /\ UNCHANGED <<committed, pending, owned, inbox>> /\ UNCHANGED chainVars
  /\ UNCHANGED serverVars

(***************************************************************************)
(* The transaction: every unequip, then every equip in slot order, where   *)
(* the weapon comes first; one command that aborts undoes them all.  Items *)
(* to equip are inputs, so the wallet owns them before it starts.          *)
(***************************************************************************)
Out(p) == {s \in Dirty(p.base, p.goal) : p.base[s] # Empty}
In(p) == {s \in Dirty(p.base, p.goal) : p.goal[s] # Empty}
Freed(p) == [s \in Slots |-> IF s \in Out(p) THEN Empty ELSE slots[s]]
Loaded(p) == [s \in Slots |-> IF s \in In(p) THEN p.goal[s] ELSE Freed(p)[s]]

\* Each slot's unequip directly before its equip.
BugBeforeEquip(p, s) ==
  IF s = "weapon" THEN [slots EXCEPT !["weapon"] = Freed(p)["weapon"]]
  ELSE [Freed(p) EXCEPT !["weapon"] = Loaded(p)["weapon"]]

\* What the character wears when the equip of slot s runs.
BeforeEquip(p, s) ==
  IF s = "weapon" THEN Freed(p)
  ELSE [Freed(p) EXCEPT !["weapon"] = Loaded(p)["weapon"]]

Executes(p) ==
  /\ ~Locked
  /\ \A s \in Out(p) : slots[s] # Empty
  /\ \A s \in In(p) : p.goal[s] \in wallet /\ CanEquip(BeforeEquip(p, s), s, p.goal[s])
  /\ \A s, t \in In(p) : s # t => p.goal[s] # p.goal[t]

\* What comes out of a slot is not transferred to the player.
BugSaveLands ==
  /\ save.st = "signing" /\ Executes(save)
  /\ slots' = Loaded(save)
  /\ wallet' = wallet \ {save.goal[s] : s \in In(save)}
  /\ save' = [save EXCEPT !.st = "landed"]
  /\ Races(slots') /\ ChainOnly /\ UNCHANGED <<committed, pending, owned, inbox, used>>

SaveLands ==
  /\ save.st = "signing" /\ Executes(save)
  /\ slots' = Loaded(save)
  /\ wallet' = (wallet \cup {slots[s] : s \in Out(save)}) \ {save.goal[s] : s \in In(save)}
  /\ save' = [save EXCEPT !.st = "landed"]
  /\ Races(slots') /\ ChainOnly /\ UNCHANGED <<committed, pending, owned, inbox, used>>

\* The chain aborts it; what is staged stays for another try.
SaveAborts ==
  /\ save.st = "signing" /\ ~Executes(save)
  /\ save' = NoSave
  /\ UNCHANGED <<committed, pending, owned, inbox, used>> /\ UNCHANGED chainVars
  /\ UNCHANGED serverVars

\* COMMIT_SAVED: what was sent is now what the chain holds, says the client.
CommitSaved ==
  /\ save.st = "landed"
  /\ committed' = save.goal /\ pending' = save.goal
  /\ save' = NoSave
  /\ UNCHANGED <<owned, inbox, used>> /\ UNCHANGED chainVars /\ UNCHANGED serverVars

\* SET_CHARACTER: committed is what the message says; pending survives only
\* if committed did not change.
SetCharacter ==
  /\ inbox # << >>
  /\ inbox' = Tail(inbox)
  /\ committed' = Head(inbox)
  /\ pending' = IF Head(inbox) # committed \/ pending = Naked THEN Head(inbox) ELSE pending
  /\ UNCHANGED <<owned, save, used>> /\ UNCHANGED chainVars /\ UNCHANGED serverVars

(***************************************************************************)
(* The server: reads, fights, locks                                        *)
(***************************************************************************)
\* fetchEquippedFromDOFs lists the slots that hold an item ...
ListSlots(r) ==
  /\ ~read[r].on
  /\ \/ r = "login" /\ Mishap(FALSE, FALSE)
     \/ r = "fight" /\ ~fight.on /\ Spend("fights", MaxFights)
  /\ read' = [read EXCEPT ![r] =
                [on |-> TRUE, todo |-> {s \in Slots : slots[s] # Empty}, got |-> Naked]]
  /\ UNCHANGED <<server, fight, tasks>> /\ UNCHANGED chainVars /\ UNCHANGED clientVars

\* ... then reads each of them on its own: what it holds by then ...
ReadSlot(r, s) ==
  /\ read[r].on /\ s \in read[r].todo
  /\ read' = [read EXCEPT ![r] = [on |-> TRUE, todo |-> @.todo \ {s},
                                  got |-> [@.got EXCEPT ![s] = slots[s]]]]
  /\ UNCHANGED <<server, fight, tasks, used>> /\ UNCHANGED chainVars
  /\ UNCHANGED clientVars

\* ... or nothing, when this one read fails: the slot looks empty.
ReadSlotFails(r, s) ==
  /\ read[r].on /\ s \in read[r].todo
  /\ Mishap(TRUE, FALSE)
  /\ read' = [read EXCEPT ![r].todo = @ \ {s}]
  /\ UNCHANGED <<server, fight, tasks>> /\ UNCHANGED chainVars /\ UNCHANGED clientVars

\* applyDOFEquipment: chain items are written, chain items elsewhere cleared.
Idle == [on |-> FALSE, todo |-> {}, got |-> Naked]

\* A login answers with the record, and replays the fight that goes on.
LoginOk ==
  /\ read["login"].on /\ read["login"].todo = {}
  /\ server' = read["login"].got
  /\ inbox' = Append(inbox, server')
  /\ read' = [read EXCEPT !["login"] = Idle]
  /\ UNCHANGED <<fight, tasks, used, committed, pending, owned, save>>
  /\ UNCHANGED chainVars

\* createFight: the fighter's stats are derived from the record, and the lock
\* joins the treasury queue once the fight has started.
Fighting(n, gear) ==
  LET expiry == now + FIGHT_LOCK_DURATION_MS IN
  /\ fight' = [on |-> TRUE, gear |-> gear, held |-> FALSE,
               expiry |-> expiry, raced |-> gear # slots]
  /\ tasks' = Append(tasks, LockTask(expiry, n))

FightStarts ==
  /\ read["fight"].on /\ read["fight"].todo = {}
  /\ server' = read["fight"].got
  /\ read' = [read EXCEPT !["fight"] = Idle]
  /\ Fighting(used.fights, server')
  /\ UNCHANGED used /\ UNCHANGED chainVars /\ UNCHANGED clientVars

\* The list of slots cannot be read: login and fight go on with the record as
\* it is.
ListSlotsFails(r) ==
  /\ ~read[r].on /\ used.mishaps < MaxMishaps
  /\ \/ /\ r = "login"
        /\ used' = [used EXCEPT !.mishaps = @ + 1, !.failed = TRUE]
        /\ inbox' = Append(inbox, server)
        /\ UNCHANGED <<fight, tasks>>
     \/ /\ r = "fight" /\ ~fight.on /\ used.fights < MaxFights
        /\ used' = [used EXCEPT !.mishaps = @ + 1, !.failed = TRUE, !.fights = @ + 1]
        /\ Fighting(used.fights + 1, server)
        /\ UNCHANGED inbox
  /\ UNCHANGED <<server, read, committed, pending, owned, save>> /\ UNCHANGED chainVars

\* The release overtakes what is queued.
BugFightEnds ==
  /\ fight.on
  /\ fight' = NoFight
  /\ tasks' = <<LockTask(0, used.fights)>> \o tasks
  /\ UNCHANGED <<server, read, used>> /\ UNCHANGED chainVars /\ UNCHANGED clientVars

\* finishFight: the lock is released through the same queue.
FightEnds ==
  /\ fight.on
  /\ fight' = NoFight
  /\ tasks' = Append(tasks, LockTask(0, used.fights))
  /\ UNCHANGED <<server, read, used>> /\ UNCHANGED chainVars /\ UNCHANGED clientVars

\* Tasks run last in, first out.
BugSetFightLock ==
  /\ tasks # << >> /\ tasks' = [t \in 1 .. Len(tasks) - 1 |-> tasks[t]]
  /\ lock' = tasks[Len(tasks)].expiry
  /\ fight' = [fight EXCEPT !.held = @ \/ (fight.on /\ tasks[Len(tasks)].of = used.fights)]
  /\ UNCHANGED <<slots, wallet, now, server, read, used>> /\ UNCHANGED clientVars

\* set_fight_lock, one transaction of the queue at a time.
SetFightLock ==
  /\ tasks # << >> /\ tasks' = Tail(tasks)
  /\ lock' = Head(tasks).expiry
  /\ fight' = [fight EXCEPT !.held = @ \/ (fight.on /\ Head(tasks).of = used.fights)]
  /\ UNCHANGED <<slots, wallet, now, server, read, used>> /\ UNCHANGED clientVars

\* All attempts of one fail: nobody waits for it, the next task runs.
SetFightLockFails ==
  /\ tasks # << >> /\ tasks' = Tail(tasks)
  /\ Mishap(TRUE, FALSE)
  /\ UNCHANGED <<server, read, fight>> /\ UNCHANGED chainVars /\ UNCHANGED clientVars

\* get_character is answered from memory.
GetCharacter ==
  /\ Mishap(FALSE, FALSE)
  /\ inbox' = Append(inbox, server)
  /\ UNCHANGED <<committed, pending, owned, save>> /\ UNCHANGED chainVars
  /\ UNCHANGED serverVars

Next ==
  \/ \E s \in Slots, i \in Items : equip(s, i) \/ StageEquip(s, i)
  \/ \E s \in Slots : unequip(s) \/ StageUnequip(s)
  \/ \E r \in Readers : ListSlots(r) \/ ListSlotsFails(r)
  \/ \E r \in Readers, s \in Slots : ReadSlot(r, s) \/ ReadSlotFails(r, s)
  \/ Tick \/ FetchOwnedItems \/ StageDiscard \/ saveLoadout \/ SaveLands \/ SaveAborts
  \/ CommitSaved \/ SetCharacter \/ LoginOk \/ FightStarts \/ FightEnds
  \/ SetFightLock \/ SetFightLockFails \/ GetCharacter

Spec == Init /\ [][Next]_vars

(***************************************************************************)
(* Properties                                                              *)
(***************************************************************************)
TypeOK ==
  /\ slots \in Gear /\ wallet \subseteq Items /\ owned \subseteq Items
  /\ lock \in Nat /\ now \in Nat
  /\ server \in Gear /\ committed \in Gear /\ pending \in Gear
  /\ read \in [Readers -> [on : BOOLEAN, todo : SUBSET Slots, got : Gear]]
  /\ fight \in [on : BOOLEAN, gear : Gear, held : BOOLEAN, expiry : Nat, raced : BOOLEAN]
  /\ tasks \in Seq([expiry : Nat, of : Nat]) /\ inbox \in Seq(Gear)
  /\ save \in [st : {"none", "signing", "landed"}, base : Gear, goal : Gear]
  /\ used \in [edits : Nat, saves : Nat, fights : Nat, mishaps : Nat, failed : BOOLEAN,
             others : BOOLEAN, stale : BOOLEAN]

\* Every item is in the wallet or in exactly one slot, whatever the saves of
\* two clients do to each other (the transaction of loadout-tx.ts replaces
\* several items at once).
NothingLost ==
  /\ \A s \in Slots : slots[s] # Empty => slots[s] \in Items \ wallet
  /\ \A i \in Items \ wallet : \E s \in Slots : slots[s] = i
  /\ \A s, t \in Slots : s # t /\ slots[s] # Empty => slots[s] # slots[t]

\* What the character wears obeys the slots, and nothing is worn beside a
\* two-handed weapon, in whatever order the commands of a save run.
WornIsLegal ==
  /\ \A s \in Slots : slots[s] # Empty => Accepts(s, slots[s])
  /\ slots["weapon"] \in TwoHanded => slots["offhand"] = Empty

\* No save, and no interleaving of two clients, can lose, copy or misplace an
\* item.
GearIsSound == NothingLost /\ WornIsLegal

\* As long as no other client equips anything, a save built on what the chain
\* holds succeeds if no lock is in its way, and leaves the character in what was
\* asked for: late and torn answers of the server make the client start over.
\* The exception is an item that the wallet did not hold when it was staged: the
\* list of owned items, not fetched again since a save, offers what that save
\* equipped as soon as it is staged out of its slot.
HonestSaveLands ==
  ~used.others /\ ~used.stale /\ save.st = "signing" /\ save.base = slots /\ ~Locked =>
    Executes(save) /\ Loaded(save) = save.goal

\* From the landing of its lock to the lock's expiry, a fight is fought with
\* the gear the character wears, if the gear did not change before that: the
\* release of an earlier fight, queued before, does not lift this one's lock.
OneGearPerFight ==
  fight.on /\ fight.held /\ ~fight.raced /\ now < fight.expiry => slots = fight.gear

\* A character that is not in a fight is free to change gear as soon as the
\* treasury has run its queue, unless a task of the queue failed.
LockEndsWithTheFight ==
  Locked /\ ~fight.on /\ tasks = << >> => used.failed

\* The lock of a fight begins and ends with that fight, whatever is queued.
LockGuardsTheFight == OneGearPerFight /\ LockEndsWithTheFight
=============================================================================
