------------------------------- MODULE Arena -------------------------------
(***************************************************************************)
(* The wager escrow of contracts/sources/arena.move.  Every entry function *)
(* of the Move module is one action: a Sui transaction is atomic, so the   *)
(* interleavings are those of whole calls, made by any wallet, in any      *)
(* order, with the chain clock moving between them.                        *)
(*                                                                         *)
(* A transaction that aborts changes nothing, so every assert! is a guard. *)
(***************************************************************************)
EXTENDS Integers, FiniteSets

CONSTANTS
  Wallets,                      \* addresses that hold coins, TREASURY included
  TREASURY,                     \* the referee wallet hardcoded in the contract
  Wagers,                       \* identities of the WagerMatch objects
  None,                         \* option::none()
  Stakes,                       \* coin values a wager is opened with
  InitialPurse,                 \* what every wallet owns at the start
  Levels,                       \* character levels
  LockExpiries,                 \* expiry times the treasury sets a lock to
  CHALLENGE_TIMEOUT_MS, MATCH_EXPIRY_MS, SETTLEMENT_TIMEOUT_MS,
  WAGER_RESOLUTION_TIMEOUT_MS, MAX_LOCK_MS,
  U64_MAX,                      \* largest value of a Move u64
  MaxTime,                      \* bound of the clock
  LastCommit                    \* bound: no create, request or approve after it

PLATFORM_FEE_BPS == 500
BPS_BASE == 10000
LEVEL_BRACKET == 1

ASSUME WalletAssumption == /\ TREASURY \in Wallets
                           /\ None \notin Wallets
                           /\ None \notin Wagers

ASSUME NumberAssumption ==
  /\ Stakes \subseteq Nat \ {0}
  /\ Levels \subseteq Nat
  /\ LockExpiries \subseteq Nat
  /\ InitialPurse \in Nat
  /\ U64_MAX \in Nat
  /\ MaxTime \in Nat /\ LastCommit \in Nat

ASSUME TimeoutAssumption ==
  /\ CHALLENGE_TIMEOUT_MS \in Nat
  /\ MATCH_EXPIRY_MS \in Nat
  /\ SETTLEMENT_TIMEOUT_MS \in Nat
  /\ WAGER_RESOLUTION_TIMEOUT_MS \in Nat
  /\ MAX_LOCK_MS \in Nat

VARIABLES
  now,                          \* clock::timestamp_ms
  purse,                        \* coins each wallet owns outside the contract
  wager,                        \* the shared WagerMatch objects
  registry,                     \* OpenWagerRegistry.table
  level,                        \* character::level of each wallet's character
  fight_lock_expires_at         \* character lock of each wallet's character

vars == <<now, purse, wager, registry, level, fight_lock_expires_at>>

Statuses == {"ABSENT", "WAITING", "ACTIVE", "SETTLED", "PENDING_APPROVAL"}

WagerMatch ==
  [player_a           : Wallets \cup {None},
   player_a_level     : Nat,
   player_b           : Wallets \cup {None},
   stake_amount       : Nat,
   escrow             : Nat,
   challenger_escrow  : Nat,
   pending_challenger : Wallets \cup {None},
   pending_at         : Nat,
   status             : Statuses,
   created_at         : Nat,
   accepted_at        : Nat,
   settled_at         : Nat]

\* An identity no object has been created with yet.
NoWager ==
  [player_a |-> None, player_a_level |-> 0, player_b |-> None,
   stake_amount |-> 0, escrow |-> 0, challenger_escrow |-> 0,
   pending_challenger |-> None, pending_at |-> 0, status |-> "ABSENT",
   created_at |-> 0, accepted_at |-> 0, settled_at |-> 0]

\* One type invariant: the shape of every object and counter.
TypeOK ==
  /\ now \in Nat
  /\ purse \in [Wallets -> Nat]
  /\ wager \in [Wagers -> WagerMatch]
  /\ registry \in [Wallets -> Wagers \cup {None}]
  /\ level \in [Wallets -> Nat]
  /\ fight_lock_expires_at \in [Wallets -> Nat]

Init ==
  /\ now = 0
  /\ purse = [p \in Wallets |-> InitialPurse]
  /\ wager = [w \in Wagers |-> NoWager]
  /\ registry = [p \in Wallets |-> None]
  /\ level \in [Wallets -> Levels]
  /\ fight_lock_expires_at = [p \in Wallets |-> 0]

-----------------------------------------------------------------------------
(* Helpers *)

IsOpen(w) == wager[w].status \in {"WAITING", "ACTIVE", "PENDING_APPROVAL"}

\* (Operators named Bug... are the definition that follows them with a
\* plausible mistake in it; no definition uses one.)

\* The check that the winner fought is forgotten.
BugAnybodyWins(w) == Wallets

Participants(w) == {wager[w].player_a, wager[w].player_b}

\* character::is_fight_locked
FightLocked(p) == fight_lock_expires_at[p] > now

\* request_accept_wager's two-sided compare of unsigned levels.
InBracket(l, creatorLevel) ==
  IF l >= creatorLevel THEN l - creatorLevel <= LEVEL_BRACKET
                       ELSE creatorLevel - l <= LEVEL_BRACKET

\* Basis points are taken for percent.
BugPercentFee(total) == (total * PLATFORM_FEE_BPS) \div 100

PlatformFee(total) == (total * PLATFORM_FEE_BPS) \div BPS_BASE

\* The second transfer is lost when both go to one wallet.
BugOneTransfer(p, x, q, y) ==
  purse' = [r \in Wallets |-> purse[r] + (IF r = p THEN x ELSE IF r = q THEN y ELSE 0)]

\* transfer::public_transfer of x to p and y to q (p and q may be one wallet).
Transfer2(p, x, q, y) ==
  purse' = [r \in Wallets |-> purse[r] + (IF r = p THEN x ELSE 0)
                                       + (IF r = q THEN y ELSE 0)]

Transfer(p, x) == purse' = [purse EXCEPT ![p] = @ + x]

\* The creator stays registered.
BugStaysRegistered(w) == UNCHANGED registry

\* Every path that ends a wager drops the creator's registry entry, whatever
\* wager identity the entry holds.
Unregister(w) == registry' = [registry EXCEPT ![wager[w].player_a] = None]

\* The object after its escrow was emptied and its status set to SETTLED.
Settled(m) == [m EXCEPT !.escrow = 0, !.status = "SETTLED", !.settled_at = now]

\* challenger_escrow is not emptied.
BugChallengeKept(m) == [m EXCEPT !.pending_challenger = None, !.pending_at = 0]

\* The object after its pending challenge was refunded.
ChallengeCleared(m) ==
  [m EXCEPT !.challenger_escrow = 0, !.pending_challenger = None,
            !.pending_at = 0]

\* And the wager put back in the lobby.
Reopened(m) == [ChallengeCleared(m) EXCEPT !.status = "WAITING"]

CharactersUnchanged == UNCHANGED <<level, fight_lock_expires_at>>

-----------------------------------------------------------------------------
(* Creator and challenger *)

create_wager(p, w, stake) ==
  /\ now <= LastCommit
  /\ wager[w].status = "ABSENT"
  /\ purse[p] >= stake
  /\ stake > 0
  /\ ~FightLocked(p)
  /\ registry[p] = None
  /\ wager' = [wager EXCEPT ![w] =
                 [NoWager EXCEPT !.player_a = p,
                                 !.player_a_level = level[p],
                                 !.stake_amount = stake,
                                 !.escrow = stake,
                                 !.status = "WAITING",
                                 !.created_at = now]]
  /\ registry' = [registry EXCEPT ![p] = w]
  /\ purse' = [purse EXCEPT ![p] = @ - stake]
  /\ UNCHANGED now /\ CharactersUnchanged

request_accept_wager(p, w) ==
  /\ now <= LastCommit
  /\ wager[w].status = "WAITING"
  /\ wager[w].pending_challenger = None
  /\ registry[p] = None
  /\ p # wager[w].player_a
  /\ InBracket(level[p], wager[w].player_a_level)
  /\ purse[p] >= wager[w].stake_amount
  /\ wager' = [wager EXCEPT
                 ![w].challenger_escrow = @ + wager[w].stake_amount,
                 ![w].pending_challenger = p,
                 ![w].pending_at = now,
                 ![w].status = "PENDING_APPROVAL"]
  /\ purse' = [purse EXCEPT ![p] = @ - wager[w].stake_amount]
  /\ UNCHANGED <<now, registry>> /\ CharactersUnchanged

approve_challenger(sender, w) ==
  /\ now <= LastCommit
  /\ wager[w].status = "PENDING_APPROVAL"
  /\ sender = wager[w].player_a
  /\ wager[w].pending_challenger # None
  /\ wager' = [wager EXCEPT
                 ![w] = [ChallengeCleared(@) EXCEPT
                           !.escrow = wager[w].escrow + wager[w].challenger_escrow,
                           !.player_b = wager[w].pending_challenger,
                           !.status = "ACTIVE",
                           !.accepted_at = now]]
  /\ UNCHANGED <<now, purse, registry>> /\ CharactersUnchanged

\* The challenger's stake goes to the creator.
BugRefundsCreator(w) ==
  /\ wager[w].status = "PENDING_APPROVAL"
  /\ wager[w].pending_challenger # None
  /\ Transfer(wager[w].player_a, wager[w].challenger_escrow)
  /\ wager' = [wager EXCEPT ![w] = Reopened(@)]
  /\ UNCHANGED <<now, registry>> /\ CharactersUnchanged

\* The part decline, withdraw and expiry of a challenge share.
RefundChallenger(w) ==
  /\ wager[w].status = "PENDING_APPROVAL"
  /\ wager[w].pending_challenger # None
  /\ Transfer(wager[w].pending_challenger, wager[w].challenger_escrow)
  /\ wager' = [wager EXCEPT ![w] = Reopened(@)]
  /\ UNCHANGED <<now, registry>> /\ CharactersUnchanged

decline_challenger(sender, w) ==
  sender = wager[w].player_a /\ RefundChallenger(w)

withdraw_challenge(sender, w) ==
  sender = wager[w].pending_challenger /\ RefundChallenger(w)

cancel_expired_challenge(w) ==
  now >= wager[w].pending_at + CHALLENGE_TIMEOUT_MS /\ RefundChallenger(w)

\* A WAITING wager closes: the whole escrow goes back to its creator.
RefundCreator(w) ==
  /\ wager[w].status = "WAITING"
  /\ Transfer(wager[w].player_a, wager[w].escrow)
  /\ wager' = [wager EXCEPT ![w] = Settled(@)]
  /\ Unregister(w)
  /\ UNCHANGED now /\ CharactersUnchanged

cancel_wager(sender, w) == sender = wager[w].player_a /\ RefundCreator(w)

-----------------------------------------------------------------------------
(* Ends of a fight: TREASURY, a participant, or anyone after a timeout *)

\* u64 multiplication aborts on overflow, before anything is moved.
settle_wager(sender, w, winner) ==
  LET total == wager[w].escrow
      fee   == PlatformFee(total)
  IN  /\ sender = TREASURY
      /\ wager[w].status = "ACTIVE"
      /\ wager[w].player_b # None
      /\ winner \in Participants(w)
      /\ total * PLATFORM_FEE_BPS <= U64_MAX
      /\ Transfer2(TREASURY, fee, winner, total - fee)
      /\ wager' = [wager EXCEPT ![w] = Settled(@)]
      /\ Unregister(w)
      /\ UNCHANGED now /\ CharactersUnchanged

\* Give x of the escrow to player_a and the rest to player_b, and close.
SplitEscrow(w, x) ==
  /\ wager[w].status = "ACTIVE"
  /\ wager[w].player_b # None
  /\ x <= wager[w].escrow
  /\ Transfer2(wager[w].player_a, x, wager[w].player_b, wager[w].escrow - x)
  /\ wager' = [wager EXCEPT ![w] = Settled(@)]
  /\ Unregister(w)
  /\ UNCHANGED now /\ CharactersUnchanged

settle_tie(sender, w) ==
  sender = TREASURY /\ SplitEscrow(w, wager[w].stake_amount)

RefundBothEscrows(w) ==
  /\ wager[w].status = "PENDING_APPROVAL"
  /\ wager[w].pending_challenger # None
  /\ Transfer2(wager[w].player_a, wager[w].escrow,
               wager[w].pending_challenger, wager[w].challenger_escrow)
  /\ wager' = [wager EXCEPT ![w] = Settled(ChallengeCleared(@))]
  /\ Unregister(w)
  /\ UNCHANGED now /\ CharactersUnchanged

admin_cancel_wager(sender, w) ==
  /\ sender = TREASURY
  /\ \/ RefundCreator(w)
     \/ SplitEscrow(w, wager[w].escrow \div 2)
     \/ RefundBothEscrows(w)

\* Only a wager nobody accepted expires.
BugOnlyWaitingExpires(w) ==
  now >= wager[w].created_at + MATCH_EXPIRY_MS /\ RefundCreator(w)

\* Open to any sender.
cancel_expired_wager(w) ==
  \/ /\ now >= wager[w].created_at + MATCH_EXPIRY_MS
     /\ RefundCreator(w)
  \/ /\ now >= wager[w].accepted_at + SETTLEMENT_TIMEOUT_MS
     /\ SplitEscrow(w, wager[w].escrow \div 2)

reclaim_stalled_wager(sender, w) ==
  /\ now >= wager[w].accepted_at + WAGER_RESOLUTION_TIMEOUT_MS
  /\ sender \in Participants(w)
  /\ SplitEscrow(w, wager[w].stake_amount)

-----------------------------------------------------------------------------
(* The clock, and what arena.move reads of the character module *)

Tick ==
  /\ now < MaxTime
  /\ now' = now + 1
  /\ UNCHANGED <<purse, wager, registry>> /\ CharactersUnchanged

\* update_after_fight can pass several thresholds at once.
LevelUp(p, l) ==
  /\ l > level[p]
  /\ level' = [level EXCEPT ![p] = l]
  /\ UNCHANGED <<now, purse, wager, registry, fight_lock_expires_at>>

set_fight_lock(p, expires_at) ==
  /\ expires_at = 0 \/ expires_at <= now + MAX_LOCK_MS
  /\ fight_lock_expires_at' = [fight_lock_expires_at EXCEPT ![p] = expires_at]
  /\ UNCHANGED <<now, purse, wager, registry, level>>

PlayerStep(p, w) ==
  \/ \E stake \in Stakes : create_wager(p, w, stake)
  \/ request_accept_wager(p, w)
  \/ approve_challenger(p, w)
  \/ decline_challenger(p, w)
  \/ withdraw_challenge(p, w)
  \/ cancel_wager(p, w)
  \/ reclaim_stalled_wager(p, w)

TreasuryStep(w) ==
  \/ \E winner \in Wallets : settle_wager(TREASURY, w, winner)
  \/ settle_tie(TREASURY, w)
  \/ admin_cancel_wager(TREASURY, w)

AnyoneStep(w) == cancel_expired_challenge(w) \/ cancel_expired_wager(w)

CharacterStep(p) ==
  \/ \E l \in Levels : LevelUp(p, l)
  \/ \E expires_at \in LockExpiries : set_fight_lock(p, expires_at)

Next ==
  \/ \E p \in Wallets, w \in Wagers : PlayerStep(p, w)
  \/ \E w \in Wagers : TreasuryStep(w)
  \/ \E w \in Wagers : AnyoneStep(w)
  \/ \E p \in Wallets : CharacterStep(p)
  \/ Tick

Spec == Init /\ [][Next]_vars

\* Fairness of the escape hatch only: time passes, and somebody makes the two
\* calls that need no privilege.  TREASURY, creator and challenger may be gone.
TrustlessSpec ==
  /\ Spec
  /\ WF_vars(Tick)
  /\ \A w \in Wagers : WF_vars(AnyoneStep(w))
-----------------------------------------------------------------------------
(* What the contract must keep true *)

\* Each status owes the object its exact balances and options: one stake while
\* waiting, one in each escrow while a challenge is pending, both stakes merged
\* while active, nothing once settled.
WellFunded(m) ==
  /\ m.status = "ABSENT" => m = NoWager
  /\ m.status # "ABSENT" => m.player_a \in Wallets /\ m.stake_amount \in Stakes
  /\ m.status = "PENDING_APPROVAL" =>
       /\ m.pending_challenger \in Wallets \ {m.player_a}
       /\ m.escrow = m.stake_amount
       /\ m.challenger_escrow = m.stake_amount
  /\ m.status # "PENDING_APPROVAL" =>
       m.pending_challenger = None /\ m.challenger_escrow = 0
  /\ m.status = "WAITING" => m.escrow = m.stake_amount
  /\ m.status = "ACTIVE" => /\ m.player_b \in Wallets \ {m.player_a}
                            /\ m.escrow = 2 * m.stake_amount
  /\ m.status \in {"WAITING", "PENDING_APPROVAL"} => m.player_b = None
  /\ m.status = "SETTLED" => m.escrow = 0

\* Every object holds what its status owes: the unwinding functions split and
\* withdraw the two escrows assuming exactly this.
EscrowMatchesStatus == \A w \in Wagers : WellFunded(wager[w])

\* The registry names, for every wallet, exactly the open wager it created.
\* The paths that end a wager remove the creator's entry without looking at
\* the identity in it, so a stale or a second wager would free a wrong slot.
RegistryMatchesOpenWagers ==
  \A p \in Wallets, w \in Wagers :
    registry[p] = w <=> (IsOpen(w) /\ wager[w].player_a = p)

\* What an object owes p if nobody wins it.
Owed(p, m) ==
  IF /\ m.status \in {"WAITING", "ACTIVE", "PENDING_APPROVAL"}
     /\ p \in {m.player_a, m.player_b, m.pending_challenger}
  THEN m.stake_amount ELSE 0

Claim(p, w) == Owed(p, wager[w])

\* The promise of StakeVault: stakes only come back to their owner, or are
\* awarded once, in a fight both sides paid the same stake for.
Vault == INSTANCE StakeVault WITH
           held <- [w \in Wagers |-> [p \in Wallets |-> Claim(p, w)]],
           done <- {w \in Wagers : wager[w].status = "SETTLED"}

\* Every step of the contract is a step of the vault, or moves no coin.
ImplementsVault == Vault!Spec

\* Nobody's stake is stuck: with the referee and both players gone, a wager
\* that was opened is settled by calls anyone can make.
EveryWagerUnwinds ==
  \A w \in Wagers : IsOpen(w) ~> wager[w].status = "SETTLED"
=============================================================================
