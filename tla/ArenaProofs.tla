---------------------------- MODULE ArenaProofs ----------------------------
(***************************************************************************)
(* Proofs about the wager escrow for any set of wallets and wagers, any    *)
(* stakes and any timeouts.  Several entry functions share the way they    *)
(* move coins, so every proof about a step is split by effect, not by      *)
(* caller: lemma StepCases says there are eleven effects.                  *)
(* The last two theorems are about sums, of coins and of claims, over any  *)
(* finite set of wallets and wagers.                                       *)
(***************************************************************************)
EXTENDS MCArena, FiniteSetTheorems, WellFoundedInduction, TLAPS

\* A closing step of an ACTIVE wager that names no winner splits some amount x
\* off for the creator.
SplitStep(w) == \E x \in Nat :
                  x \in {wager[w].stake_amount, wager[w].escrow \div 2}
                    /\ SplitEscrow(w, x)

\* The contract's steps by what they do.
Effect ==
  \/ \E p \in Wallets, w \in Wagers, stake \in Stakes : create_wager(p, w, stake)
  \/ \E p \in Wallets, w \in Wagers : request_accept_wager(p, w)
  \/ \E p \in Wallets, w \in Wagers : approve_challenger(p, w)
  \/ \E w \in Wagers : RefundChallenger(w)
  \/ \E w \in Wagers : RefundCreator(w)
  \/ \E w \in Wagers : RefundBothEscrows(w)
  \/ \E w \in Wagers : SplitStep(w)
  \/ \E w \in Wagers, winner \in Wallets : settle_wager(TREASURY, w, winner)
  \/ \E p \in Wallets, l \in Levels : LevelUp(p, l)
  \/ \E p \in Wallets, t \in LockExpiries : set_fight_lock(p, t)
  \/ Tick

\* Every step of the contract has one of the eleven effects.
LEMMA StepCases == ASSUME TypeOK, Next PROVE Effect
<1>1. ASSUME NEW w \in Wagers
      PROVE  wager[w].stake_amount \in Nat /\ wager[w].escrow \div 2 \in Nat
  <2>1. wager[w].escrow \in Nat /\ wager[w].stake_amount \in Nat
    BY DEF TypeOK, WagerMatch
  <2>. QED BY <2>1
<1>2. CASE \E p \in Wallets, w \in Wagers : PlayerStep(p, w)
  <2>1. PICK p \in Wallets, w \in Wagers : PlayerStep(p, w)
    BY <1>2
  <2>2. CASE reclaim_stalled_wager(p, w)
    BY <1>1, <2>2 DEF reclaim_stalled_wager, Effect, SplitStep
  <2>. QED BY <2>1, <2>2 DEF PlayerStep, Effect, decline_challenger,
              withdraw_challenge, cancel_wager
<1>3. CASE \E w \in Wagers : TreasuryStep(w)
  <2>1. PICK w \in Wagers : TreasuryStep(w)
    BY <1>3
  <2>2. CASE settle_tie(TREASURY, w)
    BY <1>1, <2>2 DEF settle_tie, Effect, SplitStep
  <2>3. CASE admin_cancel_wager(TREASURY, w)
    BY <1>1, <2>3 DEF admin_cancel_wager, Effect, SplitStep
  <2>. QED BY <2>1, <2>2, <2>3 DEF TreasuryStep, Effect
<1>4. CASE \E w \in Wagers : AnyoneStep(w)
  <2>1. PICK w \in Wagers : AnyoneStep(w)
    BY <1>4
  <2>. QED BY <1>1, <2>1 DEF AnyoneStep, cancel_expired_challenge,
              cancel_expired_wager, Effect, SplitStep
<1>5. CASE \E p \in Wallets : CharacterStep(p)
  BY <1>5 DEF CharacterStep, Effect
<1>. QED BY <1>2, <1>3, <1>4, <1>5 DEF Next, Effect

\* The fee never exceeds what is in the escrow.
LEMMA FeeBound ==
  ASSUME NEW total \in Nat
  PROVE  PlatformFee(total) \in Nat /\ PlatformFee(total) <= total
BY DEF PlatformFee, PLATFORM_FEE_BPS, BPS_BASE

\* Refunding the challenger leaves a well-formed object.
LEMMA ChallengeClearedType ==
  ASSUME NEW m \in WagerMatch
  PROVE  ChallengeCleared(m) \in WagerMatch
<1>1. None \in Wallets \cup {None} /\ 0 \in Nat
  OBVIOUS
<1>. QED BY <1>1 DEF ChallengeCleared, WagerMatch

\* Closing a wager leaves a well-formed object.
LEMMA SettledType ==
  ASSUME NEW m \in WagerMatch, now \in Nat
  PROVE  Settled(m) \in WagerMatch
BY DEF Settled, WagerMatch, Statuses

\* Closing a wager keeps the registry a table of wagers.
LEMMA UnregisterType ==
  ASSUME NEW w \in Wagers, registry \in [Wallets -> Wagers \cup {None}],
         Unregister(w)
  PROVE  registry' \in [Wallets -> Wagers \cup {None}]
<1>. DEFINE a == wager[w].player_a
<1>1. registry' = [registry EXCEPT ![a] = None]
  BY DEF Unregister
<1>2. None \in Wagers \cup {None}
  OBVIOUS
<1>. QED BY <1>1, <1>2

\* A payment of a natural amount leaves natural purses.
LEMMA TransferType ==
  ASSUME purse \in [Wallets -> Nat], NEW p, NEW x \in Nat, Transfer(p, x)
  PROVE  purse' \in [Wallets -> Nat]
<1>1. CASE p \in Wallets
  <2>1. purse[p] + x \in Nat
    BY <1>1
  <2>. QED BY <1>1, <2>1 DEF Transfer
<1>2. CASE p \notin Wallets
  BY <1>2 DEF Transfer
<1>. QED BY <1>1, <1>2

\* So do two payments made in one transaction.
LEMMA Transfer2Type ==
  ASSUME purse \in [Wallets -> Nat], NEW p, NEW q, NEW x \in Nat, NEW y \in Nat,
         Transfer2(p, x, q, y)
  PROVE  purse' \in [Wallets -> Nat]
<1>1. ASSUME NEW r \in Wallets
      PROVE  purse[r] + (IF r = p THEN x ELSE 0) + (IF r = q THEN y ELSE 0) \in Nat
  OBVIOUS
<1>. QED BY <1>1 DEF Transfer2

-----------------------------------------------------------------------------

\* Every step keeps the shape of the state.
LEMMA TypeOK_step == ASSUME TypeOK, [Next]_vars PROVE TypeOK'
<1>. USE DEF TypeOK
<1>. USE WalletAssumption, NumberAssumption
<1>1. CASE UNCHANGED vars
  BY <1>1 DEF vars
<1>2. ASSUME NEW p \in Wallets, NEW w \in Wagers, NEW stake \in Stakes,
             create_wager(p, w, stake)
      PROVE  TypeOK'
  <2>1. stake \in Nat /\ purse[p] - stake \in Nat
    BY <1>2 DEF create_wager
  <2>. DEFINE m == [NoWager EXCEPT !.player_a = p,
                                   !.player_a_level = level[p],
                                   !.stake_amount = stake,
                                   !.escrow = stake,
                                   !.status = "WAITING",
                                   !.created_at = now]
  <2>2. m \in WagerMatch
    BY <2>1 DEF WagerMatch, NoWager, Statuses
  <2>3. wager' = [wager EXCEPT ![w] = m]
    BY <1>2 DEF create_wager
  <2>. QED BY <1>2, <2>1, <2>2, <2>3 DEF create_wager, CharactersUnchanged
<1>3. ASSUME NEW p \in Wallets, NEW w \in Wagers, request_accept_wager(p, w)
      PROVE  TypeOK'
  <2>1. wager[w] \in WagerMatch
    OBVIOUS
  <2>2. /\ purse[p] - wager[w].stake_amount \in Nat
        /\ wager[w].challenger_escrow + wager[w].stake_amount \in Nat
    BY <1>3, <2>1 DEF request_accept_wager, WagerMatch
  <2>3. wager' \in [Wagers -> WagerMatch]
    BY <1>3, <2>1, <2>2 DEF request_accept_wager, WagerMatch, Statuses
  <2>. QED BY <1>3, <2>2, <2>3 DEF request_accept_wager, CharactersUnchanged
<1>4. ASSUME NEW p \in Wallets, NEW w \in Wagers, approve_challenger(p, w)
      PROVE  TypeOK'
  <2>1. wager[w] \in WagerMatch
    OBVIOUS
  <2>. DEFINE m == [ChallengeCleared(wager[w]) EXCEPT
                     !.escrow = wager[w].escrow + wager[w].challenger_escrow,
                     !.player_b = wager[w].pending_challenger,
                     !.status = "ACTIVE",
                     !.accepted_at = now]
  <2>m. m \in WagerMatch
    <3>1. ChallengeCleared(wager[w]) \in WagerMatch
      BY <2>1, ChallengeClearedType
    <3>2. wager[w].escrow + wager[w].challenger_escrow \in Nat
      BY <2>1 DEF WagerMatch
    <3>3. wager[w].pending_challenger \in Wallets \cup {None}
      BY <2>1 DEF WagerMatch
    <3>. QED BY <3>1, <3>2, <3>3 DEF WagerMatch, Statuses
  <2>2. wager' \in [Wagers -> WagerMatch]
    <3>1. wager' = [wager EXCEPT ![w] = m]
      BY <1>4 DEF approve_challenger
    <3>. QED BY <2>m, <3>1
  <2>. QED BY <1>4, <2>2 DEF approve_challenger, CharactersUnchanged
<1>5. ASSUME NEW w \in Wagers, RefundChallenger(w)
      PROVE  TypeOK'
  <2>1. wager[w] \in WagerMatch /\ wager[w].pending_challenger \in Wallets
    BY <1>5 DEF RefundChallenger, WagerMatch
  <2>. DEFINE m == Reopened(wager[w])
  <2>m. m \in WagerMatch
    <3>1. ChallengeCleared(wager[w]) \in WagerMatch
      BY <2>1, ChallengeClearedType
    <3>. HIDE DEF TypeOK
    <3>. QED BY <3>1 DEF Reopened, WagerMatch, Statuses
  <2>2. wager' \in [Wagers -> WagerMatch]
    <3>1. wager' = [wager EXCEPT ![w] = m]
      BY <1>5 DEF RefundChallenger
    <3>. QED BY <2>m, <3>1
  <2>3. purse' \in [Wallets -> Nat]
    BY <1>5, <2>1, TransferType DEF RefundChallenger, WagerMatch
  <2>. QED BY <1>5, <2>2, <2>3 DEF RefundChallenger, CharactersUnchanged
<1>6. ASSUME NEW w \in Wagers, RefundCreator(w)
      PROVE  TypeOK'
  <2>1. wager[w] \in WagerMatch
    OBVIOUS
  <2>. DEFINE m == Settled(wager[w])
  <2>m. m \in WagerMatch
    BY <2>1, SettledType
  <2>2. wager' \in [Wagers -> WagerMatch]
    <3>1. wager' = [wager EXCEPT ![w] = m]
      BY <1>6 DEF RefundCreator
    <3>. QED BY <2>m, <3>1
  <2>3. purse' \in [Wallets -> Nat] /\ registry' \in [Wallets -> Wagers \cup {None}]
    BY <1>6, <2>1, TransferType, UnregisterType DEF RefundCreator, WagerMatch
  <2>. QED BY <1>6, <2>2, <2>3 DEF RefundCreator, CharactersUnchanged
<1>7. ASSUME NEW w \in Wagers, RefundBothEscrows(w)
      PROVE  TypeOK'
  <2>1. wager[w] \in WagerMatch
    OBVIOUS
  <2>. DEFINE m == Settled(ChallengeCleared(wager[w]))
  <2>m. m \in WagerMatch
    BY <2>1, SettledType, ChallengeClearedType
  <2>2. wager' \in [Wagers -> WagerMatch]
    <3>1. wager' = [wager EXCEPT ![w] = m]
      BY <1>7 DEF RefundBothEscrows
    <3>. QED BY <2>m, <3>1
  <2>3. purse' \in [Wallets -> Nat] /\ registry' \in [Wallets -> Wagers \cup {None}]
    BY <1>7, <2>1, Transfer2Type, UnregisterType DEF RefundBothEscrows, WagerMatch
  <2>. QED BY <1>7, <2>2, <2>3 DEF RefundBothEscrows, CharactersUnchanged
<1>8. ASSUME NEW w \in Wagers, NEW x \in Nat, SplitEscrow(w, x)
      PROVE  TypeOK'
  <2>1. wager[w] \in WagerMatch
    OBVIOUS
  <2>2. wager' \in [Wagers -> WagerMatch]
    BY <1>8, <2>1 DEF SplitEscrow, Settled, WagerMatch, Statuses
  <2>3. wager[w].escrow - x \in Nat
    BY <1>8, <2>1 DEF SplitEscrow, WagerMatch
  <2>4. purse' \in [Wallets -> Nat] /\ registry' \in [Wallets -> Wagers \cup {None}]
    BY <1>8, <2>3, Transfer2Type, UnregisterType DEF SplitEscrow
  <2>. QED BY <1>8, <2>2, <2>4 DEF SplitEscrow, CharactersUnchanged
<1>9. ASSUME NEW w \in Wagers, NEW winner \in Wallets,
             settle_wager(TREASURY, w, winner)
      PROVE  TypeOK'
  <2>. DEFINE total == wager[w].escrow
  <2>1. wager[w] \in WagerMatch /\ total \in Nat
    BY DEF WagerMatch
  <2>2. wager' \in [Wagers -> WagerMatch]
    BY <1>9, <2>1 DEF settle_wager, Settled, WagerMatch, Statuses
  <2>3. PlatformFee(total) \in Nat /\ total - PlatformFee(total) \in Nat
    BY <2>1, FeeBound
  <2>4. purse' \in [Wallets -> Nat] /\ registry' \in [Wallets -> Wagers \cup {None}]
    BY <1>9, <2>3, Transfer2Type, UnregisterType DEF settle_wager
  <2>. QED BY <1>9, <2>2, <2>4 DEF settle_wager, CharactersUnchanged
<1>10. ASSUME NEW p \in Wallets, NEW l \in Levels, LevelUp(p, l)
       PROVE  TypeOK'
  BY <1>10, NumberAssumption DEF LevelUp
<1>11. ASSUME NEW p \in Wallets, NEW t \in LockExpiries, set_fight_lock(p, t)
       PROVE  TypeOK'
  BY <1>11 DEF set_fight_lock
<1>12. CASE Tick
  BY <1>12 DEF Tick, CharactersUnchanged
<1>. QED
  BY <1>1, <1>2, <1>3, <1>4, <1>5, <1>6, <1>7, <1>8, <1>9, <1>10, <1>11, <1>12,
     StepCases DEF Effect, SplitStep

\* The initial state is well typed.
LEMMA TypeOK_init == Init => TypeOK
<1>1. NoWager \in WagerMatch
  BY DEF NoWager, WagerMatch, Statuses
<1>2. ASSUME level \in [Wallets -> Levels]
      PROVE  level \in [Wallets -> Nat]
  BY <1>2, NumberAssumption
<1>3. 0 \in Nat /\ None \in Wagers \cup {None}
  OBVIOUS
<1>. QED BY <1>1, <1>2, <1>3, NumberAssumption DEF Init, TypeOK

\* The type invariant of the contract holds in every reachable state.
THEOREM TypeCorrect == Spec => []TypeOK
<1>1. TypeOK /\ [Next]_vars => TypeOK'
  BY TypeOK_step
<1>. QED BY <1>1, TypeOK_init, PTL DEF Spec
-----------------------------------------------------------------------------

\* The strengthening that is inductive: the unwinding functions need the type
\* and the funding of an object, freeing a registry slot needs the registry.
IInv == TypeOK /\ EscrowMatchesStatus /\ RegistryMatchesOpenWagers

\* Each effect leaves the object it touches well funded.
LEMMA Funding_step ==
  ASSUME TypeOK, EscrowMatchesStatus, [Next]_vars
  PROVE  EscrowMatchesStatus'
<1>. USE WalletAssumption, NumberAssumption
<1>0. ASSUME NEW w \in Wagers, NEW m, wager' = [wager EXCEPT ![w] = m], WellFunded(m)
      PROVE  EscrowMatchesStatus'
  <2>1. ASSUME NEW v \in Wagers PROVE WellFunded(wager'[v])
    <3>1. wager'[v] = IF v = w THEN m ELSE wager[v]
      BY <1>0 DEF TypeOK
    <3>. QED BY <1>0, <3>1 DEF EscrowMatchesStatus
  <2>2. EscrowMatchesStatus' <=> \A v \in Wagers : WellFunded(wager'[v])
    BY DEF EscrowMatchesStatus, WellFunded
  <2>. QED BY <2>1, <2>2
<1>a. \A w \in Wagers : wager[w] \in WagerMatch /\ WellFunded(wager[w])
  BY DEF TypeOK, EscrowMatchesStatus
<1>1. CASE wager' = wager
  BY <1>1 DEF EscrowMatchesStatus, WellFunded
<1>2. ASSUME NEW p \in Wallets, NEW w \in Wagers, NEW stake \in Stakes,
             create_wager(p, w, stake)
      PROVE  EscrowMatchesStatus'
  <2>. DEFINE m == [NoWager EXCEPT !.player_a = p,
                                   !.player_a_level = level[p],
                                   !.stake_amount = stake,
                                   !.escrow = stake,
                                   !.status = "WAITING",
                                   !.created_at = now]
  <2>1. WellFunded(m)
    BY <1>2 DEF create_wager, WellFunded, NoWager
  <2>2. wager' = [wager EXCEPT ![w] = m]
    BY <1>2 DEF create_wager
  <2>. QED BY <1>0, <2>1, <2>2
<1>3. ASSUME NEW p \in Wallets, NEW w \in Wagers, request_accept_wager(p, w)
      PROVE  EscrowMatchesStatus'
  <2>. DEFINE m == [wager[w] EXCEPT
                      !.challenger_escrow = @ + wager[w].stake_amount,
                      !.pending_challenger = p,
                      !.pending_at = now,
                      !.status = "PENDING_APPROVAL"]
  <2>1. WellFunded(m)
    BY <1>3, <1>a DEF request_accept_wager, WellFunded, WagerMatch
  <2>2. wager' = [wager EXCEPT ![w] = m]
    BY <1>3, <1>a DEF request_accept_wager
  <2>. QED BY <1>0, <2>1, <2>2
<1>4. ASSUME NEW p \in Wallets, NEW w \in Wagers, approve_challenger(p, w)
      PROVE  EscrowMatchesStatus'
  <2>. DEFINE m == [ChallengeCleared(wager[w]) EXCEPT
                      !.escrow = wager[w].escrow + wager[w].challenger_escrow,
                      !.player_b = wager[w].pending_challenger,
                      !.status = "ACTIVE",
                      !.accepted_at = now]
  <2>1. WellFunded(m)
    BY <1>4, <1>a DEF approve_challenger, ChallengeCleared, WellFunded, WagerMatch
  <2>2. wager' = [wager EXCEPT ![w] = m]
    BY <1>4 DEF approve_challenger
  <2>. QED BY <1>0, <2>1, <2>2
<1>5. ASSUME NEW w \in Wagers, RefundChallenger(w)
      PROVE  EscrowMatchesStatus'
  <2>. DEFINE m == Reopened(wager[w])
  <2>1. WellFunded(m)
    BY <1>5, <1>a DEF RefundChallenger, ChallengeCleared, Reopened, WellFunded, WagerMatch
  <2>2. wager' = [wager EXCEPT ![w] = m]
    BY <1>5 DEF RefundChallenger
  <2>. QED BY <1>0, <2>1, <2>2
<1>6. ASSUME NEW w \in Wagers, RefundCreator(w)
      PROVE  EscrowMatchesStatus'
  <2>1. WellFunded(Settled(wager[w]))
    BY <1>6, <1>a DEF RefundCreator, Settled, WellFunded, WagerMatch
  <2>2. wager' = [wager EXCEPT ![w] = Settled(wager[w])]
    BY <1>6 DEF RefundCreator
  <2>. QED BY <1>0, <2>1, <2>2
<1>7. ASSUME NEW w \in Wagers, RefundBothEscrows(w)
      PROVE  EscrowMatchesStatus'
  <2>1. WellFunded(Settled(ChallengeCleared(wager[w])))
    BY <1>7, <1>a DEF RefundBothEscrows, Settled, ChallengeCleared, WellFunded, WagerMatch
  <2>2. wager' = [wager EXCEPT ![w] = Settled(ChallengeCleared(wager[w]))]
    BY <1>7 DEF RefundBothEscrows
  <2>. QED BY <1>0, <2>1, <2>2
<1>8. ASSUME NEW w \in Wagers, wager[w].status = "ACTIVE",
             wager' = [wager EXCEPT ![w] = Settled(wager[w])]
      PROVE  EscrowMatchesStatus'
  <2>1. WellFunded(Settled(wager[w]))
    BY <1>8, <1>a DEF Settled, WellFunded, WagerMatch
  <2>. QED BY <1>0, <1>8, <2>1
<1>9. ASSUME NEW w \in Wagers, SplitStep(w)
      PROVE  EscrowMatchesStatus'
  BY <1>8, <1>9 DEF SplitStep, SplitEscrow
<1>10. ASSUME NEW w \in Wagers, NEW winner \in Wallets,
              settle_wager(TREASURY, w, winner)
       PROVE  EscrowMatchesStatus'
  BY <1>8, <1>10 DEF settle_wager
<1>11. CASE \/ UNCHANGED vars
            \/ \E p \in Wallets, l \in Levels : LevelUp(p, l)
            \/ \E p \in Wallets, t \in LockExpiries : set_fight_lock(p, t)
            \/ Tick
  BY <1>1, <1>11 DEF vars, LevelUp, set_fight_lock, Tick
<1>. QED
  BY <1>2, <1>3, <1>4, <1>5, <1>6, <1>7, <1>9, <1>10, <1>11, StepCases DEF Effect

\* The registry stays exact: a slot is freed only with its own wager, because a
\* creator has a single open wager.
LEMMA Registry_step ==
  ASSUME IInv, [Next]_vars
  PROVE  RegistryMatchesOpenWagers'
<1>. USE WalletAssumption DEF IInv
<1>a. \A w \in Wagers : wager[w] \in WagerMatch /\ WellFunded(wager[w])
  BY DEF TypeOK, EscrowMatchesStatus
<1>1. ASSUME NEW w \in Wagers, NEW m,
             wager' = [wager EXCEPT ![w] = m], registry' = registry,
             IsOpen(w), m.player_a = wager[w].player_a,
             m.status \in {"WAITING", "ACTIVE", "PENDING_APPROVAL"}
      PROVE  RegistryMatchesOpenWagers'
  <2>1. ASSUME NEW v \in Wagers
        PROVE  /\ wager'[v].player_a = wager[v].player_a
               /\ IsOpen(v)' <=> IsOpen(v)
    <3>1. wager'[v] = IF v = w THEN m ELSE wager[v]
      BY <1>1 DEF TypeOK
    <3>. QED BY <1>1, <3>1 DEF IsOpen
  <2>. QED BY <1>1, <2>1 DEF RegistryMatchesOpenWagers
<1>2. ASSUME NEW w \in Wagers, NEW m, m.status = "SETTLED",
             wager' = [wager EXCEPT ![w] = m], IsOpen(w), Unregister(w)
      PROVE  RegistryMatchesOpenWagers'
  <2>. DEFINE a == wager[w].player_a
  <2>1. a \in Wallets /\ registry[a] = w
    BY <1>2, <1>a DEF WellFunded, IsOpen, RegistryMatchesOpenWagers
  <2>2. ASSUME NEW q \in Wallets
        PROVE  registry'[q] = IF q = a THEN None ELSE registry[q]
    BY <1>2, <2>1 DEF Unregister, TypeOK
  <2>3. ASSUME NEW v \in Wagers
        PROVE  wager'[v] = IF v = w THEN m ELSE wager[v]
    BY <1>2 DEF TypeOK
  <2>4. ASSUME NEW q \in Wallets, NEW v \in Wagers
        PROVE  registry'[q] = v <=> (IsOpen(v)' /\ wager'[v].player_a = q)
    <3>1. CASE v = w
      BY <1>2, <2>1, <2>2, <2>3, <3>1 DEF IsOpen, RegistryMatchesOpenWagers
    <3>2. CASE v # w
      <4>1. wager'[v] = wager[v] /\ (IsOpen(v)' <=> IsOpen(v))
        BY <2>3, <3>2 DEF IsOpen
      <4>. QED BY <2>1, <2>2, <3>2, <4>1 DEF RegistryMatchesOpenWagers
    <3>. QED BY <3>1, <3>2
  <2>. QED BY <2>4 DEF RegistryMatchesOpenWagers
<1>3. ASSUME NEW p \in Wallets, NEW w \in Wagers, NEW stake \in Stakes,
             create_wager(p, w, stake)
      PROVE  RegistryMatchesOpenWagers'
  <2>1. /\ wager'[w].status = "WAITING" /\ wager'[w].player_a = p
        /\ \A v \in Wagers \ {w} : wager'[v] = wager[v]
    BY <1>3, <1>a DEF create_wager, TypeOK, NoWager
  <2>2. \A q \in Wallets : registry'[q] = IF q = p THEN w ELSE registry[q]
    BY <1>3 DEF create_wager, TypeOK
  <2>3. ~IsOpen(w) /\ registry[p] = None
    BY <1>3 DEF create_wager, IsOpen
  <2>4. ASSUME NEW q \in Wallets, NEW v \in Wagers
        PROVE  registry'[q] = v <=> (IsOpen(v)' /\ wager'[v].player_a = q)
    <3>1. CASE v = w
      BY <2>1, <2>2, <2>3, <3>1 DEF IsOpen, RegistryMatchesOpenWagers
    <3>2. CASE v # w
      <4>1. wager'[v] = wager[v] /\ (IsOpen(v)' <=> IsOpen(v))
        BY <2>1, <3>2 DEF IsOpen
      <4>. QED BY <2>2, <2>3, <3>2, <4>1 DEF RegistryMatchesOpenWagers
    <3>. QED BY <3>1, <3>2
  <2>. QED BY <2>4 DEF RegistryMatchesOpenWagers
<1>4. ASSUME NEW p \in Wallets, NEW w \in Wagers, request_accept_wager(p, w)
      PROVE  RegistryMatchesOpenWagers'
  <2>. DEFINE m == [wager[w] EXCEPT
                      !.challenger_escrow = @ + wager[w].stake_amount,
                      !.pending_challenger = p,
                      !.pending_at = now,
                      !.status = "PENDING_APPROVAL"]
  <2>1. m.player_a = wager[w].player_a /\ m.status = "PENDING_APPROVAL"
    BY <1>a DEF WagerMatch
  <2>2. wager' = [wager EXCEPT ![w] = m]
    BY <1>4, <1>a DEF request_accept_wager
  <2>. QED BY <1>1, <1>4, <2>1, <2>2 DEF request_accept_wager, IsOpen
<1>5. ASSUME NEW p \in Wallets, NEW w \in Wagers, approve_challenger(p, w)
      PROVE  RegistryMatchesOpenWagers'
  <2>. DEFINE m == [ChallengeCleared(wager[w]) EXCEPT
                      !.escrow = wager[w].escrow + wager[w].challenger_escrow,
                      !.player_b = wager[w].pending_challenger,
                      !.status = "ACTIVE",
                      !.accepted_at = now]
  <2>1. m.player_a = wager[w].player_a /\ m.status = "ACTIVE"
    BY <1>a DEF WagerMatch, ChallengeCleared
  <2>2. wager' = [wager EXCEPT ![w] = m]
    BY <1>5 DEF approve_challenger
  <2>. QED BY <1>1, <1>5, <2>1, <2>2 DEF approve_challenger, IsOpen
<1>6. ASSUME NEW w \in Wagers, RefundChallenger(w)
      PROVE  RegistryMatchesOpenWagers'
  <2>. DEFINE m == Reopened(wager[w])
  <2>1. m.player_a = wager[w].player_a /\ m.status = "WAITING"
    BY <1>a DEF WagerMatch, ChallengeCleared, Reopened
  <2>2. wager' = [wager EXCEPT ![w] = m]
    BY <1>6 DEF RefundChallenger
  <2>. QED BY <1>1, <1>6, <2>1, <2>2 DEF RefundChallenger, IsOpen
<1>7. ASSUME NEW w \in Wagers, NEW m \in WagerMatch, IsOpen(w),
             wager' = [wager EXCEPT ![w] = Settled(m)], Unregister(w)
      PROVE  RegistryMatchesOpenWagers'
  BY <1>2, <1>7 DEF Settled, WagerMatch
<1>8. ASSUME NEW w \in Wagers,
             \/ RefundCreator(w)
             \/ SplitStep(w)
             \/ \E winner \in Wallets : settle_wager(TREASURY, w, winner)
      PROVE  RegistryMatchesOpenWagers'
  BY <1>7, <1>8, <1>a
     DEF RefundCreator, SplitStep, SplitEscrow, settle_wager, IsOpen
<1>9. ASSUME NEW w \in Wagers, RefundBothEscrows(w)
      PROVE  RegistryMatchesOpenWagers'
  BY <1>7, <1>9, <1>a, ChallengeClearedType DEF RefundBothEscrows, IsOpen
<1>10. CASE \/ UNCHANGED vars
            \/ \E p \in Wallets, l \in Levels : LevelUp(p, l)
            \/ \E p \in Wallets, t \in LockExpiries : set_fight_lock(p, t)
            \/ Tick
  BY <1>10 DEF vars, LevelUp, set_fight_lock, Tick, RegistryMatchesOpenWagers, IsOpen
<1>. QED
  BY <1>3, <1>4, <1>5, <1>6, <1>8, <1>9, <1>10, StepCases DEF Effect

\* The strengthened invariant is inductive.
THEOREM Invariance == Spec => []IInv
<1>1. Init => IInv
  <2>2. WellFunded(NoWager)
    BY DEF WellFunded, NoWager
  <2>. QED BY <2>2, TypeOK_init, WalletAssumption
           DEF Init, IInv, EscrowMatchesStatus, RegistryMatchesOpenWagers, IsOpen, NoWager
<1>2. IInv /\ [Next]_vars => IInv'
  BY TypeOK_step, Funding_step, Registry_step DEF IInv
<1>. QED BY <1>1, <1>2, PTL DEF Spec

\* Escrows and statuses agree in every reachable state, for all constants.
THEOREM EscrowCorrect == Spec => []EscrowMatchesStatus
BY Invariance, PTL DEF IInv

\* A wallet's registry entry is exactly the open wager it created, for all
\* constants; so no wallet creates a second wager while its first is open.
THEOREM RegistryCorrect == Spec => []RegistryMatchesOpenWagers
BY Invariance, PTL DEF IInv

-----------------------------------------------------------------------------
(* Refinement: the contract implements StakeVault. *)

held == [w \in Wagers |-> [p \in Wallets |-> Claim(p, w)]]
done == {w \in Wagers : wager[w].status = "SETTLED"}

\* Replacing one object changes the claims on that object only.
LEMMA HeldFrame ==
  ASSUME TypeOK, NEW w \in Wagers, NEW m, wager' = [wager EXCEPT ![w] = m]
  PROVE  held' = [held EXCEPT ![w] = [p \in Wallets |-> Owed(p, m)]]
<1>1. ASSUME NEW v \in Wagers
      PROVE  wager'[v] = IF v = w THEN m ELSE wager[v]
  BY DEF TypeOK
<1>2. held' = [v \in Wagers |-> [p \in Wallets |-> Owed(p, wager'[v])]]
  BY DEF held, Claim, Owed
<1>. DEFINE new == [p \in Wallets |-> Owed(p, m)]
<1>3. held' = [v \in Wagers |-> IF v = w THEN new ELSE held[v]]
  <2>1. ASSUME NEW v \in Wagers
        PROVE  [p \in Wallets |-> Owed(p, wager'[v])] = IF v = w THEN new ELSE held[v]
    <3>1. CASE v = w
      BY <1>1, <3>1
    <3>2. CASE v # w
      <4>1. held[v] = [p \in Wallets |-> Owed(p, wager[v])]
        BY DEF held, Claim
      <4>. QED BY <1>1, <3>2, <4>1
    <3>. QED BY <3>1, <3>2
  <2>. HIDE DEF new
  <2>. QED BY <1>2, <2>1, Zenon
<1>4. held = [v \in Wagers |-> held[v]]
  BY DEF held
<1>. HIDE DEF new
<1>5. held' = [held EXCEPT ![w] = new]
  BY <1>3, <1>4
<1>. QED BY <1>5 DEF new

\* It ends the wager exactly if the new object is SETTLED.
LEMMA DoneFrame ==
  ASSUME TypeOK, NEW w \in Wagers, NEW m, wager' = [wager EXCEPT ![w] = m],
         wager[w].status # "SETTLED"
  PROVE  done' = IF m.status = "SETTLED" THEN done \cup {w} ELSE done
<1>1. ASSUME NEW v \in Wagers
      PROVE  wager'[v] = IF v = w THEN m ELSE wager[v]
  BY DEF TypeOK
<1>. QED BY <1>1 DEF done

\* The wallets a well funded object owes a stake to, by status.
LEMMA HoldersByStatus ==
  ASSUME NEW w \in Wagers, wager[w] \in WagerMatch, WellFunded(wager[w])
  PROVE  /\ wager[w].status \in {"ABSENT", "SETTLED"} => Vault!Holders(w) = {}
         /\ wager[w].status = "WAITING" => Vault!Holders(w) = {wager[w].player_a}
         /\ wager[w].status = "PENDING_APPROVAL" =>
              Vault!Holders(w) = {wager[w].player_a, wager[w].pending_challenger}
         /\ wager[w].status = "ACTIVE" => Vault!Holders(w) = Participants(w)
         /\ \A p \in Vault!Holders(w) : held[w][p] = wager[w].stake_amount
         /\ \A p \in Wallets \ Vault!Holders(w) : held[w][p] = 0
<1>1. \A p \in Wallets : held[w][p] = Owed(p, wager[w])
  BY DEF held, Claim
<1>2. Vault!Holders(w) = {p \in Wallets : Owed(p, wager[w]) > 0}
  BY DEF Vault!Holders, Claim
<1>3. wager[w].stake_amount \in Nat
  BY DEF WagerMatch
<1>. QED BY <1>1, <1>2, <1>3, WalletAssumption, NumberAssumption
         DEF Owed, WellFunded, NoWager, Participants

\* One refund of x to p, written over every purse.
LEMMA TransferAll ==
  ASSUME purse \in [Wallets -> Nat], NEW p \in Wallets, NEW x \in Nat, Transfer(p, x)
  PROVE  purse' = [q \in Wallets |-> purse[q] + (IF q \in {p} THEN x ELSE 0)]
<1>1. purse' = [purse EXCEPT ![p] = purse[p] + x]
  BY DEF Transfer
<1>2. purse' = [q \in Wallets |-> IF q = p THEN purse[p] + x ELSE purse[q]]
  BY <1>1
<1>3. ASSUME NEW q \in Wallets
      PROVE  (IF q = p THEN purse[p] + x ELSE purse[q])
               = purse[q] + (IF q \in {p} THEN x ELSE 0)
  BY <1>3
<1>. QED BY <1>2, <1>3

\* Two refunds of x, written over every purse.
LEMMA Transfer2All ==
  ASSUME purse \in [Wallets -> Nat], NEW p \in Wallets, NEW q \in Wallets, p # q,
         NEW x \in Nat, Transfer2(p, x, q, x)
  PROVE  purse' = [r \in Wallets |-> purse[r] + (IF r \in {p, q} THEN x ELSE 0)]
<1>1. ASSUME NEW r \in Wallets
      PROVE  purse[r] + (IF r = p THEN x ELSE 0) + (IF r = q THEN x ELSE 0)
               = purse[r] + (IF r \in {p, q} THEN x ELSE 0)
  OBVIOUS
<1>. QED BY <1>1 DEF Transfer2

\* Refunding the last stakes and settling the wager is the vault's GiveBack.
LEMMA GiveBackAll ==
  ASSUME IInv, NEW w \in Wagers, NEW m, NEW P \in SUBSET Vault!Holders(w),
         P # {},
         wager' = [wager EXCEPT ![w] = m],
         \A q \in Wallets : Owed(q, m) = IF q \in P THEN 0 ELSE Owed(q, wager[w]),
         m.status = "SETTLED", P = Vault!Holders(w),
         wager[w].status # "SETTLED",
         purse' = [q \in Wallets |-> purse'[q]],
         \A q \in Wallets :
           purse'[q] = purse[q] + (IF q \in P THEN wager[w].stake_amount ELSE 0)
  PROVE  Vault!GiveBack(w, P)
<1>1. \A q \in P : held[w][q] = wager[w].stake_amount
  BY HoldersByStatus DEF IInv, TypeOK, EscrowMatchesStatus
<1>2. purse' = [q \in Wallets |-> purse[q] + (IF q \in P THEN held[w][q] ELSE 0)]
  BY <1>1
<1>3. held' = [held EXCEPT ![w] = [q \in Wallets |-> IF q \in P THEN 0 ELSE @[q]]]
  <2>1. \A q \in Wallets : held[w][q] = Owed(q, wager[w])
    BY DEF held, Claim
  <2>2. [q \in Wallets |-> Owed(q, m)]
          = [q \in Wallets |-> IF q \in P THEN 0 ELSE held[w][q]]
    BY <2>1
  <2>3. held' = [held EXCEPT ![w] = [q \in Wallets |-> Owed(q, m)]]
    BY HeldFrame DEF IInv
  <2>. QED BY <2>2, <2>3
<1>4. done' = done \cup {w}
  BY DoneFrame DEF IInv
<1>. QED BY <1>2, <1>3, <1>4 DEF Vault!GiveBack, held, done

\* A step of the contract is a step of the vault, or leaves coins and claims be.
LEMMA VaultStep ==
  ASSUME IInv, [Next]_vars
  PROVE  Vault!Next \/ UNCHANGED <<purse, held, done>>
<1>. USE WalletAssumption DEF IInv
<1>a. \A w \in Wagers : wager[w] \in WagerMatch /\ WellFunded(wager[w])
  BY DEF TypeOK, EscrowMatchesStatus
<1>1. CASE UNCHANGED <<wager, purse>>
  <2>1. held' = held /\ done' = done
    BY <1>1 DEF held, done, Claim, Owed
  <2>. QED BY <1>1, <2>1
<1>2. ASSUME NEW p \in Wallets, NEW w \in Wagers, NEW stake \in Stakes,
             create_wager(p, w, stake)
      PROVE  Vault!Deposit(w, p, stake)
  <2>. DEFINE m == [NoWager EXCEPT !.player_a = p,
                                   !.player_a_level = level[p],
                                   !.stake_amount = stake,
                                   !.escrow = stake,
                                   !.status = "WAITING",
                                   !.created_at = now]
  <2>1. wager' = [wager EXCEPT ![w] = m] /\ wager[w].status = "ABSENT"
    BY <1>2 DEF create_wager
  <2>2. \A q \in Wallets : Owed(q, m) = IF q = p THEN stake ELSE 0
    BY DEF Owed, NoWager
  <2>m. m.status = "WAITING"
    BY DEF NoWager
  <2>. HIDE DEF m
  <2>3. held' = [held EXCEPT ![w] = [q \in Wallets |-> Owed(q, m)]]
    BY <2>1, HeldFrame
  <2>4. held[w] = [q \in Wallets |-> 0]
    BY <1>a, <2>1, HoldersByStatus DEF held
  <2>5. held' = [held EXCEPT ![w][p] = stake]
    BY <2>2, <2>3, <2>4
  <2>6. done' = done
    BY <2>1, <2>m, DoneFrame
  <2>7. w \notin done
    BY <2>1 DEF done
  <2>. QED BY <1>2, <1>a, <2>1, <2>5, <2>6, <2>7, HoldersByStatus
           DEF create_wager, Vault!Deposit, held, done
<1>3. ASSUME NEW p \in Wallets, NEW w \in Wagers, request_accept_wager(p, w)
      PROVE  Vault!Deposit(w, p, wager[w].stake_amount)
  <2>. DEFINE m == [wager[w] EXCEPT
                      !.challenger_escrow = @ + wager[w].stake_amount,
                      !.pending_challenger = p,
                      !.pending_at = now,
                      !.status = "PENDING_APPROVAL"]
              x == wager[w].stake_amount
  <2>1. wager' = [wager EXCEPT ![w] = m]
    BY <1>3, <1>a DEF request_accept_wager
  <2>2. /\ wager[w].status = "WAITING" /\ p # wager[w].player_a
        /\ x \in Stakes /\ wager[w].player_b = None
    BY <1>3, <1>a DEF request_accept_wager, WellFunded
  <2>3. \A q \in Wallets : Owed(q, m) = IF q \in {wager[w].player_a, p} THEN x ELSE 0
    BY <1>a, <2>2 DEF Owed, WagerMatch
  <2>m. m.status = "PENDING_APPROVAL"
    BY <1>a DEF WagerMatch
  <2>. HIDE DEF m
  <2>4. held' = [held EXCEPT ![w] = [q \in Wallets |-> Owed(q, m)]]
    BY <2>1, HeldFrame
  <2>5. Vault!Holders(w) = {wager[w].player_a}
    BY <1>a, <2>2, HoldersByStatus
  <2>6. /\ \A q \in Wallets : held[w][q] = IF q = wager[w].player_a THEN x ELSE 0
        /\ held[w] = [q \in Wallets |-> held[w][q]]
    BY <1>a, <2>2, <2>5, HoldersByStatus DEF held
  <2>7. held' = [held EXCEPT ![w][p] = x]
    <3>1. [q \in Wallets |-> Owed(q, m)] = [held[w] EXCEPT ![p] = x]
      BY <2>2, <2>3, <2>6
    <3>. QED BY <2>4, <3>1
  <2>8. done' = done /\ w \notin done
    BY <2>1, <2>2, <2>m, DoneFrame DEF done
  <2>9. /\ 0 < x /\ x <= purse[p]
        /\ purse' = [purse EXCEPT ![p] = @ - x]
    BY <1>3, <2>2, NumberAssumption DEF request_accept_wager
  <2>10. /\ p \notin Vault!Holders(w)
         /\ \A q, r \in Vault!Holders(w) : q = r /\ held[w][q] = x
    BY <1>a, <2>2, <2>5, <2>6, WellFunded(wager[w]) DEF WellFunded
  <2>. QED BY <2>7, <2>8, <2>9, <2>10 DEF Vault!Deposit, held, done
<1>4. ASSUME NEW p \in Wallets, NEW w \in Wagers, approve_challenger(p, w)
      PROVE  UNCHANGED <<purse, held, done>>
  <2>. DEFINE m == [ChallengeCleared(wager[w]) EXCEPT
                      !.escrow = wager[w].escrow + wager[w].challenger_escrow,
                      !.player_b = wager[w].pending_challenger,
                      !.status = "ACTIVE",
                      !.accepted_at = now]
  <2>1. wager' = [wager EXCEPT ![w] = m] /\ wager[w].status = "PENDING_APPROVAL"
    BY <1>4 DEF approve_challenger
  <2>2. \A q \in Wallets : Owed(q, m) = Owed(q, wager[w])
    BY <1>a, <2>1 DEF Owed, WagerMatch, WellFunded, ChallengeCleared
  <2>m. m.status = "ACTIVE"
    BY <1>a DEF WagerMatch, ChallengeCleared
  <2>. HIDE DEF m
  <2>3. held' = [held EXCEPT ![w] = [q \in Wallets |-> Owed(q, m)]]
    BY <2>1, HeldFrame
  <2>4. held[w] = [q \in Wallets |-> Owed(q, wager[w])]
    BY DEF held, Claim
  <2>5. [q \in Wallets |-> Owed(q, m)] = held[w]
    BY <2>2, <2>4
  <2>6. held' = held
    <3>1. held = [v \in Wagers |-> held[v]]
      BY DEF held
    <3>. QED BY <2>3, <2>5, <3>1
  <2>7. done' = done
    BY <2>1, <2>m, DoneFrame
  <2>. QED BY <1>4, <2>6, <2>7 DEF approve_challenger
<1>5. ASSUME NEW w \in Wagers, RefundChallenger(w)
      PROVE  \E P \in SUBSET Wallets : Vault!GiveBack(w, P)
  <2>. DEFINE m == Reopened(wager[w])
              c == wager[w].pending_challenger
  <2>1. wager' = [wager EXCEPT ![w] = m] /\ wager[w].status = "PENDING_APPROVAL"
    BY <1>5 DEF RefundChallenger
  <2>2. /\ c \in Wallets /\ c # wager[w].player_a /\ wager[w].player_a \in Wallets
        /\ wager[w].player_b = None
        /\ wager[w].challenger_escrow = wager[w].stake_amount
    BY <1>a, <2>1 DEF WellFunded
  <2>3. \A q \in Wallets : Owed(q, m) = IF q \in {c} THEN 0 ELSE Owed(q, wager[w])
    BY <1>a, <2>1, <2>2 DEF Owed, WagerMatch, ChallengeCleared, Reopened
  <2>4. m.status = "WAITING"
    BY <1>a DEF WagerMatch, ChallengeCleared, Reopened
  <2>. HIDE DEF m
  <2>5. Vault!Holders(w) = {wager[w].player_a, c}
    BY <1>a, <2>1, HoldersByStatus
  <2>6. purse' = [q \in Wallets |->
                    purse[q] + (IF q \in {c} THEN wager[w].stake_amount ELSE 0)]
    BY <1>5, <1>a, <2>2, TransferAll DEF RefundChallenger, TypeOK, WagerMatch
  <2>. PICK P \in SUBSET Wallets : P = {c}
    BY <2>2
  <2>7. P \in SUBSET Vault!Holders(w) /\ P # {} /\ P # Vault!Holders(w)
    BY <2>2, <2>5
  <2>8. /\ \A q \in Wallets : Owed(q, m) = IF q \in P THEN 0 ELSE Owed(q, wager[w])
        /\ purse' = [q \in Wallets |-> purse'[q]]
        /\ \A q \in Wallets :
             purse'[q] = purse[q] + (IF q \in P THEN wager[w].stake_amount ELSE 0)
        /\ m.status # "SETTLED"
        /\ wager[w].status # "SETTLED"
    BY <2>1, <2>3, <2>4, <2>5, <2>6, <2>7
  <2>9. Vault!GiveBack(w, P)
    <3>1. \A q \in P : held[w][q] = wager[w].stake_amount
      BY <1>a, <2>7, HoldersByStatus
    <3>2. purse' = [q \in Wallets |-> purse[q] + (IF q \in P THEN held[w][q] ELSE 0)]
      BY <2>8, <3>1
    <3>3. \A q \in Wallets : held[w][q] = Owed(q, wager[w])
      BY DEF held, Claim
    <3>4. [q \in Wallets |-> Owed(q, m)]
            = [q \in Wallets |-> IF q \in P THEN 0 ELSE held[w][q]]
      BY <2>8, <3>3
    <3>5. held' = [held EXCEPT ![w] = [q \in Wallets |-> Owed(q, m)]]
      BY <2>1, HeldFrame
    <3>6. held' = [held EXCEPT ![w] =
                     [q \in Wallets |-> IF q \in P THEN 0 ELSE @[q]]]
      BY <3>4, <3>5
    <3>7. done' = done
      BY <2>1, <2>8, DoneFrame
    <3>. QED BY <2>7, <3>2, <3>6, <3>7 DEF Vault!GiveBack, held, done
  <2>. QED BY <2>9
<1>6. ASSUME NEW w \in Wagers, RefundCreator(w)
      PROVE  \E P \in SUBSET Wallets : Vault!GiveBack(w, P)
  <2>. DEFINE m == Settled(wager[w])
              a == wager[w].player_a
  <2>1. wager' = [wager EXCEPT ![w] = m] /\ wager[w].status = "WAITING"
    BY <1>6 DEF RefundCreator
  <2>2. a \in Wallets /\ wager[w].escrow = wager[w].stake_amount
    BY <1>a, <2>1 DEF WellFunded
  <2>3. m.status = "SETTLED"
    BY <1>a DEF WagerMatch, Settled
  <2>4. Vault!Holders(w) = {a}
    BY <1>a, <2>1, HoldersByStatus
  <2>5. \A q \in Wallets : Owed(q, m) = IF q \in {a} THEN 0 ELSE Owed(q, wager[w])
    BY <1>a, <2>1, <2>3 DEF Owed, WellFunded
  <2>. HIDE DEF m
  <2>6. purse' = [q \in Wallets |->
                    purse[q] + (IF q \in {a} THEN wager[w].stake_amount ELSE 0)]
    BY <1>6, <1>a, <2>2, TransferAll DEF RefundCreator, TypeOK, WagerMatch
  <2>. PICK P \in SUBSET Wallets : P = {a}
    BY <2>2
  <2>7. P \in SUBSET Vault!Holders(w) /\ P # {} /\ P = Vault!Holders(w)
    BY <2>4
  <2>8. /\ \A q \in Wallets : Owed(q, m) = IF q \in P THEN 0 ELSE Owed(q, wager[w])
        /\ purse' = [q \in Wallets |-> purse'[q]]
        /\ \A q \in Wallets :
             purse'[q] = purse[q] + (IF q \in P THEN wager[w].stake_amount ELSE 0)
        /\ m.status = "SETTLED" /\ P = Vault!Holders(w)
        /\ wager[w].status # "SETTLED"
    BY <2>1, <2>3, <2>4, <2>5, <2>6, <2>7
  <2>9. Vault!GiveBack(w, P)
    BY <2>1, <2>7, <2>8, GiveBackAll
  <2>. QED BY <2>9
<1>7. ASSUME NEW w \in Wagers, RefundBothEscrows(w)
      PROVE  \E P \in SUBSET Wallets : Vault!GiveBack(w, P)
  <2>. DEFINE m == Settled(ChallengeCleared(wager[w]))
              a == wager[w].player_a
              c == wager[w].pending_challenger
              x == wager[w].stake_amount
  <2>1. wager' = [wager EXCEPT ![w] = m] /\ wager[w].status = "PENDING_APPROVAL"
    BY <1>7 DEF RefundBothEscrows
  <2>2. /\ a \in Wallets /\ c \in Wallets /\ a # c
        /\ wager[w].escrow = x /\ wager[w].challenger_escrow = x /\ x \in Nat
    BY <1>a, <2>1 DEF WellFunded, WagerMatch
  <2>3. m.status = "SETTLED"
    BY <1>a, ChallengeClearedType DEF WagerMatch, Settled
  <2>4. Vault!Holders(w) = {a, c}
    BY <1>a, <2>1, HoldersByStatus
  <2>5. \A q \in Wallets :
          Owed(q, m) = IF q \in {a, c} THEN 0 ELSE Owed(q, wager[w])
    BY <1>a, <2>1, <2>3 DEF Owed, WellFunded
  <2>. HIDE DEF m
  <2>6. purse' = [q \in Wallets |-> purse[q] + (IF q \in {a, c} THEN x ELSE 0)]
    BY <1>7, <2>2, Transfer2All DEF RefundBothEscrows, TypeOK
  <2>. PICK P \in SUBSET Wallets : P = {a, c}
    BY <2>2
  <2>7. P \in SUBSET Vault!Holders(w) /\ P # {} /\ P = Vault!Holders(w)
    BY <2>4
  <2>8. /\ \A q \in Wallets : Owed(q, m) = IF q \in P THEN 0 ELSE Owed(q, wager[w])
        /\ purse' = [q \in Wallets |-> purse'[q]]
        /\ \A q \in Wallets :
             purse'[q] = purse[q] + (IF q \in P THEN wager[w].stake_amount ELSE 0)
        /\ m.status = "SETTLED" /\ P = Vault!Holders(w)
        /\ wager[w].status # "SETTLED"
    BY <2>1, <2>3, <2>4, <2>5, <2>6, <2>7
  <2>9. Vault!GiveBack(w, P)
    BY <2>1, <2>7, <2>8, GiveBackAll
  <2>. QED BY <2>9
<1>8. ASSUME NEW w \in Wagers, SplitStep(w)
      PROVE  \E P \in SUBSET Wallets : Vault!GiveBack(w, P)
  <2>. DEFINE m == Settled(wager[w])
              a == wager[w].player_a
              b == wager[w].player_b
              x == wager[w].stake_amount
  <2>1. wager' = [wager EXCEPT ![w] = m] /\ wager[w].status = "ACTIVE"
    BY <1>8 DEF SplitStep, SplitEscrow
  <2>2. /\ a \in Wallets /\ b \in Wallets /\ a # b
        /\ wager[w].escrow = 2 * x /\ x \in Nat
    BY <1>a, <2>1 DEF WellFunded, WagerMatch
  <2>3. m.status = "SETTLED"
    BY <1>a DEF WagerMatch, Settled
  <2>4. Vault!Holders(w) = {a, b}
    BY <1>a, <2>1, HoldersByStatus DEF Participants
  <2>5. \A q \in Wallets :
          Owed(q, m) = IF q \in {a, b} THEN 0 ELSE Owed(q, wager[w])
    BY <1>a, <2>1, <2>3 DEF Owed, WellFunded
  <2>. HIDE DEF m
  <2>6. purse' = [q \in Wallets |-> purse[q] + (IF q \in {a, b} THEN x ELSE 0)]
    <3>1. Transfer2(a, x, b, x)
      <4>1. PICK y \in {x, wager[w].escrow \div 2} : SplitEscrow(w, y)
        BY <1>8 DEF SplitStep
      <4>2. y = x /\ wager[w].escrow - y = x
        BY <2>2, <4>1
      <4>. QED BY <4>1, <4>2 DEF SplitEscrow
    <3>. QED BY <2>2, <3>1, Transfer2All DEF TypeOK
  <2>. PICK P \in SUBSET Wallets : P = {a, b}
    BY <2>2
  <2>7. P \in SUBSET Vault!Holders(w) /\ P # {} /\ P = Vault!Holders(w)
    BY <2>4
  <2>8. /\ \A q \in Wallets : Owed(q, m) = IF q \in P THEN 0 ELSE Owed(q, wager[w])
        /\ purse' = [q \in Wallets |-> purse'[q]]
        /\ \A q \in Wallets :
             purse'[q] = purse[q] + (IF q \in P THEN wager[w].stake_amount ELSE 0)
        /\ m.status = "SETTLED" /\ P = Vault!Holders(w)
        /\ wager[w].status # "SETTLED"
    BY <2>1, <2>3, <2>4, <2>5, <2>6, <2>7
  <2>9. Vault!GiveBack(w, P)
    BY <2>1, <2>7, <2>8, GiveBackAll
  <2>. QED BY <2>9
<1>9. ASSUME NEW w \in Wagers, NEW winner \in Wallets,
             settle_wager(TREASURY, w, winner)
      PROVE  \E loser \in Wallets : Vault!Award(w, winner, loser)
  <2>. DEFINE m == Settled(wager[w])
              x == wager[w].stake_amount
  <2>1. wager' = [wager EXCEPT ![w] = m] /\ wager[w].status = "ACTIVE"
    BY <1>9 DEF settle_wager
  <2>2. PICK loser \in Wallets : winner # loser /\ {winner, loser} = Participants(w)
    BY <1>9, <1>a, <2>1 DEF settle_wager, WellFunded, Participants
  <2>3. wager[w].escrow = 2 * x /\ x \in Nat
    BY <1>a, <2>1 DEF WellFunded, WagerMatch
  <2>4. m.status = "SETTLED"
    BY <1>a DEF WagerMatch, Settled
  <2>5. Vault!Holders(w) = {winner, loser}
    BY <1>a, <2>1, <2>2, HoldersByStatus
  <2>6. \A q \in Wallets : Owed(q, m) = 0
    BY <2>4 DEF Owed
  <2>. HIDE DEF m
  <2>7. held[w][winner] = x /\ held[w][loser] = x
    BY <1>a, <2>5, HoldersByStatus
  <2>8. held' = [held EXCEPT ![w] = [p \in Wallets |-> 0]]
    <3>1. held' = [held EXCEPT ![w] = [q \in Wallets |-> Owed(q, m)]]
      BY <2>1, HeldFrame
    <3>2. [q \in Wallets |-> Owed(q, m)] = [q \in Wallets |-> 0]
      BY <2>6
    <3>. QED BY <3>1, <3>2
  <2>9. done' = done \cup {w}
    BY <2>1, <2>4, DoneFrame
  <2>10. Vault!Fee(x + x) = PlatformFee(2 * x)
    BY <2>3 DEF Vault!Fee, PlatformFee, PLATFORM_FEE_BPS, BPS_BASE
  <2>11. purse' = [p \in Wallets |->
                     purse[p] + (IF p = winner THEN x + x - Vault!Fee(x + x) ELSE 0)
                              + (IF p = TREASURY THEN Vault!Fee(x + x) ELSE 0)]
    <3>. DEFINE fee == PlatformFee(2 * x)
    <3>1. fee \in Nat
      BY <2>3, FeeBound
    <3>2. purse' = [p \in Wallets |-> purse[p] + (IF p = TREASURY THEN fee ELSE 0)
                                     + (IF p = winner THEN 2 * x - fee ELSE 0)]
      BY <1>9, <2>3 DEF settle_wager, Transfer2
    <3>. HIDE DEF fee
    <3>3. ASSUME NEW p \in Wallets
          PROVE  purse[p] + (IF p = TREASURY THEN fee ELSE 0)
                          + (IF p = winner THEN 2 * x - fee ELSE 0)
                   = purse[p] + (IF p = winner THEN x + x - fee ELSE 0)
                              + (IF p = TREASURY THEN fee ELSE 0)
      BY <2>3, <3>1 DEF TypeOK
    <3>4. purse' = [p \in Wallets |-> purse[p] + (IF p = winner THEN x + x - fee ELSE 0)
                                     + (IF p = TREASURY THEN fee ELSE 0)]
      BY <3>2, <3>3
    <3>. QED BY <2>10, <3>4 DEF fee
  <2>. DEFINE total == held[w][winner] + held[w][loser]
  <2>12. purse' = [p \in Wallets |->
                     purse[p] + (IF p = winner THEN total - Vault!Fee(total) ELSE 0)
                              + (IF p = TREASURY THEN Vault!Fee(total) ELSE 0)]
    <3>1. total = x + x
      BY <2>7
    <3>2. Vault!Fee(total) = Vault!Fee(x + x)
      BY <3>1 DEF Vault!Fee
    <3>3. ASSUME NEW p \in Wallets
          PROVE  purse[p] + (IF p = winner THEN x + x - Vault!Fee(x + x) ELSE 0)
                          + (IF p = TREASURY THEN Vault!Fee(x + x) ELSE 0)
                   = purse[p] + (IF p = winner THEN total - Vault!Fee(total) ELSE 0)
                              + (IF p = TREASURY THEN Vault!Fee(total) ELSE 0)
      <4>. DEFINE f == Vault!Fee(total)
                  g == Vault!Fee(x + x)
      <4>1. f = g
        BY <3>2
      <4>0. x \in Nat /\ total \in Nat /\ g \in Nat /\ f \in Nat
        BY <2>3, <2>10, <3>1, <4>1, FeeBound
      <4>. HIDE DEF total, f, g, x
      <4>2. /\ (IF p = winner THEN x + x - g ELSE 0) = (IF p = winner THEN total - f ELSE 0)
            /\ (IF p = TREASURY THEN g ELSE 0) = (IF p = TREASURY THEN f ELSE 0)
        BY <3>1, <4>0, <4>1
      <4>3. purse[p] + (IF p = winner THEN x + x - g ELSE 0)
                     + (IF p = TREASURY THEN g ELSE 0)
              = purse[p] + (IF p = winner THEN total - f ELSE 0)
                         + (IF p = TREASURY THEN f ELSE 0)
        BY <4>2
      <4>. QED BY <4>3 DEF f, g
    <3>. HIDE DEF total
    <3>. QED BY <2>11, <3>3, Zenon
  <2>13. winner # loser /\ Vault!Holders(w) = {winner, loser}
    BY <2>2, <2>5
  <2>. QED BY <2>8, <2>9, <2>12, <2>13 DEF Vault!Award, held, done
<1>10. ASSUME NEW w \in Wagers, NEW P \in SUBSET Wallets, Vault!GiveBack(w, P)
       PROVE  Vault!Next
  BY <1>10 DEF Vault!Next
<1>11. ASSUME NEW w \in Wagers, NEW p \in Wallets, NEW x \in Stakes, Vault!Deposit(w, p, x)
       PROVE  Vault!Next
  BY <1>11 DEF Vault!Next
<1>12. CASE \/ UNCHANGED vars
            \/ \E p \in Wallets, l \in Levels : LevelUp(p, l)
            \/ \E p \in Wallets, t \in LockExpiries : set_fight_lock(p, t)
            \/ Tick
  BY <1>1, <1>12 DEF vars, LevelUp, set_fight_lock, Tick
<1>13. ASSUME NEW p \in Wallets, NEW w \in Wagers, request_accept_wager(p, w)
       PROVE  Vault!Next
  <2>1. wager[w].stake_amount \in Stakes
    BY <1>13, <1>a DEF request_accept_wager, WellFunded
  <2>2. PICK x \in Stakes : x = wager[w].stake_amount
    BY <2>1
  <2>3. Vault!Deposit(w, p, x)
    BY <1>3, <1>13, <2>2 DEF Vault!Deposit
  <2>. QED BY <1>11, <2>3
<1>. QED
  BY <1>2, <1>4, <1>5, <1>6, <1>7, <1>8, <1>9, <1>10, <1>11, <1>12, <1>13, StepCases
     DEF Effect, Vault!Next

\* The initial state of the contract is the initial state of the vault.
LEMMA VaultInit == Init => Vault!Init
BY DEF Init, Vault!Init, Claim, Owed, NoWager

\* The contract implements the vault: for every set of wallets, wagers and
\* stakes, no sequence of calls moves a stake except back to its owner or, once,
\* to a winner of a fight both sides paid for.
THEOREM Refinement == Spec => ImplementsVault
<1>1. IInv /\ [Next]_vars => [Vault!Next]_(Vault!vaultVars)
  BY VaultStep DEF Vault!vaultVars, held, done
<1>. QED BY <1>1, VaultInit, Invariance, PTL DEF Spec, ImplementsVault, Vault!Spec

-----------------------------------------------------------------------------
(* Sums over finite sets.  A sum is a fold, which is a recursive function on  *)
(* the subsets of the set; induction over these subsets says what it does.    *)

\* Induction over the subsets of a finite set.
LEMMA SubsetInduction ==
  ASSUME NEW S, IsFiniteSet(S), NEW Good,
         \A T \in SUBSET S : (\A U \in SUBSET T : U # T => U \in Good) => T \in Good
  PROVE  SUBSET S \subseteq Good
<1>. DEFINE R == StrictSubsetOrdering(S)
            B == {T \in SUBSET S : T \notin Good}
<1>1. SUFFICES ASSUME B # {} PROVE FALSE
  OBVIOUS
<1>2. IsWellFoundedOn(R, FiniteSubsetsOf(S))
  BY FS_StrictSubsetOrderingWellFounded
<1>3. B \subseteq FiniteSubsetsOf(S)
  <2>1. ASSUME NEW T \in B PROVE T \in FiniteSubsetsOf(S)
    BY FS_Subset DEF FiniteSubsetsOf
  <2>. QED BY <2>1
<1>4. \E T \in B : \A U \in B : <<U, T>> \notin R
  <2>. HIDE DEF R, B
  <2>. QED BY <1>1, <1>2, <1>3, WFMin
<1>5. PICK T \in B : \A U \in B : <<U, T>> \notin R
  BY <1>4
<1>6. ASSUME NEW U \in SUBSET T, U # T
      PROVE  U \in Good
  <2>1. <<U, T>> \in R
    BY <1>6 DEF StrictSubsetOrdering
  <2>. QED BY <2>1, <1>5
<1>. QED BY <1>5, <1>6

\* g adds up f over every subset of S, one chosen element after the other: the
\* function that a sum over S is defined by.
Chosen(s) == CHOOSE x \in s : TRUE
AddsUp(g, f, S) ==
  g = [s \in SUBSET S |-> IF s = {} THEN 0 ELSE f[Chosen(s)] + g[s \ {Chosen(s)}]]

\* A chosen element is one of the set.
LEMMA ChosenIn == \A s : s # {} => Chosen(s) \in s
BY DEF Chosen

\* What such a function does on a set.
LEMMA AddsUpAt ==
  ASSUME NEW g, NEW f, NEW S, AddsUp(g, f, S), NEW s \in SUBSET S
  PROVE  /\ s = {} => g[s] = 0
         /\ s # {} => g[s] = f[Chosen(s)] + g[s \ {Chosen(s)}]
BY DEF AddsUp

\* Two such functions agree where both are defined and the summands agree.
LEMMA AddsUpSame ==
  ASSUME NEW g, NEW f, NEW S, AddsUp(g, f, S),
         NEW h, NEW e, NEW T, AddsUp(h, e, T),
         NEW U, IsFiniteSet(U), U \subseteq S, U \subseteq T, \A x \in U : f[x] = e[x]
  PROVE  g[U] = h[U]
<1>. DEFINE Good == {s \in SUBSET U : g[s] = h[s]}
<1>1. ASSUME NEW s \in SUBSET U, \A r \in SUBSET s : r # s => r \in Good
      PROVE  s \in Good
  <2>0. s \in SUBSET S /\ s \in SUBSET T
    OBVIOUS
  <2>a. /\ s = {} => g[s] = 0
        /\ s # {} => g[s] = f[Chosen(s)] + g[s \ {Chosen(s)}]
    <3>. HIDE DEF Good
    <3>. QED BY <2>0, AddsUpAt
  <2>b. /\ s = {} => h[s] = 0
        /\ s # {} => h[s] = e[Chosen(s)] + h[s \ {Chosen(s)}]
    <3>. HIDE DEF Good
    <3>. QED BY <2>0, AddsUpAt
  <2>1. CASE s = {}
    BY <2>1, <2>a, <2>b
  <2>2. CASE s # {}
    <3>1. Chosen(s) \in s
      BY <2>2, ChosenIn
    <3>2. s \ {Chosen(s)} \in Good
      BY <3>1, <1>1
    <3>. QED BY <2>2, <2>a, <2>b, <3>1, <3>2
  <2>. QED BY <2>1, <2>2
<1>2. SUBSET U \subseteq Good
  <2>. HIDE DEF Good
  <2>. QED BY <1>1, SubsetInduction
<1>. QED BY <1>2

\* There is such a function.
LEMMA AddsUpExists ==
  ASSUME NEW f, NEW S, IsFiniteSet(S)
  PROVE  \E g : AddsUp(g, f, S)
<1>. DEFINE Good == {T \in SUBSET S : \E g : AddsUp(g, f, T)}
<1>1. ASSUME NEW T \in SUBSET S, \A U \in SUBSET T : U # T => U \in Good
      PROVE  T \in Good
  <2>. DEFINE G(U) == CHOOSE g : AddsUp(g, f, U)
  <2>. DEFINE g == [s \in SUBSET T |->
                IF s = {} THEN 0 ELSE f[Chosen(s)] + G(s \ {Chosen(s)})[s \ {Chosen(s)}]]
  <2>1. ASSUME NEW U \in SUBSET T, U # T
        PROVE  AddsUp(G(U), f, U)
    <3>1. \E k : AddsUp(k, f, U)
      BY <2>1, <1>1
    <3>. QED BY <3>1
  <2>2. ASSUME NEW U \in SUBSET T, U # T
        PROVE  g[U] = G(U)[U]
    <3>1. CASE U = {}
      <4>1. G(U)[U] = 0
        <5>1. AddsUp(G(U), f, U) /\ U \in SUBSET U
          <6>. HIDE DEF G, g
          <6>. QED BY <2>1, <2>2
        <5>. HIDE DEF G, g
        <5>. QED BY <3>1, <5>1, AddsUpAt
      <4>. QED BY <3>1, <4>1
    <3>2. CASE U # {}
      <4>. DEFINE V == U \ {Chosen(U)}
      <4>1. V \in SUBSET U /\ V # U /\ V \in SUBSET T /\ V # T
        BY <3>2, ChosenIn
      <4>2. g[U] = f[Chosen(U)] + G(V)[V]
        BY <3>2
      <4>3. G(U)[U] = f[Chosen(U)] + G(U)[V]
        <5>1. AddsUp(G(U), f, U) /\ U \in SUBSET U
          <6>. HIDE DEF G, g
          <6>. QED BY <2>1, <2>2
        <5>. HIDE DEF G, g
        <5>. QED BY <3>2, <5>1, AddsUpAt
      <4>4. AddsUp(G(U), f, U) /\ AddsUp(G(V), f, V)
        <5>. HIDE DEF G, g, V
        <5>. QED BY <2>1, <2>2, <4>1
      <4>5. IsFiniteSet(V)
        BY FS_Subset
      <4>6. G(U)[V] = G(V)[V]
        <5>. HIDE DEF G, g, V
        <5>. QED BY <4>1, <4>4, <4>5, AddsUpSame
      <4>. QED BY <4>2, <4>3, <4>6
    <3>. QED BY <3>1, <3>2
  <2>3. ASSUME NEW s \in SUBSET T, s # {}
        PROVE  g[s] = f[Chosen(s)] + g[s \ {Chosen(s)}]
    <3>. DEFINE r == s \ {Chosen(s)}
    <3>1. r \in SUBSET T /\ r # T
      BY <2>3, ChosenIn
    <3>2. g[s] = f[Chosen(s)] + G(r)[r]
      BY <2>3
    <3>3. g[r] = G(r)[r]
      BY <3>1, <2>2
    <3>. QED BY <3>2, <3>3
  <2>4. AddsUp(g, f, T)
    <3>. DEFINE k == [s \in SUBSET T |-> IF s = {} THEN 0 ELSE f[Chosen(s)] + g[s \ {Chosen(s)}]]
    <3>1. \A s \in SUBSET T : g[s] = k[s]
      BY <2>3
    <3>2. DOMAIN g = SUBSET T /\ DOMAIN k = SUBSET T
      OBVIOUS
    <3>3. g = k
      BY <3>1, <3>2
    <3>. HIDE DEF g
    <3>. QED BY <3>3 DEF AddsUp
  <2>. QED BY <2>4
<1>2. SUBSET S \subseteq Good
  <2>. HIDE DEF Good
  <2>. QED BY <1>1, SubsetInduction
<1>3. S \in Good
  <2>. HIDE DEF Good
  <2>. QED BY <1>2
<1>. QED BY <1>3

\* The sum of f over S.
Total(f, S) == MapThenSumSet(LAMBDA x : f[x], S)

\* It is what a function that adds up says of S.
LEMMA TotalIs ==
  ASSUME NEW f, NEW S, IsFiniteSet(S), NEW g, AddsUp(g, f, S)
  PROVE  Total(f, S) = g[S]
<1>. DEFINE k == CHOOSE h : AddsUp(h, f, S)
<1>1. AddsUp(k, f, S)
  <2>1. \E h : AddsUp(h, f, S)
    OBVIOUS
  <2>. QED BY <2>1
<1>2. Total(f, S) = k[S]
  BY DEF Total, MapThenSumSet, MapThenFoldSet, AddsUp, Chosen
<1>3. k[S] = g[S]
  <2>. HIDE DEF k
  <2>. QED BY <1>1, AddsUpSame
<1>. QED BY <1>2, <1>3

\* A sum does not depend on the order of its terms: one of them can be taken out.
LEMMA AddsUpRemove ==
  ASSUME NEW f, NEW S, IsFiniteSet(S), \A x \in S : f[x] \in Int,
         NEW g, AddsUp(g, f, S)
  PROVE  g[S] \in Int /\ \A x \in S : g[S] = f[x] + g[S \ {x}]
<1>. DEFINE Good == {s \in SUBSET S : g[s] \in Int /\ \A x \in s : g[s] = f[x] + g[s \ {x}]}
<1>1. ASSUME NEW s \in SUBSET S, \A r \in SUBSET s : r # s => r \in Good
      PROVE  s \in Good
  <2>1. /\ s = {} => g[s] = 0
        /\ s # {} => g[s] = f[Chosen(s)] + g[s \ {Chosen(s)}]
    <3>. HIDE DEF Good
    <3>. QED BY AddsUpAt
  <2>2. CASE s = {}
    BY <2>1, <2>2
  <2>3. CASE s # {}
    <3>. DEFINE c == Chosen(s)
    <3>1. c \in s /\ f[c] \in Int
      BY <2>3, ChosenIn
    <3>2. g[s \ {c}] \in Int
      BY <1>1, <3>1
    <3>3. g[s] \in Int
      BY <2>1, <2>3, <3>1, <3>2
    <3>4. ASSUME NEW x \in s, x # c PROVE g[s] = f[x] + g[s \ {x}]
      <4>. HIDE DEF c
      <4>1. s \ {c} \in Good /\ s \ {x} \in Good
        BY <1>1, <3>1
      <4>2. g[s \ {c}] = f[x] + g[(s \ {c}) \ {x}]
        BY <4>1, <3>4
      <4>3. g[s \ {x}] = f[c] + g[(s \ {x}) \ {c}]
        BY <4>1, <3>1, <3>4
      <4>4. (s \ {c}) \ {x} = (s \ {x}) \ {c}
        OBVIOUS
      <4>5. (s \ {c}) \ {x} \in Good
        BY <1>1, <3>1
      <4>6. f[x] \in Int /\ g[(s \ {c}) \ {x}] \in Int
        BY <4>5
      <4>7. g[s] = f[c] + g[s \ {c}]
        BY <2>1, <2>3 DEF c
      <4>. DEFINE r == g[(s \ {c}) \ {x}]
      <4>8. g[s \ {c}] = f[x] + r /\ g[s \ {x}] = f[c] + r /\ r \in Int
        BY <4>2, <4>3, <4>4, <4>6
      <4>. HIDE DEF Good, r
      <4>. QED BY <3>1, <4>6, <4>7, <4>8
    <3>5. g[s] = f[c] + g[s \ {c}]
      BY <2>1, <2>3
    <3>6. ASSUME NEW x \in s PROVE g[s] = f[x] + g[s \ {x}]
      <4>. HIDE DEF c
      <4>. QED BY <3>4, <3>5
    <3>. QED BY <3>3, <3>6
  <2>. QED BY <2>2, <2>3
<1>2. SUBSET S \subseteq Good
  <2>. HIDE DEF Good
  <2>. QED BY <1>1, SubsetInduction
<1>3. S \in Good
  <2>. HIDE DEF Good
  <2>. QED BY <1>2
<1>. QED BY <1>3

\* So can a term of the sum.
LEMMA TotalRemove ==
  ASSUME NEW f, NEW S, IsFiniteSet(S), \A x \in S : f[x] \in Int, NEW x \in S
  PROVE  Total(f, S) = f[x] + Total(f, S \ {x})
<1>1. PICK g : AddsUp(g, f, S)
  BY AddsUpExists
<1>2. IsFiniteSet(S \ {x})
  BY FS_Subset
<1>3. PICK h : AddsUp(h, f, S \ {x})
  BY <1>2, AddsUpExists
<1>4. g[S \ {x}] = h[S \ {x}]
  <2>1. S \ {x} \subseteq S /\ S \ {x} \subseteq S \ {x} /\ \A y \in S \ {x} : f[y] = f[y]
    OBVIOUS
  <2>. QED BY <1>1, <1>2, <1>3, <2>1, AddsUpSame
<1>5. Total(f, S) = g[S] /\ Total(f, S \ {x}) = h[S \ {x}]
  BY <1>1, <1>2, <1>3, TotalIs
<1>6. g[S] = f[x] + g[S \ {x}]
  BY <1>1, AddsUpRemove
<1>7. Total(f, S) = f[x] + h[S \ {x}]
  BY <1>4, <1>5, <1>6
<1>. QED BY <1>5, <1>7

\* It is a number ...
LEMMA TotalType ==
  ASSUME NEW f, NEW S, IsFiniteSet(S), \A x \in S : f[x] \in Int
  PROVE  Total(f, S) \in Int
<1>1. PICK g : AddsUp(g, f, S)
  BY AddsUpExists
<1>2. g[S] \in Int
  BY <1>1, AddsUpRemove
<1>3. Total(f, S) = g[S]
  BY <1>1, TotalIs
<1>. QED BY <1>2, <1>3

\* ... that depends on the terms only ...
LEMMA TotalSame ==
  ASSUME NEW f, NEW e, NEW S, IsFiniteSet(S), \A x \in S : f[x] = e[x]
  PROVE  Total(f, S) = Total(e, S)
<1>1. PICK g : AddsUp(g, f, S)
  BY AddsUpExists
<1>2. PICK h : AddsUp(h, e, S)
  BY AddsUpExists
<1>3. Total(f, S) = g[S] /\ Total(e, S) = h[S]
  BY <1>1, <1>2, TotalIs
<1>4. S \subseteq S
  OBVIOUS
<1>. QED BY <1>1, <1>2, <1>3, <1>4, AddsUpSame

\* ... and changes with a term by what that term changes.
DifferAt(f, e, S, y) ==
  /\ \A x \in S : f[x] \in Int /\ e[x] \in Int
  /\ y \in S /\ \A x \in S : x # y => f[x] = e[x]

LEMMA TotalChange ==
  ASSUME NEW f, NEW e, NEW S, NEW y, IsFiniteSet(S), DifferAt(f, e, S, y)
  PROVE  Total(e, S) = Total(f, S) - f[y] + e[y]
<1>0. /\ \A x \in S : f[x] \in Int /\ e[x] \in Int
      /\ y \in S /\ \A x \in S : x # y => f[x] = e[x]
  BY DEF DifferAt
<1>1. IsFiniteSet(S \ {y})
  BY FS_Subset
<1>2. Total(f, S \ {y}) = Total(e, S \ {y})
  <2>1. \A x \in S \ {y} : f[x] = e[x]
    BY <1>0
  <2>. QED BY <1>1, <2>1, TotalSame
<1>3. Total(f, S) = f[y] + Total(f, S \ {y})
  BY <1>0, TotalRemove
<1>4. Total(e, S) = e[y] + Total(e, S \ {y})
  BY <1>0, TotalRemove
<1>5. Total(f, S \ {y}) \in Int
  BY <1>0, <1>1, TotalType
<1>. QED BY <1>0, <1>2, <1>3, <1>4, <1>5

\* Equal terms are multiplied.
LEMMA TotalConst ==
  ASSUME NEW f, NEW S, IsFiniteSet(S), NEW k \in Int, \A x \in S : f[x] = k
  PROVE  Total(f, S) = Cardinality(S) * k
<1>. DEFINE Good == {s \in SUBSET S : Total(f, s) = Cardinality(s) * k}
<1>1. ASSUME NEW s \in SUBSET S, \A r \in SUBSET s : r # s => r \in Good
      PROVE  s \in Good
  <2>1. IsFiniteSet(s)
    BY FS_Subset
  <2>2. CASE s = {}
    <3>1. PICK g : AddsUp(g, f, s)
      BY <2>1, AddsUpExists
    <3>2. Total(f, s) = g[s]
      BY <2>1, <3>1, TotalIs
    <3>3. g[s] = 0
      <4>1. s \in SUBSET s
        OBVIOUS
      <4>. HIDE DEF Good
      <4>. QED BY <2>2, <3>1, <4>1, AddsUpAt
    <3>4. Cardinality(s) = 0
      BY <2>2, FS_EmptySet
    <3>. QED BY <3>2, <3>3, <3>4
  <2>3. CASE s # {}
    <3>1. PICK x \in s : TRUE
      BY <2>3
    <3>2. Total(f, s) = f[x] + Total(f, s \ {x})
      <4>. HIDE DEF Good
      <4>. QED BY <2>1, TotalRemove
    <3>3. Total(f, s \ {x}) = Cardinality(s \ {x}) * k
      BY <1>1
    <3>4. Cardinality(s \ {x}) = Cardinality(s) - 1 /\ Cardinality(s) \in Nat
      BY <2>1, FS_RemoveElement, FS_CardinalityType
    <3>5. f[x] = k
      OBVIOUS
    <3>. DEFINE n == Cardinality(s)
    <3>6. Total(f, s) = k + (n - 1) * k /\ n \in Nat
      BY <3>2, <3>3, <3>4, <3>5
    <3>7. k + (n - 1) * k = n * k
      <4>. HIDE DEF n
      <4>. QED BY <3>6
    <3>. QED BY <3>6, <3>7
  <2>. QED BY <2>2, <2>3
<1>2. SUBSET S \subseteq Good
  <2>. HIDE DEF Good
  <2>. QED BY <1>1, SubsetInduction
<1>3. S \in Good
  <2>. HIDE DEF Good
  <2>. QED BY <1>2
<1>. QED BY <1>3
-----------------------------------------------------------------------------
(* No coin is created or lost. *)

\* What the objects hold, and all coins there are.
Holding == [w \in Wagers |-> wager[w].escrow + wager[w].challenger_escrow]
AllCoins == Total(purse, Wallets) + Total(Holding, Wagers)

\* The sum over the purses is a sum of a function ...
LEMMA PursesAre == Coins(Wallets, LAMBDA p : purse[p]) = Total(purse, Wallets)
BY DEF Coins, Total, MapThenSumSet, MapThenFoldSet

\* ... and so is the sum over the escrows.
LEMMA EscrowsAre ==
  IsFiniteSet(Wagers) =>
    Coins(Wagers, LAMBDA w : wager[w].escrow + wager[w].challenger_escrow)
      = Total(Holding, Wagers)
<1>. SUFFICES ASSUME IsFiniteSet(Wagers)
     PROVE  Coins(Wagers, LAMBDA w : wager[w].escrow + wager[w].challenger_escrow)
              = Total(Holding, Wagers)
  OBVIOUS
<1>. DEFINE F(k) == [s \in SUBSET Wagers |->
               IF s = {} THEN 0
               ELSE wager[Chosen(s)].escrow + wager[Chosen(s)].challenger_escrow
                      + k[s \ {Chosen(s)}]]
<1>1. ASSUME NEW k PROVE (k = F(k)) <=> AddsUp(k, Holding, Wagers)
  <2>. DEFINE G == [s \in SUBSET Wagers |->
                     IF s = {} THEN 0 ELSE Holding[Chosen(s)] + k[s \ {Chosen(s)}]]
  <2>1. ASSUME NEW s \in SUBSET Wagers PROVE F(k)[s] = G[s]
    BY ChosenIn DEF Holding
  <2>2. F(k) = G
    BY <2>1
  <2>. HIDE DEF F
  <2>. QED BY <2>2 DEF AddsUp
<1>. DEFINE h == CHOOSE k : k = F(k)
<1>2. AddsUp(h, Holding, Wagers)
  <2>1. \E k : AddsUp(k, Holding, Wagers)
    BY AddsUpExists
  <2>2. \E k : k = F(k)
    <3>. HIDE DEF F
    <3>. QED BY <1>1, <2>1
  <2>3. h = F(h)
    <3>. HIDE DEF F
    <3>. QED BY <2>2
  <2>. HIDE DEF h, F
  <2>. QED BY <1>1, <2>3
<1>3. Coins(Wagers, LAMBDA w : wager[w].escrow + wager[w].challenger_escrow) = h[Wagers]
  BY DEF Coins, MapThenSumSet, MapThenFoldSet, Chosen
<1>4. h[Wagers] = Total(Holding, Wagers)
  <2>. HIDE DEF h
  <2>. QED BY <1>2, TotalIs
<1>. QED BY <1>3, <1>4

\* So the property is about the sum that the following lemmas are about.
LEMMA CoinsAre ==
  IsFiniteSet(Wagers) =>
    (CoinsConserved <=> AllCoins = Cardinality(Wallets) * InitialPurse)
<1>. SUFFICES ASSUME IsFiniteSet(Wagers)
     PROVE  CoinsConserved <=> AllCoins = Cardinality(Wallets) * InitialPurse
  OBVIOUS
<1>1. Coins(Wallets, LAMBDA p : purse[p])
        + Coins(Wagers, LAMBDA w : wager[w].escrow + wager[w].challenger_escrow)
      = AllCoins
  BY EscrowsAre, PursesAre DEF AllCoins
<1>. QED BY <1>1 DEF CoinsConserved

\* A payment adds what is paid to the purses; a withdrawal takes it out.
LEMMA OnePurse ==
  ASSUME TypeOK, TypeOK', IsFiniteSet(Wallets), NEW p \in Wallets, NEW d \in Int,
         Transfer(p, d)
  PROVE  Total(purse', Wallets) = Total(purse, Wallets) + d
<1>1. \A q \in Wallets : purse[q] \in Int /\ purse'[q] \in Int
  BY DEF TypeOK
<1>a. purse' = [purse EXCEPT ![p] = purse[p] + d] /\ DOMAIN purse = Wallets
  BY DEF TypeOK, Transfer
<1>2. purse'[p] = purse[p] + d /\ \A q \in Wallets : q # p => purse[q] = purse'[q]
  BY <1>a
<1>3. Total(purse', Wallets) = Total(purse, Wallets) - purse[p] + purse'[p]
  <2>1. DifferAt(purse, purse', Wallets, p)
    BY <1>1, <1>2 DEF DifferAt
  <2>. QED BY <2>1, TotalChange
<1>4. Total(purse, Wallets) \in Int
  BY <1>1, TotalType
<1>. QED BY <1>1, <1>2, <1>3, <1>4

\* Two payments add both, if one wallet gets them too.
LEMMA TwoPurses ==
  ASSUME TypeOK, IsFiniteSet(Wallets), NEW p \in Wallets, NEW q \in Wallets,
         NEW x \in Int, NEW y \in Int, Transfer2(p, x, q, y)
  PROVE  Total(purse', Wallets) = Total(purse, Wallets) + x + y
<1>. DEFINE half == [r \in Wallets |-> purse[r] + (IF r = p THEN x ELSE 0)]
<1>1. ASSUME NEW r \in Wallets
      PROVE  /\ purse[r] \in Int
             /\ half[r] = purse[r] + (IF r = p THEN x ELSE 0)
             /\ half[r] \in Int
             /\ purse'[r] = half[r] + (IF r = q THEN y ELSE 0)
             /\ purse'[r] \in Int
  BY DEF TypeOK, Transfer2
<1>. HIDE DEF half
<1>2. Total(half, Wallets) = Total(purse, Wallets) - purse[p] + half[p]
  <2>1. \A r \in Wallets : r # p => purse[r] = half[r]
    BY <1>1
  <2>2. DifferAt(purse, half, Wallets, p)
    BY <1>1, <2>1 DEF DifferAt
  <2>. QED BY <2>2, TotalChange
<1>3. Total(purse', Wallets) = Total(half, Wallets) - half[q] + purse'[q]
  <2>1. \A r \in Wallets : r # q => half[r] = purse'[r]
    BY <1>1
  <2>2. DifferAt(half, purse', Wallets, q)
    BY <1>1, <2>1 DEF DifferAt
  <2>. QED BY <2>2, TotalChange
<1>4. Total(purse, Wallets) \in Int /\ Total(half, Wallets) \in Int
  BY <1>1, TotalType
<1>5. half[p] = purse[p] + x /\ purse'[q] = half[q] + y
  BY <1>1
<1>. QED BY <1>1, <1>2, <1>3, <1>4, <1>5

\* Replacing one object changes the sum of the escrows by what it holds.
LEMMA OneHolding ==
  ASSUME TypeOK, IsFiniteSet(Wagers), NEW w \in Wagers, NEW m \in WagerMatch,
         wager' = [wager EXCEPT ![w] = m]
  PROVE  /\ Total(Holding', Wagers)
              = Total(Holding, Wagers) - (wager[w].escrow + wager[w].challenger_escrow)
                  + (m.escrow + m.challenger_escrow)
         /\ Total(Holding, Wagers) \in Int
<1>1. ASSUME NEW v \in Wagers
      PROVE  /\ wager[v].escrow \in Nat /\ wager[v].challenger_escrow \in Nat
             /\ Holding[v] = wager[v].escrow + wager[v].challenger_escrow
             /\ Holding'[v] = IF v = w THEN m.escrow + m.challenger_escrow ELSE Holding[v]
  <2>1. wager[v] \in WagerMatch
    BY DEF TypeOK
  <2>2. wager'[v] = IF v = w THEN m ELSE wager[v]
    BY DEF TypeOK
  <2>3. Holding'[v] = wager'[v].escrow + wager'[v].challenger_escrow
    BY DEF Holding
  <2>4. Holding[v] = wager[v].escrow + wager[v].challenger_escrow
    BY DEF Holding
  <2>. QED BY <2>1, <2>2, <2>3, <2>4 DEF WagerMatch
<1>2. m.escrow \in Nat /\ m.challenger_escrow \in Nat
  BY DEF WagerMatch
<1>3. \A v \in Wagers : Holding[v] \in Int /\ Holding'[v] \in Int
  BY <1>1, <1>2
<1>4. \A v \in Wagers : v # w => Holding[v] = Holding'[v]
  BY <1>1
<1>5. Total(Holding', Wagers) = Total(Holding, Wagers) - Holding[w] + Holding'[w]
  <2>1. DifferAt(Holding, Holding', Wagers, w)
    BY <1>3, <1>4 DEF DifferAt
  <2>. QED BY <2>1, TotalChange
<1>6. Total(Holding, Wagers) \in Int
  BY <1>3, TotalType
<1>. QED BY <1>1, <1>5, <1>6

\* What leaves the purses enters an object, and what leaves an object is paid.
LEMMA Balanced ==
  ASSUME TypeOK, IsFiniteSet(Wallets), IsFiniteSet(Wagers),
         NEW w \in Wagers, NEW m \in WagerMatch, wager' = [wager EXCEPT ![w] = m],
         NEW d \in Int, Total(purse', Wallets) = Total(purse, Wallets) + d,
         m.escrow + m.challenger_escrow + d = wager[w].escrow + wager[w].challenger_escrow
  PROVE  AllCoins' = AllCoins
<1>1. /\ Total(Holding', Wagers)
              = Total(Holding, Wagers) - (wager[w].escrow + wager[w].challenger_escrow)
                  + (m.escrow + m.challenger_escrow)
      /\ Total(Holding, Wagers) \in Int
  BY OneHolding
<1>2. Total(purse, Wallets) \in Int
  <2>1. \A p \in Wallets : purse[p] \in Int
    BY DEF TypeOK
  <2>. QED BY <2>1, TotalType
<1>3. /\ m.escrow \in Int /\ m.challenger_escrow \in Int
      /\ wager[w].escrow \in Int /\ wager[w].challenger_escrow \in Int
  BY DEF TypeOK, WagerMatch
<1>4. AllCoins' = Total(purse', Wallets) + Total(Holding', Wagers)
  BY DEF AllCoins
<1>5. AllCoins = Total(purse, Wallets) + Total(Holding, Wagers)
  BY DEF AllCoins
<1>. QED BY <1>1, <1>2, <1>3, <1>4, <1>5

\* What each entry function does to the object it is called on: the new object.
Created(p, stake) ==
  [NoWager EXCEPT !.player_a = p, !.player_a_level = level[p], !.stake_amount = stake,
                  !.escrow = stake, !.status = "WAITING", !.created_at = now]
Challenged(w, p) ==
  [wager[w] EXCEPT !.challenger_escrow = @ + wager[w].stake_amount,
                   !.pending_challenger = p, !.pending_at = now,
                   !.status = "PENDING_APPROVAL"]
Approved(w) ==
  [ChallengeCleared(wager[w]) EXCEPT
     !.escrow = wager[w].escrow + wager[w].challenger_escrow,
     !.player_b = wager[w].pending_challenger, !.status = "ACTIVE", !.accepted_at = now]

\* Replaced objects are well formed, whatever step replaced them.
LEMMA NewObject ==
  ASSUME TypeOK, TypeOK', NEW w \in Wagers, NEW m, wager' = [wager EXCEPT ![w] = m]
  PROVE  m \in WagerMatch
BY DEF TypeOK

\* Every step keeps the coins there are: what it takes from a purse is in an
\* escrow after it, what it takes from an escrow is in the purses it pays.
LEMMA Coins_step ==
  ASSUME IInv, TypeOK', [Next]_vars, IsFiniteSet(Wallets), IsFiniteSet(Wagers)
  PROVE  AllCoins' = AllCoins
<1>. USE WalletAssumption, NumberAssumption
<1>t. TypeOK
  BY DEF IInv
<1>a. \A w \in Wagers : wager[w] \in WagerMatch /\ WellFunded(wager[w])
  BY DEF IInv, TypeOK, EscrowMatchesStatus
<1>b. ASSUME NEW w \in Wagers
      PROVE  /\ wager[w].escrow \in Nat /\ wager[w].challenger_escrow \in Nat
             /\ wager[w].stake_amount \in Nat
  BY <1>a DEF WagerMatch
<1>1. CASE UNCHANGED <<wager, purse>>
  BY <1>1 DEF AllCoins, Holding
<1>2. ASSUME NEW p \in Wallets, NEW w \in Wagers, NEW stake \in Stakes,
             create_wager(p, w, stake)
      PROVE  AllCoins' = AllCoins
  <2>1. wager' = [wager EXCEPT ![w] = Created(p, stake)]
    BY <1>2 DEF create_wager, Created
  <2>2. stake \in Nat /\ 0 - stake \in Int
    OBVIOUS
  <2>3. purse' = [purse EXCEPT ![p] = @ + (0 - stake)]
    <3>1. purse' = [purse EXCEPT ![p] = purse[p] - stake]
      BY <1>2 DEF create_wager
    <3>2. purse[p] - stake = purse[p] + (0 - stake)
      BY <1>t, <2>2 DEF TypeOK
    <3>. QED BY <3>1, <3>2
  <2>4. Total(purse', Wallets) = Total(purse, Wallets) + (0 - stake)
    BY <1>t, <2>2, <2>3, OnePurse DEF Transfer
  <2>5. Created(p, stake) \in WagerMatch
    BY <1>t, <2>1, NewObject
  <2>6. wager[w] = NoWager
    BY <1>2, <1>a DEF create_wager, WellFunded
  <2>7. Created(p, stake).escrow = stake /\ Created(p, stake).challenger_escrow = 0
    BY DEF Created, NoWager
  <2>8. wager[w].escrow = 0 /\ wager[w].challenger_escrow = 0
    BY <2>6 DEF NoWager
  <2>9. Created(p, stake).escrow + Created(p, stake).challenger_escrow + (0 - stake)
          = wager[w].escrow + wager[w].challenger_escrow
    BY <2>2, <2>7, <2>8
  <2>. QED BY <1>t, <2>1, <2>2, <2>4, <2>5, <2>9, Balanced
<1>3. ASSUME NEW p \in Wallets, NEW w \in Wagers, request_accept_wager(p, w)
      PROVE  AllCoins' = AllCoins
  <2>. DEFINE stake == wager[w].stake_amount
  <2>1. wager' = [wager EXCEPT ![w] = Challenged(w, p)]
    BY <1>3, <1>t DEF request_accept_wager, Challenged, TypeOK
  <2>2. stake \in Nat /\ 0 - stake \in Int
    BY <1>b
  <2>3. purse' = [purse EXCEPT ![p] = @ + (0 - stake)]
    <3>1. purse' = [purse EXCEPT ![p] = purse[p] - stake]
      BY <1>3 DEF request_accept_wager
    <3>2. purse[p] \in Nat
      BY <1>t DEF TypeOK
    <3>3. purse[p] - stake = purse[p] + (0 - stake)
      <4>. HIDE DEF stake
      <4>. QED BY <2>2, <3>2
    <3>. QED BY <3>1, <3>3
  <2>4. Total(purse', Wallets) = Total(purse, Wallets) + (0 - stake)
    <3>. HIDE DEF stake
    <3>. QED BY <1>t, <2>2, <2>3, OnePurse DEF Transfer
  <2>5. Challenged(w, p) \in WagerMatch
    BY <1>t, <2>1, NewObject
  <2>6. /\ Challenged(w, p).escrow = wager[w].escrow
        /\ Challenged(w, p).challenger_escrow = wager[w].challenger_escrow + stake
    BY <1>a DEF Challenged, WagerMatch
  <2>7. Challenged(w, p).escrow + Challenged(w, p).challenger_escrow + (0 - stake)
          = wager[w].escrow + wager[w].challenger_escrow
    BY <1>b, <2>2, <2>6
  <2>. HIDE DEF stake
  <2>. QED BY <1>t, <2>1, <2>2, <2>4, <2>5, <2>7, Balanced
<1>4. ASSUME NEW p \in Wallets, NEW w \in Wagers, approve_challenger(p, w)
      PROVE  AllCoins' = AllCoins
  <2>1. wager' = [wager EXCEPT ![w] = Approved(w)] /\ purse' = purse
    BY <1>4 DEF approve_challenger, Approved
  <2>2. Total(purse', Wallets) = Total(purse, Wallets) + 0
    <3>1. \A q \in Wallets : purse[q] \in Int
      BY <1>t DEF TypeOK
    <3>2. Total(purse, Wallets) \in Int
      BY <3>1, TotalType
    <3>. QED BY <2>1, <3>2
  <2>3. Approved(w) \in WagerMatch
    BY <1>t, <2>1, NewObject
  <2>4. /\ Approved(w).escrow = wager[w].escrow + wager[w].challenger_escrow
        /\ Approved(w).challenger_escrow = 0
    BY <1>a DEF Approved, ChallengeCleared, WagerMatch
  <2>5. Approved(w).escrow + Approved(w).challenger_escrow + 0
          = wager[w].escrow + wager[w].challenger_escrow
    BY <1>b, <2>4
  <2>6. 0 \in Int
    OBVIOUS
  <2>. QED BY <1>t, <2>1, <2>2, <2>3, <2>5, <2>6, Balanced
<1>5. ASSUME NEW w \in Wagers, NEW p \in Wallets, NEW q \in Wallets,
             NEW x \in Nat, NEW y \in Nat, NEW m,
             Transfer2(p, x, q, y), wager' = [wager EXCEPT ![w] = m],
             m.escrow = 0, m.challenger_escrow = 0,
             x + y = wager[w].escrow + wager[w].challenger_escrow
      PROVE  AllCoins' = AllCoins
  <2>1. Total(purse', Wallets) = Total(purse, Wallets) + x + y
    BY <1>5, <1>t, TwoPurses
  <2>2. Total(purse', Wallets) = Total(purse, Wallets) + (x + y)
    <3>1. \A r \in Wallets : purse[r] \in Int
      BY <1>t DEF TypeOK
    <3>2. Total(purse, Wallets) \in Int
      BY <3>1, TotalType
    <3>. QED BY <2>1, <3>2
  <2>3. m \in WagerMatch
    BY <1>t, <1>5, NewObject
  <2>5. x + y \in Int
    OBVIOUS
  <2>4. m.escrow + m.challenger_escrow + (x + y)
          = wager[w].escrow + wager[w].challenger_escrow
    BY <1>5
  <2>. QED BY <1>t, <1>5, <2>2, <2>3, <2>4, <2>5, Balanced
<1>6. ASSUME NEW w \in Wagers, NEW p \in Wallets, NEW x \in Nat, NEW m,
             Transfer(p, x), wager' = [wager EXCEPT ![w] = m],
             m.escrow + m.challenger_escrow + x
               = wager[w].escrow + wager[w].challenger_escrow
      PROVE  AllCoins' = AllCoins
  <2>1. purse' = [purse EXCEPT ![p] = @ + x] /\ x \in Int
    BY <1>6 DEF Transfer
  <2>2. Total(purse', Wallets) = Total(purse, Wallets) + x
    BY <1>t, <1>6, <2>1, OnePurse
  <2>3. m \in WagerMatch
    BY <1>t, <1>6, NewObject
  <2>. QED BY <1>t, <1>6, <2>1, <2>2, <2>3, Balanced
<1>7. ASSUME NEW w \in Wagers, RefundChallenger(w)
      PROVE  AllCoins' = AllCoins
  <2>1. wager' = [wager EXCEPT ![w] = Reopened(wager[w])]
    BY <1>7 DEF RefundChallenger
  <2>2. /\ Transfer(wager[w].pending_challenger, wager[w].challenger_escrow)
        /\ wager[w].pending_challenger \in Wallets
    BY <1>7, <1>a DEF RefundChallenger, WellFunded
  <2>3. /\ Reopened(wager[w]).escrow = wager[w].escrow
        /\ Reopened(wager[w]).challenger_escrow = 0
    BY <1>a DEF Reopened, ChallengeCleared, WagerMatch
  <2>4. Reopened(wager[w]).escrow + Reopened(wager[w]).challenger_escrow
          + wager[w].challenger_escrow = wager[w].escrow + wager[w].challenger_escrow
    BY <1>b, <2>3
  <2>. QED BY <1>b, <1>6, <2>1, <2>2, <2>4
<1>c. ASSUME NEW w \in Wagers
      PROVE  /\ Settled(wager[w]).escrow = 0
             /\ Settled(wager[w]).challenger_escrow = wager[w].challenger_escrow
  BY <1>a DEF Settled, WagerMatch
<1>8. ASSUME NEW w \in Wagers, RefundCreator(w)
      PROVE  AllCoins' = AllCoins
  <2>1. wager' = [wager EXCEPT ![w] = Settled(wager[w])]
    BY <1>8 DEF RefundCreator
  <2>2. Transfer(wager[w].player_a, wager[w].escrow) /\ wager[w].player_a \in Wallets
    BY <1>8, <1>a DEF RefundCreator, WellFunded
  <2>3. Settled(wager[w]).escrow + Settled(wager[w]).challenger_escrow
          + wager[w].escrow = wager[w].escrow + wager[w].challenger_escrow
    BY <1>b, <1>c
  <2>. QED BY <1>b, <1>6, <2>1, <2>2, <2>3
<1>9. ASSUME NEW w \in Wagers, RefundBothEscrows(w)
      PROVE  AllCoins' = AllCoins
  <2>. DEFINE m == Settled(ChallengeCleared(wager[w]))
  <2>1. wager' = [wager EXCEPT ![w] = m]
    BY <1>9 DEF RefundBothEscrows
  <2>2. m.escrow = 0 /\ m.challenger_escrow = 0
    BY <1>a DEF Settled, ChallengeCleared, WagerMatch
  <2>3. /\ wager[w].player_a \in Wallets /\ wager[w].pending_challenger \in Wallets
        /\ Transfer2(wager[w].player_a, wager[w].escrow,
                     wager[w].pending_challenger, wager[w].challenger_escrow)
    BY <1>9, <1>a DEF RefundBothEscrows, WellFunded
  <2>. HIDE DEF m
  <2>. QED BY <1>b, <1>5, <2>1, <2>2, <2>3
<1>d. ASSUME NEW w \in Wagers, wager[w].status = "ACTIVE"
      PROVE  /\ wager[w].challenger_escrow = 0
             /\ wager[w].player_a \in Wallets /\ wager[w].player_b \in Wallets
  BY <1>d, <1>a DEF WellFunded
<1>10. ASSUME NEW w \in Wagers, NEW x \in Nat, SplitEscrow(w, x)
       PROVE  AllCoins' = AllCoins
  <2>1. wager' = [wager EXCEPT ![w] = Settled(wager[w])]
    BY <1>10 DEF SplitEscrow
  <2>2. wager[w].status = "ACTIVE" /\ x <= wager[w].escrow
    BY <1>10 DEF SplitEscrow
  <2>3. Settled(wager[w]).escrow = 0 /\ Settled(wager[w]).challenger_escrow = 0
    BY <1>c, <1>d, <2>2
  <2>4. Transfer2(wager[w].player_a, x, wager[w].player_b, wager[w].escrow - x)
    BY <1>10 DEF SplitEscrow
  <2>5. /\ wager[w].escrow - x \in Nat
        /\ x + (wager[w].escrow - x) = wager[w].escrow + wager[w].challenger_escrow
    BY <1>b, <1>d, <2>2
  <2>. QED BY <1>d, <1>5, <2>1, <2>2, <2>3, <2>4, <2>5
<1>11. ASSUME NEW w \in Wagers, NEW winner \in Wallets,
              settle_wager(TREASURY, w, winner)
       PROVE  AllCoins' = AllCoins
  <2>. DEFINE total == wager[w].escrow
              fee == PlatformFee(total)
  <2>1. wager' = [wager EXCEPT ![w] = Settled(wager[w])]
    BY <1>11 DEF settle_wager
  <2>2. wager[w].status = "ACTIVE"
    BY <1>11 DEF settle_wager
  <2>3. Settled(wager[w]).escrow = 0 /\ Settled(wager[w]).challenger_escrow = 0
    BY <1>c, <1>d, <2>2
  <2>4. Transfer2(TREASURY, fee, winner, total - fee)
    BY <1>11 DEF settle_wager
  <2>5. total \in Nat /\ fee \in Nat /\ fee <= total
    BY <1>b, FeeBound
  <2>6. total - fee \in Nat /\ fee + (total - fee) = total + wager[w].challenger_escrow
    <3>1. wager[w].challenger_escrow = 0
      BY <1>d, <2>2
    <3>. HIDE DEF total, fee
    <3>. QED BY <2>5, <3>1
  <2>. HIDE DEF fee
  <2>. QED BY <1>5, <2>1, <2>3, <2>4, <2>5, <2>6
<1>12. CASE \/ UNCHANGED vars
            \/ \E p \in Wallets, l \in Levels : LevelUp(p, l)
            \/ \E p \in Wallets, t \in LockExpiries : set_fight_lock(p, t)
            \/ Tick
  BY <1>1, <1>12 DEF vars, LevelUp, set_fight_lock, Tick
<1>. QED
  BY <1>t, <1>2, <1>3, <1>4, <1>7, <1>8, <1>9, <1>10, <1>11, <1>12, StepCases
     DEF Effect, SplitStep

\* At the start the coins are those the wallets have.
LEMMA Coins_init ==
  ASSUME Init, IsFiniteSet(Wallets), IsFiniteSet(Wagers)
  PROVE  AllCoins = Cardinality(Wallets) * InitialPurse
<1>1. Total(purse, Wallets) = Cardinality(Wallets) * InitialPurse
  <2>1. (\A p \in Wallets : purse[p] = InitialPurse) /\ InitialPurse \in Int
    BY NumberAssumption DEF Init
  <2>. QED BY <2>1, TotalConst
<1>2. Total(Holding, Wagers) = Cardinality(Wagers) * 0
  <2>1. \A w \in Wagers : Holding[w] = 0
    BY DEF Init, Holding, NoWager
  <2>2. 0 \in Int
    OBVIOUS
  <2>. QED BY <2>1, <2>2, TotalConst
<1>3. Cardinality(Wagers) \in Nat /\ Cardinality(Wallets) * InitialPurse \in Nat
  BY FS_CardinalityType, NumberAssumption
<1>4. Total(Holding, Wagers) = 0
  BY <1>2, <1>3
<1>. QED BY <1>1, <1>3, <1>4 DEF AllCoins

\* The contract neither makes nor loses a coin: whatever is called, in whatever
\* order, purses and escrows together hold what the wallets started with.
\* (A sum says something of finitely many wallets and wagers.)
THEOREM CoinsStay ==
  ASSUME IsFiniteSet(Wallets), IsFiniteSet(Wagers)
  PROVE  Spec => []CoinsConserved
<1>. DEFINE Kept == AllCoins = Cardinality(Wallets) * InitialPurse
<1>1. Init => Kept
  BY Coins_init
<1>2. IInv /\ IInv' /\ Kept /\ [Next]_vars => Kept'
  BY Coins_step DEF IInv
<1>3. Kept => CoinsConserved
  BY CoinsAre
<1>4. Spec => []IInv
  BY Invariance
<1>. QED BY <1>1, <1>2, <1>3, <1>4, PTL DEF Spec
-----------------------------------------------------------------------------
(* Only a fight costs money. *)

\* The stakes p can claim, by wager, and what it owns with them.
Claims(p) == [w \in Wagers |-> Claim(p, w)]
Owns(p) == purse[p] + Total(Claims(p), Wagers)

\* The sum of the claims of a wallet is a sum of a function.
LEMMA ClaimsAre ==
  IsFiniteSet(Wagers) =>
    \A p \in Wallets : Coins(Wagers, LAMBDA w : Claim(p, w)) = Total(Claims(p), Wagers)
<1>. SUFFICES ASSUME IsFiniteSet(Wagers), NEW p \in Wallets
     PROVE  Coins(Wagers, LAMBDA w : Claim(p, w)) = Total(Claims(p), Wagers)
  OBVIOUS
<1>. DEFINE F(k) == [s \in SUBSET Wagers |->
               IF s = {} THEN 0 ELSE Claim(p, Chosen(s)) + k[s \ {Chosen(s)}]]
<1>1. ASSUME NEW k PROVE (k = F(k)) <=> AddsUp(k, Claims(p), Wagers)
  <2>. DEFINE G == [s \in SUBSET Wagers |->
                     IF s = {} THEN 0 ELSE Claims(p)[Chosen(s)] + k[s \ {Chosen(s)}]]
  <2>1. ASSUME NEW s \in SUBSET Wagers PROVE F(k)[s] = G[s]
    BY ChosenIn DEF Claims
  <2>2. F(k) = G
    BY <2>1
  <2>. HIDE DEF F
  <2>. QED BY <2>2 DEF AddsUp
<1>. DEFINE h == CHOOSE k : k = F(k)
<1>2. AddsUp(h, Claims(p), Wagers)
  <2>1. \E k : AddsUp(k, Claims(p), Wagers)
    BY AddsUpExists
  <2>2. \E k : k = F(k)
    <3>. HIDE DEF F
    <3>. QED BY <1>1, <2>1
  <2>3. h = F(h)
    <3>. HIDE DEF F
    <3>. QED BY <2>2
  <2>. HIDE DEF h, F
  <2>. QED BY <1>1, <2>3
<1>3. Coins(Wagers, LAMBDA w : Claim(p, w)) = h[Wagers]
  BY DEF Coins, MapThenSumSet, MapThenFoldSet, Chosen
<1>4. h[Wagers] = Total(Claims(p), Wagers)
  <2>. HIDE DEF h
  <2>. QED BY <1>2, TotalIs
<1>. QED BY <1>3, <1>4

\* So wealth is what a wallet owns.
LEMMA WealthIs == IsFiniteSet(Wagers) => \A p \in Wallets : Wealth(p) = Owns(p)
BY ClaimsAre DEF Wealth, Owns

\* A step that replaces one object changes what a wallet owns by what it pays
\* and gets and by the claim it has on that object.
LEMMA OwnsStep ==
  ASSUME TypeOK, TypeOK', IsFiniteSet(Wagers), NEW w \in Wagers, NEW m,
         wager' = [wager EXCEPT ![w] = m], NEW p \in Wallets
  PROVE  /\ Owns(p)' = Owns(p) + (purse'[p] - purse[p]) + (Owed(p, m) - Owed(p, wager[w]))
         /\ Owns(p) \in Int /\ purse[p] \in Nat /\ purse'[p] \in Nat
         /\ Owed(p, m) \in Nat /\ Owed(p, wager[w]) \in Nat
<1>1. m \in WagerMatch
  BY NewObject
<1>2. ASSUME NEW v \in Wagers
      PROVE  /\ Claims(p)[v] = Owed(p, wager[v]) /\ Owed(p, wager[v]) \in Nat
             /\ Claims(p)'[v] = IF v = w THEN Owed(p, m) ELSE Owed(p, wager[v])
  <2>1. wager[v] \in WagerMatch /\ wager'[v] = IF v = w THEN m ELSE wager[v]
    BY DEF TypeOK
  <2>2. Claims(p)[v] = Owed(p, wager[v])
    BY DEF Claims, Claim
  <2>3. Claims(p)' = [u \in Wagers |-> Owed(p, wager'[u])]
    BY DEF Claims, Claim, Owed
  <2>4. Owed(p, wager[v]) \in Nat
    BY <2>1 DEF Owed, WagerMatch
  <2>. QED BY <2>1, <2>2, <2>3, <2>4
<1>3. Owed(p, m) \in Nat
  BY <1>1 DEF Owed, WagerMatch
<1>4. \A v \in Wagers : Claims(p)[v] \in Int /\ Claims(p)'[v] \in Int
  BY <1>2, <1>3
<1>5. \A v \in Wagers : v # w => Claims(p)[v] = Claims(p)'[v]
  BY <1>2
<1>6. Total(Claims(p)', Wagers) = Total(Claims(p), Wagers) - Claims(p)[w] + Claims(p)'[w]
  <2>1. DifferAt(Claims(p), Claims(p)', Wagers, w)
    BY <1>4, <1>5 DEF DifferAt
  <2>. QED BY <2>1, TotalChange
<1>7. Total(Claims(p), Wagers) \in Int
  BY <1>4, TotalType
<1>8. purse[p] \in Nat /\ purse'[p] \in Nat
  BY DEF TypeOK
<1>9. Owns(p)' = purse'[p] + Total(Claims(p)', Wagers)
  BY DEF Owns
<1>. QED BY <1>2, <1>3, <1>6, <1>7, <1>8, <1>9 DEF Owns

\* The wallets that pay or get something, and how much: a step pays what it
\* takes from the claims, so nobody is poorer for it.
LEMMA OwnsKept ==
  ASSUME TypeOK, TypeOK', IsFiniteSet(Wagers), NEW w \in Wagers, NEW m,
         wager' = [wager EXCEPT ![w] = m], NEW p \in Wallets,
         purse'[p] + Owed(p, m) = purse[p] + Owed(p, wager[w])
  PROVE  Owns(p)' = Owns(p)
<1>1. /\ Owns(p)' = Owns(p) + (purse'[p] - purse[p]) + (Owed(p, m) - Owed(p, wager[w]))
      /\ Owns(p) \in Int /\ purse[p] \in Nat /\ purse'[p] \in Nat
      /\ Owed(p, m) \in Nat /\ Owed(p, wager[w]) \in Nat
  BY OwnsStep
<1>. QED BY <1>1

\* What the property says of the loser of a fight.
LosesAFight(p) ==
  \E w \in Wagers :
    /\ wager[w].status = "ACTIVE" /\ wager'[w].status = "SETTLED"
    /\ p \in Participants(w)
    /\ Owns(p) - Owns(p)' <= wager[w].stake_amount
    /\ \E q \in Participants(w) \ {p} : Owns(q)' > Owns(q)

\* The award: the loser loses its stake, or less if it is the treasury, and the
\* winner gets more than its own.
LEMMA Award_step ==
  ASSUME IInv, TypeOK', IsFiniteSet(Wagers), NEW w \in Wagers, NEW winner \in Wallets,
         settle_wager(TREASURY, w, winner), NEW p \in Wallets
  PROVE  Owns(p)' >= Owns(p) \/ LosesAFight(p)
<1>. DEFINE m == Settled(wager[w])
           s == wager[w].stake_amount
           fee == PlatformFee(wager[w].escrow)
<1>t. TypeOK /\ wager[w] \in WagerMatch /\ WellFunded(wager[w])
  BY DEF IInv, TypeOK, EscrowMatchesStatus
<1>1. /\ wager[w].status = "ACTIVE" /\ winner \in Participants(w)
      /\ Transfer2(TREASURY, fee, winner, wager[w].escrow - fee)
      /\ wager' = [wager EXCEPT ![w] = m]
  BY DEF settle_wager
<1>2. /\ wager[w].player_a \in Wallets /\ wager[w].player_b \in Wallets
      /\ wager[w].player_a # wager[w].player_b
      /\ wager[w].escrow = 2 * s /\ s \in Nat \ {0} /\ wager[w].pending_challenger = None
  BY <1>1, <1>t, NumberAssumption DEF WellFunded, WagerMatch
<1>3. fee \in Nat /\ fee < s
  BY <1>2 DEF PlatformFee, PLATFORM_FEE_BPS, BPS_BASE
<1>4. m.status = "SETTLED" /\ wager'[w] = m
  BY <1>1, <1>t DEF Settled, WagerMatch, TypeOK
<1>5. ASSUME NEW q \in Wallets
      PROVE  /\ Owed(q, m) = 0
             /\ Owed(q, wager[w]) = IF q \in Participants(w) THEN s ELSE 0
  BY <1>1, <1>2, <1>4, WalletAssumption DEF Owed, Participants
<1>6. ASSUME NEW q \in Wallets
      PROVE  /\ purse'[q] = purse[q] + (IF q = TREASURY THEN fee ELSE 0)
                                     + (IF q = winner THEN 2 * s - fee ELSE 0)
             /\ purse[q] \in Nat
  BY <1>1, <1>2, <1>t DEF Transfer2, TypeOK
<1>. HIDE DEF m, s, fee
<1>7. ASSUME NEW q \in Wallets
      PROVE  /\ Owns(q)' = Owns(q) + (purse'[q] - purse[q]) + (Owed(q, m) - Owed(q, wager[w]))
             /\ Owns(q) \in Int
  BY <1>t, <1>1, OwnsStep
<1>8. ASSUME NEW q \in Wallets
      PROVE  /\ Owns(q) \in Int
             /\ Owns(q)' = Owns(q) + (IF q = TREASURY THEN fee ELSE 0)
                                   + (IF q = winner THEN 2 * s - fee ELSE 0)
                                   - (IF q \in Participants(w) THEN s ELSE 0)
  BY <1>2, <1>3, <1>5, <1>6, <1>7
<1>9. winner \in Wallets /\ Owns(winner)' > Owns(winner)
  BY <1>1, <1>2, <1>3, <1>8
<1>10. CASE p \in Participants(w) /\ p # winner
  <2>1. Owns(p) - Owns(p)' <= s
    BY <1>2, <1>3, <1>8, <1>10
  <2>2. winner \in Participants(w) \ {p}
    BY <1>1, <1>10
  <2>. QED BY <1>1, <1>4, <1>9, <1>10, <2>1, <2>2 DEF LosesAFight, s
<1>11. CASE p = winner
  BY <1>9, <1>8, <1>11, <1>2, <1>3
<1>12. CASE p \notin Participants(w)
  BY <1>1, <1>2, <1>3, <1>8, <1>12
<1>. QED BY <1>10, <1>11, <1>12

\* Every other step leaves everybody as rich as before.
LEMMA Owns_step ==
  ASSUME IInv, TypeOK', [Next]_vars, IsFiniteSet(Wagers), NEW p \in Wallets
  PROVE  Owns(p)' >= Owns(p) \/ LosesAFight(p)
<1>. USE WalletAssumption, NumberAssumption
<1>t. TypeOK
  BY DEF IInv
<1>a. \A w \in Wagers : wager[w] \in WagerMatch /\ WellFunded(wager[w])
  BY DEF IInv, TypeOK, EscrowMatchesStatus
<1>b. ASSUME NEW w \in Wagers
      PROVE  /\ wager[w].escrow \in Nat /\ wager[w].challenger_escrow \in Nat
             /\ wager[w].stake_amount \in Nat
  BY <1>a DEF WagerMatch
<1>p. purse \in [Wallets -> Nat]
  BY <1>t DEF TypeOK
<1>k. ASSUME Owns(p)' = Owns(p) PROVE Owns(p)' >= Owns(p)
  <2>1. Owns(p) \in Int
    <3>1. \A v \in Wagers : Claims(p)[v] \in Int
      BY <1>a DEF Claims, Claim, Owed, WagerMatch
    <3>2. Total(Claims(p), Wagers) \in Int
      BY <3>1, TotalType
    <3>. QED BY <1>p, <3>2 DEF Owns
  <2>. QED BY <1>k, <2>1
<1>1. CASE UNCHANGED <<wager, purse>>
  <2>1. Owns(p)' = Owns(p)
    BY <1>1 DEF Owns, Claims, Claim, Owed
  <2>. QED BY <2>1, <1>k
<1>2. ASSUME NEW q \in Wallets, NEW w \in Wagers, NEW stake \in Stakes,
             create_wager(q, w, stake)
      PROVE  Owns(p)' = Owns(p)
  <2>1. wager' = [wager EXCEPT ![w] = Created(q, stake)]
    BY <1>2 DEF create_wager, Created
  <2>2. Owed(p, wager[w]) = 0
    BY <1>2 DEF create_wager, Owed
  <2>3. Owed(p, Created(q, stake)) = IF p = q THEN stake ELSE 0
    BY DEF Owed, Created, NoWager
  <2>4. purse'[p] = IF p = q THEN purse[p] - stake ELSE purse[p]
    BY <1>2, <1>p DEF create_wager
  <2>5. purse[p] \in Nat /\ stake \in Nat
    BY <1>p
  <2>6. purse'[p] + Owed(p, Created(q, stake)) = purse[p] + Owed(p, wager[w])
    BY <2>2, <2>3, <2>4, <2>5
  <2>. QED BY <1>t, <2>1, <2>6, OwnsKept
<1>3. ASSUME NEW q \in Wallets, NEW w \in Wagers, request_accept_wager(q, w)
      PROVE  Owns(p)' = Owns(p)
  <2>. DEFINE stake == wager[w].stake_amount
  <2>1. wager' = [wager EXCEPT ![w] = Challenged(w, q)]
    BY <1>3, <1>t DEF request_accept_wager, Challenged, TypeOK
  <2>2. /\ wager[w].status = "WAITING" /\ q # wager[w].player_a
        /\ wager[w].pending_challenger = None /\ wager[w].player_b = None
    BY <1>3, <1>a DEF request_accept_wager, WellFunded
  <2>3. Owed(p, wager[w]) = IF p = wager[w].player_a THEN stake ELSE 0
    BY <2>2 DEF Owed
  <2>4. Owed(p, Challenged(w, q)) = IF p \in {wager[w].player_a, q} THEN stake ELSE 0
    BY <2>2, <1>a DEF Owed, Challenged, WagerMatch
  <2>5. purse'[p] = IF p = q THEN purse[p] - stake ELSE purse[p]
    BY <1>3, <1>p DEF request_accept_wager
  <2>6. purse[p] \in Nat /\ stake \in Nat
    BY <1>p, <1>b
  <2>7. purse'[p] + Owed(p, Challenged(w, q)) = purse[p] + Owed(p, wager[w])
    <3>. HIDE DEF stake
    <3>. QED BY <2>2, <2>3, <2>4, <2>5, <2>6
  <2>. QED BY <1>t, <2>1, <2>7, OwnsKept
<1>4. ASSUME NEW q \in Wallets, NEW w \in Wagers, approve_challenger(q, w)
      PROVE  Owns(p)' = Owns(p)
  <2>1. wager' = [wager EXCEPT ![w] = Approved(w)] /\ purse' = purse
    BY <1>4 DEF approve_challenger, Approved
  <2>2. wager[w].status = "PENDING_APPROVAL" /\ wager[w].player_b = None
    BY <1>4, <1>a DEF approve_challenger, WellFunded
  <2>3. /\ Approved(w).status = "ACTIVE" /\ Approved(w).player_a = wager[w].player_a
        /\ Approved(w).player_b = wager[w].pending_challenger
        /\ Approved(w).pending_challenger = None
        /\ Approved(w).stake_amount = wager[w].stake_amount
    BY <1>a DEF Approved, ChallengeCleared, WagerMatch
  <2>4. Owed(p, Approved(w)) = Owed(p, wager[w])
    BY <2>2, <2>3 DEF Owed
  <2>. QED BY <1>t, <2>1, <2>4, OwnsKept
<1>5. ASSUME NEW w \in Wagers, RefundChallenger(w)
      PROVE  Owns(p)' = Owns(p)
  <2>. DEFINE m == Reopened(wager[w])
              c == wager[w].pending_challenger
              s == wager[w].stake_amount
  <2>1. wager' = [wager EXCEPT ![w] = m]
    BY <1>5 DEF RefundChallenger
  <2>2. /\ wager[w].status = "PENDING_APPROVAL" /\ c \in Wallets /\ c # wager[w].player_a
        /\ wager[w].challenger_escrow = s /\ wager[w].player_b = None
        /\ Transfer(c, wager[w].challenger_escrow)
    BY <1>5, <1>a DEF RefundChallenger, WellFunded
  <2>3. purse'[p] = IF p = c THEN purse[p] + s ELSE purse[p]
    BY <2>2, <1>p DEF Transfer
  <2>4. Owed(p, wager[w]) = IF p \in {wager[w].player_a, c} THEN s ELSE 0
    BY <2>2 DEF Owed
  <2>5. /\ m.status = "WAITING" /\ m.player_a = wager[w].player_a
        /\ m.player_b = None /\ m.pending_challenger = None /\ m.stake_amount = s
    BY <2>2, <1>a DEF Reopened, ChallengeCleared, WagerMatch
  <2>6. Owed(p, m) = IF p = wager[w].player_a THEN s ELSE 0
    <3>. HIDE DEF m
    <3>. QED BY <2>5 DEF Owed
  <2>7. purse[p] \in Nat /\ s \in Nat
    BY <1>p, <1>b
  <2>8. purse'[p] + Owed(p, m) = purse[p] + Owed(p, wager[w])
    <3>. HIDE DEF m, s, c
    <3>. QED BY <2>2, <2>3, <2>4, <2>6, <2>7
  <2>. HIDE DEF m
  <2>. QED BY <1>t, <2>1, <2>8, OwnsKept
<1>6. ASSUME NEW w \in Wagers, NEW m, wager' = [wager EXCEPT ![w] = m],
             m.status = "SETTLED",
             purse'[p] = purse[p] + Owed(p, wager[w])
      PROVE  Owns(p)' = Owns(p)
  <2>1. Owed(p, m) = 0
    BY <1>6 DEF Owed
  <2>2. purse[p] \in Nat /\ Owed(p, wager[w]) \in Nat
    BY <1>p, <1>b DEF Owed
  <2>3. purse'[p] + Owed(p, m) = purse[p] + Owed(p, wager[w])
    BY <1>6, <2>1, <2>2
  <2>. QED BY <1>t, <1>6, <2>3, OwnsKept
<1>7. ASSUME NEW w \in Wagers, RefundCreator(w)
      PROVE  Owns(p)' = Owns(p)
  <2>1. wager' = [wager EXCEPT ![w] = Settled(wager[w])] /\ Settled(wager[w]).status = "SETTLED"
    BY <1>7, <1>a DEF RefundCreator, Settled, WagerMatch
  <2>2. /\ wager[w].status = "WAITING" /\ wager[w].escrow = wager[w].stake_amount
        /\ wager[w].player_b = None /\ wager[w].pending_challenger = None
        /\ wager[w].player_a \in Wallets
        /\ Transfer(wager[w].player_a, wager[w].escrow)
    BY <1>7, <1>a DEF RefundCreator, WellFunded
  <2>3. purse'[p] = IF p = wager[w].player_a THEN purse[p] + wager[w].escrow ELSE purse[p]
    BY <2>2, <1>p DEF Transfer
  <2>4. Owed(p, wager[w]) = IF p = wager[w].player_a THEN wager[w].stake_amount ELSE 0
    BY <2>2 DEF Owed
  <2>5. purse'[p] = purse[p] + Owed(p, wager[w])
    BY <1>b, <1>p, <2>2, <2>3, <2>4
  <2>. QED BY <1>6, <2>1, <2>5
<1>8. ASSUME NEW w \in Wagers, RefundBothEscrows(w)
      PROVE  Owns(p)' = Owns(p)
  <2>. DEFINE m == Settled(ChallengeCleared(wager[w]))
  <2>1. wager' = [wager EXCEPT ![w] = m] /\ m.status = "SETTLED"
    BY <1>8, <1>a DEF RefundBothEscrows, Settled, ChallengeCleared, WagerMatch
  <2>2. /\ wager[w].status = "PENDING_APPROVAL" /\ wager[w].escrow = wager[w].stake_amount
        /\ wager[w].challenger_escrow = wager[w].stake_amount /\ wager[w].player_b = None
        /\ wager[w].pending_challenger \in Wallets \ {wager[w].player_a}
        /\ Transfer2(wager[w].player_a, wager[w].escrow,
                     wager[w].pending_challenger, wager[w].challenger_escrow)
    BY <1>8, <1>a DEF RefundBothEscrows, WellFunded
  <2>3. purse'[p] = purse[p]
          + (IF p = wager[w].player_a THEN wager[w].stake_amount ELSE 0)
          + (IF p = wager[w].pending_challenger THEN wager[w].stake_amount ELSE 0)
    BY <2>2 DEF Transfer2
  <2>4. Owed(p, wager[w]) =
          IF p \in {wager[w].player_a, wager[w].pending_challenger}
          THEN wager[w].stake_amount ELSE 0
    BY <2>2 DEF Owed
  <2>5. purse'[p] = purse[p] + Owed(p, wager[w])
    BY <1>b, <1>p, <2>2, <2>3, <2>4
  <2>. HIDE DEF m
  <2>. QED BY <1>6, <2>1, <2>5
<1>9. ASSUME NEW w \in Wagers, SplitStep(w)
      PROVE  Owns(p)' = Owns(p)
  <2>1. PICK x \in Nat : x \in {wager[w].stake_amount, wager[w].escrow \div 2}
                          /\ SplitEscrow(w, x)
    BY <1>9 DEF SplitStep
  <2>2. wager' = [wager EXCEPT ![w] = Settled(wager[w])] /\ Settled(wager[w]).status = "SETTLED"
    BY <2>1, <1>a DEF SplitEscrow, Settled, WagerMatch
  <2>3. /\ wager[w].status = "ACTIVE" /\ wager[w].escrow = 2 * wager[w].stake_amount
        /\ wager[w].pending_challenger = None
        /\ wager[w].player_a \in Wallets
        /\ wager[w].player_b \in Wallets \ {wager[w].player_a}
        /\ Transfer2(wager[w].player_a, x, wager[w].player_b, wager[w].escrow - x)
    BY <2>1, <1>a DEF SplitEscrow, WellFunded
  <2>4. x = wager[w].stake_amount /\ wager[w].escrow - x = wager[w].stake_amount
    BY <1>b, <2>1, <2>3
  <2>5. purse'[p] = purse[p]
          + (IF p = wager[w].player_a THEN wager[w].stake_amount ELSE 0)
          + (IF p = wager[w].player_b THEN wager[w].stake_amount ELSE 0)
    BY <2>3, <2>4 DEF Transfer2
  <2>6. Owed(p, wager[w]) =
          IF p \in {wager[w].player_a, wager[w].player_b} THEN wager[w].stake_amount ELSE 0
    BY <2>3 DEF Owed
  <2>7. purse'[p] = purse[p] + Owed(p, wager[w])
    BY <1>b, <1>p, <2>3, <2>5, <2>6
  <2>. QED BY <1>6, <2>2, <2>7
<1>10. CASE \/ UNCHANGED vars
            \/ \E q \in Wallets, l \in Levels : LevelUp(q, l)
            \/ \E q \in Wallets, t \in LockExpiries : set_fight_lock(q, t)
            \/ Tick
  BY <1>1, <1>10 DEF vars, LevelUp, set_fight_lock, Tick
<1>11. CASE \E w \in Wagers, winner \in Wallets : settle_wager(TREASURY, w, winner)
  BY <1>11, Award_step
<1>. QED
  BY <1>t, <1>k, <1>2, <1>3, <1>4, <1>5, <1>7, <1>8, <1>9, <1>10, <1>11, StepCases
     DEF Effect

\* What a wallet owns is an integer, before a step and after it.
LEMMA OwnsType ==
  IsFiniteSet(Wagers) => (TypeOK => \A p \in Wallets : Owns(p) \in Int)
<1>. SUFFICES ASSUME IsFiniteSet(Wagers), TypeOK, NEW p \in Wallets
     PROVE  Owns(p) \in Int
  OBVIOUS
<1>1. ASSUME NEW w \in Wagers PROVE Claims(p)[w] \in Int
  <2>1. wager[w] \in WagerMatch
    BY DEF TypeOK
  <2>2. Owed(p, wager[w]) \in Int
    BY <2>1 DEF Owed, WagerMatch
  <2>. QED BY <2>2 DEF Claims, Claim
<1>2. Total(Claims(p), Wagers) \in Int
  BY <1>1, TotalType
<1>3. purse[p] \in Int
  BY DEF TypeOK
<1>. QED BY <1>2, <1>3 DEF Owns

\* A wallet only gets poorer, counting the stakes it can claim, by losing a
\* fight it agreed to or by paying the fee on one it won: no cancel, refund,
\* reclaim or split of the contract leaves a wallet with less than it had.
THEOREM OnlyFightsCost ==
  ASSUME IsFiniteSet(Wagers)
  PROVE  Spec => OnlyAFightCostsMoney
<1>1. (\A p \in Wallets : Wealth(p) = Owns(p))'
  BY WealthIs, PTL
<1>2. (TypeOK => \A p \in Wallets : Owns(p) \in Int)'
  BY OwnsType, PTL
<1>3. ASSUME IInv, IInv', [Next]_vars
      PROVE  [\A p \in Wallets :
                Wealth(p)' < Wealth(p) =>
                  \E w \in Wagers :
                    /\ wager[w].status = "ACTIVE" /\ wager'[w].status = "SETTLED"
                    /\ p \in Participants(w)
                    /\ Wealth(p) - Wealth(p)' <= wager[w].stake_amount
                    /\ \E q \in Participants(w) \ {p} : Wealth(q)' > Wealth(q)]_vars
  <2>1. SUFFICES ASSUME NEW p \in Wallets, Wealth(p)' < Wealth(p)
        PROVE  \E w \in Wagers :
                 /\ wager[w].status = "ACTIVE" /\ wager'[w].status = "SETTLED"
                 /\ p \in Participants(w)
                 /\ Wealth(p) - Wealth(p)' <= wager[w].stake_amount
                 /\ \E q \in Participants(w) \ {p} : Wealth(q)' > Wealth(q)
    OBVIOUS
  <2>2. TypeOK /\ TypeOK'
    BY <1>3 DEF IInv
  <2>3. \A q \in Wallets : Wealth(q) = Owns(q) /\ Wealth(q)' = Owns(q)'
    BY WealthIs, <1>1
  <2>4. Owns(p) \in Int /\ Owns(p)' \in Int
    BY OwnsType, <1>2, <2>2
  <2>5. ~(Owns(p)' >= Owns(p))
    BY <2>1, <2>3, <2>4
  <2>6. LosesAFight(p)
    BY <1>3, <2>2, <2>5, Owns_step
  <2>7. PICK w \in Wagers :
          /\ wager[w].status = "ACTIVE" /\ wager'[w].status = "SETTLED"
          /\ p \in Participants(w)
          /\ Owns(p) - Owns(p)' <= wager[w].stake_amount
          /\ \E q \in Participants(w) \ {p} : Owns(q)' > Owns(q)
    BY <2>6 DEF LosesAFight
  <2>8. Participants(w) \subseteq Wallets
    BY <1>3, <2>7 DEF IInv, EscrowMatchesStatus, WellFunded, Participants
  <2>9. \E q \in Participants(w) \ {p} : Wealth(q)' > Wealth(q)
    BY <2>3, <2>7, <2>8
  <2>10. Wealth(p) - Wealth(p)' <= wager[w].stake_amount
    BY <2>3, <2>7
  <2>. QED BY <2>7, <2>9, <2>10
<1>. QED BY <1>3, Invariance, PTL DEF Spec, OnlyAFightCostsMoney
=============================================================================
