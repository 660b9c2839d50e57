------------------------------ MODULE MCArena ------------------------------
(* Arena on small instances, and the one property that needs a sum. *)
EXTENDS Arena, FiniteSetsExt, TLC

Coins(S, Value(_)) == MapThenSumSet(Value, S)

\* No coin is created or lost by the contract: purses and escrows together
\* always hold what the wallets started with.
CoinsConserved ==
  Coins(Wallets, LAMBDA p : purse[p])
    + Coins(Wagers, LAMBDA w : wager[w].escrow + wager[w].challenger_escrow)
  = Cardinality(Wallets) * InitialPurse

Wealth(p) == purse[p] + Coins(Wagers, LAMBDA w : Claim(p, w))

\* A wallet only ever gets poorer, counting the stakes it can claim, by losing
\* a fight it agreed to or by winning one and paying the fee: an ACTIVE wager
\* of its own is settled in that step, and it loses at most its stake.
OnlyAFightCostsMoney ==
  [][\A p \in Wallets :
       Wealth(p)' < Wealth(p) =>
         \E w \in Wagers :
           /\ wager[w].status = "ACTIVE" /\ wager'[w].status = "SETTLED"
           /\ p \in Participants(w)
           /\ Wealth(p) - Wealth(p)' <= wager[w].stake_amount
           /\ \E q \in Participants(w) \ {p} : Wealth(q)' > Wealth(q)]_vars

WagerSymmetry == Permutations(Wagers)
=============================================================================
