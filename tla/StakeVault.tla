----------------------------- MODULE StakeVault -----------------------------
(***************************************************************************)
(* What the wager contract promises about money, and nothing else.  Each   *)
(* wager holds at most two equal stakes.  A stake leaves the owner's purse *)
(* once, and then either comes back whole, or is awarded, less the fee, in *)
(* a fight both sides paid for.  A wager that gave everything out is done. *)
(***************************************************************************)
EXTENDS Integers

CONSTANTS Wallets, TREASURY, Wagers, Stakes, InitialPurse

VARIABLES purse,       \* coins of each wallet
          held,        \* held[w][p]: the stake of p that w holds
          done         \* wagers that are over

vaultVars == <<purse, held, done>>

Fee(total) == (total * 500) \div 10000

Holders(w) == {p \in Wallets : held[w][p] > 0}

Init ==
  /\ purse = [p \in Wallets |-> InitialPurse]
  /\ held = [w \in Wagers |-> [p \in Wallets |-> 0]]
  /\ done = {}

Deposit(w, p, x) ==
  /\ w \notin done
  /\ 0 < x /\ x <= purse[p]
  /\ p \notin Holders(w)
  /\ \A q, r \in Holders(w) : q = r /\ held[w][q] = x
  /\ purse' = [purse EXCEPT ![p] = @ - x]
  /\ held' = [held EXCEPT ![w][p] = x]
  /\ UNCHANGED done

\* The stakes of the wallets in P go back to them.
GiveBack(w, P) ==
  /\ P # {} /\ P \subseteq Holders(w)
  /\ purse' = [p \in Wallets |-> purse[p] + IF p \in P THEN held[w][p] ELSE 0]
  /\ held' = [held EXCEPT ![w] = [p \in Wallets |-> IF p \in P THEN 0 ELSE @[p]]]
  /\ done' = IF P = Holders(w) THEN done \cup {w} ELSE done

Award(w, winner, loser) ==
  LET total == held[w][winner] + held[w][loser] IN
  /\ winner # loser
  /\ Holders(w) = {winner, loser}
  /\ purse' = [p \in Wallets |->
                 purse[p] + (IF p = winner THEN total - Fee(total) ELSE 0)
                          + (IF p = TREASURY THEN Fee(total) ELSE 0)]
  /\ held' = [held EXCEPT ![w] = [p \in Wallets |-> 0]]
  /\ done' = done \cup {w}

Next ==
  \E w \in Wagers :
    \/ \E p \in Wallets : \E x \in Stakes : Deposit(w, p, x)
    \/ \E P \in SUBSET Wallets : GiveBack(w, P)
    \/ \E winner, loser \in Wallets : Award(w, winner, loser)

Spec == Init /\ [][Next]_vaultVars
=============================================================================
