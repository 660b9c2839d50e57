---------------------------- MODULE MCAdmission ----------------------------
(* Admission on small instances: who plays, and who creates which wager. *)
EXTENDS Admission

CONSTANTS A, B, C, W1, W2

Pair == {A, B}
Three == {A, B, C}

OneWager == {W1}
TwoWagers == {W1, W2}

\* A creates the first wager; B the second, once it may.
OneCreator == [w \in OneWager |-> A]
TwoCreators == [w \in TwoWagers |-> IF w = W1 THEN A ELSE B]
=============================================================================
