---------------------------- MODULE MarketProofs ----------------------------
(***************************************************************************)
(* Proofs about Market, for any wallets, items, prices, pages of events    *)
(* and interruptions: the events tell what is for sale and no coin is made *)
(* or lost, a gap fill repairs the index whatever the stream did, and a    *)
(* page that has its listings follows the index.                           *)
(***************************************************************************)
EXTENDS Market, FiniteSetTheorems, SequenceTheorems, WellFoundedInduction, TLAPS

(***************************************************************************)
(* Induction                                                               *)
(***************************************************************************)
\* Induction over the subsets of a finite set.
LEMMA SubsetInduction ==
  ASSUME NEW S, IsFiniteSet(S), NEW Good,
         \A T \in SUBSET S : (\A U \in SUBSET T : U # T => U \in Good) => T \in Good
  PROVE  SUBSET S \subseteq Good
<1> DEFINE R == StrictSubsetOrdering(S)
           B == {T \in SUBSET S : T \notin Good}
<1>1. SUFFICES ASSUME B # {} PROVE FALSE OBVIOUS
<1>2. IsWellFoundedOn(R, FiniteSubsetsOf(S)) BY FS_StrictSubsetOrderingWellFounded
<1>3. B \subseteq FiniteSubsetsOf(S)
  <2>1. ASSUME NEW T \in B PROVE T \in FiniteSubsetsOf(S)
    BY FS_Subset DEF FiniteSubsetsOf
  <2> QED BY <2>1
<1>4. \E T \in B : \A U \in B : <<U, T>> \notin R
  <2> HIDE DEF R, B
  <2> QED BY <1>1, <1>2, <1>3, WFMin
<1>5. PICK T \in B : \A U \in B : <<U, T>> \notin R BY <1>4
<1>6. ASSUME NEW U \in SUBSET T, U # T PROVE U \in Good
  <2>1. <<U, T>> \in R BY <1>6 DEF StrictSubsetOrdering
  <2> QED BY <2>1, <1>5
<1> QED BY <1>5, <1>6

\* Induction over the natural numbers, for a set of them.
LEMMA NatSetInduction ==
  ASSUME NEW S, 0 \in S, \A n \in Nat : n \in S => n + 1 \in S
  PROVE  Nat \subseteq S
<1> DEFINE R == {p \in Nat \X Nat : p[1] < p[2]}
           T == Nat \ S
<1>1. SUFFICES ASSUME T # {} PROVE FALSE OBVIOUS
<1>2. IsWellFoundedOn(R, Nat) BY NatLessThanWellFounded DEF OpToRel
<1>3. \E x \in T : \A y \in T : <<y, x>> \notin R
  <2>1. T \subseteq Nat OBVIOUS
  <2> HIDE DEF R, T
  <2> QED BY <1>1, <1>2, <2>1, WFMin
<1>4. PICK x \in T : \A y \in T : <<y, x>> \notin R BY <1>3
<1>5. x \in Nat /\ x # 0 BY <1>4
<1>6. x - 1 \in Nat /\ x - 1 < x BY <1>5
<1>7. x - 1 \in S BY <1>4, <1>6
<1>8. (x - 1) + 1 = x BY <1>5
<1> QED BY <1>4, <1>6, <1>7, <1>8

(***************************************************************************)
(* Folds.  The folds of the libraries are recursive functions on the       *)
(* subsets of a finite set: g builds a value from base, one picked element *)
(* after the other.                                                        *)
(***************************************************************************)
Picks(pick, S) == \A s \in SUBSET S : s # {} => pick[s] \in s
Builds(g, base, step, pick, f, S) ==
  g = [s \in SUBSET S |->
         IF s = {} THEN base ELSE step[<<g[s \ {pick[s]}], f[pick[s]]>>]]

\* What such a function does on a set.
LEMMA BuildsAt ==
  ASSUME NEW g, NEW base, NEW step, NEW pick, NEW f, NEW S,
         Builds(g, base, step, pick, f, S), NEW s \in SUBSET S
  PROVE  /\ s = {} => g[s] = base
         /\ s # {} => g[s] = step[<<g[s \ {pick[s]}], f[pick[s]]>>]
BY DEF Builds

\* Two of them agree where both are defined and the elements agree.
LEMMA BuildsSame ==
  ASSUME NEW base, NEW step, NEW pick,
         NEW g, NEW f, NEW S, Builds(g, base, step, pick, f, S),
         NEW h, NEW e, NEW T, Builds(h, base, step, pick, e, T),
         NEW U, IsFiniteSet(U), U \subseteq S, U \subseteq T, Picks(pick, U),
         \A x \in U : f[x] = e[x]
  PROVE  g[U] = h[U]
<1> DEFINE Good == {s \in SUBSET U : g[s] = h[s]}
<1>1. ASSUME NEW s \in SUBSET U, \A r \in SUBSET s : r # s => r \in Good
      PROVE  s \in Good
  <2>0. s \in SUBSET S /\ s \in SUBSET T OBVIOUS
  <2>a. /\ s = {} => g[s] = base
        /\ s # {} => g[s] = step[<<g[s \ {pick[s]}], f[pick[s]]>>]
    <3> HIDE DEF Good
    <3> QED BY <2>0, BuildsAt
  <2>b. /\ s = {} => h[s] = base
        /\ s # {} => h[s] = step[<<h[s \ {pick[s]}], e[pick[s]]>>]
    <3> HIDE DEF Good
    <3> QED BY <2>0, BuildsAt
  <2>1. CASE s = {} BY <2>1, <2>a, <2>b
  <2>2. CASE s # {}
    <3>1. pick[s] \in s BY <2>2 DEF Picks
    <3>2. s \ {pick[s]} \in Good BY <3>1, <1>1
    <3> QED BY <2>2, <2>a, <2>b, <3>1, <3>2
  <2> QED BY <2>1, <2>2
<1>2. SUBSET U \subseteq Good
  <2> HIDE DEF Good
  <2> QED BY <1>1, SubsetInduction
<1> QED BY <1>2

\* There is such a function.
LEMMA BuildsExists ==
  ASSUME NEW base, NEW step, NEW pick, NEW f, NEW S, IsFiniteSet(S), Picks(pick, S)
  PROVE  \E g : Builds(g, base, step, pick, f, S)
<1> DEFINE Good == {T \in SUBSET S : \E g : Builds(g, base, step, pick, f, T)}
<1>1. ASSUME NEW T \in SUBSET S, \A U \in SUBSET T : U # T => U \in Good
      PROVE  T \in Good
  <2> DEFINE G(U) == CHOOSE g : Builds(g, base, step, pick, f, U)
             g == [s \in SUBSET T |->
                     IF s = {} THEN base
                     ELSE step[<<G(s \ {pick[s]})[s \ {pick[s]}], f[pick[s]]>>]]
  <2>0. \A U \in SUBSET T : U # {} => pick[U] \in U BY DEF Picks
  <2>1. ASSUME NEW U \in SUBSET T, U # T PROVE Builds(G(U), base, step, pick, f, U)
    <3>1. \E k : Builds(k, base, step, pick, f, U) BY <2>1, <1>1
    <3> QED BY <3>1
  <2>2. ASSUME NEW U \in SUBSET T, U # T PROVE g[U] = G(U)[U]
    <3>0. Builds(G(U), base, step, pick, f, U) /\ U \in SUBSET U
      <4> HIDE DEF G, g
      <4> QED BY <2>1, <2>2
    <3>1. CASE U = {}
      <4>1. G(U)[U] = base
        <5> HIDE DEF G, g
        <5> QED BY <3>0, <3>1, BuildsAt
      <4> QED BY <3>1, <4>1
    <3>2. CASE U # {}
      <4> DEFINE V == U \ {pick[U]}
      <4>1. V \in SUBSET U /\ V # U /\ V \in SUBSET T /\ V # T BY <3>2, <2>0
      <4>2. g[U] = step[<<G(V)[V], f[pick[U]]>>] BY <3>2
      <4>3. G(U)[U] = step[<<G(U)[V], f[pick[U]]>>]
        <5> HIDE DEF G, g
        <5> QED BY <3>0, <3>2, BuildsAt
      <4>4. Builds(G(V), base, step, pick, f, V)
        <5> HIDE DEF G, g, V
        <5> QED BY <2>1, <4>1
      <4>5. IsFiniteSet(V) BY FS_Subset
      <4>6. G(U)[V] = G(V)[V]
        <5>1. Picks(pick, V) BY DEF Picks
        <5> HIDE DEF G, g, V
        <5> QED BY <3>0, <4>1, <4>4, <4>5, <5>1, BuildsSame
      <4> QED BY <4>2, <4>3, <4>6
    <3> QED BY <3>1, <3>2
  <2>3. ASSUME NEW s \in SUBSET T, s # {}
        PROVE  g[s] = step[<<g[s \ {pick[s]}], f[pick[s]]>>]
    <3> DEFINE r == s \ {pick[s]}
    <3>1. r \in SUBSET T /\ r # T BY <2>3, <2>0
    <3>2. g[s] = step[<<G(r)[r], f[pick[s]]>>] BY <2>3
    <3>3. g[r] = G(r)[r] BY <3>1, <2>2
    <3> QED BY <3>2, <3>3
  <2>4. Builds(g, base, step, pick, f, T)
    <3> DEFINE k == [s \in SUBSET T |->
                       IF s = {} THEN base ELSE step[<<g[s \ {pick[s]}], f[pick[s]]>>]]
    <3>1. ASSUME NEW s \in SUBSET T PROVE g[s] = k[s]
      <4>1. CASE s = {} BY <4>1
      <4>2. CASE s # {}
        <5>1. g[s] = step[<<g[s \ {pick[s]}], f[pick[s]]>>]
          <6> HIDE DEF g
          <6> QED BY <4>2, <2>3
        <5> HIDE DEF g
        <5> QED BY <4>2, <5>1
      <4> QED BY <4>1, <4>2
    <3>2. DOMAIN g = SUBSET T /\ DOMAIN k = SUBSET T OBVIOUS
    <3>3. g = k BY <3>1, <3>2
    <3> HIDE DEF g
    <3> QED BY <3>3 DEF Builds
  <2> QED BY <2>4
<1>2. SUBSET S \subseteq Good
  <2> HIDE DEF Good
  <2> QED BY <1>1, SubsetInduction
<1>3. S \in Good
  <2> HIDE DEF Good
  <2> QED BY <1>2
<1> QED BY <1>3

\* It stays in a set that step does not leave.
LEMMA BuildsType ==
  ASSUME NEW A, NEW B, NEW base \in A, NEW step \in [A \X B -> A], NEW pick, NEW f, NEW S,
         IsFiniteSet(S), Picks(pick, S), \A x \in S : f[x] \in B,
         NEW g, Builds(g, base, step, pick, f, S)
  PROVE  \A s \in SUBSET S : g[s] \in A
<1> DEFINE Good == {s \in SUBSET S : g[s] \in A}
<1>1. ASSUME NEW s \in SUBSET S, \A r \in SUBSET s : r # s => r \in Good
      PROVE  s \in Good
  <2>1. /\ s = {} => g[s] = base
        /\ s # {} => g[s] = step[<<g[s \ {pick[s]}], f[pick[s]]>>]
    <3> HIDE DEF Good
    <3> QED BY BuildsAt
  <2>2. CASE s = {} BY <2>1, <2>2
  <2>3. CASE s # {}
    <3>1. pick[s] \in s BY <2>3 DEF Picks
    <3>2. g[s \ {pick[s]}] \in A BY <1>1, <3>1
    <3>3. f[pick[s]] \in B BY <3>1
    <3> QED BY <2>1, <2>3, <3>2, <3>3
  <2> QED BY <2>2, <2>3
<1>2. SUBSET S \subseteq Good
  <2> HIDE DEF Good
  <2> QED BY <1>1, SubsetInduction
<1> QED BY <1>2

(***************************************************************************)
(* Folds of a sequence, from the left: the highest index is picked, so the *)
(* prefixes are what matters.                                              *)
(***************************************************************************)
Highest(n) == [s \in SUBSET (1 .. n) |-> Max(s)]

LEMMA MaxIsIn ==
  ASSUME NEW n \in Nat, NEW s \in SUBSET (1 .. n), s # {}
  PROVE  Max(s) \in s /\ \A y \in s : Max(s) >= y
<1> DEFINE Good == {k \in Nat : \A r \in SUBSET (1 .. k) :
                      r # {} => \E x \in r : \A y \in r : x >= y}
<1>1. 0 \in Good
  <2>1. 1 .. 0 = {} OBVIOUS
  <2>2. \A r \in SUBSET (1 .. 0) : r = {} BY <2>1
  <2> QED BY <2>2
<1>2. ASSUME NEW k \in Nat, k \in Good PROVE k + 1 \in Good
  <2>1. ASSUME NEW r \in SUBSET (1 .. k + 1), r # {}
        PROVE  \E x \in r : \A y \in r : x >= y
    <3>1. CASE k + 1 \in r BY <3>1
    <3>2. CASE k + 1 \notin r
      <4>1. r \in SUBSET (1 .. k) BY <3>2
      <4> QED BY <4>1, <2>1, <1>2
    <3> QED BY <3>1, <3>2
  <2> QED BY <2>1
<1>3. Nat \subseteq Good
  <2> HIDE DEF Good
  <2> QED BY <1>1, <1>2, NatSetInduction
<1>4. \E x \in s : \A y \in s : x >= y BY <1>3
<1> QED BY <1>4 DEF Max

LEMMA HighestPicks == ASSUME NEW n \in Nat PROVE Picks(Highest(n), 1 .. n)
BY MaxIsIn DEF Picks, Highest

LEMMA HighestOfPrefix ==
  ASSUME NEW n \in Nat, NEW k \in 1 .. n
  PROVE  /\ Highest(n)[1 .. k] = k /\ (1 .. k) \ {k} = 1 .. k - 1
         /\ 1 .. k \in SUBSET (1 .. n) /\ 1 .. k # {}
<1>1. 1 .. k \in SUBSET (1 .. n) /\ k \in 1 .. k OBVIOUS
<1>2. Max(1 .. k) \in 1 .. k /\ Max(1 .. k) >= k BY <1>1, MaxIsIn
<1>3. Max(1 .. k) = k BY <1>2
<1> QED BY <1>1, <1>3 DEF Highest

\* h holds the stages of a fold over q.
Stages(h, base, step, q) ==
  h[0] = base /\ \A k \in 1 .. Len(q) : h[k] = step[<<h[k - 1], q[k]>>]

\* What the recursive function says of the prefixes.
LEMMA PrefixesRun ==
  ASSUME NEW S, NEW q \in Seq(S), NEW base, NEW step, NEW g,
         Builds(g, base, step, Highest(Len(q)), q, 1 .. Len(q))
  PROVE  Stages([k \in 0 .. Len(q) |-> g[1 .. k]], base, step, q)
<1> DEFINE n == Len(q)
           h == [k \in 0 .. n |-> g[1 .. k]]
<1>0. n \in Nat OBVIOUS
<1>1. h[0] = base
  <2>1. 1 .. 0 = {} /\ 1 .. 0 \in SUBSET (1 .. n) OBVIOUS
  <2>2. g[1 .. 0] = base BY <2>1, BuildsAt
  <2> QED BY <2>2
<1>2. ASSUME NEW k \in 1 .. n PROVE h[k] = step[<<h[k - 1], q[k]>>]
  <2>1. g[1 .. k] = step[<<g[(1 .. k) \ {Highest(n)[1 .. k]}], q[Highest(n)[1 .. k]]>>]
    <3> DEFINE pick == Highest(n)
               D == 1 .. n
               p == 1 .. k
    <3>1. p \in SUBSET D /\ p # {} BY <1>0, HighestOfPrefix
    <3>2. Builds(g, base, step, pick, q, D) OBVIOUS
    <3> HIDE DEF h, n, pick, D, p
    <3>3. g[p] = step[<<g[p \ {pick[p]}], q[pick[p]]>>] BY <3>1, <3>2, BuildsAt
    <3> QED BY <3>3 DEF pick, p
  <2>2. g[1 .. k] = step[<<g[1 .. k - 1], q[k]>>]
    <3> HIDE DEF h
    <3> QED BY <2>1, <1>0, HighestOfPrefix
  <2>3. k \in 0 .. n /\ k - 1 \in 0 .. n BY <1>0
  <2> QED BY <2>2, <2>3
<1> HIDE DEF h
<1> QED BY <1>1, <1>2 DEF Stages, h

\* Two folds that start alike and take the same elements go alike.
Alike(q, r, n) ==
  /\ n \in Nat /\ Len(q) \in Nat /\ Len(r) \in Nat /\ n <= Len(q) /\ n <= Len(r)
  /\ \A k \in 1 .. n : q[k] = r[k]

LEMMA RunsAgree ==
  ASSUME NEW base, NEW step, NEW q, NEW r, NEW h, NEW e, NEW n,
         Alike(q, r, n), Stages(h, base, step, q), Stages(e, base, step, r)
  PROVE  h[n] = e[n]
<1>0. /\ n \in Nat /\ Len(q) \in Nat /\ Len(r) \in Nat /\ n <= Len(q) /\ n <= Len(r)
      /\ \A k \in 1 .. n : q[k] = r[k]
  BY DEF Alike
<1> DEFINE Good == {k \in Nat : k <= n => h[k] = e[k]}
<1>1. 0 \in Good BY DEF Stages
<1>2. ASSUME NEW k \in Nat, k \in Good PROVE k + 1 \in Good
  <2> SUFFICES ASSUME k + 1 <= n PROVE h[k + 1] = e[k + 1] OBVIOUS
  <2>1. k + 1 \in 1 .. Len(q) /\ k + 1 \in 1 .. Len(r) /\ k + 1 \in 1 .. n BY <1>0
  <2>2. h[k] = e[k] BY <1>0, <1>2
  <2>3. (k + 1) - 1 = k OBVIOUS
  <2>4. h[k + 1] = step[<<h[k], q[k + 1]>>] /\ e[k + 1] = step[<<e[k], r[k + 1]>>]
    <3> HIDE DEF Good
    <3> QED BY <2>1, <2>3 DEF Stages
  <2> QED BY <1>0, <2>1, <2>2, <2>4
<1>3. Nat \subseteq Good
  <2> HIDE DEF Good
  <2> QED BY <1>1, <1>2, NatSetInduction
<1> QED BY <1>0, <1>3

\* The stages stay in a set that step does not leave.
LEMMA RunsType ==
  ASSUME NEW A, NEW B, NEW base \in A, NEW step \in [A \X B -> A], NEW q \in Seq(B),
         NEW h, Stages(h, base, step, q)
  PROVE  \A k \in 0 .. Len(q) : h[k] \in A
<1> DEFINE Good == {k \in Nat : k <= Len(q) => h[k] \in A}
<1>1. 0 \in Good BY DEF Stages
<1>2. ASSUME NEW k \in Nat, k \in Good PROVE k + 1 \in Good
  <2> SUFFICES ASSUME k + 1 <= Len(q) PROVE h[k + 1] \in A OBVIOUS
  <2>1. k + 1 \in 1 .. Len(q) /\ q[k + 1] \in B OBVIOUS
  <2>2. h[k] \in A BY <1>2
  <2>3. (k + 1) - 1 = k OBVIOUS
  <2>4. h[k + 1] = step[<<h[k], q[k + 1]>>]
    <3> HIDE DEF Good
    <3> QED BY <2>1, <2>3 DEF Stages
  <2> QED BY <2>1, <2>2, <2>4
<1>3. Nat \subseteq Good
  <2> HIDE DEF Good
  <2> QED BY <1>1, <1>2, NatSetInduction
<1> QED BY <1>3

(***************************************************************************)
(* What is left when the offers of an item are taken out                   *)
(***************************************************************************)
KeepStep(i) == [p \in Seq(Offers) \X Offers |->
                  IF p[2].item = i THEN p[1] ELSE Append(p[1], p[2])]

LEMMA KeepStepTyped == ASSUME NEW i PROVE KeepStep(i) \in [Seq(Offers) \X Offers -> Seq(Offers)]
<1>1. ASSUME NEW s \in Seq(Offers), NEW o \in Offers
      PROVE  (IF o.item = i THEN s ELSE Append(s, o)) \in Seq(Offers)
  BY AppendProperties
<1> QED BY <1>1 DEF KeepStep

\* Without is a run of that step.
LEMMA WithoutRuns ==
  ASSUME NEW q \in Seq(Offers), NEW i
  PROVE  \E h : Stages(h, << >>, KeepStep(i), q) /\ Without(q, i) = h[Len(q)]
<1> DEFINE n == Len(q)
           keep(kept, o) == IF o.item = i THEN kept ELSE Append(kept, o)
           F(k) == [s \in SUBSET (1 .. n) |->
                      IF s = {} THEN << >> ELSE keep(k[s \ {Max(s)}], q[Max(s)])]
<1>0. n \in Nat /\ DOMAIN q = 1 .. n /\ \A x \in 1 .. n : q[x] \in Offers OBVIOUS
<1>1. PICK g : Builds(g, << >>, KeepStep(i), Highest(n), q, 1 .. n)
  <2>1. IsFiniteSet(1 .. n) /\ Picks(Highest(n), 1 .. n)
    BY <1>0, FS_Interval, HighestPicks
  <2> HIDE DEF n
  <2> QED BY <2>1, BuildsExists
<1>2. \A s \in SUBSET (1 .. n) : g[s] \in Seq(Offers)
  <2>1. IsFiniteSet(1 .. n) /\ Picks(Highest(n), 1 .. n)
    BY <1>0, FS_Interval, HighestPicks
  <2>2. << >> \in Seq(Offers) OBVIOUS
  <2>3. KeepStep(i) \in [Seq(Offers) \X Offers -> Seq(Offers)] BY KeepStepTyped
  <2> DEFINE A == Seq(Offers)
             D == 1 .. n
             e == << >>
             pick == Highest(n)
             step == KeepStep(i)
  <2>4. /\ e \in A /\ step \in [A \X Offers -> A] /\ IsFiniteSet(D) /\ Picks(pick, D)
        /\ \A x \in D : q[x] \in Offers
        /\ Builds(g, e, step, pick, q, D)
    BY <1>0, <1>1, <2>1, <2>2, <2>3
  <2> HIDE DEF A, D, e, pick, step, n
  <2>5. \A s \in SUBSET D : g[s] \in A BY <2>4, BuildsType
  <2> QED BY <2>5 DEF A, D
<1>3. ASSUME NEW s \in SUBSET (1 .. n)
      PROVE  /\ s = {} => g[s] = << >>
             /\ s # {} => Max(s) \in s /\ g[s] = keep(g[s \ {Max(s)}], q[Max(s)])
  <2> DEFINE x == Highest(n)[s]
             r == s \ {x}
  <2>1. x = Max(s) BY DEF Highest
  <2>2. /\ s = {} => g[s] = << >>
        /\ s # {} => g[s] = KeepStep(i)[<<g[r], q[x]>>]
    <3> DEFINE D == 1 .. n
               pick == Highest(n)
               step == KeepStep(i)
               e == << >>
    <3>1. Builds(g, e, step, pick, q, D) BY <1>1
    <3>2. s \in SUBSET D OBVIOUS
    <3> HIDE DEF D, n, pick, step, e
    <3>3. /\ s = {} => g[s] = e
          /\ s # {} => g[s] = step[<<g[s \ {pick[s]}], q[pick[s]]>>]
      BY <3>1, <3>2 DEF Builds
    <3> QED BY <3>3 DEF pick, step, e
  <2>3. s # {} => x \in s /\ x \in 1 .. n
    BY <1>0, <2>1, MaxIsIn
  <2>4. s # {} => g[r] \in Seq(Offers) /\ q[x] \in Offers
    BY <1>0, <1>2, <2>3
  <2>5. s # {} => KeepStep(i)[<<g[r], q[x]>>] = keep(g[r], q[x])
    <3> HIDE DEF r, x, n
    <3> QED BY <2>4 DEF KeepStep
  <2>6. s # {} => g[s] = keep(g[r], q[x])
    <3> HIDE DEF r, x, n, keep
    <3> QED BY <2>2, <2>5
  <2> HIDE DEF keep, n
  <2> QED BY <2>1, <2>2, <2>3, <2>6
<1>4. g = F(g)
  <2>1. DOMAIN g = SUBSET (1 .. n) /\ g = [s \in SUBSET (1 .. n) |-> g[s]]
    BY <1>1 DEF Builds
  <2>2. \A s \in SUBSET (1 .. n) : g[s] = F(g)[s]
    <3> HIDE DEF keep, n
    <3> QED BY <1>3
  <2>3. DOMAIN F(g) = SUBSET (1 .. n) /\ F(g) = [s \in SUBSET (1 .. n) |-> F(g)[s]]
    <3> HIDE DEF keep, n
    <3> QED OBVIOUS
  <2> HIDE DEF F, n
  <2> QED BY <2>1, <2>2, <2>3
<1>5. ASSUME NEW k, k = F(k) PROVE k[1 .. n] = g[1 .. n]
  <2> DEFINE Good == {s \in SUBSET (1 .. n) : k[s] = g[s]}
  <2>1. ASSUME NEW s \in SUBSET (1 .. n), \A r \in SUBSET s : r # s => r \in Good
        PROVE  s \in Good
    <3>1. /\ s = {} => k[s] = << >>
          /\ s # {} => k[s] = keep(k[s \ {Max(s)}], q[Max(s)])
      <4>1. k[s] = F(k)[s] BY <1>5
      <4>2. F(k)[s] = IF s = {} THEN << >> ELSE keep(k[s \ {Max(s)}], q[Max(s)])
        <5> HIDE DEF keep, n
        <5> QED OBVIOUS
      <4> HIDE DEF keep, n, F
      <4> QED BY <4>1, <4>2
    <3>2. s # {} => k[s \ {Max(s)}] = g[s \ {Max(s)}]
      <4>1. s # {} => s \ {Max(s)} \in SUBSET s /\ s \ {Max(s)} # s BY <1>3
      <4> QED BY <4>1, <2>1
    <3> HIDE DEF keep, n, F
    <3> QED BY <3>1, <3>2, <1>3
  <2>2. SUBSET (1 .. n) \subseteq Good
    <3> DEFINE D == 1 .. n
    <3>1. IsFiniteSet(D) BY <1>0, FS_Interval
    <3>2. \A T \in SUBSET D : (\A U \in SUBSET T : U # T => U \in Good) => T \in Good
      <4> HIDE DEF Good, n
      <4> QED BY <2>1
    <3> HIDE DEF Good, D
    <3>3. SUBSET D \subseteq Good BY <3>1, <3>2, SubsetInduction
    <3> QED BY <3>3 DEF D
  <2> QED BY <2>2
<1>6. Without(q, i) = g[1 .. n]
  <2> DEFINE k0 == CHOOSE k : k = F(k)
  <2>1. k0 = F(k0)
    <3> HIDE DEF F
    <3> QED BY <1>4
  <2>2. Without(q, i) = k0[1 .. n]
    BY <1>0 DEF Without, FoldLeft, MapThenFoldSet
  <2> HIDE DEF k0, F, n
  <2> QED BY <2>1, <2>2, <1>5
<1> DEFINE h == [k \in 0 .. n |-> g[1 .. k]]
<1>7. Stages(h, << >>, KeepStep(i), q) BY <1>1, PrefixesRun
<1>8. h[n] = g[1 .. n] BY <1>0
<1> HIDE DEF h, F, keep
<1> QED BY <1>6, <1>7, <1>8

LEMMA AppendExact ==
  ASSUME NEW S, NEW q \in Seq(S), NEW o \in S
  PROVE  /\ Append(q, o) \in Seq(S) /\ ToSet(Append(q, o)) = ToSet(q) \cup {o}
         /\ IsInjective(q) /\ o \notin ToSet(q) => IsInjective(Append(q, o))
<1>1. /\ Append(q, o) \in Seq(S) /\ Len(Append(q, o)) = Len(q) + 1 /\ Len(q) \in Nat
      /\ \A k \in 1 .. Len(q) : Append(q, o)[k] = q[k]
      /\ Append(q, o)[Len(q) + 1] = o
      /\ DOMAIN q = 1 .. Len(q) /\ DOMAIN Append(q, o) = 1 .. Len(q) + 1
  BY AppendProperties
<1>2. ToSet(q) = {q[k] : k \in 1 .. Len(q)} BY <1>1 DEF ToSet
<1>3. ToSet(Append(q, o)) = {Append(q, o)[k] : k \in 1 .. Len(q) + 1} BY <1>1 DEF ToSet
<1>4. ToSet(Append(q, o)) = ToSet(q) \cup {o}
  <2>1. 1 .. Len(q) + 1 = (1 .. Len(q)) \cup {Len(q) + 1} BY <1>1
  <2> QED BY <1>1, <1>2, <1>3, <2>1
<1>5. ASSUME IsInjective(q), o \notin ToSet(q) PROVE IsInjective(Append(q, o))
  <2>1. \A a, b \in 1 .. Len(q) : q[a] = q[b] => a = b BY <1>1, <1>5 DEF IsInjective
  <2>2. \A a \in 1 .. Len(q) : q[a] # o BY <1>2, <1>5
  <2>3. ASSUME NEW a \in 1 .. Len(q) + 1, NEW b \in 1 .. Len(q) + 1,
               Append(q, o)[a] = Append(q, o)[b]
        PROVE  a = b
    <3>1. CASE a \in 1 .. Len(q) /\ b \in 1 .. Len(q) BY <1>1, <2>1, <2>3, <3>1
    <3>2. CASE a \in 1 .. Len(q) /\ b = Len(q) + 1 BY <1>1, <2>2, <2>3, <3>2
    <3>3. CASE a = Len(q) + 1 /\ b \in 1 .. Len(q) BY <1>1, <2>2, <2>3, <3>3
    <3>4. CASE a = Len(q) + 1 /\ b = Len(q) + 1 BY <3>4
    <3> QED BY <1>1, <3>1, <3>2, <3>3, <3>4
  <2> QED BY <1>1, <2>3 DEF IsInjective
<1> QED BY <1>1, <1>4, <1>5

LEMMA WithoutIs ==
  ASSUME NEW q \in Seq(Offers), NEW i
  PROVE  /\ Without(q, i) \in Seq(Offers)
         /\ ToSet(Without(q, i)) = {o \in ToSet(q) : o.item # i}
         /\ IsInjective(q) => IsInjective(Without(q, i))
<1>1. PICK h : Stages(h, << >>, KeepStep(i), q) /\ Without(q, i) = h[Len(q)] BY WithoutRuns
<1>2. Len(q) \in Nat /\ DOMAIN q = 1 .. Len(q) /\ \A k \in 1 .. Len(q) : q[k] \in Offers
  OBVIOUS
<1> DEFINE Kept(k) == {o \in {q[j] : j \in 1 .. k} : o.item # i}
           Good == {k \in Nat : k <= Len(q) =>
                      /\ h[k] \in Seq(Offers) /\ ToSet(h[k]) = Kept(k)
                      /\ IsInjective(q) => IsInjective(h[k])}
<1>3. 0 \in Good
  <2>1. h[0] = << >> BY <1>1 DEF Stages
  <2>2. << >> \in Seq(Offers) /\ DOMAIN << >> = {} /\ 1 .. 0 = {} OBVIOUS
  <2>3. ToSet(h[0]) = {} BY <2>1, <2>2 DEF ToSet
  <2>4. IsInjective(h[0]) BY <2>1, <2>2 DEF IsInjective
  <2>5. Kept(0) = {} BY <2>2
  <2> QED BY <2>1, <2>2, <2>3, <2>4, <2>5
<1>4. ASSUME NEW k \in Nat, k \in Good PROVE k + 1 \in Good
  <2> SUFFICES ASSUME k + 1 <= Len(q)
               PROVE  /\ h[k + 1] \in Seq(Offers) /\ ToSet(h[k + 1]) = Kept(k + 1)
                      /\ IsInjective(q) => IsInjective(h[k + 1])
    OBVIOUS
  <2>1. k + 1 \in 1 .. Len(q) /\ (k + 1) - 1 = k /\ 1 .. k + 1 = (1 .. k) \cup {k + 1}
    BY <1>2
  <2>2. /\ h[k] \in Seq(Offers) /\ ToSet(h[k]) = Kept(k)
        /\ IsInjective(q) => IsInjective(h[k])
    BY <1>2, <1>4
  <2>3. q[k + 1] \in Offers BY <1>2, <2>1
  <2>4. h[k + 1] = KeepStep(i)[<<h[k], q[k + 1]>>]
    <3> HIDE DEF Good, Kept
    <3> QED BY <1>1, <2>1 DEF Stages
  <2>5. h[k + 1] = IF q[k + 1].item = i THEN h[k] ELSE Append(h[k], q[k + 1])
    <3> HIDE DEF Good, Kept
    <3> QED BY <2>2, <2>3, <2>4 DEF KeepStep
  <2>6. CASE q[k + 1].item = i
    <3>1. Kept(k + 1) = Kept(k) BY <2>1, <2>6
    <3>2. h[k + 1] = h[k] BY <2>5, <2>6
    <3> HIDE DEF Good, Kept
    <3> QED BY <2>2, <3>1, <3>2
  <2>7. CASE q[k + 1].item # i
    <3>1. Kept(k + 1) = Kept(k) \cup {q[k + 1]} BY <2>1, <2>7
    <3>2. h[k + 1] = Append(h[k], q[k + 1]) BY <2>5, <2>7
    <3>3. IsInjective(q) => q[k + 1] \notin Kept(k)
      <4>1. ASSUME IsInjective(q), NEW j \in 1 .. k PROVE q[j] # q[k + 1]
        <5>1. j \in DOMAIN q /\ k + 1 \in DOMAIN q /\ j # k + 1 BY <1>2, <2>1
        <5> QED BY <4>1, <5>1 DEF IsInjective
      <4> QED BY <4>1
    <3> HIDE DEF Good, Kept
    <3>4. /\ Append(h[k], q[k + 1]) \in Seq(Offers)
          /\ ToSet(Append(h[k], q[k + 1])) = ToSet(h[k]) \cup {q[k + 1]}
          /\ IsInjective(h[k]) /\ q[k + 1] \notin ToSet(h[k]) =>
               IsInjective(Append(h[k], q[k + 1]))
      BY <2>2, <2>3, AppendExact
    <3> QED BY <2>2, <3>1, <3>2, <3>3, <3>4
  <2> QED BY <2>6, <2>7
<1>5. Nat \subseteq Good
  <2> HIDE DEF Good
  <2> QED BY <1>3, <1>4, NatSetInduction
<1>6. /\ h[Len(q)] \in Seq(Offers) /\ ToSet(h[Len(q)]) = Kept(Len(q))
      /\ IsInjective(q) => IsInjective(h[Len(q)])
  BY <1>2, <1>5
<1>7. Kept(Len(q)) = {o \in ToSet(q) : o.item # i} BY <1>2 DEF ToSet
<1> HIDE DEF Good, Kept
<1> QED BY <1>1, <1>6, <1>7

\* A set becomes a sequence that holds each of its elements once.
LEMMA SetToSeqIs ==
  ASSUME NEW S, IsFiniteSet(S)
  PROVE  SetToSeq(S) \in Seq(S) /\ ToSet(SetToSeq(S)) = S /\ IsInjective(SetToSeq(S))
<1> DEFINE n == Cardinality(S)
           s == SetToSeq(S)
<1>1. n \in Nat /\ ExistsBijection(1 .. n, S) BY FS_CardinalityType
<1>2. \E f \in [1 .. n -> S] : IsInjective(f)
  BY <1>1 DEF ExistsBijection, Bijection, Injection
<1>3. s \in [1 .. n -> S] /\ IsInjective(s)
  BY <1>2 DEF SetToSeq
<1>4. s \in Surjection(1 .. n, S)
  <2>1. IsFiniteSet(1 .. n) /\ Cardinality(1 .. n) = n BY <1>1, FS_Interval
  <2>2. s \in Injection(1 .. n, S) BY <1>3 DEF Injection
  <2> HIDE DEF s
  <2> QED BY <2>1, <2>2, FS_Injection
<1>5. ToSet(s) = S
  <2> HIDE DEF s, n
  <2> QED BY <1>3, <1>4 DEF ToSet, Surjection
<1>6. s \in Seq(S)
  <2> HIDE DEF s
  <2> QED BY <1>1, <1>3
<1> QED BY <1>3, <1>5, <1>6

\* A sequence without repetition is as long as its set is large.
LEMMA OnceIsCard ==
  ASSUME NEW S, NEW q \in Seq(S), IsInjective(q)
  PROVE  Len(q) = Cardinality(ToSet(q)) /\ IsFiniteSet(ToSet(q))
<1>1. Len(q) \in Nat /\ DOMAIN q = 1 .. Len(q) /\ q = [k \in 1 .. Len(q) |-> q[k]] OBVIOUS
<1> DEFINE n == Len(q)
           T == ToSet(q)
<1>2. q \in [1 .. n -> T] BY <1>1 DEF ToSet
<1>3. q \in Bijection(1 .. n, T)
  BY <1>1, <1>2 DEF Bijection, Injection, Surjection, ToSet
<1>n. n \in Nat BY <1>1
<1> HIDE DEF n, T
<1>4. IsFiniteSet(1 .. n) /\ Cardinality(1 .. n) = n BY <1>n, FS_Interval
<1>5. ExistsBijection(1 .. n, T) BY <1>3 DEF ExistsBijection
<1>6. IsFiniteSet(T) /\ Cardinality(T) = Cardinality(1 .. n) BY <1>4, <1>5, FS_Bijection
<1> QED BY <1>4, <1>6 DEF n, T

(***************************************************************************)
(* Types                                                                   *)
(***************************************************************************)
Events == {e \in [kind : Kinds, item : Items, who : Wallets, price : Prices \cup {None}] :
             e.kind = "listed" => e.price \in Prices}
Signed == {t \in [kind : {"list", "delist", "retrieve", "buy"}, item : Items,
                  price : Prices \cup {None}, seller : Wallets] :
             t.kind \in {"list", "buy"} => t.price \in Prices}
Pages == {S \in SUBSET Offers : IsFiniteSet(S)}
Messages == [type : {"marketplace_data"}, offers : Pages]
              \cup [type : {"item_listed", "removed"}, offer : Offers]

\* What the page will show when all of q has arrived.
Shown(t, q) == FoldLeft(Reduce, t, q)

LEMMA MessageShape ==
  ASSUME NEW m \in Messages
  PROVE  \/ m.type = "marketplace_data" /\ m.offers \subseteq Offers /\ IsFiniteSet(m.offers)
         \/ m.type = "item_listed" /\ m.offer \in Offers
         \/ m.type = "removed" /\ m.offer \in Offers
BY DEF Messages, Pages

LEMMA ReduceTyped ==
  ASSUME NEW s \in Seq(Offers), NEW m \in Messages
  PROVE  Reduce(s, m) \in Seq(Offers)
<1>1. CASE m.type = "marketplace_data" /\ m.offers \subseteq Offers /\ IsFiniteSet(m.offers)
  <2>1. SetToSeq(m.offers) \in Seq(m.offers) BY <1>1, SetToSeqIs
  <2>2. SetToSeq(m.offers) \in Seq(Offers)
    <3> DEFINE e == SetToSeq(m.offers)
    <3>1. e \in Seq(m.offers) BY <2>1
    <3> HIDE DEF e
    <3>2. e \in Seq(Offers) BY <1>1, <3>1
    <3> QED BY <3>2 DEF e
  <2>3. Reduce(s, m) = SetToSeq(m.offers) BY <1>1 DEF Reduce
  <2> QED BY <2>2, <2>3
<1>2. CASE m.type = "item_listed" /\ m.offer \in Offers
  <2>1. Reduce(s, m) = Append(s, m.offer) BY <1>2 DEF Reduce
  <2> QED BY <1>2, <2>1, AppendProperties
<1>3. CASE m.type = "removed" /\ m.offer \in Offers
  <2>1. Reduce(s, m) = Without(s, m.offer.item) BY <1>3 DEF Reduce
  <2> QED BY <2>1, WithoutIs
<1> QED BY <1>1, <1>2, <1>3, MessageShape

ReduceStep == [p \in Seq(Offers) \X Messages |-> Reduce(p[1], p[2])]

LEMMA ReduceStepTyped == ReduceStep \in [Seq(Offers) \X Messages -> Seq(Offers)]
BY ReduceTyped DEF ReduceStep

\* What arrives is a run of that step.
LEMMA ShownRuns ==
  ASSUME NEW t \in Seq(Offers), NEW q \in Seq(Messages)
  PROVE  \E h : Stages(h, t, ReduceStep, q) /\ Shown(t, q) = h[Len(q)]
<1> DEFINE n == Len(q)
           F(k) == [s \in SUBSET (1 .. n) |->
                      IF s = {} THEN t ELSE Reduce(k[s \ {Max(s)}], q[Max(s)])]
<1>0. n \in Nat /\ DOMAIN q = 1 .. n /\ \A x \in 1 .. n : q[x] \in Messages OBVIOUS
<1>1. PICK g : Builds(g, t, ReduceStep, Highest(n), q, 1 .. n)
  <2>1. IsFiniteSet(1 .. n) /\ Picks(Highest(n), 1 .. n)
    BY <1>0, FS_Interval, HighestPicks
  <2> HIDE DEF n
  <2> QED BY <2>1, BuildsExists
<1>2. \A s \in SUBSET (1 .. n) : g[s] \in Seq(Offers)
  <2>1. IsFiniteSet(1 .. n) /\ Picks(Highest(n), 1 .. n)
    BY <1>0, FS_Interval, HighestPicks
  <2>2. t \in Seq(Offers) OBVIOUS
  <2>3. ReduceStep \in [Seq(Offers) \X Messages -> Seq(Offers)] BY ReduceStepTyped
  <2> DEFINE A == Seq(Offers)
             D == 1 .. n
             e == t
             pick == Highest(n)
             step == ReduceStep
  <2>4. /\ e \in A /\ step \in [A \X Messages -> A] /\ IsFiniteSet(D) /\ Picks(pick, D)
        /\ \A x \in D : q[x] \in Messages
        /\ Builds(g, e, step, pick, q, D)
    BY <1>0, <1>1, <2>1, <2>2, <2>3
  <2> HIDE DEF A, D, e, pick, step, n
  <2>5. \A s \in SUBSET D : g[s] \in A BY <2>4, BuildsType
  <2> QED BY <2>5 DEF A, D
<1>3. ASSUME NEW s \in SUBSET (1 .. n)
      PROVE  /\ s = {} => g[s] = t
             /\ s # {} => Max(s) \in s /\ g[s] = Reduce(g[s \ {Max(s)}], q[Max(s)])
  <2> DEFINE x == Highest(n)[s]
             r == s \ {x}
  <2>1. x = Max(s) BY DEF Highest
  <2>2. /\ s = {} => g[s] = t
        /\ s # {} => g[s] = ReduceStep[<<g[r], q[x]>>]
    <3> DEFINE D == 1 .. n
               pick == Highest(n)
               step == ReduceStep
               e == t
    <3>1. Builds(g, e, step, pick, q, D) BY <1>1
    <3>2. s \in SUBSET D OBVIOUS
    <3> HIDE DEF D, n, pick, step, e
    <3>3. /\ s = {} => g[s] = e
          /\ s # {} => g[s] = step[<<g[s \ {pick[s]}], q[pick[s]]>>]
      BY <3>1, <3>2 DEF Builds
    <3> QED BY <3>3 DEF pick, step, e
  <2>3. s # {} => x \in s /\ x \in 1 .. n
    BY <1>0, <2>1, MaxIsIn
  <2>4. s # {} => g[r] \in Seq(Offers) /\ q[x] \in Messages
    BY <1>0, <1>2, <2>3
  <2>5. s # {} => ReduceStep[<<g[r], q[x]>>] = Reduce(g[r], q[x])
    <3> HIDE DEF r, x, n
    <3> QED BY <2>4 DEF ReduceStep
  <2>6. s # {} => g[s] = Reduce(g[r], q[x])
    <3> HIDE DEF r, x, n
    <3> QED BY <2>2, <2>5
  <2> HIDE DEF n
  <2> QED BY <2>1, <2>2, <2>3, <2>6
<1>4. g = F(g)
  <2>1. DOMAIN g = SUBSET (1 .. n) /\ g = [s \in SUBSET (1 .. n) |-> g[s]]
    BY <1>1 DEF Builds
  <2>2. \A s \in SUBSET (1 .. n) : g[s] = F(g)[s]
    <3> HIDE DEF n
    <3> QED BY <1>3
  <2>3. DOMAIN F(g) = SUBSET (1 .. n) /\ F(g) = [s \in SUBSET (1 .. n) |-> F(g)[s]]
    <3> HIDE DEF n
    <3> QED OBVIOUS
  <2> HIDE DEF F, n
  <2> QED BY <2>1, <2>2, <2>3
<1>5. ASSUME NEW k, k = F(k) PROVE k[1 .. n] = g[1 .. n]
  <2> DEFINE Good == {s \in SUBSET (1 .. n) : k[s] = g[s]}
  <2>1. ASSUME NEW s \in SUBSET (1 .. n), \A r \in SUBSET s : r # s => r \in Good
        PROVE  s \in Good
    <3>1. /\ s = {} => k[s] = t
          /\ s # {} => k[s] = Reduce(k[s \ {Max(s)}], q[Max(s)])
      <4>1. k[s] = F(k)[s] BY <1>5
      <4>2. F(k)[s] = IF s = {} THEN t ELSE Reduce(k[s \ {Max(s)}], q[Max(s)])
        <5> HIDE DEF n
        <5> QED OBVIOUS
      <4> HIDE DEF n, F
      <4> QED BY <4>1, <4>2
    <3>2. s # {} => k[s \ {Max(s)}] = g[s \ {Max(s)}]
      <4>1. s # {} => s \ {Max(s)} \in SUBSET s /\ s \ {Max(s)} # s BY <1>3
      <4> QED BY <4>1, <2>1
    <3> HIDE DEF n, F
    <3> QED BY <3>1, <3>2, <1>3
  <2>2. SUBSET (1 .. n) \subseteq Good
    <3> DEFINE D == 1 .. n
    <3>1. IsFiniteSet(D) BY <1>0, FS_Interval
    <3>2. \A T \in SUBSET D : (\A U \in SUBSET T : U # T => U \in Good) => T \in Good
      <4> HIDE DEF Good, n
      <4> QED BY <2>1
    <3> HIDE DEF Good, D
    <3>3. SUBSET D \subseteq Good BY <3>1, <3>2, SubsetInduction
    <3> QED BY <3>3 DEF D
  <2> QED BY <2>2
<1>6. Shown(t, q) = g[1 .. n]
  <2> DEFINE k0 == CHOOSE k : k = F(k)
  <2>1. k0 = F(k0)
    <3> HIDE DEF F
    <3> QED BY <1>4
  <2>2. Shown(t, q) = k0[1 .. n]
    BY <1>0 DEF Shown, FoldLeft, MapThenFoldSet
  <2> HIDE DEF k0, F, n
  <2> QED BY <2>1, <2>2, <1>5
<1> DEFINE h == [k \in 0 .. n |-> g[1 .. k]]
<1>7. Stages(h, t, ReduceStep, q) BY <1>1, PrefixesRun
<1>8. h[n] = g[1 .. n] BY <1>0
<1> HIDE DEF h, F
<1> QED BY <1>6, <1>7, <1>8

LEMMA ShownEmpty == ASSUME NEW t \in Seq(Offers) PROVE Shown(t, << >>) = t
<1>1. << >> \in Seq(Messages) /\ Len(<< >>) = 0 OBVIOUS
<1>2. PICK h : Stages(h, t, ReduceStep, << >>) /\ Shown(t, << >>) = h[Len(<< >>)]
  BY <1>1, ShownRuns
<1> QED BY <1>1, <1>2 DEF Stages

LEMMA ShownTyped ==
  ASSUME NEW t \in Seq(Offers), NEW q \in Seq(Messages)
  PROVE  Shown(t, q) \in Seq(Offers)
<1>1. PICK h : Stages(h, t, ReduceStep, q) /\ Shown(t, q) = h[Len(q)] BY ShownRuns
<1> DEFINE A == Seq(Offers)
<1>2. t \in A /\ ReduceStep \in [A \X Messages -> A] BY ReduceStepTyped
<1>3. \A k \in 0 .. Len(q) : h[k] \in A
  <2> HIDE DEF A
  <2> QED BY <1>1, <1>2, RunsType
<1>4. Len(q) \in 0 .. Len(q) OBVIOUS
<1> QED BY <1>1, <1>3, <1>4

\* One more message on the way.
LEMMA ShownAppend ==
  ASSUME NEW t \in Seq(Offers), NEW q \in Seq(Messages), NEW m \in Messages
  PROVE  Shown(t, Append(q, m)) = Reduce(Shown(t, q), m)
<1> DEFINE r == Append(q, m)
           n == Len(q)
<1>1. /\ r \in Seq(Messages) /\ n \in Nat /\ Len(r) = n + 1 /\ r[n + 1] = m
      /\ \A k \in 1 .. n : q[k] = r[k]
  BY AppendProperties
<1>2. PICK h : Stages(h, t, ReduceStep, q) /\ Shown(t, q) = h[n] BY ShownRuns
<1>3. PICK e : Stages(e, t, ReduceStep, r) /\ Shown(t, r) = e[n + 1]
  BY <1>1, ShownRuns
<1>4. h[n] = e[n]
  <2>1. Alike(q, r, n) BY <1>1 DEF Alike
  <2> HIDE DEF r, n
  <2>2. Stages(h, t, ReduceStep, q) /\ Stages(e, t, ReduceStep, r) BY <1>2, <1>3
  <2> QED BY <2>1, <2>2, RunsAgree
<1>5. e[n + 1] = ReduceStep[<<e[n], m>>]
  <2>1. n + 1 \in 1 .. Len(r) /\ (n + 1) - 1 = n BY <1>1
  <2> HIDE DEF r, n
  <2> QED BY <1>1, <1>3, <2>1 DEF Stages
<1>6. Shown(t, q) \in Seq(Offers) BY ShownTyped
<1>7. ReduceStep[<<e[n], m>>] = Reduce(e[n], m)
  <2>1. e[n] \in Seq(Offers) BY <1>2, <1>4, <1>6
  <2> HIDE DEF n
  <2> QED BY <2>1 DEF ReduceStep
<1> HIDE DEF r, n
<1>8. Shown(t, r) = Reduce(Shown(t, q), m) BY <1>2, <1>3, <1>4, <1>5, <1>7
<1> QED BY <1>8 DEF r

\* A message arrives.
LEMMA ShownTail ==
  ASSUME NEW t \in Seq(Offers), NEW q \in Seq(Messages), q # << >>
  PROVE  Shown(Reduce(t, Head(q)), Tail(q)) = Shown(t, q)
<1> DEFINE r == Tail(q)
           n == Len(q)
           u == Reduce(t, Head(q))
<1>1. /\ r \in Seq(Messages) /\ n \in Nat \ {0} /\ Len(r) = n - 1
      /\ \A k \in 1 .. n - 1 : r[k] = q[k + 1]
      /\ Head(q) = q[1] /\ q[1] \in Messages
  BY HeadTailProperties
<1>2. u \in Seq(Offers) BY <1>1, ReduceTyped
<1>3. PICK h : Stages(h, t, ReduceStep, q) /\ Shown(t, q) = h[n] BY ShownRuns
<1>4. PICK e : Stages(e, u, ReduceStep, r) /\ Shown(u, r) = e[n - 1]
  <2> HIDE DEF u, r, n
  <2> QED BY <1>1, <1>2, ShownRuns
<1> DEFINE Good == {k \in Nat : k <= n - 1 => e[k] = h[k + 1]}
<1>5. 0 \in Good
  <2>1. h[1] = ReduceStep[<<h[0], q[1]>>] /\ h[0] = t
    <3>1. 1 \in 1 .. Len(q) /\ 1 - 1 = 0 BY <1>1
    <3> QED BY <1>3, <3>1 DEF Stages
  <2>2. ReduceStep[<<t, q[1]>>] = Reduce(t, q[1]) BY <1>1 DEF ReduceStep
  <2>3. e[0] = u BY <1>4 DEF Stages
  <2> QED BY <1>1, <2>1, <2>2, <2>3
<1>6. ASSUME NEW k \in Nat, k \in Good PROVE k + 1 \in Good
  <2> SUFFICES ASSUME k + 1 <= n - 1 PROVE e[k + 1] = h[(k + 1) + 1] OBVIOUS
  <2>1. e[k] = h[k + 1] BY <1>1, <1>6
  <2>2. /\ k + 1 \in 1 .. Len(r) /\ (k + 1) - 1 = k
        /\ (k + 1) + 1 \in 1 .. Len(q) /\ ((k + 1) + 1) - 1 = k + 1
        /\ k + 1 \in 1 .. n - 1
    BY <1>1
  <2> HIDE DEF Good, r, u
  <2>3. e[k + 1] = ReduceStep[<<e[k], r[k + 1]>>] BY <1>4, <2>2 DEF Stages
  <2>4. h[(k + 1) + 1] = ReduceStep[<<h[k + 1], q[(k + 1) + 1]>>] BY <1>3, <2>2 DEF Stages
  <2>5. r[k + 1] = q[(k + 1) + 1] BY <1>1, <2>2
  <2> QED BY <2>1, <2>3, <2>4, <2>5
<1>7. Nat \subseteq Good
  <2> HIDE DEF Good
  <2> QED BY <1>5, <1>6, NatSetInduction
<1>8. e[n - 1] = h[(n - 1) + 1] /\ (n - 1) + 1 = n BY <1>1, <1>7
<1> HIDE DEF r, n, u
<1>9. Shown(u, r) = Shown(t, q) BY <1>3, <1>4, <1>8
<1> QED BY <1>9 DEF u, r

Coffers == [purse : [Wallets -> Nat], profits : [Wallets -> Nat], treasury : Nat,
            royalties : Nat]
Entries == [price : Prices, seller : Wallets]

ChainTyped ==
  /\ place \in [Items -> [of : Wallets, kiosk : BOOLEAN]]
  /\ ask \in [Items -> Prices \cup {None}] /\ kiosks \subseteq Wallets
  /\ log \in Seq(Events) /\ tx \in [Wallets -> Signed \cup {None}]
IndexTyped ==
  /\ listings \in [Items -> Entries \cup {None}] /\ IsFiniteSet(Listed)
  /\ sync \in [phase : Phases, at : Nat, more : BOOLEAN, page : Seq(Events)]
  /\ sync.at \in 0 .. Len(log) /\ cursor \in 0 .. Len(log)
PageTyped ==
  /\ conn \in [Watchers -> {"off", "asking", "subscribed"}]
  /\ tab \in [Watchers -> Seq(Offers)] /\ wire \in [Watchers -> Seq(Messages)]
PastTyped == past \in [lost : SUBSET Items, mishaps : 0 .. MaxMishaps]

Typed == ChainTyped /\ coins \in Coffers /\ IndexTyped /\ PageTyped /\ PastTyped

LEMMA TypedIsTypeOK == Typed => TypeOK
<1> SUFFICES ASSUME Typed PROVE TypeOK OBVIOUS
<1>1. \A k \in DOMAIN log : log[k].kind \in Kinds /\ log[k].item \in Items
  <2>1. \A k \in DOMAIN log : log[k] \in Events BY DEF Typed, ChainTyped
  <2> QED BY <2>1 DEF Events
<1>2. sync.phase \in Phases BY DEF Typed, IndexTyped
<1>3. past.lost \subseteq Items /\ past.mishaps \in 0 .. MaxMishaps BY DEF Typed, PastTyped
<1> QED
  BY <1>1, <1>2, <1>3
  DEF Typed, TypeOK, ChainTyped, Coffers, IndexTyped, PageTyped, Entries

LEMMA TypedInit == Init => Typed
<1> SUFFICES ASSUME Init PROVE Typed OBVIOUS
<1>1. /\ {Funds, LISTING_FEE_MIST, ROYALTY_BPS, ROYALTY_MIN_MIST, MaxEvents, MaxMishaps}
           \subseteq Nat
      /\ << >> \in Seq(Events) /\ << >> \in Seq(Offers) /\ << >> \in Seq(Messages)
      /\ Len(<< >>) = 0
  BY MarketAssumption
<1>2. ChainTyped BY <1>1 DEF Init, ChainTyped
<1>3. coins \in Coffers BY <1>1 DEF Init, Coffers
<1>4. IndexTyped
  <2>1. Listed = {} BY DEF Init, Listed
  <2>2. IsFiniteSet(Listed) BY <2>1, FS_EmptySet
  <2>3. sync = [phase |-> "cold", at |-> 0, more |-> TRUE, page |-> << >>] BY DEF Init
  <2>4. sync \in [phase : Phases, at : Nat, more : BOOLEAN, page : Seq(Events)]
    BY <1>1, <2>3 DEF Phases
  <2> QED BY <1>1, <2>2, <2>3, <2>4 DEF Init, IndexTyped
<1>5. PageTyped BY <1>1 DEF Init, PageTyped
<1>6. PastTyped BY <1>1 DEF Init, PastTyped
<1> QED BY <1>2, <1>3, <1>4, <1>5, <1>6 DEF Typed

\* The royalty is a number of coins.
LEMMA AmountIsNat ==
  ASSUME NEW p \in Nat
  PROVE  amount(p) \in Nat /\ amount(p) >= ROYALTY_MIN_MIST
<1>1. ROYALTY_BPS \in Nat /\ ROYALTY_MIN_MIST \in Nat /\ BPS_BASE \in Nat \ {0}
  BY MarketAssumption
<1> DEFINE x == p * ROYALTY_BPS
<1>2. x \in Nat BY <1>1
<1>3. x \div BPS_BASE \in Nat
  <2> HIDE DEF x
  <2> QED BY <1>1, <1>2
<1> QED BY <1>1, <1>3 DEF amount

\* What the three steps that move coins do to them.
LEMMA ListCoins ==
  ASSUME Typed, NEW w \in Wallets, list_item(w)
  PROVE  /\ coins' \in Coffers
         /\ coins.purse[w] - LISTING_FEE_MIST \in Nat
         /\ coins'.purse = [coins.purse EXCEPT ![w] = coins.purse[w] - LISTING_FEE_MIST]
         /\ coins'.profits = coins.profits /\ coins'.royalties = coins.royalties
         /\ coins'.treasury = coins.treasury + LISTING_FEE_MIST
<1>1. /\ coins \in Coffers /\ coins.purse \in [Wallets -> Nat] /\ coins.treasury \in Nat
      /\ LISTING_FEE_MIST \in Nat
  BY MarketAssumption DEF Typed, Coffers
<1>2. coins.purse[w] >= LISTING_FEE_MIST /\ coins.purse[w] \in Nat
  BY <1>1 DEF list_item
<1>3. coins' = [coins EXCEPT !.purse =
                               [coins.purse EXCEPT ![w] = coins.purse[w] - LISTING_FEE_MIST],
                             !.treasury = coins.treasury + LISTING_FEE_MIST]
  BY <1>1 DEF list_item, Coffers
<1> DEFINE newPurse == [coins.purse EXCEPT ![w] = coins.purse[w] - LISTING_FEE_MIST]
           newTreasury == coins.treasury + LISTING_FEE_MIST
<1>4. newPurse \in [Wallets -> Nat] /\ newTreasury \in Nat
  BY <1>1, <1>2
<1>5. coins' = [coins EXCEPT !.purse = newPurse, !.treasury = newTreasury] BY <1>3
<1>6. coins.purse[w] - LISTING_FEE_MIST \in Nat BY <1>1, <1>2
<1> HIDE DEF newPurse, newTreasury
<1>7. /\ coins' \in Coffers /\ coins'.purse = newPurse /\ coins'.treasury = newTreasury
      /\ coins'.royalties = coins.royalties /\ coins'.profits = coins.profits
  BY <1>1, <1>4, <1>5 DEF Coffers
<1> QED BY <1>6, <1>7 DEF newPurse, newTreasury

LEMMA BuyCoins ==
  ASSUME Typed, NEW w \in Wallets, buy_item(w),
         NEW p, p = tx[w].price, NEW s, s = tx[w].seller
  PROVE  /\ coins' \in Coffers /\ p \in Nat /\ s \in Wallets
         /\ coins.purse[w] - p - amount(p) \in Nat
         /\ coins'.purse = [coins.purse EXCEPT ![w] = coins.purse[w] - p - amount(p)]
         /\ coins'.profits = [coins.profits EXCEPT ![s] = coins.profits[s] + p]
         /\ coins'.royalties = coins.royalties + amount(p)
         /\ coins'.treasury = coins.treasury
<1>0. tx[w] \in Signed /\ tx[w].kind = "buy"
  BY DEF buy_item, Runs, Typed, ChainTyped
<1>1. /\ coins \in Coffers /\ coins.purse \in [Wallets -> Nat] /\ coins.royalties \in Nat
      /\ coins.profits \in [Wallets -> Nat] /\ coins.treasury \in Nat
  BY DEF Typed, Coffers
<1>2. p \in Prices /\ s \in Wallets BY <1>0 DEF Signed
<1>3. p \in Nat BY <1>2, MarketAssumption
<1> DEFINE a == amount(p)
<1>4. a \in Nat BY <1>3, AmountIsNat
<1>5. coins.purse[w] >= p + a BY DEF buy_item
<1>6. /\ coins.purse[w] \in Nat /\ coins.profits[s] \in Nat
      /\ coins.purse[w] - p - a \in Nat /\ coins.profits[s] + p \in Nat
      /\ coins.royalties + a \in Nat
  <2> HIDE DEF a
  <2> QED BY <1>1, <1>2, <1>3, <1>4, <1>5
<1> DEFINE newPurse == [coins.purse EXCEPT ![w] = coins.purse[w] - p - a]
           newProfits == [coins.profits EXCEPT ![s] = coins.profits[s] + p]
           newRoyalties == coins.royalties + a
<1>7. coins' = [coins EXCEPT !.purse = newPurse, !.profits = newProfits,
                             !.royalties = newRoyalties]
  <2>1. coins' = [coins EXCEPT !.purse[w] = @ - p - a, !.profits[s] = @ + p,
                               !.royalties = @ + a]
    BY DEF buy_item
  <2> HIDE DEF a
  <2> QED BY <1>1, <2>1 DEF Coffers
<1>8. newPurse \in [Wallets -> Nat] /\ newProfits \in [Wallets -> Nat]
  <2> HIDE DEF a
  <2> QED BY <1>1, <1>6
<1>9. newRoyalties \in Nat BY <1>6
<1> HIDE DEF newPurse, newProfits, newRoyalties, a
<1>10. /\ coins' \in Coffers /\ coins'.purse = newPurse /\ coins'.profits = newProfits
       /\ coins'.royalties = newRoyalties /\ coins'.treasury = coins.treasury
  BY <1>1, <1>7, <1>8, <1>9 DEF Coffers
<1> QED BY <1>2, <1>3, <1>6, <1>10 DEF newPurse, newProfits, newRoyalties, a

LEMMA WithdrawCoins ==
  ASSUME Typed, NEW w \in Wallets, withdrawAllProfits(w)
  PROVE  /\ coins' \in Coffers
         /\ coins'.purse = [coins.purse EXCEPT ![w] = coins.purse[w] + coins.profits[w]]
         /\ coins'.profits = [coins.profits EXCEPT ![w] = 0]
         /\ coins'.royalties = coins.royalties /\ coins'.treasury = coins.treasury
<1>1. /\ coins \in Coffers /\ coins.purse \in [Wallets -> Nat]
      /\ coins.profits \in [Wallets -> Nat]
  BY DEF Typed, Coffers
<1>2. coins.purse[w] + coins.profits[w] \in Nat BY <1>1
<1> DEFINE newPurse == [coins.purse EXCEPT ![w] = coins.purse[w] + coins.profits[w]]
           newProfits == [coins.profits EXCEPT ![w] = 0]
<1>3. coins' = [coins EXCEPT !.purse = newPurse, !.profits = newProfits]
  BY <1>1 DEF withdrawAllProfits, Coffers
<1>4. newPurse \in [Wallets -> Nat] /\ newProfits \in [Wallets -> Nat]
  BY <1>1, <1>2
<1> HIDE DEF newPurse, newProfits
<1>5. /\ coins' \in Coffers /\ coins'.purse = newPurse /\ coins'.profits = newProfits
      /\ coins'.royalties = coins.royalties /\ coins'.treasury = coins.treasury
  BY <1>1, <1>3, <1>4 DEF Coffers
<1> QED BY <1>5 DEF newPurse, newProfits

LEMMA OfferTyped ==
  ASSUME NEW i \in Items, NEW l \in Entries
  PROVE  Offer(i, l) \in Offers
BY DEF Offer, Offers, Entries

LEMMA TellTyped ==
  ASSUME PageTyped, NEW m \in Messages, Tell(m)
  PROVE  wire' \in [Watchers -> Seq(Messages)]
<1>1. \A w \in Watchers : wire[w] \in Seq(Messages) /\ Append(wire[w], m) \in Seq(Messages)
  BY AppendProperties DEF PageTyped
<1> QED BY <1>1 DEF Tell

\* An event is handled: the index and the messages keep their types.
LEMMA HandleTyped ==
  ASSUME Typed, NEW e \in Events, Handle(e)
  PROVE  /\ listings' \in [Items -> Entries \cup {None}] /\ IsFiniteSet(Listed')
         /\ wire' \in [Watchers -> Seq(Messages)] /\ PastTyped'
<1>0. /\ listings \in [Items -> Entries \cup {None}] /\ IsFiniteSet(Listed) /\ PastTyped
      /\ PageTyped /\ wire \in [Watchers -> Seq(Messages)] /\ e.item \in Items
  BY DEF Typed, IndexTyped, PageTyped, Events
<1>m. MaxMishaps \in Nat BY MarketAssumption
<1>1. CASE e.kind = "listed"
  <2>0. handleItemListed(e) BY <1>1 DEF Handle
  <2> DEFINE l == [price |-> e.price, seller |-> e.who]
  <2>1. l \in Entries BY <1>1 DEF Events, Entries
  <2>2. CASE UNCHANGED <<listings, wire, past>>
    BY <2>2, <1>0 DEF PastTyped, Listed
  <2>3. CASE /\ listings' = [listings EXCEPT ![e.item] = l]
             /\ Tell([type |-> "item_listed", offer |-> Offer(e.item, listings'[e.item])])
             /\ past' = [past EXCEPT !.lost = @ \ {e.item}]
    <3>1. listings'[e.item] = l BY <1>0, <2>3
    <3>2. [type |-> "item_listed", offer |-> Offer(e.item, listings'[e.item])] \in Messages
      BY <1>0, <2>1, <3>1, OfferTyped DEF Messages
    <3>3. wire' \in [Watchers -> Seq(Messages)] BY <1>0, <2>3, <3>2, TellTyped
    <3>4. IsFiniteSet(Listed')
      <4>1. IsFiniteSet(Listed \cup {e.item}) BY <1>0, FS_AddElement
      <4>2. Listed' \subseteq Listed \cup {e.item} BY <1>0, <2>3 DEF Listed
      <4> QED BY <4>1, <4>2, FS_Subset
    <3>5. PastTyped' BY <1>0, <2>3 DEF PastTyped
    <3>6. listings' \in [Items -> Entries \cup {None}] BY <1>0, <2>1, <2>3
    <3> QED BY <3>3, <3>4, <3>5, <3>6
  <2>4. CASE /\ past.mishaps < MaxMishaps /\ UNCHANGED <<listings, wire>>
             /\ past' = [past EXCEPT !.lost = @ \cup {e.item}, !.mishaps = @ + 1]
    <3>a. past.lost \in SUBSET Items /\ past.mishaps \in 0 .. MaxMishaps
      BY <1>0 DEF PastTyped
    <3> DEFINE more == past.lost \cup {e.item}
               n == past.mishaps + 1
    <3>b. more \in SUBSET Items /\ n \in 0 .. MaxMishaps BY <1>0, <1>m, <2>4, <3>a
    <3>c. past' = [past EXCEPT !.lost = more, !.mishaps = n] BY <2>4
    <3>1. PastTyped'
      <4> HIDE DEF more, n
      <4> QED BY <1>0, <3>b, <3>c DEF PastTyped
    <3> QED BY <1>0, <2>4, <3>1 DEF Listed
  <2> QED BY <2>0, <2>2, <2>3, <2>4 DEF handleItemListed
<1>2. CASE e.kind # "listed"
  <2>1. /\ past' = [past EXCEPT !.lost = @ \ {e.item}]
        /\ listings' = [listings EXCEPT ![e.item] = None]
        /\ IF listings[e.item] = None THEN UNCHANGED wire
           ELSE Tell([type |-> "removed", offer |-> Offer(e.item, listings[e.item])])
    BY <1>2 DEF Handle, Gone
  <2>2. PastTyped' BY <1>0, <2>1 DEF PastTyped
  <2>3. IsFiniteSet(Listed')
    <3>1. Listed' \subseteq Listed BY <1>0, <2>1 DEF Listed
    <3> QED BY <1>0, <3>1, FS_Subset
  <2>4. wire' \in [Watchers -> Seq(Messages)]
    <3>1. CASE listings[e.item] = None BY <1>0, <2>1, <3>1
    <3>2. CASE listings[e.item] # None
      <4>1. listings[e.item] \in Entries BY <1>0, <3>2
      <4> DEFINE o == Offer(e.item, listings[e.item])
      <4>o. o \in Offers BY <1>0, <4>1, OfferTyped
      <4>2. [type |-> "removed", offer |-> o] \in Messages
        <5> HIDE DEF o
        <5> QED BY <4>o DEF Messages
      <4> QED BY <1>0, <2>1, <3>2, <4>2, TellTyped
    <3> QED BY <3>1, <3>2
  <2>5. listings' \in [Items -> Entries \cup {None}] BY <1>0, <2>1
  <2> QED BY <2>2, <2>3, <2>4, <2>5
<1> QED BY <1>1, <1>2

\* A failure is counted.
LEMMA MishapTyped == ASSUME PastTyped, Mishap PROVE PastTyped'
BY MarketAssumption DEF PastTyped, Mishap

\* The page after a position of the log.
LEMMA PageOfLog ==
  ASSUME Typed, NEW a \in 0 .. Len(log), NEW b \in a .. Len(log)
  PROVE  /\ SubSeq(log, a + 1, b) \in Seq(Events) /\ Len(SubSeq(log, a + 1, b)) = b - a
         /\ \A k \in 1 .. b - a : SubSeq(log, a + 1, b)[k] = log[a + k]
<1>1. log \in Seq(Events) /\ Len(log) \in Nat BY DEF Typed, ChainTyped
<1>2. a \in Nat /\ b \in Nat /\ a <= b /\ b <= Len(log) BY <1>1
<1>3. \A k \in a + 1 .. b : log[k] \in Events
  <2>1. \A k \in a + 1 .. b : k \in 1 .. Len(log) BY <1>1, <1>2
  <2> QED BY <1>1, <2>1
<1>4. SubSeq(log, a + 1, b) = [k \in 1 .. b - a |-> log[a + k]]
  <2>1. SubSeq(log, a + 1, b) = [k \in 1 .. (1 + b) - (a + 1) |-> log[k + (a + 1) - 1]]
    BY <1>1, <1>2
  <2>2. (1 + b) - (a + 1) = b - a BY <1>2
  <2>3. \A k \in 1 .. b - a : k + (a + 1) - 1 = a + k BY <1>2
  <2> QED BY <2>1, <2>2, <2>3
<1>5. b - a \in Nat BY <1>2
<1>6. \A k \in 1 .. b - a : log[a + k] \in Events
  <2>1. \A k \in 1 .. b - a : a + k \in a + 1 .. b BY <1>2
  <2> QED BY <1>3, <2>1
<1> DEFINE r == [k \in 1 .. b - a |-> log[a + k]]
<1>7. r \in Seq(Events) /\ Len(r) = b - a BY <1>5, <1>6
<1> QED BY <1>4, <1>7

LEMMA IndexSame ==
  ASSUME IndexTyped, UNCHANGED indexVars, UNCHANGED log
  PROVE  IndexTyped'
BY DEF IndexTyped, indexVars, Listed

LEMMA PageSame == ASSUME PageTyped, UNCHANGED pageVars PROVE PageTyped'
BY DEF PageTyped, pageVars

\* The chain takes an event: what points into the log still does.
LEMMA LogGrows ==
  ASSUME Typed, NEW e \in Events, log' = Append(log, e)
  PROVE  /\ log' \in Seq(Events) /\ Len(log') = Len(log) + 1 /\ Len(log) \in Nat
         /\ \A k \in 1 .. Len(log) : log'[k] = log[k]
         /\ log'[Len(log) + 1] = e
         /\ UNCHANGED indexVars => IndexTyped'
<1>1. log \in Seq(Events) /\ Len(log) \in Nat BY DEF Typed, ChainTyped
<1>2. /\ log' \in Seq(Events) /\ Len(log') = Len(log) + 1
      /\ \A k \in 1 .. Len(log) : log'[k] = log[k]
      /\ log'[Len(log) + 1] = e
  BY <1>1, AppendProperties
<1>3. ASSUME UNCHANGED indexVars PROVE IndexTyped'
  <2>1. \A k \in 0 .. Len(log) : k \in 0 .. Len(log') BY <1>1, <1>2
  <2> QED BY <1>3, <2>1 DEF Typed, IndexTyped, indexVars, Listed
<1> QED BY <1>1, <1>2, <1>3

\* Only the transactions and the page change.
LEMMA SignTyped ==
  ASSUME Typed, NEW w \in Wallets, NEW k \in {"list", "delist", "retrieve", "buy"},
         NEW i \in Items, NEW p \in Prices \cup {None}, NEW s \in Wallets,
         k \in {"list", "buy"} => p \in Prices, Sign(w, k, i, p, s)
  PROVE  Typed'
<1> DEFINE t == [kind |-> k, item |-> i, price |-> p, seller |-> s]
<1>1. t \in Signed BY DEF Signed
<1>2. tx' = [tx EXCEPT ![w] = t] /\ UNCHANGED <<past, place, ask, kiosks, coins, log>>
      /\ UNCHANGED indexVars /\ UNCHANGED pageVars
  BY DEF Sign, chainVars
<1>3. ChainTyped'
  <2> HIDE DEF t
  <2> QED BY <1>1, <1>2 DEF Typed, ChainTyped
<1> QED BY <1>2, <1>3, IndexSame, PageSame DEF Typed, PastTyped

\* A transaction that runs is one that was signed.
LEMMA RunsTyped ==
  ASSUME Typed, NEW w \in Wallets, NEW k, Runs(w, k)
  PROVE  /\ tx[w] \in Signed /\ tx[w].kind = k /\ tx[w].item \in Items
         /\ k \in {"list", "buy"} => tx[w].price \in Prices
         /\ tx' \in [Wallets -> Signed \cup {None}] /\ UNCHANGED kiosks
         /\ PastTyped' /\ PageTyped' /\ UNCHANGED indexVars
<1>1. tx[w] \in Signed BY DEF Runs, Typed, ChainTyped
<1>2. /\ tx[w].kind = k /\ tx' = [tx EXCEPT ![w] = None]
      /\ UNCHANGED <<kiosks, past>> /\ UNCHANGED indexVars /\ UNCHANGED pageVars
  BY DEF Runs
<1>3. PastTyped' /\ PageTyped' BY <1>2, PageSame DEF Typed, PastTyped
<1>4. tx' \in [Wallets -> Signed \cup {None}] BY <1>2 DEF Typed, ChainTyped
<1> QED BY <1>1, <1>2, <1>3, <1>4 DEF Signed

\* The chain's steps.
LEMMA WalletTyped == Typed /\ WalletNext => Typed'
<1> SUFFICES ASSUME Typed, NEW w \in Wallets,
                    \/ create_or_get_player_kiosk(w) \/ SignList(w) \/ SignRetrieve(w)
                    \/ list_item(w) \/ delist_item(w) \/ Retrieve(w) \/ buy_item(w)
                    \/ TxFails(w) \/ withdrawAllProfits(w)
             PROVE  Typed'
  BY DEF WalletNext
<1>0. /\ ChainTyped /\ coins \in Coffers /\ IndexTyped /\ PageTyped /\ PastTyped
      /\ place \in [Items -> [of : Wallets, kiosk : BOOLEAN]]
      /\ ask \in [Items -> Prices \cup {None}]
      /\ tx \in [Wallets -> Signed \cup {None}]
  BY DEF Typed, ChainTyped
<1>1. CASE create_or_get_player_kiosk(w)
  <2>1. ChainTyped' BY <1>1, <1>0 DEF create_or_get_player_kiosk, ChainTyped
  <2> QED
    BY <1>1, <1>0, <2>1, IndexSame, PageSame DEF create_or_get_player_kiosk, Typed, PastTyped
<1>2. CASE SignList(w)
  <2>1. PICK i \in Items, p \in Prices : Sign(w, "list", i, p, w) BY <1>2 DEF SignList
  <2> QED BY <2>1, SignTyped
<1>3. CASE SignRetrieve(w)
  <2>1. PICK i \in Items : Sign(w, "retrieve", i, None, w) BY <1>3 DEF SignRetrieve
  <2> QED BY <2>1, SignTyped
<1>4. CASE list_item(w)
  <2> DEFINE i == tx[w].item
             p == tx[w].price
  <2>1. Runs(w, "list") BY <1>4 DEF list_item
  <2>2. /\ i \in Items /\ p \in Prices /\ tx' \in [Wallets -> Signed \cup {None}]
        /\ UNCHANGED kiosks /\ PastTyped' /\ PageTyped' /\ UNCHANGED indexVars
    BY <2>1, RunsTyped
  <2>3. Event("listed", i, w, p) \in Events BY <2>2 DEF Event, Events, Kinds
  <2>4. /\ log' = Append(log, Event("listed", i, w, p))
        /\ place' = [place EXCEPT ![i].kiosk = TRUE] /\ ask' = [ask EXCEPT ![i] = p]
    BY <1>4 DEF list_item
  <2>5. log' \in Seq(Events) /\ IndexTyped' BY <2>2, <2>3, <2>4, LogGrows
  <2>6. coins' \in Coffers BY <1>4, ListCoins
  <2>7. /\ place' \in [Items -> [of : Wallets, kiosk : BOOLEAN]]
        /\ ask' \in [Items -> Prices \cup {None}]
    <3> HIDE DEF i, p
    <3> QED BY <1>0, <2>2, <2>4
  <2>8. ChainTyped' BY <1>0, <2>2, <2>5, <2>7 DEF ChainTyped
  <2> QED BY <2>2, <2>5, <2>6, <2>8 DEF Typed
<1>5. CASE delist_item(w)
  <2> DEFINE i == tx[w].item
  <2>1. Runs(w, "delist") BY <1>5 DEF delist_item
  <2>2. /\ i \in Items /\ tx' \in [Wallets -> Signed \cup {None}]
        /\ UNCHANGED kiosks /\ PastTyped' /\ PageTyped' /\ UNCHANGED indexVars
    BY <2>1, RunsTyped
  <2>3. Event("delisted", i, w, None) \in Events BY <2>2 DEF Event, Events, Kinds
  <2>4. /\ log' = Append(log, Event("delisted", i, w, None)) /\ UNCHANGED coins
        /\ place' = [place EXCEPT ![i].kiosk = FALSE] /\ ask' = [ask EXCEPT ![i] = None]
    BY <1>5 DEF delist_item
  <2>5. log' \in Seq(Events) /\ IndexTyped' BY <2>2, <2>3, <2>4, LogGrows
  <2>7. /\ place' \in [Items -> [of : Wallets, kiosk : BOOLEAN]]
        /\ ask' \in [Items -> Prices \cup {None}]
    <3> HIDE DEF i
    <3> QED BY <1>0, <2>2, <2>4
  <2>8. ChainTyped' BY <1>0, <2>2, <2>5, <2>7 DEF ChainTyped
  <2> QED BY <1>0, <2>2, <2>4, <2>5, <2>8 DEF Typed
<1>6. CASE Retrieve(w)
  <2> DEFINE i == tx[w].item
  <2>1. Runs(w, "retrieve") BY <1>6 DEF Retrieve
  <2>2. /\ i \in Items /\ tx' \in [Wallets -> Signed \cup {None}]
        /\ UNCHANGED kiosks /\ PastTyped' /\ PageTyped' /\ UNCHANGED indexVars
    BY <2>1, RunsTyped
  <2>4. /\ UNCHANGED <<ask, coins, log>> /\ place' = [place EXCEPT ![i].kiosk = FALSE]
    BY <1>6 DEF Retrieve
  <2>5. IndexTyped' BY <1>0, <2>2, <2>4, IndexSame
  <2>7. place' \in [Items -> [of : Wallets, kiosk : BOOLEAN]]
    <3> HIDE DEF i
    <3> QED BY <1>0, <2>2, <2>4
  <2>8. ChainTyped' BY <1>0, <2>2, <2>4, <2>7 DEF ChainTyped
  <2> QED BY <1>0, <2>2, <2>4, <2>5, <2>8 DEF Typed
<1>7. CASE buy_item(w)
  <2> DEFINE i == tx[w].item
             p == tx[w].price
             s == tx[w].seller
  <2>1. Runs(w, "buy") BY <1>7 DEF buy_item
  <2>2. /\ i \in Items /\ p \in Prices /\ tx' \in [Wallets -> Signed \cup {None}]
        /\ UNCHANGED kiosks /\ PastTyped' /\ PageTyped' /\ UNCHANGED indexVars
    BY <2>1, RunsTyped
  <2>3. Event("bought", i, w, p) \in Events BY <2>2 DEF Event, Events, Kinds
  <2>4. /\ log' = Append(log, Event("bought", i, w, p))
        /\ place' = [place EXCEPT ![i] = [of |-> w, kiosk |-> FALSE]]
        /\ ask' = [ask EXCEPT ![i] = None]
    BY <1>7 DEF buy_item
  <2>5. log' \in Seq(Events) /\ IndexTyped' BY <2>2, <2>3, <2>4, LogGrows
  <2>6. coins' \in Coffers BY <1>7, BuyCoins
  <2>7. /\ place' \in [Items -> [of : Wallets, kiosk : BOOLEAN]]
        /\ ask' \in [Items -> Prices \cup {None}]
    <3> HIDE DEF i, p, s
    <3> QED BY <1>0, <2>2, <2>4
  <2>8. ChainTyped' BY <1>0, <2>2, <2>5, <2>7 DEF ChainTyped
  <2> QED BY <2>2, <2>5, <2>6, <2>8 DEF Typed
<1>8. CASE TxFails(w)
  <2>1. /\ tx' = [tx EXCEPT ![w] = None] /\ UNCHANGED <<past, place, ask, kiosks, coins, log>>
        /\ UNCHANGED indexVars /\ UNCHANGED pageVars
    BY <1>8 DEF TxFails, chainVars
  <2>2. tx' \in [Wallets -> Signed \cup {None}] BY <1>0, <2>1
  <2>3. ChainTyped' BY <1>0, <2>1, <2>2 DEF ChainTyped
  <2> QED BY <1>0, <2>1, <2>3, IndexSame, PageSame DEF Typed, PastTyped
<1>9. CASE withdrawAllProfits(w)
  <2>1. /\ UNCHANGED <<past, place, ask, kiosks, tx, log>>
        /\ UNCHANGED indexVars /\ UNCHANGED pageVars
    BY <1>9 DEF withdrawAllProfits
  <2>2. coins' \in Coffers BY <1>9, WithdrawCoins
  <2>3. ChainTyped' BY <1>0, <2>1 DEF ChainTyped
  <2> QED BY <1>0, <2>1, <2>2, <2>3, IndexSame, PageSame DEF Typed, PastTyped
<1> QED BY <1>1, <1>2, <1>3, <1>4, <1>5, <1>6, <1>7, <1>8, <1>9

SyncType == [phase : Phases, at : Nat, more : BOOLEAN, page : Seq(Events)]

\* An index step that leaves the log alone.
LEMMA IndexBack ==
  ASSUME Typed, Elsewhere,
         listings' \in [Items -> Entries \cup {None}], IsFiniteSet(Listed'),
         sync' \in SyncType, sync'.at \in 0 .. Len(log), cursor' \in 0 .. Len(log),
         wire' \in [Watchers -> Seq(Messages)], PastTyped'
  PROVE  Typed'
<1>1. ChainTyped' /\ coins' \in Coffers /\ log' = log
  BY DEF Typed, ChainTyped, Elsewhere, chainVars
<1>2. IndexTyped' BY <1>1 DEF IndexTyped, SyncType
<1>3. PageTyped' BY DEF Typed, PageTyped, Elsewhere
<1> QED BY <1>1, <1>2, <1>3 DEF Typed

\* The fields of the position of the index.
LEMMA SyncFields ==
  ASSUME Typed
  PROVE  /\ sync \in SyncType /\ sync.phase \in Phases /\ sync.at \in 0 .. Len(log)
         /\ sync.at \in Nat /\ sync.more \in BOOLEAN /\ sync.page \in Seq(Events)
         /\ cursor \in 0 .. Len(log) /\ cursor \in Nat /\ Len(log) \in Nat
         /\ log \in Seq(Events)
<1>1. Len(log) \in Nat /\ log \in Seq(Events) BY DEF Typed, ChainTyped
<1>2. sync \in SyncType /\ sync.at \in 0 .. Len(log) /\ cursor \in 0 .. Len(log)
  BY DEF Typed, IndexTyped, SyncType
<1> QED BY <1>1, <1>2 DEF SyncType

LEMMA SubscribesTyped ==
  ASSUME Typed
  PROVE  Subscribes \in SyncType /\ Subscribes.at = cursor
BY SyncFields DEF SyncType, Subscribes, Phases

\* What ReadPage reads.
PageEnd == IF sync.at + PAGE < Len(log) THEN sync.at + PAGE ELSE Len(log)

LEMMA ReadPageEffect ==
  ASSUME Typed, ReadPage
  PROVE  /\ sync.phase \in {"cold", "fill"} /\ sync.page = << >> /\ sync.more
         /\ PageEnd \in sync.at .. Len(log)
         /\ sync' \in SyncType /\ sync'.phase = sync.phase /\ sync'.at = PageEnd
         /\ sync'.more = (PageEnd < Len(log))
         /\ Len(sync'.page) = PageEnd - sync.at
         /\ \A k \in 1 .. PageEnd - sync.at : sync'.page[k] = log[sync.at + k]
<1> DEFINE b == PageEnd
           page == SubSeq(log, sync.at + 1, b)
           more == b < Len(log)
<1>1. b \in sync.at .. Len(log)
  BY SyncFields, MarketAssumption DEF PageEnd
<1>2. b \in Nat BY <1>1, SyncFields
<1>3. /\ page \in Seq(Events) /\ Len(page) = b - sync.at
      /\ \A k \in 1 .. b - sync.at : page[k] = log[sync.at + k]
  <2> HIDE DEF b
  <2> QED BY <1>1, SyncFields, PageOfLog
<1>4. sync' = [sync EXCEPT !.page = page, !.at = b, !.more = more]
  BY DEF ReadPage, PageEnd
<1>5. more \in BOOLEAN OBVIOUS
<1>6. sync.phase \in {"cold", "fill"} /\ sync.page = << >> /\ sync.more BY DEF ReadPage
<1> HIDE DEF b, page, more
<1>7. /\ sync' \in SyncType /\ sync'.phase = sync.phase /\ sync'.at = b
      /\ sync'.more = more /\ sync'.page = page
  BY <1>2, <1>3, <1>4, <1>5, SyncFields DEF SyncType
<1> QED BY <1>1, <1>3, <1>6, <1>7 DEF b, more

\* What it handles of the page.
LEMMA HandlePageEffect ==
  ASSUME Typed, HandlePageEvent
  PROVE  /\ sync.page # << >> /\ Len(sync.page) \in Nat \ {0}
         /\ Head(sync.page) = sync.page[1] /\ sync.page[1] \in Events
         /\ Handle(sync.page[1])
         /\ sync' \in SyncType /\ sync'.phase = sync.phase /\ sync'.at = sync.at
         /\ sync'.more = sync.more /\ Len(sync'.page) = Len(sync.page) - 1
         /\ \A k \in 1 .. Len(sync.page) - 1 : sync'.page[k] = sync.page[k + 1]
         /\ cursor' = IF Len(sync.page) = 1 THEN sync.at ELSE cursor
<1> DEFINE page == Tail(sync.page)
<1>1. sync.page # << >> /\ sync.page \in Seq(Events) BY SyncFields DEF HandlePageEvent
<1>2. /\ page \in Seq(Events) /\ Len(sync.page) \in Nat \ {0}
      /\ Len(page) = Len(sync.page) - 1
      /\ \A k \in 1 .. Len(sync.page) - 1 : page[k] = sync.page[k + 1]
      /\ Head(sync.page) = sync.page[1] /\ sync.page[1] \in Events
  BY <1>1, HeadTailProperties
<1>3. sync' = [sync EXCEPT !.page = page] BY DEF HandlePageEvent
<1> HIDE DEF page
<1>4. /\ sync' \in SyncType /\ sync'.phase = sync.phase /\ sync'.at = sync.at
      /\ sync'.more = sync.more /\ sync'.page = page
  BY <1>2, <1>3, SyncFields DEF SyncType
<1>5. Handle(sync.page[1]) BY <1>2 DEF HandlePageEvent
<1> QED BY <1>1, <1>2, <1>4, <1>5 DEF HandlePageEvent

\* The index's steps.
LEMMA IndexStepTyped == Typed /\ IndexNext => Typed'
<1> SUFFICES ASSUME Typed, IndexNext PROVE Typed' OBVIOUS
<1>0. /\ listings \in [Items -> Entries \cup {None}] /\ IsFiniteSet(Listed)
      /\ wire \in [Watchers -> Seq(Messages)] /\ PastTyped /\ tab \in [Watchers -> Seq(Offers)]
  BY DEF Typed, IndexTyped, PageTyped
<1>s. UNCHANGED listings => Listed' = Listed BY DEF Listed
<1>p. UNCHANGED past => PastTyped' BY <1>0 DEF PastTyped
<1>1. CASE ReadPage
  <2>1. UNCHANGED <<listings, cursor, wire, past>> /\ Elsewhere BY <1>1 DEF ReadPage
  <2>2. sync' \in SyncType /\ sync'.at \in 0 .. Len(log)
    BY <1>1, ReadPageEffect, SyncFields
  <2> QED BY <1>0, <1>s, <1>p, <2>1, <2>2, SyncFields, IndexBack
<1>2. CASE HandlePageEvent
  <2>1. Elsewhere BY <1>2 DEF HandlePageEvent
  <2>2. /\ sync.page[1] \in Events /\ Handle(sync.page[1]) /\ sync' \in SyncType
        /\ sync'.at = sync.at /\ cursor' \in 0 .. Len(log)
    BY <1>2, HandlePageEffect, SyncFields
  <2>3. /\ listings' \in [Items -> Entries \cup {None}] /\ IsFiniteSet(Listed')
        /\ wire' \in [Watchers -> Seq(Messages)] /\ PastTyped'
    <3> DEFINE e == sync.page[1]
    <3>1. e \in Events /\ Handle(e) BY <2>2
    <3> HIDE DEF e
    <3> QED BY <3>1, HandleTyped
  <2> QED BY <2>1, <2>2, <2>3, SyncFields, IndexBack
<1>3. CASE ColdSyncDone \/ Reconnects
  <2>1. UNCHANGED <<listings, cursor, wire, past>> /\ Elsewhere /\ sync' = Subscribes
    BY <1>3 DEF ColdSyncDone, Reconnects
  <2> QED BY <1>0, <1>s, <1>p, <2>1, SubscribesTyped, SyncFields, IndexBack
<1>4. CASE FillDone
  <2>1. UNCHANGED <<listings, cursor, wire, past>> /\ Elsewhere
        /\ sync' = [sync EXCEPT !.phase = "open"]
    BY <1>4 DEF FillDone
  <2>2. sync' \in SyncType /\ sync'.at = sync.at BY <2>1, SyncFields DEF SyncType, Phases
  <2> QED BY <1>0, <1>s, <1>p, <2>1, <2>2, SyncFields, IndexBack
<1>5. CASE QueryFails
  <2>1. UNCHANGED <<listings, cursor, wire>> /\ Elsewhere /\ Mishap
        /\ sync' = [sync EXCEPT !.phase = IF sync.phase = "cold" THEN "dead" ELSE "waiting"]
    BY <1>5 DEF QueryFails
  <2>2. sync' \in SyncType /\ sync'.at = sync.at
    <3> DEFINE ph == IF sync.phase = "cold" THEN "dead" ELSE "waiting"
    <3>1. ph \in Phases BY DEF Phases
    <3> HIDE DEF ph
    <3> QED BY <2>1, <3>1, SyncFields DEF SyncType, ph
  <2> QED BY <1>0, <1>s, <2>1, <2>2, MishapTyped, SyncFields, IndexBack
<1>6. CASE StreamOpens
  <2>1. UNCHANGED <<listings, cursor, wire, past>> /\ Elsewhere
        /\ sync' = [sync EXCEPT !.phase = "live", !.at = Len(log)]
    BY <1>6 DEF StreamOpens
  <2>2. sync' \in SyncType /\ sync'.at = Len(log) BY <2>1, SyncFields DEF SyncType, Phases
  <2> QED BY <1>0, <1>s, <1>p, <2>1, <2>2, SyncFields, IndexBack
<1>7. CASE StreamEvent
  <2>1. /\ sync.at < Len(log) /\ Handle(log[sync.at + 1]) /\ Elsewhere
        /\ sync' = [sync EXCEPT !.at = sync.at + 1] /\ UNCHANGED cursor
    BY <1>7 DEF StreamEvent
  <2>2. sync.at + 1 \in 1 .. Len(log) /\ sync.at + 1 \in Nat BY <2>1, SyncFields
  <2> DEFINE e == log[sync.at + 1]
             at == sync.at + 1
  <2>3. e \in Events /\ Handle(e) BY <2>1, <2>2, SyncFields
  <2>4. sync' \in SyncType /\ sync'.at = at
    <3>1. sync' = [sync EXCEPT !.at = at] /\ at \in Nat BY <2>1, <2>2
    <3> HIDE DEF at
    <3> QED BY <3>1, SyncFields DEF SyncType
  <2>5. /\ listings' \in [Items -> Entries \cup {None}] /\ IsFiniteSet(Listed')
        /\ wire' \in [Watchers -> Seq(Messages)] /\ PastTyped'
    <3> HIDE DEF e
    <3> QED BY <2>3, HandleTyped
  <2>6. at \in 0 .. Len(log) BY <2>2, SyncFields
  <2> QED BY <2>1, <2>4, <2>5, <2>6, SyncFields, IndexBack
<1>8. CASE StreamEnds
  <2>1. UNCHANGED <<listings, cursor, wire>> /\ Elsewhere /\ Mishap
        /\ sync' = [sync EXCEPT !.phase = "waiting"]
    BY <1>8 DEF StreamEnds
  <2>2. sync' \in SyncType /\ sync'.at = sync.at BY <2>1, SyncFields DEF SyncType, Phases
  <2> QED BY <1>0, <1>s, <2>1, <2>2, MishapTyped, SyncFields, IndexBack
<1>9. CASE Restart
  <2>1. /\ listings' = [i \in Items |-> None] /\ cursor' = 0 /\ Mishap
        /\ sync' = [phase |-> "cold", at |-> 0, more |-> TRUE, page |-> << >>]
        /\ conn' = [w \in Watchers |-> "off"] /\ wire' = [w \in Watchers |-> << >>]
        /\ UNCHANGED <<tab, tx, place, ask, kiosks, coins, log>>
    BY <1>9 DEF Restart, chainVars
  <2>2. << >> \in Seq(Events) /\ << >> \in Seq(Messages) OBVIOUS
  <2>3. ChainTyped' /\ coins' \in Coffers BY <2>1 DEF Typed, ChainTyped
  <2>4. Listed' = {} BY <2>1 DEF Listed
  <2>5. IsFiniteSet(Listed') BY <2>4, FS_EmptySet
  <2>6. sync' \in SyncType /\ sync'.at = 0 BY <2>1, <2>2 DEF SyncType, Phases
  <2>7. IndexTyped' BY <2>1, <2>5, <2>6, SyncFields DEF IndexTyped, SyncType
  <2>8. PageTyped' BY <1>0, <2>1, <2>2 DEF PageTyped
  <2> QED BY <1>0, <2>1, <2>3, <2>7, <2>8, MishapTyped DEF Typed
<1> QED BY <1>1, <1>2, <1>3, <1>4, <1>5, <1>6, <1>7, <1>8, <1>9 DEF IndexNext

\* The answer to a page is a finite set of offers.
LEMMA SnapshotTyped ==
  ASSUME Typed
  PROVE  /\ Snapshot \in Pages
         /\ [type |-> "marketplace_data", offers |-> Snapshot] \in Messages
<1>1. listings \in [Items -> Entries \cup {None}] /\ IsFiniteSet(Listed)
  BY DEF Typed, IndexTyped
<1>2. \A i \in Listed : Offer(i, listings[i]) \in Offers
  BY <1>1, OfferTyped DEF Listed
<1> DEFINE f == [i \in Listed |-> Offer(i, listings[i])]
<1>3. f \in Surjection(Listed, Snapshot) BY DEF Surjection, Snapshot
<1>4. IsFiniteSet(Snapshot)
  <2> HIDE DEF f
  <2> QED BY <1>1, <1>3, FS_Surjection
<1>5. Snapshot \subseteq Offers BY <1>2 DEF Snapshot
<1>6. Snapshot \in Pages BY <1>4, <1>5 DEF Pages
<1> QED BY <1>6 DEF Messages

\* A page's steps.
LEMMA PageStepTyped == Typed /\ PageNext => Typed'
<1> SUFFICES ASSUME Typed, NEW w \in Watchers,
                    \/ SignDelist(w) \/ SignBuy(w) \/ Connect(w) \/ Disconnect(w)
                    \/ handleGetMarketplace(w) \/ MessageArrives(w)
             PROVE  Typed'
  BY DEF PageNext
<1>0. /\ conn \in [Watchers -> {"off", "asking", "subscribed"}]
      /\ tab \in [Watchers -> Seq(Offers)] /\ wire \in [Watchers -> Seq(Messages)]
      /\ ChainTyped /\ coins \in Coffers /\ IndexTyped /\ PageTyped /\ PastTyped
      /\ w \in Wallets
  BY MarketAssumption DEF Typed, PageTyped
<1>t. ASSUME NEW k \in DOMAIN tab[w] PROVE tab[w][k] \in Offers BY <1>0
<1>q. ASSUME UNCHANGED <<tx, place, ask, kiosks, coins, log, listings, cursor, sync>>,
             PageTyped', PastTyped'
      PROVE  Typed'
  <2>1. ChainTyped' /\ coins' \in Coffers BY <1>0, <1>q DEF ChainTyped
  <2>2. IndexTyped' BY <1>0, <1>q DEF IndexTyped, Listed
  <2> QED BY <1>q, <2>1, <2>2 DEF Typed
<1>1. CASE SignDelist(w)
  <2>1. PICK k \in DOMAIN tab[w] :
          tab[w][k].seller = w /\ Sign(w, "delist", tab[w][k].item, tab[w][k].price, w)
    BY <1>1 DEF SignDelist
  <2>2. tab[w][k].item \in Items /\ tab[w][k].price \in Prices BY <1>t DEF Offers
  <2> QED BY <1>0, <2>1, <2>2, SignTyped
<1>2. CASE SignBuy(w)
  <2>1. PICK k \in DOMAIN tab[w] :
          Sign(w, "buy", tab[w][k].item, tab[w][k].price, tab[w][k].seller)
    BY <1>2 DEF SignBuy
  <2>2. /\ tab[w][k].item \in Items /\ tab[w][k].price \in Prices
        /\ tab[w][k].seller \in Wallets
    BY <1>t DEF Offers
  <2> QED BY <1>0, <2>1, <2>2, SignTyped
<1>3. CASE Connect(w)
  <2>1. /\ conn' = [conn EXCEPT ![w] = "asking"] /\ UNCHANGED <<tab, wire, past>>
        /\ UNCHANGED <<tx, place, ask, kiosks, coins, log, listings, cursor, sync>>
    BY <1>3 DEF Connect, chainVars, indexVars
  <2>2. PageTyped' BY <1>0, <2>1 DEF PageTyped
  <2> QED BY <1>0, <1>q, <2>1, <2>2 DEF PastTyped
<1>4. CASE Disconnect(w)
  <2>1. /\ conn' = [conn EXCEPT ![w] = "off"] /\ UNCHANGED tab /\ Mishap
        /\ wire' = [wire EXCEPT ![w] = << >>] /\ << >> \in Seq(Messages)
        /\ UNCHANGED <<tx, place, ask, kiosks, coins, log, listings, cursor, sync>>
    BY <1>4 DEF Disconnect, chainVars, indexVars
  <2>2. PageTyped' BY <1>0, <2>1 DEF PageTyped
  <2> QED BY <1>0, <1>q, <2>1, <2>2, MishapTyped
<1>5. CASE handleGetMarketplace(w)
  <2> DEFINE m == [type |-> "marketplace_data", offers |-> Snapshot]
  <2>1. /\ conn' = [conn EXCEPT ![w] = "subscribed"] /\ UNCHANGED <<tab, past>>
        /\ wire' = [wire EXCEPT ![w] = Append(wire[w], m)]
        /\ UNCHANGED <<tx, place, ask, kiosks, coins, log, listings, cursor, sync>>
    BY <1>5 DEF handleGetMarketplace, chainVars, indexVars
  <2>2. m \in Messages BY SnapshotTyped
  <2>3. Append(wire[w], m) \in Seq(Messages)
    <3> HIDE DEF m
    <3> QED BY <1>0, <2>2, AppendProperties
  <2>4. PageTyped' BY <1>0, <2>1, <2>3 DEF PageTyped
  <2> QED BY <1>0, <1>q, <2>1, <2>4 DEF PastTyped
<1>6. CASE MessageArrives(w)
  <2>1. /\ wire[w] # << >> /\ UNCHANGED <<conn, past>>
        /\ tab' = [tab EXCEPT ![w] = Reduce(tab[w], Head(wire[w]))]
        /\ wire' = [wire EXCEPT ![w] = Tail(wire[w])]
        /\ UNCHANGED <<tx, place, ask, kiosks, coins, log, listings, cursor, sync>>
    BY <1>6 DEF MessageArrives, chainVars, indexVars
  <2>2. Tail(wire[w]) \in Seq(Messages) /\ Head(wire[w]) \in Messages
    BY <1>0, <2>1, HeadTailProperties
  <2>3. Reduce(tab[w], Head(wire[w])) \in Seq(Offers) BY <1>0, <2>2, ReduceTyped
  <2>4. PageTyped' BY <1>0, <2>1, <2>2, <2>3 DEF PageTyped
  <2> QED BY <1>0, <1>q, <2>1, <2>4 DEF PastTyped
<1> QED BY <1>1, <1>2, <1>3, <1>4, <1>5, <1>6

\* Nothing changes.
LEMMA StutterTyped == Typed /\ UNCHANGED vars => Typed'
<1> SUFFICES ASSUME Typed, UNCHANGED vars PROVE Typed' OBVIOUS
<1>1. ChainTyped' /\ coins' \in Coffers BY DEF Typed, vars, ChainTyped
<1>2. IndexTyped' BY DEF Typed, vars, IndexTyped, Listed
<1>3. PageTyped' /\ PastTyped' BY DEF Typed, vars, PageTyped, PastTyped
<1> QED BY <1>1, <1>2, <1>3 DEF Typed

LEMMA TypedStep == Typed /\ [Next]_vars => Typed'
BY WalletTyped, IndexStepTyped, PageStepTyped, StutterTyped DEF Next

LEMMA SpecTyped == Spec => []Typed
BY TypedInit, TypedStep, PTL DEF Spec

\* Every variable has its type in every reachable state: no coin amount goes
\* below zero, the cursor and the position of the stream stay within the log,
\* and what a page shows is a sequence of offers.
THEOREM TypeCorrect == Spec => []TypeOK
<1>1. Spec => []Typed BY SpecTyped
<1> QED BY <1>1, TypedIsTypeOK, PTL

(***************************************************************************)
(* A page follows the index                                                *)
(***************************************************************************)
\* Inductive: what a subscribed page will show is the index, no offer twice.
Following(s, S) == ToSet(s) = S /\ IsInjective(s)
PageInv == \A w \in Watchers :
  conn[w] = "subscribed" => Following(Shown(tab[w], wire[w]), Snapshot)

LEMMA SnapshotSame == UNCHANGED listings => UNCHANGED Snapshot
BY DEF Snapshot, Listed

LEMMA InvIsFollows == Typed /\ PageInv => PageFollowsIndex
<1> SUFFICES ASSUME Typed, PageInv, NEW w \in Watchers, conn[w] = "subscribed"
             PROVE  LET shown == FoldLeft(Reduce, tab[w], wire[w])
                    IN  ToSet(shown) = Snapshot /\ Len(shown) = Cardinality(Snapshot)
  BY DEF PageFollowsIndex
<1> DEFINE s == Shown(tab[w], wire[w])
<1>1. tab[w] \in Seq(Offers) /\ wire[w] \in Seq(Messages) BY DEF Typed, PageTyped
<1>2. s \in Seq(Offers) BY <1>1, ShownTyped
<1>3. ToSet(s) = Snapshot /\ IsInjective(s) BY DEF PageInv, Following
<1>4. Len(s) = Cardinality(ToSet(s))
  <2> HIDE DEF s
  <2> QED BY <1>2, <1>3, OnceIsCard
<1> QED BY <1>3, <1>4 DEF Shown

\* A message that tells the change of the index, on its way to every page.
LEMMA TellFollows ==
  ASSUME Typed, PageInv, UNCHANGED <<conn, tab>>, NEW m \in Messages, Tell(m),
         \A s \in Seq(Offers) :
           Following(s, Snapshot) => Following(Reduce(s, m), Snapshot')
  PROVE  PageInv'
<1> SUFFICES ASSUME NEW w \in Watchers, conn[w] = "subscribed"
             PROVE  Following(Shown(tab[w], wire'[w]), Snapshot')
  BY DEF PageInv
<1>1. tab[w] \in Seq(Offers) /\ wire[w] \in Seq(Messages) BY DEF Typed, PageTyped
<1>2. wire'[w] = Append(wire[w], m) BY DEF Tell, Online
<1>3. Shown(tab[w], Append(wire[w], m)) = Reduce(Shown(tab[w], wire[w]), m)
  BY <1>1, ShownAppend
<1>4. Shown(tab[w], wire[w]) \in Seq(Offers) BY <1>1, ShownTyped
<1>5. Following(Shown(tab[w], wire[w]), Snapshot) BY DEF PageInv
<1> DEFINE s == Shown(tab[w], wire[w])
           r == Reduce(s, m)
<1>6. Following(r, Snapshot')
  <2>1. s \in Seq(Offers) /\ Following(s, Snapshot) BY <1>4, <1>5
  <2> HIDE DEF s
  <2> QED BY <2>1
<1>7. Shown(tab[w], wire'[w]) = r BY <1>2, <1>3
<1> QED BY <1>6, <1>7

\* An item enters the index.
LEMMA ListedFollows ==
  ASSUME Typed, NEW i \in Items, NEW l \in Entries, listings[i] = None,
         listings' = [listings EXCEPT ![i] = l],
         NEW s \in Seq(Offers), Following(s, Snapshot)
  PROVE  Following(Append(s, Offer(i, l)), Snapshot')
<1>1. listings \in [Items -> Entries \cup {None}] BY DEF Typed, IndexTyped
<1>2. l # None BY MarketAssumption DEF Entries
<1>3. Listed' = Listed \cup {i} /\ i \notin Listed BY <1>1, <1>2 DEF Listed
<1>4. Snapshot' = Snapshot \cup {Offer(i, l)}
  <2>1. \A j \in Listed : j # i /\ listings'[j] = listings[j] BY <1>1, <1>3 DEF Listed
  <2>2. listings'[i] = l BY <1>1
  <2> QED BY <1>3, <2>1, <2>2 DEF Snapshot
<1>5. Offer(i, l) \notin Snapshot BY <1>3 DEF Snapshot, Offer
<1>6. Offer(i, l) \in Offers BY OfferTyped
<1> DEFINE o == Offer(i, l)
<1>7. ToSet(s) = Snapshot /\ IsInjective(s) BY DEF Following
<1>8. ToSet(Append(s, o)) = ToSet(s) \cup {o} /\ IsInjective(Append(s, o))
  <2>1. o \in Offers /\ o \notin ToSet(s) BY <1>5, <1>6, <1>7
  <2> HIDE DEF o
  <2> QED BY <1>7, <2>1, AppendExact
<1> QED BY <1>4, <1>7, <1>8 DEF Following

\* An item leaves the index.
LEMMA GoneFollows ==
  ASSUME Typed, NEW i \in Items, listings' = [listings EXCEPT ![i] = None],
         NEW s \in Seq(Offers), Following(s, Snapshot)
  PROVE  Following(Without(s, i), Snapshot')
<1>1. listings \in [Items -> Entries \cup {None}] BY DEF Typed, IndexTyped
<1>2. Listed' = Listed \ {i} BY <1>1 DEF Listed
<1>3. \A j \in Listed' : listings'[j] = listings[j] BY <1>1, <1>2 DEF Listed
<1>4. Snapshot' = {o \in Snapshot : o.item # i}
  <2>1. \A j, x : Offer(j, x).item = j BY DEF Offer
  <2> QED BY <1>2, <1>3, <2>1 DEF Snapshot, Listed
<1>5. /\ ToSet(Without(s, i)) = {o \in ToSet(s) : o.item # i}
      /\ IsInjective(Without(s, i))
  BY WithoutIs DEF Following
<1> QED BY <1>4, <1>5 DEF Following

LEMMA HandleFollows ==
  ASSUME Typed, PageInv, UNCHANGED <<conn, tab>>, NEW e \in Events, Handle(e)
  PROVE  PageInv'
<1>0. listings \in [Items -> Entries \cup {None}] /\ e.item \in Items
  BY DEF Typed, IndexTyped, Events
<1>s. ASSUME UNCHANGED <<listings, wire>> PROVE PageInv'
  BY <1>s, SnapshotSame DEF PageInv
<1>1. CASE e.kind = "listed"
  <2>0. handleItemListed(e) BY <1>1 DEF Handle
  <2> DEFINE l == [price |-> e.price, seller |-> e.who]
  <2>1. l \in Entries BY <1>1 DEF Events, Entries
  <2>2. CASE /\ listings[e.item] = None
             /\ listings' = [listings EXCEPT ![e.item] = l]
             /\ Tell([type |-> "item_listed", offer |-> Offer(e.item, listings'[e.item])])
    <3> DEFINE i == e.item
               o == Offer(i, l)
               m == [type |-> "item_listed", offer |-> o]
    <3>0. i \in Items /\ listings[i] = None /\ listings' = [listings EXCEPT ![i] = l]
      BY <1>0, <2>2
    <3>1. listings'[i] = l BY <1>0, <3>0
    <3>2. Tell(m) BY <2>2, <3>1
    <3>3. o \in Offers
      <4> HIDE DEF i, l
      <4> QED BY <2>1, <3>0, OfferTyped
    <3>4. m \in Messages
      <4> HIDE DEF o
      <4> QED BY <3>3 DEF Messages
    <3>5. \A s : Reduce(s, m) = Append(s, o)
      <4> HIDE DEF o
      <4> QED BY DEF Reduce
    <3>6. ASSUME NEW s \in Seq(Offers), Following(s, Snapshot)
          PROVE  Following(Append(s, o), Snapshot')
      <4> HIDE DEF i, l
      <4> QED BY <2>1, <3>0, <3>6, ListedFollows
    <3>7. \A s \in Seq(Offers) :
            Following(s, Snapshot) => Following(Reduce(s, m), Snapshot')
      <4> HIDE DEF o, m
      <4> QED BY <3>5, <3>6
    <3> HIDE DEF m
    <3> QED BY <3>2, <3>4, <3>7, TellFollows
  <2> QED BY <1>s, <2>0, <2>2 DEF handleItemListed
<1>2. CASE e.kind # "listed"
  <2> DEFINE i == e.item
             x == listings[i]
             o == Offer(i, x)
             m == [type |-> "removed", offer |-> o]
  <2>1. /\ listings' = [listings EXCEPT ![i] = None]
        /\ IF x = None THEN UNCHANGED wire ELSE Tell(m)
    BY <1>2 DEF Handle, Gone
  <2>2. CASE x = None
    <3>1. UNCHANGED listings BY <1>0, <2>1, <2>2
    <3> QED BY <1>s, <2>1, <2>2, <3>1
  <2>3. CASE x # None
    <3>1. i \in Items /\ x \in Entries BY <1>0, <2>3
    <3>2. o \in Offers
      <4> HIDE DEF i, x
      <4> QED BY <3>1, OfferTyped
    <3>3. m \in Messages
      <4> HIDE DEF o
      <4> QED BY <3>2 DEF Messages
    <3>4. o.item = i BY DEF Offer
    <3>5. \A s : Reduce(s, m) = Without(s, i)
      <4> HIDE DEF o, i
      <4> QED BY <3>4 DEF Reduce
    <3>6. ASSUME NEW s \in Seq(Offers), Following(s, Snapshot)
          PROVE  Following(Without(s, i), Snapshot')
      <4> HIDE DEF i, x
      <4> QED BY <2>1, <3>1, <3>6, GoneFollows
    <3>7. \A s \in Seq(Offers) :
            Following(s, Snapshot) => Following(Reduce(s, m), Snapshot')
      <4> HIDE DEF o, m, i
      <4> QED BY <3>5, <3>6
    <3>8. Tell(m) BY <2>1, <2>3
    <3> HIDE DEF m
    <3> QED BY <3>3, <3>7, <3>8, TellFollows
  <2> QED BY <2>2, <2>3
<1> QED BY <1>1, <1>2

LEMMA PageInvSame ==
  PageInv /\ UNCHANGED listings /\ UNCHANGED pageVars => PageInv'
BY SnapshotSame DEF PageInv, pageVars

\* A page's own steps.
LEMMA PageInvKept ==
  ASSUME Typed, PageInv, NEW w \in Watchers, UNCHANGED listings,
         \/ Connect(w) \/ Disconnect(w) \/ handleGetMarketplace(w) \/ MessageArrives(w)
  PROVE  PageInv'
<1>0. /\ conn \in [Watchers -> {"off", "asking", "subscribed"}]
      /\ tab \in [Watchers -> Seq(Offers)] /\ wire \in [Watchers -> Seq(Messages)]
  BY DEF Typed, PageTyped
<1>s. Snapshot' = Snapshot BY SnapshotSame
<1> SUFFICES ASSUME NEW v \in Watchers, conn'[v] = "subscribed"
             PROVE  Following(Shown(tab'[v], wire'[v]), Snapshot)
  BY <1>s DEF PageInv
<1>v. conn[v] = "subscribed" => Following(Shown(tab[v], wire[v]), Snapshot) BY DEF PageInv
<1>1. CASE Connect(w) BY <1>0, <1>1, <1>v DEF Connect
<1>2. CASE Disconnect(w) BY <1>0, <1>2, <1>v DEF Disconnect
<1>3. CASE handleGetMarketplace(w)
  <2> DEFINE m == [type |-> "marketplace_data", offers |-> Snapshot]
  <2>1. /\ conn' = [conn EXCEPT ![w] = "subscribed"] /\ UNCHANGED tab
        /\ wire' = [wire EXCEPT ![w] = Append(wire[w], m)]
    BY <1>3 DEF handleGetMarketplace
  <2>2. CASE v # w BY <1>0, <1>v, <2>1, <2>2
  <2>3. CASE v = w
    <3>1. m \in Messages /\ IsFiniteSet(Snapshot) BY SnapshotTyped DEF Pages
    <3>2. Reduce(Shown(tab[w], wire[w]), m) = SetToSeq(Snapshot) BY DEF Reduce
    <3>3. tab'[v] = tab[w] /\ wire'[v] = Append(wire[w], m) BY <1>0, <2>1, <2>3
    <3>4. Following(SetToSeq(Snapshot), Snapshot) BY <3>1, SetToSeqIs DEF Following
    <3> HIDE DEF m
    <3>5. Shown(tab[w], Append(wire[w], m)) = Reduce(Shown(tab[w], wire[w]), m)
      BY <1>0, <3>1, ShownAppend
    <3> QED BY <3>2, <3>3, <3>4, <3>5
  <2> QED BY <2>2, <2>3
<1>4. CASE MessageArrives(w)
  <2>1. /\ wire[w] # << >> /\ UNCHANGED conn
        /\ tab' = [tab EXCEPT ![w] = Reduce(tab[w], Head(wire[w]))]
        /\ wire' = [wire EXCEPT ![w] = Tail(wire[w])]
    BY <1>4 DEF MessageArrives
  <2>2. CASE v # w BY <1>0, <1>v, <2>1, <2>2
  <2>3. CASE v = w
    <3>1. Shown(Reduce(tab[w], Head(wire[w])), Tail(wire[w])) = Shown(tab[w], wire[w])
      BY <1>0, <2>1, ShownTail
    <3>2. tab'[v] = Reduce(tab[w], Head(wire[w])) /\ wire'[v] = Tail(wire[w])
      BY <1>0, <2>1, <2>3
    <3> QED BY <1>v, <2>1, <2>3, <3>1, <3>2
  <2> QED BY <2>2, <2>3
<1> QED BY <1>1, <1>2, <1>3, <1>4

LEMMA PageInvInit == Init => PageInv
BY DEF Init, PageInv

LEMMA PageInvStep == Typed /\ PageInv /\ [Next]_vars => PageInv'
<1> SUFFICES ASSUME Typed, PageInv, [Next]_vars PROVE PageInv' OBVIOUS
<1>1. CASE IndexNext
  <2>1. CASE HandlePageEvent
    <3> DEFINE e == sync.page[1]
    <3>1. e \in Events /\ Handle(e) BY <2>1, HandlePageEffect
    <3>2. UNCHANGED <<conn, tab>> BY <2>1 DEF HandlePageEvent, Elsewhere
    <3> HIDE DEF e
    <3> QED BY <3>1, <3>2, HandleFollows
  <2>2. CASE StreamEvent
    <3> DEFINE e == log[sync.at + 1]
    <3>1. sync.at + 1 \in 1 .. Len(log) /\ Handle(e) /\ Elsewhere
      BY <2>2, SyncFields DEF StreamEvent
    <3>2. e \in Events BY <3>1, SyncFields
    <3>3. UNCHANGED <<conn, tab>> BY <3>1 DEF Elsewhere
    <3> HIDE DEF e
    <3> QED BY <3>1, <3>2, <3>3, HandleFollows
  <2>3. CASE Restart
    <3>1. conn' = [w \in Watchers |-> "off"] BY <2>3 DEF Restart
    <3> QED BY <3>1 DEF PageInv
  <2>4. CASE ReadPage \/ ColdSyncDone \/ FillDone \/ QueryFails \/ StreamOpens
               \/ StreamEnds \/ Reconnects
    <3>1. UNCHANGED listings /\ UNCHANGED pageVars
      BY <2>4
      DEF ReadPage, ColdSyncDone, FillDone, QueryFails, StreamOpens, StreamEnds,
          Reconnects, Elsewhere, pageVars
    <3> QED BY <3>1, PageInvSame
  <2> QED BY <1>1, <2>1, <2>2, <2>3, <2>4 DEF IndexNext
<1>2. CASE PageNext
  <2>1. PICK w \in Watchers :
          \/ SignDelist(w) \/ SignBuy(w) \/ Connect(w) \/ Disconnect(w)
          \/ handleGetMarketplace(w) \/ MessageArrives(w)
    BY <1>2 DEF PageNext
  <2>2. CASE SignDelist(w) \/ SignBuy(w)
    <3>1. UNCHANGED listings /\ UNCHANGED pageVars
      BY <2>2 DEF SignDelist, SignBuy, Sign, indexVars
    <3> QED BY <3>1, PageInvSame
  <2>3. CASE Connect(w) \/ Disconnect(w) \/ handleGetMarketplace(w) \/ MessageArrives(w)
    <3>1. UNCHANGED listings
      BY <2>3 DEF Connect, Disconnect, handleGetMarketplace, MessageArrives, indexVars
    <3> QED BY <2>3, <3>1, PageInvKept
  <2> QED BY <2>1, <2>2, <2>3
<1>3. CASE WalletNext
  <2>1. PICK w \in Wallets :
          \/ create_or_get_player_kiosk(w) \/ SignList(w) \/ SignRetrieve(w)
          \/ list_item(w) \/ delist_item(w) \/ Retrieve(w) \/ buy_item(w)
          \/ TxFails(w) \/ withdrawAllProfits(w)
    BY <1>3 DEF WalletNext
  <2>2. UNCHANGED indexVars /\ UNCHANGED pageVars
    <3>1. CASE \/ create_or_get_player_kiosk(w) \/ SignList(w) \/ SignRetrieve(w)
               \/ TxFails(w) \/ withdrawAllProfits(w)
      BY <3>1
      DEF create_or_get_player_kiosk, SignList, SignRetrieve, TxFails, withdrawAllProfits,
          Sign
    <3>2. CASE list_item(w) \/ delist_item(w) \/ Retrieve(w) \/ buy_item(w)
      BY <3>2 DEF list_item, delist_item, Retrieve, buy_item, Runs
    <3> QED BY <2>1, <3>1, <3>2
  <2> QED BY <2>2, PageInvSame DEF indexVars
<1>4. CASE UNCHANGED vars BY <1>4, PageInvSame DEF vars, pageVars
<1> QED BY <1>1, <1>2, <1>3, <1>4 DEF Next

\* Whatever connects, disconnects, restarts and is listed or sold meanwhile, a
\* page that has its listings will show exactly what the index holds and no
\* item twice, once what is on its way arrived.
\* (handler.ts handleGetMarketplace, index.ts subscribeMarketplace, useGameStore.ts)
THEOREM PagesFollow == Spec => []PageFollowsIndex
<1>1. Spec => [](Typed /\ PageInv)
  BY TypedInit, TypedStep, PageInvInit, PageInvStep, PTL DEF Spec
<1> QED BY <1>1, InvIsFollows, PTL

(***************************************************************************)
(* What the events say                                                     *)
(***************************************************************************)
\* The last word of the first n events of q on an item.
Word(e) == IF e.kind = "listed" THEN [price |-> e.price, seller |-> e.who] ELSE None
About(q, n, i) == {k \in 1 .. n : q[k].item = i}
Latest(S) == CHOOSE k \in S : \A j \in S : j =< k
Said(q, n, i) == IF About(q, n, i) = {} THEN None ELSE Word(q[Latest(About(q, n, i))])

LEMMA AfterIsSaid == \A n, i : i \in Items => After(n)[i] = Said(log, n, i)
<1> SUFFICES ASSUME NEW n, NEW i \in Items PROVE After(n)[i] = Said(log, n, i) OBVIOUS
<1> DEFINE about == {k \in 1 .. n : log[k].item = i}
           last == CHOOSE k \in about : \A j \in about : j =< k
<1>1. After(n)[i] = IF about = {} THEN None
                    ELSE IF log[last].kind # "listed" THEN None
                    ELSE [price |-> log[last].price, seller |-> log[last].who]
  BY DEF After
<1>2. about = About(log, n, i) BY DEF About
<1>3. last = Latest(about) BY DEF Latest
<1> HIDE DEF about, last
<1> QED BY <1>1, <1>2, <1>3 DEF Said, Word

LEMMA SaidNothing == ASSUME NEW q, NEW i PROVE Said(q, 0, i) = None
<1>1. 1 .. 0 = {} OBVIOUS
<1> QED BY <1>1 DEF Said, About

\* One event more.
LEMMA SaidStep ==
  ASSUME NEW q, NEW n \in Nat, NEW i
  PROVE  /\ q[n + 1].item = i => Said(q, n + 1, i) = Word(q[n + 1])
         /\ q[n + 1].item # i => Said(q, n + 1, i) = Said(q, n, i)
<1> DEFINE A == About(q, n + 1, i)
<1>0. 1 .. n + 1 = (1 .. n) \cup {n + 1} OBVIOUS
<1>1. CASE q[n + 1].item = i
  <2>1. n + 1 \in A /\ \A j \in A : j =< n + 1 /\ j \in Nat BY <1>0, <1>1 DEF About
  <2>2. Latest(A) = n + 1
    <3> DEFINE l == Latest(A)
    <3>1. \E k \in A : \A j \in A : j =< k BY <2>1
    <3>2. l \in A /\ \A j \in A : j =< l BY <3>1 DEF Latest
    <3>3. l =< n + 1 /\ n + 1 =< l /\ l \in Nat BY <2>1, <3>2
    <3> HIDE DEF l
    <3>4. l = n + 1 BY <3>3
    <3> QED BY <3>4 DEF l
  <2> QED BY <1>1, <2>1, <2>2 DEF Said
<1>2. CASE q[n + 1].item # i
  <2>1. A = About(q, n, i) BY <1>0, <1>2 DEF About
  <2> QED BY <1>2, <2>1 DEF Said
<1> QED BY <1>1, <1>2

\* What comes after the first n events does not matter.
LEMMA SaidSame ==
  ASSUME NEW q, NEW r, NEW n, Alike(q, r, n), NEW i
  PROVE  Said(q, n, i) = Said(r, n, i)
<1>0. n \in Nat /\ \A k \in 1 .. n : q[k] = r[k] BY DEF Alike
<1>1. About(q, n, i) = About(r, n, i) BY <1>0 DEF About
<1>2. CASE About(q, n, i) = {} BY <1>1, <1>2 DEF Said
<1>3. CASE About(q, n, i) # {}
  <2> DEFINE A == About(q, n, i)
             l == Latest(A)
  <2>1. A \in SUBSET (1 .. n) /\ A # {} BY <1>3 DEF About
  <2>2. Max(A) \in A /\ \A y \in A : Max(A) >= y
    <3> HIDE DEF A
    <3> QED BY <1>0, <2>1, MaxIsIn
  <2>3. \E k \in A : \A j \in A : j =< k
    <3>1. \A j \in A : j \in Nat BY <2>1
    <3> HIDE DEF A
    <3> QED BY <2>2, <3>1
  <2>4. l \in A BY <2>3 DEF Latest
  <2>5. l \in 1 .. n BY <2>1, <2>4
  <2>6. q[l] = r[l] BY <1>0, <2>5
  <2> QED BY <1>1, <1>3, <2>6 DEF Said
<1> QED BY <1>2, <1>3

\* r goes on where q is at n, with e.
OneMore(q, r, n, m, e) == Alike(q, r, n) /\ m = n + 1 /\ r[m] = e

LEMMA SaidMore ==
  ASSUME NEW q, NEW r, NEW n, NEW m, NEW e, OneMore(q, r, n, m, e), NEW i
  PROVE  /\ e.item = i => Said(r, m, i) = Word(e)
         /\ e.item # i => Said(r, m, i) = Said(q, n, i)
<1>0. n \in Nat /\ m = n + 1 /\ r[m] = e BY DEF OneMore, Alike
<1>1. Said(q, n, i) = Said(r, n, i) BY SaidSame DEF OneMore
<1>2. /\ r[n + 1].item = i => Said(r, n + 1, i) = Word(r[n + 1])
      /\ r[n + 1].item # i => Said(r, n + 1, i) = Said(r, n, i)
  BY <1>0, SaidStep
<1> QED BY <1>0, <1>1, <1>2

(***************************************************************************)
(* The events tell what is for sale                                        *)
(***************************************************************************)
\* Inductive: a listed item is in a kiosk, the last word on an item is what the
\* kiosks offer, and an item is listed only when the events before say it is
\* not for sale.
ChainInv ==
  /\ \A i \in Items : Said(log, Len(log), i) = OnSale[i]
  /\ \A i \in Items : ask[i] # None => place[i].kiosk
  /\ \A k \in 1 .. Len(log) : log[k].kind = "listed" => Said(log, k - 1, log[k].item) = None

LEMMA ChainSame ==
  ChainInv /\ UNCHANGED <<log, ask, place>> => ChainInv'
BY DEF ChainInv, OnSale

LEMMA ChainInit == Init => ChainInv
<1> SUFFICES ASSUME Init PROVE ChainInv OBVIOUS
<1>1. Len(log) = 0 /\ ask = [i \in Items |-> None] BY DEF Init
<1>2. 1 .. 0 = {} OBVIOUS
<1> QED BY <1>1, <1>2, SaidNothing DEF ChainInv, OnSale

\* An event tells what its transaction did.
LEMMA ChainGrows ==
  ASSUME Typed, ChainInv, NEW e \in Events, log' = Append(log, e),
         ask' \in [Items -> Prices \cup {None}],
         place' \in [Items -> [of : Wallets, kiosk : BOOLEAN]],
         \A i \in Items \ {e.item} : ask'[i] = ask[i] /\ place'[i] = place[i],
         ask'[e.item] # None => place'[e.item].kiosk,
         Word(e) = OnSale'[e.item],
         e.kind = "listed" => ask[e.item] = None
  PROVE  ChainInv'
<1>0. Len(log) \in Nat BY LogGrows
<1> PICK n \in Nat : n = Len(log) BY <1>0
<1>1. /\ log' \in Seq(Events) /\ Len(log') = n + 1 /\ n \in Nat
      /\ \A k \in 1 .. n : log'[k] = log[k]
      /\ log'[n + 1] = e
  BY LogGrows
<1>2. e.item \in Items /\ ask \in [Items -> Prices \cup {None}]
      /\ place \in [Items -> [of : Wallets, kiosk : BOOLEAN]]
  BY DEF Events, Typed, ChainTyped
<1>3. \A k \in 0 .. n : \A i : Said(log', k, i) = Said(log, k, i)
  <2> SUFFICES ASSUME NEW k \in 0 .. n, NEW i PROVE Said(log', k, i) = Said(log, k, i)
    OBVIOUS
  <2>1. Alike(log', log, k) BY <1>1 DEF Alike
  <2> QED BY <2>1, SaidSame
<1>4. ASSUME NEW i
      PROVE  Said(log', n + 1, i) = IF e.item = i THEN Word(e) ELSE Said(log, n, i)
  <2>1. OneMore(log, log', n, n + 1, e) BY <1>1 DEF Alike, OneMore
  <2> QED BY <2>1, SaidMore
<1>5. ASSUME NEW i \in Items PROVE Said(log', Len(log'), i) = OnSale'[i]
  <2>1. CASE i = e.item BY <1>1, <1>4, <2>1
  <2>2. CASE i # e.item
    <3>1. Said(log, n, i) = OnSale[i] BY DEF ChainInv
    <3>2. OnSale'[i] = OnSale[i] BY <2>2, <1>2 DEF OnSale
    <3> QED BY <1>1, <1>4, <2>2, <3>1, <3>2
  <2> QED BY <2>1, <2>2
<1>6. \A i \in Items : ask'[i] # None => place'[i].kiosk BY DEF ChainInv
<1>7. ASSUME NEW k \in 1 .. Len(log'), log'[k].kind = "listed"
      PROVE  Said(log', k - 1, log'[k].item) = None
  <2>1. k - 1 \in 0 .. n BY <1>1
  <2>2. CASE k \in 1 .. n
    <3>1. Said(log, k - 1, log[k].item) = None BY <1>1, <1>7, <2>2 DEF ChainInv
    <3> QED BY <1>1, <1>3, <2>1, <2>2, <3>1
  <2>3. CASE k = n + 1
    <3>1. log'[k] = e /\ k - 1 = n BY <1>1, <2>3
    <3>2. Said(log, n, e.item) = OnSale[e.item] BY <1>2 DEF ChainInv
    <3>3. OnSale[e.item] = None BY <1>2, <1>7, <3>1 DEF OnSale
    <3> QED BY <1>3, <2>1, <3>1, <3>2, <3>3
  <2> QED BY <1>1, <2>2, <2>3
<1> QED BY <1>5, <1>6, <1>7 DEF ChainInv

\* Only four steps touch what is for sale.
LEMMA ChainStep == Typed /\ ChainInv /\ [Next]_vars => ChainInv'
<1> SUFFICES ASSUME Typed, ChainInv, [Next]_vars PROVE ChainInv' OBVIOUS
<1>0. /\ place \in [Items -> [of : Wallets, kiosk : BOOLEAN]]
      /\ ask \in [Items -> Prices \cup {None}]
  BY DEF Typed, ChainTyped
<1>1. CASE IndexNext \/ PageNext
  <2>1. UNCHANGED <<log, ask, place>>
    BY <1>1
    DEF IndexNext, ReadPage, HandlePageEvent, ColdSyncDone, FillDone, QueryFails,
        StreamOpens, StreamEvent, StreamEnds, Reconnects, Restart, Elsewhere, chainVars,
        PageNext, SignDelist, SignBuy, Sign, Connect, Disconnect, handleGetMarketplace,
        MessageArrives
  <2> QED BY <2>1, ChainSame
<1>2. CASE UNCHANGED vars BY <1>2, ChainSame DEF vars
<1>3. ASSUME NEW w \in Wallets,
             \/ create_or_get_player_kiosk(w) \/ SignList(w) \/ SignRetrieve(w)
             \/ TxFails(w) \/ withdrawAllProfits(w)
      PROVE  ChainInv'
  <2>1. UNCHANGED <<log, ask, place>>
    BY <1>3
    DEF create_or_get_player_kiosk, SignList, SignRetrieve, TxFails, withdrawAllProfits,
        Sign, chainVars
  <2> QED BY <2>1, ChainSame
<1>4. ASSUME NEW w \in Wallets, list_item(w) PROVE ChainInv'
  <2> DEFINE i == tx[w].item
             p == tx[w].price
             e == Event("listed", i, w, p)
  <2>1. i \in Items /\ p \in Prices BY <1>4, RunsTyped DEF list_item
  <2>2. /\ log' = Append(log, e) /\ place[i] = [of |-> w, kiosk |-> FALSE]
        /\ place' = [place EXCEPT ![i].kiosk = TRUE] /\ ask' = [ask EXCEPT ![i] = p]
    BY <1>4 DEF list_item
  <2>3. /\ e.item = i /\ e.kind = "listed" /\ e.price = p /\ e.who = w
        /\ e \in Events
    BY <2>1 DEF Event, Events, Kinds
  <2>4. p # None BY <2>1, MarketAssumption
  <2>5. ask[i] = None BY <2>1, <2>2 DEF ChainInv
  <2> HIDE DEF i, p, e
  <2>6. /\ ask' \in [Items -> Prices \cup {None}]
        /\ place' \in [Items -> [of : Wallets, kiosk : BOOLEAN]]
        /\ \A j \in Items \ {i} : ask'[j] = ask[j] /\ place'[j] = place[j]
        /\ ask'[i] = p /\ place'[i].kiosk /\ place'[i].of = w
    <3>1. place[i].of = w /\ place[i] \in [of : Wallets, kiosk : BOOLEAN]
      BY <1>0, <2>1, <2>2
    <3>2. place'[i].kiosk /\ place'[i].of = w BY <1>0, <2>1, <2>2, <3>1
    <3> QED BY <1>0, <2>1, <2>2, <3>2
  <2>7. Word(e) = OnSale'[i] BY <2>1, <2>3, <2>4, <2>6 DEF Word, OnSale
  <2>8. PICK d \in Events : d = e BY <2>3
  <2> QED BY <2>2, <2>3, <2>5, <2>6, <2>7, <2>8, ChainGrows
<1>5. ASSUME NEW w \in Wallets, delist_item(w) PROVE ChainInv'
  <2> DEFINE i == tx[w].item
             e == Event("delisted", i, w, None)
  <2>1. i \in Items BY <1>5, RunsTyped DEF delist_item
  <2>2. /\ log' = Append(log, e) /\ place' = [place EXCEPT ![i].kiosk = FALSE]
        /\ ask' = [ask EXCEPT ![i] = None]
    BY <1>5 DEF delist_item
  <2>3. e.item = i /\ e.kind = "delisted" /\ e \in Events
    BY <2>1 DEF Event, Events, Kinds
  <2> HIDE DEF i, e
  <2>6. /\ ask' \in [Items -> Prices \cup {None}]
        /\ place' \in [Items -> [of : Wallets, kiosk : BOOLEAN]]
        /\ \A j \in Items \ {i} : ask'[j] = ask[j] /\ place'[j] = place[j]
        /\ ask'[i] = None
    BY <1>0, <2>1, <2>2
  <2>7. Word(e) = OnSale'[i] BY <2>1, <2>3, <2>6 DEF Word, OnSale
  <2>8. PICK d \in Events : d = e BY <2>3
  <2> QED BY <2>2, <2>3, <2>6, <2>7, <2>8, ChainGrows
<1>6. ASSUME NEW w \in Wallets, Retrieve(w) PROVE ChainInv'
  <2> DEFINE i == tx[w].item
  <2>1. i \in Items BY <1>6, RunsTyped DEF Retrieve
  <2>2. /\ UNCHANGED <<ask, log>> /\ place' = [place EXCEPT ![i].kiosk = FALSE]
        /\ ask[i] = None
    BY <1>6 DEF Retrieve
  <2> HIDE DEF i
  <2>3. \A j \in Items \ {i} : place'[j] = place[j] BY <1>0, <2>1, <2>2
  <2>4. \A j \in Items : OnSale'[j] = OnSale[j] BY <2>2, <2>3 DEF OnSale
  <2> QED BY <2>2, <2>3, <2>4 DEF ChainInv
<1>7. ASSUME NEW w \in Wallets, buy_item(w) PROVE ChainInv'
  <2> DEFINE i == tx[w].item
             e == Event("bought", i, w, tx[w].price)
  <2>1. i \in Items /\ tx[w].price \in Prices BY <1>7, RunsTyped DEF buy_item
  <2>2. /\ log' = Append(log, e) /\ place' = [place EXCEPT ![i] = [of |-> w, kiosk |-> FALSE]]
        /\ ask' = [ask EXCEPT ![i] = None]
    BY <1>7 DEF buy_item
  <2>3. e.item = i /\ e.kind = "bought" /\ e \in Events
    BY <2>1 DEF Event, Events, Kinds
  <2> HIDE DEF i, e
  <2>6. /\ ask' \in [Items -> Prices \cup {None}]
        /\ place' \in [Items -> [of : Wallets, kiosk : BOOLEAN]]
        /\ \A j \in Items \ {i} : ask'[j] = ask[j] /\ place'[j] = place[j]
        /\ ask'[i] = None
    BY <1>0, <2>1, <2>2
  <2>7. Word(e) = OnSale'[i] BY <2>1, <2>3, <2>6 DEF Word, OnSale
  <2>8. PICK d \in Events : d = e BY <2>3
  <2> QED BY <2>2, <2>3, <2>6, <2>7, <2>8, ChainGrows
<1> QED BY <1>1, <1>2, <1>3, <1>4, <1>5, <1>6, <1>7 DEF Next, WalletNext

LEMMA SpecChain == Spec => []ChainInv
BY TypedInit, TypedStep, ChainInit, ChainStep, PTL DEF Spec

(***************************************************************************)
(* A gap fill repairs the index                                            *)
(***************************************************************************)
\* The index of an item is what the events said at some point from lo to hi.
Heard(v, q, i, lo, hi) == \E m \in lo .. hi : v = Said(q, m, i)
Known(l, lost, q, lo, hi) == \A i \in Items \ lost : Heard(l[i], q, i, lo, hi)

LEMMA KnownWider ==
  ASSUME NEW l, NEW lost, NEW more, lost \subseteq more, NEW q, NEW r, NEW n \in Nat,
         Alike(q, r, n), NEW lo \in Nat, NEW hi \in Nat, hi <= n, Known(l, lost, q, lo, hi),
         NEW lo2 \in Nat, NEW hi2 \in Nat, lo2 <= lo, hi <= hi2
  PROVE  Known(l, more, r, lo2, hi2)
<1> SUFFICES ASSUME NEW i \in Items \ more PROVE \E m \in lo2 .. hi2 : l[i] = Said(r, m, i)
  BY DEF Known, Heard
<1>1. PICK m \in lo .. hi : l[i] = Said(q, m, i) BY DEF Known, Heard
<1>2. m \in lo2 .. hi2 /\ m \in Nat /\ m <= n OBVIOUS
<1>3. Alike(q, r, m) BY <1>2 DEF Alike
<1>4. Said(q, m, i) = Said(r, m, i) BY <1>3, SaidSame
<1> QED BY <1>1, <1>2, <1>4

\* What handling an event does to the index.
LEMMA HandleListings ==
  ASSUME Typed, NEW e \in Events, Handle(e)
  PROVE  /\ \A i \in Items \ {e.item} :
              listings'[i] = listings[i] /\ (i \in past'.lost <=> i \in past.lost)
         /\ \/ e.item \in past'.lost
            \/ listings'[e.item] = Word(e)
            \/ /\ e.kind = "listed" /\ listings[e.item] # None
               /\ UNCHANGED listings /\ past'.lost = past.lost
<1>0. /\ listings \in [Items -> Entries \cup {None}] /\ e.item \in Items
      /\ past \in [lost : SUBSET Items, mishaps : 0 .. MaxMishaps]
  BY DEF Typed, IndexTyped, PastTyped, Events
<1>1. CASE e.kind = "listed"
  <2>0. handleItemListed(e) BY <1>1 DEF Handle
  <2> DEFINE l == [price |-> e.price, seller |-> e.who]
  <2>1. Word(e) = l BY <1>1 DEF Word
  <2> HIDE DEF l
  <2>2. CASE listings[e.item] # None /\ UNCHANGED <<listings, past>> BY <1>1, <2>2
  <2>3. CASE listings' = [listings EXCEPT ![e.item] = l]
             /\ past' = [past EXCEPT !.lost = @ \ {e.item}]
    <3>1. listings'[e.item] = l /\ \A i \in Items \ {e.item} : listings'[i] = listings[i]
      BY <1>0, <2>3
    <3>2. past'.lost = past.lost \ {e.item} BY <1>0, <2>3
    <3> QED BY <2>1, <3>1, <3>2
  <2>4. CASE UNCHANGED listings
             /\ past' = [past EXCEPT !.lost = @ \cup {e.item}, !.mishaps = @ + 1]
    <3>1. past'.lost = past.lost \cup {e.item}
      <4> DEFINE more == past.lost \cup {e.item}
                 k == past.mishaps + 1
      <4>1. past' = [past EXCEPT !.lost = more, !.mishaps = k] BY <2>4
      <4> HIDE DEF more, k
      <4>2. past'.lost = more BY <1>0, <4>1
      <4> QED BY <4>2 DEF more
    <3> QED BY <2>4, <3>1
  <2> QED BY <2>0, <2>2, <2>3, <2>4 DEF handleItemListed, l
<1>2. CASE e.kind # "listed"
  <2>1. /\ past' = [past EXCEPT !.lost = @ \ {e.item}]
        /\ listings' = [listings EXCEPT ![e.item] = None]
    BY <1>2 DEF Handle, Gone
  <2>2. Word(e) = None BY <1>2 DEF Word
  <2>3. listings'[e.item] = None /\ \A i \in Items \ {e.item} : listings'[i] = listings[i]
    BY <1>0, <2>1
  <2>4. past'.lost = past.lost \ {e.item} BY <1>0, <2>1
  <2> QED BY <2>2, <2>3, <2>4
<1> QED BY <1>1, <1>2

\* The event after n is handled: from n on, what the index holds of every item
\* is what the events said somewhere after it.
LEMMA HandleKnown ==
  ASSUME Typed, ChainInv, NEW n \in Nat, n + 1 <= Len(log), Handle(log[n + 1]),
         NEW lo \in Nat, NEW hi \in Nat, lo <= n, n + 1 <= hi,
         Known(listings, past.lost, log, lo, hi),
         NEW lo2 \in Nat, lo2 = lo \/ (lo = n /\ lo2 = n + 1)
  PROVE  Known(listings', past'.lost, log, lo2, hi)
<1>0. Len(log) \in Nat /\ n + 1 \in 1 .. Len(log) /\ log[n + 1] \in Events BY SyncFields
<1> PICK e \in Events : e = log[n + 1] BY <1>0
<1> PICK k \in Nat : k = n + 1 OBVIOUS
<1>1. Handle(e) /\ e = log[k] /\ n \in 0 .. hi /\ k \in lo2 .. hi /\ e.item \in Items
  BY <1>0 DEF Events
<1>2. \A i : OneMore(log, log, n, k, e) BY <1>0 DEF OneMore, Alike
<1>3. /\ \A i : e.item = i => Said(log, k, i) = Word(e)
      /\ \A i : e.item # i => Said(log, k, i) = Said(log, n, i)
  BY <1>2, SaidMore
<1>4. /\ \A i \in Items \ {e.item} :
           listings'[i] = listings[i] /\ (i \in past'.lost <=> i \in past.lost)
      /\ \/ e.item \in past'.lost
         \/ listings'[e.item] = Word(e)
         \/ /\ e.kind = "listed" /\ listings[e.item] # None
            /\ UNCHANGED listings /\ past'.lost = past.lost
  BY <1>1, HandleListings
<1> SUFFICES ASSUME NEW i \in Items \ past'.lost
             PROVE  \E m \in lo2 .. hi : listings'[i] = Said(log, m, i)
  BY DEF Known, Heard
<1>5. CASE i # e.item
  <2>1. PICK m \in lo .. hi : listings[i] = Said(log, m, i)
    BY <1>4, <1>5 DEF Known, Heard
  <2>2. CASE m \in lo2 .. hi BY <1>4, <1>5, <2>1, <2>2
  <2>3. CASE m \notin lo2 .. hi
    <3>1. m = n BY <2>1, <2>3
    <3> QED BY <1>1, <1>3, <1>4, <1>5, <2>1, <3>1
  <2> QED BY <2>2, <2>3
<1>6. CASE i = e.item
  <2>1. CASE listings'[i] = Word(e) BY <1>1, <1>3, <1>6, <2>1
  <2>2. CASE /\ e.kind = "listed" /\ listings[i] # None
             /\ UNCHANGED listings /\ past'.lost = past.lost
    <3>1. PICK m \in lo .. hi : listings[i] = Said(log, m, i)
      BY <2>2 DEF Known, Heard
    <3>2. Said(log, n, i) = None
      <4>1. k \in 1 .. Len(log) /\ log[k].kind = "listed" /\ log[k].item = i /\ k - 1 = n
        BY <1>0, <1>1, <1>6, <2>2
      <4> QED BY <4>1 DEF ChainInv
    <3>3. m # n BY <2>2, <3>1, <3>2
    <3>4. m \in lo2 .. hi BY <3>1, <3>3
    <3> QED BY <2>2, <3>1, <3>4
  <2> QED BY <1>4, <1>6, <2>1, <2>2
<1> QED BY <1>5, <1>6

\* Inductive.  While it reads pages the index is where the page begins; after
\* that it may be anywhere between the cursor and the end of the log, but in a
\* stream that follows a gap fill it is at the cursor.
Reading == sync.phase \in {"cold", "fill"}
Done == sync.at - Len(sync.page)
Base == IF Reading THEN Done ELSE cursor
Top == CASE Reading /\ ~sync.more -> sync.at
         [] sync.phase = "open" /\ cursor # 0 -> cursor
         [] OTHER -> Len(log)
FeedInv ==
  /\ Done \in Nat /\ cursor <= Done
  /\ sync.page # << >> => Reading
  /\ \A k \in 1 .. Len(sync.page) : sync.page[k] = log[Done + k]
  /\ Reading /\ sync.page = << >> => cursor = sync.at
IndexInv == FeedInv /\ Known(listings, past.lost, log, Base, Top)

LEMMA IndexInvRepairs == Typed /\ IndexInv => FillRepairs
<1> SUFFICES ASSUME Typed, IndexInv, sync.phase = "open", cursor # 0,
                    NEW i \in Items \ past.lost
             PROVE  listings[i] = After(cursor)[i]
  BY DEF FillRepairs
<1>1. Base = cursor /\ Top = cursor BY DEF Base, Top, Reading
<1>2. PICK m \in Base .. Top : listings[i] = Said(log, m, i)
  BY DEF IndexInv, Known, Heard
<1>3. m = cursor BY <1>1, <1>2, SyncFields
<1> QED BY <1>2, <1>3, AfterIsSaid

\* Where the index can be.
LEMMA FeedFacts ==
  ASSUME Typed, FeedInv
  PROVE  /\ Len(sync.page) \in Nat /\ (sync.page = << >> <=> Len(sync.page) = 0)
         /\ Done \in Nat /\ Base \in Nat /\ Top \in Nat /\ Top <= Len(log)
         /\ sync.page = << >> => Done = sync.at
         /\ Done + Len(sync.page) = sync.at
         /\ ~Reading => sync.page = << >> /\ Done = sync.at
<1>1. Len(sync.page) \in Nat /\ (sync.page = << >> <=> Len(sync.page) = 0)
  BY SyncFields, EmptySeq
<1>2. Done \in Nat /\ Base \in Nat BY SyncFields DEF FeedInv, Base
<1>3. Top \in Nat /\ Top <= Len(log) BY SyncFields DEF Top
<1>4. sync.page = << >> => Done = sync.at BY <1>1, SyncFields DEF Done
<1>5. Done + Len(sync.page) = sync.at BY <1>1, SyncFields DEF Done
<1> QED BY <1>1, <1>2, <1>3, <1>4, <1>5 DEF FeedInv

\* Steps after which the index can be wherever it could be before.
LEMMA IndexWider ==
  ASSUME Typed, IndexInv, UNCHANGED <<listings, log>>, past'.lost = past.lost,
         FeedInv', Base' \in Nat, Top' \in Nat, Base' <= Base, Top <= Top'
  PROVE  IndexInv'
<1>0. Len(log) \in Nat BY SyncFields
<1> PICK n \in Nat : n = Len(log) BY <1>0
<1>1. Base \in Nat /\ Top \in Nat /\ Top <= n BY FeedFacts DEF IndexInv
<1>2. Alike(log, log, n) BY DEF Alike
<1> DEFINE lost == past.lost
           lo == Base
           hi == Top
           lo2 == Base'
           hi2 == Top'
           l == listings
<1>3. Known(l, lost, log, lo, hi) BY DEF IndexInv
<1>4. /\ lost \subseteq lost /\ lo \in Nat /\ hi \in Nat /\ hi <= n /\ lo2 \in Nat
      /\ hi2 \in Nat /\ lo2 <= lo /\ hi <= hi2
  BY <1>1
<1>5. Known(l, lost, log, lo2, hi2)
  <2> HIDE DEF lost, lo, hi, lo2, hi2, l
  <2> QED BY <1>2, <1>3, <1>4, KnownWider
<1>6. Known(l', lost', log', lo2, hi2) BY <1>5
<1> QED BY <1>6 DEF IndexInv

\* The log grows, or nothing that the index looks at changes.
LEMMA IndexSameInv ==
  ASSUME Typed, IndexInv, UNCHANGED indexVars, past'.lost = past.lost,
         log' = log \/ (\E e \in Events : log' = Append(log, e))
  PROVE  IndexInv'
<1>0. Len(log) \in Nat BY SyncFields
<1> PICK n \in Nat : n = Len(log) BY <1>0
<1>1. Len(log') \in Nat /\ n <= Len(log') /\ \A k \in 1 .. n : log'[k] = log[k]
  <2>1. CASE log' = log BY <2>1
  <2>2. CASE \E e \in Events : log' = Append(log, e) BY <2>2, LogGrows
  <2> QED BY <2>1, <2>2
<1>2. UNCHANGED <<listings, cursor, sync>> BY DEF indexVars
<1>3. Base' = Base /\ Done' = Done /\ Reading' = Reading
  BY <1>2 DEF Base, Done, Reading
<1>4. /\ Base \in Nat /\ Top \in Nat /\ Top <= n /\ Done + Len(sync.page) = sync.at
      /\ Len(sync.page) \in Nat /\ Done \in Nat
  BY FeedFacts DEF IndexInv
<1>5. FeedInv'
  <2>1. \A k \in 1 .. Len(sync.page) : log'[Done + k] = log[Done + k]
    <3>1. \A k \in 1 .. Len(sync.page) : Done + k \in 1 .. n BY <1>4, SyncFields
    <3> QED BY <1>1, <3>1
  <2> QED BY <1>2, <1>3, <2>1 DEF IndexInv, FeedInv
<1>6. Top' \in Nat /\ Top <= Top'
  BY <1>1, <1>2, <1>3, <1>4, SyncFields DEF Top, Reading
<1>7. Alike(log, log', n) BY <1>1 DEF Alike
<1> DEFINE lost == past.lost
           lo == Base
           hi == Top
           hi2 == Top'
           l == listings
           r == log'
<1>8. Known(l, lost, log, lo, hi) BY DEF IndexInv
<1>9. /\ lost \subseteq lost /\ lo \in Nat /\ hi \in Nat /\ hi <= n /\ lo <= lo
      /\ hi2 \in Nat /\ hi <= hi2 /\ Alike(log, r, n)
  BY <1>4, <1>6, <1>7
<1>10. Known(l, lost, r, lo, hi2)
  <2> HIDE DEF lost, lo, hi, hi2, l, r
  <2> QED BY <1>8, <1>9, KnownWider
<1> QED BY <1>2, <1>3, <1>5, <1>10 DEF IndexInv

LEMMA IndexInvInit == Init => IndexInv
<1> SUFFICES ASSUME Init PROVE IndexInv OBVIOUS
<1>1. /\ sync = [phase |-> "cold", at |-> 0, more |-> TRUE, page |-> << >>] /\ cursor = 0
      /\ listings = [i \in Items |-> None] /\ Len(log) = 0 /\ Len(<< >>) = 0
  BY DEF Init
<1>2. Reading /\ Done = 0 /\ Base = 0 /\ Top = 0 BY <1>1 DEF Reading, Done, Base, Top
<1>3. FeedInv BY <1>1, <1>2 DEF FeedInv
<1>4. 0 \in 0 .. 0 OBVIOUS
<1> QED BY <1>1, <1>2, <1>3, <1>4, SaidNothing DEF IndexInv, Known, Heard

\* A page is read.
LEMMA ReadPageKept == Typed /\ IndexInv /\ ReadPage => IndexInv'
<1> SUFFICES ASSUME Typed, IndexInv, ReadPage PROVE IndexInv' OBVIOUS
<1>1. UNCHANGED <<listings, cursor, log>> /\ past'.lost = past.lost
  BY DEF ReadPage, Elsewhere, chainVars
<1>2. /\ Reading /\ sync.page = << >> /\ sync.more /\ PageEnd \in sync.at .. Len(log)
      /\ sync'.phase = sync.phase /\ sync'.at = PageEnd
      /\ sync'.more = (PageEnd < Len(log)) /\ Len(sync'.page) = PageEnd - sync.at
      /\ \A k \in 1 .. PageEnd - sync.at : sync'.page[k] = log[sync.at + k]
      /\ sync'.page \in Seq(Events)
  BY ReadPageEffect DEF Reading, SyncType
<1>3. cursor = sync.at BY <1>2 DEF IndexInv, FeedInv
<1>4. sync.at \in Nat /\ Len(log) \in Nat BY SyncFields
<1>5. Reading' /\ Done' = sync.at /\ Done = sync.at
  <2>1. Done = sync.at BY <1>2, FeedFacts DEF IndexInv
  <2> QED BY <1>2, <1>4, <2>1 DEF Reading, Done
<1>6. FeedInv'
  <2>1. sync'.page = << >> => PageEnd = sync.at
    <3>1. Len(<< >>) = 0 OBVIOUS
    <3> QED BY <1>2, <1>4, <3>1
  <2> QED BY <1>1, <1>2, <1>3, <1>4, <1>5, <2>1 DEF FeedInv
<1>7. Base' = sync.at /\ Base = sync.at BY <1>2, <1>5 DEF Base
<1>8. Top = Len(log) /\ Top' = Len(log)
  <2>1. sync.phase # "open" /\ sync'.phase # "open" BY <1>2 DEF Reading
  <2>2. Top = Len(log) BY <1>2, <2>1 DEF Top
  <2>3. sync'.more \/ sync'.at = Len(log)
    <3>1. CASE PageEnd < Len(log) BY <1>2, <3>1
    <3>2. CASE ~(PageEnd < Len(log))
      <4>1. PageEnd = Len(log) BY <1>2, <1>4, <3>2
      <4> QED BY <1>2, <4>1
    <3> QED BY <3>1, <3>2
  <2>4. Top' = Len(log) BY <1>1, <1>5, <2>1, <2>3 DEF Top
  <2> QED BY <2>2, <2>4
<1> QED BY <1>1, <1>4, <1>6, <1>7, <1>8, IndexWider

\* An event of a page is handled.
LEMMA HandlePageKept == Typed /\ ChainInv /\ IndexInv /\ HandlePageEvent => IndexInv'
<1> SUFFICES ASSUME Typed, ChainInv, IndexInv, HandlePageEvent PROVE IndexInv' OBVIOUS
<1>1. UNCHANGED log BY DEF HandlePageEvent, Elsewhere, chainVars
<1>2. /\ sync.page # << >> /\ Len(sync.page) \in Nat \ {0} /\ Handle(sync.page[1])
      /\ sync'.phase = sync.phase /\ sync'.at = sync.at /\ sync'.more = sync.more
      /\ Len(sync'.page) = Len(sync.page) - 1 /\ sync'.page \in Seq(Events)
      /\ \A k \in 1 .. Len(sync.page) - 1 : sync'.page[k] = sync.page[k + 1]
      /\ cursor' = IF Len(sync.page) = 1 THEN sync.at ELSE cursor
  BY HandlePageEffect DEF SyncType
<1>a. FeedInv BY DEF IndexInv
<1>3. /\ Done \in Nat /\ cursor <= Done /\ Done + Len(sync.page) = sync.at
      /\ sync.at <= Len(log) /\ Len(log) \in Nat /\ cursor \in Nat /\ sync.at \in Nat
  <2>1. cursor <= Done BY <1>a DEF FeedInv
  <2>2. sync.at <= Len(log) BY SyncFields
  <2> QED BY <1>a, <2>1, <2>2, FeedFacts, SyncFields
<1>4. Reading /\ Reading' BY <1>2 DEF IndexInv, FeedInv, Reading
<1>5. Done' = Done + 1 BY <1>2, <1>3 DEF Done
<1> PICK n \in Nat : n = Done BY <1>3
<1>6. sync.page[1] = log[n + 1] /\ n + 1 <= sync.at
  <2>1. 1 \in 1 .. Len(sync.page) BY <1>2
  <2> QED BY <1>2, <1>3, <2>1 DEF IndexInv, FeedInv
<1>7. FeedInv'
  <2>1. cursor' <= Done' /\ Done' \in Nat BY <1>2, <1>3, <1>5
  <2>2. ASSUME NEW k \in 1 .. Len(sync'.page) PROVE sync'.page[k] = log'[Done' + k]
    <3>1. k + 1 \in 1 .. Len(sync.page) /\ k \in 1 .. Len(sync.page) - 1 BY <1>2
    <3>2. sync.page[k + 1] = log[Done + (k + 1)] BY <3>1 DEF IndexInv, FeedInv
    <3>3. Done + (k + 1) = Done' + k BY <1>3, <1>5, <3>1
    <3> QED BY <1>1, <1>2, <3>1, <3>2, <3>3
  <2>3. sync'.page = << >> => cursor' = sync'.at
    <3>1. Len(<< >>) = 0 OBVIOUS
    <3> QED BY <1>2, <3>1
  <2> QED BY <1>4, <2>1, <2>2, <2>3 DEF FeedInv
<1>8. Base = n /\ Base' = n + 1 BY <1>4, <1>5 DEF Base
<1>9. Top' = Top /\ Top \in Nat /\ n + 1 <= Top
  BY <1>1, <1>2, <1>3, <1>4, <1>6 DEF Top, Reading
<1>10. Known(listings', past'.lost, log, n + 1, Top)
  <2>1. Known(listings, past.lost, log, n, Top) BY <1>8 DEF IndexInv
  <2>2. Handle(log[n + 1]) BY <1>2, <1>6
  <2>3. n + 1 <= Len(log) BY <1>3, <1>6
  <2> PICK hi \in Nat : hi = Top BY <1>9
  <2> PICK lo2 \in Nat : lo2 = n + 1 OBVIOUS
  <2>4. n <= n /\ n + 1 <= hi /\ Known(listings, past.lost, log, n, hi) BY <1>9, <2>1
  <2>5. Known(listings', past'.lost, log, lo2, hi) BY <2>2, <2>3, <2>4, HandleKnown
  <2> QED BY <2>5
<1> QED BY <1>1, <1>7, <1>8, <1>9, <1>10 DEF IndexInv

\* An event of the stream is handled.
LEMMA StreamKept == Typed /\ ChainInv /\ IndexInv /\ StreamEvent => IndexInv'
<1> SUFFICES ASSUME Typed, ChainInv, IndexInv, StreamEvent PROVE IndexInv' OBVIOUS
<1>1. UNCHANGED <<log, cursor>> BY DEF StreamEvent, Elsewhere, chainVars
<1> PICK n \in Nat : n = sync.at BY SyncFields
<1>2. /\ sync.phase = "live" /\ n < Len(log) /\ Handle(log[n + 1])
      /\ sync' = [sync EXCEPT !.at = n + 1]
  BY DEF StreamEvent
<1>3. /\ sync'.phase = sync.phase /\ sync'.at = n + 1 /\ sync'.more = sync.more
      /\ sync'.page = sync.page
  BY <1>2, SyncFields DEF SyncType
<1>4. ~Reading /\ ~Reading' BY <1>2, <1>3 DEF Reading
<1>5. sync.page = << >> /\ Done = n /\ cursor <= n /\ cursor \in Nat /\ Len(log) \in Nat
  BY <1>4, FeedFacts, SyncFields DEF IndexInv, FeedInv
<1>6. Done' = n + 1
  <2>1. Len(<< >>) = 0 OBVIOUS
  <2> QED BY <1>3, <1>5, <2>1 DEF Done
<1>7. FeedInv'
  <2>1. Len(<< >>) = 0 /\ 1 .. 0 = {} OBVIOUS
  <2> QED BY <1>1, <1>3, <1>4, <1>5, <1>6, <2>1 DEF FeedInv
<1>8. Base = cursor /\ Base' = cursor /\ Top = Len(log) /\ Top' = Len(log)
  BY <1>1, <1>2, <1>3, <1>4 DEF Base, Top
<1>9. Known(listings', past'.lost, log, cursor, Len(log))
  <2> PICK hi \in Nat : hi = Len(log) BY <1>5
  <2> PICK lo \in Nat : lo = cursor BY <1>5
  <2>1. /\ n + 1 <= Len(log) /\ n + 1 <= hi /\ lo <= n /\ Handle(log[n + 1])
        /\ Known(listings, past.lost, log, lo, hi)
    BY <1>2, <1>5, <1>8 DEF IndexInv
  <2>2. Known(listings', past'.lost, log, lo, hi) BY <2>1, HandleKnown
  <2> QED BY <2>2
<1> QED BY <1>1, <1>7, <1>8, <1>9 DEF IndexInv

\* A step that only moves the index to another phase, with nothing to handle.
LEMMA PhaseKept ==
  ASSUME Typed, IndexInv, UNCHANGED <<listings, cursor, log>>, past'.lost = past.lost,
         sync.page = << >>, sync'.page = << >>, sync'.at \in Nat, cursor <= sync'.at,
         Reading' => cursor = sync'.at,
         Reading => cursor = sync.at,
         Top' \in Nat, Top <= Top'
  PROVE  IndexInv'
<1>1. Len(<< >>) = 0 /\ 1 .. 0 = {} OBVIOUS
<1>2. Done' = sync'.at BY <1>1 DEF Done
<1>3. FeedInv' BY <1>1, <1>2 DEF FeedInv
<1>4. Done = sync.at BY FeedFacts DEF IndexInv
<1>5. Base = cursor /\ Base' = cursor /\ cursor \in Nat
  BY <1>2, <1>4, SyncFields DEF Base
<1> QED BY <1>3, <1>5, IndexWider

LEMMA SubscribeKept ==
  ASSUME Typed, IndexInv, UNCHANGED <<listings, cursor, log>>, past'.lost = past.lost,
         sync.page = << >>, Reading => cursor = sync.at, sync' = Subscribes
  PROVE  IndexInv'
<1>1. /\ sync'.page = << >> /\ sync'.at = cursor /\ sync'.more = TRUE
      /\ sync'.phase = IF cursor = 0 THEN "open" ELSE "fill"
  BY DEF Subscribes
<1>2. cursor \in Nat /\ Len(log) \in Nat /\ Top \in Nat /\ Top <= Len(log)
  BY SyncFields, FeedFacts DEF IndexInv
<1>3. Top' = Len(log)
  <2>1. ~(sync'.phase = "open" /\ cursor # 0) BY <1>1
  <2> QED BY <1>1, <2>1 DEF Top
<1> QED BY <1>1, <1>2, <1>3, PhaseKept

LEMMA IndexInvIndex == Typed /\ ChainInv /\ IndexInv /\ IndexNext => IndexInv'
<1> SUFFICES ASSUME Typed, ChainInv, IndexInv, IndexNext PROVE IndexInv' OBVIOUS
<1>0. /\ cursor \in Nat /\ Len(log) \in Nat /\ sync.at \in Nat /\ sync.at <= Len(log)
      /\ cursor <= Len(log) /\ Top \in Nat /\ Top <= Len(log)
      /\ Reading /\ sync.page = << >> => cursor = sync.at
      /\ ~Reading => sync.page = << >> /\ Done = sync.at /\ cursor <= Done
  <2>1. FeedInv BY DEF IndexInv
  <2>2. cursor <= Len(log) /\ sync.at <= Len(log) BY SyncFields
  <2>3. Reading /\ sync.page = << >> => cursor = sync.at BY <2>1 DEF FeedInv
  <2>4. cursor <= Done BY <2>1 DEF FeedInv
  <2> QED BY <2>1, <2>2, <2>3, <2>4, FeedFacts, SyncFields
<1>m. Mishap => past'.lost = past.lost
  BY DEF Mishap, Typed, PastTyped
<1>1. CASE ColdSyncDone
  <2>1. UNCHANGED <<listings, cursor, log>> /\ past'.lost = past.lost /\ sync' = Subscribes
        /\ sync.page = << >>
    BY <1>1 DEF ColdSyncDone, Elsewhere, chainVars
  <2> QED BY <1>0, <2>1, SubscribeKept
<1>2. CASE Reconnects
  <2>1. UNCHANGED <<listings, cursor, log>> /\ past'.lost = past.lost /\ sync' = Subscribes
        /\ ~Reading
    BY <1>2 DEF Reconnects, Elsewhere, chainVars, Reading
  <2> QED BY <1>0, <2>1, SubscribeKept
<1>3. CASE FillDone
  <2>1. UNCHANGED <<listings, cursor, log>> /\ past'.lost = past.lost
        /\ sync' = [sync EXCEPT !.phase = "open"] /\ sync.page = << >> /\ Reading
        /\ ~sync.more
    BY <1>3 DEF FillDone, Elsewhere, chainVars, Reading
  <2>2. sync'.phase = "open" /\ sync'.page = << >> /\ sync'.at = sync.at
    BY <2>1, SyncFields DEF SyncType
  <2>3. ~Reading' BY <2>2 DEF Reading
  <2>4. cursor = sync.at BY <1>0, <2>1
  <2>5. Top = cursor BY <2>1, <2>4 DEF Top
  <2>6. Top' \in Nat /\ Top <= Top'
    <3>1. CASE cursor # 0
      <4>1. Top' = cursor BY <2>1, <2>2, <2>3, <3>1 DEF Top
      <4> QED BY <1>0, <2>5, <4>1
    <3>2. CASE cursor = 0
      <4>1. Top' = Len(log) BY <2>1, <2>2, <2>3, <3>2 DEF Top
      <4> QED BY <1>0, <4>1
    <3> QED BY <3>1, <3>2
  <2> QED BY <1>0, <2>1, <2>2, <2>3, <2>4, <2>6, PhaseKept
<1>4. CASE QueryFails
  <2>1. UNCHANGED <<listings, cursor, log>> /\ past'.lost = past.lost /\ Reading
        /\ sync' = [sync EXCEPT !.phase = IF sync.phase = "cold" THEN "dead" ELSE "waiting"]
        /\ sync.page = << >>
    BY <1>4, <1>m DEF QueryFails, Elsewhere, chainVars, Reading
  <2>2. sync'.phase \in {"dead", "waiting"} /\ sync'.page = << >> /\ sync'.at = sync.at
    <3> DEFINE ph == IF sync.phase = "cold" THEN "dead" ELSE "waiting"
    <3>1. ph \in {"dead", "waiting"} OBVIOUS
    <3>2. sync' = [sync EXCEPT !.phase = ph] BY <2>1
    <3> HIDE DEF ph
    <3> QED BY <2>1, <3>1, <3>2, SyncFields DEF SyncType
  <2>3. ~Reading' /\ sync'.phase # "open" BY <2>2 DEF Reading
  <2>4. Top' = Len(log) BY <2>1, <2>3 DEF Top
  <2> QED BY <1>0, <2>1, <2>2, <2>3, <2>4, PhaseKept
<1>5. CASE StreamOpens
  <2>1. UNCHANGED <<listings, cursor, log>> /\ past'.lost = past.lost /\ ~Reading
        /\ sync' = [sync EXCEPT !.phase = "live", !.at = Len(log)]
    BY <1>5 DEF StreamOpens, Elsewhere, chainVars, Reading
  <2>2. sync'.phase = "live" /\ sync'.page = sync.page /\ sync'.at = Len(log)
    BY <2>1, SyncFields DEF SyncType
  <2>3. ~Reading' BY <2>2 DEF Reading
  <2>4. Top' = Len(log) BY <2>1, <2>2, <2>3 DEF Top
  <2> QED BY <1>0, <2>1, <2>2, <2>3, <2>4, PhaseKept
<1>6. CASE StreamEnds
  <2>1. UNCHANGED <<listings, cursor, log>> /\ past'.lost = past.lost /\ ~Reading
        /\ sync' = [sync EXCEPT !.phase = "waiting"]
    BY <1>6, <1>m DEF StreamEnds, Elsewhere, chainVars, Reading
  <2>2. sync'.phase = "waiting" /\ sync'.page = sync.page /\ sync'.at = sync.at
    BY <2>1, SyncFields DEF SyncType
  <2>3. ~Reading' BY <2>2 DEF Reading
  <2>4. Top' = Len(log) BY <2>1, <2>2, <2>3 DEF Top
  <2> QED BY <1>0, <2>1, <2>2, <2>3, <2>4, PhaseKept
<1>7. CASE Restart
  <2>1. /\ listings' = [i \in Items |-> None] /\ cursor' = 0 /\ UNCHANGED log
        /\ sync' = [phase |-> "cold", at |-> 0, more |-> TRUE, page |-> << >>]
    BY <1>7 DEF Restart, chainVars
  <2>2. Len(<< >>) = 0 /\ 1 .. 0 = {} OBVIOUS
  <2>3. Reading' /\ Done' = 0 BY <2>1, <2>2 DEF Reading, Done
  <2>4. FeedInv' BY <2>1, <2>2, <2>3 DEF FeedInv
  <2>5. Base' = 0 BY <2>3 DEF Base
  <2>6. Top' = Len(log)
    <3>1. sync'.more = TRUE /\ sync'.phase # "open" BY <2>1
    <3> QED BY <2>1, <3>1 DEF Top
  <2>7. 0 \in 0 .. Len(log) BY <1>0
  <2>8. Known(listings', past'.lost, log', Base', Top')
    BY <2>1, <2>5, <2>6, <2>7, SaidNothing DEF Known, Heard
  <2> QED BY <2>4, <2>8 DEF IndexInv
<1> QED
  BY <1>1, <1>2, <1>3, <1>4, <1>5, <1>6, <1>7, ReadPageKept, HandlePageKept, StreamKept
  DEF IndexNext

LEMMA IndexInvStep == Typed /\ ChainInv /\ IndexInv /\ [Next]_vars => IndexInv'
<1> SUFFICES ASSUME Typed, ChainInv, IndexInv, [Next]_vars PROVE IndexInv' OBVIOUS
<1>1. CASE IndexNext BY <1>1, IndexInvIndex
<1>2. CASE PageNext
  <2>1. UNCHANGED indexVars /\ UNCHANGED log /\ (Mishap \/ UNCHANGED past)
    BY <1>2
    DEF PageNext, SignDelist, SignBuy, Sign, Connect, Disconnect, handleGetMarketplace,
        MessageArrives, chainVars
  <2>2. past'.lost = past.lost BY <2>1 DEF Mishap, Typed, PastTyped
  <2> QED BY <2>1, <2>2, IndexSameInv
<1>3. CASE UNCHANGED vars BY <1>3, IndexSameInv DEF vars, indexVars
<1>4. ASSUME NEW w \in Wallets,
             \/ create_or_get_player_kiosk(w) \/ SignList(w) \/ SignRetrieve(w)
             \/ TxFails(w) \/ withdrawAllProfits(w) \/ Retrieve(w)
      PROVE  IndexInv'
  <2>1. UNCHANGED indexVars /\ UNCHANGED <<log, past>>
    BY <1>4
    DEF create_or_get_player_kiosk, SignList, SignRetrieve, TxFails, withdrawAllProfits,
        Sign, chainVars, Retrieve, Runs
  <2> QED BY <2>1, IndexSameInv
<1>5. ASSUME NEW w \in Wallets, list_item(w) \/ delist_item(w) \/ buy_item(w)
      PROVE  IndexInv'
  <2>1. UNCHANGED indexVars /\ UNCHANGED past
    BY <1>5 DEF list_item, delist_item, buy_item, Runs
  <2>2. \E e \in Events : log' = Append(log, e)
    <3>1. CASE list_item(w)
      <4> DEFINE e == Event("listed", tx[w].item, w, tx[w].price)
      <4>1. tx[w].item \in Items /\ tx[w].price \in Prices
        BY <3>1, RunsTyped DEF list_item
      <4>2. e \in Events BY <4>1 DEF Event, Events, Kinds
      <4>3. log' = Append(log, e) BY <3>1 DEF list_item
      <4> HIDE DEF e
      <4> QED BY <4>2, <4>3
    <3>2. CASE delist_item(w)
      <4> DEFINE e == Event("delisted", tx[w].item, w, None)
      <4>1. tx[w].item \in Items BY <3>2, RunsTyped DEF delist_item
      <4>2. e \in Events BY <4>1 DEF Event, Events, Kinds
      <4>3. log' = Append(log, e) BY <3>2 DEF delist_item
      <4> HIDE DEF e
      <4> QED BY <4>2, <4>3
    <3>3. CASE buy_item(w)
      <4> DEFINE e == Event("bought", tx[w].item, w, tx[w].price)
      <4>1. tx[w].item \in Items /\ tx[w].price \in Prices
        BY <3>3, RunsTyped DEF buy_item
      <4>2. e \in Events BY <4>1 DEF Event, Events, Kinds
      <4>3. log' = Append(log, e) BY <3>3 DEF buy_item
      <4> HIDE DEF e
      <4> QED BY <4>2, <4>3
    <3> QED BY <1>5, <3>1, <3>2, <3>3
  <2> QED BY <2>1, <2>2, IndexSameInv
<1> QED BY <1>1, <1>2, <1>3, <1>4, <1>5 DEF Next, WalletNext

\* However often the stream ended, events were missed or handled twice, queries
\* failed or the server restarted, a gap fill that is done leaves the index as
\* the events say at the cursor, but for the listings whose item could not be
\* fetched.  (marketplace.ts catchUpFromCursor, handleItemListed)
THEOREM FillsRepair == Spec => []FillRepairs
<1>1. Spec => [](Typed /\ ChainInv /\ IndexInv)
  BY TypedInit, TypedStep, ChainInit, ChainStep, IndexInvInit, IndexInvStep, PTL DEF Spec
<1> QED BY <1>1, IndexInvRepairs, PTL

(***************************************************************************)
(* Sums                                                                    *)
(***************************************************************************)
Plus == [p \in Int \X Int |-> p[2] + p[1]]
Chosen(S) == [s \in SUBSET S |-> CHOOSE x \in s : TRUE]
Summing(g, f, S) ==
  IsFiniteSet(S) /\ (\A x \in S : f[x] \in Int) /\ Builds(g, 0, Plus, Chosen(S), f, S)
AddsUp(g, f, S) ==
  /\ g = [s \in SUBSET S |-> g[s]]
  /\ \A s \in SUBSET S :
       /\ g[s] \in Int
       /\ s = {} => g[s] = 0
       /\ s # {} => Chosen(S)[s] \in s /\ g[s] = f[Chosen(S)[s]] + g[s \ {Chosen(S)[s]}]

LEMMA ChosenPicks == ASSUME NEW S PROVE Picks(Chosen(S), S)
BY DEF Picks, Chosen

LEMMA SummingAt ==
  ASSUME NEW S, NEW f, NEW g, Summing(g, f, S)
  PROVE  AddsUp(g, f, S)
<1>0. IsFiniteSet(S) /\ (\A x \in S : f[x] \in Int) BY DEF Summing
<1>1. 0 \in Int /\ Plus \in [Int \X Int -> Int] BY DEF Plus
<1>2. ASSUME NEW s \in SUBSET S PROVE g[s] \in Int
  <2> DEFINE A == Int
             step == Plus
             base == 0
             pick == Chosen(S)
  <2>1. /\ base \in A /\ step \in [A \X A -> A] /\ Picks(pick, S) /\ \A x \in S : f[x] \in A
        /\ Builds(g, base, step, pick, f, S)
    BY <1>0, <1>1, ChosenPicks DEF Summing
  <2> HIDE DEF A, step, base, pick
  <2>2. \A r \in SUBSET S : g[r] \in A BY <1>0, <2>1, BuildsType
  <2> QED BY <2>2 DEF A
<1>3. ASSUME NEW s \in SUBSET S
      PROVE  /\ s = {} => g[s] = 0
             /\ s # {} => /\ Chosen(S)[s] \in s
                          /\ g[s] = f[Chosen(S)[s]] + g[s \ {Chosen(S)[s]}]
  <2>1. s # {} => Chosen(S)[s] \in s BY ChosenPicks DEF Picks
  <2>2. /\ s = {} => g[s] = 0
        /\ s # {} => g[s] = Plus[<<g[s \ {Chosen(S)[s]}], f[Chosen(S)[s]]>>]
    BY DEF Summing, Builds
  <2>3. s # {} => g[s \ {Chosen(S)[s]}] \in Int /\ f[Chosen(S)[s]] \in Int
    BY <1>0, <1>2, <2>1
  <2>4. ASSUME s # {} PROVE g[s] = f[Chosen(S)[s]] + g[s \ {Chosen(S)[s]}]
    <3> PICK a \in Int : a = g[s \ {Chosen(S)[s]}] BY <2>3, <2>4
    <3> PICK b \in Int : b = f[Chosen(S)[s]] BY <2>3, <2>4
    <3>1. Plus[<<a, b>>] = b + a BY DEF Plus
    <3> QED BY <2>2, <2>4, <3>1
  <2> QED BY <2>1, <2>2, <2>4
<1>4. g = [s \in SUBSET S |-> g[s]] BY DEF Summing, Builds
<1> QED BY <1>2, <1>3, <1>4 DEF AddsUp

\* The sum over a function is what such a g says of the whole domain.
LEMMA SumIs ==
  ASSUME NEW S, IsFiniteSet(S), NEW f \in [S -> Int]
  PROVE  \E g : Summing(g, f, S) /\ SumFunction(f) = g[S]
<1> DEFINE F(k) == [s \in SUBSET S |->
                      IF s = {} THEN 0
                      ELSE f[CHOOSE x \in s : TRUE] + k[s \ {CHOOSE x \in s : TRUE}]]
<1>0. DOMAIN f = S /\ \A x \in S : f[x] \in Int OBVIOUS
<1>1. PICK g : Summing(g, f, S)
  <2> DEFINE base == 0
  <2>1. \E g : Builds(g, base, Plus, Chosen(S), f, S)
    <3> HIDE DEF base
    <3> QED BY ChosenPicks, BuildsExists
  <2> QED BY <1>0, <2>1 DEF Summing
<1>a. AddsUp(g, f, S) BY <1>1, SummingAt
<1>2. ASSUME NEW s \in SUBSET S
      PROVE  /\ s = {} => g[s] = 0
             /\ s # {} => g[s] = f[CHOOSE x \in s : TRUE] + g[s \ {CHOOSE x \in s : TRUE}]
  <2>1. Chosen(S)[s] = CHOOSE x \in s : TRUE BY DEF Chosen
  <2>2. /\ s = {} => g[s] = 0
        /\ s # {} => g[s] = f[Chosen(S)[s]] + g[s \ {Chosen(S)[s]}]
    BY <1>a DEF AddsUp
  <2> QED BY <2>1, <2>2
<1>3. g = F(g)
  <2>1. g = [s \in SUBSET S |-> g[s]] BY <1>a DEF AddsUp
  <2>2. \A s \in SUBSET S : g[s] = F(g)[s] BY <1>2
  <2>3. F(g) = [s \in SUBSET S |-> F(g)[s]] OBVIOUS
  <2> HIDE DEF F
  <2> QED BY <2>1, <2>2, <2>3
<1>4. ASSUME NEW k, k = F(k) PROVE k[S] = g[S]
  <2> DEFINE Good == {s \in SUBSET S : k[s] = g[s]}
  <2>1. ASSUME NEW s \in SUBSET S, \A r \in SUBSET s : r # s => r \in Good
        PROVE  s \in Good
    <3>1. /\ s = {} => k[s] = 0
          /\ s # {} => k[s] = f[CHOOSE x \in s : TRUE] + k[s \ {CHOOSE x \in s : TRUE}]
      <4>1. k[s] = F(k)[s] BY <1>4
      <4>2. F(k)[s] = IF s = {} THEN 0
                      ELSE f[CHOOSE x \in s : TRUE] + k[s \ {CHOOSE x \in s : TRUE}]
        OBVIOUS
      <4> HIDE DEF F
      <4> QED BY <4>1, <4>2
    <3>2. s # {} => k[s \ {CHOOSE x \in s : TRUE}] = g[s \ {CHOOSE x \in s : TRUE}]
      <4>1. s # {} => /\ s \ {CHOOSE x \in s : TRUE} \in SUBSET s
                      /\ s \ {CHOOSE x \in s : TRUE} # s
        OBVIOUS
      <4> QED BY <4>1, <2>1
    <3> HIDE DEF F
    <3> QED BY <3>1, <3>2, <1>2
  <2>2. SUBSET S \subseteq Good
    <3> HIDE DEF Good
    <3> QED BY <2>1, SubsetInduction
  <2> QED BY <2>2
<1>5. SumFunction(f) = g[S]
  <2> DEFINE k0 == CHOOSE k : k = F(k)
  <2>1. k0 = F(k0)
    <3> HIDE DEF F
    <3> QED BY <1>3
  <2>2. SumFunction(f) = k0[S]
    BY <1>0 DEF SumFunction, SumFunctionOnSet, FoldFunctionOnSet, MapThenFoldSet
  <2> HIDE DEF k0, F
  <2> QED BY <2>1, <2>2, <1>4
<1> QED BY <1>1, <1>5

\* A sum does not depend on the order of its terms.
LEMMA SummingRemove ==
  ASSUME NEW S, NEW f, NEW g, Summing(g, f, S)
  PROVE  \A x \in S : g[S] = f[x] + g[S \ {x}]
<1>a. IsFiniteSet(S) /\ (\A x \in S : f[x] \in Int) /\ AddsUp(g, f, S)
  BY SummingAt DEF Summing
<1> DEFINE Good == {s \in SUBSET S : \A x \in s : g[s] = f[x] + g[s \ {x}]}
<1>0. ASSUME NEW s \in SUBSET S
      PROVE  /\ g[s] \in Int
             /\ s # {} => /\ Chosen(S)[s] \in s
                          /\ g[s] = f[Chosen(S)[s]] + g[s \ {Chosen(S)[s]}]
  <2> HIDE DEF Good
  <2> QED BY <1>a DEF AddsUp
<1>1. ASSUME NEW s \in SUBSET S, \A r \in SUBSET s : r # s => r \in Good
      PROVE  s \in Good
  <2> SUFFICES ASSUME NEW x \in s PROVE g[s] = f[x] + g[s \ {x}] OBVIOUS
  <2>1. PICK c \in s : g[s] = f[c] + g[s \ {c}]
    <3> HIDE DEF Good
    <3> QED BY <1>0
  <2>2. CASE x = c BY <2>1, <2>2
  <2>3. CASE x # c
    <3> DEFINE r == (s \ {c}) \ {x}
    <3>1. s \ {c} \in Good /\ s \ {x} \in Good BY <1>1
    <3>2. g[s \ {c}] = f[x] + g[r] BY <2>3, <3>1
    <3>3. (s \ {x}) \ {c} = r OBVIOUS
    <3>4. g[s \ {x}] = f[c] + g[r] BY <2>3, <3>1, <3>3
    <3>5. g[r] \in Int /\ f[x] \in Int /\ f[c] \in Int
      <4>1. r \in SUBSET S OBVIOUS
      <4> HIDE DEF Good, r
      <4> QED BY <1>0, <1>a, <4>1
    <3> HIDE DEF Good, r
    <3> QED BY <2>1, <3>2, <3>4, <3>5
  <2> QED BY <2>2, <2>3
<1>2. SUBSET S \subseteq Good
  <2> HIDE DEF Good
  <2> QED BY <1>1, <1>a, SubsetInduction
<1> QED BY <1>2

\* A sum changes with a term by what that term changes ...
LEMMA SumChange ==
  ASSUME NEW S, IsFiniteSet(S), NEW f \in [S -> Int], NEW e \in [S -> Int], NEW y \in S,
         \A x \in S \ {y} : f[x] = e[x]
  PROVE  /\ SumFunction(f) \in Int
         /\ SumFunction(e) = SumFunction(f) - f[y] + e[y]
<1>1. PICK g : Summing(g, f, S) /\ SumFunction(f) = g[S] BY SumIs
<1>2. PICK h : Summing(h, e, S) /\ SumFunction(e) = h[S] BY SumIs
<1> DEFINE U == S \ {y}
<1>3. g[U] = h[U]
  <2> DEFINE base == 0
             step == Plus
             pick == Chosen(S)
  <2>1. /\ Builds(g, base, step, pick, f, S) /\ Builds(h, base, step, pick, e, S)
        /\ Picks(pick, U) /\ IsFiniteSet(U) /\ U \subseteq S /\ \A x \in U : f[x] = e[x]
    BY <1>1, <1>2, ChosenPicks, FS_Subset DEF Summing, Picks
  <2> HIDE DEF base, step, pick, U
  <2> QED BY <2>1, BuildsSame
<1>4. g[S] = f[y] + g[U] /\ h[S] = e[y] + h[U]
  <2>1. g[S] = f[y] + g[U]
    <3>1. \A x \in S : g[S] = f[x] + g[S \ {x}] BY <1>1, SummingRemove
    <3> QED BY <3>1
  <2>2. h[S] = e[y] + h[U]
    <3>1. \A x \in S : h[S] = e[x] + h[S \ {x}] BY <1>2, SummingRemove
    <3> QED BY <3>1
  <2> QED BY <2>1, <2>2
<1>5. g[S] \in Int /\ g[U] \in Int /\ f[y] \in Int /\ e[y] \in Int
  <2>1. AddsUp(g, f, S) BY <1>1, SummingAt
  <2> QED BY <2>1 DEF AddsUp
<1> HIDE DEF U
<1> QED BY <1>1, <1>2, <1>3, <1>4, <1>5

\* ... and equal terms are multiplied.
LEMMA SumConst ==
  ASSUME NEW S, IsFiniteSet(S), NEW f \in [S -> Int], NEW k \in Int, \A x \in S : f[x] = k
  PROVE  SumFunction(f) = k * Cardinality(S)
<1>1. PICK g : Summing(g, f, S) /\ SumFunction(f) = g[S] BY SumIs
<1>2. AddsUp(g, f, S) BY <1>1, SummingAt
<1> DEFINE Good == {s \in SUBSET S : g[s] = k * Cardinality(s)}
<1>3. ASSUME NEW s \in SUBSET S, \A r \in SUBSET s : r # s => r \in Good
      PROVE  s \in Good
  <2>1. IsFiniteSet(s) BY FS_Subset
  <2>2. CASE s = {}
    <3>1. g[s] = 0 BY <1>2, <2>2 DEF AddsUp
    <3>2. Cardinality(s) = 0 BY <2>2, FS_EmptySet
    <3> QED BY <3>1, <3>2
  <2>3. CASE s # {}
    <3>1. PICK c \in s : g[s] = f[c] + g[s \ {c}] BY <1>2, <2>3 DEF AddsUp
    <3>2. s \ {c} \in Good BY <1>3
    <3>3. Cardinality(s \ {c}) = Cardinality(s) - 1 /\ Cardinality(s) \in Nat
      BY <2>1, FS_RemoveElement, FS_CardinalityType
    <3> PICK n \in Nat : n = Cardinality(s) BY <3>3
    <3>4. g[s] = k + k * (n - 1) BY <3>1, <3>2, <3>3
    <3>5. k + k * (n - 1) = k * n OBVIOUS
    <3> QED BY <3>4, <3>5
  <2> QED BY <2>2, <2>3
<1>4. SUBSET S \subseteq Good
  <2> HIDE DEF Good
  <2> QED BY <1>3, SubsetInduction
<1>5. S \in Good BY <1>4
<1> QED BY <1>1, <1>5

(***************************************************************************)
(* The fees, the royalties and the coins                                   *)
(***************************************************************************)
\* How many of the events of q are of a kind.
OfKind(q, kind) == {k \in DOMAIN q : q[k].kind = kind}

Grown(q, e, r) == q \in Seq(Events) /\ e \in Events /\ r = Append(q, e)

LEMMA CountGrows ==
  ASSUME NEW q, NEW e, NEW r, Grown(q, e, r), NEW kind
  PROVE  /\ Cardinality(OfKind(q, kind)) \in Nat
         /\ e.kind = kind => Cardinality(OfKind(r, kind)) = Cardinality(OfKind(q, kind)) + 1
         /\ e.kind # kind => Cardinality(OfKind(r, kind)) = Cardinality(OfKind(q, kind))
<1>0. q \in Seq(Events) /\ e \in Events /\ r = Append(q, e) BY DEF Grown
<1>1. Len(q) \in Nat /\ DOMAIN q = 1 .. Len(q) BY <1>0
<1> PICK n \in Nat : n = Len(q) BY <1>1
<1>2. DOMAIN r = (1 .. n) \cup {n + 1} /\ r[n + 1] = e /\ \A k \in 1 .. n : r[k] = q[k]
  <2>1. /\ Append(q, e) \in Seq(Events) /\ Len(Append(q, e)) = Len(q) + 1
        /\ \A k \in 1 .. Len(q) : Append(q, e)[k] = q[k]
        /\ Append(q, e)[Len(q) + 1] = e
    BY <1>0, AppendProperties
  <2>2. DOMAIN r = 1 .. n + 1 BY <1>0, <2>1
  <2>3. 1 .. n + 1 = (1 .. n) \cup {n + 1} OBVIOUS
  <2> QED BY <1>0, <2>1, <2>2, <2>3
<1>3. IsFiniteSet(OfKind(q, kind)) /\ n + 1 \notin OfKind(q, kind)
  <2>1. IsFiniteSet(1 .. n) BY FS_Interval
  <2>2. OfKind(q, kind) \subseteq 1 .. n BY <1>1 DEF OfKind
  <2>3. n + 1 \notin 1 .. n OBVIOUS
  <2> QED BY <2>1, <2>2, <2>3, FS_Subset
<1>4. CASE e.kind = kind
  <2>1. OfKind(r, kind) = OfKind(q, kind) \cup {n + 1} BY <1>1, <1>2, <1>4 DEF OfKind
  <2>2. Cardinality(OfKind(q, kind) \cup {n + 1}) = Cardinality(OfKind(q, kind)) + 1
    BY <1>3, FS_AddElement
  <2> QED BY <1>3, <1>4, <2>1, <2>2, FS_CardinalityType
<1>5. CASE e.kind # kind
  <2>1. OfKind(r, kind) = OfKind(q, kind) BY <1>1, <1>2, <1>5 DEF OfKind
  <2>2. Cardinality(OfKind(q, kind)) \in Nat BY <1>3, FS_CardinalityType
  <2> QED BY <1>5, <2>1, <2>2
<1> QED BY <1>4, <1>5

\* Each listing paid its fee, each sale its royalty, and the coins are those
\* the wallets came with.
Total(c) == c.treasury + c.royalties + SumFunction(c.purse) + SumFunction(c.profits)
MoneyInv ==
  /\ coins.treasury = LISTING_FEE_MIST * Cardinality(OfKind(log, "listed"))
  /\ coins.royalties >= ROYALTY_MIN_MIST * Cardinality(OfKind(log, "bought"))
  /\ Total(coins) = Funds * Cardinality(Wallets)

LEMMA MoneySame == MoneyInv /\ UNCHANGED <<log, coins>> => MoneyInv'
BY DEF MoneyInv

LEMMA MoneyInit == ASSUME IsFiniteSet(Wallets) PROVE Init => MoneyInv
<1> SUFFICES ASSUME Init PROVE MoneyInv OBVIOUS
<1>0. {Funds, LISTING_FEE_MIST, ROYALTY_MIN_MIST} \subseteq Nat BY MarketAssumption
<1>1. Cardinality(OfKind(log, "listed")) = 0 /\ Cardinality(OfKind(log, "bought")) = 0
  <2>1. log = << >> BY DEF Init
  <2>2. OfKind(<< >>, "listed") = {} /\ OfKind(<< >>, "bought") = {} BY DEF OfKind
  <2> QED BY <2>1, <2>2, FS_EmptySet
<1> DEFINE f == [w \in Wallets |-> Funds]
           e == [w \in Wallets |-> 0]
<1>2. /\ coins.purse = f /\ coins.profits = e /\ coins.treasury = 0 /\ coins.royalties = 0
  BY DEF Init
<1>3. /\ f \in [Wallets -> Int] /\ e \in [Wallets -> Int]
      /\ \A w \in Wallets : f[w] = Funds /\ e[w] = 0
  BY <1>0
<1> PICK n \in Nat : n = Cardinality(Wallets) BY FS_CardinalityType
<1> HIDE DEF f, e
<1>4. SumFunction(f) = Funds * n BY <1>0, <1>3, SumConst
<1>5. SumFunction(e) = 0 * n BY <1>3, SumConst
<1>6. Funds * n \in Int /\ 0 * n = 0 BY <1>0
<1>7. Total(coins) = Funds * n BY <1>2, <1>4, <1>5, <1>6 DEF Total
<1>8. LISTING_FEE_MIST * 0 = 0 /\ ROYALTY_MIN_MIST * 0 = 0 BY <1>0
<1> QED BY <1>1, <1>2, <1>7, <1>8 DEF MoneyInv

\* An event costs what it has to, and coins only change hands.
LEMMA MoneyGrows ==
  ASSUME Typed, MoneyInv, NEW e \in Events, log' = Append(log, e), coins' \in Coffers,
         coins'.treasury = coins.treasury + (IF e.kind = "listed" THEN LISTING_FEE_MIST ELSE 0),
         coins'.royalties >= coins.royalties + (IF e.kind = "bought" THEN ROYALTY_MIN_MIST ELSE 0),
         Total(coins') = Total(coins)
  PROVE  MoneyInv'
<1>0. /\ LISTING_FEE_MIST \in Nat /\ ROYALTY_MIN_MIST \in Nat /\ log \in Seq(Events)
      /\ coins.treasury \in Nat /\ coins.royalties \in Nat
      /\ coins'.treasury \in Nat /\ coins'.royalties \in Nat
  BY MarketAssumption DEF Typed, ChainTyped, Coffers
<1>1. ASSUME NEW kind
      PROVE  /\ Cardinality(OfKind(log, kind)) \in Nat
             /\ e.kind = kind =>
                  Cardinality(OfKind(log', kind)) = Cardinality(OfKind(log, kind)) + 1
             /\ e.kind # kind =>
                  Cardinality(OfKind(log', kind)) = Cardinality(OfKind(log, kind))
  <2>1. Grown(log, e, log') BY <1>0 DEF Grown
  <2> QED BY <2>1, CountGrows
<1> PICK n \in Nat : n = Cardinality(OfKind(log, "listed")) BY <1>1
<1> PICK m \in Nat : m = Cardinality(OfKind(log, "bought")) BY <1>1
<1>2. coins'.treasury = LISTING_FEE_MIST * Cardinality(OfKind(log', "listed"))
  <2>1. coins.treasury = LISTING_FEE_MIST * n BY DEF MoneyInv
  <2>2. /\ e.kind = "listed" => Cardinality(OfKind(log', "listed")) = n + 1
        /\ e.kind # "listed" => Cardinality(OfKind(log', "listed")) = n
    BY <1>1
  <2>3. LISTING_FEE_MIST * (n + 1) = LISTING_FEE_MIST * n + LISTING_FEE_MIST
        /\ LISTING_FEE_MIST * n \in Nat
    BY <1>0
  <2>4. CASE e.kind = "listed" BY <2>1, <2>2, <2>3, <2>4
  <2>5. CASE e.kind # "listed" BY <2>1, <2>2, <2>3, <2>5
  <2> QED BY <2>4, <2>5
<1>3. coins'.royalties >= ROYALTY_MIN_MIST * Cardinality(OfKind(log', "bought"))
  <2>1. coins.royalties >= ROYALTY_MIN_MIST * m BY DEF MoneyInv
  <2>2. /\ e.kind = "bought" => Cardinality(OfKind(log', "bought")) = m + 1
        /\ e.kind # "bought" => Cardinality(OfKind(log', "bought")) = m
    BY <1>1
  <2>3. ROYALTY_MIN_MIST * (m + 1) = ROYALTY_MIN_MIST * m + ROYALTY_MIN_MIST
        /\ ROYALTY_MIN_MIST * m \in Nat
    BY <1>0
  <2>4. CASE e.kind = "bought" BY <1>0, <2>1, <2>2, <2>3, <2>4
  <2>5. CASE e.kind # "bought" BY <1>0, <2>1, <2>2, <2>3, <2>5
  <2> QED BY <2>4, <2>5
<1> QED BY <1>2, <1>3 DEF MoneyInv

\* The steps that move coins keep their sum.
LEMMA TotalChange ==
  ASSUME IsFiniteSet(Wallets), NEW c \in Coffers, NEW d \in Coffers,
         NEW w \in Wallets, NEW s \in Wallets, NEW a \in Int, NEW b \in Int,
         d.purse = [c.purse EXCEPT ![w] = a], d.profits = [c.profits EXCEPT ![s] = b],
         d.treasury + d.royalties + a + b =
           c.treasury + c.royalties + c.purse[w] + c.profits[s]
  PROVE  Total(d) = Total(c)
<1>1. /\ c.purse \in [Wallets -> Int] /\ d.purse \in [Wallets -> Int]
      /\ c.profits \in [Wallets -> Int] /\ d.profits \in [Wallets -> Int]
      /\ c.treasury \in Int /\ c.royalties \in Int /\ d.treasury \in Int /\ d.royalties \in Int
  BY DEF Coffers
<1>2. /\ \A x \in Wallets \ {w} : c.purse[x] = d.purse[x]
      /\ d.purse[w] = a
  BY <1>1
<1>3. /\ \A x \in Wallets \ {s} : c.profits[x] = d.profits[x]
      /\ d.profits[s] = b
  BY <1>1
<1>4. /\ SumFunction(c.purse) \in Int
      /\ SumFunction(d.purse) = SumFunction(c.purse) - c.purse[w] + a
  BY <1>1, <1>2, SumChange
<1>5. /\ SumFunction(c.profits) \in Int
      /\ SumFunction(d.profits) = SumFunction(c.profits) - c.profits[s] + b
  BY <1>1, <1>3, SumChange
<1>6. c.purse[w] \in Int /\ c.profits[s] \in Int BY <1>1
<1> PICK p \in Int : p = SumFunction(c.purse) BY <1>4
<1> PICK q \in Int : q = SumFunction(c.profits) BY <1>5
<1> PICK x \in Int : x = c.purse[w] BY <1>6
<1> PICK y \in Int : y = c.profits[s] BY <1>6
<1>7. SumFunction(d.purse) = p - x + a /\ SumFunction(d.profits) = q - y + b BY <1>4, <1>5
<1>8. d.treasury + d.royalties + (p - x + a) + (q - y + b) = c.treasury + c.royalties + p + q
  BY <1>1
<1> QED BY <1>7, <1>8 DEF Total

LEMMA ListMoney ==
  ASSUME Typed, IsFiniteSet(Wallets), MoneyInv, NEW w \in Wallets, list_item(w)
  PROVE  MoneyInv'
<1> DEFINE i == tx[w].item
           p == tx[w].price
           e == Event("listed", i, w, p)
<1>1. e \in Events /\ e.kind = "listed" /\ log' = Append(log, e)
  <2>1. i \in Items /\ p \in Prices BY RunsTyped DEF list_item
  <2>2. e \in Events /\ e.kind = "listed" BY <2>1 DEF Event, Events, Kinds
  <2>3. log' = Append(log, e) BY DEF list_item
  <2> QED BY <2>2, <2>3
<1> HIDE DEF i, p, e
<1>2. /\ coins' \in Coffers
      /\ coins.purse[w] - LISTING_FEE_MIST \in Nat
      /\ coins'.purse = [coins.purse EXCEPT ![w] = coins.purse[w] - LISTING_FEE_MIST]
      /\ coins'.profits = coins.profits /\ coins'.royalties = coins.royalties
      /\ coins'.treasury = coins.treasury + LISTING_FEE_MIST
  BY ListCoins
<1>3. /\ coins \in Coffers /\ LISTING_FEE_MIST \in Nat /\ coins.purse[w] \in Nat
      /\ coins.profits \in [Wallets -> Nat] /\ coins.profits[w] \in Nat
      /\ coins.treasury \in Nat /\ coins.royalties \in Nat
  BY MarketAssumption DEF Typed, Coffers
<1>4. Total(coins') = Total(coins)
  <2> PICK a \in Int : a = coins.purse[w] - LISTING_FEE_MIST BY <1>2
  <2> PICK b \in Int : b = coins.profits[w] BY <1>3
  <2> PICK c \in Coffers : c = coins BY <1>3
  <2> PICK d \in Coffers : d = coins' BY <1>2
  <2>1. d.purse = [c.purse EXCEPT ![w] = a] /\ d.profits = [c.profits EXCEPT ![w] = b]
    BY <1>2, <1>3
  <2>2. d.treasury + d.royalties + a + b = c.treasury + c.royalties + c.purse[w] + c.profits[w]
    BY <1>2, <1>3
  <2>3. Total(d) = Total(c) BY <2>1, <2>2, TotalChange
  <2> QED BY <2>3
<1>5. /\ coins'.treasury =
           coins.treasury + (IF e.kind = "listed" THEN LISTING_FEE_MIST ELSE 0)
      /\ coins'.royalties >=
           coins.royalties + (IF e.kind = "bought" THEN ROYALTY_MIN_MIST ELSE 0)
  BY <1>1, <1>2, <1>3
<1> QED BY <1>1, <1>2, <1>4, <1>5, MoneyGrows

LEMMA DelistMoney ==
  ASSUME Typed, MoneyInv, NEW w \in Wallets, delist_item(w)
  PROVE  MoneyInv'
<1> DEFINE i == tx[w].item
           e == Event("delisted", i, w, None)
<1>1. e \in Events /\ e.kind = "delisted" /\ log' = Append(log, e)
  <2>1. i \in Items BY RunsTyped DEF delist_item
  <2>2. e \in Events /\ e.kind = "delisted" BY <2>1 DEF Event, Events, Kinds
  <2>3. log' = Append(log, e) BY DEF delist_item
  <2> QED BY <2>2, <2>3
<1> HIDE DEF i, e
<1>2. /\ coins' = coins /\ coins' \in Coffers
      /\ coins.treasury \in Nat /\ coins.royalties \in Nat
  BY DEF delist_item, Typed, Coffers
<1>3. /\ coins'.treasury =
           coins.treasury + (IF e.kind = "listed" THEN LISTING_FEE_MIST ELSE 0)
      /\ coins'.royalties >=
           coins.royalties + (IF e.kind = "bought" THEN ROYALTY_MIN_MIST ELSE 0)
  BY <1>1, <1>2
<1>4. Total(coins') = Total(coins) BY <1>2
<1> QED BY <1>1, <1>2, <1>3, <1>4, MoneyGrows

LEMMA BuyMoney ==
  ASSUME Typed, IsFiniteSet(Wallets), MoneyInv, NEW w \in Wallets, buy_item(w)
  PROVE  MoneyInv'
<1> PICK p : p = tx[w].price OBVIOUS
<1> PICK s : s = tx[w].seller OBVIOUS
<1> DEFINE i == tx[w].item
           e == Event("bought", i, w, p)
<1>1. e \in Events /\ e.kind = "bought" /\ log' = Append(log, e)
  <2>1. i \in Items /\ p \in Prices BY RunsTyped DEF buy_item
  <2>2. e \in Events /\ e.kind = "bought" BY <2>1 DEF Event, Events, Kinds
  <2>3. log' = Append(log, e) BY DEF buy_item
  <2> QED BY <2>2, <2>3
<1> HIDE DEF i, e
<1>2. /\ coins' \in Coffers /\ p \in Nat /\ s \in Wallets
      /\ coins.purse[w] - p - amount(p) \in Nat
      /\ coins'.purse = [coins.purse EXCEPT ![w] = coins.purse[w] - p - amount(p)]
      /\ coins'.profits = [coins.profits EXCEPT ![s] = coins.profits[s] + p]
      /\ coins'.royalties = coins.royalties + amount(p)
      /\ coins'.treasury = coins.treasury
  BY BuyCoins
<1>3. /\ coins \in Coffers /\ ROYALTY_MIN_MIST \in Nat /\ coins.purse[w] \in Nat
      /\ coins.profits[s] \in Nat
      /\ coins.treasury \in Nat /\ coins.royalties \in Nat
  BY <1>2, MarketAssumption DEF Typed, Coffers
<1> PICK fee \in Nat : fee = amount(p) /\ fee >= ROYALTY_MIN_MIST BY <1>2, AmountIsNat
<1>4. Total(coins') = Total(coins)
  <2> PICK a \in Int : a = coins.purse[w] - p - fee BY <1>2
  <2> PICK b \in Int : b = coins.profits[s] + p BY <1>2, <1>3
  <2> PICK c \in Coffers : c = coins BY <1>3
  <2> PICK d \in Coffers : d = coins' BY <1>2
  <2>1. d.purse = [c.purse EXCEPT ![w] = a] /\ d.profits = [c.profits EXCEPT ![s] = b]
    BY <1>2
  <2>2. d.treasury + d.royalties + a + b = c.treasury + c.royalties + c.purse[w] + c.profits[s]
    BY <1>2, <1>3
  <2>3. Total(d) = Total(c) BY <1>2, <2>1, <2>2, TotalChange
  <2> QED BY <2>3
<1>5. /\ coins'.treasury =
           coins.treasury + (IF e.kind = "listed" THEN LISTING_FEE_MIST ELSE 0)
      /\ coins'.royalties >=
           coins.royalties + (IF e.kind = "bought" THEN ROYALTY_MIN_MIST ELSE 0)
  BY <1>1, <1>2, <1>3
<1> QED BY <1>1, <1>2, <1>4, <1>5, MoneyGrows

LEMMA WithdrawMoney ==
  ASSUME Typed, IsFiniteSet(Wallets), MoneyInv, NEW w \in Wallets, withdrawAllProfits(w)
  PROVE  MoneyInv'
<1>1. log' = log BY DEF withdrawAllProfits
<1>2. /\ coins' \in Coffers
      /\ coins'.purse = [coins.purse EXCEPT ![w] = coins.purse[w] + coins.profits[w]]
      /\ coins'.profits = [coins.profits EXCEPT ![w] = 0]
      /\ coins'.royalties = coins.royalties /\ coins'.treasury = coins.treasury
  BY WithdrawCoins
<1>3. /\ coins \in Coffers /\ coins.purse[w] \in Nat /\ coins.profits[w] \in Nat
      /\ coins.treasury \in Nat /\ coins.royalties \in Nat
  BY DEF Typed, Coffers
<1>4. Total(coins') = Total(coins)
  <2> PICK a \in Int : a = coins.purse[w] + coins.profits[w] BY <1>3
  <2> PICK b \in Int : b = 0 OBVIOUS
  <2> PICK c \in Coffers : c = coins BY <1>3
  <2> PICK d \in Coffers : d = coins' BY <1>2
  <2>1. d.purse = [c.purse EXCEPT ![w] = a] /\ d.profits = [c.profits EXCEPT ![w] = b]
    BY <1>2
  <2>2. d.treasury + d.royalties + a + b = c.treasury + c.royalties + c.purse[w] + c.profits[w]
    BY <1>2, <1>3
  <2>3. Total(d) = Total(c) BY <2>1, <2>2, TotalChange
  <2> QED BY <2>3
<1> QED BY <1>1, <1>2, <1>4 DEF MoneyInv

LEMMA MoneyStep ==
  ASSUME IsFiniteSet(Wallets)
  PROVE  Typed /\ MoneyInv /\ [Next]_vars => MoneyInv'
<1> SUFFICES ASSUME Typed, MoneyInv, [Next]_vars PROVE MoneyInv' OBVIOUS
<1>1. CASE IndexNext \/ PageNext
  <2>1. UNCHANGED <<log, coins>>
    BY <1>1
    DEF IndexNext, ReadPage, HandlePageEvent, ColdSyncDone, FillDone, QueryFails,
        StreamOpens, StreamEvent, StreamEnds, Reconnects, Restart, Elsewhere, chainVars,
        PageNext, SignDelist, SignBuy, Sign, Connect, Disconnect, handleGetMarketplace,
        MessageArrives
  <2> QED BY <2>1, MoneySame
<1>2. CASE UNCHANGED vars BY <1>2, MoneySame DEF vars
<1>3. ASSUME NEW w \in Wallets,
             \/ create_or_get_player_kiosk(w) \/ SignList(w) \/ SignRetrieve(w)
             \/ TxFails(w) \/ Retrieve(w)
      PROVE  MoneyInv'
  <2>1. UNCHANGED <<log, coins>>
    BY <1>3
    DEF create_or_get_player_kiosk, SignList, SignRetrieve, TxFails, Retrieve, Sign, chainVars
  <2> QED BY <2>1, MoneySame
<1>4. ASSUME NEW w \in Wallets,
             list_item(w) \/ delist_item(w) \/ buy_item(w) \/ withdrawAllProfits(w)
      PROVE  MoneyInv'
  BY <1>4, ListMoney, DelistMoney, BuyMoney, WithdrawMoney
<1> QED BY <1>1, <1>2, <1>3, <1>4 DEF Next, WalletNext

\* The events alone tell the market: what they say is for sale is what the
\* kiosks offer, a listed item is in its seller's kiosk, each listing paid its
\* fee and each sale its royalty, and no coin is made or lost.
\* (marketplace.move list_item, delist_item, buy_item; royalty_rule.move amount)
THEOREM EventsTell == ASSUME IsFiniteSet(Wallets) PROVE Spec => []LogTellsTheMarket
<1>1. Typed /\ ChainInv /\ MoneyInv => LogTellsTheMarket
  <2> SUFFICES ASSUME Typed, ChainInv, MoneyInv PROVE LogTellsTheMarket OBVIOUS
  <2>1. After(Len(log)) = OnSale
    <3> DEFINE n == Len(log)
    <3>1. \A i \in Items : After(n)[i] = OnSale[i] BY AfterIsSaid DEF ChainInv
    <3>2. After(n) = [i \in Items |-> After(n)[i]] BY DEF After
    <3>3. OnSale = [i \in Items |-> OnSale[i]] BY DEF OnSale
    <3> HIDE DEF n
    <3>4. After(n) = OnSale BY <3>1, <3>2, <3>3
    <3> QED BY <3>4 DEF n
  <2>2. Count("listed") = Cardinality(OfKind(log, "listed"))
        /\ Count("bought") = Cardinality(OfKind(log, "bought"))
    BY DEF Count, OfKind
  <2> QED BY <2>1, <2>2 DEF LogTellsTheMarket, ChainInv, MoneyInv, Total
<1>2. Init => MoneyInv BY MoneyInit
<1>3. Typed /\ MoneyInv /\ [Next]_vars => MoneyInv' BY MoneyStep
<1> QED BY <1>1, <1>2, <1>3, SpecTyped, SpecChain, PTL DEF Spec
=============================================================================
