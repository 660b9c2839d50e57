-------------------------- MODULE FightRoomProofs --------------------------
(***************************************************************************)
(* Proofs about FightRoom, for any timers, budgets and bounds: types, that *)
(* a fight is always driven to its one end, that its turns are resolved in *)
(* order, and how absence is treated.                                      *)
(***************************************************************************)
EXTENDS FightRoom, SequenceTheorems, TLAPS

(***************************************************************************)
(* Bags of timers                                                          *)
(***************************************************************************)
Timers(b, max) == b \in [DOMAIN b -> {n \in Nat : n > 0}] /\ DOMAIN b \subseteq 0 .. max

LEMMA EmptyTimers == ASSUME NEW max \in Nat PROVE Timers(EmptyBag, max) /\ DOMAIN EmptyBag = {}
BY DEF Timers, EmptyBag, SetToBag

LEMMA NotEmpty == ASSUME NEW b, DOMAIN b # {} PROVE b # EmptyBag
BY DEF EmptyBag, SetToBag

LEMMA EmptyDomain == ASSUME NEW b, NEW max, Timers(b, max), DOMAIN b = {} PROVE b = EmptyBag
BY DEF EmptyBag, SetToBag, Timers

LEMMA AddTimer ==
  ASSUME NEW max \in Nat, NEW b, Timers(b, max), NEW d \in 0 .. max
  PROVE  /\ Timers(b (+) SetToBag({d}), max) /\ b (+) SetToBag({d}) # EmptyBag
         /\ b = EmptyBag => b (+) SetToBag({d}) = SetToBag({d})
<1>1. DOMAIN (b (+) SetToBag({d})) = DOMAIN b \cup {d} BY DEF (+), SetToBag
<1>2. \A e \in DOMAIN b \cup {d} :
        (b (+) SetToBag({d}))[e] = (IF e \in DOMAIN b THEN b[e] ELSE 0) + (IF e \in {d} THEN 1 ELSE 0)
  BY DEF (+), SetToBag
<1>3. \A e \in DOMAIN b : b[e] \in Nat /\ b[e] > 0 BY DEF Timers
<1>4. ASSUME NEW e \in DOMAIN b \cup {d}
      PROVE  (b (+) SetToBag({d}))[e] \in {n \in Nat : n > 0}
  <2> DEFINE old == IF e \in DOMAIN b THEN b[e] ELSE 0
             new == IF e \in {d} THEN 1 ELSE 0
  <2>1. old \in Nat /\ new \in Nat /\ (old > 0 \/ new > 0) BY <1>3
  <2>2. (b (+) SetToBag({d}))[e] = old + new BY <1>2
  <2> HIDE DEF old, new
  <2> QED BY <2>1, <2>2
<1>5. b (+) SetToBag({d}) =
        [e \in DOMAIN b \cup DOMAIN SetToBag({d}) |->
           (IF e \in DOMAIN b THEN b[e] ELSE 0)
             + (IF e \in DOMAIN SetToBag({d}) THEN SetToBag({d})[e] ELSE 0)]
  BY DEF (+)
<1>6. Timers(b (+) SetToBag({d}), max)
  <2> DEFINE c == b (+) SetToBag({d})
  <2>1. c \in [DOMAIN c -> {n \in Nat : n > 0}] BY <1>1, <1>4, <1>5
  <2> QED BY <1>1, <2>1 DEF Timers
<1>7. b (+) SetToBag({d}) # EmptyBag BY <1>1, NotEmpty
<1>8. ASSUME b = EmptyBag PROVE b (+) SetToBag({d}) = SetToBag({d})
  BY <1>8, EmptyTimers DEF (+), SetToBag
<1> QED BY <1>6, <1>7, <1>8

LEMMA TakeTimer ==
  ASSUME NEW max \in Nat, NEW b, Timers(b, max), BagIn(0, b)
  PROVE  /\ Timers(b (-) SetToBag({0}), max)
         /\ \A d : b = SetToBag({d}) => b (-) SetToBag({0}) = EmptyBag
<1>1. \A e \in DOMAIN b : b[e] \in Nat /\ b[e] > 0 BY DEF Timers
<1> DEFINE c == [e \in DOMAIN b |-> IF e \in {0} THEN b[e] - 1 ELSE b[e]]
<1>2. b (-) SetToBag({0}) = [e \in {d \in DOMAIN b : c[d] > 0} |-> c[e]]
  BY DEF (-), SetToBag
<1>3. \A e \in DOMAIN b : c[e] \in Nat BY <1>1
<1> HIDE DEF c
<1>4. Timers(b (-) SetToBag({0}), max) BY <1>2, <1>3 DEF Timers
<1>5. ASSUME NEW d, b = SetToBag({d}) PROVE b (-) SetToBag({0}) = EmptyBag
  <2>1. DOMAIN b = {0} /\ b[0] = 1 BY <1>5 DEF BagIn, BagToSet, SetToBag
  <2>2. c[0] = 0 BY <2>1 DEF c
  <2>3. {e \in DOMAIN b : c[e] > 0} = {} BY <2>1, <2>2
  <2> QED BY <1>2, <2>3 DEF EmptyBag, SetToBag
<1> QED BY <1>4, <1>5

LEMMA CountdownTimers ==
  ASSUME NEW max \in Nat, NEW b, Timers(b, max), ~BagIn(0, b)
  PROVE  /\ Timers(Countdown(b), max)
         /\ b # EmptyBag => Countdown(b) # EmptyBag
         /\ b = EmptyBag => Countdown(b) = EmptyBag
         /\ \A d \in 0 .. max : b = SetToBag({d}) =>
              d - 1 \in 0 .. max /\ Countdown(b) = SetToBag({d - 1})
<1>1. \A e \in DOMAIN b : e \in 0 .. max /\ e # 0 /\ b[e] \in Nat /\ b[e] > 0
  BY DEF Timers, BagIn, BagToSet
<1>2. DOMAIN Countdown(b) = {d - 1 : d \in DOMAIN b}
      /\ Countdown(b) = [c \in {d - 1 : d \in DOMAIN b} |-> b[c + 1]]
  BY DEF Countdown
<1>3. ASSUME NEW c \in {d - 1 : d \in DOMAIN b}
      PROVE  c \in 0 .. max /\ b[c + 1] \in Nat /\ b[c + 1] > 0
  <2>1. PICK d \in DOMAIN b : c = d - 1 OBVIOUS
  <2>2. c + 1 = d /\ c \in 0 .. max BY <1>1, <2>1
  <2> QED BY <1>1, <2>1, <2>2
<1>4. Timers(Countdown(b), max) BY <1>2, <1>3 DEF Timers
<1>5. ASSUME b # EmptyBag PROVE Countdown(b) # EmptyBag
  <2>1. PICK d : d \in DOMAIN b BY <1>5, EmptyDomain
  <2>2. d - 1 \in DOMAIN Countdown(b) BY <1>2, <2>1
  <2> QED BY <2>2, NotEmpty
<1>6. ASSUME b = EmptyBag PROVE Countdown(b) = EmptyBag
  <2>1. DOMAIN b = {} BY <1>6, EmptyTimers
  <2>2. DOMAIN Countdown(b) = {} BY <1>2, <2>1
  <2> QED BY <1>4, <2>2, EmptyDomain
<1>7. ASSUME NEW d \in 0 .. max, b = SetToBag({d})
      PROVE  d - 1 \in 0 .. max /\ Countdown(b) = SetToBag({d - 1})
  <2>1. DOMAIN b = {d} /\ b[d] = 1 BY <1>7 DEF SetToBag
  <2>2. d - 1 \in 0 .. max /\ (d - 1) + 1 = d BY <1>1, <2>1
  <2>3. {x - 1 : x \in DOMAIN b} = {d - 1} BY <2>1
  <2> QED BY <1>2, <2>1, <2>2, <2>3 DEF SetToBag
<1> QED BY <1>4, <1>5, <1>6, <1>7

(***************************************************************************)
(* The fields of a fight, and what the functions of the code do to them    *)
(***************************************************************************)
Fields == {"type", "status", "turn", "turnActions", "disconnectedWallets", "turnPaused",
           "turnPausedRemainingMs", "turnTimer", "strayTimers", "gapTimers", "turnResults",
           "finishes"}

SameLife(f, g) == g.type = f.type /\ g.status = f.status /\ g.finishes = f.finishes
SameTurn(f, g) ==
  g.turn = f.turn /\ g.turnActions = f.turnActions /\ g.turnResults = f.turnResults
SamePause(f, g) ==
  g.turnPaused = f.turnPaused /\ g.turnPausedRemainingMs = f.turnPausedRemainingMs
SameTimers(f, g) ==
  g.turnTimer = f.turnTimer /\ g.strayTimers = f.strayTimers /\ g.gapTimers = f.gapTimers

LEMMA StartFields ==
  ASSUME NEW f, DOMAIN f = Fields
  PROVE  LET g == StartNextTurn(f)
             paused == f.disconnectedWallets # {}
         IN  /\ DOMAIN g = Fields /\ SameLife(f, g)
             /\ g.disconnectedWallets = f.disconnectedWallets
             /\ g.gapTimers = f.gapTimers /\ g.turnResults = f.turnResults
             /\ g.turn = f.turn + 1
             /\ g.turnActions = {} \/ g.turnActions = {PlayerB}
             /\ g.turnPaused = paused
             /\ g.turnPausedRemainingMs = IF paused THEN TURN_TIMER_MS ELSE 0
             /\ g.turnTimer = IF paused THEN None ELSE TURN_TIMER_MS
             /\ g.strayTimers = IF f.turnTimer = None THEN f.strayTimers
                                ELSE f.strayTimers (+) SetToBag({f.turnTimer})
BY DEF Fields, StartNextTurn, SameLife

LEMMA TurnOverFields ==
  ASSUME NEW f, DOMAIN f = Fields
  PROVE  /\ DOMAIN TurnOver(f) = Fields /\ SameLife(f, TurnOver(f)) /\ SameTurn(f, TurnOver(f))
         /\ TurnOver(f).disconnectedWallets = f.disconnectedWallets
         /\ TurnOver(f).strayTimers = f.strayTimers /\ TurnOver(f).gapTimers = f.gapTimers
         /\ TurnOver(f).turnTimer = None /\ TurnOver(f).turnPaused = FALSE
         /\ TurnOver(f).turnPausedRemainingMs = 0
BY DEF Fields, TurnOver, SameLife, SameTurn

LEMMA FinishFields ==
  ASSUME NEW f, DOMAIN f = Fields
  PROVE  /\ DOMAIN FinishFight(f) = Fields /\ SameTurn(f, FinishFight(f))
         /\ FinishFight(f).type = f.type /\ FinishFight(f).status = "finished"
         /\ FinishFight(f).finishes = f.finishes + 1
         /\ FinishFight(f).disconnectedWallets = f.disconnectedWallets
         /\ FinishFight(f).strayTimers = f.strayTimers
         /\ FinishFight(f).gapTimers = f.gapTimers
         /\ FinishFight(f).turnTimer = None /\ FinishFight(f).turnPaused = FALSE
         /\ FinishFight(f).turnPausedRemainingMs = 0
BY DEF Fields, FinishFight, TurnOver, SameTurn

LEMMA ResolveFields ==
  ASSUME NEW f, DOMAIN f = Fields, NEW ended \in BOOLEAN
  PROVE  LET g == ResolveFightTurn(f, ended)
         IN  /\ DOMAIN g = Fields /\ g.type = f.type
             /\ g.turn = f.turn /\ g.turnActions = f.turnActions
             /\ g.disconnectedWallets = f.disconnectedWallets /\ g.strayTimers = f.strayTimers
             /\ g.turnResults = Append(f.turnResults, f.turn)
             /\ \/ /\ g.status = "finished" /\ g.finishes = f.finishes + 1
                   /\ g.turnTimer = None /\ g.turnPaused = FALSE /\ g.turnPausedRemainingMs = 0
                   /\ g.gapTimers = f.gapTimers
                \/ /\ SameLife(f, g) /\ SamePause(f, g) /\ g.turnTimer = f.turnTimer
                   /\ g.gapTimers = f.gapTimers (+) SetToBag({TURN_GAP_MS})
<1> DEFINE h == [f EXCEPT !.turnResults = Append(@, f.turn)]
<1>1. /\ DOMAIN h = Fields /\ SameLife(f, h) /\ SamePause(f, h) /\ SameTimers(f, h)
      /\ h.turn = f.turn /\ h.turnActions = f.turnActions
      /\ h.disconnectedWallets = f.disconnectedWallets
      /\ h.turnResults = Append(f.turnResults, f.turn)
  BY DEF Fields, SameLife, SamePause, SameTimers
<1>2. ResolveFightTurn(f, ended) =
        IF ended THEN FinishFight(h) ELSE [h EXCEPT !.gapTimers = @ (+) SetToBag({TURN_GAP_MS})]
  BY DEF ResolveFightTurn
<1> HIDE DEF h
<1>3. CASE ended
  <2>1. ResolveFightTurn(f, ended) = FinishFight(h) BY <1>2, <1>3
  <2> DEFINE g == ResolveFightTurn(f, ended)
  <2>2. /\ DOMAIN g = Fields /\ SameTurn(h, g) /\ g.type = h.type /\ g.status = "finished"
        /\ g.finishes = h.finishes + 1 /\ g.disconnectedWallets = h.disconnectedWallets
        /\ g.strayTimers = h.strayTimers /\ g.gapTimers = h.gapTimers
        /\ g.turnTimer = None /\ g.turnPaused = FALSE /\ g.turnPausedRemainingMs = 0
    BY <1>1, <2>1, FinishFields
  <2> HIDE DEF g
  <2>3. /\ DOMAIN g = Fields /\ g.type = f.type /\ g.status = "finished"
        /\ g.finishes = f.finishes + 1 /\ g.disconnectedWallets = f.disconnectedWallets
        /\ g.turn = f.turn /\ g.turnActions = f.turnActions
        /\ g.turnResults = Append(f.turnResults, f.turn)
        /\ g.strayTimers = f.strayTimers /\ g.gapTimers = f.gapTimers
        /\ g.turnTimer = None /\ g.turnPaused = FALSE /\ g.turnPausedRemainingMs = 0
    BY <1>1, <2>2 DEF SameLife, SameTurn, SameTimers
  <2> QED BY <2>3 DEF g
<1>4. CASE ~ended
  <2>1. ResolveFightTurn(f, ended) = [h EXCEPT !.gapTimers = @ (+) SetToBag({TURN_GAP_MS})]
    BY <1>2, <1>4
  <2> DEFINE g == ResolveFightTurn(f, ended)
  <2>2. /\ DOMAIN g = Fields /\ SameLife(h, g) /\ SamePause(h, g) /\ SameTurn(h, g)
        /\ g.disconnectedWallets = h.disconnectedWallets /\ g.strayTimers = h.strayTimers
        /\ g.turnTimer = h.turnTimer
        /\ g.gapTimers = h.gapTimers (+) SetToBag({TURN_GAP_MS})
    BY <1>1, <2>1 DEF Fields, SameLife, SamePause, SameTurn
  <2> HIDE DEF g
  <2>3. /\ DOMAIN g = Fields /\ SameLife(f, g) /\ SamePause(f, g)
        /\ g.turn = f.turn /\ g.turnActions = f.turnActions
        /\ g.turnResults = Append(f.turnResults, f.turn)
        /\ g.disconnectedWallets = f.disconnectedWallets /\ g.strayTimers = f.strayTimers
        /\ g.turnTimer = f.turnTimer
        /\ g.gapTimers = f.gapTimers (+) SetToBag({TURN_GAP_MS})
    BY <1>1, <2>2 DEF SameLife, SamePause, SameTurn, SameTimers
  <2> QED BY <2>3 DEF g, SameLife
<1> QED BY <1>3, <1>4

LEMMA PauseFields ==
  ASSUME NEW f, DOMAIN f = Fields
  PROVE  LET g == PauseFightTimer(f)
         IN  \/ f.turnPaused /\ g = f
             \/ /\ ~f.turnPaused /\ DOMAIN g = Fields /\ SameLife(f, g) /\ SameTurn(f, g)
                /\ g.disconnectedWallets = f.disconnectedWallets
                /\ g.strayTimers = f.strayTimers /\ g.gapTimers = f.gapTimers
                /\ g.turnPaused = TRUE /\ g.turnPausedRemainingMs = RemainingMs(f)
                /\ g.turnTimer = None
BY DEF Fields, PauseFightTimer, SameLife, SameTurn

LEMMA ResumeFields ==
  ASSUME NEW f, DOMAIN f = Fields, f.turnPaused
  PROVE  LET g == ResumeFightTimer(f)
         IN  /\ DOMAIN g = Fields /\ SameLife(f, g) /\ SameTurn(f, g)
             /\ g.disconnectedWallets = f.disconnectedWallets
             /\ g.strayTimers = f.strayTimers /\ g.gapTimers = f.gapTimers
             /\ g.turnPaused = FALSE /\ g.turnPausedRemainingMs = 0
             /\ g.turnTimer = f.turnPausedRemainingMs
BY DEF Fields, ResumeFightTimer, SameLife, SameTurn

(***************************************************************************)
(* Types                                                                   *)
(***************************************************************************)
FightT(f) ==
  /\ DOMAIN f = Fields
  /\ f.type \in {"pvp", "bot"} /\ f.status \in {"creating", "active", "finished"}
  /\ f.turn \in Nat /\ f.finishes \in Nat
  /\ f.turnActions \subseteq Fighters /\ f.disconnectedWallets \subseteq Fighters
  /\ f.turnPaused \in BOOLEAN /\ f.turnPausedRemainingMs \in 0 .. TURN_TIMER_MS
  /\ f.turnTimer \in 0 .. TURN_TIMER_MS \cup {None}
  /\ Timers(f.strayTimers, TURN_TIMER_MS) /\ Timers(f.gapTimers, TURN_GAP_MS)
  /\ f.turnResults \in Seq(Nat)

GraceR == [active : BOOLEAN, elapsed : 0 .. GRACE_BUDGET_MS, usedMs : 0 .. GRACE_BUDGET_MS]
SessionR == [online : BOOLEAN, seat : BOOLEAN, authing : 0 .. MaxAuth]

Types ==
  /\ FightT(fight) /\ grace \in [Fighters -> GraceR] /\ session \in [Fighters -> SessionR]
  /\ seen \subseteq Events /\ away \in [Fighters -> Nat]

LEMMA StartTyped == ASSUME NEW f, FightT(f) PROVE FightT(StartNextTurn(f))
<1>1. DOMAIN f = Fields BY DEF FightT
<1> DEFINE g == StartNextTurn(f)
           paused == f.disconnectedWallets # {}
<1>2. /\ DOMAIN g = Fields /\ SameLife(f, g)
      /\ g.disconnectedWallets = f.disconnectedWallets
      /\ g.gapTimers = f.gapTimers /\ g.turnResults = f.turnResults /\ g.turn = f.turn + 1
      /\ g.turnActions = {} \/ g.turnActions = {PlayerB}
      /\ g.turnPaused = paused
      /\ g.turnPausedRemainingMs = IF paused THEN TURN_TIMER_MS ELSE 0
      /\ g.turnTimer = IF paused THEN None ELSE TURN_TIMER_MS
      /\ g.strayTimers = IF f.turnTimer = None THEN f.strayTimers
                         ELSE f.strayTimers (+) SetToBag({f.turnTimer})
  BY <1>1, StartFields
<1> HIDE DEF g
<1>3. Timers(g.strayTimers, TURN_TIMER_MS)
  <2>1. CASE f.turnTimer = None BY <1>2, <2>1 DEF FightT
  <2>2. CASE f.turnTimer # None
    <3>1. f.turnTimer \in 0 .. TURN_TIMER_MS BY <2>2 DEF FightT
    <3>2. Timers(f.strayTimers, TURN_TIMER_MS) /\ TURN_TIMER_MS \in Nat
      BY TimerAssumption DEF FightT
    <3>3. Timers(f.strayTimers (+) SetToBag({f.turnTimer}), TURN_TIMER_MS)
      BY <3>1, <3>2, AddTimer
    <3> QED BY <1>2, <2>2, <3>3
  <2> QED BY <2>1, <2>2
<1>4. /\ g.type \in {"pvp", "bot"} /\ g.status \in {"creating", "active", "finished"}
      /\ g.turn \in Nat /\ g.finishes \in Nat /\ Timers(g.gapTimers, TURN_GAP_MS)
      /\ g.turnResults \in Seq(Nat)
  BY <1>2 DEF FightT, SameLife
<1>5. /\ g.turnActions \subseteq Fighters /\ g.disconnectedWallets \subseteq Fighters
      /\ g.turnPaused \in BOOLEAN /\ g.turnPausedRemainingMs \in 0 .. TURN_TIMER_MS
      /\ g.turnTimer \in 0 .. TURN_TIMER_MS \cup {None}
  BY <1>2, TimerAssumption DEF FightT, Fighters
<1> QED BY <1>2, <1>3, <1>4, <1>5 DEF FightT, g

LEMMA TurnOverTyped == ASSUME NEW f, FightT(f) PROVE FightT(TurnOver(f))
<1>1. DOMAIN f = Fields BY DEF FightT
<1> DEFINE g == TurnOver(f)
<1>2. /\ DOMAIN g = Fields /\ SameLife(f, g) /\ SameTurn(f, g)
      /\ g.disconnectedWallets = f.disconnectedWallets
      /\ g.strayTimers = f.strayTimers /\ g.gapTimers = f.gapTimers
      /\ g.turnTimer = None /\ g.turnPaused = FALSE /\ g.turnPausedRemainingMs = 0
  BY <1>1, TurnOverFields
<1> HIDE DEF g
<1>b. g.turnPaused \in BOOLEAN BY <1>2
<1>t. 0 \in 0 .. TURN_TIMER_MS BY TimerAssumption
<1>3. FightT(g) BY <1>b, <1>t, <1>2 DEF FightT, SameLife, SameTurn
<1> QED BY <1>3 DEF g

LEMMA FinishTyped == ASSUME NEW f, FightT(f) PROVE FightT(FinishFight(f))
<1>1. DOMAIN f = Fields BY DEF FightT
<1> DEFINE g == FinishFight(f)
<1>2. /\ DOMAIN g = Fields /\ SameTurn(f, g)
      /\ g.type = f.type /\ g.status = "finished" /\ g.finishes = f.finishes + 1
      /\ g.disconnectedWallets = f.disconnectedWallets
      /\ g.strayTimers = f.strayTimers /\ g.gapTimers = f.gapTimers
      /\ g.turnTimer = None /\ g.turnPaused = FALSE /\ g.turnPausedRemainingMs = 0
  BY <1>1, FinishFields
<1> HIDE DEF g
<1>b. g.turnPaused \in BOOLEAN BY <1>2
<1>t. 0 \in 0 .. TURN_TIMER_MS BY TimerAssumption
<1>3. FightT(g) BY <1>b, <1>t, <1>2 DEF FightT, SameTurn
<1> QED BY <1>3 DEF g

LEMMA ResolveTyped ==
  ASSUME NEW f, FightT(f), NEW ended \in BOOLEAN
  PROVE  FightT(ResolveFightTurn(f, ended))
<1>1. DOMAIN f = Fields BY DEF FightT
<1> DEFINE g == ResolveFightTurn(f, ended)
<1>2. /\ DOMAIN g = Fields /\ g.type = f.type
      /\ g.turn = f.turn /\ g.turnActions = f.turnActions
      /\ g.disconnectedWallets = f.disconnectedWallets /\ g.strayTimers = f.strayTimers
      /\ g.turnResults = Append(f.turnResults, f.turn)
      /\ \/ /\ g.status = "finished" /\ g.finishes = f.finishes + 1
            /\ g.turnTimer = None /\ g.turnPaused = FALSE /\ g.turnPausedRemainingMs = 0
            /\ g.gapTimers = f.gapTimers
         \/ /\ SameLife(f, g) /\ SamePause(f, g) /\ g.turnTimer = f.turnTimer
            /\ g.gapTimers = f.gapTimers (+) SetToBag({TURN_GAP_MS})
  BY <1>1, ResolveFields
<1> HIDE DEF g
<1>3. g.turnResults \in Seq(Nat)
  <2>1. f.turnResults \in Seq(Nat) /\ f.turn \in Nat BY DEF FightT
  <2>2. Append(f.turnResults, f.turn) \in Seq(Nat) BY <2>1, AppendProperties
  <2> QED BY <1>2, <2>2
<1>4. Timers(f.gapTimers (+) SetToBag({TURN_GAP_MS}), TURN_GAP_MS)
  <2>1. Timers(f.gapTimers, TURN_GAP_MS) /\ TURN_GAP_MS \in Nat BY TimerAssumption DEF FightT
  <2> QED BY <2>1, AddTimer
<1>5. Timers(g.gapTimers, TURN_GAP_MS) BY <1>2, <1>4 DEF FightT
<1>6. /\ g.type \in {"pvp", "bot"} /\ g.turn \in Nat
      /\ g.turnActions \subseteq Fighters /\ g.disconnectedWallets \subseteq Fighters
      /\ Timers(g.strayTimers, TURN_TIMER_MS)
  BY <1>2 DEF FightT
<1>7. /\ g.status \in {"creating", "active", "finished"} /\ g.finishes \in Nat
      /\ g.turnPausedRemainingMs \in 0 .. TURN_TIMER_MS
      /\ g.turnTimer \in 0 .. TURN_TIMER_MS \cup {None}
  BY <1>2, TimerAssumption DEF FightT, SameLife, SamePause
<1>b. g.turnPaused \in BOOLEAN BY <1>2 DEF FightT, SamePause
<1>8. FightT(g) BY <1>2, <1>3, <1>5, <1>6, <1>7, <1>b DEF FightT
<1> QED BY <1>8 DEF g

LEMMA PauseTyped == ASSUME NEW f, FightT(f) PROVE FightT(PauseFightTimer(f))
<1>1. DOMAIN f = Fields BY DEF FightT
<1> DEFINE g == PauseFightTimer(f)
<1>2. \/ g = f
      \/ /\ DOMAIN g = Fields /\ SameLife(f, g) /\ SameTurn(f, g)
         /\ g.disconnectedWallets = f.disconnectedWallets
         /\ g.strayTimers = f.strayTimers /\ g.gapTimers = f.gapTimers
         /\ g.turnPaused = TRUE /\ g.turnPausedRemainingMs = RemainingMs(f)
         /\ g.turnTimer = None
  BY <1>1, PauseFields
<1>3. RemainingMs(f) \in 0 .. TURN_TIMER_MS BY TimerAssumption DEF RemainingMs, FightT
<1> HIDE DEF g
<1>4. FightT(g) BY <1>2, <1>3 DEF FightT, SameLife, SameTurn
<1> QED BY <1>4 DEF g

LEMMA ResumeTyped == ASSUME NEW f, FightT(f), f.turnPaused PROVE FightT(ResumeFightTimer(f))
<1>1. DOMAIN f = Fields BY DEF FightT
<1> DEFINE g == ResumeFightTimer(f)
<1>2. /\ DOMAIN g = Fields /\ SameLife(f, g) /\ SameTurn(f, g)
      /\ g.disconnectedWallets = f.disconnectedWallets
      /\ g.strayTimers = f.strayTimers /\ g.gapTimers = f.gapTimers
      /\ g.turnPaused = FALSE /\ g.turnPausedRemainingMs = 0
      /\ g.turnTimer = f.turnPausedRemainingMs
  BY <1>1, ResumeFields
<1> HIDE DEF g
<1>b. g.turnPaused \in BOOLEAN BY <1>2
<1>t. 0 \in 0 .. TURN_TIMER_MS BY TimerAssumption
<1>3. FightT(g) BY <1>b, <1>t, <1>2 DEF FightT, SameLife, SameTurn
<1> QED BY <1>3 DEF g

\* One field of a fight is set.
Differs(f, g) ==
  DOMAIN g = Fields /\ g.type = f.type /\ g.finishes = f.finishes /\ g.turn = f.turn
    /\ g.turnResults = f.turnResults /\ SamePause(f, g)

LEMMA StatusSet ==
  ASSUME NEW f, FightT(f), NEW status \in {"creating", "active", "finished"}
  PROVE  LET g == [f EXCEPT !.status = status]
         IN  /\ FightT(g) /\ Differs(f, g) /\ SameTimers(f, g) /\ g.status = status
             /\ g.turnActions = f.turnActions /\ g.disconnectedWallets = f.disconnectedWallets
<1> DEFINE g == [f EXCEPT !.status = status]
<1>1. /\ Differs(f, g) /\ SameTimers(f, g) /\ g.status = status
      /\ g.turnActions = f.turnActions /\ g.disconnectedWallets = f.disconnectedWallets
  BY DEF FightT, Fields, Differs, SameTimers, SamePause
<1> HIDE DEF g
<1>2. FightT(g) BY <1>1 DEF FightT, Differs, SameTimers, SamePause
<1> QED BY <1>1, <1>2 DEF g

LEMMA ActionsSet ==
  ASSUME NEW f, FightT(f), NEW actions \in SUBSET Fighters
  PROVE  LET g == [f EXCEPT !.turnActions = actions]
         IN  /\ FightT(g) /\ Differs(f, g) /\ SameTimers(f, g) /\ g.status = f.status
             /\ g.turnActions = actions /\ g.disconnectedWallets = f.disconnectedWallets
<1> DEFINE g == [f EXCEPT !.turnActions = actions]
<1>1. /\ Differs(f, g) /\ SameTimers(f, g) /\ g.status = f.status
      /\ g.turnActions = actions /\ g.disconnectedWallets = f.disconnectedWallets
  BY DEF FightT, Fields, Differs, SameTimers, SamePause
<1> HIDE DEF g
<1>2. FightT(g) BY <1>1 DEF FightT, Differs, SameTimers, SamePause
<1> QED BY <1>1, <1>2 DEF g

LEMMA AbsentSet ==
  ASSUME NEW f, FightT(f), NEW absent \in SUBSET Fighters
  PROVE  LET g == [f EXCEPT !.disconnectedWallets = absent]
         IN  /\ FightT(g) /\ Differs(f, g) /\ SameTimers(f, g) /\ g.status = f.status
             /\ g.turnActions = f.turnActions /\ g.disconnectedWallets = absent
<1> DEFINE g == [f EXCEPT !.disconnectedWallets = absent]
<1>1. /\ Differs(f, g) /\ SameTimers(f, g) /\ g.status = f.status
      /\ g.turnActions = f.turnActions /\ g.disconnectedWallets = absent
  BY DEF FightT, Fields, Differs, SameTimers, SamePause
<1> HIDE DEF g
<1>2. FightT(g) BY <1>1 DEF FightT, Differs, SameTimers, SamePause
<1> QED BY <1>1, <1>2 DEF g

LEMMA TimerSet ==
  ASSUME NEW f, FightT(f)
  PROVE  LET g == [f EXCEPT !.turnTimer = None]
         IN  /\ FightT(g) /\ Differs(f, g) /\ g.status = f.status /\ g.turnTimer = None
             /\ g.strayTimers = f.strayTimers /\ g.gapTimers = f.gapTimers
             /\ g.turnActions = f.turnActions /\ g.disconnectedWallets = f.disconnectedWallets
<1> DEFINE g == [f EXCEPT !.turnTimer = None]
<1>1. /\ Differs(f, g) /\ g.status = f.status /\ g.turnTimer = None
      /\ g.strayTimers = f.strayTimers /\ g.gapTimers = f.gapTimers
      /\ g.turnActions = f.turnActions /\ g.disconnectedWallets = f.disconnectedWallets
  BY DEF FightT, Fields, Differs, SamePause
<1> HIDE DEF g
<1>2. FightT(g) BY <1>1 DEF FightT, Differs, SamePause
<1> QED BY <1>1, <1>2 DEF g

LEMMA StraySet ==
  ASSUME NEW f, FightT(f), BagIn(0, f.strayTimers)
  PROVE  LET g == [f EXCEPT !.strayTimers = @ (-) SetToBag({0})]
         IN  /\ FightT(g) /\ Differs(f, g) /\ g.status = f.status
             /\ g.turnTimer = f.turnTimer /\ g.gapTimers = f.gapTimers
             /\ g.turnActions = f.turnActions /\ g.disconnectedWallets = f.disconnectedWallets
<1> DEFINE g == [f EXCEPT !.strayTimers = @ (-) SetToBag({0})]
<1>1. /\ Differs(f, g) /\ g.status = f.status
      /\ g.turnTimer = f.turnTimer /\ g.gapTimers = f.gapTimers
      /\ g.strayTimers = f.strayTimers (-) SetToBag({0})
      /\ g.turnActions = f.turnActions /\ g.disconnectedWallets = f.disconnectedWallets
  BY DEF FightT, Fields, Differs, SamePause
<1>2. Timers(f.strayTimers (-) SetToBag({0}), TURN_TIMER_MS)
  <2>1. Timers(f.strayTimers, TURN_TIMER_MS) /\ TURN_TIMER_MS \in Nat
    BY TimerAssumption DEF FightT
  <2> QED BY <2>1, TakeTimer
<1> HIDE DEF g
<1>3. FightT(g) BY <1>1, <1>2 DEF FightT, Differs, SamePause
<1> QED BY <1>1, <1>3 DEF g

LEMMA GapSet ==
  ASSUME NEW f, FightT(f), BagIn(0, f.gapTimers)
  PROVE  LET g == [f EXCEPT !.gapTimers = @ (-) SetToBag({0})]
         IN  /\ FightT(g) /\ Differs(f, g) /\ g.status = f.status
             /\ g.turnTimer = f.turnTimer /\ g.strayTimers = f.strayTimers
             /\ g.gapTimers = f.gapTimers (-) SetToBag({0})
             /\ g.turnActions = f.turnActions /\ g.disconnectedWallets = f.disconnectedWallets
<1> DEFINE g == [f EXCEPT !.gapTimers = @ (-) SetToBag({0})]
<1>1. /\ Differs(f, g) /\ g.status = f.status
      /\ g.turnTimer = f.turnTimer /\ g.strayTimers = f.strayTimers
      /\ g.gapTimers = f.gapTimers (-) SetToBag({0})
      /\ g.turnActions = f.turnActions /\ g.disconnectedWallets = f.disconnectedWallets
  BY DEF FightT, Fields, Differs, SamePause
<1>2. Timers(f.gapTimers (-) SetToBag({0}), TURN_GAP_MS)
  <2>1. Timers(f.gapTimers, TURN_GAP_MS) /\ TURN_GAP_MS \in Nat BY TimerAssumption DEF FightT
  <2> QED BY <2>1, TakeTimer
<1> HIDE DEF g
<1>3. FightT(g) BY <1>1, <1>2 DEF FightT, Differs, SamePause
<1> QED BY <1>1, <1>3 DEF g

(***************************************************************************)
(* Grace records and sessions                                              *)
(***************************************************************************)
LEMMA Budgets ==
  /\ GRACE_BUDGET_MS \in Nat \ {0} /\ 0 \in 0 .. GRACE_BUDGET_MS
  /\ MaxAuth \in Nat \ {0} /\ NoGrace \in GraceR /\ None \notin Nat
  /\ TURN_TIMER_MS \in Nat /\ TURN_GAP_MS \in Nat
BY TimerAssumption DEF NoGrace, GraceR

LEMMA GraceFacts ==
  ASSUME NEW g \in GraceR
  PROVE  /\ g.active \in BOOLEAN
         /\ g.elapsed \in Nat /\ g.elapsed <= GRACE_BUDGET_MS
         /\ g.usedMs \in Nat /\ g.usedMs <= GRACE_BUDGET_MS
         /\ GraceLeft(g) = GRACE_BUDGET_MS - g.usedMs /\ GraceLeft(g) \in Nat
         /\ MarkReconnect(g) \in GraceR /\ ~MarkReconnect(g).active
         /\ MarkReconnect(g).elapsed = 0
         /\ g.usedMs + g.elapsed <= GRACE_BUDGET_MS =>
              MarkReconnect(g).usedMs = g.usedMs + g.elapsed
<1>1. /\ g.active \in BOOLEAN /\ g.elapsed \in Nat /\ g.elapsed <= GRACE_BUDGET_MS
      /\ g.usedMs \in Nat /\ g.usedMs <= GRACE_BUDGET_MS
      /\ GraceLeft(g) = GRACE_BUDGET_MS - g.usedMs /\ GraceLeft(g) \in Nat
  BY Budgets DEF GraceR, GraceLeft
<1> DEFINE u == IF g.usedMs + g.elapsed < GRACE_BUDGET_MS THEN g.usedMs + g.elapsed
                ELSE GRACE_BUDGET_MS
<1>2. u \in 0 .. GRACE_BUDGET_MS /\ 0 \in 0 .. GRACE_BUDGET_MS
      /\ (g.usedMs + g.elapsed <= GRACE_BUDGET_MS => u = g.usedMs + g.elapsed)
  BY <1>1, Budgets
<1>3. MarkReconnect(g) = [active |-> FALSE, elapsed |-> 0, usedMs |-> u] BY DEF MarkReconnect
<1> HIDE DEF u
<1>4. MarkReconnect(g) \in GraceR BY <1>2, <1>3 DEF GraceR
<1>5. ~MarkReconnect(g).active /\ MarkReconnect(g).elapsed = 0 /\ MarkReconnect(g).usedMs = u
  BY <1>3
<1> QED BY <1>1, <1>2, <1>4, <1>5

\* The fight becomes f, with session s and grace records g.
LEMMA BecomesEffect ==
  ASSUME NEW f, NEW s \in [Fighters -> SessionR], NEW g \in [Fighters -> GraceR],
         Becomes(f, s, g)
  PROVE  /\ fight' = f /\ session' \in [Fighters -> SessionR] /\ grace' \in [Fighters -> GraceR]
         /\ \A p \in Fighters : session'[p].online = s[p].online
                                /\ session'[p].authing = s[p].authing
         /\ f.status = "finished" \/ (session' = s /\ grace' = g)
         /\ grace' = g \/ grace' = [p \in Fighters |-> NoGrace]
<1>1. CASE fight.status = "active" /\ f.status = "finished"
  <2>1. /\ fight' = f
        /\ session' = [p \in Fighters |-> [s[p] EXCEPT !.seat = FALSE]]
        /\ grace' = IF f.type = "bot" THEN g ELSE [p \in Fighters |-> NoGrace]
    BY <1>1 DEF Becomes
  <2>2. grace' \in [Fighters -> GraceR] BY <2>1, Budgets
  <2>3. ASSUME NEW p \in Fighters
        PROVE  /\ session'[p] \in SessionR /\ session'[p].online = s[p].online
               /\ session'[p].authing = s[p].authing
    <3>1. s[p] \in SessionR /\ session'[p] = [s[p] EXCEPT !.seat = FALSE] BY <2>1
    <3>2. \A b \in BOOLEAN : [s[p] EXCEPT !.seat = b] \in SessionR BY <3>1 DEF SessionR
    <3>3. session'[p] \in SessionR BY <3>1, <3>2
    <3>4. session'[p].online = s[p].online /\ session'[p].authing = s[p].authing
      BY <3>1 DEF SessionR
    <3> QED BY <3>3, <3>4
  <2>4. session' \in [Fighters -> SessionR] BY <2>1, <2>3
  <2>5. grace' = g \/ grace' = [p \in Fighters |-> NoGrace] BY <2>1
  <2>6. \A p \in Fighters : session'[p].online = s[p].online
                           /\ session'[p].authing = s[p].authing
    BY <2>3
  <2>7. fight' = f /\ f.status = "finished" BY <1>1, <2>1
  <2> QED BY <2>2, <2>4, <2>5, <2>6, <2>7
<1>2. CASE ~(fight.status = "active" /\ f.status = "finished")
  BY <1>2 DEF Becomes
<1> QED BY <1>1, <1>2

(***************************************************************************)
(* What the actions do                                                     *)
(***************************************************************************)
\* A fight whose turn is about to be resolved: everybody has acted, by
\* themselves or by the timeout, and the turn was still open or a timer that
\* nobody could clear says so.
Due(f) ==
  /\ FightT(f) /\ f.status = "active" /\ f.turnActions = Fighters
  /\ f.type = fight.type /\ f.finishes = fight.finishes /\ f.turn = fight.turn
  /\ f.turnResults = fight.turnResults /\ f.disconnectedWallets = fight.disconnectedWallets
  /\ f.gapTimers = fight.gapTimers
  /\ f.turnPaused = FALSE \/ f.turnPaused = fight.turnPaused
  /\ \/ /\ f.turnTimer = None /\ f.strayTimers = fight.strayTimers
        /\ fight.turnActions # Fighters \/ fight.turnTimer # None
     \/ f.turnTimer = fight.turnTimer /\ BagIn(0, fight.strayTimers)

\* ... and what its resolution makes of it.
Resolved(f) ==
  /\ fight'.type = f.type /\ fight'.turn = f.turn /\ fight'.turnActions = f.turnActions
  /\ fight'.disconnectedWallets = f.disconnectedWallets
  /\ fight'.strayTimers = f.strayTimers
  /\ fight'.turnResults = Append(f.turnResults, f.turn)
  /\ \/ /\ fight'.status = "finished" /\ fight'.finishes = f.finishes + 1
        /\ fight'.turnTimer = None /\ fight'.turnPaused = FALSE
        /\ fight'.gapTimers = f.gapTimers
     \/ /\ fight'.status = f.status /\ fight'.finishes = f.finishes
        /\ fight'.turnTimer = f.turnTimer /\ fight'.turnPaused = f.turnPaused
        /\ fight'.gapTimers = f.gapTimers (+) SetToBag({TURN_GAP_MS})

\* Sessions and grace records stay, unless the step ended the fight.
KeepPlayers ==
  /\ session' \in [Fighters -> SessionR] /\ grace' \in [Fighters -> GraceR]
  /\ \A p \in Fighters : session'[p].online = session[p].online
                         /\ session'[p].authing = session[p].authing
  /\ fight'.status = "finished" \/ (session' = session /\ grace' = grace)
  /\ grace' = grace \/ grace' = [p \in Fighters |-> NoGrace]

Resolution ==
  /\ Active /\ FightT(fight') /\ KeepPlayers /\ UNCHANGED <<seen, away>>
  /\ \E f : Due(f) /\ Resolved(f)

LEMMA ResolutionEffect ==
  ASSUME Types, NEW f, Due(f), NEW ended \in BOOLEAN, Active, UNCHANGED <<seen, away>>,
         Becomes(ResolveFightTurn(f, ended), session, grace)
  PROVE  Resolution
<1> DEFINE g == ResolveFightTurn(f, ended)
<1>1. DOMAIN f = Fields /\ FightT(f) BY DEF Due, FightT
<1>2. /\ FightT(g) /\ g.type = f.type
      /\ g.turn = f.turn /\ g.turnActions = f.turnActions
      /\ g.disconnectedWallets = f.disconnectedWallets /\ g.strayTimers = f.strayTimers
      /\ g.turnResults = Append(f.turnResults, f.turn)
      /\ \/ /\ g.status = "finished" /\ g.finishes = f.finishes + 1
            /\ g.turnTimer = None /\ g.turnPaused = FALSE /\ g.turnPausedRemainingMs = 0
            /\ g.gapTimers = f.gapTimers
         \/ /\ SameLife(f, g) /\ SamePause(f, g) /\ g.turnTimer = f.turnTimer
            /\ g.gapTimers = f.gapTimers (+) SetToBag({TURN_GAP_MS})
  BY <1>1, ResolveFields, ResolveTyped
<1> HIDE DEF g
<1>3. session \in [Fighters -> SessionR] /\ grace \in [Fighters -> GraceR] BY DEF Types
<1>4. Becomes(g, session, grace) BY DEF g
<1>5. /\ fight' = g /\ session' \in [Fighters -> SessionR] /\ grace' \in [Fighters -> GraceR]
      /\ \A p \in Fighters : session'[p].online = session[p].online
                             /\ session'[p].authing = session[p].authing
      /\ g.status = "finished" \/ (session' = session /\ grace' = grace)
      /\ grace' = grace \/ grace' = [p \in Fighters |-> NoGrace]
  BY <1>3, <1>4, BecomesEffect
<1>6. KeepPlayers BY <1>5 DEF KeepPlayers
<1>7. Resolved(f) BY <1>2, <1>5 DEF Resolved, SameLife, SamePause
<1>8. FightT(fight') BY <1>2, <1>5
<1> QED BY <1>6, <1>7, <1>8 DEF Resolution

\* fight_action: one of two, or the one that completes the turn.
OneActed ==
  /\ Active /\ FightT(fight') /\ Differs(fight, fight') /\ SameTimers(fight, fight')
  /\ fight'.status = fight.status /\ fight.turnActions # Fighters
  /\ fight'.disconnectedWallets = fight.disconnectedWallets
  /\ session' = session /\ grace' = grace /\ UNCHANGED <<seen, away>>

LEMMA SubmitEffect ==
  ASSUME Types, NEW p \in Fighters, SubmitTurnAction(p)
  PROVE  OneActed \/ Resolution
<1>1. /\ Active /\ p \notin fight.turnActions /\ FightT(fight)
      /\ UNCHANGED <<seen, away>> /\ fight.turnActions \subseteq Fighters
  BY DEF SubmitTurnAction, Types, FightT
<1> DEFINE acts == fight.turnActions \cup {p}
           f == [fight EXCEPT !.turnActions = acts]
<1>2. acts \in SUBSET Fighters BY <1>1
<1>3. /\ FightT(f) /\ Differs(fight, f) /\ SameTimers(fight, f) /\ f.status = fight.status
      /\ f.turnActions = acts /\ f.disconnectedWallets = fight.disconnectedWallets
  <2> HIDE DEF acts
  <2> QED BY <1>1, <1>2, ActionsSet
<1>4. IF f.turnActions # Fighters THEN Becomes(f, session, grace)
      ELSE \E ended \in BOOLEAN : Becomes(ResolveFightTurn(TurnOver(f), ended), session, grace)
  BY DEF SubmitTurnAction
<1> HIDE DEF f
<1>5. session \in [Fighters -> SessionR] /\ grace \in [Fighters -> GraceR] BY DEF Types
<1>6. CASE f.turnActions # Fighters
  <2>1. Becomes(f, session, grace) BY <1>4, <1>6
  <2>2. f.status # "finished" BY <1>1, <1>3 DEF Active
  <2>3. fight' = f /\ session' = session /\ grace' = grace BY <1>5, <2>1, <2>2, BecomesEffect
  <2>4. fight.turnActions # Fighters BY <1>1
  <2> QED BY <1>1, <1>3, <2>3, <2>4 DEF OneActed
<1>7. CASE f.turnActions = Fighters
  <2> DEFINE h == TurnOver(f)
  <2>1. PICK ended \in BOOLEAN : Becomes(ResolveFightTurn(h, ended), session, grace)
    BY <1>4, <1>7
  <2>2. /\ FightT(h) /\ SameLife(f, h) /\ SameTurn(f, h)
        /\ h.disconnectedWallets = f.disconnectedWallets
        /\ h.strayTimers = f.strayTimers /\ h.gapTimers = f.gapTimers
        /\ h.turnTimer = None /\ h.turnPaused = FALSE
    <3>1. DOMAIN f = Fields BY <1>3 DEF FightT
    <3> QED BY <1>3, <3>1, TurnOverFields, TurnOverTyped
  <2> HIDE DEF h
  <2>3. fight.turnActions # Fighters BY <1>1
  <2>4. Due(h)
    BY <1>1, <1>3, <1>7, <2>2, <2>3 DEF Due, SameLife, SameTurn, Differs, SameTimers, Active
  <2> QED BY <1>1, <2>1, <2>4, ResolutionEffect
<1> QED BY <1>6, <1>7

\* A turn timer that finds the fight over does nothing.
LateTimer ==
  /\ ~Active /\ FightT(fight') /\ Differs(fight, fight') /\ fight'.status = fight.status
  /\ fight'.disconnectedWallets = fight.disconnectedWallets
  /\ fight'.gapTimers = fight.gapTimers /\ fight'.turnActions = fight.turnActions
  /\ fight'.turnTimer = None \/ fight'.turnTimer = fight.turnTimer
  /\ fight'.strayTimers = fight.strayTimers \/ BagIn(0, fight.strayTimers)
  /\ fight.turnTimer # None \/ BagIn(0, fight.strayTimers)
  /\ session' = session /\ grace' = grace /\ UNCHANGED <<seen, away>>

LEMMA TimeoutEffect ==
  ASSUME Types, TurnTimerFires \/ StrayTimerFires
  PROVE  LateTimer \/ Resolution
<1>0. FightT(fight) /\ session \in [Fighters -> SessionR] /\ grace \in [Fighters -> GraceR]
      /\ UNCHANGED <<seen, away>>
  BY DEF Types, TurnTimerFires, StrayTimerFires
<1>1. \E f : /\ FightT(f) /\ Differs(fight, f) /\ f.status = fight.status
             /\ f.disconnectedWallets = fight.disconnectedWallets
             /\ f.gapTimers = fight.gapTimers /\ f.turnActions = fight.turnActions
             /\ \/ /\ f.turnTimer = None /\ f.strayTimers = fight.strayTimers
                   /\ fight.turnTimer # None
                \/ f.turnTimer = fight.turnTimer /\ BagIn(0, fight.strayTimers)
             /\ \E ended \in BOOLEAN : Becomes(HandleTurnTimeout(f, ended), session, grace)
  <2>1. CASE TurnTimerFires
    <3> DEFINE f == [fight EXCEPT !.turnTimer = None]
    <3>1. \E ended \in BOOLEAN : Becomes(HandleTurnTimeout(f, ended), session, grace)
      BY <2>1 DEF TurnTimerFires
    <3>2. /\ FightT(f) /\ Differs(fight, f) /\ f.status = fight.status /\ f.turnTimer = None
          /\ f.strayTimers = fight.strayTimers /\ f.gapTimers = fight.gapTimers
          /\ f.turnActions = fight.turnActions
          /\ f.disconnectedWallets = fight.disconnectedWallets
      BY <1>0, TimerSet
    <3>3. fight.turnTimer # None BY <2>1, Budgets DEF TurnTimerFires
    <3> HIDE DEF f
    <3> QED BY <3>1, <3>2, <3>3
  <2>2. CASE StrayTimerFires
    <3> DEFINE f == [fight EXCEPT !.strayTimers = @ (-) SetToBag({0})]
    <3>1. /\ \E ended \in BOOLEAN : Becomes(HandleTurnTimeout(f, ended), session, grace)
          /\ BagIn(0, fight.strayTimers)
      BY <2>2 DEF StrayTimerFires
    <3>2. /\ FightT(f) /\ Differs(fight, f) /\ f.status = fight.status
          /\ f.turnTimer = fight.turnTimer /\ f.gapTimers = fight.gapTimers
          /\ f.turnActions = fight.turnActions
          /\ f.disconnectedWallets = fight.disconnectedWallets
      BY <1>0, <3>1, StraySet
    <3> HIDE DEF f
    <3> QED BY <3>1, <3>2
  <2> QED BY <2>1, <2>2
<1>2. PICK f : /\ FightT(f) /\ Differs(fight, f) /\ f.status = fight.status
               /\ f.disconnectedWallets = fight.disconnectedWallets
               /\ f.gapTimers = fight.gapTimers /\ f.turnActions = fight.turnActions
               /\ \/ /\ f.turnTimer = None /\ f.strayTimers = fight.strayTimers
                     /\ fight.turnTimer # None
                  \/ f.turnTimer = fight.turnTimer /\ BagIn(0, fight.strayTimers)
               /\ \E ended \in BOOLEAN : Becomes(HandleTurnTimeout(f, ended), session, grace)
  BY <1>1
<1>3. PICK ended \in BOOLEAN : Becomes(HandleTurnTimeout(f, ended), session, grace) BY <1>2
<1>4. CASE Active
  <2> DEFINE h == [f EXCEPT !.turnActions = Fighters]
  <2>1. HandleTurnTimeout(f, ended) = ResolveFightTurn(h, ended)
    BY <1>2, <1>4 DEF HandleTurnTimeout, Active
  <2>2. /\ FightT(h) /\ Differs(f, h) /\ SameTimers(f, h) /\ h.status = f.status
        /\ h.turnActions = Fighters /\ h.disconnectedWallets = f.disconnectedWallets
    BY <1>2, ActionsSet
  <2> HIDE DEF h
  <2>3. Due(h)
    BY <1>2, <1>4, <2>2 DEF Due, Differs, SameTimers, SamePause, Active
  <2>4. Becomes(ResolveFightTurn(h, ended), session, grace) BY <1>3, <2>1
  <2> QED BY <1>0, <1>4, <2>3, <2>4, ResolutionEffect
<1>5. CASE ~Active
  <2>1. HandleTurnTimeout(f, ended) = f BY <1>2, <1>5 DEF HandleTurnTimeout, Active
  <2>2. fight' = f /\ session' = session /\ grace' = grace
    BY <1>3, <1>5, <2>1 DEF Becomes, Active
  <2> QED BY <1>0, <1>2, <1>5, <2>2 DEF LateTimer
<1> QED BY <1>4, <1>5

\* A new turn: it runs unless somebody is absent.
NewTurn ==
  /\ FightT(fight') /\ fight'.status = "active" /\ fight'.type = fight.type
  /\ fight'.finishes = fight.finishes /\ fight'.turnResults = fight.turnResults
  /\ fight'.turn = fight.turn + 1
  /\ fight'.disconnectedWallets = fight.disconnectedWallets
  /\ fight'.turnPaused <=> fight.disconnectedWallets # {}
  /\ fight'.turnTimer = IF fight.disconnectedWallets # {} THEN None ELSE TURN_TIMER_MS
  /\ fight.turnTimer = None => fight'.strayTimers = fight.strayTimers

LEMMA NewTurnEffect ==
  ASSUME NEW f, FightT(f), fight' = StartNextTurn(f), f.status = "active", f.type = fight.type,
         f.finishes = fight.finishes, f.turn = fight.turn, f.turnResults = fight.turnResults,
         f.disconnectedWallets = fight.disconnectedWallets, f.turnTimer = fight.turnTimer,
         f.strayTimers = fight.strayTimers
  PROVE  NewTurn /\ fight'.gapTimers = f.gapTimers
<1>1. DOMAIN f = Fields BY DEF FightT
<1> DEFINE g == StartNextTurn(f)
           paused == f.disconnectedWallets # {}
<1>2. /\ SameLife(f, g) /\ g.disconnectedWallets = f.disconnectedWallets
      /\ g.gapTimers = f.gapTimers /\ g.turnResults = f.turnResults /\ g.turn = f.turn + 1
      /\ g.turnPaused = paused
      /\ g.turnTimer = IF paused THEN None ELSE TURN_TIMER_MS
      /\ g.strayTimers = IF f.turnTimer = None THEN f.strayTimers
                         ELSE f.strayTimers (+) SetToBag({f.turnTimer})
  BY <1>1, StartFields
<1>3. FightT(g) /\ fight' = g BY StartTyped
<1> HIDE DEF g
<1>4. fight'.turnPaused <=> fight.disconnectedWallets # {} BY <1>2, <1>3
<1> QED BY <1>2, <1>3, <1>4 DEF NewTurn, SameLife

Created ==
  /\ fight.status = "creating" /\ NewTurn /\ fight'.gapTimers = fight.gapTimers
  /\ session' \in [Fighters -> SessionR]
  /\ \A p \in Fighters : /\ session'[p].online = session[p].online
                         /\ session'[p].authing = session[p].authing
                         /\ session'[p].seat = session[p].online
  /\ seen' \in {seen, seen \cup {"absent_at_start"}}
  /\ "absent_at_start" \in seen' \/ \A p \in Humans : session[p].online
  /\ UNCHANGED <<grace, away>>

LEMMA CreateEffect == ASSUME Types, CreateFight PROVE Created
<1> DEFINE f == [fight EXCEPT !.status = "active"]
<1>1. /\ fight.status = "creating" /\ fight' = StartNextTurn(f)
      /\ session' = [p \in Fighters |-> [session[p] EXCEPT !.seat = session[p].online]]
      /\ seen' = IF \E p \in Humans : ~session[p].online
                 THEN seen \cup {"absent_at_start"} ELSE seen
      /\ grace' = grace /\ away' = away
  BY DEF CreateFight
<1>2. FightT(fight) /\ session \in [Fighters -> SessionR] BY DEF Types
<1>3. /\ FightT(f) /\ Differs(fight, f) /\ SameTimers(fight, f) /\ f.status = "active"
      /\ f.disconnectedWallets = fight.disconnectedWallets
  BY <1>2, StatusSet
<1> HIDE DEF f
<1>4. NewTurn /\ fight'.gapTimers = fight.gapTimers
  BY <1>1, <1>3, NewTurnEffect DEF Differs, SameTimers
<1>5. ASSUME NEW p \in Fighters
      PROVE  /\ session'[p] \in SessionR /\ session'[p].online = session[p].online
             /\ session'[p].authing = session[p].authing
             /\ session'[p].seat = session[p].online
  <2>1. session[p] \in SessionR /\ session'[p] = [session[p] EXCEPT !.seat = session[p].online]
    BY <1>1, <1>2
  <2>2. session[p].online \in BOOLEAN BY <2>1 DEF SessionR
  <2>3. \A b \in BOOLEAN : [session[p] EXCEPT !.seat = b] \in SessionR BY <2>1 DEF SessionR
  <2>4. session'[p] \in SessionR BY <2>1, <2>2, <2>3
  <2>5. /\ session'[p].online = session[p].online /\ session'[p].authing = session[p].authing
        /\ session'[p].seat = session[p].online
    BY <2>1 DEF SessionR
  <2> QED BY <2>4, <2>5
<1>6. session' \in [Fighters -> SessionR] BY <1>1, <1>5
<1> QED BY <1>1, <1>4, <1>5, <1>6 DEF Created

GapOver ==
  /\ BagIn(0, fight.gapTimers) /\ fight'.gapTimers = fight.gapTimers (-) SetToBag({0})
  /\ UNCHANGED <<grace, session, seen, away>>
  /\ \/ Active /\ NewTurn
     \/ /\ ~Active /\ FightT(fight') /\ Differs(fight, fight') /\ fight'.status = fight.status
        /\ fight'.turnTimer = fight.turnTimer /\ fight'.strayTimers = fight.strayTimers
        /\ fight'.turnActions = fight.turnActions
        /\ fight'.disconnectedWallets = fight.disconnectedWallets

LEMMA GapEffect == ASSUME Types, GapTimerFires PROVE GapOver
<1> DEFINE f == [fight EXCEPT !.gapTimers = @ (-) SetToBag({0})]
<1>1. /\ BagIn(0, fight.gapTimers) /\ UNCHANGED <<grace, session, seen, away>>
      /\ fight' = IF Active THEN StartNextTurn(f) ELSE f
  BY DEF GapTimerFires
<1>2. /\ FightT(f) /\ Differs(fight, f) /\ f.status = fight.status
      /\ f.turnTimer = fight.turnTimer /\ f.strayTimers = fight.strayTimers
      /\ f.gapTimers = fight.gapTimers (-) SetToBag({0})
      /\ f.turnActions = fight.turnActions /\ f.disconnectedWallets = fight.disconnectedWallets
  BY <1>1, GapSet DEF Types
<1> HIDE DEF f
<1>3. CASE Active
  <2>1. f.status = "active" /\ fight' = StartNextTurn(f) BY <1>1, <1>2, <1>3 DEF Active
  <2>2. NewTurn /\ fight'.gapTimers = f.gapTimers BY <1>2, <2>1, NewTurnEffect DEF Differs
  <2> QED BY <1>1, <1>2, <1>3, <2>2 DEF GapOver
<1>4. CASE ~Active BY <1>1, <1>2, <1>4 DEF GapOver
<1> QED BY <1>3, <1>4

\* The fight ends without a further turn, by a forfeit.
Forfeited ==
  /\ Active /\ FightT(fight') /\ SameTurn(fight, fight') /\ fight'.status = "finished"
  /\ fight'.type = fight.type /\ fight'.finishes = fight.finishes + 1
  /\ fight'.strayTimers = fight.strayTimers /\ fight'.gapTimers = fight.gapTimers
  /\ fight'.turnTimer = None /\ fight'.turnPaused = FALSE

\* The session of p changes; online and authing say how.
OthersKeep(p) ==
  \A q \in Fighters \ {p} : session'[q].online = session[q].online
                            /\ session'[q].authing = session[q].authing

LEMMA ForfeitEffect ==
  ASSUME Types, Active, fight' = FinishFight(fight)
  PROVE  Forfeited
<1>1. DOMAIN fight = Fields /\ FightT(fight) BY DEF Types, FightT
<1>2. FightT(fight') BY <1>1, FinishTyped
<1> QED BY <1>1, <1>2, FinishFields DEF Forfeited, SameTurn

\* A socket closes: unnoticed, as a forfeit, or as the start of an absence.
Closed(p) ==
  /\ session' \in [Fighters -> SessionR] /\ OthersKeep(p)
  /\ ~session'[p].online /\ session'[p].authing = session[p].authing
  /\ UNCHANGED <<seen, away>>
  /\ \/ /\ fight' = fight /\ grace' = grace
        /\ ~Active \/ grace[p].active
        /\ \A q \in Fighters \ {p} : session'[q].seat = session[q].seat
     \/ /\ Forfeited
        /\ grace' \in {[grace EXCEPT ![p] = NoGrace], [q \in Fighters |-> NoGrace]}
     \/ /\ Active /\ ~grace[p].active
        /\ FightT(fight') /\ SameLife(fight, fight') /\ SameTurn(fight, fight')
        /\ fight'.disconnectedWallets = fight.disconnectedWallets \cup {p}
        /\ fight'.strayTimers = fight.strayTimers /\ fight'.gapTimers = fight.gapTimers
        /\ fight'.turnPaused = TRUE
        /\ \/ fight'.turnTimer = None
           \/ fight.turnPaused /\ fight'.turnTimer = fight.turnTimer
        /\ grace' = [grace EXCEPT ![p] = [active |-> TRUE, elapsed |-> 0,
                                          usedMs |-> grace[p].usedMs]]
        /\ \A q \in Fighters \ {p} : session'[q].seat = session[q].seat

LEMMA CloseEffect ==
  ASSUME Types, NEW p \in Fighters, SocketCloses(p)
  PROVE  Closed(p)
<1> DEFINE s == [session EXCEPT ![p].online = FALSE, ![p].seat = FALSE]
<1>1. /\ session \in [Fighters -> SessionR] /\ grace \in [Fighters -> GraceR]
      /\ FightT(fight) /\ UNCHANGED <<seen, away>>
  BY DEF Types, SocketCloses
<1>2. /\ s \in [Fighters -> SessionR]
      /\ \A q \in Fighters \ {p} : s[q] = session[q]
      /\ s[p].online = FALSE /\ s[p].authing = session[p].authing
  <2>1. session[p] \in SessionR BY <1>1
  <2>2. \A b \in BOOLEAN : [online |-> b, seat |-> b, authing |-> session[p].authing] \in SessionR
    BY <2>1 DEF SessionR
  <2>3. s[p] = [online |-> FALSE, seat |-> FALSE, authing |-> session[p].authing]
    BY <1>1, <2>1 DEF SessionR
  <2>4. s[p] \in SessionR BY <2>2, <2>3
  <2>5. \A q \in Fighters \ {p} : s[q] = session[q] BY <1>1
  <2>6. DOMAIN s = Fighters BY <1>1
  <2>7. s = [q \in Fighters |-> s[q]] BY <1>1
  <2> HIDE DEF s
  <2>8. \A q \in Fighters : s[q] \in SessionR BY <1>1, <2>4, <2>5
  <2> QED BY <2>3, <2>5, <2>7, <2>8
<1>3. /\ ~Active \/ grace[p].active => Becomes(fight, s, grace)
      /\ Active /\ ~grace[p].active /\ GraceLeft(grace[p]) <= 0 =>
           Becomes(FinishFight(fight), s, [grace EXCEPT ![p] = NoGrace])
      /\ Active /\ ~grace[p].active /\ ~(GraceLeft(grace[p]) <= 0) =>
           Becomes(PauseFightTimer([fight EXCEPT !.disconnectedWallets = @ \cup {p}]),
                   s, [grace EXCEPT ![p].active = TRUE, ![p].elapsed = 0])
  BY DEF SocketCloses
<1> HIDE DEF s
<1>4. ASSUME NEW f, NEW g \in [Fighters -> GraceR], Becomes(f, s, g)
      PROVE  /\ fight' = f /\ session' \in [Fighters -> SessionR] /\ OthersKeep(p)
             /\ ~session'[p].online /\ session'[p].authing = session[p].authing
             /\ f.status = "finished" \/ (session' = s /\ grace' = g)
             /\ grace' = g \/ grace' = [q \in Fighters |-> NoGrace]
  <2>1. /\ fight' = f /\ session' \in [Fighters -> SessionR]
        /\ \A q \in Fighters : session'[q].online = s[q].online
                               /\ session'[q].authing = s[q].authing
        /\ f.status = "finished" \/ (session' = s /\ grace' = g)
        /\ grace' = g \/ grace' = [q \in Fighters |-> NoGrace]
    BY <1>2, <1>4, BecomesEffect
  <2> QED BY <1>2, <2>1 DEF OthersKeep
<1>5. CASE ~Active \/ grace[p].active
  <2>1. Becomes(fight, s, grace) BY <1>3, <1>5
  <2>2. fight' = fight /\ session' = s /\ grace' = grace BY <2>1 DEF Becomes
  <2>3. /\ session' \in [Fighters -> SessionR] /\ OthersKeep(p)
        /\ ~session'[p].online /\ session'[p].authing = session[p].authing
        /\ \A q \in Fighters \ {p} : session'[q].seat = session[q].seat
    BY <1>2, <2>2 DEF OthersKeep
  <2> QED BY <1>1, <1>5, <2>2, <2>3 DEF Closed
<1>6. CASE Active /\ ~grace[p].active /\ GraceLeft(grace[p]) <= 0
  <2>1. [grace EXCEPT ![p] = NoGrace] \in [Fighters -> GraceR] BY <1>1, Budgets
  <2>2. Becomes(FinishFight(fight), s, [grace EXCEPT ![p] = NoGrace]) BY <1>3, <1>6
  <2>3. /\ fight' = FinishFight(fight) /\ session' \in [Fighters -> SessionR] /\ OthersKeep(p)
        /\ ~session'[p].online /\ session'[p].authing = session[p].authing
        /\ grace' = [grace EXCEPT ![p] = NoGrace] \/ grace' = [q \in Fighters |-> NoGrace]
    BY <1>4, <2>1, <2>2
  <2>4. Forfeited BY <1>6, <2>3, ForfeitEffect
  <2> QED BY <1>1, <2>3, <2>4 DEF Closed
<1>7. CASE Active /\ ~grace[p].active /\ ~(GraceLeft(grace[p]) <= 0)
  <2> DEFINE absent == fight.disconnectedWallets \cup {p}
             f == [fight EXCEPT !.disconnectedWallets = absent]
             g == [grace EXCEPT ![p].active = TRUE, ![p].elapsed = 0]
             r == [active |-> TRUE, elapsed |-> 0, usedMs |-> grace[p].usedMs]
  <2>1. Becomes(PauseFightTimer(f), s, g) BY <1>3, <1>7
  <2>2. absent \in SUBSET Fighters BY <1>1 DEF FightT
  <2>3. /\ FightT(f) /\ Differs(fight, f) /\ SameTimers(fight, f) /\ f.status = fight.status
        /\ f.turnActions = fight.turnActions /\ f.disconnectedWallets = absent
    <3> HIDE DEF absent
    <3> QED BY <1>1, <2>2, AbsentSet
  <2>4. g = [grace EXCEPT ![p] = r] /\ r \in GraceR
    <3>1. grace[p] \in GraceR BY <1>1
    <3>2. \A b \in BOOLEAN : [active |-> b, elapsed |-> 0, usedMs |-> grace[p].usedMs] \in GraceR
      BY <3>1, Budgets DEF GraceR
    <3>3. r \in GraceR BY <3>2
    <3>4. g[p] = r BY <1>1, <3>1 DEF GraceR
    <3>5. g = [grace EXCEPT ![p] = g[p]] BY <1>1
    <3> QED BY <3>3, <3>4, <3>5
  <2> DEFINE h == PauseFightTimer(f)
  <2>5. /\ FightT(h)
        /\ \/ f.turnPaused /\ h = f
           \/ /\ ~f.turnPaused /\ SameLife(f, h) /\ SameTurn(f, h)
              /\ h.disconnectedWallets = f.disconnectedWallets
              /\ h.strayTimers = f.strayTimers /\ h.gapTimers = f.gapTimers
              /\ h.turnPaused = TRUE /\ h.turnTimer = None
    <3>1. DOMAIN f = Fields BY <2>3 DEF FightT
    <3> QED BY <2>3, <3>1, PauseFields, PauseTyped
  <2> HIDE DEF f, h, g, r
  <2>6. SameLife(fight, f) /\ SameTurn(fight, f) BY <2>3 DEF Differs, SameLife, SameTurn
  <2>7. /\ SameLife(fight, h) /\ SameTurn(fight, h) /\ h.disconnectedWallets = absent
        /\ h.strayTimers = fight.strayTimers /\ h.gapTimers = fight.gapTimers
        /\ \/ h.turnTimer = None
           \/ fight.turnPaused /\ h.turnTimer = fight.turnTimer
    BY <2>3, <2>5, <2>6 DEF SameLife, SameTurn, SameTimers, Differs, SamePause
  <2>b. h.turnPaused = TRUE
    <3>1. f.turnPaused \in BOOLEAN BY <2>3 DEF FightT
    <3> QED BY <2>5, <3>1
  <2>8. h.status # "finished" BY <1>7, <2>7 DEF Active, SameLife
  <2>9. g \in [Fighters -> GraceR] BY <1>1, <2>4
  <2>10. Becomes(h, s, g) BY <2>1 DEF h
  <2>11. /\ fight' = h /\ session' \in [Fighters -> SessionR] /\ OthersKeep(p)
         /\ ~session'[p].online /\ session'[p].authing = session[p].authing
         /\ session' = s /\ grace' = g
    BY <1>4, <2>8, <2>9, <2>10
  <2>12. \A q \in Fighters \ {p} : session'[q].seat = session[q].seat BY <1>2, <2>11
  <2>13. /\ FightT(fight') /\ SameLife(fight, fight') /\ SameTurn(fight, fight')
         /\ fight'.disconnectedWallets = fight.disconnectedWallets \cup {p}
         /\ fight'.strayTimers = fight.strayTimers /\ fight'.gapTimers = fight.gapTimers
         /\ fight'.turnPaused = TRUE
         /\ \/ fight'.turnTimer = None
            \/ fight.turnPaused /\ fight'.turnTimer = fight.turnTimer
    BY <2>5, <2>7, <2>b, <2>11
  <2>14. grace' = [grace EXCEPT ![p] = [active |-> TRUE, elapsed |-> 0,
                                        usedMs |-> grace[p].usedMs]]
    BY <2>4, <2>11 DEF r
  <2> QED BY <1>1, <1>7, <2>11, <2>12, <2>13, <2>14 DEF Closed
<1> QED BY <1>5, <1>6, <1>7

\* A login begins: the session is open or not, and has no seat.
LoggingIn(p, open) ==
  /\ session' \in [Fighters -> SessionR] /\ OthersKeep(p)
  /\ \A q \in Fighters \ {p} : session'[q].seat = session[q].seat
  /\ session'[p].online = open /\ session'[p].authing = session[p].authing + 1
  /\ ~open => seen' = seen \cup {"late_auth"}
  /\ open /\ session[p].online => seen' = seen \cup {"replaced"}
  /\ open /\ ~session[p].online => seen' = seen
  /\ UNCHANGED <<fight, grace, away>>

LEMMA LoginEffect ==
  ASSUME Types, NEW p \in Fighters, NEW open \in BOOLEAN, AuthStarts(p, open)
  PROVE  LoggingIn(p, open)
<1>1. /\ session \in [Fighters -> SessionR]
      /\ session' = [session EXCEPT ![p].online = open, ![p].seat = FALSE,
                                    ![p].authing = @ + 1]
      /\ session[p].authing < MaxAuth
      /\ UNCHANGED <<fight, grace, away>>
  BY DEF AuthStarts, Types
<1>2. session[p] \in SessionR BY <1>1
<1>3. session[p].authing + 1 \in 0 .. MaxAuth /\ session[p].online \in BOOLEAN
  BY <1>1, <1>2, Budgets DEF SessionR
<1>4. session'[p] = [online |-> open, seat |-> FALSE, authing |-> session[p].authing + 1]
  BY <1>1, <1>2 DEF SessionR
<1>5. \A n \in 0 .. MaxAuth, b \in BOOLEAN :
        [online |-> open, seat |-> b, authing |-> n] \in SessionR
  BY DEF SessionR
<1>6. session'[p] \in SessionR BY <1>3, <1>4, <1>5
<1>7. \A q \in Fighters \ {p} : session'[q] = session[q] BY <1>1
<1>8. session' \in [Fighters -> SessionR]
  <2>1. session' = [q \in Fighters |-> session'[q]] BY <1>1
  <2>2. \A q \in Fighters : session'[q] \in SessionR BY <1>1, <1>6, <1>7
  <2> QED BY <2>1, <2>2
<1>9. /\ ~open => seen' = seen \cup {"late_auth"}
      /\ open /\ session[p].online => seen' = seen \cup {"replaced"}
      /\ open /\ ~session[p].online => seen' = seen
  BY DEF AuthStarts
<1> QED BY <1>1, <1>4, <1>7, <1>8, <1>9 DEF LoggingIn, OthersKeep

\* A login ends without an absence of the fight to end,
LoggedIn(p) ==
  /\ ~(grace[p].active /\ Active) /\ UNCHANGED <<fight, seen>>
  /\ grace' = IF grace[p].active THEN [grace EXCEPT ![p] = MarkReconnect(grace[p])] ELSE grace
  /\ session'[p].online = session[p].online /\ session'[p].seat = session[p].seat

\* or ends one, and the turn goes on when it was the last.
Returned(p) ==
  /\ grace[p].active /\ Active
  /\ grace' = [grace EXCEPT ![p] = MarkReconnect(grace[p])]
  /\ session'[p].online = session[p].online /\ session'[p].seat = session[p].online
  /\ "late_auth" \in seen' \/ session[p].online
  /\ seen \subseteq seen' /\ seen' \subseteq Events
  /\ FightT(fight') /\ SameLife(fight, fight') /\ SameTurn(fight, fight')
  /\ fight'.disconnectedWallets = fight.disconnectedWallets \ {p}
  /\ fight'.strayTimers = fight.strayTimers /\ fight'.gapTimers = fight.gapTimers
  /\ \/ /\ fight.turnPaused /\ fight'.disconnectedWallets = {}
        /\ fight'.turnPaused = FALSE /\ fight'.turnTimer = fight.turnPausedRemainingMs
        /\ "resumed_between_turns" \in seen' \/ fight.gapTimers = EmptyBag
     \/ /\ ~fight.turnPaused \/ fight'.disconnectedWallets # {}
        /\ fight'.turnPaused = fight.turnPaused /\ fight'.turnTimer = fight.turnTimer

AuthEnded(p) ==
  /\ session' \in [Fighters -> SessionR] /\ OthersKeep(p)
  /\ \A q \in Fighters \ {p} : session'[q].seat = session[q].seat
  /\ session'[p].authing = session[p].authing - 1 /\ away' = away
  /\ LoggedIn(p) \/ Returned(p)

LEMMA AuthEffect ==
  ASSUME Types, NEW p \in Fighters, AuthEnds(p)
  PROVE  AuthEnded(p)
<1> DEFINE s == [session EXCEPT ![p].authing = @ - 1]
           absent == fight.disconnectedWallets \ {p}
           f == [fight EXCEPT !.disconnectedWallets = absent]
           resumes == f.disconnectedWallets = {} /\ f.turnPaused
<1>1. /\ session \in [Fighters -> SessionR] /\ grace \in [Fighters -> GraceR]
      /\ FightT(fight) /\ away' = away /\ session[p].authing > 0 /\ seen \subseteq Events
  BY DEF Types, AuthEnds
<1>2. /\ grace' = IF grace[p].active THEN [grace EXCEPT ![p] = MarkReconnect(grace[p])] ELSE grace
      /\ grace[p].active /\ Active =>
           /\ session' = Reseated(s, p)
           /\ fight' = IF resumes THEN ResumeFightTimer(f) ELSE f
           /\ seen' = seen \cup (IF s[p].online THEN {} ELSE {"late_auth"})
                           \cup (IF resumes /\ fight.gapTimers # EmptyBag
                                 THEN {"resumed_between_turns"} ELSE {})
      /\ ~(grace[p].active /\ Active) => session' = s /\ fight' = fight /\ seen' = seen
  BY DEF AuthEnds
<1>3. session[p] \in SessionR BY <1>1
<1>4. /\ session[p].authing - 1 \in 0 .. MaxAuth
      /\ session[p].online \in BOOLEAN /\ session[p].seat \in BOOLEAN
  BY <1>1, <1>3, Budgets DEF SessionR
<1>5. /\ s[p] = [online |-> session[p].online, seat |-> session[p].seat,
                 authing |-> session[p].authing - 1]
      /\ \A q \in Fighters \ {p} : s[q] = session[q]
      /\ s = [q \in Fighters |-> s[q]]
  BY <1>1, <1>3 DEF SessionR
<1>6. \A n \in 0 .. MaxAuth, a, b \in BOOLEAN : [online |-> a, seat |-> b, authing |-> n] \in SessionR
  BY DEF SessionR
<1>7. absent \in SUBSET Fighters BY <1>1 DEF FightT
<1>8. /\ FightT(f) /\ Differs(fight, f) /\ SameTimers(fight, f) /\ f.status = fight.status
      /\ f.turnActions = fight.turnActions /\ f.disconnectedWallets = absent
  <2> HIDE DEF absent
  <2> QED BY <1>1, <1>7, AbsentSet
<1> HIDE DEF s, f
<1>9. s \in [Fighters -> SessionR]
  <2>1. s[p] \in SessionR BY <1>4, <1>5, <1>6
  <2>2. \A q \in Fighters : s[q] \in SessionR BY <1>1, <1>5, <2>1
  <2> QED BY <1>5, <2>2
<1>10. CASE ~(grace[p].active /\ Active)
  <2>1. session' = s /\ fight' = fight /\ seen' = seen BY <1>2, <1>10
  <2>2. LoggedIn(p) BY <1>2, <1>5, <1>10, <2>1 DEF LoggedIn
  <2>3. /\ session' \in [Fighters -> SessionR] /\ OthersKeep(p)
        /\ \A q \in Fighters \ {p} : session'[q].seat = session[q].seat
        /\ session'[p].authing = session[p].authing - 1
    BY <1>5, <1>9, <2>1 DEF OthersKeep
  <2> QED BY <1>1, <2>2, <2>3 DEF AuthEnded
<1>11. CASE grace[p].active /\ Active
  <2>1. /\ session' = [s EXCEPT ![p].seat = s[p].online]
        /\ grace' = [grace EXCEPT ![p] = MarkReconnect(grace[p])]
        /\ fight' = IF resumes THEN ResumeFightTimer(f) ELSE f
        /\ seen' = seen \cup (IF s[p].online THEN {} ELSE {"late_auth"})
                        \cup (IF resumes /\ fight.gapTimers # EmptyBag
                              THEN {"resumed_between_turns"} ELSE {})
    BY <1>2, <1>11 DEF Reseated
  <2>2. /\ session'[p] = [online |-> session[p].online, seat |-> session[p].online,
                          authing |-> session[p].authing - 1]
        /\ \A q \in Fighters \ {p} : session'[q] = session[q]
        /\ session' = [q \in Fighters |-> session'[q]]
    <3>1. session'[p] = [s[p] EXCEPT !.seat = s[p].online] BY <1>9, <2>1
    <3>2. \A q \in Fighters \ {p} : session'[q] = s[q] BY <1>9, <2>1
    <3>3. session' = [q \in Fighters |-> session'[q]] BY <1>9, <2>1
    <3> QED BY <1>5, <3>1, <3>2, <3>3
  <2>3. /\ session' \in [Fighters -> SessionR] /\ OthersKeep(p)
        /\ \A q \in Fighters \ {p} : session'[q].seat = session[q].seat
        /\ session'[p].authing = session[p].authing - 1
        /\ session'[p].online = session[p].online /\ session'[p].seat = session[p].online
    <3>1. session'[p] \in SessionR BY <1>4, <1>6, <2>2
    <3>2. \A q \in Fighters : session'[q] \in SessionR BY <1>1, <2>2, <3>1
    <3>3. session' \in [Fighters -> SessionR] BY <2>2, <3>2
    <3> QED BY <2>2, <3>3 DEF OthersKeep
  <2>4. /\ "late_auth" \in seen' \/ session[p].online
        /\ seen \subseteq seen' /\ seen' \subseteq Events
        /\ resumes => "resumed_between_turns" \in seen' \/ fight.gapTimers = EmptyBag
    <3>1. s[p].online = session[p].online BY <1>5
    <3>2. "late_auth" \in Events /\ "resumed_between_turns" \in Events BY DEF Events
    <3> HIDE DEF resumes
    <3> QED BY <1>1, <2>1, <3>1, <3>2
  <2>5. f.turnPaused = fight.turnPaused /\ f.turnPausedRemainingMs = fight.turnPausedRemainingMs
        /\ SameLife(fight, f) /\ SameTurn(fight, f)
        /\ f.strayTimers = fight.strayTimers /\ f.gapTimers = fight.gapTimers
        /\ f.turnTimer = fight.turnTimer
    BY <1>8 DEF Differs, SamePause, SameLife, SameTurn, SameTimers
  <2>6. /\ FightT(fight') /\ SameLife(fight, fight') /\ SameTurn(fight, fight')
        /\ fight'.disconnectedWallets = absent
        /\ fight'.strayTimers = fight.strayTimers /\ fight'.gapTimers = fight.gapTimers
        /\ \/ /\ resumes /\ fight'.turnPaused = FALSE
              /\ fight'.turnTimer = fight.turnPausedRemainingMs
           \/ ~resumes /\ fight'.turnPaused = fight.turnPaused
                /\ fight'.turnTimer = fight.turnTimer
    <3>1. CASE resumes
      <4> DEFINE h == ResumeFightTimer(f)
      <4>1. fight' = h BY <2>1, <3>1
      <4>2. DOMAIN f = Fields /\ f.turnPaused BY <1>8, <3>1 DEF FightT
      <4>3. /\ FightT(h) /\ SameLife(f, h) /\ SameTurn(f, h)
            /\ h.disconnectedWallets = f.disconnectedWallets
            /\ h.strayTimers = f.strayTimers /\ h.gapTimers = f.gapTimers
            /\ h.turnPaused = FALSE /\ h.turnTimer = f.turnPausedRemainingMs
        BY <1>8, <4>2, ResumeFields, ResumeTyped
      <4> HIDE DEF h, resumes
      <4>4. SameLife(fight, h) /\ SameTurn(fight, h)
        BY <2>5, <4>3 DEF SameLife, SameTurn
      <4> QED BY <1>8, <2>5, <3>1, <4>1, <4>3, <4>4
    <3>2. CASE ~resumes
      <4>1. fight' = f BY <2>1, <3>2
      <4> HIDE DEF resumes
      <4> QED BY <1>8, <2>5, <3>2, <4>1
    <3> QED BY <3>1, <3>2
  <2>7. resumes <=> absent = {} /\ fight.turnPaused BY <1>8, <2>5
  <2> HIDE DEF resumes
  <2>8. \/ /\ fight.turnPaused /\ fight'.disconnectedWallets = {}
           /\ fight'.turnPaused = FALSE /\ fight'.turnTimer = fight.turnPausedRemainingMs
           /\ "resumed_between_turns" \in seen' \/ fight.gapTimers = EmptyBag
        \/ /\ ~fight.turnPaused \/ fight'.disconnectedWallets # {}
           /\ fight'.turnPaused = fight.turnPaused /\ fight'.turnTimer = fight.turnTimer
    BY <2>4, <2>6, <2>7
  <2>9. Returned(p) BY <1>11, <2>1, <2>3, <2>4, <2>6, <2>8 DEF Returned
  <2> QED BY <1>1, <2>3, <2>9 DEF AuthEnded
<1> QED BY <1>10, <1>11

\* The forfeit timer of p.
Expired(p) ==
  /\ grace[p].active /\ UNCHANGED <<seen, away>>
  /\ session' \in [Fighters -> SessionR]
  /\ \A q \in Fighters : session'[q].online = session[q].online
                         /\ session'[q].authing = session[q].authing
  /\ grace' \in {[grace EXCEPT ![p] = NoGrace], [q \in Fighters |-> NoGrace]}
  /\ \/ Forfeited
     \/ ~Active /\ fight' = fight /\ session' = session

LEMMA ExpiryEffect ==
  ASSUME Types, NEW p \in Fighters, GraceExpires(p)
  PROVE  Expired(p)
<1> DEFINE f == IF Active THEN FinishFight(fight) ELSE fight
           g == [grace EXCEPT ![p] = NoGrace]
<1>1. /\ grace[p].active /\ UNCHANGED <<seen, away>> /\ Becomes(f, session, g)
      /\ session \in [Fighters -> SessionR] /\ grace \in [Fighters -> GraceR]
  BY DEF GraceExpires, Types
<1>2. g \in [Fighters -> GraceR] BY <1>1, Budgets
<1>3. Active => f = FinishFight(fight) OBVIOUS
<1>4. ~Active => f = fight OBVIOUS
<1> HIDE DEF f
<1>5. /\ fight' = f /\ session' \in [Fighters -> SessionR]
      /\ \A q \in Fighters : session'[q].online = session[q].online
                             /\ session'[q].authing = session[q].authing
      /\ grace' = g \/ grace' = [q \in Fighters |-> NoGrace]
  <2> HIDE DEF g
  <2> QED BY <1>1, <1>2, BecomesEffect
<1>6. CASE Active
  <2>1. Forfeited BY <1>3, <1>5, <1>6, ForfeitEffect
  <2> QED BY <1>1, <1>5, <2>1 DEF Expired
<1>7. CASE ~Active
  <2>1. session' = session BY <1>1, <1>7 DEF Becomes, Active
  <2> QED BY <1>1, <1>4, <1>5, <1>7, <2>1 DEF Expired
<1> QED BY <1>6, <1>7

\* Time passes.
Ticked ==
  /\ SomethingRuns /\ UNCHANGED <<session, seen>>
  /\ FightT(fight') /\ SameLife(fight, fight') /\ SameTurn(fight, fight')
  /\ SamePause(fight, fight') /\ fight'.disconnectedWallets = fight.disconnectedWallets
  /\ fight'.turnTimer = None <=> fight.turnTimer = None
  /\ fight'.strayTimers = Countdown(fight.strayTimers) /\ ~BagIn(0, fight.strayTimers)
  /\ fight'.gapTimers = Countdown(fight.gapTimers) /\ ~BagIn(0, fight.gapTimers)
  /\ grace' \in [Fighters -> GraceR] /\ away' \in [Fighters -> Nat]
  /\ \A p \in Fighters :
       /\ grace'[p].active = grace[p].active /\ grace'[p].usedMs = grace[p].usedMs
       /\ \/ ~grace[p].active /\ grace'[p] = grace[p]
          \/ /\ grace[p].active /\ grace[p].elapsed < GraceLeft(grace[p])
             /\ grace'[p].elapsed = grace[p].elapsed + 1
       /\ away'[p] = IF Active /\ ~session[p].online /\ away[p] <= GRACE_BUDGET_MS
                     THEN away[p] + 1 ELSE away[p]

LEMMA TickEffect == ASSUME Types, Tick PROVE Ticked
<1> DEFINE g == [fight EXCEPT !.turnTimer = IF @ = None THEN None ELSE @ - 1,
                              !.strayTimers = Countdown(@), !.gapTimers = Countdown(@)]
<1>1. /\ FightT(fight) /\ grace \in [Fighters -> GraceR] /\ away \in [Fighters -> Nat]
      /\ UNCHANGED <<session, seen>> /\ SomethingRuns
  BY DEF Types, Tick
<1>2. /\ fight.turnTimer # 0 /\ ~BagIn(0, fight.strayTimers) /\ ~BagIn(0, fight.gapTimers)
      /\ \A p \in Fighters : grace[p].active => ~(grace[p].elapsed >= GraceLeft(grace[p]))
  BY DEF Tick, SomethingDue
<1>3. /\ fight' = g
      /\ grace' = [p \in Fighters |-> IF grace[p].active
                                      THEN [grace[p] EXCEPT !.elapsed = @ + 1] ELSE grace[p]]
      /\ away' = [p \in Fighters |-> IF Active /\ ~session[p].online
                                        /\ away[p] <= GRACE_BUDGET_MS
                                     THEN away[p] + 1 ELSE away[p]]
  BY DEF Tick
<1>4. /\ DOMAIN g = Fields /\ SameLife(fight, g) /\ SameTurn(fight, g) /\ SamePause(fight, g)
      /\ g.disconnectedWallets = fight.disconnectedWallets
      /\ g.turnTimer = (IF fight.turnTimer = None THEN None ELSE fight.turnTimer - 1)
      /\ g.strayTimers = Countdown(fight.strayTimers)
      /\ g.gapTimers = Countdown(fight.gapTimers)
  BY <1>1 DEF FightT, Fields, SameLife, SameTurn, SamePause
<1> HIDE DEF g
<1>5. /\ g.turnTimer \in 0 .. TURN_TIMER_MS \cup {None}
      /\ g.turnTimer = None <=> fight.turnTimer = None
  <2>1. CASE fight.turnTimer = None BY <1>4, <2>1
  <2>2. CASE fight.turnTimer # None
    <3>1. fight.turnTimer \in 0 .. TURN_TIMER_MS BY <1>1, <2>2 DEF FightT
    <3>2. fight.turnTimer - 1 \in 0 .. TURN_TIMER_MS BY <1>2, <3>1, Budgets
    <3>3. fight.turnTimer - 1 # None BY <3>2, Budgets
    <3> QED BY <1>4, <2>2, <3>2, <3>3
  <2> QED BY <2>1, <2>2
<1>6. Timers(g.strayTimers, TURN_TIMER_MS) /\ Timers(g.gapTimers, TURN_GAP_MS)
  <2>1. /\ Timers(fight.strayTimers, TURN_TIMER_MS) /\ Timers(fight.gapTimers, TURN_GAP_MS)
        /\ TURN_TIMER_MS \in Nat /\ TURN_GAP_MS \in Nat
    BY <1>1, Budgets DEF FightT
  <2>2. Timers(Countdown(fight.strayTimers), TURN_TIMER_MS) BY <1>2, <2>1, CountdownTimers
  <2>3. Timers(Countdown(fight.gapTimers), TURN_GAP_MS) BY <1>2, <2>1, CountdownTimers
  <2> QED BY <1>4, <2>2, <2>3
<1>b. g.turnPaused \in BOOLEAN BY <1>1, <1>4 DEF FightT, SamePause
<1>7. FightT(g)
  BY <1>1, <1>4, <1>5, <1>6, <1>b DEF FightT, SameLife, SameTurn, SamePause
<1>8. ASSUME NEW p \in Fighters
      PROVE  /\ grace'[p] \in GraceR
             /\ grace'[p].active = grace[p].active /\ grace'[p].usedMs = grace[p].usedMs
             /\ \/ ~grace[p].active /\ grace'[p] = grace[p]
                \/ /\ grace[p].active /\ grace[p].elapsed < GraceLeft(grace[p])
                   /\ grace'[p].elapsed = grace[p].elapsed + 1
  <2>1. grace[p] \in GraceR BY <1>1
  <2>2. CASE ~grace[p].active
    <3>1. grace'[p] = grace[p] BY <1>3, <2>2
    <3> QED BY <2>1, <2>2, <3>1
  <2>3. CASE grace[p].active
    <3>1. /\ grace[p].elapsed \in Nat /\ grace[p].usedMs \in Nat
          /\ GraceLeft(grace[p]) = GRACE_BUDGET_MS - grace[p].usedMs
      BY <2>1, GraceFacts
    <3>2. grace[p].elapsed < GraceLeft(grace[p]) BY <1>2, <2>3, <3>1, Budgets
    <3>3. grace[p].elapsed + 1 \in 0 .. GRACE_BUDGET_MS BY <3>1, <3>2, Budgets
    <3>4. grace'[p] = [grace[p] EXCEPT !.elapsed = @ + 1] BY <1>3, <2>3
    <3>5. \A n \in 0 .. GRACE_BUDGET_MS : [grace[p] EXCEPT !.elapsed = n] \in GraceR
      BY <2>1 DEF GraceR
    <3>6. grace'[p] \in GraceR BY <3>3, <3>4, <3>5
    <3>7. /\ grace'[p].active = grace[p].active /\ grace'[p].usedMs = grace[p].usedMs
          /\ grace'[p].elapsed = grace[p].elapsed + 1
      BY <2>1, <3>4 DEF GraceR
    <3> QED BY <2>3, <3>2, <3>6, <3>7
  <2> QED BY <2>2, <2>3
<1>9. grace' \in [Fighters -> GraceR] BY <1>3, <1>8
<1>10. /\ \A p \in Fighters :
            away'[p] = IF Active /\ ~session[p].online /\ away[p] <= GRACE_BUDGET_MS
                       THEN away[p] + 1 ELSE away[p]
       /\ away' \in [Fighters -> Nat]
  BY <1>1, <1>3
<1> QED BY <1>1, <1>2, <1>3, <1>4, <1>5, <1>7, <1>8, <1>9, <1>10 DEF Ticked

LEMMA Steps ==
  ASSUME Types, Next
  PROVE  \/ Created \/ GapOver \/ Resolution \/ LateTimer \/ OneActed \/ Ticked
         \/ \E p \in Humans :
              \/ Closed(p) \/ AuthEnded(p) \/ Expired(p)
              \/ \E open \in BOOLEAN : LoggingIn(p, open)
<1>1. CASE CreateFight BY <1>1, CreateEffect
<1>2. CASE TurnTimerFires BY <1>2, TimeoutEffect
<1>3. CASE StrayTimerFires BY <1>3, TimeoutEffect
<1>4. CASE GapTimerFires BY <1>4, GapEffect
<1>5. CASE Tick BY <1>5, TickEffect
<1>6. ASSUME NEW p \in Humans, PlayerStep(p)
      PROVE  \/ Resolution \/ OneActed \/ Closed(p) \/ AuthEnded(p) \/ Expired(p)
             \/ \E open \in BOOLEAN : LoggingIn(p, open)
  <2>0. p \in Fighters BY DEF Humans, Fighters
  <2>1. CASE SubmitTurnAction(p) BY <2>0, <2>1, SubmitEffect
  <2>2. CASE SocketCloses(p) BY <2>0, <2>2, CloseEffect
  <2>3. CASE \E open \in BOOLEAN : AuthStarts(p, open)
    <3>1. PICK open \in BOOLEAN : AuthStarts(p, open) BY <2>3
    <3>2. LoggingIn(p, open) BY <2>0, <3>1, LoginEffect
    <3> QED BY <3>2
  <2>4. CASE AuthEnds(p) BY <2>0, <2>4, AuthEffect
  <2>5. CASE GraceExpires(p) BY <2>0, <2>5, ExpiryEffect
  <2> QED BY <1>6, <2>1, <2>2, <2>3, <2>4, <2>5 DEF PlayerStep
<1> QED BY <1>1, <1>2, <1>3, <1>4, <1>5, <1>6 DEF Next

LEMMA TypesInit == ASSUME Init PROVE Types
<1>1. /\ DOMAIN fight = Fields /\ fight.type \in {"pvp", "bot"} /\ fight.status = "creating"
      /\ fight.turn = 0 /\ fight.turnActions = {} /\ fight.disconnectedWallets = {}
      /\ fight.turnPaused = FALSE /\ fight.turnPausedRemainingMs = 0
      /\ fight.turnTimer = None /\ fight.strayTimers = EmptyBag /\ fight.gapTimers = EmptyBag
      /\ fight.turnResults = <<>> /\ fight.finishes = 0
  <2>1. PICK t \in {"pvp", "bot"} :
          fight = [type |-> t, status |-> "creating", turn |-> 0, turnActions |-> {},
                   disconnectedWallets |-> {}, turnPaused |-> FALSE,
                   turnPausedRemainingMs |-> 0, turnTimer |-> None,
                   strayTimers |-> EmptyBag, gapTimers |-> EmptyBag,
                   turnResults |-> <<>>, finishes |-> 0]
    BY DEF Init
  <2> QED BY <2>1 DEF Fields
<1>2. Timers(EmptyBag, TURN_TIMER_MS) /\ Timers(EmptyBag, TURN_GAP_MS)
  BY Budgets, EmptyTimers
<1>b. fight.turnPaused \in BOOLEAN BY <1>1
<1>3. 0 \in 0 .. TURN_TIMER_MS /\ <<>> \in Seq(Nat) BY Budgets
<1>4. FightT(fight) BY <1>1, <1>2, <1>3, <1>b DEF FightT
<1>5. grace \in [Fighters -> GraceR] BY Budgets DEF Init
<1>6. [online |-> TRUE, seat |-> FALSE, authing |-> 0] \in SessionR
  <2>1. 0 \in 0 .. MaxAuth BY Budgets
  <2>2. \A a, b \in BOOLEAN : [online |-> a, seat |-> b, authing |-> 0] \in SessionR
    BY <2>1 DEF SessionR
  <2> QED BY <2>2
<1>7. session \in [Fighters -> SessionR] BY <1>6 DEF Init
<1> QED BY <1>4, <1>5, <1>7 DEF Types, Init

LEMMA TypesStep == ASSUME Types, [Next]_vars PROVE Types'
<1>0. FightT(fight) /\ session \in [Fighters -> SessionR] /\ grace \in [Fighters -> GraceR]
      /\ seen \subseteq Events /\ away \in [Fighters -> Nat]
  BY DEF Types
<1>1. CASE UNCHANGED vars BY <1>0, <1>1 DEF vars, Types
<1>e. "absent_at_start" \in Events /\ "late_auth" \in Events /\ "replaced" \in Events
  BY DEF Events
<1>2. CASE Created BY <1>0, <1>e, <1>2 DEF Created, NewTurn, Types
<1>3. CASE GapOver BY <1>0, <1>3 DEF GapOver, NewTurn, Types
<1>4. CASE Resolution BY <1>0, <1>4 DEF Resolution, KeepPlayers, Types
<1>5. CASE LateTimer BY <1>0, <1>5 DEF LateTimer, Types
<1>6. CASE OneActed BY <1>0, <1>6 DEF OneActed, Types
<1>7. CASE Ticked BY <1>0, <1>7 DEF Ticked, Types
<1>8. ASSUME NEW p \in Fighters, Closed(p) PROVE Types'
  <2>1. grace[p] \in GraceR BY <1>0
  <2>2. \A b \in BOOLEAN : [active |-> b, elapsed |-> 0, usedMs |-> grace[p].usedMs] \in GraceR
    BY <2>1, Budgets DEF GraceR
  <2>3. [active |-> TRUE, elapsed |-> 0, usedMs |-> grace[p].usedMs] \in GraceR BY <2>2
  <2>4. grace' \in [Fighters -> GraceR] BY <1>0, <1>8, <2>3, Budgets DEF Closed
  <2>5. FightT(fight') BY <1>0, <1>8 DEF Closed, Forfeited
  <2> QED BY <1>0, <1>8, <2>4, <2>5 DEF Closed, Types
<1>9. ASSUME NEW p \in Fighters, AuthEnded(p) PROVE Types'
  <2>1. MarkReconnect(grace[p]) \in GraceR BY <1>0, GraceFacts
  <2>2. grace' \in [Fighters -> GraceR] BY <1>0, <1>9, <2>1 DEF AuthEnded, LoggedIn, Returned
  <2>3. FightT(fight') /\ seen' \subseteq Events
    BY <1>0, <1>9 DEF AuthEnded, LoggedIn, Returned
  <2> QED BY <1>0, <1>9, <2>2, <2>3 DEF AuthEnded, Types
<1>10. ASSUME NEW p \in Fighters, Expired(p) PROVE Types'
  <2>1. grace' \in [Fighters -> GraceR] BY <1>0, <1>10, Budgets DEF Expired
  <2>2. FightT(fight') BY <1>0, <1>10 DEF Expired, Forfeited
  <2> QED BY <1>0, <1>10, <2>1, <2>2 DEF Expired, Types
<1>11. ASSUME NEW p \in Fighters, NEW open \in BOOLEAN, LoggingIn(p, open) PROVE Types'
  BY <1>0, <1>e, <1>11 DEF LoggingIn, Types
<1>h. \A p \in Humans : p \in Fighters BY DEF Humans, Fighters
<1> QED BY <1>1, <1>2, <1>3, <1>4, <1>5, <1>6, <1>7, <1>8, <1>9, <1>10, <1>11, <1>h, Steps

LEMMA SpecTypes == Spec => []Types
BY TypesInit, TypesStep, PTL DEF Spec

LEMMA TypesSuffice == ASSUME Types PROVE TypeOK
<1>1. /\ FightT(fight) /\ session \in [Fighters -> SessionR] /\ grace \in [Fighters -> GraceR]
      /\ seen \subseteq Events /\ away \in [Fighters -> Nat]
  BY DEF Types
<1>2. IsABag(fight.strayTimers) /\ IsABag(fight.gapTimers)
  BY <1>1 DEF FightT, Timers, IsABag
<1>3. DOMAIN fight.strayTimers \subseteq 0 .. TURN_TIMER_MS
      /\ DOMAIN fight.gapTimers \subseteq 0 .. TURN_GAP_MS
  BY <1>1 DEF FightT, Timers
<1>4. /\ grace \in [Fighters -> [active : BOOLEAN, elapsed : 0 .. GRACE_BUDGET_MS,
                               usedMs : 0 .. GRACE_BUDGET_MS]]
      /\ session \in [Fighters -> [online : BOOLEAN, seat : BOOLEAN, authing : 0 .. MaxAuth]]
  BY <1>1 DEF GraceR, SessionR
<1> QED BY <1>1, <1>2, <1>3, <1>4 DEF FightT, TypeOK

\* Every state of a fight is of its type, whatever the timers, the budget and
\* the bounds.
THEOREM TypeCorrect == Spec => []TypeOK
BY SpecTypes, TypesSuffice, PTL

(***************************************************************************)
(* A fight is always driven to its one end                                 *)
(***************************************************************************)
Fresh ==
  fight.status = "creating" =>
    /\ fight.turn = 0 /\ fight.turnResults = <<>> /\ fight.disconnectedWallets = {}
    /\ fight.turnTimer = None /\ fight.strayTimers = EmptyBag /\ fight.gapTimers = EmptyBag
    /\ \A p \in Fighters : grace[p] = NoGrace /\ away[p] = 0

OneEnd == fight.finishes = IF fight.status = "finished" THEN 1 ELSE 0

PauseHolds == fight.turnPaused => fight.turnTimer = None

Driven ==
  \/ fight.turnPaused \/ fight.turnTimer # None
  \/ fight.strayTimers # EmptyBag \/ fight.gapTimers # EmptyBag

Absentees ==
  Active => /\ fight.disconnectedWallets = {p \in Fighters : grace[p].active}
            /\ fight.turnPaused => fight.disconnectedWallets # {}
            /\ fight.disconnectedWallets # {} => fight.turnTimer = None
            /\ Driven

\* The inductive invariant: a turn that is not paused has a timer, and one that
\* is paused has an absentee, whose forfeit timer runs.
FightInv == Fresh /\ OneEnd /\ PauseHolds /\ Absentees

LEMMA FightInvInit == ASSUME Init PROVE FightInv
<1>1. /\ fight.status = "creating" /\ fight.turn = 0 /\ fight.turnResults = <<>>
      /\ fight.disconnectedWallets = {} /\ fight.turnTimer = None
      /\ fight.strayTimers = EmptyBag /\ fight.gapTimers = EmptyBag /\ fight.finishes = 0
  BY DEF Init
<1>2. \A p \in Fighters : grace[p] = NoGrace /\ away[p] = 0 BY DEF Init
<1> QED BY <1>1, <1>2 DEF FightInv, Fresh, OneEnd, PauseHolds, Absentees, Active

\* A fight that was forfeited keeps the invariant, whatever becomes of its players.
LEMMA FightInvForfeit == ASSUME FightInv, Forfeited PROVE FightInv'
<1>1. fight.finishes = 0 /\ fight'.status = "finished" /\ fight'.finishes = 1
  BY DEF FightInv, OneEnd, Forfeited, Active
<1>2. fight'.turnPaused = FALSE BY DEF Forfeited
<1> QED BY <1>1, <1>2 DEF FightInv, Fresh, OneEnd, PauseHolds, Absentees, Active

LEMMA FightInvNewTurn ==
  ASSUME FightInv, NewTurn, grace' = grace, Active \/ fight.status = "creating"
  PROVE  FightInv'
<1>1. fight.disconnectedWallets = {p \in Fighters : grace[p].active}
  <2>1. CASE Active BY <2>1 DEF FightInv, Absentees
  <2>2. CASE fight.status = "creating"
    BY <2>2 DEF FightInv, Fresh, NoGrace
  <2> QED BY <2>1, <2>2
<1>2. /\ fight'.status = "active" /\ fight'.finishes = 0
      /\ fight'.disconnectedWallets = fight.disconnectedWallets
      /\ fight'.turnPaused <=> fight.disconnectedWallets # {}
      /\ fight'.turnTimer = IF fight.disconnectedWallets # {} THEN None ELSE TURN_TIMER_MS
  BY DEF NewTurn, FightInv, OneEnd, Active
<1>3. TURN_TIMER_MS # None BY Budgets
<1>4. PauseHolds' /\ Driven' BY <1>2, <1>3 DEF PauseHolds, Driven
<1>5. Absentees' BY <1>1, <1>2, <1>4 DEF Absentees
<1> QED BY <1>2, <1>4, <1>5 DEF FightInv, Fresh, OneEnd

LEMMA FightInvResolution == ASSUME Types, FightInv, Resolution PROVE FightInv'
<1>1. PICK f : Due(f) /\ Resolved(f) BY DEF Resolution
<1>2. /\ Active /\ fight.finishes = 0 /\ f.finishes = 0 /\ f.status = "active"
      /\ f.disconnectedWallets = fight.disconnectedWallets
      /\ fight'.disconnectedWallets = fight.disconnectedWallets
  BY <1>1 DEF Resolution, FightInv, OneEnd, Active, Due, Resolved
<1>3. f.turnPaused => f.turnTimer = None /\ fight.turnPaused
  BY <1>1 DEF Due, FightInv, PauseHolds
<1>4. f.turnTimer = None \/ f.turnTimer = fight.turnTimer BY <1>1 DEF Due
<1>5. CASE fight'.status = "finished"
  <2>1. /\ fight'.finishes = 1 /\ fight'.turnPaused = FALSE
    BY <1>1, <1>2, <1>5 DEF Resolved
  <2> QED BY <1>5, <2>1 DEF FightInv, Fresh, OneEnd, PauseHolds, Absentees, Active
<1>6. CASE fight'.status # "finished"
  <2>1. /\ fight'.status = "active" /\ fight'.finishes = 0
        /\ fight'.turnTimer = f.turnTimer /\ fight'.turnPaused = f.turnPaused
        /\ fight'.gapTimers = f.gapTimers (+) SetToBag({TURN_GAP_MS})
        /\ grace' = grace
    BY <1>1, <1>2, <1>6 DEF Resolved, Resolution, KeepPlayers
  <2>2. fight'.gapTimers # EmptyBag
    <3>1. Timers(f.gapTimers, TURN_GAP_MS) BY <1>1 DEF Due, FightT
    <3>2. TURN_GAP_MS \in Nat /\ TURN_GAP_MS \in 0 .. TURN_GAP_MS BY Budgets
    <3>3. f.gapTimers (+) SetToBag({TURN_GAP_MS}) # EmptyBag BY <3>1, <3>2, AddTimer
    <3> QED BY <2>1, <3>3
  <2>3. PauseHolds' /\ Driven' BY <1>3, <2>1, <2>2 DEF PauseHolds, Driven
  <2>4. Absentees'
    BY <1>2, <1>3, <1>4, <2>1, <2>3 DEF Absentees, FightInv, Active
  <2> QED BY <2>1, <2>3, <2>4 DEF FightInv, Fresh, OneEnd
<1> QED BY <1>5, <1>6

LEMMA FightInvClosed ==
  ASSUME Types, FightInv, NEW p \in Fighters, Closed(p) PROVE FightInv'
<1>1. CASE Forfeited BY <1>1, FightInvForfeit
<1>2. CASE fight' = fight /\ grace' = grace
  BY <1>2 DEF Closed, FightInv, Fresh, OneEnd, PauseHolds, Absentees, Driven, Active
<1>3. CASE /\ Active /\ ~grace[p].active
           /\ FightT(fight') /\ SameLife(fight, fight') /\ SameTurn(fight, fight')
           /\ fight'.disconnectedWallets = fight.disconnectedWallets \cup {p}
           /\ fight'.strayTimers = fight.strayTimers /\ fight'.gapTimers = fight.gapTimers
           /\ fight'.turnPaused = TRUE
           /\ \/ fight'.turnTimer = None
              \/ fight.turnPaused /\ fight'.turnTimer = fight.turnTimer
           /\ grace' = [grace EXCEPT ![p] = [active |-> TRUE, elapsed |-> 0,
                                             usedMs |-> grace[p].usedMs]]
  <2>1. fight'.turnTimer = None BY <1>3 DEF FightInv, PauseHolds
  <2>2. /\ fight'.status = "active" /\ fight.finishes = 0 /\ fight'.finishes = 0
    BY <1>3 DEF SameLife, Active, FightInv, OneEnd
  <2>3. fight'.disconnectedWallets = {q \in Fighters : grace'[q].active}
    <3>1. grace \in [Fighters -> GraceR] BY DEF Types
    <3>2. grace'[p].active = TRUE BY <1>3, <3>1
    <3>3. \A q \in Fighters : q # p => grace'[q] = grace[q] BY <1>3, <3>1
    <3>4. fight.disconnectedWallets = {q \in Fighters : grace[q].active}
      BY <1>3 DEF FightInv, Absentees
    <3> QED BY <1>3, <3>2, <3>3, <3>4
  <2>4. PauseHolds' /\ Driven' BY <1>3, <2>1 DEF PauseHolds, Driven
  <2>5. Absentees' BY <1>3, <2>1, <2>3, <2>4 DEF Absentees
  <2> QED BY <2>2, <2>4, <2>5 DEF FightInv, Fresh, OneEnd
<1> QED BY <1>1, <1>2, <1>3 DEF Closed

LEMMA FightInvAuthEnded ==
  ASSUME Types, FightInv, NEW p \in Fighters, AuthEnded(p) PROVE FightInv'
<1>0. grace \in [Fighters -> GraceR] /\ FightT(fight) /\ away' = away
  BY DEF Types, AuthEnded
<1>1. CASE LoggedIn(p)
  <2>1. /\ ~(grace[p].active /\ Active) /\ fight' = fight
        /\ grace' = IF grace[p].active THEN [grace EXCEPT ![p] = MarkReconnect(grace[p])]
                    ELSE grace
    BY <1>1 DEF LoggedIn
  <2>2. CASE ~grace[p].active
    <3>1. grace' = grace BY <2>1, <2>2
    <3> QED BY <1>0, <2>1, <3>1
          DEF FightInv, Fresh, OneEnd, PauseHolds, Absentees, Driven, Active
  <2>3. CASE grace[p].active
    <3>1. fight.status # "creating" BY <2>3 DEF FightInv, Fresh, NoGrace
    <3>2. ~Active BY <2>1, <2>3
    <3> QED BY <2>1, <3>1, <3>2
          DEF FightInv, Fresh, OneEnd, PauseHolds, Absentees, Active
  <2> QED BY <2>2, <2>3
<1>2. CASE Returned(p)
  <2>1. /\ Active /\ grace' = [grace EXCEPT ![p] = MarkReconnect(grace[p])]
        /\ SameLife(fight, fight')
        /\ fight'.disconnectedWallets = fight.disconnectedWallets \ {p}
        /\ fight'.strayTimers = fight.strayTimers /\ fight'.gapTimers = fight.gapTimers
        /\ \/ /\ fight.turnPaused /\ fight'.disconnectedWallets = {}
              /\ fight'.turnPaused = FALSE /\ fight'.turnTimer = fight.turnPausedRemainingMs
           \/ /\ ~fight.turnPaused \/ fight'.disconnectedWallets # {}
              /\ fight'.turnPaused = fight.turnPaused /\ fight'.turnTimer = fight.turnTimer
    BY <1>2 DEF Returned
  <2>2. fight'.status = "active" /\ fight'.finishes = 0
    BY <2>1 DEF SameLife, Active, FightInv, OneEnd
  <2>3. fight'.disconnectedWallets = {q \in Fighters : grace'[q].active}
    <3>1. ~grace'[p].active
      <4>1. ~MarkReconnect(grace[p]).active BY <1>0, GraceFacts
      <4> QED BY <1>0, <2>1, <4>1
    <3>2. \A q \in Fighters : q # p => grace'[q] = grace[q] BY <1>0, <2>1
    <3>3. fight.disconnectedWallets = {q \in Fighters : grace[q].active}
      BY <2>1 DEF FightInv, Absentees
    <3> QED BY <2>1, <3>1, <3>2, <3>3
  <2>4. fight.turnPausedRemainingMs # None BY <1>0, Budgets DEF FightT
  <2>5. PauseHolds' BY <2>1 DEF FightInv, PauseHolds
  <2>6. Driven' BY <2>1, <2>4 DEF FightInv, Absentees, Driven
  <2>7. fight'.turnPaused => fight'.disconnectedWallets # {}
    BY <2>1
  <2>8. fight'.disconnectedWallets # {} => fight'.turnTimer = None
    BY <2>1 DEF FightInv, Absentees
  <2>9. Absentees' BY <2>3, <2>6, <2>7, <2>8 DEF Absentees
  <2> QED BY <2>2, <2>5, <2>9 DEF FightInv, Fresh, OneEnd
<1> QED BY <1>1, <1>2 DEF AuthEnded

LEMMA FightInvTicked == ASSUME Types, FightInv, Ticked PROVE FightInv'
<1>1. FightT(fight) BY DEF Types
<1>2. /\ SomethingRuns /\ SameLife(fight, fight') /\ SameTurn(fight, fight')
      /\ SamePause(fight, fight') /\ fight'.disconnectedWallets = fight.disconnectedWallets
      /\ fight'.turnTimer = None <=> fight.turnTimer = None
      /\ fight'.strayTimers = Countdown(fight.strayTimers) /\ ~BagIn(0, fight.strayTimers)
      /\ fight'.gapTimers = Countdown(fight.gapTimers) /\ ~BagIn(0, fight.gapTimers)
      /\ \A p \in Fighters : grace'[p].active = grace[p].active
  BY DEF Ticked
<1>3. fight.status # "creating"
  BY <1>2 DEF FightInv, Fresh, NoGrace, SomethingRuns
<1>4. /\ fight.strayTimers # EmptyBag => fight'.strayTimers # EmptyBag
      /\ fight.gapTimers # EmptyBag => fight'.gapTimers # EmptyBag
  <2>1. /\ Timers(fight.strayTimers, TURN_TIMER_MS) /\ Timers(fight.gapTimers, TURN_GAP_MS)
        /\ TURN_TIMER_MS \in Nat /\ TURN_GAP_MS \in Nat
    BY <1>1, Budgets DEF FightT
  <2>2. fight.strayTimers # EmptyBag => Countdown(fight.strayTimers) # EmptyBag
    BY <1>2, <2>1, CountdownTimers
  <2>3. fight.gapTimers # EmptyBag => Countdown(fight.gapTimers) # EmptyBag
    BY <1>2, <2>1, CountdownTimers
  <2> QED BY <1>2, <2>2, <2>3
<1>5. fight'.turnPaused = fight.turnPaused /\ fight'.status = fight.status
      /\ fight'.finishes = fight.finishes
  BY <1>2 DEF SamePause, SameLife
<1>6. PauseHolds' BY <1>2, <1>5 DEF FightInv, PauseHolds
<1>7. Driven => Driven' BY <1>2, <1>4, <1>5 DEF Driven
<1>8. {p \in Fighters : grace'[p].active} = {p \in Fighters : grace[p].active} BY <1>2
<1>9. Absentees' BY <1>2, <1>5, <1>7, <1>8 DEF FightInv, Absentees, Active
<1> QED BY <1>3, <1>5, <1>6, <1>9 DEF FightInv, Fresh, OneEnd

LEMMA FightInvStep == ASSUME Types, FightInv, [Next]_vars PROVE FightInv'
<1>1. CASE UNCHANGED vars
  BY <1>1 DEF vars, FightInv, Fresh, OneEnd, PauseHolds, Absentees, Driven, Active
<1>2. CASE Created
  <2>1. fight.status = "creating" /\ NewTurn /\ grace' = grace BY <1>2 DEF Created
  <2> QED BY <2>1, FightInvNewTurn
<1>3. CASE GapOver
  <2>1. grace' = grace /\ away' = away /\ BagIn(0, fight.gapTimers) BY <1>3 DEF GapOver
  <2>2. CASE Active /\ NewTurn BY <2>1, <2>2, FightInvNewTurn
  <2>3. CASE /\ ~Active /\ Differs(fight, fight') /\ fight'.status = fight.status
             /\ fight'.turnTimer = fight.turnTimer
    <3>1. fight.gapTimers # EmptyBag
      BY <2>1, EmptyDomain DEF EmptyBag, SetToBag, BagIn, BagToSet
    <3>2. fight'.status = "finished"
      <4>1. fight.status # "creating" BY <3>1 DEF FightInv, Fresh
      <4>2. fight.status \in {"creating", "active", "finished"} BY DEF Types, FightT
      <4> QED BY <2>3, <4>1, <4>2 DEF Active
    <3>3. fight'.finishes = 1 /\ fight'.turnPaused = fight.turnPaused
      BY <2>3, <3>2 DEF Differs, SamePause, FightInv, OneEnd
    <3> QED BY <2>3, <3>2, <3>3
          DEF FightInv, Fresh, OneEnd, PauseHolds, Absentees, Active
  <2> QED BY <1>3, <2>2, <2>3 DEF GapOver
<1>4. CASE Resolution BY <1>4, FightInvResolution
<1>5. CASE LateTimer
  <2>1. /\ ~Active /\ Differs(fight, fight') /\ fight'.status = fight.status
        /\ fight'.turnTimer = None \/ fight'.turnTimer = fight.turnTimer
        /\ fight.turnTimer # None \/ BagIn(0, fight.strayTimers)
    BY <1>5 DEF LateTimer
  <2>2. fight'.status = "finished"
    <3>1. ~BagIn(0, EmptyBag) BY DEF EmptyBag, SetToBag, BagIn, BagToSet
    <3>2. fight.status # "creating" BY <2>1, <3>1 DEF FightInv, Fresh
    <3>3. fight.status \in {"creating", "active", "finished"} BY DEF Types, FightT
    <3> QED BY <2>1, <3>2, <3>3 DEF Active
  <2>3. fight'.finishes = 1 /\ fight'.turnPaused = fight.turnPaused
    BY <2>1, <2>2 DEF Differs, SamePause, FightInv, OneEnd
  <2> QED BY <2>1, <2>2, <2>3 DEF FightInv, Fresh, OneEnd, PauseHolds, Absentees, Active
<1>6. CASE OneActed
  <2>1. /\ Active /\ grace' = grace /\ fight'.status = fight.status
        /\ fight'.disconnectedWallets = fight.disconnectedWallets
        /\ fight'.turnTimer = fight.turnTimer /\ fight'.strayTimers = fight.strayTimers
        /\ fight'.gapTimers = fight.gapTimers /\ fight'.turnPaused = fight.turnPaused
        /\ fight'.finishes = fight.finishes
    BY <1>6 DEF OneActed, Differs, SamePause, SameTimers
  <2> QED BY <2>1 DEF FightInv, Fresh, OneEnd, PauseHolds, Absentees, Driven, Active
<1>7. CASE Ticked BY <1>7, FightInvTicked
<1>8. ASSUME NEW p \in Fighters, Expired(p) PROVE FightInv'
  <2>1. CASE Forfeited BY <2>1, FightInvForfeit
  <2>2. CASE ~Active /\ fight' = fight
    <3>1. fight.status # "creating" BY <1>8 DEF Expired, FightInv, Fresh, NoGrace
    <3> QED BY <2>2, <3>1 DEF FightInv, Fresh, OneEnd, PauseHolds, Absentees, Active
  <2> QED BY <1>8, <2>1, <2>2 DEF Expired
<1>9. ASSUME NEW p \in Fighters, NEW open \in BOOLEAN, LoggingIn(p, open) PROVE FightInv'
  <2>1. fight' = fight /\ grace' = grace /\ away' = away BY <1>9 DEF LoggingIn
  <2> QED BY <2>1 DEF FightInv, Fresh, OneEnd, PauseHolds, Absentees, Driven, Active
<1>h. \A p \in Humans : p \in Fighters BY DEF Humans, Fighters
<1> QED BY <1>1, <1>2, <1>3, <1>4, <1>5, <1>6, <1>7, <1>8, <1>9, <1>h,
           FightInvClosed, FightInvAuthEnded, Steps

LEMMA SpecFightInv == Spec => [](Types /\ FightInv)
<1>1. Init => Types /\ FightInv BY TypesInit, FightInvInit
<1>2. Types /\ FightInv /\ [Next]_vars => (Types /\ FightInv)' BY TypesStep, FightInvStep
<1> QED BY <1>1, <1>2, PTL DEF Spec

\* An active fight always has a timer that will move it, counts as absent those
\* whose forfeit timer runs, and is ended at most once: for all timers,
\* disconnects, logins and bounds.
THEOREM EveryFightIsDriven == Spec => []DrivenToOneEnd
<1>1. ASSUME Types, FightInv PROVE DrivenToOneEnd
  <2>1. AbsenceIsTimed BY <1>1 DEF FightInv, Absentees, AbsenceIsTimed
  <2>2. SomethingDrivesTheFight
    BY <1>1 DEF FightInv, Absentees, Driven, SomethingDrivesTheFight, SomethingRuns
  <2>3. FinishedOnce BY <1>1 DEF FightInv, OneEnd, FinishedOnce
  <2> QED BY <2>1, <2>2, <2>3 DEF DrivenToOneEnd
<1> QED BY <1>1, SpecFightInv, PTL

(***************************************************************************)
(* One turn at a time                                                      *)
(***************************************************************************)
Unmixed == "resumed_between_turns" \notin seen

OneClock ==
  /\ fight.strayTimers = EmptyBag
  /\ \/ fight.gapTimers = EmptyBag
     \/ /\ fight.turnTimer = None
        /\ \E d \in 0 .. TURN_GAP_MS : fight.gapTimers = SetToBag({d})

InOrder == fight.turnResults = [i \in 1 .. Len(fight.turnResults) |-> i]

TurnOpen == fight.gapTimers = EmptyBag /\ fight.turn = Len(fight.turnResults) + 1

BetweenTurns ==
  /\ fight.gapTimers # EmptyBag /\ fight.turn = Len(fight.turnResults)
  /\ fight.turnActions = Fighters

\* The inductive invariant: between two turns no turn timer runs and everybody
\* has acted, so that nothing can resolve the old turn once more.
OrderInv == Unmixed => OneClock /\ InOrder /\ (Active => TurnOpen \/ BetweenTurns)

LEMMA OrderInvInit == ASSUME Init PROVE OrderInv
<1>1. /\ fight.status = "creating" /\ fight.turnResults = <<>>
      /\ fight.strayTimers = EmptyBag /\ fight.gapTimers = EmptyBag
  BY DEF Init
<1>2. <<>> = [i \in 1 .. Len(<<>>) |-> i] OBVIOUS
<1> QED BY <1>1, <1>2 DEF OrderInv, OneClock, InOrder, Active

\* Steps that leave turns and timers alone, or end the fight.
LEMMA OrderInvSame ==
  ASSUME OrderInv, seen \subseteq seen',
         fight'.strayTimers = fight.strayTimers, fight'.gapTimers = fight.gapTimers,
         fight'.turnResults = fight.turnResults,
         \/ fight'.turnTimer = None \/ fight'.turnTimer = fight.turnTimer
         \/ fight.gapTimers = EmptyBag \/ ~Unmixed',
         \/ fight'.status = "finished"
         \/ /\ fight'.status = fight.status /\ fight'.turn = fight.turn
            /\ fight'.turnActions = fight.turnActions
  PROVE  OrderInv'
<1>1. ASSUME Unmixed' PROVE Unmixed BY <1>1 DEF Unmixed
<1> QED BY <1>1 DEF OrderInv, OneClock, InOrder, TurnOpen, BetweenTurns, Active

LEMMA OrderInvNewTurn ==
  ASSUME Types, FightInv, OrderInv, NewTurn, seen \subseteq seen',
         \/ fight.status = "creating" /\ fight'.gapTimers = fight.gapTimers
         \/ /\ Active /\ BagIn(0, fight.gapTimers)
            /\ fight'.gapTimers = fight.gapTimers (-) SetToBag({0})
  PROVE  OrderInv'
<1> SUFFICES ASSUME Unmixed'
             PROVE  OneClock' /\ InOrder' /\ (TurnOpen' \/ BetweenTurns')
  BY DEF OrderInv
<1>1. OneClock /\ InOrder /\ (Active => TurnOpen \/ BetweenTurns) BY DEF OrderInv, Unmixed
<1>2. /\ fight'.turnResults = fight.turnResults /\ fight'.turn = fight.turn + 1
      /\ fight.turnTimer = None => fight'.strayTimers = fight.strayTimers
  BY DEF NewTurn
<1>3. /\ fight'.gapTimers = EmptyBag /\ fight.turnTimer = None
      /\ fight.turn = Len(fight.turnResults)
  <2>1. CASE fight.status = "creating" /\ fight'.gapTimers = fight.gapTimers
    BY <2>1 DEF FightInv, Fresh
  <2>2. CASE /\ Active /\ BagIn(0, fight.gapTimers)
             /\ fight'.gapTimers = fight.gapTimers (-) SetToBag({0})
    <3>1. fight.gapTimers # EmptyBag
      BY <2>2, EmptyDomain DEF EmptyBag, SetToBag, BagIn, BagToSet
    <3>2. PICK d \in 0 .. TURN_GAP_MS : fight.gapTimers = SetToBag({d})
      BY <1>1, <3>1 DEF OneClock
    <3>3. Timers(fight.gapTimers, TURN_GAP_MS) /\ TURN_GAP_MS \in Nat
      BY Budgets DEF Types, FightT
    <3>4. fight.gapTimers (-) SetToBag({0}) = EmptyBag BY <2>2, <3>2, <3>3, TakeTimer
    <3> QED BY <1>1, <2>2, <3>1, <3>4 DEF OneClock, TurnOpen, BetweenTurns
  <2> QED BY <2>1, <2>2
<1> QED BY <1>1, <1>2, <1>3 DEF OneClock, InOrder, TurnOpen

LEMMA NextInOrder ==
  ASSUME NEW s \in Seq(Nat), s = [i \in 1 .. Len(s) |-> i]
  PROVE  LET r == Append(s, Len(s) + 1)
         IN  Len(r) = Len(s) + 1 /\ r = [i \in 1 .. Len(s) + 1 |-> i]
<1> DEFINE n == Len(s)
           r == Append(s, n + 1)
<1>1. n \in Nat BY LenProperties
<1>2. /\ r \in Seq(Nat) /\ Len(r) = n + 1 /\ r[n + 1] = n + 1
      /\ \A i \in 1 .. n : r[i] = s[i]
  BY <1>1, AppendProperties
<1>3. \A i \in 1 .. n : s[i] = i OBVIOUS
<1> HIDE DEF n, r
<1>4. ASSUME NEW i \in 1 .. n + 1 PROVE r[i] = i
  <2>1. i = n + 1 \/ i \in 1 .. n BY <1>1
  <2> QED BY <1>2, <1>3, <2>1
<1>5. r = [i \in 1 .. n + 1 |-> r[i]] BY <1>2, LenProperties
<1>6. r = [i \in 1 .. n + 1 |-> i] BY <1>4, <1>5
<1> QED BY <1>2, <1>6 DEF n, r

LEMMA OrderInvResolution ==
  ASSUME Types, FightInv, OrderInv, Resolution PROVE OrderInv'
<1> SUFFICES ASSUME Unmixed'
             PROVE  OneClock' /\ InOrder' /\ (Active' => TurnOpen' \/ BetweenTurns')
  BY DEF OrderInv
<1>1. PICK f : Due(f) /\ Resolved(f) BY DEF Resolution
<1>2. Active /\ FightT(fight) /\ Unmixed BY DEF Types, Resolution, Unmixed
<1>3. OneClock /\ InOrder /\ (TurnOpen \/ BetweenTurns) BY <1>2 DEF OrderInv
<1>4. /\ f.turn = fight.turn /\ f.turnResults = fight.turnResults
      /\ f.gapTimers = fight.gapTimers /\ f.turnActions = Fighters
      /\ f.turnTimer = None /\ f.strayTimers = fight.strayTimers
      /\ fight.turnActions # Fighters \/ fight.turnTimer # None
  <2>1. ~BagIn(0, fight.strayTimers)
    BY <1>3 DEF OneClock, EmptyBag, SetToBag, BagIn, BagToSet
  <2> QED BY <1>1, <2>1 DEF Due
<1>5. TurnOpen BY <1>3, <1>4 DEF OneClock, BetweenTurns
<1>6. /\ fight'.turn = fight.turn /\ fight'.turnActions = Fighters
      /\ fight'.strayTimers = EmptyBag
      /\ fight'.turnResults = Append(fight.turnResults, fight.turn)
      /\ fight'.turnTimer = None
      /\ \/ fight'.status = "finished" /\ fight'.gapTimers = EmptyBag
         \/ fight'.gapTimers = EmptyBag (+) SetToBag({TURN_GAP_MS})
  BY <1>1, <1>3, <1>4, <1>5 DEF Resolved, OneClock, TurnOpen
<1> DEFINE n == Len(fight.turnResults)
<1>7. /\ fight.turnResults \in Seq(Nat) /\ n \in Nat /\ fight.turn = n + 1 /\ fight.turn \in Nat
  BY <1>2, <1>5 DEF FightT, TurnOpen
<1>8. Len(fight'.turnResults) = n + 1 /\ InOrder'
  <2>1. fight'.turnResults = Append(fight.turnResults, n + 1) BY <1>6, <1>7
  <2>2. fight.turnResults = [i \in 1 .. n |-> i] BY <1>3 DEF InOrder
  <2>3. Len(fight'.turnResults) = n + 1 /\ fight'.turnResults = [i \in 1 .. n + 1 |-> i]
    BY <1>7, <2>1, <2>2, NextInOrder
  <2> QED BY <2>3 DEF InOrder
<1>9. EmptyBag (+) SetToBag({TURN_GAP_MS}) = SetToBag({TURN_GAP_MS})
      /\ SetToBag({TURN_GAP_MS}) # EmptyBag /\ TURN_GAP_MS \in 0 .. TURN_GAP_MS
  <2>1. TURN_GAP_MS \in Nat /\ TURN_GAP_MS \in 0 .. TURN_GAP_MS BY Budgets
  <2>2. Timers(EmptyBag, TURN_GAP_MS) BY <2>1, EmptyTimers
  <2> QED BY <2>1, <2>2, AddTimer
<1>10. OneClock' BY <1>6, <1>9 DEF OneClock
<1>11. Active' => BetweenTurns' BY <1>6, <1>7, <1>8, <1>9 DEF Active, BetweenTurns
<1> QED BY <1>8, <1>10, <1>11

LEMMA OrderInvStep ==
  ASSUME Types, FightInv, OrderInv, [Next]_vars PROVE OrderInv'
<1>1. CASE UNCHANGED vars
  BY <1>1 DEF vars, OrderInv, Unmixed, OneClock, InOrder, TurnOpen, BetweenTurns, Active
<1>2. CASE Created
  <2>1. /\ fight.status = "creating" /\ NewTurn /\ fight'.gapTimers = fight.gapTimers
        /\ seen \subseteq seen'
    BY <1>2 DEF Created
  <2> QED BY <2>1, OrderInvNewTurn
<1>3. CASE GapOver
  <2>1. /\ BagIn(0, fight.gapTimers) /\ fight'.gapTimers = fight.gapTimers (-) SetToBag({0})
        /\ seen' = seen
    BY <1>3 DEF GapOver
  <2>2. CASE Active /\ NewTurn
    <3>1. seen \subseteq seen' BY <2>1
    <3> QED BY <2>1, <2>2, <3>1, OrderInvNewTurn
  <2>3. CASE /\ ~Active /\ Differs(fight, fight') /\ fight'.status = fight.status
             /\ fight'.turnTimer = fight.turnTimer /\ fight'.strayTimers = fight.strayTimers
    <3> SUFFICES ASSUME Unmixed' PROVE OneClock' /\ InOrder' /\ ~Active'
      BY DEF OrderInv
    <3>1. OneClock /\ InOrder BY <2>1 DEF OrderInv, Unmixed
    <3>2. fight'.turnResults = fight.turnResults /\ ~Active'
      BY <2>3 DEF Differs, Active
    <3>3. fight'.gapTimers = EmptyBag
      <4>1. fight.gapTimers # EmptyBag
        BY <2>1, EmptyDomain DEF EmptyBag, SetToBag, BagIn, BagToSet
      <4>2. PICK d \in 0 .. TURN_GAP_MS : fight.gapTimers = SetToBag({d})
        BY <3>1, <4>1 DEF OneClock
      <4>3. Timers(fight.gapTimers, TURN_GAP_MS) /\ TURN_GAP_MS \in Nat
        BY Budgets DEF Types, FightT
      <4> QED BY <2>1, <4>2, <4>3, TakeTimer
    <3> QED BY <2>3, <3>1, <3>2, <3>3 DEF OneClock, InOrder
  <2> QED BY <1>3, <2>2, <2>3 DEF GapOver
<1>4. CASE Resolution BY <1>4, OrderInvResolution
<1>5. CASE LateTimer
  <2> SUFFICES ASSUME Unmixed' PROVE OneClock' /\ InOrder' /\ ~Active'
    BY DEF OrderInv
  <2>1. Unmixed BY <1>5 DEF LateTimer, Unmixed
  <2>2. OneClock /\ InOrder BY <2>1 DEF OrderInv
  <2>3. /\ fight'.turnResults = fight.turnResults /\ ~Active'
        /\ fight'.gapTimers = fight.gapTimers
        /\ fight'.turnTimer = None \/ fight'.turnTimer = fight.turnTimer
        /\ fight'.strayTimers = fight.strayTimers \/ BagIn(0, fight.strayTimers)
    BY <1>5 DEF LateTimer, Differs, Active
  <2>4. ~BagIn(0, fight.strayTimers)
    BY <2>2 DEF OneClock, EmptyBag, SetToBag, BagIn, BagToSet
  <2> QED BY <2>2, <2>3, <2>4 DEF OneClock, InOrder
<1>6. CASE OneActed
  <2> SUFFICES ASSUME Unmixed' PROVE OneClock' /\ InOrder' /\ TurnOpen'
    BY DEF OrderInv
  <2>1. Unmixed /\ Active /\ fight.turnActions # Fighters BY <1>6 DEF OneActed, Unmixed
  <2>2. OneClock /\ InOrder /\ TurnOpen BY <2>1 DEF OrderInv, BetweenTurns
  <2>3. /\ fight'.turnResults = fight.turnResults /\ fight'.turn = fight.turn
        /\ fight'.gapTimers = fight.gapTimers /\ fight'.turnTimer = fight.turnTimer
        /\ fight'.strayTimers = fight.strayTimers
    BY <1>6 DEF OneActed, Differs, SameTimers
  <2> QED BY <2>2, <2>3 DEF OneClock, InOrder, TurnOpen
<1>7. CASE Ticked
  <2> SUFFICES ASSUME Unmixed'
               PROVE  OneClock' /\ InOrder' /\ (Active' => TurnOpen' \/ BetweenTurns')
    BY DEF OrderInv
  <2>1. Unmixed BY <1>7 DEF Ticked, Unmixed
  <2>2. OneClock /\ InOrder /\ (Active => TurnOpen \/ BetweenTurns) BY <2>1 DEF OrderInv
  <2>3. /\ fight'.turnResults = fight.turnResults /\ fight'.turn = fight.turn
        /\ fight'.turnActions = fight.turnActions /\ fight'.status = fight.status
        /\ fight'.turnTimer = None <=> fight.turnTimer = None
        /\ fight'.strayTimers = Countdown(fight.strayTimers) /\ ~BagIn(0, fight.strayTimers)
        /\ fight'.gapTimers = Countdown(fight.gapTimers) /\ ~BagIn(0, fight.gapTimers)
    BY <1>7 DEF Ticked, SameLife, SameTurn
  <2>4. /\ Timers(fight.strayTimers, TURN_TIMER_MS) /\ Timers(fight.gapTimers, TURN_GAP_MS)
        /\ TURN_TIMER_MS \in Nat /\ TURN_GAP_MS \in Nat
    BY Budgets DEF Types, FightT
  <2>5. fight'.strayTimers = EmptyBag
    BY <2>2, <2>3, <2>4, CountdownTimers DEF OneClock
  <2>6. CASE fight.gapTimers = EmptyBag
    <3>1. fight'.gapTimers = EmptyBag BY <2>3, <2>4, <2>6, CountdownTimers
    <3> QED BY <2>2, <2>3, <2>5, <2>6, <3>1
          DEF OneClock, InOrder, TurnOpen, BetweenTurns, Active
  <2>7. CASE fight.gapTimers # EmptyBag
    <3>1. PICK d \in 0 .. TURN_GAP_MS : fight.gapTimers = SetToBag({d})
      BY <2>2, <2>7 DEF OneClock
    <3>2. /\ fight'.gapTimers # EmptyBag
          /\ d - 1 \in 0 .. TURN_GAP_MS /\ fight'.gapTimers = SetToBag({d - 1})
      BY <2>3, <2>4, <2>7, <3>1, CountdownTimers
    <3>3. fight'.turnTimer = None BY <2>2, <2>3, <2>7 DEF OneClock
    <3>4. OneClock' BY <2>5, <3>2, <3>3 DEF OneClock
    <3> QED BY <2>2, <2>3, <2>7, <3>2, <3>4
          DEF InOrder, TurnOpen, BetweenTurns, Active
  <2> QED BY <2>6, <2>7
<1>8. ASSUME NEW p \in Fighters, Closed(p) PROVE OrderInv'
  <2>1. seen \subseteq seen' BY <1>8 DEF Closed
  <2>2. CASE Forfeited
    <3>1. /\ fight'.strayTimers = fight.strayTimers /\ fight'.gapTimers = fight.gapTimers
          /\ fight'.turnResults = fight.turnResults /\ fight'.turnTimer = None
          /\ fight'.status = "finished"
      BY <2>2 DEF Forfeited, SameTurn
    <3> QED BY <2>1, <3>1, OrderInvSame
  <2>3. CASE fight' = fight BY <2>1, <2>3, OrderInvSame
  <2>4. CASE ~Forfeited /\ fight' # fight
    <3>1. /\ fight'.strayTimers = fight.strayTimers /\ fight'.gapTimers = fight.gapTimers
          /\ fight'.turnResults = fight.turnResults /\ fight'.turn = fight.turn
          /\ fight'.turnActions = fight.turnActions /\ fight'.status = fight.status
          /\ fight'.turnTimer = None \/ fight'.turnTimer = fight.turnTimer
      BY <1>8, <2>4 DEF Closed, SameLife, SameTurn
    <3> QED BY <2>1, <3>1, OrderInvSame
  <2> QED BY <2>2, <2>3, <2>4
<1>9. ASSUME NEW p \in Fighters, AuthEnded(p) PROVE OrderInv'
  <2>1. CASE LoggedIn(p)
    <3>1. fight' = fight /\ seen' = seen BY <2>1 DEF LoggedIn
    <3> QED BY <3>1, OrderInvSame
  <2>2. CASE Returned(p)
    <3>1. /\ seen \subseteq seen'
          /\ fight'.strayTimers = fight.strayTimers /\ fight'.gapTimers = fight.gapTimers
          /\ fight'.turnResults = fight.turnResults /\ fight'.turn = fight.turn
          /\ fight'.turnActions = fight.turnActions /\ fight'.status = fight.status
          /\ \/ fight'.turnTimer = fight.turnTimer \/ fight.gapTimers = EmptyBag \/ ~Unmixed'
      BY <2>2 DEF Returned, SameLife, SameTurn, Unmixed
    <3> QED BY <3>1, OrderInvSame
  <2> QED BY <1>9, <2>1, <2>2 DEF AuthEnded
<1>10. ASSUME NEW p \in Fighters, Expired(p) PROVE OrderInv'
  <2>1. seen \subseteq seen' BY <1>10 DEF Expired
  <2>2. CASE Forfeited
    <3>1. /\ fight'.strayTimers = fight.strayTimers /\ fight'.gapTimers = fight.gapTimers
          /\ fight'.turnResults = fight.turnResults /\ fight'.turnTimer = None
          /\ fight'.status = "finished"
      BY <2>2 DEF Forfeited, SameTurn
    <3> QED BY <2>1, <3>1, OrderInvSame
  <2>3. CASE fight' = fight BY <2>1, <2>3, OrderInvSame
  <2> QED BY <1>10, <2>2, <2>3 DEF Expired
<1>11. ASSUME NEW p \in Fighters, NEW open \in BOOLEAN, LoggingIn(p, open) PROVE OrderInv'
  <2>1. fight' = fight /\ seen \subseteq seen' BY <1>11 DEF LoggingIn
  <2> QED BY <2>1, OrderInvSame
<1>h. \A p \in Humans : p \in Fighters BY DEF Humans, Fighters
<1> QED BY <1>1, <1>2, <1>3, <1>4, <1>5, <1>6, <1>7, <1>8, <1>9, <1>10, <1>11, <1>h, Steps

\* Turns are resolved in order, each once, and one clock drives them, unless a
\* reconnection between two turns resumed a turn that was already resolved.
THEOREM TurnsStayInOrder == Spec => []OneTurnAtATime
<1>1. Init => Types /\ FightInv /\ OrderInv BY TypesInit, FightInvInit, OrderInvInit
<1>2. Types /\ FightInv /\ OrderInv /\ [Next]_vars => (Types /\ FightInv /\ OrderInv)'
  BY TypesStep, FightInvStep, OrderInvStep
<1>3. ASSUME Types, OrderInv PROVE OneTurnAtATime
  <2>1. OneTurnClock
    <3> SUFFICES ASSUME Unmixed
                 PROVE  /\ fight.strayTimers = EmptyBag
                        /\ \A e \in DOMAIN fight.gapTimers : fight.gapTimers = SetToBag({e})
                        /\ fight.turnTimer # None => fight.gapTimers = EmptyBag
      BY DEF OneTurnClock, Unmixed
    <3>1. OneClock BY <1>3 DEF OrderInv
    <3>2. ASSUME NEW e \in DOMAIN fight.gapTimers PROVE fight.gapTimers = SetToBag({e})
      <4>1. fight.gapTimers # EmptyBag BY <3>2 DEF EmptyBag, SetToBag
      <4>2. PICK d \in 0 .. TURN_GAP_MS : fight.gapTimers = SetToBag({d})
        BY <3>1, <4>1 DEF OneClock
      <4>3. e = d BY <4>2 DEF SetToBag
      <4> QED BY <4>2, <4>3
    <3> QED BY <3>1, <3>2 DEF OneClock
  <2>2. TurnsInOrder
    <3> SUFFICES ASSUME Unmixed
                 PROVE  /\ InOrder
                        /\ Active => fight.turn - Len(fight.turnResults) \in {0, 1}
      BY DEF TurnsInOrder, Unmixed, InOrder
    <3>1. Len(fight.turnResults) \in Nat BY <1>3 DEF Types, FightT
    <3> QED BY <1>3, <3>1 DEF OrderInv, TurnOpen, BetweenTurns
  <2> QED BY <2>1, <2>2 DEF OneTurnAtATime
<1> QED BY <1>1, <1>2, <1>3, PTL DEF Spec

(***************************************************************************)
(* Absence                                                                 *)
(***************************************************************************)
NoticedAll == seen \cap {"absent_at_start", "late_auth"} = {}
NoticedAndUnreplaced == seen \cap {"absent_at_start", "late_auth", "replaced"} = {}

\* A forfeit timer runs only against a wallet that is offline or logging in.
Gone(p) == grace[p].active => ~session[p].online \/ session[p].authing > 0

\* What a wallet used of its budget, and what it is using, fit the budget.
Spent(p) ==
  /\ ~grace[p].active => grace[p].elapsed = 0
  /\ grace[p].usedMs + grace[p].elapsed <= GRACE_BUDGET_MS

\* Time away is charged to the budget.
Charged(p) ==
  p \in Humans /\ NoticedAll =>
    /\ Active /\ ~session[p].online => grace[p].active
    /\ away[p] <= GRACE_BUDGET_MS
    /\ Active => away[p] <= grace[p].usedMs + grace[p].elapsed

\* A connected wallet without a seat is on its way back.
Seated(p) ==
  p \in Humans /\ NoticedAndUnreplaced /\ Active =>
    (session[p].online /\ ~session[p].seat => grace[p].active /\ session[p].authing > 0)

AbsenceOf(p) == Gone(p) /\ Spent(p) /\ Charged(p) /\ Seated(p)

\* The inductive invariant.
AbsenceInv == \A p \in Fighters : AbsenceOf(p)

LEMMA NoGraceFields == ~NoGrace.active /\ NoGrace.elapsed = 0 /\ NoGrace.usedMs = 0
BY DEF NoGrace

LEMMA AbsenceInvInit == ASSUME Init PROVE AbsenceInv
<1> SUFFICES ASSUME NEW p \in Fighters PROVE AbsenceOf(p)
  BY DEF AbsenceInv
<1>1. grace[p] = NoGrace /\ away[p] = 0 BY DEF Init
<1>2. fight.status = "creating" BY DEF Init
<1>3. GRACE_BUDGET_MS \in Nat BY Budgets
<1> QED BY <1>1, <1>2, <1>3, NoGraceFields
      DEF AbsenceOf, Gone, Spent, Charged, Seated, Active

\* Steps that leave the wallet p alone, or end the fight.
LEMMA AbsenceKept ==
  ASSUME NEW p \in Fighters, AbsenceOf(p), seen \subseteq seen', fight'.type = fight.type,
         session'[p].online = session[p].online, session'[p].authing = session[p].authing,
         away'[p] = away[p],
         \/ fight'.status = "finished" /\ grace'[p] \in {grace[p], NoGrace}
         \/ /\ ~Active' \/ Active
            /\ grace'[p] = grace[p] /\ session'[p].seat = session[p].seat
         \/ ~Active' /\ grace'[p] = NoGrace
  PROVE  AbsenceOf(p)'
<1>1. Humans' = Humans BY DEF Humans
<1>2. (NoticedAll' => NoticedAll) /\ (NoticedAndUnreplaced' => NoticedAndUnreplaced)
  BY DEF NoticedAll, NoticedAndUnreplaced
<1>3. GRACE_BUDGET_MS \in Nat BY Budgets
<1>4. Gone(p)' BY NoGraceFields DEF AbsenceOf, Gone
<1>5. Spent(p)' BY <1>3, NoGraceFields DEF AbsenceOf, Spent
<1>6. Charged(p)' BY <1>1, <1>2 DEF AbsenceOf, Charged, Active
<1>7. Seated(p)' BY <1>1, <1>2 DEF AbsenceOf, Seated, Active
<1> QED BY <1>4, <1>5, <1>6, <1>7 DEF AbsenceOf

LEMMA AbsenceCreated ==
  ASSUME Types, FightInv, AbsenceInv, NEW p \in Fighters, Created PROVE AbsenceOf(p)'
<1>1. /\ grace[p] = NoGrace /\ away[p] = 0 /\ grace' = grace /\ away' = away
      /\ session'[p].online = session[p].online /\ session'[p].seat = session[p].online
      /\ fight'.type = fight.type
  BY DEF Created, FightInv, Fresh, NewTurn
<1>2. Humans' = Humans BY <1>1 DEF Humans
<1>3. NoticedAll' => \A q \in Humans : session[q].online
  BY DEF Created, NoticedAll
<1>4. GRACE_BUDGET_MS \in Nat BY Budgets
<1>5. Gone(p)' /\ Spent(p)' BY <1>1, <1>4, NoGraceFields DEF Gone, Spent
<1>6. Charged(p)' BY <1>1, <1>2, <1>3, <1>4, NoGraceFields DEF Charged
<1>7. Seated(p)' BY <1>1 DEF Seated
<1> QED BY <1>5, <1>6, <1>7 DEF AbsenceOf

LEMMA AbsenceTicked ==
  ASSUME Types, AbsenceInv, NEW p \in Fighters, Ticked PROVE AbsenceOf(p)'
<1>1. /\ grace'[p].active = grace[p].active /\ grace'[p].usedMs = grace[p].usedMs
      /\ \/ ~grace[p].active /\ grace'[p] = grace[p]
         \/ /\ grace[p].active /\ grace[p].elapsed < GraceLeft(grace[p])
            /\ grace'[p].elapsed = grace[p].elapsed + 1
      /\ away'[p] = IF Active /\ ~session[p].online /\ away[p] <= GRACE_BUDGET_MS
                    THEN away[p] + 1 ELSE away[p]
      /\ session' = session /\ seen' = seen /\ fight'.type = fight.type
      /\ fight'.status = fight.status
  BY DEF Ticked, SameLife
<1>2. /\ grace[p].elapsed \in Nat /\ grace[p].usedMs \in Nat /\ away[p] \in Nat
      /\ GraceLeft(grace[p]) = GRACE_BUDGET_MS - grace[p].usedMs /\ GRACE_BUDGET_MS \in Nat
  <2>1. grace[p] \in GraceR /\ away[p] \in Nat BY DEF Types
  <2> QED BY <2>1, GraceFacts, Budgets
<1>3. Gone(p) /\ Spent(p) /\ Charged(p) /\ Seated(p) BY DEF AbsenceInv, AbsenceOf
<1>4. Gone(p)' BY <1>1, <1>3 DEF Gone
<1>5. Spent(p)' BY <1>1, <1>2, <1>3 DEF Spent
<1>6. Seated(p)'
  BY <1>1, <1>3 DEF Seated, Humans, Active, NoticedAndUnreplaced
<1>7. Charged(p)'
  <2> SUFFICES ASSUME p \in Humans, NoticedAll
               PROVE  /\ Active /\ ~session[p].online => grace[p].active
                      /\ away'[p] <= GRACE_BUDGET_MS
                      /\ Active => away'[p] <= grace'[p].usedMs + grace'[p].elapsed
    BY <1>1 DEF Charged, Humans, Active, NoticedAll
  <2>1. /\ Active /\ ~session[p].online => grace[p].active
        /\ away[p] <= GRACE_BUDGET_MS
        /\ Active => away[p] <= grace[p].usedMs + grace[p].elapsed
    BY <1>3 DEF Charged
  <2>2. CASE Active /\ ~session[p].online
    <3>1. /\ grace[p].active /\ grace[p].elapsed < GRACE_BUDGET_MS - grace[p].usedMs
          /\ grace'[p].elapsed = grace[p].elapsed + 1 /\ away'[p] = away[p] + 1
      BY <1>1, <1>2, <2>1, <2>2
    <3>2. away'[p] <= grace'[p].usedMs + grace'[p].elapsed
      BY <1>1, <1>2, <2>1, <2>2, <3>1
    <3>3. away'[p] <= GRACE_BUDGET_MS BY <1>1, <1>2, <2>1, <2>2, <3>1
    <3> QED BY <2>1, <3>2, <3>3
  <2>3. CASE ~(Active /\ ~session[p].online)
    <3>1. away'[p] = away[p] BY <1>1, <2>3
    <3>2. grace[p].elapsed <= grace'[p].elapsed BY <1>1, <1>2
    <3>3. grace'[p].elapsed \in Nat BY <1>1, <1>2
    <3>4. Active => away'[p] <= grace'[p].usedMs + grace'[p].elapsed
      BY <1>1, <1>2, <2>1, <3>1, <3>2, <3>3
    <3> QED BY <2>1, <3>1, <3>4
  <2> QED BY <2>2, <2>3
<1> QED BY <1>4, <1>5, <1>6, <1>7 DEF AbsenceOf

LEMMA AbsenceClosed ==
  ASSUME Types, FightInv, AbsenceInv, NEW p \in Fighters, NEW q \in Fighters, Closed(p)
  PROVE  AbsenceOf(q)'
<1>1. /\ grace \in [Fighters -> GraceR] /\ AbsenceOf(q) /\ away' = away /\ seen' = seen
      /\ ~session'[p].online /\ session'[p].authing = session[p].authing
      /\ q # p => session'[q].online = session[q].online
                  /\ session'[q].authing = session[q].authing
  BY DEF Types, AbsenceInv, Closed, OthersKeep
<1>2. fight'.type = fight.type BY DEF Closed, Forfeited, SameLife
<1>3. CASE Forfeited
  <2>1. fight'.status = "finished" /\ grace'[q] \in {grace[q], NoGrace}
    BY <1>1, <1>3 DEF Closed, Forfeited
  <2>2. CASE q # p BY <1>1, <1>2, <2>1, <2>2, AbsenceKept
  <2>3. CASE q = p
    <3>1. Gone(p)' BY <1>1 DEF Gone
    <3>2. Spent(p)' BY <1>1, <2>1, <2>3, NoGraceFields, Budgets DEF AbsenceOf, Spent
    <3>3. Charged(p)' /\ Seated(p)'
      BY <1>1, <1>2, <2>1, <2>3
         DEF AbsenceOf, Charged, Seated, Humans, NoticedAll, Active
    <3> QED BY <2>3, <3>1, <3>2, <3>3 DEF AbsenceOf
  <2> QED BY <2>2, <2>3
<1>4. CASE /\ fight' = fight /\ grace' = grace /\ (~Active \/ grace[p].active)
           /\ \A r \in Fighters \ {p} : session'[r].seat = session[r].seat
  <2>1. CASE q # p
    <3>1. /\ (~Active' \/ Active) /\ grace'[q] = grace[q]
          /\ session'[q].seat = session[q].seat
      BY <1>4, <2>1 DEF Active
    <3>2. grace'[q] = grace[q] /\ away'[q] = away[q] /\ seen \subseteq seen' BY <1>1, <1>4
    <3> QED BY <1>1, <1>2, <2>1, <3>1, <3>2, AbsenceKept
  <2>2. CASE q = p
    <3>1. Gone(p)' /\ Seated(p)' BY <1>1 DEF Gone, Seated
    <3>2. Spent(p)' BY <1>1, <1>4, <2>2 DEF AbsenceOf, Spent
    <3>3. Charged(p)'
      BY <1>1, <1>4, <2>2 DEF AbsenceOf, Charged, Humans, NoticedAll, Active
    <3> QED BY <2>2, <3>1, <3>2, <3>3 DEF AbsenceOf
  <2> QED BY <2>1, <2>2
<1>5. CASE /\ Active /\ ~grace[p].active /\ SameLife(fight, fight')
           /\ grace' = [grace EXCEPT ![p] = [active |-> TRUE, elapsed |-> 0,
                                             usedMs |-> grace[p].usedMs]]
           /\ \A r \in Fighters \ {p} : session'[r].seat = session[r].seat
  <2>1. CASE q # p
    <3>1. grace'[q] = grace[q] /\ session'[q].seat = session[q].seat BY <1>1, <1>5, <2>1
    <3>2. away'[q] = away[q] /\ seen \subseteq seen' BY <1>1
    <3> QED BY <1>1, <1>2, <1>5, <2>1, <3>1, <3>2, AbsenceKept
  <2>2. CASE q = p
    <3>1. grace'[p].active /\ grace'[p].elapsed = 0 /\ grace'[p].usedMs = grace[p].usedMs
      BY <1>1, <1>5
    <3>2. grace[p].elapsed = 0 BY <1>1, <1>5, <2>2 DEF AbsenceOf, Spent
    <3>3. Gone(p)' /\ Seated(p)' BY <1>1 DEF Gone, Seated
    <3>4. Spent(p)' BY <1>1, <2>2, <3>1, <3>2 DEF AbsenceOf, Spent
    <3>5. Charged(p)'
      BY <1>1, <1>2, <1>5, <2>2, <3>1, <3>2
         DEF AbsenceOf, Charged, Humans, NoticedAll, Active
    <3> QED BY <2>2, <3>3, <3>4, <3>5 DEF AbsenceOf
  <2> QED BY <2>1, <2>2
<1> QED BY <1>3, <1>4, <1>5 DEF Closed

LEMMA AbsenceAuthEnded ==
  ASSUME Types, FightInv, AbsenceInv, NEW p \in Fighters, NEW q \in Fighters, AuthEnded(p)
  PROVE  AbsenceOf(q)'
<1>1. /\ grace \in [Fighters -> GraceR] /\ session \in [Fighters -> SessionR]
      /\ AbsenceOf(q) /\ AbsenceOf(p) /\ away' = away /\ seen \subseteq seen'
      /\ session'[p].online = session[p].online /\ fight'.type = fight.type
      /\ fight'.status = fight.status
  BY DEF Types, AbsenceInv, AuthEnded, LoggedIn, Returned, SameLife
<1>2. CASE q # p
  <2>1. /\ session'[q].online = session[q].online /\ session'[q].authing = session[q].authing
        /\ session'[q].seat = session[q].seat
    BY <1>2 DEF AuthEnded, OthersKeep
  <2>2. grace'[q] = grace[q] BY <1>1, <1>2 DEF AuthEnded, LoggedIn, Returned
  <2>3. ~Active' \/ Active BY <1>1 DEF Active
  <2>4. away'[q] = away[q] BY <1>1
  <2> QED BY <1>1, <2>1, <2>2, <2>3, <2>4, AbsenceKept
<1>3. CASE q = p /\ ~grace[p].active
  <2>1. LoggedIn(p) /\ grace' = grace /\ session'[p].seat = session[p].seat
    BY <1>3 DEF AuthEnded, LoggedIn, Returned
  <2>2. seen' = seen BY <2>1 DEF LoggedIn
  <2>3. Gone(p)' /\ Spent(p)' BY <1>1, <1>3, <2>1 DEF AbsenceOf, Gone, Spent
  <2>4. Charged(p)'
    BY <1>1, <2>1, <2>2 DEF AbsenceOf, Charged, Humans, NoticedAll, Active
  <2>5. Seated(p)'
    BY <1>1, <1>3, <2>1, <2>2 DEF AbsenceOf, Seated, Humans, NoticedAndUnreplaced, Active
  <2> QED BY <1>3, <2>3, <2>4, <2>5 DEF AbsenceOf
<1>4. CASE q = p /\ grace[p].active
  <2>1. grace'[p] = MarkReconnect(grace[p])
    BY <1>1, <1>4 DEF AuthEnded, LoggedIn, Returned
  <2>2. grace[p].usedMs + grace[p].elapsed <= GRACE_BUDGET_MS BY <1>1 DEF AbsenceOf, Spent
  <2>3. /\ ~grace'[p].active /\ grace'[p].elapsed = 0
        /\ grace'[p].usedMs = grace[p].usedMs + grace[p].elapsed
        /\ grace[p].usedMs \in Nat /\ grace[p].elapsed \in Nat
    <3>1. grace[p] \in GraceR BY <1>1
    <3> QED BY <2>1, <2>2, <3>1, GraceFacts
  <2>4. Gone(p)' /\ Spent(p)' BY <2>2, <2>3 DEF Gone, Spent
  <2>5. CASE ~Active
    <3>1. Charged(p)'
      BY <1>1, <2>5, <1>4 DEF AbsenceOf, Charged, Humans, NoticedAll, Active
    <3>2. Seated(p)' BY <1>1, <2>5 DEF Seated, Active
    <3> QED BY <1>4, <2>4, <3>1, <3>2 DEF AbsenceOf
  <2>6. CASE Active
    <3>1. /\ session'[p].seat = session[p].online
          /\ "late_auth" \in seen' \/ session[p].online
      BY <1>4, <2>6 DEF AuthEnded, LoggedIn, Returned
    <3>2. Seated(p)' BY <1>1, <3>1 DEF Seated
    <3>3. Charged(p)'
      <4> SUFFICES ASSUME p \in Humans, NoticedAll'
                   PROVE  /\ session'[p].online
                          /\ away'[p] <= GRACE_BUDGET_MS
                          /\ away'[p] <= grace'[p].usedMs + grace'[p].elapsed
        BY <1>1 DEF Charged, Humans
      <4>1. NoticedAll BY <1>1 DEF NoticedAll
      <4>2. away[p] <= GRACE_BUDGET_MS /\ away[p] <= grace[p].usedMs + grace[p].elapsed
        BY <1>1, <2>6, <4>1 DEF AbsenceOf, Charged
      <4>3. session'[p].online BY <1>1, <3>1 DEF NoticedAll
      <4>4. grace'[p].usedMs + grace'[p].elapsed = grace[p].usedMs + grace[p].elapsed
        BY <2>3
      <4> QED BY <1>1, <4>2, <4>3, <4>4
    <3> QED BY <1>4, <2>4, <3>2, <3>3 DEF AbsenceOf
  <2> QED BY <2>5, <2>6
<1> QED BY <1>2, <1>3, <1>4

LEMMA AbsenceLoggingIn ==
  ASSUME Types, FightInv, AbsenceInv, NEW p \in Fighters, NEW q \in Fighters,
         NEW open \in BOOLEAN, LoggingIn(p, open)
  PROVE  AbsenceOf(q)'
<1>1. /\ session \in [Fighters -> SessionR] /\ AbsenceOf(q)
      /\ fight' = fight /\ grace' = grace /\ away' = away
      /\ session'[p].online = open /\ session'[p].authing = session[p].authing + 1
      /\ ~open => seen' = seen \cup {"late_auth"}
      /\ open /\ session[p].online => seen' = seen \cup {"replaced"}
      /\ open /\ ~session[p].online => seen' = seen
  BY DEF Types, AbsenceInv, LoggingIn
<1>2. session[p].online \in BOOLEAN /\ session[p].authing \in Nat
  <2>1. session[p] \in SessionR BY <1>1
  <2> QED BY <2>1, Budgets DEF SessionR
<1>3. seen \subseteq seen' BY <1>1, <1>2
<1>4. CASE q # p
  <2>1. /\ session'[q].online = session[q].online /\ session'[q].authing = session[q].authing
        /\ session'[q].seat = session[q].seat
    BY <1>4 DEF LoggingIn, OthersKeep
  <2>2. /\ ~Active' \/ Active
        /\ grace'[q] = grace[q] /\ away'[q] = away[q] /\ fight'.type = fight.type
    BY <1>1 DEF Active
  <2> QED BY <1>1, <1>3, <2>1, <2>2, AbsenceKept
<1>5. CASE q = p
  <2>1. session'[p].authing > 0 BY <1>1, <1>2
  <2>2. Gone(p)' BY <2>1 DEF Gone
  <2>3. Spent(p)' BY <1>1, <1>5 DEF AbsenceOf, Spent
  <2>4. NoticedAll' => NoticedAll /\ open BY <1>1, <1>3 DEF NoticedAll
  <2>5. NoticedAndUnreplaced' => NoticedAll /\ open /\ ~session[p].online
    BY <1>1, <1>2, <1>3 DEF NoticedAll, NoticedAndUnreplaced
  <2>6. Charged(p)' BY <1>1, <1>5, <2>4 DEF AbsenceOf, Charged, Humans, Active
  <2>7. Seated(p)'
    BY <1>1, <1>5, <2>1, <2>5 DEF AbsenceOf, Seated, Charged, Humans, Active
  <2> QED BY <1>5, <2>2, <2>3, <2>6, <2>7 DEF AbsenceOf
<1> QED BY <1>4, <1>5

LEMMA AbsenceInvStep ==
  ASSUME Types, FightInv, AbsenceInv, [Next]_vars PROVE AbsenceInv'
<1> SUFFICES ASSUME NEW q \in Fighters PROVE AbsenceOf(q)'
  BY DEF AbsenceInv
<1>0. AbsenceOf(q) BY DEF AbsenceInv
<1>1. CASE UNCHANGED vars
  <2>1. /\ fight' = fight /\ grace' = grace /\ session' = session /\ seen' = seen
        /\ away' = away
    BY <1>1 DEF vars
  <2> QED BY <1>0, <2>1 DEF AbsenceOf, Gone, Spent, Charged, Seated, Humans, Active,
                            NoticedAll, NoticedAndUnreplaced
<1>2. CASE Created BY <1>2, AbsenceCreated
<1>3. CASE GapOver
  <2>1. /\ grace' = grace /\ session' = session /\ seen \subseteq seen' /\ away' = away
        /\ fight'.type = fight.type /\ (~Active' \/ Active)
    BY <1>3 DEF GapOver, NewTurn, Differs, Active
  <2> QED BY <1>0, <2>1, AbsenceKept
<1>4. CASE Resolution
  <2>1. /\ session'[q].online = session[q].online /\ session'[q].authing = session[q].authing
        /\ away'[q] = away[q] /\ seen \subseteq seen' /\ Active
        /\ fight'.status = "finished" \/ (session' = session /\ grace' = grace)
        /\ grace'[q] \in {grace[q], NoGrace}
    BY <1>4 DEF Resolution, KeepPlayers
  <2>2. fight'.type = fight.type BY <1>4 DEF Resolution, Due, Resolved
  <2> QED BY <1>0, <2>1, <2>2, AbsenceKept
<1>5. CASE LateTimer
  <2>1. /\ grace' = grace /\ session' = session /\ seen \subseteq seen' /\ away' = away
        /\ fight'.type = fight.type /\ ~Active'
    BY <1>5 DEF LateTimer, Differs, Active
  <2> QED BY <1>0, <2>1, AbsenceKept
<1>6. CASE OneActed
  <2>1. /\ grace' = grace /\ session' = session /\ seen \subseteq seen' /\ away' = away
        /\ fight'.type = fight.type /\ Active
    BY <1>6 DEF OneActed, Differs
  <2> QED BY <1>0, <2>1, AbsenceKept
<1>7. CASE Ticked BY <1>7, AbsenceTicked
<1>8. ASSUME NEW p \in Fighters, Expired(p) PROVE AbsenceOf(q)'
  <2>1. /\ session'[q].online = session[q].online /\ session'[q].authing = session[q].authing
        /\ away'[q] = away[q] /\ seen \subseteq seen'
    BY <1>8 DEF Expired
  <2>2. grace'[q] \in {grace[q], NoGrace} BY <1>8 DEF Expired, Types
  <2>3. CASE Forfeited
    <3>1. fight'.status = "finished" /\ fight'.type = fight.type BY <2>3 DEF Forfeited
    <3> QED BY <1>0, <2>1, <2>2, <3>1, AbsenceKept
  <2>4. CASE ~Active /\ fight' = fight /\ session' = session
    <3>1. /\ ~Active' /\ fight'.type = fight.type /\ session'[q].seat = session[q].seat
      BY <2>4 DEF Active
    <3> QED BY <1>0, <2>1, <2>2, <3>1, AbsenceKept
  <2> QED BY <1>8, <2>3, <2>4 DEF Expired
<1>h. \A p \in Humans : p \in Fighters BY DEF Humans, Fighters
<1> QED BY <1>1, <1>2, <1>3, <1>4, <1>5, <1>6, <1>7, <1>8, <1>h,
           AbsenceClosed, AbsenceAuthEnded, AbsenceLoggingIn, Steps

LEMMA SpecAbsence == Spec => [](Types /\ FightInv /\ AbsenceInv)
<1>1. Init => Types /\ FightInv /\ AbsenceInv BY TypesInit, FightInvInit, AbsenceInvInit
<1>2. Types /\ FightInv /\ AbsenceInv /\ [Next]_vars => (Types /\ FightInv /\ AbsenceInv)'
  BY TypesStep, FightInvStep, AbsenceInvStep
<1> QED BY <1>1, <1>2, PTL DEF Spec

\* Absence stops the clock, takes no more than the budget over a whole fight, and
\* ends with a player who can act again, for any budget and any number of
\* disconnects and logins.
THEOREM AbsenceStaysFair == Spec => []AbsenceIsFair
<1>1. ASSUME Types, FightInv, AbsenceInv PROVE AbsenceIsFair
  <2>h. \A p \in Humans : p \in Fighters BY DEF Humans, Fighters
  <2>1. AbsentWalletStopsTheClock
    <3> SUFFICES ASSUME Active, NoticedAll, NEW p \in Humans, ~session[p].online
                 PROVE  grace[p].active /\ fight.turnTimer = None
      BY DEF AbsentWalletStopsTheClock, NoticedAll
    <3>1. p \in Fighters /\ grace[p].active
      BY <1>1, <2>h DEF AbsenceInv, AbsenceOf, Charged
    <3>2. p \in fight.disconnectedWallets BY <1>1, <3>1 DEF FightInv, Absentees
    <3> QED BY <1>1, <3>1, <3>2 DEF FightInv, Absentees
  <2>2. AwayWithinBudget
    BY <1>1, <2>h DEF AwayWithinBudget, AbsenceInv, AbsenceOf, Charged, NoticedAll
  <2>3. ConnectedPlayerHasASeat
    <3> SUFFICES ASSUME Active, NoticedAndUnreplaced, NEW p \in Humans,
                        session[p].online, session[p].authing = 0
                 PROVE  session[p].seat
      BY DEF ConnectedPlayerHasASeat, NoticedAndUnreplaced
    <3> QED BY <1>1, <2>h DEF AbsenceInv, AbsenceOf, Seated
  <2> QED BY <2>1, <2>2, <2>3 DEF AbsenceIsFair
<1> QED BY <1>1, SpecAbsence, PTL

\* The forfeit timer strikes only a wallet that is offline or has not finished
\* logging in again.
THEOREM ForfeitsAreEarned == Spec => OnlyTheAbsentForfeit
<1>1. ASSUME Types, FightInv, AbsenceInv, [Next]_vars
      PROVE  [\A p \in Fighters :
                Active /\ GraceExpires(p) =>
                  ~session[p].online \/ session[p].authing > 0]_vars
  BY <1>1 DEF AbsenceInv, AbsenceOf, Gone, GraceExpires
<1> QED BY <1>1, SpecAbsence, PTL DEF Spec, OnlyTheAbsentForfeit
=============================================================================
