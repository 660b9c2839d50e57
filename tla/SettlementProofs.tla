--------------------------- MODULE SettlementProofs ---------------------------
(***************************************************************************)
(* Proofs about Settlement, for any number of fights, attempts, crashes    *)
(* and faults: the stakes of a fight are tracked until they have left the  *)
(* contract, and refunded only when something was cut short; fight locks,  *)
(* records and ratings on chain and in memory agree with each other and    *)
(* with the fights, up to the tasks on their way and those given up.       *)
(***************************************************************************)
EXTENDS Settlement, SequenceTheorems, TLAPS

(***************************************************************************)
(* Tasks of a queue                                                        *)
(***************************************************************************)
Tasks(q) == {q[i] : i \in 1 .. Len(q)}

LEMMA TasksOfTail ==
  ASSUME NEW S, NEW q \in Seq(S), q # <<>>
  PROVE  Tail(q) \in Seq(S) /\ Head(q) \in Tasks(q) /\ Tasks(Tail(q)) \subseteq Tasks(q)
<1>1. /\ Tail(q) \in Seq(S) /\ Len(Tail(q)) = Len(q) - 1
      /\ \A i \in 1 .. Len(Tail(q)) : Tail(q)[i] = q[i + 1]
  BY HeadTailProperties
<1>2. Len(q) \in Nat /\ Len(q) # 0 BY EmptySeq
<1>3. Head(q) = q[1] /\ 1 \in 1 .. Len(q) BY <1>2
<1>4. ASSUME NEW t \in Tasks(Tail(q)) PROVE t \in Tasks(q)
  <2>1. PICK i \in 1 .. Len(Tail(q)) : t = Tail(q)[i] BY <1>4 DEF Tasks
  <2>2. i + 1 \in 1 .. Len(q) BY <1>1, <1>2, <2>1
  <2>3. t = q[i + 1] BY <1>1, <2>1
  <2> QED BY <2>2, <2>3 DEF Tasks
<1> QED BY <1>1, <1>3, <1>4 DEF Tasks

LEMMA TasksOfConcat ==
  ASSUME NEW S, NEW q \in Seq(S), NEW r \in Seq(S)
  PROVE  q \o r \in Seq(S) /\ Tasks(q \o r) \subseteq Tasks(q) \cup Tasks(r)
<1>1. /\ q \o r \in Seq(S) /\ Len(q \o r) = Len(q) + Len(r)
      /\ \A i \in 1 .. Len(q) + Len(r) :
           (q \o r)[i] = IF i <= Len(q) THEN q[i] ELSE r[i - Len(q)]
  BY ConcatProperties
<1>2. Len(q) \in Nat /\ Len(r) \in Nat OBVIOUS
<1>3. ASSUME NEW t \in Tasks(q \o r) PROVE t \in Tasks(q) \cup Tasks(r)
  <2>1. PICK i \in 1 .. Len(q) + Len(r) : t = (q \o r)[i] BY <1>1, <1>3 DEF Tasks
  <2>2. CASE i <= Len(q)
    <3>1. i \in 1 .. Len(q) /\ t = q[i] BY <1>1, <1>2, <2>1, <2>2
    <3> QED BY <3>1 DEF Tasks
  <2>3. CASE ~(i <= Len(q))
    <3>1. i - Len(q) \in 1 .. Len(r) /\ t = r[i - Len(q)] BY <1>1, <1>2, <2>1, <2>3
    <3> QED BY <3>1 DEF Tasks
  <2> QED BY <2>2, <2>3
<1> QED BY <1>1, <1>3

LEMMA TasksOfEmpty == Tasks(<<>>) = {}
BY DEF Tasks

(***************************************************************************)
(* Shapes of the state                                                     *)
(***************************************************************************)
WagerStates == {"ABSENT", "ACTIVE", "tie", "split"} \cup Players
Stages == {"none", "accepted", "fighting", "over", "gone", "unseen"}
TaskR == [op : Ops, fight : Fights, who : Players \cup {None}, rating : SUBSET Fights]

\* A task about one player names one.
Named(t) == t.op \in {"lock", "unlock", "settle", "update"} => t.who \in Players

QueueT(q) == q \in Seq(TaskR) /\ \A t \in Tasks(q) : Named(t)

ChainFields == {"wager", "record", "rating", "locked"}
DbFields == {"rows", "requests", "failed"}
SeenFields == {"lost", "failed", "interrupted", "expired", "overlap", "crashes", "faults"}

Shapes ==
  /\ DOMAIN chain = ChainFields /\ chain.wager \in [Fights -> WagerStates]
  /\ DOMAIN cache = {"record", "rating"} /\ cache.rating \in [Players -> SUBSET Fights]
  /\ DOMAIN fights = Fights
  /\ \A f \in Fights : DOMAIN fights[f] = {"kind", "stage", "winner"}
  /\ QueueT(taskQueue)
  /\ DOMAIN db = DbFields /\ db.rows \subseteq Fights
  /\ db.requests \subseteq {"insert", "delete"} \X Fights
  /\ todo \subseteq Fights
  /\ up \in BOOLEAN
  /\ DOMAIN told = Fights
  /\ DOMAIN seen = SeenFields

LEMMA Given ==
  /\ PlayerA # PlayerB /\ None \notin Players /\ Draw \notin Players /\ None # Draw
  /\ \A p \in Players : p \notin {"ABSENT", "ACTIVE", "tie", "split"}
  /\ None \notin {"settled", "failed"}
  /\ NumFights \in Nat /\ Attempts \in Nat \ {0} /\ MaxCrashes \in Nat /\ MaxFaults \in Nat
BY PlayerAssumption, SettlementAssumption

LEMMA Opponents == ASSUME NEW p \in Players PROVE Opponent(p) \in Players
BY DEF Opponent, Players

LEMMA TaskTyped ==
  ASSUME NEW op \in Ops, NEW f \in Fights, NEW p \in Players \cup {None},
         NEW r \in SUBSET Fights
  PROVE  /\ Task(op, f, p, r) \in TaskR
         /\ Task(op, f, p, r).op = op /\ Task(op, f, p, r).fight = f
         /\ Task(op, f, p, r).who = p
BY DEF Task, TaskR

LEMMA QueueTail ==
  ASSUME NEW q, QueueT(q), q # <<>>
  PROVE  /\ QueueT(Tail(q)) /\ Head(q) \in Tasks(q) /\ Tasks(Tail(q)) \subseteq Tasks(q)
         /\ Head(q) \in TaskR /\ Named(Head(q))
<1>1. q \in Seq(TaskR) /\ \A t \in Tasks(q) : Named(t) BY DEF QueueT
<1>2. /\ Tail(q) \in Seq(TaskR) /\ Head(q) \in Tasks(q) /\ Tasks(Tail(q)) \subseteq Tasks(q)
  BY <1>1, TasksOfTail
<1>3. Head(q) \in TaskR BY <1>1, HeadTailProperties
<1> QED BY <1>1, <1>2, <1>3 DEF QueueT

LEMMA QueueConcat ==
  ASSUME NEW q, NEW r, QueueT(q), QueueT(r)
  PROVE  QueueT(q \o r) /\ Tasks(q \o r) \subseteq Tasks(q) \cup Tasks(r)
<1>1. q \in Seq(TaskR) /\ r \in Seq(TaskR) BY DEF QueueT
<1>2. q \o r \in Seq(TaskR) /\ Tasks(q \o r) \subseteq Tasks(q) \cup Tasks(r)
  BY <1>1, TasksOfConcat
<1> QED BY <1>2 DEF QueueT

LEMMA QueueEmpty == QueueT(<<>>) /\ Tasks(<<>>) = {}
BY EmptySeq, TasksOfEmpty DEF QueueT

LEMMA QueueOne ==
  ASSUME NEW t \in TaskR, Named(t) PROVE QueueT(<<t>>) /\ Tasks(<<t>>) = {t}
<1>1. <<t>> \in Seq(TaskR) /\ Len(<<t>>) = 1 /\ <<t>>[1] = t OBVIOUS
<1>2. Tasks(<<t>>) = {t} BY <1>1 DEF Tasks
<1> QED BY <1>1, <1>2 DEF QueueT

(***************************************************************************)
(* A transaction on the chain                                              *)
(***************************************************************************)
\* What a transaction does to the wagers.
WagersAfter(t) ==
  CASE t.op = "settle" -> [chain.wager EXCEPT ![t.fight] = t.who]
    [] t.op = "cancel" -> [chain.wager EXCEPT ![t.fight] = "split"]
    [] t.op = "bundle" /\ IsWager(t.fight) -> [chain.wager EXCEPT ![t.fight] = "tie"]
    [] OTHER -> chain.wager

LEMMA ExecuteEffect ==
  ASSUME Shapes, NEW t \in TaskR, Named(t)
  PROVE  /\ DOMAIN Executed(t) = ChainFields /\ Executed(t).wager = WagersAfter(t)
         /\ WagersAfter(t) \in [Fights -> WagerStates]
<1>1. DOMAIN chain = ChainFields /\ chain.wager \in [Fights -> WagerStates] BY DEF Shapes
<1>2. t.op \in Ops /\ t.fight \in Fights BY DEF TaskR
<1>3. CASE t.op = "lock"
  <2>1. Executed(t) = [chain EXCEPT !.locked = @ \cup {t.who}] BY <1>3 DEF Executed
  <2>2. WagersAfter(t) = chain.wager BY <1>3 DEF WagersAfter
  <2> QED BY <1>1, <2>1, <2>2 DEF ChainFields
<1>4. CASE t.op = "unlock"
  <2>1. Executed(t) = [chain EXCEPT !.locked = @ \ {t.who}] BY <1>4 DEF Executed
  <2>2. WagersAfter(t) = chain.wager BY <1>4 DEF WagersAfter
  <2> QED BY <1>1, <2>1, <2>2 DEF ChainFields
<1>5. CASE t.op = "settle"
  <2>1. Executed(t) = [chain EXCEPT !.wager[t.fight] = t.who] BY <1>5 DEF Executed
  <2>2. WagersAfter(t) = [chain.wager EXCEPT ![t.fight] = t.who] BY <1>5 DEF WagersAfter
  <2>3. t.who \in WagerStates BY <1>5 DEF Named, WagerStates
  <2> QED BY <1>1, <1>2, <2>1, <2>2, <2>3 DEF ChainFields
<1>6. CASE t.op = "cancel"
  <2>1. Executed(t) = [chain EXCEPT !.wager[t.fight] = "split"] BY <1>6 DEF Executed
  <2>2. WagersAfter(t) = [chain.wager EXCEPT ![t.fight] = "split"] BY <1>6 DEF WagersAfter
  <2>3. "split" \in WagerStates BY DEF WagerStates
  <2> QED BY <1>1, <1>2, <2>1, <2>2, <2>3 DEF ChainFields
<1>7. CASE t.op = "update"
  <2>1. Executed(t) = [chain EXCEPT !.record[t.who][t.fight] = @ + 1, !.rating[t.who] = t.rating]
    BY <1>7 DEF Executed
  <2>2. WagersAfter(t) = chain.wager BY <1>7 DEF WagersAfter
  <2> QED BY <1>1, <2>1, <2>2 DEF ChainFields
<1>8. CASE t.op = "bundle"
  <2> DEFINE v == IF IsWager(t.fight) THEN "tie" ELSE chain.wager[t.fight]
             w == [chain.wager EXCEPT ![t.fight] = v]
  <2>1. Executed(t) = [chain EXCEPT !.wager[t.fight] = IF IsWager(t.fight) THEN "tie" ELSE @,
                                    !.record[PlayerA][t.fight] = @ + 1,
                                    !.record[PlayerB][t.fight] = @ + 1,
                                    !.locked = @ \ Players]
    BY <1>8 DEF Executed
  <2>2. DOMAIN Executed(t) = ChainFields /\ Executed(t).wager = w
    BY <1>1, <2>1 DEF ChainFields
  <2>3. v \in WagerStates BY <1>1, <1>2 DEF WagerStates
  <2>4. w \in [Fights -> WagerStates] BY <1>1, <1>2, <2>3
  <2>5. CASE IsWager(t.fight)
    <3>1. v = "tie" BY <2>5
    <3> HIDE DEF v
    <3> QED BY <1>8, <2>2, <2>4, <2>5, <3>1 DEF WagersAfter
  <2>6. CASE ~IsWager(t.fight)
    <3>1. w = chain.wager BY <1>1, <1>2, <2>6
    <3>2. WagersAfter(t) = chain.wager BY <1>8, <2>6 DEF WagersAfter
    <3> QED BY <1>1, <2>2, <3>1, <3>2
  <2> QED BY <2>5, <2>6
<1> QED BY <1>2, <1>3, <1>4, <1>5, <1>6, <1>7, <1>8 DEF Ops

(***************************************************************************)
(* The inductive invariant.  A wager the server closes is one of a fight   *)
(* that is over; a wager it refunds is one of a fight that was cut short;  *)
(* and a row is dropped only when the wager is closed.                     *)
(***************************************************************************)
Closed(f) == chain.wager[f] \notin {"ABSENT", "ACTIVE"}
Cut(f) == f \in seen.interrupted \/ Closed(f)

\* What a task in the queue may count on when it runs.
SoundTask(t) ==
  /\ t.op = "settle" => IsWager(t.fight) /\ fights[t.fight].winner = t.who
  /\ t.op = "bundle" => Drawn(t.fight)
  /\ t.op = "update" => Decided(t.fight)
  /\ t.op = "cancel" => Cut(t.fight)

StageI(f) ==
  /\ fights[f].stage \in Stages
  /\ Over(f) <=> fights[f].winner # None
  /\ fights[f].stage = "gone" => f \in seen.interrupted
  /\ fights[f].stage = "accepted" => chain.wager[f] # "ABSENT"
  /\ ~up => /\ fights[f].stage \notin {"accepted", "fighting"}
            /\ Over(f) => f \in seen.interrupted \/ told[f] = "settled"

RowI(f) ==
  /\ f \in db.rows \cup todo \/ <<"insert", f>> \in db.requests \cup db.failed =>
       chain.wager[f] # "ABSENT" /\ fights[f].stage \notin {"none", "unseen"}
  /\ <<"delete", f>> \in db.requests => Closed(f)
  /\ f \in todo => Cut(f)
  /\ chain.wager[f] = "ACTIVE" /\ fights[f].stage \notin {"none", "unseen"} =>
       f \in db.rows \/ <<"insert", f>> \in db.requests \cup db.failed

WagerI(f) ==
  /\ chain.wager[f] # "ABSENT" => IsWager(f)
  /\ chain.wager[f] = "tie" => Drawn(f)
  /\ chain.wager[f] \in Players => fights[f].winner = chain.wager[f]
  /\ chain.wager[f] = "split" => f \in seen.interrupted \cup seen.expired
  /\ told[f] = "settled" => chain.wager[f] \in Players \cup {"tie"}



SettleInv ==
  /\ Shapes
  /\ \A t \in Tasks(taskQueue) : SoundTask(t)
  /\ \A f \in Fights : StageI(f) /\ RowI(f) /\ WagerI(f)
  /\ ~up => todo = {} /\ taskQueue = <<>>

LEMMA StakesFollow == SettleInv => StakesAreTracked
<1> SUFFICES ASSUME SettleInv, NEW f \in Fights
             PROVE  /\ told[f] = "settled" =>
                         chain.wager[f] = IF Drawn(f) THEN "tie" ELSE fights[f].winner
                    /\ chain.wager[f] = "split" => f \in seen.interrupted \cup seen.expired
                    /\ chain.wager[f] = "ACTIVE" /\ fights[f].stage \notin {"none", "unseen"} =>
                         f \in db.rows \/ <<"insert", f>> \in db.requests \cup db.failed
  BY DEF StakesAreTracked, ToldTheTruth, RefundsOnlyTheInterrupted, RowCoversActiveWager
<1>1. RowI(f) /\ WagerI(f) BY DEF SettleInv
<1>2. told[f] = "settled" => chain.wager[f] = IF Drawn(f) THEN "tie" ELSE fights[f].winner
  BY <1>1, Given DEF WagerI, Drawn
<1> QED BY <1>1, <1>2 DEF RowI, WagerI

LEMMA Initially == Init => SettleInv
<1> SUFFICES ASSUME Init PROVE SettleInv OBVIOUS
<1>1. /\ chain = [wager  |-> [f \in Fights |-> "ABSENT"],
                  record |-> [p \in Players |-> [f \in Fights |-> 0]],
                  rating |-> [p \in Players |-> {}], locked |-> {}]
      /\ cache = [record |-> chain.record, rating |-> chain.rating]
      /\ fights \in [Fights -> [kind : Kinds, stage : {"none"}, winner : {None}]]
      /\ taskQueue = <<>> /\ db = [rows |-> {}, requests |-> {}, failed |-> {}]
      /\ todo = {} /\ up = TRUE /\ told = [f \in Fights |-> None]
      /\ seen = [lost |-> {}, failed |-> {}, interrupted |-> {}, expired |-> {},
                 overlap |-> FALSE, crashes |-> 0, faults |-> 0]
  BY DEF Init
<1>2. DOMAIN fights = Fights
      /\ \A f \in Fights : /\ DOMAIN fights[f] = {"kind", "stage", "winner"}
                           /\ fights[f].stage = "none" /\ fights[f].winner = None
  BY <1>1
<1>3. DOMAIN chain = ChainFields /\ chain.wager \in [Fights -> WagerStates]
      /\ \A f \in Fights : chain.wager[f] = "ABSENT"
  BY <1>1 DEF ChainFields, WagerStates
<1>4. DOMAIN cache = {"record", "rating"} /\ cache.rating \in [Players -> SUBSET Fights]
  BY <1>1
<1>5. QueueT(taskQueue) /\ Tasks(taskQueue) = {} BY <1>1, QueueEmpty
<1>6. DOMAIN db = DbFields /\ db.requests = {} /\ db.rows = {} /\ db.failed = {}
  BY <1>1 DEF DbFields
<1>7. DOMAIN seen = SeenFields BY <1>1 DEF SeenFields
<1>8. Shapes BY <1>1, <1>2, <1>3, <1>4, <1>5, <1>6, <1>7 DEF Shapes
<1>9. ASSUME NEW f \in Fights PROVE StageI(f) /\ RowI(f) /\ WagerI(f)
  <2>1. told[f] = None /\ up BY <1>1
  <2> QED BY <1>1, <1>2, <1>3, <1>6, <2>1, Given DEF StageI, RowI, WagerI, Stages, Over
<1> QED BY <1>1, <1>5, <1>8, <1>9 DEF SettleInv

(***************************************************************************)
(* What every step keeps                                                   *)
(***************************************************************************)
Steady(f) ==
  /\ fights'[f].kind = fights[f].kind
  /\ fights[f].winner # None => fights'[f].winner = fights[f].winner
  /\ Cut(f) => Cut(f)'

LEMMA SoundStays ==
  ASSUME NEW t \in TaskR, Named(t), SoundTask(t), Steady(t.fight)
  PROVE  SoundTask(t)'
<1>1. t.op = "settle" => t.who \in Players BY DEF Named
<1>2. \A p \in Players : p # None BY Given
<1>3. Draw # None BY Given
<1> QED BY <1>1, <1>2, <1>3 DEF SoundTask, Steady, IsWager, Drawn, Decided

\* The tasks of a longer or shorter queue stay sound.
LEMMA QueueStays ==
  ASSUME SettleInv, \A f \in Fights : Steady(f),
         NEW t \in Tasks(taskQueue)
  PROVE  SoundTask(t)'
<1>1. t \in TaskR /\ Named(t)
  <2>1. taskQueue \in Seq(TaskR) /\ \A u \in Tasks(taskQueue) : Named(u)
    BY DEF SettleInv, Shapes, QueueT
  <2> QED BY <2>1 DEF Tasks
<1>2. t.fight \in Fights BY <1>1 DEF TaskR
<1>3. SoundTask(t) BY DEF SettleInv
<1> QED BY <1>1, <1>2, <1>3, SoundStays

(***************************************************************************)
(* Fights                                                                  *)
(***************************************************************************)
\* The fights after f enters stage s.
LEMMA StageEffect ==
  ASSUME Shapes, NEW f \in Fights, NEW s, Stage(f, s)
  PROVE  /\ DOMAIN fights' = Fights
         /\ \A g \in Fights : /\ DOMAIN fights'[g] = {"kind", "stage", "winner"}
                              /\ fights'[g].kind = fights[g].kind
                              /\ fights'[g].winner = fights[g].winner
                              /\ fights'[g].stage = IF g = f THEN s ELSE fights[g].stage
<1>1. fights' = [fights EXCEPT ![f].stage = s] BY DEF Stage
<1>2. DOMAIN fights = Fights /\ \A g \in Fights : DOMAIN fights[g] = {"kind", "stage", "winner"}
  BY DEF Shapes
<1> QED BY <1>1, <1>2

LEMMA ApproveKeeps ==
  ASSUME SettleInv, NEW f \in Fights, Approve(f) PROVE SettleInv'
<1>1. /\ fights[f].stage = "none" /\ chain.wager[f] = "ABSENT" /\ IsWager(f)
      /\ chain' = [chain EXCEPT !.wager[f] = "ACTIVE"]
  BY DEF Approve, IsNext
<1>2. /\ UNCHANGED cache /\ UNCHANGED fights /\ UNCHANGED taskQueue /\ UNCHANGED db
      /\ UNCHANGED todo /\ UNCHANGED up /\ UNCHANGED told /\ UNCHANGED seen
  BY DEF Approve
<1>3. /\ DOMAIN chain' = ChainFields /\ chain'.wager \in [Fights -> WagerStates]
      /\ \A g \in Fights : chain'.wager[g] = IF g = f THEN "ACTIVE" ELSE chain.wager[g]
  <2>1. DOMAIN chain = ChainFields /\ chain.wager \in [Fights -> WagerStates]
    BY DEF SettleInv, Shapes
  <2>2. "ACTIVE" \in WagerStates BY DEF WagerStates
  <2> QED BY <1>1, <2>1, <2>2 DEF ChainFields
<1>4. Shapes' BY <1>2, <1>3 DEF SettleInv, Shapes
<1>5. \A g \in Fights : Steady(g) BY <1>1, <1>2, <1>3 DEF Steady, Cut, Closed
<1>6. \A t \in Tasks(taskQueue)' : SoundTask(t)'
  <2>1. Tasks(taskQueue)' = Tasks(taskQueue) BY <1>2
  <2> QED BY <1>5, <2>1, QueueStays
<1>7. ASSUME NEW g \in Fights PROVE StageI(g)' /\ RowI(g)' /\ WagerI(g)'
  <2>1. StageI(g) /\ RowI(g) /\ WagerI(g) BY DEF SettleInv
  <2>2. "ACTIVE" \notin Players /\ "ABSENT" \notin Players BY Given
  <2>3. StageI(g)' BY <1>1, <1>2, <1>3, <2>1 DEF StageI, Over
  <2>4. RowI(g)' BY <1>1, <1>2, <1>3, <2>1 DEF RowI, Cut, Closed
  <2>5. WagerI(g)' BY <1>1, <1>2, <1>3, <2>1, <2>2 DEF WagerI, Drawn, IsWager
  <2> QED BY <2>3, <2>4, <2>5
<1> QED BY <1>2, <1>4, <1>6, <1>7 DEF SettleInv

LEMMA AcceptedKeeps ==
  ASSUME SettleInv, NEW f \in Fights, WagerAccepted(f) PROVE SettleInv'
<1>1. /\ up /\ fights[f].stage = "none" /\ chain.wager[f] = "ACTIVE" /\ Stage(f, "accepted")
      /\ db' = [db EXCEPT !.requests = @ \cup {<<"insert", f>>}]
  BY DEF WagerAccepted, IsNext
<1>2. /\ UNCHANGED chain /\ UNCHANGED cache /\ UNCHANGED taskQueue
      /\ UNCHANGED todo /\ UNCHANGED up /\ UNCHANGED told /\ UNCHANGED seen
  BY DEF WagerAccepted
<1>3. /\ DOMAIN fights' = Fights
      /\ \A g \in Fights : /\ DOMAIN fights'[g] = {"kind", "stage", "winner"}
                           /\ fights'[g].kind = fights[g].kind
                           /\ fights'[g].winner = fights[g].winner
                           /\ fights'[g].stage = IF g = f THEN "accepted" ELSE fights[g].stage
  BY <1>1, StageEffect DEF SettleInv
<1>4. /\ DOMAIN db' = DbFields /\ db'.rows = db.rows /\ db'.failed = db.failed
      /\ db'.requests = db.requests \cup {<<"insert", f>>}
  BY <1>1 DEF SettleInv, Shapes, DbFields
<1>5. db'.requests \subseteq {"insert", "delete"} \X Fights BY <1>4 DEF SettleInv, Shapes
<1>6. Shapes' BY <1>2, <1>3, <1>4, <1>5 DEF SettleInv, Shapes
<1>7. \A g \in Fights : Steady(g) BY <1>2, <1>3 DEF Steady, Cut, Closed
<1>8. \A t \in Tasks(taskQueue)' : SoundTask(t)'
  <2>1. Tasks(taskQueue)' = Tasks(taskQueue) BY <1>2
  <2> QED BY <1>7, <2>1, QueueStays
<1>9. ASSUME NEW g \in Fights PROVE StageI(g)' /\ RowI(g)' /\ WagerI(g)'
  <2>1. StageI(g) /\ RowI(g) /\ WagerI(g) BY DEF SettleInv
  <2>2. fights'[g].winner = fights[g].winner /\ fights'[g].kind = fights[g].kind
        /\ fights'[g].stage = IF g = f THEN "accepted" ELSE fights[g].stage
    BY <1>3
  <2>3. StageI(g)' BY <1>1, <1>2, <2>1, <2>2 DEF StageI, Over, Stages
  <2>4. RowI(g)'
    <3>1. <<"delete", g>> \in db'.requests => <<"delete", g>> \in db.requests BY <1>4
    <3>2. <<"insert", g>> \in db'.requests \cup db'.failed =>
            g = f \/ <<"insert", g>> \in db.requests \cup db.failed
      BY <1>4
    <3>3. <<"insert", g>> \in db.requests \cup db.failed =>
            <<"insert", g>> \in db'.requests \cup db'.failed
      BY <1>4
    <3>4. g = f => <<"insert", g>> \in db'.requests \cup db'.failed BY <1>4
    <3> QED BY <1>1, <1>2, <1>4, <2>1, <2>2, <3>1, <3>2, <3>3, <3>4 DEF RowI, Cut, Closed
  <2>5. WagerI(g)' BY <1>2, <2>1, <2>2 DEF WagerI, Drawn, IsWager
  <2> QED BY <2>3, <2>4, <2>5
<1> QED BY <1>1, <1>2, <1>6, <1>8, <1>9 DEF SettleInv

LEMMA GivesUpKeeps ==
  ASSUME SettleInv, NEW f \in Fights, AcceptGivesUp(f) PROVE SettleInv'
<1>1. /\ up /\ fights[f].stage = "accepted" /\ Stage(f, "gone")
      /\ seen' = [seen EXCEPT !.interrupted = @ \cup {f}]
  BY DEF AcceptGivesUp
<1>2. /\ UNCHANGED chain /\ UNCHANGED cache /\ UNCHANGED taskQueue /\ UNCHANGED db
      /\ UNCHANGED todo /\ UNCHANGED up /\ UNCHANGED told
  BY DEF AcceptGivesUp
<1>3. /\ DOMAIN fights' = Fights
      /\ \A g \in Fights : /\ DOMAIN fights'[g] = {"kind", "stage", "winner"}
                           /\ fights'[g].kind = fights[g].kind
                           /\ fights'[g].winner = fights[g].winner
                           /\ fights'[g].stage = IF g = f THEN "gone" ELSE fights[g].stage
  BY <1>1, StageEffect DEF SettleInv
<1>4. /\ DOMAIN seen' = SeenFields /\ seen'.interrupted = seen.interrupted \cup {f}
      /\ seen'.expired = seen.expired
  BY <1>1 DEF SettleInv, Shapes, SeenFields
<1>5. Shapes' BY <1>2, <1>3, <1>4 DEF SettleInv, Shapes
<1>6. \A g \in Fights : Steady(g) BY <1>2, <1>3, <1>4 DEF Steady, Cut, Closed
<1>7. \A t \in Tasks(taskQueue)' : SoundTask(t)'
  <2>1. Tasks(taskQueue)' = Tasks(taskQueue) BY <1>2
  <2> QED BY <1>6, <2>1, QueueStays
<1>8. ASSUME NEW g \in Fights PROVE StageI(g)' /\ RowI(g)' /\ WagerI(g)'
  <2>1. StageI(g) /\ RowI(g) /\ WagerI(g) BY DEF SettleInv
  <2>2. fights'[g].winner = fights[g].winner /\ fights'[g].kind = fights[g].kind
        /\ fights'[g].stage = IF g = f THEN "gone" ELSE fights[g].stage
    BY <1>3
  <2>3. StageI(g)' BY <1>1, <1>2, <1>4, <2>1, <2>2 DEF StageI, Over, Stages
  <2>4. RowI(g)' BY <1>1, <1>2, <1>4, <2>1, <2>2 DEF RowI, Cut, Closed
  <2>5. WagerI(g)' BY <1>2, <1>4, <2>1, <2>2 DEF WagerI, Drawn, IsWager
  <2> QED BY <2>3, <2>4, <2>5
<1> QED BY <1>1, <1>2, <1>5, <1>7, <1>8 DEF SettleInv

\* A queue that grows by sound tasks is sound.
LEMMA Enqueued ==
  ASSUME SettleInv, \A f \in Fights : Steady(f), NEW r, QueueT(r), Enqueue(r),
         \A t \in Tasks(r) : SoundTask(t)'
  PROVE  QueueT(taskQueue)' /\ \A t \in Tasks(taskQueue)' : SoundTask(t)'
<1>1. taskQueue' = taskQueue \o r BY DEF Enqueue
<1>2. QueueT(taskQueue) BY DEF SettleInv, Shapes
<1>3. QueueT(taskQueue \o r) /\ Tasks(taskQueue \o r) \subseteq Tasks(taskQueue) \cup Tasks(r)
  BY <1>2, QueueConcat
<1> QED BY <1>1, <1>3, QueueStays

\* A queue of two tasks, and of three.
LEMMA QueueTwo ==
  ASSUME NEW t \in TaskR, NEW u \in TaskR, Named(t), Named(u)
  PROVE  QueueT(<<t, u>>) /\ Tasks(<<t, u>>) = {t, u}
<1>1. /\ <<t, u>> \in Seq(TaskR) /\ Len(<<t, u>>) = 2
      /\ <<t, u>>[1] = t /\ <<t, u>>[2] = u
  OBVIOUS
<1>2. Tasks(<<t, u>>) = {t, u} BY <1>1 DEF Tasks
<1> QED BY <1>1, <1>2 DEF QueueT

LEMMA CreateKeeps ==
  ASSUME SettleInv, NEW f \in Fights, CreateFight(f) PROVE SettleInv'
<1> DEFINE t == Task("lock", f, PlayerA, {})
           u == Task("lock", f, PlayerB, {})
<1>1. /\ up /\ Stage(f, "fighting") /\ Enqueue(<<t, u>>)
      /\ IF IsWager(f) THEN fights[f].stage = "accepted" ELSE IsNext(f)
  BY DEF CreateFight
<1>2. /\ UNCHANGED chain /\ UNCHANGED cache /\ UNCHANGED db
      /\ UNCHANGED todo /\ UNCHANGED up /\ UNCHANGED told /\ UNCHANGED seen
  BY DEF CreateFight
<1>3. /\ DOMAIN fights' = Fights
      /\ \A g \in Fights : /\ DOMAIN fights'[g] = {"kind", "stage", "winner"}
                           /\ fights'[g].kind = fights[g].kind
                           /\ fights'[g].winner = fights[g].winner
                           /\ fights'[g].stage = IF g = f THEN "fighting" ELSE fights[g].stage
  BY <1>1, StageEffect DEF SettleInv
<1>4. \A g \in Fights : Steady(g) BY <1>2, <1>3 DEF Steady, Cut, Closed
<1>5. t \in TaskR /\ u \in TaskR /\ t.op = "lock" /\ u.op = "lock" /\ Named(t) /\ Named(u)
  <2>1. PlayerA \in Players /\ PlayerB \in Players /\ "lock" \in Ops BY DEF Players, Ops
  <2> QED BY <2>1, TaskTyped DEF Named
<1>6. QueueT(taskQueue)' /\ \A v \in Tasks(taskQueue)' : SoundTask(v)'
  <2> HIDE DEF t, u
  <2>1. QueueT(<<t, u>>) /\ Tasks(<<t, u>>) = {t, u} BY <1>5, QueueTwo
  <2>2. \A v \in Tasks(<<t, u>>) : SoundTask(v)' BY <1>5, <2>1 DEF SoundTask
  <2> QED BY <1>1, <1>4, <2>1, <2>2, Enqueued
<1>7. Shapes' BY <1>2, <1>3, <1>6 DEF SettleInv, Shapes
<1>8. ASSUME NEW g \in Fights PROVE StageI(g)' /\ RowI(g)' /\ WagerI(g)'
  <2>1. StageI(g) /\ RowI(g) /\ WagerI(g) BY DEF SettleInv
  <2>2. fights'[g].winner = fights[g].winner /\ fights'[g].kind = fights[g].kind
        /\ fights'[g].stage = IF g = f THEN "fighting" ELSE fights[g].stage
    BY <1>3
  <2>3. g = f => fights[g].stage \in {"accepted", "none"} BY <1>1 DEF IsNext
  <2>4. g = f => chain.wager[g] # "ACTIVE" \/ fights[g].stage = "accepted"
    BY <1>1, <2>1 DEF WagerI
  <2>5. StageI(g)' BY <1>1, <1>2, <2>1, <2>2, <2>3 DEF StageI, Over, Stages
  <2>6. RowI(g)' BY <1>2, <2>1, <2>2, <2>3, <2>4 DEF RowI, Cut, Closed
  <2>7. WagerI(g)' BY <1>2, <2>1, <2>2 DEF WagerI, Drawn, IsWager
  <2> QED BY <2>5, <2>6, <2>7
<1> QED BY <1>1, <1>2, <1>6, <1>7, <1>8 DEF SettleInv

LEMMA QueueThree ==
  ASSUME NEW t \in TaskR, NEW u \in TaskR, NEW v \in TaskR, Named(t), Named(u), Named(v)
  PROVE  QueueT(<<t, u, v>>) /\ Tasks(<<t, u, v>>) = {t, u, v}
<1>1. /\ <<t, u, v>> \in Seq(TaskR) /\ Len(<<t, u, v>>) = 3
      /\ <<t, u, v>>[1] = t /\ <<t, u, v>>[2] = u /\ <<t, u, v>>[3] = v
  OBVIOUS
<1>2. Tasks(<<t, u, v>>) = {t, u, v} BY <1>1 DEF Tasks
<1> QED BY <1>1, <1>2 DEF QueueT

\* What a decided fight sends at once.
LEMMA WinTasksSent ==
  ASSUME NEW f \in Fights, NEW w \in Players, cache'.rating[w] \in SUBSET Fights
  PROVE  /\ QueueT(WinTasks(f, w))
         /\ \A t \in Tasks(WinTasks(f, w)) :
              /\ t.fight = f
              /\ t.op = "settle" => IsWager(f) /\ t.who = w
              /\ t.op \in {"settle", "unlock", "update"}
<1> DEFINE a == Task("settle", f, w, {})
           b == Task("unlock", f, w, {})
           c == Task("unlock", f, Opponent(w), {})
           d == Task("update", f, w, cache'.rating[w])
           r == IF IsWager(f) THEN <<a>> ELSE <<>>
           s == <<b, c, d>>
<1>1. WinTasks(f, w) = r \o s BY DEF WinTasks
<1>2. "settle" \in Ops /\ "unlock" \in Ops /\ "update" \in Ops BY DEF Ops
<1>3. Opponent(w) \in Players BY Opponents
<1>4. a \in TaskR /\ a.op = "settle" /\ a.fight = f /\ a.who = w BY <1>2, TaskTyped
<1>5. b \in TaskR /\ b.op = "unlock" /\ b.fight = f /\ b.who = w BY <1>2, TaskTyped
<1>6. c \in TaskR /\ c.op = "unlock" /\ c.fight = f /\ c.who = Opponent(w)
  BY <1>2, <1>3, TaskTyped
<1>7. d \in TaskR /\ d.op = "update" /\ d.fight = f /\ d.who = w BY <1>2, TaskTyped
<1> HIDE DEF a, b, c, d
<1>8. Named(a) /\ Named(b) /\ Named(c) /\ Named(d) BY <1>3, <1>4, <1>5, <1>6, <1>7 DEF Named
<1>9. QueueT(s) /\ Tasks(s) = {b, c, d} BY <1>5, <1>6, <1>7, <1>8, QueueThree
<1>10. QueueT(r) /\ Tasks(r) \subseteq {a} /\ (Tasks(r) # {} => IsWager(f))
  BY <1>4, <1>8, QueueOne, QueueEmpty
<1> HIDE DEF r, s
<1>11. QueueT(r \o s) /\ Tasks(r \o s) \subseteq Tasks(r) \cup Tasks(s)
  BY <1>9, <1>10, QueueConcat
<1>12. ASSUME NEW t \in Tasks(r \o s)
       PROVE  /\ t.fight = f
              /\ t.op = "settle" => IsWager(f) /\ t.who = w
              /\ t.op \in {"settle", "unlock", "update"}
  <2>1. (t = a /\ IsWager(f)) \/ t = b \/ t = c \/ t = d BY <1>9, <1>10, <1>11
  <2> QED BY <2>1, <1>4, <1>5, <1>6, <1>7
<1> QED BY <1>1, <1>11, <1>12

LEMMA WonKeeps ==
  ASSUME SettleInv, NEW f \in Fights, NEW w \in Players, FinishWon(f, w) PROVE SettleInv'
<1>1. /\ up /\ fights[f].stage = "fighting" /\ Enqueue(WinTasks(f, w))
      /\ fights' = [fights EXCEPT ![f].stage = "over", ![f].winner = w]
      /\ cache' = [record |-> [p \in Players |-> [cache.record[p] EXCEPT ![f] = @ + 1]],
                   rating |-> [p \in Players |-> IF Rated(f) THEN cache.rating[p] \cup {f}
                                                 ELSE cache.rating[p]]]
      /\ seen' = [seen EXCEPT !.overlap =
                    @ \/ \E i \in DOMAIN taskQueue : taskQueue[i].op = "update"]
  BY DEF FinishWon
<1>2. /\ UNCHANGED chain /\ UNCHANGED db /\ UNCHANGED todo /\ UNCHANGED up /\ UNCHANGED told
  BY DEF FinishWon
<1>3. /\ DOMAIN fights' = Fights
      /\ \A g \in Fights : /\ DOMAIN fights'[g] = {"kind", "stage", "winner"}
                           /\ fights'[g].kind = fights[g].kind
                           /\ fights'[g].winner = IF g = f THEN w ELSE fights[g].winner
                           /\ fights'[g].stage = IF g = f THEN "over" ELSE fights[g].stage
  BY <1>1 DEF SettleInv, Shapes
<1>4. DOMAIN cache' = {"record", "rating"} /\ cache'.rating \in [Players -> SUBSET Fights]
  <2>1. cache.rating \in [Players -> SUBSET Fights] BY DEF SettleInv, Shapes
  <2>2. \A p \in Players : (IF Rated(f) THEN cache.rating[p] \cup {f} ELSE cache.rating[p])
                             \in SUBSET Fights
    BY <2>1
  <2>3. cache'.rating = [p \in Players |-> IF Rated(f) THEN cache.rating[p] \cup {f}
                                           ELSE cache.rating[p]]
    BY <1>1
  <2> QED BY <1>1, <2>2, <2>3
<1>5. DOMAIN seen' = SeenFields /\ seen'.interrupted = seen.interrupted
      /\ seen'.expired = seen.expired
  BY <1>1 DEF SettleInv, Shapes, SeenFields
<1>6. fights[f].winner = None BY <1>1 DEF SettleInv, StageI, Over
<1>7. \A g \in Fights : Steady(g) BY <1>2, <1>3, <1>5, <1>6 DEF Steady, Cut, Closed
<1>8. QueueT(taskQueue)' /\ \A v \in Tasks(taskQueue)' : SoundTask(v)'
  <2> DEFINE r == WinTasks(f, w)
  <2>1. cache'.rating[w] \in SUBSET Fights BY <1>4
  <2>2. /\ QueueT(r)
        /\ \A t \in Tasks(r) : /\ t.fight = f
                               /\ t.op = "settle" => IsWager(f) /\ t.who = w
                               /\ t.op \in {"settle", "unlock", "update"}
    BY <2>1, WinTasksSent
  <2>3. Enqueue(r) BY <1>1
  <2> HIDE DEF r
  <2>4. ASSUME NEW t \in Tasks(r) PROVE SoundTask(t)'
    <3>1. /\ t.fight = f /\ (t.op = "settle" => IsWager(f) /\ t.who = w)
          /\ t.op \in {"settle", "unlock", "update"}
      BY <2>2
    <3>2. fights'[f].winner = w /\ fights'[f].kind = fights[f].kind BY <1>3
    <3> QED BY <3>1, <3>2 DEF SoundTask, IsWager, Decided
  <2> QED BY <1>7, <2>2, <2>3, <2>4, Enqueued
<1>9. Shapes' BY <1>2, <1>3, <1>4, <1>5, <1>8 DEF SettleInv, Shapes
<1>10. ASSUME NEW g \in Fights PROVE StageI(g)' /\ RowI(g)' /\ WagerI(g)'
  <2>1. StageI(g) /\ RowI(g) /\ WagerI(g) BY DEF SettleInv
  <2>2. /\ fights'[g].winner = (IF g = f THEN w ELSE fights[g].winner)
        /\ fights'[g].kind = fights[g].kind
        /\ fights'[g].stage = IF g = f THEN "over" ELSE fights[g].stage
    BY <1>3
  <2>3. w # None /\ None \notin Players /\ Draw # None BY Given
  <2>4. StageI(g)' BY <1>1, <1>2, <1>5, <2>1, <2>2, <2>3 DEF StageI, Over, Stages
  <2>5. RowI(g)' BY <1>1, <1>2, <1>5, <2>1, <2>2 DEF RowI, Cut, Closed
  <2>6. WagerI(g)' BY <1>2, <1>5, <1>6, <2>1, <2>2, <2>3 DEF WagerI, Drawn, IsWager
  <2> QED BY <2>4, <2>5, <2>6
<1> QED BY <1>1, <1>2, <1>8, <1>9, <1>10 DEF SettleInv

LEMMA DrawnKeeps ==
  ASSUME SettleInv, NEW f \in Fights, FinishDrawn(f) PROVE SettleInv'
<1> DEFINE t == Task("bundle", f, None, {})
<1>1. /\ up /\ fights[f].stage = "fighting" /\ Enqueue(<<t>>)
      /\ fights' = [fights EXCEPT ![f].stage = "over", ![f].winner = Draw]
  BY DEF FinishDrawn
<1>2. /\ UNCHANGED chain /\ UNCHANGED cache /\ UNCHANGED db
      /\ UNCHANGED todo /\ UNCHANGED up /\ UNCHANGED told /\ UNCHANGED seen
  BY DEF FinishDrawn
<1>3. /\ DOMAIN fights' = Fights
      /\ \A g \in Fights : /\ DOMAIN fights'[g] = {"kind", "stage", "winner"}
                           /\ fights'[g].kind = fights[g].kind
                           /\ fights'[g].winner = IF g = f THEN Draw ELSE fights[g].winner
                           /\ fights'[g].stage = IF g = f THEN "over" ELSE fights[g].stage
  BY <1>1 DEF SettleInv, Shapes
<1>4. fights[f].winner = None BY <1>1 DEF SettleInv, StageI, Over
<1>5. \A g \in Fights : Steady(g) BY <1>2, <1>3, <1>4 DEF Steady, Cut, Closed
<1>6. t \in TaskR /\ t.op = "bundle" /\ t.fight = f BY TaskTyped DEF Ops
<1>7. QueueT(taskQueue)' /\ \A v \in Tasks(taskQueue)' : SoundTask(v)'
  <2> HIDE DEF t
  <2>1. QueueT(<<t>>) /\ Tasks(<<t>>) = {t} BY <1>6, QueueOne DEF Named
  <2>2. fights'[f].winner = Draw BY <1>3
  <2>3. \A v \in Tasks(<<t>>) : SoundTask(v)' BY <1>6, <2>1, <2>2 DEF SoundTask, Drawn
  <2> QED BY <1>1, <1>5, <2>1, <2>3, Enqueued
<1>8. Shapes' BY <1>2, <1>3, <1>7 DEF SettleInv, Shapes
<1>9. ASSUME NEW g \in Fights PROVE StageI(g)' /\ RowI(g)' /\ WagerI(g)'
  <2>1. StageI(g) /\ RowI(g) /\ WagerI(g) BY DEF SettleInv
  <2>2. /\ fights'[g].winner = (IF g = f THEN Draw ELSE fights[g].winner)
        /\ fights'[g].kind = fights[g].kind
        /\ fights'[g].stage = IF g = f THEN "over" ELSE fights[g].stage
    BY <1>3
  <2>3. None \notin Players /\ Draw # None BY Given
  <2>4. StageI(g)' BY <1>1, <1>2, <2>1, <2>2, <2>3 DEF StageI, Over, Stages
  <2>5. RowI(g)' BY <1>1, <1>2, <2>1, <2>2 DEF RowI, Cut, Closed
  <2>6. WagerI(g)' BY <1>2, <1>4, <2>1, <2>2, <2>3 DEF WagerI, Drawn, IsWager
  <2> QED BY <2>4, <2>5, <2>6
<1> QED BY <1>1, <1>2, <1>7, <1>8, <1>9 DEF SettleInv

(***************************************************************************)
(* Recovery, crashes and the chain's own timeout                           *)
(***************************************************************************)
LEMMA SweepKeeps ==
  ASSUME SettleInv, NEW f \in Fights, SweepOne(f) PROVE SettleInv'
<1> DEFINE t == Task("cancel", f, None, {})
<1>1. /\ up /\ f \in todo /\ todo' = todo \ {f}
      /\ \/ UNCHANGED <<taskQueue, db>>
         \/ chain.wager[f] = "ACTIVE" /\ Enqueue(<<t>>) /\ UNCHANGED db
         \/ /\ chain.wager[f] # "ACTIVE" /\ UNCHANGED taskQueue
            /\ db' = [db EXCEPT !.requests = @ \cup {<<"delete", f>>}]
  BY DEF SweepOne
<1>2. /\ UNCHANGED chain /\ UNCHANGED cache /\ UNCHANGED fights
      /\ UNCHANGED up /\ UNCHANGED told /\ UNCHANGED seen
  BY DEF SweepOne
<1>3. \A g \in Fights : Steady(g) BY <1>2 DEF Steady, Cut, Closed
<1>4. RowI(f) /\ Cut(f) BY <1>1 DEF SettleInv, RowI
<1>5. t \in TaskR /\ t.op = "cancel" /\ t.fight = f BY TaskTyped DEF Ops
<1> HIDE DEF t
<1>6. QueueT(taskQueue)' /\ \A v \in Tasks(taskQueue)' : SoundTask(v)'
  <2>1. CASE Enqueue(<<t>>)
    <3>1. QueueT(<<t>>) /\ Tasks(<<t>>) = {t} BY <1>5, QueueOne DEF Named
    <3>2. Cut(f)' BY <1>2, <1>4 DEF Cut, Closed
    <3>3. \A v \in Tasks(<<t>>) : SoundTask(v)' BY <1>5, <3>1, <3>2 DEF SoundTask
    <3> QED BY <1>3, <2>1, <3>1, <3>3, Enqueued
  <2>2. CASE UNCHANGED taskQueue
    <3>1. Tasks(taskQueue)' = Tasks(taskQueue) BY <2>2
    <3>2. QueueT(taskQueue)' BY <2>2 DEF SettleInv, Shapes
    <3> QED BY <1>3, <3>1, <3>2, QueueStays
  <2> QED BY <1>1, <2>1, <2>2
<1>7. /\ DOMAIN db' = DbFields /\ db'.rows = db.rows /\ db'.failed = db.failed
      /\ \/ db'.requests = db.requests
         \/ Closed(f) /\ db'.requests = db.requests \cup {<<"delete", f>>}
  <2>1. DOMAIN db = DbFields BY DEF SettleInv, Shapes
  <2>2. CASE UNCHANGED db BY <2>1, <2>2
  <2>3. CASE chain.wager[f] # "ACTIVE" /\ db' = [db EXCEPT !.requests = @ \cup {<<"delete", f>>}]
    <3>1. Closed(f) BY <1>1, <1>4, <2>3 DEF RowI, Closed
    <3> QED BY <2>1, <2>3, <3>1 DEF DbFields
  <2> QED BY <1>1, <2>2, <2>3
<1>8. db'.requests \subseteq {"insert", "delete"} \X Fights BY <1>7 DEF SettleInv, Shapes
<1>9. Shapes' BY <1>1, <1>2, <1>6, <1>7, <1>8 DEF SettleInv, Shapes
<1>10. ASSUME NEW g \in Fights PROVE StageI(g)' /\ RowI(g)' /\ WagerI(g)'
  <2>1. StageI(g) /\ RowI(g) /\ WagerI(g) BY DEF SettleInv
  <2>2. StageI(g)' BY <1>2, <2>1 DEF StageI, Over
  <2>3. RowI(g)'
    <3>1. <<"insert", g>> \in db'.requests \cup db'.failed
            <=> <<"insert", g>> \in db.requests \cup db.failed
      BY <1>7
    <3>2. <<"delete", g>> \in db'.requests => <<"delete", g>> \in db.requests \/ Closed(g)
      BY <1>7
    <3> QED BY <1>1, <1>2, <1>7, <2>1, <3>1, <3>2 DEF RowI, Cut, Closed
  <2>4. WagerI(g)' BY <1>2, <2>1 DEF WagerI, Drawn, IsWager
  <2> QED BY <2>2, <2>3, <2>4
<1> QED BY <1>1, <1>2, <1>6, <1>9, <1>10 DEF SettleInv

LEMMA ExpireKeeps ==
  ASSUME SettleInv, NEW f \in Fights, Expire(f) PROVE SettleInv'
<1>1. /\ chain.wager[f] = "ACTIVE" /\ chain' = [chain EXCEPT !.wager[f] = "split"]
      /\ seen' = [seen EXCEPT !.expired = @ \cup {f}, !.faults = @ + 1]
  BY DEF Expire
<1>2. /\ UNCHANGED cache /\ UNCHANGED fights /\ UNCHANGED taskQueue /\ UNCHANGED db
      /\ UNCHANGED todo /\ UNCHANGED up /\ UNCHANGED told
  BY DEF Expire
<1>3. /\ DOMAIN chain' = ChainFields /\ chain'.wager \in [Fights -> WagerStates]
      /\ \A g \in Fights : chain'.wager[g] = IF g = f THEN "split" ELSE chain.wager[g]
  <2>1. DOMAIN chain = ChainFields /\ chain.wager \in [Fights -> WagerStates]
    BY DEF SettleInv, Shapes
  <2>2. "split" \in WagerStates BY DEF WagerStates
  <2> QED BY <1>1, <2>1, <2>2 DEF ChainFields
<1>4. /\ DOMAIN seen' = SeenFields /\ seen'.interrupted = seen.interrupted
      /\ seen'.expired = seen.expired \cup {f}
  BY <1>1 DEF SettleInv, Shapes, SeenFields
<1>5. Shapes' BY <1>2, <1>3, <1>4 DEF SettleInv, Shapes
<1>6. \A g \in Fights : Steady(g) BY <1>1, <1>2, <1>3, <1>4 DEF Steady, Cut, Closed
<1>7. \A t \in Tasks(taskQueue)' : SoundTask(t)'
  <2>1. Tasks(taskQueue)' = Tasks(taskQueue) BY <1>2
  <2> QED BY <1>6, <2>1, QueueStays
<1>8. ASSUME NEW g \in Fights PROVE StageI(g)' /\ RowI(g)' /\ WagerI(g)'
  <2>1. StageI(g) /\ RowI(g) /\ WagerI(g) BY DEF SettleInv
  <2>2. "ACTIVE" \notin Players /\ "split" \notin Players BY Given
  <2>3. StageI(g)' BY <1>1, <1>2, <1>3, <1>4, <2>1 DEF StageI, Over
  <2>4. RowI(g)' BY <1>1, <1>2, <1>3, <1>4, <2>1 DEF RowI, Cut, Closed
  <2>5. WagerI(g)' BY <1>1, <1>2, <1>3, <1>4, <2>1, <2>2 DEF WagerI, Drawn, IsWager
  <2> QED BY <2>3, <2>4, <2>5
<1> QED BY <1>2, <1>5, <1>7, <1>8 DEF SettleInv

LEMMA RequestKeeps ==
  ASSUME SettleInv, NEW r \in db.requests, RequestDone(r) PROVE SettleInv'
<1>1. PICK ok \in BOOLEAN :
        /\ seen' = [seen EXCEPT !.faults = IF ok THEN @ ELSE @ + 1]
        /\ db' = [rows |-> IF ~ok THEN db.rows
                           ELSE IF r[1] = "insert" THEN db.rows \cup {r[2]}
                           ELSE db.rows \ {r[2]},
                  requests |-> db.requests \ {r},
                  failed |-> IF ok THEN db.failed ELSE db.failed \cup {r}]
  BY DEF RequestDone
<1>2. /\ UNCHANGED chain /\ UNCHANGED cache /\ UNCHANGED fights /\ UNCHANGED taskQueue
      /\ UNCHANGED todo /\ UNCHANGED up /\ UNCHANGED told
  BY DEF RequestDone
<1>3. r[1] \in {"insert", "delete"} /\ r[2] \in Fights /\ r = <<r[1], r[2]>>
  BY DEF SettleInv, Shapes
<1>4. DOMAIN seen' = SeenFields /\ seen'.interrupted = seen.interrupted
      /\ seen'.expired = seen.expired
  BY <1>1 DEF SettleInv, Shapes, SeenFields
<1>5. /\ DOMAIN db' = DbFields /\ db'.requests = db.requests \ {r}
      /\ db'.failed = (IF ok THEN db.failed ELSE db.failed \cup {r})
      /\ db'.rows = IF ~ok THEN db.rows
                    ELSE IF r[1] = "insert" THEN db.rows \cup {r[2]} ELSE db.rows \ {r[2]}
  BY <1>1 DEF DbFields
<1>6. Shapes'
  <2>1. db'.rows \subseteq Fights /\ db'.requests \subseteq db.requests
    BY <1>3, <1>5 DEF SettleInv, Shapes
  <2> QED BY <1>2, <1>4, <1>5, <2>1 DEF SettleInv, Shapes
<1>7. \A g \in Fights : Steady(g) BY <1>2, <1>4 DEF Steady, Cut, Closed
<1>8. \A t \in Tasks(taskQueue)' : SoundTask(t)'
  <2>1. Tasks(taskQueue)' = Tasks(taskQueue) BY <1>2
  <2> QED BY <1>7, <2>1, QueueStays
<1>9. ASSUME NEW g \in Fights PROVE StageI(g)' /\ RowI(g)' /\ WagerI(g)'
  <2>1. StageI(g) /\ RowI(g) /\ WagerI(g) BY DEF SettleInv
  <2>2. StageI(g)' BY <1>2, <1>4, <2>1 DEF StageI, Over
  <2>3. RowI(g)'
    <3> DEFINE wanted == <<"insert", g>> \in db.requests \cup db.failed
               wanted2 == <<"insert", g>> \in db'.requests \cup db'.failed
    <3>1. CASE r = <<"insert", g>>
      <4>1. r[1] = "insert" /\ r[2] = g /\ wanted BY <3>1
      <4>2. g \in db'.rows \/ wanted2 BY <1>5, <4>1
      <4>3. <<"delete", g>> \in db'.requests => <<"delete", g>> \in db.requests BY <1>5
      <4> QED BY <1>2, <1>4, <2>1, <4>1, <4>2, <4>3 DEF RowI, Cut, Closed
    <3>2. CASE r = <<"delete", g>>
      <4>1. r[1] = "delete" /\ r[2] = g /\ <<"delete", g>> \in db.requests BY <3>2
      <4>2. Closed(g) BY <2>1, <4>1 DEF RowI
      <4>3. wanted2 <=> wanted BY <1>5, <4>1
      <4>4. g \in db'.rows => g \in db.rows BY <1>5, <4>1
      <4> QED BY <1>2, <1>4, <2>1, <4>1, <4>2, <4>3, <4>4 DEF RowI, Cut, Closed
    <3>3. CASE r # <<"insert", g>> /\ r # <<"delete", g>>
      <4>1. r[2] # g BY <1>3, <3>3
      <4>2. wanted2 <=> wanted BY <1>5, <3>3
      <4>3. g \in db'.rows <=> g \in db.rows BY <1>5, <4>1
      <4>4. <<"delete", g>> \in db'.requests => <<"delete", g>> \in db.requests BY <1>5
      <4> QED BY <1>2, <1>4, <2>1, <4>2, <4>3, <4>4 DEF RowI, Cut, Closed
    <3> QED BY <3>1, <3>2, <3>3
  <2>4. WagerI(g)' BY <1>2, <1>4, <2>1 DEF WagerI, Drawn, IsWager
  <2> QED BY <2>2, <2>3, <2>4
<1> QED BY <1>2, <1>6, <1>8, <1>9 DEF SettleInv

LEMMA CrashKeeps ==
  ASSUME SettleInv, Crash PROVE SettleInv'
<1> DEFINE lost == {f \in Fights : fights[f].stage \in {"accepted", "fighting"}}
           unseen == {f \in Fights : fights[f].stage = "none" /\ chain.wager[f] # "ABSENT"}
           late == {f \in Fights : Over(f) /\ told[f] # "settled"}
<1>1. /\ up' = FALSE /\ taskQueue' = <<>> /\ todo' = {}
      /\ fights' = [f \in Fights |->
                      [fights[f] EXCEPT !.stage = IF f \in lost THEN "gone"
                                                  ELSE IF f \in unseen THEN "unseen" ELSE @]]
      /\ seen' = [seen EXCEPT !.crashes = @ + 1,
                              !.interrupted = @ \cup lost \cup late]
  BY DEF Crash
<1>2. UNCHANGED chain /\ UNCHANGED cache /\ UNCHANGED db /\ UNCHANGED told BY DEF Crash
<1>3. /\ DOMAIN fights' = Fights
      /\ \A g \in Fights :
           /\ DOMAIN fights'[g] = {"kind", "stage", "winner"}
           /\ fights'[g].kind = fights[g].kind
           /\ fights'[g].winner = fights[g].winner
           /\ fights'[g].stage = IF g \in lost THEN "gone"
                                 ELSE IF g \in unseen THEN "unseen" ELSE fights[g].stage
  <2>1. \A g \in Fights : DOMAIN fights[g] = {"kind", "stage", "winner"}
    BY DEF SettleInv, Shapes
  <2> HIDE DEF lost, unseen
  <2> QED BY <1>1, <2>1
<1>4. /\ DOMAIN seen' = SeenFields /\ seen'.interrupted = seen.interrupted \cup lost \cup late
      /\ seen'.expired = seen.expired
  <2>1. DOMAIN seen = SeenFields BY DEF SettleInv, Shapes
  <2> HIDE DEF lost, late
  <2> QED BY <1>1, <2>1 DEF SeenFields
<1>5. QueueT(taskQueue)' /\ Tasks(taskQueue)' = {} BY <1>1, QueueEmpty
<1>6. Shapes' BY <1>1, <1>2, <1>3, <1>4, <1>5 DEF SettleInv, Shapes
<1>7. ASSUME NEW g \in Fights PROVE StageI(g)' /\ RowI(g)' /\ WagerI(g)'
  <2>1. StageI(g) /\ RowI(g) /\ WagerI(g) BY DEF SettleInv
  <2>2. /\ fights'[g].winner = fights[g].winner /\ fights'[g].kind = fights[g].kind
        /\ fights'[g].stage = IF fights[g].stage \in {"accepted", "fighting"} THEN "gone"
                              ELSE IF fights[g].stage = "none" /\ chain.wager[g] # "ABSENT"
                              THEN "unseen" ELSE fights[g].stage
    BY <1>3
  <2>3. /\ g \in seen.interrupted => g \in seen'.interrupted
        /\ fights[g].stage \in {"accepted", "fighting"} => g \in seen'.interrupted
        /\ Over(g) /\ told[g] # "settled" => g \in seen'.interrupted
    BY <1>4
  <2>4. StageI(g)' BY <1>1, <1>2, <2>1, <2>2, <2>3 DEF StageI, Over, Stages
  <2>5. RowI(g)' BY <1>1, <1>2, <2>1, <2>2, <2>3 DEF RowI, Cut, Closed
  <2>6. WagerI(g)' BY <1>2, <1>4, <2>1, <2>2, <2>3 DEF WagerI, Drawn, IsWager
  <2> QED BY <2>4, <2>5, <2>6
<1> QED BY <1>1, <1>5, <1>6, <1>7 DEF SettleInv

LEMMA RestartKeeps ==
  ASSUME SettleInv, Restart PROVE SettleInv'
<1>1. ~up /\ up' = TRUE /\ todo' \subseteq db.rows BY DEF Restart
<1>2. /\ UNCHANGED chain /\ UNCHANGED cache /\ UNCHANGED fights /\ UNCHANGED taskQueue
      /\ UNCHANGED db /\ UNCHANGED told /\ UNCHANGED seen
  BY DEF Restart
<1>3. \A g \in Fights : Steady(g) BY <1>2 DEF Steady, Cut, Closed
<1>4. \A t \in Tasks(taskQueue)' : SoundTask(t)'
  <2>1. Tasks(taskQueue)' = Tasks(taskQueue) BY <1>2
  <2> QED BY <1>3, <2>1, QueueStays
<1>5. ASSUME NEW g \in Fights PROVE StageI(g)' /\ RowI(g)' /\ WagerI(g)'
  <2>1. StageI(g) /\ RowI(g) /\ WagerI(g) BY DEF SettleInv
  <2>2. \A p \in Players : p # "ABSENT" /\ p # "ACTIVE" BY Given
  <2>3. g \in db.rows => Cut(g)
    BY <1>1, <2>1, <2>2 DEF StageI, Stages, RowI, WagerI, Over, Cut, Closed
  <2>4. StageI(g)' BY <1>1, <1>2, <2>1 DEF StageI, Over
  <2>5. RowI(g)' BY <1>1, <1>2, <2>1, <2>3 DEF RowI, Cut, Closed
  <2>6. WagerI(g)' BY <1>2, <2>1 DEF WagerI, Drawn, IsWager
  <2> QED BY <2>4, <2>5, <2>6
<1>6. todo' \subseteq Fights
  <2>1. \A f \in db.rows : f \in Fights BY DEF SettleInv, Shapes
  <2> QED BY <1>1, <2>1
<1>7. Shapes' BY <1>1, <1>2, <1>6 DEF SettleInv, Shapes
<1> QED BY <1>1, <1>4, <1>5, <1>7 DEF SettleInv

(***************************************************************************)
(* The treasury queue                                                      *)
(***************************************************************************)
\* The transactions that move stakes, and what they make of the wager.
Pays(t) == t.op \in {"settle", "cancel"} \/ (t.op = "bundle" /\ IsWager(t.fight))
Outcome(t) == CASE t.op = "settle" -> t.who [] t.op = "cancel" -> "split" [] OTHER -> "tie"
Lands(t) == CanExecute(t) /\ chain' = Executed(t)

LEMMA LandsEffect ==
  ASSUME SettleInv, NEW t \in TaskR, Named(t), Lands(t)
  PROVE  /\ DOMAIN chain' = ChainFields /\ chain'.wager \in [Fights -> WagerStates]
         /\ \A g \in Fights :
              chain'.wager[g] = IF g = t.fight /\ Pays(t) THEN Outcome(t) ELSE chain.wager[g]
         /\ Pays(t) => chain.wager[t.fight] = "ACTIVE"
<1>1. Shapes BY DEF SettleInv
<1>2. DOMAIN chain' = ChainFields /\ chain'.wager = WagersAfter(t)
      /\ WagersAfter(t) \in [Fights -> WagerStates]
  <2>1. chain' = Executed(t) BY DEF Lands
  <2> QED BY <1>1, <2>1, ExecuteEffect
<1>3. Pays(t) => chain.wager[t.fight] = "ACTIVE" BY DEF Lands, CanExecute, Pays
<1>4. chain.wager \in [Fights -> WagerStates] /\ t.fight \in Fights BY <1>1 DEF Shapes, TaskR
<1>5. ASSUME NEW g \in Fights
      PROVE  WagersAfter(t)[g] = IF g = t.fight /\ Pays(t) THEN Outcome(t) ELSE chain.wager[g]
  <2>1. CASE t.op = "settle" BY <1>4, <2>1 DEF WagersAfter, Pays, Outcome
  <2>2. CASE t.op = "cancel" BY <1>4, <2>2 DEF WagersAfter, Pays, Outcome
  <2>3. CASE t.op = "bundle" /\ IsWager(t.fight) BY <1>4, <2>3 DEF WagersAfter, Pays, Outcome
  <2>4. CASE ~Pays(t) BY <2>4 DEF WagersAfter, Pays
  <2> QED BY <2>1, <2>2, <2>3, <2>4 DEF Pays
<1> QED BY <1>2, <1>3, <1>5

\* The update that follows that of the winner.
LEMMA NextUpdateSent ==
  ASSUME SettleInv, NEW t \in TaskR, Named(t), SoundTask(t),
         cache'.rating \in [Players -> SUBSET Fights]
  PROVE  /\ QueueT(NextUpdate(t))
         /\ \A u \in Tasks(NextUpdate(t)) :
              u.op = "update" /\ u.fight = t.fight /\ Decided(t.fight)
<1>1. CASE t.op = "update" /\ t.who = fights[t.fight].winner
  <2> DEFINE l == Opponent(t.who)
             u == Task("update", t.fight, l, cache'.rating[l])
  <2>1. NextUpdate(t) = <<u>> BY <1>1 DEF NextUpdate
  <2>2. l \in Players BY <1>1, Opponents DEF Named
  <2>3. cache'.rating[l] \in SUBSET Fights BY <2>2
  <2>4. t.fight \in Fights /\ "update" \in Ops BY DEF TaskR, Ops
  <2>5. u \in TaskR /\ u.op = "update" /\ u.fight = t.fight /\ u.who = l
    BY <2>2, <2>3, <2>4, TaskTyped
  <2>6. Decided(t.fight) BY <1>1 DEF SoundTask
  <2> HIDE DEF l, u
  <2>7. QueueT(<<u>>) /\ Tasks(<<u>>) = {u} BY <2>2, <2>5, QueueOne DEF Named
  <2> QED BY <2>1, <2>5, <2>6, <2>7
<1>2. CASE ~(t.op = "update" /\ t.who = fights[t.fight].winner)
  <2>1. NextUpdate(t) = <<>> BY <1>2 DEF NextUpdate
  <2> QED BY <2>1, QueueEmpty
<1> QED BY <1>1, <1>2

\* What an attempt at t may do.
Attempted(t) ==
  /\ UNCHANGED fights /\ UNCHANGED todo /\ UNCHANGED up
  /\ DOMAIN seen' = SeenFields /\ seen'.interrupted = seen.interrupted
  /\ seen'.expired = seen.expired
  /\ UNCHANGED chain \/ Lands(t)
  /\ DOMAIN cache' = {"record", "rating"} /\ cache'.rating \in [Players -> SUBSET Fights]
  /\ UNCHANGED taskQueue \/ taskQueue' = Tail(taskQueue) \o NextUpdate(t)
  /\ DOMAIN told' = Fights
  /\ \A g \in Fights : told'[g] = "settled" =>
       told[g] = "settled" \/ (g = t.fight /\ Lands(t) /\ Pays(t) /\ t.op # "cancel")
  /\ \/ UNCHANGED db
     \/ /\ Lands(t) /\ Pays(t)
        /\ db' = [db EXCEPT !.requests = @ \cup {<<"delete", t.fight>>}]

LEMMA AttemptKeeps ==
  ASSUME SettleInv, up, taskQueue # <<>>, NEW t, t = Head(taskQueue), Attempted(t)
  PROVE  SettleInv'
<1>1. /\ UNCHANGED fights /\ UNCHANGED todo /\ UNCHANGED up
      /\ DOMAIN seen' = SeenFields /\ seen'.interrupted = seen.interrupted
      /\ seen'.expired = seen.expired
      /\ DOMAIN cache' = {"record", "rating"} /\ cache'.rating \in [Players -> SUBSET Fights]
      /\ DOMAIN told' = Fights
  BY DEF Attempted
<1>2. /\ QueueT(Tail(taskQueue)) /\ t \in Tasks(taskQueue)
      /\ Tasks(Tail(taskQueue)) \subseteq Tasks(taskQueue)
      /\ t \in TaskR /\ Named(t)
  <2>1. QueueT(taskQueue) BY DEF SettleInv, Shapes
  <2> QED BY <2>1, QueueTail
<1>3. SoundTask(t) /\ t.fight \in Fights BY <1>2 DEF SettleInv, TaskR
<1>4. /\ DOMAIN chain' = ChainFields /\ chain'.wager \in [Fights -> WagerStates]
      /\ \A g \in Fights :
           \/ chain'.wager[g] = chain.wager[g]
           \/ g = t.fight /\ Pays(t) /\ chain.wager[g] = "ACTIVE" /\ chain'.wager[g] = Outcome(t)
      /\ Lands(t) /\ Pays(t) => chain'.wager[t.fight] = Outcome(t)
  <2>1. CASE UNCHANGED chain /\ ~Lands(t)
    <3>1. DOMAIN chain = ChainFields /\ chain.wager \in [Fights -> WagerStates]
      BY DEF SettleInv, Shapes
    <3> QED BY <2>1, <3>1
  <2>2. CASE Lands(t)
    <3>1. /\ DOMAIN chain' = ChainFields /\ chain'.wager \in [Fights -> WagerStates]
          /\ \A g \in Fights :
               chain'.wager[g] = IF g = t.fight /\ Pays(t) THEN Outcome(t) ELSE chain.wager[g]
          /\ Pays(t) => chain.wager[t.fight] = "ACTIVE"
      BY <1>2, <2>2, LandsEffect
    <3> QED BY <1>3, <3>1
  <2> QED BY <2>1, <2>2 DEF Attempted
\* The wager of t, if the stakes move: what it becomes fits the fight.
<1>5. Pays(t) => /\ Outcome(t) \notin {"ABSENT", "ACTIVE"}
                 /\ Outcome(t) = "tie" => Drawn(t.fight)
                 /\ Outcome(t) \in Players => fights[t.fight].winner = Outcome(t)
                 /\ Outcome(t) = "split" => t.op = "cancel"
                 /\ t.op # "cancel" => Outcome(t) \in Players \cup {"tie"}
  <2>1. t.op = "settle" => t.who \in Players /\ fights[t.fight].winner = t.who
    BY <1>2, <1>3 DEF Named, SoundTask
  <2>2. t.op = "bundle" => Drawn(t.fight) BY <1>3 DEF SoundTask
  <2>3. \A p \in Players : p \notin {"ABSENT", "ACTIVE", "tie", "split"} BY Given
  <2> QED BY <2>1, <2>2, <2>3 DEF Pays, Outcome
<1>6. \A g \in Fights : Steady(g) BY <1>1, <1>4, <1>5 DEF Steady, Cut, Closed
<1>7. QueueT(taskQueue)' /\ \A u \in Tasks(taskQueue)' : SoundTask(u)'
  <2>1. CASE UNCHANGED taskQueue
    <3>1. Tasks(taskQueue)' = Tasks(taskQueue) BY <2>1
    <3>2. QueueT(taskQueue)' BY <2>1 DEF SettleInv, Shapes
    <3> QED BY <1>6, <3>1, <3>2, QueueStays
  <2>2. CASE taskQueue' = Tail(taskQueue) \o NextUpdate(t)
    <3> DEFINE r == NextUpdate(t)
               q == Tail(taskQueue)
    <3>1. QueueT(r) /\ \A u \in Tasks(r) : u.op = "update" /\ u.fight = t.fight
                                           /\ Decided(t.fight)
      BY <1>1, <1>2, <1>3, NextUpdateSent
    <3>2. taskQueue' = q \o r BY <2>2
    <3>3. QueueT(q) /\ Tasks(q) \subseteq Tasks(taskQueue) BY <1>2
    <3> HIDE DEF r, q
    <3>4. QueueT(q \o r) /\ Tasks(q \o r) \subseteq Tasks(q) \cup Tasks(r)
      BY <3>1, <3>3, QueueConcat
    <3>5. ASSUME NEW u \in Tasks(r) PROVE SoundTask(u)'
      <4>1. u.op = "update" /\ u.fight = t.fight /\ Decided(t.fight) BY <3>1
      <4> QED BY <1>1, <4>1 DEF SoundTask, Decided
    <3> QED BY <1>6, <3>2, <3>3, <3>4, <3>5, QueueStays
  <2> QED BY <2>1, <2>2 DEF Attempted
<1>8. /\ DOMAIN db' = DbFields /\ db'.rows = db.rows /\ db'.failed = db.failed
      /\ \/ db'.requests = db.requests
         \/ Lands(t) /\ Pays(t) /\ db'.requests = db.requests \cup {<<"delete", t.fight>>}
  <2>1. DOMAIN db = DbFields BY DEF SettleInv, Shapes
  <2> QED BY <2>1 DEF Attempted, DbFields
<1>9. db'.requests \subseteq {"insert", "delete"} \X Fights
  BY <1>3, <1>8 DEF SettleInv, Shapes
<1>10. Shapes' BY <1>1, <1>4, <1>7, <1>8, <1>9 DEF SettleInv, Shapes
<1>11. ASSUME NEW g \in Fights PROVE StageI(g)' /\ RowI(g)' /\ WagerI(g)'
  <2>1. StageI(g) /\ RowI(g) /\ WagerI(g) BY DEF SettleInv
  <2>2. \/ chain'.wager[g] = chain.wager[g]
        \/ g = t.fight /\ Pays(t) /\ chain.wager[g] = "ACTIVE" /\ chain'.wager[g] = Outcome(t)
    BY <1>4
  <2>3. \A p \in Players : p \notin {"ABSENT", "ACTIVE", "tie", "split"} BY Given
  <2>4. StageI(g)' BY <1>1, <1>5, <2>1, <2>2 DEF StageI, Over
  <2>5. RowI(g)'
    <3>1. <<"insert", g>> \in db'.requests \cup db'.failed
            <=> <<"insert", g>> \in db.requests \cup db.failed
      BY <1>8
    <3>2. <<"delete", g>> \in db'.requests =>
            \/ <<"delete", g>> \in db.requests
            \/ g = t.fight /\ Lands(t) /\ Pays(t)
      BY <1>8
    <3>3. <<"delete", g>> \in db'.requests => Closed(g)'
      BY <1>4, <1>5, <2>1, <2>2, <3>2 DEF RowI, Closed
    <3>4. chain'.wager[g] = "ACTIVE" => chain.wager[g] = "ACTIVE" BY <1>5, <2>2
    <3>5. chain'.wager[g] = "ABSENT" => chain.wager[g] = "ABSENT" BY <1>5, <2>2
    <3>6. Cut(g) => Cut(g)' BY <1>6 DEF Steady
    <3> QED BY <1>1, <1>8, <2>1, <3>1, <3>3, <3>4, <3>5, <3>6 DEF RowI
  <2>6. WagerI(g)'
    <3>1. fights'[g] = fights[g] BY <1>1
    <3>2. chain'.wager[g] # "ABSENT" => IsWager(g)' BY <1>1, <2>1, <2>2 DEF WagerI, IsWager
    <3>3. chain'.wager[g] = "tie" => Drawn(g)' BY <1>1, <1>5, <2>1, <2>2 DEF WagerI, Drawn
    <3>4. chain'.wager[g] \in Players => fights'[g].winner = chain'.wager[g]
      BY <1>1, <1>5, <2>1, <2>2 DEF WagerI
    <3>5. chain'.wager[g] = "split" => g \in seen'.interrupted \cup seen'.expired
      <4>1. CASE chain'.wager[g] = chain.wager[g] BY <1>1, <2>1, <4>1 DEF WagerI
      <4>2. CASE g = t.fight /\ Pays(t) /\ chain.wager[g] = "ACTIVE"
                 /\ chain'.wager[g] = Outcome(t)
        <5>1. Outcome(t) = "split" => Cut(t.fight) BY <1>3, <1>5, <4>2 DEF SoundTask
        <5> QED BY <1>1, <4>2, <5>1 DEF Cut, Closed
      <4> QED BY <2>2, <4>1, <4>2
    <3>6. told'[g] = "settled" => chain'.wager[g] \in Players \cup {"tie"}
      <4> SUFFICES ASSUME told'[g] = "settled" PROVE chain'.wager[g] \in Players \cup {"tie"}
        OBVIOUS
      <4>1. told[g] = "settled" \/ (g = t.fight /\ Lands(t) /\ Pays(t) /\ t.op # "cancel")
        BY DEF Attempted
      <4>2. CASE told[g] = "settled"
        BY <2>1, <2>2, <2>3, <4>2 DEF WagerI
      <4>3. CASE g = t.fight /\ Lands(t) /\ Pays(t) /\ t.op # "cancel"
        BY <1>4, <1>5, <4>3
      <4> QED BY <4>1, <4>2, <4>3
    <3> QED BY <3>2, <3>3, <3>4, <3>5, <3>6 DEF WagerI
  <2> QED BY <2>4, <2>5, <2>6
<1> QED BY <1>1, <1>7, <1>10, <1>11 DEF SettleInv

\* What the players are told changes for the fight of t only.
LEMMA TellEffect ==
  ASSUME SettleInv, NEW t \in TaskR, NEW what, Tell(t, what)
  PROVE  /\ DOMAIN told' = Fights
         /\ \A g \in Fights : \/ told'[g] = told[g]
                              \/ /\ g = t.fight /\ Pays(t) /\ t.op # "cancel"
                                 /\ told'[g] = what
<1>1. DOMAIN told = Fights /\ t.fight \in Fights BY DEF SettleInv, Shapes, TaskR
<1>2. CASE t.op = "settle" \/ (t.op = "bundle" /\ IsWager(t.fight))
  <2>1. told' = [told EXCEPT ![t.fight] = what] BY <1>2 DEF Tell
  <2>2. Pays(t) /\ t.op # "cancel" BY <1>2 DEF Pays
  <2> QED BY <1>1, <2>1, <2>2
<1>3. CASE ~(t.op = "settle" \/ (t.op = "bundle" /\ IsWager(t.fight)))
  <2>1. told' = told BY <1>3 DEF Tell
  <2> QED BY <1>1, <2>1
<1> QED BY <1>2, <1>3

LEMMA CacheEffect ==
  ASSUME SettleInv, NEW t \in TaskR, Named(t), Resolve(t)
  PROVE  DOMAIN cache' = {"record", "rating"} /\ cache'.rating \in [Players -> SUBSET Fights]
<1>1. DOMAIN cache = {"record", "rating"} /\ cache.rating \in [Players -> SUBSET Fights]
  BY DEF SettleInv, Shapes
<1>2. CASE t.op = "update"
  <2>1. cache' = [record |-> [cache.record EXCEPT ![t.who] = Mirrored(t.who, FALSE)],
                  rating |-> [cache.rating EXCEPT ![t.who] = t.rating]]
    BY <1>2 DEF Resolve
  <2>2. t.rating \in SUBSET Fights BY DEF TaskR
  <2>3. [cache.rating EXCEPT ![t.who] = t.rating] \in [Players -> SUBSET Fights]
    BY <1>1, <2>2
  <2> QED BY <2>1, <2>3
<1>3. CASE t.op = "bundle"
  <2>1. cache' = [cache EXCEPT !.record = [p \in Players |-> Mirrored(p, TRUE)]]
    BY <1>3 DEF Resolve
  <2> QED BY <1>1, <2>1
<1>4. CASE t.op \notin {"update", "bundle"}
  <2>1. cache' = cache BY <1>4 DEF Resolve
  <2> QED BY <1>1, <2>1
<1> QED BY <1>2, <1>3, <1>4

LEMMA SucceedsKeeps ==
  ASSUME SettleInv, AttemptSucceeds PROVE SettleInv'
<1> DEFINE t == Head(taskQueue)
<1>1. /\ up /\ taskQueue # <<>> /\ CanExecute(t) /\ chain' = Executed(t) /\ Resolve(t)
      /\ UNCHANGED fights /\ UNCHANGED todo /\ UNCHANGED up /\ UNCHANGED seen
  BY DEF AttemptSucceeds
<1>2. t \in TaskR /\ Named(t)
  <2>1. QueueT(taskQueue) BY DEF SettleInv, Shapes
  <2> QED BY <1>1, <2>1, QueueTail
<1> HIDE DEF t
<1>3. Lands(t) BY <1>1 DEF Lands
<1>4. DOMAIN cache' = {"record", "rating"} /\ cache'.rating \in [Players -> SUBSET Fights]
  BY <1>1, <1>2, CacheEffect
<1>5. taskQueue' = Tail(taskQueue) \o NextUpdate(t) /\ Tell(t, "settled")
  BY <1>1 DEF Resolve, Dequeue
<1>6. /\ DOMAIN told' = Fights
      /\ \A g \in Fights : told'[g] = told[g] \/ (g = t.fight /\ Pays(t) /\ t.op # "cancel")
  BY <1>2, <1>5, TellEffect
<1>7. \/ UNCHANGED db
      \/ Pays(t) /\ db' = [db EXCEPT !.requests = @ \cup {<<"delete", t.fight>>}]
  BY <1>1 DEF Resolve, Pays
<1>8. DOMAIN seen = SeenFields BY DEF SettleInv, Shapes
<1>9. Attempted(t) BY <1>1, <1>3, <1>4, <1>5, <1>6, <1>7, <1>8 DEF Attempted
<1> QED BY <1>1, <1>9, AttemptKeeps DEF t

LEMMA FailsKeeps ==
  ASSUME SettleInv, AttemptFails PROVE SettleInv'
<1> DEFINE t == Head(taskQueue)
           id == <<t.op, t.fight, t.who>>
<1>1. /\ up /\ taskQueue # <<>>
      /\ UNCHANGED fights /\ UNCHANGED todo /\ UNCHANGED up
      /\ IF LastAttempt THEN Reject(t)
         ELSE attempt' = attempt + 1 /\ UNCHANGED <<taskQueue, cache, db, told>>
  BY DEF AttemptFails
<1>2. PICK landed \in IF CanExecute(t) THEN BOOLEAN ELSE {FALSE} :
        /\ chain' = IF landed THEN Executed(t) ELSE chain
        /\ seen' = [seen EXCEPT !.lost = IF landed /\ t.op \in {"update", "bundle"}
                                         THEN @ \cup {id} ELSE @,
                                !.failed = IF LastAttempt THEN @ \cup {id} ELSE @,
                                !.faults = IF CanExecute(t) /\ attempt = 0 THEN @ + 1 ELSE @]
  BY DEF AttemptFails
<1>3. t \in TaskR /\ Named(t)
  <2>1. QueueT(taskQueue) BY DEF SettleInv, Shapes
  <2> QED BY <1>1, <2>1, QueueTail
<1> HIDE DEF t, id
<1>4. UNCHANGED chain \/ Lands(t) BY <1>2 DEF Lands
<1>5. /\ DOMAIN seen' = SeenFields /\ seen'.interrupted = seen.interrupted
      /\ seen'.expired = seen.expired
  <2>1. DOMAIN seen = SeenFields BY DEF SettleInv, Shapes
  <2> QED BY <1>2, <2>1 DEF SeenFields
<1>6. /\ DOMAIN cache = {"record", "rating"} /\ cache.rating \in [Players -> SUBSET Fights]
      /\ DOMAIN told = Fights
  BY DEF SettleInv, Shapes
<1>7. UNCHANGED cache /\ UNCHANGED db BY <1>1 DEF Reject
<1>8. UNCHANGED taskQueue \/ taskQueue' = Tail(taskQueue) \o NextUpdate(t)
  BY <1>1 DEF Reject, Dequeue
<1>9. /\ DOMAIN told' = Fights
      /\ \A g \in Fights : told'[g] = "settled" => told[g] = "settled"
  <2>1. CASE LastAttempt
    <3>1. Tell(t, "failed") BY <1>1, <2>1 DEF Reject
    <3>2. /\ DOMAIN told' = Fights
          /\ \A g \in Fights : told'[g] = told[g] \/ told'[g] = "failed"
      BY <1>3, <3>1, TellEffect
    <3> QED BY <3>2
  <2>2. CASE ~LastAttempt
    <3>1. UNCHANGED told BY <1>1, <2>2
    <3> QED BY <1>6, <3>1
  <2> QED BY <2>1, <2>2
<1>10. Attempted(t)
  BY <1>1, <1>4, <1>5, <1>6, <1>7, <1>8, <1>9 DEF Attempted
<1> QED BY <1>1, <1>10, AttemptKeeps DEF t

LEMMA StallsKeeps ==
  ASSUME SettleInv, AttemptStalls PROVE SettleInv'
<1> DEFINE t == Head(taskQueue)
           id == <<t.op, t.fight, t.who>>
<1>1. /\ up /\ taskQueue # <<>>
      /\ UNCHANGED fights /\ UNCHANGED todo /\ UNCHANGED up
      /\ UNCHANGED taskQueue /\ UNCHANGED cache /\ UNCHANGED db /\ UNCHANGED told
  BY DEF AttemptStalls
<1>2. PICK landed \in IF CanExecute(t) THEN BOOLEAN ELSE {FALSE} :
        /\ chain' = IF landed THEN Executed(t) ELSE chain
        /\ seen' = [seen EXCEPT !.lost = IF landed /\ t.op \in {"update", "bundle"}
                                         THEN @ \cup {id} ELSE @,
                                !.faults = @ + 1]
  BY DEF AttemptStalls
<1>3. t \in TaskR /\ Named(t)
  <2>1. QueueT(taskQueue) BY DEF SettleInv, Shapes
  <2> QED BY <1>1, <2>1, QueueTail
<1> HIDE DEF t, id
<1>4. UNCHANGED chain \/ Lands(t) BY <1>2 DEF Lands
<1>5. /\ DOMAIN seen' = SeenFields /\ seen'.interrupted = seen.interrupted
      /\ seen'.expired = seen.expired
  <2>1. DOMAIN seen = SeenFields BY DEF SettleInv, Shapes
  <2> QED BY <1>2, <2>1 DEF SeenFields
<1>6. /\ DOMAIN cache = {"record", "rating"} /\ cache.rating \in [Players -> SUBSET Fights]
      /\ DOMAIN told = Fights
  BY DEF SettleInv, Shapes
<1>7. Attempted(t) BY <1>1, <1>4, <1>5, <1>6 DEF Attempted
<1> QED BY <1>1, <1>7, AttemptKeeps DEF t

(***************************************************************************)
(* The stakes                                                              *)
(***************************************************************************)
LEMMA StepKeeps ==
  ASSUME SettleInv, [Next]_vars PROVE SettleInv'
<1>1. ASSUME NEW f \in Fights, Approve(f) PROVE SettleInv' BY <1>1, ApproveKeeps
<1>2. ASSUME NEW f \in Fights, WagerAccepted(f) PROVE SettleInv' BY <1>2, AcceptedKeeps
<1>3. ASSUME NEW f \in Fights, AcceptGivesUp(f) PROVE SettleInv' BY <1>3, GivesUpKeeps
<1>4. ASSUME NEW f \in Fights, CreateFight(f) PROVE SettleInv' BY <1>4, CreateKeeps
<1>5. ASSUME NEW f \in Fights, NEW w \in Players, FinishWon(f, w) PROVE SettleInv'
  BY <1>5, WonKeeps
<1>6. ASSUME NEW f \in Fights, FinishDrawn(f) PROVE SettleInv' BY <1>6, DrawnKeeps
<1>7. ASSUME NEW f \in Fights, SweepOne(f) PROVE SettleInv' BY <1>7, SweepKeeps
<1>8. ASSUME NEW f \in Fights, Expire(f) PROVE SettleInv' BY <1>8, ExpireKeeps
<1>9. CASE AttemptSucceeds BY <1>9, SucceedsKeeps
<1>10. CASE AttemptFails BY <1>10, FailsKeeps
<1>11. ASSUME NEW r \in db.requests, RequestDone(r) PROVE SettleInv' BY <1>11, RequestKeeps
<1>12. CASE Crash BY <1>12, CrashKeeps
<1>13. CASE Restart BY <1>13, RestartKeeps
<1>14. CASE AttemptStalls BY <1>14, StallsKeeps
<1>15. CASE UNCHANGED vars
  <2>1. /\ UNCHANGED chain /\ UNCHANGED cache /\ UNCHANGED fights /\ UNCHANGED taskQueue
        /\ UNCHANGED db /\ UNCHANGED todo /\ UNCHANGED up /\ UNCHANGED told /\ UNCHANGED seen
    BY <1>15 DEF vars
  <2>2. \A f \in Fights : Steady(f) BY <2>1 DEF Steady, Cut, Closed
  <2>3. Shapes' BY <2>1 DEF SettleInv, Shapes
  <2>4. \A t \in Tasks(taskQueue)' : SoundTask(t)'
    <3>1. Tasks(taskQueue)' = Tasks(taskQueue) BY <2>1
    <3> QED BY <2>2, <3>1, QueueStays
  <2>5. ASSUME NEW f \in Fights PROVE StageI(f)' /\ RowI(f)' /\ WagerI(f)'
    <3>1. StageI(f) /\ RowI(f) /\ WagerI(f) BY DEF SettleInv
    <3> QED BY <2>1, <3>1 DEF StageI, RowI, WagerI, Over, Drawn, IsWager, Cut, Closed
  <2> QED BY <2>1, <2>3, <2>4, <2>5 DEF SettleInv
<1> QED
  BY <1>1, <1>2, <1>3, <1>4, <1>5, <1>6, <1>7, <1>8, <1>9, <1>10, <1>11, <1>12, <1>13, <1>14,
     <1>15
  DEF Next

\* The stakes of an accepted fight are remembered until they have left the
\* contract, a 50/50 refund means that the fight or its settlement was cut
\* short, and who is told "settled" was paid as the fight ended: whatever
\* transactions or answers are lost, and however often the server restarts.
THEOREM StakesTracked == Spec => []StakesAreTracked
<1>1. Init => SettleInv BY Initially
<1>2. SettleInv /\ [Next]_vars => SettleInv' BY StepKeeps
<1>3. SettleInv => StakesAreTracked BY StakesFollow
<1> QED BY <1>1, <1>2, <1>3, PTL DEF Spec

(***************************************************************************)
(* Types, and what a drawn wager fight counts                              *)
(***************************************************************************)
Records == [Players -> [Fights -> Nat]]
Ratings == [Players -> SUBSET Fights]
FightR == [kind : Kinds, stage : Stages, winner : Players \cup {None, Draw}]
Requests == {"insert", "delete"} \X Fights

ChainRest == chain.record \in Records /\ chain.rating \in Ratings /\ chain.locked \in SUBSET Players

SeenRest ==
  /\ seen.lost \cup seen.failed \subseteq TaskIds
  /\ seen.interrupted \cup seen.expired \subseteq Fights
  /\ seen.overlap \in BOOLEAN /\ seen.crashes \in 0 .. MaxCrashes
  /\ seen.faults \in 0 .. MaxFaults

Rest ==
  /\ ChainRest
  /\ cache.record \in Records
  /\ fights \in [Fights -> FightR]
  /\ attempt \in {Unanswered} \cup 0 .. Attempts - 1
  /\ db.failed \subseteq Requests
  /\ told \in [Fights -> {None, "settled", "failed"}]
  /\ SeenRest

\* An undecided wager fight counts with the refund of its draw.
DrawsCounted ==
  \A f \in Fights, p \in Players :
    ~Decided(f) /\ IsWager(f) =>
      chain.record[p][f] = IF chain.wager[f] = "tie" THEN 1 ELSE 0

RecordInv == SettleInv /\ Rest /\ DrawsCounted

LEMMA RestTypes == RecordInv => TypeOK /\ WagerDrawCountedOnce
<1> SUFFICES ASSUME RecordInv PROVE TypeOK /\ WagerDrawCountedOnce OBVIOUS
<1>1. Shapes /\ Rest /\ DrawsCounted BY DEF RecordInv, SettleInv
<1>2. TypeOK
  <2>1. taskQueue \in Seq(TaskR) BY <1>1 DEF Shapes, QueueT
  <2> QED
    BY <1>1, <2>1 DEF TypeOK, Shapes, Rest, ChainRest, SeenRest, Records, Ratings, FightR,
       Requests, TaskR, WagerStates, Stages
<1>3. WagerDrawCountedOnce
  <2>1. \A f \in Fights : Drawn(f) => ~Decided(f) BY Given DEF Drawn, Decided
  <2> QED BY <1>1, <2>1 DEF WagerDrawCountedOnce, DrawsCounted
<1> QED BY <1>2, <1>3

\* One more in a table of counts.
Plus(r, p, f) == [r EXCEPT ![p][f] = @ + 1]

LEMMA OneMore ==
  ASSUME NEW r \in Records, NEW p \in Players, NEW f \in Fights
  PROVE  /\ Plus(r, p, f) \in Records
         /\ \A o \in Players, g \in Fights :
              Plus(r, p, f)[o][g] = IF o = p /\ g = f THEN r[o][g] + 1 ELSE r[o][g]
<1>1. r \in [Players -> [Fights -> Nat]] BY DEF Records
<1>2. r[p] \in [Fights -> Nat] BY <1>1
<1> DEFINE s == [r[p] EXCEPT ![f] = @ + 1]
           q == [r EXCEPT ![p][f] = @ + 1]
<1>3. s \in [Fights -> Nat]
      /\ \A g \in Fights : s[g] = IF g = f THEN r[p][g] + 1 ELSE r[p][g]
  BY <1>2
<1>4. q = [r EXCEPT ![p] = s] OBVIOUS
<1> HIDE DEF s, q
<1>5. q \in [Players -> [Fights -> Nat]] BY <1>1, <1>3, <1>4
<1>6. q[p] = s /\ \A o \in Players \ {p} : q[o] = r[o] BY <1>1, <1>4
<1> QED BY <1>3, <1>5, <1>6 DEF Records, Plus, q

LEMMA ExecuteRest ==
  ASSUME Shapes, ChainRest, NEW t \in TaskR, Named(t)
  PROVE  /\ Executed(t).record \in Records /\ Executed(t).rating \in Ratings
         /\ Executed(t).locked \in SUBSET Players
         /\ \A p \in Players, g \in Fights :
              Executed(t).record[p][g] =
                IF g = t.fight /\ (t.op = "bundle" \/ (t.op = "update" /\ p = t.who))
                THEN chain.record[p][g] + 1 ELSE chain.record[p][g]
<1>1. /\ DOMAIN chain = ChainFields /\ chain.record \in Records /\ chain.rating \in Ratings
      /\ chain.locked \in SUBSET Players
  BY DEF Shapes, ChainRest
<1>2. t.op \in Ops /\ t.fight \in Fights /\ t.rating \in SUBSET Fights
      /\ (t.op \in {"lock", "unlock", "settle", "update"} => t.who \in Players)
  BY DEF TaskR, Named
<1>3. CASE t.op \in {"lock", "unlock", "settle", "cancel"}
  <2>1. /\ t.op = "lock" => Executed(t) = [chain EXCEPT !.locked = @ \cup {t.who}]
        /\ t.op = "unlock" => Executed(t) = [chain EXCEPT !.locked = @ \ {t.who}]
        /\ t.op = "settle" => Executed(t) = [chain EXCEPT !.wager[t.fight] = t.who]
        /\ t.op = "cancel" => Executed(t) = [chain EXCEPT !.wager[t.fight] = "split"]
    BY <1>3 DEF Executed
  <2>2. /\ Executed(t).record = chain.record /\ Executed(t).rating = chain.rating
        /\ Executed(t).locked \in SUBSET Players
    BY <1>1, <1>2, <1>3, <2>1 DEF ChainFields
  <2> QED BY <1>1, <1>3, <2>2
<1>4. CASE t.op = "update"
  <2> DEFINE r == Plus(chain.record, t.who, t.fight)
             s == [chain.rating EXCEPT ![t.who] = t.rating]
  <2>1. Executed(t) = [chain EXCEPT !.record[t.who][t.fight] = @ + 1, !.rating[t.who] = t.rating]
    BY <1>4 DEF Executed
  <2>2. Executed(t).record = r /\ Executed(t).rating = s /\ Executed(t).locked = chain.locked
    BY <1>1, <2>1 DEF ChainFields, Plus
  <2>3. s \in Ratings BY <1>1, <1>2, <1>4 DEF Ratings
  <2>4. t.who \in Players BY <1>2, <1>4
  <2>5. /\ r \in Records
        /\ \A o \in Players, g \in Fights :
             r[o][g] = IF o = t.who /\ g = t.fight THEN chain.record[o][g] + 1
                       ELSE chain.record[o][g]
    BY <1>1, <1>2, <2>4, OneMore
  <2> HIDE DEF r, s
  <2> QED BY <1>1, <1>4, <2>2, <2>3, <2>5
<1>5. CASE t.op = "bundle"
  <2> DEFINE q == Plus(chain.record, PlayerA, t.fight)
             r == Plus(q, PlayerB, t.fight)
  <2>1. Executed(t) = [chain EXCEPT !.wager[t.fight] = IF IsWager(t.fight) THEN "tie" ELSE @,
                                    !.record[PlayerA][t.fight] = @ + 1,
                                    !.record[PlayerB][t.fight] = @ + 1,
                                    !.locked = @ \ Players]
    BY <1>5 DEF Executed
  <2>2. /\ Executed(t).record = r /\ Executed(t).rating = chain.rating
        /\ Executed(t).locked = chain.locked \ Players
    BY <1>1, <2>1 DEF ChainFields, Plus
  <2>3. PlayerA \in Players /\ PlayerB \in Players /\ PlayerA # PlayerB
        /\ \A p \in Players : p = PlayerA \/ p = PlayerB
    BY Given DEF Players
  <2>4. /\ q \in Records
        /\ \A o \in Players, g \in Fights :
             q[o][g] = IF o = PlayerA /\ g = t.fight THEN chain.record[o][g] + 1
                       ELSE chain.record[o][g]
    BY <1>1, <1>2, <2>3, OneMore
  <2> HIDE DEF q
  <2>5. /\ r \in Records
        /\ \A o \in Players, g \in Fights :
             r[o][g] = IF o = PlayerB /\ g = t.fight THEN q[o][g] + 1 ELSE q[o][g]
    BY <1>2, <2>3, <2>4, OneMore
  <2> HIDE DEF r
  <2> QED BY <1>1, <1>5, <2>2, <2>3, <2>4, <2>5
<1> QED BY <1>2, <1>3, <1>4, <1>5 DEF Ops

\* The stage of a fight changes, or it ends with a result.
Ends(f, w) ==
  /\ fights[f].stage = "fighting"
  /\ fights' = [fights EXCEPT ![f].stage = "over", ![f].winner = w]

LEMMA FightsChange ==
  ASSUME [Next]_vars
  PROVE  \/ UNCHANGED fights
         \/ \E f \in Fights, s \in Stages : Stage(f, s)
         \/ \E f \in Fights, w \in Players \cup {Draw} : Ends(f, w)
         \/ Crash
<1>1. ASSUME NEW f \in Fights, Approve(f) \/ SweepOne(f) \/ Expire(f) PROVE UNCHANGED fights
  BY <1>1 DEF Approve, SweepOne, Expire
<1>2. ASSUME NEW f \in Fights, WagerAccepted(f) PROVE Stage(f, "accepted")
  BY <1>2 DEF WagerAccepted
<1>3. ASSUME NEW f \in Fights, AcceptGivesUp(f) PROVE Stage(f, "gone")
  BY <1>3 DEF AcceptGivesUp
<1>4. ASSUME NEW f \in Fights, CreateFight(f) PROVE Stage(f, "fighting")
  BY <1>4 DEF CreateFight
<1>5. ASSUME NEW f \in Fights, NEW w \in Players, FinishWon(f, w) PROVE Ends(f, w)
  BY <1>5 DEF FinishWon, Ends
<1>6. ASSUME NEW f \in Fights, FinishDrawn(f) PROVE Ends(f, Draw)
  BY <1>6 DEF FinishDrawn, Ends
<1>7. CASE AttemptSucceeds \/ AttemptFails \/ AttemptStalls \/ Restart \/ UNCHANGED vars
  BY <1>7 DEF AttemptSucceeds, AttemptFails, AttemptStalls, Restart, vars
<1>8. ASSUME NEW r \in db.requests, RequestDone(r) PROVE UNCHANGED fights
  BY <1>8 DEF RequestDone
<1>9. {"accepted", "gone", "fighting"} \subseteq Stages BY DEF Stages
<1> QED BY <1>1, <1>2, <1>3, <1>4, <1>5, <1>6, <1>7, <1>8, <1>9 DEF Next

LEMMA FightsRest ==
  ASSUME RecordInv, [Next]_vars
  PROVE  /\ fights' \in [Fights -> FightR]
         /\ \A f \in Fights : fights'[f].kind = fights[f].kind /\ (Decided(f) => Decided(f)')
<1>1. fights \in [Fights -> FightR] BY DEF RecordInv, Rest
<1>2. \A f \in Fights : fights[f] \in FightR BY <1>1
<1>3. CASE UNCHANGED fights BY <1>1, <1>3 DEF Decided
<1>4. ASSUME NEW f \in Fights, NEW s \in Stages, Stage(f, s)
      PROVE  /\ fights' \in [Fights -> FightR]
             /\ \A g \in Fights : fights'[g].kind = fights[g].kind
                                  /\ (Decided(g) => Decided(g)')
  <2> DEFINE n == [fights[f] EXCEPT !.stage = s]
  <2>1. n \in FightR /\ n.kind = fights[f].kind /\ n.winner = fights[f].winner
    BY <1>2 DEF FightR
  <2>2. fights' = [fights EXCEPT ![f] = n] BY <1>4 DEF Stage
  <2> HIDE DEF n
  <2>3. fights' \in [Fights -> FightR]
        /\ \A g \in Fights : fights'[g] = IF g = f THEN n ELSE fights[g]
    BY <1>1, <2>1, <2>2
  <2> QED BY <2>1, <2>3 DEF Decided
<1>5. ASSUME NEW f \in Fights, NEW w \in Players \cup {Draw}, Ends(f, w)
      PROVE  /\ fights' \in [Fights -> FightR]
             /\ \A g \in Fights : fights'[g].kind = fights[g].kind
                                  /\ (Decided(g) => Decided(g)')
  <2> DEFINE n == [fights[f] EXCEPT !.stage = "over", !.winner = w]
  <2>1. n \in FightR /\ n.kind = fights[f].kind /\ n.winner = w
    BY <1>2 DEF FightR, Stages
  <2>2. fights' = [fights EXCEPT ![f] = n] BY <1>5 DEF Ends
  <2> HIDE DEF n
  <2>3. fights' \in [Fights -> FightR]
        /\ \A g \in Fights : fights'[g] = IF g = f THEN n ELSE fights[g]
    BY <1>1, <2>1, <2>2
  <2>4. fights[f].winner = None /\ None \notin Players
    BY <1>5, Given DEF RecordInv, SettleInv, StageI, Over, Ends
  <2> QED BY <2>1, <2>3, <2>4 DEF Decided
<1>6. CASE Crash
  <2> DEFINE lost == {f \in Fights : fights[f].stage \in {"accepted", "fighting"}}
             unseen == {f \in Fights : fights[f].stage = "none" /\ chain.wager[f] # "ABSENT"}
             n(f) == [fights[f] EXCEPT !.stage = IF f \in lost THEN "gone"
                                                 ELSE IF f \in unseen THEN "unseen" ELSE @]
  <2>1. fights' = [f \in Fights |-> n(f)] BY <1>6 DEF Crash
  <2> HIDE DEF lost, unseen
  <2>2. ASSUME NEW f \in Fights
        PROVE  n(f) \in FightR /\ n(f).kind = fights[f].kind /\ n(f).winner = fights[f].winner
    <3> DEFINE s == IF f \in lost THEN "gone" ELSE IF f \in unseen THEN "unseen"
                    ELSE fights[f].stage
    <3>1. s \in Stages BY <1>2 DEF FightR, Stages
    <3>2. n(f) = [fights[f] EXCEPT !.stage = s] OBVIOUS
    <3> HIDE DEF s, n
    <3> QED BY <1>2, <3>1, <3>2 DEF FightR
  <2> HIDE DEF n
  <2>3. fights' \in [Fights -> FightR] /\ \A f \in Fights : fights'[f] = n(f)
    BY <2>1, <2>2
  <2> QED BY <2>2, <2>3 DEF Decided
<1> QED BY <1>3, <1>4, <1>5, <1>6, FightsChange

\* Only transactions change the chain beside the wagers.
LEMMA ChainChange ==
  ASSUME RecordInv, [Next]_vars
  PROVE  \/ UNCHANGED chain
         \/ \E f \in Fights, s \in {"ACTIVE", "split"} :
              chain.wager[f] # "tie" /\ chain' = [chain EXCEPT !.wager[f] = s]
         \/ \E t \in Tasks(taskQueue) : Lands(t)
<1>1. ASSUME NEW f \in Fights, Approve(f) \/ Expire(f)
      PROVE  \E s \in {"ACTIVE", "split"} :
               chain.wager[f] # "tie" /\ chain' = [chain EXCEPT !.wager[f] = s]
  BY <1>1 DEF Approve, Expire
<1>2. ASSUME NEW f \in Fights, WagerAccepted(f) \/ AcceptGivesUp(f) \/ CreateFight(f)
                               \/ FinishDrawn(f) \/ SweepOne(f)
      PROVE  UNCHANGED chain
  BY <1>2 DEF WagerAccepted, AcceptGivesUp, CreateFight, FinishDrawn, SweepOne
<1>3. ASSUME NEW f \in Fights, NEW w \in Players, FinishWon(f, w) PROVE UNCHANGED chain
  BY <1>3 DEF FinishWon
<1>4. CASE AttemptSucceeds \/ AttemptFails \/ AttemptStalls
  <2> DEFINE t == Head(taskQueue)
  <2>1. taskQueue # <<>> /\ (UNCHANGED chain \/ Lands(t))
    BY <1>4 DEF AttemptSucceeds, AttemptFails, AttemptStalls, Lands
  <2>2. QueueT(taskQueue) BY DEF RecordInv, SettleInv, Shapes
  <2>3. t \in Tasks(taskQueue) BY <2>1, <2>2, QueueTail
  <2> HIDE DEF t
  <2> QED BY <2>1, <2>3
<1>5. CASE Crash \/ Restart \/ UNCHANGED vars BY <1>5 DEF Crash, Restart, vars
<1>6. ASSUME NEW r \in db.requests, RequestDone(r) PROVE UNCHANGED chain
  BY <1>6 DEF RequestDone
<1> QED BY <1>1, <1>2, <1>3, <1>4, <1>5, <1>6 DEF Next

LEMMA TaskParts ==
  ASSUME SettleInv, NEW t \in Tasks(taskQueue)
  PROVE  t \in TaskR /\ Named(t) /\ SoundTask(t) /\ t.fight \in Fights
<1>1. taskQueue \in Seq(TaskR) /\ \A u \in Tasks(taskQueue) : Named(u)
  BY DEF SettleInv, Shapes, QueueT
<1>2. t \in TaskR BY <1>1 DEF Tasks
<1> QED BY <1>1, <1>2 DEF SettleInv, TaskR

LEMMA ChainRestStays ==
  ASSUME RecordInv, [Next]_vars PROVE ChainRest' /\ DrawsCounted'
<1>1. /\ chain.record \in Records /\ chain.rating \in Ratings /\ chain.locked \in SUBSET Players
      /\ DOMAIN chain = ChainFields /\ chain.wager \in [Fights -> WagerStates]
  BY DEF RecordInv, Rest, ChainRest, SettleInv, Shapes
<1>2. \A f \in Fights : fights'[f].kind = fights[f].kind /\ (Decided(f) => Decided(f)')
  BY FightsRest
<1>3. CASE UNCHANGED chain
  <2>1. ChainRest' BY <1>1, <1>3 DEF ChainRest
  <2>2. DrawsCounted' BY <1>2, <1>3 DEF RecordInv, DrawsCounted, IsWager
  <2> QED BY <2>1, <2>2
<1>4. ASSUME NEW f \in Fights, NEW s \in {"ACTIVE", "split"}, chain.wager[f] # "tie",
             chain' = [chain EXCEPT !.wager[f] = s]
      PROVE  ChainRest' /\ DrawsCounted'
  <2>1. /\ chain'.record = chain.record /\ chain'.rating = chain.rating
        /\ chain'.locked = chain.locked
        /\ \A g \in Fights : chain'.wager[g] = IF g = f THEN s ELSE chain.wager[g]
    BY <1>1, <1>4 DEF ChainFields
  <2>2. ChainRest' BY <1>1, <2>1 DEF ChainRest
  <2>3. ASSUME NEW g \in Fights, NEW p \in Players, ~Decided(g)', IsWager(g)'
        PROVE  chain'.record[p][g] = IF chain'.wager[g] = "tie" THEN 1 ELSE 0
    <3>1. ~Decided(g) /\ IsWager(g) BY <1>2, <2>3 DEF IsWager
    <3>2. chain.record[p][g] = IF chain.wager[g] = "tie" THEN 1 ELSE 0
      BY <3>1 DEF RecordInv, DrawsCounted
    <3> QED BY <1>4, <2>1, <3>2
  <2> QED BY <2>2, <2>3 DEF DrawsCounted
<1>5. ASSUME NEW t \in Tasks(taskQueue), Lands(t) PROVE ChainRest' /\ DrawsCounted'
  <2>1. t \in TaskR /\ Named(t) /\ SoundTask(t) /\ t.fight \in Fights
    BY TaskParts DEF RecordInv
  <2>2. chain' = Executed(t) /\ Shapes /\ ChainRest
    BY <1>5 DEF Lands, RecordInv, SettleInv, Rest
  <2>3. /\ chain'.record \in Records /\ chain'.rating \in Ratings
        /\ chain'.locked \in SUBSET Players
        /\ \A p \in Players, g \in Fights :
              chain'.record[p][g] =
                IF g = t.fight /\ (t.op = "bundle" \/ (t.op = "update" /\ p = t.who))
                THEN chain.record[p][g] + 1 ELSE chain.record[p][g]
    BY <2>1, <2>2, ExecuteRest
  <2>4. /\ \A g \in Fights :
             chain'.wager[g] = IF g = t.fight /\ Pays(t) THEN Outcome(t) ELSE chain.wager[g]
        /\ Pays(t) => chain.wager[t.fight] = "ACTIVE"
    BY <1>5, <2>1, LandsEffect DEF RecordInv
  <2>5. ASSUME NEW g \in Fights, NEW p \in Players, ~Decided(g)', IsWager(g)'
        PROVE  chain'.record[p][g] = IF chain'.wager[g] = "tie" THEN 1 ELSE 0
    <3>1. ~Decided(g) /\ IsWager(g) BY <1>2, <2>5 DEF IsWager
    <3>2. chain.record[p][g] = IF chain.wager[g] = "tie" THEN 1 ELSE 0
      BY <3>1 DEF RecordInv, DrawsCounted
    <3>3. CASE g # t.fight BY <2>3, <2>4, <3>2, <3>3
    <3>4. CASE g = t.fight
      <4>1. t.op # "update" BY <2>1, <3>1, <3>4 DEF SoundTask
      <4>2. t.op # "settle" BY <2>1, <3>1, <3>4 DEF SoundTask, Decided, Named
      <4>3. CASE t.op = "bundle"
        <5>1. chain.wager[g] = "ACTIVE" /\ chain'.wager[g] = "tie"
          BY <2>4, <3>1, <3>4, <4>3 DEF Pays, Outcome
        <5>2. chain'.record[p][g] = chain.record[p][g] + 1 BY <2>3, <3>4, <4>3
        <5> QED BY <3>2, <5>1, <5>2
      <4>4. CASE t.op = "cancel"
        <5>1. chain.wager[g] = "ACTIVE" /\ chain'.wager[g] = "split"
          BY <2>4, <3>4, <4>4 DEF Pays, Outcome
        <5>2. chain'.record[p][g] = chain.record[p][g] BY <2>3, <4>4
        <5> QED BY <3>2, <5>1, <5>2
      <4>5. CASE t.op \notin {"update", "settle", "bundle", "cancel"}
        <5>1. chain'.wager[g] = chain.wager[g] BY <2>4, <4>5 DEF Pays
        <5>2. chain'.record[p][g] = chain.record[p][g] BY <2>3, <4>5
        <5> QED BY <3>2, <5>1, <5>2
      <4> QED BY <4>1, <4>2, <4>3, <4>4, <4>5
    <3> QED BY <3>3, <3>4
  <2> QED BY <2>3, <2>5 DEF ChainRest, DrawsCounted
<1> QED BY <1>3, <1>4, <1>5, ChainChange

\* The server's counts.
LEMMA CacheRestStays ==
  ASSUME RecordInv, [Next]_vars PROVE cache'.record \in Records
<1>1. /\ DOMAIN cache = {"record", "rating"} /\ cache.record \in Records
      /\ chain'.record \in Records
  BY ChainRestStays DEF RecordInv, Rest, SettleInv, Shapes, ChainRest
<1>2. \A p \in Players, g \in Fights : cache.record[p][g] \in Nat /\ chain'.record[p][g] \in Nat
  BY <1>1 DEF Records
<1>3. CASE UNCHANGED cache BY <1>1, <1>3
<1>4. ASSUME NEW f \in Fights, NEW w \in Players, FinishWon(f, w) PROVE cache'.record \in Records
  <2>1. cache'.record = [p \in Players |-> [cache.record[p] EXCEPT ![f] = @ + 1]]
    BY <1>4 DEF FinishWon
  <2>2. ASSUME NEW p \in Players PROVE [cache.record[p] EXCEPT ![f] = @ + 1] \in [Fights -> Nat]
    <3>1. cache.record[p] \in [Fights -> Nat] BY <1>1 DEF Records
    <3> QED BY <3>1
  <2> QED BY <2>1, <2>2 DEF Records
<1>5. ASSUME NEW p \in Players, NEW d \in BOOLEAN PROVE Mirrored(p, d) \in [Fights -> Nat]
  BY <1>2 DEF Mirrored
<1>6. CASE AttemptSucceeds
  <2> DEFINE t == Head(taskQueue)
  <2>1. taskQueue # <<>> /\ Resolve(t) BY <1>6 DEF AttemptSucceeds
  <2>2. QueueT(taskQueue) BY DEF RecordInv, SettleInv, Shapes
  <2>3. t \in TaskR /\ Named(t) BY <2>1, <2>2, QueueTail
  <2> HIDE DEF t
  <2>4. CASE t.op = "update"
    <3> DEFINE m == Mirrored(t.who, FALSE)
    <3>1. cache'.record = [cache.record EXCEPT ![t.who] = m] BY <2>1, <2>4 DEF Resolve
    <3>2. m \in [Fights -> Nat] BY <1>5, <2>3, <2>4 DEF Named
    <3> HIDE DEF m
    <3> QED BY <1>1, <3>1, <3>2 DEF Records
  <2>5. CASE t.op = "bundle"
    <3>1. cache' = [cache EXCEPT !.record = [p \in Players |-> Mirrored(p, TRUE)]]
      BY <2>1, <2>5 DEF Resolve
    <3>2. cache'.record = [p \in Players |-> Mirrored(p, TRUE)] BY <1>1, <3>1
    <3> QED BY <1>5, <3>2 DEF Records
  <2>6. CASE t.op \notin {"update", "bundle"}
    <3>1. UNCHANGED cache BY <2>1, <2>6 DEF Resolve
    <3> QED BY <1>1, <3>1
  <2> QED BY <2>4, <2>5, <2>6
<1>7. CASE AttemptFails \/ AttemptStalls BY <1>1, <1>7 DEF AttemptFails, AttemptStalls, Reject
<1>8. ASSUME NEW f \in Fights,
             \/ Approve(f) \/ WagerAccepted(f) \/ AcceptGivesUp(f) \/ CreateFight(f)
             \/ FinishDrawn(f) \/ SweepOne(f) \/ Expire(f)
      PROVE  UNCHANGED cache
  BY <1>8 DEF Approve, WagerAccepted, AcceptGivesUp, CreateFight, FinishDrawn, SweepOne, Expire
<1>9. CASE Crash \/ Restart \/ UNCHANGED vars BY <1>3, <1>9 DEF Crash, Restart, vars
<1>10. ASSUME NEW r \in db.requests, RequestDone(r) PROVE UNCHANGED cache
  BY <1>10 DEF RequestDone
<1> QED BY <1>3, <1>4, <1>6, <1>7, <1>8, <1>9, <1>10 DEF Next

\* Attempts, the database, what is told and the history.
Small ==
  /\ attempt \in {Unanswered} \cup 0 .. Attempts - 1
  /\ db.failed \subseteq Requests
  /\ told \in [Fights -> {None, "settled", "failed"}]
  /\ SeenRest

LEMMA SmallStays ==
  ASSUME RecordInv, [Next]_vars PROVE Small'
<1>1. /\ attempt \in {Unanswered} \cup 0 .. Attempts - 1 /\ db.failed \subseteq Requests
      /\ told \in [Fights -> {None, "settled", "failed"}]
      /\ seen.lost \cup seen.failed \subseteq TaskIds
      /\ seen.interrupted \cup seen.expired \subseteq Fights
      /\ seen.overlap \in BOOLEAN /\ seen.crashes \in 0 .. MaxCrashes
      /\ seen.faults \in 0 .. MaxFaults
  BY DEF RecordInv, Rest, SeenRest
<1>2. /\ DOMAIN seen = SeenFields /\ DOMAIN db = DbFields /\ db.requests \subseteq Requests
      /\ QueueT(taskQueue) /\ SettleInv
  BY DEF RecordInv, SettleInv, Shapes, Requests
<1>3. /\ Attempts \in Nat \ {0} /\ MaxCrashes \in Nat /\ MaxFaults \in Nat
      /\ 0 \in 0 .. Attempts - 1
  BY Given
<1>4. ASSUME UNCHANGED attempt, UNCHANGED told, UNCHANGED seen, db'.failed = db.failed
      PROVE  Small'
  BY <1>1, <1>4 DEF Small, SeenRest
<1>5. ASSUME NEW f \in Fights, Approve(f) \/ CreateFight(f) \/ FinishDrawn(f) PROVE Small'
  BY <1>4, <1>5 DEF Approve, CreateFight, FinishDrawn
<1>6. ASSUME NEW f \in Fights, WagerAccepted(f) \/ SweepOne(f) PROVE Small'
  <2>1. UNCHANGED attempt /\ UNCHANGED told /\ UNCHANGED seen
    BY <1>6 DEF WagerAccepted, SweepOne
  <2>2. \/ UNCHANGED db \/ db' = [db EXCEPT !.requests = @ \cup {<<"insert", f>>}]
        \/ db' = [db EXCEPT !.requests = @ \cup {<<"delete", f>>}]
    BY <1>6 DEF WagerAccepted, SweepOne
  <2>3. db'.failed = db.failed BY <1>2, <2>2 DEF DbFields
  <2> QED BY <1>4, <2>1, <2>3
<1>7. ASSUME NEW f \in Fights, AcceptGivesUp(f) PROVE Small'
  <2>1. UNCHANGED attempt /\ UNCHANGED told /\ UNCHANGED db
        /\ seen' = [seen EXCEPT !.interrupted = @ \cup {f}]
    BY <1>7 DEF AcceptGivesUp
  <2>2. /\ seen'.lost = seen.lost /\ seen'.failed = seen.failed /\ seen'.expired = seen.expired
        /\ seen'.interrupted = seen.interrupted \cup {f} /\ seen'.overlap = seen.overlap
        /\ seen'.crashes = seen.crashes /\ seen'.faults = seen.faults
    BY <1>2, <2>1 DEF SeenFields
  <2> QED BY <1>1, <2>1, <2>2 DEF Small, SeenRest
<1>8. ASSUME NEW f \in Fights, NEW w \in Players, FinishWon(f, w) PROVE Small'
  <2> DEFINE o == seen.overlap \/ \E i \in DOMAIN taskQueue : taskQueue[i].op = "update"
  <2>1. UNCHANGED attempt /\ UNCHANGED told /\ UNCHANGED db
        /\ seen' = [seen EXCEPT !.overlap = o]
    BY <1>8 DEF FinishWon
  <2>2. o \in BOOLEAN OBVIOUS
  <2> HIDE DEF o
  <2>3. /\ seen'.lost = seen.lost /\ seen'.failed = seen.failed /\ seen'.expired = seen.expired
        /\ seen'.interrupted = seen.interrupted /\ seen'.overlap = o
        /\ seen'.crashes = seen.crashes /\ seen'.faults = seen.faults
    BY <1>2, <2>1 DEF SeenFields
  <2> QED BY <1>1, <2>1, <2>2, <2>3 DEF Small, SeenRest
<1>9. ASSUME NEW f \in Fights, Expire(f) PROVE Small'
  <2>1. /\ UNCHANGED attempt /\ UNCHANGED told /\ UNCHANGED db /\ seen.faults < MaxFaults
        /\ seen' = [seen EXCEPT !.expired = @ \cup {f}, !.faults = @ + 1]
    BY <1>9 DEF Expire
  <2>2. /\ seen'.lost = seen.lost /\ seen'.failed = seen.failed
        /\ seen'.expired = seen.expired \cup {f}
        /\ seen'.interrupted = seen.interrupted /\ seen'.overlap = seen.overlap
        /\ seen'.crashes = seen.crashes /\ seen'.faults = seen.faults + 1
    BY <1>2, <2>1 DEF SeenFields
  <2>3. seen'.faults \in 0 .. MaxFaults BY <1>1, <1>3, <2>1, <2>2
  <2> QED BY <1>1, <2>1, <2>2, <2>3 DEF Small, SeenRest
<1>10. CASE AttemptSucceeds
  <2> DEFINE t == Head(taskQueue)
  <2>1. /\ taskQueue # <<>> /\ Tell(t, "settled") /\ attempt' = 0 /\ UNCHANGED seen
        /\ \/ UNCHANGED db
           \/ db' = [db EXCEPT !.requests = @ \cup {<<"delete", t.fight>>}]
    BY <1>10 DEF AttemptSucceeds, Resolve, Dequeue
  <2>2. t \in TaskR BY <1>2, <2>1, QueueTail
  <2> HIDE DEF t
  <2>3. db'.failed = db.failed BY <1>2, <2>1 DEF DbFields
  <2>4. told' \in [Fights -> {None, "settled", "failed"}] BY <1>1, <2>1 DEF Tell
  <2> QED BY <1>1, <1>3, <2>1, <2>3, <2>4 DEF Small, SeenRest
<1>11. CASE AttemptFails
  <2> DEFINE t == Head(taskQueue)
             id == <<t.op, t.fight, t.who>>
  <2>1. /\ taskQueue # <<>> /\ (CanExecute(t) /\ attempt = 0 => seen.faults < MaxFaults)
        /\ IF LastAttempt THEN Reject(t)
           ELSE attempt' = attempt + 1 /\ UNCHANGED <<taskQueue, cache, db, told>>
    BY <1>11 DEF AttemptFails
  <2>2. PICK landed \in BOOLEAN :
          seen' = [seen EXCEPT !.lost = IF landed /\ t.op \in {"update", "bundle"}
                                        THEN @ \cup {id} ELSE @,
                               !.failed = IF LastAttempt THEN @ \cup {id} ELSE @,
                               !.faults = IF CanExecute(t) /\ attempt = 0 THEN @ + 1 ELSE @]
    BY <1>11 DEF AttemptFails
  <2>3. t \in TaskR BY <1>2, <2>1, QueueTail
  <2>4. id \in TaskIds
    <3>1. t.op \in Ops /\ t.fight \in Fights /\ t.who \in Players \cup {None}
      BY <2>3 DEF TaskR
    <3> QED BY <3>1 DEF TaskIds
  <2> HIDE DEF t, id
  <2>5. /\ seen'.lost = (IF landed /\ t.op \in {"update", "bundle"}
                         THEN seen.lost \cup {id} ELSE seen.lost)
        /\ seen'.failed = (IF LastAttempt THEN seen.failed \cup {id} ELSE seen.failed)
        /\ seen'.faults = (IF CanExecute(t) /\ attempt = 0 THEN seen.faults + 1
                           ELSE seen.faults)
        /\ seen'.expired = seen.expired /\ seen'.interrupted = seen.interrupted
        /\ seen'.overlap = seen.overlap /\ seen'.crashes = seen.crashes
    BY <1>2, <2>2 DEF SeenFields
  <2>6. seen'.faults \in 0 .. MaxFaults BY <1>1, <1>3, <2>1, <2>5
  <2>7. SeenRest' BY <1>1, <2>4, <2>5, <2>6 DEF SeenRest
  <2>8. CASE LastAttempt
    <3>1. Tell(t, "failed") /\ UNCHANGED db /\ attempt' = 0
      BY <2>1, <2>8 DEF Reject, Dequeue
    <3>2. told' \in [Fights -> {None, "settled", "failed"}] BY <1>1, <3>1 DEF Tell
    <3> QED BY <1>1, <1>3, <2>7, <3>1, <3>2 DEF Small
  <2>9. CASE ~LastAttempt
    <3>1. attempt' = attempt + 1 /\ UNCHANGED db /\ UNCHANGED told BY <2>1, <2>9
    <3>2. attempt + 1 # Attempts BY <2>9 DEF LastAttempt
    <3>3. attempt \in 0 .. Attempts - 1 BY <1>1, <1>11 DEF AttemptFails, Stalled
    <3>4. attempt' \in 0 .. Attempts - 1 BY <1>3, <3>1, <3>2, <3>3
    <3> QED BY <1>1, <2>7, <3>1, <3>4 DEF Small
  <2> QED BY <2>8, <2>9
<1>12. ASSUME NEW r \in db.requests, RequestDone(r) PROVE Small'
  <2>1. UNCHANGED attempt /\ UNCHANGED told BY <1>12 DEF RequestDone
  <2>2. PICK ok \in IF seen.faults < MaxFaults THEN BOOLEAN ELSE {TRUE} :
          /\ seen' = [seen EXCEPT !.faults = IF ok THEN @ ELSE @ + 1]
          /\ db' = [rows |-> IF ~ok THEN db.rows
                             ELSE IF r[1] = "insert" THEN db.rows \cup {r[2]}
                             ELSE db.rows \ {r[2]},
                    requests |-> db.requests \ {r},
                    failed |-> IF ok THEN db.failed ELSE db.failed \cup {r}]
    BY <1>12 DEF RequestDone
  <2>3. ok \in BOOLEAN /\ (~ok => seen.faults < MaxFaults) BY <2>2
  <2>4. /\ seen'.lost = seen.lost /\ seen'.failed = seen.failed /\ seen'.expired = seen.expired
        /\ seen'.interrupted = seen.interrupted /\ seen'.overlap = seen.overlap
        /\ seen'.crashes = seen.crashes
        /\ seen'.faults = IF ok THEN seen.faults ELSE seen.faults + 1
    BY <1>2, <2>2 DEF SeenFields
  <2>5. seen'.faults \in 0 .. MaxFaults BY <1>1, <1>3, <2>3, <2>4
  <2>6. db'.failed \subseteq Requests BY <1>1, <1>2, <2>2
  <2> QED BY <1>1, <2>1, <2>4, <2>5, <2>6 DEF Small, SeenRest
<1>13. CASE Crash
  <2> DEFINE i == {f \in Fights : fights[f].stage \in {"accepted", "fighting"}}
             j == {f \in Fights : Over(f) /\ told[f] # "settled"}
  <2>1. /\ attempt' = 0 /\ UNCHANGED told /\ UNCHANGED db /\ seen.crashes < MaxCrashes
        /\ seen' = [seen EXCEPT !.crashes = @ + 1, !.interrupted = @ \cup i \cup j]
    BY <1>13 DEF Crash
  <2>2. i \subseteq Fights /\ j \subseteq Fights OBVIOUS
  <2> HIDE DEF i, j
  <2>3. /\ seen'.lost = seen.lost /\ seen'.failed = seen.failed /\ seen'.expired = seen.expired
        /\ seen'.interrupted = seen.interrupted \cup i \cup j /\ seen'.overlap = seen.overlap
        /\ seen'.crashes = seen.crashes + 1 /\ seen'.faults = seen.faults
    BY <1>2, <2>1 DEF SeenFields
  <2>4. seen'.crashes \in 0 .. MaxCrashes BY <1>1, <1>3, <2>1, <2>3
  <2> QED BY <1>1, <1>3, <2>1, <2>2, <2>3, <2>4 DEF Small, SeenRest
<1>14. CASE AttemptStalls
  <2> DEFINE t == Head(taskQueue)
             id == <<t.op, t.fight, t.who>>
  <2>1. /\ taskQueue # <<>> /\ seen.faults < MaxFaults /\ attempt' = Unanswered
        /\ UNCHANGED db /\ UNCHANGED told
    BY <1>14 DEF AttemptStalls
  <2>2. PICK landed \in BOOLEAN :
          seen' = [seen EXCEPT !.lost = IF landed /\ t.op \in {"update", "bundle"}
                                        THEN @ \cup {id} ELSE @,
                               !.faults = @ + 1]
    BY <1>14 DEF AttemptStalls
  <2>3. t \in TaskR BY <1>2, <2>1, QueueTail
  <2>4. id \in TaskIds
    <3>1. t.op \in Ops /\ t.fight \in Fights /\ t.who \in Players \cup {None}
      BY <2>3 DEF TaskR
    <3> QED BY <3>1 DEF TaskIds
  <2> HIDE DEF t, id
  <2>5. /\ seen'.lost = (IF landed /\ t.op \in {"update", "bundle"}
                         THEN seen.lost \cup {id} ELSE seen.lost)
        /\ seen'.failed = seen.failed /\ seen'.faults = seen.faults + 1
        /\ seen'.expired = seen.expired /\ seen'.interrupted = seen.interrupted
        /\ seen'.overlap = seen.overlap /\ seen'.crashes = seen.crashes
    BY <1>2, <2>2 DEF SeenFields
  <2>6. seen'.faults \in 0 .. MaxFaults BY <1>1, <1>3, <2>1, <2>5
  <2>7. SeenRest' BY <1>1, <2>4, <2>5, <2>6 DEF SeenRest
  <2> QED BY <1>1, <2>1, <2>7 DEF Small
<1>15. CASE Restart \/ UNCHANGED vars BY <1>4, <1>15 DEF Restart, vars
<1> QED
  BY <1>5, <1>6, <1>7, <1>8, <1>9, <1>10, <1>11, <1>12, <1>13, <1>14, <1>15 DEF Next

LEMMA RecordInit == Init => RecordInv
<1> SUFFICES ASSUME Init PROVE RecordInv OBVIOUS
<1>1. SettleInv BY Initially
<1>2. /\ chain = [wager  |-> [f \in Fights |-> "ABSENT"],
                  record |-> [p \in Players |-> [f \in Fights |-> 0]],
                  rating |-> [p \in Players |-> {}], locked |-> {}]
      /\ cache = [record |-> chain.record, rating |-> chain.rating]
      /\ fights \in [Fights -> [kind : Kinds, stage : {"none"}, winner : {None}]]
      /\ attempt = 0 /\ db = [rows |-> {}, requests |-> {}, failed |-> {}]
      /\ told = [f \in Fights |-> None]
      /\ seen = [lost |-> {}, failed |-> {}, interrupted |-> {}, expired |-> {},
                 overlap |-> FALSE, crashes |-> 0, faults |-> 0]
  BY DEF Init
<1>3. /\ chain.record \in Records /\ chain.rating \in Ratings /\ chain.locked = {}
      /\ \A f \in Fights : chain.wager[f] = "ABSENT"
      /\ \A f \in Fights, p \in Players : chain.record[p][f] = 0
  BY <1>2 DEF Records, Ratings
<1>4. fights \in [Fights -> FightR] BY <1>2 DEF FightR, Stages
<1>5. attempt \in {Unanswered} \cup 0 .. Attempts - 1 BY <1>2, Given
<1>6. 0 \in 0 .. MaxCrashes /\ 0 \in 0 .. MaxFaults BY Given
<1>7. SeenRest BY <1>2, <1>6 DEF SeenRest
<1>8. Rest BY <1>2, <1>3, <1>4, <1>5, <1>7 DEF Rest, ChainRest
<1>9. DrawsCounted BY <1>3 DEF DrawsCounted
<1> QED BY <1>1, <1>8, <1>9 DEF RecordInv

LEMMA RecordStep == RecordInv /\ [Next]_vars => RecordInv'
<1> SUFFICES ASSUME RecordInv, [Next]_vars PROVE RecordInv' OBVIOUS
<1>1. SettleInv' BY StepKeeps DEF RecordInv
<1>2. ChainRest' /\ DrawsCounted' BY ChainRestStays
<1>3. cache'.record \in Records BY CacheRestStays
<1>4. fights' \in [Fights -> FightR] BY FightsRest
<1>5. Small' BY SmallStays
<1>6. Rest' BY <1>2, <1>3, <1>4, <1>5 DEF Rest, Small
<1> QED BY <1>1, <1>2, <1>6 DEF RecordInv

\* The variables keep their types.
THEOREM TypeCorrect == Spec => []TypeOK
<1>1. RecordInv => TypeOK BY RestTypes
<1> QED BY <1>1, RecordInit, RecordStep, PTL DEF Spec

\* The draw of a wager fight is counted with the refund of its stakes, for both
\* players, and never twice, whatever answers are lost.
THEOREM DrawsCountOnce == Spec => []WagerDrawCountedOnce
<1>1. RecordInv => WagerDrawCountedOnce BY RestTypes
<1> QED BY <1>1, RecordInit, RecordStep, PTL DEF Spec

(***************************************************************************)
(* The transactions that count                                             *)
(***************************************************************************)
\* Two kinds of transaction count a result; a task is known by what it does,
\* for which fight and for whom.
Counting(t) == t.op \in {"update", "bundle"}
Id(t) == <<t.op, t.fight, t.who>>
Ids(q) == {Id(t) : t \in {u \in Tasks(q) : Counting(u)}}
OnlyOnce(q) == \A i, j \in 1 .. Len(q) : Counting(q[i]) /\ Id(q[i]) = Id(q[j]) => i = j

\* Whether two tasks with one Id count.
LEMMA SameId ==
  ASSUME NEW t, NEW u, Id(t) = Id(u)
  PROVE  t.op = u.op /\ t.fight = u.fight /\ t.who = u.who /\ (Counting(t) <=> Counting(u))
BY DEF Id, Counting

LEMMA IdsOf ==
  ASSUME NEW q, NEW i \in 1 .. Len(q), Counting(q[i]) PROVE Id(q[i]) \in Ids(q)
BY DEF Ids, Tasks

LEMMA IdsFrom ==
  ASSUME NEW q, NEW id \in Ids(q)
  PROVE  \E i \in 1 .. Len(q) : Counting(q[i]) /\ id = Id(q[i])
BY DEF Ids, Tasks

LEMMA OnceIn ==
  ASSUME NEW q, OnlyOnce(q), NEW i \in 1 .. Len(q), NEW j \in 1 .. Len(q),
         Counting(q[i]), Id(q[i]) = Id(q[j])
  PROVE  i = j
BY DEF OnlyOnce

\* The first task leaves: its identifier leaves with it.
LEMMA IdsTail ==
  ASSUME NEW q, QueueT(q), q # <<>>, OnlyOnce(q)
  PROVE  /\ OnlyOnce(Tail(q))
         /\ Ids(Tail(q)) = IF Counting(Head(q)) THEN Ids(q) \ {Id(Head(q))} ELSE Ids(q)
         /\ Counting(Head(q)) => Id(Head(q)) \in Ids(q)
<1>1. q \in Seq(TaskR) BY DEF QueueT
<1>2. /\ Len(Tail(q)) = Len(q) - 1 /\ Len(q) \in Nat /\ Len(q) # 0
      /\ \A i \in 1 .. Len(Tail(q)) : Tail(q)[i] = q[i + 1]
  BY <1>1, HeadTailProperties, EmptySeq
<1>3. Head(q) = q[1] /\ 1 \in 1 .. Len(q) BY <1>2
<1>4. ASSUME NEW i \in 1 .. Len(Tail(q))
      PROVE  i \in Int /\ i + 1 \in 1 .. Len(q) /\ i + 1 # 1 /\ Tail(q)[i] = q[i + 1]
  BY <1>2
<1>5. OnlyOnce(Tail(q))
  <2>1. ASSUME NEW i \in 1 .. Len(Tail(q)), NEW j \in 1 .. Len(Tail(q)),
               Counting(Tail(q)[i]), Id(Tail(q)[i]) = Id(Tail(q)[j])
        PROVE  i = j
    <3>1. i + 1 = j + 1 BY <1>4, <2>1, OnceIn
    <3> QED BY <1>4, <3>1
  <2> QED BY <2>1 DEF OnlyOnce
<1>6. ASSUME NEW id \in Ids(Tail(q))
      PROVE  id \in Ids(q) /\ (Counting(Head(q)) => id # Id(Head(q)))
  <2>1. PICK i \in 1 .. Len(Tail(q)) : Counting(Tail(q)[i]) /\ id = Id(Tail(q)[i]) BY IdsFrom
  <2>2. i + 1 \in 1 .. Len(q) /\ i + 1 # 1 /\ Counting(q[i + 1]) /\ id = Id(q[i + 1])
    BY <1>4, <2>1
  <2>3. id \in Ids(q) BY <2>2, IdsOf
  <2>4. ASSUME Counting(Head(q)), id = Id(Head(q)) PROVE FALSE
    <3>1. 1 = i + 1 BY <1>3, <2>2, <2>4, OnceIn
    <3> QED BY <2>2, <3>1
  <2> QED BY <2>3, <2>4
<1>7. ASSUME NEW id \in Ids(q), Counting(Head(q)) => id # Id(Head(q)) PROVE id \in Ids(Tail(q))
  <2>1. PICK i \in 1 .. Len(q) : Counting(q[i]) /\ id = Id(q[i]) BY IdsFrom
  <2>2. i # 1 BY <1>3, <1>7, <2>1
  <2>3. i - 1 \in 1 .. Len(Tail(q)) /\ (i - 1) + 1 = i BY <1>2, <2>2
  <2>4. Tail(q)[i - 1] = q[i] BY <1>4, <2>3
  <2> QED BY <2>1, <2>3, <2>4, IdsOf
<1>8. Counting(Head(q)) => Id(Head(q)) \in Ids(q) BY <1>3, IdsOf
<1> QED BY <1>5, <1>6, <1>7, <1>8

\* Tasks are added: so are their identifiers.
LEMMA IdsConcat ==
  ASSUME NEW q, NEW r, QueueT(q), QueueT(r), OnlyOnce(q), OnlyOnce(r), Ids(q) \cap Ids(r) = {}
  PROVE  OnlyOnce(q \o r) /\ Ids(q \o r) = Ids(q) \cup Ids(r)
<1>1. q \in Seq(TaskR) /\ r \in Seq(TaskR) BY DEF QueueT
<1> DEFINE s == q \o r
           m == Len(q)
           n == Len(r)
<1>2. m \in Nat /\ n \in Nat BY <1>1
<1>3. /\ Len(s) = m + n
      /\ \A i \in 1 .. m + n : s[i] = IF i <= m THEN q[i] ELSE r[i - m]
  BY <1>1, ConcatProperties
<1>4. ASSUME NEW i \in 1 .. Len(s)
      PROVE  \/ i \in 1 .. m /\ s[i] = q[i]
             \/ i - m \in 1 .. n /\ s[i] = r[i - m] /\ i \in Int
  BY <1>2, <1>3
<1>5. ASSUME NEW i \in 1 .. m PROVE i \in 1 .. Len(s) /\ s[i] = q[i] BY <1>2, <1>3
<1>6. ASSUME NEW i \in 1 .. n PROVE i + m \in 1 .. Len(s) /\ s[i + m] = r[i]
  <2>1. i + m \in 1 .. m + n /\ ~(i + m <= m) /\ (i + m) - m = i BY <1>2
  <2> QED BY <1>3, <2>1
<1> HIDE DEF s
<1>7. OnlyOnce(s)
  <2>1. ASSUME NEW i \in 1 .. Len(s), NEW j \in 1 .. Len(s), Counting(s[i]), Id(s[i]) = Id(s[j])
        PROVE  i = j
    <3>1. Counting(s[j]) BY <2>1, SameId
    <3>2. CASE i \in 1 .. m /\ s[i] = q[i] /\ j \in 1 .. m /\ s[j] = q[j]
      BY <2>1, <3>2, OnceIn
    <3>3. CASE /\ i - m \in 1 .. n /\ s[i] = r[i - m] /\ i \in Int
               /\ j - m \in 1 .. n /\ s[j] = r[j - m] /\ j \in Int
      <4>1. i - m = j - m BY <2>1, <3>3, OnceIn
      <4> QED BY <1>2, <3>3, <4>1
    <3>4. CASE i \in 1 .. m /\ s[i] = q[i] /\ j - m \in 1 .. n /\ s[j] = r[j - m]
      <4>1. Id(q[i]) \in Ids(q) /\ Id(r[j - m]) \in Ids(r) BY <2>1, <3>1, <3>4, IdsOf
      <4> QED BY <2>1, <3>4, <4>1
    <3>5. CASE j \in 1 .. m /\ s[j] = q[j] /\ i - m \in 1 .. n /\ s[i] = r[i - m]
      <4>1. Id(q[j]) \in Ids(q) /\ Id(r[i - m]) \in Ids(r) BY <2>1, <3>1, <3>5, IdsOf
      <4> QED BY <2>1, <3>5, <4>1
    <3> QED BY <1>4, <3>2, <3>3, <3>4, <3>5
  <2> QED BY <2>1 DEF OnlyOnce
<1>8. ASSUME NEW id \in Ids(s) PROVE id \in Ids(q) \cup Ids(r)
  <2>1. PICK i \in 1 .. Len(s) : Counting(s[i]) /\ id = Id(s[i]) BY IdsFrom
  <2> QED BY <1>4, <2>1, IdsOf
<1>9. ASSUME NEW id \in Ids(q) PROVE id \in Ids(s)
  <2>1. PICK i \in 1 .. m : Counting(q[i]) /\ id = Id(q[i]) BY IdsFrom
  <2> QED BY <1>5, <2>1, IdsOf
<1>10. ASSUME NEW id \in Ids(r) PROVE id \in Ids(s)
  <2>1. PICK i \in 1 .. n : Counting(r[i]) /\ id = Id(r[i]) BY IdsFrom
  <2>2. i + m \in 1 .. Len(s) /\ s[i + m] = r[i] BY <1>6
  <2> QED BY <2>1, <2>2, IdsOf
<1> QED BY <1>7, <1>8, <1>9, <1>10 DEF s

\* Tasks that count nothing change no identifiers.
LEMMA IdsNone ==
  ASSUME NEW r, \A t \in Tasks(r) : ~Counting(t)
  PROVE  OnlyOnce(r) /\ Ids(r) = {}
<1>1. \A i \in 1 .. Len(r) : ~Counting(r[i]) BY DEF Tasks
<1> QED BY <1>1, IdsFrom DEF OnlyOnce

LEMMA IdsSingle ==
  ASSUME NEW t \in TaskR, Counting(t) PROVE OnlyOnce(<<t>>) /\ Ids(<<t>>) = {Id(t)}
<1>1. Len(<<t>>) = 1 /\ <<t>>[1] = t OBVIOUS
<1>2. \A i \in 1 .. 1 : i = 1 OBVIOUS
<1>3. OnlyOnce(<<t>>) BY <1>1, <1>2 DEF OnlyOnce
<1>4. Id(t) \in Ids(<<t>>) BY <1>1, <1>2, IdsOf
<1>5. ASSUME NEW id \in Ids(<<t>>) PROVE id = Id(t)
  <2>1. PICK i \in 1 .. Len(<<t>>) : Counting(<<t>>[i]) /\ id = Id(<<t>>[i]) BY IdsFrom
  <2> QED BY <1>1, <1>2, <2>1
<1> QED BY <1>3, <1>4, <1>5

(***************************************************************************)
(* The invariant of the counts.  The transaction that counts a result is   *)
(* outstanding while it, or the update of the winner before it, is in the  *)
(* queue.  Until it leaves the queue it has landed only if an answer was   *)
(* lost; when it has left, the chain counted as the server was answered    *)
(* and the server's copy is that of the chain.                             *)
(***************************************************************************)
ResultId(f, p) == IF Drawn(f) THEN <<"bundle", f, None>> ELSE <<"update", f, p>>

Outstanding(f, p) ==
  \/ ResultId(f, p) \in Ids(taskQueue)
  \/ ResultId(f, fights[f].winner) \in Ids(taskQueue)

\* Nothing was lost of, and nothing given up for, an identifier.
Fresh(id) == id \notin seen.lost \cup seen.failed

CountI(f, p) ==
  /\ ~Over(f) => /\ chain.record[p][f] = 0 /\ cache.record[p][f] = 0
                 /\ Fresh(<<"update", f, p>>) /\ Fresh(<<"bundle", f, None>>)
  /\ Over(f) /\ Outstanding(f, p) =>
       /\ ResultId(f, p) \notin seen.failed
       /\ ResultId(f, p) \notin seen.lost => chain.record[p][f] = 0
  /\ Over(f) /\ ~Outstanding(f, p) =>
       /\ ResultId(f, p) \notin seen.lost =>
            chain.record[p][f] = IF ResultId(f, p) \in seen.failed THEN 0 ELSE 1
       /\ ResultId(f, p) \notin seen.failed =>
            chain.record[p][f] >= 1 /\ cache.record[p][f] = chain.record[p][f]
  /\ Decided(f) =>
       \/ ResultId(f, p) \notin Ids(taskQueue)
       \/ ResultId(f, Opponent(p)) \notin Ids(taskQueue)

\* A transaction for both players names none of them.
BothI(t) == t.op = "bundle" => t.who = None

Counted ==
  /\ OnlyOnce(taskQueue)
  /\ \A t \in Tasks(taskQueue) : BothI(t)
  /\ \A f \in Fights, p \in Players : CountI(f, p)

\* The facts about fights and tasks the counts rest on.
LEMMA Results ==
  ASSUME RecordInv
  PROVE  /\ \A f \in Fights : /\ Over(f) <=> Decided(f) \/ Drawn(f)
                              /\ ~(Decided(f) /\ Drawn(f))
                              /\ fights[f].winner \in Players \cup {None, Draw}
         /\ \A t \in Tasks(taskQueue) : /\ t \in TaskR /\ Named(t) /\ t.fight \in Fights
                                        /\ t.op = "bundle" => Drawn(t.fight)
                                        /\ t.op = "update" => Decided(t.fight) /\ t.who \in Players
<1>1. fights \in [Fights -> FightR] BY DEF RecordInv, Rest
<1>2. ASSUME NEW f \in Fights PROVE fights[f].winner \in Players \cup {None, Draw}
  <2>1. fights[f] \in FightR BY <1>1
  <2> QED BY <2>1 DEF FightR
<1>3. ASSUME NEW f \in Fights
      PROVE  (Over(f) <=> Decided(f) \/ Drawn(f)) /\ ~(Decided(f) /\ Drawn(f))
  <2>1. Over(f) <=> fights[f].winner # None BY DEF RecordInv, SettleInv, StageI
  <2> QED BY <1>2, <2>1, Given DEF Decided, Drawn
<1>4. ASSUME NEW t \in Tasks(taskQueue)
      PROVE  /\ t \in TaskR /\ Named(t) /\ t.fight \in Fights
             /\ t.op = "bundle" => Drawn(t.fight)
             /\ t.op = "update" => Decided(t.fight) /\ t.who \in Players
  <2>1. taskQueue \in Seq(TaskR) /\ Named(t) BY DEF RecordInv, SettleInv, Shapes, QueueT
  <2>2. t \in TaskR BY <2>1 DEF Tasks
  <2>3. SoundTask(t) BY DEF RecordInv, SettleInv
  <2>4. t.fight \in Fights BY <2>2 DEF TaskR
  <2> QED BY <2>1, <2>2, <2>3, <2>4 DEF SoundTask, Named
<1> QED BY <1>2, <1>3, <1>4

\* An identifier in the queue is that of a fight that is over.
LEMMA IdsOver ==
  ASSUME RecordInv, NEW f \in Fights, ~Over(f), NEW p
  PROVE  <<"update", f, p>> \notin Ids(taskQueue) /\ <<"bundle", f, p>> \notin Ids(taskQueue)
<1>1. ASSUME NEW id \in Ids(taskQueue), id = <<"update", f, p>> \/ id = <<"bundle", f, p>>
      PROVE  FALSE
  <2>1. PICK t \in Tasks(taskQueue) : Counting(t) /\ id = Id(t) BY DEF Ids
  <2>2. t.fight = f BY <1>1, <2>1 DEF Id
  <2> QED BY <2>1, <2>2, Results DEF Counting
<1> QED BY <1>1

\* Which identifier counts a decided or drawn fight.
LEMMA ResultIds ==
  ASSUME NEW f, NEW p
  PROVE  /\ Drawn(f) => ResultId(f, p) = <<"bundle", f, None>>
         /\ ~Drawn(f) => ResultId(f, p) = <<"update", f, p>>
BY DEF ResultId

\* The tasks a fight's end sends.
LEMMA WinIds ==
  ASSUME NEW f \in Fights, NEW w \in Players, cache'.rating[w] \in SUBSET Fights
  PROVE  /\ QueueT(WinTasks(f, w)) /\ OnlyOnce(WinTasks(f, w))
         /\ Ids(WinTasks(f, w)) = {<<"update", f, w>>}
         /\ \A t \in Tasks(WinTasks(f, w)) :
              /\ t.op # "bundle" /\ t.op # "lock" /\ t.op # "cancel"
              /\ t.op = "update" => t.rating = cache'.rating[w]
         /\ \A p \in Players : \E t \in Tasks(WinTasks(f, w)) : t.op = "unlock" /\ t.who = p
<1> DEFINE a == Task("settle", f, w, {})
           b == Task("unlock", f, w, {})
           c == Task("unlock", f, Opponent(w), {})
           d == Task("update", f, w, cache'.rating[w])
           r == IF IsWager(f) THEN <<a>> ELSE <<>>
           s == <<b, c, d>>
<1>1. WinTasks(f, w) = r \o s BY DEF WinTasks
<1>2. "settle" \in Ops /\ "unlock" \in Ops /\ "update" \in Ops BY DEF Ops
<1>3. Opponent(w) \in Players BY Opponents
<1>4. a \in TaskR /\ a.op = "settle" /\ a.who = w BY <1>2, TaskTyped
<1>5. b \in TaskR /\ b.op = "unlock" /\ b.who = w BY <1>2, TaskTyped
<1>6. c \in TaskR /\ c.op = "unlock" /\ c.who = Opponent(w) BY <1>2, <1>3, TaskTyped
<1>7. d \in TaskR /\ d.op = "update" /\ d.fight = f /\ d.who = w /\ d.rating = cache'.rating[w]
  <2>1. d.rating = cache'.rating[w] BY DEF Task
  <2> QED BY <1>2, <2>1, TaskTyped
<1> HIDE DEF a, b, c, d
<1>8. Named(a) /\ Named(b) /\ Named(c) /\ Named(d) BY <1>3, <1>4, <1>5, <1>6, <1>7 DEF Named
<1>9. QueueT(s) /\ Tasks(s) = {b, c, d} BY <1>5, <1>6, <1>7, <1>8, QueueThree
<1>10. QueueT(r) /\ Tasks(r) \subseteq {a} BY <1>4, <1>8, QueueOne, QueueEmpty
<1>11. Len(s) = 3 /\ s[1] = b /\ s[2] = c /\ s[3] = d OBVIOUS
<1> HIDE DEF r, s
<1>12. ~Counting(a) /\ ~Counting(b) /\ ~Counting(c) /\ Counting(d) /\ Id(d) = <<"update", f, w>>
  BY <1>4, <1>5, <1>6, <1>7 DEF Counting, Id
<1>13. OnlyOnce(r) /\ Ids(r) = {} BY <1>10, <1>12, IdsNone
<1>14. ASSUME NEW i \in 1 .. Len(s), Counting(s[i]) PROVE i = 3
  <2>1. i = 1 \/ i = 2 \/ i = 3 BY <1>11
  <2> QED BY <1>11, <1>12, <1>14, <2>1
<1>15. OnlyOnce(s)
  <2>1. ASSUME NEW i \in 1 .. Len(s), NEW j \in 1 .. Len(s), Counting(s[i]), Id(s[i]) = Id(s[j])
        PROVE  i = j
    <3>1. Counting(s[j]) BY <2>1, SameId
    <3> QED BY <1>14, <2>1, <3>1
  <2> QED BY <2>1 DEF OnlyOnce
<1>16. Ids(s) = {Id(d)} BY <1>9, <1>12 DEF Ids
<1>17. OnlyOnce(r \o s) /\ Ids(r \o s) = {<<"update", f, w>>}
  BY <1>9, <1>10, <1>12, <1>13, <1>15, <1>16, IdsConcat
<1>18. QueueT(r \o s) /\ Tasks(r \o s) \subseteq {a, b, c, d} BY <1>9, <1>10, QueueConcat
<1>19. b \in Tasks(r \o s) /\ c \in Tasks(r \o s)
  <2>1. r \in Seq(TaskR) /\ s \in Seq(TaskR) BY <1>9, <1>10 DEF QueueT
  <2>0. /\ Len(r \o s) = Len(r) + Len(s)
        /\ \A i \in 1 .. Len(r) + Len(s) :
             (r \o s)[i] = IF i <= Len(r) THEN r[i] ELSE s[i - Len(r)]
    BY <2>1, ConcatProperties
  <2>2. /\ Len(r) \in Nat /\ Len(r \o s) = Len(r) + 3
        /\ \A i \in 1 .. Len(r) + 3 :
             (r \o s)[i] = IF i <= Len(r) THEN r[i] ELSE s[i - Len(r)]
    BY <1>11, <2>0, <2>1
  <2> DEFINE i == Len(r) + 1
             j == Len(r) + 2
  <2>3. i \in 1 .. Len(r) + 3 /\ ~(i <= Len(r)) /\ i - Len(r) = 1 BY <2>2
  <2>4. j \in 1 .. Len(r) + 3 /\ ~(j <= Len(r)) /\ j - Len(r) = 2 BY <2>2
  <2> HIDE DEF i, j
  <2>5. (r \o s)[i] = b /\ (r \o s)[j] = c BY <1>11, <2>2, <2>3, <2>4
  <2> QED BY <2>2, <2>3, <2>4, <2>5 DEF Tasks
<1>20. ASSUME NEW p \in Players PROVE p = w \/ p = Opponent(w)
  BY DEF Players, Opponent
<1>21. ASSUME NEW t \in Tasks(r \o s)
       PROVE  /\ t.op # "bundle" /\ t.op # "lock" /\ t.op # "cancel"
              /\ t.op = "update" => t.rating = cache'.rating[w]
  <2>1. t = a \/ t = b \/ t = c \/ t = d BY <1>18
  <2> QED BY <1>4, <1>5, <1>6, <1>7, <2>1
<1>22. ASSUME NEW p \in Players PROVE \E t \in Tasks(r \o s) : t.op = "unlock" /\ t.who = p
  BY <1>5, <1>6, <1>19, <1>20
<1> QED BY <1>1, <1>17, <1>18, <1>21, <1>22

LEMMA NextUpdateIds ==
  ASSUME RecordInv, NEW t \in Tasks(taskQueue), cache'.rating \in Ratings
  PROVE  /\ QueueT(NextUpdate(t)) /\ OnlyOnce(NextUpdate(t))
         /\ Ids(NextUpdate(t)) = IF t.op = "update" /\ t.who = fights[t.fight].winner
                                 THEN {<<"update", t.fight, Opponent(t.who)>>} ELSE {}
         /\ \A u \in Tasks(NextUpdate(t)) :
              u.op = "update" /\ u.rating = cache'.rating[Opponent(t.who)]
                              /\ t.op = "update" /\ u.who \in Players
<1>1. t \in TaskR /\ Named(t) /\ t.fight \in Fights BY Results
<1>2. CASE t.op = "update" /\ t.who = fights[t.fight].winner
  <2> DEFINE l == Opponent(t.who)
             u == Task("update", t.fight, l, cache'.rating[l])
  <2>1. NextUpdate(t) = <<u>> BY <1>2 DEF NextUpdate
  <2>2. l \in Players BY <1>1, <1>2, Opponents DEF Named
  <2>3. cache'.rating[l] \in SUBSET Fights BY <2>2 DEF Ratings
  <2>4. "update" \in Ops BY DEF Ops
  <2>5. u \in TaskR /\ u.op = "update" /\ u.fight = t.fight /\ u.who = l
    BY <1>1, <2>2, <2>3, <2>4, TaskTyped
  <2>6. u.rating = cache'.rating[l] BY DEF Task
  <2> HIDE DEF u
  <2>7. Named(u) /\ Counting(u) /\ Id(u) = <<"update", t.fight, l>>
    BY <2>2, <2>5 DEF Named, Counting, Id
  <2>8. QueueT(<<u>>) /\ Tasks(<<u>>) = {u} BY <2>5, <2>7, QueueOne
  <2>9. OnlyOnce(<<u>>) /\ Ids(<<u>>) = {Id(u)} BY <2>5, <2>7, IdsSingle
  <2> HIDE DEF l
  <2> QED BY <1>2, <2>1, <2>2, <2>5, <2>6, <2>7, <2>8, <2>9 DEF l
<1>3. CASE ~(t.op = "update" /\ t.who = fights[t.fight].winner)
  <2>1. NextUpdate(t) = <<>> BY <1>3 DEF NextUpdate
  <2>2. QueueT(<<>>) /\ Tasks(<<>>) = {} BY QueueEmpty
  <2>3. OnlyOnce(<<>>) /\ Ids(<<>>) = {} BY <2>2, IdsNone
  <2> QED BY <1>3, <2>1, <2>2, <2>3
<1> QED BY <1>2, <1>3

(***************************************************************************)
(* What an attempt does                                                    *)
(***************************************************************************)
\* t is the transaction that counts fight g for p.
Mine(t, p, g) == Counting(t) /\ Id(t) = ResultId(g, p)

LEMMA MineIs ==
  ASSUME RecordInv, NEW t \in Tasks(taskQueue), BothI(t), NEW p \in Players, NEW g \in Fights
  PROVE  Mine(t, p, g) <=> g = t.fight /\ (t.op = "bundle" \/ (t.op = "update" /\ p = t.who))
<1>1. t.op = "bundle" => Drawn(t.fight) /\ t.who = None BY Results DEF BothI
<1>2. t.op = "update" => Decided(t.fight) /\ t.fight \in Fights BY Results
<1>3. t.op = "update" => ~Drawn(t.fight) BY <1>2, Results
<1>4. CASE t.op = "bundle"
  <2>1. Mine(t, p, g) <=> Id(t) = ResultId(g, p) BY <1>4 DEF Mine, Counting
  <2>2. Id(t) = <<"bundle", t.fight, None>> BY <1>1, <1>4 DEF Id
  <2>3. CASE Drawn(g)
    <3>1. ResultId(g, p) = <<"bundle", g, None>> BY <2>3, ResultIds
    <3> QED BY <1>4, <2>1, <2>2, <3>1
  <2>4. CASE ~Drawn(g)
    <3>1. ResultId(g, p) = <<"update", g, p>> BY <2>4, ResultIds
    <3>2. g # t.fight BY <1>1, <1>4, <2>4
    <3> QED BY <2>1, <2>2, <3>1, <3>2
  <2> QED BY <2>3, <2>4
<1>5. CASE t.op = "update"
  <2>1. Mine(t, p, g) <=> Id(t) = ResultId(g, p) BY <1>5 DEF Mine, Counting
  <2>2. Id(t) = <<"update", t.fight, t.who>> BY <1>5 DEF Id
  <2>3. CASE Drawn(g)
    <3>1. ResultId(g, p) = <<"bundle", g, None>> BY <2>3, ResultIds
    <3>2. g # t.fight BY <1>3, <1>5, <2>3
    <3> QED BY <2>1, <2>2, <3>1, <3>2
  <2>4. CASE ~Drawn(g)
    <3>1. ResultId(g, p) = <<"update", g, p>> BY <2>4, ResultIds
    <3> QED BY <1>5, <2>1, <2>2, <3>1
  <2> QED BY <2>3, <2>4
<1>6. CASE t.op \notin {"bundle", "update"} BY <1>6 DEF Mine, Counting
<1> QED BY <1>4, <1>5, <1>6

\* Ratings and locks after a transaction.
LEMMA ExecuteMore ==
  ASSUME Shapes, ChainRest, NEW t \in TaskR, Named(t), NEW p \in Players
  PROVE  /\ Executed(t).rating[p] = IF t.op = "update" /\ p = t.who THEN t.rating
                                    ELSE chain.rating[p]
         /\ p \in Executed(t).locked <=>
              CASE t.op = "lock" /\ t.who = p -> TRUE
                [] t.op = "bundle" \/ (t.op = "unlock" /\ t.who = p) -> FALSE
                [] OTHER -> p \in chain.locked
<1>1. /\ DOMAIN chain = ChainFields /\ chain.rating \in Ratings
  BY DEF Shapes, ChainRest
<1>2. t.op \in Ops /\ (t.op = "update" => t.who \in Players) BY DEF TaskR, Named
<1>3. CASE t.op \in {"lock", "unlock", "settle", "cancel"}
  <2>1. /\ t.op = "lock" => Executed(t) = [chain EXCEPT !.locked = @ \cup {t.who}]
        /\ t.op = "unlock" => Executed(t) = [chain EXCEPT !.locked = @ \ {t.who}]
        /\ t.op = "settle" => Executed(t) = [chain EXCEPT !.wager[t.fight] = t.who]
        /\ t.op = "cancel" => Executed(t) = [chain EXCEPT !.wager[t.fight] = "split"]
    BY <1>3 DEF Executed
  <2>2. /\ Executed(t).rating = chain.rating
        /\ t.op = "lock" => Executed(t).locked = chain.locked \cup {t.who}
        /\ t.op = "unlock" => Executed(t).locked = chain.locked \ {t.who}
        /\ t.op \in {"settle", "cancel"} => Executed(t).locked = chain.locked
    BY <1>1, <1>3, <2>1 DEF ChainFields
  <2> QED BY <1>3, <2>2
<1>4. CASE t.op = "update"
  <2> DEFINE s == [chain.rating EXCEPT ![t.who] = t.rating]
  <2>1. Executed(t) = [chain EXCEPT !.record[t.who][t.fight] = @ + 1, !.rating[t.who] = t.rating]
    BY <1>4 DEF Executed
  <2>2. Executed(t).rating = s /\ Executed(t).locked = chain.locked
    BY <1>1, <2>1 DEF ChainFields
  <2>3. s[p] = IF p = t.who THEN t.rating ELSE chain.rating[p] BY <1>1, <1>2, <1>4 DEF Ratings
  <2> QED BY <1>4, <2>2, <2>3
<1>5. CASE t.op = "bundle"
  <2>1. Executed(t) = [chain EXCEPT !.wager[t.fight] = IF IsWager(t.fight) THEN "tie" ELSE @,
                                    !.record[PlayerA][t.fight] = @ + 1,
                                    !.record[PlayerB][t.fight] = @ + 1,
                                    !.locked = @ \ Players]
    BY <1>5 DEF Executed
  <2>2. Executed(t).rating = chain.rating /\ Executed(t).locked = chain.locked \ Players
    BY <1>1, <2>1 DEF ChainFields
  <2> QED BY <1>5, <2>2
<1> QED BY <1>2, <1>3, <1>4, <1>5 DEF Ops

\* An attempt at t: whether the transaction landed, whether it was seen to, and
\* whether the task is over.
Attempt(t, landed, good, gone) ==
  /\ \A p \in Players, g \in Fights :
       /\ chain'.record[p][g] = IF landed /\ Mine(t, p, g) THEN chain.record[p][g] + 1
                                ELSE chain.record[p][g]
       /\ cache'.record[p][g] = cache.record[p][g] \/ cache'.record[p][g] = chain'.record[p][g]
       /\ good /\ Mine(t, p, g) => cache'.record[p][g] = chain'.record[p][g]
  /\ \A p \in Players :
       /\ chain'.rating[p] = IF landed /\ t.op = "update" /\ p = t.who THEN t.rating
                             ELSE chain.rating[p]
       /\ cache'.rating[p] = IF good /\ t.op = "update" /\ p = t.who THEN t.rating
                             ELSE cache.rating[p]
       /\ p \in chain'.locked <=>
              CASE landed /\ t.op = "lock" /\ t.who = p -> TRUE
                [] landed /\ (t.op = "bundle" \/ (t.op = "unlock" /\ t.who = p)) -> FALSE
                [] OTHER -> p \in chain.locked
  /\ good => landed /\ gone /\ seen'.lost = seen.lost /\ seen'.failed = seen.failed
  /\ ~good => /\ seen'.lost = seen.lost \cup IF landed /\ Counting(t) THEN {Id(t)} ELSE {}
              /\ seen'.failed = seen.failed \cup IF gone THEN {Id(t)} ELSE {}
  /\ taskQueue' = IF gone THEN Tail(taskQueue) \o NextUpdate(t) ELSE taskQueue
  /\ UNCHANGED fights
  /\ seen'.crashes = seen.crashes /\ seen'.overlap = seen.overlap

LEMMA Landing ==
  ASSUME RecordInv, NEW t \in Tasks(taskQueue), BothI(t), NEW landed \in BOOLEAN,
         chain' = IF landed THEN Executed(t) ELSE chain
  PROVE  /\ \A p \in Players, g \in Fights :
              chain'.record[p][g] = IF landed /\ Mine(t, p, g) THEN chain.record[p][g] + 1
                                    ELSE chain.record[p][g]
         /\ \A p \in Players :
              /\ chain'.rating[p] = IF landed /\ t.op = "update" /\ p = t.who THEN t.rating
                                    ELSE chain.rating[p]
              /\ p \in chain'.locked <=>
                   CASE landed /\ t.op = "lock" /\ t.who = p -> TRUE
                     [] landed /\ (t.op = "bundle" \/ (t.op = "unlock" /\ t.who = p)) -> FALSE
                     [] OTHER -> p \in chain.locked
<1>1. CASE ~landed
  <2>1. chain' = chain BY <1>1
  <2> QED BY <1>1, <2>1
<1>2. CASE landed
  <2>1. chain' = Executed(t) BY <1>2
  <2>2. Shapes /\ ChainRest /\ t \in TaskR /\ Named(t)
    BY Results DEF RecordInv, SettleInv, Rest
  <2>3. ASSUME NEW p \in Players, NEW g \in Fights
        PROVE  chain'.record[p][g] = IF Mine(t, p, g) THEN chain.record[p][g] + 1
                                     ELSE chain.record[p][g]
    <3>1. Executed(t).record[p][g] =
            IF g = t.fight /\ (t.op = "bundle" \/ (t.op = "update" /\ p = t.who))
            THEN chain.record[p][g] + 1 ELSE chain.record[p][g]
      BY <2>2, ExecuteRest
    <3> QED BY <2>1, <3>1, MineIs
  <2>4. ASSUME NEW p \in Players
        PROVE  /\ chain'.rating[p] = IF t.op = "update" /\ p = t.who THEN t.rating
                                     ELSE chain.rating[p]
               /\ p \in chain'.locked <=>
                    CASE t.op = "lock" /\ t.who = p -> TRUE
                      [] t.op = "bundle" \/ (t.op = "unlock" /\ t.who = p) -> FALSE
                      [] OTHER -> p \in chain.locked
    BY <2>1, <2>2, ExecuteMore
  <2> QED BY <1>2, <2>3, <2>4
<1> QED BY <1>1, <1>2

\* What the server makes of an answer.
LEMMA Copies ==
  ASSUME RecordInv, NEW t \in Tasks(taskQueue), BothI(t), Resolve(t),
         NEW p \in Players, NEW g \in Fights
  PROVE  /\ cache'.record[p][g] = cache.record[p][g] \/ cache'.record[p][g] = chain'.record[p][g]
         /\ Mine(t, p, g) => cache'.record[p][g] = chain'.record[p][g]
         /\ cache'.rating[p] = IF t.op = "update" /\ p = t.who THEN t.rating ELSE cache.rating[p]
<1>1. /\ DOMAIN cache = {"record", "rating"} /\ cache.record \in Records
      /\ cache.rating \in Ratings
  BY DEF RecordInv, Rest, SettleInv, Shapes, Ratings
<1>2. /\ t.op = "bundle" => Drawn(t.fight)
      /\ t.op = "update" => ~Drawn(t.fight) /\ t.who \in Players
  BY Results
<1>3. ASSUME NEW d \in BOOLEAN
      PROVE  Mirrored(p, d)[g] = IF Drawn(g) = d THEN chain'.record[p][g] ELSE cache.record[p][g]
  BY DEF Mirrored
<1>4. Mine(t, p, g) => g = t.fight /\ (t.op = "bundle" \/ (t.op = "update" /\ p = t.who))
  BY MineIs
<1>5. CASE t.op = "update"
  <2> DEFINE m == Mirrored(t.who, FALSE)
  <2>1. /\ cache'.record = [cache.record EXCEPT ![t.who] = m]
        /\ cache'.rating = [cache.rating EXCEPT ![t.who] = t.rating]
    BY <1>5 DEF Resolve
  <2> HIDE DEF m
  <2>2. cache'.rating[p] = IF p = t.who THEN t.rating ELSE cache.rating[p]
    BY <1>1, <1>2, <1>5, <2>1 DEF Ratings
  <2>3. CASE p = t.who
    <3>1. cache'.record[p] = m BY <1>1, <2>1, <2>3 DEF Records
    <3>2. m[g] = IF Drawn(g) = FALSE THEN chain'.record[p][g] ELSE cache.record[p][g]
      BY <1>3, <2>3 DEF m
    <3>3. Drawn(g) \in BOOLEAN BY DEF Drawn
    <3> QED BY <1>2, <1>4, <1>5, <2>2, <3>1, <3>2, <3>3
  <2>4. CASE p # t.who
    <3>1. cache'.record[p] = cache.record[p] BY <1>1, <2>1, <2>4 DEF Records
    <3> QED BY <1>4, <1>5, <2>2, <2>4, <3>1
  <2> QED BY <2>3, <2>4
<1>6. CASE t.op = "bundle"
  <2>1. cache' = [cache EXCEPT !.record = [q \in Players |-> Mirrored(q, TRUE)]]
    BY <1>6 DEF Resolve
  <2>2. cache'.record = [q \in Players |-> Mirrored(q, TRUE)] /\ cache'.rating = cache.rating
    BY <1>1, <2>1
  <2>3. cache'.record[p][g] = Mirrored(p, TRUE)[g] BY <2>2
  <2>4. cache'.record[p][g] = IF Drawn(g) = TRUE THEN chain'.record[p][g] ELSE cache.record[p][g]
    BY <1>3, <2>3
  <2>5. Drawn(g) \in BOOLEAN BY DEF Drawn
  <2> QED BY <1>2, <1>4, <1>6, <2>2, <2>4, <2>5
<1>7. CASE t.op \notin {"update", "bundle"}
  <2>1. cache' = cache BY <1>7 DEF Resolve
  <2> QED BY <1>4, <1>7, <2>1
<1> QED BY <1>5, <1>6, <1>7

LEMMA HeadTask ==
  ASSUME RecordInv, taskQueue # <<>>
  PROVE  Head(taskQueue) \in Tasks(taskQueue)
<1>1. QueueT(taskQueue) BY DEF RecordInv, SettleInv, Shapes
<1> QED BY <1>1, QueueTail

LEMMA SucceedsIs ==
  ASSUME RecordInv, \A t \in Tasks(taskQueue) : BothI(t), AttemptSucceeds
  PROVE  taskQueue # <<>> /\ Attempt(Head(taskQueue), TRUE, TRUE, TRUE)
<1> DEFINE t == Head(taskQueue)
<1>1. /\ taskQueue # <<>> /\ chain' = Executed(t) /\ Resolve(t)
      /\ UNCHANGED fights /\ UNCHANGED seen
  BY DEF AttemptSucceeds
<1>2. t \in Tasks(taskQueue) /\ BothI(t) BY <1>1, HeadTask
<1>3. taskQueue' = Tail(taskQueue) \o NextUpdate(t) BY <1>1 DEF Resolve, Dequeue
<1> HIDE DEF t
<1>4. chain' = IF TRUE THEN Executed(t) ELSE chain BY <1>1
<1>5. /\ \A p \in Players, g \in Fights :
           chain'.record[p][g] = IF TRUE /\ Mine(t, p, g) THEN chain.record[p][g] + 1
                                 ELSE chain.record[p][g]
      /\ \A p \in Players :
           /\ chain'.rating[p] = IF TRUE /\ t.op = "update" /\ p = t.who THEN t.rating
                                 ELSE chain.rating[p]
           /\ p \in chain'.locked <=>
                CASE TRUE /\ t.op = "lock" /\ t.who = p -> TRUE
                  [] TRUE /\ (t.op = "bundle" \/ (t.op = "unlock" /\ t.who = p)) -> FALSE
                  [] OTHER -> p \in chain.locked
  <2>1. TRUE \in BOOLEAN OBVIOUS
  <2> HIDE DEF Mine
  <2> QED BY <1>2, <1>4, <2>1, Landing
<1>6. \A p \in Players, g \in Fights :
        /\ cache'.record[p][g] = cache.record[p][g] \/ cache'.record[p][g] = chain'.record[p][g]
        /\ Mine(t, p, g) => cache'.record[p][g] = chain'.record[p][g]
        /\ cache'.rating[p] = IF t.op = "update" /\ p = t.who THEN t.rating ELSE cache.rating[p]
  BY <1>1, <1>2, Copies
<1>7. ASSUME NEW p \in Players
      PROVE  cache'.rating[p] = IF TRUE /\ t.op = "update" /\ p = t.who THEN t.rating
                                ELSE cache.rating[p]
  <2>1. CASE t.op = "update"
    <3>1. t.fight \in Fights BY <1>2, Results
    <3> QED BY <1>6, <3>1
  <2>2. CASE t.op # "update"
    <3>1. \/ UNCHANGED cache
          \/ cache' = [cache EXCEPT !.record = [q \in Players |-> Mirrored(q, TRUE)]]
      BY <1>1, <2>2 DEF Resolve
    <3>2. DOMAIN cache = {"record", "rating"} BY DEF RecordInv, SettleInv, Shapes
    <3>3. cache'.rating = cache.rating BY <3>1, <3>2
    <3> QED BY <2>2, <3>3
  <2> QED BY <2>1, <2>2
<1>8. Attempt(t, TRUE, TRUE, TRUE) BY <1>1, <1>3, <1>5, <1>6, <1>7 DEF Attempt
<1> QED BY <1>1, <1>8 DEF t

LEMMA FailsIs ==
  ASSUME RecordInv, \A t \in Tasks(taskQueue) : BothI(t), AttemptFails
  PROVE  taskQueue # <<>>
         /\ \E landed \in BOOLEAN, gone \in BOOLEAN : Attempt(Head(taskQueue), landed, FALSE, gone)
<1> DEFINE t == Head(taskQueue)
           id == <<t.op, t.fight, t.who>>
           gone == LastAttempt
<1>1. /\ taskQueue # <<>> /\ UNCHANGED fights
      /\ IF gone THEN Reject(t)
         ELSE attempt' = attempt + 1 /\ UNCHANGED <<taskQueue, cache, db, told>>
  BY DEF AttemptFails
<1>2. PICK landed \in IF CanExecute(t) THEN BOOLEAN ELSE {FALSE} :
        /\ chain' = IF landed THEN Executed(t) ELSE chain
        /\ seen' = [seen EXCEPT !.lost = IF landed /\ t.op \in {"update", "bundle"}
                                         THEN @ \cup {id} ELSE @,
                                !.failed = IF gone THEN @ \cup {id} ELSE @,
                                !.faults = IF CanExecute(t) /\ attempt = 0 THEN @ + 1 ELSE @]
  BY DEF AttemptFails
<1>3. landed \in BOOLEAN BY <1>2
<1>4. gone \in BOOLEAN BY DEF LastAttempt
<1>5. t \in Tasks(taskQueue) /\ BothI(t) BY <1>1, HeadTask
<1>6. id = Id(t) /\ (t.op \in {"update", "bundle"} <=> Counting(t)) BY DEF Id, Counting
<1>7. taskQueue' = (IF gone THEN Tail(taskQueue) \o NextUpdate(t) ELSE taskQueue)
      /\ UNCHANGED cache
  BY <1>1 DEF Reject, Dequeue
<1> HIDE DEF t, id, gone
<1>8. /\ seen'.lost = seen.lost \cup (IF landed /\ Counting(t) THEN {Id(t)} ELSE {})
      /\ seen'.failed = seen.failed \cup (IF gone THEN {Id(t)} ELSE {})
      /\ seen'.crashes = seen.crashes /\ seen'.overlap = seen.overlap
  <2>1. DOMAIN seen = SeenFields BY DEF RecordInv, SettleInv, Shapes
  <2>2. /\ seen'.lost = (IF landed /\ t.op \in {"update", "bundle"} THEN seen.lost \cup {id}
                         ELSE seen.lost)
        /\ seen'.failed = (IF gone THEN seen.failed \cup {id} ELSE seen.failed)
        /\ seen'.crashes = seen.crashes /\ seen'.overlap = seen.overlap
    BY <1>2, <2>1 DEF SeenFields
  <2> QED BY <1>6, <2>2
<1>9. /\ \A p \in Players, g \in Fights :
           chain'.record[p][g] = IF landed /\ Mine(t, p, g) THEN chain.record[p][g] + 1
                                 ELSE chain.record[p][g]
      /\ \A p \in Players :
           /\ chain'.rating[p] = IF landed /\ t.op = "update" /\ p = t.who THEN t.rating
                                 ELSE chain.rating[p]
           /\ p \in chain'.locked <=>
                CASE landed /\ t.op = "lock" /\ t.who = p -> TRUE
                  [] landed /\ (t.op = "bundle" \/ (t.op = "unlock" /\ t.who = p)) -> FALSE
                  [] OTHER -> p \in chain.locked
  BY <1>2, <1>3, <1>5, Landing
<1>10. Attempt(t, landed, FALSE, gone) BY <1>1, <1>7, <1>8, <1>9 DEF Attempt
<1> QED BY <1>1, <1>3, <1>4, <1>10 DEF t

LEMMA StallsIs ==
  ASSUME RecordInv, \A t \in Tasks(taskQueue) : BothI(t), AttemptStalls
  PROVE  taskQueue # <<>>
         /\ \E landed \in BOOLEAN : Attempt(Head(taskQueue), landed, FALSE, FALSE)
<1> DEFINE t == Head(taskQueue)
           id == <<t.op, t.fight, t.who>>
<1>1. /\ taskQueue # <<>> /\ UNCHANGED fights /\ UNCHANGED taskQueue /\ UNCHANGED cache
  BY DEF AttemptStalls
<1>2. PICK landed \in IF CanExecute(t) THEN BOOLEAN ELSE {FALSE} :
        /\ chain' = IF landed THEN Executed(t) ELSE chain
        /\ seen' = [seen EXCEPT !.lost = IF landed /\ t.op \in {"update", "bundle"}
                                         THEN @ \cup {id} ELSE @,
                                !.faults = @ + 1]
  BY DEF AttemptStalls
<1>3. landed \in BOOLEAN BY <1>2
<1>4. t \in Tasks(taskQueue) /\ BothI(t) BY <1>1, HeadTask
<1>5. id = Id(t) /\ (t.op \in {"update", "bundle"} <=> Counting(t)) BY DEF Id, Counting
<1> HIDE DEF t, id
<1>6. /\ seen'.lost = seen.lost \cup (IF landed /\ Counting(t) THEN {Id(t)} ELSE {})
      /\ seen'.failed = seen.failed
      /\ seen'.crashes = seen.crashes /\ seen'.overlap = seen.overlap
  <2>1. DOMAIN seen = SeenFields BY DEF RecordInv, SettleInv, Shapes
  <2>2. /\ seen'.lost = (IF landed /\ t.op \in {"update", "bundle"} THEN seen.lost \cup {id}
                         ELSE seen.lost)
        /\ seen'.failed = seen.failed
        /\ seen'.crashes = seen.crashes /\ seen'.overlap = seen.overlap
    BY <1>2, <2>1 DEF SeenFields
  <2> QED BY <1>5, <2>2
<1>7. /\ \A p \in Players, g \in Fights :
           chain'.record[p][g] = IF landed /\ Mine(t, p, g) THEN chain.record[p][g] + 1
                                 ELSE chain.record[p][g]
      /\ \A p \in Players :
           /\ chain'.rating[p] = IF landed /\ t.op = "update" /\ p = t.who THEN t.rating
                                 ELSE chain.rating[p]
           /\ p \in chain'.locked <=>
                CASE landed /\ t.op = "lock" /\ t.who = p -> TRUE
                  [] landed /\ (t.op = "bundle" \/ (t.op = "unlock" /\ t.who = p)) -> FALSE
                  [] OTHER -> p \in chain.locked
  BY <1>2, <1>3, <1>4, Landing
<1>8. Attempt(t, landed, FALSE, FALSE) BY <1>1, <1>6, <1>7 DEF Attempt
<1> QED BY <1>1, <1>3, <1>8 DEF t

(***************************************************************************)
(* The counts after an attempt                                             *)
(***************************************************************************)
LEMMA TwoPlayers ==
  ASSUME NEW w \in Players, NEW p \in Players
  PROVE  /\ p = w \/ p = Opponent(w)
         /\ Opponent(w) # w /\ Opponent(Opponent(w)) = w
BY Given DEF Players, Opponent

\* The queue after a task is over: the identifier of the task is gone, and the
\* update of the loser follows that of the winner.
LEMMA QueueAfter ==
  ASSUME RecordInv, Counted, taskQueue # <<>>, cache'.rating \in Ratings,
         NEW t, t = Head(taskQueue), taskQueue' = Tail(taskQueue) \o NextUpdate(t)
  PROVE  /\ OnlyOnce(taskQueue')
         /\ \A u \in Tasks(taskQueue') :
              u \in Tasks(Tail(taskQueue)) \/ u \in Tasks(NextUpdate(t))
         /\ Ids(taskQueue') = (IF Counting(t) THEN Ids(taskQueue) \ {Id(t)} ELSE Ids(taskQueue))
                                \cup Ids(NextUpdate(t))
<1> DEFINE q == Tail(taskQueue)
           r == NextUpdate(t)
<1>1. QueueT(taskQueue) /\ OnlyOnce(taskQueue) BY DEF RecordInv, SettleInv, Shapes, Counted
<1>2. t \in Tasks(taskQueue) BY HeadTask
<1>3. QueueT(q) BY <1>1, QueueTail
<1>4. /\ OnlyOnce(q)
      /\ Ids(q) = IF Counting(t) THEN Ids(taskQueue) \ {Id(t)} ELSE Ids(taskQueue)
  BY <1>1, IdsTail
<1>5. /\ QueueT(r) /\ OnlyOnce(r)
      /\ Ids(r) = IF t.op = "update" /\ t.who = fights[t.fight].winner
                  THEN {<<"update", t.fight, Opponent(t.who)>>} ELSE {}
  BY <1>2, NextUpdateIds
<1>6. t.op = "update" => /\ t.fight \in Fights /\ t.who \in Players /\ Decided(t.fight)
                         /\ ~Drawn(t.fight)
  BY <1>2, Results
\* The update of the loser is not in the queue yet.
<1>7. Ids(q) \cap Ids(r) = {}
  <2>1. ASSUME t.op = "update" PROVE <<"update", t.fight, Opponent(t.who)>> \notin Ids(taskQueue)
    <3>1. CountI(t.fight, t.who) BY <1>6, <2>1 DEF Counted
    <3>2. /\ ResultId(t.fight, t.who) = <<"update", t.fight, t.who>>
          /\ ResultId(t.fight, Opponent(t.who)) = <<"update", t.fight, Opponent(t.who)>>
      BY <1>6, <2>1, ResultIds
    <3>3. Id(t) = <<"update", t.fight, t.who>> /\ Counting(t) BY <2>1 DEF Id, Counting
    <3>4. Id(t) \in Ids(taskQueue) BY <1>2, <3>3 DEF Ids
    <3> QED BY <1>6, <2>1, <3>1, <3>2, <3>3, <3>4 DEF CountI
  <2>2. Ids(q) \subseteq Ids(taskQueue) BY <1>4
  <2> QED BY <1>5, <2>1, <2>2
<1> HIDE DEF q, r
<1>8. OnlyOnce(q \o r) /\ Ids(q \o r) = Ids(q) \cup Ids(r) BY <1>3, <1>4, <1>5, <1>7, IdsConcat
<1>9. Tasks(q \o r) \subseteq Tasks(q) \cup Tasks(r) BY <1>3, <1>5, QueueConcat
<1>10. taskQueue' = q \o r BY DEF q, r
<1> QED BY <1>4, <1>8, <1>9, <1>10 DEF q, r

\* What is outstanding after the task is over: all that was, but its own.
LEMMA OutstandingAfter ==
  ASSUME RecordInv, Counted, taskQueue # <<>>, UNCHANGED fights, cache'.rating \in Ratings,
         NEW t, t = Head(taskQueue), taskQueue' = Tail(taskQueue) \o NextUpdate(t),
         NEW p \in Players, NEW g \in Fights, Over(g)
  PROVE  /\ Outstanding(g, p)' <=> Outstanding(g, p) /\ ~Mine(t, p, g)
         /\ Mine(t, p, g) => Outstanding(g, p)
         /\ Decided(g) => \/ ResultId(g, p)' \notin Ids(taskQueue')
                          \/ ResultId(g, Opponent(p))' \notin Ids(taskQueue')
<1> DEFINE I == Ids(taskQueue)
           J == Ids(taskQueue')
           w == fights[g].winner
<1>1. t \in Tasks(taskQueue) BY HeadTask
<1>2. J = (IF Counting(t) THEN I \ {Id(t)} ELSE I) \cup Ids(NextUpdate(t))
  BY QueueAfter
<1>3. Ids(NextUpdate(t)) = IF t.op = "update" /\ t.who = fights[t.fight].winner
                           THEN {<<"update", t.fight, Opponent(t.who)>>} ELSE {}
  BY <1>1, NextUpdateIds
<1>4. \A o : ResultId(g, o)' = ResultId(g, o) BY DEF ResultId, Drawn
<1>5. Outstanding(g, p)' <=> ResultId(g, p) \in J \/ ResultId(g, w) \in J
  BY <1>4 DEF Outstanding
<1>6. Outstanding(g, p) <=> ResultId(g, p) \in I \/ ResultId(g, w) \in I BY DEF Outstanding
<1>7. BothI(t) BY <1>1 DEF Counted
<1>8. Counting(t) => Id(t) \in I BY <1>1 DEF Ids
<1>9. Mine(t, p, g) => Outstanding(g, p) BY <1>6, <1>8 DEF Mine
<1>10. /\ t.op = "update" => t.fight \in Fights /\ t.who \in Players /\ ~Drawn(t.fight)
       /\ t.op = "bundle" => Drawn(t.fight)
  BY <1>1, Results
<1>11. CASE Drawn(g)
  <2>1. \A o : ResultId(g, o) = <<"bundle", g, None>> BY <1>11, ResultIds
  <2>2. <<"bundle", g, None>> \in J <=> <<"bundle", g, None>> \in I /\ ~Mine(t, p, g)
    <3> DEFINE b == <<"bundle", g, None>>
    <3>1. b \notin Ids(NextUpdate(t)) BY <1>3
    <3>2. Mine(t, p, g) <=> Counting(t) /\ Id(t) = b BY <2>1 DEF Mine
    <3> HIDE DEF b, I, J
    <3> QED BY <1>2, <3>1, <3>2 DEF b, I
  <2>3. ~Decided(g) BY <1>11, Results
  <2> QED BY <1>5, <1>6, <1>9, <2>1, <2>2, <2>3
<1>12. CASE Decided(g)
  <2>1. ~Drawn(g) /\ w \in Players BY <1>12, Results DEF Decided
  <2>2. \A o : ResultId(g, o) = <<"update", g, o>> BY <2>1, ResultIds
  <2>3. Opponent(w) \in Players /\ Opponent(w) # w /\ Opponent(Opponent(w)) = w
        /\ (p = w \/ p = Opponent(w))
    BY <2>1, TwoPlayers, Opponents
  <2> DEFINE x == <<"update", g, w>>
             y == <<"update", g, Opponent(w)>>
  <2>4. x # y BY <2>3
  <2>5. x \notin I \/ y \notin I
    <3>1. CountI(g, w) BY <2>1 DEF Counted
    <3> QED BY <1>12, <2>2, <3>1 DEF CountI
  <2>6. Outstanding(g, p) <=> <<"update", g, p>> \in I \/ x \in I BY <1>6, <2>2
  <2>7. Outstanding(g, p)' <=> <<"update", g, p>> \in J \/ x \in J BY <1>5, <2>2
  <2>8. CASE t.op = "update" /\ t.fight = g /\ t.who = w
    <3>1. Id(t) = x /\ Counting(t) BY <2>8 DEF Id, Counting
    <3>2. J = (I \ {x}) \cup {y} BY <1>2, <1>3, <2>8, <3>1
    <3>3. x \in I BY <1>8, <3>1
    <3>4. x \notin J /\ y \in J BY <2>4, <3>2
    <3>5. Mine(t, p, g) <=> p = w BY <2>2, <3>1 DEF Mine
    <3> QED BY <1>4, <1>9, <2>2, <2>3, <2>6, <2>7, <3>3, <3>4, <3>5
  <2>9. CASE t.op = "update" /\ t.fight = g /\ t.who # w
    <3>1. t.who = Opponent(w) BY <1>10, <2>1, <2>9, TwoPlayers
    <3>2. Id(t) = y /\ Counting(t) BY <2>9, <3>1 DEF Id, Counting
    <3>3. J = I \ {y} BY <1>2, <1>3, <2>9, <3>2
    <3>4. x \notin I BY <1>8, <2>5, <3>2
    <3>5. Mine(t, p, g) <=> p = Opponent(w) BY <2>2, <3>2 DEF Mine
    <3> QED BY <1>4, <1>9, <2>2, <2>3, <2>6, <2>7, <3>3, <3>4, <3>5
  <2>10. CASE ~(t.op = "update" /\ t.fight = g)
    <3>1. \A o : <<"update", g, o>> # Id(t) BY <2>10 DEF Id
    <3>2. \A o : <<"update", g, o>> \notin Ids(NextUpdate(t)) BY <1>3, <2>10
    <3>3. \A o : <<"update", g, o>> \in J <=> <<"update", g, o>> \in I BY <1>2, <3>1, <3>2
    <3>4. ~Mine(t, p, g) BY <2>2, <3>1 DEF Mine
    <3>5. Opponent(p) \in Players BY Opponents
    <3>6. <<"update", g, p>> \notin I \/ <<"update", g, Opponent(p)>> \notin I
      BY <2>3, <2>5
    <3> QED BY <1>4, <1>9, <2>2, <2>6, <2>7, <3>3, <3>4, <3>6
  <2> QED BY <2>8, <2>9, <2>10
<1> QED BY <1>11, <1>12, Results

LEMMA AttemptCounts ==
  ASSUME RecordInv, RecordInv', Counted, taskQueue # <<>>, NEW t, t = Head(taskQueue),
         NEW landed \in BOOLEAN, NEW good \in BOOLEAN, NEW gone \in BOOLEAN,
         Attempt(t, landed, good, gone)
  PROVE  Counted'
<1>1. /\ good => landed /\ gone /\ seen'.lost = seen.lost /\ seen'.failed = seen.failed
      /\ ~good => /\ seen'.lost = seen.lost \cup IF landed /\ Counting(t) THEN {Id(t)} ELSE {}
                  /\ seen'.failed = seen.failed \cup IF gone THEN {Id(t)} ELSE {}
      /\ UNCHANGED fights
      /\ gone => taskQueue' = Tail(taskQueue) \o NextUpdate(t)
      /\ ~gone => UNCHANGED taskQueue
  BY DEF Attempt
<1>2. cache'.rating \in Ratings BY DEF RecordInv, SettleInv, Shapes, Ratings
<1>3. t \in Tasks(taskQueue) /\ BothI(t) BY HeadTask DEF Counted
<1>4. OnlyOnce(taskQueue)' /\ \A u \in Tasks(taskQueue)' : BothI(u)'
  <2>1. CASE gone
    <3>1. /\ OnlyOnce(taskQueue')
          /\ \A u \in Tasks(taskQueue') : u \in Tasks(Tail(taskQueue)) \/ u \in Tasks(NextUpdate(t))
      BY <1>1, <1>2, <2>1, QueueAfter
    <3>2. \A u \in Tasks(NextUpdate(t)) : u.op = "update" BY <1>2, <1>3, NextUpdateIds
    <3>3. Tasks(Tail(taskQueue)) \subseteq Tasks(taskQueue)
      BY QueueTail DEF RecordInv, SettleInv, Shapes
    <3> QED BY <3>1, <3>2, <3>3 DEF Counted, BothI
  <2>2. CASE ~gone BY <1>1, <2>2 DEF Counted, BothI
  <2> QED BY <2>1, <2>2
<1>5. ASSUME NEW f \in Fights, NEW p \in Players PROVE CountI(f, p)'
  <2> DEFINE r == ResultId(f, p)
  <2>1. CountI(f, p) BY DEF Counted
  <2>2. /\ chain'.record[p][f] = IF landed /\ Mine(t, p, f) THEN chain.record[p][f] + 1
                                 ELSE chain.record[p][f]
        /\ cache'.record[p][f] = cache.record[p][f] \/ cache'.record[p][f] = chain'.record[p][f]
        /\ good /\ Mine(t, p, f) => cache'.record[p][f] = chain'.record[p][f]
    BY DEF Attempt
  <2>3. chain.record[p][f] \in Nat
    <3>1. chain.record \in Records BY DEF RecordInv, Rest, ChainRest
    <3> QED BY <3>1 DEF Records
  <2>4. (Over(f)' <=> Over(f)) /\ (Decided(f)' <=> Decided(f)) /\ r' = r
        /\ \A o : ResultId(f, o)' = ResultId(f, o)
    BY <1>1 DEF Over, Decided, ResultId, Drawn
  <2>5. CASE ~Over(f)
    <3>1. ~Counting(t) \/ t.fight # f
      BY <1>3, <2>5, Results DEF Counting
    <3>2. ~Mine(t, p, f)
      <4>1. Mine(t, p, f) => f = t.fight /\ Counting(t) BY <1>3, MineIs DEF Counting
      <4> QED BY <3>1, <4>1
    <3>3. <<"update", f, p>> # Id(t) /\ <<"bundle", f, None>> # Id(t)
      BY <3>1 DEF Id, Counting
    <3>4. Fresh(<<"update", f, p>>)' /\ Fresh(<<"bundle", f, None>>)'
      <4>1. Fresh(<<"update", f, p>>) /\ Fresh(<<"bundle", f, None>>)
        BY <2>1, <2>5 DEF CountI
      <4> QED BY <1>1, <3>3, <4>1 DEF Fresh
    <3>5. chain'.record[p][f] = 0 /\ cache'.record[p][f] = 0
      BY <2>1, <2>2, <2>5, <3>2 DEF CountI
    <3>6. ~Decided(f) BY <2>5, Results
    <3> QED BY <2>4, <2>5, <3>4, <3>5, <3>6 DEF CountI
  <2>6. CASE Over(f) /\ Mine(t, p, f)
    <3>1. r = Id(t) /\ Counting(t) BY <2>6 DEF Mine
    <3>2. Outstanding(f, p)
      <4>1. Id(t) \in Ids(taskQueue) BY <1>3, <3>1 DEF Ids
      <4> QED BY <3>1, <4>1 DEF Outstanding
    <3>3. r \notin seen.failed /\ (r \notin seen.lost => chain.record[p][f] = 0)
      BY <2>1, <2>6, <3>2 DEF CountI
    <3>4. CASE gone
      <4>1. /\ ~Outstanding(f, p)'
            /\ Decided(f) => \/ ResultId(f, p)' \notin Ids(taskQueue')
                             \/ ResultId(f, Opponent(p))' \notin Ids(taskQueue')
        BY <1>1, <1>2, <2>6, <3>4, OutstandingAfter
      <4>2. r \notin seen'.lost =>
              chain'.record[p][f] = IF r \in seen'.failed THEN 0 ELSE 1
        <5>1. CASE good BY <1>1, <2>2, <2>6, <3>3, <5>1
        <5>2. CASE ~good BY <1>1, <2>2, <2>6, <3>1, <3>3, <3>4, <5>2
        <5> QED BY <5>1, <5>2
      <4>3. r \notin seen'.failed =>
              chain'.record[p][f] >= 1 /\ cache'.record[p][f] = chain'.record[p][f]
        <5>1. CASE good BY <1>1, <2>2, <2>3, <2>6, <5>1
        <5>2. CASE ~good BY <1>1, <3>1, <3>4, <5>2
        <5> QED BY <5>1, <5>2
      <4> HIDE DEF r
      <4>4. r' = ResultId(f, p)' BY DEF r
      <4> QED BY <2>4, <2>6, <4>1, <4>2, <4>3, <4>4 DEF CountI
    <3>5. CASE ~gone
      <4>1. Outstanding(f, p)' <=> Outstanding(f, p)
        BY <1>1, <2>4, <3>5 DEF Outstanding
      <4>2. r \notin seen'.failed /\ (r \notin seen'.lost => chain'.record[p][f] = 0)
        BY <1>1, <2>2, <2>6, <3>1, <3>3, <3>5
      <4>3. Decided(f) => \/ ResultId(f, p)' \notin Ids(taskQueue')
                          \/ ResultId(f, Opponent(p))' \notin Ids(taskQueue')
        BY <1>1, <2>1, <2>4, <3>5 DEF CountI
      <4> HIDE DEF r
      <4>4. r' = ResultId(f, p)' BY DEF r
      <4> QED BY <2>4, <2>6, <3>2, <4>1, <4>2, <4>3, <4>4 DEF CountI
    <3> QED BY <3>4, <3>5
  <2>7. CASE Over(f) /\ ~Mine(t, p, f)
    <3>1. Outstanding(f, p)' <=> Outstanding(f, p)
      <4>1. CASE gone BY <1>1, <1>2, <2>7, <4>1, OutstandingAfter
      <4>2. CASE ~gone BY <1>1, <2>4, <4>2 DEF Outstanding
      <4> QED BY <4>1, <4>2
    <3>2. Decided(f) => \/ ResultId(f, p)' \notin Ids(taskQueue')
                        \/ ResultId(f, Opponent(p))' \notin Ids(taskQueue')
      <4>1. CASE gone BY <1>1, <1>2, <2>7, <4>1, OutstandingAfter
      <4>2. CASE ~gone BY <1>1, <2>1, <2>4, <4>2 DEF CountI
      <4> QED BY <4>1, <4>2
    <3>3. (r \in seen'.lost <=> r \in seen.lost) /\ (r \in seen'.failed <=> r \in seen.failed)
      <4>1. Id(t) # r
        <5>1. ~Counting(t) \/ Id(t) # r BY <2>7 DEF Mine
        <5>2. ~Counting(t) => Id(t) # r BY DEF Counting, Id, ResultId
        <5> QED BY <5>1, <5>2
      <4> HIDE DEF r
      <4> QED BY <1>1, <4>1
    <3>4. chain'.record[p][f] = chain.record[p][f]
          /\ (cache'.record[p][f] = cache.record[p][f]
              \/ cache'.record[p][f] = chain.record[p][f])
      BY <2>2, <2>7
    <3>5. /\ Outstanding(f, p) =>
               r \notin seen.failed /\ (r \notin seen.lost => chain.record[p][f] = 0)
          /\ ~Outstanding(f, p) =>
               /\ r \notin seen.lost => chain.record[p][f] = IF r \in seen.failed THEN 0 ELSE 1
               /\ r \notin seen.failed =>
                    chain.record[p][f] >= 1 /\ cache.record[p][f] = chain.record[p][f]
      BY <2>1, <2>7 DEF CountI
    <3> HIDE DEF r
    <3>6. r' = ResultId(f, p)' BY DEF r
    <3> QED BY <2>4, <2>7, <3>1, <3>2, <3>3, <3>4, <3>5, <3>6 DEF CountI
  <2> QED BY <2>5, <2>6, <2>7
<1> QED BY <1>4, <1>5 DEF Counted

(***************************************************************************)
(* Steps that count nothing                                                *)
(***************************************************************************)
\* No fight ends and no answer comes; tasks of the given kind may be sent.
Quiet(op) ==
  /\ \E r : /\ taskQueue' = taskQueue \o r /\ QueueT(r)
            /\ \A t \in Tasks(r) : t.op = op
  /\ \A f \in Fights : /\ fights'[f].winner = fights[f].winner
                       /\ Over(f)' <=> Over(f)
  /\ chain'.record = chain.record /\ chain'.rating = chain.rating
  /\ chain'.locked = chain.locked
  /\ UNCHANGED cache
  /\ seen'.lost = seen.lost /\ seen'.failed = seen.failed
  /\ seen'.overlap = seen.overlap /\ seen'.crashes = seen.crashes

\* Who is fighting.
SameFights == \A f \in Fights : fights'[f].stage = "fighting" <=> fights[f].stage = "fighting"

LEMMA NothingSent ==
  ASSUME RecordInv, UNCHANGED taskQueue, NEW op
  PROVE  \E r : /\ taskQueue' = taskQueue \o r /\ QueueT(r)
                /\ \A t \in Tasks(r) : t.op = op
<1>1. taskQueue \in Seq(TaskR) BY DEF RecordInv, SettleInv, Shapes, QueueT
<1>2. taskQueue' = taskQueue \o <<>> BY <1>1
<1> QED BY <1>2, QueueEmpty

LEMMA FightsQuiet ==
  ASSUME RecordInv, [Next]_vars, ~Crash,
         \A f \in Fights, w \in Players : ~FinishWon(f, w), \A f \in Fights : ~FinishDrawn(f),
         ~AttemptSucceeds, ~AttemptFails, ~AttemptStalls
  PROVE  IF \E f \in Fights : CreateFight(f) THEN Quiet("lock") ELSE Quiet("cancel") /\ SameFights
<1>1. /\ DOMAIN chain = ChainFields /\ DOMAIN seen = SeenFields /\ Shapes
  BY DEF RecordInv, SettleInv, Shapes
<1>2. ASSUME NEW f \in Fights, CreateFight(f) PROVE Quiet("lock")
  <2> DEFINE t == Task("lock", f, PlayerA, {})
             u == Task("lock", f, PlayerB, {})
  <2>1. /\ Stage(f, "fighting") /\ taskQueue' = taskQueue \o <<t, u>>
        /\ UNCHANGED chain /\ UNCHANGED cache /\ UNCHANGED seen
        /\ fights[f].stage \in {"accepted", "none"}
    BY <1>2 DEF CreateFight, Enqueue, IsNext
  <2>2. t \in TaskR /\ u \in TaskR /\ t.op = "lock" /\ u.op = "lock" /\ Named(t) /\ Named(u)
    <3>1. PlayerA \in Players /\ PlayerB \in Players /\ "lock" \in Ops BY DEF Players, Ops
    <3> QED BY <3>1, TaskTyped DEF Named
  <2> HIDE DEF t, u
  <2>3. QueueT(<<t, u>>) /\ Tasks(<<t, u>>) = {t, u} BY <2>2, QueueTwo
  <2>4. \E r : /\ taskQueue' = taskQueue \o r /\ QueueT(r)
               /\ \A v \in Tasks(r) : v.op = "lock"
    BY <2>1, <2>2, <2>3
  <2>5. \A g \in Fights : /\ fights'[g].winner = fights[g].winner
                          /\ fights'[g].stage = IF g = f THEN "fighting" ELSE fights[g].stage
    BY <1>1, <2>1, StageEffect
  <2> QED BY <2>1, <2>4, <2>5 DEF Quiet, Over
<1>3. ASSUME NEW f \in Fights, Approve(f) \/ Expire(f) PROVE Quiet("cancel") /\ SameFights
  <2>1. /\ UNCHANGED taskQueue /\ UNCHANGED fights /\ UNCHANGED cache
        /\ \E v : chain' = [chain EXCEPT !.wager[f] = v]
        /\ \/ UNCHANGED seen
           \/ seen' = [seen EXCEPT !.expired = @ \cup {f}, !.faults = @ + 1]
    BY <1>3 DEF Approve, Expire
  <2>2. /\ chain'.record = chain.record /\ chain'.rating = chain.rating
        /\ chain'.locked = chain.locked
    BY <1>1, <2>1 DEF ChainFields
  <2>3. /\ seen'.lost = seen.lost /\ seen'.failed = seen.failed
        /\ seen'.overlap = seen.overlap /\ seen'.crashes = seen.crashes
    BY <1>1, <2>1 DEF SeenFields
  <2>4. \E r : /\ taskQueue' = taskQueue \o r /\ QueueT(r)
               /\ \A t \in Tasks(r) : t.op = "cancel"
    BY <2>1, NothingSent
  <2> QED BY <2>1, <2>2, <2>3, <2>4 DEF Quiet, SameFights, Over
<1>4. ASSUME NEW f \in Fights, WagerAccepted(f) \/ AcceptGivesUp(f)
      PROVE  Quiet("cancel") /\ SameFights
  <2>1. PICK s \in {"accepted", "gone"} : Stage(f, s)
    BY <1>4 DEF WagerAccepted, AcceptGivesUp
  <2>2. /\ UNCHANGED taskQueue /\ UNCHANGED chain /\ UNCHANGED cache
        /\ \/ UNCHANGED seen
           \/ seen' = [seen EXCEPT !.interrupted = @ \cup {f}]
        /\ fights[f].stage \in {"none", "accepted"}
    BY <1>4 DEF WagerAccepted, AcceptGivesUp, IsNext
  <2>3. /\ seen'.lost = seen.lost /\ seen'.failed = seen.failed
        /\ seen'.overlap = seen.overlap /\ seen'.crashes = seen.crashes
    BY <1>1, <2>2 DEF SeenFields
  <2>4. \E r : /\ taskQueue' = taskQueue \o r /\ QueueT(r)
               /\ \A t \in Tasks(r) : t.op = "cancel"
    BY <2>2, NothingSent
  <2>5. \A g \in Fights : /\ fights'[g].winner = fights[g].winner
                          /\ fights'[g].stage = IF g = f THEN s ELSE fights[g].stage
    BY <1>1, <2>1, StageEffect
  <2> QED BY <2>2, <2>3, <2>4, <2>5 DEF Quiet, SameFights, Over
<1>5. ASSUME NEW f \in Fights, SweepOne(f) PROVE Quiet("cancel") /\ SameFights
  <2> DEFINE t == Task("cancel", f, None, {})
  <2>1. /\ UNCHANGED chain /\ UNCHANGED cache /\ UNCHANGED seen /\ UNCHANGED fights
        /\ UNCHANGED taskQueue \/ taskQueue' = taskQueue \o <<t>>
    BY <1>5 DEF SweepOne, Enqueue
  <2>2. t \in TaskR /\ t.op = "cancel" /\ Named(t)
    <3>1. None \in Players \cup {None} /\ "cancel" \in Ops BY DEF Ops
    <3> QED BY <3>1, TaskTyped DEF Named
  <2> HIDE DEF t
  <2>3. QueueT(<<t>>) /\ Tasks(<<t>>) = {t} BY <2>2, QueueOne
  <2>4. \E r : /\ taskQueue' = taskQueue \o r /\ QueueT(r)
               /\ \A u \in Tasks(r) : u.op = "cancel"
    BY <2>1, <2>2, <2>3, NothingSent
  <2> QED BY <2>1, <2>4 DEF Quiet, SameFights, Over
<1>6. ASSUME \/ \E r \in db.requests : RequestDone(r)
             \/ Restart \/ UNCHANGED vars
      PROVE  Quiet("cancel") /\ SameFights
  <2>1. /\ UNCHANGED chain /\ UNCHANGED cache /\ UNCHANGED fights /\ UNCHANGED taskQueue
        /\ \/ UNCHANGED seen
           \/ \E ok \in BOOLEAN : seen' = [seen EXCEPT !.faults = IF ok THEN @ ELSE @ + 1]
    <3>1. CASE Restart \/ UNCHANGED vars BY <3>1 DEF Restart, vars
    <3>2. ASSUME NEW r \in db.requests, RequestDone(r)
          PROVE  /\ UNCHANGED chain /\ UNCHANGED cache /\ UNCHANGED fights
                 /\ UNCHANGED taskQueue
                 /\ \E ok \in BOOLEAN : seen' = [seen EXCEPT !.faults = IF ok THEN @ ELSE @ + 1]
      <4>1. \E ok \in IF seen.faults < MaxFaults THEN BOOLEAN ELSE {TRUE} :
              seen' = [seen EXCEPT !.faults = IF ok THEN @ ELSE @ + 1]
        BY <3>2 DEF RequestDone
      <4> QED BY <3>2, <4>1 DEF RequestDone
    <3> QED BY <1>6, <3>1, <3>2
  <2>2. /\ seen'.lost = seen.lost /\ seen'.failed = seen.failed
        /\ seen'.overlap = seen.overlap /\ seen'.crashes = seen.crashes
    BY <1>1, <2>1 DEF SeenFields
  <2>3. \E r : /\ taskQueue' = taskQueue \o r /\ QueueT(r)
               /\ \A t \in Tasks(r) : t.op = "cancel"
    BY <2>1, NothingSent
  <2> QED BY <2>1, <2>2, <2>3 DEF Quiet, SameFights, Over
<1> QED BY <1>2, <1>3, <1>4, <1>5, <1>6 DEF Next

LEMMA QuietQueue ==
  ASSUME RecordInv, OnlyOnce(taskQueue), NEW op \in {"lock", "cancel"}, Quiet(op)
  PROVE  /\ OnlyOnce(taskQueue') /\ Ids(taskQueue') = Ids(taskQueue)
         /\ \A t \in Tasks(taskQueue') : t \in Tasks(taskQueue) \/ t.op = op
<1>1. PICK r : /\ taskQueue' = taskQueue \o r /\ QueueT(r)
               /\ \A t \in Tasks(r) : t.op = op
  BY DEF Quiet
<1>2. QueueT(taskQueue) BY DEF RecordInv, SettleInv, Shapes
<1>3. OnlyOnce(r) /\ Ids(r) = {} BY <1>1, IdsNone DEF Counting
<1>4. OnlyOnce(taskQueue \o r) /\ Ids(taskQueue \o r) = Ids(taskQueue) \cup Ids(r)
  BY <1>1, <1>2, <1>3, IdsConcat
<1>5. Tasks(taskQueue \o r) \subseteq Tasks(taskQueue) \cup Tasks(r) BY <1>1, <1>2, QueueConcat
<1> QED BY <1>1, <1>3, <1>4, <1>5

LEMMA QuietCounts ==
  ASSUME RecordInv, Counted, NEW op \in {"lock", "cancel"}, Quiet(op) PROVE Counted'
<1>1. /\ OnlyOnce(taskQueue') /\ Ids(taskQueue') = Ids(taskQueue)
      /\ \A t \in Tasks(taskQueue') : t \in Tasks(taskQueue) \/ t.op = op
  BY QuietQueue DEF Counted
<1>2. /\ \A f \in Fights : fights'[f].winner = fights[f].winner /\ (Over(f)' <=> Over(f))
      /\ chain'.record = chain.record /\ UNCHANGED cache
      /\ seen'.lost = seen.lost /\ seen'.failed = seen.failed
  BY DEF Quiet
<1>3. \A t \in Tasks(taskQueue)' : BothI(t)' BY <1>1 DEF BothI, Counted
<1>4. ASSUME NEW f \in Fights, NEW p \in Players PROVE CountI(f, p)'
  <2>1. CountI(f, p) BY DEF Counted
  <2>2. \A o : ResultId(f, o)' = ResultId(f, o) BY <1>2 DEF ResultId, Drawn
  <2>3. Outstanding(f, p)' <=> Outstanding(f, p) BY <1>1, <1>2, <2>2 DEF Outstanding
  <2>4. Decided(f)' <=> Decided(f) BY <1>2 DEF Decided
  <2>5. ResultId(f, p)' = ResultId(f, p) /\ ResultId(f, Opponent(p))' = ResultId(f, Opponent(p))
    BY <2>2
  <2> QED BY <1>1, <1>2, <2>1, <2>3, <2>4, <2>5 DEF CountI, Fresh
<1> QED BY <1>1, <1>3, <1>4 DEF Counted

(***************************************************************************)
(* The counts when a fight ends                                            *)
(***************************************************************************)
LEMMA EndsEffect ==
  ASSUME RecordInv, NEW f \in Fights, NEW w \in Players \cup {Draw}, Ends(f, w)
  PROVE  /\ ~Over(f) /\ fights[f].winner = None
         /\ \A g \in Fights :
              /\ fights'[g].kind = fights[g].kind
              /\ fights'[g].winner = IF g = f THEN w ELSE fights[g].winner
              /\ fights'[g].stage = IF g = f THEN "over" ELSE fights[g].stage
<1>1. fights' = [fights EXCEPT ![f].stage = "over", ![f].winner = w]
      /\ fights[f].stage = "fighting"
  BY DEF Ends
<1>2. DOMAIN fights = Fights /\ \A g \in Fights : DOMAIN fights[g] = {"kind", "stage", "winner"}
  BY DEF RecordInv, SettleInv, Shapes
<1>3. ~Over(f) BY <1>1 DEF Over
<1>4. fights[f].winner = None BY <1>3 DEF RecordInv, SettleInv, StageI
<1> QED BY <1>1, <1>2, <1>3, <1>4

\* Everything about the other fights is as it was.
LEMMA EndCounts ==
  ASSUME RecordInv, Counted, NEW f \in Fights, NEW w \in Players \cup {Draw}, Ends(f, w),
         NEW new, new = (IF w = Draw THEN <<"bundle", f, None>> ELSE <<"update", f, w>>),
         OnlyOnce(taskQueue'), Ids(taskQueue') = Ids(taskQueue) \cup {new},
         \A t \in Tasks(taskQueue') : BothI(t),
         UNCHANGED chain, seen'.lost = seen.lost, seen'.failed = seen.failed,
         \A p \in Players, g \in Fights : g # f => cache'.record[p][g] = cache.record[p][g]
  PROVE  Counted'
<1>1. /\ ~Over(f) /\ fights[f].winner = None
      /\ \A g \in Fights : /\ fights'[g].winner = IF g = f THEN w ELSE fights[g].winner
                           /\ fights'[g].stage = IF g = f THEN "over" ELSE fights[g].stage
  BY EndsEffect
<1>2. ASSUME NEW g \in Fights, NEW p \in Players, g # f PROVE CountI(g, p)'
  <2>1. CountI(g, p) BY DEF Counted
  <2>2. fights'[g].winner = fights[g].winner /\ (Over(g)' <=> Over(g)) BY <1>1, <1>2 DEF Over
  <2>3. \A o : ResultId(g, o)' = ResultId(g, o) BY <2>2 DEF ResultId, Drawn
  <2>4. \A o : ResultId(g, o) # new BY <1>2 DEF ResultId
  <2>5. \A o : ResultId(g, o) \in Ids(taskQueue') <=> ResultId(g, o) \in Ids(taskQueue)
    BY <2>4
  <2>6. Outstanding(g, p)' <=> Outstanding(g, p) BY <2>2, <2>3, <2>5 DEF Outstanding
  <2>7. Decided(g)' <=> Decided(g) BY <2>2 DEF Decided
  <2>8. ResultId(g, p)' = ResultId(g, p) /\ ResultId(g, Opponent(p))' = ResultId(g, Opponent(p))
    BY <2>3
  <2>9. cache'.record[p][g] = cache.record[p][g] BY <1>2
  <2> QED BY <2>1, <2>2, <2>5, <2>6, <2>7, <2>8, <2>9 DEF CountI, Fresh
<1>3. ASSUME NEW p \in Players PROVE CountI(f, p)'
  <2>1. CountI(f, p) BY DEF Counted
  <2>2. fights'[f].winner = w /\ Over(f)' BY <1>1 DEF Over
  <2>3. /\ chain'.record[p][f] = 0
        /\ <<"update", f, p>> \notin seen'.lost \cup seen'.failed
        /\ <<"bundle", f, None>> \notin seen'.lost \cup seen'.failed
    BY <1>1, <2>1 DEF CountI, Fresh
  <2>4. Drawn(f)' <=> w = Draw BY <2>2 DEF Drawn
  <2>5. \A o : ResultId(f, o)' = IF w = Draw THEN <<"bundle", f, None>> ELSE <<"update", f, o>>
    BY <2>4 DEF ResultId
  <2>6. ResultId(f, w)' = new BY <2>5
  <2>7. Outstanding(f, p)'
    <3>1. ResultId(f, fights[f].winner)' = ResultId(f, w)' BY <2>2, <2>5
    <3>2. ResultId(f, fights[f].winner)' \in Ids(taskQueue)' BY <2>6, <3>1
    <3> QED BY <3>2 DEF Outstanding
  <2>8. ResultId(f, p)' \notin seen'.failed /\ ResultId(f, p)' \notin seen'.lost BY <2>3, <2>5
  <2>9. Decided(f)' => \/ ResultId(f, p)' \notin Ids(taskQueue')
                       \/ ResultId(f, Opponent(p))' \notin Ids(taskQueue')
    <3>1. Decided(f)' <=> w # Draw BY <2>2, Given DEF Decided
    <3>2. ASSUME w # Draw
          PROVE  \/ ResultId(f, p)' \notin Ids(taskQueue')
                 \/ ResultId(f, Opponent(p))' \notin Ids(taskQueue')
      <4>1. Opponent(p) # p BY TwoPlayers
      <4>2. \A o : <<"update", f, o>> \in Ids(taskQueue') => o = w
        <5>1. \A o : <<"update", f, o>> \notin Ids(taskQueue) BY <1>1, IdsOver
        <5> QED BY <3>2, <5>1
      <4>3. /\ ResultId(f, p)' = <<"update", f, p>>
            /\ ResultId(f, Opponent(p))' = <<"update", f, Opponent(p)>>
        BY <2>5, <3>2
      <4> QED BY <4>1, <4>2, <4>3
    <3> QED BY <3>1, <3>2
  <2> QED BY <2>2, <2>3, <2>7, <2>8, <2>9 DEF CountI
<1>4. \A g \in Fights, p \in Players : CountI(g, p)' BY <1>2, <1>3
<1>5. OnlyOnce(taskQueue)' /\ \A t \in Tasks(taskQueue)' : BothI(t)' BY DEF BothI
<1> QED BY <1>4, <1>5 DEF Counted

LEMMA WonQueue ==
  ASSUME RecordInv, Counted, RecordInv', NEW f \in Fights, NEW w \in Players, FinishWon(f, w)
  PROVE  /\ OnlyOnce(taskQueue') /\ Ids(taskQueue') = Ids(taskQueue) \cup {<<"update", f, w>>}
         /\ \A t \in Tasks(taskQueue') : t \in Tasks(taskQueue) \/ t \in Tasks(WinTasks(f, w))
         /\ \A t \in Tasks(WinTasks(f, w)) :
              t.op # "bundle" /\ (t.op = "update" => t.rating = cache'.rating[w])
<1> DEFINE r == WinTasks(f, w)
<1>1. taskQueue' = taskQueue \o r /\ Ends(f, w) BY DEF FinishWon, Enqueue, Ends
<1>2. cache'.rating[w] \in SUBSET Fights BY DEF RecordInv, SettleInv, Shapes
<1>3. /\ QueueT(r) /\ OnlyOnce(r) /\ Ids(r) = {<<"update", f, w>>}
      /\ \A t \in Tasks(r) : t.op # "bundle" /\ (t.op = "update" => t.rating = cache'.rating[w])
  BY <1>2, WinIds
<1>4. QueueT(taskQueue) /\ OnlyOnce(taskQueue) BY DEF RecordInv, SettleInv, Shapes, Counted
<1>5. ~Over(f) BY <1>1, EndsEffect
<1>6. Ids(taskQueue) \cap Ids(r) = {} BY <1>3, <1>5, IdsOver
<1> HIDE DEF r
<1>7. OnlyOnce(taskQueue \o r) /\ Ids(taskQueue \o r) = Ids(taskQueue) \cup Ids(r)
  BY <1>3, <1>4, <1>6, IdsConcat
<1>8. Tasks(taskQueue \o r) \subseteq Tasks(taskQueue) \cup Tasks(r) BY <1>3, <1>4, QueueConcat
<1> QED BY <1>1, <1>3, <1>7, <1>8 DEF r

LEMMA WonCounts ==
  ASSUME RecordInv, Counted, RecordInv', NEW f \in Fights, NEW w \in Players, FinishWon(f, w)
  PROVE  Counted'
<1> DEFINE new == <<"update", f, w>>
<1>1. /\ Ends(f, w) /\ UNCHANGED chain
      /\ cache' = [record |-> [p \in Players |-> [cache.record[p] EXCEPT ![f] = @ + 1]],
                   rating |-> [p \in Players |-> IF Rated(f) THEN cache.rating[p] \cup {f}
                                                 ELSE cache.rating[p]]]
      /\ seen' = [seen EXCEPT !.overlap =
                    @ \/ \E i \in DOMAIN taskQueue : taskQueue[i].op = "update"]
  BY DEF FinishWon, Ends
<1>2. seen'.lost = seen.lost /\ seen'.failed = seen.failed
  BY <1>1 DEF RecordInv, SettleInv, Shapes, SeenFields
<1>3. OnlyOnce(taskQueue') /\ Ids(taskQueue') = Ids(taskQueue) \cup {new}
      /\ \A t \in Tasks(taskQueue') : t \in Tasks(taskQueue) \/ t.op # "bundle"
  BY WonQueue
<1>4. \A t \in Tasks(taskQueue') : BothI(t) BY <1>3 DEF BothI, Counted
<1>5. ASSUME NEW p \in Players, NEW g \in Fights, g # f
      PROVE  cache'.record[p][g] = cache.record[p][g]
  <2>1. cache.record[p] \in [Fights -> Nat] BY DEF RecordInv, Rest, Records
  <2>2. cache'.record[p] = [cache.record[p] EXCEPT ![f] = @ + 1] BY <1>1
  <2> QED BY <1>5, <2>1, <2>2
<1>6. w # Draw BY Given
<1>7. new = IF w = Draw THEN <<"bundle", f, None>> ELSE <<"update", f, w>> BY <1>6
<1> HIDE DEF new
<1> QED BY <1>1, <1>2, <1>3, <1>4, <1>5, <1>7, EndCounts

LEMMA DrawnQueue ==
  ASSUME RecordInv, Counted, NEW f \in Fights, FinishDrawn(f)
  PROVE  /\ OnlyOnce(taskQueue') /\ Ids(taskQueue') = Ids(taskQueue) \cup {<<"bundle", f, None>>}
         /\ \A t \in Tasks(taskQueue') : t \in Tasks(taskQueue) \/ (t.op = "bundle" /\ t.who = None)
<1> DEFINE t == Task("bundle", f, None, {})
<1>1. taskQueue' = taskQueue \o <<t>> /\ Ends(f, Draw) BY DEF FinishDrawn, Enqueue, Ends
<1>2. t \in TaskR /\ t.op = "bundle" /\ t.fight = f /\ t.who = None
  <2>1. None \in Players \cup {None} /\ "bundle" \in Ops BY DEF Ops
  <2> QED BY <2>1, TaskTyped
<1> HIDE DEF t
<1>3. Named(t) /\ Counting(t) /\ Id(t) = <<"bundle", f, None>> BY <1>2 DEF Named, Counting, Id
<1>4. QueueT(<<t>>) /\ Tasks(<<t>>) = {t} BY <1>2, <1>3, QueueOne
<1>5. OnlyOnce(<<t>>) /\ Ids(<<t>>) = {Id(t)} BY <1>2, <1>3, IdsSingle
<1>6. QueueT(taskQueue) /\ OnlyOnce(taskQueue) BY DEF RecordInv, SettleInv, Shapes, Counted
<1>7. ~Over(f) BY <1>1, EndsEffect
<1>8. Ids(taskQueue) \cap Ids(<<t>>) = {} BY <1>3, <1>5, <1>7, IdsOver
<1> DEFINE r == <<t>>
<1> HIDE DEF r
<1>9. OnlyOnce(taskQueue \o r) /\ Ids(taskQueue \o r) = Ids(taskQueue) \cup Ids(r)
  BY <1>4, <1>5, <1>6, <1>8, IdsConcat DEF r
<1>10. Tasks(taskQueue \o r) \subseteq Tasks(taskQueue) \cup Tasks(r)
  BY <1>4, <1>6, QueueConcat DEF r
<1>11. taskQueue' = taskQueue \o r /\ Tasks(r) = {t} /\ Ids(r) = {<<"bundle", f, None>>}
  BY <1>1, <1>3, <1>4, <1>5 DEF r
<1> QED BY <1>2, <1>9, <1>10, <1>11

LEMMA DrawnCounts ==
  ASSUME RecordInv, Counted, NEW f \in Fights, FinishDrawn(f)
  PROVE  Counted'
<1> DEFINE new == <<"bundle", f, None>>
<1>1. Ends(f, Draw) /\ UNCHANGED chain /\ UNCHANGED cache /\ UNCHANGED seen
  BY DEF FinishDrawn, Ends
<1>2. /\ OnlyOnce(taskQueue') /\ Ids(taskQueue') = Ids(taskQueue) \cup {new}
      /\ \A t \in Tasks(taskQueue') : t \in Tasks(taskQueue) \/ (t.op = "bundle" /\ t.who = None)
  BY DrawnQueue
<1>3. \A t \in Tasks(taskQueue') : BothI(t) BY <1>2 DEF BothI, Counted
<1>4. new = IF Draw = Draw THEN <<"bundle", f, None>> ELSE <<"update", f, Draw>> OBVIOUS
<1>5. Draw \in Players \cup {Draw} OBVIOUS
<1> HIDE DEF new
<1> QED BY <1>1, <1>2, <1>3, <1>4, <1>5, EndCounts

(***************************************************************************)
(* The ratings.  While no update of an earlier fight was in the queue when *)
(* a fight ended, the server's ratings are those due, and so is the rating *)
(* every update in the queue carries; the rating on chain is the server's  *)
(* unless an update is outstanding.                                        *)
(***************************************************************************)
Due == {f \in Fights : Decided(f) /\ Rated(f)}

NoUpdateFailed == \A id \in seen.failed : id[1] # "update"

\* No update for p is in the queue or yet to be sent.
UpToDate(p) == \A f \in Fights : ~(Decided(f) /\ Outstanding(f, p))

RatingsMirrored ==
  NoUpdateFailed => \A p \in Players : UpToDate(p) => cache.rating[p] = chain.rating[p]

RatingsDue ==
  ~seen.overlap => /\ \A p \in Players : cache.rating[p] = Due
                   /\ \A t \in Tasks(taskQueue) : t.op = "update" => t.rating = Due

\* Only the end of a fight changes what is due.
LEMMA DueStays ==
  ASSUME \A f \in Fights : /\ fights'[f].winner = fights[f].winner
                           /\ fights'[f].kind = fights[f].kind
  PROVE  Due' = Due
<1>1. \A f \in Fights : (Decided(f)' <=> Decided(f)) /\ (Rated(f)' <=> Rated(f))
  BY DEF Decided, Rated
<1> QED BY <1>1 DEF Due

LEMMA QuietRatings ==
  ASSUME RecordInv, Counted, [Next]_vars, RatingsMirrored, RatingsDue,
         NEW op \in {"lock", "cancel"}, Quiet(op)
  PROVE  RatingsMirrored' /\ RatingsDue'
<1>1. /\ OnlyOnce(taskQueue') /\ Ids(taskQueue') = Ids(taskQueue)
      /\ \A t \in Tasks(taskQueue') : t \in Tasks(taskQueue) \/ t.op = op
  BY QuietQueue DEF Counted
<1>2. /\ \A f \in Fights : fights'[f].winner = fights[f].winner
      /\ chain'.rating = chain.rating /\ UNCHANGED cache
      /\ seen'.failed = seen.failed /\ seen'.overlap = seen.overlap
  BY DEF Quiet
<1>3. Due' = Due BY <1>2, FightsRest, DueStays
<1>4. ASSUME NEW p \in Players PROVE UpToDate(p)' <=> UpToDate(p)
  <2>1. ASSUME NEW f \in Fights
        PROVE  (Decided(f)' <=> Decided(f)) /\ (Outstanding(f, p)' <=> Outstanding(f, p))
    <3>1. \A o : ResultId(f, o)' = ResultId(f, o) BY <1>2 DEF ResultId, Drawn
    <3> QED BY <1>1, <1>2, <3>1 DEF Outstanding, Decided
  <2> QED BY <2>1 DEF UpToDate
<1>5. RatingsMirrored' BY <1>2, <1>4 DEF RatingsMirrored, NoUpdateFailed
<1>6. RatingsDue'
  <2>1. \A t \in Tasks(taskQueue') : t.op = "update" => t \in Tasks(taskQueue) BY <1>1
  <2> QED BY <1>2, <1>3, <2>1 DEF RatingsDue
<1> QED BY <1>5, <1>6

LEMMA WonRatings ==
  ASSUME RecordInv, Counted, RecordInv', RatingsMirrored, RatingsDue,
         NEW f \in Fights, NEW w \in Players, FinishWon(f, w)
  PROVE  RatingsMirrored' /\ RatingsDue'
<1>1. /\ Ends(f, w)
      /\ cache' = [record |-> [p \in Players |-> [cache.record[p] EXCEPT ![f] = @ + 1]],
                   rating |-> [p \in Players |-> IF Rated(f) THEN cache.rating[p] \cup {f}
                                                 ELSE cache.rating[p]]]
      /\ seen' = [seen EXCEPT !.overlap =
                    @ \/ \E i \in DOMAIN taskQueue : taskQueue[i].op = "update"]
  BY DEF FinishWon, Ends
<1>2. /\ ~Over(f)
      /\ \A g \in Fights : /\ fights'[g].kind = fights[g].kind
                           /\ fights'[g].winner = IF g = f THEN w ELSE fights[g].winner
  BY <1>1, EndsEffect
<1>3. /\ Ids(taskQueue') = Ids(taskQueue) \cup {<<"update", f, w>>}
      /\ \A t \in Tasks(taskQueue') : t \in Tasks(taskQueue) \/ t \in Tasks(WinTasks(f, w))
      /\ \A t \in Tasks(WinTasks(f, w)) : t.op = "update" => t.rating = cache'.rating[w]
  BY WonQueue
<1>4. fights'[f].winner = w /\ Decided(f)' BY <1>2 DEF Decided
<1>5. RatingsMirrored'
  <2>1. ASSUME NEW p \in Players PROVE ~UpToDate(p)'
    <3>1. ~Drawn(f)' BY <1>4, Given DEF Drawn
    <3>2. ResultId(f, fights[f].winner)' = <<"update", f, w>> BY <1>4, <3>1 DEF ResultId
    <3>3. ResultId(f, fights[f].winner)' \in Ids(taskQueue)' BY <1>3, <3>2
    <3>4. Outstanding(f, p)' BY <3>3 DEF Outstanding
    <3> QED BY <1>4, <3>4 DEF UpToDate
  <2> QED BY <2>1 DEF RatingsMirrored
<1>6. RatingsDue'
  <2> SUFFICES ASSUME ~seen'.overlap
               PROVE  /\ \A p \in Players : cache'.rating[p] = Due'
                      /\ \A t \in Tasks(taskQueue)' : t.op = "update" => t.rating = Due'
    BY DEF RatingsDue
  <2>1. seen'.overlap = (seen.overlap \/ \E i \in DOMAIN taskQueue : taskQueue[i].op = "update")
    BY <1>1 DEF RecordInv, SettleInv, Shapes, SeenFields
  <2>2. ~seen.overlap /\ \A i \in DOMAIN taskQueue : taskQueue[i].op # "update" BY <2>1
  <2>3. \A t \in Tasks(taskQueue) : t.op # "update"
    <3>1. taskQueue \in Seq(TaskR) BY DEF RecordInv, SettleInv, Shapes, QueueT
    <3>2. DOMAIN taskQueue = 1 .. Len(taskQueue) BY <3>1
    <3> QED BY <2>2, <3>2 DEF Tasks
  <2>4. \A p \in Players : cache.rating[p] = Due BY <2>2 DEF RatingsDue
  <2>5. \A p \in Players : cache'.rating[p] = IF Rated(f) THEN Due \cup {f} ELSE Due
    BY <1>1, <2>4
  <2>6. Due' = IF Rated(f) THEN Due \cup {f} ELSE Due
    <3>1. \A g \in Fights : /\ Rated(g)' <=> Rated(g)
                            /\ Decided(g)' <=> g = f \/ Decided(g)
      BY <1>2 DEF Rated, Decided
    <3>2. ~Decided(f) BY <1>2, Results
    <3>3. Due' = {g \in Fights : Decided(g)' /\ Rated(g)'} BY DEF Due
    <3> QED BY <3>1, <3>2, <3>3 DEF Due
  <2>7. \A p \in Players : cache'.rating[p] = Due' BY <2>5, <2>6
  <2> QED BY <1>3, <2>3, <2>7
<1> QED BY <1>5, <1>6

LEMMA DrawnRatings ==
  ASSUME RecordInv, Counted, RatingsMirrored, RatingsDue, NEW f \in Fights, FinishDrawn(f)
  PROVE  RatingsMirrored' /\ RatingsDue'
<1>1. Ends(f, Draw) /\ UNCHANGED chain /\ UNCHANGED cache /\ UNCHANGED seen
  BY DEF FinishDrawn, Ends
<1>2. /\ ~Over(f)
      /\ \A g \in Fights : /\ fights'[g].kind = fights[g].kind
                           /\ fights'[g].winner = IF g = f THEN Draw ELSE fights[g].winner
  BY <1>1, EndsEffect
<1>3. /\ Ids(taskQueue') = Ids(taskQueue) \cup {<<"bundle", f, None>>}
      /\ \A t \in Tasks(taskQueue') : t \in Tasks(taskQueue) \/ t.op = "bundle"
  BY DrawnQueue
<1>4. ~Decided(f) /\ ~Decided(f)'
  <2>1. ~Decided(f) BY <1>2, Results
  <2>2. fights'[f].winner = Draw BY <1>2
  <2> QED BY <2>1, <2>2, Given DEF Decided
<1>5. \A g \in Fights : (Decided(g)' <=> Decided(g)) /\ (Rated(g)' <=> Rated(g))
  BY <1>2, <1>4 DEF Decided, Rated
<1>6. Due' = Due BY <1>5 DEF Due
<1>7. ASSUME NEW p \in Players PROVE UpToDate(p)' => UpToDate(p)
  <2>1. ASSUME NEW g \in Fights, Decided(g), Outstanding(g, p)
        PROVE  Decided(g)' /\ Outstanding(g, p)'
    <3>1. g # f /\ Decided(g)' BY <1>4, <1>5, <2>1
    <3>2. fights'[g].winner = fights[g].winner BY <1>2, <3>1
    <3>3. \A o : ResultId(g, o)' = ResultId(g, o) BY <3>2 DEF ResultId, Drawn
    <3> QED BY <1>3, <2>1, <3>1, <3>2, <3>3 DEF Outstanding
  <2> QED BY <2>1 DEF UpToDate
<1>8. RatingsMirrored' BY <1>1, <1>7 DEF RatingsMirrored, NoUpdateFailed
<1>9. RatingsDue'
  <2>1. \A t \in Tasks(taskQueue') : t.op = "update" => t \in Tasks(taskQueue) BY <1>3
  <2> QED BY <1>1, <1>6, <2>1 DEF RatingsDue
<1> QED BY <1>8, <1>9

LEMMA AttemptRatings ==
  ASSUME RecordInv, RecordInv', Counted, taskQueue # <<>>, NEW t, t = Head(taskQueue),
         NEW landed \in BOOLEAN, NEW good \in BOOLEAN, NEW gone \in BOOLEAN,
         Attempt(t, landed, good, gone), RatingsMirrored, RatingsDue
  PROVE  RatingsMirrored' /\ RatingsDue'
<1>1. /\ good => landed /\ gone /\ seen'.failed = seen.failed
      /\ ~good => seen'.failed = seen.failed \cup IF gone THEN {Id(t)} ELSE {}
      /\ UNCHANGED fights /\ seen'.overlap = seen.overlap
      /\ gone => taskQueue' = Tail(taskQueue) \o NextUpdate(t)
      /\ ~gone => UNCHANGED taskQueue
  BY DEF Attempt
<1>2. \A p \in Players :
        /\ chain'.rating[p] = IF landed /\ t.op = "update" /\ p = t.who THEN t.rating
                              ELSE chain.rating[p]
        /\ cache'.rating[p] = IF good /\ t.op = "update" /\ p = t.who THEN t.rating
                              ELSE cache.rating[p]
  BY DEF Attempt
<1>3. cache'.rating \in Ratings BY DEF RecordInv, SettleInv, Shapes, Ratings
<1>4. t \in Tasks(taskQueue) BY HeadTask
<1>5. BothI(t) BY <1>4 DEF Counted
<1>6. t.op = "update" => t.fight \in Fights /\ t.who \in Players /\ Decided(t.fight)
  BY <1>4, Results
<1>7. \A f \in Fights : Decided(f) => Over(f) BY Results
<1>8. Due' = Due BY <1>1, DueStays
<1>9. ASSUME NEW p \in Players, NoUpdateFailed', UpToDate(p)'
      PROVE  cache'.rating[p] = chain'.rating[p]
  <2>1. NoUpdateFailed
    <3>1. seen.failed \subseteq seen'.failed BY <1>1
    <3> QED BY <1>9, <3>1 DEF NoUpdateFailed
  <2>2. \A f \in Fights : ~(Decided(f) /\ Outstanding(f, p)') BY <1>1, <1>9 DEF UpToDate, Decided
  <2>3. CASE t.op = "update" /\ p = t.who
    <3>1. Mine(t, p, t.fight) BY <1>4, <1>5, <1>6, <2>3, MineIs
    <3>2. gone
      <4>1. CASE ~gone
        <5>1. Id(t) \in Ids(taskQueue) BY <1>4, <3>1 DEF Ids, Mine
        <5>2. Outstanding(t.fight, p) BY <3>1, <5>1 DEF Outstanding, Mine
        <5>3. Outstanding(t.fight, p)' BY <1>1, <4>1, <5>2 DEF Outstanding, ResultId, Drawn
        <5> QED BY <1>6, <2>2, <2>3, <5>3
      <4> QED BY <4>1
    <3>3. good
      <4>1. CASE ~good
        <5>1. Id(t) \in seen'.failed BY <1>1, <3>2, <4>1
        <5>2. Id(t)[1] = "update" BY <2>3 DEF Id
        <5> QED BY <1>9, <5>1, <5>2 DEF NoUpdateFailed
      <4> QED BY <4>1
    <3> QED BY <1>1, <1>2, <2>3, <3>3
  <2>4. CASE ~(t.op = "update" /\ p = t.who)
    <3>1. cache'.rating[p] = cache.rating[p] /\ chain'.rating[p] = chain.rating[p]
      BY <1>2, <2>4
    <3>2. ASSUME NEW f \in Fights, Decided(f) PROVE ~Outstanding(f, p)
      <4>1. CASE gone
        <5>1. Outstanding(f, p)' <=> Outstanding(f, p) /\ ~Mine(t, p, f)
          BY <1>1, <1>3, <1>7, <3>2, <4>1, OutstandingAfter
        <5>2. ~Mine(t, p, f)
          <6>1. Mine(t, p, f) => f = t.fight /\ t.op = "bundle" BY <1>4, <1>5, <2>4, MineIs
          <6>2. t.op = "bundle" => ~Decided(t.fight) BY <1>4, Results
          <6> QED BY <3>2, <6>1, <6>2
        <5> QED BY <2>2, <3>2, <5>1, <5>2
      <4>2. CASE ~gone
        <5>1. Outstanding(f, p)' <=> Outstanding(f, p)
          BY <1>1, <4>2 DEF Outstanding, ResultId, Drawn
        <5> QED BY <2>2, <3>2, <5>1
      <4> QED BY <4>1, <4>2
    <3>3. UpToDate(p) BY <3>2 DEF UpToDate
    <3> QED BY <2>1, <3>1, <3>3 DEF RatingsMirrored
  <2> QED BY <2>3, <2>4
<1>10. ASSUME ~seen'.overlap
       PROVE  /\ \A p \in Players : cache'.rating[p] = Due
              /\ \A u \in Tasks(taskQueue') : u.op = "update" => u.rating = Due
  <2>1. /\ \A p \in Players : cache.rating[p] = Due
        /\ \A u \in Tasks(taskQueue) : u.op = "update" => u.rating = Due
    BY <1>1, <1>10 DEF RatingsDue
  <2>2. \A p \in Players : cache'.rating[p] = Due BY <1>2, <1>4, <2>1
  <2>3. ASSUME NEW u \in Tasks(taskQueue'), u.op = "update" PROVE u.rating = Due
    <3>1. CASE gone
      <4>1. u \in Tasks(Tail(taskQueue)) \/ u \in Tasks(NextUpdate(t))
        BY <1>1, <1>3, <3>1, QueueAfter
      <4>2. Tasks(Tail(taskQueue)) \subseteq Tasks(taskQueue)
        BY QueueTail DEF RecordInv, SettleInv, Shapes
      <4>3. \A v \in Tasks(NextUpdate(t)) :
              v.rating = cache'.rating[Opponent(t.who)] /\ t.op = "update"
        BY <1>3, <1>4, NextUpdateIds
      <4>4. t.op = "update" => Opponent(t.who) \in Players BY <1>6, Opponents
      <4> QED BY <2>1, <2>2, <2>3, <4>1, <4>2, <4>3, <4>4
    <3>2. CASE ~gone BY <1>1, <2>1, <2>3, <3>2
    <3> QED BY <3>1, <3>2
  <2> QED BY <2>2, <2>3
<1>11. RatingsMirrored' BY <1>9 DEF RatingsMirrored
<1>12. RatingsDue' BY <1>8, <1>10 DEF RatingsDue
<1> QED BY <1>11, <1>12

(***************************************************************************)
(* The fights are fought one after the other                               *)
(***************************************************************************)
InOrder ==
  \A f \in Fights :
    fights[f].stage \in {"accepted", "fighting"} => \A g \in 1 .. f - 1 : Ended(g)

LEMMA OneFight ==
  ASSUME RecordInv, InOrder, NEW f \in Fights, NEW g \in Fights,
         fights[f].stage = "fighting", fights[g].stage = "fighting"
  PROVE  f = g
<1>1. f \in Int /\ g \in Int /\ f >= 1 /\ g >= 1 BY DEF Fights
<1>2. ~Ended(f) /\ ~Ended(g) BY DEF Ended
<1>3. ~(g \in 1 .. f - 1) /\ ~(f \in 1 .. g - 1) BY <1>2 DEF InOrder
<1> QED BY <1>1, <1>3

\* A refunded wager stays refunded.
LEMMA SplitStays ==
  ASSUME RecordInv, [Next]_vars, NEW g \in Fights, chain.wager[g] = "split"
  PROVE  chain'.wager[g] = "split"
<1>1. /\ chain.wager \in [Fights -> WagerStates] /\ DOMAIN chain = ChainFields /\ SettleInv
  BY DEF RecordInv, SettleInv, Shapes
<1>2. CASE UNCHANGED chain BY <1>2
<1>3. ASSUME NEW f \in Fights, Approve(f) \/ Expire(f) PROVE chain'.wager[g] = "split"
  <2>1. chain.wager[f] # "split" BY <1>3 DEF Approve, Expire
  <2>2. \E s : chain' = [chain EXCEPT !.wager[f] = s] BY <1>3 DEF Approve, Expire
  <2> QED BY <1>1, <2>1, <2>2 DEF ChainFields
<1>4. ASSUME NEW t \in Tasks(taskQueue), Lands(t) PROVE chain'.wager[g] = "split"
  <2>1. t \in TaskR /\ Named(t) BY <1>1, TaskParts
  <2>2. /\ chain'.wager[g] = IF g = t.fight /\ Pays(t) THEN Outcome(t) ELSE chain.wager[g]
        /\ Pays(t) => chain.wager[t.fight] = "ACTIVE"
    BY <1>1, <1>4, <2>1, LandsEffect
  <2> QED BY <2>2
<1>5. CASE AttemptSucceeds \/ AttemptFails \/ AttemptStalls
  <2> DEFINE t == Head(taskQueue)
  <2>1. taskQueue # <<>> /\ (UNCHANGED chain \/ Lands(t))
    BY <1>5 DEF AttemptSucceeds, AttemptFails, AttemptStalls, Lands
  <2>2. t \in Tasks(taskQueue) BY <2>1, HeadTask
  <2> HIDE DEF t
  <2> QED BY <1>2, <1>4, <2>1, <2>2
<1>6. ASSUME NEW f \in Fights,
             WagerAccepted(f) \/ AcceptGivesUp(f) \/ CreateFight(f) \/ FinishDrawn(f) \/ SweepOne(f)
      PROVE  UNCHANGED chain
  BY <1>6 DEF WagerAccepted, AcceptGivesUp, CreateFight, FinishDrawn, SweepOne
<1>7. ASSUME NEW f \in Fights, NEW w \in Players, FinishWon(f, w) PROVE UNCHANGED chain
  BY <1>7 DEF FinishWon
<1>8. CASE Crash \/ Restart \/ UNCHANGED vars BY <1>2, <1>8 DEF Crash, Restart, vars
<1>9. ASSUME NEW r \in db.requests, RequestDone(r) PROVE UNCHANGED chain
  BY <1>9 DEF RequestDone
<1> QED BY <1>2, <1>3, <1>5, <1>6, <1>7, <1>8, <1>9 DEF Next

LEMMA EndedStays ==
  ASSUME RecordInv, [Next]_vars, NEW g \in Fights, Ended(g)
  PROVE  Ended(g)'
<1>1. \/ fights[g].stage \in {"over", "gone", "unseen"}
      \/ fights[g].stage = "none" /\ chain.wager[g] = "split"
  BY DEF Ended
<1>2. Shapes BY DEF RecordInv, SettleInv
<1>3. chain.wager[g] = "split" => chain'.wager[g] = "split" BY SplitStays
<1>4. CASE UNCHANGED fights BY <1>1, <1>3, <1>4 DEF Ended
<1>5. ASSUME NEW f \in Fights, WagerAccepted(f) \/ AcceptGivesUp(f) \/ CreateFight(f)
      PROVE  Ended(g)'
  <2>1. PICK s \in {"accepted", "gone", "fighting"} : Stage(f, s)
    BY <1>5 DEF WagerAccepted, AcceptGivesUp, CreateFight
  <2>2. fights'[g].stage = IF g = f THEN s ELSE fights[g].stage BY <1>2, <2>1, StageEffect
  <2>3. \/ fights[f].stage = "accepted"
        \/ fights[f].stage = "none" /\ (IsWager(f) => chain.wager[f] = "ACTIVE")
    BY <1>5 DEF WagerAccepted, AcceptGivesUp, CreateFight, IsNext
  <2>4. chain.wager[g] = "split" => IsWager(g)
    BY DEF RecordInv, SettleInv, WagerI
  <2>5. g # f BY <1>1, <2>3, <2>4
  <2> QED BY <1>1, <1>3, <2>2, <2>5 DEF Ended
<1>6. ASSUME NEW f \in Fights, NEW w \in Players \cup {Draw}, Ends(f, w) PROVE Ended(g)'
  <2>1. fights'[g].stage = IF g = f THEN "over" ELSE fights[g].stage BY <1>6, EndsEffect
  <2> QED BY <1>1, <1>3, <2>1 DEF Ended
<1>7. CASE Crash
  <2> DEFINE lost == {f \in Fights : fights[f].stage \in {"accepted", "fighting"}}
             unseen == {f \in Fights : fights[f].stage = "none" /\ chain.wager[f] # "ABSENT"}
  <2>1. fights' = [f \in Fights |->
                     [fights[f] EXCEPT !.stage = IF f \in lost THEN "gone"
                                                 ELSE IF f \in unseen THEN "unseen" ELSE @]]
    BY <1>7 DEF Crash
  <2>2. DOMAIN fights[g] = {"kind", "stage", "winner"} BY <1>2 DEF Shapes
  <2>3. fights'[g].stage = IF g \in lost THEN "gone"
                           ELSE IF g \in unseen THEN "unseen" ELSE fights[g].stage
    <3> HIDE DEF lost, unseen
    <3> QED BY <2>1, <2>2
  <2>4. fights'[g].stage \in {"over", "gone", "unseen"} BY <1>1, <2>3
  <2> QED BY <2>4 DEF Ended
<1>8. ASSUME NEW f \in Fights, Approve(f) \/ SweepOne(f) \/ Expire(f) PROVE UNCHANGED fights
  BY <1>8 DEF Approve, SweepOne, Expire
<1>9. ASSUME NEW f \in Fights, NEW w \in Players, FinishWon(f, w) PROVE Ends(f, w)
  BY <1>9 DEF FinishWon, Ends
<1>10. ASSUME NEW f \in Fights, FinishDrawn(f) PROVE Ends(f, Draw)
  BY <1>10 DEF FinishDrawn, Ends
<1>11. CASE AttemptSucceeds \/ AttemptFails \/ AttemptStalls \/ Restart \/ UNCHANGED vars
  BY <1>4, <1>11 DEF AttemptSucceeds, AttemptFails, AttemptStalls, Restart, vars
<1>12. ASSUME NEW r \in db.requests, RequestDone(r) PROVE UNCHANGED fights
  BY <1>12 DEF RequestDone
<1> QED BY <1>4, <1>5, <1>6, <1>7, <1>8, <1>9, <1>10, <1>11, <1>12 DEF Next

\* Where a fight that goes on comes from.
LEMMA GoesOn ==
  ASSUME RecordInv, [Next]_vars, NEW f \in Fights, fights'[f].stage \in {"accepted", "fighting"}
  PROVE  fights[f].stage \in {"accepted", "fighting"} \/ IsNext(f)
<1>1. Shapes BY DEF RecordInv, SettleInv
<1>2. CASE UNCHANGED fights BY <1>2
<1>3. ASSUME NEW g \in Fights, WagerAccepted(g) \/ AcceptGivesUp(g) \/ CreateFight(g)
      PROVE  fights[f].stage \in {"accepted", "fighting"} \/ IsNext(f)
  <2>1. PICK s \in {"accepted", "gone", "fighting"} : Stage(g, s)
    BY <1>3 DEF WagerAccepted, AcceptGivesUp, CreateFight
  <2>2. fights'[f].stage = IF f = g THEN s ELSE fights[f].stage BY <1>1, <2>1, StageEffect
  <2>3. fights[g].stage = "accepted" \/ IsNext(g)
    BY <1>3 DEF WagerAccepted, AcceptGivesUp, CreateFight
  <2> QED BY <2>2, <2>3
<1>4. ASSUME NEW g \in Fights, NEW w \in Players \cup {Draw}, Ends(g, w)
      PROVE  fights[f].stage \in {"accepted", "fighting"}
  <2>1. fights'[f].stage = IF f = g THEN "over" ELSE fights[f].stage BY <1>4, EndsEffect
  <2> QED BY <2>1
<1>5. CASE Crash
  <2> DEFINE lost == {g \in Fights : fights[g].stage \in {"accepted", "fighting"}}
             unseen == {g \in Fights : fights[g].stage = "none" /\ chain.wager[g] # "ABSENT"}
  <2>1. fights' = [g \in Fights |->
                     [fights[g] EXCEPT !.stage = IF g \in lost THEN "gone"
                                                 ELSE IF g \in unseen THEN "unseen" ELSE @]]
    BY <1>5 DEF Crash
  <2>2. DOMAIN fights[f] = {"kind", "stage", "winner"} BY <1>1 DEF Shapes
  <2>3. fights'[f].stage = IF f \in lost THEN "gone"
                           ELSE IF f \in unseen THEN "unseen" ELSE fights[f].stage
    <3> HIDE DEF lost, unseen
    <3> QED BY <2>1, <2>2
  <2> QED BY <2>3
<1>6. ASSUME NEW g \in Fights, Approve(g) \/ SweepOne(g) \/ Expire(g) PROVE UNCHANGED fights
  BY <1>6 DEF Approve, SweepOne, Expire
<1>7. ASSUME NEW g \in Fights, NEW w \in Players, FinishWon(g, w) PROVE Ends(g, w)
  BY <1>7 DEF FinishWon, Ends
<1>8. ASSUME NEW g \in Fights, FinishDrawn(g) PROVE Ends(g, Draw)
  BY <1>8 DEF FinishDrawn, Ends
<1>9. CASE AttemptSucceeds \/ AttemptFails \/ AttemptStalls \/ Restart \/ UNCHANGED vars
  BY <1>2, <1>9 DEF AttemptSucceeds, AttemptFails, AttemptStalls, Restart, vars
<1>10. ASSUME NEW r \in db.requests, RequestDone(r) PROVE UNCHANGED fights
  BY <1>10 DEF RequestDone
<1> QED BY <1>2, <1>3, <1>4, <1>5, <1>6, <1>7, <1>8, <1>9, <1>10 DEF Next

LEMMA OrderStays == ASSUME RecordInv, InOrder, [Next]_vars PROVE InOrder'
<1>1. ASSUME NEW f \in Fights, fights'[f].stage \in {"accepted", "fighting"},
             NEW g \in 1 .. f - 1
      PROVE  Ended(g)'
  <2>1. fights[f].stage \in {"accepted", "fighting"} \/ IsNext(f) BY <1>1, GoesOn
  <2>2. Ended(g) BY <2>1 DEF InOrder, IsNext
  <2>3. g \in Fights BY Given DEF Fights
  <2> QED BY <2>2, <2>3, EndedStays
<1> QED BY <1>1 DEF InOrder

(***************************************************************************)
(* The locks.  The last task in the queue about the lock of a player       *)
(* leaves it as the fights want it; with no such task in the queue it is   *)
(* as they want it.                                                        *)
(***************************************************************************)
Affects(t, p) == t.op = "bundle" \/ (t.op \in {"lock", "unlock"} /\ t.who = p)
Free(q, p) == \A t \in Tasks(q) : ~Affects(t, p)

\* The last of q's tasks about the lock of p sets it to b.
LastLocks(q, p, b) ==
  \A i \in 1 .. Len(q) :
    Affects(q[i], p) /\ (\A j \in i + 1 .. Len(q) : ~Affects(q[j], p)) =>
      (q[i].op = "lock" <=> b)

Fighting == \E f \in Fights : fights[f].stage = "fighting"

NoLockFailed == \A id \in seen.failed : id[1] \notin {"lock", "unlock", "bundle"}

Locks ==
  NoLockFailed => \A p \in Players :
    /\ LastLocks(taskQueue, p, Fighting)
    /\ Free(taskQueue, p) => (p \in chain.locked <=> Fighting)

LEMMA LocksTail ==
  ASSUME NEW q, QueueT(q), q # <<>>, NEW p, NEW b, LastLocks(q, p, b)
  PROVE  /\ LastLocks(Tail(q), p, b)
         /\ Affects(Head(q), p) /\ Free(Tail(q), p) => (Head(q).op = "lock" <=> b)
         /\ Free(q, p) <=> Free(Tail(q), p) /\ ~Affects(Head(q), p)
<1>1. q \in Seq(TaskR) BY DEF QueueT
<1>2. /\ Len(Tail(q)) = Len(q) - 1 /\ Len(q) \in Nat /\ Len(q) # 0
      /\ \A i \in 1 .. Len(Tail(q)) : Tail(q)[i] = q[i + 1]
  BY <1>1, HeadTailProperties, EmptySeq
<1> DEFINE n == Len(q)
<1>3. Head(q) = q[1] /\ 1 \in 1 .. n BY <1>2
<1>4. ASSUME NEW i \in 1 .. Len(Tail(q))
      PROVE  i \in Int /\ i + 1 \in 2 .. n /\ Tail(q)[i] = q[i + 1]
  BY <1>2
<1>5. ASSUME NEW i \in 2 .. n PROVE i - 1 \in 1 .. Len(Tail(q)) /\ Tail(q)[i - 1] = q[i]
  <2>1. i - 1 \in 1 .. Len(Tail(q)) /\ (i - 1) + 1 = i BY <1>2
  <2> QED BY <1>2, <2>1
<1>6. LastLocks(Tail(q), p, b)
  <2>1. ASSUME NEW i \in 1 .. Len(Tail(q)), Affects(Tail(q)[i], p),
               \A j \in i + 1 .. Len(Tail(q)) : ~Affects(Tail(q)[j], p)
        PROVE  Tail(q)[i].op = "lock" <=> b
    <3>1. i + 1 \in 1 .. n /\ Affects(q[i + 1], p) BY <1>2, <1>4, <2>1
    <3>2. ASSUME NEW j \in (i + 1) + 1 .. n PROVE ~Affects(q[j], p)
      <4>1. j \in 2 .. n /\ j - 1 \in i + 1 .. Len(Tail(q)) BY <1>2
      <4> QED BY <1>5, <2>1, <4>1
    <3>3. q[i + 1].op = "lock" <=> b BY <3>1, <3>2 DEF LastLocks
    <3> QED BY <1>4, <3>3
  <2> QED BY <2>1 DEF LastLocks
<1>7. ASSUME Affects(Head(q), p), Free(Tail(q), p) PROVE Head(q).op = "lock" <=> b
  <2>1. ASSUME NEW j \in 1 + 1 .. n PROVE ~Affects(q[j], p)
    <3>1. j \in 2 .. n OBVIOUS
    <3>2. q[j] \in Tasks(Tail(q)) BY <1>5, <3>1 DEF Tasks
    <3> QED BY <1>7, <3>2 DEF Free
  <2> QED BY <1>3, <1>7, <2>1 DEF LastLocks
<1>8. Free(q, p) => Free(Tail(q), p) /\ ~Affects(Head(q), p)
  <2>1. Head(q) \in Tasks(q) /\ Tasks(Tail(q)) \subseteq Tasks(q) BY QueueTail
  <2> QED BY <2>1 DEF Free
<1>9. ASSUME Free(Tail(q), p), ~Affects(Head(q), p) PROVE Free(q, p)
  <2>1. ASSUME NEW t \in Tasks(q) PROVE ~Affects(t, p)
    <3>1. PICK i \in 1 .. n : t = q[i] BY DEF Tasks
    <3>2. CASE i = 1 BY <1>3, <1>9, <3>1, <3>2
    <3>3. CASE i # 1
      <4>1. i \in 2 .. n BY <1>2, <3>3
      <4>2. t \in Tasks(Tail(q)) BY <1>5, <3>1, <4>1 DEF Tasks
      <4> QED BY <1>9, <4>2 DEF Free
    <3> QED BY <3>2, <3>3
  <2> QED BY <2>1 DEF Free
<1> QED BY <1>6, <1>7, <1>8, <1>9

\* The tasks of two queues in a row.
LEMMA Positions ==
  ASSUME NEW q, NEW r, QueueT(q), QueueT(r)
  PROVE  /\ Len(q) \in Nat /\ Len(r) \in Nat /\ Len(q \o r) = Len(q) + Len(r)
         /\ \A i \in 1 .. Len(q) : (q \o r)[i] = q[i]
         /\ \A i \in 1 .. Len(r) : (q \o r)[Len(q) + i] = r[i]
<1>1. q \in Seq(TaskR) /\ r \in Seq(TaskR) BY DEF QueueT
<1> DEFINE s == q \o r
<1>2. /\ Len(q) \in Nat /\ Len(r) \in Nat /\ Len(s) = Len(q) + Len(r)
      /\ \A i \in 1 .. Len(q) + Len(r) : s[i] = IF i <= Len(q) THEN q[i] ELSE r[i - Len(q)]
  BY <1>1, ConcatProperties
<1> HIDE DEF s
<1>3. ASSUME NEW i \in 1 .. Len(q) PROVE s[i] = q[i] BY <1>2
<1>4. ASSUME NEW i \in 1 .. Len(r) PROVE s[Len(q) + i] = r[i]
  <2>1. Len(q) + i \in 1 .. Len(q) + Len(r) /\ ~(Len(q) + i <= Len(q))
        /\ (Len(q) + i) - Len(q) = i
    BY <1>2
  <2> QED BY <1>2, <2>1
<1> QED BY <1>2, <1>3, <1>4 DEF s

LEMMA BothParts ==
  ASSUME NEW q, NEW r, QueueT(q), QueueT(r), NEW p
  PROVE  Free(q \o r, p) <=> Free(q, p) /\ Free(r, p)
<1>1. Tasks(q \o r) \subseteq Tasks(q) \cup Tasks(r) BY QueueConcat
<1>2. /\ Len(q) \in Nat /\ Len(r) \in Nat /\ Len(q \o r) = Len(q) + Len(r)
      /\ \A i \in 1 .. Len(q) : (q \o r)[i] = q[i]
      /\ \A i \in 1 .. Len(r) : (q \o r)[Len(q) + i] = r[i]
  BY Positions
<1>3. ASSUME NEW t \in Tasks(q) PROVE t \in Tasks(q \o r)
  <2>1. PICK i \in 1 .. Len(q) : t = q[i] BY DEF Tasks
  <2>2. i \in 1 .. Len(q \o r) BY <1>2
  <2> QED BY <1>2, <2>1, <2>2 DEF Tasks
<1>4. ASSUME NEW t \in Tasks(r) PROVE t \in Tasks(q \o r)
  <2>1. PICK i \in 1 .. Len(r) : t = r[i] BY DEF Tasks
  <2>2. Len(q) + i \in 1 .. Len(q \o r) BY <1>2
  <2> QED BY <1>2, <2>1, <2>2 DEF Tasks
<1> QED BY <1>1, <1>3, <1>4 DEF Free

\* Tasks sent that are not about the lock change nothing.
LEMMA LocksSame ==
  ASSUME NEW q, NEW r, QueueT(q), QueueT(r), NEW p, NEW b, Free(r, p), LastLocks(q, p, b)
  PROVE  LastLocks(q \o r, p, b)
<1> DEFINE s == q \o r
           m == Len(q)
           n == Len(r)
<1>1. /\ m \in Nat /\ n \in Nat /\ Len(s) = m + n
      /\ \A i \in 1 .. m : s[i] = q[i]
      /\ \A i \in 1 .. n : s[m + i] = r[i]
  BY Positions
<1> HIDE DEF s
<1>2. ASSUME NEW i \in 1 .. Len(s), Affects(s[i], p) PROVE i \in 1 .. m
  <2>1. ASSUME ~(i \in 1 .. m) PROVE FALSE
    <3>1. i - m \in 1 .. n /\ m + (i - m) = i BY <1>1, <2>1
    <3>2. s[i] = r[i - m] BY <1>1, <3>1
    <3>3. r[i - m] \in Tasks(r) BY <3>1 DEF Tasks
    <3> QED BY <1>2, <3>2, <3>3 DEF Free
  <2> QED BY <2>1
<1>3. ASSUME NEW i \in 1 .. Len(s), Affects(s[i], p),
             \A j \in i + 1 .. Len(s) : ~Affects(s[j], p)
      PROVE  s[i].op = "lock" <=> b
  <2>1. i \in 1 .. m /\ s[i] = q[i] BY <1>1, <1>2, <1>3
  <2>2. ASSUME NEW j \in i + 1 .. m PROVE ~Affects(q[j], p)
    <3>1. j \in i + 1 .. Len(s) /\ j \in 1 .. m BY <1>1, <2>1
    <3> QED BY <1>1, <1>3, <3>1
  <2> QED BY <1>3, <2>1, <2>2 DEF LastLocks
<1> QED BY <1>3 DEF LastLocks, s

\* If what is sent sets the lock, what was sent before does not matter.
LEMMA LocksNew ==
  ASSUME NEW q, NEW r, QueueT(q), QueueT(r), NEW p, NEW b, ~Free(r, p),
         \A t \in Tasks(r) : Affects(t, p) => (t.op = "lock" <=> b)
  PROVE  LastLocks(q \o r, p, b)
<1> DEFINE s == q \o r
           m == Len(q)
           n == Len(r)
<1>1. /\ m \in Nat /\ n \in Nat /\ Len(s) = m + n
      /\ \A i \in 1 .. m : s[i] = q[i]
      /\ \A i \in 1 .. n : s[m + i] = r[i]
  BY Positions
<1> HIDE DEF s
<1>2. PICK k \in 1 .. n : Affects(r[k], p) BY DEF Free, Tasks
<1>3. m + k \in 1 .. Len(s) /\ Affects(s[m + k], p) BY <1>1, <1>2
<1>4. ASSUME NEW i \in 1 .. Len(s), Affects(s[i], p),
             \A j \in i + 1 .. Len(s) : ~Affects(s[j], p)
      PROVE  s[i].op = "lock" <=> b
  <2>1. ~(m + k \in i + 1 .. Len(s)) BY <1>3, <1>4
  <2>2. i - m \in 1 .. n /\ m + (i - m) = i BY <1>1, <1>3, <2>1
  <2>3. s[i] = r[i - m] BY <1>1, <2>2
  <2>4. r[i - m] \in Tasks(r) BY <2>2 DEF Tasks
  <2> QED BY <1>4, <2>3, <2>4
<1> QED BY <1>4 DEF LastLocks, s

\* The tasks r set every lock to b.
Sets(r, b) ==
  /\ QueueT(r)
  /\ \A p \in Players : ~Free(r, p)
  /\ \A t \in Tasks(r) : t.op \in {"lock", "unlock", "bundle"} => (t.op = "lock" <=> b)

LEMMA LocksSet ==
  ASSUME RecordInv, NEW r, NEW b, Sets(r, b), taskQueue' = taskQueue \o r, Fighting' <=> b
  PROVE  Locks'
<1>1. QueueT(taskQueue) /\ QueueT(r) BY DEF RecordInv, SettleInv, Shapes, Sets
<1>2. ASSUME NEW p \in Players
      PROVE  LastLocks(taskQueue', p, Fighting') /\ ~Free(taskQueue', p)
  <2>1. ~Free(r, p) /\ \A t \in Tasks(r) : Affects(t, p) => (t.op = "lock" <=> b)
    BY DEF Sets, Affects
  <2>2. LastLocks(taskQueue \o r, p, Fighting')
    <3>1. \A t \in Tasks(r) : Affects(t, p) => (t.op = "lock" <=> Fighting') BY <2>1
    <3> QED BY <1>1, <2>1, <3>1, LocksNew
  <2>3. ~Free(taskQueue \o r, p) BY <1>1, <2>1, BothParts
  <2> QED BY <2>2, <2>3
<1> QED BY <1>2 DEF Locks

LEMMA CreateLocks ==
  ASSUME RecordInv, NEW f \in Fights, CreateFight(f) PROVE Locks'
<1> DEFINE t == Task("lock", f, PlayerA, {})
           u == Task("lock", f, PlayerB, {})
           r == <<t, u>>
<1>1. Stage(f, "fighting") /\ taskQueue' = taskQueue \o r BY DEF CreateFight, Enqueue
<1>2. t \in TaskR /\ u \in TaskR /\ t.op = "lock" /\ u.op = "lock" /\ Named(t) /\ Named(u)
      /\ t.who = PlayerA /\ u.who = PlayerB
  <2>1. PlayerA \in Players /\ PlayerB \in Players /\ "lock" \in Ops BY DEF Players, Ops
  <2> QED BY <2>1, TaskTyped DEF Named
<1> HIDE DEF t, u
<1>3. QueueT(r) /\ Tasks(r) = {t, u} BY <1>2, QueueTwo
<1>4. \A p \in Players : p = t.who \/ p = u.who BY <1>2 DEF Players
<1> HIDE DEF r
<1>5. Sets(r, TRUE) BY <1>2, <1>3, <1>4 DEF Sets, Free, Affects
<1>6. fights'[f].stage = "fighting" BY <1>1, StageEffect DEF RecordInv, SettleInv
<1>7. Fighting' <=> TRUE BY <1>6 DEF Fighting
<1> QED BY <1>1, <1>5, <1>7, LocksSet

\* When a fight ends none is left.
LEMMA NoneFights ==
  ASSUME RecordInv, InOrder, NEW f \in Fights, NEW w \in Players \cup {Draw}, Ends(f, w)
  PROVE  Fighting' <=> FALSE
<1>1. \A g \in Fights : fights'[g].stage = IF g = f THEN "over" ELSE fights[g].stage
  BY EndsEffect
<1>2. fights[f].stage = "fighting" BY DEF Ends
<1>3. \A g \in Fights : fights[g].stage = "fighting" => g = f BY <1>2, OneFight
<1> QED BY <1>1, <1>3 DEF Fighting

LEMMA WonLocks ==
  ASSUME RecordInv, RecordInv', InOrder, NEW f \in Fights, NEW w \in Players, FinishWon(f, w)
  PROVE  Locks'
<1> DEFINE r == WinTasks(f, w)
<1>1. taskQueue' = taskQueue \o r /\ Ends(f, w) BY DEF FinishWon, Enqueue, Ends
<1>2. cache'.rating[w] \in SUBSET Fights BY DEF RecordInv, SettleInv, Shapes
<1>3. /\ QueueT(r)
      /\ \A t \in Tasks(r) : t.op # "bundle" /\ t.op # "lock"
      /\ \A p \in Players : \E t \in Tasks(r) : t.op = "unlock" /\ t.who = p
  BY <1>2, WinIds
<1>4. Fighting' <=> FALSE BY <1>1, NoneFights
<1> HIDE DEF r
<1>5. Sets(r, FALSE) BY <1>3 DEF Sets, Free, Affects
<1> QED BY <1>1, <1>4, <1>5, LocksSet

LEMMA DrawnLocks ==
  ASSUME RecordInv, InOrder, NEW f \in Fights, FinishDrawn(f) PROVE Locks'
<1> DEFINE t == Task("bundle", f, None, {})
           r == <<t>>
<1>1. taskQueue' = taskQueue \o r /\ Ends(f, Draw) BY DEF FinishDrawn, Enqueue, Ends
<1>2. t \in TaskR /\ t.op = "bundle" /\ Named(t)
  <2>1. None \in Players \cup {None} /\ "bundle" \in Ops BY DEF Ops
  <2> QED BY <2>1, TaskTyped DEF Named
<1> HIDE DEF t
<1>3. QueueT(r) /\ Tasks(r) = {t} BY <1>2, QueueOne
<1>4. Fighting' <=> FALSE BY <1>1, NoneFights
<1> HIDE DEF r
<1>5. Sets(r, FALSE) BY <1>2, <1>3 DEF Sets, Free, Affects
<1> QED BY <1>1, <1>4, <1>5, LocksSet

LEMMA QuietLocks ==
  ASSUME RecordInv, Locks, Quiet("cancel"), SameFights PROVE Locks'
<1>1. PICK r : /\ taskQueue' = taskQueue \o r /\ QueueT(r)
               /\ \A t \in Tasks(r) : t.op = "cancel"
  BY DEF Quiet
<1>2. QueueT(taskQueue) BY DEF RecordInv, SettleInv, Shapes
<1>3. chain'.locked = chain.locked /\ seen'.failed = seen.failed BY DEF Quiet
<1>4. Fighting' <=> Fighting BY DEF Fighting, SameFights
<1>5. ASSUME NoLockFailed, NEW p \in Players
      PROVE  /\ LastLocks(taskQueue', p, Fighting')
             /\ Free(taskQueue', p) => (p \in chain'.locked <=> Fighting')
  <2>1. Free(r, p) BY <1>1 DEF Free, Affects
  <2>2. /\ LastLocks(taskQueue, p, Fighting)
        /\ Free(taskQueue, p) => (p \in chain.locked <=> Fighting)
    BY <1>5 DEF Locks
  <2>3. LastLocks(taskQueue, p, Fighting') BY <1>4, <2>2 DEF LastLocks
  <2>4. LastLocks(taskQueue \o r, p, Fighting') BY <1>1, <1>2, <2>1, <2>3, LocksSame
  <2>5. Free(taskQueue \o r, p) => Free(taskQueue, p) BY <1>1, <1>2, BothParts
  <2> QED BY <1>1, <1>3, <1>4, <2>2, <2>4, <2>5
<1>6. NoLockFailed' <=> NoLockFailed BY <1>3 DEF NoLockFailed
<1> QED BY <1>5, <1>6 DEF Locks

LEMMA AttemptLocks ==
  ASSUME RecordInv, RecordInv', Locks, taskQueue # <<>>, NEW t, t = Head(taskQueue),
         NEW landed \in BOOLEAN, NEW good \in BOOLEAN, NEW gone \in BOOLEAN,
         Attempt(t, landed, good, gone)
  PROVE  Locks'
<1>1. /\ good => landed /\ gone /\ seen'.failed = seen.failed
      /\ ~good => seen'.failed = seen.failed \cup IF gone THEN {Id(t)} ELSE {}
      /\ gone => taskQueue' = Tail(taskQueue) \o NextUpdate(t)
      /\ ~gone => UNCHANGED taskQueue
      /\ UNCHANGED fights
      /\ \A p \in Players :
           p \in chain'.locked <=>
                CASE landed /\ t.op = "lock" /\ t.who = p -> TRUE
                  [] landed /\ (t.op = "bundle" \/ (t.op = "unlock" /\ t.who = p)) -> FALSE
                  [] OTHER -> p \in chain.locked
  BY DEF Attempt
<1>2. QueueT(taskQueue) /\ cache'.rating \in Ratings
  BY DEF RecordInv, SettleInv, Shapes, Ratings
<1>3. t \in Tasks(taskQueue) BY HeadTask
<1>4. QueueT(Tail(taskQueue)) BY <1>2, QueueTail
<1>5. QueueT(NextUpdate(t)) /\ \A u \in Tasks(NextUpdate(t)) : u.op = "update"
  BY <1>2, <1>3, NextUpdateIds
<1>6. Fighting' <=> Fighting BY <1>1 DEF Fighting
<1>7. NoLockFailed' => NoLockFailed
  <2>1. seen.failed \subseteq seen'.failed BY <1>1
  <2> QED BY <2>1 DEF NoLockFailed
<1>8. ASSUME NoLockFailed', NEW p \in Players
      PROVE  /\ LastLocks(taskQueue', p, Fighting')
             /\ Free(taskQueue', p) => (p \in chain'.locked <=> Fighting')
  <2>1. /\ LastLocks(taskQueue, p, Fighting)
        /\ Free(taskQueue, p) => (p \in chain.locked <=> Fighting)
    BY <1>7, <1>8 DEF Locks
  <2>2. LastLocks(taskQueue, p, Fighting') BY <1>6, <2>1 DEF LastLocks
  <2>3. ~Affects(t, p) => (p \in chain'.locked <=> p \in chain.locked) BY <1>1 DEF Affects
  <2>4. CASE ~gone
    <3>1. Free(taskQueue, p) => ~Affects(t, p) BY <1>3 DEF Free
    <3> QED BY <1>1, <1>6, <2>1, <2>2, <2>3, <2>4, <3>1
  <2>5. CASE gone
    <3> DEFINE q == Tail(taskQueue)
               r == NextUpdate(t)
    <3>1. /\ LastLocks(q, p, Fighting')
          /\ Affects(t, p) /\ Free(q, p) => (t.op = "lock" <=> Fighting')
          /\ Free(taskQueue, p) <=> Free(q, p) /\ ~Affects(t, p)
      BY <1>2, <2>2, LocksTail
    <3>2. QueueT(q) /\ QueueT(r) /\ Free(r, p) BY <1>4, <1>5 DEF Free, Affects
    <3>3. taskQueue' = q \o r BY <1>1, <2>5
    <3> HIDE DEF q, r
    <3>4. LastLocks(q \o r, p, Fighting') BY <3>1, <3>2, LocksSame
    <3>5. Free(q \o r, p) <=> Free(q, p) BY <3>2, BothParts
    <3>6. CASE ~Affects(t, p) BY <1>6, <2>1, <2>3, <3>1, <3>3, <3>4, <3>5, <3>6
    <3>7. CASE Affects(t, p)
      <4>1. good
        <5>1. CASE ~good
          <6>1. Id(t) \in seen'.failed BY <1>1, <2>5, <5>1
          <6>2. Id(t)[1] \in {"lock", "unlock", "bundle"} BY <3>7 DEF Id, Affects
          <6> QED BY <1>8, <6>1, <6>2 DEF NoLockFailed
        <5> QED BY <5>1
      <4>2. p \in chain'.locked <=> t.op = "lock" BY <1>1, <3>7, <4>1 DEF Affects
      <4> QED BY <3>1, <3>3, <3>4, <3>5, <3>7, <4>2
    <3> QED BY <3>6, <3>7
  <2> QED BY <2>4, <2>5
<1> QED BY <1>8 DEF Locks

(***************************************************************************)
(* Records and results                                                     *)
(***************************************************************************)
Accounts == Counted /\ RatingsMirrored /\ RatingsDue /\ Locks

AgreeInv == RecordInv /\ InOrder /\ (NoCrash => Accounts)

LEMMA AgreeInit == Init => AgreeInv
<1> SUFFICES ASSUME Init PROVE AgreeInv OBVIOUS
<1>1. /\ chain = [wager  |-> [f \in Fights |-> "ABSENT"],
                  record |-> [p \in Players |-> [f \in Fights |-> 0]],
                  rating |-> [p \in Players |-> {}], locked |-> {}]
      /\ cache = [record |-> chain.record, rating |-> chain.rating]
      /\ fights \in [Fights -> [kind : Kinds, stage : {"none"}, winner : {None}]]
      /\ taskQueue = <<>>
      /\ seen = [lost |-> {}, failed |-> {}, interrupted |-> {}, expired |-> {},
                 overlap |-> FALSE, crashes |-> 0, faults |-> 0]
  BY DEF Init
<1>2. \A f \in Fights : fights[f].stage = "none" /\ fights[f].winner = None BY <1>1
<1>3. QueueT(taskQueue) /\ Tasks(taskQueue) = {} BY <1>1, QueueEmpty
<1>4. OnlyOnce(taskQueue) /\ Ids(taskQueue) = {} BY <1>3, IdsNone
<1>5. \A p \in Players : /\ \A f \in Fights : chain.record[p][f] = 0 /\ cache.record[p][f] = 0
                         /\ chain.rating[p] = {} /\ cache.rating[p] = {}
  BY <1>1
<1>6. seen.lost = {} /\ seen.failed = {} /\ chain.locked = {} BY <1>1
<1>7. \A f \in Fights : ~Over(f) /\ ~Decided(f) BY <1>2, Given DEF Over, Decided
<1>8. Counted
  <2>1. \A f \in Fights, p \in Players : CountI(f, p)
    BY <1>5, <1>6, <1>7 DEF CountI, Fresh
  <2> QED BY <1>3, <1>4, <2>1 DEF Counted
<1>9. Due = {} BY <1>7 DEF Due
<1>10. RatingsMirrored /\ RatingsDue BY <1>3, <1>5, <1>9 DEF RatingsMirrored, RatingsDue
<1>11. ~Fighting BY <1>2 DEF Fighting
<1>12. Len(taskQueue) = 0 BY <1>1
<1>13. Locks
  <2>1. \A p \in Players : LastLocks(taskQueue, p, Fighting) BY <1>12 DEF LastLocks
  <2> QED BY <1>6, <1>11, <2>1 DEF Locks
<1>14. InOrder BY <1>2 DEF InOrder
<1> QED BY <1>8, <1>10, <1>13, <1>14, RecordInit DEF AgreeInv, Accounts

LEMMA CrashesGrow ==
  ASSUME RecordInv, [Next]_vars, NoCrash' PROVE NoCrash /\ ~Crash
<1>1. DOMAIN seen = SeenFields /\ seen.crashes \in Nat
  BY Given DEF RecordInv, SettleInv, Shapes, Rest, SeenRest
<1>2. CASE Crash
  <2> DEFINE i == seen.interrupted
                    \cup {f \in Fights : fights[f].stage \in {"accepted", "fighting"}}
                    \cup {f \in Fights : Over(f) /\ told[f] # "settled"}
  <2>1. seen' = [seen EXCEPT !.crashes = @ + 1, !.interrupted = i] BY <1>2 DEF Crash
  <2> HIDE DEF i
  <2>2. seen'.crashes = seen.crashes + 1 BY <1>1, <2>1 DEF SeenFields
  <2> QED BY <1>1, <2>2 DEF NoCrash
<1>3. CASE ~Crash
  <2>1. CASE UNCHANGED seen BY <1>3, <2>1 DEF NoCrash
  <2>2. ASSUME NEW op, Quiet(op) PROVE NoCrash BY <2>2 DEF Quiet, NoCrash
  <2>3. ASSUME NEW f \in Fights, NEW w \in Players, FinishWon(f, w) PROVE NoCrash
    <3> DEFINE o == seen.overlap \/ \E i \in DOMAIN taskQueue : taskQueue[i].op = "update"
    <3>1. seen' = [seen EXCEPT !.overlap = o] BY <2>3 DEF FinishWon
    <3> HIDE DEF o
    <3> QED BY <1>1, <3>1 DEF SeenFields, NoCrash
  <2>4. ASSUME NEW f \in Fights, FinishDrawn(f) PROVE NoCrash BY <2>1, <1>3, <2>4 DEF FinishDrawn
  <2>5. CASE AttemptSucceeds BY <1>3, <2>1, <2>5 DEF AttemptSucceeds
  <2>6. CASE AttemptFails
    <3> DEFINE t == Head(taskQueue)
               id == <<t.op, t.fight, t.who>>
    <3>1. \E landed \in BOOLEAN :
            seen' = [seen EXCEPT !.lost = IF landed /\ t.op \in {"update", "bundle"}
                                          THEN @ \cup {id} ELSE @,
                                 !.failed = IF LastAttempt THEN @ \cup {id} ELSE @,
                                 !.faults = IF CanExecute(t) /\ attempt = 0 THEN @ + 1 ELSE @]
      BY <2>6 DEF AttemptFails
    <3> HIDE DEF t, id
    <3>2. seen'.crashes = seen.crashes BY <1>1, <3>1 DEF SeenFields
    <3> QED BY <1>3, <3>2 DEF NoCrash
  <2>7. CASE AttemptStalls
    <3> DEFINE t == Head(taskQueue)
               id == <<t.op, t.fight, t.who>>
    <3>1. \E landed \in BOOLEAN :
            seen' = [seen EXCEPT !.lost = IF landed /\ t.op \in {"update", "bundle"}
                                          THEN @ \cup {id} ELSE @,
                                 !.faults = @ + 1]
      BY <2>7 DEF AttemptStalls
    <3> HIDE DEF t, id
    <3>2. seen'.crashes = seen.crashes BY <1>1, <3>1 DEF SeenFields
    <3> QED BY <1>3, <3>2 DEF NoCrash
  <2> QED BY <1>3, <2>2, <2>3, <2>4, <2>5, <2>6, <2>7, FightsQuiet
<1> QED BY <1>2, <1>3

LEMMA AgreeStep == AgreeInv /\ [Next]_vars => AgreeInv'
<1> SUFFICES ASSUME AgreeInv, [Next]_vars PROVE AgreeInv' OBVIOUS
<1>1. RecordInv /\ RecordInv' BY RecordStep DEF AgreeInv
<1>2. InOrder /\ InOrder' BY OrderStays DEF AgreeInv
<1>3. ASSUME NoCrash', Accounts PROVE Accounts'
  <2>1. Counted /\ RatingsMirrored /\ RatingsDue /\ Locks BY <1>3 DEF Accounts
  <2>2. \A t \in Tasks(taskQueue) : BothI(t) BY <2>1 DEF Counted
  <2>3. ASSUME NEW f \in Fights, NEW w \in Players, FinishWon(f, w) PROVE Accounts'
    BY <1>1, <1>2, <2>1, <2>3, WonCounts, WonRatings, WonLocks DEF Accounts
  <2>4. ASSUME NEW f \in Fights, FinishDrawn(f) PROVE Accounts'
    BY <1>1, <1>2, <2>1, <2>4, DrawnCounts, DrawnRatings, DrawnLocks DEF Accounts
  <2>5. ASSUME taskQueue # <<>>, NEW landed \in BOOLEAN, NEW good \in BOOLEAN, NEW gone \in BOOLEAN,
               Attempt(Head(taskQueue), landed, good, gone)
        PROVE  Accounts'
    BY <1>1, <2>1, <2>5, AttemptCounts, AttemptRatings, AttemptLocks DEF Accounts
  <2>6. CASE AttemptSucceeds
    <3>1. taskQueue # <<>> /\ Attempt(Head(taskQueue), TRUE, TRUE, TRUE)
      BY <1>1, <2>2, <2>6, SucceedsIs
    <3> QED BY <2>5, <3>1
  <2>7. CASE AttemptFails
    <3>1. /\ taskQueue # <<>>
          /\ \E landed \in BOOLEAN, gone \in BOOLEAN :
               Attempt(Head(taskQueue), landed, FALSE, gone)
      BY <1>1, <2>2, <2>7, FailsIs
    <3> QED BY <2>5, <3>1
  <2>11. CASE AttemptStalls
    <3>1. /\ taskQueue # <<>>
          /\ \E landed \in BOOLEAN : Attempt(Head(taskQueue), landed, FALSE, FALSE)
      BY <1>1, <2>2, <2>11, StallsIs
    <3> QED BY <2>5, <3>1
  <2>8. ~Crash BY <1>1, <1>3, CrashesGrow
  <2>9. ASSUME NEW f \in Fights, CreateFight(f) PROVE Accounts'
    <3>1. Quiet("lock") \/ Crash \/ AttemptSucceeds \/ AttemptFails \/ AttemptStalls
          \/ (\E g \in Fights, w \in Players : FinishWon(g, w)) \/ \E g \in Fights : FinishDrawn(g)
      BY <1>1, <2>9, FightsQuiet
    <3>2. CASE Quiet("lock")
      BY <1>1, <2>1, <2>9, <3>2, QuietCounts, QuietRatings, CreateLocks DEF Accounts
    <3> QED BY <2>3, <2>4, <2>6, <2>7, <2>8, <2>11, <3>1, <3>2
  <2>10. CASE Quiet("cancel") /\ SameFights
    BY <1>1, <2>1, <2>10, QuietCounts, QuietRatings, QuietLocks DEF Accounts
  <2> QED BY <1>1, <2>3, <2>4, <2>6, <2>7, <2>8, <2>9, <2>10, <2>11, FightsQuiet
<1>4. NoCrash' => NoCrash BY <1>1, CrashesGrow
<1> QED BY <1>1, <1>2, <1>3, <1>4 DEF AgreeInv

\* With the queue empty nothing is outstanding.
LEMMA NothingLeft ==
  ASSUME taskQueue = <<>>
  PROVE  /\ Tasks(taskQueue) = {} /\ Ids(taskQueue) = {}
         /\ \A f, p : ~Outstanding(f, p)
<1>1. Tasks(taskQueue) = {} BY QueueEmpty
<1>2. Ids(taskQueue) = {} BY <1>1, IdsNone
<1> QED BY <1>1, <1>2 DEF Outstanding

LEMMA LocksFollow == AgreeInv => LocksFollowFights
<1> SUFFICES ASSUME AgreeInv, Idle, NoCrash,
                    \A id \in seen.failed : id[1] \notin {"lock", "unlock", "bundle"}
             PROVE  chain.locked = IF \E f \in Fights : fights[f].stage = "fighting"
                                   THEN Players ELSE {}
  BY DEF LocksFollowFights
<1>1. Locks /\ NoLockFailed BY DEF AgreeInv, Accounts, NoLockFailed
<1>2. Tasks(taskQueue) = {} BY NothingLeft DEF Idle
<1>3. \A p \in Players : p \in chain.locked <=> Fighting BY <1>1, <1>2 DEF Locks, Free
<1>4. chain.locked \in SUBSET Players BY DEF AgreeInv, RecordInv, Rest, ChainRest
<1> QED BY <1>3, <1>4 DEF Fighting

LEMMA CountedFollows == AgreeInv => CountedAsAnswered
<1> SUFFICES ASSUME AgreeInv, NEW f \in Fights, NEW p \in Players,
                    Over(f), NoCrash, ~Pending(ResultId(f, p)[1], f)
             PROVE  /\ ResultId(f, p) \notin seen.lost =>
                         chain.record[p][f] = IF ResultId(f, p) \in seen.failed THEN 0 ELSE 1
                    /\ ResultId(f, p) \notin seen.failed => chain.record[p][f] >= 1
  BY DEF CountedAsAnswered, ResultId
<1>1. CountI(f, p) /\ RecordInv BY DEF AgreeInv, Accounts, Counted
<1>2. ~Outstanding(f, p)
  <2>1. ASSUME NEW o, ResultId(f, o) \in Ids(taskQueue) PROVE FALSE
    <3>1. PICK i \in 1 .. Len(taskQueue) :
            Counting(taskQueue[i]) /\ ResultId(f, o) = Id(taskQueue[i])
      BY <2>1, IdsFrom
    <3>2. taskQueue[i].op = ResultId(f, p)[1] /\ taskQueue[i].fight = f
      BY <3>1 DEF Id, ResultId
    <3>3. DOMAIN taskQueue = 1 .. Len(taskQueue)
      <4>1. taskQueue \in Seq(TaskR) BY <1>1 DEF RecordInv, SettleInv, Shapes, QueueT
      <4> QED BY <4>1
    <3> QED BY <3>2, <3>3 DEF Pending
  <2> QED BY <2>1 DEF Outstanding
<1> QED BY <1>1, <1>2 DEF CountI

LEMMA CacheFollows == AgreeInv => CacheMirrorsChain
<1> SUFFICES ASSUME AgreeInv, Idle, NoCrash,
                    \A id \in seen.failed : id[1] \notin {"update", "bundle"}
             PROVE  cache.record = chain.record /\ cache.rating = chain.rating
  BY DEF CacheMirrorsChain
<1>1. /\ \A f \in Fights, p \in Players : CountI(f, p)
      /\ RatingsMirrored /\ NoUpdateFailed
  BY DEF AgreeInv, Accounts, Counted, NoUpdateFailed
<1>2. \A f, p : ~Outstanding(f, p) BY NothingLeft DEF Idle
<1>3. ASSUME NEW f \in Fights, NEW p \in Players PROVE cache.record[p][f] = chain.record[p][f]
  <2>1. CountI(f, p) BY <1>1
  <2>2. ResultId(f, p) \notin seen.failed
    <3>1. ResultId(f, p)[1] \in {"update", "bundle"} BY DEF ResultId
    <3> QED BY <3>1
  <2> QED BY <1>2, <2>1, <2>2 DEF CountI
<1>4. \A p \in Players : cache.rating[p] = chain.rating[p]
  BY <1>1, <1>2 DEF RatingsMirrored, UpToDate
<1>5. /\ cache.record \in Records /\ chain.record \in Records
      /\ cache.rating \in Ratings /\ chain.rating \in Ratings
  BY DEF AgreeInv, RecordInv, Rest, ChainRest, SettleInv, Shapes, Ratings
<1>6. cache.rating = chain.rating BY <1>4, <1>5 DEF Ratings
<1>7. ASSUME NEW p \in Players PROVE cache.record[p] = chain.record[p]
  <2>1. cache.record[p] \in [Fights -> Nat] /\ chain.record[p] \in [Fights -> Nat]
    BY <1>5 DEF Records
  <2> QED BY <1>3, <2>1
<1>8. cache.record = chain.record BY <1>5, <1>7 DEF Records
<1> QED BY <1>6, <1>8

LEMMA RatingFollows == AgreeInv => RatingCompleteWithoutOverlap
<1> SUFFICES ASSUME AgreeInv, ~seen.overlap, Idle, NoCrash,
                    \A id \in seen.failed : id[1] # "update", NEW p \in Players
             PROVE  chain.rating[p] = {f \in Fights : Decided(f) /\ Rated(f)}
  BY DEF RatingCompleteWithoutOverlap, RatingComplete
<1>1. RatingsMirrored /\ RatingsDue /\ NoUpdateFailed
  BY DEF AgreeInv, Accounts, NoUpdateFailed
<1>2. UpToDate(p) BY NothingLeft DEF Idle, UpToDate
<1>3. cache.rating[p] = chain.rating[p] BY <1>1, <1>2 DEF RatingsMirrored
<1>4. cache.rating[p] = Due BY <1>1 DEF RatingsDue
<1> QED BY <1>3, <1>4 DEF Due

\* With the queue drained exactly the characters that fight are locked; the
\* chain has counted a result once for every answer the server saw; and the
\* server's records are those of the chain: whatever answers are lost, up to
\* the transactions that were given up and as long as the server runs.
THEOREM AccountsAgree == Spec => []RecordsAgree
<1>1. AgreeInv => RecordsAgree
  BY LocksFollow, CountedFollows, CacheFollows DEF RecordsAgree
<1> QED BY <1>1, AgreeInit, AgreeStep, PTL DEF Spec

\* A drawn wager fight counts with its refund, and the ratings on chain contain
\* every rated fight, unless a fight ended while an update was in the queue.
THEOREM ResultsComplete == Spec => []ResultsCount
<1>1. AgreeInv => ResultsCount
  BY RestTypes, RatingFollows DEF AgreeInv, ResultsCount
<1> QED BY <1>1, AgreeInit, AgreeStep, PTL DEF Spec
=============================================================================
