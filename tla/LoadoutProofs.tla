--------------------------- MODULE LoadoutProofs ---------------------------
(***************************************************************************)
(* Proofs about Loadout, for any items, slots, gear to start with and      *)
(* bounds: types, that no item is lost and nothing illegal is worn, that   *)
(* the lock guards the fight, and that the chain accepts what the client   *)
(* lets its player ask for.                                                *)
(***************************************************************************)
EXTENDS Loadout, SequenceTheorems, TLAPS

(***************************************************************************)
(* Types                                                                   *)
(***************************************************************************)
Counters == [edits : Nat, saves : Nat, fights : Nat, mishaps : Nat, failed : BOOLEAN,
             others : BOOLEAN, stale : BOOLEAN]
Tasks == Seq([expiry : Nat, of : Nat])

LEMMA NakedGear == Naked \in Gear
BY DEF Naked, Gear

\* The counters stay natural numbers.
LEMMA MishapCounts ==
  ASSUME used \in Counters, NEW f \in BOOLEAN, NEW o \in BOOLEAN, Mishap(f, o)
  PROVE  used' \in Counters
<1> DEFINE once == [used EXCEPT !.mishaps = @ + 1]
           twice == [once EXCEPT !.failed = @ \/ f]
<1>1. once \in Counters /\ once.failed = used.failed /\ once.others = used.others
  BY DEF Counters
<1>2. twice \in Counters /\ twice.others = used.others
  <2> HIDE DEF once
  <2> QED BY <1>1 DEF Counters
<1>3. [twice EXCEPT !.others = @ \/ o] \in Counters
  <2> HIDE DEF twice
  <2> QED BY <1>2 DEF Counters
<1>4. used' = [twice EXCEPT !.others = @ \/ o]
  BY <1>1, <1>2 DEF Mishap
<1> QED BY <1>3, <1>4

LEMMA FailedStartCounts ==
  ASSUME used \in Counters, NEW n \in Nat, NEW f \in BOOLEAN, NEW k \in Nat
  PROVE  /\ [used EXCEPT !.mishaps = n, !.failed = f] \in Counters
         /\ [used EXCEPT !.mishaps = n, !.failed = f, !.fights = k] \in Counters
<1> DEFINE once == [used EXCEPT !.mishaps = n]
           twice == [once EXCEPT !.failed = f]
<1>1. once \in Counters BY DEF Counters
<1>2. twice \in Counters
  <2> HIDE DEF once
  <2> QED BY <1>1 DEF Counters
<1>3. [twice EXCEPT !.fights = k] \in Counters
  <2> HIDE DEF twice
  <2> QED BY <1>2 DEF Counters
<1> QED BY <1>2, <1>3

LEMMA SpendCounts ==
  ASSUME used \in Counters, NEW b,
         Spend("edits", b) \/ Spend("saves", b) \/ Spend("fights", b)
  PROVE  used' \in Counters
BY DEF Counters, Spend

LEMMA StagingCounts ==
  ASSUME used \in Counters, NEW s, NEW i, StageEquip(s, i)
  PROVE  used' \in Counters
<1> DEFINE once == [used EXCEPT !.edits = @ + 1]
<1>1. once \in Counters /\ once.stale = used.stale BY DEF Counters
<1>2. [once EXCEPT !.stale = @ \/ i \notin wallet] \in Counters
  <2> HIDE DEF once
  <2> QED BY <1>1 DEF Counters
<1>3. used' = [once EXCEPT !.stale = @ \/ i \notin wallet]
  BY <1>1 DEF StageEquip
<1> QED BY <1>2, <1>3

LEMMA TypeInit == Init => TypeOK
<1> SUFFICES ASSUME Init PROVE TypeOK OBVIOUS
<1>1. slots \in Gear /\ wallet \subseteq Items /\ owned \subseteq Items
  BY LoadoutAssumption DEF Init, Worn, Gear
<1>2. used \in Counters
  BY DEF Init, Counters
<1> QED
  BY <1>1, <1>2, NakedGear DEF Init, NoFight, NoSave, TypeOK, Counters

\* What a save leaves in the slots is gear.
LEMMA LoadedIsGear ==
  ASSUME TypeOK, NEW p \in [st : {"none", "signing", "landed"}, base : Gear, goal : Gear]
  PROVE  Loaded(p) \in Gear
BY DEF TypeOK, Loaded, Freed, Gear, In, Out

LEMMA ReconciledIsGear == ASSUME NEW g \in Gear PROVE Reconciled(g) \in Gear
BY DEF Reconciled, Gear, Slots

LEMMA AppendTyped ==
  ASSUME NEW T, NEW s \in Seq(T), NEW e \in T
  PROVE  Append(s, e) \in Seq(T)
OBVIOUS

LEMMA TailTyped ==
  ASSUME NEW T, NEW s \in Seq(T), s # << >>
  PROVE  Tail(s) \in Seq(T) /\ Head(s) \in T
OBVIOUS

LEMMA TypeStep == TypeOK /\ [Next]_vars => TypeOK'
<1> SUFFICES ASSUME TypeOK, [Next]_vars PROVE TypeOK' OBVIOUS
<1> USE NakedGear
<1>u. used \in Counters BY DEF TypeOK, Counters
<1>1. ASSUME NEW s \in Slots, NEW i \in Items, equip(s, i) PROVE TypeOK'
  BY <1>1, <1>u, MishapCounts DEF equip, Races, ChainOnly, clientVars, TypeOK, Gear, Counters
<1>2. ASSUME NEW s \in Slots, unequip(s) PROVE TypeOK'
  BY <1>2, <1>u, MishapCounts DEF unequip, Races, ChainOnly, clientVars, TypeOK, Gear, Counters
<1>3. ASSUME NEW s \in Slots, NEW i \in Items, StageEquip(s, i) PROVE TypeOK'
  <2>1. pending' \in Gear
    BY <1>3 DEF StageEquip, TypeOK, Gear, Slots
  <2> QED
    BY <1>3, <2>1, <1>u, StagingCounts DEF StageEquip, chainVars, serverVars, TypeOK, Counters
<1>4. ASSUME NEW s \in Slots, StageUnequip(s) PROVE TypeOK'
  BY <1>4, <1>u, SpendCounts DEF StageUnequip, chainVars, serverVars, TypeOK, Gear, Counters
<1>5. CASE StageDiscard
  BY <1>5, <1>u, SpendCounts DEF StageDiscard, chainVars, serverVars, TypeOK, Counters
<1>6. CASE saveLoadout
  BY <1>6, <1>u, SpendCounts, ReconciledIsGear DEF saveLoadout, chainVars, serverVars, TypeOK, Counters
<1>7. CASE SaveLands
  <2>1. slots' \in Gear /\ wallet' \subseteq Items
    <3>1. save \in [st : {"none", "signing", "landed"}, base : Gear, goal : Gear]
      BY DEF TypeOK
    <3>2. slots' \in Gear
      BY <1>7, <3>1, LoadedIsGear DEF SaveLands
    <3>3. \A s \in Out(save) : slots[s] \in Items
      BY <1>7 DEF SaveLands, Executes, Out, Dirty, TypeOK, Gear
    <3> QED BY <1>7, <3>2, <3>3 DEF SaveLands, TypeOK
  <2> QED BY <1>7, <2>1 DEF SaveLands, Races, ChainOnly, TypeOK
<1>8. CASE SaveAborts
  BY <1>8 DEF SaveAborts, NoSave, chainVars, serverVars, TypeOK
<1>9. CASE CommitSaved
  BY <1>9 DEF CommitSaved, NoSave, chainVars, serverVars, TypeOK
<1>10. CASE SetCharacter
  BY <1>10, TailTyped DEF SetCharacter, chainVars, serverVars, TypeOK
<1>11. ASSUME NEW r \in Readers, ListSlots(r) PROVE TypeOK'
  <2>1. used' \in Counters
    BY <1>11, <1>u, MishapCounts, SpendCounts DEF ListSlots, Readers
  <2>2. read' \in [Readers -> [on : BOOLEAN, todo : SUBSET Slots, got : Gear]]
    BY <1>11 DEF ListSlots, TypeOK
  <2>3. fight' \in [on : BOOLEAN, gear : Gear, held : BOOLEAN, expiry : Nat, raced : BOOLEAN]
    BY <1>11 DEF ListSlots, TypeOK
  <2> QED
    BY <1>11, <2>1, <2>2, <2>3 DEF ListSlots, chainVars, clientVars, TypeOK, Counters
<1>12. ASSUME NEW r \in Readers, NEW s \in Slots, ReadSlot(r, s) PROVE TypeOK'
  <2>0. /\ read \in [Readers -> [on : BOOLEAN, todo : SUBSET Slots, got : Gear]]
        /\ slots \in Gear
    BY DEF TypeOK
  <2>g. [read[r].got EXCEPT ![s] = slots[s]] \in Gear
    BY <2>0 DEF Gear
  <2>1. read' \in [Readers -> [on : BOOLEAN, todo : SUBSET Slots, got : Gear]]
    BY <1>12, <2>0, <2>g DEF ReadSlot
  <2> QED BY <1>12, <2>1 DEF ReadSlot, chainVars, clientVars, TypeOK
<1>13. ASSUME NEW r \in Readers, NEW s \in Slots, ReadSlotFails(r, s) PROVE TypeOK'
  BY <1>13, <1>u, MishapCounts DEF ReadSlotFails, chainVars, clientVars, TypeOK, Counters
<1>14. CASE LoginOk
  BY <1>14, AppendTyped DEF LoginOk, Idle, Readers, chainVars, TypeOK
<1>f. ASSUME NEW n \in Nat, NEW g \in Gear, Fighting(n, g)
      PROVE  /\ fight' \in [on : BOOLEAN, gear : Gear, held : BOOLEAN, expiry : Nat, raced : BOOLEAN]
             /\ tasks' \in Tasks
  BY <1>f, AppendTyped, LoadoutAssumption DEF Fighting, LockTask, TypeOK, Tasks
<1>15. CASE FightStarts
  BY <1>15, <1>f, <1>u DEF FightStarts, Idle, Readers, chainVars, clientVars, TypeOK, Tasks, Counters
<1>16. ASSUME NEW r \in Readers, ListSlotsFails(r) PROVE TypeOK'
  <2>u. used.mishaps + 1 \in Nat /\ used.fights + 1 \in Nat
    BY <1>u DEF Counters
  <2>1. used' \in Counters
    <3>1. \/ used' = [used EXCEPT !.mishaps = @ + 1, !.failed = TRUE]
          \/ used' = [used EXCEPT !.mishaps = @ + 1, !.failed = TRUE, !.fights = @ + 1]
      BY <1>16 DEF ListSlotsFails
    <3>2. /\ [used EXCEPT !.mishaps = @ + 1, !.failed = TRUE] \in Counters
          /\ [used EXCEPT !.mishaps = @ + 1, !.failed = TRUE, !.fights = @ + 1] \in Counters
      BY <1>u, <2>u, FailedStartCounts
    <3> QED BY <3>1, <3>2
  <2>2. CASE r = "login"
    <3>0. inbox' = Append(inbox, server) /\ fight' = fight /\ tasks' = tasks
      BY <1>16, <2>2 DEF ListSlotsFails
    <3>1. inbox' \in Seq(Gear)
      BY <3>0, AppendTyped DEF TypeOK
    <3> QED
      BY <1>16, <2>1, <3>0, <3>1 DEF ListSlotsFails, chainVars, TypeOK, Counters
  <2>3. CASE r = "fight"
    <3>1. Fighting(used.fights + 1, server) /\ UNCHANGED inbox
      BY <1>16, <2>3 DEF ListSlotsFails
    <3>2. /\ fight' \in [on : BOOLEAN, gear : Gear, held : BOOLEAN, expiry : Nat, raced : BOOLEAN]
          /\ tasks' \in Tasks
      BY <3>1, <2>u, <1>f DEF TypeOK
    <3> QED
      BY <1>16, <2>1, <3>1, <3>2 DEF ListSlotsFails, chainVars, TypeOK, Counters, Tasks
  <2> QED BY <2>2, <2>3 DEF Readers
<1>17. CASE FightEnds
  BY <1>17, <1>u, AppendTyped DEF FightEnds, NoFight, LockTask, chainVars, clientVars, TypeOK, Counters
<1>18. CASE SetFightLock
  <2>1. tasks' \in Tasks /\ Head(tasks) \in [expiry : Nat, of : Nat]
    BY <1>18, TailTyped DEF SetFightLock, TypeOK, Tasks
  <2>2. lock' \in Nat
    BY <1>18, <2>1 DEF SetFightLock
  <2>3. fight' \in [on : BOOLEAN, gear : Gear, held : BOOLEAN, expiry : Nat, raced : BOOLEAN]
    BY <1>18 DEF SetFightLock, TypeOK
  <2> QED BY <1>18, <2>1, <2>2, <2>3 DEF SetFightLock, clientVars, TypeOK, Tasks
<1>19. CASE SetFightLockFails
  <2>1. used' \in Counters BY <1>19, <1>u, MishapCounts DEF SetFightLockFails
  <2>2. tasks' \in Tasks BY <1>19, TailTyped DEF SetFightLockFails, TypeOK, Tasks
  <2> QED
    BY <1>19, <2>1, <2>2 DEF SetFightLockFails, chainVars, clientVars, TypeOK, Counters, Tasks
<1>20. CASE GetCharacter
  BY <1>20, <1>u, AppendTyped, MishapCounts DEF GetCharacter, chainVars, serverVars, TypeOK, Counters
<1>21. CASE Tick \/ FetchOwnedItems
  BY <1>21 DEF Tick, FetchOwnedItems, chainVars, serverVars, clientVars, TypeOK
<1>22. CASE UNCHANGED vars
  BY <1>22 DEF vars, TypeOK
<1> QED
  BY <1>1, <1>2, <1>3, <1>4, <1>5, <1>6, <1>7, <1>8, <1>9, <1>10, <1>11, <1>12, <1>13, <1>14,
     <1>15, <1>16, <1>17, <1>18, <1>19, <1>20, <1>21, <1>22 DEF Next

\* Every variable keeps its type: the chain's slots, the copies and the reads
\* hold items, and a lock is a time.
THEOREM TypeCorrect == Spec => []TypeOK
BY TypeInit, TypeStep, PTL DEF Spec

(***************************************************************************)
(* No save loses an item.                                                  *)
(***************************************************************************)
\* A slot that a save fills was empty when its turn came.
LEMMA FilledWasFree ==
  ASSUME TypeOK, save.st = "signing", Executes(save), NEW s \in In(save)
  PROVE  Freed(save)[s] = Empty
<1>1. CanEquip(BeforeEquip(save, s), s, save.goal[s]) BY DEF Executes
<1>2. BeforeEquip(save, s)[s] = Freed(save)[s]
  BY DEF BeforeEquip, Freed, In, Dirty
<1> QED BY <1>1, <1>2 DEF CanEquip

\* What the slots hold when a save is over.
LEMMA LoadedSlots ==
  ASSUME NEW s \in Slots
  PROVE  /\ s \in In(save) => Loaded(save)[s] = save.goal[s]
         /\ s \notin In(save) /\ s \in Out(save) => Loaded(save)[s] = Empty
         /\ s \notin In(save) /\ s \notin Out(save) => Loaded(save)[s] = slots[s]
         /\ s \in Out(save) => Freed(save)[s] = Empty
         /\ s \notin Out(save) => Freed(save)[s] = slots[s]
BY DEF Loaded, Freed

LEMMA SaveIsSound ==
  ASSUME TypeOK, GearIsSound, SaveLands
  PROVE  GearIsSound'
<1>1. /\ save.st = "signing" /\ Executes(save)
      /\ slots' = Loaded(save)
      /\ wallet' = (wallet \cup {slots[s] : s \in Out(save)}) \ {save.goal[s] : s \in In(save)}
  BY DEF SaveLands
<1>2. In(save) \subseteq Slots /\ Out(save) \subseteq Slots
  BY DEF In, Out, Dirty
<1>3. \A s \in In(save) : /\ save.goal[s] \in wallet /\ save.goal[s] # Empty
                          /\ Freed(save)[s] = Empty
                          /\ CanEquip(BeforeEquip(save, s), s, save.goal[s])
  BY <1>1, FilledWasFree DEF Executes, In
<1>4. \A s, t \in In(save) : s # t => save.goal[s] # save.goal[t]
  BY <1>1 DEF Executes
<1>5. \A s \in In(save) : s \notin Out(save) => slots[s] = Empty
  BY <1>2, <1>3, LoadedSlots
<1>6. wallet \subseteq Items /\ Empty \notin Items /\ slots \in Gear
  BY LoadoutAssumption DEF TypeOK
<1>7. NothingLost'
  <2>1. ASSUME NEW s \in Slots, slots'[s] # Empty PROVE slots'[s] \in Items \ wallet'
    <3>1. CASE s \in In(save)
      BY <3>1, <1>1, <1>3, <1>6, LoadedSlots
    <3>2. CASE s \notin In(save)
      <4>1. slots'[s] = slots[s] /\ s \notin Out(save)
        BY <3>2, <2>1, <1>1, LoadedSlots
      <4>2. slots[s] \in Items \ wallet /\ \A t \in Out(save) : slots[t] # slots[s]
        BY <2>1, <4>1, <1>2 DEF GearIsSound, NothingLost
      <4> QED BY <4>1, <4>2, <1>1
    <3> QED BY <3>1, <3>2
  <2>2. ASSUME NEW i \in Items \ wallet' PROVE \E s \in Slots : slots'[s] = i
    <3>1. CASE \E s \in In(save) : save.goal[s] = i
      BY <3>1, <1>1, <1>2, LoadedSlots
    <3>2. CASE ~\E s \in In(save) : save.goal[s] = i
      <4>1. i \notin wallet /\ ~\E t \in Out(save) : slots[t] = i
        BY <3>2, <2>2, <1>1
      <4>2. PICK s \in Slots : slots[s] = i
        BY <4>1 DEF GearIsSound, NothingLost
      <4>3. s \notin Out(save) /\ s \notin In(save)
        BY <4>1, <4>2, <1>5, <1>6
      <4> QED BY <4>2, <4>3, <1>1, LoadedSlots
    <3> QED BY <3>1, <3>2
  <2>3. ASSUME NEW s \in Slots, NEW t \in Slots, s # t, slots'[s] # Empty
        PROVE  slots'[s] # slots'[t]
    <3>1. \A u \in Slots : u \notin In(save) /\ slots'[u] # Empty =>
            slots'[u] = slots[u] /\ slots[u] \notin wallet
      BY <1>1, LoadedSlots DEF GearIsSound, NothingLost
    <3>2. \A u \in In(save) : slots'[u] = save.goal[u]
      BY <1>1, <1>2, LoadedSlots
    <3>3. CASE s \in In(save) /\ t \in In(save)
      BY <3>2, <3>3, <2>3, <1>4
    <3>4. CASE s \in In(save) /\ t \notin In(save)
      BY <3>1, <3>2, <3>4, <1>3
    <3>5. CASE s \notin In(save) /\ t \in In(save)
      BY <3>1, <3>2, <3>5, <2>3, <1>3
    <3>6. CASE s \notin In(save) /\ t \notin In(save)
      <4>1. slots[s] # slots[t] /\ slots'[s] = slots[s]
        BY <3>1, <3>6, <2>3 DEF GearIsSound, NothingLost
      <4> QED BY <3>1, <3>6, <4>1, <2>3
    <3> QED BY <3>3, <3>4, <3>5, <3>6
  <2> QED BY <2>1, <2>2, <2>3 DEF NothingLost
<1>8. WornIsLegal'
  <2>1. ASSUME NEW s \in Slots, slots'[s] # Empty PROVE Accepts(s, slots'[s])
    <3>1. CASE s \in In(save)
      BY <3>1, <1>1, <1>3, LoadedSlots DEF CanEquip
    <3>2. CASE s \notin In(save)
      BY <3>2, <2>1, <1>1, LoadedSlots DEF GearIsSound, WornIsLegal
    <3> QED BY <3>1, <3>2
  <2>2. ASSUME slots'["weapon"] \in TwoHanded PROVE slots'["offhand"] = Empty
    <3>0. {"weapon", "offhand"} \subseteq Slots /\ Empty \notin TwoHanded
      BY LoadoutAssumption DEF Slots, Items
    <3>1. "offhand" \notin In(save)
      <4> SUFFICES ASSUME "offhand" \in In(save) PROVE FALSE OBVIOUS
      <4>1. BeforeEquip(save, "offhand")["weapon"] \notin TwoHanded
        BY <1>3 DEF CanEquip
      <4>2. BeforeEquip(save, "offhand")["weapon"] = Loaded(save)["weapon"]
        BY <3>0 DEF BeforeEquip, Freed
      <4> QED BY <4>1, <4>2, <2>2, <1>1
    <3>2. CASE "weapon" \in In(save)
      <4>1. save.goal["weapon"] \in TwoHanded
        BY <3>2, <3>0, <2>2, <1>1, LoadedSlots
      <4>2. Freed(save)["offhand"] = Empty
        BY <3>2, <4>1, <1>3 DEF CanEquip, BeforeEquip
      <4> QED BY <3>0, <3>1, <4>2, <1>1, LoadedSlots
    <3>3. CASE "weapon" \notin In(save)
      <4>1. slots["weapon"] \in TwoHanded
        BY <3>3, <3>0, <2>2, <1>1, LoadedSlots
      <4>2. slots["offhand"] = Empty
        BY <4>1 DEF GearIsSound, WornIsLegal
      <4> QED BY <3>0, <3>1, <4>2, <1>1, LoadedSlots
    <3> QED BY <3>2, <3>3
  <2> QED BY <2>1, <2>2 DEF WornIsLegal
<1> QED BY <1>7, <1>8 DEF GearIsSound

LEMMA GearInit == Init => GearIsSound
<1> SUFFICES ASSUME Init PROVE GearIsSound OBVIOUS
<1>1. slots \in Gear /\ Legal(slots) /\ wallet = Items \ Worn(slots)
  BY LoadoutAssumption DEF Init
<1>2. NothingLost
  BY <1>1, LoadoutAssumption DEF NothingLost, Legal, Worn, Gear
<1>3. WornIsLegal
  BY <1>1 DEF WornIsLegal, Legal
<1> QED BY <1>2, <1>3 DEF GearIsSound

LEMMA GearStep == TypeOK /\ GearIsSound /\ [Next]_vars => GearIsSound'
<1> SUFFICES ASSUME TypeOK, GearIsSound, [Next]_vars PROVE GearIsSound' OBVIOUS
<1>0. slots \in Gear /\ wallet \subseteq Items /\ Empty \notin Items
  BY LoadoutAssumption DEF TypeOK
<1>1. ASSUME NEW s \in Slots, NEW i \in Items, equip(s, i) PROVE GearIsSound'
  <2>1. /\ i \in wallet /\ CanEquip(slots, s, i)
        /\ slots' = [slots EXCEPT ![s] = i] /\ wallet' = wallet \ {i}
    BY <1>1 DEF equip
  <2>2. NothingLost'
    BY <1>0, <2>1 DEF GearIsSound, NothingLost, CanEquip, Gear
  <2>3. WornIsLegal'
    BY <1>0, <2>1, LoadoutAssumption DEF GearIsSound, WornIsLegal, CanEquip, Gear, Slots, Items
  <2> QED BY <2>2, <2>3 DEF GearIsSound
<1>2. ASSUME NEW s \in Slots, unequip(s) PROVE GearIsSound'
  <2>1. /\ slots[s] # Empty
        /\ slots' = [slots EXCEPT ![s] = Empty] /\ wallet' = wallet \cup {slots[s]}
    BY <1>2 DEF unequip
  <2>2. NothingLost'
    BY <1>0, <2>1 DEF GearIsSound, NothingLost, Gear
  <2>3. WornIsLegal'
    BY <1>0, <2>1, LoadoutAssumption DEF GearIsSound, WornIsLegal, Gear, Slots, Items
  <2> QED BY <2>2, <2>3 DEF GearIsSound
<1>3. CASE SaveLands BY <1>3, SaveIsSound
<1>4. CASE UNCHANGED <<slots, wallet>>
  BY <1>4 DEF GearIsSound, NothingLost, WornIsLegal
<1>5. ASSUME NEW s \in Slots, NEW i \in Items, StageEquip(s, i) PROVE GearIsSound'
  BY <1>5, <1>4 DEF StageEquip, chainVars
<1>6. ASSUME NEW s \in Slots, StageUnequip(s) PROVE GearIsSound'
  BY <1>6, <1>4 DEF StageUnequip, chainVars
<1>7. ASSUME NEW r \in Readers, ListSlots(r) \/ ListSlotsFails(r) PROVE GearIsSound'
  BY <1>7, <1>4 DEF ListSlots, ListSlotsFails, chainVars
<1>8. ASSUME NEW r \in Readers, NEW s \in Slots, ReadSlot(r, s) \/ ReadSlotFails(r, s)
      PROVE GearIsSound'
  BY <1>8, <1>4 DEF ReadSlot, ReadSlotFails, chainVars
<1>9. CASE Tick \/ FetchOwnedItems \/ StageDiscard \/ saveLoadout \/ SaveAborts \/ CommitSaved
              \/ SetCharacter
  BY <1>9, <1>4 DEF Tick, FetchOwnedItems, StageDiscard, saveLoadout, SaveAborts, CommitSaved, SetCharacter, chainVars
<1>10. CASE LoginOk \/ FightStarts \/ FightEnds \/ SetFightLock \/ SetFightLockFails \/ GetCharacter
  BY <1>10, <1>4 DEF LoginOk, FightStarts, FightEnds, SetFightLock, SetFightLockFails,
                     GetCharacter, chainVars
<1>11. CASE UNCHANGED vars BY <1>11, <1>4 DEF vars
<1> QED
  BY <1>1, <1>2, <1>3, <1>5, <1>6, <1>7, <1>8, <1>9, <1>10, <1>11 DEF Next

\* The saves of one client and the single equips of another, in any order,
\* leave every item in the wallet or in one slot, and what is worn legal: the
\* transaction of loadout-tx.ts, run on slots it did not expect, either aborts
\* or is as careful as equipment.move's own calls.
THEOREM GearStaysSound == Spec => []GearIsSound
<1>1. Init => TypeOK /\ GearIsSound BY TypeInit, GearInit
<1>2. TypeOK /\ GearIsSound /\ [Next]_vars => (TypeOK /\ GearIsSound)' BY TypeStep, GearStep
<1> QED BY <1>1, <1>2, PTL DEF Spec

(***************************************************************************)
(* The lock.  Tasks run in order and carry the number of their fight, so   *)
(* the last one queued decides; while a fight is on, none but the last can *)
(* be its own.                                                             *)
(***************************************************************************)
TasksOfFights ==
  /\ \A k \in 1 .. Len(tasks) : tasks[k].of <= used.fights
  /\ read["fight"].on => ~fight.on /\ \A k \in 1 .. Len(tasks) : tasks[k].of < used.fights
  /\ fight.on => \A k \in 1 .. Len(tasks) :
       tasks[k].of = used.fights => k = Len(tasks) /\ tasks[k].expiry = fight.expiry

HeldIsLocked == fight.on /\ fight.held => tasks = << >> /\ lock = fight.expiry

GearOfTheFight ==
  fight.on /\ ~fight.raced /\ (fight.held => now < fight.expiry) => slots = fight.gear

ReleaseIsLast ==
  ~fight.on /\ ~used.failed =>
    IF tasks = << >> THEN lock = 0 ELSE tasks[Len(tasks)].expiry = 0

LockInv == TasksOfFights /\ HeldIsLocked /\ GearOfTheFight /\ ReleaseIsLast

\* What a step does to the two counters the lock depends on.
LEMMA MishapEffect ==
  ASSUME used \in Counters, NEW f \in BOOLEAN, NEW o \in BOOLEAN, Mishap(f, o)
  PROVE  /\ used'.fights = used.fights /\ used'.stale = used.stale
         /\ used'.failed = (used.failed \/ f) /\ used'.others = (used.others \/ o)
<1> DEFINE once == [used EXCEPT !.mishaps = @ + 1]
           twice == [once EXCEPT !.failed = @ \/ f]
<1>1. once \in Counters /\ once.failed = used.failed /\ once.fights = used.fights
      /\ once.others = used.others /\ once.stale = used.stale
  BY DEF Counters
<1>2. twice \in Counters /\ twice.fights = used.fights /\ twice.failed = (used.failed \/ f)
      /\ twice.others = used.others /\ twice.stale = used.stale
  <2> HIDE DEF once
  <2> QED BY <1>1 DEF Counters
<1>3. /\ [twice EXCEPT !.others = @ \/ o].fights = used.fights
      /\ [twice EXCEPT !.others = @ \/ o].failed = (used.failed \/ f)
      /\ [twice EXCEPT !.others = @ \/ o].others = (used.others \/ o)
      /\ [twice EXCEPT !.others = @ \/ o].stale = used.stale
  <2> HIDE DEF twice
  <2> QED BY <1>2 DEF Counters
<1>4. used' = [twice EXCEPT !.others = @ \/ o]
  BY <1>1, <1>2 DEF Mishap
<1> QED BY <1>3, <1>4

LEMMA SpendEffect ==
  ASSUME used \in Counters, NEW b
  PROVE  /\ Spend("edits", b) \/ Spend("saves", b) =>
              /\ used'.fights = used.fights /\ used'.failed = used.failed
              /\ used'.others = used.others /\ used'.stale = used.stale
         /\ Spend("fights", b) =>
              /\ used'.fights = used.fights + 1 /\ used'.failed = used.failed
              /\ used'.others = used.others /\ used'.stale = used.stale
BY DEF Counters, Spend

LEMMA StagingEffect ==
  ASSUME used \in Counters, NEW s, NEW i, StageEquip(s, i)
  PROVE  /\ used'.fights = used.fights /\ used'.failed = used.failed
         /\ used'.others = used.others
         /\ used'.stale = (used.stale \/ i \notin wallet)
<1> DEFINE once == [used EXCEPT !.edits = @ + 1]
<1>1. /\ once \in Counters /\ once.fights = used.fights /\ once.failed = used.failed
      /\ once.others = used.others /\ once.stale = used.stale
  BY DEF Counters
<1>2. used' = [once EXCEPT !.stale = @ \/ i \notin wallet]
  BY <1>1 DEF StageEquip
<1> HIDE DEF once
<1> QED BY <1>1, <1>2 DEF Counters

LEMMA FailedStartEffect ==
  ASSUME used \in Counters, NEW n \in Nat, NEW f \in BOOLEAN, NEW k \in Nat
  PROVE  /\ [used EXCEPT !.mishaps = n, !.failed = f].fights = used.fights
         /\ [used EXCEPT !.mishaps = n, !.failed = f].failed = f
         /\ [used EXCEPT !.mishaps = n, !.failed = f, !.fights = k].fights = k
         /\ [used EXCEPT !.mishaps = n, !.failed = f, !.fights = k].failed = f
         /\ [used EXCEPT !.mishaps = n, !.failed = f].others = used.others
         /\ [used EXCEPT !.mishaps = n, !.failed = f, !.fights = k].others = used.others
         /\ [used EXCEPT !.mishaps = n, !.failed = f].stale = used.stale
         /\ [used EXCEPT !.mishaps = n, !.failed = f, !.fights = k].stale = used.stale
<1> DEFINE once == [used EXCEPT !.mishaps = n]
           twice == [once EXCEPT !.failed = f]
<1>1. /\ once \in Counters /\ once.fights = used.fights /\ once.others = used.others
      /\ once.stale = used.stale
  BY DEF Counters
<1>2. /\ twice \in Counters /\ twice.fights = used.fights /\ twice.failed = f
      /\ twice.others = used.others /\ twice.stale = used.stale
  <2> HIDE DEF once
  <2> QED BY <1>1 DEF Counters
<1>3. /\ [twice EXCEPT !.fights = k].fights = k /\ [twice EXCEPT !.fights = k].failed = f
      /\ [twice EXCEPT !.fights = k].others = used.others
      /\ [twice EXCEPT !.fights = k].stale = used.stale
  <2> HIDE DEF twice
  <2> QED BY <1>2 DEF Counters
<1> QED BY <1>2, <1>3

LEMMA TasksTyped ==
  ASSUME TypeOK
  PROVE  /\ tasks \in Seq([expiry : Nat, of : Nat]) /\ Len(tasks) \in Nat
         /\ \A k \in 1 .. Len(tasks) : tasks[k] \in [expiry : Nat, of : Nat] /\ tasks[k].of \in Nat
<1>1. tasks \in Seq([expiry : Nat, of : Nat]) BY DEF TypeOK
<1>2. \A k \in 1 .. Len(tasks) : tasks[k] \in [expiry : Nat, of : Nat]
  BY <1>1, ElementOfSeq
<1> QED BY <1>1, <1>2

\* A step that touches neither the chain nor the fight nor the queue.
Aside ==
  /\ UNCHANGED <<slots, lock, now, fight, tasks>>
  /\ read'["fight"].on = read["fight"].on
  /\ used'.fights = used.fights /\ (used.failed => used'.failed)

LEMMA AsideKeepsLockInv == TypeOK /\ LockInv /\ Aside => LockInv'
<1> SUFFICES ASSUME TypeOK, LockInv, Aside PROVE LockInv' OBVIOUS
<1>1. ~used'.failed => ~used.failed
  BY DEF Aside, TypeOK
<1> QED
  BY <1>1 DEF Aside, LockInv, TasksOfFights, HeldIsLocked, GearOfTheFight, ReleaseIsLast

\* A change of gear: only a character that is not locked changes it, and one
\* whose fight has no lock yet is marked.
LEMMA GearChange ==
  ASSUME TypeOK, LockInv, ~Locked, Races(slots'),
         UNCHANGED <<lock, now, read, tasks>>,
         used'.fights = used.fights, used'.failed = used.failed
  PROVE  LockInv'
<1>1. /\ fight'.on = fight.on /\ fight'.held = fight.held /\ fight'.expiry = fight.expiry
      /\ fight'.gear = fight.gear
      /\ fight'.raced = (fight.raced \/ (fight.on /\ ~fight.held /\ slots' # fight.gear))
  BY DEF Races, TypeOK
<1>2. TasksOfFights' BY <1>1 DEF LockInv, TasksOfFights
<1>3. HeldIsLocked' BY <1>1 DEF LockInv, HeldIsLocked
<1>4. GearOfTheFight'
  BY <1>1 DEF LockInv, GearOfTheFight, HeldIsLocked, Locked, TypeOK
<1>5. ReleaseIsLast' BY <1>1 DEF LockInv, ReleaseIsLast
<1> QED BY <1>2, <1>3, <1>4, <1>5 DEF LockInv

\* A fight begins: number n is newer than every task in the queue.
LEMMA FightBegins ==
  ASSUME TypeOK, NEW g \in Gear, Fighting(used'.fights, g), used'.fights \in Nat,
         \A k \in 1 .. Len(tasks) : tasks[k].of < used'.fights,
         ~read'["fight"].on, UNCHANGED slots
  PROVE  LockInv'
<1> DEFINE e == now + FIGHT_LOCK_DURATION_MS
<1>1. /\ fight' = [on |-> TRUE, gear |-> g, held |-> FALSE, expiry |-> e, raced |-> g # slots]
      /\ tasks' = Append(tasks, [expiry |-> e, of |-> used'.fights])
  BY DEF Fighting, LockTask
<1>2. /\ tasks \in Seq([expiry : Nat, of : Nat]) /\ Len(tasks) \in Nat
      /\ Len(tasks') = Len(tasks) + 1
      /\ \A k \in 1 .. Len(tasks) : tasks'[k] = tasks[k] /\ tasks[k].of \in Nat
      /\ tasks'[Len(tasks) + 1] = [expiry |-> e, of |-> used'.fights]
  BY <1>1, TasksTyped
<1>3. TasksOfFights'
  <2>1. ASSUME NEW k \in 1 .. Len(tasks')
        PROVE  /\ tasks'[k].of <= used'.fights
               /\ tasks'[k].of = used'.fights => k = Len(tasks') /\ tasks'[k].expiry = e
    <3>1. CASE k \in 1 .. Len(tasks) BY <3>1, <1>2
    <3>2. CASE k = Len(tasks) + 1 BY <3>2, <1>2
    <3> QED BY <3>1, <3>2, <1>2
  <2>2. fight'.on /\ fight'.expiry = e BY <1>1
  <2> QED BY <2>1, <2>2 DEF TasksOfFights
<1>4. HeldIsLocked' /\ GearOfTheFight' /\ ReleaseIsLast'
  BY <1>1 DEF HeldIsLocked, GearOfTheFight, ReleaseIsLast
<1> QED BY <1>3, <1>4 DEF LockInv

\* The queue moves on by one task.
LEMMA TailOfTasks ==
  ASSUME TypeOK, tasks # << >>, tasks' = Tail(tasks)
  PROVE  /\ Len(tasks) \in Nat \ {0} /\ Len(tasks') = Len(tasks) - 1
         /\ \A k \in 1 .. Len(tasks') : k + 1 \in 1 .. Len(tasks) /\ tasks'[k] = tasks[k + 1]
         /\ Head(tasks) = tasks[1] /\ tasks[1] \in [expiry : Nat, of : Nat]
         /\ (tasks' = << >> <=> Len(tasks) = 1)
<1>1. tasks \in Seq([expiry : Nat, of : Nat]) BY DEF TypeOK
<1>2. Len(tasks) \in Nat \ {0} /\ Len(tasks') = Len(tasks) - 1
      /\ tasks' \in Seq([expiry : Nat, of : Nat])
  BY <1>1
<1>3. \A k \in 1 .. Len(tasks') : k + 1 \in 1 .. Len(tasks) /\ tasks'[k] = tasks[k + 1]
  BY <1>1, <1>2
<1>4. tasks' = << >> <=> Len(tasks') = 0
  BY <1>2, EmptySeq
<1>5. Head(tasks) = tasks[1] BY <1>1, <1>2
<1>6. tasks[1] \in [expiry : Nat, of : Nat] BY <1>2, TasksTyped
<1>7. tasks' = << >> <=> Len(tasks) = 1
  <2>1. Len(tasks') = 0 <=> Len(tasks) = 1 BY <1>2
  <2> QED BY <1>4, <2>1, Zenon
<1> QED BY <1>2, <1>3, <1>5, <1>6, <1>7

LEMMA QueueMoves ==
  ASSUME TypeOK, LockInv, tasks # << >>, tasks' = Tail(tasks),
         used'.fights = used.fights,
         UNCHANGED read, fight'.on = fight.on, fight'.expiry = fight.expiry
  PROVE  TasksOfFights'
<1>1. ASSUME NEW k \in 1 .. Len(tasks')
      PROVE  /\ k + 1 \in 1 .. Len(tasks) /\ tasks'[k] = tasks[k + 1]
             /\ k + 1 = Len(tasks) => k = Len(tasks')
  <2>1. Len(tasks) \in Nat /\ Len(tasks') = Len(tasks) - 1
    BY TailOfTasks
  <2>2. k + 1 \in 1 .. Len(tasks) /\ tasks'[k] = tasks[k + 1]
    BY TailOfTasks
  <2>3. k \in Int OBVIOUS
  <2>4. k + 1 = Len(tasks) => k = Len(tasks')
    <3> DEFINE n == Len(tasks)
               m == Len(tasks')
    <3>1. n \in Nat /\ m = n - 1 BY <2>1
    <3> HIDE DEF n, m
    <3>2. k + 1 = n => k = m BY <3>1, <2>3
    <3> QED BY <3>2 DEF n, m
  <2> QED BY <2>2, <2>4, Zenon
<1> QED BY <1>1 DEF LockInv, TasksOfFights

LEMMA LockInit == Init => LockInv
<1> SUFFICES ASSUME Init PROVE LockInv OBVIOUS
<1>1. tasks = << >> /\ lock = 0 /\ ~fight.on /\ ~read["fight"].on
  BY DEF Init, NoFight, Readers
<1> QED
  BY <1>1 DEF LockInv, TasksOfFights, HeldIsLocked, GearOfTheFight, ReleaseIsLast

LEMMA LockStep == TypeOK /\ LockInv /\ [Next]_vars => LockInv'
<1> SUFFICES ASSUME TypeOK, LockInv, [Next]_vars PROVE LockInv' OBVIOUS
<1>u. used \in Counters BY DEF TypeOK, Counters
<1>n. used.fights \in Nat /\ used.failed \in BOOLEAN BY <1>u DEF Counters
<1>1. ASSUME NEW s \in Slots, NEW i \in Items, equip(s, i) PROVE LockInv'
  BY <1>1, <1>u, <1>n, MishapEffect, GearChange DEF equip, ChainOnly
<1>2. ASSUME NEW s \in Slots, unequip(s) PROVE LockInv'
  <2>1. ~Locked /\ Races(slots') /\ Mishap(FALSE, TRUE) /\ UNCHANGED <<lock, now, read, tasks>>
    BY <1>2 DEF unequip, ChainOnly
  <2>2. used'.fights = used.fights /\ used'.failed = used.failed
    BY <2>1, <1>u, <1>n, MishapEffect
  <2> QED BY <2>1, <2>2, GearChange
<1>3. CASE SaveLands
  BY <1>3, GearChange DEF SaveLands, ChainOnly, Executes
<1>4. ASSUME NEW s \in Slots, NEW i \in Items, StageEquip(s, i) PROVE LockInv'
  BY <1>4, <1>u, <1>n, StagingEffect, AsideKeepsLockInv DEF StageEquip, chainVars, serverVars, Aside
<1>5. ASSUME NEW s \in Slots, StageUnequip(s) PROVE LockInv'
  BY <1>5, <1>u, <1>n, SpendEffect, AsideKeepsLockInv DEF StageUnequip, chainVars, serverVars, Aside
<1>6. CASE StageDiscard \/ saveLoadout
  BY <1>6, <1>u, <1>n, SpendEffect, AsideKeepsLockInv
     DEF StageDiscard, saveLoadout, chainVars, serverVars, Aside
<1>7. CASE SaveAborts \/ CommitSaved \/ SetCharacter \/ FetchOwnedItems
  BY <1>7, <1>n, AsideKeepsLockInv
     DEF FetchOwnedItems, SaveAborts, CommitSaved, SetCharacter, chainVars, serverVars, Aside
<1>8. CASE GetCharacter
  BY <1>8, <1>u, <1>n, MishapEffect, AsideKeepsLockInv DEF GetCharacter, chainVars, serverVars, Aside
<1>9. ASSUME NEW r \in Readers, NEW s \in Slots, ReadSlot(r, s) \/ ReadSlotFails(r, s)
      PROVE LockInv'
  <2>0. read \in [Readers -> [on : BOOLEAN, todo : SUBSET Slots, got : Gear]]
    BY DEF TypeOK
  <2>1. read'["fight"].on = read["fight"].on
    <3>1. CASE ReadSlot(r, s) BY <2>0, <3>1 DEF ReadSlot, Readers
    <3>2. CASE ReadSlotFails(r, s) BY <2>0, <3>2 DEF ReadSlotFails, Readers
    <3> QED BY <1>9, <3>1, <3>2
  <2>2. used'.fights = used.fights /\ (used.failed => used'.failed)
    <3>1. CASE ReadSlot(r, s) BY <1>n, <3>1 DEF ReadSlot
    <3>2. CASE ReadSlotFails(r, s)
      <4>1. used'.fights = used.fights /\ used'.failed
        BY <3>2, <1>u, MishapEffect DEF ReadSlotFails
      <4> QED BY <4>1, <1>n
    <3> QED BY <1>9, <3>1, <3>2
  <2> QED
    BY <1>9, <2>1, <2>2, AsideKeepsLockInv DEF ReadSlot, ReadSlotFails, chainVars, Aside
<1>10. CASE LoginOk
  <2>1. read'["fight"].on = read["fight"].on
    BY <1>10 DEF LoginOk, TypeOK, Readers
  <2> QED BY <1>10, <1>n, <2>1, AsideKeepsLockInv DEF LoginOk, chainVars, Aside
<1>11. ASSUME NEW r \in Readers, ListSlots(r) PROVE LockInv'
  <2>0. UNCHANGED <<tasks, slots, lock, now>> BY <1>11 DEF ListSlots, chainVars
  <2>1. CASE r = "login"
    <3>1. read'["fight"].on = read["fight"].on /\ UNCHANGED fight
      BY <1>11, <2>1 DEF ListSlots, TypeOK, Readers
    <3>2. used'.fights = used.fights /\ (used.failed => used'.failed)
      BY <1>11, <2>1, <1>u, <1>n, MishapEffect DEF ListSlots
    <3> QED BY <2>0, <3>1, <3>2, AsideKeepsLockInv DEF Aside
  <2>2. CASE r = "fight"
    <3>1. ~fight.on /\ fight'.on = fight.on
      BY <1>11, <2>2 DEF ListSlots, TypeOK
    <3>2. used'.fights = used.fights + 1 /\ used'.failed = used.failed
      BY <1>11, <2>2, <1>u, SpendEffect DEF ListSlots
    <3>3. \A k \in 1 .. Len(tasks) : tasks[k].of \in Nat /\ tasks[k].of <= used.fights
      BY TasksTyped DEF LockInv, TasksOfFights
    <3>4. TasksOfFights'
      BY <2>0, <3>1, <3>2, <3>3, <1>n DEF TasksOfFights
    <3> QED
      BY <2>0, <3>1, <3>2, <3>4 DEF LockInv, HeldIsLocked, GearOfTheFight, ReleaseIsLast
  <2> QED BY <2>1, <2>2 DEF Readers
<1>12. CASE FightStarts
  <2>1. /\ read["fight"].on /\ ~read'["fight"].on /\ read["fight"].got \in Gear
        /\ Fighting(used.fights, read["fight"].got) /\ UNCHANGED <<used, slots>>
    BY <1>12 DEF FightStarts, Idle, TypeOK, Readers, chainVars
  <2>2. \A k \in 1 .. Len(tasks) : tasks[k].of < used.fights
    BY <2>1 DEF LockInv, TasksOfFights
  <2> QED BY <2>1, <2>2, <1>n, FightBegins
<1>13. ASSUME NEW r \in Readers, ListSlotsFails(r) PROVE LockInv'
  <2>0. UNCHANGED <<read, slots, lock, now>> /\ ~read[r].on
    BY <1>13 DEF ListSlotsFails, chainVars
  <2>n. used.mishaps + 1 \in Nat /\ used.fights + 1 \in Nat
    BY <1>u DEF Counters
  <2>1. CASE r = "login"
    <3>1. /\ used' = [used EXCEPT !.mishaps = @ + 1, !.failed = TRUE]
          /\ UNCHANGED <<fight, tasks>>
      BY <1>13, <2>1 DEF ListSlotsFails
    <3>2. used'.fights = used.fights /\ (used.failed => used'.failed)
      BY <3>1, <1>u, <1>n, <2>n, FailedStartEffect
    <3> QED BY <2>0, <3>1, <3>2, AsideKeepsLockInv DEF Aside
  <2>2. CASE r = "fight"
    <3>1. /\ used' = [used EXCEPT !.mishaps = @ + 1, !.failed = TRUE, !.fights = @ + 1]
          /\ Fighting(used.fights + 1, server) /\ server \in Gear
      BY <1>13, <2>2 DEF ListSlotsFails, TypeOK
    <3>2. used'.fights = used.fights + 1
      BY <3>1, <1>u, <2>n, FailedStartEffect
    <3>3. \A k \in 1 .. Len(tasks) : tasks[k].of < used'.fights
      <4>1. \A k \in 1 .. Len(tasks) : tasks[k].of \in Nat /\ tasks[k].of <= used.fights
        BY TasksTyped DEF LockInv, TasksOfFights
      <4> QED BY <4>1, <3>2, <1>n
    <3> QED BY <2>0, <2>2, <3>1, <3>2, <3>3, <2>n, FightBegins
  <2> QED BY <2>1, <2>2 DEF Readers
<1>14. CASE FightEnds
  <2>1. /\ fight.on /\ ~fight'.on
        /\ tasks' = Append(tasks, [expiry |-> 0, of |-> used.fights])
        /\ UNCHANGED <<read, used, lock, now, slots>>
    BY <1>14 DEF FightEnds, NoFight, LockTask, TypeOK, chainVars
  <2>2. /\ Len(tasks) \in Nat /\ Len(tasks') = Len(tasks) + 1 /\ tasks' # << >>
        /\ \A k \in 1 .. Len(tasks) : tasks'[k] = tasks[k]
        /\ tasks'[Len(tasks) + 1] = [expiry |-> 0, of |-> used.fights]
    <3>1. [expiry |-> 0, of |-> used.fights] \in [expiry : Nat, of : Nat] BY <1>n
    <3>2. /\ Len(tasks) \in Nat /\ Len(tasks') = Len(tasks) + 1
          /\ \A k \in 1 .. Len(tasks) : tasks'[k] = tasks[k]
          /\ tasks'[Len(tasks) + 1] = [expiry |-> 0, of |-> used.fights]
      BY <2>1, <3>1, TasksTyped
    <3> QED BY <3>2
  <2>3. ~read["fight"].on BY <2>1 DEF LockInv, TasksOfFights
  <2>4. \A k \in 1 .. Len(tasks') : tasks'[k].of <= used.fights
    <3>1. ASSUME NEW k \in 1 .. Len(tasks') PROVE tasks'[k].of <= used.fights
      <4>1. CASE k \in 1 .. Len(tasks) BY <4>1, <2>2 DEF LockInv, TasksOfFights
      <4>2. CASE k = Len(tasks) + 1 BY <4>2, <2>2, <1>n
      <4> QED BY <4>1, <4>2, <2>2
    <3> QED BY <3>1
  <2>5. TasksOfFights' BY <2>1, <2>3, <2>4 DEF TasksOfFights
  <2>6. ReleaseIsLast'
    BY <2>1, <2>2 DEF ReleaseIsLast
  <2> QED BY <2>1, <2>5, <2>6 DEF LockInv, HeldIsLocked, GearOfTheFight
<1>15. CASE SetFightLock
  <2>1. /\ tasks # << >> /\ tasks' = Tail(tasks) /\ lock' = tasks[1].expiry
        /\ UNCHANGED <<slots, now, read, used>>
        /\ fight'.on = fight.on /\ fight'.expiry = fight.expiry /\ fight'.gear = fight.gear
        /\ fight'.raced = fight.raced
        /\ fight'.held = (fight.held \/ (fight.on /\ tasks[1].of = used.fights))
    BY <1>15, TailOfTasks DEF SetFightLock, TypeOK
  <2>2. TasksOfFights' BY <2>1, QueueMoves
  <2>3. 1 \in 1 .. Len(tasks) /\ Len(tasks) \in Nat /\ (tasks' = << >> <=> Len(tasks) = 1)
    BY <2>1, TailOfTasks
  <2>4. HeldIsLocked'
    <3>1. fight.on => ~fight.held
      BY <2>1 DEF LockInv, HeldIsLocked
    <3>2. fight.on /\ tasks[1].of = used.fights => Len(tasks) = 1 /\ tasks[1].expiry = fight.expiry
      BY <2>3 DEF LockInv, TasksOfFights
    <3> QED BY <2>1, <2>3, <3>1, <3>2 DEF HeldIsLocked
  <2>5. GearOfTheFight'
    BY <2>1 DEF LockInv, GearOfTheFight, HeldIsLocked
  <2>6. ReleaseIsLast'
    <3> SUFFICES ASSUME ~fight.on, ~used.failed
                 PROVE  IF tasks' = << >> THEN lock' = 0 ELSE tasks'[Len(tasks')].expiry = 0
      BY <2>1 DEF ReleaseIsLast
    <3>1. tasks[Len(tasks)].expiry = 0
      BY <2>1 DEF LockInv, ReleaseIsLast
    <3>2. CASE Len(tasks) = 1 BY <3>1, <3>2, <2>1, <2>3
    <3>3. CASE Len(tasks) # 1
      <4>1. Len(tasks') \in 1 .. Len(tasks') /\ Len(tasks') + 1 = Len(tasks)
        BY <3>3, <2>1, TailOfTasks
      <4>2. tasks'[Len(tasks')] = tasks[Len(tasks)]
        BY <4>1, <2>1, TailOfTasks
      <4> QED BY <3>1, <3>3, <4>2, <2>3
    <3> QED BY <3>2, <3>3
  <2> QED BY <2>2, <2>4, <2>5, <2>6 DEF LockInv
<1>16. CASE SetFightLockFails
  <2>1. /\ tasks # << >> /\ tasks' = Tail(tasks)
        /\ UNCHANGED <<slots, now, lock, read, fight>>
        /\ used'.fights = used.fights /\ used'.failed
    BY <1>16, <1>u, MishapEffect DEF SetFightLockFails, chainVars
  <2>2. TasksOfFights' BY <2>1, QueueMoves
  <2>3. HeldIsLocked' BY <2>1 DEF LockInv, HeldIsLocked
  <2>4. ReleaseIsLast' BY <2>1, <1>n DEF ReleaseIsLast
  <2> QED BY <2>1, <2>2, <2>3, <2>4 DEF LockInv, GearOfTheFight
<1>17. CASE Tick
  <2>1. /\ now' = now + 1 /\ now \in Nat /\ fight.expiry \in Nat
        /\ UNCHANGED <<slots, lock, used, fight, tasks, read>>
    BY <1>17 DEF Tick, serverVars, TypeOK
  <2>2. GearOfTheFight' BY <2>1 DEF LockInv, GearOfTheFight
  <2> QED BY <2>1, <2>2 DEF LockInv, TasksOfFights, HeldIsLocked, ReleaseIsLast
<1>18. CASE UNCHANGED vars
  BY <1>18, <1>n, AsideKeepsLockInv DEF vars, Aside
<1> QED
  BY <1>1, <1>2, <1>3, <1>4, <1>5, <1>6, <1>7, <1>8, <1>9, <1>10, <1>11, <1>12, <1>13, <1>14,
     <1>15, <1>16, <1>17, <1>18 DEF Next

LEMMA LockInvGuards == TypeOK /\ LockInv => LockGuardsTheFight
<1> SUFFICES ASSUME TypeOK, LockInv PROVE LockGuardsTheFight OBVIOUS
<1>1. OneGearPerFight
  BY DEF LockInv, GearOfTheFight, OneGearPerFight
<1>2. LockEndsWithTheFight
  BY DEF LockInv, ReleaseIsLast, LockEndsWithTheFight, Locked, TypeOK
<1> QED BY <1>1, <1>2 DEF LockGuardsTheFight

\* However many fights and releases are queued: from the landing of its lock
\* to the lock's expiry a fight is fought with the gear the character wears,
\* and after the fight the lock goes when the queue is empty (set_fight_lock
\* tasks of ws/fight-room.ts through the treasury queue, is_fight_locked).
THEOREM LockIsOfTheFight == Spec => []LockGuardsTheFight
<1>1. Init => TypeOK /\ LockInv BY TypeInit, LockInit
<1>2. TypeOK /\ LockInv /\ [Next]_vars => (TypeOK /\ LockInv)' BY TypeStep, LockStep
<1> QED BY <1>1, <1>2, LockInvGuards, PTL DEF Spec

(***************************************************************************)
(* What a player may ask for.  A staged loadout is built on the committed  *)
(* one; while that is what the chain holds, the chain accepts it.  A       *)
(* committed loadout that is stale or torn makes no promise: the client    *)
(* drops what was staged when a message changes it.                        *)
(***************************************************************************)
Fits(g) ==
  /\ \A s \in Slots : g[s] # Empty /\ g[s] # slots[s] => g[s] \in wallet /\ Accepts(s, g[s])
  /\ \A s, t \in Slots : s # t /\ g[s] # Empty => g[s] # g[t]
  /\ g["weapon"] \in TwoHanded => g["offhand"] = Empty

SaveInv ==
  ~used.others /\ ~used.stale =>
    /\ save.st # "landed" /\ committed = slots => Fits(pending)
    /\ save.st = "signing" /\ save.base = slots => Fits(save.goal)

\* What is worn can be asked for again.
LEMMA WornFits == GearIsSound => Fits(slots)
BY DEF GearIsSound, NothingLost, WornIsLegal, Fits

LEMMA StagedFits ==
  ASSUME TypeOK, NEW s \in Slots, NEW i \in Items, StageEquip(s, i), i \in wallet, Fits(pending)
  PROVE  Fits(pending')
<1>1. /\ pending \in [Slots -> Items \cup {Empty}] /\ Empty \notin Items
      /\ "weapon" \in Slots /\ "offhand" \in Slots
  BY LoadoutAssumption DEF TypeOK, Gear, Slots
<1>2. /\ i \in wallet /\ Accepts(s, i) /\ i # Empty
      /\ \A t \in Slots : pending[t] # i
      /\ s = "offhand" => pending["weapon"] \notin TwoHanded
  BY <1>1 DEF StageEquip, Offered, Worn
<1>3. /\ pending'[s] = i
      /\ \A t \in Slots \ {s} : pending'[t] # Empty => pending'[t] = pending[t]
  BY <1>1 DEF StageEquip
<1>4. pending'["weapon"] \in TwoHanded => pending'["offhand"] = Empty
  <2>1. CASE s = "weapon" /\ i \in TwoHanded
    BY <2>1, <1>1 DEF StageEquip
  <2>2. CASE s = "weapon" /\ i \notin TwoHanded
    BY <2>2, <1>3
  <2>3. CASE s # "weapon"
    <3>1. pending' = [pending EXCEPT ![s] = i] BY <2>3 DEF StageEquip
    <3>2. pending'["weapon"] = pending["weapon"] BY <2>3, <3>1, <1>1
    <3>3. CASE s = "offhand" BY <3>3, <3>2, <1>2
    <3>4. CASE s # "offhand"
      <4>1. pending'["offhand"] = pending["offhand"] BY <3>1, <3>4, <1>1
      <4> QED BY <4>1, <3>2 DEF Fits
    <3> QED BY <3>3, <3>4
  <2> QED BY <2>1, <2>2, <2>3
<1>5. UNCHANGED <<slots, wallet>> BY DEF StageEquip, chainVars
<1>6. \A t \in Slots : pending'[t] # Empty /\ pending'[t] # slots[t] =>
                         pending'[t] \in wallet /\ Accepts(t, pending'[t])
  BY <1>2, <1>3 DEF Fits
<1>7. \A t, u \in Slots : t # u /\ pending'[t] # Empty => pending'[t] # pending'[u]
  BY <1>2, <1>3 DEF Fits
<1> QED BY <1>4, <1>6, <1>7 DEF Fits

LEMMA UnstagedFits ==
  ASSUME TypeOK, NEW s \in Slots, StageUnequip(s), Fits(pending)
  PROVE  Fits(pending')
<1>1. pending' = [pending EXCEPT ![s] = Empty] BY DEF StageUnequip
<1>2. \A t \in Slots : pending'[t] = IF t = s THEN Empty ELSE pending[t]
  BY <1>1 DEF TypeOK, Gear
<1>3. "weapon" \in Slots /\ "offhand" \in Slots BY DEF Slots
<1>4. Empty \notin TwoHanded BY LoadoutAssumption DEF Items, Weapons
<1> QED BY <1>2, <1>3, <1>4 DEF Fits

LEMMA ReconciledFits ==
  ASSUME NEW g \in Gear, Fits(g)
  PROVE  Fits(Reconciled(g))
<1>1. g["weapon"] \in TwoHanded => [g EXCEPT !["offhand"] = Empty] = g
  BY DEF Fits, Gear
<1>2. Reconciled(g) = g BY <1>1 DEF Reconciled
<1> QED BY <1>2

\* The marks are never taken away.
LEMMA MarksStay ==
  ASSUME TypeOK, [Next]_vars
  PROVE  (used.others => used'.others) /\ (used.stale => used'.stale)
<1> DEFINE Stay == (used.others => used'.others) /\ (used.stale => used'.stale)
<1>u. used \in Counters BY DEF TypeOK, Counters
<1>n. used.mishaps + 1 \in Nat /\ used.fights + 1 \in Nat BY <1>u DEF Counters
<1>1. CASE \E f, o \in BOOLEAN : Mishap(f, o)
  <2>1. PICK f \in BOOLEAN, o \in BOOLEAN : Mishap(f, o) BY <1>1
  <2> QED BY <2>1, <1>u, MishapEffect
<1>2. CASE \E b : Spend("edits", b) \/ Spend("saves", b) \/ Spend("fights", b)
  BY <1>2, <1>u, SpendEffect
<1>3. CASE UNCHANGED used BY <1>3
<1>4. ASSUME NEW s \in Slots, NEW i \in Items, equip(s, i) \/ StageEquip(s, i) PROVE Stay
  BY <1>4, <1>1, <1>u, StagingEffect DEF equip
<1>5. ASSUME NEW s \in Slots, unequip(s) \/ StageUnequip(s) PROVE Stay
  BY <1>5, <1>1, <1>2 DEF unequip, StageUnequip
<1>6. ASSUME NEW r \in Readers, ListSlots(r) PROVE Stay
  BY <1>6, <1>1, <1>2 DEF ListSlots
<1>7. ASSUME NEW r \in Readers, ListSlotsFails(r) PROVE Stay
  <2> DEFINE m == used.mishaps + 1
             k == used.fights + 1
  <2>1. \/ used' = [used EXCEPT !.mishaps = m, !.failed = TRUE]
        \/ used' = [used EXCEPT !.mishaps = m, !.failed = TRUE, !.fights = k]
    BY <1>7 DEF ListSlotsFails
  <2>2. m \in Nat /\ k \in Nat BY <1>n
  <2> HIDE DEF m, k
  <2>3. /\ [used EXCEPT !.mishaps = m, !.failed = TRUE].others = used.others
        /\ [used EXCEPT !.mishaps = m, !.failed = TRUE].stale = used.stale
        /\ [used EXCEPT !.mishaps = m, !.failed = TRUE, !.fights = k].others = used.others
        /\ [used EXCEPT !.mishaps = m, !.failed = TRUE, !.fights = k].stale = used.stale
    <3>1. TRUE \in BOOLEAN OBVIOUS
    <3> QED BY <3>1, <2>2, <1>u, FailedStartEffect
  <2> QED BY <2>1, <2>3
<1>8. ASSUME NEW r \in Readers, NEW s \in Slots, ReadSlot(r, s) \/ ReadSlotFails(r, s)
      PROVE  Stay
  BY <1>8, <1>1, <1>3 DEF ReadSlot, ReadSlotFails
<1>9. CASE Tick \/ FetchOwnedItems \/ StageDiscard \/ saveLoadout \/ SaveLands \/ SaveAborts
  BY <1>9, <1>2, <1>3 DEF Tick, FetchOwnedItems, StageDiscard, saveLoadout, SaveLands, SaveAborts
<1>10. CASE CommitSaved \/ SetCharacter \/ LoginOk \/ FightStarts \/ FightEnds
  BY <1>10, <1>3 DEF CommitSaved, SetCharacter, LoginOk, FightStarts, FightEnds
<1>11. CASE SetFightLock \/ SetFightLockFails \/ GetCharacter
  BY <1>11, <1>1, <1>3 DEF SetFightLock, SetFightLockFails, GetCharacter
<1>12. CASE UNCHANGED vars BY <1>12, <1>3 DEF vars
<1> QED
  BY <1>4, <1>5, <1>6, <1>7, <1>8, <1>9, <1>10, <1>11, <1>12 DEF Next

\* The other client's steps are marked.
LEMMA OthersMarked ==
  ASSUME TypeOK, NEW s \in Slots, NEW i \in Items, equip(s, i) \/ unequip(s)
  PROVE  used'.others
<1>1. used \in Counters BY DEF TypeOK, Counters
<1> QED BY <1>1, MishapEffect DEF equip, unequip

\* A step that leaves chain, client and save alone.
LEMMA SaveInvKept ==
  ASSUME TypeOK, SaveInv, [Next]_vars,
         UNCHANGED <<slots, wallet, committed, pending, save>>
  PROVE  SaveInv'
<1>1. ~used'.others /\ ~used'.stale => ~used.others /\ ~used.stale BY MarksStay
<1> QED BY <1>1 DEF SaveInv, Fits

LEMMA SaveInit == GearIsSound /\ Init => SaveInv
<1> SUFFICES ASSUME GearIsSound, Init PROVE SaveInv OBVIOUS
<1>1. pending = slots /\ save.st = "none" BY DEF Init, NoSave
<1> QED BY <1>1, WornFits DEF SaveInv

LEMMA SaveStep == TypeOK /\ GearIsSound /\ SaveInv /\ [Next]_vars => SaveInv'
<1> SUFFICES ASSUME TypeOK, GearIsSound, SaveInv, [Next]_vars PROVE SaveInv' OBVIOUS
<1>o. ~used'.others /\ ~used'.stale => ~used.others /\ ~used.stale BY MarksStay
<1>1. ASSUME NEW s \in Slots, NEW i \in Items, equip(s, i) PROVE SaveInv'
  BY <1>1, OthersMarked DEF SaveInv
<1>2. ASSUME NEW s \in Slots, unequip(s) PROVE SaveInv'
  <2>1. slots[s] \in Items BY <1>2 DEF unequip, TypeOK, Gear
  <2> QED BY <1>2, <2>1, OthersMarked DEF SaveInv
<1>3. ASSUME NEW s \in Slots, NEW i \in Items, StageEquip(s, i) PROVE SaveInv'
  <2>1. UNCHANGED <<slots, wallet, committed, save>> BY <1>3 DEF StageEquip, chainVars
  <2>u. used \in Counters BY DEF TypeOK, Counters
  <2>w. ~used'.stale => i \in wallet BY <1>3, <2>u, StagingEffect
  <2>2. ~used'.stale /\ Fits(pending) => Fits(pending)' BY <1>3, <2>1, <2>w, StagedFits DEF Fits
  <2>3. Fits(save.goal) => Fits(save.goal)' BY <2>1 DEF Fits
  <2> QED BY <1>o, <2>1, <2>2, <2>3 DEF SaveInv
<1>4. ASSUME NEW s \in Slots, StageUnequip(s) PROVE SaveInv'
  <2>1. UNCHANGED <<slots, wallet, committed, save>> BY <1>4 DEF StageUnequip, chainVars
  <2>2. Fits(pending) => Fits(pending)' BY <1>4, <2>1, UnstagedFits DEF Fits
  <2>3. Fits(save.goal) => Fits(save.goal)' BY <2>1 DEF Fits
  <2> QED BY <1>o, <2>1, <2>2, <2>3 DEF SaveInv
<1>5. CASE StageDiscard
  <2>1. UNCHANGED <<slots, wallet, committed, save>> /\ pending' = committed
    BY <1>5 DEF StageDiscard, chainVars
  <2>2. Fits(slots)' BY <2>1, WornFits DEF Fits
  <2>3. Fits(save.goal) => Fits(save.goal)' BY <2>1 DEF Fits
  <2>4. committed' = slots' => Fits(pending)' BY <2>1, <2>2
  <2> QED BY <1>o, <2>1, <2>3, <2>4 DEF SaveInv
<1>6. CASE saveLoadout
  <2>1. /\ UNCHANGED <<slots, wallet, committed, pending>> /\ save.st = "none"
        /\ save' = [st |-> "signing", base |-> committed, goal |-> Reconciled(pending)]
    BY <1>6 DEF saveLoadout, chainVars
  <2>2. Fits(pending) => Fits(pending)' /\ Fits(save.goal)'
    BY <2>1, ReconciledFits DEF Fits, TypeOK
  <2>3. save'.st = "signing" /\ save'.base = committed BY <2>1
  <2> QED BY <1>o, <2>1, <2>2, <2>3 DEF SaveInv
<1>7. CASE SaveLands
  <2>1. save'.st = "landed" BY <1>7 DEF SaveLands, TypeOK
  <2> QED BY <2>1 DEF SaveInv
<1>8. CASE SaveAborts
  <2>1. /\ UNCHANGED <<slots, wallet, committed, pending>> /\ save.st = "signing"
        /\ save'.st = "none"
    BY <1>8 DEF SaveAborts, NoSave, chainVars, TypeOK
  <2>2. Fits(pending) => Fits(pending)' BY <2>1 DEF Fits
  <2> QED BY <1>o, <2>1, <2>2 DEF SaveInv
<1>9. CASE CommitSaved
  <2>1. /\ UNCHANGED <<slots, wallet>> /\ committed' = pending' /\ save'.st = "none"
    BY <1>9 DEF CommitSaved, NoSave, chainVars, TypeOK
  <2>2. Fits(slots)' BY <2>1, WornFits DEF Fits
  <2>3. committed' = slots' => Fits(pending)' BY <2>1, <2>2
  <2> QED BY <2>1, <2>3 DEF SaveInv
<1>10. CASE SetCharacter
  <2>1. /\ UNCHANGED <<slots, wallet, save>>
        /\ \/ committed' = committed /\ pending' = pending
           \/ pending' = committed'
    BY <1>10 DEF SetCharacter, chainVars
  <2>2. Fits(slots)' BY <2>1, WornFits DEF Fits
  <2>3. Fits(save.goal) => Fits(save.goal)' BY <2>1 DEF Fits
  <2>4. ASSUME committed' = committed, pending' = pending, Fits(pending)
        PROVE  Fits(pending)'
    BY <2>1, <2>4 DEF Fits
  <2>5. pending' = committed' /\ committed' = slots' => Fits(pending)' BY <2>2
  <2> QED BY <1>o, <2>1, <2>3, <2>4, <2>5 DEF SaveInv
<1>11. CASE UNCHANGED <<slots, wallet, committed, pending, save>>
  BY <1>11, SaveInvKept
<1>12. ASSUME NEW r \in Readers, ListSlots(r) \/ ListSlotsFails(r) PROVE SaveInv'
  BY <1>12, <1>11 DEF ListSlots, ListSlotsFails, chainVars, clientVars
<1>13. ASSUME NEW r \in Readers, NEW s \in Slots, ReadSlot(r, s) \/ ReadSlotFails(r, s)
       PROVE  SaveInv'
  BY <1>13, <1>11 DEF ReadSlot, ReadSlotFails, chainVars, clientVars
<1>14. CASE Tick \/ FetchOwnedItems \/ LoginOk \/ FightStarts \/ FightEnds
  BY <1>14, <1>11 DEF Tick, FetchOwnedItems, LoginOk, FightStarts, FightEnds, chainVars, clientVars
<1>15. CASE SetFightLock \/ SetFightLockFails \/ GetCharacter
  BY <1>15, <1>11 DEF SetFightLock, SetFightLockFails, GetCharacter, chainVars, clientVars
<1>16. CASE UNCHANGED vars BY <1>16, <1>11 DEF vars
<1> QED
  BY <1>1, <1>2, <1>3, <1>4, <1>5, <1>6, <1>7, <1>8, <1>9, <1>10, <1>12, <1>13, <1>14, <1>15,
     <1>16 DEF Next

\* A save that fits, on the chain it was built for, runs through.
LEMMA FittingSaveLands ==
  ASSUME TypeOK, save.st = "signing", save.base = slots, ~Locked, Fits(save.goal)
  PROVE  Executes(save) /\ Loaded(save) = save.goal
<1>1. /\ slots \in Gear /\ save.goal \in Gear /\ Empty \notin Items
      /\ "weapon" \in Slots /\ "offhand" \in Slots
  BY LoadoutAssumption DEF TypeOK, Slots
<1>2. In(save) \subseteq Slots /\ Out(save) \subseteq Slots BY DEF In, Out, Dirty
<1>3. /\ \A s \in Slots : s \in Out(save) <=> slots[s] # save.goal[s] /\ slots[s] # Empty
      /\ \A s \in Slots : s \in In(save) <=> slots[s] # save.goal[s] /\ save.goal[s] # Empty
  BY DEF In, Out, Dirty
<1>4. ASSUME NEW s \in Slots PROVE Loaded(save)[s] = save.goal[s]
  BY <1>3, LoadedSlots
<1>5. ASSUME NEW s \in Slots
      PROVE  slots[s] # save.goal[s] => Freed(save)[s] = Empty
  BY <1>3, LoadedSlots
<1>6. Loaded(save) = save.goal
  <2>1. Loaded(save) \in [Slots -> Items \cup {Empty}] /\ save.goal \in [Slots -> Items \cup {Empty}]
    BY <1>1, LoadedIsGear DEF TypeOK, Gear
  <2> QED BY <2>1, <1>4
<1>7. ASSUME NEW s \in In(save)
      PROVE  save.goal[s] \in wallet /\ CanEquip(BeforeEquip(save, s), s, save.goal[s])
  <2>1. save.goal[s] \in wallet /\ Accepts(s, save.goal[s])
    BY <1>2, <1>3 DEF Fits
  <2>2. BeforeEquip(save, s)[s] = Empty
    <3>1. BeforeEquip(save, s)[s] = Freed(save)[s]
      BY <1>2 DEF BeforeEquip, Freed
    <3> QED BY <3>1, <1>2, <1>3, <1>5
  <2>3. s = "weapon" /\ save.goal[s] \in TwoHanded => BeforeEquip(save, s)["offhand"] = Empty
    <3> SUFFICES ASSUME s = "weapon", save.goal[s] \in TwoHanded
                 PROVE  Freed(save)["offhand"] = Empty
      BY DEF BeforeEquip
    <3>1. save.goal["offhand"] = Empty BY DEF Fits
    <3>2. CASE slots["offhand"] = Empty
      <4>1. "offhand" \notin Out(save) BY <3>2, <1>1, <1>3
      <4> QED BY <4>1, <3>2, <1>1, LoadedSlots
    <3>3. CASE slots["offhand"] # Empty BY <3>1, <3>3, <1>1, <1>5
    <3> QED BY <3>2, <3>3
  <2>4. s = "offhand" => BeforeEquip(save, s)["weapon"] \notin TwoHanded
    <3> SUFFICES ASSUME s = "offhand" PROVE BeforeEquip(save, s)["weapon"] \notin TwoHanded
      OBVIOUS
    <3>1. BeforeEquip(save, s)["weapon"] = Loaded(save)["weapon"]
      BY <1>1 DEF BeforeEquip, Freed
    <3>2. save.goal["offhand"] # Empty BY <1>2, <1>3
    <3> QED BY <3>1, <3>2, <1>1, <1>4 DEF Fits
  <2> QED BY <2>1, <2>2, <2>3, <2>4 DEF CanEquip
<1>8. \A s \in Out(save) : slots[s] # Empty BY <1>2, <1>3
<1>9. \A s, t \in In(save) : s # t => save.goal[s] # save.goal[t]
  BY <1>2, <1>3 DEF Fits
<1>10. Executes(save) BY <1>7, <1>8, <1>9 DEF Executes
<1> QED BY <1>6, <1>10

\* However late or torn the server's answers were, and however old the list of
\* owned items: a player who is the only one to change the character, and has
\* staged nothing the wallet did not hold, never signs a save that the chain
\* refuses on the gear it was built for (buildSaveLoadoutTx of
\* lib/loadout-tx.ts against the assertions of equipment.move).
THEOREM SavesAreHonest == Spec => []HonestSaveLands
<1>1. Init => TypeOK /\ GearIsSound /\ SaveInv BY TypeInit, GearInit, SaveInit
<1>2. TypeOK /\ GearIsSound /\ SaveInv /\ [Next]_vars => (TypeOK /\ GearIsSound /\ SaveInv)'
  BY TypeStep, GearStep, SaveStep
<1>3. TypeOK /\ SaveInv => HonestSaveLands
  BY FittingSaveLands DEF SaveInv, HonestSaveLands
<1> QED BY <1>1, <1>2, <1>3, PTL DEF Spec
=============================================================================
