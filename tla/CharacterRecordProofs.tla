----------------------- MODULE CharacterRecordProofs -----------------------
(***************************************************************************)
(* Proofs about CharacterRecord, for any number of records, fights, writes *)
(* and mishaps: types; that the session plays with the wallet's record;    *)
(* that no point is counted as spent that the chain has not seen spent;    *)
(* and that server and chain agree once nothing is under way.              *)
(***************************************************************************)
EXTENDS CharacterRecord, SequenceTheorems, FiniteSetTheorems, TLAPS

(***************************************************************************)
(* Types.  TypeOK says nothing of messages, of tasks and of what the chain *)
(* granted; the strengthening below does.                                  *)
(***************************************************************************)
Messages == [type : {"login", "restore", "create", "allocate", "delete"}, points : Points]
Replies == [type : {"auth_ok", "character", "deleted"}, has : BOOLEAN]
Stages == {"load", "hydrate", "items", "ids"}
Record == [on : BOOLEAN, p : Points]

ClientT ==
  /\ client \in [phase : Phases, has : BOOLEAN, auth : BOOLEAN, due : BOOLEAN,
                 inFlight : BOOLEAN, scan : BOOLEAN, stale : BOOLEAN, loaded : BOOLEAN]
  /\ alloc \in {0, 1}
LinkT ==
  /\ conn \in [no : Nat, open : BOOLEAN]
  /\ up \in Seq(Messages) /\ unsent \in Seq(Messages) /\ down \in Seq(Replies)
ChainT ==
  /\ chain \in [registered : BOOLEAN, lvl : Nat, spent : Nat]
  /\ chain.spent <= Granted(chain.lvl)
RecordT ==
  /\ records \in Seq(Record) /\ index \in 0 .. Len(records)
  /\ session \in [auth : BOOLEAN, char : 0 .. Len(records)]
HandlerT ==
  handlers \subseteq [conn : Nat, stage : Stages, kind : {"auth_ok", "character"},
                      char : 0 .. Len(records), points : Points]
QueueT ==
  /\ updates \in Seq(Nat)
  /\ \A k \in 1 .. Len(updates) : updates[k] \in 1 .. Len(records)
  /\ effects \subseteq [char : 1 .. Len(records), lvl : Nat, free : Nat]
StoreT ==
  /\ row \in Points \cup {None} /\ writes \subseteq Points \cup {None}
  /\ past \in [faults : SUBSET Faults, lost : Nat, fights : Nat, mishaps : Nat]

Types == ClientT /\ LinkT /\ ChainT /\ RecordT /\ HandlerT /\ QueueT /\ StoreT

LEMMA NoPointsTyped == NoPoints \in Points
BY DEF NoPoints, Points

LEMMA GrantedNat ==
  /\ \A n \in Nat : Granted(n) \in Nat
  /\ \A n \in Nat : Granted(n + 1) = Granted(n) + PointsPerLevel
  /\ Granted(0) = 0
BY RecordAssumption DEF Granted

LEMMA TypesInit == Init => Types
<1> SUFFICES ASSUME Init PROVE Types OBVIOUS
<1>1. records = << >> /\ up = << >> /\ down = << >> /\ unsent = << >> /\ updates = << >>
  BY DEF Init
<1>2. ClientT BY DEF Init, ClientT, Phases
<1>3. LinkT BY <1>1 DEF Init, LinkT
<1>4. ChainT BY GrantedNat DEF Init, ChainT
<1>5. RecordT BY <1>1 DEF Init, RecordT, NoSession
<1>6. HandlerT BY DEF Init, HandlerT
<1>7. QueueT BY <1>1 DEF Init, QueueT
<1>8. StoreT BY NoPointsTyped DEF Init, StoreT
<1> QED BY <1>2, <1>3, <1>4, <1>5, <1>6, <1>7, <1>8 DEF Types

\* The actions, in three groups: of the client, of the server, of the rest.
ServerActs ==
  \/ ServerStep
  \/ \E h \in handlers : HandlerStep(h) \/ RowReadFails(h)
ClientActs ==
  Gate \/ ScanMisses \/ SET_ONCHAIN_CHARACTER \/ BEGIN_SERVER_REHYDRATE \/ DeleteCharacter

LEMMA ClientStep == Types /\ [Next]_vars => ClientT'
<1> SUFFICES ASSUME Types, [Next]_vars PROVE ClientT' OBVIOUS
<1>0. ClientT BY DEF Types
<1>1. CASE UNCHANGED <<client, alloc>> BY <1>0, <1>1 DEF ClientT
<1>2. CASE Connects \/ ServerActs
  BY <1>2, <1>1 DEF Connects, Connect, ServerActs, ServerStep, HandlerStep, HandleLogin, Refuse,
     HandleRestore, HandleCreate, HandleDelete, HandleAllocate, RowLoaded, ItemsLoaded, Hydrated,
     IdsFound, RowReadFails, clientVars
<1>3. CASE Drop \/ Restart
  <2>1. ClientLosesLink BY <1>3 DEF Drop, Restart
  <2> QED BY <1>0, <2>1 DEF ClientLosesLink, ClientT, Phases
<1>4. ASSUME NEW w \in writes, WriteLands(w) \/ WriteFails(w) PROVE ClientT'
  BY <1>4, <1>1 DEF WriteLands, WriteFails, clientVars
<1>5. CASE FightEnds \/ update_after_fight \/ UpdateFails \/ \E e \in effects : EffectsMirrored(e)
  BY <1>5, <1>1 DEF FightEnds, update_after_fight, UpdateFails, EffectsMirrored, clientVars
<1>6. CASE allocate_points \/ SendAllocate \/ SendUnsigned
  BY <1>6, <1>0 DEF allocate_points, SendAllocate, SendUnsigned, ClientT
<1>7. CASE ClientActs
  <2>1. CASE AuthOk
    <3>1. Head(down) \in Replies BY <2>1, HeadTailProperties DEF AuthOk, Types, LinkT
    <3> QED BY <2>1, <3>1, <1>0 DEF AuthOk, ClientOnly, ClientT, Phases, Replies
  <2>2. CASE CharacterArrives \/ CharacterDeleted
    BY <2>2, <1>0 DEF CharacterArrives, CharacterDeleted, ClientOnly, ClientT, Phases
  <2>3. CASE GateEffect
    <3> DEFINE R == [phase : Phases, has : BOOLEAN, auth : BOOLEAN, due : BOOLEAN,
                     inFlight : BOOLEAN, scan : BOOLEAN, stale : BOOLEAN, loaded : BOOLEAN]
               c == client.auth /\ ~client.has /\ ~client.inFlight
                      /\ client.phase = "chain_check_pending"
               d == client.auth /\ ~client.has /\ client.phase = "auth_pending"
               s == client.stale \/ client.scan
               i == client.inFlight \/ c
               p == IF d THEN "chain_check_pending" ELSE client.phase
               staled == [client EXCEPT !.stale = s]
               scanned == [staled EXCEPT !.scan = c]
               marked == [scanned EXCEPT !.inFlight = i]
               owed == [marked EXCEPT !.due = d]
    <3>1. c \in BOOLEAN /\ d \in BOOLEAN /\ s \in BOOLEAN /\ i \in BOOLEAN BY <1>0 DEF ClientT
    <3>2. p \in Phases BY <1>0 DEF ClientT, Phases
    <3>3. client' = [owed EXCEPT !.phase = p] BY <2>3 DEF GateEffect
    <3>4. alloc' = alloc BY <2>3 DEF GateEffect, ClientOnly
    <3> HIDE DEF c, d, s, i, p
    <3>5. staled \in R BY <1>0, <3>1 DEF ClientT
    <3> HIDE DEF staled
    <3>6. scanned \in R BY <3>1, <3>5
    <3> HIDE DEF scanned
    <3>7. marked \in R BY <3>1, <3>6
    <3> HIDE DEF marked
    <3>8. owed \in R BY <3>1, <3>7
    <3> HIDE DEF owed
    <3>9. client' \in R BY <3>2, <3>3, <3>8
    <3> QED BY <1>0, <3>4, <3>9 DEF ClientT
  <2>4. CASE ScanDone BY <2>4, <1>0 DEF ScanDone, ClientOnly, ClientT, Phases
  <2>5. CASE StaleScanDone BY <2>5, <1>0 DEF StaleScanDone, ClientOnly, ClientT
  <2>6. CASE SET_ONCHAIN_CHARACTER
    BY <2>6, <1>0 DEF SET_ONCHAIN_CHARACTER, ClientOnly, ClientT, Phases
  <2>7. CASE create_character BY <2>7, <1>0 DEF create_character, ClientOnly, ClientT
  <2>8. CASE ScanMisses BY <2>8, <1>0 DEF ScanMisses, ClientOnly, ClientT, Phases
  <2>9. CASE BEGIN_SERVER_REHYDRATE
    BY <2>9, <1>0 DEF BEGIN_SERVER_REHYDRATE, ClientOnly, ClientT, Phases
  <2>10. CASE DeleteCharacter BY <2>10, <1>0 DEF DeleteCharacter, ClientOnly, ClientT
  <2> QED
    BY <1>7, <2>1, <2>2, <2>3, <2>4, <2>5, <2>6, <2>7, <2>8, <2>9, <2>10 DEF ClientActs, Gate
<1>8. CASE UNCHANGED vars BY <1>8, <1>1 DEF vars
<1> QED
  BY <1>2, <1>3, <1>4, <1>5, <1>6, <1>7, <1>8 DEF Next, ServerActs, ClientActs

(***************************************************************************)
(* Messages                                                                *)
(***************************************************************************)
LEMMA PostTyped ==
  ASSUME LinkT, NEW m \in Messages, Post(m)
  PROVE  up' \in Seq(Messages) /\ unsent' \in Seq(Messages)
<1>1. /\ up \in Seq(Messages) /\ unsent \in Seq(Messages)
      /\ Append(up, m) \in Seq(Messages) /\ Append(unsent, m) \in Seq(Messages)
  BY AppendProperties DEF LinkT
<1> QED BY <1>1 DEF Post

LEMMA TakenTyped ==
  ASSUME LinkT, up # << >>
  PROVE  Head(up) \in Messages /\ Tail(up) \in Seq(Messages)
BY HeadTailProperties DEF LinkT

LEMMA ConnectTyped ==
  ASSUME LinkT, NEW token \in BOOLEAN, NEW stale \in 0 .. Len(unsent), Connect(token, stale)
  PROVE  LinkT'
<1> DEFINE kept == SubSeq(unsent, stale + 1, Len(unsent))
           login == << Msg("login", NoPoints) >>
<1>1. unsent \in Seq(Messages) /\ Len(unsent) \in Nat BY DEF LinkT
<1>2. \A i \in stale + 1 .. Len(unsent) : unsent[i] \in Messages
  BY <1>1, ElementOfSeq
<1>3. kept \in Seq(Messages) BY <1>1, <1>2, SubSeqProperties
<1>4. login \in Seq(Messages) BY NoPointsTyped DEF Msg, Messages
<1>5. login \o kept \in Seq(Messages) /\ kept \o login \in Seq(Messages)
  BY <1>3, <1>4, ConcatProperties
<1>6. up' \in Seq(Messages) BY <1>5 DEF Connect
<1>7. conn' \in [no : Nat, open : BOOLEAN] BY DEF Connect, LinkT
<1>8. down' = << >> /\ unsent' = << >> BY DEF Connect
<1> QED BY <1>6, <1>7, <1>8 DEF LinkT

LEMMA AnswerTyped ==
  ASSUME LinkT, NEW k \in {"auth_ok", "character"}
  PROVE  /\ Append(down, Reply(k, TRUE)) \in Seq(Replies)
         /\ Append(down, Reply(k, FALSE)) \in Seq(Replies)
<1>1. Reply(k, TRUE) \in Replies /\ Reply(k, FALSE) \in Replies
  BY DEF Reply, Replies
<1>2. down \in Seq(Replies) BY DEF LinkT
<1> QED BY <1>1, <1>2, AppendProperties

LEMMA LinkStep == Types /\ [Next]_vars => LinkT'
<1> SUFFICES ASSUME Types, [Next]_vars PROVE LinkT' OBVIOUS
<1>0. LinkT /\ ChainT BY DEF Types
<1>h. \A h \in handlers : h.kind \in {"auth_ok", "character"} BY DEF Types, HandlerT
<1>1. CASE UNCHANGED linkVars /\ UNCHANGED unsent BY <1>0, <1>1 DEF LinkT, linkVars
<1>2. CASE Connects BY <1>0, <1>2, ConnectTyped DEF Connects
<1>3. CASE Drop \/ Restart
  <2>1. ClientLosesLink BY <1>3 DEF Drop, Restart
  <2>2. /\ conn' = [conn EXCEPT !.open = FALSE] /\ up' = << >> /\ down' = << >>
        /\ unsent' = unsent
    BY <2>1 DEF ClientLosesLink
  <2>3. conn' \in [no : Nat, open : BOOLEAN] BY <1>0, <2>2 DEF LinkT
  <2> QED BY <1>0, <2>2, <2>3 DEF LinkT
<1>4. ASSUME NEW w \in writes, WriteLands(w) \/ WriteFails(w) PROVE LinkT'
  BY <1>4, <1>1 DEF WriteLands, WriteFails, clientVars
<1>5. CASE FightEnds \/ update_after_fight \/ UpdateFails \/ \E e \in effects : EffectsMirrored(e)
  BY <1>5, <1>1 DEF FightEnds, update_after_fight, UpdateFails, EffectsMirrored, clientVars
<1>6. CASE allocate_points BY <1>6, <1>1 DEF allocate_points
<1>7. CASE SendAllocate \/ SendUnsigned
  <2>1. Msg("allocate", NoPoints) \in Messages BY NoPointsTyped DEF Msg, Messages
  <2>2. Post(Msg("allocate", NoPoints)) /\ UNCHANGED <<conn, down>>
    BY <1>7 DEF SendAllocate, SendUnsigned
  <2> QED BY <1>0, <2>1, <2>2, PostTyped DEF LinkT
<1>8. CASE Gate
  <2>1. CASE AuthOk \/ CharacterArrives \/ CharacterDeleted
    <3>1. down # << >> /\ down' = Tail(down) /\ UNCHANGED <<unsent, up, conn>>
      BY <2>1 DEF AuthOk, CharacterArrives, CharacterDeleted, ClientOnly
    <3> QED BY <1>0, <3>1, HeadTailProperties DEF LinkT
  <2>2. CASE GateEffect \/ StaleScanDone
    BY <2>2, <1>1 DEF GateEffect, StaleScanDone, ClientOnly, linkVars
  <2>3. CASE ScanDone
    <3>1. UNCHANGED <<conn, down>> BY <2>3 DEF ScanDone, ClientOnly
    <3>2. CASE chain.registered
      <4> DEFINE m == Msg("restore", [lvl |-> chain.lvl, spent |-> chain.spent,
                                      free |-> Granted(chain.lvl) - chain.spent])
      <4>1. Granted(chain.lvl) - chain.spent \in Nat
        BY <1>0, GrantedNat DEF ChainT
      <4>2. m \in Messages BY <4>1, <1>0 DEF Msg, Messages, Points, ChainT
      <4>3. Post(m) BY <2>3, <3>2 DEF ScanDone
      <4> QED BY <1>0, <3>1, <4>2, <4>3, PostTyped DEF LinkT
    <3>3. CASE ~chain.registered
      <4>1. UNCHANGED <<up, unsent>> BY <2>3, <3>3 DEF ScanDone
      <4> QED BY <1>1, <3>1, <4>1 DEF linkVars
    <3> QED BY <3>2, <3>3
  <2>4. CASE create_character
    <3>1. Msg("create", NoPoints) \in Messages BY NoPointsTyped DEF Msg, Messages
    <3>2. Post(Msg("create", NoPoints)) /\ UNCHANGED <<conn, down>>
      BY <2>4 DEF create_character, ClientOnly
    <3> QED BY <1>0, <3>1, <3>2, PostTyped DEF LinkT
  <2> QED BY <1>8, <2>1, <2>2, <2>3, <2>4 DEF Gate
<1>9. CASE ScanMisses \/ SET_ONCHAIN_CHARACTER \/ BEGIN_SERVER_REHYDRATE
  BY <1>9, <1>1 DEF ScanMisses, SET_ONCHAIN_CHARACTER, BEGIN_SERVER_REHYDRATE, ClientOnly, linkVars
<1>10. CASE DeleteCharacter
  <2>1. Msg("delete", NoPoints) \in Messages BY NoPointsTyped DEF Msg, Messages
  <2>2. Post(Msg("delete", NoPoints)) /\ UNCHANGED <<conn, down>>
    BY <1>10 DEF DeleteCharacter, ClientOnly
  <2> QED BY <1>0, <2>1, <2>2, PostTyped DEF LinkT
<1>11. CASE HandleLogin \/ Refuse \/ HandleRestore \/ HandleCreate \/ HandleAllocate
  <2>1. up # << >> /\ up' = Tail(up) /\ UNCHANGED <<conn, down, unsent>>
    BY <1>11 DEF HandleLogin, Refuse, HandleRestore, HandleCreate, HandleAllocate, Received,
                 clientVars
  <2> QED BY <1>0, <2>1, TakenTyped DEF LinkT
<1>12. CASE HandleDelete
  <2>1. up # << >> /\ up' = Tail(up) /\ UNCHANGED <<conn, unsent>>
        /\ (down' = down \/ down' = Append(down, Reply("deleted", FALSE)))
    BY <1>12 DEF HandleDelete, Received, clientVars
  <2>2. Reply("deleted", FALSE) \in Replies BY DEF Reply, Replies
  <2>3. down \in Seq(Replies) BY <1>0 DEF LinkT
  <2>4. Append(down, Reply("deleted", FALSE)) \in Seq(Replies)
    BY <2>2, <2>3, AppendProperties
  <2> QED BY <1>0, <2>1, <2>3, <2>4, TakenTyped DEF LinkT
<1>13. ASSUME NEW h \in handlers, HandlerStep(h) \/ RowReadFails(h) PROVE LinkT'
  <2>1. UNCHANGED <<conn, up, unsent>>
    BY <1>13 DEF HandlerStep, RowReadFails, RowLoaded, ItemsLoaded, Hydrated, IdsFound, clientVars
  <2>2. UNCHANGED down \/ Answer(h, TRUE) \/ Answer(h, FALSE)
    BY <1>13 DEF HandlerStep, RowReadFails, RowLoaded, ItemsLoaded, Hydrated, IdsFound
  <2>3. down \in Seq(Replies) BY <1>0 DEF LinkT
  <2>4. CASE UNCHANGED down BY <1>0, <2>1, <2>3, <2>4 DEF LinkT
  <2>5. CASE Answer(h, TRUE) \/ Answer(h, FALSE)
    <3>1. h.kind \in {"auth_ok", "character"} BY <1>h
    <3>2. down' \in Seq(Replies) BY <1>0, <2>3, <2>5, <3>1, AnswerTyped DEF Answer
    <3> QED BY <1>0, <2>1, <3>2 DEF LinkT
  <2> QED BY <2>2, <2>4, <2>5, Zenon
<1>14. CASE UNCHANGED vars BY <1>14, <1>1 DEF vars, linkVars
<1> QED
  BY <1>2, <1>3, <1>4, <1>5, <1>6, <1>7, <1>8, <1>9, <1>10, <1>11, <1>12, <1>13, <1>14
  DEF Next, ServerStep

(***************************************************************************)
(* The chain                                                               *)
(***************************************************************************)
LEMMA ChainStep == Types /\ [Next]_vars => ChainT'
<1> SUFFICES ASSUME Types, [Next]_vars PROVE ChainT' OBVIOUS
<1>0. ChainT BY DEF Types
<1>1. CASE UNCHANGED chain BY <1>0, <1>1 DEF ChainT, Granted
<1>2. CASE Connects \/ Drop \/ Restart
  BY <1>2, <1>1 DEF Connects, Connect, Drop, Restart, ClientLosesLink
<1>3. CASE ServerActs
  BY <1>3, <1>1 DEF ServerActs, ServerStep, HandlerStep, HandleLogin, Refuse,
     HandleRestore, HandleCreate, HandleDelete, HandleAllocate, RowLoaded, ItemsLoaded, Hydrated,
     IdsFound, RowReadFails
<1>4. ASSUME NEW w \in writes, WriteLands(w) \/ WriteFails(w) PROVE ChainT'
  BY <1>4, <1>1 DEF WriteLands, WriteFails
<1>5. CASE FightEnds \/ UpdateFails \/ (\E e \in effects : EffectsMirrored(e))
        \/ SendAllocate \/ SendUnsigned
  BY <1>5, <1>1 DEF FightEnds, UpdateFails, EffectsMirrored, SendAllocate, SendUnsigned
<1>6. CASE update_after_fight
  <2>1. chain' = [chain EXCEPT !.lvl = @ + 1] BY <1>6 DEF update_after_fight
  <2>2. Granted(chain.lvl + 1) = Granted(chain.lvl) + PointsPerLevel /\ Granted(chain.lvl) \in Nat
    BY <1>0, GrantedNat DEF ChainT
  <2>3. chain'.lvl = chain.lvl + 1 BY <1>0, <2>1 DEF ChainT
  <2> QED BY <1>0, <2>1, <2>2, <2>3, RecordAssumption DEF ChainT
<1>7. CASE allocate_points
  <2>1. chain' = [chain EXCEPT !.spent = @ + 1] /\ chain.spent < Granted(chain.lvl)
    BY <1>7 DEF allocate_points
  <2>2. Granted(chain.lvl) \in Nat BY <1>0, GrantedNat DEF ChainT
  <2>3. chain'.lvl = chain.lvl BY <1>0, <2>1 DEF ChainT
  <2> QED BY <1>0, <2>1, <2>2, <2>3 DEF ChainT
<1>8. CASE create_character
  <2>1. chain' = [chain EXCEPT !.registered = TRUE] BY <1>8 DEF create_character
  <2>2. Granted(chain'.lvl) = Granted(chain.lvl) BY <1>0, <2>1 DEF ChainT
  <2> QED BY <1>0, <2>1, <2>2 DEF ChainT
<1>9. CASE ClientActs /\ ~create_character
  BY <1>9, <1>1 DEF ClientActs, Gate, AuthOk, CharacterArrives, CharacterDeleted, GateEffect,
     ScanDone, StaleScanDone, ScanMisses, SET_ONCHAIN_CHARACTER, BEGIN_SERVER_REHYDRATE,
     DeleteCharacter
<1>10. CASE UNCHANGED vars BY <1>10, <1>1 DEF vars
<1> QED
  BY <1>2, <1>3, <1>4, <1>5, <1>6, <1>7, <1>8, <1>9, <1>10 DEF Next, ServerActs, ClientActs

(***************************************************************************)
(* Records are added and changed, never removed from the list.             *)
(***************************************************************************)
LEMMA ChangedRecord ==
  ASSUME RecordT, NEW r \in 1 .. Len(records), NEW new \in Record
  PROVE  /\ [records EXCEPT ![r] = new] \in Seq(Record)
         /\ Len([records EXCEPT ![r] = new]) = Len(records)
         /\ records[r] \in Record /\ records[r].p \in Points
         /\ DOMAIN records = 1 .. Len(records)
<1>1. records \in Seq(Record) BY DEF RecordT
<1>2. records[r] \in Record BY <1>1, ElementOfSeq
<1>3. records[r].p \in Points BY <1>2 DEF Record
<1>4. DOMAIN records = 1 .. Len(records) BY <1>1
<1>5. [records EXCEPT ![r] = new] \in Seq(Record)
      /\ Len([records EXCEPT ![r] = new]) = Len(records)
  BY <1>1
<1> QED BY <1>2, <1>3, <1>4, <1>5

LEMMA RecordTyped ==
  ASSUME RecordT, NEW r \in 1 .. Len(records)
  PROVE  /\ records[r] \in Record /\ records[r].p \in Points
         /\ records[r] = [on |-> records[r].on, p |-> records[r].p]
<1>1. records \in Seq(Record) BY DEF RecordT
<1>2. records[r] \in Record BY <1>1, ElementOfSeq
<1> QED BY <1>2 DEF Record

\* A change of one field.
LEMMA ChangedPoints ==
  ASSUME RecordT, NEW r \in 1 .. Len(records), NEW new \in Points
  PROVE  /\ [records EXCEPT ![r].p = new] \in Seq(Record)
         /\ Len([records EXCEPT ![r].p = new]) = Len(records)
         /\ [records EXCEPT ![r].p = new][r] = [on |-> records[r].on, p |-> new]
         /\ \A k \in 1 .. Len(records) : k # r => [records EXCEPT ![r].p = new][k] = records[k]
<1>1. records \in Seq(Record) BY DEF RecordT
<1>2. records[r] \in Record BY RecordTyped
<1>3. [records[r] EXCEPT !.p = new] = [on |-> records[r].on, p |-> new]
  BY <1>2 DEF Record
<1>4. [on |-> records[r].on, p |-> new] \in Record BY <1>2 DEF Record
<1>5. [records EXCEPT ![r].p = new] = [records EXCEPT ![r] = [on |-> records[r].on, p |-> new]]
  BY <1>3
<1>6. \A k \in 1 .. Len(records) :
        [records EXCEPT ![r] = [on |-> records[r].on, p |-> new]][k] =
          IF k = r THEN [on |-> records[r].on, p |-> new] ELSE records[k]
  BY <1>1
<1> QED BY <1>4, <1>5, <1>6, ChangedRecord

LEMMA ClosedRecord ==
  ASSUME RecordT, NEW r \in 1 .. Len(records)
  PROVE  /\ [records EXCEPT ![r].on = FALSE] \in Seq(Record)
         /\ Len([records EXCEPT ![r].on = FALSE]) = Len(records)
<1>1. records \in Seq(Record) BY DEF RecordT
<1>2. records[r] \in Record BY RecordTyped
<1> DEFINE new == [records[r] EXCEPT !.on = FALSE]
<1>3. new \in Record BY <1>2 DEF Record
<1>4. [records EXCEPT ![r].on = FALSE] = [records EXCEPT ![r] = new]
  OBVIOUS
<1>5. /\ [records EXCEPT ![r] = new] \in Seq(Record)
      /\ Len([records EXCEPT ![r] = new]) = Len(records)
  <2> HIDE DEF new
  <2> QED BY <1>3, ChangedRecord
<1> QED BY <1>4, <1>5, Zenon

LEMMA AddedRecord ==
  ASSUME RecordT, NEW new \in Points, Add(new)
  PROVE  /\ records' \in Seq(Record) /\ Len(records') = Len(records) + 1
         /\ New = Len(records) + 1 /\ New \in 1 .. Len(records')
         /\ \A k \in 1 .. Len(records) : records'[k] = records[k]
         /\ records'[New] = [on |-> TRUE, p |-> new]
<1>1. records \in Seq(Record) BY DEF RecordT
<1>2. [on |-> TRUE, p |-> new] \in Record BY DEF Record
<1> QED BY <1>1, <1>2, AppendProperties DEF Add, New

\* Points stay natural numbers.
LEMMA MirroredPoints ==
  ASSUME NEW p \in Points, NEW l \in Nat, NEW f \in Nat
  PROVE  [p EXCEPT !.lvl = l, !.free = f] \in Points
BY DEF Points

LEMMA LevelledPoints ==
  ASSUME NEW p \in Points
  PROVE  [p EXCEPT !.lvl = @ + 1, !.free = @ + PointsPerLevel] \in Points
<1>1. p.lvl + 1 \in Nat /\ p.free + PointsPerLevel \in Nat
  BY RecordAssumption DEF Points
<1> QED BY <1>1, MirroredPoints, Zenon DEF Points

LEMMA SpentPoint ==
  ASSUME NEW p \in Points, p.free > 0
  PROVE  [p EXCEPT !.free = @ - 1, !.spent = @ + 1] \in Points
<1>1. p.free - 1 \in Nat /\ p.spent + 1 \in Nat BY DEF Points
<1>2. \A f, s \in Nat : [p EXCEPT !.free = f, !.spent = s] \in Points BY DEF Points
<1> QED BY <1>1, <1>2, Zenon DEF Points

LEMMA RetroactivePoints == ASSUME NEW p \in Points PROVE Retroactive(p) \in Points
<1>1. Granted(p.lvl) \in Nat BY GrantedNat DEF Points
<1>2. CASE Granted(p.lvl) > p.spent
  <2>1. Granted(p.lvl) - p.spent \in Nat BY <1>1, <1>2 DEF Points
  <2>2. [p EXCEPT !.free = Granted(p.lvl) - p.spent] \in Points BY <2>1 DEF Points
  <2> QED BY <2>2 DEF Retroactive
<1>3. CASE ~(Granted(p.lvl) > p.spent) BY <1>3 DEF Retroactive
<1> QED BY <1>2, <1>3

\* The points a step gives a record.
LEMMA FightPoints ==
  ASSUME Types, FightEnds
  PROVE  \E p \in Points : /\ records' = [records EXCEPT ![session.char].p = p]
                           /\ session.char \in 1 .. Len(records)
                           /\ writes' = writes \cup {p}
<1>1. session.char \in 1 .. Len(records) BY DEF Types, RecordT, FightEnds
<1>2. records[session.char].p \in Points BY <1>1, RecordTyped DEF Types
<1>3. [Pts(session.char) EXCEPT !.lvl = @ + 1, !.free = @ + PointsPerLevel] \in Points
  BY <1>2, LevelledPoints DEF Pts
<1> QED BY <1>1, <1>3 DEF FightEnds

LEMMA AllocatedPoints ==
  ASSUME Types, HandleAllocate
  PROVE  \/ UNCHANGED <<records, writes>> /\ past' = [past EXCEPT !.lost = @ + 1]
         \/ \E p \in Points : /\ records' = [records EXCEPT ![index].p = p]
                              /\ index \in 1 .. Len(records) /\ Persist(p, {}, past.lost)
<1>1. CASE session.char # 0 /\ index # 0 /\ Pts(index).free > 0
  <2>1. index \in 1 .. Len(records) BY <1>1 DEF Types, RecordT
  <2>2. records[index].p \in Points BY <2>1, RecordTyped DEF Types
  <2>3. [Pts(index) EXCEPT !.free = @ - 1, !.spent = @ + 1] \in Points
    BY <1>1, <2>2, SpentPoint DEF Pts
  <2> QED BY <1>1, <2>1, <2>3 DEF HandleAllocate
<1>2. CASE ~(session.char # 0 /\ index # 0 /\ Pts(index).free > 0)
  BY <1>2 DEF HandleAllocate
<1> QED BY <1>1, <1>2

LEMMA EffectPoints ==
  ASSUME Types, NEW e \in effects, EffectsMirrored(e)
  PROVE  \E p \in Points : /\ records' = [records EXCEPT ![e.char] = [on |-> TRUE, p |-> p]]
                           /\ e.char \in 1 .. Len(records) /\ Persist(p, {}, past.lost)
<1>1. e.char \in 1 .. Len(records) /\ e.lvl \in Nat /\ e.free \in Nat BY DEF Types, QueueT
<1>2. records[e.char].p \in Points BY <1>1, RecordTyped DEF Types
<1>3. [Pts(e.char) EXCEPT !.lvl = e.lvl, !.free = e.free] \in Points
  BY <1>1, <1>2, MirroredPoints DEF Pts
<1> QED BY <1>1, <1>3 DEF EffectsMirrored

(***************************************************************************)
(* The list of records grows; what points into it stays inside.            *)
(***************************************************************************)
Grows == records' \in Seq(Record) /\ Len(records') >= Len(records)

LEMMA RecordsGrow == Types /\ [Next]_vars => Grows
<1> SUFFICES ASSUME Types, [Next]_vars PROVE Grows OBVIOUS
<1>0. RecordT /\ LinkT /\ records \in Seq(Record) /\ Len(records) \in Nat
  BY DEF Types, RecordT
<1>1. CASE UNCHANGED records BY <1>0, <1>1 DEF Grows
<1>2. CASE Connects \/ Drop \/ ClientActs \/ allocate_points \/ SendAllocate \/ SendUnsigned
  BY <1>2, <1>1 DEF Connects, Connect, Drop, ClientActs, Gate, AuthOk, CharacterArrives,
     CharacterDeleted, GateEffect, ScanDone, StaleScanDone, create_character, ScanMisses, SET_ONCHAIN_CHARACTER,
     BEGIN_SERVER_REHYDRATE, DeleteCharacter, ClientOnly, serverVars, allocate_points, SendAllocate,
     SendUnsigned
<1>3. CASE Restart
  <2>1. \A r \in 1 .. Len(records) : [records[r] EXCEPT !.on = FALSE] \in Record
    <3>1. ASSUME NEW r \in 1 .. Len(records) PROVE [records[r] EXCEPT !.on = FALSE] \in Record
      <4>1. records[r] \in Record BY <1>0, RecordTyped
      <4> QED BY <4>1 DEF Record
    <3> QED BY <3>1
  <2>2. records' = [r \in 1 .. Len(records) |-> [records[r] EXCEPT !.on = FALSE]]
    BY <1>0, <1>3 DEF Restart
  <2>3. records' \in Seq(Record) /\ Len(records') = Len(records)
    <3> DEFINE f[r \in 1 .. Len(records)] == [records[r] EXCEPT !.on = FALSE]
    <3>1. records' = f BY <2>2
    <3>2. f \in [1 .. Len(records) -> Record] BY <2>1
    <3> HIDE DEF f
    <3> QED BY <1>0, <3>1, <3>2
  <2> QED BY <1>0, <2>3 DEF Grows
<1>4. ASSUME NEW w \in writes, WriteLands(w) \/ WriteFails(w) PROVE Grows
  BY <1>4, <1>1 DEF WriteLands, WriteFails, serverVars
<1>5. CASE update_after_fight \/ UpdateFails
  BY <1>5, <1>1 DEF update_after_fight, UpdateFails, serverVars
<1>p. ASSUME NEW r \in 1 .. Len(records), NEW p \in Points, records' = [records EXCEPT ![r].p = p]
      PROVE  Grows
  <2> DEFINE new == [records EXCEPT ![r].p = p]
  <2>1. new \in Seq(Record) /\ Len(new) = Len(records) BY <1>0, ChangedPoints
  <2>2. records' = new BY <1>p
  <2> HIDE DEF new
  <2> QED BY <1>0, <2>1, <2>2 DEF Grows
<1>6. CASE FightEnds
  <2>1. PICK p \in Points : /\ records' = [records EXCEPT ![session.char].p = p]
                            /\ session.char \in 1 .. Len(records)
    BY <1>6, FightPoints
  <2> QED BY <2>1, <1>p, Zenon
<1>7. ASSUME NEW e \in effects, EffectsMirrored(e) PROVE Grows
  <2>1. PICK p \in Points : /\ records' = [records EXCEPT ![e.char] = [on |-> TRUE, p |-> p]]
                            /\ e.char \in 1 .. Len(records)
    BY <1>7, EffectPoints
  <2>2. [on |-> TRUE, p |-> p] \in Record BY DEF Record
  <2> QED BY <1>0, <2>1, <2>2, ChangedRecord DEF Grows
<1>8. CASE HandleAllocate
  <2>1. CASE UNCHANGED records BY <2>1, <1>1
  <2>2. CASE \E p \in Points : /\ records' = [records EXCEPT ![index].p = p]
                                /\ index \in 1 .. Len(records)
    BY <2>2, <1>p, Zenon
  <2> QED BY <1>8, <2>1, <2>2, AllocatedPoints
<1>a. ASSUME NEW p \in Points, Add(p) PROVE Grows
  <2>1. records' \in Seq(Record) /\ Len(records') = Len(records) + 1
    BY <1>0, <1>a, AddedRecord
  <2> QED BY <1>0, <2>1 DEF Grows
<1>9. CASE HandleLogin \/ Refuse \/ HandleCreate
  BY <1>9, <1>1 DEF HandleLogin, Refuse, HandleCreate, serverVars
<1>10. CASE HandleRestore
  <2>1. Head(up).points \in Points BY <1>0, <1>10, TakenTyped DEF HandleRestore, Received, Messages
  <2>2. UNCHANGED records \/ Add(Head(up).points) BY <1>10 DEF HandleRestore
  <2> QED BY <1>1, <1>a, <2>1, <2>2
<1>11. CASE HandleDelete
  <2>1. UNCHANGED records \/ (index # 0 /\ records' = [records EXCEPT ![index].on = FALSE])
    BY <1>11 DEF HandleDelete
  <2>2. index # 0 => index \in 1 .. Len(records) BY <1>0 DEF RecordT
  <2>3. index # 0 => /\ [records EXCEPT ![index].on = FALSE] \in Seq(Record)
                     /\ Len([records EXCEPT ![index].on = FALSE]) = Len(records)
    BY <1>0, <2>2, ClosedRecord
  <2>4. index # 0 /\ records' = [records EXCEPT ![index].on = FALSE] =>
          records' \in Seq(Record) /\ Len(records') = Len(records)
    BY <2>3, Zenon
  <2> QED BY <1>0, <1>1, <2>1, <2>4 DEF Grows
<1>12. ASSUME NEW h \in handlers, HandlerStep(h) \/ RowReadFails(h) PROVE Grows
  <2>1. \/ UNCHANGED records \/ Add(Retroactive(h.points)) \/ Add(NoPoints)
    BY <1>12 DEF HandlerStep, RowLoaded, ItemsLoaded, Hydrated, IdsFound, RowReadFails
  <2>2. Retroactive(h.points) \in Points BY RetroactivePoints DEF Types, HandlerT
  <2> QED BY <1>1, <1>a, <2>1, <2>2, NoPointsTyped
<1>13. CASE UNCHANGED vars BY <1>13, <1>1 DEF vars
<1> QED
  BY <1>2, <1>3, <1>4, <1>5, <1>6, <1>7, <1>8, <1>9, <1>10, <1>11, <1>12, <1>13
  DEF Next, ServerStep, ClientActs

LEMMA SeatTyped ==
  ASSUME RecordT, Grows, NEW h, NEW c \in 0 .. Len(records'), Seat(h, c)
  PROVE  session' \in [auth : BOOLEAN, char : 0 .. Len(records')]
<1>1. session \in [auth : BOOLEAN, char : 0 .. Len(records')]
  BY DEF RecordT, Grows
<1>2. [session EXCEPT !.char = c] \in [auth : BOOLEAN, char : 0 .. Len(records')]
  BY <1>1
<1> QED BY <1>1, <1>2 DEF Seat

LEMMA RecordStep == Types /\ [Next]_vars => RecordT'
<1> SUFFICES ASSUME Types, [Next]_vars PROVE RecordT' OBVIOUS
<1>g. Grows BY RecordsGrow
<1>0. /\ RecordT /\ LinkT /\ Len(records) \in Nat /\ records' \in Seq(Record)
      /\ Len(records') \in Nat /\ Len(records') >= Len(records)
  BY <1>g DEF Types, RecordT, Grows
<1>s. /\ index \in 0 .. Len(records') /\ session \in [auth : BOOLEAN, char : 0 .. Len(records')]
  BY <1>0 DEF RecordT
<1>f. ASSUME index' \in 0 .. Len(records'),
             session' \in [auth : BOOLEAN, char : 0 .. Len(records')]
      PROVE  RecordT'
  BY <1>0, <1>f DEF RecordT
<1>1. CASE UNCHANGED <<index, session>> BY <1>s, <1>1, <1>f
<1>2. CASE ClientActs \/ allocate_points \/ SendAllocate \/ SendUnsigned
  BY <1>2, <1>1 DEF ClientActs, Gate, AuthOk, CharacterArrives,
     CharacterDeleted, GateEffect, ScanDone, StaleScanDone, create_character, ScanMisses, SET_ONCHAIN_CHARACTER,
     BEGIN_SERVER_REHYDRATE, DeleteCharacter, ClientOnly, serverVars, allocate_points, SendAllocate,
     SendUnsigned
<1>3. CASE Connects \/ Drop \/ Restart
  <2>1. session' = NoSession /\ (index' = index \/ index' = 0)
    BY <1>3 DEF Connects, Connect, Drop, Restart, ClientLosesLink
  <2>2. NoSession \in [auth : BOOLEAN, char : 0 .. Len(records')]
    BY <1>0 DEF NoSession
  <2> QED BY <1>0, <1>s, <2>1, <2>2, <1>f
<1>4. ASSUME NEW w \in writes, WriteLands(w) \/ WriteFails(w) PROVE RecordT'
  BY <1>4, <1>1 DEF WriteLands, WriteFails, serverVars
<1>5. CASE update_after_fight \/ UpdateFails \/ FightEnds \/ \E e \in effects : EffectsMirrored(e)
  BY <1>5, <1>1 DEF update_after_fight, UpdateFails, FightEnds, EffectsMirrored, serverVars
<1>6. CASE HandleAllocate \/ Refuse \/ HandleCreate
  BY <1>6, <1>1 DEF HandleAllocate, Refuse, HandleCreate, serverVars
<1>7. CASE HandleLogin
  <2>1. session' = [auth |-> TRUE, char |-> index] /\ index' = index BY <1>7 DEF HandleLogin
  <2>2. [auth |-> TRUE, char |-> index] \in [auth : BOOLEAN, char : 0 .. Len(records')]
    BY <1>s
  <2> QED BY <1>s, <2>1, <2>2, <1>f
<1>8. CASE HandleRestore
  <2>1. Head(up).points \in Points BY <1>0, <1>8, TakenTyped DEF HandleRestore, Received, Messages
  <2>2. \/ index' = index /\ session' = [session EXCEPT !.char = index]
        \/ /\ Add(Head(up).points) /\ index' = New
           /\ session' = [session EXCEPT !.char = New]
    BY <1>8 DEF HandleRestore
  <2>3. Add(Head(up).points) => New \in 0 .. Len(records')
    <3>1. Add(Head(up).points) => New \in 1 .. Len(records') BY <1>0, <2>1, AddedRecord
    <3> QED BY <3>1
  <2>4. \A c \in 0 .. Len(records') :
          [session EXCEPT !.char = c] \in [auth : BOOLEAN, char : 0 .. Len(records')]
    BY <1>s
  <2> QED BY <1>s, <2>2, <2>3, <2>4, <1>f
<1>9. CASE HandleDelete
  <2>1. \/ UNCHANGED <<index, session>>
        \/ index' = 0 /\ session' = [session EXCEPT !.char = 0]
    BY <1>9 DEF HandleDelete
  <2>2. 0 \in 0 .. Len(records') /\
          [session EXCEPT !.char = 0] \in [auth : BOOLEAN, char : 0 .. Len(records')]
    BY <1>0, <1>s
  <2> QED BY <1>1, <2>1, <2>2, <1>f
<1>10. ASSUME NEW h \in handlers, HandlerStep(h) \/ RowReadFails(h) PROVE RecordT'
  <2>1. Retroactive(h.points) \in Points BY RetroactivePoints DEF Types, HandlerT
  <2>2. \/ UNCHANGED <<index, session>>
        \/ index' = index /\ Seat(h, index)
        \/ Add(Retroactive(h.points)) /\ index' = New /\ Seat(h, New)
        \/ Add(NoPoints) /\ index' = New /\ Seat(h, New)
    BY <1>10 DEF HandlerStep, RowLoaded, ItemsLoaded, Hydrated, IdsFound, RowReadFails
  <2>3. Add(Retroactive(h.points)) \/ Add(NoPoints) => New \in 1 .. Len(records')
    BY <1>0, <2>1, NoPointsTyped, AddedRecord
  <2>4. New \in 1 .. Len(records') => New \in 0 .. Len(records') BY <1>0
  <2>5. \A c \in 0 .. Len(records') :
          Seat(h, c) => session' \in [auth : BOOLEAN, char : 0 .. Len(records')]
    BY <1>0, <1>g, SeatTyped
  <2> QED BY <1>1, <1>s, <2>2, <2>3, <2>4, <2>5, <1>f
<1>11. CASE UNCHANGED vars BY <1>11, <1>1 DEF vars
<1> QED
  BY <1>2, <1>3, <1>4, <1>5, <1>6, <1>7, <1>8, <1>9, <1>10, <1>11
  DEF Next, ServerStep, ClientActs

(***************************************************************************)
(* Handlers                                                                *)
(***************************************************************************)
LEMMA HandlersStep == Types /\ [Next]_vars => HandlerT'
<1> SUFFICES ASSUME Types, [Next]_vars PROVE HandlerT' OBVIOUS
<1>g. Grows BY RecordsGrow
<1>0. /\ RecordT /\ LinkT /\ StoreT /\ HandlerT /\ Len(records) \in Nat /\ Len(records') \in Nat
      /\ Len(records') >= Len(records)
  BY <1>g DEF Types, RecordT, Grows
<1> DEFINE All == [conn : Nat, stage : Stages, kind : {"auth_ok", "character"},
                   char : 0 .. Len(records'), points : Points]
<1>a. handlers \subseteq All BY <1>0 DEF HandlerT
<1>b. ASSUME NEW st \in Stages, NEW k \in {"auth_ok", "character"}, NEW c \in 0 .. Len(records')
      PROVE  Handler(st, k, c, NoPoints) \in All
  BY <1>0, NoPointsTyped DEF Handler, LinkT
<1>f. ASSUME handlers' \subseteq All PROVE HandlerT'
  BY <1>f DEF HandlerT
<1> HIDE DEF All
<1>1. CASE UNCHANGED handlers \/ handlers' = {} BY <1>a, <1>1, <1>f
<1>2. CASE ClientActs \/ allocate_points \/ SendAllocate \/ SendUnsigned
  BY <1>2, <1>1 DEF ClientActs, Gate, AuthOk, CharacterArrives,
     CharacterDeleted, GateEffect, ScanDone, StaleScanDone, create_character, ScanMisses, SET_ONCHAIN_CHARACTER,
     BEGIN_SERVER_REHYDRATE, DeleteCharacter, ClientOnly, serverVars, allocate_points, SendAllocate,
     SendUnsigned
<1>3. CASE Connects \/ Drop \/ Restart
  BY <1>3, <1>1 DEF Connects, Connect, Drop, Restart
<1>4. ASSUME NEW w \in writes, WriteLands(w) \/ WriteFails(w) PROVE HandlerT'
  BY <1>4, <1>1 DEF WriteLands, WriteFails, serverVars
<1>5. CASE update_after_fight \/ UpdateFails \/ FightEnds \/ \E e \in effects : EffectsMirrored(e)
  BY <1>5, <1>1 DEF update_after_fight, UpdateFails, FightEnds, EffectsMirrored, serverVars
<1>6. CASE HandleAllocate \/ Refuse \/ HandleDelete
  BY <1>6, <1>1 DEF HandleAllocate, Refuse, HandleDelete, serverVars
<1>7. CASE HandleLogin
  <2>1. index \in 0 .. Len(records') BY <1>0 DEF RecordT
  <2>2. \E st \in Stages : handlers' = handlers \cup {Handler(st, "auth_ok", index, NoPoints)}
    BY <1>7 DEF HandleLogin, Stages
  <2> QED BY <1>a, <1>b, <1>f, <2>1, <2>2
<1>8. CASE HandleCreate
  <2>1. handlers' = handlers \cup {Handler("ids", "character", 0, NoPoints)}
    BY <1>8 DEF HandleCreate
  <2>2. Handler("ids", "character", 0, NoPoints) \in All BY <1>0, <1>b DEF Stages
  <2> QED BY <1>a, <1>f, <2>1, <2>2
<1>9. CASE HandleRestore
  <2>1. Head(up).points \in Points BY <1>0, <1>9, TakenTyped DEF HandleRestore, Received, Messages
  <2>2. \/ handlers' = handlers \cup {Handler("hydrate", "character", index, NoPoints)}
        \/ /\ Add(Head(up).points)
           /\ handlers' = handlers \cup {Handler("hydrate", "character", New, NoPoints)}
    BY <1>9 DEF HandleRestore
  <2>3. Add(Head(up).points) => New \in 1 .. Len(records') BY <1>0, <2>1, AddedRecord
  <2>4. index \in 0 .. Len(records') /\ (New \in 1 .. Len(records') => New \in 0 .. Len(records'))
    BY <1>0 DEF RecordT
  <2>5. \A c \in 0 .. Len(records') : Handler("hydrate", "character", c, NoPoints) \in All
    BY <1>b DEF Stages
  <2> QED BY <1>a, <1>f, <2>2, <2>3, <2>4, <2>5
<1>10. ASSUME NEW h \in handlers, HandlerStep(h) \/ RowReadFails(h) PROVE HandlerT'
  <2>0. h \in All /\ Retroactive(h.points) \in Points
    BY <1>a, RetroactivePoints DEF Types, HandlerT
  <2>c. ASSUME NEW c \in 0 .. Len(records') PROVE [h EXCEPT !.stage = "hydrate", !.char = c] \in All
    <3> DEFINE once == [h EXCEPT !.stage = "hydrate"]
    <3>1. once \in All BY <2>0 DEF All, Stages
    <3>2. [once EXCEPT !.char = c] \in All
      <4> HIDE DEF once
      <4> QED BY <3>1 DEF All
    <3> QED BY <3>2
  <2>p. ASSUME NEW p \in Points PROVE [h EXCEPT !.stage = "items", !.points = p] \in All
    <3> DEFINE once == [h EXCEPT !.stage = "items"]
    <3>1. once \in All BY <2>0 DEF All, Stages
    <3>2. [once EXCEPT !.points = p] \in All
      <4> HIDE DEF once
      <4> QED BY <3>1 DEF All
    <3> QED BY <3>2
  <2>1. CASE RowReadFails(h) \/ Hydrated(h) \/ IdsFound(h)
    <3>1. handlers' = handlers \ {h} BY <2>1 DEF RowReadFails, Hydrated, IdsFound
    <3> QED BY <1>a, <1>f, <3>1
  <2>2. CASE RowLoaded(h)
    <3>1. \/ handlers' = handlers \ {h}
          \/ handlers' = (handlers \ {h}) \cup {[h EXCEPT !.stage = "hydrate", !.char = index]}
          \/ row # None /\ handlers' = (handlers \ {h}) \cup {[h EXCEPT !.stage = "items", !.points = row]}
      BY <2>2 DEF RowLoaded
    <3>2. index \in 0 .. Len(records') /\ (row # None => row \in Points)
      BY <1>0 DEF RecordT, StoreT
    <3> QED BY <1>a, <1>f, <2>c, <2>p, <3>1, <3>2
  <2>3. CASE ItemsLoaded(h)
    <3>1. /\ Add(Retroactive(h.points))
          /\ handlers' = (handlers \ {h}) \cup {[h EXCEPT !.stage = "hydrate", !.char = New]}
      BY <2>3 DEF ItemsLoaded
    <3>2. New \in 1 .. Len(records') BY <1>0, <2>0, <3>1, AddedRecord
    <3>3. New \in 0 .. Len(records') BY <1>0, <3>2
    <3> QED BY <1>a, <1>f, <2>c, <3>1, <3>3
  <2> QED BY <1>10, <2>1, <2>2, <2>3 DEF HandlerStep
<1>11. CASE UNCHANGED vars BY <1>11, <1>1 DEF vars
<1> QED
  BY <1>2, <1>3, <1>4, <1>5, <1>6, <1>7, <1>8, <1>9, <1>10, <1>11
  DEF Next, ServerStep, ClientActs

(***************************************************************************)
(* Tasks and their results                                                 *)
(***************************************************************************)
LEMMA QueueStep == Types /\ [Next]_vars => QueueT'
<1> SUFFICES ASSUME Types, [Next]_vars PROVE QueueT' OBVIOUS
<1>g. Grows BY RecordsGrow
<1>0. /\ RecordT /\ QueueT /\ ChainT /\ Len(records) \in Nat /\ Len(records') \in Nat
      /\ Len(records') >= Len(records)
  BY <1>g DEF Types, RecordT, Grows
<1>a. /\ updates \in Seq(Nat) /\ Len(updates) \in Nat
      /\ \A k \in 1 .. Len(updates) : updates[k] \in 1 .. Len(records')
      /\ effects \subseteq [char : 1 .. Len(records'), lvl : Nat, free : Nat]
  <2>1. \A k \in 1 .. Len(updates) : updates[k] \in 1 .. Len(records')
    BY <1>0 DEF QueueT
  <2>2. effects \subseteq [char : 1 .. Len(records'), lvl : Nat, free : Nat]
    BY <1>0 DEF QueueT
  <2> QED BY <1>0, <2>1, <2>2 DEF QueueT
<1>t. ASSUME updates # << >>
      PROVE  /\ Tail(updates) \in Seq(Nat) /\ Head(updates) \in 1 .. Len(records)
             /\ \A k \in 1 .. Len(Tail(updates)) : Tail(updates)[k] \in 1 .. Len(records')
  <2>0. updates \in Seq(Nat) BY <1>a
  <2>1. /\ Tail(updates) \in Seq(Nat) /\ Len(Tail(updates)) = Len(updates) - 1
        /\ \A k \in 1 .. Len(Tail(updates)) : Tail(updates)[k] = updates[k + 1]
    BY <1>t, <2>0, HeadTailProperties
  <2>2. Head(updates) = updates[1] /\ 1 \in 1 .. Len(updates) BY <1>t, <2>0
  <2>3. \A k \in 1 .. Len(Tail(updates)) : k + 1 \in 1 .. Len(updates) BY <1>a, <2>1
  <2> QED BY <1>0, <1>a, <2>1, <2>2, <2>3 DEF QueueT
<1>1. CASE UNCHANGED queueVars BY <1>a, <1>1 DEF QueueT, queueVars
<1>2. CASE ClientActs \/ allocate_points \/ SendAllocate \/ SendUnsigned \/ ServerActs \/ Connects \/ Drop
  BY <1>2, <1>1 DEF ClientActs, Gate, AuthOk, CharacterArrives,
     CharacterDeleted, GateEffect, ScanDone, StaleScanDone, create_character, ScanMisses, SET_ONCHAIN_CHARACTER,
     BEGIN_SERVER_REHYDRATE, DeleteCharacter, ClientOnly, queueVars, allocate_points, SendAllocate,
     SendUnsigned,
     ServerActs, ServerStep, HandlerStep, HandleLogin, Refuse,
     HandleRestore, HandleCreate, HandleDelete, HandleAllocate, RowLoaded, ItemsLoaded, Hydrated,
     IdsFound, RowReadFails, Connects, Connect, Drop
<1>3. CASE Restart
  <2>1. updates' = << >> /\ effects' = {} BY <1>3 DEF Restart
  <2> QED BY <2>1 DEF QueueT
<1>4. ASSUME NEW w \in writes, WriteLands(w) \/ WriteFails(w) PROVE QueueT'
  BY <1>4, <1>1 DEF WriteLands, WriteFails
<1>5. CASE FightEnds
  <2>0. session.char \in 1 .. Len(records) BY <1>0, <1>5 DEF RecordT, FightEnds
  <2>1. session.char \in 1 .. Len(records') BY <1>0, <2>0
  <2>2. updates' = Append(updates, session.char) /\ effects' = effects BY <1>5 DEF FightEnds
  <2>3. session.char \in Nat BY <2>1, <1>0
  <2>4. /\ updates' \in Seq(Nat) /\ Len(updates') = Len(updates) + 1
        /\ \A k \in 1 .. Len(updates) : updates'[k] = updates[k]
        /\ updates'[Len(updates) + 1] = session.char
    BY <1>a, <2>2, <2>3, AppendProperties
  <2>5. ASSUME NEW k \in 1 .. Len(updates') PROVE updates'[k] \in 1 .. Len(records')
    <3>1. CASE k \in 1 .. Len(updates) BY <3>1, <1>a, <2>4
    <3>2. CASE k = Len(updates) + 1 BY <3>2, <2>1, <2>4
    <3> QED BY <3>1, <3>2, <1>a, <2>4
  <2> QED BY <1>a, <2>2, <2>4, <2>5 DEF QueueT
<1>6. CASE UpdateFails
  <2>1. updates # << >> /\ updates' = Tail(updates) /\ effects' = effects
    BY <1>6 DEF UpdateFails
  <2> QED BY <1>a, <1>t, <2>1 DEF QueueT
<1>7. CASE update_after_fight
  <2>1. /\ updates # << >> /\ updates' = Tail(updates)
        /\ chain' = [chain EXCEPT !.lvl = @ + 1]
        /\ effects' = effects \cup
             {[char |-> Head(updates), lvl |-> chain'.lvl, free |-> Granted(chain'.lvl) - chain.spent]}
    BY <1>7 DEF update_after_fight
  <2>2. ChainT' BY ChainStep
  <2>3. chain'.spent = chain.spent /\ chain'.lvl \in Nat BY <1>0, <2>1 DEF ChainT
  <2>4. Granted(chain'.lvl) - chain.spent \in Nat
    <3>1. /\ Granted(chain'.lvl) \in Nat /\ chain.spent \in Nat BY <1>0, <2>3, GrantedNat DEF ChainT
    <3>2. chain'.spent <= Granted(chain'.lvl) BY <2>2 DEF ChainT, Granted
    <3> QED BY <2>3, <3>1, <3>2
  <2>5. Head(updates) \in 1 .. Len(records') BY <1>0, <1>t, <2>1
  <2>6. effects' \subseteq [char : 1 .. Len(records'), lvl : Nat, free : Nat]
    BY <1>a, <2>1, <2>3, <2>4, <2>5
  <2> QED BY <1>t, <2>1, <2>6 DEF QueueT
<1>8. ASSUME NEW e \in effects, EffectsMirrored(e) PROVE QueueT'
  <2>1. updates' = updates /\ effects' = effects \ {e} BY <1>8 DEF EffectsMirrored
  <2> QED BY <1>a, <2>1 DEF QueueT
<1>9. CASE UNCHANGED vars BY <1>9, <1>1 DEF vars, queueVars
<1> QED
  BY <1>2, <1>3, <1>4, <1>5, <1>6, <1>7, <1>8, <1>9 DEF Next, ServerActs, ClientActs

(***************************************************************************)
(* The database and the history                                            *)
(***************************************************************************)
PastT == [faults : SUBSET Faults, lost : Nat, fights : Nat, mishaps : Nat]

LEMMA HappensTyped ==
  ASSUME past \in PastT, NEW F \in SUBSET Faults, Happens(F)
  PROVE  past' \in PastT /\ past'.faults = past.faults \cup F /\ past'.lost = past.lost
BY DEF Happens, PastT

LEMMA LosesTyped ==
  ASSUME past \in PastT, NEW n \in Nat, past' = [past EXCEPT !.lost = @ + n]
  PROVE  past' \in PastT /\ past'.faults = past.faults /\ past'.lost = past.lost + n
<1>1. past.lost + n \in Nat BY DEF PastT
<1>2. \A l \in Nat : /\ [past EXCEPT !.lost = l] \in PastT /\ [past EXCEPT !.lost = l].lost = l
                     /\ [past EXCEPT !.lost = l].faults = past.faults
  BY DEF PastT
<1> QED BY <1>1, <1>2, Zenon DEF PastT

LEMMA MishapTyped ==
  ASSUME past \in PastT, NEW F \in SUBSET Faults, NEW n \in Nat, Mishap(F, n)
  PROVE  past' \in PastT /\ past'.faults = past.faults \cup F /\ past'.lost = past.lost + n
<1> DEFINE M == past.mishaps + 1
           L == past.lost + n
           H == past.faults \cup F
<1>1. M \in Nat /\ L \in Nat BY DEF PastT
<1>2. H \in SUBSET Faults BY DEF PastT
<1>3. past' = [past EXCEPT !.mishaps = M, !.faults = H, !.lost = L]
  BY DEF Mishap, PastT
<1>4. past' \in PastT /\ past'.faults = H /\ past'.lost = L
  <2> HIDE DEF M, L, H
  <2> QED BY <1>1, <1>2, <1>3 DEF PastT
<1> QED BY <1>4

\* The faults a step adds are known ones, and no fault is forgotten.
LEMMA FightCounts ==
  ASSUME past \in PastT, FightEnds
  PROVE  past' \in PastT /\ past.faults \subseteq past'.faults /\ past'.lost = past.lost
<1> DEFINE F == IF writes # {} THEN {"row"} ELSE {}
           H == past.faults \cup F
           M == past.fights + 1
<1>1. H \in SUBSET Faults /\ past.faults \subseteq H BY DEF Faults, PastT
<1>2. M \in Nat BY DEF PastT
<1>3. \A m \in Nat, G \in SUBSET Faults :
         /\ [past EXCEPT !.fights = m, !.faults = G] \in PastT
         /\ [past EXCEPT !.fights = m, !.faults = G].faults = G
         /\ [past EXCEPT !.fights = m, !.faults = G].lost = past.lost
  BY DEF PastT
<1>4. past' = [past EXCEPT !.fights = M, !.faults = H]
  BY DEF FightEnds, PastT
<1> HIDE DEF M, H
<1> QED BY <1>1, <1>2, <1>3, <1>4

LEMMA FaultsKnown ==
  /\ \A n \in {"row", "crossed", "unsigned", "scan", "update", "overlap", "deleted"} :
        {n} \in SUBSET Faults
  /\ \A hs : OverlapFault(hs) \in SUBSET Faults
  /\ {} \in SUBSET Faults
  /\ \A F, G \in SUBSET Faults : F \cup G \in SUBSET Faults
BY DEF Faults, OverlapFault

\* The announcements in a queue are finitely many.
Announces(q) == {n \in 1 .. Len(q) : q[n].type = "allocate"}

LEMMA CountLen ==
  ASSUME NEW q, Len(q) \in Nat
  PROVE  IsFiniteSet(Announces(q)) /\ Allocations(q) \in Nat
<1>1. IsFiniteSet(1 .. Len(q)) BY FS_Interval
<1>2. Announces(q) \subseteq 1 .. Len(q) BY DEF Announces
<1>3. IsFiniteSet(Announces(q)) BY <1>1, <1>2, FS_Subset
<1> QED BY <1>3, FS_CardinalityType DEF Allocations, Announces

LEMMA PersistTyped ==
  ASSUME past \in PastT, NEW F \in SUBSET Faults, NEW p, NEW l \in Nat, Persist(p, F, l)
  PROVE  past' \in PastT /\ past.faults \cup F \subseteq past'.faults /\ past'.lost = l
<1> DEFINE G == past.faults \cup F \cup (IF writes # {} THEN {"row"} ELSE {})
<1>1. G \in SUBSET Faults /\ past.faults \cup F \subseteq G BY DEF Faults, PastT
<1>2. past' = [past EXCEPT !.faults = G, !.lost = l] BY DEF Persist, PastT
<1>3. \A H \in SUBSET Faults : /\ [past EXCEPT !.faults = H, !.lost = l] \in PastT
                               /\ [past EXCEPT !.faults = H, !.lost = l].faults = H
                               /\ [past EXCEPT !.faults = H, !.lost = l].lost = l
  BY DEF PastT
<1> HIDE DEF G
<1> QED BY <1>1, <1>2, <1>3

LEMMA PastStep == Types /\ [Next]_vars => past' \in PastT /\ past.faults \subseteq past'.faults
<1> SUFFICES ASSUME Types, [Next]_vars PROVE past' \in PastT /\ past.faults \subseteq past'.faults
  OBVIOUS
<1>0. past \in PastT /\ past.lost \in Nat /\ LinkT BY DEF Types, StoreT, PastT
<1>1. CASE UNCHANGED past BY <1>0, <1>1
<1>m. ASSUME NEW F \in SUBSET Faults, NEW n \in Nat, Mishap(F, n)
      PROVE  past' \in PastT /\ past.faults \subseteq past'.faults
  <2>1. past' \in PastT /\ past'.faults = past.faults \cup F BY <1>0, <1>m, MishapTyped
  <2> QED BY <2>1
<1>h. ASSUME NEW F \in SUBSET Faults, Happens(F)
      PROVE  past' \in PastT /\ past.faults \subseteq past'.faults
  <2>1. past' \in PastT /\ past'.faults = past.faults \cup F BY <1>0, <1>h, HappensTyped
  <2> QED BY <2>1
<1>p. ASSUME NEW F \in SUBSET Faults, NEW p, NEW l \in Nat, Persist(p, F, l)
      PROVE  past' \in PastT /\ past.faults \subseteq past'.faults
  <2>1. past' \in PastT /\ past.faults \cup F \subseteq past'.faults BY <1>0, <1>p, PersistTyped
  <2> QED BY <2>1
<1>l. ASSUME NEW n \in Nat, past' = [past EXCEPT !.lost = @ + n]
      PROVE  past' \in PastT /\ past.faults \subseteq past'.faults
  BY <1>0, <1>l, LosesTyped
<1>e. {} \in SUBSET Faults /\ 0 \in Nat OBVIOUS
<1>c. Allocations(up) \in Nat
  <2>1. Len(up) \in Nat BY <1>0 DEF LinkT
  <2> QED BY <2>1, CountLen
<1>2. CASE Gate \/ allocate_points \/ SendAllocate \/ SET_ONCHAIN_CHARACTER
  BY <1>2, <1>1 DEF Gate, AuthOk, CharacterArrives, CharacterDeleted, GateEffect, ScanDone,
     StaleScanDone, SET_ONCHAIN_CHARACTER, create_character, allocate_points, SendAllocate
<1>3. CASE ScanMisses \/ SendUnsigned \/ BEGIN_SERVER_REHYDRATE \/ DeleteCharacter
  <2>1. Mishap({}, 0) \/ Mishap({"scan"}, 0) \/ Mishap({"unsigned"}, 0)
    BY <1>3 DEF ScanMisses, SendUnsigned, BEGIN_SERVER_REHYDRATE, DeleteCharacter
  <2>2. {"scan"} \in SUBSET Faults /\ {"unsigned"} \in SUBSET Faults BY FaultsKnown
  <2> QED BY <2>1, <2>2, <1>e, <1>m
<1>4. ASSUME NEW token \in BOOLEAN, NEW stale \in 0 .. Len(unsent), Connect(token, stale)
      PROVE past' \in PastT /\ past.faults \subseteq past'.faults
  <2> DEFINE old == SubSeq(unsent, 1, stale)
  <2>1. UNCHANGED past \/ Mishap({}, Allocations(old)) BY <1>4 DEF Connect
  <2>2. Len(old) \in Nat
    <3>1. unsent \in Seq(Messages) /\ Len(unsent) \in Nat BY <1>0 DEF LinkT
    <3>2. \A i \in 1 .. stale : unsent[i] \in Messages BY <3>1, ElementOfSeq
    <3>3. old \in Seq(Messages) BY <3>1, <3>2, SubSeqProperties
    <3> QED BY <3>3, LenProperties
  <2>3. Allocations(old) \in Nat BY <2>2, CountLen
  <2> HIDE DEF old
  <2> QED BY <2>1, <2>3, <1>1, <1>e, <1>m
<1>5. CASE Drop BY <1>5, <1>m, <1>e, <1>c DEF Drop
<1>6. CASE Restart
  <2> DEFINE F == IF updates # << >> \/ effects # {} THEN {"update"} ELSE {}
  <2>1. F \in SUBSET Faults BY DEF Faults
  <2>2. Mishap(F, Allocations(up)) BY <1>6 DEF Restart
  <2> HIDE DEF F
  <2> QED BY <2>1, <2>2, <1>m, <1>c
<1>7. ASSUME NEW w \in writes, WriteLands(w) \/ WriteFails(w)
      PROVE past' \in PastT /\ past.faults \subseteq past'.faults
  <2>1. UNCHANGED past \/ Mishap({"row"}, 0) BY <1>7 DEF WriteLands, WriteFails
  <2>2. {"row"} \in SUBSET Faults BY DEF Faults
  <2> QED BY <2>1, <2>2, <1>1, <1>m, <1>e
<1>8. CASE FightEnds BY <1>0, <1>8, FightCounts
<1>9. CASE update_after_fight \/ UpdateFails
  <2>1. UNCHANGED past \/ Mishap({"update"}, 0) BY <1>9 DEF update_after_fight, UpdateFails
  <2>2. {"update"} \in SUBSET Faults BY DEF Faults
  <2> QED BY <2>1, <2>2, <1>1, <1>m, <1>e
<1>10. ASSUME NEW e \in effects, EffectsMirrored(e)
       PROVE past' \in PastT /\ past.faults \subseteq past'.faults
  <2>1. \E p \in Points : Persist(p, {}, past.lost) BY <1>10, EffectPoints
  <2> QED BY <2>1, <1>0, <1>e, <1>p
<1>11. CASE HandleAllocate
  <2>1. past' = [past EXCEPT !.lost = @ + 1] \/ \E p \in Points : Persist(p, {}, past.lost)
    BY <1>11, AllocatedPoints
  <2> QED BY <2>1, <1>0, <1>e, <1>l, <1>p
<1>12. CASE HandleLogin \/ HandleCreate BY <1>12, <1>1 DEF HandleLogin, HandleCreate
<1>13. CASE Refuse
  <2>1. Allocations(<<Head(up)>>) \in Nat
    <3>1. Len(<<Head(up)>>) = 1 OBVIOUS
    <3> QED BY <3>1, CountLen
  <2>2. past' = [past EXCEPT !.lost = @ + Allocations(<<Head(up)>>)] BY <1>13 DEF Refuse
  <2> QED BY <2>1, <2>2, <1>l
<1>14. CASE HandleRestore
  <2> DEFINE F == (IF alloc > 0 \/ Announced THEN {"crossed"} ELSE {}) \cup OverlapFault(handlers)
  <2>1. UNCHANGED past \/ Persist(Head(up).points, F, 0) BY <1>14 DEF HandleRestore
  <2>2. F \in SUBSET Faults BY FaultsKnown DEF Faults
  <2> HIDE DEF F
  <2> QED BY <2>1, <2>2, <1>1, <1>p
<1>15. CASE HandleDelete
  <2>1. UNCHANGED past \/ Persist(None, {"deleted"}, past.lost) BY <1>15 DEF HandleDelete
  <2>2. {"deleted"} \in SUBSET Faults BY DEF Faults
  <2> QED BY <2>1, <2>2, <1>0, <1>1, <1>p
<1>16. ASSUME NEW h \in handlers, HandlerStep(h) \/ RowReadFails(h)
       PROVE past' \in PastT /\ past.faults \subseteq past'.faults
  <2>1. \/ UNCHANGED past
        \/ Happens(IF writes # {} THEN {"row"} ELSE {}) \/ Happens(OverlapFault(handlers \ {h}))
        \/ Mishap({}, 0) \/ Persist(NoPoints, OverlapFault(handlers), past.lost)
    BY <1>16 DEF HandlerStep, RowReadFails, RowLoaded, ItemsLoaded, Hydrated, IdsFound
  <2>2. (IF writes # {} THEN {"row"} ELSE {}) \in SUBSET Faults BY DEF Faults
  <2> QED BY <2>1, <2>2, <1>0, <1>1, <1>e, <1>h, <1>m, <1>p, FaultsKnown
<1>17. CASE UNCHANGED vars BY <1>17, <1>1 DEF vars
<1> QED
  BY <1>2, <1>3, <1>4, <1>5, <1>6, <1>7, <1>8, <1>9, <1>10, <1>11, <1>12, <1>13, <1>14, <1>15,
     <1>16, <1>17 DEF Next, ServerStep, Connects

LEMMA StoreStep == Types /\ [Next]_vars => StoreT'
<1> SUFFICES ASSUME Types, [Next]_vars PROVE StoreT' OBVIOUS
<1>0. LinkT /\ row \in Points \cup {None} /\ writes \subseteq Points \cup {None}
  BY DEF Types, StoreT
<1>p. past' \in [faults : SUBSET Faults, lost : Nat, fights : Nat, mishaps : Nat]
  BY PastStep DEF PastT
<1>1. CASE UNCHANGED <<row, writes>> BY <1>0, <1>1, <1>p DEF StoreT
<1>w. ASSUME NEW p \in Points \cup {None}, NEW F, NEW l, Persist(p, F, l), UNCHANGED row PROVE StoreT'
  BY <1>0, <1>w, <1>p DEF StoreT, Persist
<1>2. CASE ClientActs \/ allocate_points \/ SendAllocate \/ SendUnsigned \/ Connects \/ Drop \/ Restart
  BY <1>2, <1>1 DEF ClientActs, Gate, AuthOk, CharacterArrives,
     CharacterDeleted, GateEffect, ScanDone, StaleScanDone, create_character, ScanMisses, SET_ONCHAIN_CHARACTER,
     BEGIN_SERVER_REHYDRATE, DeleteCharacter, ClientOnly, allocate_points, SendAllocate,
     SendUnsigned,
     Connects, Connect, Drop, Restart, ClientLosesLink
<1>3. ASSUME NEW w \in writes, WriteLands(w) \/ WriteFails(w) PROVE StoreT'
  BY <1>0, <1>3, <1>p DEF WriteLands, WriteFails, StoreT
<1>4. CASE update_after_fight \/ UpdateFails \/ HandleLogin \/ HandleCreate \/ Refuse
  BY <1>4, <1>1 DEF update_after_fight, UpdateFails, HandleLogin, HandleCreate, Refuse
<1>5. CASE FightEnds
  <2>1. PICK p \in Points : writes' = writes \cup {p} BY <1>5, FightPoints
  <2>2. row' = row BY <1>5 DEF FightEnds
  <2> QED BY <1>0, <1>p, <2>1, <2>2 DEF StoreT
<1>6. ASSUME NEW e \in effects, EffectsMirrored(e) PROVE StoreT'
  <2>1. \E p \in Points : Persist(p, {}, past.lost) BY <1>6, EffectPoints
  <2>2. UNCHANGED row BY <1>6 DEF EffectsMirrored
  <2> QED BY <2>1, <2>2, <1>w
<1>7. CASE HandleAllocate
  <2>1. UNCHANGED writes \/ \E p \in Points : Persist(p, {}, past.lost) BY <1>7, AllocatedPoints
  <2>2. UNCHANGED row BY <1>7 DEF HandleAllocate
  <2> QED BY <2>1, <2>2, <1>1, <1>w
<1>8. CASE HandleRestore
  <2>1. Head(up).points \in Points BY <1>0, <1>8, TakenTyped DEF HandleRestore, Received, Messages
  <2>2. UNCHANGED writes \/ \E F : Persist(Head(up).points, F, 0) BY <1>8 DEF HandleRestore
  <2>3. UNCHANGED row BY <1>8 DEF HandleRestore
  <2> QED BY <2>1, <2>2, <2>3, <1>1, <1>w
<1>9. CASE HandleDelete
  <2>1. (UNCHANGED writes \/ Persist(None, {"deleted"}, past.lost)) /\ UNCHANGED row BY <1>9 DEF HandleDelete
  <2> QED BY <2>1, <1>1, <1>w
<1>10. ASSUME NEW h \in handlers, HandlerStep(h) \/ RowReadFails(h) PROVE StoreT'
  <2>1. (UNCHANGED writes \/ Persist(NoPoints, OverlapFault(handlers), past.lost)) /\ UNCHANGED row
    BY <1>10 DEF HandlerStep, RowReadFails, RowLoaded, ItemsLoaded, Hydrated, IdsFound
  <2> QED BY <2>1, <1>1, <1>w, NoPointsTyped
<1>11. CASE UNCHANGED vars BY <1>11, <1>1 DEF vars
<1> QED
  BY <1>2, <1>3, <1>4, <1>5, <1>6, <1>7, <1>8, <1>9, <1>10, <1>11 DEF Next, ServerStep, ClientActs

LEMMA TypesStep == Types /\ [Next]_vars => Types'
BY ClientStep, LinkStep, ChainStep, RecordStep, HandlersStep, QueueStep, StoreStep DEF Types

LEMMA TypesGiveTypeOK == Types => TypeOK
<1> SUFFICES ASSUME Types PROVE TypeOK OBVIOUS
<1>1. \A r \in DOMAIN records : records[r] \in [on : BOOLEAN, p : Points]
  <2>1. records \in Seq(Record) BY DEF Types, RecordT
  <2>2. DOMAIN records = 1 .. Len(records) BY <2>1
  <2> QED BY <2>1, <2>2, ElementOfSeq DEF Record
<1>2. \A h \in handlers : h.conn \in Nat /\ h.char \in 0 .. Len(records)
  BY DEF Types, HandlerT
<1>3. past.faults \subseteq Faults /\ past.lost \in Nat BY DEF Types, StoreT
<1> QED
  BY <1>1, <1>2, <1>3 DEF TypeOK, Types, ClientT, LinkT, ChainT, RecordT, StoreT

\* Every variable keeps its type; in particular no points are ever negative:
\* neither those the chain grants nor those the server lets a player spend.
THEOREM TypeCorrect == Spec => []TypeOK
BY TypesInit, TypesStep, TypesGiveTypeOK, PTL DEF Spec

(***************************************************************************)
(* The session's record.  A restore checks the map before it reads the     *)
(* items: as long as nobody inserts a record meanwhile, none is in the map *)
(* when it inserts its own; and every task and every result belongs to the *)
(* record that is in the map, since a restart forgets them all.            *)
(***************************************************************************)
NoOverlap == past.faults \cap {"overlap", "deleted"} = {}

OneRecord ==
  NoOverlap =>
    /\ \A r \in 1 .. Len(records) : records[r].on <=> r = index
    /\ session.char # 0 => session.char = index
    /\ (\E h \in handlers : h.stage = "items") => index = 0
    /\ \A k \in 1 .. Len(updates) : updates[k] = index
    /\ \A e \in effects : e.char = index

LEMMA OneRecordInit == Init => OneRecord
<1> SUFFICES ASSUME Init PROVE OneRecord OBVIOUS
<1>1. records = << >> /\ updates = << >> /\ effects = {} /\ handlers = {} /\ session = NoSession
  BY DEF Init
<1> QED BY <1>1 DEF OneRecord, NoSession

\* What a step of OneRecord has to show, once no fault spoils it.
Tracks(ix, char, hs) ==
  /\ \A r \in 1 .. Len(records') : records'[r].on <=> r = ix
  /\ char # 0 => char = ix
  /\ (\E h \in hs : h.stage = "items") => ix = 0

LEMMA OneRecordStep == Types /\ OneRecord /\ [Next]_vars => OneRecord'
<1> SUFFICES ASSUME Types, OneRecord, [Next]_vars, NoOverlap'
             PROVE  /\ Tracks(index', session'.char, handlers')
                    /\ \A k \in 1 .. Len(updates') : updates'[k] = index'
                    /\ \A e \in effects' : e.char = index'
  BY DEF OneRecord, Tracks
<1> DEFINE Goal == /\ Tracks(index', session'.char, handlers')
                   /\ \A k \in 1 .. Len(updates') : updates'[k] = index'
                   /\ \A e \in effects' : e.char = index'
<1>0. /\ RecordT /\ LinkT /\ QueueT /\ HandlerT /\ records \in Seq(Record) /\ Len(records) \in Nat
      /\ updates \in Seq(Nat) /\ Len(updates) \in Nat /\ past \in PastT /\ past.lost \in Nat
  BY DEF Types, RecordT, QueueT, StoreT, PastT
<1>i. /\ NoOverlap
      /\ \A r \in 1 .. Len(records) : records[r].on <=> r = index
      /\ session.char # 0 => session.char = index
      /\ (\E h \in handlers : h.stage = "items") => index = 0
      /\ \A k \in 1 .. Len(updates) : updates[k] = index
      /\ \A e \in effects : e.char = index
  <2>1. past.faults \subseteq past'.faults BY PastStep
  <2>2. NoOverlap BY <2>1 DEF NoOverlap
  <2> QED BY <2>2 DEF OneRecord
\* With no record in the map there is nothing to update.
<1>e. index = 0 => updates = << >> /\ effects = {}
  <2>1. index = 0 => Len(updates) = 0
    <3>1. index = 0 /\ Len(updates) # 0 => 1 \in 1 .. Len(updates) BY <1>0
    <3>2. \A k \in 1 .. Len(updates) : updates[k] # 0 BY <1>0 DEF QueueT
    <3> QED BY <1>i, <3>1, <3>2
  <2>2. Len(updates) = 0 => updates = << >> BY <1>0, EmptySeq
  <2>3. \A e \in effects : e.char # 0 BY <1>0 DEF QueueT
  <2> QED BY <1>i, <2>1, <2>2, <2>3
<1>1. ASSUME UNCHANGED <<records, index, session, queueVars>>,
             \A h \in handlers' : h \in handlers \/ h.stage # "items"
      PROVE  Goal
  BY <1>i, <1>1 DEF Tracks, queueVars
<1>2. CASE ClientActs \/ allocate_points \/ SendAllocate \/ SendUnsigned
  <2>1. UNCHANGED <<handlers, records, index, session, queueVars>>
    BY <1>2 DEF ClientActs, Gate, AuthOk, CharacterArrives,
     CharacterDeleted, GateEffect, ScanDone, StaleScanDone, create_character, ScanMisses, SET_ONCHAIN_CHARACTER,
     BEGIN_SERVER_REHYDRATE, DeleteCharacter, ClientOnly, serverVars, allocate_points, SendAllocate,
     SendUnsigned
  <2> QED BY <1>1, <2>1
<1>3. CASE Connects \/ Drop
  <2>1. /\ session' = NoSession
        /\ UNCHANGED <<handlers, records, index, updates, effects>>
    BY <1>3 DEF Connects, Connect, Drop, ClientLosesLink
  <2> QED BY <1>i, <2>1 DEF Tracks, NoSession
<1>4. CASE Restart
  <2>1. /\ session' = NoSession /\ handlers' = {} /\ index' = 0 /\ updates' = << >> /\ effects' = {}
        /\ records' = [r \in 1 .. Len(records) |-> [records[r] EXCEPT !.on = FALSE]]
    BY <1>0, <1>4 DEF Restart, ClientLosesLink
  <2>2. ASSUME NEW r \in 1 .. Len(records') PROVE ~records'[r].on
    <3>1. Len(records') = Len(records)
      <4> DEFINE f == [r1 \in 1 .. Len(records) |-> [records[r1] EXCEPT !.on = FALSE]]
      <4>1. records' = f /\ DOMAIN f = 1 .. Len(records) BY <2>1
      <4>2. records' \in Seq(Record) BY RecordsGrow DEF Grows
      <4> HIDE DEF f
      <4> QED BY <1>0, <4>1, <4>2, LenProperties
    <3>2. records[r] \in Record BY <1>0, <3>1, RecordTyped
    <3> QED BY <2>1, <3>1, <3>2 DEF Record
  <2>3. \A r \in 1 .. Len(records') : r # 0 BY RecordsGrow DEF Grows
  <2> QED BY <2>1, <2>2, <2>3 DEF Tracks, NoSession
<1>5. ASSUME NEW w \in writes, WriteLands(w) \/ WriteFails(w) PROVE Goal
  BY <1>5, <1>1 DEF WriteLands, WriteFails, serverVars
\* A change of the points of a record in the map.
<1>p. ASSUME NEW r \in 1 .. Len(records), NEW p \in Points, records' = [records EXCEPT ![r].p = p],
             UNCHANGED <<index, session, handlers>>
      PROVE  Tracks(index', session'.char, handlers')
  <2> DEFINE new == [records EXCEPT ![r].p = p]
  <2>1. /\ new \in Seq(Record) /\ Len(new) = Len(records)
        /\ new[r] = [on |-> records[r].on, p |-> p]
        /\ \A k \in 1 .. Len(records) : k # r => new[k] = records[k]
    BY <1>0, ChangedPoints
  <2>2. records' = new BY <1>p
  <2> HIDE DEF new
  <2>3. \A k \in 1 .. Len(new) : new[k].on <=> records[k].on BY <2>1
  <2> QED BY <1>i, <1>p, <2>1, <2>2, <2>3 DEF Tracks
<1>6. CASE FightEnds
  <2>1. PICK p \in Points : /\ records' = [records EXCEPT ![session.char].p = p]
                            /\ session.char \in 1 .. Len(records)
    BY <1>6, FightPoints
  <2>2. /\ UNCHANGED <<index, session, handlers, effects>>
        /\ updates' = Append(updates, session.char) /\ session.char # 0
    BY <1>6 DEF FightEnds
  <2>3. Tracks(index', session'.char, handlers') BY <1>p, <2>1, <2>2
  <2>4. ASSUME NEW k \in 1 .. Len(updates') PROVE updates'[k] = index
    <3>1. /\ Len(updates') = Len(updates) + 1 /\ updates'[Len(updates) + 1] = session.char
          /\ \A j \in 1 .. Len(updates) : updates'[j] = updates[j]
      <4>1. session.char \in Nat BY <2>1, <1>0
      <4> QED BY <1>0, <2>2, <4>1, AppendProperties
    <3>2. CASE k \in 1 .. Len(updates) BY <1>i, <3>1, <3>2
    <3>3. CASE k = Len(updates) + 1 BY <1>i, <2>2, <3>1, <3>3
    <3> QED BY <1>0, <3>1, <3>2, <3>3
  <2> QED BY <1>i, <2>2, <2>3, <2>4
<1>t. ASSUME updates # << >>
      PROVE  /\ Head(updates) = index
             /\ \A k \in 1 .. Len(Tail(updates)) : Tail(updates)[k] = index
  <2>1. /\ Len(Tail(updates)) = Len(updates) - 1
        /\ \A k \in 1 .. Len(Tail(updates)) : Tail(updates)[k] = updates[k + 1]
    BY <1>0, <1>t, HeadTailProperties
  <2>2. Head(updates) = updates[1] /\ 1 \in 1 .. Len(updates) BY <1>0, <1>t
  <2>3. \A k \in 1 .. Len(Tail(updates)) : k + 1 \in 1 .. Len(updates) BY <1>0, <2>1
  <2> QED BY <1>i, <2>1, <2>2, <2>3
<1>7. CASE UpdateFails
  <2>1. /\ updates # << >> /\ updates' = Tail(updates) /\ effects' = effects
        /\ UNCHANGED <<session, handlers, records, index>>
    BY <1>7 DEF UpdateFails, serverVars
  <2> QED BY <1>i, <1>t, <2>1 DEF Tracks
<1>8. CASE update_after_fight
  <2>1. /\ updates # << >> /\ updates' = Tail(updates)
        /\ \A e \in effects' : e \in effects \/ e.char = Head(updates)
        /\ UNCHANGED <<session, handlers, records, index>>
    BY <1>8 DEF update_after_fight, serverVars
  <2> QED BY <1>i, <1>t, <2>1 DEF Tracks
<1>9. ASSUME NEW e \in effects, EffectsMirrored(e) PROVE Goal
  <2>1. PICK p \in Points : /\ records' = [records EXCEPT ![e.char] = [on |-> TRUE, p |-> p]]
                            /\ e.char \in 1 .. Len(records)
    BY <1>9, EffectPoints
  <2>2. /\ UNCHANGED <<session, handlers, index, updates>> /\ effects' = effects \ {e}
    BY <1>9 DEF EffectsMirrored
  <2>3. e.char = index BY <1>i
  <2>4. [on |-> TRUE, p |-> p] \in Record BY DEF Record
  <2>5. Len(records') = Len(records) BY <1>0, <2>1, <2>4, ChangedRecord
  <2>6. \A k \in 1 .. Len(records) : records'[k].on <=> (k = index \/ records[k].on)
    BY <1>0, <2>1, <2>3
  <2> QED BY <1>i, <2>2, <2>5, <2>6 DEF Tracks
<1>10. CASE HandleAllocate
  <2>1. UNCHANGED <<index, session, handlers, queueVars>> BY <1>10 DEF HandleAllocate
  <2>2. CASE UNCHANGED records BY <1>1, <2>1, <2>2
  <2>3. CASE \E p \in Points : /\ records' = [records EXCEPT ![index].p = p]
                                /\ index \in 1 .. Len(records)
    <3>1. Tracks(index', session'.char, handlers') BY <1>p, <2>1, <2>3, Zenon
    <3> QED BY <1>i, <2>1, <3>1 DEF queueVars
  <2> QED BY <1>10, <2>2, <2>3, AllocatedPoints
<1>11. CASE HandleCreate \/ Refuse
  <2>1. /\ UNCHANGED <<records, index, session, queueVars>>
        /\ \A h \in handlers' : h \in handlers \/ h.stage # "items"
    BY <1>11 DEF HandleCreate, Refuse, serverVars, Handler
  <2> QED BY <1>1, <2>1
<1>12. CASE HandleLogin
  <2>1. /\ session' = [auth |-> TRUE, char |-> index] /\ UNCHANGED <<records, index, queueVars>>
        /\ \A h \in handlers' : h \in handlers \/ h.stage # "items"
    BY <1>12 DEF HandleLogin, Handler
  <2> QED BY <1>i, <2>1 DEF Tracks, queueVars
\* A record joins the map when there was none.
<1>a. ASSUME NEW p \in Points, Add(p), index = 0, index' = New, UNCHANGED queueVars,
             session'.char \in {session.char, New},
             ~\E h \in handlers' : h.stage = "items"
      PROVE  Goal
  <2>1. /\ Len(records') = Len(records) + 1 /\ New = Len(records) + 1
        /\ \A k \in 1 .. Len(records) : records'[k] = records[k]
        /\ records'[New] = [on |-> TRUE, p |-> p]
    BY <1>0, <1>a, AddedRecord
  <2>2. \A k \in 1 .. Len(records) : ~records'[k].on
    <3>1. \A k \in 1 .. Len(records) : k # 0 BY <1>0
    <3> QED BY <1>a, <1>i, <2>1, <3>1
  <2>3. \A k \in 1 .. Len(records') : records'[k].on <=> k = New
    BY <1>0, <2>1, <2>2
  <2>4. updates' = << >> /\ effects' = {} BY <1>a, <1>e DEF queueVars
  <2>5. session'.char # 0 => session'.char = New BY <1>a, <1>i
  <2> QED BY <1>a, <2>3, <2>4, <2>5 DEF Tracks
<1>13. CASE HandleRestore
  <2>1. Head(up).points \in Points BY <1>0, <1>13, TakenTyped DEF HandleRestore, Received, Messages
  <2>2. CASE index # 0
    <3>1. /\ session' = [session EXCEPT !.char = index] /\ UNCHANGED <<records, index, queueVars>>
          /\ handlers' = handlers \cup {Handler("hydrate", "character", index, NoPoints)}
      BY <1>13, <2>2 DEF HandleRestore
    <3>2. session'.char = index BY <1>0, <3>1 DEF RecordT
    <3>3. \A h \in handlers' : h \in handlers \/ h.stage # "items" BY <3>1 DEF Handler
    <3> QED BY <1>i, <3>1, <3>2, <3>3 DEF Tracks, queueVars
  <2>3. CASE index = 0
    <3> DEFINE F == (IF alloc > 0 \/ Announced THEN {"crossed"} ELSE {}) \cup OverlapFault(handlers)
    <3>1. /\ Add(Head(up).points) /\ index' = New /\ UNCHANGED queueVars
          /\ session' = [session EXCEPT !.char = New]
          /\ handlers' = handlers \cup {Handler("hydrate", "character", New, NoPoints)}
          /\ Persist(Head(up).points, F, 0)
      BY <1>13, <2>3 DEF HandleRestore
    <3>2. F \in SUBSET Faults BY FaultsKnown DEF Faults
    <3>3. F \subseteq past'.faults
      <4> HIDE DEF F
      <4>1. past.faults \cup F \subseteq past'.faults BY <1>0, <3>1, <3>2, PersistTyped
      <4> QED BY <4>1
    <3>4. ~\E h \in handlers : h.stage = "items" BY <3>3 DEF NoOverlap, OverlapFault
    <3>5. ~\E h \in handlers' : h.stage = "items" BY <3>1, <3>4 DEF Handler
    <3>6. session'.char = New BY <1>0, <3>1 DEF RecordT
    <3> QED BY <1>a, <2>1, <2>3, <3>1, <3>5, <3>6
  <2> QED BY <2>2, <2>3
<1>14. CASE HandleDelete
  <2>1. index = 0
    <3>1. index # 0 => Persist(None, {"deleted"}, past.lost) BY <1>14 DEF HandleDelete
    <3>2. {"deleted"} \in SUBSET Faults BY DEF Faults
    <3>3. index # 0 => {"deleted"} \subseteq past'.faults
      <4>1. index # 0 => past.faults \cup {"deleted"} \subseteq past'.faults
        BY <1>0, <3>1, <3>2, PersistTyped
      <4> QED BY <4>1
    <3> QED BY <3>3 DEF NoOverlap
  <2>2. UNCHANGED <<records, index, session, handlers, queueVars>>
    BY <1>14, <2>1 DEF HandleDelete
  <2> QED BY <1>1, <2>2
<1>15. ASSUME NEW h \in handlers, Hydrated(h) \/ RowReadFails(h) PROVE Goal
  BY <1>15, <1>1 DEF Hydrated, RowReadFails
<1>16. ASSUME NEW h \in handlers, RowLoaded(h) PROVE Goal
  <2>0. UNCHANGED <<records, index, queueVars>> BY <1>16 DEF RowLoaded
  <2>1. session'.char = session.char \/ session'.char = index
    <3>1. UNCHANGED session \/ session' = [session EXCEPT !.char = index]
      BY <1>16 DEF RowLoaded, Seat
    <3> QED BY <1>0, <3>1 DEF RecordT
  <2>2. \/ \A g \in handlers' : g \in handlers \/ g.stage # "items"
        \/ index = 0
    <3>1. h \in [conn : Nat, stage : Stages, kind : {"auth_ok", "character"},
                 char : 0 .. Len(records), points : Points]
      BY <1>0 DEF HandlerT
    <3>2. [h EXCEPT !.stage = "hydrate", !.char = index].stage = "hydrate"
      BY <3>1
    <3>3. \/ index = 0 \/ handlers' = handlers \ {h}
          \/ handlers' = (handlers \ {h}) \cup {[h EXCEPT !.stage = "hydrate", !.char = index]}
      BY <1>16 DEF RowLoaded
    <3> QED BY <3>2, <3>3
  <2> QED BY <1>i, <2>0, <2>1, <2>2 DEF Tracks, queueVars
<1>17. ASSUME NEW h \in handlers, ItemsLoaded(h) PROVE Goal
  <2>0. h \in [conn : Nat, stage : Stages, kind : {"auth_ok", "character"},
               char : 0 .. Len(records), points : Points]
    BY <1>0 DEF HandlerT
  <2>1. /\ h.stage = "items" /\ Add(Retroactive(h.points)) /\ index' = New /\ UNCHANGED queueVars
        /\ handlers' = (handlers \ {h}) \cup {[h EXCEPT !.stage = "hydrate", !.char = New]}
        /\ Seat(h, New) /\ Happens(OverlapFault(handlers \ {h}))
    BY <1>17 DEF ItemsLoaded
  <2>2. index = 0 BY <1>i, <2>1
  <2>3. Retroactive(h.points) \in Points BY <2>0, RetroactivePoints
  <2>4. past'.faults = past.faults \cup OverlapFault(handlers \ {h})
    BY <1>0, <2>1, FaultsKnown, HappensTyped
  <2>5. ~\E g \in handlers \ {h} : g.stage = "items" BY <2>4 DEF NoOverlap, OverlapFault
  <2>6. [h EXCEPT !.stage = "hydrate", !.char = New].stage = "hydrate" BY <2>0
  <2>7. ~\E g \in handlers' : g.stage = "items" BY <2>1, <2>5, <2>6
  <2>8. session'.char \in {session.char, New} BY <1>0, <2>1 DEF Seat, RecordT
  <2> QED BY <1>a, <2>1, <2>2, <2>3, <2>7, <2>8
<1>18. ASSUME NEW h \in handlers, IdsFound(h) PROVE Goal
  <2>1. CASE index # 0
    <3>1. UNCHANGED <<records, index, session, queueVars>> /\ handlers' = handlers \ {h}
      BY <1>18, <2>1 DEF IdsFound
    <3> QED BY <1>1, <3>1
  <2>2. CASE index = 0
    <3>1. /\ Add(NoPoints) /\ index' = New /\ Seat(h, New) /\ UNCHANGED queueVars
          /\ handlers' = handlers \ {h} /\ Persist(NoPoints, OverlapFault(handlers), past.lost)
      BY <1>18, <2>2 DEF IdsFound
    <3>2. past.faults \cup OverlapFault(handlers) \subseteq past'.faults
      BY <1>0, <3>1, FaultsKnown, PersistTyped
    <3>3. ~\E g \in handlers' : g.stage = "items" BY <3>1, <3>2 DEF NoOverlap, OverlapFault
    <3>4. session'.char \in {session.char, New} BY <1>0, <3>1 DEF Seat, RecordT
    <3> QED BY <1>a, <2>2, <3>1, <3>3, <3>4, NoPointsTyped
  <2> QED BY <2>1, <2>2
<1>19. CASE UNCHANGED vars BY <1>19, <1>1 DEF vars, queueVars
<1> QED
  BY <1>2, <1>3, <1>4, <1>5, <1>6, <1>7, <1>8, <1>9, <1>10, <1>11, <1>12, <1>13, <1>14, <1>15,
     <1>16, <1>17, <1>18, <1>19 DEF Next, ServerStep, HandlerStep, ClientActs

LEMMA OneRecordGivesProperty == Types /\ OneRecord => SessionUsesTheRecord
<1> SUFFICES ASSUME Types, OneRecord PROVE SessionUsesTheRecord OBVIOUS
<1>1. DOMAIN records = 1 .. Len(records) BY DEF Types, RecordT
<1> QED BY <1>1 DEF OneRecord, NoOverlap, SessionUsesTheRecord

\* Logins, restores, creations, restarts and late results of the chain, in any
\* order: unless a restore overlapped another insertion or the character was
\* deleted, the map holds the wallet's record only and the session plays with it.
THEOREM SessionPlaysItsRecord == Spec => []SessionUsesTheRecord
<1>1. Init => Types /\ OneRecord BY TypesInit, OneRecordInit
<1>2. Types /\ OneRecord /\ [Next]_vars => (Types /\ OneRecord)' BY TypesStep, OneRecordStep
<1> QED BY <1>1, <1>2, OneRecordGivesProperty, PTL DEF Spec

(***************************************************************************)
(* Announcements.  A point that is spent on chain is announced once: it is *)
(* in alloc, then a message of the queue or of the connection.             *)
(***************************************************************************)
Pending == alloc + Allocations(up) + Allocations(unsent)

LEMMA CountType ==
  ASSUME NEW q \in Seq(Messages)
  PROVE  IsFiniteSet(Announces(q)) /\ Allocations(q) \in Nat
<1>1. Len(q) \in Nat BY LenProperties
<1> QED BY <1>1, CountLen

LEMMA CountEmpty == Allocations(<< >>) = 0
<1>1. Announces(<< >>) = {} BY DEF Announces
<1> QED BY <1>1, FS_EmptySet DEF Allocations, Announces

LEMMA CountAppend ==
  ASSUME NEW q \in Seq(Messages), NEW m \in Messages
  PROVE  Allocations(Append(q, m)) = Allocations(q) + (IF m.type = "allocate" THEN 1 ELSE 0)
<1>1. /\ Len(Append(q, m)) = Len(q) + 1 /\ Append(q, m)[Len(q) + 1] = m
      /\ \A i \in 1 .. Len(q) : Append(q, m)[i] = q[i]
      /\ Len(q) \in Nat
  BY AppendProperties, LenProperties
<1> DEFINE a == Append(q, m)
           k == Len(q) + 1
<1>2. k \notin Announces(q) BY <1>1 DEF Announces
<1>3. \A i \in 1 .. k : i \in 1 .. Len(q) \/ i = k BY <1>1
<1>4. CASE m.type = "allocate"
  <2>1. Announces(a) = Announces(q) \cup {k}
    BY <1>1, <1>3, <1>4 DEF Announces
  <2>2. Cardinality(Announces(q) \cup {k}) = Cardinality(Announces(q)) + 1
    BY <1>2, CountType, FS_AddElement
  <2> QED BY <1>4, <2>1, <2>2 DEF Allocations, Announces
<1>5. CASE m.type # "allocate"
  <2>1. Announces(a) = Announces(q)
    BY <1>1, <1>3, <1>5 DEF Announces
  <2>2. Allocations(a) = Allocations(q) BY <2>1 DEF Allocations, Announces
  <2>3. Allocations(q) \in Nat BY CountType
  <2> HIDE DEF a
  <2>4. Allocations(a) = Allocations(q) + (IF m.type = "allocate" THEN 1 ELSE 0)
    BY <1>5, <2>2, <2>3
  <2> QED BY <2>4 DEF a
<1> QED BY <1>4, <1>5

\* A message that is taken is one announcement less, or none.
LEMMA CountTail ==
  ASSUME NEW q \in Seq(Messages), q # << >>
  PROVE  Allocations(q) = Allocations(Tail(q)) + (IF Head(q).type = "allocate" THEN 1 ELSE 0)
<1>1. /\ Tail(q) \in Seq(Messages) /\ Len(Tail(q)) = Len(q) - 1
      /\ \A i \in 1 .. Len(Tail(q)) : Tail(q)[i] = q[i + 1]
      /\ Len(q) \in Nat /\ Len(q) # 0 /\ Head(q) = q[1]
  BY HeadTailProperties, EmptySeq, LenProperties
<1> DEFINE S == Announces(Tail(q))
           T == Announces(q) \ {1}
           f == [i \in S |-> i + 1]
<1>2. ASSUME NEW i \in S PROVE i + 1 \in T /\ i \in Nat
  BY <1>1 DEF Announces
<1>3. ASSUME NEW j \in T PROVE \E i \in S : i + 1 = j
  <2>1. j - 1 \in 1 .. Len(Tail(q)) /\ (j - 1) + 1 = j /\ q[j].type = "allocate"
    BY <1>1 DEF Announces
  <2>2. j - 1 \in S BY <1>1, <2>1 DEF Announces
  <2> QED BY <2>1, <2>2
<1>4. IsFiniteSet(S) /\ IsFiniteSet(Announces(q)) BY <1>1, CountType
<1>5. Cardinality(T) = Cardinality(S)
  <2> HIDE DEF S, T
  <2>1. f \in [S -> T] BY <1>2
  <2>2. \A i, k \in S : f[i] = f[k] => i = k BY <1>2
  <2>3. \A j \in T : \E i \in S : f[i] = j BY <1>3
  <2>4. f \in Bijection(S, T)
    BY <2>1, <2>2, <2>3 DEF Bijection, Injection, Surjection, IsInjective
  <2>5. ExistsBijection(S, T) BY <2>4 DEF ExistsBijection
  <2> QED BY <1>4, <2>5, FS_Bijection
<1>6. Cardinality(T) = IF 1 \in Announces(q) THEN Allocations(q) - 1 ELSE Allocations(q)
  BY <1>4, FS_RemoveElement DEF Allocations, Announces
<1>7. 1 \in Announces(q) <=> Head(q).type = "allocate"
  BY <1>1 DEF Announces
<1>8. Allocations(q) \in Nat /\ Cardinality(S) \in Nat
  BY <1>1, CountType DEF Allocations, Announces
<1>9. Cardinality(S) = Allocations(Tail(q)) BY DEF Allocations, Announces
<1>10. CASE Head(q).type = "allocate"
  <2>1. Allocations(Tail(q)) = Allocations(q) - 1 BY <1>5, <1>6, <1>7, <1>9, <1>10, Zenon
  <2>2. Allocations(q) = Allocations(Tail(q)) + 1 BY <1>8, <2>1
  <2> QED BY <1>10, <2>2, Zenon
<1>11. CASE Head(q).type # "allocate"
  <2>1. Allocations(Tail(q)) = Allocations(q) BY <1>5, <1>6, <1>7, <1>9, <1>11, Zenon
  <2>2. Allocations(q) = Allocations(Tail(q)) + 0 BY <1>8, <2>1
  <2> QED BY <1>11, <2>2, Zenon
<1> QED BY <1>10, <1>11

LEMMA CountConcat ==
  ASSUME NEW p \in Seq(Messages), NEW q \in Seq(Messages)
  PROVE  Allocations(p \o q) = Allocations(p) + Allocations(q)
<1>1. /\ p \o q \in Seq(Messages) /\ Len(p \o q) = Len(p) + Len(q)
      /\ \A i \in 1 .. Len(p) + Len(q) :
           (p \o q)[i] = IF i <= Len(p) THEN p[i] ELSE q[i - Len(p)]
      /\ Len(p) \in Nat /\ Len(q) \in Nat
  BY ConcatProperties, LenProperties
<1> DEFINE k == Len(p)
           S == Announces(q)
           T == {n \in k + 1 .. k + Len(q) : q[n - k].type = "allocate"}
           f == [i \in S |-> i + k]
<1>2. ASSUME NEW i \in S PROVE i + k \in T /\ i \in Nat
  <2>1. i \in 1 .. Len(q) /\ q[i].type = "allocate" BY DEF Announces
  <2>2. i + k \in k + 1 .. k + Len(q) /\ (i + k) - k = i BY <1>1, <2>1
  <2> QED BY <2>1, <2>2
<1>3. ASSUME NEW j \in T PROVE \E i \in S : i + k = j
  <2>1. j - k \in 1 .. Len(q) /\ (j - k) + k = j BY <1>1
  <2>2. j - k \in S BY <2>1 DEF Announces
  <2> QED BY <2>1, <2>2
<1>4. IsFiniteSet(S) /\ IsFiniteSet(Announces(p)) /\ k \in Nat BY <1>1, CountType
<1>5. IsFiniteSet(T) /\ Cardinality(T) = Cardinality(S)
  <2> HIDE DEF S, T, k
  <2>1. f \in [S -> T] BY <1>2
  <2>2. \A i, j \in S : f[i] = f[j] => i = j BY <1>2, <1>4
  <2>3. \A j \in T : \E i \in S : f[i] = j BY <1>3
  <2>4. f \in Bijection(S, T)
    BY <2>1, <2>2, <2>3 DEF Bijection, Injection, Surjection, IsInjective
  <2>5. ExistsBijection(S, T) BY <2>4 DEF ExistsBijection
  <2> QED BY <1>4, <2>5, FS_Bijection
<1>6. Announces(p \o q) = Announces(p) \cup T
  <2>1. ASSUME NEW n \in 1 .. Len(p) + Len(q)
        PROVE  n \in Announces(p \o q) <=> n \in Announces(p) \cup T
    <3>1. CASE n <= k
      <4>1. (p \o q)[n] = p[n] /\ n \in 1 .. Len(p) /\ n \notin k + 1 .. k + Len(q)
        BY <1>1, <3>1
      <4> QED BY <1>1, <4>1 DEF Announces
    <3>2. CASE n > k
      <4>1. (p \o q)[n] = q[n - k] /\ n \notin 1 .. Len(p) /\ n \in k + 1 .. k + Len(q)
        BY <1>1, <3>2
      <4> QED BY <1>1, <4>1 DEF Announces
    <3> QED BY <1>1, <3>1, <3>2
  <2>2. \A n \in Announces(p \o q) : n \in 1 .. Len(p) + Len(q) BY <1>1 DEF Announces
  <2>3. \A n \in Announces(p) \cup T : n \in 1 .. Len(p) + Len(q) BY <1>1 DEF Announces
  <2> QED BY <2>1, <2>2, <2>3
<1>7. Announces(p) \cap T = {} BY <1>1 DEF Announces
<1>8. Cardinality(Announces(p) \cup T)
        = Cardinality(Announces(p)) + Cardinality(T) - Cardinality(Announces(p) \cap T)
  BY <1>4, <1>5, FS_Union
<1>9. Allocations(p) \in Nat /\ Allocations(q) \in Nat BY CountType
<1>10. Cardinality(Announces(p) \cap T) = 0 BY <1>7, FS_EmptySet
<1>11. /\ Allocations(p \o q) = Cardinality(Announces(p) \cup T)
       /\ Allocations(p) = Cardinality(Announces(p)) /\ Allocations(q) = Cardinality(S)
  BY <1>6 DEF Allocations, Announces
<1> HIDE DEF S, T
<1> QED BY <1>5, <1>8, <1>9, <1>10, <1>11

\* What a connection drains is what was queued, less what was too old.
LEMMA CountConnect ==
  ASSUME LinkT, NEW token \in BOOLEAN, NEW stale \in 0 .. Len(unsent), Connect(token, stale)
  PROVE  /\ Allocations(unsent) = Allocations(SubSeq(unsent, 1, stale)) + Allocations(up')
         /\ Allocations(SubSeq(unsent, 1, stale)) \in Nat /\ Allocations(unsent') = 0
         /\ \A n \in 1 .. Len(up') :
              \/ up'[n] = Msg("login", NoPoints)
              \/ \E k \in 1 .. Len(unsent) : up'[n] = unsent[k]
<1> DEFINE kept == SubSeq(unsent, stale + 1, Len(unsent))
           old == SubSeq(unsent, 1, stale)
           m == Msg("login", NoPoints)
           login == << m >>
<1>1. unsent \in Seq(Messages) /\ Len(unsent) \in Nat /\ stale \in Nat /\ stale <= Len(unsent)
  BY LenProperties DEF LinkT
<1>2. \A i \in 1 .. Len(unsent) : unsent[i] \in Messages BY <1>1, ElementOfSeq
<1>3. /\ kept \in Seq(Messages) /\ Len(kept) = Len(unsent) - stale
      /\ \A i \in 1 .. Len(kept) : kept[i] = unsent[stale + i]
  <2>1. \A i \in stale + 1 .. Len(unsent) : unsent[i] \in Messages BY <1>1, <1>2
  <2>2. /\ kept \in Seq(Messages)
        /\ Len(kept) = IF stale + 1 <= Len(unsent) THEN Len(unsent) - (stale + 1) + 1 ELSE 0
        /\ \A i \in 1 .. Len(unsent) - (stale + 1) + 1 : kept[i] = unsent[(stale + 1) + i - 1]
    BY <1>1, <2>1, SubSeqProperties
  <2>3. Len(kept) = Len(unsent) - stale /\ Len(unsent) - (stale + 1) + 1 = Len(unsent) - stale
    BY <1>1, <2>2
  <2> HIDE DEF kept
  <2>4. \A i \in 1 .. Len(kept) : (stale + 1) + i - 1 = stale + i BY <1>1
  <2> QED BY <2>2, <2>3, <2>4
<1>4. /\ old \in Seq(Messages) /\ Len(old) = stale
      /\ \A i \in 1 .. stale : old[i] = unsent[i]
  <2>1. \A i \in 1 .. stale : unsent[i] \in Messages BY <1>1, <1>2
  <2>2. /\ old \in Seq(Messages) /\ Len(old) = IF 1 <= stale THEN stale - 1 + 1 ELSE 0
        /\ \A i \in 1 .. stale - 1 + 1 : old[i] = unsent[1 + i - 1]
    BY <1>1, <2>1, SubSeqProperties
  <2>3. Len(old) = stale /\ stale - 1 + 1 = stale BY <1>1, <2>2
  <2> HIDE DEF old
  <2>4. \A i \in 1 .. stale : 1 + i - 1 = i BY <1>1
  <2> QED BY <2>2, <2>3, <2>4
<1>5. m \in Messages /\ login \in Seq(Messages) /\ m.type # "allocate" /\ Len(login) = 1
      /\ login[1] = m
  BY NoPointsTyped DEF Msg, Messages
<1>6. Allocations(login) = 0
  <2>1. login = Append(<< >>, m) BY DEF login
  <2>2. << >> \in Seq(Messages) OBVIOUS
  <2> HIDE DEF login, m
  <2>3. Allocations(Append(<< >>, m)) = Allocations(<< >>) + 0 BY <1>5, <2>2, CountAppend
  <2> QED BY <2>1, <2>3, CountEmpty
<1>7. up' = IF token THEN login \o kept ELSE kept \o login
  BY DEF Connect
<1>8. unsent' = << >> BY DEF Connect
<1> HIDE DEF kept, old, login, m
<1>9. unsent = old \o kept
  <2>1. /\ old \o kept \in Seq(Messages) /\ Len(old \o kept) = stale + Len(kept)
        /\ \A i \in 1 .. stale + Len(kept) :
             (old \o kept)[i] = IF i <= stale THEN old[i] ELSE kept[i - stale]
    BY <1>3, <1>4, ConcatProperties
  <2>2. ASSUME NEW i \in 1 .. Len(unsent) PROVE (old \o kept)[i] = unsent[i]
    <3>1. i \in 1 .. stale + Len(kept) BY <1>1, <1>3
    <3>2. CASE i <= stale BY <1>1, <1>4, <2>1, <3>1, <3>2
    <3>3. CASE i > stale
      <4>1. i - stale \in 1 .. Len(kept) /\ stale + (i - stale) = i BY <1>1, <1>3, <3>3
      <4>2. (old \o kept)[i] = kept[i - stale] BY <1>1, <2>1, <3>1, <3>3
      <4> QED BY <1>3, <4>1, <4>2
    <3>4. i <= stale \/ i > stale BY <1>1
    <3> QED BY <3>2, <3>3, <3>4
  <2>3. Len(old \o kept) = Len(unsent) BY <1>1, <1>3, <2>1
  <2> QED BY <1>1, <2>1, <2>2, <2>3, SeqEqual
<1>10. /\ Allocations(unsent) = Allocations(old) + Allocations(kept) /\ Allocations(up') = Allocations(kept)
       /\ Allocations(old) \in Nat
  <2>1. Allocations(unsent) = Allocations(old) + Allocations(kept) BY <1>3, <1>4, <1>9, CountConcat
  <2>2. Allocations(login \o kept) = Allocations(kept) /\ Allocations(kept \o login) = Allocations(kept)
    <3>1. Allocations(kept) \in Nat BY <1>3, CountType
    <3> QED BY <1>3, <1>5, <1>6, <3>1, CountConcat
  <2>3. Allocations(up') = Allocations(kept) BY <1>7, <2>2
  <2> QED BY <1>4, <2>1, <2>3, CountType
<1>11. ASSUME NEW n \in 1 .. Len(up')
       PROVE  up'[n] = m \/ \E k \in 1 .. Len(unsent) : up'[n] = unsent[k]
  <2>1. \A i \in 1 .. Len(kept) : stale + i \in 1 .. Len(unsent) BY <1>1, <1>3
  <2>2. CASE token
    <3>1. /\ Len(login \o kept) = Len(login) + Len(kept)
          /\ \A i \in 1 .. Len(login) + Len(kept) :
               (login \o kept)[i] = IF i <= Len(login) THEN login[i] ELSE kept[i - Len(login)]
      BY <1>3, <1>5, ConcatProperties
    <3>2. up' = login \o kept BY <1>7, <2>2
    <3>3. n \in 1 .. Len(login) + Len(kept) BY <3>1, <3>2
    <3>4. CASE n = 1 BY <1>5, <3>1, <3>2, <3>3, <3>4
    <3>5. CASE n # 1
      <4>1. ~(n <= Len(login)) /\ n - Len(login) \in 1 .. Len(kept)
        BY <1>1, <1>3, <1>5, <3>3, <3>5
      <4> QED BY <1>3, <2>1, <3>1, <3>2, <3>3, <4>1
    <3> QED BY <3>4, <3>5
  <2>3. CASE ~token
    <3>1. /\ Len(kept \o login) = Len(kept) + Len(login)
          /\ \A i \in 1 .. Len(kept) + Len(login) :
               (kept \o login)[i] = IF i <= Len(kept) THEN kept[i] ELSE login[i - Len(kept)]
      BY <1>3, <1>5, ConcatProperties
    <3>2. up' = kept \o login BY <1>7, <2>3
    <3>3. n \in 1 .. Len(kept) + Len(login) BY <3>1, <3>2
    <3>4. CASE n <= Len(kept)
      <4>1. n \in 1 .. Len(kept) BY <3>3, <3>4
      <4> QED BY <1>3, <2>1, <3>1, <3>2, <3>3, <3>4, <4>1
    <3>5. CASE ~(n <= Len(kept))
      <4>1. n - Len(kept) = 1 BY <1>1, <1>3, <1>5, <3>3, <3>5
      <4> QED BY <1>5, <3>1, <3>2, <3>3, <3>5, <4>1
    <3> QED BY <3>4, <3>5
  <2> QED BY <2>2, <2>3
<1> QED BY <1>8, <1>10, <1>11, CountEmpty DEF old, m

\* The messages after a step: those before it, and what the client just said.
Said(m) == \E q \in {up, unsent} : \E k \in 1 .. Len(q) : m = q[k]
Now(m) ==
  \/ m = Msg("login", NoPoints) \/ m = Msg("allocate", NoPoints) \/ m = Msg("delete", NoPoints)
  \/ m = Msg("create", NoPoints) /\ create_character
  \/ /\ ScanDone /\ chain.registered /\ m.type = "restore"
     /\ m.points.lvl = chain.lvl /\ m.points.spent = chain.spent
MessagesFrom == \A q \in {up', unsent'} : \A n \in 1 .. Len(q) : Said(q[n]) \/ Now(q[n])

\* What a step does to the points that are spent on chain and not announced:
\* an announcement that is lost is counted there.
PendingTo ==
  \/ /\ chain'.spent = chain.spent /\ Pending' <= Pending
     /\ Pending' + past'.lost = Pending + past.lost
  \/ chain'.spent = chain.spent + 1 /\ Pending' = Pending + 1 /\ past'.lost = past.lost
  \/ HandleAllocate /\ chain'.spent = chain.spent /\ Pending = Pending' + 1
  \/ HandleRestore /\ index = 0 /\ chain'.spent = chain.spent /\ Pending' = Pending
  \/ "unsigned" \in past'.faults /\ chain'.spent = chain.spent

LEMMA PendingType == ASSUME Types PROVE Pending \in Nat /\ alloc \in Nat
<1>1. up \in Seq(Messages) /\ unsent \in Seq(Messages) /\ alloc \in {0, 1}
  BY DEF Types, LinkT, ClientT
<1>2. Allocations(up) \in Nat /\ Allocations(unsent) \in Nat BY <1>1, CountType
<1> QED BY <1>1, <1>2 DEF Pending

LEMMA PostEffect ==
  ASSUME LinkT, NEW m \in Messages, Post(m)
  PROVE  /\ \A q \in {up', unsent'} : \A n \in 1 .. Len(q) : Said(q[n]) \/ q[n] = m
         /\ Allocations(up)' + Allocations(unsent)'
              = Allocations(up) + Allocations(unsent) + (IF m.type = "allocate" THEN 1 ELSE 0)
<1>1. up \in Seq(Messages) /\ unsent \in Seq(Messages)
  BY DEF LinkT
<1>2. Allocations(up) \in Nat /\ Allocations(unsent) \in Nat BY <1>1, CountType
<1>3. ASSUME NEW q \in {up, unsent}, NEW n \in 1 .. Len(Append(q, m))
      PROVE  Append(q, m)[n] = m \/ Said(Append(q, m)[n])
  <2>1. /\ Len(Append(q, m)) = Len(q) + 1 /\ Append(q, m)[Len(q) + 1] = m
        /\ \A i \in 1 .. Len(q) : Append(q, m)[i] = q[i]
        /\ Len(q) \in Nat
    BY <1>1, AppendProperties, LenProperties
  <2>2. n = Len(q) + 1 \/ n \in 1 .. Len(q) BY <2>1
  <2> QED BY <2>1, <2>2 DEF Said
<1>4. \A q \in {up, unsent} : \A n \in 1 .. Len(q) : Said(q[n]) BY DEF Said
<1>5. CASE conn.open
  <2>1. up' = Append(up, m) /\ unsent' = unsent BY <1>5 DEF Post
  <2>2. Allocations(up)' = Allocations(up) + (IF m.type = "allocate" THEN 1 ELSE 0)
        /\ Allocations(unsent)' = Allocations(unsent)
    <3>1. Allocations(Append(up, m)) = Allocations(up) + (IF m.type = "allocate" THEN 1 ELSE 0)
      BY <1>1, CountAppend
    <3>2. Allocations(up)' = Allocations(Append(up, m)) /\ Allocations(unsent)' = Allocations(unsent)
      BY <2>1 DEF Allocations
    <3> QED BY <3>1, <3>2
  <2>3. \A q \in {up', unsent'} : \A n \in 1 .. Len(q) : Said(q[n]) \/ q[n] = m
    BY <1>3, <1>4, <2>1
  <2> QED BY <1>2, <2>2, <2>3
<1>6. CASE ~conn.open
  <2>1. unsent' = Append(unsent, m) /\ up' = up BY <1>6 DEF Post
  <2>2. Allocations(unsent)' = Allocations(unsent) + (IF m.type = "allocate" THEN 1 ELSE 0)
        /\ Allocations(up)' = Allocations(up)
    <3>1. Allocations(Append(unsent, m)) = Allocations(unsent) + (IF m.type = "allocate" THEN 1 ELSE 0)
      BY <1>1, CountAppend
    <3>2. Allocations(unsent)' = Allocations(Append(unsent, m)) /\ Allocations(up)' = Allocations(up)
      BY <2>1 DEF Allocations
    <3> QED BY <3>1, <3>2
  <2>3. \A q \in {up', unsent'} : \A n \in 1 .. Len(q) : Said(q[n]) \/ q[n] = m
    BY <1>3, <1>4, <2>1
  <2> QED BY <1>2, <2>2, <2>3
<1> QED BY <1>5, <1>6

LEMMA TakeEffect ==
  ASSUME LinkT, up # << >>, up' = Tail(up), unsent' = unsent
  PROVE  /\ \A q \in {up', unsent'} : \A n \in 1 .. Len(q) : Said(q[n])
         /\ Allocations(up) = Allocations(up)' + (IF Head(up).type = "allocate" THEN 1 ELSE 0)
         /\ Allocations(unsent)' = Allocations(unsent) /\ Allocations(up)' \in Nat
         /\ Said(Head(up)) /\ Head(up) \in Messages
<1>1. up \in Seq(Messages) /\ Tail(up) \in Seq(Messages) /\ Head(up) \in Messages
  BY TakenTyped DEF LinkT
<1>2. /\ Len(Tail(up)) = Len(up) - 1 /\ Len(up) \in Nat /\ Len(up) # 0
      /\ \A i \in 1 .. Len(Tail(up)) : Tail(up)[i] = up[i + 1]
      /\ Head(up) = up[1]
  BY <1>1, HeadTailProperties, LenProperties, EmptySeq
<1>3. \A i \in 1 .. Len(Tail(up)) : i + 1 \in 1 .. Len(up) BY <1>2
<1>4. 1 \in 1 .. Len(up) BY <1>2
<1>5. Allocations(up) = Allocations(Tail(up)) + (IF Head(up).type = "allocate" THEN 1 ELSE 0)
  BY <1>1, CountTail
<1>6. Allocations(up)' = Allocations(Tail(up)) /\ Allocations(unsent)' = Allocations(unsent)
  BY DEF Allocations
<1>7. Allocations(Tail(up)) \in Nat BY <1>1, CountType
<1>8. \A q \in {up', unsent'} : \A n \in 1 .. Len(q) : Said(q[n])
  BY <1>2, <1>3 DEF Said
<1> QED BY <1>1, <1>2, <1>4, <1>5, <1>6, <1>7, <1>8 DEF Said

\* Messages wait in the queue while there is no connection, and never there
\* while there is one.
Ends == (conn.open => unsent = << >>) /\ (~conn.open => up = << >>)

LEMMA EndsStep == Types /\ Ends /\ [Next]_vars => Ends'
<1> SUFFICES ASSUME Types, Ends, [Next]_vars PROVE Ends' OBVIOUS
<1>0. LinkT BY DEF Types
<1>1. CASE UNCHANGED <<conn, up, unsent>> BY <1>1 DEF Ends
<1>p. ASSUME NEW m, Post(m), conn' = conn PROVE Ends'
  BY <1>p DEF Ends, Post
<1>t. ASSUME up # << >>, conn' = conn, unsent' = unsent PROVE Ends'
  BY <1>t DEF Ends
<1>2. CASE Connects
  <2>1. conn' = [no |-> conn.no + 1, open |-> TRUE] /\ unsent' = << >>
    BY <1>2 DEF Connects, Connect
  <2> QED BY <2>1 DEF Ends
<1>3. CASE Drop \/ Restart
  <2>1. conn' = [conn EXCEPT !.open = FALSE] /\ up' = << >>
    BY <1>3 DEF Drop, Restart, ClientLosesLink
  <2>2. ~conn'.open BY <1>0, <2>1 DEF LinkT
  <2> QED BY <2>1, <2>2 DEF Ends
<1>4. CASE \/ AuthOk \/ CharacterArrives \/ CharacterDeleted \/ GateEffect \/ StaleScanDone
           \/ ScanMisses \/ SET_ONCHAIN_CHARACTER \/ BEGIN_SERVER_REHYDRATE \/ allocate_points
  BY <1>1, <1>4 DEF AuthOk, CharacterArrives, CharacterDeleted, GateEffect, StaleScanDone,
     ScanMisses, SET_ONCHAIN_CHARACTER, BEGIN_SERVER_REHYDRATE, allocate_points, ClientOnly, linkVars
<1>5. CASE ScanDone
  <2>1. conn' = conn /\ (UNCHANGED <<up, unsent>> \/ \E m : Post(m))
    BY <1>5 DEF ScanDone, ClientOnly
  <2> QED BY <1>1, <1>p, <2>1
<1>6. CASE create_character \/ DeleteCharacter \/ SendAllocate \/ SendUnsigned
  BY <1>6, <1>p DEF create_character, DeleteCharacter, SendAllocate, SendUnsigned, ClientOnly
<1>7. CASE ServerStep
  <2>1. up # << >> /\ conn' = conn /\ unsent' = unsent
    BY <1>7 DEF ServerStep, HandleLogin, Refuse, HandleRestore, HandleCreate, HandleDelete,
       HandleAllocate, Received, clientVars
  <2> QED BY <1>t, <2>1
<1>8. ASSUME NEW h \in handlers, HandlerStep(h) \/ RowReadFails(h) PROVE Ends'
  BY <1>1, <1>8 DEF HandlerStep, RowReadFails, RowLoaded, ItemsLoaded, Hydrated, IdsFound,
     clientVars
<1>9. ASSUME NEW w \in writes, WriteLands(w) \/ WriteFails(w) PROVE Ends'
  BY <1>1, <1>9 DEF WriteLands, WriteFails, clientVars, linkVars
<1>10. CASE FightEnds \/ update_after_fight \/ UpdateFails \/ \E e \in effects : EffectsMirrored(e)
  BY <1>1, <1>10 DEF FightEnds, update_after_fight, UpdateFails, EffectsMirrored, clientVars,
     linkVars
<1>11. CASE UNCHANGED vars BY <1>1, <1>11 DEF vars
<1> QED
  BY <1>2, <1>3, <1>4, <1>5, <1>6, <1>7, <1>8, <1>9, <1>10, <1>11 DEF Next, Gate

\* Messages that are lost are counted.
LEMMA LostEffect ==
  ASSUME Types, NEW F \in SUBSET Faults, Mishap(F, Allocations(up)), ClientLosesLink
  PROVE  MessagesFrom /\ PendingTo
<1>1. /\ up' = << >> /\ unsent' = unsent /\ alloc' = alloc /\ chain' = chain
  BY DEF ClientLosesLink
<1>2. MessagesFrom BY <1>1 DEF MessagesFrom, Said
<1>3. Allocations(up)' = 0 /\ Allocations(unsent)' = Allocations(unsent)
  <2>1. Allocations(up)' = Allocations(<< >>) BY <1>1 DEF Allocations
  <2> QED BY <1>1, <2>1, CountEmpty DEF Allocations
<1>4. /\ Allocations(up) \in Nat /\ Allocations(unsent) \in Nat /\ alloc \in Nat
      /\ past \in PastT /\ past.lost \in Nat
  BY CountType, PendingType DEF Types, LinkT, StoreT, PastT
<1>5. Pending' = alloc + 0 + Allocations(unsent) BY <1>1, <1>3 DEF Pending
<1>6. past'.lost = past.lost + Allocations(up) BY <1>4, MishapTyped
<1>7. Pending = alloc + Allocations(up) + Allocations(unsent) BY DEF Pending
<1>8. Pending' <= Pending /\ Pending' + past'.lost = Pending + past.lost
  BY <1>4, <1>5, <1>6, <1>7
<1> QED BY <1>1, <1>2, <1>8 DEF PendingTo

\* Only what loses or refuses an announcement counts one, and a restore is a
\* new start.
LEMMA LostKept ==
  ASSUME Types, [Next]_vars
  PROVE  \/ past'.lost = past.lost
         \/ Connects \/ Drop \/ Restart \/ Refuse \/ HandleAllocate
         \/ HandleRestore /\ index = 0
<1>0. past \in PastT /\ past.lost \in Nat BY DEF Types, StoreT, PastT
<1>1. CASE UNCHANGED past BY <1>1
<1>m. ASSUME NEW F \in SUBSET Faults, Mishap(F, 0) PROVE past'.lost = past.lost
  <2>1. past'.lost = past.lost + 0 BY <1>0, <1>m, MishapTyped
  <2> QED BY <1>0, <2>1
<1>h. ASSUME NEW F \in SUBSET Faults, Happens(F) PROVE past'.lost = past.lost
  BY <1>0, <1>h, HappensTyped
<1>p. ASSUME NEW F \in SUBSET Faults, NEW p, Persist(p, F, past.lost) PROVE past'.lost = past.lost
  BY <1>0, <1>p, PersistTyped
<1>2. CASE Gate \/ allocate_points \/ SendAllocate \/ SET_ONCHAIN_CHARACTER
  BY <1>2, <1>1 DEF Gate, AuthOk, CharacterArrives, CharacterDeleted, GateEffect, ScanDone,
     StaleScanDone, SET_ONCHAIN_CHARACTER, create_character, allocate_points, SendAllocate
<1>3. CASE ScanMisses \/ SendUnsigned \/ BEGIN_SERVER_REHYDRATE \/ DeleteCharacter
  <2>1. Mishap({}, 0) \/ Mishap({"scan"}, 0) \/ Mishap({"unsigned"}, 0)
    BY <1>3 DEF ScanMisses, SendUnsigned, BEGIN_SERVER_REHYDRATE, DeleteCharacter
  <2> QED BY <2>1, <1>m, FaultsKnown
<1>4. ASSUME NEW w \in writes, WriteLands(w) \/ WriteFails(w) PROVE past'.lost = past.lost
  <2>1. UNCHANGED past \/ Mishap({"row"}, 0) BY <1>4 DEF WriteLands, WriteFails
  <2> QED BY <2>1, <1>1, <1>m, FaultsKnown
<1>5. CASE FightEnds BY <1>0, <1>5, FightCounts
<1>6. CASE update_after_fight \/ UpdateFails
  <2>1. UNCHANGED past \/ Mishap({"update"}, 0) BY <1>6 DEF update_after_fight, UpdateFails
  <2> QED BY <2>1, <1>1, <1>m, FaultsKnown
<1>7. ASSUME NEW e \in effects, EffectsMirrored(e) PROVE past'.lost = past.lost
  <2>1. \E p \in Points : Persist(p, {}, past.lost) BY <1>7, EffectPoints
  <2> QED BY <2>1, <1>p, FaultsKnown
<1>8. CASE HandleLogin \/ HandleCreate BY <1>8, <1>1 DEF HandleLogin, HandleCreate
<1>9. CASE HandleRestore /\ index # 0 BY <1>9, <1>1 DEF HandleRestore
<1>10. CASE HandleDelete
  <2>1. UNCHANGED past \/ Persist(None, {"deleted"}, past.lost) BY <1>10 DEF HandleDelete
  <2> QED BY <2>1, <1>1, <1>p, FaultsKnown
<1>11. ASSUME NEW h \in handlers, HandlerStep(h) \/ RowReadFails(h) PROVE past'.lost = past.lost
  <2>1. \/ UNCHANGED past
        \/ Happens(IF writes # {} THEN {"row"} ELSE {}) \/ Happens(OverlapFault(handlers \ {h}))
        \/ Mishap({}, 0) \/ Persist(NoPoints, OverlapFault(handlers), past.lost)
    BY <1>11 DEF HandlerStep, RowReadFails, RowLoaded, ItemsLoaded, Hydrated, IdsFound
  <2>2. (IF writes # {} THEN {"row"} ELSE {}) \in SUBSET Faults BY DEF Faults
  <2> QED BY <2>1, <2>2, <1>1, <1>h, <1>m, <1>p, FaultsKnown
<1>12. CASE UNCHANGED vars BY <1>12, <1>1 DEF vars
<1> QED
  BY <1>2, <1>3, <1>4, <1>5, <1>6, <1>7, <1>8, <1>9, <1>10, <1>11, <1>12 DEF Next, ServerStep

LEMMA LinkEffect == Types /\ Ends /\ [Next]_vars => MessagesFrom /\ PendingTo
<1> SUFFICES ASSUME Types, Ends, [Next]_vars PROVE MessagesFrom /\ PendingTo OBVIOUS
<1>0. /\ LinkT /\ ChainT /\ past \in PastT /\ up \in Seq(Messages) /\ unsent \in Seq(Messages)
      /\ chain.spent \in Nat /\ alloc \in {0, 1} /\ past.lost \in Nat
  BY DEF Types, StoreT, PastT, LinkT, ChainT, ClientT
<1>c. Allocations(up) \in Nat /\ Allocations(unsent) \in Nat BY <1>0, CountType
<1>d. Pending \in Nat BY PendingType
<1>1. ASSUME UNCHANGED <<up, unsent, alloc>>, chain'.spent = chain.spent, past'.lost = past.lost
      PROVE  MessagesFrom /\ PendingTo
  <2>1. Pending' = Pending BY <1>1 DEF Pending, Allocations
  <2>2. MessagesFrom BY <1>1 DEF MessagesFrom, Said
  <2> QED BY <1>0, <1>d, <1>1, <2>1, <2>2 DEF PendingTo
<1>m. ASSUME NEW m \in Messages, Post(m), m.type # "allocate" \/ alloc = 1, Now(m),
             alloc' = IF m.type = "allocate" THEN 0 ELSE alloc, chain'.spent = chain.spent,
             past'.lost = past.lost
      PROVE  MessagesFrom /\ PendingTo
  <2>1. MessagesFrom
    <3>1. \A q \in {up', unsent'} : \A n \in 1 .. Len(q) : Said(q[n]) \/ q[n] = m
      BY <1>0, <1>m, PostEffect
    <3> QED BY <1>m, <3>1 DEF MessagesFrom
  <2>2. Allocations(up)' + Allocations(unsent)'
          = Allocations(up) + Allocations(unsent) + (IF m.type = "allocate" THEN 1 ELSE 0)
    BY <1>0, <1>m, PostEffect
  <2>3. Allocations(up)' \in Nat /\ Allocations(unsent)' \in Nat
    <3>1. up' \in Seq(Messages) /\ unsent' \in Seq(Messages) BY <1>0, <1>m, PostTyped
    <3>2. Allocations(up') \in Nat /\ Allocations(unsent') \in Nat BY <3>1, CountType
    <3> QED BY <3>2 DEF Allocations
  <2>4. Pending' = alloc' + Allocations(up)' + Allocations(unsent)' BY DEF Pending
  <2>6. Pending = alloc + Allocations(up) + Allocations(unsent) BY DEF Pending
  <2>7. alloc \in Nat /\ alloc' = IF m.type = "allocate" THEN alloc - 1 ELSE alloc
    BY <1>0, <1>m
  <2>5. Pending' = Pending BY <1>c, <2>2, <2>3, <2>4, <2>6, <2>7
  <2> QED BY <1>0, <1>d, <1>m, <2>1, <2>5 DEF PendingTo
<1>t. ASSUME up # << >>, up' = Tail(up), unsent' = unsent, alloc' = alloc, chain' = chain,
             \/ Head(up).type # "allocate" /\ past'.lost = past.lost
             \/ Head(up).type # "allocate" /\ HandleRestore /\ index = 0
             \/ Head(up).type = "allocate" /\ HandleAllocate
             \/ Head(up).type = "allocate" /\ past'.lost = past.lost + 1
      PROVE  MessagesFrom /\ PendingTo
  <2>1. MessagesFrom BY <1>0, <1>t, TakeEffect DEF MessagesFrom
  <2>2. /\ Allocations(up) = Allocations(up)' + (IF Head(up).type = "allocate" THEN 1 ELSE 0)
        /\ Allocations(unsent)' = Allocations(unsent) /\ Allocations(up)' \in Nat
    BY <1>0, <1>t, TakeEffect
  <2>3. Pending' = alloc + Allocations(up)' + Allocations(unsent) BY <1>t, <2>2 DEF Pending
  <2>4. CASE Head(up).type # "allocate"
    <3>1. Pending' = Pending BY <1>0, <1>c, <2>2, <2>3, <2>4 DEF Pending
    <3> QED BY <1>0, <1>d, <1>t, <2>1, <2>4, <3>1 DEF PendingTo
  <2>5. CASE Head(up).type = "allocate"
    <3>1. Pending = Pending' + 1 /\ Pending' <= Pending /\ Pending' \in Nat
      BY <1>0, <1>c, <2>2, <2>3, <2>5 DEF Pending
    <3>2. CASE HandleAllocate BY <1>t, <2>1, <3>1, <3>2 DEF PendingTo
    <3>3. CASE past'.lost = past.lost + 1
      <4>1. Pending' + past'.lost = Pending + past.lost BY <1>0, <1>d, <3>1, <3>3, SMTT(20)
      <4> QED BY <1>t, <2>1, <3>1, <4>1 DEF PendingTo
    <3> QED BY <1>t, <2>5, <3>2, <3>3
  <2> QED BY <2>4, <2>5
<1>2. ASSUME NEW token \in BOOLEAN, NEW stale \in 0 .. Len(unsent), Connect(token, stale)
      PROVE  MessagesFrom /\ PendingTo
  <2> DEFINE old == SubSeq(unsent, 1, stale)
  <2>1. /\ Allocations(unsent) = Allocations(old) + Allocations(up') /\ Allocations(old) \in Nat /\ Allocations(unsent') = 0
        /\ \A n \in 1 .. Len(up') : \/ up'[n] = Msg("login", NoPoints)
                                    \/ \E k \in 1 .. Len(unsent) : up'[n] = unsent[k]
    BY <1>0, <1>2, CountConnect
  <2>2. unsent' = << >> /\ alloc' = alloc /\ chain' = chain BY <1>2 DEF Connect
  <2>3. MessagesFrom BY <2>1, <2>2 DEF MessagesFrom, Said, Now
  <2>4. Allocations(up)' = Allocations(up') /\ Allocations(unsent)' = Allocations(unsent') BY DEF Allocations
  <2>5. Allocations(up') \in Nat
    <3>1. up' \in Seq(Messages) BY LinkStep DEF LinkT
    <3> QED BY <3>1, CountType
  <2>6. Pending' = alloc + Allocations(up') BY <1>0, <2>1, <2>2, <2>4, <2>5 DEF Pending
  <2>7. old \in Seq(Messages)
    <3>1. \A i \in 1 .. stale : unsent[i] \in Messages
      <4>1. \A i \in 1 .. Len(unsent) : unsent[i] \in Messages BY <1>0, ElementOfSeq
      <4>2. Len(unsent) \in Nat BY <1>0
      <4> QED BY <4>1, <4>2
    <3> QED BY <3>1, SubSeqProperties
  <2>8. past'.lost = past.lost + Allocations(old)
    <3>1. CASE stale = 0
      <4>1. old = << >> BY <3>1, SubSeqEmpty
      <4>2. Allocations(old) = 0 BY <4>1, CountEmpty
      <4>3. past' = past BY <1>2, <3>1 DEF Connect
      <4> HIDE DEF old
      <4> QED BY <1>0, <4>2, <4>3
    <3>2. CASE stale # 0
      <4>1. Mishap({}, Allocations(old)) BY <1>2, <3>2 DEF Connect
      <4> HIDE DEF old
      <4> QED BY <1>0, <2>1, <4>1, FaultsKnown, MishapTyped
    <3> QED BY <3>1, <3>2
  <2> HIDE DEF old
  <2>9. Allocations(up) = 0
    <3>1. up = << >> BY <1>2 DEF Ends, Connect
    <3> QED BY <3>1, CountEmpty
  <2>10. Pending = alloc + Allocations(unsent) /\ alloc \in Nat BY <1>0, <1>c, <2>9 DEF Pending
  <2>11. Pending' <= Pending /\ Pending' + past'.lost = Pending + past.lost
    <3> DEFINE o == Allocations(old)
               u == Allocations(up')
               w == Allocations(unsent)
               l == past.lost
               A == Pending
               B == Pending'
               m == past'.lost
    <3>1. /\ o \in Nat /\ u \in Nat /\ w \in Nat /\ l \in Nat /\ alloc \in Nat
          /\ w = o + u /\ m = l + o /\ A = alloc + w /\ B = alloc + u
      BY <1>0, <1>c, <2>1, <2>5, <2>6, <2>8, <2>10
    <3> HIDE DEF o, u, w, l, A, B, m
    <3>2. B <= A /\ B + m = A + l BY <3>1
    <3> QED BY <3>2 DEF l, A, B, m
  <2> QED BY <2>2, <2>3, <2>11 DEF PendingTo
<1>3. CASE Drop
  <2>1. Mishap({}, Allocations(up)) /\ ClientLosesLink BY <1>3 DEF Drop
  <2> QED BY <2>1, FaultsKnown, LostEffect
<1>4. CASE Restart
  <2> DEFINE F == IF updates # << >> \/ effects # {} THEN {"update"} ELSE {}
  <2>1. Mishap(F, Allocations(up)) /\ ClientLosesLink BY <1>4 DEF Restart
  <2>2. F \in SUBSET Faults BY DEF Faults
  <2> HIDE DEF F
  <2> QED BY <2>1, <2>2, LostEffect
\* The steps that lose nothing.
<1>k. \/ past'.lost = past.lost
      \/ Connects \/ Drop \/ Restart \/ Refuse \/ HandleAllocate \/ (HandleRestore /\ index = 0)
  BY LostKept
<1>l. ASSUME \/ Gate \/ ScanMisses \/ SET_ONCHAIN_CHARACTER \/ BEGIN_SERVER_REHYDRATE \/ SendAllocate
             \/ DeleteCharacter \/ SendUnsigned \/ allocate_points
      PROVE  past'.lost = past.lost
  <2>1. CASE UNCHANGED past BY <2>1
  <2>2. ASSUME NEW F \in SUBSET Faults, Mishap(F, 0) PROVE past'.lost = past.lost
    <3>1. past'.lost = past.lost + 0 BY <1>0, <2>2, MishapTyped
    <3> QED BY <1>0, <3>1
  <2>3. CASE Gate \/ allocate_points \/ SendAllocate \/ SET_ONCHAIN_CHARACTER
    BY <2>3, <2>1 DEF Gate, AuthOk, CharacterArrives, CharacterDeleted, GateEffect, ScanDone,
       StaleScanDone, SET_ONCHAIN_CHARACTER, create_character, allocate_points, SendAllocate
  <2>4. CASE ScanMisses \/ SendUnsigned \/ BEGIN_SERVER_REHYDRATE \/ DeleteCharacter
    <3>1. Mishap({}, 0) \/ Mishap({"scan"}, 0) \/ Mishap({"unsigned"}, 0)
      BY <2>4 DEF ScanMisses, SendUnsigned, BEGIN_SERVER_REHYDRATE, DeleteCharacter
    <3> QED BY <2>2, <3>1, FaultsKnown
  <2> QED BY <1>l, <2>3, <2>4
<1>5. CASE \/ AuthOk \/ CharacterArrives \/ CharacterDeleted \/ GateEffect \/ StaleScanDone
           \/ ScanMisses \/ SET_ONCHAIN_CHARACTER \/ BEGIN_SERVER_REHYDRATE
  <2>1. past'.lost = past.lost BY <1>5, <1>l DEF Gate
  <2>2. UNCHANGED <<up, unsent, alloc, chain>>
    BY <1>5 DEF AuthOk, CharacterArrives, CharacterDeleted, GateEffect, StaleScanDone,
       ScanMisses, SET_ONCHAIN_CHARACTER, BEGIN_SERVER_REHYDRATE, ClientOnly
  <2> QED BY <1>1, <2>1, <2>2
<1>6. CASE ScanDone
  <2>1. chain' = chain /\ alloc' = alloc /\ past' = past BY <1>6 DEF ScanDone, ClientOnly
  <2>2. CASE ~chain.registered BY <1>1, <1>6, <2>1, <2>2 DEF ScanDone
  <2>3. CASE chain.registered
    <3> DEFINE m == Msg("restore", [lvl |-> chain.lvl, spent |-> chain.spent,
                                    free |-> Granted(chain.lvl) - chain.spent])
    <3>1. Granted(chain.lvl) - chain.spent \in Nat
      <4>1. Granted(chain.lvl) \in Nat /\ chain.spent <= Granted(chain.lvl)
        BY <1>0, GrantedNat DEF ChainT
      <4> QED BY <1>0, <4>1
    <3>2. m \in Messages BY <1>0, <3>1 DEF Msg, Messages, Points, ChainT
    <3>3. Post(m) BY <1>6, <2>3 DEF ScanDone
    <3>4. m.type = "restore" /\ m.points.lvl = chain.lvl /\ m.points.spent = chain.spent
      BY DEF Msg
    <3>5. Now(m) BY <1>6, <2>3, <3>4 DEF Now
    <3> HIDE DEF m
    <3> QED BY <1>m, <2>1, <3>2, <3>3, <3>4, <3>5
  <2> QED BY <2>2, <2>3
<1>7. CASE create_character
  <2>1. Msg("create", NoPoints) \in Messages BY NoPointsTyped DEF Msg, Messages
  <2>2. /\ Post(Msg("create", NoPoints)) /\ alloc' = alloc /\ chain'.spent = chain.spent
        /\ past' = past
    BY <1>0, <1>7 DEF create_character, ClientOnly, ChainT
  <2>3. Msg("create", NoPoints).type = "create" BY DEF Msg
  <2>4. Now(Msg("create", NoPoints)) BY <1>7 DEF Now
  <2> QED BY <1>m, <2>1, <2>2, <2>3, <2>4
<1>8. CASE DeleteCharacter
  <2>1. Msg("delete", NoPoints) \in Messages BY NoPointsTyped DEF Msg, Messages
  <2>2. /\ Post(Msg("delete", NoPoints)) /\ alloc' = alloc /\ chain'.spent = chain.spent
        /\ past'.lost = past.lost
    BY <1>8, <1>l DEF DeleteCharacter, ClientOnly
  <2>3. Msg("delete", NoPoints).type = "delete" BY DEF Msg
  <2> QED BY <1>m, <2>1, <2>2, <2>3 DEF Now
<1>9. CASE SendAllocate
  <2>1. Msg("allocate", NoPoints) \in Messages BY NoPointsTyped DEF Msg, Messages
  <2>2. /\ Post(Msg("allocate", NoPoints)) /\ alloc = 1 /\ alloc' = 0
        /\ chain'.spent = chain.spent /\ past' = past
    BY <1>0, <1>9 DEF SendAllocate
  <2>3. Msg("allocate", NoPoints).type = "allocate" BY DEF Msg
  <2> QED BY <1>m, <2>1, <2>2, <2>3 DEF Now
<1>u. CASE SendUnsigned
  <2>1. Msg("allocate", NoPoints) \in Messages BY NoPointsTyped DEF Msg, Messages
  <2>2. /\ Post(Msg("allocate", NoPoints)) /\ chain'.spent = chain.spent
        /\ Mishap({"unsigned"}, 0)
    BY <1>u DEF SendUnsigned
  <2>3. \A q \in {up', unsent'} : \A n \in 1 .. Len(q) : Said(q[n]) \/ q[n] = Msg("allocate", NoPoints)
    BY <1>0, <2>1, <2>2, PostEffect
  <2>4. MessagesFrom BY <2>3 DEF MessagesFrom, Now
  <2>5. "unsigned" \in past'.faults
    <3>1. {"unsigned"} \in SUBSET Faults /\ 0 \in Nat BY FaultsKnown
    <3>2. past'.faults = past.faults \cup {"unsigned"} BY <1>0, <2>2, <3>1, MishapTyped
    <3> QED BY <3>2
  <2> QED BY <2>2, <2>4, <2>5 DEF PendingTo
<1>10. CASE allocate_points
  <2>1. /\ UNCHANGED <<up, unsent>> /\ alloc = 0 /\ alloc' = 1
        /\ chain'.spent = chain.spent + 1 /\ past' = past
    BY <1>0, <1>10 DEF allocate_points, linkVars, ChainT
  <2>2. Pending' = 1 + Allocations(up) + Allocations(unsent) BY <2>1 DEF Pending, Allocations
  <2>3. Pending' = Pending + 1 BY <1>c, <2>1, <2>2 DEF Pending
  <2>4. MessagesFrom BY <2>1 DEF MessagesFrom, Said
  <2> QED BY <2>1, <2>3, <2>4 DEF PendingTo
<1>11. CASE ServerStep
  <2>1. up # << >> /\ up' = Tail(up) /\ unsent' = unsent /\ alloc' = alloc /\ chain' = chain
    BY <1>11 DEF ServerStep, HandleLogin, Refuse, HandleRestore, HandleCreate, HandleDelete,
       HandleAllocate, Received, clientVars
  <2>2. CASE Refuse
    <3>1. Allocations(<<Head(up)>>) = IF Head(up).type = "allocate" THEN 1 ELSE 0
      <4>1. Head(up) \in Messages BY <1>0, <2>1, TakenTyped
      <4>2. << >> \in Seq(Messages) /\ <<Head(up)>> = Append(<< >>, Head(up)) OBVIOUS
      <4>3. Allocations(Append(<< >>, Head(up)))
              = Allocations(<< >>) + (IF Head(up).type = "allocate" THEN 1 ELSE 0)
        BY <4>1, <4>2, CountAppend, Zenon
      <4>4. Allocations(<<Head(up)>>) = Allocations(Append(<< >>, Head(up)))
        BY <4>2, Zenon
      <4> QED BY <4>3, <4>4, CountEmpty
    <3>2. past' = [past EXCEPT !.lost = @ + Allocations(<<Head(up)>>)] BY <2>2 DEF Refuse
    <3>3. past'.lost = past.lost + Allocations(<<Head(up)>>)
      <4>1. Allocations(<<Head(up)>>) \in Nat BY <3>1
      <4> QED BY <1>0, <3>2, <4>1, LosesTyped
    <3>4. Head(up).type # "allocate" => past'.lost = past.lost BY <1>0, <3>1, <3>3
    <3> QED BY <1>t, <2>1, <3>1, <3>3, <3>4
  <2>3. CASE HandleAllocate
    <3>1. Head(up).type = "allocate" BY <2>3 DEF HandleAllocate, Received
    <3> QED BY <1>t, <2>1, <2>3, <3>1
  <2>4. CASE HandleRestore /\ index = 0
    <3>1. Head(up).type # "allocate" BY <2>4 DEF HandleRestore, Received
    <3> QED BY <1>t, <2>1, <2>4, <3>1
  <2>5. CASE HandleLogin \/ HandleCreate \/ HandleDelete \/ (HandleRestore /\ index # 0)
    <3>1. Head(up).type # "allocate"
      BY <2>5 DEF HandleLogin, HandleRestore, HandleCreate, HandleDelete, Received
    <3>2. past'.lost = past.lost
      <4>1. CASE UNCHANGED past BY <4>1
      <4>2. UNCHANGED past \/ Persist(None, {"deleted"}, past.lost)
        BY <2>5 DEF HandleLogin, HandleRestore, HandleCreate, HandleDelete
      <4>3. Persist(None, {"deleted"}, past.lost) => past'.lost = past.lost
        BY <1>0, FaultsKnown, PersistTyped
      <4> QED BY <4>1, <4>2, <4>3
    <3> QED BY <1>t, <2>1, <3>1, <3>2
  <2> QED BY <1>11, <2>2, <2>3, <2>4, <2>5 DEF ServerStep
\* The rest loses nothing either.
<1>z. ASSUME up' = up, conn' = conn PROVE past'.lost = past.lost
  <2>1. ~Connects /\ ~Drop /\ ~Restart
    BY <1>0, <1>z DEF Connects, Connect, Drop, Restart, ClientLosesLink, LinkT
  <2>2. up # << >> => Tail(up) # up BY <1>0, HeadTailProperties
  <2>3. ~Refuse /\ ~HandleAllocate /\ ~HandleRestore
    BY <1>z, <2>2 DEF Refuse, HandleAllocate, HandleRestore, Received
  <2> QED BY <1>k, <2>1, <2>3
<1>12. ASSUME NEW h \in handlers, HandlerStep(h) \/ RowReadFails(h)
       PROVE  MessagesFrom /\ PendingTo
  <2>1. UNCHANGED <<up, unsent, alloc, chain, conn>>
    BY <1>12 DEF HandlerStep, RowReadFails, RowLoaded, ItemsLoaded, Hydrated, IdsFound,
       clientVars
  <2> QED BY <1>1, <1>z, <2>1
<1>13. ASSUME NEW w \in writes, WriteLands(w) \/ WriteFails(w)
       PROVE  MessagesFrom /\ PendingTo
  <2>1. UNCHANGED <<up, unsent, alloc, chain, conn>>
    BY <1>13 DEF WriteLands, WriteFails, clientVars, linkVars
  <2> QED BY <1>1, <1>z, <2>1
<1>14. CASE FightEnds \/ UpdateFails \/ \E e \in effects : EffectsMirrored(e)
  <2>1. UNCHANGED <<up, unsent, alloc, chain, conn>>
    BY <1>14 DEF FightEnds, UpdateFails, EffectsMirrored, clientVars, linkVars
  <2> QED BY <1>1, <1>z, <2>1
<1>15. CASE update_after_fight
  <2>1. chain'.spent = chain.spent /\ UNCHANGED <<up, unsent, alloc, conn>>
    BY <1>0, <1>15 DEF update_after_fight, clientVars, linkVars, ChainT
  <2> QED BY <1>1, <1>z, <2>1
<1>16. CASE UNCHANGED vars
  <2>1. UNCHANGED <<up, unsent, alloc, chain, conn>> BY <1>16 DEF vars
  <2> QED BY <1>1, <1>z, <2>1
<1> QED
  BY <1>2, <1>3, <1>4, <1>5, <1>6, <1>7, <1>8, <1>9, <1>10, <1>11, <1>12, <1>13, <1>14,
     <1>15, <1>16, <1>u DEF Next, Connects, Gate

(***************************************************************************)
(* Points are never counted as spent before the chain saw them spent.      *)
(***************************************************************************)
\* Somewhere on the server, x points are on record as spent.
Holds(x) ==
  \/ \E r \in 1 .. Len(records) : x = records[r].p.spent
  \/ \E h \in handlers : x = h.points.spent
  \/ \E p \in {row} \cup writes : p # None /\ x = p.spent

\* Where such a number of points comes from.
Restores(x) ==
  /\ HandleRestore /\ index = 0 /\ x = Head(up).points.spent
  /\ "crossed" \in past'.faults \/ (alloc = 0 /\ ~Announced)
Comes(x) ==
  \/ Holds(x) \/ x = 0 \/ Restores(x)
  \/ HandleAllocate /\ \E y \in Nat : Holds(y) /\ x = y + 1

LEMMA AllocateEffect ==
  ASSUME Types, HandleAllocate
  PROVE  chain'.spent = chain.spent /\ Pending = Pending' + 1
<1>1. /\ up # << >> /\ up' = Tail(up) /\ unsent' = unsent /\ alloc' = alloc
      /\ chain' = chain /\ Head(up).type = "allocate"
  BY DEF HandleAllocate, Received, clientVars
<1>2. /\ Allocations(up) = Allocations(up)' + 1 /\ Allocations(unsent)' = Allocations(unsent)
      /\ Allocations(up)' \in Nat
  BY <1>1, TakeEffect DEF Types
<1>3. Pending' = alloc + Allocations(up)' + Allocations(unsent) BY <1>1, <1>2 DEF Pending
<1>4. Pending = alloc + Allocations(up) + Allocations(unsent) BY DEF Pending
<1>5. alloc \in Nat /\ Allocations(unsent) \in Nat BY PendingType, CountType DEF Types, LinkT
<1> QED BY <1>1, <1>2, <1>3, <1>4, <1>5

LEMMA HoldsNat == ASSUME Types, NEW x, Holds(x) PROVE x \in Nat
<1>1. \A r \in 1 .. Len(records) : records[r].p \in Points
  BY RecordTyped DEF Types
<1>2. \A h \in handlers : h.points \in Points BY DEF Types, HandlerT
<1>3. \A p \in {row} \cup writes : p # None => p \in Points BY DEF Types, StoreT
<1> QED BY <1>1, <1>2, <1>3 DEF Holds, Points

LEMMA RecordsFrom ==
  ASSUME Types, [Next]_vars, NEW r \in 1 .. Len(records')
  PROVE  Comes(records'[r].p.spent)
<1>0. /\ RecordT /\ LinkT /\ HandlerT /\ QueueT /\ records \in Seq(Record) /\ Len(records) \in Nat
  BY DEF Types, RecordT
<1>k. \A k \in 1 .. Len(records) : Comes(records[k].p.spent) BY DEF Comes, Holds
<1>1. CASE UNCHANGED records BY <1>1, <1>k
<1>p. ASSUME NEW k \in 1 .. Len(records), NEW p \in Points, records' = [records EXCEPT ![k].p = p],
             Comes(p.spent)
      PROVE  Comes(records'[r].p.spent)
  <2> DEFINE new == [records EXCEPT ![k].p = p]
  <2>1. /\ Len(new) = Len(records) /\ new[k] = [on |-> records[k].on, p |-> p]
        /\ \A j \in 1 .. Len(records) : j # k => new[j] = records[j]
    BY <1>0, ChangedPoints
  <2>2. records' = new BY <1>p
  <2> HIDE DEF new
  <2>3. CASE r = k BY <1>p, <2>1, <2>2, <2>3
  <2>4. CASE r # k BY <1>k, <2>1, <2>2, <2>4
  <2> QED BY <2>3, <2>4
<1>a. ASSUME NEW p \in Points, Add(p), Comes(p.spent) PROVE Comes(records'[r].p.spent)
  <2>1. /\ Len(records') = Len(records) + 1
        /\ \A k \in 1 .. Len(records) : records'[k] = records[k]
        /\ records'[Len(records) + 1] = [on |-> TRUE, p |-> p]
    BY <1>0, <1>a, AddedRecord DEF New
  <2>2. r \in 1 .. Len(records) \/ r = Len(records) + 1 BY <1>0, <2>1
  <2> QED BY <1>a, <1>k, <2>1, <2>2
<1>2. CASE ClientActs \/ allocate_points \/ SendAllocate \/ SendUnsigned \/ Connects \/ Drop
  BY <1>1, <1>2 DEF ClientActs, Gate, AuthOk, CharacterArrives,
     CharacterDeleted, GateEffect, ScanDone, StaleScanDone, create_character, ScanMisses, SET_ONCHAIN_CHARACTER,
     BEGIN_SERVER_REHYDRATE, DeleteCharacter, ClientOnly, serverVars, allocate_points, SendAllocate,
     SendUnsigned,
     Connects, Connect, Drop
<1>3. CASE Restart
  <2> DEFINE f == [k \in 1 .. Len(records) |-> [records[k] EXCEPT !.on = FALSE]]
  <2>1. records' = f /\ DOMAIN f = 1 .. Len(records) BY <1>0, <1>3 DEF Restart
  <2>2. \A k \in 1 .. Len(records) : f[k].p = records[k].p BY <1>0, RecordTyped DEF Record
  <2>3. records' \in Seq(Record) BY RecordsGrow DEF Grows
  <2> HIDE DEF f
  <2>4. r \in 1 .. Len(records) BY <1>0, <2>1, <2>3, LenProperties
  <2> QED BY <1>k, <2>1, <2>2, <2>4
<1>4. ASSUME NEW w \in writes, WriteLands(w) \/ WriteFails(w) PROVE Comes(records'[r].p.spent)
  BY <1>1, <1>4 DEF WriteLands, WriteFails, serverVars
<1>5. CASE update_after_fight \/ UpdateFails \/ HandleLogin \/ HandleCreate \/ Refuse
  BY <1>1, <1>5 DEF update_after_fight, UpdateFails, HandleLogin, HandleCreate, Refuse, serverVars
<1>6. CASE FightEnds
  <2> DEFINE c == session.char
             p == [Pts(c) EXCEPT !.lvl = @ + 1, !.free = @ + PointsPerLevel]
  <2>1. c \in 1 .. Len(records) /\ records' = [records EXCEPT ![c].p = p]
    BY <1>6, FightPoints DEF FightEnds
  <2>2. Pts(c) \in Points BY <1>0, <2>1, RecordTyped DEF Pts
  <2>3. p \in Points BY <2>2, LevelledPoints
  <2>4. p.spent = records[c].p.spent BY <2>2 DEF Pts, Points
  <2>5. Comes(p.spent) BY <1>k, <2>1, <2>4
  <2> HIDE DEF p, c
  <2> QED BY <1>p, <2>1, <2>3, <2>5
<1>7. ASSUME NEW e \in effects, EffectsMirrored(e) PROVE Comes(records'[r].p.spent)
  <2> DEFINE c == e.char
             p == [Pts(c) EXCEPT !.lvl = e.lvl, !.free = e.free]
             new == [on |-> TRUE, p |-> p]
  <2>1. c \in 1 .. Len(records) /\ records' = [records EXCEPT ![c] = new]
        /\ e.lvl \in Nat /\ e.free \in Nat
    BY <1>0, <1>7 DEF EffectsMirrored, QueueT
  <2>2. Pts(c) \in Points BY <1>0, <2>1, RecordTyped DEF Pts
  <2>3. p.spent = records[c].p.spent BY <2>2 DEF Pts, Points
  <2>4. p \in Points BY <2>1, <2>2, MirroredPoints
  <2>5. new \in Record /\ new.p = p BY <2>4 DEF Record
  <2> HIDE DEF p, c, new
  <2>6. Len(records') = Len(records) /\ DOMAIN records = 1 .. Len(records)
    BY <1>0, <2>1, <2>5, ChangedRecord
  <2>7. CASE r = c BY <1>k, <2>1, <2>3, <2>5, <2>6, <2>7
  <2>8. CASE r # c
    <3>1. records'[r] = records[r] BY <2>1, <2>6, <2>8
    <3> QED BY <1>k, <2>6, <3>1
  <2> QED BY <2>7, <2>8
<1>8. CASE HandleAllocate
  <2>1. CASE UNCHANGED records BY <1>1, <2>1
  <2>2. CASE ~UNCHANGED records
    <3> DEFINE p == [Pts(index) EXCEPT !.free = @ - 1, !.spent = @ + 1]
    <3>1. index \in 1 .. Len(records) /\ Pts(index).free > 0
          /\ records' = [records EXCEPT ![index].p = p]
      <4>1. index \in 0 .. Len(records) BY <1>0 DEF RecordT
      <4>2. index # 0 /\ Pts(index).free > 0 /\ records' = [records EXCEPT ![index].p = p]
        BY <1>8, <2>2 DEF HandleAllocate
      <4> QED BY <1>0, <4>1, <4>2
    <3>2. Pts(index) \in Points BY <1>0, <3>1, RecordTyped DEF Pts
    <3>3. p \in Points BY <3>1, <3>2, SpentPoint
    <3>4. Pts(index).spent \in Nat /\ p.spent = Pts(index).spent + 1 BY <3>2 DEF Points
    <3>5. Holds(Pts(index).spent) BY <3>1 DEF Holds, Pts
    <3> HIDE DEF p
    <3>6. Comes(p.spent) BY <1>8, <3>4, <3>5 DEF Comes
    <3> QED BY <1>p, <3>1, <3>3, <3>6
  <2> QED BY <2>1, <2>2
<1>9. CASE HandleRestore
  <2>1. CASE index # 0 BY <1>1, <1>9, <2>1 DEF HandleRestore
  <2>2. CASE index = 0
    <3>1. Head(up).points \in Points
      BY <1>0, <1>9, TakenTyped DEF HandleRestore, Received, Messages
    <3>2. Add(Head(up).points) BY <1>9, <2>2 DEF HandleRestore
    <3> DEFINE F == (IF alloc > 0 \/ Announced THEN {"crossed"} ELSE {}) \cup OverlapFault(handlers)
    <3>3. Persist(Head(up).points, F, 0) /\ F \in SUBSET Faults
      BY <1>9, <2>2, FaultsKnown DEF HandleRestore, Faults
    <3>4. F \subseteq past'.faults
      <4> HIDE DEF F
      <4>1. past \in PastT BY DEF Types, StoreT, PastT
      <4>2. past.faults \cup F \subseteq past'.faults BY <3>3, <4>1, PersistTyped
      <4> QED BY <4>2
    <3>5. alloc \in {0, 1} BY DEF Types, ClientT
    <3>6. Restores(Head(up).points.spent) BY <1>9, <2>2, <3>4, <3>5 DEF Restores
    <3>7. Comes(Head(up).points.spent) BY <3>6 DEF Comes
    <3> QED BY <1>a, <3>1, <3>2, <3>7
  <2> QED BY <2>1, <2>2
<1>10. CASE HandleDelete
  <2>1. CASE index = 0 BY <1>1, <1>10, <2>1 DEF HandleDelete
  <2>2. CASE index # 0
    <3>1. records' = [records EXCEPT ![index].on = FALSE] /\ index \in 1 .. Len(records)
      BY <1>0, <1>10, <2>2 DEF HandleDelete, RecordT
    <3>2. Len(records') = Len(records) BY <1>0, <3>1, ClosedRecord
    <3>3. records[r] \in Record BY <1>0, <3>2, RecordTyped
    <3>4. DOMAIN records = 1 .. Len(records) BY <1>0, LenProperties
    <3>5. records'[r].p = records[r].p BY <3>1, <3>2, <3>3, <3>4 DEF Record
    <3> QED BY <1>k, <3>2, <3>5
  <2> QED BY <2>1, <2>2
<1>11. ASSUME NEW h \in handlers, Hydrated(h) \/ RowReadFails(h) \/ RowLoaded(h)
       PROVE  Comes(records'[r].p.spent)
  BY <1>1, <1>11 DEF Hydrated, RowReadFails, RowLoaded
<1>12. ASSUME NEW h \in handlers, ItemsLoaded(h) PROVE Comes(records'[r].p.spent)
  <2>1. Add(Retroactive(h.points)) BY <1>12 DEF ItemsLoaded
  <2>2. h.points \in Points BY <1>0 DEF HandlerT
  <2>3. Retroactive(h.points) \in Points BY <2>2, RetroactivePoints
  <2>4. Retroactive(h.points).spent = h.points.spent BY <2>2 DEF Retroactive, Points
  <2>5. Comes(Retroactive(h.points).spent) BY <2>4 DEF Comes, Holds
  <2> QED BY <1>a, <2>1, <2>3, <2>5
<1>13. ASSUME NEW h \in handlers, IdsFound(h) PROVE Comes(records'[r].p.spent)
  <2>1. CASE index # 0 BY <1>1, <1>13, <2>1 DEF IdsFound
  <2>2. CASE index = 0
    <3>1. Add(NoPoints) /\ NoPoints.spent = 0 BY <1>13, <2>2 DEF IdsFound, NoPoints
    <3>2. Comes(NoPoints.spent) BY <3>1 DEF Comes
    <3> QED BY <1>a, <3>1, <3>2, NoPointsTyped
  <2> QED BY <2>1, <2>2
<1>14. CASE UNCHANGED vars BY <1>1, <1>14 DEF vars
<1> QED
  BY <1>2, <1>3, <1>4, <1>5, <1>6, <1>7, <1>8, <1>9, <1>10, <1>11, <1>12, <1>13, <1>14
     DEF Next, ServerStep, HandlerStep, ClientActs

\* What is written is a record as it is now, or its deletion.
Written(p) ==
  \/ p \in {row} \cup writes \/ p = None
  \/ \E r \in 1 .. Len(records') : p = records'[r].p

LEMMA WritesFrom ==
  ASSUME Types, [Next]_vars, NEW p \in {row'} \cup writes'
  PROVE  Written(p)
<1>0. /\ RecordT /\ LinkT /\ HandlerT /\ QueueT /\ records \in Seq(Record) /\ Len(records) \in Nat
  BY DEF Types, RecordT
<1>1. CASE row' \in {row} \cup writes /\ writes' \subseteq writes BY <1>1 DEF Written
<1>w. ASSUME NEW q, writes' = writes \cup {q}, row' = row,
             q = None \/ \E r \in 1 .. Len(records') : q = records'[r].p
      PROVE  Written(p)
  BY <1>w DEF Written
<1>p. ASSUME NEW k \in 1 .. Len(records), NEW q \in Points, records' = [records EXCEPT ![k].p = q]
      PROVE  \E r \in 1 .. Len(records') : q = records'[r].p
  <2> DEFINE new == [records EXCEPT ![k].p = q]
  <2>1. Len(new) = Len(records) /\ new[k] = [on |-> records[k].on, p |-> q]
    BY <1>0, ChangedPoints
  <2>2. records' = new BY <1>p
  <2> HIDE DEF new
  <2> QED BY <2>1, <2>2
<1>a. ASSUME NEW q \in Points, Add(q) PROVE \E r \in 1 .. Len(records') : q = records'[r].p
  <2>1. records'[New] = [on |-> TRUE, p |-> q] /\ New \in 1 .. Len(records')
    BY <1>0, <1>a, AddedRecord
  <2> QED BY <2>1
<1>2. CASE ClientActs \/ allocate_points \/ SendAllocate \/ SendUnsigned \/ Connects \/ Drop \/ Restart
  <2>1. row' = row /\ writes' = writes
    BY <1>2 DEF ClientActs, Gate, AuthOk, CharacterArrives,
     CharacterDeleted, GateEffect, ScanDone, StaleScanDone, create_character, ScanMisses, SET_ONCHAIN_CHARACTER,
     BEGIN_SERVER_REHYDRATE, DeleteCharacter, ClientOnly, allocate_points, SendAllocate,
     SendUnsigned,
     Connects, Connect, Drop, Restart, ClientLosesLink
  <2> QED BY <1>1, <2>1
<1>3. ASSUME NEW w \in writes, WriteLands(w) \/ WriteFails(w) PROVE Written(p)
  <2>1. row' \in {row} \cup writes /\ writes' \subseteq writes
    BY <1>3 DEF WriteLands, WriteFails
  <2> QED BY <1>1, <2>1
<1>4. CASE update_after_fight \/ UpdateFails \/ HandleLogin \/ HandleCreate \/ Refuse
  BY <1>1, <1>4 DEF update_after_fight, UpdateFails, HandleLogin, HandleCreate, Refuse
<1>5. CASE FightEnds
  <2>1. PICK q \in Points : /\ records' = [records EXCEPT ![session.char].p = q]
                            /\ session.char \in 1 .. Len(records)
                            /\ writes' = writes \cup {q}
    BY <1>5, FightPoints
  <2>2. row' = row BY <1>5 DEF FightEnds
  <2>3. \E r \in 1 .. Len(records') : q = records'[r].p BY <1>p, <2>1
  <2> QED BY <1>w, <2>1, <2>2, <2>3
<1>6. ASSUME NEW e \in effects, EffectsMirrored(e) PROVE Written(p)
  <2>1. PICK q \in Points : /\ records' = [records EXCEPT ![e.char] = [on |-> TRUE, p |-> q]]
                            /\ e.char \in 1 .. Len(records) /\ Persist(q, {}, past.lost)
    BY <1>6, EffectPoints
  <2>2. row' = row /\ writes' = writes \cup {q} BY <1>6, <2>1 DEF EffectsMirrored, Persist
  <2>3. [on |-> TRUE, p |-> q] \in Record BY DEF Record
  <2>4. Len(records') = Len(records) /\ DOMAIN records = 1 .. Len(records)
    BY <1>0, <2>1, <2>3, ChangedRecord
  <2>5. \E r \in 1 .. Len(records') : q = records'[r].p BY <2>1, <2>4
  <2> QED BY <1>w, <2>2, <2>5
<1>7. CASE HandleAllocate
  <2>1. row' = row BY <1>7 DEF HandleAllocate
  <2>2. CASE UNCHANGED writes BY <1>1, <2>1, <2>2
  <2>3. CASE ~UNCHANGED writes
    <3>1. PICK q \in Points : /\ records' = [records EXCEPT ![index].p = q]
                              /\ index \in 1 .. Len(records) /\ Persist(q, {}, past.lost)
      BY <1>7, <2>3, AllocatedPoints
    <3>2. writes' = writes \cup {q} BY <3>1 DEF Persist
    <3>3. \E r \in 1 .. Len(records') : q = records'[r].p BY <1>p, <3>1
    <3> QED BY <1>w, <2>1, <3>2, <3>3
  <2> QED BY <2>2, <2>3
<1>8. CASE HandleRestore
  <2>1. row' = row BY <1>8 DEF HandleRestore
  <2>2. CASE index # 0 BY <1>1, <1>8, <2>1, <2>2 DEF HandleRestore
  <2>3. CASE index = 0
    <3>1. Head(up).points \in Points
      BY <1>0, <1>8, TakenTyped DEF HandleRestore, Received, Messages
    <3>2. Add(Head(up).points) /\ writes' = writes \cup {Head(up).points}
      BY <1>8, <2>3 DEF HandleRestore, Persist
    <3> QED BY <1>a, <1>w, <2>1, <3>1, <3>2
  <2> QED BY <2>2, <2>3
<1>9. CASE HandleDelete
  <2>1. row' = row /\ (writes' = writes \/ writes' = writes \cup {None})
    BY <1>9 DEF HandleDelete, Persist
  <2> QED BY <1>1, <1>w, <2>1
<1>10. ASSUME NEW h \in handlers, Hydrated(h) \/ RowReadFails(h) \/ RowLoaded(h) \/ ItemsLoaded(h)
       PROVE  Written(p)
  BY <1>1, <1>10 DEF Hydrated, RowReadFails, RowLoaded, ItemsLoaded
<1>11. ASSUME NEW h \in handlers, IdsFound(h) PROVE Written(p)
  <2>1. row' = row BY <1>11 DEF IdsFound
  <2>2. CASE index # 0 BY <1>1, <1>11, <2>1, <2>2 DEF IdsFound
  <2>3. CASE index = 0
    <3>1. Add(NoPoints) /\ writes' = writes \cup {NoPoints} BY <1>11, <2>3 DEF IdsFound, Persist
    <3> QED BY <1>a, <1>w, <2>1, <3>1, NoPointsTyped
  <2> QED BY <2>2, <2>3
<1>12. CASE UNCHANGED vars BY <1>1, <1>12 DEF vars
<1> QED
  BY <1>2, <1>3, <1>4, <1>5, <1>6, <1>7, <1>8, <1>9, <1>10, <1>11, <1>12
     DEF Next, ServerStep, HandlerStep, ClientActs

\* A handler keeps points only while it waits for the items; they are the row's.
LEMMA HandlersFrom ==
  ASSUME Types, [Next]_vars, NEW h \in handlers'
  PROVE  \/ h.points = NoPoints \/ \E g \in handlers : h.points = g.points
         \/ row # None /\ h.points = row /\ h.stage = "items"
<1>0. \A g \in handlers : g \in [conn : Nat, stage : Stages, kind : {"auth_ok", "character"},
                                 char : 0 .. Len(records), points : Points]
  BY DEF Types, HandlerT
<1>1. CASE handlers' \subseteq handlers BY <1>1
<1>2. CASE ClientActs \/ allocate_points \/ SendAllocate \/ SendUnsigned \/ Connects \/ Drop \/ Restart
  <2>1. handlers' \subseteq handlers
    BY <1>2 DEF ClientActs, Gate, AuthOk, CharacterArrives,
     CharacterDeleted, GateEffect, ScanDone, StaleScanDone, create_character, ScanMisses, SET_ONCHAIN_CHARACTER,
     BEGIN_SERVER_REHYDRATE, DeleteCharacter, ClientOnly, serverVars, allocate_points, SendAllocate,
     SendUnsigned,
     Connects, Connect, Drop, Restart
  <2> QED BY <1>1, <2>1
<1>3. ASSUME NEW w \in writes, WriteLands(w) \/ WriteFails(w) PROVE handlers' \subseteq handlers
  BY <1>3 DEF WriteLands, WriteFails, serverVars
<1>4. CASE \/ update_after_fight \/ UpdateFails \/ Refuse \/ FightEnds
           \/ (\E e \in effects : EffectsMirrored(e)) \/ HandleAllocate \/ HandleDelete
  BY <1>1, <1>4 DEF update_after_fight, UpdateFails, Refuse, FightEnds, EffectsMirrored,
     HandleAllocate, HandleDelete, serverVars
<1>5. CASE HandleLogin \/ HandleCreate \/ HandleRestore
  <2>1. \A g \in handlers' : g \in handlers \/ g.points = NoPoints
    BY <1>5 DEF HandleLogin, HandleCreate, HandleRestore, Handler
  <2> QED BY <2>1
<1>6. ASSUME NEW g \in handlers, Hydrated(g) \/ RowReadFails(g) \/ IdsFound(g)
      PROVE  handlers' \subseteq handlers
  BY <1>6 DEF Hydrated, RowReadFails, IdsFound
<1>7. ASSUME NEW g \in handlers, ItemsLoaded(g)
      PROVE  \E k \in handlers : h.points = k.points
  <2>1. handlers' = (handlers \ {g}) \cup {[g EXCEPT !.stage = "hydrate", !.char = New]}
    BY <1>7 DEF ItemsLoaded
  <2>2. [g EXCEPT !.stage = "hydrate", !.char = New].points = g.points BY <1>0
  <2> QED BY <2>1, <2>2
<1>8. ASSUME NEW g \in handlers, RowLoaded(g)
      PROVE  \/ \E k \in handlers : h.points = k.points
             \/ row # None /\ h.points = row /\ h.stage = "items"
  <2>1. [g EXCEPT !.stage = "hydrate", !.char = index].points = g.points BY <1>0
  <2>2. /\ [g EXCEPT !.stage = "items", !.points = row].points = row
        /\ [g EXCEPT !.stage = "items", !.points = row].stage = "items"
    BY <1>0
  <2>3. \/ handlers' = handlers \ {g}
        \/ handlers' = (handlers \ {g}) \cup {[g EXCEPT !.stage = "hydrate", !.char = index]}
        \/ /\ row # None
           /\ handlers' = (handlers \ {g}) \cup {[g EXCEPT !.stage = "items", !.points = row]}
    BY <1>8 DEF RowLoaded
  <2> QED BY <2>1, <2>2, <2>3
<1>9. CASE UNCHANGED vars BY <1>1, <1>9 DEF vars
<1> QED
  BY <1>1, <1>2, <1>3, <1>4, <1>5, <1>6, <1>7, <1>8, <1>9
     DEF Next, ServerStep, HandlerStep, ClientActs

\* Points on record and announcements under way are never more than the chain
\* has seen spent, nor are those under way and those lost; and no restore says
\* more than the chain.
Bill == Pending + past.lost
Counted ==
  /\ Ends
  /\ "unsigned" \notin past.faults => Bill <= chain.spent
  /\ \A q \in {up, unsent} : \A n \in 1 .. Len(q) : q[n].points.spent <= chain.spent
  /\ past.faults \cap {"crossed", "unsigned"} = {} =>
       \A x : Holds(x) => x + Pending <= chain.spent

LEMMA CountedInit == Init => Counted
<1> SUFFICES ASSUME Init PROVE Counted OBVIOUS
<1>1. /\ up = << >> /\ unsent = << >> /\ alloc = 0 /\ records = << >> /\ handlers = {}
      /\ writes = {} /\ row \in {None, NoPoints} /\ chain.spent = 0 /\ ~conn.open /\ past.lost = 0
  BY DEF Init
<1>2. Pending = 0 /\ Bill = 0 BY <1>1, CountEmpty DEF Pending, Bill
<1>3. ASSUME NEW x, Holds(x) PROVE x = 0
  BY <1>1, <1>3 DEF Holds, NoPoints
<1> QED BY <1>1, <1>2, <1>3 DEF Counted, Ends

LEMMA CountedStep == Types /\ Counted /\ [Next]_vars => Counted'
<1> SUFFICES ASSUME Types, Counted, [Next]_vars PROVE Counted' OBVIOUS
<1> DEFINE c == chain.spent
           d == chain'.spent
           a == Pending
           b == Pending'
           l == past.lost
           m == past'.lost
<1>0. Types' BY TypesStep
<1>1. c \in Nat /\ d \in Nat /\ a \in Nat /\ b \in Nat /\ l \in Nat /\ m \in Nat
  <2>1. Pending' \in Nat
    <3>1. (Types => Pending \in Nat)' BY PendingType, PTL
    <3> QED BY <1>0, <3>1
  <2> QED BY <1>0, <2>1, PendingType DEF Types, ChainT, StoreT
<1>2. Ends' BY EndsStep DEF Counted
<1>3. MessagesFrom /\ PendingTo BY LinkEffect DEF Counted
<1>k. past.faults \subseteq past'.faults BY PastStep
<1>4. \/ "unsigned" \in past'.faults /\ d = c
      \/ d = c /\ b + m = a + l /\ b <= a
      \/ d = c + 1 /\ b = a + 1 /\ m = l
      \/ d = c /\ a = b + 1 /\ HandleAllocate
      \/ d = c /\ a = b /\ HandleRestore /\ index = 0
  BY <1>3 DEF PendingTo
<1>l. /\ HandleAllocate => m = l \/ m = l + 1
      /\ HandleRestore /\ index = 0 => m = 0
  <2>0. past \in PastT /\ l + 1 \in Nat BY <1>1 DEF Types, StoreT, PastT
  <2>1. ASSUME HandleAllocate PROVE m = l \/ m = l + 1
    <3>1. past' = [past EXCEPT !.lost = @ + 1] \/ \E p \in Points : Persist(p, {}, past.lost)
      BY <2>1, AllocatedPoints
    <3> QED BY <1>1, <2>0, <3>1, FaultsKnown, LosesTyped, PersistTyped
  <2>2. ASSUME HandleRestore, index = 0 PROVE m = 0
    <3> DEFINE F == (IF alloc > 0 \/ Announced THEN {"crossed"} ELSE {}) \cup OverlapFault(handlers)
    <3>1. Persist(Head(up).points, F, 0) /\ F \in SUBSET Faults
      BY <2>2, FaultsKnown DEF HandleRestore, Faults
    <3> HIDE DEF F
    <3> QED BY <2>0, <3>1, PersistTyped
  <2> QED BY <2>1, <2>2
<1>5. "unsigned" \notin past'.faults => a + l <= c
  BY <1>k DEF Counted, Bill
<1>6. /\ "unsigned" \notin past'.faults => b + m <= d
      /\ c <= d
      /\ "unsigned" \notin past'.faults => \A x \in Nat : x + a <= c => x + b <= d
  <2> HIDE DEF a, b, c, d, l, m
  <2>1. c <= d BY <1>1, <1>4
  <2>2. ASSUME "unsigned" \notin past'.faults PROVE b + m <= d
    BY <1>1, <1>4, <1>5, <1>l, <2>2
  <2>3. ASSUME "unsigned" \notin past'.faults, NEW x \in Nat, x + a <= c PROVE x + b <= d
    BY <1>1, <1>4, <2>3
  <2> QED BY <2>1, <2>2, <2>3
<1>7. ASSUME NEW q \in {up', unsent'}, NEW n \in 1 .. Len(q) PROVE q[n].points.spent <= d
  <2>1. Said(q[n]) \/ Now(q[n]) BY <1>3, <1>7 DEF MessagesFrom
  <2>2. CASE Said(q[n])
    <3>1. q[n].points.spent <= c BY <2>2 DEF Said, Counted
    <3>2. q[n].points.spent \in Nat
      <4>1. \A s \in {up, unsent} : \A k \in 1 .. Len(s) : s[k] \in Messages
        BY ElementOfSeq DEF Types, LinkT
      <4> QED BY <2>2, <4>1 DEF Said, Messages, Points
    <3> HIDE DEF c, d
    <3> QED BY <1>1, <1>6, <3>1, <3>2
  <2>3. CASE Now(q[n])
    <3>1. q[n].points.spent = 0 \/ q[n].points.spent = c
      BY <2>3 DEF Now, Msg, NoPoints
    <3> HIDE DEF c, d
    <3> QED BY <1>1, <1>6, <3>1
  <2> QED BY <2>1, <2>2, <2>3
<1>8. ASSUME past'.faults \cap {"crossed", "unsigned"} = {}, NEW x, Holds(x)' PROVE x + b <= d
  <2>1. past.faults \cap {"crossed", "unsigned"} = {} BY <1>8, <1>k
  <2>u. "unsigned" \notin past'.faults BY <1>8
  <2>2. \A y : Holds(y) => y \in Nat /\ y + a <= c
    BY <2>1, HoldsNat DEF Counted
  <2>3. Comes(x)
    <3>1. \A r \in 1 .. Len(records') : Comes(records'[r].p.spent) BY RecordsFrom
    <3>2. ASSUME NEW h \in handlers' PROVE Comes(h.points.spent)
      <4>1. \/ h.points = NoPoints \/ \E g \in handlers : h.points = g.points
            \/ row # None /\ h.points = row
        BY HandlersFrom
      <4>2. NoPoints.spent = 0 BY DEF NoPoints
      <4> QED BY <4>1, <4>2 DEF Comes, Holds
    <3>3. ASSUME NEW p \in {row'} \cup writes', p # None PROVE Comes(p.spent)
      <4>1. Written(p) BY WritesFrom
      <4>2. CASE p \in {row} \cup writes BY <3>3, <4>2 DEF Comes, Holds
      <4> QED BY <3>1, <3>3, <4>1, <4>2 DEF Written
    <3> QED BY <1>8, <3>1, <3>2, <3>3 DEF Holds
  <2>4. CASE Holds(x)
    <3>1. x \in Nat /\ x + a <= c BY <2>2, <2>4
    <3> HIDE DEF a, b, c, d
    <3> QED BY <1>6, <2>u, <3>1
  <2>5. CASE x = 0
    <3> HIDE DEF a, b, c, d, l, m
    <3>1. b <= d BY <1>1, <1>6, <2>u
    <3> QED BY <1>1, <2>5, <3>1
  <2>6. CASE Restores(x)
    <3>1. alloc = 0 /\ ~Announced BY <1>8, <2>6 DEF Restores
    <3>2. Allocations(up) \in Nat /\ Allocations(unsent) \in Nat
      BY CountType DEF Types, LinkT
    <3>3. a = 0 BY <3>1, <3>2 DEF Pending, Announced
    <3>4. Said(Head(up)) /\ Head(up) \in Messages
      <4>1. up # << >> /\ up' = Tail(up) /\ unsent' = unsent
        BY <2>6 DEF Restores, HandleRestore, Received, clientVars
      <4> QED BY <4>1, TakeEffect DEF Types
    <3>5. x \in Nat /\ x <= c
      <4>1. x = Head(up).points.spent BY <2>6 DEF Restores
      <4> QED BY <3>4, <4>1 DEF Said, Counted, Messages, Points
    <3> HIDE DEF a, b, c, d
    <3>6. x + a <= c BY <1>1, <3>3, <3>5
    <3> QED BY <1>6, <2>u, <3>5, <3>6
  <2>7. CASE HandleAllocate /\ \E y \in Nat : Holds(y) /\ x = y + 1
    <3>1. PICK y \in Nat : Holds(y) /\ x = y + 1 BY <2>7
    <3>2. d = c /\ a = b + 1 BY <2>7, AllocateEffect
    <3>3. y + a <= c BY <2>2, <3>1
    <3> HIDE DEF a, b, c, d
    <3> QED BY <1>1, <3>1, <3>2, <3>3
  <2> QED BY <2>3, <2>4, <2>5, <2>6, <2>7 DEF Comes
<1> HIDE DEF a, b, c, d, l, m
<1>9. /\ "unsigned" \notin past'.faults => Bill' <= chain'.spent
      /\ \A q \in {up', unsent'} : \A n \in 1 .. Len(q) : q[n].points.spent <= chain'.spent
      /\ past'.faults \cap {"crossed", "unsigned"} = {} =>
           \A x : Holds(x)' => x + Pending' <= chain'.spent
  BY <1>6, <1>7, <1>8 DEF b, d, m, Bill
<1> QED BY <1>2, <1>9 DEF Counted

\* However logins, restores, fights and announcements interleave, and whatever
\* is lost or arrives late, the server never counts a point the chain has not
\* seen spent, unless a restore read the chain between the two, or the client
\* announced a point it had not signed.
THEOREM PointsSpentOnce == Spec => []SpentOnceAtMost
<1>1. Types /\ Counted => SpentOnceAtMost
  <2> SUFFICES ASSUME Types, Counted, past.faults \cap {"crossed", "unsigned"} = {},
                      NEW r \in DOMAIN records
               PROVE  records[r].p.spent <= chain.spent
    BY DEF SpentOnceAtMost
  <2>1. r \in 1 .. Len(records) BY DEF Types, RecordT
  <2>2. Holds(records[r].p.spent) BY <2>1 DEF Holds
  <2>3. records[r].p.spent \in Nat BY <2>2, HoldsNat
  <2>4. records[r].p.spent + Pending <= chain.spent BY <2>2 DEF Counted
  <2>5. Pending \in Nat /\ chain.spent \in Nat BY PendingType DEF Types, ChainT
  <2> QED BY <2>3, <2>4, <2>5
<1> QED BY <1>1, TypesInit, TypesStep, CountedInit, CountedStep, PTL DEF Spec

(***************************************************************************)
(* With nothing under way, server and chain agree, up to what was lost.    *)
(***************************************************************************)
Sent(type) == \E q \in {up, unsent} : \E n \in 1 .. Len(q) : q[n].type = type

\* The row as it is once the writes under way have landed.
Latest == IF writes = {} THEN {row} ELSE writes

\* Before the character is registered on chain there is nothing anywhere.
Fresh ==
  ~chain.registered =>
    /\ chain.lvl = 0 /\ records = << >> /\ row = None /\ writes = {}
    /\ ~Sent("restore") /\ ~Sent("create")
    /\ \A h \in handlers : h.stage \notin {"items", "ids"}

\* While the server has no record, no client of it has the character or is about
\* to be given it, so no point is spent: what a client read on chain to restore
\* the record is what the chain says; and a creation under way is one of a
\* character that never fought.
Gated == client.scan /\ ~client.due => ~client.has
Kinds == \A h \in handlers : h.stage \in {"load", "items"} => h.kind = "auth_ok"
Told ==
  past.faults = {} /\ index = 0 =>
    /\ \A q \in {up, unsent} : \A n \in 1 .. Len(q) :
         q[n].type = "restore" => q[n].points.lvl = chain.lvl /\ q[n].points.spent = chain.spent
    /\ Sent("create") => chain.lvl = 0
    /\ Sent("restore") => ~client.has
    /\ \A h \in handlers : h.stage # "hydrate"
    /\ \A n \in 1 .. Len(down) : down[n].type # "character" /\ ~down[n].has

\* Record, row and chain say the same of the points spent, announced and lost;
\* of the level they do when no fight is under way.
Matches(p) == p.lvl = chain.lvl /\ p.spent + Bill = chain.spent
Kept ==
  past.faults = {} =>
    /\ \A e \in effects : e.lvl = chain.lvl
    /\ index # 0 =>
         /\ Pts(index).spent + Bill = chain.spent
         /\ updates = << >> /\ effects = {} => Pts(index).lvl = chain.lvl
         /\ \A p \in Latest : p.lvl = Pts(index).lvl /\ p.spent = Pts(index).spent
    /\ index = 0 =>
         /\ \A p \in Latest : p # None => Matches(p)
         /\ (\E h \in handlers : h.stage = "ids") => chain.lvl = 0
    /\ \A h \in handlers : h.stage = "items" =>
         h.points # None /\ \A p \in Latest : p = h.points

Agrees == Fresh /\ Gated /\ Kinds /\ Told /\ Kept

LEMMA AgreesInit == Init => Agrees
<1> SUFFICES ASSUME Init PROVE Agrees OBVIOUS
<1>1. /\ up = << >> /\ unsent = << >> /\ alloc = 0 /\ records = << >> /\ handlers = {}
      /\ writes = {} /\ chain.spent = 0 /\ chain.lvl = 0 /\ effects = {} /\ index = 0
      /\ row \in {None, NoPoints} /\ (~chain.registered => row = None)
      /\ past.lost = 0 /\ down = << >> /\ ~client.scan
  BY DEF Init
<1>2. Bill = 0 BY <1>1, CountEmpty DEF Pending, Bill
<1>3. ~\E type : Sent(type) BY <1>1 DEF Sent
<1>4. Latest = {row} BY <1>1 DEF Latest
<1>5. Matches(NoPoints) BY <1>1, <1>2 DEF Matches, NoPoints
<1>6. Fresh BY <1>1, <1>3 DEF Fresh
<1>7. Told BY <1>1, <1>3 DEF Told
<1>8. Kept BY <1>1, <1>4, <1>5 DEF Kept
<1>9. Gated /\ Kinds BY <1>1 DEF Gated, Kinds
<1> QED BY <1>6, <1>7, <1>8, <1>9 DEF Agrees

\* Nothing is queued or mirrored for a record that does not exist.
LEMMA NoTasks ==
  ASSUME Types, records = << >> \/ (OneRecord /\ NoOverlap /\ index = 0)
  PROVE  updates = << >> /\ effects = {}
<1>1. updates \in Seq(Nat) /\ Len(updates) \in Nat BY DEF Types, QueueT
<1>2. \A k \in 1 .. Len(updates) : updates[k] \in 1 .. Len(records) /\ updates[k] # 0
  BY DEF Types, QueueT
<1>3. \A e \in effects : e.char \in 1 .. Len(records) /\ e.char # 0
  BY DEF Types, QueueT
<1>4. Len(updates) # 0 => 1 \in 1 .. Len(updates) BY <1>1
<1>5. CASE records = << >>
  <2>1. 1 .. Len(records) = {} BY <1>5
  <2>2. Len(updates) = 0 BY <1>2, <1>4, <2>1
  <2> QED BY <1>1, <1>3, <2>1, <2>2, EmptySeq
<1>6. CASE OneRecord /\ NoOverlap /\ index = 0
  <2>1. Len(updates) = 0 BY <1>2, <1>4, <1>6 DEF OneRecord
  <2>2. effects = {} BY <1>3, <1>6 DEF OneRecord
  <2> QED BY <1>1, <2>1, <2>2, EmptySeq
<1> QED BY <1>5, <1>6

\* A write that records no fault is the only one.
LEMMA PersistClean ==
  ASSUME Types, NEW p, NEW F \in SUBSET Faults, NEW n, Persist(p, F, n), past'.faults = {}
  PROVE  writes = {} /\ F = {} /\ writes' = {p} /\ Latest' = {p} /\ past'.lost = n
<1> DEFINE G == past.faults \cup F \cup (IF writes # {} THEN {"row"} ELSE {})
<1>0. past \in PastT BY DEF Types, StoreT, PastT
<1>1. past' = [past EXCEPT !.faults = G, !.lost = n] BY <1>0 DEF Persist, PastT
<1>2. past'.faults = G /\ past'.lost = n
  <2> HIDE DEF G
  <2> QED BY <1>0, <1>1 DEF PastT
<1>3. G = {} BY <1>2
<1>4. writes = {} /\ F = {} BY <1>3
<1>5. writes' = {p} BY <1>4 DEF Persist
<1> QED BY <1>2, <1>4, <1>5 DEF Latest

\* What the fights do to the chain, and what registers the character.
LEMMA ChainMoves ==
  ASSUME Types, [Next]_vars
  PROVE  /\ chain'.lvl = chain.lvl \/ update_after_fight
         /\ chain'.registered = chain.registered \/ (create_character /\ chain'.registered)
<1>0. chain \in [registered : BOOLEAN, lvl : Nat, spent : Nat] BY DEF Types, ChainT
<1>1. CASE UNCHANGED chain BY <1>1
<1>2. CASE Connects \/ Drop \/ Restart
  BY <1>2, <1>1 DEF Connects, Connect, Drop, Restart, ClientLosesLink
<1>3. CASE ServerActs
  BY <1>3, <1>1 DEF ServerActs, ServerStep, HandlerStep, HandleLogin, Refuse,
     HandleRestore, HandleCreate, HandleDelete, HandleAllocate, RowLoaded, ItemsLoaded, Hydrated,
     IdsFound, RowReadFails
<1>4. ASSUME NEW w \in writes, WriteLands(w) \/ WriteFails(w) PROVE UNCHANGED chain
  BY <1>4 DEF WriteLands, WriteFails
<1>5. CASE FightEnds \/ UpdateFails \/ (\E e \in effects : EffectsMirrored(e))
        \/ SendAllocate \/ SendUnsigned
  BY <1>5, <1>1 DEF FightEnds, UpdateFails, EffectsMirrored, SendAllocate, SendUnsigned
<1>6. CASE update_after_fight
  <2>1. chain' = [chain EXCEPT !.lvl = @ + 1] BY <1>6 DEF update_after_fight
  <2> QED BY <1>0, <1>6, <2>1
<1>7. CASE allocate_points
  <2>1. chain' = [chain EXCEPT !.spent = @ + 1] BY <1>7 DEF allocate_points
  <2> QED BY <1>0, <2>1
<1>8. CASE create_character
  <2>1. chain' = [chain EXCEPT !.registered = TRUE] BY <1>8 DEF create_character
  <2> QED BY <1>0, <1>8, <2>1
<1>9. CASE ClientActs /\ ~create_character
  BY <1>9, <1>1 DEF ClientActs, Gate, AuthOk, CharacterArrives, CharacterDeleted, GateEffect,
     ScanDone, StaleScanDone, ScanMisses, SET_ONCHAIN_CHARACTER, BEGIN_SERVER_REHYDRATE,
     DeleteCharacter
<1>10. CASE UNCHANGED vars BY <1>10, <1>1 DEF vars
<1> QED
  BY <1>1, <1>2, <1>3, <1>4, <1>5, <1>6, <1>7, <1>8, <1>9, <1>10 DEF Next, ServerActs, ClientActs

\* The message that is handled was sent.
LEMMA TakenSent ==
  ASSUME LinkT, up # << >>
  PROVE  /\ Sent(Head(up).type)
         /\ \E n \in 1 .. Len(up) : Head(up) = up[n]
<1>1. up \in Seq(Messages) /\ Len(up) \in Nat /\ Len(up) # 0 /\ Head(up) = up[1]
  BY EmptySeq DEF LinkT
<1>2. 1 \in 1 .. Len(up) BY <1>1
<1> QED BY <1>1, <1>2 DEF Sent

LEMMA FreshStep == Types /\ Fresh /\ Ends /\ [Next]_vars => Fresh'
<1> SUFFICES ASSUME Types, Fresh, Ends, [Next]_vars, ~chain'.registered
             PROVE  /\ chain'.lvl = 0 /\ records' = << >> /\ row' = None /\ writes' = {}
                    /\ ~Sent("restore")' /\ ~Sent("create")'
                    /\ \A h \in handlers' : h.stage \notin {"items", "ids"}
  BY DEF Fresh
<1>0. /\ RecordT /\ LinkT
      /\ \A h \in handlers : h \in [conn : Nat, stage : Stages, kind : {"auth_ok", "character"},
                                    char : 0 .. Len(records), points : Points]
  BY DEF Types, HandlerT
<1>1. ~chain.registered /\ ~create_character
  <2>1. create_character => chain'.registered BY DEF create_character, Types, ChainT
  <2> QED BY <2>1, ChainMoves
<1>2. /\ chain.lvl = 0 /\ records = << >> /\ row = None /\ writes = {}
      /\ ~Sent("restore") /\ ~Sent("create")
      /\ \A h \in handlers : h.stage \notin {"items", "ids"}
  BY <1>1 DEF Fresh
<1>3. updates = << >> /\ effects = {} BY <1>2, NoTasks
<1>4. index = 0 /\ session.char = 0 BY <1>0, <1>2 DEF RecordT
<1>5. chain'.lvl = 0 BY <1>2, <1>3, ChainMoves DEF update_after_fight
<1>6. ~Sent("restore")' /\ ~Sent("create")'
  <2>1. ASSUME NEW q \in {up', unsent'}, NEW n \in 1 .. Len(q)
        PROVE  q[n].type \notin {"restore", "create"}
    <3>1. Said(q[n]) \/ Now(q[n]) BY LinkEffect DEF MessagesFrom
    <3>2. CASE Said(q[n]) BY <1>2, <3>2 DEF Said, Sent
    <3>3. CASE Now(q[n]) BY <1>1, <3>3 DEF Now, Msg
    <3> QED BY <3>1, <3>2, <3>3
  <2> QED BY <2>1 DEF Sent
<1> DEFINE Goal == /\ records' = << >> /\ row' = None /\ writes' = {}
                   /\ \A h \in handlers' : h.stage \notin {"items", "ids"}
<1>7. ASSUME UNCHANGED <<records, row, writes>>,
             \A h \in handlers' : h \in handlers \/ h.stage \notin {"items", "ids"}
      PROVE  Goal
  BY <1>2, <1>7
<1>8. ASSUME \/ ClientActs \/ allocate_points \/ SendAllocate \/ SendUnsigned \/ Connects \/ Drop
             \/ HandleLogin \/ Refuse \/ UpdateFails
      PROVE  Goal
  <2>1. /\ UNCHANGED <<records, row, writes>>
        /\ \A h \in handlers' : h \in handlers \/ h.stage \notin {"items", "ids"}
    BY <1>8 DEF ClientActs, Gate, AuthOk, CharacterArrives,
     CharacterDeleted, GateEffect, ScanDone, StaleScanDone, create_character, ScanMisses, SET_ONCHAIN_CHARACTER,
     BEGIN_SERVER_REHYDRATE, DeleteCharacter, ClientOnly, serverVars, allocate_points, SendAllocate,
     SendUnsigned,
     Connects, Connect, Drop, ClientLosesLink, HandleLogin, Refuse, UpdateFails, Handler
  <2> QED BY <1>7, <2>1
<1>9. ASSUME Restart
      PROVE  Goal
  <2>1. records' = [r \in 1 .. Len(records) |-> [records[r] EXCEPT !.on = FALSE]]
        /\ UNCHANGED <<row, writes>> /\ handlers' = {}
    BY <1>0, <1>9 DEF Restart, ClientLosesLink, RecordT
  <2>2. 1 .. Len(records) = {} BY <1>2
  <2>3. records' = << >> BY <2>1, <2>2
  <2> QED BY <1>2, <2>1, <2>3
<1>10. ASSUME NEW w \in writes, WriteLands(w) \/ WriteFails(w) PROVE FALSE
  BY <1>2
<1>11. ASSUME FightEnds \/ update_after_fight \/ \E e \in effects : EffectsMirrored(e)
      PROVE  Goal
  BY <1>3, <1>4, <1>11 DEF FightEnds, update_after_fight
<1>12. ASSUME HandleRestore \/ HandleCreate
      PROVE  Goal
  <2>1. Sent("restore") \/ Sent("create")
    BY <1>0, <1>12, TakenSent DEF HandleRestore, HandleCreate, Received
  <2> QED BY <1>2, <2>1
<1>13. ASSUME HandleDelete \/ HandleAllocate
      PROVE  Goal
  <2>1. UNCHANGED <<records, row, writes, handlers>>
    BY <1>4, <1>13 DEF HandleDelete, HandleAllocate
  <2> QED BY <1>7, <2>1
<1>14. ASSUME NEW h \in handlers, HandlerStep(h) \/ RowReadFails(h) PROVE Goal
  <2>1. ~ItemsLoaded(h) /\ ~IdsFound(h) BY <1>2 DEF ItemsLoaded, IdsFound
  <2>2. UNCHANGED <<records, row, writes>> /\ handlers' \subseteq handlers
    BY <1>2, <1>14, <2>1 DEF HandlerStep, RowReadFails, RowLoaded, Hydrated
  <2> QED BY <1>7, <2>2
<1>15. ASSUME UNCHANGED vars PROVE Goal
  BY <1>7, <1>15 DEF vars, serverVars
<1>16. Goal
  BY <1>8, <1>9, <1>10, <1>11, <1>12, <1>13, <1>14, <1>15 DEF Next, ServerStep, ClientActs
<1> QED BY <1>5, <1>6, <1>16

\* Only the player's wallet spends points.
LEMMA SpendMoves ==
  ASSUME Types, [Next]_vars
  PROVE  chain'.spent = chain.spent \/ allocate_points
<1>0. chain \in [registered : BOOLEAN, lvl : Nat, spent : Nat] BY DEF Types, ChainT
<1>1. CASE UNCHANGED chain BY <1>1
<1>2. CASE Connects \/ Drop \/ Restart
  BY <1>2, <1>1 DEF Connects, Connect, Drop, Restart, ClientLosesLink
<1>3. CASE ServerActs
  BY <1>3, <1>1 DEF ServerActs, ServerStep, HandlerStep, HandleLogin, Refuse,
     HandleRestore, HandleCreate, HandleDelete, HandleAllocate, RowLoaded, ItemsLoaded, Hydrated,
     IdsFound, RowReadFails
<1>4. ASSUME NEW w \in writes, WriteLands(w) \/ WriteFails(w) PROVE UNCHANGED chain
  BY <1>4 DEF WriteLands, WriteFails
<1>5. CASE FightEnds \/ UpdateFails \/ (\E e \in effects : EffectsMirrored(e))
        \/ SendAllocate \/ SendUnsigned
  BY <1>5, <1>1 DEF FightEnds, UpdateFails, EffectsMirrored, SendAllocate, SendUnsigned
<1>6. CASE update_after_fight \/ create_character
  BY <1>0, <1>6 DEF update_after_fight, create_character
<1>7. CASE ClientActs /\ ~create_character
  BY <1>7, <1>1 DEF ClientActs, Gate, AuthOk, CharacterArrives, CharacterDeleted, GateEffect,
     ScanDone, StaleScanDone, ScanMisses, SET_ONCHAIN_CHARACTER, BEGIN_SERVER_REHYDRATE,
     DeleteCharacter
<1>8. CASE UNCHANGED vars BY <1>8, <1>1 DEF vars
<1> QED
  BY <1>1, <1>2, <1>3, <1>4, <1>5, <1>6, <1>7, <1>8 DEF Next, ServerActs, ClientActs

\* The client gets the character from a reply of the server.
LEMMA HasMoves ==
  ASSUME Types, [Next]_vars, ~client.has, client'.has
  PROVE  AuthOk \/ CharacterArrives
<1>0. ClientT BY DEF Types
<1>1. CASE client'.has = client.has BY <1>1
<1>2. CASE Connects \/ ServerActs
  BY <1>2, <1>1 DEF Connects, Connect, ServerActs, ServerStep, HandlerStep, HandleLogin, Refuse,
     HandleRestore, HandleCreate, HandleDelete, HandleAllocate, RowLoaded, ItemsLoaded, Hydrated,
     IdsFound, RowReadFails, clientVars
<1>3. CASE Drop \/ Restart
  <2>1. ClientLosesLink BY <1>3 DEF Drop, Restart
  <2> QED BY <1>0, <1>1, <2>1 DEF ClientLosesLink, ClientT
<1>4. ASSUME NEW w \in writes, WriteLands(w) \/ WriteFails(w) PROVE client'.has = client.has
  BY <1>4 DEF WriteLands, WriteFails, clientVars
<1>5. CASE FightEnds \/ update_after_fight \/ UpdateFails \/ \E e \in effects : EffectsMirrored(e)
  BY <1>5, <1>1 DEF FightEnds, update_after_fight, UpdateFails, EffectsMirrored, clientVars
<1>6. CASE allocate_points \/ SendAllocate \/ SendUnsigned \/ create_character \/ DeleteCharacter
  BY <1>6, <1>1 DEF allocate_points, SendAllocate, SendUnsigned, create_character, DeleteCharacter
<1>7. CASE CharacterDeleted \/ GateEffect \/ StaleScanDone \/ ScanDone \/ ScanMisses
  BY <1>7, <1>0 DEF CharacterDeleted, GateEffect, StaleScanDone, ScanDone, ScanMisses, ClientT
<1>8. CASE SET_ONCHAIN_CHARACTER \/ BEGIN_SERVER_REHYDRATE
  BY <1>8, <1>0 DEF SET_ONCHAIN_CHARACTER, BEGIN_SERVER_REHYDRATE, ClientT
<1>9. CASE UNCHANGED vars BY <1>1, <1>9 DEF vars
<1> QED
  BY <1>1, <1>2, <1>3, <1>4, <1>5, <1>6, <1>7, <1>8, <1>9 DEF Next, ServerActs, Gate

\* Without a record the server tells nobody of one.
LEMMA RepliesFrom ==
  ASSUME Types, Kinds, [Next]_vars, index = 0, index' = 0, \A h \in handlers : h.stage # "hydrate"
  PROVE  \/ down' = down \/ down' = << >> \/ (down # << >> /\ down' = Tail(down))
         \/ down' = Append(down, Reply("auth_ok", FALSE))
<1>1. CASE UNCHANGED down BY <1>1
<1>2. CASE AuthOk \/ CharacterArrives \/ CharacterDeleted
  BY <1>2 DEF AuthOk, CharacterArrives, CharacterDeleted
<1>3. CASE \/ GateEffect \/ ScanDone \/ StaleScanDone \/ create_character \/ ScanMisses
           \/ SET_ONCHAIN_CHARACTER \/ BEGIN_SERVER_REHYDRATE \/ DeleteCharacter
           \/ allocate_points \/ SendAllocate \/ SendUnsigned
  BY <1>1, <1>3 DEF GateEffect, ScanDone, StaleScanDone, create_character, ScanMisses,
     SET_ONCHAIN_CHARACTER, BEGIN_SERVER_REHYDRATE, DeleteCharacter, allocate_points, SendAllocate,
     SendUnsigned, linkVars
<1>4. CASE Connects \/ Drop \/ Restart
  BY <1>4 DEF Connects, Connect, Drop, Restart, ClientLosesLink
<1>5. ASSUME NEW w \in writes, WriteLands(w) \/ WriteFails(w) PROVE UNCHANGED down
  BY <1>5 DEF WriteLands, WriteFails, linkVars
<1>6. CASE update_after_fight \/ UpdateFails \/ FightEnds \/ \E e \in effects : EffectsMirrored(e)
  BY <1>1, <1>6 DEF update_after_fight, UpdateFails, FightEnds, EffectsMirrored, linkVars
<1>7. CASE ServerStep
  BY <1>1, <1>7 DEF ServerStep, HandleLogin, Refuse, HandleRestore, HandleCreate, HandleDelete,
     HandleAllocate
<1>8. ASSUME NEW h \in handlers, HandlerStep(h) \/ RowReadFails(h)
      PROVE  down' = down \/ down' = Append(down, Reply("auth_ok", FALSE))
  <2>1. ~Hydrated(h) BY DEF Hydrated
  <2>2. ~(IdsFound(h) /\ down' # down)
    <3>1. Len(records) \in Nat BY DEF Types, RecordT
    <3>2. New # 0 BY <3>1 DEF New
    <3> QED BY <3>2 DEF IdsFound
  <2>3. CASE RowLoaded(h) \/ RowReadFails(h)
    <3>1. h.kind = "auth_ok" BY <2>3 DEF RowLoaded, RowReadFails, Kinds
    <3> QED BY <2>3, <3>1 DEF RowLoaded, RowReadFails, Answer
  <2>4. CASE ItemsLoaded(h) BY <2>4 DEF ItemsLoaded
  <2> QED BY <1>8, <2>1, <2>2, <2>3, <2>4 DEF HandlerStep
<1>9. CASE UNCHANGED vars BY <1>1, <1>9 DEF vars
<1> QED
  BY <1>1, <1>2, <1>3, <1>4, <1>5, <1>6, <1>7, <1>8, <1>9 DEF Next, Gate

LEMMA GatedStep == Types /\ Gated /\ Ends /\ [Next]_vars => Gated'
<1> SUFFICES ASSUME Types, Gated, Ends, [Next]_vars PROVE Gated' OBVIOUS
<1>0. ClientT BY DEF Types
<1>1. CASE UNCHANGED client BY <1>1 DEF Gated
<1>2. CASE Connects \/ ServerActs
  BY <1>2, <1>1 DEF Connects, Connect, ServerActs, ServerStep, HandlerStep, HandleLogin, Refuse,
     HandleRestore, HandleCreate, HandleDelete, HandleAllocate, RowLoaded, ItemsLoaded, Hydrated,
     IdsFound, RowReadFails, clientVars
<1>3. CASE Drop \/ Restart
  <2>1. ClientLosesLink BY <1>3 DEF Drop, Restart
  <2> QED BY <1>0, <1>1, <2>1 DEF ClientLosesLink, ClientT, Gated
<1>4. ASSUME NEW w \in writes, WriteLands(w) \/ WriteFails(w) PROVE Gated'
  BY <1>4, <1>1 DEF WriteLands, WriteFails, clientVars
<1>5. CASE FightEnds \/ update_after_fight \/ UpdateFails \/ \E e \in effects : EffectsMirrored(e)
  BY <1>5, <1>1 DEF FightEnds, update_after_fight, UpdateFails, EffectsMirrored, clientVars
<1>6. CASE allocate_points \/ SendAllocate \/ SendUnsigned \/ create_character \/ DeleteCharacter
  BY <1>6, <1>1 DEF allocate_points, SendAllocate, SendUnsigned, create_character, DeleteCharacter
<1>7. CASE AuthOk \/ CharacterArrives \/ CharacterDeleted
  BY <1>7, <1>0 DEF AuthOk, CharacterArrives, CharacterDeleted, ClientT, Gated
<1>8. CASE GateEffect \/ StaleScanDone \/ ScanDone \/ ScanMisses
  BY <1>8, <1>0 DEF GateEffect, StaleScanDone, ScanDone, ScanMisses, ClientT, Gated
<1>9. CASE SET_ONCHAIN_CHARACTER \/ BEGIN_SERVER_REHYDRATE
  BY <1>9, <1>0 DEF SET_ONCHAIN_CHARACTER, BEGIN_SERVER_REHYDRATE, ClientT, Gated
<1>10. CASE UNCHANGED vars BY <1>1, <1>10 DEF vars
<1> QED
  BY <1>2, <1>3, <1>4, <1>5, <1>6, <1>7, <1>8, <1>9, <1>10 DEF Next, ServerActs, Gate

\* What a step does to the handlers: one is gone or moves on, one is new.
LEMMA HandlersMove ==
  ASSUME Types, [Next]_vars, NEW h \in handlers'
  PROVE  \/ h \in handlers
         \/ h.kind = "auth_ok" /\ h.stage = "load" /\ index = 0
         \/ h.stage = "hydrate" /\ index' # 0
         \/ h.stage = "ids"
         \/ h.stage = "items" /\ \E g \in handlers : RowLoaded(g) /\ h.kind = g.kind
<1>0. /\ Len(records) \in Nat
      /\ \A g \in handlers : g \in [conn : Nat, stage : Stages, kind : {"auth_ok", "character"},
                                    char : 0 .. Len(records), points : Points]
  BY DEF Types, RecordT, HandlerT
<1>1. CASE UNCHANGED handlers \/ handlers' = {} BY <1>1
<1>2. CASE ClientActs \/ allocate_points \/ SendAllocate \/ SendUnsigned
  BY <1>2, <1>1 DEF ClientActs, Gate, AuthOk, CharacterArrives, CharacterDeleted, GateEffect,
     ScanDone, StaleScanDone, create_character, ScanMisses, SET_ONCHAIN_CHARACTER,
     BEGIN_SERVER_REHYDRATE, DeleteCharacter, ClientOnly, serverVars, allocate_points,
     SendAllocate, SendUnsigned
<1>3. CASE Connects \/ Drop \/ Restart
  BY <1>3, <1>1 DEF Connects, Connect, Drop, Restart
<1>4. ASSUME NEW w \in writes, WriteLands(w) \/ WriteFails(w) PROVE UNCHANGED handlers
  BY <1>4 DEF WriteLands, WriteFails, serverVars
<1>5. CASE update_after_fight \/ UpdateFails \/ FightEnds \/ \E e \in effects : EffectsMirrored(e)
  BY <1>5, <1>1 DEF update_after_fight, UpdateFails, FightEnds, EffectsMirrored, serverVars
<1>6. CASE HandleAllocate \/ Refuse \/ HandleDelete
  BY <1>6, <1>1 DEF HandleAllocate, Refuse, HandleDelete, serverVars
<1>7. CASE HandleLogin \/ HandleCreate
  BY <1>7 DEF HandleLogin, HandleCreate, Handler
<1>8. CASE HandleRestore
  BY <1>0, <1>8 DEF HandleRestore, Handler, New
<1>9. ASSUME NEW g \in handlers, HandlerStep(g) \/ RowReadFails(g)
      PROVE  \/ handlers' \subseteq handlers
             \/ h \in handlers
             \/ h.stage = "hydrate" /\ index' # 0
             \/ h.stage = "items" /\ RowLoaded(g) /\ h.kind = g.kind
  <2>1. CASE RowReadFails(g) \/ Hydrated(g) \/ IdsFound(g)
    BY <2>1 DEF RowReadFails, Hydrated, IdsFound
  <2>2. CASE ItemsLoaded(g)
    <3>1. handlers' = (handlers \ {g}) \cup {[g EXCEPT !.stage = "hydrate", !.char = New]}
          /\ index' = New
      BY <2>2 DEF ItemsLoaded
    <3>2. [g EXCEPT !.stage = "hydrate", !.char = New].stage = "hydrate" BY <1>0
    <3>3. index' # 0 BY <1>0, <3>1 DEF New
    <3>4. h \in handlers \/ h.stage = "hydrate" BY <3>1, <3>2
    <3> QED BY <3>3, <3>4
  <2>3. CASE RowLoaded(g)
    <3>1. /\ index' = index
          /\ \/ handlers' = handlers \ {g}
             \/ /\ index # 0
                /\ handlers' = (handlers \ {g}) \cup {[g EXCEPT !.stage = "hydrate", !.char = index]}
             \/ handlers' = (handlers \ {g}) \cup {[g EXCEPT !.stage = "items", !.points = row]}
      BY <2>3 DEF RowLoaded
    <3>2. /\ [g EXCEPT !.stage = "hydrate", !.char = index].stage = "hydrate"
          /\ [g EXCEPT !.stage = "items", !.points = row].stage = "items"
          /\ [g EXCEPT !.stage = "items", !.points = row].kind = g.kind
      BY <1>0
    <3> QED BY <2>3, <3>1, <3>2
  <2> QED BY <1>9, <2>1, <2>2, <2>3 DEF HandlerStep
<1>10. CASE UNCHANGED vars BY <1>1, <1>10 DEF vars
<1> QED
  BY <1>1, <1>2, <1>3, <1>4, <1>5, <1>6, <1>7, <1>8, <1>9, <1>10
  DEF Next, ServerStep, ClientActs

LEMMA KindsStep == Types /\ Kinds /\ [Next]_vars => Kinds'
<1> SUFFICES ASSUME Types, Kinds, [Next]_vars, NEW h \in handlers', h.stage \in {"load", "items"}
             PROVE  h.kind = "auth_ok"
  BY DEF Kinds
<1>1. ASSUME NEW g \in handlers, RowLoaded(g), h.kind = g.kind PROVE h.kind = "auth_ok"
  BY <1>1 DEF Kinds, RowLoaded
<1> QED BY <1>1, HandlersMove DEF Kinds

LEMMA ToldStep ==
  Types /\ OneRecord /\ Counted /\ Agrees /\ [Next]_vars => Told'
<1> SUFFICES ASSUME Types, OneRecord, Counted, Agrees, [Next]_vars, past'.faults = {}, index' = 0
             PROVE  /\ \A q \in {up', unsent'} : \A n \in 1 .. Len(q) :
                         q[n].type = "restore" =>
                           q[n].points.lvl = chain'.lvl /\ q[n].points.spent = chain'.spent
                    /\ Sent("create")' => chain'.lvl = 0
                    /\ Sent("restore")' => ~client'.has
                    /\ \A h \in handlers' : h.stage # "hydrate"
                    /\ \A n \in 1 .. Len(down') : down'[n].type # "character" /\ ~down'[n].has
  BY DEF Told
<1>0. /\ LinkT /\ RecordT /\ ClientT /\ past \in PastT /\ Len(records) \in Nat
      /\ down \in Seq(Replies)
  BY DEF Types, StoreT, PastT, LinkT, RecordT
<1>1. past.faults = {} /\ NoOverlap
  <2>1. past.faults \subseteq past'.faults BY PastStep
  <2> QED BY <2>1 DEF NoOverlap
<1>2. CASE index = 0
  <2>1. updates = << >> BY <1>1, <1>2, NoTasks
  <2>2. chain'.lvl = chain.lvl BY <2>1, ChainMoves DEF update_after_fight
  <2>3. MessagesFrom BY LinkEffect DEF Counted
  <2>4. /\ \A q \in {up, unsent} : \A n \in 1 .. Len(q) :
             q[n].type = "restore" =>
               q[n].points.lvl = chain.lvl /\ q[n].points.spent = chain.spent
        /\ Sent("create") => chain.lvl = 0
        /\ Sent("restore") => ~client.has
        /\ \A h \in handlers : h.stage # "hydrate"
        /\ \A n \in 1 .. Len(down) : down[n].type # "character" /\ ~down[n].has
    BY <1>1, <1>2 DEF Agrees, Told
  <2>5. chain'.spent = chain.spent \/ allocate_points BY SpendMoves
  <2>6. ASSUME NEW q \in {up', unsent'}, NEW n \in 1 .. Len(q), q[n].type = "restore"
        PROVE  /\ Sent("restore") \/ (ScanDone /\ chain.registered)
               /\ q[n].points.lvl = chain.lvl /\ q[n].points.spent = chain.spent
    <3>1. Said(q[n]) \/ Now(q[n]) BY <2>3 DEF MessagesFrom
    <3>2. CASE Said(q[n]) BY <2>4, <2>6, <3>2 DEF Said, Sent
    <3>3. CASE Now(q[n]) BY <2>6, <3>3 DEF Now, Msg
    <3> QED BY <3>1, <3>2, <3>3
  <2>7. Sent("restore")' => Sent("restore") \/ (ScanDone /\ chain.registered) BY <2>6 DEF Sent
  <2>8. Sent("restore")' => ~client'.has /\ ~allocate_points
    <3>1. ASSUME ScanDone, chain.registered PROVE ~client'.has /\ ~allocate_points
      <4>1. ~client.has BY <3>1 DEF ScanDone, Agrees, Gated
      <4>2. client'.has = client.has BY <1>0, <3>1 DEF ScanDone, ClientT
      <4> QED BY <4>1, <4>2 DEF allocate_points
    <3>2. ASSUME Sent("restore") PROVE ~client'.has /\ ~allocate_points
      <4>1. ~client.has /\ ~allocate_points BY <2>4, <3>2 DEF allocate_points
      <4>2. client'.has => AuthOk \/ CharacterArrives BY <4>1, HasMoves
      <4>3. down # << >> => down[1] = Head(down) /\ 1 \in 1 .. Len(down)
        BY <1>0, EmptySeq
      <4>4. ~CharacterArrives BY <2>4, <4>3 DEF CharacterArrives
      <4>5. AuthOk => ~client'.has BY <1>0, <2>4, <4>3 DEF AuthOk, ClientT
      <4> QED BY <4>1, <4>2, <4>4, <4>5
    <3> QED BY <2>7, <3>1, <3>2
  <2>9. ASSUME NEW q \in {up', unsent'}, NEW n \in 1 .. Len(q), q[n].type = "restore"
        PROVE  q[n].points.lvl = chain'.lvl /\ q[n].points.spent = chain'.spent
    <3>1. Sent("restore")' BY <2>9 DEF Sent
    <3> QED BY <2>2, <2>5, <2>6, <2>8, <2>9, <3>1
  <2>10. Sent("create")' => chain'.lvl = 0
    <3>1. ASSUME NEW q \in {up', unsent'}, NEW n \in 1 .. Len(q), q[n].type = "create"
          PROVE  chain.lvl = 0
      <4>1. Said(q[n]) \/ Now(q[n]) BY <2>3 DEF MessagesFrom
      <4>2. CASE Said(q[n]) BY <2>4, <3>1, <4>2 DEF Said, Sent
      <4>3. CASE Now(q[n])
        <5>1. create_character BY <3>1, <4>3 DEF Now, Msg
        <5>2. ~chain.registered BY <5>1 DEF create_character
        <5> QED BY <5>2 DEF Agrees, Fresh
      <4> QED BY <4>1, <4>2, <4>3
    <3> QED BY <2>2, <3>1 DEF Sent
  <2>11. \A h \in handlers' : h.stage # "hydrate" BY <2>4, HandlersMove
  <2>12. \A n \in 1 .. Len(down') : down'[n].type # "character" /\ ~down'[n].has
    <3>1. ASSUME down' = Append(down, Reply("auth_ok", FALSE))
          PROVE  \A n \in 1 .. Len(down') : down'[n].type # "character" /\ ~down'[n].has
      <4>1. Reply("auth_ok", FALSE) \in Replies BY DEF Reply, Replies
      <4>2. /\ Len(down') = Len(down) + 1 /\ down'[Len(down) + 1] = Reply("auth_ok", FALSE)
            /\ \A n \in 1 .. Len(down) : down'[n] = down[n]
            /\ Len(down) \in Nat
        <5> DEFINE r == Reply("auth_ok", FALSE)
        <5>0. r \in Replies BY <4>1
        <5> HIDE DEF r
        <5>1. /\ Len(Append(down, r)) = Len(down) + 1 /\ Append(down, r)[Len(down) + 1] = r
              /\ \A n \in 1 .. Len(down) : Append(down, r)[n] = down[n]
              /\ Len(down) \in Nat
          BY <1>0, <5>0, AppendProperties, LenProperties
        <5> QED BY <3>1, <5>1 DEF r
      <4>3. \A n \in 1 .. Len(down') : n \in 1 .. Len(down) \/ n = Len(down) + 1 BY <4>2
      <4>4. Reply("auth_ok", FALSE).type # "character" /\ ~Reply("auth_ok", FALSE).has
        BY DEF Reply
      <4> QED BY <2>4, <4>2, <4>3, <4>4
    <3>2. ASSUME down # << >>, down' = Tail(down)
          PROVE  \A n \in 1 .. Len(down') : down'[n].type # "character" /\ ~down'[n].has
      <4>1. /\ Len(down') = Len(down) - 1 /\ Len(down) \in Nat
            /\ \A n \in 1 .. Len(down') : down'[n] = down[n + 1]
        BY <1>0, <3>2, HeadTailProperties, LenProperties
      <4>2. \A n \in 1 .. Len(down') : n + 1 \in 1 .. Len(down) BY <4>1
      <4> QED BY <2>4, <4>1, <4>2
    <3>3. \/ down' = down \/ down' = << >> \/ (down # << >> /\ down' = Tail(down))
          \/ down' = Append(down, Reply("auth_ok", FALSE))
      BY <1>1, <1>2, <2>4, RepliesFrom DEF Agrees
    <3>4. CASE down' = << >> BY <3>4
    <3>5. CASE down' = down BY <2>4, <3>5
    <3> QED BY <3>1, <3>2, <3>3, <3>4, <3>5
  <2> QED BY <2>8, <2>9, <2>10, <2>11, <2>12
<1>3. CASE index # 0
  <2>1. Restart
    <3>1. CASE Restart BY <3>1
    <3>2. CASE ~Restart
      <4>1. index' = index \/ index' = New \/ HandleDelete
        BY <3>2 DEF Next, ServerStep, HandlerStep, Connects, Connect, Drop, Gate, AuthOk,
           CharacterArrives, CharacterDeleted, GateEffect, ScanDone, StaleScanDone,
           create_character, ScanMisses, SET_ONCHAIN_CHARACTER, BEGIN_SERVER_REHYDRATE,
           DeleteCharacter, ClientOnly,
           HandleLogin, Refuse, HandleRestore, HandleCreate, HandleAllocate, RowLoaded,
           ItemsLoaded, Hydrated, IdsFound, RowReadFails, WriteLands, WriteFails, FightEnds,
           update_after_fight, UpdateFails, allocate_points, SendAllocate, SendUnsigned,
           EffectsMirrored, serverVars, vars
      <4>2. New # 0 BY <1>0 DEF New
      <4>3. CASE HandleDelete
        <5>1. Persist(None, {"deleted"}, past.lost) BY <1>3, <4>3 DEF HandleDelete
        <5>2. {"deleted"} = {} BY <5>1, FaultsKnown, PersistClean
        <5> QED BY <5>2
      <4> QED BY <1>3, <4>1, <4>2, <4>3
    <3> QED BY <3>1, <3>2
  <2>2. /\ up' = << >> /\ unsent' = unsent /\ conn.open /\ handlers' = {} /\ down' = << >>
    BY <2>1 DEF Restart, ClientLosesLink
  <2>3. unsent' = << >> BY <2>2 DEF Counted, Ends
  <2> QED BY <2>2, <2>3 DEF Sent
<1> QED BY <1>2, <1>3

\* An announcement that is taken into the record, and a record that a restore
\* makes: what else happens leaves the bill as the chain has it.
Takes == HandleAllocate /\ session.char # 0 /\ index # 0 /\ Pts(index).free > 0
Renews == HandleRestore /\ index = 0

LEMMA BillClean ==
  ASSUME Types, Ends, [Next]_vars, past'.faults = {}
  PROVE  /\ chain.spent \in Nat /\ chain'.spent \in Nat /\ Bill \in Nat /\ Bill' \in Nat
         /\ \/ chain'.spent = chain.spent /\ Bill' = Bill
            \/ chain'.spent = chain.spent + 1 /\ Bill' = Bill + 1
            \/ Takes /\ chain'.spent = chain.spent /\ Bill = Bill' + 1
            \/ Renews /\ chain'.spent = chain.spent /\ Bill' = 0
<1>1. Types' BY TypesStep
<1>2. (Types => Pending \in Nat)' BY PendingType, PTL
<1>3. PendingTo BY LinkEffect
<1>4. /\ chain.spent \in Nat /\ chain'.spent \in Nat /\ Pending \in Nat /\ Pending' \in Nat
      /\ past.lost \in Nat /\ past'.lost \in Nat /\ past \in PastT
  BY <1>1, <1>2, PendingType DEF Types, ChainT, StoreT, PastT
<1>5. Bill = Pending + past.lost /\ Bill' = Pending' + past'.lost BY DEF Bill
<1>6. ASSUME HandleAllocate, chain'.spent = chain.spent, Pending = Pending' + 1
      PROVE  Bill' = Bill \/ (Takes /\ Bill = Bill' + 1)
  <2>1. CASE Takes
    <3>1. \E p : Persist(p, {}, past.lost) BY <2>1 DEF Takes, HandleAllocate
    <3>2. past'.lost = past.lost BY <3>1, FaultsKnown, PersistClean
    <3> QED BY <1>4, <1>5, <1>6, <2>1, <3>2
  <2>2. CASE ~Takes
    <3>1. past' = [past EXCEPT !.lost = @ + 1] BY <1>6, <2>2 DEF Takes, HandleAllocate
    <3>2. past'.lost = past.lost + 1 BY <1>4, <3>1, LosesTyped
    <3> QED BY <1>4, <1>5, <1>6, <3>2
  <2> QED BY <2>1, <2>2
<1>7. ASSUME HandleRestore, index = 0, Pending' = Pending PROVE Renews /\ Bill' = 0
  <2> DEFINE F == (IF alloc > 0 \/ Announced THEN {"crossed"} ELSE {}) \cup OverlapFault(handlers)
  <2>1. Persist(Head(up).points, F, 0) /\ F \in SUBSET Faults
    BY <1>7, FaultsKnown DEF HandleRestore, Faults
  <2>2. F = {} /\ past'.lost = 0
    <3> HIDE DEF F
    <3> QED BY <2>1, PersistClean
  <2>3. ~(alloc > 0) /\ ~Announced BY <2>2
  <2>4. /\ alloc \in {0, 1} /\ Allocations(up) \in Nat /\ Allocations(unsent) \in Nat
    BY CountType DEF Types, ClientT, LinkT
  <2>5. Pending = 0 BY <2>3, <2>4 DEF Pending, Announced
  <2> QED BY <1>5, <1>7, <2>2, <2>5 DEF Renews
<1> QED
  <2>1. CASE /\ chain'.spent = chain.spent /\ Pending' <= Pending
             /\ Pending' + past'.lost = Pending + past.lost
    BY <1>4, <1>5, <2>1
  <2>2. CASE chain'.spent = chain.spent + 1 /\ Pending' = Pending + 1 /\ past'.lost = past.lost
    BY <1>4, <1>5, <2>2
  <2>3. CASE HandleAllocate /\ chain'.spent = chain.spent /\ Pending = Pending' + 1
    BY <1>4, <1>5, <1>6, <2>3
  <2>4. CASE HandleRestore /\ index = 0 /\ chain'.spent = chain.spent /\ Pending' = Pending
    BY <1>4, <1>5, <1>7, <2>4
  <2> QED BY <1>3, <2>1, <2>2, <2>3, <2>4 DEF PendingTo

LEMMA KeptStep ==
  Types /\ OneRecord /\ Counted /\ Agrees /\ [Next]_vars => Kept'
<1> DEFINE c == chain.spent
           d == chain'.spent
           a == Bill
           b == Bill'
           Goal ==
             /\ \A e \in effects' : e.lvl = chain'.lvl
             /\ index' # 0 =>
                  /\ records'[index'].p.spent + b = d
                  /\ updates' = << >> /\ effects' = {} => records'[index'].p.lvl = chain'.lvl
                  /\ \A p \in Latest' : p.lvl = records'[index'].p.lvl
                                        /\ p.spent = records'[index'].p.spent
             /\ index' = 0 =>
                  /\ \A p \in Latest' : p # None => p.lvl = chain'.lvl /\ p.spent + b = d
                  /\ (\E h \in handlers' : h.stage = "ids") => chain'.lvl = 0
             /\ \A h \in handlers' : h.stage = "items" =>
                  h.points # None /\ \A p \in Latest' : p = h.points
<1> SUFFICES ASSUME Types, OneRecord, Counted, Agrees, [Next]_vars, past'.faults = {}
             PROVE  Goal
  BY DEF Kept, Matches, Pts
<1>0. /\ RecordT /\ LinkT /\ HandlerT /\ QueueT /\ ChainT /\ records \in Seq(Record)
      /\ Len(records) \in Nat /\ past \in PastT /\ index \in 0 .. Len(records)
  BY DEF Types, RecordT, StoreT, PastT
<1>1. past.faults = {} /\ NoOverlap
  <2>1. past.faults \subseteq past'.faults BY PastStep
  <2> QED BY <2>1 DEF NoOverlap
<1>2. /\ c \in Nat /\ d \in Nat /\ a \in Nat /\ b \in Nat
      /\ \/ d = c /\ b = a
         \/ d = c + 1 /\ b = a + 1
         \/ Takes /\ d = c /\ a = b + 1
         \/ Renews /\ d = c /\ b = 0
  BY BillClean DEF Counted
<1>3. /\ index = 0 => updates = << >> /\ effects = {}
      /\ session.char # 0 => session.char = index
      /\ (\E h \in handlers : h.stage = "items") => index = 0
      /\ \A e \in effects : e.char = index
  BY <1>1, NoTasks DEF OneRecord
<1>4. /\ \A e \in effects : e.lvl = chain.lvl
      /\ index # 0 =>
           /\ records[index].p.spent + a = c
           /\ updates = << >> /\ effects = {} => records[index].p.lvl = chain.lvl
           /\ \A p \in Latest : p.lvl = records[index].p.lvl /\ p.spent = records[index].p.spent
      /\ index = 0 =>
           /\ \A p \in Latest : p # None => p.lvl = chain.lvl /\ p.spent + a = c
           /\ (\E h \in handlers : h.stage = "ids") => chain.lvl = 0
      /\ \A h \in handlers : h.stage = "items" =>
           h.points # None /\ \A p \in Latest : p = h.points
  <2>1. Kept BY DEF Agrees
  <2> QED BY <1>1, <2>1 DEF Kept, Matches, Pts
<1>5. \A p \in Latest : p # None => p \in Points /\ p.spent \in Nat
  BY DEF Latest, Types, StoreT, Points
<1>6. index # 0 => records[index].p \in Points /\ records[index].p.spent \in Nat
  <2>1. index # 0 => index \in 1 .. Len(records) BY <1>0
  <2> QED BY <1>0, <2>1, RecordTyped DEF Points
<1>7. Latest # {} BY DEF Latest
\* What changes the bill alone changes the server's record too.
<1>k. Takes => /\ index # 0 /\ records' # records /\ UNCHANGED <<updates, effects>>
               /\ Persist([Pts(index) EXCEPT !.free = @ - 1, !.spent = @ + 1], {}, past.lost)
               /\ records' = [records EXCEPT ![index].p =
                                [Pts(index) EXCEPT !.free = @ - 1, !.spent = @ + 1]]
               /\ up # << >> /\ conn' = conn
  <2>1. SUFFICES ASSUME Takes PROVE records' # records
    BY DEF Takes, HandleAllocate, queueVars, Received
  <2> DEFINE p == [Pts(index) EXCEPT !.free = @ - 1, !.spent = @ + 1]
  <2>3. index # 0 /\ records' = [records EXCEPT ![index].p = p]
    BY <2>1 DEF Takes, HandleAllocate
  <2>4. index \in 1 .. Len(records) BY <1>0, <2>3
  <2>5. records[index].p \in Points BY <1>0, <2>4, RecordTyped
  <2>6. p.spent = records[index].p.spent + 1 /\ records[index].p.spent \in Nat
    BY <2>5 DEF Pts, Points
  <2>7. p # records[index].p
    <3>1. p.spent # records[index].p.spent BY <2>6
    <3> HIDE DEF p
    <3> QED BY <3>1
  <2>8. DOMAIN records = 1 .. Len(records) BY <1>0, LenProperties
  <2>9. records[index] \in Record BY <1>0, <2>4, RecordTyped
  <2> HIDE DEF p
  <2>10. records'[index].p = p BY <2>3, <2>4, <2>8, <2>9 DEF Record
  <2> QED BY <2>7, <2>10
<1>h. Takes \/ Renews => /\ records' # records /\ UNCHANGED <<updates, effects>>
                         /\ up # << >> /\ conn' = conn
                         /\ HandleAllocate \/ HandleRestore
  <2>1. ASSUME Renews PROVE records' # records
    <3>1. Add(Head(up).points) BY <2>1 DEF Renews, HandleRestore
    <3>2. Len(records') = Len(records) + 1
      <4>1. HandleRestore /\ up # << >> BY <2>1 DEF Renews, HandleRestore, Received
      <4>2. Head(up).points \in Points BY <1>0, <4>1, TakenTyped DEF Messages
      <4> QED BY <1>0, <3>1, <4>2, AddedRecord
    <3>3. Len(records') # Len(records) BY <1>0, <3>2
    <3> QED BY <3>3
  <2>2. Renews => UNCHANGED <<updates, effects>> /\ up # << >> /\ conn' = conn /\ HandleRestore
    BY DEF Renews, HandleRestore, queueVars, Received
  <2> QED BY <1>k, <2>1, <2>2 DEF Takes
<1>g. ~Takes /\ ~Renews => \A x \in Nat : x + a = c => x + b = d
  <2> HIDE DEF a, b, c, d
  <2> QED BY <1>2
\* The server's record stays as it is.
<1>s. ASSUME UNCHANGED <<records, index, updates, effects>>, chain'.lvl = chain.lvl,
             Latest' \subseteq Latest,
             \A h \in handlers' : \/ h \in handlers
                                  \/ h.stage \notin {"items", "ids"}
                                  \/ h.stage = "ids" /\ (index = 0 => chain.lvl = 0)
                                  \/ h.stage = "items" /\ h.points # None /\ Latest = {h.points}
      PROVE  Goal
  <2>6. ~Takes /\ ~Renews BY <1>h, <1>s
  <2>1. index # 0 => records[index].p.spent + b = d
    <3> HIDE DEF a, b, c, d
    <3> QED BY <1>4, <1>6, <1>g, <2>6
  <2>2. index = 0 => \A p \in Latest : p # None => p.lvl = chain.lvl /\ p.spent + b = d
    <3> HIDE DEF a, b, c, d
    <3> QED BY <1>4, <1>5, <1>g, <2>6
  <2> HIDE DEF a, b, c, d
  <2>3. index = 0 /\ (\E h \in handlers' : h.stage = "ids") => chain.lvl = 0
    BY <1>4, <1>s
  <2>4. \A h \in handlers' : h.stage = "items" =>
          h.points # None /\ \A p \in Latest' : p = h.points
    BY <1>4, <1>s
  <2>5. \A p \in Latest' : p \in Latest BY <1>s
  <2> QED BY <1>4, <1>s, <2>1, <2>2, <2>3, <2>4, <2>5
\* The points of the wallet's record change, and are written.
<1>c. ASSUME index # 0, UNCHANGED <<index, handlers>>, NEW p \in Points,
             \/ records' = [records EXCEPT ![index].p = p]
             \/ records' = [records EXCEPT ![index] = [on |-> TRUE, p |-> p]],
             Latest' = {p}, p.spent + b = d, chain'.lvl = chain.lvl, effects' \subseteq effects,
             updates' = << >> /\ effects' = {} => p.lvl = chain.lvl
      PROVE  Goal
  <2>1. index \in 1 .. Len(records) BY <1>0, <1>c
  <2>2. DOMAIN records = 1 .. Len(records) BY <1>0, LenProperties
  <2>3. records'[index].p = p
    <3>1. [records EXCEPT ![index].p = p][index].p = p
      BY <1>0, <2>1, ChangedPoints
    <3>2. [records EXCEPT ![index] = [on |-> TRUE, p |-> p]][index].p = p BY <2>1, <2>2
    <3> QED BY <1>c, <3>1, <3>2
  <2> HIDE DEF a, b, c, d
  <2> QED BY <1>3, <1>4, <1>c, <2>3
\* A record is made, as the chain says.
<1>n. ASSUME index = 0, NEW p \in Points, Add(p), index' = New, UNCHANGED <<updates, effects>>,
             chain'.lvl = chain.lvl, p.lvl = chain.lvl, p.spent + b = d,
             \A q \in Latest' : q.lvl = p.lvl /\ q.spent = p.spent,
             ~\E h \in handlers' : h.stage = "items"
      PROVE  Goal
  <2>1. records'[New] = [on |-> TRUE, p |-> p] /\ New # 0
    BY <1>0, <1>n, AddedRecord DEF New
  <2> HIDE DEF a, b, c, d
  <2> QED BY <1>3, <1>n, <2>1
<1> HIDE DEF Goal
<1>t. ASSUME UNCHANGED <<records, index, updates, effects>>, Latest' \subseteq Latest,
             \A h \in handlers' : \/ h \in handlers
                                  \/ h.stage \notin {"items", "ids"}
                                  \/ h.stage = "ids" /\ (index = 0 => chain.lvl = 0)
                                  \/ h.stage = "items" /\ h.points # None /\ Latest = {h.points}
      PROVE  Goal
  <2>1. ~update_after_fight
    <3>1. updates # << >> => Tail(updates) # updates
      <4>1. updates \in Seq(Nat) BY <1>0 DEF QueueT
      <4> QED BY <4>1, HeadTailProperties
    <3> QED BY <1>t, <3>1 DEF update_after_fight
  <2> QED BY <1>s, <1>t, <2>1, ChainMoves
<1>8. CASE ClientActs \/ allocate_points \/ SendAllocate \/ SendUnsigned \/ Connects \/ Drop
  <2>1. UNCHANGED <<records, index, updates, effects, row, writes, handlers>>
    BY <1>8 DEF ClientActs, Gate, AuthOk, CharacterArrives,
     CharacterDeleted, GateEffect, ScanDone, StaleScanDone, create_character, ScanMisses, SET_ONCHAIN_CHARACTER,
     BEGIN_SERVER_REHYDRATE, DeleteCharacter, ClientOnly, serverVars, queueVars, allocate_points,
     SendAllocate, SendUnsigned, Connects, Connect, Drop, ClientLosesLink
  <2>2. Latest' = Latest BY <2>1 DEF Latest
  <2> QED BY <1>t, <2>1, <2>2
<1>9. CASE Restart
  <2> DEFINE F == IF updates # << >> \/ effects # {} THEN {"update"} ELSE {}
  <2>1. /\ Mishap(F, Allocations(up)) /\ handlers' = {} /\ index' = 0 /\ effects' = {} /\ updates' = << >>
        /\ row' = row /\ writes' = writes /\ chain' = chain
    BY <1>9 DEF Restart, ClientLosesLink
  <2>2. F = {}
    <3>1. F \in SUBSET Faults BY DEF Faults
    <3>2. Allocations(up) \in Nat BY <1>0, CountType DEF LinkT
    <3> HIDE DEF F
    <3> QED BY <1>0, <2>1, <3>1, <3>2, MishapTyped
  <2>3. updates = << >> /\ effects = {} BY <2>2
  <2>4. Latest' = Latest BY <2>1 DEF Latest
  <2>5. ~Takes /\ ~Renews
    <3>1. Takes \/ Renews => conn' = conn BY <1>h
    <3>2. conn'.open = FALSE /\ conn.open
      BY <1>0, <1>9 DEF Restart, ClientLosesLink, LinkT
    <3> QED BY <3>1, <3>2
  <2>6. ASSUME NEW p \in Latest, p # None PROVE p.lvl = chain.lvl /\ p.spent + a = c
    BY <1>4, <2>3, <2>6
  <2>7. ASSUME NEW p \in Latest, p # None PROVE p.lvl = chain.lvl /\ p.spent + b = d
    <3>1. p.spent \in Nat BY <1>5, <2>7
    <3> HIDE DEF a, b, c, d
    <3> QED BY <1>g, <2>5, <2>6, <2>7, <3>1
  <2> HIDE DEF a, b, c, d, F
  <2> QED BY <2>1, <2>4, <2>7 DEF Goal
<1>10. ASSUME NEW w \in writes, WriteLands(w) PROVE Goal
  <2>1. UNCHANGED <<records, index, updates, effects, handlers>>
        /\ writes' = writes \ {w} /\ row' = w
    BY <1>10 DEF WriteLands, serverVars, queueVars
  <2>2. Latest' \subseteq Latest BY <2>1 DEF Latest
  <2> QED BY <1>t, <2>1, <2>2
<1>f. ASSUME NEW F \in SUBSET Faults, F # {}, Mishap(F, 0) \/ Happens(F) PROVE Goal
  <2>1. past'.faults = past.faults \cup F BY <1>0, <1>f, MishapTyped, HappensTyped
  <2> QED BY <1>f, <2>1
<1>11. ASSUME NEW w \in writes, WriteFails(w) PROVE Goal
  BY <1>11, <1>f, FaultsKnown DEF WriteFails
<1>12. CASE UpdateFails
  BY <1>12, <1>f, FaultsKnown DEF UpdateFails
<1>13. CASE HandleLogin \/ Refuse
  <2>1. /\ UNCHANGED <<records, index, updates, effects, row, writes>>
        /\ \A h \in handlers' : h \in handlers \/ h.stage \notin {"items", "ids"}
    BY <1>13 DEF HandleLogin, Refuse, serverVars, queueVars, Handler
  <2>2. Latest' = Latest BY <2>1 DEF Latest
  <2> QED BY <1>t, <2>1, <2>2
<1>14. CASE HandleCreate
  <2>1. /\ UNCHANGED <<records, index, updates, effects, row, writes>>
        /\ \A h \in handlers' : h \in handlers \/ h.stage = "ids"
        /\ up # << >> /\ Head(up).type = "create"
    BY <1>14 DEF HandleCreate, queueVars, Handler, Received
  <2>2. Latest' = Latest BY <2>1 DEF Latest
  <2>3. Sent("create") BY <1>0, <2>1, TakenSent
  <2>4. index = 0 => chain.lvl = 0 BY <1>1, <2>3 DEF Agrees, Told
  <2> QED BY <1>t, <2>1, <2>2, <2>4
<1>15. CASE FightEnds
  <2> DEFINE k == session.char
             p == [Pts(k) EXCEPT !.lvl = @ + 1, !.free = @ + PointsPerLevel]
  <2>1. k \in 1 .. Len(records) /\ k = index /\ index # 0
        /\ records' = [records EXCEPT ![index].p = p]
        /\ writes' = writes \cup {p} /\ UNCHANGED <<index, handlers, effects>>
        /\ updates' = Append(updates, k) /\ chain' = chain
    BY <1>3, <1>15, FightPoints DEF FightEnds
  <2>2. Pts(k) \in Points BY <1>0, <2>1, RecordTyped DEF Pts
  <2>3. p \in Points BY <2>2, LevelledPoints
  <2>4. p.spent = records[index].p.spent BY <2>1, <2>2 DEF Pts, Points
  <2>5. writes = {}
    <3>1. past' = [past EXCEPT !.fights = @ + 1,
                               !.faults = @ \cup (IF writes # {} THEN {"row"} ELSE {})]
      BY <1>15 DEF FightEnds
    <3>2. past'.faults = past.faults \cup (IF writes # {} THEN {"row"} ELSE {})
      BY <1>0, <3>1 DEF PastT
    <3> QED BY <3>2
  <2> HIDE DEF p, k
  <2>6. Latest' = {p} BY <2>1, <2>5 DEF Latest
  <2>7. updates' # << >> /\ updates' # updates
    <3>1. updates \in Seq(Nat) /\ k \in Nat BY <1>0, <2>1 DEF QueueT
    <3>2. Len(Append(updates, k)) = Len(updates) + 1 /\ Append(updates, k) # << >>
          /\ Len(updates) \in Nat
      BY <3>1, AppendProperties
    <3>3. Len(Append(updates, k)) # Len(updates) BY <3>2
    <3> QED BY <2>1, <3>2, <3>3
  <2>8. p.spent + b = d
    <3>1. ~Takes /\ ~Renews BY <1>h, <2>7
    <3> HIDE DEF a, b, c, d
    <3> QED BY <1>4, <1>6, <1>g, <2>1, <2>4, <3>1
  <2> QED BY <1>c, <2>1, <2>3, <2>6, <2>7, <2>8
<1>16. CASE update_after_fight
  <2>1. /\ updates # << >> /\ effects = {} /\ UNCHANGED <<records, index, handlers, row, writes>>
        /\ updates' = Tail(updates) /\ chain' = [chain EXCEPT !.lvl = @ + 1]
        /\ \A e \in effects' : e.lvl = chain'.lvl
        /\ effects' # {}
    BY <1>16 DEF update_after_fight, serverVars
  <2>2. index # 0 BY <1>3, <2>1
  <2>3. Latest' = Latest BY <2>1 DEF Latest
  <2>4. ~\E h \in handlers : h.stage = "items" BY <1>3, <2>2
  <2>5. records[index].p.spent + b = d
    <3>1. ~Takes /\ ~Renews BY <1>h, <2>1
    <3> HIDE DEF a, b, c, d
    <3> QED BY <1>4, <1>6, <1>g, <2>2, <3>1
  <2> HIDE DEF a, b, c, d
  <2> QED BY <1>4, <2>1, <2>2, <2>3, <2>4, <2>5 DEF Goal
<1>17. ASSUME NEW e \in effects, EffectsMirrored(e) PROVE Goal
  <2> DEFINE p == [Pts(e.char) EXCEPT !.lvl = e.lvl, !.free = e.free]
  <2>1. /\ e.char = index /\ index # 0 /\ index \in 1 .. Len(records)
        /\ e.lvl \in Nat /\ e.free \in Nat /\ e.lvl = chain.lvl
    BY <1>0, <1>3, <1>4 DEF QueueT
  <2>2. /\ records' = [records EXCEPT ![index] = [on |-> TRUE, p |-> p]] /\ Persist(p, {}, past.lost)
        /\ UNCHANGED <<index, handlers, updates, chain>> /\ effects' = effects \ {e}
    BY <1>17, <2>1 DEF EffectsMirrored
  <2>3. Pts(e.char) \in Points BY <1>0, <2>1, RecordTyped DEF Pts
  <2>4. p \in Points BY <2>1, <2>3, MirroredPoints
  <2>5. p.spent = records[index].p.spent /\ p.lvl = e.lvl BY <2>1, <2>3 DEF Pts, Points
  <2> HIDE DEF p
  <2>6. Latest' = {p} BY <2>2, FaultsKnown, PersistClean
  <2>7. p.spent + b = d
    <3>1. ~Takes /\ ~Renews BY <1>h, <2>2
    <3> HIDE DEF a, b, c, d
    <3> QED BY <1>4, <1>6, <1>g, <2>1, <2>5, <3>1
  <2> QED BY <1>c, <2>1, <2>2, <2>4, <2>5, <2>6, <2>7
<1>18. CASE HandleAllocate
  <2> DEFINE p == [Pts(index) EXCEPT !.free = @ - 1, !.spent = @ + 1]
  <2>1. UNCHANGED <<index, handlers, updates, effects, row>> /\ chain' = chain
    BY <1>18 DEF HandleAllocate, queueVars
  <2>2. CASE Takes
    <3>1. /\ index # 0 /\ Pts(index).free > 0 /\ records' = [records EXCEPT ![index].p = p]
          /\ Persist(p, {}, past.lost)
      BY <1>k, <2>2 DEF Takes
    <3>2. index \in 1 .. Len(records) BY <1>0, <3>1
    <3>3. Pts(index) \in Points BY <1>0, <3>2, RecordTyped DEF Pts
    <3>4. p \in Points BY <3>1, <3>3, SpentPoint
    <3>5. p.spent = records[index].p.spent + 1 /\ p.lvl = records[index].p.lvl
      BY <3>3 DEF Pts, Points
    <3> HIDE DEF p
    <3>6. Latest' = {p} BY <3>1, FaultsKnown, PersistClean
    <3>7. d = c /\ a = b + 1
      <4>1. ~Renews BY <3>1 DEF Renews
      <4>2. Pending = Pending' + 1 BY <1>18, AllocateEffect
      <4>3. past'.lost = past.lost BY <3>1, FaultsKnown, PersistClean
      <4>4. past.lost \in Nat /\ Pending \in Nat BY <1>0, PendingType DEF PastT
      <4>5. (Types => Pending \in Nat)' BY PendingType, PTL
      <4>6. Pending' \in Nat BY <4>5, TypesStep
      <4> QED BY <2>1, <4>2, <4>3, <4>4, <4>6 DEF Bill
    <3>8. p.spent + b = d
      <4> HIDE DEF a, b, c, d
      <4> QED BY <1>2, <1>4, <1>6, <3>1, <3>5, <3>7
    <3>9. updates = << >> /\ effects = {} => p.lvl = chain.lvl BY <1>4, <3>1, <3>5
    <3> QED BY <1>c, <2>1, <3>1, <3>4, <3>6, <3>8, <3>9
  <2>3. CASE ~Takes
    <3>1. UNCHANGED <<records, writes>> BY <1>18, <2>3 DEF HandleAllocate, Takes
    <3>2. Latest' = Latest BY <2>1, <3>1 DEF Latest
    <3> QED BY <1>t, <2>1, <3>1, <3>2
  <2> QED BY <2>2, <2>3
<1>o. OverlapFault(handlers) = {} => ~\E h \in handlers : h.stage = "items"
  BY DEF OverlapFault
<1>19. CASE HandleRestore
  <2>1. CASE index # 0
    <3>1. /\ UNCHANGED <<records, index, updates, effects, row, writes>>
          /\ \A h \in handlers' : h \in handlers \/ h.stage = "hydrate"
      BY <1>19, <2>1 DEF HandleRestore, queueVars, Handler
    <3>2. Latest' = Latest BY <3>1 DEF Latest
    <3> QED BY <1>t, <3>1, <3>2
  <2>2. CASE index = 0
    <3> DEFINE p == Head(up).points
               F == (IF alloc > 0 \/ Announced THEN {"crossed"} ELSE {}) \cup OverlapFault(handlers)
    <3>1. /\ Add(p) /\ index' = New /\ Persist(p, F, 0) /\ UNCHANGED <<updates, effects>>
          /\ handlers' = handlers \cup {Handler("hydrate", "character", New, NoPoints)}
          /\ chain' = chain /\ up # << >> /\ Head(up).type = "restore"
          /\ up' = Tail(up) /\ unsent' = unsent
      BY <1>19, <2>2 DEF HandleRestore, queueVars, clientVars, Received
    <3>2. F \in SUBSET Faults BY FaultsKnown DEF Faults
    <3>3. F = {} /\ Latest' = {p}
      <4> HIDE DEF F, p
      <4> QED BY <3>1, <3>2, PersistClean
    <3>4. b = 0
      <4>1. past'.lost = 0
        <5> HIDE DEF F, p
        <5> QED BY <3>1, <3>2, PersistClean
      <4>2. ~(alloc > 0) /\ ~Announced BY <3>3
      <4>3. /\ alloc \in {0, 1} /\ Allocations(up) \in Nat /\ Allocations(unsent) \in Nat
        BY CountType DEF Types, ClientT, LinkT
      <4>4. alloc = 0 /\ Allocations(up) = 0 /\ Allocations(unsent) = 0
        BY <4>2, <4>3 DEF Announced
      <4>5. alloc' = alloc /\ Allocations(unsent)' = Allocations(unsent)
            /\ Allocations(up) = Allocations(up)' /\ Allocations(up)' \in Nat
        <5>1. alloc' = alloc BY <1>19 DEF HandleRestore, clientVars
        <5> QED BY <1>0, <3>1, <4>4, <5>1, TakeEffect
      <4>6. Pending' = 0 BY <4>4, <4>5 DEF Pending
      <4> QED BY <4>1, <4>6 DEF Bill
    <3>5. PICK n \in 1 .. Len(up) : Head(up) = up[n] BY <1>0, <3>1, TakenSent
    <3>6. p.lvl = chain.lvl /\ p.spent = c
      <4>1. \A q \in {up, unsent} : \A m \in 1 .. Len(q) :
              q[m].type = "restore" =>
                q[m].points.lvl = chain.lvl /\ q[m].points.spent = chain.spent
        BY <1>1, <2>2 DEF Agrees, Told
      <4> QED BY <3>1, <3>5, <4>1
    <3>8. Head(up) \in Messages BY <1>0, <3>1, TakeEffect
    <3>9. p \in Points /\ p.spent \in Nat BY <3>8 DEF Messages, Points
    <3>10. ~\E h \in handlers' : h.stage = "items"
      <4>1. OverlapFault(handlers) = {} BY <3>3
      <4> QED BY <1>o, <3>1, <4>1 DEF Handler
    <3> HIDE DEF p, F
    <3>11. p.spent + b = d BY <3>1, <3>4, <3>6, <3>9
    <3> QED BY <1>n, <2>2, <3>1, <3>3, <3>6, <3>9, <3>10, <3>11
  <2> QED BY <2>1, <2>2
<1>20. CASE HandleDelete
  <2>1. CASE index = 0
    <3>1. UNCHANGED <<records, index, updates, effects, row, writes, handlers>>
      BY <1>20, <2>1 DEF HandleDelete, queueVars
    <3>2. Latest' = Latest BY <3>1 DEF Latest
    <3> QED BY <1>t, <3>1, <3>2
  <2>2. CASE index # 0
    <3>1. Persist(None, {"deleted"}, past.lost) BY <1>20, <2>2 DEF HandleDelete
    <3>2. {"deleted"} = {} BY <3>1, FaultsKnown, PersistClean
    <3> QED BY <3>2
  <2> QED BY <2>1, <2>2
<1>21. ASSUME NEW h \in handlers, Hydrated(h) \/ RowReadFails(h) PROVE Goal
  <2>1. UNCHANGED <<records, index, updates, effects, row, writes>> /\ handlers' \subseteq handlers
    BY <1>21 DEF Hydrated, RowReadFails, queueVars
  <2>2. Latest' = Latest BY <2>1 DEF Latest
  <2> QED BY <1>t, <2>1, <2>2
<1>y. \A h \in handlers : h \in [conn : Nat, stage : Stages, kind : {"auth_ok", "character"},
                                 char : 0 .. Len(records), points : Points]
  BY <1>0 DEF HandlerT
<1>22. ASSUME NEW h \in handlers, RowLoaded(h) PROVE Goal
  <2>1. UNCHANGED <<records, index, updates, effects, row, writes>>
    BY <1>22 DEF RowLoaded, queueVars
  <2>2. Latest' = Latest BY <2>1 DEF Latest
  <2>3. writes = {}
    <3>1. Happens(IF writes # {} THEN {"row"} ELSE {}) BY <1>22 DEF RowLoaded
    <3>2. writes # {} => Happens({"row"}) BY <3>1
    <3>3. writes # {} => "row" \in past'.faults BY <1>0, <3>2, FaultsKnown, HappensTyped
    <3> QED BY <3>3
  <2>4. Latest = {row} BY <2>3 DEF Latest
  <2>5. /\ [h EXCEPT !.stage = "hydrate", !.char = index].stage = "hydrate"
        /\ [h EXCEPT !.stage = "items", !.points = row].stage = "items"
        /\ [h EXCEPT !.stage = "items", !.points = row].points = row
    BY <1>y
  <2>6. \/ handlers' = handlers \ {h}
        \/ handlers' = (handlers \ {h}) \cup {[h EXCEPT !.stage = "hydrate", !.char = index]}
        \/ /\ row # None
           /\ handlers' = (handlers \ {h}) \cup {[h EXCEPT !.stage = "items", !.points = row]}
    BY <1>22 DEF RowLoaded
  <2> QED BY <1>t, <2>1, <2>2, <2>4, <2>5, <2>6
<1>23. ASSUME NEW h \in handlers, ItemsLoaded(h) PROVE Goal
  <2> DEFINE p == Retroactive(h.points)
  <2>1. /\ h.stage = "items" /\ Add(p) /\ index' = New /\ UNCHANGED <<updates, effects, row, writes>>
        /\ handlers' = (handlers \ {h}) \cup {[h EXCEPT !.stage = "hydrate", !.char = New]}
        /\ Happens(OverlapFault(handlers \ {h})) /\ chain' = chain
    BY <1>23 DEF ItemsLoaded, queueVars
  <2>2. index = 0 BY <1>3, <2>1
  <2>3. h.points \in Points BY <1>y
  <2>4. p \in Points BY <2>3, RetroactivePoints
  <2>5. p.spent = h.points.spent /\ p.lvl = h.points.lvl BY <2>3 DEF Retroactive, Points
  <2>6. Latest' = Latest BY <2>1 DEF Latest
  <2>7. h.points # None /\ \A q \in Latest : q = h.points BY <1>4, <2>1
  <2>8. h.points \in Latest BY <1>7, <2>7
  <2>9. h.points.lvl = chain.lvl /\ h.points.spent + a = c BY <1>4, <2>2, <2>7, <2>8
  <2>10. OverlapFault(handlers \ {h}) = {}
    <3>1. past'.faults = past.faults \cup OverlapFault(handlers \ {h})
      BY <1>0, <2>1, FaultsKnown, HappensTyped
    <3> QED BY <3>1
  <2>11. ~\E g \in handlers' : g.stage = "items"
    <3>1. [h EXCEPT !.stage = "hydrate", !.char = New].stage = "hydrate" BY <1>y
    <3>2. ~\E g \in handlers \ {h} : g.stage = "items" BY <2>10 DEF OverlapFault
    <3> QED BY <2>1, <3>1, <3>2
  <2>12. ~Takes /\ ~Renews
    <3>1. HandleAllocate \/ HandleRestore => up # << >> /\ up' = Tail(up)
      BY DEF HandleAllocate, HandleRestore, Received
    <3>2. up' = up BY <1>23 DEF ItemsLoaded
    <3>3. up # << >> => Tail(up) # up BY <1>0, HeadTailProperties DEF LinkT
    <3> QED BY <1>h, <3>1, <3>2, <3>3
  <2>13. p.spent + b = d
    <3>1. p.spent \in Nat BY <2>4 DEF Points
    <3> HIDE DEF a, b, c, d, p
    <3> QED BY <1>g, <2>5, <2>9, <2>12, <3>1
  <2> HIDE DEF p
  <2> QED BY <1>n, <2>1, <2>2, <2>4, <2>5, <2>6, <2>7, <2>9, <2>11, <2>13
<1>24. ASSUME NEW h \in handlers, IdsFound(h) PROVE Goal
  <2>1. CASE index # 0
    <3>1. UNCHANGED <<records, index, updates, effects, row, writes>> /\ handlers' \subseteq handlers
      BY <1>24, <2>1 DEF IdsFound, queueVars
    <3>2. Latest' = Latest BY <3>1 DEF Latest
    <3> QED BY <1>t, <3>1, <3>2
  <2>2. CASE index = 0
    <3>1. /\ h.stage = "ids" /\ Add(NoPoints) /\ index' = New
          /\ Persist(NoPoints, OverlapFault(handlers), past.lost) /\ handlers' = handlers \ {h}
          /\ UNCHANGED <<updates, effects>> /\ chain' = chain
      BY <1>24, <2>2 DEF IdsFound, queueVars
    <3>2. OverlapFault(handlers) = {} /\ Latest' = {NoPoints}
      BY <3>1, FaultsKnown, PersistClean
    <3>3. chain.lvl = 0 BY <1>4, <2>2, <3>1
    <3>4. c = 0 /\ a = 0
      <4>1. c <= Granted(0) /\ a <= c BY <1>0, <1>1, <3>3 DEF ChainT, Counted
      <4> HIDE DEF a, c
      <4> QED BY <1>2, <4>1, GrantedNat
    <3>5. NoPoints.lvl = 0 /\ NoPoints.spent = 0 BY DEF NoPoints
    <3>6. ~\E g \in handlers' : g.stage = "items" BY <1>o, <3>1, <3>2
    <3>7. NoPoints.spent + b = d
      <4>1. ~Takes /\ ~Renews
        <5>1. HandleAllocate \/ HandleRestore => up # << >> /\ up' = Tail(up)
          BY DEF HandleAllocate, HandleRestore, Received
        <5>2. up' = up BY <1>24 DEF IdsFound
        <5>3. up # << >> => Tail(up) # up BY <1>0, HeadTailProperties DEF LinkT
        <5> QED BY <1>h, <5>1, <5>2, <5>3
      <4>2. NoPoints.spent \in Nat /\ NoPoints.spent + a = c BY <3>4, <3>5
      <4> HIDE DEF a, b, c, d
      <4> QED BY <1>g, <4>1, <4>2
    <3> QED BY <1>n, <2>2, <3>1, <3>2, <3>3, <3>5, <3>6, <3>7, NoPointsTyped
  <2> QED BY <2>1, <2>2
<1>25. CASE UNCHANGED vars
  <2>1. Latest' = Latest BY <1>25 DEF vars, Latest
  <2> QED BY <1>t, <1>25, <2>1 DEF vars
<1> QED
  BY <1>8, <1>9, <1>10, <1>11, <1>12, <1>13, <1>14, <1>15, <1>16, <1>17, <1>18, <1>19,
     <1>20, <1>21, <1>22, <1>23, <1>24, <1>25 DEF Next, ServerStep, HandlerStep, ClientActs

\* When nothing is under way, the server's record has the level of the character
\* on chain, and its spent points up to the announcements lost since the last
\* restore, whatever restarts, reconnections, restores and fights led there.
THEOREM ChainAndRecordAgree == Spec => []AgreesWhenQuiet
<1> DEFINE Inv == Types /\ OneRecord /\ Counted /\ Agrees
<1>1. Init => Inv BY TypesInit, OneRecordInit, CountedInit, AgreesInit
<1>2. Inv /\ [Next]_vars => Inv'
  <2> SUFFICES ASSUME Inv, [Next]_vars PROVE Inv' OBVIOUS
  <2>1. Fresh' /\ Gated' /\ Kinds' /\ Told' /\ Kept'
    BY FreshStep, GatedStep, KindsStep, ToldStep, KeptStep DEF Agrees, Counted
  <2> QED BY <2>1, TypesStep, OneRecordStep, CountedStep DEF Agrees
<1>3. Inv => AgreesWhenQuiet
  <2> SUFFICES ASSUME Inv, past.faults = {}, index # 0, updates = << >>, effects = {}, alloc = 0,
                      ~Announced
               PROVE  Pts(index).lvl = chain.lvl /\ Pts(index).spent + past.lost = chain.spent
    BY DEF AgreesWhenQuiet
  <2>1. Allocations(up) \in Nat /\ Allocations(unsent) \in Nat /\ past.lost \in Nat
    BY CountType DEF Types, LinkT, StoreT
  <2>2. Allocations(up) = 0 /\ Allocations(unsent) = 0 BY <2>1 DEF Announced
  <2>3. Pending = 0 BY <2>2 DEF Pending
  <2>4. Bill = past.lost BY <2>1, <2>3 DEF Bill
  <2>5. Pts(index).spent + Bill = chain.spent /\ Pts(index).lvl = chain.lvl
    BY DEF Agrees, Kept
  <2> QED BY <2>4, <2>5
<1> HIDE DEF Inv
<1> QED BY <1>1, <1>2, <1>3, PTL DEF Spec
=============================================================================
