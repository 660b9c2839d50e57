---------------------------- MODULE TavernProofs ----------------------------
(***************************************************************************)
(* Proofs about Tavern, for any players and any numbers of challenges,     *)
(* writes and mishaps: types, who is seated, awaited and shown in a fight, *)
(* and the states and limits of challenges.                                *)
(***************************************************************************)
EXTENDS Tavern, FiniteSetTheorems, TLAPS

(***************************************************************************)
(* Types.  Challenges are numbered in the order they were sent.            *)
(***************************************************************************)
Seats == Sent \cup {None}
Session == [ready : BOOLEAN, entered : BOOLEAN, seat : Seats]
Request == [from : Wallets, to : Wallets, status : Statuses \cup {None}]
PastT == [accepts : [Ids -> Nat], faults : SUBSET Faults, mishaps : Nat]

RequestT ==
  /\ \E n \in Nat : Sent = 1 .. n /\ n <= MaxRequests
  /\ requests \in [Sent -> Request]
  /\ rows \in [Sent -> Statuses \cup {None}]
  /\ writes \subseteq Sent \X Statuses
  /\ boot = Unread \/ boot \subseteq Sent
SessionT ==
  /\ client \in [Wallets -> Session \cup {None}]
  /\ presence \in [Wallets -> [fight : Seats] \cup {None}]
  /\ closed \subseteq [wallet : Wallets, seat : Seats] /\ loaded \subseteq Wallets
FightT ==
  /\ starting \subseteq Sent /\ fights \subseteq Sent
  /\ grace \in [Wallets -> Seats]

Types == RequestT /\ SessionT /\ FightT /\ past \in PastT

LEMMA SentFacts ==
  ASSUME RequestT
  PROVE  /\ Sent \subseteq Nat /\ Sent \subseteq Ids /\ None \notin Sent /\ 0 \notin Sent
         /\ IsFiniteSet(Sent) /\ Cardinality(Sent) \in Nat
         /\ Sent = 1 .. Cardinality(Sent)
         /\ Cardinality(Sent) + 1 \notin Sent
         /\ Sent \cup {Cardinality(Sent) + 1} = 1 .. (Cardinality(Sent) + 1)
<1>1. PICK n \in Nat : Sent = 1 .. n /\ n <= MaxRequests BY DEF RequestT
<1>2. IsFiniteSet(1 .. n) /\ Cardinality(1 .. n) = n
  BY FS_Interval
<1> QED BY <1>1, <1>2, TavernAssumption DEF Ids

LEMMA TypesInit == Init => Types
<1> SUFFICES ASSUME Init PROVE Types OBVIOUS
<1>1. Sent = {} /\ DOMAIN rows = {} BY DEF Init, Sent
<1>2. Sent = 1 .. 0 /\ 0 \in Nat /\ 0 <= MaxRequests BY <1>1, TavernAssumption
<1>3. requests \in [Sent -> Request] /\ rows \in [Sent -> Statuses \cup {None}]
  BY <1>1 DEF Init, Sent
<1>4. RequestT BY <1>2, <1>3 DEF Init, RequestT
<1>5. SessionT BY DEF Init, SessionT
<1>6. FightT BY DEF Init, FightT, Seats
<1>7. past \in PastT BY DEF Init, PastT
<1> QED BY <1>4, <1>5, <1>6, <1>7 DEF Types

(***************************************************************************)
(* The history                                                             *)
(***************************************************************************)
LEMMA HappensTyped ==
  ASSUME past \in PastT, NEW F \in SUBSET Faults, Happens(F)
  PROVE  past' \in PastT /\ past'.faults = past.faults \cup F /\ past'.accepts = past.accepts
BY DEF Happens, PastT

LEMMA MishapTyped ==
  ASSUME past \in PastT, NEW F \in SUBSET Faults, Mishap(F)
  PROVE  past' \in PastT /\ past'.faults = past.faults \cup F /\ past'.accepts = past.accepts
<1> DEFINE once == [past EXCEPT !.mishaps = @ + 1]
<1>1. once \in PastT /\ once.faults = past.faults /\ once.accepts = past.accepts BY DEF PastT
<1>2. /\ [once EXCEPT !.faults = @ \cup F] \in PastT
      /\ [once EXCEPT !.faults = @ \cup F].faults = past.faults \cup F
      /\ [once EXCEPT !.faults = @ \cup F].accepts = past.accepts
  <2> HIDE DEF once
  <2> QED BY <1>1 DEF PastT
<1>3. past' = [once EXCEPT !.faults = @ \cup F] BY <1>1 DEF Mishap
<1> QED BY <1>2, <1>3

LEMMA AcceptTyped ==
  ASSUME past \in PastT, NEW id \in Ids, NEW F \in SUBSET Faults,
         past' = [accepts |-> [past.accepts EXCEPT ![id] = @ + 1],
                  faults |-> past.faults \cup F, mishaps |-> past.mishaps]
  PROVE  /\ past' \in PastT /\ past'.faults = past.faults \cup F
         /\ past'.accepts = [past.accepts EXCEPT ![id] = @ + 1]
<1>1. [past.accepts EXCEPT ![id] = @ + 1] \in [Ids -> Nat] BY DEF PastT
<1> QED BY <1>1 DEF PastT

LEMMA FaultsKnown ==
  /\ {} \in SUBSET Faults
  /\ \A n \in {"row", "boot", "zombie"} : {n} \in SUBSET Faults
  /\ \A id : Reordered(id) \in SUBSET Faults
  /\ \A F, G \in SUBSET Faults : F \cup G \in SUBSET Faults
BY DEF Faults, Reordered

\* The actions, by what they leave alone.
SessionActs ==
  \/ \E w \in Wallets : \/ handleEnterRoom(w) \/ sweepStalePresence(w) \/ Login(w)
                        \/ SessionReady(w) \/ handleDisconnect(w)
  \/ \E s \in closed : ClosedSessionReady(s)
FightActs ==
  \/ \E id \in starting : FightCreated(id) \/ FightNotCreated(id)
  \/ \E id \in fights : finishFight(id)
DatabaseActs ==
  \/ \E wr \in writes : WriteLands(wr) \/ WriteFails(wr)
  \/ \E id \in Sent : RehydrateRow(id)
  \/ rehydratePendingFromDb \/ RehydrationFails

LEMMA NextCases ==
  ASSUME [Next]_vars
  PROVE  \/ SessionActs \/ FightActs \/ DatabaseActs \/ Restart
         \/ \E w \in Wallets, to \in Wallets : createRequest(w, to)
         \/ \E w \in Wallets, id \in Sent : Refuse(w, id)
         \/ \E id \in Sent : sweepExpired(id) \/ \E kind \in Kinds : Accept(id, kind)
         \/ UNCHANGED vars
BY DEF Next, SessionActs, FightActs, DatabaseActs

\* No step forgets a fault, and none but an acceptance counts one.
LEMMA PastStep ==
  ASSUME Types, [Next]_vars
  PROVE  past' \in PastT /\ past.faults \subseteq past'.faults
<1>0. past \in PastT /\ Sent \subseteq Ids BY SentFacts DEF Types
<1>m. ASSUME NEW F \in SUBSET Faults, Mishap(F) \/ Happens(F)
      PROVE  past' \in PastT /\ past.faults \subseteq past'.faults
  <2>1. past' \in PastT /\ past'.faults = past.faults \cup F
    BY <1>0, <1>m, MishapTyped, HappensTyped
  <2> QED BY <2>1
<1>u. ASSUME UNCHANGED past PROVE past' \in PastT /\ past.faults \subseteq past'.faults
  BY <1>0, <1>u
<1>1. CASE SessionActs
  <2>1. UNCHANGED past \/ Mishap({}) \/ Happens({"zombie"})
    BY <1>1 DEF SessionActs, handleEnterRoom, sweepStalePresence, Login, SessionReady,
                handleDisconnect, ClosedSessionReady
  <2> QED BY <1>m, <1>u, <2>1, FaultsKnown
<1>2. CASE FightActs
  <2>1. UNCHANGED past \/ Mishap({})
    BY <1>2 DEF FightActs, FightCreated, FightNotCreated, finishFight
  <2> QED BY <1>m, <1>u, <2>1, FaultsKnown
<1>3. CASE DatabaseActs
  <2>1. \/ UNCHANGED past \/ Mishap({"row"}) \/ Happens({"boot"})
        \/ Happens(IF writes # {} THEN {"row"} ELSE {})
    BY <1>3 DEF DatabaseActs, WriteLands, WriteFails, RehydrateRow, rehydratePendingFromDb,
                RehydrationFails
  <2>2. (IF writes # {} THEN {"row"} ELSE {}) \in SUBSET Faults BY DEF Faults
  <2> QED BY <1>m, <1>u, <2>1, <2>2, FaultsKnown
<1>4. CASE Restart
  <2>1. Mishap(IF writes # {} THEN {"row"} ELSE {}) BY <1>4 DEF Restart
  <2>2. (IF writes # {} THEN {"row"} ELSE {}) \in SUBSET Faults BY DEF Faults
  <2> QED BY <1>m, <2>1, <2>2
<1>5. CASE \E w \in Wallets, to \in Wallets : createRequest(w, to)
  <2>1. Happens(IF boot # {} THEN {"boot"} ELSE {}) BY <1>5 DEF createRequest
  <2>2. (IF boot # {} THEN {"boot"} ELSE {}) \in SUBSET Faults BY DEF Faults
  <2> QED BY <1>m, <2>1, <2>2
<1>6. CASE \E id \in Sent : (\E w \in Wallets : Refuse(w, id)) \/ sweepExpired(id)
  <2>1. \E id \in Sent : Happens(Reordered(id)) BY <1>6 DEF Refuse, sweepExpired
  <2> QED BY <1>m, <2>1, FaultsKnown
<1>7. ASSUME NEW id \in Sent, NEW kind \in Kinds, Accept(id, kind)
      PROVE  past' \in PastT /\ past.faults \subseteq past'.faults
  <2>1. past' = [accepts |-> [past.accepts EXCEPT ![id] = @ + 1],
                 faults |-> past.faults \cup Reordered(id), mishaps |-> past.mishaps]
    BY <1>7 DEF Accept
  <2>2. Reordered(id) \in SUBSET Faults BY FaultsKnown
  <2>3. past'.faults = past.faults \cup Reordered(id) /\ past' \in PastT
    BY <1>0, <2>1, <2>2, AcceptTyped
  <2> QED BY <2>3
<1>8. CASE UNCHANGED vars BY <1>8, <1>u DEF vars
<1> QED BY <1>1, <1>2, <1>3, <1>4, <1>5, <1>6, <1>7, <1>8, NextCases

(***************************************************************************)
(* Challenges keep their players, and their types                          *)
(***************************************************************************)
Keeps ==
  /\ Sent \subseteq Sent'
  /\ \A id \in Sent : /\ requests'[id].from = requests[id].from
                      /\ requests'[id].to = requests[id].to

\* What transitionRequest does.
LEMMA TransitionEffect ==
  ASSUME Types, NEW id \in Sent, NEW status \in Statuses, Transition(id, status)
  PROVE  /\ requests[id].status = "pending"
         /\ requests' \in [Sent -> Request] /\ Sent' = Sent
         /\ requests'[id] = [from |-> requests[id].from, to |-> requests[id].to,
                             status |-> status]
         /\ \A i \in Sent : i # id => requests'[i] = requests[i]
         /\ writes' = writes \cup {<<id, status>>}
         /\ UNCHANGED <<rows, boot>>
<1>1. requests \in [Sent -> Request] /\ requests[id] \in Request BY DEF Types, RequestT
<1> DEFINE new == [requests[id] EXCEPT !.status = status]
<1>2. new \in Request /\ new = [from |-> requests[id].from, to |-> requests[id].to,
                                status |-> status]
  BY <1>1 DEF Request
<1>3. requests' = [requests EXCEPT ![id] = new] BY DEF Transition
<1>4. /\ requests' \in [Sent -> Request] /\ requests'[id] = new
      /\ \A i \in Sent : i # id => requests'[i] = requests[i]
  <2> HIDE DEF new
  <2> QED BY <1>1, <1>2, <1>3
<1>5. Sent' = Sent BY <1>4 DEF Sent
<1> QED BY <1>2, <1>4, <1>5 DEF Transition, Persisted

\* What createRequest does.
LEMMA CreateEffect ==
  ASSUME Types, NEW from \in Wallets, NEW to \in Wallets, createRequest(from, to)
  PROVE  \E id \in Ids : /\ id \notin Sent /\ Sent' = Sent \cup {id}
                         /\ Sent \cup {id} = 1 .. id
                         /\ requests' \in [Sent' -> Request] /\ rows' \in [Sent' -> Statuses \cup {None}]
                         /\ requests'[id] = [from |-> from, to |-> to, status |-> "pending"]
                         /\ rows'[id] = None
                         /\ \A i \in Sent : requests'[i] = requests[i] /\ rows'[i] = rows[i]
                         /\ writes' = writes \cup {<<id, "pending">>}
<1> DEFINE id == Cardinality(Sent) + 1
<1>0. /\ Cardinality(Sent) \in Nat /\ id \notin Sent /\ Sent \cup {id} = 1 .. id
      /\ requests \in [Sent -> Request] /\ rows \in [Sent -> Statuses \cup {None}]
  BY SentFacts DEF Types, RequestT
<1>1. /\ id \in Ids
      /\ requests' = [i \in Sent \cup {id} |-> IF i # id THEN requests[i] ELSE
                        [from |-> from, to |-> to, status |-> "pending"]]
      /\ rows' = [i \in Sent \cup {id} |-> IF i # id THEN rows[i] ELSE None]
      /\ writes' = writes \cup {<<id, "pending">>}
  BY DEF createRequest, Persisted
<1> HIDE DEF id
<1>2. Sent' = Sent \cup {id} BY <1>1 DEF Sent
<1>3. [from |-> from, to |-> to, status |-> "pending"] \in Request BY DEF Request, Statuses
<1>4. requests' \in [Sent' -> Request] BY <1>0, <1>1, <1>2, <1>3
<1>5. rows' \in [Sent' -> Statuses \cup {None}] BY <1>0, <1>1, <1>2
<1>6. /\ requests'[id] = [from |-> from, to |-> to, status |-> "pending"] /\ rows'[id] = None
      /\ \A i \in Sent : requests'[i] = requests[i] /\ rows'[i] = rows[i]
  BY <1>0, <1>1
<1> QED BY <1>0, <1>1, <1>2, <1>4, <1>5, <1>6

\* What a restart leaves of the challenges.
LEMMA RestartEffect ==
  ASSUME Types, Restart
  PROVE  /\ requests' \in [Sent -> Request] /\ Sent' = Sent
         /\ \A id \in Sent : requests'[id] = [from |-> requests[id].from, to |-> requests[id].to,
                                              status |-> None]
         /\ boot' = Unread /\ UNCHANGED <<rows, writes>>
<1>1. requests \in [Sent -> Request] BY DEF Types, RequestT
<1>2. requests' = [id \in Sent |-> [requests[id] EXCEPT !.status = None]] BY DEF Restart
<1>3. ASSUME NEW id \in Sent
      PROVE  /\ [requests[id] EXCEPT !.status = None] \in Request
             /\ [requests[id] EXCEPT !.status = None]
                  = [from |-> requests[id].from, to |-> requests[id].to, status |-> None]
  <2>1. requests[id] \in Request BY <1>1
  <2> QED BY <2>1 DEF Request
<1>4. requests' \in [Sent -> Request] BY <1>2, <1>3
<1>5. Sent' = Sent BY <1>4 DEF Sent
<1> QED BY <1>2, <1>3, <1>4, <1>5 DEF Restart

LEMMA RehydrateEffect ==
  ASSUME Types, NEW id \in Sent, RehydrateRow(id)
  PROVE  /\ id \in boot \ Unread /\ boot' = boot \ {id} /\ writes' = writes
         /\ requests' \in [Sent -> Request] /\ Sent' = Sent /\ rows' \in [Sent -> Statuses \cup {None}]
         /\ \A i \in Sent : i # id => requests'[i] = requests[i] /\ rows'[i] = rows[i]
         /\ \/ rows'[id] = "over" /\ requests'[id] = requests[id]
            \/ /\ requests'[id] = [from |-> requests[id].from, to |-> requests[id].to,
                                   status |-> "pending"]
               /\ rows'[id] = rows[id]
<1>1. requests \in [Sent -> Request] /\ requests[id] \in Request
      /\ rows \in [Sent -> Statuses \cup {None}]
  BY DEF Types, RequestT
<1> DEFINE new == [requests[id] EXCEPT !.status = "pending"]
<1>2. new \in Request /\ new = [from |-> requests[id].from, to |-> requests[id].to,
                                status |-> "pending"]
  BY <1>1 DEF Request, Statuses
<1>3. \/ rows' = [rows EXCEPT ![id] = "over"] /\ UNCHANGED requests
      \/ requests' = [requests EXCEPT ![id] = new] /\ UNCHANGED rows
  BY DEF RehydrateRow
<1>4. id \in boot \ Unread /\ boot' = boot \ {id} /\ writes' = writes BY DEF RehydrateRow
<1>5. CASE rows' = [rows EXCEPT ![id] = "over"] /\ UNCHANGED requests
  BY <1>1, <1>4, <1>5 DEF Sent, Statuses
<1>6. CASE requests' = [requests EXCEPT ![id] = new] /\ UNCHANGED rows
  <2>1. requests' \in [Sent -> Request] /\ requests'[id] = new
        /\ \A i \in Sent : i # id => requests'[i] = requests[i]
    <3> HIDE DEF new
    <3> QED BY <1>1, <1>2, <1>6
  <2>2. Sent' = Sent BY <2>1 DEF Sent
  <2> QED BY <1>1, <1>2, <1>4, <1>6, <2>1, <2>2
<1> QED BY <1>3, <1>5, <1>6

LEMMA RequestStep ==
  ASSUME Types, [Next]_vars
  PROVE  RequestT' /\ Keeps
<1>0. /\ RequestT /\ requests \in [Sent -> Request] /\ rows \in [Sent -> Statuses \cup {None}]
      /\ writes \subseteq Sent \X Statuses
  BY DEF Types, RequestT
<1>n. PICK n \in Nat : Sent = 1 .. n /\ n <= MaxRequests BY <1>0 DEF RequestT
<1>b. boot = Unread \/ boot \subseteq Sent BY <1>0 DEF RequestT
\* The list of challenges stays as long as it is.
<1>s. ASSUME Sent' = Sent, requests' \in [Sent -> Request],
             \A id \in Sent : /\ requests'[id].from = requests[id].from
                              /\ requests'[id].to = requests[id].to,
             rows' \in [Sent -> Statuses \cup {None}],
             writes' \subseteq Sent \X Statuses, boot' = Unread \/ boot' \subseteq Sent
      PROVE  RequestT' /\ Keeps
  BY <1>n, <1>s DEF RequestT, Keeps
<1>u. ASSUME UNCHANGED requestVars PROVE RequestT' /\ Keeps
  <2>1. requests' = requests /\ rows' = rows /\ writes' = writes /\ boot' = boot
    BY <1>u DEF requestVars
  <2>2. Sent' = Sent BY <2>1 DEF Sent
  <2> QED BY <1>0, <1>b, <1>s, <2>1, <2>2
<1>1. CASE SessionActs
  BY <1>1, <1>u DEF SessionActs, handleEnterRoom, sweepStalePresence, Login, SessionReady,
                    handleDisconnect, ClosedSessionReady
<1>2. CASE FightActs
  BY <1>2, <1>u DEF FightActs, FightCreated, FightNotCreated, finishFight
<1>3. ASSUME NEW wr \in writes, WriteLands(wr) \/ WriteFails(wr) PROVE RequestT' /\ Keeps
  <2>1. wr[1] \in Sent /\ wr[2] \in Statuses BY <1>0
  <2>2. requests' = requests /\ boot' = boot /\ writes' = writes \ {wr}
        /\ (rows' = rows \/ rows' = [rows EXCEPT ![wr[1]] = wr[2]])
    BY <1>3 DEF WriteLands, WriteFails
  <2>3. rows' \in [Sent -> Statuses \cup {None}] BY <1>0, <2>1, <2>2
  <2>4. Sent' = Sent BY <2>2 DEF Sent
  <2> QED BY <1>0, <1>b, <1>s, <2>2, <2>3, <2>4
<1>4. CASE rehydratePendingFromDb \/ RehydrationFails
  <2>1. requests' = requests /\ rows' = rows /\ writes' = writes /\ boot' \subseteq Sent
    BY <1>4 DEF rehydratePendingFromDb, RehydrationFails
  <2>2. Sent' = Sent BY <2>1 DEF Sent
  <2> QED BY <1>0, <1>s, <2>1, <2>2
<1>5. ASSUME NEW id \in Sent, RehydrateRow(id) PROVE RequestT' /\ Keeps
  <2>1. boot' \subseteq Sent BY <1>b, <1>5, RehydrateEffect DEF Types, Unread
  <2>2. /\ requests' \in [Sent -> Request] /\ Sent' = Sent
        /\ rows' \in [Sent -> Statuses \cup {None}] /\ writes' = writes
        /\ \A i \in Sent : i # id => requests'[i] = requests[i]
    BY <1>5, RehydrateEffect
  <2>3. \/ requests'[id] = requests[id]
        \/ requests'[id] = [from |-> requests[id].from, to |-> requests[id].to,
                            status |-> "pending"]
    BY <1>5, RehydrateEffect
  <2>4. requests'[id].from = requests[id].from /\ requests'[id].to = requests[id].to BY <2>3
  <2>5. \A i \in Sent : requests'[i].from = requests[i].from /\ requests'[i].to = requests[i].to
    BY <2>2, <2>4
  <2> QED BY <1>0, <1>s, <2>1, <2>2, <2>5
<1>6. CASE Restart
  <2>1. /\ requests' \in [Sent -> Request] /\ Sent' = Sent
        /\ \A id \in Sent : requests'[id] = [from |-> requests[id].from, to |-> requests[id].to,
                                             status |-> None]
        /\ boot' = Unread /\ rows' = rows /\ writes' = writes
    BY <1>6, RestartEffect
  <2>2. \A id \in Sent : /\ requests'[id].from = requests[id].from
                         /\ requests'[id].to = requests[id].to
    BY <2>1
  <2> QED BY <1>0, <1>s, <2>1, <2>2
<1>7. ASSUME NEW from \in Wallets, NEW to \in Wallets, createRequest(from, to)
      PROVE  RequestT' /\ Keeps
  <2>1. PICK id \in Ids : /\ Sent' = Sent \cup {id} /\ Sent \cup {id} = 1 .. id
                          /\ requests' \in [Sent' -> Request]
                          /\ rows' \in [Sent' -> Statuses \cup {None}]
                          /\ \A i \in Sent : requests'[i] = requests[i]
                          /\ writes' = writes \cup {<<id, "pending">>}
    BY <1>7, CreateEffect
  <2>2. id \in Nat /\ id <= MaxRequests BY TavernAssumption DEF Ids
  <2>3. boot' = boot BY <1>7 DEF createRequest
  <2>4. writes' \subseteq Sent' \X Statuses BY <1>0, <2>1 DEF Statuses
  <2>5. RequestT' BY <1>b, <2>1, <2>2, <2>3, <2>4 DEF RequestT, Unread
  <2>6. Keeps BY <2>1 DEF Keeps
  <2> QED BY <2>5, <2>6
<1>8. ASSUME NEW id \in Sent, NEW status \in Statuses, Transition(id, status)
      PROVE  RequestT' /\ Keeps
  <2>1. /\ requests' \in [Sent -> Request] /\ Sent' = Sent
        /\ requests'[id] = [from |-> requests[id].from, to |-> requests[id].to,
                            status |-> status]
        /\ \A i \in Sent : i # id => requests'[i] = requests[i]
        /\ writes' = writes \cup {<<id, status>>} /\ rows' = rows /\ boot' = boot
    BY <1>8, TransitionEffect
  <2>2. requests'[id].from = requests[id].from /\ requests'[id].to = requests[id].to BY <2>1
  <2>3. \A i \in Sent : requests'[i].from = requests[i].from /\ requests'[i].to = requests[i].to
    BY <2>1, <2>2
  <2>4. writes' \subseteq Sent \X Statuses BY <1>0, <2>1
  <2> QED BY <1>0, <1>b, <1>s, <2>1, <2>3, <2>4
<1>9. CASE \E id \in Sent : \/ \E w \in Wallets : Refuse(w, id)
                            \/ sweepExpired(id) \/ \E kind \in Kinds : Accept(id, kind)
  <2>1. \E id \in Sent : Transition(id, "over") \/ Transition(id, "accepted")
    BY <1>9 DEF Refuse, sweepExpired, Accept
  <2> QED BY <1>8, <2>1 DEF Statuses
<1>10. CASE UNCHANGED vars BY <1>10, <1>u DEF vars, requestVars
<1> QED
  BY <1>1, <1>2, <1>3, <1>4, <1>5, <1>6, <1>7, <1>9, <1>10, NextCases DEF DatabaseActs

(***************************************************************************)
(* Sessions and fights: their types                                        *)
(***************************************************************************)
LEMMA ReseatedEffect ==
  ASSUME Types, NEW w \in Wallets, NEW c \in Session \cup {None}
  PROVE  \/ Reseated(c, w) = c
         \/ /\ c \in Session /\ grace[w] \in fights
            /\ Reseated(c, w) = [ready |-> c.ready, entered |-> c.entered, seat |-> grace[w]]
            /\ Reseated(c, w) \in Session
<1>1. CASE grace[w] \in fights /\ c # None
  <2> DEFINE g == grace[w]
  <2>1. c \in Session /\ g \in Seats BY <1>1 DEF Types, FightT
  <2>2. [c EXCEPT !.seat = g] = [ready |-> c.ready, entered |-> c.entered, seat |-> g]
        /\ [c EXCEPT !.seat = g] \in Session
    <3> HIDE DEF g
    <3> QED BY <2>1 DEF Session
  <2>3. Reseated(c, w) = [c EXCEPT !.seat = g] BY <1>1 DEF Reseated
  <2> HIDE DEF g
  <2>4. Reseated(c, w) = [ready |-> c.ready, entered |-> c.entered, seat |-> g]
        /\ Reseated(c, w) \in Session
    BY <2>2, <2>3
  <2>5. c \in Session /\ g \in fights /\ g = grace[w] BY <1>1, <2>1 DEF g
  <2> QED BY <2>4, <2>5
<1>2. CASE ~(grace[w] \in fights /\ c # None) BY <1>2 DEF Reseated
<1> QED BY <1>1, <1>2

LEMMA OrphanedTyped ==
  ASSUME Types, NEW w \in Wallets
  PROVE  Orphaned(w) \subseteq [wallet : Wallets, seat : Seats]
<1>1. client[w] # None => client[w] \in Session BY DEF Types, SessionT
<1> QED BY <1>1 DEF Orphaned, Session

\* What the actions on sessions put into client and presence.
Entered(w) == [ready |-> client[w].ready, entered |-> client[w].ready, seat |-> client[w].seat]
Fresh == [ready |-> FALSE, entered |-> FALSE, seat |-> None]
Ready(w) == [ready |-> TRUE, entered |-> client[w].entered, seat |-> client[w].seat]
Seated(w, seat) ==
  [ready |-> client[w].ready, entered |-> client[w].entered, seat |-> seat]

LEMMA EnterEffect ==
  ASSUME Types, NEW w \in Wallets, handleEnterRoom(w)
  PROVE  /\ client[w] \in Session /\ Entered(w) \in Session
         /\ client' = [client EXCEPT ![w] = Entered(w)]
         /\ presence' = [presence EXCEPT ![w] = [fight |-> client[w].seat]]
         /\ [fight |-> client[w].seat] \in [fight : Seats]
<1>1. client[w] \in Session BY DEF handleEnterRoom, Types, SessionT
<1>2. [client[w] EXCEPT !.entered = client[w].ready] = Entered(w) /\ Entered(w) \in Session
      /\ [fight |-> client[w].seat] \in [fight : Seats]
  BY <1>1 DEF Session, Entered
<1>3. client' = [client EXCEPT ![w] = [client[w] EXCEPT !.entered = client[w].ready]]
      /\ presence' = [presence EXCEPT ![w] = [fight |-> client[w].seat]]
  BY DEF handleEnterRoom, Shown
<1> QED BY <1>1, <1>2, <1>3

LEMMA ReadyEffect ==
  ASSUME Types, NEW w \in Wallets, SessionReady(w)
  PROVE  /\ client[w] \in Session /\ ~client[w].ready /\ Ready(w) \in Session
         /\ client' = [client EXCEPT ![w] = Reseated(Ready(w), w)]
         /\ Reseated(Ready(w), w) \in Session
         /\ presence' = [presence EXCEPT ![w] = [fight |-> client[w].seat]]
         /\ [fight |-> client[w].seat] \in [fight : Seats]
<1>1. client[w] \in Session /\ ~client[w].ready /\ client \in [Wallets -> Session \cup {None}]
  BY DEF SessionReady, Types, SessionT
<1> DEFINE up == [client[w] EXCEPT !.ready = TRUE]
<1>5. client[w].entered \in BOOLEAN /\ client[w].seat \in Seats BY <1>1 DEF Session
<1>6. Ready(w) \in Session /\ [fight |-> client[w].seat] \in [fight : Seats]
  BY <1>5 DEF Session, Ready
<1>7. up = Ready(w)
  <2>1. \A t \in BOOLEAN : [client[w] EXCEPT !.ready = t] =
          [ready |-> t, entered |-> client[w].entered, seat |-> client[w].seat]
    BY <1>1 DEF Session
  <2>2. TRUE \in BOOLEAN OBVIOUS
  <2> QED BY <2>1, <2>2 DEF Ready
<1>2. up = Ready(w) /\ Ready(w) \in Session /\ [fight |-> client[w].seat] \in [fight : Seats]
  BY <1>6, <1>7
<1>3. client' = [client EXCEPT ![w] = Reseated(up, w)]
      /\ presence' = [presence EXCEPT ![w] = [fight |-> client[w].seat]]
  BY <1>1 DEF SessionReady, Shown
<1>4. Reseated(Ready(w), w) \in Session BY <1>2, ReseatedEffect
<1> HIDE DEF up
<1> QED BY <1>1, <1>2, <1>3, <1>4

LEMMA GivenSeats ==
  ASSUME Types, NEW P \in SUBSET Wallets, NEW seat \in Seats,
         client' = [w \in Wallets |-> IF w \in P /\ client[w] # None
                                      THEN [client[w] EXCEPT !.seat = seat] ELSE client[w]]
  PROVE  /\ client' \in [Wallets -> Session \cup {None}]
         /\ \A w \in Wallets : client'[w] = IF w \in P /\ client[w] # None THEN Seated(w, seat)
                                            ELSE client[w]
<1>1. client \in [Wallets -> Session \cup {None}] BY DEF Types, SessionT
<1>2. ASSUME NEW w \in Wallets, client[w] # None
      PROVE  [client[w] EXCEPT !.seat = seat] = Seated(w, seat) /\ Seated(w, seat) \in Session
  <2>1. client[w] \in Session BY <1>1, <1>2
  <2> QED BY <2>1 DEF Session, Seated
<1>3. ASSUME NEW w \in Wallets
      PROVE  /\ client'[w] \in Session \cup {None}
             /\ client'[w] = IF w \in P /\ client[w] # None THEN Seated(w, seat) ELSE client[w]
  <2>1. client'[w] = IF w \in P /\ client[w] # None
                     THEN [client[w] EXCEPT !.seat = seat] ELSE client[w]
    OBVIOUS
  <2>2. client[w] \in Session \cup {None} BY <1>1
  <2>3. CASE w \in P /\ client[w] # None BY <1>2, <2>1, <2>3
  <2>4. CASE ~(w \in P /\ client[w] # None) BY <2>1, <2>2, <2>4
  <2> QED BY <2>3, <2>4
<1>4. client' \in [Wallets -> Session \cup {None}] BY <1>3
<1> QED BY <1>3, <1>4

LEMMA PlayersKnown ==
  ASSUME Types, NEW id \in Sent
  PROVE  Players(id) \subseteq Wallets
<1>1. requests[id] \in Request BY DEF Types, RequestT
<1> QED BY <1>1 DEF Players, Request

LEMMA SeatsStay ==
  ASSUME Keeps
  PROVE  /\ Seats \subseteq Seats' /\ Session \subseteq Session'
         /\ [fight : Seats] \subseteq [fight : Seats]'
         /\ [wallet : Wallets, seat : Seats] \subseteq [wallet : Wallets, seat : Seats]'
BY DEF Keeps, Seats, Session

LEMMA SessionStep ==
  ASSUME Types, [Next]_vars
  PROVE  SessionT'
<1> DEFINE Clients == [Wallets -> Session \cup {None}]
           Shows == [Wallets -> [fight : Seats] \cup {None}]
           Closed == SUBSET [wallet : Wallets, seat : Seats]
<1>0. client \in Clients /\ presence \in Shows /\ closed \in Closed /\ loaded \subseteq Wallets
  BY DEF Types, SessionT
<1>k. Keeps BY RequestStep
\* The seats there were are enough for what the step gives out.
<1>s. ASSUME client' \in Clients, presence' \in Shows, closed' \in Closed, loaded' \subseteq Wallets
      PROVE  SessionT'
  <2>1. /\ Session \subseteq Session' /\ [fight : Seats] \subseteq [fight : Seats]'
        /\ [wallet : Wallets, seat : Seats] \subseteq [wallet : Wallets, seat : Seats]'
    BY <1>k, SeatsStay
  <2>2. client' \in [Wallets -> Session' \cup {None}] BY <1>s, <2>1
  <2>3. presence' \in [Wallets -> [fight : Seats]' \cup {None}] BY <1>s, <2>1
  <2>4. closed' \subseteq [wallet : Wallets, seat : Seats]' BY <1>s, <2>1
  <2> QED BY <1>s, <2>2, <2>3, <2>4 DEF SessionT
<1>c. ASSUME NEW w \in Wallets PROVE closed \cup Orphaned(w) \in Closed BY <1>0, OrphanedTyped
<1>p. ASSUME NEW w \in Wallets, NEW show \in [fight : Seats] \cup {None}
      PROVE  [presence EXCEPT ![w] = show] \in Shows
  BY <1>0
<1>m. ASSUME NEW w \in Wallets, NEW c \in Session \cup {None}
      PROVE  [client EXCEPT ![w] = c] \in Clients
  BY <1>0
<1>n. ASSUME NEW f \in Seats PROVE [fight |-> f] \in [fight : Seats] OBVIOUS
<1>1. CASE SessionActs
  <2>1. ASSUME NEW w \in Wallets, handleEnterRoom(w) PROVE SessionT'
    <3>1. client' \in Clients /\ presence' \in Shows BY <1>m, <1>p, <2>1, EnterEffect
    <3>2. closed' = closed /\ loaded' = loaded BY <2>1 DEF handleEnterRoom
    <3> QED BY <1>0, <1>s, <3>1, <3>2
  <2>2. ASSUME NEW w \in Wallets, sweepStalePresence(w) PROVE SessionT'
    <3>1. presence' \in Shows BY <1>p, <2>2 DEF sweepStalePresence
    <3>2. client' = client /\ closed' = closed /\ loaded' = loaded
      BY <2>2 DEF sweepStalePresence, sessionVars
    <3> QED BY <1>0, <1>s, <3>1, <3>2
  <2>3. ASSUME NEW w \in Wallets, Login(w) PROVE SessionT'
    <3>1. Fresh \in Session BY DEF Fresh, Session, Seats
    <3>2. client' = [client EXCEPT ![w] = Fresh] /\ closed' = closed \cup Orphaned(w)
          /\ presence' = presence /\ loaded' = loaded
      BY <2>3 DEF Login, Fresh
    <3>3. client' \in Clients /\ closed' \in Closed BY <1>m, <1>c, <3>1, <3>2
    <3> QED BY <1>0, <1>s, <3>2, <3>3
  <2>4. ASSUME NEW w \in Wallets, SessionReady(w) PROVE SessionT'
    <3>1. client' \in Clients /\ presence' \in Shows BY <1>m, <1>p, <2>4, ReadyEffect
    <3>2. closed' = closed /\ loaded' \subseteq Wallets BY <1>0, <2>4 DEF SessionReady
    <3> QED BY <1>0, <1>s, <3>1, <3>2
  <2>5. ASSUME NEW w \in Wallets, handleDisconnect(w) PROVE SessionT'
    <3>1. /\ client' = [client EXCEPT ![w] = None] /\ closed' = closed \cup Orphaned(w)
          /\ presence' = [presence EXCEPT ![w] = None] /\ loaded' = loaded
      BY <2>5 DEF handleDisconnect
    <3>2. client' \in Clients /\ closed' \in Closed /\ presence' \in Shows
      BY <1>m, <1>c, <1>p, <3>1
    <3> QED BY <1>0, <1>s, <3>1, <3>2
  <2>6. ASSUME NEW s \in closed, ClosedSessionReady(s) PROVE SessionT'
    <3>1. s \in [wallet : Wallets, seat : Seats] BY <1>0
    <3>2. s.wallet \in Wallets /\ s.seat \in Seats BY <3>1
    <3>3. /\ client' = [client EXCEPT ![s.wallet] = Reseated(client[s.wallet], s.wallet)]
          /\ presence' = [presence EXCEPT ![s.wallet] = [fight |-> s.seat]]
          /\ closed' \subseteq closed /\ loaded' = loaded \cup {s.wallet}
      BY <1>0, <2>6, <3>2 DEF ClosedSessionReady, Shown
    <3>4. client[s.wallet] \in Session \cup {None} BY <1>0, <3>2
    <3>5. Reseated(client[s.wallet], s.wallet) \in Session \cup {None}
      BY <3>2, <3>4, ReseatedEffect
    <3>6. client' \in Clients BY <1>m, <3>2, <3>3, <3>5
    <3>7. presence' \in Shows BY <1>n, <1>p, <3>2, <3>3
    <3>8. closed' \in Closed /\ loaded' \subseteq Wallets BY <1>0, <3>2, <3>3
    <3> QED BY <1>s, <3>6, <3>7, <3>8
  <2> QED BY <1>1, <2>1, <2>2, <2>3, <2>4, <2>5, <2>6 DEF SessionActs
<1>2. CASE FightActs
  <2>1. ASSUME NEW id \in starting, FightCreated(id) PROVE SessionT'
    <3>1. id \in Sent /\ id \in Seats BY <2>1 DEF Types, FightT, Seats
    <3>2. Players(id) \in SUBSET Wallets BY <3>1, PlayersKnown
    <3>3. client' \in Clients BY <2>1, <3>1, <3>2, GivenSeats DEF FightCreated
    <3>4. presence' = [w \in Wallets |-> IF w \in Players(id) THEN [fight |-> id] ELSE presence[w]]
          /\ closed' = closed /\ loaded' = loaded
      BY <2>1 DEF FightCreated, Shown
    <3>5. presence' \in Shows BY <1>0, <1>n, <3>1, <3>4
    <3> QED BY <1>0, <1>s, <3>3, <3>4, <3>5
  <2>2. ASSUME NEW id \in fights, finishFight(id) PROVE SessionT'
    <3>1. id \in Sent /\ None \in Seats BY <2>2 DEF Types, FightT, Seats
    <3>2. Players(id) \in SUBSET Wallets BY <3>1, PlayersKnown
    <3>3. client' \in Clients BY <2>2, <3>1, <3>2, GivenSeats DEF finishFight
    <3>4. presence' = [w \in Wallets |-> IF w \in Players(id) THEN [fight |-> None] ELSE presence[w]]
          /\ closed' = closed /\ loaded' = loaded
      BY <2>2 DEF finishFight, Shown
    <3>5. presence' \in Shows BY <1>0, <1>n, <3>1, <3>4
    <3> QED BY <1>0, <1>s, <3>3, <3>4, <3>5
  <2>3. ASSUME NEW id \in starting, FightNotCreated(id) PROVE SessionT'
    <3>1. client' = client /\ presence' = presence /\ closed' = closed /\ loaded' = loaded
      BY <2>3 DEF FightNotCreated, sessionVars
    <3> QED BY <1>0, <1>s, <3>1
  <2> QED BY <1>2, <2>1, <2>2, <2>3 DEF FightActs
<1>3. CASE Restart
  <2>1. /\ client' = [w \in Wallets |-> None] /\ presence' = [w \in Wallets |-> None]
        /\ closed' = {} /\ loaded' = {}
    BY <1>3 DEF Restart
  <2> QED BY <1>s, <2>1
<1>u. ASSUME client' = client, presence' = presence, closed' = closed, loaded' = loaded
      PROVE  SessionT'
  BY <1>0, <1>s, <1>u
<1>4. CASE DatabaseActs
  <2>1. client' = client /\ presence' = presence /\ closed' = closed /\ loaded' = loaded
    BY <1>4 DEF DatabaseActs, WriteLands, WriteFails, RehydrateRow, rehydratePendingFromDb,
                RehydrationFails, sessionVars
  <2> QED BY <1>u, <2>1
<1>5. CASE \/ \E w \in Wallets, to \in Wallets : createRequest(w, to)
           \/ \E w \in Wallets, id \in Sent : Refuse(w, id)
           \/ \E id \in Sent : sweepExpired(id) \/ \E kind \in Kinds : Accept(id, kind)
  <2>1. client' = client /\ presence' = presence /\ closed' = closed /\ loaded' = loaded
    BY <1>5 DEF createRequest, Refuse, sweepExpired, Accept, Transition, sessionVars
  <2> QED BY <1>u, <2>1
<1>6. CASE UNCHANGED vars BY <1>6, <1>u DEF vars
<1> QED BY <1>1, <1>2, <1>3, <1>4, <1>5, <1>6, NextCases

LEMMA FightStep ==
  ASSUME Types, [Next]_vars
  PROVE  FightT'
<1>0. starting \subseteq Sent /\ fights \subseteq Sent /\ grace \in [Wallets -> Seats]
  BY DEF Types, FightT
<1>s. ASSUME starting' \subseteq Sent, fights' \subseteq Sent, grace' \in [Wallets -> Seats]
      PROVE  FightT'
  <2>1. Keeps BY RequestStep
  <2>2. Seats \subseteq Seats' /\ Sent \subseteq Sent' BY <2>1, SeatsStay DEF Keeps
  <2> QED BY <1>s, <2>2 DEF FightT
<1>n. None \in Seats /\ Sent \subseteq Seats BY DEF Seats
<1>u. ASSUME UNCHANGED fightVars PROVE FightT'
  BY <1>0, <1>s, <1>u DEF fightVars
<1>1. CASE SessionActs
  <2>1. ASSUME NEW w \in Wallets, handleEnterRoom(w) \/ sweepStalePresence(w) \/ Login(w)
        PROVE  FightT'
    BY <1>u, <2>1 DEF handleEnterRoom, sweepStalePresence, Login
  <2>2. ASSUME NEW w \in Wallets, SessionReady(w) PROVE FightT'
    <3>1. grace' = [grace EXCEPT ![w] = None] /\ starting' = starting /\ fights' = fights
      BY <2>2 DEF SessionReady
    <3> QED BY <1>0, <1>n, <1>s, <3>1
  <2>3. ASSUME NEW s \in closed, ClosedSessionReady(s) PROVE FightT'
    <3>1. grace' = [grace EXCEPT ![s.wallet] = None] /\ starting' = starting /\ fights' = fights
      BY <2>3 DEF ClosedSessionReady
    <3>2. s.wallet \in Wallets BY <2>3 DEF Types, SessionT
    <3> QED BY <1>0, <1>n, <1>s, <3>1, <3>2
  <2>4. ASSUME NEW w \in Wallets, handleDisconnect(w) PROVE FightT'
    <3>1. /\ starting' = starting /\ fights' = fights
          /\ grace' = grace \/ \E f \in fights : grace' = [grace EXCEPT ![w] = f]
      BY <2>4 DEF handleDisconnect
    <3>2. grace' \in [Wallets -> Seats] BY <1>0, <1>n, <3>1
    <3> QED BY <1>0, <1>s, <3>1, <3>2
  <2> QED BY <1>1, <2>1, <2>2, <2>3, <2>4 DEF SessionActs
<1>2. CASE FightActs
  <2>1. /\ starting' \subseteq Sent /\ fights' \subseteq Sent
        /\ \/ grace' = grace
           \/ \E id \in fights :
                grace' = [w \in Wallets |-> IF grace[w] = id THEN None ELSE grace[w]]
    BY <1>0, <1>2 DEF FightActs, FightCreated, FightNotCreated, finishFight
  <2>2. grace' \in [Wallets -> Seats] BY <1>0, <1>n, <2>1
  <2> QED BY <1>s, <2>1, <2>2
<1>3. CASE Restart
  <2>1. starting' = {} /\ fights' = {} /\ grace' = [w \in Wallets |-> None] BY <1>3 DEF Restart
  <2> QED BY <1>n, <1>s, <2>1
<1>4. CASE DatabaseActs
  BY <1>4, <1>u DEF DatabaseActs, WriteLands, WriteFails, RehydrateRow, rehydratePendingFromDb,
                    RehydrationFails
<1>5. CASE \/ \E w \in Wallets, to \in Wallets : createRequest(w, to)
           \/ \E w \in Wallets, id \in Sent : Refuse(w, id)
           \/ \E id \in Sent : sweepExpired(id)
  BY <1>5, <1>u DEF createRequest, Refuse, sweepExpired
<1>6. CASE \E id \in Sent, kind \in Kinds : Accept(id, kind)
  <2>1. starting' \subseteq Sent /\ fights' = fights /\ grace' = grace
    BY <1>0, <1>6 DEF Accept
  <2> QED BY <1>0, <1>s, <2>1
<1>7. CASE UNCHANGED vars BY <1>7, <1>u DEF vars, fightVars
<1> QED BY <1>1, <1>2, <1>3, <1>4, <1>5, <1>6, <1>7, NextCases

LEMMA TypesStep == Types /\ [Next]_vars => Types'
BY RequestStep, SessionStep, FightStep, PastStep DEF Types

LEMMA TypesImplyTypeOK == Types => TypeOK
<1> SUFFICES ASSUME Types PROVE TypeOK OBVIOUS
<1>1. \A w \in Wallets :
        /\ client[w] = None \/ client[w] \in [ready : BOOLEAN, entered : BOOLEAN,
                                              seat : Sent \cup {None}]
        /\ presence[w] = None \/ presence[w] \in [fight : Sent \cup {None}]
  BY DEF Types, SessionT, Session, Seats
<1>2. closed \subseteq [wallet : Wallets, seat : Sent \cup {None}] /\ loaded \subseteq Wallets
  BY DEF Types, SessionT, Seats
<1>3. \A id \in Sent : requests[id] \in [from : Wallets, to : Wallets,
                                         status : Statuses \cup {None}]
  BY DEF Types, RequestT, Request
<1>4. /\ DOMAIN rows = Sent /\ \A id \in Sent : rows[id] \in Statuses \cup {None}
      /\ writes \subseteq Sent \X Statuses /\ boot \subseteq Sent \cup Unread
  BY DEF Types, RequestT
<1>5. starting \subseteq Sent /\ fights \subseteq Sent
      /\ \A w \in Wallets : grace[w] \in Sent \cup {None}
  BY DEF Types, FightT, Seats
<1> QED BY <1>1, <1>2, <1>3, <1>4, <1>5 DEF TypeOK

LEMMA TypesHold == Spec => []Types
<1> QED BY TypesInit, TypesStep, PTL DEF Spec

\* Sessions, presence, challenges, their rows and the fights have the values the
\* code gives them: a seat, a row and a write are of a challenge that was sent.
THEOREM TypeCorrect == Spec => []TypeOK
BY TypesHold, TypesImplyTypeOK, PTL

(***************************************************************************)
(* Who is shown in a fight.  A seat is in a running fight of its player, a *)
(* grace period is for a running fight of the player that is missed, and   *)
(* only a session that is ready has entered a room.                        *)
(***************************************************************************)
SeatIn(w) ==
  client[w] # None =>
    /\ client[w].seat # None => client[w].seat \in fights /\ w \in Players(client[w].seat)
    /\ client[w].entered => client[w].ready
GraceIn(w) == grace[w] # None => grace[w] \in fights /\ w \in Players(grace[w])
SeatInv == \A w \in Wallets : SeatIn(w) /\ GraceIn(w)

\* What the challenges on record say of their players stays so.
LEMMA PlayersStay ==
  ASSUME Types, [Next]_vars
  PROVE  \A id \in Sent : Players(id)' = Players(id)
BY RequestStep DEF Keeps, Players

LEMMA SeatStep ==
  ASSUME Types, SeatInv, [Next]_vars
  PROVE  SeatInv'
<1>0. /\ client \in [Wallets -> Session \cup {None}] /\ grace \in [Wallets -> Seats]
      /\ fights \subseteq Sent /\ starting \subseteq Sent /\ None \notin Sent
  BY SentFacts DEF Types, SessionT, FightT
<1>p. \A id \in Sent : Players(id)' = Players(id) BY PlayersStay
\* A player whose session, grace period and fight are left alone.
<1>c. ASSUME NEW w \in Wallets, client'[w] = client[w],
             client[w] # None /\ client[w].seat \in fights => client[w].seat \in fights'
      PROVE  SeatIn(w)'
  BY <1>0, <1>p, <1>c DEF SeatInv, SeatIn
<1>g. ASSUME NEW w \in Wallets,
             \/ grace'[w] = None
             \/ /\ grace'[w] = grace[w]
                /\ grace[w] \in fights => grace[w] \in fights'
      PROVE  GraceIn(w)'
  BY <1>0, <1>p, <1>g DEF SeatInv, GraceIn, Seats
<1>u. ASSUME client' = client, grace' = grace, fights \subseteq fights' PROVE SeatInv'
  BY <1>c, <1>g, <1>u DEF SeatInv
\* A grace period becomes a seat when the player is back.
<1>r. ASSUME NEW w \in Wallets, NEW c \in Session \cup {None}, client'[w] = Reseated(c, w),
             fights' = fights,
             c # None => /\ c.seat # None => c.seat \in fights /\ w \in Players(c.seat)
                         /\ c.entered => c.ready
      PROVE  SeatIn(w)'
  <2>1. CASE Reseated(c, w) = c BY <1>0, <1>p, <1>r, <2>1 DEF SeatIn
  <2>2. CASE /\ c \in Session /\ grace[w] \in fights
             /\ Reseated(c, w) = [ready |-> c.ready, entered |-> c.entered, seat |-> grace[w]]
    <3>1. c # None => (c.entered => c.ready) BY <1>r
    <3>2. PICK g \in fights : g = grace[w] BY <2>2
    <3>3. g \in Sent /\ g # None /\ w \in Players(g) BY <1>0, <3>2 DEF SeatInv, GraceIn
    <3>6. w \in Players(g)' /\ g \in fights' BY <1>p, <1>r, <3>3
    <3>4. client'[w].seat = g /\ client'[w].entered = c.entered /\ client'[w].ready = c.ready
      BY <1>r, <2>2, <3>2
    <3>5. client'[w] # None => (client'[w].entered => client'[w].ready)
      <4>1. CASE c = None BY <1>r, <4>1 DEF Reseated
      <4> QED BY <3>1, <3>4, <4>1
    <3>7. client'[w].seat \in fights' /\ w \in Players(client[w].seat)' BY <3>4, <3>6
    <3> QED BY <3>5, <3>7 DEF SeatIn
  <2> QED BY <1>r, <2>1, <2>2, ReseatedEffect
<1>1. CASE SessionActs
  <2>1. ASSUME NEW w \in Wallets, handleEnterRoom(w) PROVE SeatInv'
    <3>1. client[w] \in Session /\ client' = [client EXCEPT ![w] = Entered(w)] BY <2>1, EnterEffect
    <3>2. grace' = grace /\ fights' = fights BY <2>1 DEF handleEnterRoom, fightVars
    <3>3. client'[w].seat = client[w].seat /\ client'[w].entered = client[w].ready
          /\ client'[w].ready = client[w].ready
      BY <1>0, <3>1 DEF Entered
    <3>4. SeatIn(w)'
      <4>1. client[w].seat # None => client[w].seat \in fights /\ w \in Players(client[w].seat)
        BY <2>1 DEF SeatInv, SeatIn, handleEnterRoom
      <4>2. ASSUME NEW f, f = client'[w].seat, f # None PROVE f \in fights' /\ w \in Players(f)'
        <5>1. f \in fights /\ w \in Players(f) BY <3>3, <4>1, <4>2
        <5> QED BY <1>0, <1>p, <3>2, <5>1
      <4>3. client'[w].entered => client'[w].ready BY <3>3
      <4> QED BY <4>2, <4>3 DEF SeatIn
    <3>5. \A x \in Wallets : x # w => SeatIn(x)' BY <1>0, <1>c, <3>1, <3>2
    <3> QED BY <1>g, <3>2, <3>4, <3>5 DEF SeatInv
  <2>2. ASSUME NEW w \in Wallets, sweepStalePresence(w) PROVE SeatInv'
    BY <1>u, <2>2 DEF sweepStalePresence, sessionVars, fightVars
  <2>3. ASSUME NEW w \in Wallets, Login(w) PROVE SeatInv'
    <3>1. client' = [client EXCEPT ![w] = Fresh] /\ grace' = grace /\ fights' = fights
      BY <2>3 DEF Login, fightVars, Fresh
    <3>2. client'[w] = Fresh BY <1>0, <3>1
    <3>3. SeatIn(w)' BY <3>2 DEF SeatIn, Fresh
    <3>4. \A x \in Wallets : x # w => SeatIn(x)' BY <1>0, <1>c, <3>1
    <3> QED BY <1>g, <3>1, <3>3, <3>4 DEF SeatInv
  <2>4. ASSUME NEW w \in Wallets, SessionReady(w) PROVE SeatInv'
    <3>1. /\ client[w] \in Session /\ Ready(w) \in Session
          /\ client' = [client EXCEPT ![w] = Reseated(Ready(w), w)]
      BY <2>4, ReadyEffect
    <3>2. grace' = [grace EXCEPT ![w] = None] /\ fights' = fights BY <2>4 DEF SessionReady
    <3>3. Ready(w).ready /\ Ready(w).seat = client[w].seat BY DEF Ready
    <3>4. client[w] # None BY <2>4 DEF SessionReady
    <3>5. SeatIn(w)'
      <4>1. Ready(w).seat # None => Ready(w).seat \in fights /\ w \in Players(Ready(w).seat)
        BY <3>3, <3>4 DEF SeatInv, SeatIn
      <4>2. client'[w] = Reseated(Ready(w), w) BY <1>0, <3>1
      <4> QED BY <1>r, <3>1, <3>2, <3>3, <4>1, <4>2
    <3>6. \A x \in Wallets : x # w => SeatIn(x)' BY <1>0, <1>c, <3>1, <3>2
    <3>7. \A x \in Wallets : GraceIn(x)' BY <1>0, <1>g, <3>2
    <3> QED BY <3>5, <3>6, <3>7 DEF SeatInv
  <2>5. ASSUME NEW s \in closed, ClosedSessionReady(s) PROVE SeatInv'
    <3>1. s.wallet \in Wallets BY <2>5 DEF Types, SessionT
    <3> DEFINE w == s.wallet
    <3>2. /\ client' = [client EXCEPT ![w] = Reseated(client[w], w)]
          /\ grace' = [grace EXCEPT ![w] = None] /\ fights' = fights
      BY <1>0, <2>5, <3>1 DEF ClosedSessionReady
    <3> HIDE DEF w
    <3>3. w \in Wallets BY <3>1 DEF w
    <3>4. client'[w] = Reseated(client[w], w) /\ client[w] \in Session \cup {None}
      BY <1>0, <3>2, <3>3
    <3>5. SeatIn(w)' BY <1>r, <3>2, <3>3, <3>4 DEF SeatInv, SeatIn
    <3>6. \A x \in Wallets : x # w => SeatIn(x)' BY <1>0, <1>c, <3>2
    <3>7. \A x \in Wallets : GraceIn(x)' BY <1>0, <1>g, <3>2
    <3> QED BY <3>5, <3>6, <3>7 DEF SeatInv
  <2>6. ASSUME NEW w \in Wallets, handleDisconnect(w) PROVE SeatInv'
    <3>1. /\ client' = [client EXCEPT ![w] = None] /\ fights' = fights
          /\ \/ grace' = grace
             \/ \E f \in fights : w \in Players(f) /\ grace' = [grace EXCEPT ![w] = f]
      BY <2>6 DEF handleDisconnect
    <3>2. \A x \in Wallets : SeatIn(x)'
      <4>1. SeatIn(w)' BY <1>0, <3>1 DEF SeatIn
      <4>2. \A x \in Wallets : x # w => SeatIn(x)' BY <1>0, <1>c, <3>1
      <4> QED BY <4>1, <4>2
    <3>3. CASE grace' = grace
      <4>1. fights' = fights BY <3>1
      <4>2. \A x \in Wallets : GraceIn(x)' BY <1>g, <3>3, <4>1
      <4> QED BY <3>2, <4>2 DEF SeatInv
    <3>4. ASSUME NEW f \in fights, w \in Players(f), grace' = [grace EXCEPT ![w] = f]
          PROVE  SeatInv'
      <4>0. fights' = fights BY <3>1
      <4>1. f \in fights' /\ w \in Players(f)' BY <1>0, <1>p, <3>4, <4>0
      <4>2. GraceIn(w)'
        <5>1. grace'[w] = f BY <1>0, <3>4
        <5> QED BY <4>1, <5>1 DEF GraceIn
      <4>3. \A x \in Wallets : x # w => GraceIn(x)' BY <1>0, <1>g, <3>4, <4>0
      <4> QED BY <3>2, <4>2, <4>3 DEF SeatInv
    <3> QED BY <3>1, <3>3, <3>4
  <2> QED BY <1>1, <2>1, <2>2, <2>3, <2>4, <2>5, <2>6 DEF SessionActs
<1>2. CASE FightActs
  <2>1. ASSUME NEW id \in starting, FightCreated(id) PROVE SeatInv'
    <3>1. id \in Sent /\ id \in Seats /\ id # None BY <1>0, <2>1 DEF Seats
    <3>2. Players(id) \in SUBSET Wallets BY <3>1, PlayersKnown
    <3>3. grace' = grace /\ fights' = fights \cup {id} BY <2>1 DEF FightCreated
    <3>4. \A w \in Wallets : client'[w] = IF w \in Players(id) /\ client[w] # None
                                          THEN Seated(w, id) ELSE client[w]
      BY <2>1, <3>1, <3>2, GivenSeats DEF FightCreated
    <3>5. ASSUME NEW w \in Wallets, w \in Players(id), client[w] # None PROVE SeatIn(w)'
      <4>0. client'[w] = Seated(w, id) BY <3>4, <3>5
      <4>1. /\ client'[w].seat = id /\ client'[w].entered = client[w].entered
            /\ client'[w].ready = client[w].ready
        BY <4>0 DEF Seated
      <4>2. w \in Players(id)' /\ id \in fights' BY <1>p, <3>1, <3>3, <3>5
      <4>3. client[w].entered => client[w].ready BY <3>5 DEF SeatInv, SeatIn
      <4> QED BY <4>1, <4>2, <4>3 DEF SeatIn
    <3>6. ASSUME NEW w \in Wallets, ~(w \in Players(id) /\ client[w] # None) PROVE SeatIn(w)'
      <4>1. client'[w] = client[w] BY <3>4, <3>6
      <4> QED BY <1>c, <3>3, <4>1
    <3> QED BY <1>g, <3>3, <3>5, <3>6 DEF SeatInv
  <2>2. ASSUME NEW id \in fights, finishFight(id) PROVE SeatInv'
    <3>1. id \in Sent /\ None \in Seats BY <1>0, <2>2 DEF Seats
    <3>2. Players(id) \in SUBSET Wallets BY <3>1, PlayersKnown
    <3>3. /\ grace' = [w \in Wallets |-> IF grace[w] = id THEN None ELSE grace[w]]
          /\ fights' = fights \ {id}
      BY <2>2 DEF finishFight
    <3>4. \A w \in Wallets : client'[w] = IF w \in Players(id) /\ client[w] # None
                                          THEN Seated(w, None) ELSE client[w]
      BY <2>2, <3>1, <3>2, GivenSeats DEF finishFight
    <3>5. ASSUME NEW w \in Wallets, w \in Players(id), client[w] # None PROVE SeatIn(w)'
      <4>0. client'[w] = Seated(w, None) BY <3>4, <3>5
      <4>1. /\ client'[w].seat = None /\ client'[w].entered = client[w].entered
            /\ client'[w].ready = client[w].ready
        BY <4>0 DEF Seated
      <4>2. client[w].entered => client[w].ready BY <3>5 DEF SeatInv, SeatIn
      <4> QED BY <4>1, <4>2 DEF SeatIn
    <3>6. ASSUME NEW w \in Wallets, ~(w \in Players(id) /\ client[w] # None) PROVE SeatIn(w)'
      <4>1. client'[w] = client[w] BY <3>4, <3>6
      <4>2. client[w] # None /\ client[w].seat \in fights => client[w].seat # id
        BY <1>0, <3>6 DEF SeatInv, SeatIn
      <4> QED BY <1>c, <3>3, <4>1, <4>2
    <3>7. ASSUME NEW w \in Wallets PROVE GraceIn(w)'
      <4>1. CASE grace[w] = id
        <5>1. grace'[w] = None BY <3>3, <4>1
        <5> QED BY <1>g, <5>1
      <4>2. CASE grace[w] # id
        <5>1. grace'[w] = grace[w] BY <3>3, <4>2
        <5>2. grace[w] \in fights => grace[w] \in fights' BY <3>3, <4>2
        <5> QED BY <1>g, <5>1, <5>2
      <4> QED BY <4>1, <4>2
    <3> QED BY <3>5, <3>6, <3>7 DEF SeatInv
  <2>3. ASSUME NEW id \in starting, FightNotCreated(id) PROVE SeatInv'
    BY <1>u, <2>3 DEF FightNotCreated, sessionVars
  <2> QED BY <1>2, <2>1, <2>2, <2>3 DEF FightActs
<1>3. CASE Restart
  BY <1>3 DEF Restart, SeatInv, SeatIn, GraceIn
<1>4. CASE DatabaseActs
  BY <1>4, <1>u DEF DatabaseActs, WriteLands, WriteFails, RehydrateRow, rehydratePendingFromDb,
                    RehydrationFails, sessionVars, fightVars
<1>5. CASE \/ \E w \in Wallets, to \in Wallets : createRequest(w, to)
           \/ \E w \in Wallets, id \in Sent : Refuse(w, id)
           \/ \E id \in Sent : sweepExpired(id) \/ \E kind \in Kinds : Accept(id, kind)
  BY <1>5, <1>u DEF createRequest, Refuse, sweepExpired, Accept, sessionVars, fightVars
<1>6. CASE UNCHANGED vars BY <1>6, <1>u DEF vars
<1> QED BY <1>1, <1>2, <1>3, <1>4, <1>5, <1>6, NextCases

LEMMA SeatsHold == Spec => []SeatInv
<1>1. Init => SeatInv BY DEF Init, SeatInv, SeatIn, GraceIn
<1>2. Types /\ SeatInv /\ [Next]_vars => SeatInv' BY SeatStep
<1> QED BY <1>1, <1>2, TypesHold, PTL DEF Spec

\* However fights of one player overlap, sockets come and go and fights end,
\* nobody is seated in a fight, or awaited back in one, that is over or is not
\* theirs.
THEOREM NoSeatOutlivesItsFight == Spec => []SeatsAreLive
<1>1. SeatInv => SeatsAreLive BY DEF SeatInv, SeatIn, GraceIn, SeatsAreLive
<1> QED BY <1>1, SeatsHold, PTL

\* What one player's presence says, without the exception.
ShownIn(w) ==
  presence[w] # None =>
    /\ presence[w].fight # None =>
         presence[w].fight \in fights /\ w \in Players(presence[w].fight)
    /\ client[w] # None /\ client[w].entered => presence[w].fight = client[w].seat

LEMMA ShownIsIn ==
  ShownAsFighting <=> ("zombie" \notin past.faults => \A w \in Wallets : ShownIn(w))
BY DEF ShownAsFighting, ShownIn

LEMMA ShownStep ==
  ASSUME Types, SeatInv, \A w \in Wallets : ShownIn(w), [Next]_vars,
         "zombie" \notin past'.faults
  PROVE  \A w \in Wallets : ShownIn(w)'
<1>0. /\ client \in [Wallets -> Session \cup {None}] /\ fights \subseteq Sent
      /\ presence \in [Wallets -> [fight : Seats] \cup {None}]
      /\ starting \subseteq Sent /\ None \notin Sent /\ past \in PastT
  BY SentFacts DEF Types, SessionT, FightT
<1>p. \A id \in Sent : Players(id)' = Players(id) BY PlayersStay
\* A player whose presence is left alone, and whose session keeps its seat or has
\* not entered a room; and one who is not shown.
<1>c. ASSUME NEW w \in Wallets, presence'[w] = presence[w],
             presence[w] # None /\ presence[w].fight \in fights => presence[w].fight \in fights',
             \/ client'[w] = client[w] \/ client'[w] = None \/ ~client'[w].entered
      PROVE  ShownIn(w)'
  <2>1. CASE presence[w] = None BY <1>c, <2>1 DEF ShownIn
  <2>2. CASE presence[w] # None
    <3>1. ASSUME NEW f, f = presence'[w].fight, f # None PROVE f \in fights' /\ w \in Players(f)'
      <4>1. f \in fights /\ w \in Players(f) BY <1>c, <2>2, <3>1 DEF ShownIn
      <4> QED BY <1>0, <1>p, <1>c, <2>2, <3>1, <4>1
    <3>2. client'[w] # None /\ client'[w].entered => presence'[w].fight = client'[w].seat
      BY <1>c, <2>2 DEF ShownIn
    <3> QED BY <3>1, <3>2 DEF ShownIn
  <2> QED BY <2>1, <2>2
<1>n. ASSUME NEW w \in Wallets, presence'[w] = None PROVE ShownIn(w)' BY <1>n DEF ShownIn
<1>u. ASSUME client' = client, presence' = presence, fights \subseteq fights'
      PROVE  \A w \in Wallets : ShownIn(w)'
  BY <1>c, <1>u
\* A player who is shown with a seat given out by this step or one that was held.
<1>g. ASSUME NEW w \in Wallets, NEW f, presence'[w] = [fight |-> f],
             f # None => f \in fights' /\ w \in Players(f)',
             client'[w] = None \/ ~client'[w].entered \/ client'[w].seat = f
      PROVE  ShownIn(w)'
  <2>1. presence'[w].fight = f BY <1>g
  <2> QED BY <1>g, <2>1 DEF ShownIn
<1>h. ASSUME NEW w \in Wallets, client[w] # None, client[w].seat # None, fights' = fights
      PROVE  \A f : f = client[w].seat => f \in fights' /\ w \in Players(f)'
  <2>1. client[w].seat \in fights /\ w \in Players(client[w].seat)
    BY <1>h DEF SeatInv, SeatIn
  <2> QED BY <1>0, <1>p, <1>h, <2>1
<1>1. CASE SessionActs
  <2>1. ASSUME NEW w \in Wallets, handleEnterRoom(w) PROVE \A x \in Wallets : ShownIn(x)'
    <3>1. /\ client' = [client EXCEPT ![w] = Entered(w)] /\ client[w] # None
          /\ presence' = [presence EXCEPT ![w] = [fight |-> client[w].seat]]
          /\ fights' = fights
      BY <2>1, EnterEffect DEF handleEnterRoom, fightVars
    <3>2. client'[w] = Entered(w) /\ presence'[w] = [fight |-> client[w].seat] BY <1>0, <3>1
    <3>3. client'[w].seat = client[w].seat BY <3>2 DEF Entered
    <3>4. ShownIn(w)' BY <1>g, <1>h, <3>1, <3>2, <3>3
    <3>5. \A x \in Wallets : x # w => ShownIn(x)' BY <1>0, <1>c, <3>1
    <3> QED BY <3>4, <3>5
  <2>2. ASSUME NEW w \in Wallets, sweepStalePresence(w) PROVE \A x \in Wallets : ShownIn(x)'
    <3>1. client' = client /\ fights' = fights /\ presence' = [presence EXCEPT ![w] = None]
      BY <2>2 DEF sweepStalePresence, sessionVars, fightVars
    <3> QED BY <1>0, <1>c, <1>n, <3>1
  <2>3. ASSUME NEW w \in Wallets, Login(w) PROVE \A x \in Wallets : ShownIn(x)'
    <3>1. client' = [client EXCEPT ![w] = Fresh] /\ presence' = presence /\ fights' = fights
      BY <2>3 DEF Login, fightVars, Fresh
    <3>2. ~client'[w].entered BY <1>0, <3>1 DEF Fresh
    <3> QED BY <1>0, <1>c, <3>1, <3>2
  <2>4. ASSUME NEW w \in Wallets, SessionReady(w) PROVE \A x \in Wallets : ShownIn(x)'
    <3>1. /\ client[w] \in Session /\ ~client[w].ready /\ Ready(w) \in Session
          /\ client' = [client EXCEPT ![w] = Reseated(Ready(w), w)]
          /\ presence' = [presence EXCEPT ![w] = [fight |-> client[w].seat]]
      BY <2>4, ReadyEffect
    <3>2. fights' = fights /\ client[w] # None BY <2>4 DEF SessionReady
    <3>3. client'[w] = Reseated(Ready(w), w) /\ presence'[w] = [fight |-> client[w].seat]
      BY <1>0, <3>1
    <3>4. ~Ready(w).entered
      <4>1. Ready(w).entered = client[w].entered BY DEF Ready
      <4> QED BY <3>1, <3>2, <4>1 DEF SeatInv, SeatIn
    <3>5. ~client'[w].entered
      <4>1. CASE Reseated(Ready(w), w) = Ready(w) BY <3>3, <3>4, <4>1
      <4>2. CASE Reseated(Ready(w), w) = [ready |-> Ready(w).ready, entered |-> Ready(w).entered,
                                          seat |-> grace[w]]
        BY <3>3, <3>4, <4>2
      <4> QED BY <3>1, <4>1, <4>2, ReseatedEffect
    <3>6. ShownIn(w)' BY <1>g, <1>h, <3>2, <3>3, <3>5
    <3>7. \A x \in Wallets : x # w => ShownIn(x)' BY <1>0, <1>c, <3>1, <3>2
    <3> QED BY <3>6, <3>7
  <2>5. ASSUME NEW s \in closed, ClosedSessionReady(s) PROVE \A x \in Wallets : ShownIn(x)'
    <3>1. Happens({"zombie"}) /\ {"zombie"} \in SUBSET Faults
      BY <2>5, FaultsKnown DEF ClosedSessionReady
    <3>2. past'.faults = past.faults \cup {"zombie"} BY <1>0, <3>1, HappensTyped
    <3> QED BY <3>2
  <2>6. ASSUME NEW w \in Wallets, handleDisconnect(w) PROVE \A x \in Wallets : ShownIn(x)'
    <3>1. /\ client' = [client EXCEPT ![w] = None] /\ fights' = fights
          /\ presence' = [presence EXCEPT ![w] = None]
      BY <2>6 DEF handleDisconnect
    <3> QED BY <1>0, <1>c, <1>n, <3>1
  <2> QED BY <1>1, <2>1, <2>2, <2>3, <2>4, <2>5, <2>6 DEF SessionActs
<1>2. CASE FightActs
  <2>1. ASSUME NEW id \in starting, FightCreated(id) PROVE \A x \in Wallets : ShownIn(x)'
    <3>1. id \in Sent /\ id \in Seats BY <1>0, <2>1 DEF Seats
    <3>2. Players(id) \in SUBSET Wallets BY <3>1, PlayersKnown
    <3>3. /\ fights' = fights \cup {id}
          /\ presence' = [w \in Wallets |-> IF w \in Players(id) THEN [fight |-> id] ELSE presence[w]]
      BY <2>1 DEF FightCreated, Shown
    <3>4. \A w \in Wallets : client'[w] = IF w \in Players(id) /\ client[w] # None
                                          THEN Seated(w, id) ELSE client[w]
      BY <2>1, <3>1, <3>2, GivenSeats DEF FightCreated
    <3>5. ASSUME NEW w \in Wallets, w \in Players(id) PROVE ShownIn(w)'
      <4>1. w \in Players(id)' /\ id \in fights' BY <1>p, <3>1, <3>3, <3>5
      <4>2. client'[w] = None \/ client'[w] = Seated(w, id) BY <3>4, <3>5
      <4>3. client'[w] = None \/ client'[w].seat = id BY <4>2 DEF Seated
      <4> QED BY <1>g, <3>3, <3>5, <4>1, <4>3
    <3>6. ASSUME NEW w \in Wallets, w \notin Players(id) PROVE ShownIn(w)'
      BY <1>c, <3>3, <3>4, <3>6
    <3> QED BY <3>5, <3>6
  <2>2. ASSUME NEW id \in fights, finishFight(id) PROVE \A x \in Wallets : ShownIn(x)'
    <3>1. id \in Sent /\ None \in Seats BY <1>0, <2>2 DEF Seats
    <3>2. Players(id) \in SUBSET Wallets BY <3>1, PlayersKnown
    <3>3. /\ fights' = fights \ {id}
          /\ presence' = [w \in Wallets |-> IF w \in Players(id) THEN [fight |-> None]
                                            ELSE presence[w]]
      BY <2>2 DEF finishFight, Shown
    <3>4. \A w \in Wallets : client'[w] = IF w \in Players(id) /\ client[w] # None
                                          THEN Seated(w, None) ELSE client[w]
      BY <2>2, <3>1, <3>2, GivenSeats DEF finishFight
    <3>5. ASSUME NEW w \in Wallets, w \in Players(id) PROVE ShownIn(w)'
      <4>1. client'[w] = None \/ client'[w] = Seated(w, None) BY <3>4, <3>5
      <4>2. client'[w] = None \/ client'[w].seat = None BY <4>1 DEF Seated
      <4> QED BY <1>g, <3>3, <3>5, <4>2
    <3>6. ASSUME NEW w \in Wallets, w \notin Players(id) PROVE ShownIn(w)'
      <4>1. presence[w] # None /\ presence[w].fight \in fights => presence[w].fight # id
        BY <1>0, <3>6 DEF ShownIn
      <4> QED BY <1>c, <3>3, <3>4, <3>6, <4>1
    <3> QED BY <3>5, <3>6
  <2>3. ASSUME NEW id \in starting, FightNotCreated(id) PROVE \A x \in Wallets : ShownIn(x)'
    BY <1>u, <2>3 DEF FightNotCreated, sessionVars
  <2> QED BY <1>2, <2>1, <2>2, <2>3 DEF FightActs
<1>3. CASE Restart
  <2>1. presence' = [w \in Wallets |-> None] BY <1>3 DEF Restart
  <2> QED BY <1>n, <2>1
<1>4. CASE DatabaseActs
  BY <1>4, <1>u DEF DatabaseActs, WriteLands, WriteFails, RehydrateRow, rehydratePendingFromDb,
                    RehydrationFails, sessionVars, fightVars
<1>5. CASE \/ \E w \in Wallets, to \in Wallets : createRequest(w, to)
           \/ \E w \in Wallets, id \in Sent : Refuse(w, id)
           \/ \E id \in Sent : sweepExpired(id) \/ \E kind \in Kinds : Accept(id, kind)
  BY <1>5, <1>u DEF createRequest, Refuse, sweepExpired, Accept, sessionVars, fightVars
<1>6. CASE UNCHANGED vars BY <1>6, <1>u DEF vars
<1> QED BY <1>1, <1>2, <1>3, <1>4, <1>5, <1>6, NextCases

\* A player is shown in a fight only while that fight is on, whoever left when
\* and however it ended, and who came back and entered a room is shown in it.
THEOREM ShownWhileFighting == Spec => []ShownAsFighting
<1>1. Init => ShownAsFighting BY DEF Init, ShownAsFighting
<1>2. Types /\ SeatInv /\ ShownAsFighting /\ [Next]_vars => ShownAsFighting'
  <2> SUFFICES ASSUME Types, SeatInv, ShownAsFighting, [Next]_vars, "zombie" \notin past'.faults
               PROVE  \A w \in Wallets : ShownIn(w)'
    BY ShownIsIn DEF ShownAsFighting, ShownIn
  <2>1. "zombie" \notin past.faults BY PastStep
  <2>2. \A w \in Wallets : ShownIn(w) BY <2>1, ShownIsIn
  <2> QED BY <2>2, ShownStep
<1> QED BY <1>1, <1>2, TypesHold, SeatsHold, PTL DEF Spec

(***************************************************************************)
(* Challenges.  What memory says of one is what its row says or will say,  *)
(* a row that rehydration has still to do was never touched, and a row     *)
(* that is open counts against its sender's limit before it is in memory.  *)
(***************************************************************************)
Excused == past.faults \cap {"row", "boot"} # {}

InMemory(id) == requests[id].status # None
Waiting(id) == requests[id].status = None /\ rows[id] = "pending"

RowsFollow ==
  /\ \A wr \in writes : requests[wr[1]].status = wr[2]
  /\ \A id \in Sent : (\A wr \in writes : wr[1] # id) /\ InMemory(id) =>
       rows[id] = requests[id].status
BootInv ==
  \/ boot = Unread /\ writes = {} /\ \A id \in Sent : ~InMemory(id)
  \/ boot \subseteq Sent /\ \A id \in Sent : id \in boot <=> Waiting(id)
AcceptInv ==
  /\ \A id \in Sent : /\ past.accepts[id] \in {0, 1}
                      /\ past.accepts[id] = 1 =>
                           IF InMemory(id) THEN requests[id].status = "accepted"
                           ELSE rows[id] = "accepted"
  /\ \A id \in Ids \ Sent : past.accepts[id] = 0

\* Challenges that are open, or will be once rehydration has done its work.
Open(w) ==
  {id \in Sent : requests[id].from = w /\ (requests[id].status = "pending" \/ Waiting(id))}
WithinLimits(w) ==
  /\ Cardinality(Open(w)) <= MAX_PENDING_PER_SENDER
  /\ \A i, j \in Open(w) : requests[i].to = requests[j].to => i = j
LimitInv == \A w \in Wallets : WithinLimits(w)

\* Open challenges can only become fewer while nothing is sent.
LEMMA LimitsStay ==
  ASSUME Types, Keeps, NEW w \in Wallets, WithinLimits(w), Open(w)' \subseteq Open(w)
  PROVE  WithinLimits(w)'
<1>1. Open(w) \subseteq Sent /\ IsFiniteSet(Sent) BY SentFacts DEF Types, Open
<1>2. IsFiniteSet(Open(w)) BY <1>1, FS_Subset
<1>3. /\ IsFiniteSet(Open(w)') /\ Cardinality(Open(w)') <= Cardinality(Open(w))
      /\ Cardinality(Open(w)') \in Nat /\ Cardinality(Open(w)) \in Nat
  BY <1>2, FS_Subset, FS_CardinalityType
<1>4. Cardinality(Open(w)') <= MAX_PENDING_PER_SENDER
  BY <1>3, TavernAssumption DEF WithinLimits
<1>5. ASSUME NEW i \in Open(w)', NEW j \in Open(w)', requests'[i].to = requests'[j].to
      PROVE  i = j
  <2>1. i \in Open(w) /\ j \in Open(w) /\ i \in Sent /\ j \in Sent BY <1>1, <1>5
  <2>2. requests[i].to = requests[j].to BY <1>5, <2>1 DEF Keeps
  <2> QED BY <2>1, <2>2 DEF WithinLimits
<1> QED BY <1>4, <1>5 DEF WithinLimits

ChallengeInv == RowsFollow /\ BootInv /\ AcceptInv /\ LimitInv

LEMMA ChallengeFacts ==
  ASSUME Types
  PROVE  /\ requests \in [Sent -> Request] /\ rows \in [Sent -> Statuses \cup {None}]
         /\ writes \subseteq Sent \X Statuses /\ past.accepts \in [Ids -> Nat] /\ past \in PastT
         /\ Sent \subseteq Ids /\ 0 \notin Sent /\ None \notin Statuses
<1>1. RequestT /\ past \in PastT BY DEF Types
<1>2. Sent \subseteq Ids /\ 0 \notin Sent BY <1>1, SentFacts
<1>3. None \notin Statuses BY TavernAssumption DEF Statuses
<1> QED BY <1>1, <1>2, <1>3 DEF RequestT, PastT

\* Anything that leaves challenges and rows alone.
LEMMA ChallengeSame ==
  ASSUME ChallengeInv, UNCHANGED requestVars, past'.accepts = past.accepts
  PROVE  ChallengeInv'
<1>1. requests' = requests /\ rows' = rows /\ writes' = writes /\ boot' = boot
  BY DEF requestVars
<1>2. Sent' = Sent BY <1>1 DEF Sent
<1>3. \A id : InMemory(id)' = InMemory(id) /\ Waiting(id)' = Waiting(id)
  BY <1>1 DEF InMemory, Waiting
<1>4. RowsFollow' BY <1>1, <1>2, <1>3 DEF ChallengeInv, RowsFollow
<1>5. BootInv' BY <1>1, <1>2, <1>3 DEF ChallengeInv, BootInv, Unread
<1>6. AcceptInv' BY <1>1, <1>2, <1>3 DEF ChallengeInv, AcceptInv, Ids
<1>7. LimitInv' BY <1>1, <1>2, <1>3 DEF ChallengeInv, LimitInv, WithinLimits, Open
<1> QED BY <1>4, <1>5, <1>6, <1>7 DEF ChallengeInv

\* transitionRequest, when no write of the challenge is under way.
LEMMA ChallengeTransition ==
  ASSUME Types, Keeps, ChallengeInv, NEW id \in Sent, NEW status \in {"accepted", "over"},
         Transition(id, status), \A wr \in writes : wr[1] # id,
         \A i \in Ids : i # id => past'.accepts[i] = past.accepts[i],
         past'.accepts[id] = IF status = "accepted" THEN past.accepts[id] + 1 ELSE past.accepts[id]
  PROVE  ChallengeInv'
<1>0. /\ requests[id].status = "pending" /\ Sent' = Sent
      /\ \A i \in Sent : i # id => requests'[i] = requests[i]
      /\ writes' = writes \cup {<<id, status>>} /\ rows' = rows /\ boot' = boot
  BY TransitionEffect DEF Statuses
<1>1. requests'[id] = [from |-> requests[id].from, to |-> requests[id].to, status |-> status]
  BY TransitionEffect DEF Statuses
<1>2. requests'[id].status = status /\ requests'[id].from = requests[id].from BY <1>1
<1>3. /\ writes \subseteq Sent \X Statuses /\ None \notin Statuses /\ Sent \subseteq Ids
      /\ past.accepts \in [Ids -> Nat] /\ rows \in [Sent -> Statuses \cup {None}]
  BY ChallengeFacts
<1>4. status # None /\ "pending" # None /\ status # "pending" BY <1>3 DEF Statuses
<1>5. \A i \in Sent : i # id => (InMemory(i)' <=> InMemory(i)) /\ (Waiting(i)' <=> Waiting(i))
  BY <1>0 DEF InMemory, Waiting
<1>6. InMemory(id) /\ InMemory(id)' /\ ~Waiting(id) /\ ~Waiting(id)'
  BY <1>0, <1>2, <1>4 DEF InMemory, Waiting
<1>7. RowsFollow'
  <2>1. ASSUME NEW wr \in writes' PROVE requests'[wr[1]].status = wr[2]
    <3>1. CASE wr \in writes
      <4>1. wr[1] \in Sent /\ wr[1] # id /\ requests[wr[1]].status = wr[2]
        BY <1>3, <3>1 DEF ChallengeInv, RowsFollow
      <4> QED BY <1>0, <4>1
    <3>2. CASE wr = <<id, status>> BY <1>2, <3>2
    <3> QED BY <1>0, <3>1, <3>2
  <2>2. ASSUME NEW i \in Sent, \A wr \in writes' : wr[1] # i, InMemory(i)'
        PROVE  rows'[i] = requests'[i].status
    <3>0. <<id, status>> \in writes' /\ <<id, status>>[1] = id BY <1>0
    <3>1. i # id /\ \A wr \in writes : wr[1] # i BY <1>0, <2>2, <3>0
    <3>2. rows[i] = requests[i].status
      BY <1>5, <2>2, <3>1 DEF ChallengeInv, RowsFollow
    <3> QED BY <1>0, <3>1, <3>2
  <2> QED BY <1>0, <2>1, <2>2 DEF RowsFollow
<1>8. BootInv'
  <2>1. boot \subseteq Sent /\ \A i \in Sent : i \in boot <=> Waiting(i)
    BY <1>6 DEF ChallengeInv, BootInv
  <2>2. \A i \in Sent : i \in boot <=> Waiting(i)' BY <1>5, <1>6, <2>1
  <2> QED BY <1>0, <2>1, <2>2 DEF BootInv
<1>9. AcceptInv'
  <2>1. past.accepts[id] = 0 BY <1>0, <1>6 DEF ChallengeInv, AcceptInv
  <2>2. past'.accepts[id] \in {0, 1} /\ (past'.accepts[id] = 1 => status = "accepted")
    BY <2>1
  <2>3. ASSUME NEW i \in Sent, i # id
        PROVE  /\ past'.accepts[i] \in {0, 1}
               /\ past'.accepts[i] = 1 => IF InMemory(i)' THEN requests'[i].status = "accepted"
                                          ELSE rows'[i] = "accepted"
    <3>1. past'.accepts[i] = past.accepts[i] /\ requests'[i] = requests[i] /\ rows' = rows
          /\ (InMemory(i)' <=> InMemory(i))
      BY <1>0, <1>3, <1>5, <2>3
    <3> QED BY <3>1 DEF ChallengeInv, AcceptInv
  <2>4. \A i \in Ids \ Sent : past'.accepts[i] = 0 BY DEF ChallengeInv, AcceptInv
  <2>5. \A i \in Sent : /\ past'.accepts[i] \in {0, 1}
                        /\ past'.accepts[i] = 1 =>
                             IF InMemory(i)' THEN requests'[i].status = "accepted"
                             ELSE rows'[i] = "accepted"
    BY <1>2, <1>6, <2>2, <2>3
  <2>6. Ids' = Ids BY DEF Ids
  <2> QED BY <1>0, <2>4, <2>5, <2>6 DEF AcceptInv
<1>10. ASSUME NEW w \in Wallets PROVE WithinLimits(w)'
  <2>1. Open(w)' \subseteq Open(w)
    <3>1. ASSUME NEW i \in Open(w)' PROVE i \in Open(w)
      <4>1. i \in Sent /\ requests'[i].from = w /\ (requests'[i].status = "pending" \/ Waiting(i)')
        BY <1>0, <3>1 DEF Open
      <4>2. i # id BY <1>2, <1>4, <1>6, <4>1
      <4> QED BY <1>0, <1>5, <4>1, <4>2 DEF Open
    <3> QED BY <3>1
  <2>2. WithinLimits(w) BY DEF ChallengeInv, LimitInv
  <2> QED BY <2>1, <2>2, LimitsStay
<1> QED BY <1>7, <1>8, <1>9, <1>10 DEF ChallengeInv, LimitInv

\* createRequest, when rehydration is over.
LEMMA ChallengeCreate ==
  ASSUME Types, Keeps, ChallengeInv, NEW from \in Wallets, NEW to \in Wallets,
         createRequest(from, to), boot = {}, past'.accepts = past.accepts
  PROVE  ChallengeInv'
<1>0. PICK id \in Ids : /\ id \notin Sent /\ Sent' = Sent \cup {id}
                        /\ requests'[id] = [from |-> from, to |-> to, status |-> "pending"]
                        /\ \A i \in Sent : requests'[i] = requests[i] /\ rows'[i] = rows[i]
                        /\ writes' = writes \cup {<<id, "pending">>}
  BY CreateEffect
<1>1. /\ requests'[id].status = "pending" /\ requests'[id].from = from
      /\ requests'[id].to = to
  BY <1>0
<1>2. boot' = boot /\ MayChallenge(from, to) BY DEF createRequest
<1>3. /\ writes \subseteq Sent \X Statuses /\ None \notin Statuses /\ Sent \subseteq Ids
      /\ past.accepts \in [Ids -> Nat]
  BY ChallengeFacts
<1>4. "pending" # None /\ boot # Unread BY <1>3 DEF Statuses, Unread
<1>5. \A i \in Sent : (InMemory(i)' <=> InMemory(i)) /\ (Waiting(i)' <=> Waiting(i))
  BY <1>0 DEF InMemory, Waiting
<1>6. InMemory(id)' /\ ~Waiting(id)' BY <1>1, <1>4 DEF InMemory, Waiting
<1>7. \A i \in Sent : ~Waiting(i) BY <1>4 DEF ChallengeInv, BootInv
<1>8. RowsFollow'
  <2>1. ASSUME NEW wr \in writes' PROVE requests'[wr[1]].status = wr[2]
    <3>1. CASE wr \in writes
      <4>1. wr[1] \in Sent /\ requests[wr[1]].status = wr[2]
        BY <1>3, <3>1 DEF ChallengeInv, RowsFollow
      <4> QED BY <1>0, <4>1
    <3>2. CASE wr = <<id, "pending">> BY <1>1, <3>2
    <3> QED BY <1>0, <3>1, <3>2
  <2>2. ASSUME NEW i \in Sent', \A wr \in writes' : wr[1] # i, InMemory(i)'
        PROVE  rows'[i] = requests'[i].status
    <3>0. <<id, "pending">> \in writes' /\ <<id, "pending">>[1] = id BY <1>0
    <3>1. i \in Sent /\ \A wr \in writes : wr[1] # i BY <1>0, <2>2, <3>0
    <3>2. rows[i] = requests[i].status
      BY <1>5, <2>2, <3>1 DEF ChallengeInv, RowsFollow
    <3> QED BY <1>0, <3>1, <3>2
  <2> QED BY <2>1, <2>2 DEF RowsFollow
<1>9. BootInv'
  <2>1. \A i \in Sent' : ~Waiting(i)' BY <1>0, <1>5, <1>6, <1>7
  <2> QED BY <1>2, <2>1 DEF BootInv
<1>10. AcceptInv'
  <2>1. ASSUME NEW i \in Sent
        PROVE  /\ past'.accepts[i] \in {0, 1}
               /\ past'.accepts[i] = 1 => IF InMemory(i)' THEN requests'[i].status = "accepted"
                                          ELSE rows'[i] = "accepted"
    <3>1. requests'[i] = requests[i] /\ rows'[i] = rows[i] /\ (InMemory(i)' <=> InMemory(i))
      BY <1>0, <1>5
    <3> QED BY <3>1 DEF ChallengeInv, AcceptInv
  <2>2. past'.accepts[id] = 0 BY <1>0 DEF ChallengeInv, AcceptInv
  <2>3. \A i \in Ids \ Sent' : past'.accepts[i] = 0 BY <1>0 DEF ChallengeInv, AcceptInv
  <2>4. \A i \in Sent' : /\ past'.accepts[i] \in {0, 1}
                         /\ past'.accepts[i] = 1 =>
                              IF InMemory(i)' THEN requests'[i].status = "accepted"
                              ELSE rows'[i] = "accepted"
    BY <1>0, <2>1, <2>2
  <2>5. Ids' = Ids BY DEF Ids
  <2> QED BY <2>3, <2>4, <2>5 DEF AcceptInv
<1>11. ASSUME NEW w \in Wallets, w # from PROVE WithinLimits(w)'
  <2>1. Open(w)' \subseteq Open(w)
    <3>1. ASSUME NEW i \in Open(w)' PROVE i \in Open(w)
      <4>1. i \in Sent' /\ requests'[i].from = w /\ (requests'[i].status = "pending" \/ Waiting(i)')
        BY <3>1 DEF Open
      <4>2. i \in Sent BY <1>0, <1>1, <1>11, <4>1
      <4> QED BY <1>0, <1>5, <4>1, <4>2 DEF Open
    <3> QED BY <3>1
  <2>2. WithinLimits(w) BY DEF ChallengeInv, LimitInv
  <2> QED BY <2>1, <2>2, LimitsStay
<1>12. WithinLimits(from)'
  <2> DEFINE open == {i \in Pending : requests[i].from = from}
  <2>1. /\ Cardinality(open) < MAX_PENDING_PER_SENDER
        /\ \A i \in open : requests[i].to # to
    BY <1>2 DEF MayChallenge
  <2>2. Open(from)' \subseteq open \cup {id}
    <3>1. ASSUME NEW i \in Open(from)', i # id PROVE i \in open
      <4>1. i \in Sent /\ requests'[i].from = from
            /\ (requests'[i].status = "pending" \/ Waiting(i)')
        BY <1>0, <3>1 DEF Open
      <4> QED BY <1>0, <1>5, <1>7, <4>1 DEF Pending
    <3> QED BY <3>1
  <2>3. open \subseteq Open(from) /\ open \subseteq Sent BY DEF Open, Pending
  <2> HIDE DEF open
  <2>4. IsFiniteSet(Sent) BY SentFacts DEF Types
  <2>5. IsFiniteSet(open) /\ id \notin open BY <1>0, <2>3, <2>4, FS_Subset
  <2>6. IsFiniteSet(open \cup {id}) /\ Cardinality(open \cup {id}) = Cardinality(open) + 1
        /\ Cardinality(open) \in Nat
    BY <2>5, FS_AddElement, FS_CardinalityType
  <2>7. IsFiniteSet(Open(from)') /\ Cardinality(Open(from)') <= Cardinality(open \cup {id})
        /\ Cardinality(Open(from)') \in Nat
    BY <2>2, <2>6, FS_Subset, FS_CardinalityType
  <2>8. Cardinality(Open(from)') <= MAX_PENDING_PER_SENDER
    BY <2>1, <2>6, <2>7, TavernAssumption
  <2>9. ASSUME NEW i \in Open(from)', NEW j \in Open(from)', requests'[i].to = requests'[j].to
        PROVE  i = j
    <3>1. \A k \in open : requests'[k].to = requests[k].to BY <1>0, <2>3
    <3>2. CASE i \in open /\ j \in open
      <4>1. i \in Open(from) /\ j \in Open(from) /\ requests[i].to = requests[j].to
        BY <2>3, <2>9, <3>1, <3>2
      <4>2. WithinLimits(from) BY DEF ChallengeInv, LimitInv
      <4> QED BY <4>1, <4>2 DEF WithinLimits
    <3>3. CASE i = id \/ j = id BY <1>1, <2>1, <2>2, <2>9, <3>1, <3>3
    <3> QED BY <2>2, <3>2, <3>3
  <2> QED BY <2>8, <2>9 DEF WithinLimits
<1> QED BY <1>8, <1>9, <1>10, <1>11, <1>12 DEF ChallengeInv, LimitInv

\* A write lands.
LEMMA ChallengeLands ==
  ASSUME Types, Keeps, ChallengeInv, NEW wr \in writes, WriteLands(wr)
  PROVE  ChallengeInv'
<1>0. /\ writes' = writes \ {wr} /\ rows' = [rows EXCEPT ![wr[1]] = wr[2]]
      /\ requests' = requests /\ boot' = boot /\ past' = past
  BY DEF WriteLands
<1>1. /\ rows \in [Sent -> Statuses \cup {None}] /\ writes \subseteq Sent \X Statuses
      /\ None \notin Statuses
  BY ChallengeFacts
<1>2. Sent' = Sent BY <1>0 DEF Sent
<1>3. wr[1] \in Sent /\ wr[2] \in Statuses /\ requests[wr[1]].status = wr[2]
  BY <1>1 DEF ChallengeInv, RowsFollow
<1>4. InMemory(wr[1]) BY <1>1, <1>3 DEF InMemory
<1>5. \A i \in Sent : InMemory(i)' = InMemory(i) BY <1>0 DEF InMemory
<1>6. \A i \in Sent : (i # wr[1] => rows'[i] = rows[i]) /\ rows'[wr[1]] = wr[2]
  BY <1>0, <1>1, <1>3
<1>7. \A i \in Sent : Waiting(i)' <=> Waiting(i)
  <2>1. ~Waiting(wr[1]) /\ ~Waiting(wr[1])' BY <1>0, <1>4 DEF InMemory, Waiting
  <2> QED BY <1>0, <1>6, <2>1 DEF Waiting
<1>8. RowsFollow'
  <2>1. \A x \in writes' : requests'[x[1]].status = x[2]
    BY <1>0 DEF ChallengeInv, RowsFollow
  <2>2. ASSUME NEW i \in Sent, \A x \in writes' : x[1] # i, InMemory(i)'
        PROVE  rows'[i] = requests'[i].status
    <3>1. CASE i = wr[1] BY <1>0, <1>3, <1>6, <3>1
    <3>2. CASE i # wr[1]
      <4>1. \A x \in writes : x[1] # i BY <1>0, <2>2, <3>2
      <4>2. rows[i] = requests[i].status BY <1>5, <2>2, <4>1 DEF ChallengeInv, RowsFollow
      <4> QED BY <1>0, <1>6, <3>2, <4>2
    <3> QED BY <3>1, <3>2
  <2> QED BY <1>2, <2>1, <2>2 DEF RowsFollow
<1>9. BootInv'
  <2>1. boot \subseteq Sent /\ \A i \in Sent : i \in boot <=> Waiting(i)
    BY DEF ChallengeInv, BootInv
  <2>2. \A i \in Sent : i \in boot <=> Waiting(i)' BY <1>7, <2>1
  <2> QED BY <1>0, <1>2, <2>1, <2>2 DEF BootInv
<1>10. AcceptInv'
  <2>1. ASSUME NEW i \in Sent
        PROVE  /\ past'.accepts[i] \in {0, 1}
               /\ past'.accepts[i] = 1 => IF InMemory(i)' THEN requests'[i].status = "accepted"
                                          ELSE rows'[i] = "accepted"
    <3>1. past' = past /\ requests' = requests /\ (InMemory(i)' <=> InMemory(i))
          /\ (~InMemory(i) => rows'[i] = rows[i])
      BY <1>0, <1>4, <1>5, <1>6
    <3> QED BY <3>1 DEF ChallengeInv, AcceptInv
  <2>2. \A i \in Ids \ Sent : past'.accepts[i] = 0 BY <1>0 DEF ChallengeInv, AcceptInv
  <2>3. Ids' = Ids BY DEF Ids
  <2> QED BY <1>2, <2>1, <2>2, <2>3 DEF AcceptInv
<1>11. ASSUME NEW w \in Wallets PROVE WithinLimits(w)'
  <2>1. Open(w)' \subseteq Open(w) BY <1>0, <1>2, <1>7 DEF Open
  <2>2. WithinLimits(w) BY DEF ChallengeInv, LimitInv
  <2> QED BY <2>1, <2>2, LimitsStay
<1> QED BY <1>8, <1>9, <1>10, <1>11 DEF ChallengeInv, LimitInv

\* A restart with no write under way.
LEMMA ChallengeRestart ==
  ASSUME Types, Keeps, ChallengeInv, Restart, writes = {}, past'.accepts = past.accepts
  PROVE  ChallengeInv'
<1>0. /\ Sent' = Sent /\ boot' = Unread /\ rows' = rows /\ writes' = {}
      /\ \A id \in Sent : requests'[id] = [from |-> requests[id].from, to |-> requests[id].to,
                                           status |-> None]
  BY RestartEffect
<1>1. ASSUME NEW id \in Sent
      PROVE  requests'[id].status = None /\ requests'[id].from = requests[id].from
  <2>1. requests'[id] = [from |-> requests[id].from, to |-> requests[id].to, status |-> None]
    BY <1>0
  <2> QED BY <2>1
<1>2. \A id \in Sent : ~InMemory(id)' BY <1>1 DEF InMemory
<1>3. None \notin Statuses BY ChallengeFacts
<1>4. \A id \in Sent : InMemory(id) => rows[id] = requests[id].status
  BY DEF ChallengeInv, RowsFollow
<1>5. RowsFollow' BY <1>0, <1>2 DEF RowsFollow
<1>6. BootInv' BY <1>0, <1>2 DEF BootInv, Unread
<1>7. AcceptInv'
  <2>1. \A i \in Sent : /\ past.accepts[i] \in {0, 1}
                        /\ past.accepts[i] = 1 => rows[i] = "accepted"
    BY <1>4 DEF ChallengeInv, AcceptInv
  <2>2. \A i \in Ids \ Sent : past.accepts[i] = 0 BY DEF ChallengeInv, AcceptInv
  <2>3. Ids' = Ids BY DEF Ids
  <2> QED BY <1>0, <1>2, <2>1, <2>2, <2>3 DEF AcceptInv
<1>8. ASSUME NEW w \in Wallets PROVE WithinLimits(w)'
  <2>1. Open(w)' \subseteq Open(w)
    <3>1. ASSUME NEW i \in Open(w)' PROVE i \in Open(w)
      <4>1. i \in Sent /\ requests'[i].from = w /\ (requests'[i].status = "pending" \/ Waiting(i)')
        BY <1>0, <3>1 DEF Open
      <4>2. requests[i].from = w /\ rows[i] = "pending"
        BY <1>0, <1>1, <1>3, <4>1 DEF Waiting, Statuses
      <4>3. requests[i].status = "pending" \/ Waiting(i)
        BY <1>4, <4>1, <4>2 DEF InMemory, Waiting
      <4> QED BY <4>1, <4>2, <4>3 DEF Open
    <3> QED BY <3>1
  <2>2. WithinLimits(w) BY DEF ChallengeInv, LimitInv
  <2> QED BY <2>1, <2>2, LimitsStay
<1> QED BY <1>5, <1>6, <1>7, <1>8 DEF ChallengeInv, LimitInv

\* The rehydration reads the rows that are open, with no write under way.
LEMMA ChallengeRead ==
  ASSUME Types, Keeps, ChallengeInv, rehydratePendingFromDb
  PROVE  ChallengeInv'
<1>0. /\ boot = Unread /\ boot' = {id \in Sent : rows[id] = "pending"}
      /\ requests' = requests /\ rows' = rows /\ writes' = writes
  BY DEF rehydratePendingFromDb
<1>1. Sent' = Sent BY <1>0 DEF Sent
<1>2. 0 \notin Sent /\ past \in PastT BY ChallengeFacts
<1>3. \A id \in Sent : ~InMemory(id) BY <1>0, <1>2 DEF ChallengeInv, BootInv, Unread
<1>4. \A id : InMemory(id)' = InMemory(id) /\ Waiting(id)' = Waiting(id)
  BY <1>0 DEF InMemory, Waiting
<1>5. past'.accepts = past.accepts
  <2>1. Happens(IF writes # {} THEN {"row"} ELSE {}) BY DEF rehydratePendingFromDb
  <2>2. (IF writes # {} THEN {"row"} ELSE {}) \in SUBSET Faults BY DEF Faults
  <2> QED BY <1>2, <2>1, <2>2, HappensTyped
<1>6. RowsFollow' BY <1>0, <1>1, <1>4 DEF ChallengeInv, RowsFollow
<1>7. BootInv'
  <2>1. \A id \in Sent : id \in boot' <=> Waiting(id)
    BY <1>0, <1>3 DEF InMemory, Waiting
  <2> QED BY <1>0, <1>1, <1>4, <2>1 DEF BootInv
<1>8. AcceptInv' BY <1>0, <1>1, <1>4, <1>5 DEF ChallengeInv, AcceptInv, Ids
<1>9. LimitInv' BY <1>0, <1>1, <1>4 DEF ChallengeInv, LimitInv, WithinLimits, Open
<1> QED BY <1>6, <1>7, <1>8, <1>9 DEF ChallengeInv

\* One row is rehydrated.
LEMMA ChallengeRow ==
  ASSUME Types, Keeps, ChallengeInv, NEW id \in Sent, RehydrateRow(id)
  PROVE  ChallengeInv'
<1>0. /\ id \in boot \ Unread /\ boot' = boot \ {id} /\ writes' = writes /\ Sent' = Sent
      /\ \A i \in Sent : i # id => requests'[i] = requests[i] /\ rows'[i] = rows[i]
  BY RehydrateEffect
<1>1. \/ rows'[id] = "over" /\ requests'[id] = requests[id]
      \/ /\ requests'[id] = [from |-> requests[id].from, to |-> requests[id].to,
                             status |-> "pending"]
         /\ rows'[id] = rows[id]
  BY RehydrateEffect
<1>2. past' = past BY DEF RehydrateRow
<1>3. 0 \notin Sent /\ None \notin Statuses /\ writes \subseteq Sent \X Statuses BY ChallengeFacts
<1>4. boot \subseteq Sent /\ \A i \in Sent : i \in boot <=> Waiting(i)
  BY <1>0, <1>3 DEF ChallengeInv, BootInv
<1>5. ~InMemory(id) /\ rows[id] = "pending" BY <1>0, <1>4 DEF Waiting, InMemory
<1>6. requests'[id].from = requests[id].from
      /\ \/ rows'[id] = "over" /\ requests'[id].status = None
         \/ rows'[id] = "pending" /\ requests'[id].status = "pending"
  BY <1>1, <1>5 DEF InMemory
<1>7. "pending" # None /\ "pending" # "over" BY <1>3 DEF Statuses
<1>8. \A i \in Sent : i # id => (InMemory(i)' <=> InMemory(i)) /\ (Waiting(i)' <=> Waiting(i))
  BY <1>0 DEF InMemory, Waiting
<1>9. ~Waiting(id)' BY <1>6, <1>7 DEF Waiting
<1>10. \A wr \in writes : wr[1] # id
  <2>1. ASSUME NEW wr \in writes, wr[1] = id PROVE FALSE
    <3>1. requests[id].status = wr[2] /\ wr[2] \in Statuses
      BY <1>3, <2>1 DEF ChallengeInv, RowsFollow
    <3> QED BY <1>3, <1>5, <3>1 DEF InMemory
  <2> QED BY <2>1
<1>11. RowsFollow'
  <2>1. ASSUME NEW wr \in writes PROVE requests'[wr[1]].status = wr[2]
    <3>1. wr[1] \in Sent /\ wr[1] # id /\ requests[wr[1]].status = wr[2]
      BY <1>3, <1>10 DEF ChallengeInv, RowsFollow
    <3> QED BY <1>0, <3>1
  <2>2. ASSUME NEW i \in Sent, \A wr \in writes : wr[1] # i, InMemory(i)'
        PROVE  rows'[i] = requests'[i].status
    <3>1. CASE i = id BY <1>6, <2>2, <3>1 DEF InMemory
    <3>2. CASE i # id
      <4>1. rows[i] = requests[i].status BY <1>8, <2>2, <3>2 DEF ChallengeInv, RowsFollow
      <4> QED BY <1>0, <3>2, <4>1
    <3> QED BY <3>1, <3>2
  <2> QED BY <1>0, <2>1, <2>2 DEF RowsFollow
<1>12. BootInv'
  <2>1. \A i \in Sent : i \in boot' <=> Waiting(i)' BY <1>0, <1>4, <1>8, <1>9
  <2> QED BY <1>0, <1>4, <2>1 DEF BootInv
<1>13. AcceptInv'
  <2>1. past.accepts[id] = 0 BY <1>5 DEF ChallengeInv, AcceptInv
  <2>2. ASSUME NEW i \in Sent
        PROVE  /\ past'.accepts[i] \in {0, 1}
               /\ past'.accepts[i] = 1 => IF InMemory(i)' THEN requests'[i].status = "accepted"
                                          ELSE rows'[i] = "accepted"
    <3>1. CASE i = id BY <1>2, <2>1, <3>1
    <3>2. CASE i # id
      <4>1. past' = past /\ requests'[i] = requests[i] /\ rows'[i] = rows[i]
            /\ (InMemory(i)' <=> InMemory(i))
        BY <1>0, <1>2, <1>8, <3>2
      <4> QED BY <4>1 DEF ChallengeInv, AcceptInv
    <3> QED BY <3>1, <3>2
  <2>3. \A i \in Ids \ Sent : past'.accepts[i] = 0 BY <1>2 DEF ChallengeInv, AcceptInv
  <2>4. Ids' = Ids BY DEF Ids
  <2> QED BY <1>0, <2>2, <2>3, <2>4 DEF AcceptInv
<1>14. ASSUME NEW w \in Wallets PROVE WithinLimits(w)'
  <2>1. Open(w)' \subseteq Open(w)
    <3>1. ASSUME NEW i \in Open(w)' PROVE i \in Open(w)
      <4>1. i \in Sent /\ requests'[i].from = w /\ (requests'[i].status = "pending" \/ Waiting(i)')
        BY <1>0, <3>1 DEF Open
      <4>2. CASE i = id BY <1>0, <1>4, <1>6, <4>1, <4>2 DEF Open
      <4>3. CASE i # id BY <1>0, <1>8, <4>1, <4>3 DEF Open
      <4> QED BY <4>2, <4>3
    <3> QED BY <3>1
  <2>2. WithinLimits(w) BY DEF ChallengeInv, LimitInv
  <2> QED BY <2>1, <2>2, LimitsStay
<1> QED BY <1>11, <1>12, <1>13, <1>14 DEF ChallengeInv, LimitInv

LEMMA ChallengeStep ==
  ASSUME Types, ~Excused => ChallengeInv, [Next]_vars, ~Excused'
  PROVE  ChallengeInv'
<1>0. past \in PastT /\ past' \in PastT /\ past.faults \subseteq past'.faults /\ Keeps
  BY PastStep, RequestStep DEF Types
<1>1. "row" \notin past'.faults /\ "boot" \notin past'.faults BY DEF Excused
<1>2. ~Excused BY <1>0, <1>1 DEF Excused
<1>3. ChallengeInv BY <1>2
<1>h. ASSUME NEW F \in SUBSET Faults, Happens(F) \/ Mishap(F)
      PROVE  "row" \notin F /\ "boot" \notin F /\ past'.accepts = past.accepts
  <2>1. past'.faults = past.faults \cup F /\ past'.accepts = past.accepts
    BY <1>0, <1>h, HappensTyped, MishapTyped
  <2> QED BY <1>1, <2>1
<1>u. ASSUME UNCHANGED requestVars, past' = past \/ \E F \in SUBSET Faults : Happens(F) \/ Mishap(F)
      PROVE  ChallengeInv'
  <2>1. past'.accepts = past.accepts BY <1>h, <1>u
  <2> QED BY <1>3, <1>u, <2>1, ChallengeSame
<1>4. CASE SessionActs
  <2>1. UNCHANGED requestVars
        /\ (past' = past \/ Mishap({}) \/ Happens({"zombie"}))
    BY <1>4 DEF SessionActs, handleEnterRoom, sweepStalePresence, Login, SessionReady,
                handleDisconnect, ClosedSessionReady
  <2> QED BY <1>u, <2>1, FaultsKnown
<1>5. CASE FightActs
  <2>1. UNCHANGED requestVars /\ (past' = past \/ Mishap({}))
    BY <1>5 DEF FightActs, FightCreated, FightNotCreated, finishFight
  <2> QED BY <1>u, <2>1, FaultsKnown
<1>6. CASE DatabaseActs
  <2>1. ASSUME NEW wr \in writes, WriteFails(wr) PROVE FALSE
    <3>1. Mishap({"row"}) /\ {"row"} \in SUBSET Faults BY <2>1, FaultsKnown DEF WriteFails
    <3> QED BY <1>h, <3>1
  <2>2. ~RehydrationFails
    <3>1. ASSUME RehydrationFails PROVE FALSE
      <4>1. Happens({"boot"}) /\ {"boot"} \in SUBSET Faults
        BY <3>1, FaultsKnown DEF RehydrationFails
      <4> QED BY <1>h, <4>1
    <3> QED BY <3>1
  <2> QED BY <1>0, <1>3, <1>6, <2>1, <2>2, ChallengeLands, ChallengeRead, ChallengeRow
      DEF DatabaseActs
<1>7. CASE Restart
  <2> DEFINE F == IF writes # {} THEN {"row"} ELSE {}
  <2>1. Mishap(F) BY <1>7 DEF Restart
  <2>2. F \in SUBSET Faults BY DEF Faults
  <2>3. "row" \notin F /\ past'.accepts = past.accepts
    <3> HIDE DEF F
    <3> QED BY <1>h, <2>1, <2>2
  <2>4. writes = {} BY <2>3
  <2> QED BY <1>0, <1>3, <1>7, <2>3, <2>4, ChallengeRestart
<1>8. ASSUME NEW from \in Wallets, NEW to \in Wallets, createRequest(from, to)
      PROVE  ChallengeInv'
  <2> DEFINE F == IF boot # {} THEN {"boot"} ELSE {}
  <2>1. Happens(F) BY <1>8 DEF createRequest
  <2>2. F \in SUBSET Faults BY DEF Faults
  <2>3. "boot" \notin F /\ past'.accepts = past.accepts
    <3> HIDE DEF F
    <3> QED BY <1>h, <2>1, <2>2
  <2>4. boot = {} BY <2>3
  <2> QED BY <1>0, <1>3, <1>8, <2>3, <2>4, ChallengeCreate
\* With a write of the challenge under way the row is excused.
<1>w. ASSUME NEW id \in Sent, Reordered(id) \subseteq past'.faults
      PROVE  \A wr \in writes : wr[1] # id
  BY <1>1, <1>w DEF Reordered
<1>9. ASSUME NEW id \in Sent, (\E w \in Wallets : Refuse(w, id)) \/ sweepExpired(id)
      PROVE  ChallengeInv'
  <2>1. Transition(id, "over") /\ Happens(Reordered(id)) BY <1>9 DEF Refuse, sweepExpired
  <2>2. Reordered(id) \in SUBSET Faults BY FaultsKnown
  <2>3. past'.faults = past.faults \cup Reordered(id) /\ past'.accepts = past.accepts
    BY <1>0, <2>1, <2>2, HappensTyped
  <2>4. \A wr \in writes : wr[1] # id BY <1>w, <2>3
  <2> QED BY <1>0, <1>3, <2>1, <2>3, <2>4, ChallengeTransition
<1>10. ASSUME NEW id \in Sent, NEW kind \in Kinds, Accept(id, kind) PROVE ChallengeInv'
  <2>1. Transition(id, "accepted") BY <1>10 DEF Accept
  <2>2. past' = [accepts |-> [past.accepts EXCEPT ![id] = @ + 1],
                 faults |-> past.faults \cup Reordered(id), mishaps |-> past.mishaps]
    BY <1>10 DEF Accept
  <2>3. /\ past'.accepts = [past.accepts EXCEPT ![id] = @ + 1]
        /\ past'.faults = past.faults \cup Reordered(id)
    BY <2>2
  <2>4. \A wr \in writes : wr[1] # id BY <1>w, <2>3
  <2>5. past.accepts \in [Ids -> Nat] /\ id \in Ids BY ChallengeFacts
  <2>6. past'.accepts[id] = past.accepts[id] + 1
        /\ \A i \in Ids : i # id => past'.accepts[i] = past.accepts[i]
    BY <2>3, <2>5
  <2> QED BY <1>0, <1>3, <2>1, <2>4, <2>6, ChallengeTransition
<1>11. CASE UNCHANGED vars BY <1>11, <1>u DEF vars, requestVars
<1> QED BY <1>4, <1>5, <1>6, <1>7, <1>8, <1>9, <1>10, <1>11, NextCases

LEMMA SoundWhenInv ==
  ASSUME Types, ~Excused => ChallengeInv
  PROVE  ChallengesAreSound
<1> SUFFICES ASSUME ~Excused PROVE ChallengesAreSound
  BY DEF Excused, ChallengesAreSound, AcceptedOnce, PendingWithinLimits
<1>1. ChallengeInv OBVIOUS
<1>2. AcceptedOnce BY <1>1 DEF ChallengeInv, AcceptInv, AcceptedOnce, InMemory
<1>3. ASSUME NEW w \in Wallets
      PROVE  LET open == {id \in Pending : requests[id].from = w} IN
             /\ Cardinality(open) <= MAX_PENDING_PER_SENDER
             /\ \A i, j \in open : requests[i].to = requests[j].to => i = j
  <2> DEFINE open == {id \in Pending : requests[id].from = w}
  <2>1. open \subseteq Open(w) /\ Open(w) \subseteq Sent BY DEF Open, Pending
  <2>2. WithinLimits(w) BY <1>1 DEF ChallengeInv, LimitInv
  <2> HIDE DEF open
  <2>3. IsFiniteSet(Open(w)) BY <2>1, SentFacts, FS_Subset DEF Types
  <2>4. /\ Cardinality(open) <= Cardinality(Open(w))
        /\ Cardinality(open) \in Nat /\ Cardinality(Open(w)) \in Nat
    BY <2>1, <2>3, FS_Subset, FS_CardinalityType
  <2>5. Cardinality(open) <= MAX_PENDING_PER_SENDER
    BY <2>2, <2>4, TavernAssumption DEF WithinLimits
  <2>6. \A i, j \in open : requests[i].to = requests[j].to => i = j
    BY <2>1, <2>2 DEF WithinLimits
  <2> QED BY <2>5, <2>6 DEF open
<1>4. PendingWithinLimits BY <1>3 DEF PendingWithinLimits
<1> QED BY <1>2, <1>4 DEF ChallengesAreSound

\* A challenge is accepted at most once and stays accepted, and nobody has more
\* open than allowed nor two to one player, across restarts, unless writes of
\* one challenge overtook each other or were lost, or the rows were not read in time.
THEOREM ChallengesStaySound == Spec => []ChallengesAreSound
<1>1. Init => ChallengeInv
  <2> SUFFICES ASSUME Init PROVE ChallengeInv OBVIOUS
  <2>1. Sent = {} BY DEF Init, Sent
  <2>2. RowsFollow /\ BootInv BY <2>1 DEF Init, RowsFollow, BootInv
  <2>3. AcceptInv BY <2>1 DEF Init, AcceptInv
  <2>4. LimitInv
    <3>1. \A w : Open(w) = {} BY <2>1 DEF Open
    <3>2. Cardinality({}) = 0 BY FS_EmptySet
    <3> QED BY <3>1, <3>2, TavernAssumption DEF LimitInv, WithinLimits
  <2> QED BY <2>2, <2>3, <2>4 DEF ChallengeInv
<1>2. Types /\ (~Excused => ChallengeInv) /\ [Next]_vars => (~Excused => ChallengeInv)'
  BY ChallengeStep
<1>3. Types /\ (~Excused => ChallengeInv) => ChallengesAreSound BY SoundWhenInv
<1> QED BY <1>1, <1>2, <1>3, TypesHold, PTL DEF Spec
=============================================================================
