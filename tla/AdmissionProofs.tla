-------------------------- MODULE AdmissionProofs --------------------------
(***************************************************************************)
(* Proofs about Admission, for any wallets and wagers: types, that a wager *)
(* is fought for only after its creator approved a challenger, that it has *)
(* one fight at a time, and that a wager with both stakes in escrow is in  *)
(* somebody's hand.                                                        *)
(***************************************************************************)
EXTENDS Admission, FiniteSetTheorems, TLAPS

(***************************************************************************)
(* The invariant: what wagers, messages, handlers and fights may count on  *)
(***************************************************************************)
Statuses == OpenStatuses \cup {"ABSENT", "SETTLED"}
WagerR == [status : Statuses, challenger : Wallets \cup {None}]
MessageR == [kind : Kinds \cup {"queue_fight"}, who : Wallets, wager : Wagers]
HandlerR == [kind : Kinds \cup {"rehydrate"}, who : Wallets, wager : Wagers,
             entry : Wallets \cup {None, Absent}, own : Wagers \cup {None},
             queued : BOOLEAN, status : OpenStatuses \cup {"UNREAD", "SETTLED"}]

ClientFields == {"online", "posted", "listed"}
RoomFields == {"starting", "active", "seat"}
PastFields == {"givenUp", "unwritten", "unseated", "challenges", "mishaps"}

Shapes ==
  /\ chain \in [Wagers -> WagerR]
  /\ DOMAIN client = ClientFields /\ client.online \subseteq Wallets
  /\ client.listed \subseteq Wagers
  /\ lobby \in [Wagers -> Wallets \cup {None, Absent}]
  /\ queue \subseteq client.online
  /\ DOMAIN rooms = RoomFields
  /\ cancels \subseteq Wagers /\ rows \subseteq Wagers
  /\ DOMAIN boot = {"registry", "rows"}
  /\ boot.registry \subseteq Wagers /\ boot.rows \subseteq Wagers
  /\ DOMAIN past = PastFields

\* Its creator approved a challenger; that is so for ever.
Approved(w) == chain[w].status \in {"ACTIVE", "SETTLED"} /\ chain[w].challenger # None

\* Somebody on the server's side has the wager in hand.
InHand(w) ==
  \/ lobby[w] # Absent
  \/ w \in cancels \cup rows \cup boot.registry \cup past.givenUp \cup past.unwritten
  \/ \E h \in handlers : h.kind = "rehydrate" /\ h.wager = w

WagerI(w) ==
  /\ chain[w].status \in {"PENDING_APPROVAL", "ACTIVE"} =>
       chain[w].challenger # None /\ w \in client.listed
  /\ chain[w].challenger # CreatorOf[w] /\ lobby[w] # CreatorOf[w]
  /\ w \in client.listed => chain[w].status # "ABSENT"
  /\ w \in rows => Approved(w)
  /\ w \in client.listed /\ Open(w) => InHand(w)

MessageI(m) ==
  /\ m \in MessageR /\ m.who \in client.online
  /\ chain[m.wager].status # "ABSENT"
  /\ m.kind \in {"wager_accepted", "queue_fight"} => m.who = CreatorOf[m.wager]
  /\ m.kind = "wager_request_accepted" => m.who # CreatorOf[m.wager]

HandlerI(h) ==
  /\ h \in HandlerR
  /\ chain[h.wager].status # "ABSENT"
  /\ h.kind = "wager_accepted" => h.who = CreatorOf[h.wager] /\ h.who \in client.online
  /\ h.kind = "wager_request_accepted" => h.who # CreatorOf[h.wager]
  /\ h.entry # CreatorOf[h.wager]
  /\ h.kind = "wager_accepted" /\ h.status = "ACTIVE" => Approved(h.wager)
  /\ h.status = "SETTLED" => chain[h.wager].status = "SETTLED"
  /\ h.kind = "rehydrate" => h.status \in {"WAITING", "PENDING_APPROVAL"} /\ h.entry # Absent

FightI(f) ==
  /\ f.wager \in Wagers \cup {None}
  /\ f.wager # None => Approved(f.wager) /\ CreatorOf[f.wager] \in f.players \cap client.online

AdmissionInv ==
  /\ Shapes
  /\ \A m \in client.posted : MessageI(m)
  /\ \A h \in handlers : HandlerI(h)
  /\ \A f \in Fights : FightI(f)
  /\ \A w \in Wagers : WagerI(w)

LEMMA Given ==
  /\ CreatorOf \in [Wagers -> Wallets]
  /\ None \notin Wallets /\ None \notin Wagers /\ Absent \notin Wallets /\ Absent \notin Wagers
  /\ None # Absent /\ Casual \subseteq Wallets
BY AdmissionAssumption

LEMMA ApprovedFights == AdmissionInv => FightOnlyAfterApproval
<1> SUFFICES ASSUME AdmissionInv, NEW f \in Fights, f.wager # None
             PROVE  Approved(f.wager)
  BY DEF FightOnlyAfterApproval, Approved
<1> QED BY DEF AdmissionInv, FightI

LEMMA OwnedWagers == AdmissionInv => ActiveIsOwned
<1> SUFFICES ASSUME AdmissionInv, NEW w \in Wagers, chain[w].status = "ACTIVE"
             PROVE  InHand(w)
  BY DEF ActiveIsOwned, InHand
<1>1. WagerI(w) BY DEF AdmissionInv
<1> QED BY <1>1 DEF WagerI, Open, OpenStatuses

LEMMA InitAdmission == Init => AdmissionInv
<1> SUFFICES ASSUME Init PROVE AdmissionInv OBVIOUS
<1>1. /\ chain = [w \in Wagers |-> [status |-> "ABSENT", challenger |-> None]]
      /\ client = [online |-> Wallets, posted |-> {}, listed |-> {}]
      /\ lobby = [w \in Wagers |-> Absent] /\ queue = {}
      /\ rooms = [starting |-> {}, active |-> {}, seat |-> [p \in Wallets |-> None]]
      /\ handlers = {} /\ cancels = {} /\ rows = {} /\ boot = [registry |-> {}, rows |-> {}]
      /\ past = [givenUp |-> {}, unwritten |-> {}, unseated |-> FALSE, challenges |-> 0, mishaps |-> 0]
  BY DEF Init
<1>2. chain \in [Wagers -> WagerR] BY <1>1 DEF WagerR, Statuses
<1>3. Shapes BY <1>1, <1>2 DEF Shapes, ClientFields, RoomFields, PastFields
<1>4. Fights = {} /\ client.posted = {} /\ client.listed = {} BY <1>1 DEF Fights
<1>5. ASSUME NEW w \in Wagers PROVE WagerI(w)
  <2>1. chain[w].status = "ABSENT" /\ chain[w].challenger = None /\ lobby[w] = Absent BY <1>1
  <2>2. CreatorOf[w] \in Wallets BY Given
  <2> QED BY <1>1, <1>4, <2>1, <2>2, Given DEF WagerI
<1> QED BY <1>1, <1>3, <1>4, <1>5 DEF AdmissionInv

(***************************************************************************)
(* What every step keeps: the chain's records only go on                   *)
(***************************************************************************)
Onward(w) ==
  /\ chain[w].status # "ABSENT" => chain'[w].status # "ABSENT"
  /\ Approved(w) => Approved(w)'
  /\ chain[w].status = "SETTLED" => chain'[w].status = "SETTLED"

Later == client.online \subseteq client'.online /\ \A w \in Wagers : Onward(w)

LEMMA SameChain ==
  ASSUME UNCHANGED chain, client.online \subseteq client'.online PROVE Later
BY DEF Later, Onward, Approved

LEMMA MessageStays ==
  ASSUME Later, NEW m, MessageI(m) PROVE MessageI(m)'
<1>1. m.wager \in Wagers BY DEF MessageI, MessageR
<1> QED BY <1>1 DEF MessageI, Later, Onward

LEMMA HandlerStays ==
  ASSUME Later, NEW h, HandlerI(h) PROVE HandlerI(h)'
<1>1. h.wager \in Wagers BY DEF HandlerI, HandlerR
<1> QED BY <1>1 DEF HandlerI, Later, Onward

LEMMA FightStays ==
  ASSUME Later, NEW f, FightI(f) PROVE FightI(f)'
<1>1. f.wager # None => f.wager \in Wagers BY DEF FightI
<1> QED BY <1>1 DEF FightI, Later, Onward

(***************************************************************************)
(* The players                                                             *)
(***************************************************************************)
LEMMA PostsEffect ==
  ASSUME Shapes, NEW m, Posts(m)
  PROVE  /\ DOMAIN client' = ClientFields /\ client'.online = client.online
         /\ client'.listed = client.listed
         /\ \/ client'.posted = client.posted
            \/ client'.posted = client.posted \cup {m} /\ m.who \in client.online
<1>1. DOMAIN client = ClientFields BY DEF Shapes
<1>2. CASE m.who \in client.online
  <2>1. client' = [client EXCEPT !.posted = @ \cup {m}] BY <1>2 DEF Posts
  <2> QED BY <1>1, <1>2, <2>1 DEF ClientFields
<1>3. CASE m.who \notin client.online
  <2>1. client' = client BY <1>3 DEF Posts
  <2> QED BY <1>1, <2>1
<1> QED BY <1>2, <1>3

LEMMA MessageTyped ==
  ASSUME NEW k \in Kinds \cup {"queue_fight"}, NEW p \in Wallets, NEW w \in Wagers
  PROVE  /\ Message(k, p, w) \in MessageR
         /\ Message(k, p, w).kind = k /\ Message(k, p, w).who = p /\ Message(k, p, w).wager = w
BY DEF Message, MessageR

\* A transaction about w that leaves it with record r, and its message m.
Signed(w, r, m) ==
  /\ chain' = [chain EXCEPT ![w] = r]
  /\ UNCHANGED client \/ Posts(m)
  /\ DOMAIN past' = PastFields /\ past'.givenUp = past.givenUp
  /\ past'.unwritten = past.unwritten
  /\ ServerUnchanged

\* A record that may follow the one of w.
Follows(w, r) ==
  /\ r \in WagerR /\ r.challenger # CreatorOf[w] /\ r.status # "ABSENT"
  /\ r.status \in {"PENDING_APPROVAL", "ACTIVE"} => r.challenger # None /\ w \in client.listed
  /\ Approved(w) => r.status \in {"ACTIVE", "SETTLED"} /\ r.challenger # None
  /\ chain[w].status = "SETTLED" => r.status = "SETTLED"
  /\ r.status \in OpenStatuses => Open(w) \/ w \notin client.listed

LEMMA RecordChanges ==
  ASSUME Shapes, NEW w \in Wagers, NEW r, Follows(w, r), chain' = [chain EXCEPT ![w] = r]
  PROVE  /\ chain' \in [Wagers -> WagerR]
         /\ \A v \in Wagers : chain'[v] = (IF v = w THEN r ELSE chain[v]) /\ Onward(v)
<1>1. chain \in [Wagers -> WagerR] /\ r \in WagerR BY DEF Shapes, Follows
<1>2. /\ chain' \in [Wagers -> WagerR]
      /\ \A v \in Wagers : chain'[v] = IF v = w THEN r ELSE chain[v]
  BY <1>1
<1> QED BY <1>2 DEF Follows, Onward, Approved

LEMMA SignedKeeps ==
  ASSUME AdmissionInv, NEW w \in Wagers, NEW r, NEW m, Follows(w, r), Signed(w, r, m),
         m \in MessageR, m.wager = w,
         m.kind \in {"wager_accepted", "queue_fight"} => m.who = CreatorOf[w],
         m.kind = "wager_request_accepted" => m.who # CreatorOf[w]
  PROVE  AdmissionInv'
<1>1. Shapes BY DEF AdmissionInv
<1>2. /\ chain' \in [Wagers -> WagerR]
      /\ \A v \in Wagers : chain'[v] = (IF v = w THEN r ELSE chain[v]) /\ Onward(v)
  BY <1>1, RecordChanges DEF Signed
<1>3. /\ DOMAIN client' = ClientFields /\ client'.online = client.online
      /\ client'.listed = client.listed
      /\ \/ client'.posted = client.posted
         \/ client'.posted = client.posted \cup {m} /\ m.who \in client.online
  BY <1>1, PostsEffect DEF Signed, Shapes
<1>4. /\ UNCHANGED lobby /\ UNCHANGED queue /\ UNCHANGED rooms /\ UNCHANGED handlers
      /\ UNCHANGED cancels /\ UNCHANGED boot /\ UNCHANGED rows
      /\ DOMAIN past' = PastFields /\ past'.givenUp = past.givenUp
      /\ past'.unwritten = past.unwritten
  BY DEF Signed, ServerUnchanged
<1>5. Later BY <1>2, <1>3 DEF Later
<1>6. Shapes' BY <1>1, <1>2, <1>3, <1>4 DEF Shapes
<1>7. MessageI(m)' \/ client'.posted = client.posted
  <2>1. chain'[w].status # "ABSENT" BY <1>2 DEF Follows
  <2> QED BY <1>3, <2>1 DEF MessageI
<1>8. \A n \in client'.posted : MessageI(n)'
  <2>1. \A n \in client.posted : MessageI(n)' BY <1>5, MessageStays DEF AdmissionInv
  <2> QED BY <1>3, <1>7, <2>1
<1>9. \A h \in handlers' : HandlerI(h)' BY <1>4, <1>5, HandlerStays DEF AdmissionInv
<1>10. \A f \in Fights' : FightI(f)'
  <2>1. Fights' = Fights BY <1>4 DEF Fights
  <2> QED BY <1>5, <2>1, FightStays DEF AdmissionInv
<1>11. ASSUME NEW v \in Wagers PROVE WagerI(v)'
  <2>1. WagerI(v) BY DEF AdmissionInv
  <2>2. InHand(v)' <=> InHand(v) BY <1>4 DEF InHand
  <2>3. CASE v = w
    <3>1. chain'[v] = r /\ Onward(v) BY <1>2, <2>3
    <3>2. v \in client.listed /\ r.status \in OpenStatuses => InHand(v)
      BY <2>1, <2>3 DEF Follows, WagerI
    <3> QED BY <1>3, <1>4, <2>1, <2>2, <2>3, <3>1, <3>2 DEF WagerI, Follows, Onward, Open
  <2>4. CASE v # w
    <3>1. chain'[v] = chain[v] BY <1>2, <2>4
    <3> QED BY <1>3, <1>4, <2>1, <2>2, <3>1 DEF WagerI, Approved, Open
  <2> QED BY <2>3, <2>4
<1> QED BY <1>6, <1>8, <1>9, <1>10, <1>11 DEF AdmissionInv

\* The record of a wager that ends may follow any open one.
EndOf(w) == [status |-> "SETTLED",
             challenger |-> IF chain[w].status = "ACTIVE" THEN chain[w].challenger ELSE None]

LEMMA ClosedIs ==
  ASSUME AdmissionInv, NEW w \in Wagers, Open(w)
  PROVE  Closed(w) = [chain EXCEPT ![w] = EndOf(w)] /\ Follows(w, EndOf(w))
<1>1. Closed(w) = [chain EXCEPT ![w] = EndOf(w)] BY DEF Closed, EndOf
<1>2. chain[w] \in WagerR /\ WagerI(w) BY DEF AdmissionInv, Shapes
<1>3. CreatorOf[w] # None BY Given
<1>4. EndOf(w) \in WagerR /\ EndOf(w).status = "SETTLED"
      /\ EndOf(w).challenger = IF chain[w].status = "ACTIVE" THEN chain[w].challenger ELSE None
  BY <1>2 DEF EndOf, WagerR, Statuses
<1>5. "SETTLED" \notin OpenStatuses BY DEF OpenStatuses
<1> QED
  BY <1>1, <1>2, <1>3, <1>4, <1>5 DEF Follows, WagerI, Approved, Open

LEMMA CreateWagerKeeps ==
  ASSUME AdmissionInv, NEW w \in Wagers, create_wager(w) PROVE AdmissionInv'
<1> DEFINE r == [chain[w] EXCEPT !.status = "WAITING"]
           m == Message("queue_fight", CreatorOf[w], w)
<1>1. /\ chain[w].status = "ABSENT" /\ chain' = [chain EXCEPT ![w] = r] /\ Posts(m)
      /\ UNCHANGED past /\ ServerUnchanged
  BY DEF create_wager
<1>2. chain[w] \in WagerR /\ WagerI(w) BY DEF AdmissionInv, Shapes
<1>3. r \in WagerR /\ r.status = "WAITING" /\ r.challenger = chain[w].challenger
  BY <1>2 DEF WagerR, Statuses, OpenStatuses
<1> HIDE DEF r
<1>4. Follows(w, r) BY <1>1, <1>2, <1>3 DEF Follows, WagerI, Approved
<1>5. m \in MessageR /\ m.kind = "queue_fight" /\ m.who = CreatorOf[w] /\ m.wager = w
  BY Given, MessageTyped
<1> HIDE DEF m
<1>6. Signed(w, r, m) BY <1>1 DEF Signed, AdmissionInv, Shapes
<1> QED BY <1>4, <1>5, <1>6, SignedKeeps

LEMMA RequestKeeps ==
  ASSUME AdmissionInv, NEW w \in Wagers, NEW p \in Wallets, request_accept_wager(p, w)
  PROVE  AdmissionInv'
<1> DEFINE r == [status |-> "PENDING_APPROVAL", challenger |-> p]
           m == Message("wager_request_accepted", p, w)
<1>1. /\ chain[w].status = "WAITING" /\ w \in client.listed /\ p # CreatorOf[w]
      /\ chain' = [chain EXCEPT ![w] = r] /\ Posts(m)
      /\ past' = [past EXCEPT !.challenges = @ + 1] /\ ServerUnchanged
  BY DEF request_accept_wager
<1>2. r \in WagerR /\ r.status = "PENDING_APPROVAL" /\ r.challenger = p
  BY DEF WagerR, Statuses, OpenStatuses
<1> HIDE DEF r
<1>3. Follows(w, r)
  BY <1>1, <1>2, Given DEF Follows, Approved, Open, OpenStatuses
<1>4. m \in MessageR /\ m.kind = "wager_request_accepted" /\ m.who = p /\ m.wager = w
  BY MessageTyped DEF Kinds, Handshakes
<1> HIDE DEF m
<1>5. /\ DOMAIN past' = PastFields /\ past'.givenUp = past.givenUp
      /\ past'.unwritten = past.unwritten
  BY <1>1 DEF AdmissionInv, Shapes, PastFields
<1>6. Signed(w, r, m) BY <1>1, <1>5 DEF Signed
<1> QED BY <1>1, <1>3, <1>4, <1>6, SignedKeeps

LEMMA ApproveKeeps ==
  ASSUME AdmissionInv, NEW w \in Wagers, approve_challenger(w) PROVE AdmissionInv'
<1> DEFINE r == [chain[w] EXCEPT !.status = "ACTIVE"]
           m == Message("wager_accepted", CreatorOf[w], w)
<1>1. /\ chain[w].status = "PENDING_APPROVAL" /\ chain' = [chain EXCEPT ![w] = r] /\ Posts(m)
      /\ UNCHANGED past /\ ServerUnchanged
  BY DEF approve_challenger
<1>2. chain[w] \in WagerR /\ WagerI(w) BY DEF AdmissionInv, Shapes
<1>3. r \in WagerR /\ r.status = "ACTIVE" /\ r.challenger = chain[w].challenger
  BY <1>2 DEF WagerR, Statuses, OpenStatuses
<1> HIDE DEF r
<1>4. Follows(w, r)
  BY <1>1, <1>2, <1>3 DEF Follows, WagerI, Approved, Open, OpenStatuses
<1>5. m \in MessageR /\ m.kind = "wager_accepted" /\ m.who = CreatorOf[w] /\ m.wager = w
  <2>1. CreatorOf[w] \in Wallets BY Given
  <2>2. "wager_accepted" \in Kinds \cup {"queue_fight"} BY DEF Kinds
  <2> QED BY <2>1, <2>2, MessageTyped
<1> HIDE DEF m
<1>6. Signed(w, r, m) BY <1>1 DEF Signed, AdmissionInv, Shapes
<1> QED BY <1>4, <1>5, <1>6, SignedKeeps

LEMMA ChallengeEndsKeeps ==
  ASSUME AdmissionInv, NEW w \in Wagers, NEW p \in Wallets, ChallengeEnds(p, w)
  PROVE  AdmissionInv'
<1> DEFINE r == [status |-> "WAITING", challenger |-> None]
           m == Message("wager_declined", p, w)
<1>1. /\ chain[w].status = "PENDING_APPROVAL" /\ chain' = [chain EXCEPT ![w] = r] /\ Posts(m)
      /\ UNCHANGED past /\ ServerUnchanged
  BY DEF ChallengeEnds
<1>2. r \in WagerR /\ r.status = "WAITING" /\ r.challenger = None
  BY DEF WagerR, Statuses, OpenStatuses
<1> HIDE DEF r
<1>3. CreatorOf[w] # None BY Given
<1>4. Follows(w, r) BY <1>1, <1>2, <1>3 DEF Follows, Approved, Open, OpenStatuses
<1>5. m \in MessageR /\ m.kind = "wager_declined" /\ m.wager = w
  BY MessageTyped DEF Kinds, Handshakes
<1> HIDE DEF m
<1>6. Signed(w, r, m) BY <1>1 DEF Signed, AdmissionInv, Shapes
<1> QED BY <1>4, <1>5, <1>6, SignedKeeps

LEMMA ReclaimKeeps ==
  ASSUME AdmissionInv, NEW w \in Wagers, NEW p \in Wallets, reclaim_stalled_wager(p, w)
  PROVE  AdmissionInv'
<1> DEFINE m == Message("wager_reclaimed", p, w)
<1>1. /\ chain[w].status = "ACTIVE" /\ chain' = Closed(w) /\ Posts(m)
      /\ UNCHANGED past /\ ServerUnchanged
  BY DEF reclaim_stalled_wager
<1>2. Closed(w) = [chain EXCEPT ![w] = EndOf(w)] /\ Follows(w, EndOf(w))
  BY <1>1, ClosedIs DEF Open, OpenStatuses
<1>3. m \in MessageR /\ m.kind = "wager_reclaimed" /\ m.wager = w
  BY MessageTyped DEF Kinds, Handshakes
<1> HIDE DEF m
<1>4. Signed(w, EndOf(w), m) BY <1>1, <1>2 DEF Signed, AdmissionInv, Shapes
<1> QED BY <1>2, <1>3, <1>4, SignedKeeps

LEMMA CancelKeeps ==
  ASSUME AdmissionInv, NEW w \in Wagers, cancel_wager(w) PROVE AdmissionInv'
<1> DEFINE m == Message("wager_reclaimed", CreatorOf[w], w)
<1>1. Open(w) /\ chain' = Closed(w) /\ UNCHANGED <<client, past>> /\ ServerUnchanged
  BY DEF cancel_wager
<1>2. Closed(w) = [chain EXCEPT ![w] = EndOf(w)] /\ Follows(w, EndOf(w)) BY <1>1, ClosedIs
<1>3. m \in MessageR /\ m.kind = "wager_reclaimed" /\ m.wager = w
  BY Given, MessageTyped DEF Kinds, Handshakes
<1> HIDE DEF m
<1>4. Signed(w, EndOf(w), m) BY <1>1, <1>2 DEF Signed, AdmissionInv, Shapes
<1> QED BY <1>2, <1>3, <1>4, SignedKeeps

LEMMA ResendKeeps ==
  ASSUME AdmissionInv, NEW w \in Wagers, Resend(w) PROVE AdmissionInv'
<1> DEFINE m == Message("wager_accepted", CreatorOf[w], w)
<1>1. /\ chain[w].status \in {"PENDING_APPROVAL", "ACTIVE"} /\ Posts(m)
      /\ past' = [past EXCEPT !.mishaps = @ + 1] /\ UNCHANGED chain /\ ServerUnchanged
  BY DEF Resend
<1>2. chain \in [Wagers -> WagerR] /\ WagerI(w) BY DEF AdmissionInv, Shapes
<1>3. chain' = [chain EXCEPT ![w] = chain[w]] BY <1>1, <1>2
<1>4. Follows(w, chain[w])
  BY <1>1, <1>2 DEF Follows, WagerI, Approved, Open, OpenStatuses
<1>5. m \in MessageR /\ m.kind = "wager_accepted" /\ m.who = CreatorOf[w] /\ m.wager = w
  <2>1. CreatorOf[w] \in Wallets BY Given
  <2>2. "wager_accepted" \in Kinds \cup {"queue_fight"} BY DEF Kinds
  <2> QED BY <2>1, <2>2, MessageTyped
<1> HIDE DEF m
<1>6. /\ DOMAIN past' = PastFields /\ past'.givenUp = past.givenUp
      /\ past'.unwritten = past.unwritten
  BY <1>1 DEF AdmissionInv, Shapes, PastFields
<1>7. Signed(w, chain[w], m) BY <1>1, <1>3, <1>6 DEF Signed
<1> QED BY <1>4, <1>5, <1>7, SignedKeeps

(***************************************************************************)
(* The server                                                              *)
(***************************************************************************)
LEMMA Composed ==
  ASSUME AdmissionInv, Shapes', Later,
         \A m \in client'.posted : m \in client.posted \/ MessageI(m)',
         \A h \in handlers' : h \in handlers \/ HandlerI(h)',
         \A f \in Fights' : f \in Fights \/ FightI(f)',
         \A w \in Wagers : WagerI(w)'
  PROVE  AdmissionInv'
<1>1. \A m \in client'.posted : MessageI(m)' BY MessageStays DEF AdmissionInv
<1>2. \A h \in handlers' : HandlerI(h)' BY HandlerStays DEF AdmissionInv
<1>3. \A f \in Fights' : FightI(f)' BY FightStays DEF AdmissionInv
<1> QED BY <1>1, <1>2, <1>3 DEF AdmissionInv

\* What a step that leaves w alone on chain must keep.
Kept(w) ==
  /\ chain'[w] = chain[w] /\ lobby'[w] # CreatorOf[w]
  /\ w \in client.listed => w \in client'.listed
  /\ w \in client'.listed => w \in client.listed \/ (chain[w].status # "ABSENT" /\ InHand(w)')
  /\ w \in rows' => w \in rows \/ Approved(w)
  /\ Open(w) /\ InHand(w) => InHand(w)'

LEMMA KeptStays ==
  ASSUME NEW w \in Wagers, WagerI(w), Kept(w) PROVE WagerI(w)'
BY DEF WagerI, Kept, Approved, Open

\* A wager that nothing happens to.
LEMMA Untouched ==
  ASSUME NEW w \in Wagers, WagerI(w), UNCHANGED chain, UNCHANGED lobby, UNCHANGED rows,
         client'.listed = client.listed, cancels \subseteq cancels',
         boot.registry \subseteq boot'.registry, past.givenUp \subseteq past'.givenUp,
         past.unwritten \subseteq past'.unwritten,
         \A h \in handlers : h.kind = "rehydrate" => h \in handlers'
  PROVE  WagerI(w)'
<1>1. InHand(w) => InHand(w)' BY DEF InHand
<1> QED BY <1>1 DEF WagerI, Approved, Open

LEMMA CancelEntriesEffect ==
  ASSUME Shapes, NEW ws \in SUBSET Wagers, CancelEntries(ws)
  PROVE  /\ lobby' \in [Wagers -> Wallets \cup {None, Absent}]
         /\ \A w \in Wagers : lobby'[w] = IF w \in ws THEN Absent ELSE lobby[w]
         /\ cancels' = cancels \cup ws /\ cancels' \subseteq Wagers
<1>1. lobby' = [w \in Wagers |-> IF w \in ws THEN Absent ELSE lobby[w]]
      /\ cancels' = cancels \cup ws
  BY DEF CancelEntries
<1>2. lobby \in [Wagers -> Wallets \cup {None, Absent}] /\ cancels \subseteq Wagers BY DEF Shapes
<1>3. \A w \in Wagers : (IF w \in ws THEN Absent ELSE lobby[w]) \in Wallets \cup {None, Absent}
  BY <1>2
<1> QED BY <1>1, <1>2, <1>3

\* Entries that are cancelled are in hand still: in the treasury queue.
LEMMA CancelledIsKept ==
  ASSUME AdmissionInv, NEW ws \in SUBSET Wagers, CancelEntries(ws), NEW w \in Wagers,
         UNCHANGED chain, UNCHANGED rows, UNCHANGED boot, UNCHANGED past,
         client'.listed = client.listed,
         \A h \in handlers : h.kind = "rehydrate" => h \in handlers'
  PROVE  WagerI(w)'
<1>1. /\ \A v \in Wagers : lobby'[v] = IF v \in ws THEN Absent ELSE lobby[v]
      /\ cancels' = cancels \cup ws
  BY CancelEntriesEffect DEF AdmissionInv
<1>2. WagerI(w) /\ CreatorOf[w] # Absent BY Given DEF AdmissionInv
<1>3. InHand(w) => InHand(w)' BY <1>1 DEF InHand
<1>4. lobby'[w] # CreatorOf[w] BY <1>1, <1>2 DEF WagerI
<1> QED BY <1>2, <1>3, <1>4, KeptStays DEF Kept

LEMMA NewFightIs ==
  ASSUME NEW w, NEW ps
  PROVE  NewFight(w, ps).wager = w /\ NewFight(w, ps).players = ps
<1> DEFINE used == {f.id : f \in {g \in Fights : g.wager = w}}
           n == CHOOSE i \in 1 .. Cardinality(used) + 1 : i \notin used
<1>1. NewFight(w, ps) = [id |-> n, wager |-> w, players |-> ps] BY DEF NewFight
<1> HIDE DEF n
<1> QED BY <1>1

LEMMA QueueWagerKeeps ==
  ASSUME AdmissionInv, NEW m, QueueWager(m) PROVE AdmissionInv'
<1> DEFINE rest == client.posted \ {m}
<1>1. /\ m \in client.posted /\ m.kind = "queue_fight"
      /\ IF Busy(m.who)
         THEN client' = [client EXCEPT !.posted = rest] /\ UNCHANGED lobby
         ELSE /\ client' = [client EXCEPT !.posted = rest, !.listed = @ \cup {m.wager}]
              /\ lobby' = [lobby EXCEPT ![m.wager] = None]
      /\ UNCHANGED chain /\ UNCHANGED queue /\ UNCHANGED rooms /\ UNCHANGED handlers
      /\ UNCHANGED cancels /\ UNCHANGED boot /\ UNCHANGED rows /\ UNCHANGED past
  BY DEF QueueWager
<1>2. Shapes /\ MessageI(m) /\ m.wager \in Wagers
  BY <1>1 DEF AdmissionInv, MessageI, MessageR
<1>3. /\ DOMAIN client' = ClientFields /\ client'.online = client.online
      /\ client'.posted \subseteq client.posted
      /\ client'.listed = IF Busy(m.who) THEN client.listed ELSE client.listed \cup {m.wager}
  <2>1. DOMAIN client = ClientFields /\ rest \subseteq client.posted BY <1>2 DEF Shapes
  <2> HIDE DEF rest
  <2>2. CASE Busy(m.who)
    <3>1. client' = [client EXCEPT !.posted = rest] BY <1>1, <2>2
    <3> QED BY <2>1, <2>2, <3>1 DEF ClientFields
  <2>3. CASE ~Busy(m.who)
    <3>1. client' = [client EXCEPT !.posted = rest, !.listed = @ \cup {m.wager}] BY <1>1, <2>3
    <3> QED BY <2>1, <2>3, <3>1 DEF ClientFields
  <2> QED BY <2>2, <2>3
<1>4. /\ lobby' \in [Wagers -> Wallets \cup {None, Absent}]
      /\ \A w \in Wagers : lobby'[w] = IF ~Busy(m.who) /\ w = m.wager THEN None ELSE lobby[w]
  BY <1>1, <1>2 DEF Shapes
<1>5. Shapes' BY <1>1, <1>2, <1>3, <1>4 DEF Shapes
<1>6. Later BY <1>1, <1>3, SameChain
<1>7. ASSUME NEW w \in Wagers PROVE WagerI(w)'
  <2>1. WagerI(w) /\ CreatorOf[w] # None /\ None # Absent BY Given DEF AdmissionInv
  <2>2. CASE ~Busy(m.who) /\ w = m.wager
    <3>1. lobby'[w] = None /\ chain[w].status # "ABSENT" BY <1>2, <1>4, <2>2 DEF MessageI
    <3>2. InHand(w)' BY <2>1, <3>1 DEF InHand
    <3> QED BY <1>1, <1>3, <2>1, <3>1, <3>2, KeptStays DEF Kept
  <2>3. CASE ~(~Busy(m.who) /\ w = m.wager)
    <3>1. lobby'[w] = lobby[w] /\ (w \in client'.listed <=> w \in client.listed)
      BY <1>3, <1>4, <2>3
    <3>2. InHand(w)' <=> InHand(w) BY <1>1, <3>1 DEF InHand
    <3> QED BY <1>1, <2>1, <3>1, <3>2, KeptStays DEF Kept, WagerI
  <2> QED BY <2>2, <2>3
<1>8. Fights' = Fights BY <1>1 DEF Fights
<1> QED BY <1>1, <1>3, <1>5, <1>6, <1>7, <1>8, Composed

LEMMA LostKeeps ==
  ASSUME AdmissionInv, NEW m, Lost(m) PROVE AdmissionInv'
<1>1. /\ client' = [client EXCEPT !.posted = @ \ {m}]
      /\ UNCHANGED chain /\ UNCHANGED past /\ ServerUnchanged
  BY DEF Lost
<1>2. /\ UNCHANGED lobby /\ UNCHANGED queue /\ UNCHANGED rooms /\ UNCHANGED handlers
      /\ UNCHANGED cancels /\ UNCHANGED boot /\ UNCHANGED rows
  BY <1>1 DEF ServerUnchanged
<1>3. /\ DOMAIN client' = ClientFields /\ client'.online = client.online
      /\ client'.posted \subseteq client.posted /\ client'.listed = client.listed
  BY <1>1 DEF AdmissionInv, Shapes, ClientFields
<1>4. Shapes' BY <1>1, <1>2, <1>3 DEF AdmissionInv, Shapes
<1>5. Later BY <1>1, <1>3, SameChain
<1>6. \A w \in Wagers : WagerI(w)' BY <1>1, <1>2, <1>3, Untouched DEF AdmissionInv
<1>7. Fights' = Fights BY <1>2 DEF Fights
<1> QED BY <1>2, <1>3, <1>4, <1>5, <1>6, <1>7, Composed

\* Steps of the queue and of sessions, which touch no wager.
LEMMA QueueKeeps ==
  ASSUME AdmissionInv, NEW p \in Wallets,
         \/ QueueFight(p) \/ LeaveQueue(p) \/ SessionReplaced(p) \/ Login(p)
         \/ \E q \in Wallets : TryMatchPlayers(p, q) \/ OnAcceptFightRequest(p, q)
  PROVE  AdmissionInv'
<1>1. /\ UNCHANGED chain /\ UNCHANGED lobby /\ UNCHANGED handlers /\ UNCHANGED cancels
      /\ UNCHANGED boot /\ UNCHANGED rows
  BY DEF QueueFight, LeaveQueue, SessionReplaced, Login, TryMatchPlayers, OnAcceptFightRequest
<1>2. Shapes BY DEF AdmissionInv
<1>3. /\ DOMAIN past' = PastFields /\ past'.givenUp = past.givenUp
      /\ past'.unwritten = past.unwritten
  <2>1. UNCHANGED past \/ past' = [past EXCEPT !.unseated = TRUE, !.mishaps = @ + 1]
    BY DEF QueueFight, LeaveQueue, SessionReplaced, Login, TryMatchPlayers, OnAcceptFightRequest
  <2> QED BY <1>2, <2>1 DEF Shapes, PastFields
<1>4. /\ DOMAIN client' = ClientFields /\ client'.listed = client.listed
      /\ client'.posted = client.posted
      /\ client'.online = client.online \/ client'.online = client.online \cup {p}
  <2>1. UNCHANGED client \/ client' = [client EXCEPT !.online = @ \cup {p}]
    BY DEF QueueFight, LeaveQueue, SessionReplaced, Login, TryMatchPlayers, OnAcceptFightRequest
  <2> QED BY <1>2, <2>1 DEF Shapes, ClientFields
<1>5. /\ DOMAIN rooms' = RoomFields
      /\ \A f \in Fights' : f \in Fights \/ f.wager = None
  <2>1. \/ UNCHANGED rooms \/ rooms' = [rooms EXCEPT !.seat[p] = None]
        \/ \E q \in Wallets :
             rooms' = [rooms EXCEPT !.starting = @ \cup {NewFight(None, {p, q})}]
    BY DEF QueueFight, LeaveQueue, SessionReplaced, Login, TryMatchPlayers, OnAcceptFightRequest
  <2>2. DOMAIN rooms = RoomFields BY <1>2 DEF Shapes
  <2>3. CASE UNCHANGED rooms BY <2>2, <2>3 DEF Fights
  <2>4. CASE rooms' = [rooms EXCEPT !.seat[p] = None] BY <2>2, <2>4 DEF Fights, RoomFields
  <2>5. ASSUME NEW q \in Wallets,
               rooms' = [rooms EXCEPT !.starting = @ \cup {NewFight(None, {p, q})}]
        PROVE  /\ DOMAIN rooms' = RoomFields
               /\ \A f \in Fights' : f \in Fights \/ f.wager = None
    <3>1. NewFight(None, {p, q}).wager = None BY NewFightIs
    <3>2. /\ DOMAIN rooms' = RoomFields /\ rooms'.active = rooms.active
          /\ rooms'.starting = rooms.starting \cup {NewFight(None, {p, q})}
      BY <2>2, <2>5 DEF RoomFields
    <3> QED BY <3>1, <3>2 DEF Fights
  <2> QED BY <2>1, <2>3, <2>4, <2>5
<1>6. queue' \subseteq client'.online
  <2>1. \/ queue' \subseteq queue
        \/ queue' = queue \cup {p} /\ p \in client.online /\ UNCHANGED client
    BY DEF QueueFight, LeaveQueue, SessionReplaced, Login, TryMatchPlayers, OnAcceptFightRequest
  <2> QED BY <1>2, <1>4, <2>1 DEF Shapes
<1>7. Shapes'
  <2>1. client'.online \subseteq Wallets BY <1>2, <1>4 DEF Shapes
  <2> QED BY <1>1, <1>2, <1>3, <1>4, <1>5, <1>6, <2>1 DEF Shapes
<1>8. Later BY <1>1, <1>4, SameChain
<1>9. \A w \in Wagers : WagerI(w)' BY <1>1, <1>3, <1>4, Untouched DEF AdmissionInv
<1>10. \A f \in Fights' : f \in Fights \/ FightI(f)' BY <1>5 DEF FightI
<1> QED BY <1>1, <1>4, <1>7, <1>8, <1>9, <1>10, Composed

LEMMA AnsweredTyped ==
  ASSUME NEW h \in HandlerR, NEW s \in OpenStatuses \cup {"UNREAD", "SETTLED"}
  PROVE  /\ [h EXCEPT !.status = s] \in HandlerR /\ [h EXCEPT !.status = s].status = s
         /\ [h EXCEPT !.status = s].kind = h.kind /\ [h EXCEPT !.status = s].who = h.who
         /\ [h EXCEPT !.status = s].wager = h.wager /\ [h EXCEPT !.status = s].entry = h.entry
BY DEF HandlerR

\* A message is taken by a handler, which reads the lobby and nothing else.
LEMMA TakenKeeps ==
  ASSUME AdmissionInv, NEW m \in client.posted, client' = [client EXCEPT !.posted = @ \ {m}],
         UNCHANGED <<chain, lobby, queue, rooms, cancels, boot, rows, past>>,
         handlers \subseteq handlers',
         \A h \in handlers' : h \in handlers \/ HandlerI(h)'
  PROVE  AdmissionInv'
<1>1. Shapes BY DEF AdmissionInv
<1>2. /\ UNCHANGED chain /\ UNCHANGED lobby /\ UNCHANGED queue /\ UNCHANGED rooms
      /\ UNCHANGED cancels /\ UNCHANGED boot /\ UNCHANGED rows /\ UNCHANGED past
  OBVIOUS
<1>3. /\ DOMAIN client' = ClientFields /\ client'.online = client.online
      /\ client'.posted \subseteq client.posted /\ client'.listed = client.listed
  BY <1>1 DEF Shapes, ClientFields
<1>4. Shapes' BY <1>1, <1>2, <1>3 DEF Shapes
<1>5. Later BY <1>2, <1>3, SameChain
<1>6. \A w \in Wagers : WagerI(w)' BY <1>2, <1>3, Untouched DEF AdmissionInv
<1>7. Fights' = Fights BY <1>2 DEF Fights
<1> QED BY <1>3, <1>4, <1>5, <1>6, <1>7, Composed

LEMMA AcceptedKeeps ==
  ASSUME AdmissionInv, NEW m, HandleWagerAccepted(m) PROVE AdmissionInv'
<1>1. /\ m \in client.posted /\ m.kind = "wager_accepted"
      /\ client' = [client EXCEPT !.posted = @ \ {m}]
      /\ UNCHANGED <<chain, lobby, queue, rooms, cancels, boot, rows, past>>
      /\ \/ UNCHANGED handlers
         \/ \E own \in OwnWagerSeen(m) :
              handlers' = handlers \cup {Handler(m, lobby[m.wager], own, m.who \in queue)}
  BY DEF HandleWagerAccepted
<1>2. /\ MessageI(m) /\ m.who \in Wallets /\ m.wager \in Wagers
  BY <1>1 DEF AdmissionInv, MessageI, MessageR
<1>3. CASE UNCHANGED handlers BY <1>1, <1>3, TakenKeeps
<1>4. ASSUME NEW own \in OwnWagerSeen(m),
             handlers' = handlers \cup {Handler(m, lobby[m.wager], own, m.who \in queue)}
      PROVE  AdmissionInv'
  <2> DEFINE q == m.who \in queue
             h == Handler(m, lobby[m.wager], own, q)
  <2>1. own \in Wagers \cup {None} BY <1>4 DEF OwnWagerSeen, OwnWagers
  <2>2. lobby[m.wager] \in Wallets \cup {None, Absent}
        /\ lobby[m.wager] # CreatorOf[m.wager]
    BY <1>2 DEF AdmissionInv, Shapes, WagerI
  <2>3. q \in BOOLEAN OBVIOUS
  <2> HIDE DEF q
  <2>4. m.kind \in Kinds \cup {"rehydrate"} BY <1>1 DEF Kinds
  <2>5. /\ h \in HandlerR /\ h.kind = m.kind /\ h.who = m.who /\ h.wager = m.wager
        /\ h.entry = lobby[m.wager] /\ h.status = "UNREAD"
    BY <1>2, <2>1, <2>2, <2>3, <2>4 DEF Handler, HandlerR
  <2>6. handlers' = handlers \cup {h} BY <1>4 DEF q
  <2> HIDE DEF h
  <2>7. client'.online = client.online /\ UNCHANGED chain
    BY <1>1 DEF AdmissionInv, Shapes, ClientFields
  <2>8. ASSUME NEW g \in handlers' PROVE g \in handlers \/ HandlerI(g)'
    <3> SUFFICES ASSUME g = h PROVE HandlerI(g)' BY <2>6
    <3> QED BY <1>1, <1>2, <2>2, <2>5, <2>7 DEF HandlerI, MessageI
  <2> QED BY <1>1, <2>6, <2>8, TakenKeeps
<1> QED BY <1>1, <1>3, <1>4

LEMMA HandshakeKeeps ==
  ASSUME AdmissionInv, NEW m, HandleWagerHandshake(m) PROVE AdmissionInv'
<1>1. /\ m \in client.posted /\ m.kind \in Handshakes
      /\ client' = [client EXCEPT !.posted = @ \ {m}]
      /\ UNCHANGED <<chain, lobby, queue, rooms, cancels, boot, rows, past>>
      /\ \/ UNCHANGED handlers
         \/ \E e \in {None, Absent} : handlers' = handlers \cup {Handler(m, e, None, FALSE)}
  BY DEF HandleWagerHandshake
<1>2. /\ MessageI(m) /\ m.who \in Wallets /\ m.wager \in Wagers
  BY <1>1 DEF AdmissionInv, MessageI, MessageR
<1>3. CASE UNCHANGED handlers BY <1>1, <1>3, TakenKeeps
<1>4. ASSUME NEW e \in {None, Absent}, handlers' = handlers \cup {Handler(m, e, None, FALSE)}
      PROVE  AdmissionInv'
  <2> DEFINE h == Handler(m, e, None, FALSE)
  <2>1. m.kind \in Kinds \cup {"rehydrate"} /\ m.kind \notin {"wager_accepted", "rehydrate"}
    BY <1>1 DEF Kinds, Handshakes
  <2>2. e # CreatorOf[m.wager] BY <1>2, Given
  <2>3. /\ h \in HandlerR /\ h.kind = m.kind /\ h.who = m.who /\ h.wager = m.wager
        /\ h.entry = e /\ h.status = "UNREAD"
    BY <1>2, <2>1 DEF Handler, HandlerR
  <2>4. handlers' = handlers \cup {h} BY <1>4
  <2> HIDE DEF h
  <2>5. client'.online = client.online /\ UNCHANGED chain
    BY <1>1 DEF AdmissionInv, Shapes, ClientFields
  <2>6. ASSUME NEW g \in handlers' PROVE g \in handlers \/ HandlerI(g)'
    <3> SUFFICES ASSUME g = h PROVE HandlerI(g)' BY <2>4
    <3> QED BY <1>2, <2>1, <2>2, <2>3, <2>5 DEF HandlerI, MessageI
  <2> QED BY <1>1, <2>4, <2>6, TakenKeeps
<1> QED BY <1>1, <1>3, <1>4

\* The answer of the chain, or none; and a rejected accept.
LEMMA AnswerKeeps ==
  ASSUME AdmissionInv, NEW h, GetWagerStatus(h) \/ NoAnswer(h) \/ AcceptRejected(h)
  PROVE  AdmissionInv'
<1> DEFINE g == [h EXCEPT !.status = chain[h.wager].status]
<1>1. /\ UNCHANGED chain /\ UNCHANGED client /\ UNCHANGED lobby /\ UNCHANGED queue
      /\ UNCHANGED rooms /\ UNCHANGED cancels /\ UNCHANGED boot /\ UNCHANGED rows
      /\ UNCHANGED past
  BY DEF GetWagerStatus, NoAnswer, AcceptRejected
<1>2. /\ h \in handlers
      /\ handlers' = handlers \ {h} \/ handlers' = (handlers \ {h}) \cup {g}
      /\ h.status = "UNREAD" \/ h.kind = "wager_accepted"
  BY DEF GetWagerStatus, NoAnswer, AcceptRejected, Answered
<1>3. HandlerI(h) BY <1>2 DEF AdmissionInv
<1>4. h.kind # "rehydrate" BY <1>2, <1>3 DEF HandlerI
<1>5. HandlerI(g)
  <2>1. h \in HandlerR /\ h.wager \in Wagers BY <1>3 DEF HandlerI, HandlerR
  <2>2. chain[h.wager] \in WagerR /\ chain[h.wager].status # "ABSENT"
    BY <1>3, <2>1 DEF AdmissionInv, Shapes, HandlerI
  <2>3. chain[h.wager].status \in OpenStatuses \cup {"UNREAD", "SETTLED"}
    BY <2>2 DEF WagerR, Statuses
  <2>4. /\ g \in HandlerR /\ g.status = chain[h.wager].status
        /\ g.kind = h.kind /\ g.who = h.who /\ g.wager = h.wager /\ g.entry = h.entry
    BY <2>1, <2>3, AnsweredTyped
  <2> HIDE DEF g
  <2>5. WagerI(h.wager) BY <2>1 DEF AdmissionInv
  <2>6. g.status = "ACTIVE" => Approved(g.wager) BY <2>4, <2>5 DEF WagerI, Approved
  <2>7. g.status = "SETTLED" => chain[g.wager].status = "SETTLED" BY <2>4
  <2> QED BY <1>3, <1>4, <2>4, <2>6, <2>7 DEF HandlerI
<1> HIDE DEF g
<1>6. Later BY <1>1, SameChain
<1>7. ASSUME NEW k, k = g PROVE HandlerI(k)' BY <1>5, <1>6, <1>7, HandlerStays
<1>8. Shapes' BY <1>1 DEF AdmissionInv, Shapes
<1>9. \A k \in handlers : k.kind = "rehydrate" => k \in handlers' BY <1>2, <1>4
<1>10. \A w \in Wagers : WagerI(w)' BY <1>1, <1>9, Untouched DEF AdmissionInv
<1>11. Fights' = Fights BY <1>1 DEF Fights
<1>12. \A k \in handlers' : k \in handlers \/ HandlerI(k)' BY <1>2, <1>7
<1>13. \A m \in client'.posted : m \in client.posted BY <1>1
<1> QED BY <1>6, <1>8, <1>10, <1>11, <1>12, <1>13, Composed

LEMMA RollbackKeeps ==
  ASSUME AdmissionInv, NEW h, AutoRollback(h) PROVE AdmissionInv'
<1> DEFINE ws == {h.wager} \cup (IF HasDifferentOwnWager(h) THEN {h.own} ELSE {})
<1>1. /\ h \in handlers /\ h.kind = "wager_accepted" /\ handlers' = handlers \ {h}
      /\ CancelEntries(ws) /\ queue' \subseteq queue
      /\ UNCHANGED chain /\ UNCHANGED client /\ UNCHANGED rooms /\ UNCHANGED boot
      /\ UNCHANGED rows /\ UNCHANGED past
  BY DEF AutoRollback, Answered
<1>2. ws \in SUBSET Wagers
  <2>1. h \in HandlerR BY <1>1 DEF AdmissionInv, HandlerI
  <2> QED BY <2>1 DEF HandlerR, HasDifferentOwnWager
<1> HIDE DEF ws
<1>3. /\ lobby' \in [Wagers -> Wallets \cup {None, Absent}] /\ cancels' \subseteq Wagers
  BY <1>1, <1>2, CancelEntriesEffect DEF AdmissionInv
<1>4. Shapes' BY <1>1, <1>3 DEF AdmissionInv, Shapes
<1>5. Later BY <1>1, SameChain
<1>6. \A k \in handlers : k.kind = "rehydrate" => k \in handlers' BY <1>1
<1>7. \A w \in Wagers : WagerI(w)' BY <1>1, <1>2, <1>6, CancelledIsKept
<1>8. Fights' = Fights BY <1>1 DEF Fights
<1> QED BY <1>1, <1>4, <1>5, <1>7, <1>8, Composed

LEMMA CancelLobbyKeeps ==
  ASSUME AdmissionInv, NEW w \in Wagers, CancelWagerLobby(w) \/ SweepLobby(w)
  PROVE  AdmissionInv'
<1>1. /\ CancelEntries({w})
      /\ UNCHANGED chain /\ UNCHANGED client /\ UNCHANGED queue /\ UNCHANGED rooms
      /\ UNCHANGED handlers /\ UNCHANGED boot /\ UNCHANGED rows /\ UNCHANGED past
  BY DEF CancelWagerLobby, SweepLobby
<1>2. {w} \in SUBSET Wagers OBVIOUS
<1>3. /\ lobby' \in [Wagers -> Wallets \cup {None, Absent}] /\ cancels' \subseteq Wagers
  BY <1>1, <1>2, CancelEntriesEffect DEF AdmissionInv
<1>4. Shapes' BY <1>1, <1>3 DEF AdmissionInv, Shapes
<1>5. Later BY <1>1, SameChain
<1>6. \A v \in Wagers : WagerI(v)' BY <1>1, <1>2, CancelledIsKept
<1>7. Fights' = Fights BY <1>1 DEF Fights
<1> QED BY <1>1, <1>4, <1>5, <1>6, <1>7, Composed

\* The opponent is the one the entry names, the stakes are the wager's: what
\* the chain said stays true, although the handler has waited since.
LEMMA ProceedKeeps ==
  ASSUME AdmissionInv, NEW h, Proceed(h) PROVE AdmissionInv'
<1> DEFINE f == NewFight(h.wager, {h.who, h.entry})
<1>1. /\ h \in handlers /\ h.kind = "wager_accepted" /\ Outcome(h) = "proceed"
      /\ handlers' = handlers \ {h}
      /\ \/ rows' = rows \cup {h.wager} /\ UNCHANGED past
         \/ UNCHANGED rows /\ past' = [past EXCEPT !.unwritten = @ \cup {h.wager}]
      /\ lobby' = [lobby EXCEPT ![h.wager] = Absent]
      /\ UNCHANGED rooms \/ rooms' = [rooms EXCEPT !.starting = @ \cup {f}]
      /\ UNCHANGED chain /\ UNCHANGED client /\ UNCHANGED queue /\ UNCHANGED cancels
      /\ UNCHANGED boot
  BY DEF Proceed, Answered
<1>2. f.wager = h.wager /\ f.players = {h.who, h.entry} BY NewFightIs
<1> HIDE DEF f
<1>3. Shapes /\ HandlerI(h) /\ h.status = "ACTIVE" BY <1>1 DEF AdmissionInv, Outcome
<1>4. /\ h.wager \in Wagers /\ Approved(h.wager)
      /\ h.who = CreatorOf[h.wager] /\ h.who \in client.online
  BY <1>1, <1>3 DEF HandlerI, HandlerR
<1>5. /\ lobby' \in [Wagers -> Wallets \cup {None, Absent}]
      /\ \A w \in Wagers : lobby'[w] = IF w = h.wager THEN Absent ELSE lobby[w]
  BY <1>1, <1>3, <1>4 DEF Shapes
<1>6. /\ DOMAIN rooms' = RoomFields
      /\ \A g \in Fights' : g \in Fights \/ g = f
  <2>1. DOMAIN rooms = RoomFields BY <1>3 DEF Shapes
  <2>2. CASE UNCHANGED rooms BY <2>1, <2>2 DEF Fights
  <2>3. CASE rooms' = [rooms EXCEPT !.starting = @ \cup {f}]
    <3>1. /\ DOMAIN rooms' = RoomFields /\ rooms'.active = rooms.active
          /\ rooms'.starting = rooms.starting \cup {f}
      BY <2>1, <2>3 DEF RoomFields
    <3> QED BY <3>1 DEF Fights
  <2> QED BY <1>1, <2>2, <2>3
<1>13. /\ DOMAIN past' = PastFields /\ past'.givenUp = past.givenUp
       /\ \/ rows' = rows \cup {h.wager} /\ past'.unwritten = past.unwritten
          \/ rows' = rows /\ past'.unwritten = past.unwritten \cup {h.wager}
  BY <1>1, <1>3 DEF Shapes, PastFields
<1>7. Shapes'
  <2>1. rows' \subseteq Wagers BY <1>3, <1>4, <1>13 DEF Shapes
  <2> QED BY <1>1, <1>3, <1>5, <1>6, <1>13, <2>1 DEF Shapes
<1>8. Later BY <1>1, SameChain
<1>9. ASSUME NEW g, g = f PROVE FightI(g)'
  <2>1. FightI(g) BY <1>2, <1>4, <1>9 DEF FightI
  <2> QED BY <1>8, <2>1, FightStays
<1>10. ASSUME NEW w \in Wagers PROVE WagerI(w)'
  <2>1. WagerI(w) /\ CreatorOf[w] # Absent BY Given DEF AdmissionInv
  <2>2. lobby'[w] # CreatorOf[w] BY <1>5, <2>1 DEF WagerI
  <2>3. InHand(w) => InHand(w)' BY <1>1, <1>5, <1>13 DEF InHand
  <2> QED BY <1>1, <1>4, <1>13, <2>1, <2>2, <2>3, KeptStays DEF Kept
<1>11. \A g \in Fights' : g \in Fights \/ FightI(g)' BY <1>6, <1>9
<1>12. \A m \in client'.posted : m \in client.posted BY <1>1
<1> QED BY <1>1, <1>7, <1>8, <1>10, <1>11, <1>12, Composed

LEMMA HandshakeEndsKeeps ==
  ASSUME AdmissionInv, NEW h, HandshakeEnds(h) PROVE AdmissionInv'
<1> DEFINE e == CASE h.kind = "wager_request_accepted" -> h.who
                  [] h.kind = "wager_declined" -> None
                  [] h.kind = "wager_reclaimed" ->
                       IF h.entry = Absent THEN lobby[h.wager] ELSE Absent
<1>1. /\ h \in handlers /\ h.kind \in Handshakes /\ handlers' = handlers \ {h}
      /\ IF h.status # Expected[h.kind] THEN UNCHANGED <<lobby, rows>>
         ELSE /\ lobby' = [lobby EXCEPT ![h.wager] = e]
              /\ rows' = IF h.kind = "wager_reclaimed" THEN rows \ {h.wager} ELSE rows
      /\ UNCHANGED chain /\ UNCHANGED client /\ UNCHANGED queue /\ UNCHANGED rooms
      /\ UNCHANGED cancels /\ UNCHANGED boot /\ UNCHANGED past
  BY DEF HandshakeEnds, Answered
<1>2. Shapes /\ HandlerI(h) /\ h.wager \in Wagers /\ h.who \in Wallets /\ WagerI(h.wager)
  BY <1>1 DEF AdmissionInv, HandlerI, HandlerR
<1>3. h.kind \notin {"wager_accepted", "rehydrate"} BY <1>1 DEF Handshakes
<1>4. \A k \in handlers : k.kind = "rehydrate" => k \in handlers' BY <1>1, <1>3
<1>5. Later BY <1>1, SameChain
<1>6. Fights' = Fights BY <1>1 DEF Fights
<1>7. CASE h.status # Expected[h.kind]
  <2>1. UNCHANGED lobby /\ UNCHANGED rows BY <1>1, <1>7
  <2>2. Shapes' BY <1>1, <1>2, <2>1 DEF Shapes
  <2>3. \A w \in Wagers : WagerI(w)' BY <1>1, <1>4, <2>1, Untouched DEF AdmissionInv
  <2> QED BY <1>1, <1>5, <1>6, <2>2, <2>3, Composed
<1>8. CASE h.status = Expected[h.kind]
  <2>1. /\ lobby' = [lobby EXCEPT ![h.wager] = e]
        /\ rows' = IF h.kind = "wager_reclaimed" THEN rows \ {h.wager} ELSE rows
    BY <1>1, <1>8
  <2>2. /\ e \in Wallets \cup {None, Absent} /\ e # CreatorOf[h.wager]
        /\ e = Absent => h.kind = "wager_reclaimed"
    <3>1. lobby[h.wager] \in Wallets \cup {None, Absent} /\ lobby[h.wager] # CreatorOf[h.wager]
      BY <1>2 DEF Shapes, WagerI
    <3>2. CreatorOf[h.wager] \in Wallets BY <1>2, Given
    <3>3. CASE h.kind = "wager_request_accepted"
      BY <1>2, <3>3, Given DEF HandlerI
    <3>4. CASE h.kind = "wager_declined" BY <3>2, <3>4, Given
    <3>5. CASE h.kind = "wager_reclaimed" BY <3>1, <3>2, <3>5, Given
    <3> QED BY <1>1, <3>3, <3>4, <3>5 DEF Handshakes
  <2> HIDE DEF e
  <2>3. /\ lobby' \in [Wagers -> Wallets \cup {None, Absent}]
        /\ \A w \in Wagers : lobby'[w] = IF w = h.wager THEN e ELSE lobby[w]
    BY <1>2, <2>1, <2>2 DEF Shapes
  <2>4. rows' \subseteq rows BY <2>1
  <2>5. Shapes' BY <1>1, <1>2, <2>3, <2>4 DEF Shapes
  <2>6. h.kind = "wager_reclaimed" => ~Open(h.wager)
    <3> SUFFICES ASSUME h.kind = "wager_reclaimed" PROVE ~Open(h.wager) OBVIOUS
    <3>1. h.status = "SETTLED" BY <1>8 DEF Expected, Handshakes
    <3> QED BY <1>2, <3>1 DEF HandlerI, Open, OpenStatuses
  <2>7. ASSUME NEW w \in Wagers PROVE WagerI(w)'
    <3>1. WagerI(w) BY DEF AdmissionInv
    <3>2. lobby'[w] # CreatorOf[w] BY <2>2, <2>3, <3>1 DEF WagerI
    <3>3. Open(w) /\ InHand(w) => InHand(w)'
      <4>1. CASE w = h.wager BY <2>2, <2>3, <2>6, <4>1 DEF InHand
      <4>2. CASE w # h.wager
        <5>1. lobby'[w] = lobby[w] /\ (w \in rows <=> w \in rows') BY <2>1, <2>3, <4>2
        <5> QED BY <1>1, <1>4, <5>1 DEF InHand
      <4> QED BY <4>1, <4>2
    <3> QED BY <1>1, <2>4, <3>1, <3>2, <3>3, KeptStays DEF Kept
  <2> QED BY <1>1, <1>5, <1>6, <2>5, <2>7, Composed
<1> QED BY <1>7, <1>8

LEMMA AdoptKeeps ==
  ASSUME AdmissionInv, NEW h, AdoptIntoLobby(h) PROVE AdmissionInv'
<1>1. /\ h \in handlers /\ h.kind = "rehydrate" /\ handlers' = handlers \ {h}
      /\ IF lobby[h.wager] = Absent THEN Listed(h.wager, h.entry) ELSE UNCHANGED <<lobby, client>>
      /\ UNCHANGED chain /\ UNCHANGED queue /\ UNCHANGED rooms
      /\ UNCHANGED cancels /\ UNCHANGED boot /\ UNCHANGED rows /\ UNCHANGED past
  BY DEF AdoptIntoLobby, Answered
<1>2. /\ Shapes /\ HandlerI(h) /\ h.wager \in Wagers
      /\ h.entry \in Wallets \cup {None, Absent} /\ h.entry # Absent
  BY <1>1 DEF AdmissionInv, HandlerI, HandlerR
<1>3. /\ DOMAIN client' = ClientFields /\ client'.online = client.online
      /\ client'.posted = client.posted
      /\ client'.listed = IF lobby[h.wager] = Absent THEN client.listed \cup {h.wager}
                                                     ELSE client.listed
  BY <1>1, <1>2 DEF Listed, Shapes, ClientFields
<1>4. /\ lobby' \in [Wagers -> Wallets \cup {None, Absent}]
      /\ \A w \in Wagers : lobby'[w] = IF w = h.wager /\ lobby[w] = Absent THEN h.entry
                                                                          ELSE lobby[w]
  BY <1>1, <1>2 DEF Listed, Shapes
<1>5. Shapes' BY <1>1, <1>2, <1>3, <1>4 DEF Shapes
<1>6. Later BY <1>1, <1>3, SameChain
<1>7. Fights' = Fights BY <1>1 DEF Fights
<1>8. ASSUME NEW w \in Wagers PROVE WagerI(w)'
  <2>1. WagerI(w) BY DEF AdmissionInv
  <2>2. lobby'[w] # CreatorOf[w] BY <1>2, <1>4, <2>1 DEF WagerI, HandlerI
  <2>3. InHand(w) => InHand(w)'
    <3>1. CASE w = h.wager BY <1>2, <1>4, <3>1 DEF InHand
    <3>2. CASE w # h.wager
      <4>1. lobby'[w] = lobby[w] BY <1>4, <3>2
      <4>2. ASSUME NEW k \in handlers, k.wager = w PROVE k \in handlers' BY <1>1, <3>2, <4>2
      <4> QED BY <1>1, <4>1, <4>2 DEF InHand
    <3> QED BY <3>1, <3>2
  <2>4. w \in client'.listed =>
          w \in client.listed \/ (chain[w].status # "ABSENT" /\ InHand(w)')
    <3> SUFFICES ASSUME w \in client'.listed, w \notin client.listed
                 PROVE  chain[w].status # "ABSENT" /\ InHand(w)'
      OBVIOUS
    <3>1. w = h.wager BY <1>3
    <3> QED BY <1>2, <1>4, <3>1 DEF HandlerI, InHand
  <2>5. w \in client.listed => w \in client'.listed BY <1>3
  <2> QED BY <1>1, <2>1, <2>2, <2>3, <2>4, <2>5, KeptStays DEF Kept
<1> QED BY <1>1, <1>3, <1>5, <1>6, <1>7, <1>8, Composed

(***************************************************************************)
(* Fights, treasury, crash and boot                                        *)
(***************************************************************************)
LEMMA CreateFightKeeps ==
  ASSUME AdmissionInv, NEW f, CreateFight(f) PROVE AdmissionInv'
<1> DEFINE ws == {w \in Wagers : lobby[w] # Absent /\ CreatorOf[w] \in f.players}
           seats == [p \in Wallets |-> IF p \in f.players \cap client.online
                                       THEN f ELSE rooms.seat[p]]
<1>1. /\ f \in rooms.starting
      /\ rooms' = [starting |-> rooms.starting \ {f}, active |-> rooms.active \cup {f},
                   seat |-> seats]
      /\ IF f.wager = None THEN UNCHANGED <<lobby, queue, cancels>>
         ELSE CancelEntries(ws) /\ queue' = queue \ {CreatorOf[f.wager]}
      /\ UNCHANGED chain /\ UNCHANGED client /\ UNCHANGED handlers /\ UNCHANGED boot
      /\ UNCHANGED rows /\ UNCHANGED past
  BY DEF CreateFight
<1>2. Shapes /\ ws \in SUBSET Wagers BY DEF AdmissionInv
<1> HIDE DEF ws, seats
<1>3. DOMAIN rooms' = RoomFields /\ Fights' = Fights
  <2>1. /\ DOMAIN rooms' = RoomFields /\ rooms'.starting = rooms.starting \ {f}
        /\ rooms'.active = rooms.active \cup {f}
    BY <1>1 DEF RoomFields
  <2> QED BY <1>1, <2>1 DEF Fights
<1>4. Later BY <1>1, SameChain
<1>5. /\ lobby' \in [Wagers -> Wallets \cup {None, Absent}] /\ cancels' \subseteq Wagers
      /\ queue' \subseteq queue
  <2>1. CASE f.wager = None
    <3>1. UNCHANGED lobby /\ UNCHANGED cancels /\ UNCHANGED queue BY <1>1, <2>1
    <3> QED BY <1>2, <3>1 DEF Shapes
  <2>2. CASE f.wager # None BY <1>1, <1>2, <2>2, CancelEntriesEffect
  <2> QED BY <2>1, <2>2
<1>6. Shapes' BY <1>1, <1>2, <1>3, <1>5 DEF Shapes
<1>7. ASSUME NEW w \in Wagers PROVE WagerI(w)'
  <2>1. CASE f.wager = None
    <3>1. UNCHANGED lobby /\ UNCHANGED cancels BY <1>1, <2>1
    <3> QED BY <1>1, <3>1, Untouched DEF AdmissionInv
  <2>2. CASE f.wager # None BY <1>1, <1>2, <2>2, CancelledIsKept
  <2> QED BY <2>1, <2>2
<1> QED BY <1>1, <1>3, <1>4, <1>6, <1>7, Composed

LEMMA ClosedStays ==
  ASSUME NEW w \in Wagers, WagerI(w), Onward(w), chain'[w].status = "SETTLED",
         chain'[w].challenger # CreatorOf[w], UNCHANGED lobby,
         client'.listed = client.listed, rows' \subseteq rows
  PROVE  WagerI(w)'
BY DEF WagerI, Onward, Open, OpenStatuses

\* A treasury transaction that ends w: what had the wager in hand lets go of
\* it only when it is closed.
LEMMA TreasuryKeeps ==
  ASSUME AdmissionInv, NEW w \in Wagers,
         UNCHANGED chain \/ (Open(w) /\ chain' = Closed(w)),
         rows' = rows \/ rows' = rows \ {w}, cancels' = cancels \/ cancels' = cancels \ {w},
         Open(w)' => rows' = rows /\ cancels' = cancels,
         UNCHANGED client, UNCHANGED lobby, UNCHANGED queue, UNCHANGED handlers,
         DOMAIN boot' = {"registry", "rows"}, boot'.registry = boot.registry,
         boot'.rows \subseteq boot.rows,
         DOMAIN past' = PastFields, past'.givenUp = past.givenUp,
         past'.unwritten = past.unwritten,
         DOMAIN rooms' = RoomFields, Fights' \subseteq Fights
  PROVE  AdmissionInv'
<1>1. Shapes BY DEF AdmissionInv
<1>2. /\ chain' \in [Wagers -> WagerR] /\ \A v \in Wagers : Onward(v)
      /\ \A v \in Wagers : v # w => chain'[v] = chain[v]
      /\ \/ chain'[w] = chain[w]
         \/ chain'[w].status = "SETTLED" /\ chain'[w].challenger # CreatorOf[w]
  <2>1. CASE UNCHANGED chain BY <1>1, <2>1 DEF Shapes, Onward, Approved
  <2>2. CASE Open(w) /\ chain' = Closed(w)
    <3>1. chain' = [chain EXCEPT ![w] = EndOf(w)] /\ Follows(w, EndOf(w)) BY <2>2, ClosedIs
    <3>2. /\ chain' \in [Wagers -> WagerR]
          /\ \A v \in Wagers : chain'[v] = (IF v = w THEN EndOf(w) ELSE chain[v]) /\ Onward(v)
      BY <1>1, <3>1, RecordChanges
    <3>3. EndOf(w).status = "SETTLED" BY DEF EndOf
    <3> QED BY <3>1, <3>2, <3>3 DEF Follows
  <2> QED BY <2>1, <2>2
<1>3. Later BY <1>2 DEF Later
<1>4. Shapes' BY <1>1, <1>2 DEF Shapes
<1>5. ASSUME NEW v \in Wagers PROVE WagerI(v)'
  <2>1. WagerI(v) BY DEF AdmissionInv
  <2>2. CASE chain'[v] = chain[v]
    <3>1. Open(v) => (v \in rows' <=> v \in rows) /\ (v \in cancels' <=> v \in cancels)
      <4>1. CASE v # w BY <4>1
      <4>2. CASE v = w BY <2>2, <4>2 DEF Open
      <4> QED BY <4>1, <4>2
    <3>2. Open(v) /\ InHand(v) => InHand(v)' BY <3>1 DEF InHand
    <3> QED BY <2>1, <2>2, <3>2, KeptStays DEF Kept, WagerI
  <2>3. CASE chain'[v] # chain[v] BY <1>2, <2>1, <2>3, ClosedStays
  <2> QED BY <2>2, <2>3
<1> QED BY <1>3, <1>4, <1>5, Composed

LEMMA FinishKeeps ==
  ASSUME AdmissionInv, NEW f, NEW winner, FinishFight(f, winner) PROVE AdmissionInv'
<1> DEFINE settles == /\ f.wager # None /\ chain[f.wager].status = "ACTIVE"
                      /\ winner \in {None, CreatorOf[f.wager], chain[f.wager].challenger}
<1>1. /\ f \in rooms.active
      /\ rooms' = [rooms EXCEPT !.active = @ \ {f}, !.seat = Freed(f)]
      /\ chain' = IF settles THEN Closed(f.wager) ELSE chain
      /\ rows' = IF settles THEN rows \ {f.wager} ELSE rows
      /\ past' = [past EXCEPT !.unseated =
                   @ \/ \E g \in rooms.active \ {f} : f.players \cap g.players # {}]
      /\ UNCHANGED client /\ UNCHANGED lobby /\ UNCHANGED queue /\ UNCHANGED handlers
      /\ UNCHANGED cancels /\ UNCHANGED boot
  BY DEF FinishFight
<1>2. Shapes BY DEF AdmissionInv
<1>3. /\ DOMAIN past' = PastFields /\ past'.givenUp = past.givenUp
      /\ past'.unwritten = past.unwritten
  BY <1>1, <1>2 DEF Shapes, PastFields
<1>4. DOMAIN rooms' = RoomFields /\ Fights' \subseteq Fights
  <2>1. /\ DOMAIN rooms' = RoomFields /\ rooms'.starting = rooms.starting
        /\ rooms'.active = rooms.active \ {f}
    BY <1>1, <1>2 DEF Shapes, RoomFields
  <2> QED BY <2>1 DEF Fights
<1>5. DOMAIN boot = {"registry", "rows"} BY <1>2 DEF Shapes
<1>6. CASE settles
  <2>1. f.wager \in Wagers /\ f.wager # None
    BY <1>1, <1>6 DEF AdmissionInv, FightI, Fights
  <2>2. Open(f.wager) BY <1>6 DEF Open, OpenStatuses
  <2>3. chain' = Closed(f.wager) /\ rows' = rows \ {f.wager} BY <1>1, <1>6
  <2>4. ~Open(f.wager)'
    <3>1. chain' = [chain EXCEPT ![f.wager] = EndOf(f.wager)] BY <2>1, <2>2, <2>3, ClosedIs
    <3>2. chain'[f.wager].status = "SETTLED" BY <1>2, <2>1, <3>1 DEF Shapes, EndOf
    <3> QED BY <3>2 DEF Open, OpenStatuses
  <2> QED BY <1>1, <1>3, <1>4, <1>5, <2>1, <2>2, <2>3, <2>4, TreasuryKeeps
<1>7. CASE ~settles
  <2>1. UNCHANGED chain /\ UNCHANGED rows BY <1>1, <1>7
  <2>2. Later BY <1>1, <2>1, SameChain
  <2>3. Shapes' BY <1>1, <1>2, <1>3, <1>4, <2>1 DEF Shapes
  <2>4. \A w \in Wagers : WagerI(w)' BY <1>1, <1>3, <2>1, Untouched DEF AdmissionInv
  <2> QED BY <1>1, <1>4, <2>2, <2>3, <2>4, Composed
<1> QED BY <1>6, <1>7

LEMMA EndedIsClosed ==
  ASSUME AdmissionInv, NEW w \in Wagers, Open(w), chain' = Closed(w) PROVE ~Open(w)'
<1>1. chain' = [chain EXCEPT ![w] = EndOf(w)] BY ClosedIs
<1>2. chain'[w].status = "SETTLED" BY <1>1 DEF AdmissionInv, Shapes, EndOf
<1> QED BY <1>2 DEF Open, OpenStatuses

LEMMA AdminCancelKeeps ==
  ASSUME AdmissionInv, NEW w \in Wagers, AdminCancel(w) PROVE AdmissionInv'
<1>1. /\ cancels' = cancels \ {w} /\ chain' = IF Open(w) THEN Closed(w) ELSE chain
      /\ UNCHANGED client /\ UNCHANGED lobby /\ UNCHANGED queue /\ UNCHANGED rooms
      /\ UNCHANGED handlers /\ UNCHANGED boot /\ UNCHANGED rows /\ UNCHANGED past
  BY DEF AdminCancel
<1>2. ~Open(w)'
  <2>1. CASE Open(w) BY <1>1, <2>1, EndedIsClosed
  <2>2. CASE ~Open(w) BY <1>1, <2>2 DEF Open
  <2> QED BY <2>1, <2>2
<1>3. Shapes /\ Fights' = Fights BY <1>1 DEF AdmissionInv, Fights
<1> QED BY <1>1, <1>2, <1>3, TreasuryKeeps DEF Shapes

LEMMA SweepKeeps ==
  ASSUME AdmissionInv, NEW w \in Wagers, SweepOne(w) PROVE AdmissionInv'
<1>1. /\ boot' = [boot EXCEPT !.rows = @ \ {w}]
      /\ \/ /\ chain' = IF chain[w].status \in {"ACTIVE", "PENDING_APPROVAL"}
                        THEN Closed(w) ELSE chain
            /\ rows' = rows \ {w}
         \/ UNCHANGED chain /\ UNCHANGED rows
      /\ UNCHANGED client /\ UNCHANGED lobby /\ UNCHANGED queue /\ UNCHANGED rooms
      /\ UNCHANGED handlers /\ UNCHANGED cancels /\ UNCHANGED past
  BY DEF SweepOne
<1>2. Shapes /\ WagerI(w) /\ Fights' = Fights BY <1>1 DEF AdmissionInv, Fights
<1>3. /\ DOMAIN boot' = {"registry", "rows"} /\ boot'.registry = boot.registry
      /\ boot'.rows \subseteq boot.rows
  BY <1>1, <1>2 DEF Shapes
<1>4. /\ UNCHANGED chain \/ (Open(w) /\ chain' = Closed(w))
      /\ Open(w)' => rows' = rows
  <2>1. CASE UNCHANGED chain /\ UNCHANGED rows BY <2>1
  <2>2. CASE /\ chain[w].status \in {"ACTIVE", "PENDING_APPROVAL"} /\ chain' = Closed(w)
    BY <2>2, EndedIsClosed DEF Open, OpenStatuses
  <2>3. CASE /\ chain[w].status \notin {"ACTIVE", "PENDING_APPROVAL"} /\ UNCHANGED chain
             /\ rows' = rows \ {w}
    <3>1. w \in rows => ~Open(w) BY <1>2, <2>3 DEF WagerI, Approved, Open, OpenStatuses
    <3>2. Open(w)' => Open(w) BY <2>3 DEF Open
    <3> QED BY <2>3, <3>1, <3>2
  <2> QED BY <1>1, <2>1, <2>2, <2>3
<1> QED BY <1>1, <1>2, <1>3, <1>4, TreasuryKeeps DEF Shapes

\* A wager leaves the registry or the treasury queue, and is given up if it
\* is still open.
LEMMA GivenUpKeeps ==
  ASSUME AdmissionInv, NEW w \in Wagers, AdminCancelFails(w) \/ RehydrateFails(w)
  PROVE  AdmissionInv'
<1>1. /\ \/ cancels' = cancels \ {w} /\ UNCHANGED boot
         \/ boot' = [boot EXCEPT !.registry = @ \ {w}] /\ UNCHANGED cancels
      /\ past' = [past EXCEPT !.givenUp = IF Open(w) THEN @ \cup {w} ELSE @]
      /\ UNCHANGED chain /\ UNCHANGED client /\ UNCHANGED lobby /\ UNCHANGED queue
      /\ UNCHANGED rooms /\ UNCHANGED handlers /\ UNCHANGED rows
  BY DEF AdminCancelFails, RehydrateFails
<1>2. Shapes /\ Fights' = Fights BY <1>1 DEF AdmissionInv, Fights
<1>3. /\ DOMAIN past' = PastFields
      /\ past'.givenUp = IF Open(w) THEN past.givenUp \cup {w} ELSE past.givenUp
      /\ past'.unwritten = past.unwritten
  BY <1>1, <1>2 DEF Shapes, PastFields
<1>4. /\ DOMAIN boot' = {"registry", "rows"} /\ boot'.rows = boot.rows
      /\ boot'.registry \subseteq boot.registry /\ boot.registry \ {w} \subseteq boot'.registry
      /\ cancels' \subseteq cancels /\ cancels \ {w} \subseteq cancels'
  BY <1>1, <1>2 DEF Shapes
<1>5. Shapes' BY <1>1, <1>2, <1>3, <1>4 DEF Shapes
<1>6. Later BY <1>1, SameChain
<1>7. ASSUME NEW v \in Wagers PROVE WagerI(v)'
  <2>1. WagerI(v) BY DEF AdmissionInv
  <2>2. Open(v) /\ InHand(v) => InHand(v)' BY <1>1, <1>3, <1>4 DEF InHand
  <2> QED BY <1>1, <2>1, <2>2, KeptStays DEF Kept, WagerI
<1> QED BY <1>1, <1>2, <1>5, <1>6, <1>7, Composed

LEMMA ReadKeeps ==
  ASSUME AdmissionInv, NEW w \in Wagers, ReadWagerFields(w) PROVE AdmissionInv'
<1> DEFINE m == Message("rehydrate", CreatorOf[w], w)
           g == [Handler(m, chain[w].challenger, None, FALSE) EXCEPT !.status = chain[w].status]
           waits == chain[w].status \in {"WAITING", "PENDING_APPROVAL"}
<1>1. /\ boot' = [boot EXCEPT !.registry = @ \ {w}]
      /\ handlers' = IF waits THEN handlers \cup {g} ELSE handlers
      /\ past' = [past EXCEPT !.givenUp = IF chain[w].status = "ACTIVE" /\ w \notin rows
                                          THEN @ \cup {w} ELSE @]
      /\ UNCHANGED chain /\ UNCHANGED client /\ UNCHANGED lobby /\ UNCHANGED queue
      /\ UNCHANGED rooms /\ UNCHANGED cancels /\ UNCHANGED rows
  BY DEF ReadWagerFields
<1>2. /\ Shapes /\ WagerI(w) /\ Fights' = Fights /\ chain[w] \in WagerR
      /\ CreatorOf[w] \in Wallets
  BY <1>1, Given DEF AdmissionInv, Shapes, Fights
<1>3. /\ DOMAIN past' = PastFields
      /\ past'.givenUp = IF chain[w].status = "ACTIVE" /\ w \notin rows
                         THEN past.givenUp \cup {w} ELSE past.givenUp
      /\ past'.unwritten = past.unwritten
  BY <1>1, <1>2 DEF Shapes, PastFields
<1>4. /\ DOMAIN boot' = {"registry", "rows"} /\ boot'.rows = boot.rows
      /\ boot'.registry = boot.registry \ {w}
  BY <1>1, <1>2 DEF Shapes
<1>5. Shapes' BY <1>1, <1>2, <1>3, <1>4 DEF Shapes
<1>6. Later BY <1>1, SameChain
<1>7. waits => HandlerI(g) /\ g.kind = "rehydrate" /\ g.wager = w
  <2> SUFFICES ASSUME waits PROVE HandlerI(g) /\ g.kind = "rehydrate" /\ g.wager = w OBVIOUS
  <2>1. /\ m.kind = "rehydrate" /\ m.who = CreatorOf[w] /\ m.wager = w BY DEF Message
  <2> HIDE DEF m
  <2>2. /\ chain[w].challenger \in Wallets \cup {None} /\ chain[w].challenger # CreatorOf[w]
        /\ chain[w].status \in OpenStatuses
    BY <1>2 DEF WagerR, WagerI, OpenStatuses
  <2>3. Handler(m, chain[w].challenger, None, FALSE) \in HandlerR
    BY <1>2, <2>1, <2>2 DEF Handler, HandlerR
  <2>4. /\ Handler(m, chain[w].challenger, None, FALSE).kind = "rehydrate"
        /\ Handler(m, chain[w].challenger, None, FALSE).wager = w
        /\ Handler(m, chain[w].challenger, None, FALSE).entry = chain[w].challenger
    BY <2>1 DEF Handler
  <2>5. /\ g \in HandlerR /\ g.status = chain[w].status /\ g.kind = "rehydrate"
        /\ g.wager = w /\ g.entry = chain[w].challenger
    BY <2>2, <2>3, <2>4, AnsweredTyped
  <2> HIDE DEF g
  <2>6. g.entry # Absent BY <2>2, <2>5, Given
  <2> QED BY <2>2, <2>5, <2>6 DEF HandlerI
<1> HIDE DEF g
<1>8. ASSUME NEW k \in handlers' PROVE k \in handlers \/ HandlerI(k)'
  <2> SUFFICES ASSUME waits, k = g PROVE HandlerI(k)' BY <1>1
  <2>1. HandlerI(k) BY <1>7
  <2> QED BY <1>6, <2>1, HandlerStays
<1>9. ASSUME NEW v \in Wagers PROVE WagerI(v)'
  <2>1. WagerI(v) BY DEF AdmissionInv
  <2>2. Open(v) /\ InHand(v) => InHand(v)'
    <3> SUFFICES ASSUME Open(v), InHand(v) PROVE InHand(v)' OBVIOUS
    <3>1. CASE v # w BY <1>1, <1>3, <1>4, <3>1 DEF InHand
    <3>2. CASE v = w /\ waits
      <4>1. g \in handlers' /\ g.kind = "rehydrate" /\ g.wager = v BY <1>1, <1>7, <3>2
      <4>2. \E k \in handlers' : k.kind = "rehydrate" /\ k.wager = v BY <4>1
      <4> QED BY <4>2 DEF InHand
    <3>3. CASE v = w /\ ~waits
      <4>1. chain[w].status = "ACTIVE" BY <3>3 DEF Open, OpenStatuses
      <4> QED BY <1>1, <1>3, <3>3, <4>1 DEF InHand
    <3> QED BY <3>1, <3>2, <3>3
  <2> QED BY <1>1, <2>1, <2>2, KeptStays DEF Kept, WagerI
<1> QED BY <1>1, <1>2, <1>5, <1>6, <1>8, <1>9, Composed

\* A restart has every open wager in the registry that rehydration reads.
LEMMA CrashKeeps ==
  ASSUME AdmissionInv, NEW old, Crash(old) PROVE AdmissionInv'
<1>1. /\ old \in SUBSET rows /\ past' = [past EXCEPT !.mishaps = @ + 1]
      /\ client' = [client EXCEPT !.online = {}, !.posted = {}]
      /\ lobby' = [w \in Wagers |-> Absent]
      /\ queue' = {} /\ handlers' = {} /\ cancels' = {}
      /\ rooms' = [starting |-> {}, active |-> {}, seat |-> [p \in Wallets |-> None]]
      /\ boot' = [registry |-> {w \in Wagers : Open(w)}, rows |-> old]
      /\ UNCHANGED chain /\ UNCHANGED rows
  BY DEF Crash
<1>2. Shapes BY DEF AdmissionInv
<1>3. /\ DOMAIN client' = ClientFields /\ client'.online = {} /\ client'.posted = {}
      /\ client'.listed = client.listed
  BY <1>1, <1>2 DEF Shapes, ClientFields
<1>4. DOMAIN past' = PastFields BY <1>1, <1>2 DEF Shapes, PastFields
<1>5. DOMAIN rooms' = RoomFields /\ Fights' = {} BY <1>1 DEF RoomFields, Fights
<1>6. /\ DOMAIN boot' = {"registry", "rows"} /\ boot'.registry = {w \in Wagers : Open(w)}
      /\ boot'.rows = old
  BY <1>1
<1>7. lobby' \in [Wagers -> Wallets \cup {None, Absent}] BY <1>1
<1>8. Shapes' BY <1>1, <1>2, <1>3, <1>4, <1>5, <1>6, <1>7 DEF Shapes
<1>9. ASSUME NEW w \in Wagers PROVE WagerI(w)'
  <2>1. WagerI(w) /\ CreatorOf[w] # Absent BY Given DEF AdmissionInv
  <2>2. Open(w) => InHand(w)' BY <1>6 DEF InHand
  <2>3. Open(w)' <=> Open(w) BY <1>1 DEF Open
  <2>4. Approved(w)' <=> Approved(w) BY <1>1 DEF Approved
  <2>5. lobby'[w] = Absent BY <1>1
  <2> QED BY <1>1, <1>3, <2>1, <2>2, <2>3, <2>4, <2>5 DEF WagerI
<1> QED BY <1>1, <1>3, <1>5, <1>8, <1>9 DEF AdmissionInv

LEMMA StepAdmission == AdmissionInv /\ [Next]_vars => AdmissionInv'
<1> SUFFICES ASSUME AdmissionInv, [Next]_vars PROVE AdmissionInv' OBVIOUS
<1>1. ASSUME NEW w \in Wagers, PlayerStep(w) PROVE AdmissionInv'
  BY <1>1, CreateWagerKeeps, ApproveKeeps, CancelKeeps, ResendKeeps, CancelLobbyKeeps,
     RequestKeeps, ChallengeEndsKeeps, ReclaimKeeps
  DEF PlayerStep
<1>2. ASSUME NEW w \in Wagers, ServerStep(w) PROVE AdmissionInv'
  BY <1>2, CancelLobbyKeeps, AdminCancelKeeps, GivenUpKeeps, ReadKeeps, SweepKeeps DEF ServerStep
<1>3. ASSUME NEW p \in Wallets, QueueStep(p) PROVE AdmissionInv'
  BY <1>3, QueueKeeps DEF QueueStep
<1>4. ASSUME NEW m, MessageStep(m) PROVE AdmissionInv'
  BY <1>4, QueueWagerKeeps, AcceptedKeeps, HandshakeKeeps, LostKeeps DEF MessageStep
<1>5. ASSUME NEW h, HandlerStep(h) PROVE AdmissionInv'
  BY <1>5, AnswerKeeps, RollbackKeeps, ProceedKeeps, HandshakeEndsKeeps, AdoptKeeps
  DEF HandlerStep
<1>6. ASSUME NEW f, FightStep(f) PROVE AdmissionInv'
  BY <1>6, CreateFightKeeps, FinishKeeps DEF FightStep
<1>7. ASSUME NEW old, Crash(old) PROVE AdmissionInv' BY <1>7, CrashKeeps
<1>8. CASE UNCHANGED vars
  <2>1. /\ UNCHANGED chain /\ UNCHANGED client /\ UNCHANGED lobby /\ UNCHANGED queue
        /\ UNCHANGED rooms /\ UNCHANGED handlers /\ UNCHANGED cancels /\ UNCHANGED boot
        /\ UNCHANGED rows /\ UNCHANGED past
    BY <1>8 DEF vars
  <2>2. Shapes' BY <2>1 DEF AdmissionInv, Shapes
  <2>3. Fights' = Fights BY <2>1 DEF Fights
  <2>4. Later BY <2>1, SameChain
  <2>5. \A w \in Wagers : WagerI(w)' BY <2>1, Untouched DEF AdmissionInv
  <2> QED BY <2>1, <2>2, <2>3, <2>4, <2>5, Composed
<1> QED BY <1>1, <1>2, <1>3, <1>4, <1>5, <1>6, <1>7, <1>8 DEF Next

LEMMA AlwaysAdmission == Spec => []AdmissionInv
BY InitAdmission, StepAdmission, PTL DEF Spec

\* Once both stakes of a wager are in escrow, somebody on the server's side
\* has the wager in hand, or has given it up in a way the code has: whatever
\* the order of handlers, sweeps, cancels, crashes and boot passes.
THEOREM BothStakesAreWatched == Spec => []ActiveIsOwned
BY AlwaysAdmission, OwnedWagers, PTL

(***************************************************************************)
(* The types of fights and seats                                           *)
(***************************************************************************)
FightR == [id : Nat, wager : Wagers \cup {None}, players : SUBSET Wallets]

RoomInv ==
  /\ IsFiniteSet(Fights) /\ rooms.starting \cap rooms.active = {}
  /\ \A f \in Fights : f \in FightR /\ Cardinality(f.players) = 2
  /\ rooms.seat \in [Wallets -> rooms.active \cup {None}]
  /\ \A p \in Wallets : rooms.seat[p] # None => p \in rooms.seat[p].players

\* There is a number for a new fight: those of the wager's others are finite.
LEMMA NewFightFresh ==
  ASSUME IsFiniteSet(Fights), NEW w \in Wagers \cup {None}, NEW ps \in SUBSET Wallets
  PROVE  NewFight(w, ps) \in FightR /\ NewFight(w, ps) \notin Fights
<1> DEFINE same == {g \in Fights : g.wager = w}
           used == {f.id : f \in same}
           new == Cardinality(used) + 1
           n == CHOOSE i \in 1 .. new : i \notin used
<1>1. NewFight(w, ps) = [id |-> n, wager |-> w, players |-> ps] BY DEF NewFight
<1>2. IsFiniteSet(same)
  <2>1. same \in SUBSET Fights OBVIOUS
  <2> QED BY <2>1, FS_Subset
<1>3. IsFiniteSet(used)
  <2> DEFINE F == [f \in same |-> f.id]
  <2>1. F \in Surjection(same, used) BY DEF Surjection
  <2> HIDE DEF same, used, F
  <2> QED BY <1>2, <2>1, FS_Surjection
<1>4. ASSUME NEW g \in Fights, g.wager = w PROVE g.id \in used BY <1>4
<1> HIDE DEF used, same
<1>5. Cardinality(used) \in Nat BY <1>3, FS_CardinalityType
<1>6. new \in Nat /\ new > Cardinality(used) BY <1>5
<1> HIDE DEF new
<1>7. \E i \in 1 .. new : i \notin used
  <2> SUFFICES ASSUME 1 .. new \in SUBSET used PROVE FALSE OBVIOUS
  <2>1. Cardinality(1 .. new) = new BY <1>5, <1>6, FS_Interval
  <2>2. Cardinality(1 .. new) <= Cardinality(used) BY <1>3, FS_Subset
  <2> QED BY <1>5, <1>6, <2>1, <2>2
<1>8. n \in 1 .. new /\ n \notin used BY <1>7
<1>9. n \in Nat BY <1>6, <1>8
<1> HIDE DEF n
<1>10. /\ NewFight(w, ps) \in FightR /\ NewFight(w, ps).id = n /\ NewFight(w, ps).wager = w
  BY <1>1, <1>9 DEF FightR
<1> QED BY <1>4, <1>8, <1>10

LEMMA TwoPlayers ==
  ASSUME NEW p \in Wallets, NEW q \in Wallets, p # q
  PROVE  {p, q} \in SUBSET Wallets /\ Cardinality({p, q}) = 2
<1>1. IsFiniteSet({p}) /\ Cardinality({p}) = 1 BY FS_Singleton
<1>2. Cardinality({p} \cup {q}) = 2 BY <1>1, FS_AddElement
<1>3. {p} \cup {q} = {p, q} OBVIOUS
<1> QED BY <1>2, <1>3

\* A fight of p and q starts.
Starts(w, p, q) == rooms' = [rooms EXCEPT !.starting = @ \cup {NewFight(w, {p, q})}]

LEMMA StartsKeeps ==
  ASSUME AdmissionInv, RoomInv, NEW w \in Wagers \cup {None},
         NEW p \in Wallets, NEW q \in Wallets, p # q, Starts(w, p, q)
  PROVE  RoomInv'
<1> DEFINE f == NewFight(w, {p, q})
<1>1. f \in FightR /\ f \notin Fights /\ Cardinality(f.players) = 2
  BY TwoPlayers, NewFightFresh, NewFightIs DEF RoomInv
<1>2. rooms' = [rooms EXCEPT !.starting = @ \cup {f}] BY DEF Starts
<1> HIDE DEF f
<1>3. /\ rooms'.active = rooms.active /\ rooms'.seat = rooms.seat
      /\ rooms'.starting = rooms.starting \cup {f}
  BY <1>2 DEF AdmissionInv, Shapes, RoomFields
<1>4. Fights' = Fights \cup {f} BY <1>3 DEF Fights
<1>5. IsFiniteSet(Fights') BY <1>4, FS_AddElement DEF RoomInv
<1>6. rooms'.starting \cap rooms'.active = {} BY <1>1, <1>3 DEF RoomInv, Fights
<1> QED BY <1>1, <1>3, <1>4, <1>5, <1>6 DEF RoomInv

LEMMA CreateFightRooms ==
  ASSUME AdmissionInv, RoomInv, NEW f, CreateFight(f)
  PROVE  /\ f \in rooms.starting /\ f \in Fights /\ Fights' = Fights
         /\ rooms'.starting = rooms.starting \ {f} /\ rooms'.active = rooms.active \cup {f}
         /\ rooms'.seat = [p \in Wallets |-> IF p \in f.players \cap client.online
                                             THEN f ELSE rooms.seat[p]]
         /\ f # None
<1>1. /\ f \in rooms.starting /\ rooms'.starting = rooms.starting \ {f}
      /\ rooms'.active = rooms.active \cup {f}
      /\ rooms'.seat = [p \in Wallets |-> IF p \in f.players \cap client.online
                                          THEN f ELSE rooms.seat[p]]
  BY DEF CreateFight
<1>2. f \in Fights /\ Fights' = Fights BY <1>1 DEF Fights
<1>3. f # None BY <1>2, AdmissionAssumption DEF RoomInv, FightR
<1> QED BY <1>1, <1>2, <1>3

LEMMA CreateFightSeats ==
  ASSUME AdmissionInv, RoomInv, NEW f, CreateFight(f) PROVE RoomInv'
<1>1. /\ f \in rooms.starting /\ f \in Fights /\ Fights' = Fights
      /\ rooms'.starting = rooms.starting \ {f} /\ rooms'.active = rooms.active \cup {f}
      /\ rooms'.seat = [p \in Wallets |-> IF p \in f.players \cap client.online
                                          THEN f ELSE rooms.seat[p]]
  BY CreateFightRooms
<1>2. \A p \in Wallets : rooms'.seat[p] = IF p \in f.players \cap client.online
                                          THEN f ELSE rooms.seat[p]
  BY <1>1
<1>3. ASSUME NEW p \in Wallets
      PROVE  /\ rooms'.seat[p] \in rooms'.active \cup {None}
             /\ rooms'.seat[p] # None => p \in rooms'.seat[p].players
  BY <1>1, <1>2 DEF RoomInv
<1>4. rooms'.seat \in [Wallets -> rooms'.active \cup {None}] BY <1>1, <1>3
<1>5. rooms'.starting \cap rooms'.active = {} BY <1>1 DEF RoomInv
<1> QED BY <1>1, <1>3, <1>4, <1>5 DEF RoomInv

LEMMA FinishRooms ==
  ASSUME AdmissionInv, NEW f, NEW winner, FinishFight(f, winner)
  PROVE  /\ f \in rooms.active /\ rooms'.starting = rooms.starting
         /\ rooms'.active = rooms.active \ {f}
         /\ rooms'.seat = [p \in Wallets |-> IF p \in f.players THEN None ELSE rooms.seat[p]]
<1>1. f \in rooms.active /\ rooms' = [rooms EXCEPT !.active = @ \ {f}, !.seat = Freed(f)]
  BY DEF FinishFight
<1>2. DOMAIN rooms = RoomFields BY DEF AdmissionInv, Shapes
<1>3. /\ rooms'.starting = rooms.starting /\ rooms'.active = rooms.active \ {f}
      /\ rooms'.seat = Freed(f)
  BY <1>1, <1>2 DEF RoomFields
<1> QED BY <1>1, <1>3 DEF Freed

LEMMA FinishSeats ==
  ASSUME AdmissionInv, RoomInv, NEW f, NEW winner, FinishFight(f, winner) PROVE RoomInv'
<1>1. /\ f \in rooms.active /\ rooms'.starting = rooms.starting
      /\ rooms'.active = rooms.active \ {f}
      /\ rooms'.seat = [p \in Wallets |-> IF p \in f.players THEN None ELSE rooms.seat[p]]
  BY FinishRooms
<1>2. Fights' \in SUBSET Fights BY <1>1 DEF Fights
<1>3. IsFiniteSet(Fights') BY <1>2, FS_Subset DEF RoomInv
<1>4. \A p \in Wallets : rooms'.seat[p] = IF p \in f.players THEN None ELSE rooms.seat[p]
  BY <1>1
<1>5. ASSUME NEW p \in Wallets
      PROVE  /\ rooms'.seat[p] \in rooms'.active \cup {None}
             /\ rooms'.seat[p] # None => p \in rooms'.seat[p].players
  <2>1. /\ rooms.seat[p] \in rooms.active \cup {None}
        /\ rooms.seat[p] # None => p \in rooms.seat[p].players
    BY DEF RoomInv
  <2> QED BY <1>1, <1>4, <2>1
<1>6. rooms'.seat \in [Wallets -> rooms'.active \cup {None}] BY <1>1, <1>5
<1>7. rooms'.starting \cap rooms'.active = {} BY <1>1 DEF RoomInv
<1> QED BY <1>2, <1>3, <1>5, <1>6, <1>7 DEF RoomInv

LEMMA ReplacedRooms ==
  ASSUME AdmissionInv, NEW p \in Wallets, SessionReplaced(p)
  PROVE  /\ rooms'.starting = rooms.starting /\ rooms'.active = rooms.active
         /\ rooms'.seat = [rooms.seat EXCEPT ![p] = None] /\ past'.unseated
<1>1. /\ rooms' = [rooms EXCEPT !.seat[p] = None]
      /\ past' = [past EXCEPT !.unseated = TRUE, !.mishaps = @ + 1]
  BY DEF SessionReplaced
<1>2. DOMAIN rooms = RoomFields /\ DOMAIN past = PastFields BY DEF AdmissionInv, Shapes
<1>3. past'.unseated BY <1>1, <1>2 DEF PastFields
<1>4. /\ rooms'.starting = rooms.starting /\ rooms'.active = rooms.active
      /\ rooms'.seat = [rooms.seat EXCEPT ![p] = None]
  BY <1>1, <1>2 DEF RoomFields
<1> QED BY <1>3, <1>4

LEMMA ReplacedSeats ==
  ASSUME AdmissionInv, RoomInv, NEW p \in Wallets, SessionReplaced(p) PROVE RoomInv'
<1>1. /\ rooms'.starting = rooms.starting /\ rooms'.active = rooms.active
      /\ rooms'.seat = [rooms.seat EXCEPT ![p] = None]
  BY ReplacedRooms
<1>2. Fights' = Fights BY <1>1 DEF Fights
<1>3. rooms'.seat \in [Wallets -> rooms.active \cup {None}] BY <1>1 DEF RoomInv
<1>4. \A q \in Wallets : rooms'.seat[q] # None => rooms'.seat[q] = rooms.seat[q]
  BY <1>1 DEF RoomInv
<1> QED BY <1>1, <1>2, <1>3, <1>4 DEF RoomInv

LEMMA CrashSeats ==
  ASSUME NEW old, Crash(old) PROVE RoomInv'
<1>1. rooms' = [starting |-> {}, active |-> {}, seat |-> [p \in Wallets |-> None]]
  BY DEF Crash
<1>2. rooms'.starting = {} /\ rooms'.active = {} /\ rooms'.seat = [p \in Wallets |-> None]
  BY <1>1
<1>3. Fights' = {} BY <1>2 DEF Fights
<1> QED BY <1>2, <1>3, FS_EmptySet DEF RoomInv

LEMMA SameRooms == ASSUME RoomInv, UNCHANGED rooms PROVE RoomInv'
BY DEF RoomInv, Fights

LEMMA ProceedStarts ==
  ASSUME AdmissionInv, NEW h, Proceed(h)
  PROVE  /\ h.wager \in Wagers /\ h.who \in Wallets /\ h.entry \in Wallets /\ h.who # h.entry
         /\ UNCHANGED rooms \/ Starts(h.wager, h.who, h.entry)
<1>1. /\ h \in handlers /\ h.kind = "wager_accepted" /\ Outcome(h) = "proceed" /\ h.entry # None
      /\ UNCHANGED rooms \/ Starts(h.wager, h.who, h.entry)
  BY DEF Proceed, Answered, Starts
<1>2. HandlerI(h) /\ h.entry # Absent BY <1>1 DEF AdmissionInv, Outcome
<1>3. h.wager \in Wagers /\ h.who \in Wallets /\ h.entry \in Wallets
  BY <1>1, <1>2 DEF HandlerI, HandlerR
<1>4. h.who # h.entry BY <1>1, <1>2 DEF HandlerI
<1> QED BY <1>1, <1>3, <1>4

LEMMA MatchStarts ==
  ASSUME NEW p \in Wallets, NEW q \in Wallets, TryMatchPlayers(p, q) \/ OnAcceptFightRequest(p, q)
  PROVE  p # q /\ Starts(None, p, q)
BY DEF TryMatchPlayers, OnAcceptFightRequest, Starts

LEMMA StepRooms == AdmissionInv /\ RoomInv /\ [Next]_vars => RoomInv'
<1> SUFFICES ASSUME AdmissionInv, RoomInv, [Next]_vars PROVE RoomInv' OBVIOUS
<1>1. ASSUME NEW w \in Wagers, PlayerStep(w) \/ ServerStep(w) PROVE UNCHANGED rooms
  BY <1>1 DEF PlayerStep, ServerStep, create_wager, approve_challenger, cancel_wager, Resend,
     CancelWagerLobby, request_accept_wager, ChallengeEnds, reclaim_stalled_wager, SweepLobby,
     AdminCancel, AdminCancelFails, ReadWagerFields, RehydrateFails, SweepOne, ServerUnchanged
<1>2. ASSUME NEW p \in Wallets, QueueStep(p) PROVE RoomInv'
  <2>1. CASE Login(p) \/ QueueFight(p) \/ LeaveQueue(p)
    BY <2>1, SameRooms DEF Login, QueueFight, LeaveQueue
  <2>2. CASE SessionReplaced(p) BY <2>2, ReplacedSeats
  <2>3. ASSUME NEW q \in Wallets, TryMatchPlayers(p, q) \/ OnAcceptFightRequest(p, q)
        PROVE  RoomInv'
    BY <2>3, MatchStarts, StartsKeeps
  <2> QED BY <1>2, <2>1, <2>2, <2>3 DEF QueueStep
<1>3. ASSUME NEW m, MessageStep(m) PROVE UNCHANGED rooms
  BY <1>3 DEF MessageStep, QueueWager, HandleWagerAccepted, HandleWagerHandshake, Lost,
     ServerUnchanged
<1>4. ASSUME NEW h, HandlerStep(h) PROVE RoomInv'
  <2>1. CASE Proceed(h) BY <2>1, ProceedStarts, StartsKeeps, SameRooms
  <2>2. CASE ~Proceed(h)
    <3>1. UNCHANGED rooms
      BY <1>4, <2>2 DEF HandlerStep, GetWagerStatus, NoAnswer, AcceptRejected, AutoRollback,
         HandshakeEnds, AdoptIntoLobby
    <3> QED BY <3>1, SameRooms
  <2> QED BY <2>1, <2>2
<1>5. ASSUME NEW f, FightStep(f) PROVE RoomInv'
  BY <1>5, CreateFightSeats, FinishSeats DEF FightStep
<1>6. ASSUME NEW old, Crash(old) PROVE RoomInv' BY <1>6, CrashSeats
<1>7. CASE UNCHANGED vars BY <1>7, SameRooms DEF vars
<1> QED BY <1>1, <1>2, <1>3, <1>4, <1>5, <1>6, <1>7, SameRooms DEF Next

LEMMA InitRooms == Init => RoomInv
<1> SUFFICES ASSUME Init PROVE RoomInv OBVIOUS
<1>1. rooms = [starting |-> {}, active |-> {}, seat |-> [p \in Wallets |-> None]] BY DEF Init
<1>2. rooms.starting = {} /\ rooms.active = {} /\ rooms.seat = [p \in Wallets |-> None] BY <1>1
<1>3. Fights = {} BY <1>2 DEF Fights
<1> QED BY <1>2, <1>3, FS_EmptySet DEF RoomInv

LEMMA Typed == AdmissionInv /\ RoomInv => TypeOK
<1> SUFFICES ASSUME AdmissionInv, RoomInv PROVE TypeOK OBVIOUS
<1>1. client.posted \subseteq [kind : Kinds \cup {"queue_fight"}, who : Wallets, wager : Wagers]
  BY DEF AdmissionInv, MessageI, MessageR
<1>2. handlers \subseteq [kind : Kinds \cup {"rehydrate"}, who : Wallets, wager : Wagers,
                          entry : Wallets \cup {None, Absent}, own : Wagers \cup {None},
                          queued : BOOLEAN,
                          status : OpenStatuses \cup {"UNREAD", "SETTLED"}]
  BY DEF AdmissionInv, HandlerI, HandlerR
<1>3. \A f \in Fights : /\ Cardinality(f.players) = 2 /\ f.players \subseteq Wallets
                        /\ f.wager \in Wagers \cup {None} /\ f.id \in Nat
  BY DEF RoomInv, FightR
<1>4. Shapes BY DEF AdmissionInv
<1>5. chain \in [Wagers -> [status : OpenStatuses \cup {"ABSENT", "SETTLED"},
                            challenger : Wallets \cup {None}]]
  BY <1>4 DEF Shapes, WagerR, Statuses
<1> QED BY <1>1, <1>2, <1>3, <1>4, <1>5 DEF TypeOK, Shapes, RoomInv

LEMMA AlwaysRooms == Spec => [](AdmissionInv /\ RoomInv)
BY InitAdmission, StepAdmission, InitRooms, StepRooms, PTL DEF Spec

\* The type invariant: fights have numbers of their own and two players, and
\* a seat is in a fight that runs.
THEOREM TypeCorrect == Spec => []TypeOK
BY AlwaysRooms, Typed, PTL

(***************************************************************************)
(* One fight at a time                                                     *)
(***************************************************************************)
Accepts(w) == {h \in handlers : h.kind = "wager_accepted" /\ h.wager = w}
Creations(w) == {f \in rooms.starting : f.wager = w}
Runs(w) == {f \in rooms.active : f.wager = w}

\* Only one accept of w is under way, up to the creation of its fight; and,
\* while no seat was taken away, none while its fight runs, since the creator
\* has a seat then.
One(w) ==
  /\ \A h, k \in Accepts(w) : h = k
  /\ \A f, g \in Creations(w) : f = g
  /\ Accepts(w) = {} \/ Creations(w) = {}
  /\ ~past.unseated =>
       /\ \A f, g \in Runs(w) : f = g
       /\ Runs(w) # {} => /\ Accepts(w) = {} /\ Creations(w) = {}
                          /\ rooms.seat[CreatorOf[w]] # None

LEMMA OneIsOne ==
  ASSUME \A w \in Wagers : One(w) PROVE OneFightPerWager
<1> SUFFICES ASSUME NEW w \in Wagers, ~past.unseated
             PROVE  ~(Cardinality({f \in Fights : f.wager = w}) > 1)
  BY DEF OneFightPerWager
<1> DEFINE S == {f \in Fights : f.wager = w}
<1>1. S = Creations(w) \cup Runs(w) BY DEF Fights, Creations, Runs
<1>2. \A f, g \in S : f = g BY <1>1 DEF One
<1>3. CASE S = {}
  <2>1. Cardinality(S) = 0 BY <1>3, FS_EmptySet
  <2> QED BY <2>1
<1>4. CASE S # {}
  <2>1. PICK f \in S : TRUE BY <1>4
  <2>2. S = {f} BY <1>2, <2>1
  <2>3. Cardinality(S) = 1 BY <2>2, FS_Singleton
  <2> QED BY <2>3
<1> QED BY <1>3, <1>4

\* Steps that add nothing to what w has, and leave its creator the seat.
Shrinks(w) ==
  /\ Accepts(w)' \subseteq Accepts(w) /\ Creations(w)' \subseteq Creations(w)
  /\ Runs(w)' \subseteq Runs(w)
  /\ past.unseated => past'.unseated
  /\ ~past'.unseated /\ Runs(w)' # {} /\ rooms.seat[CreatorOf[w]] # None =>
       rooms'.seat[CreatorOf[w]] # None

LEMMA ShrinksKeeps ==
  ASSUME NEW w \in Wagers, One(w), Shrinks(w) PROVE One(w)'
<1>1. /\ Accepts(w)' \subseteq Accepts(w) /\ Creations(w)' \subseteq Creations(w)
      /\ Runs(w)' \subseteq Runs(w)
  BY DEF Shrinks
<1>2. /\ \A h, k \in Accepts(w)' : h = k
      /\ \A f, g \in Creations(w)' : f = g
      /\ Accepts(w)' = {} \/ Creations(w)' = {}
  BY <1>1 DEF One
<1>3. ASSUME ~past'.unseated
      PROVE  /\ \A f, g \in Runs(w)' : f = g
             /\ Runs(w)' # {} => /\ Accepts(w)' = {} /\ Creations(w)' = {}
                                 /\ rooms'.seat[CreatorOf[w]] # None
  <2>1. ~past.unseated BY <1>3 DEF Shrinks
  <2>2. /\ \A f, g \in Runs(w) : f = g
        /\ Runs(w) # {} => /\ Accepts(w) = {} /\ Creations(w) = {}
                           /\ rooms.seat[CreatorOf[w]] # None
    BY <2>1 DEF One
  <2>3. Runs(w)' # {} => Runs(w) # {} BY <1>1
  <2> QED BY <1>1, <1>3, <2>2, <2>3 DEF Shrinks
<1> QED BY <1>2, <1>3 DEF One

LEMMA InitOne == ASSUME Init, NEW w \in Wagers PROVE One(w)
<1>1. rooms = [starting |-> {}, active |-> {}, seat |-> [p \in Wallets |-> None]]
      /\ handlers = {}
  BY DEF Init
<1>2. rooms.starting = {} /\ rooms.active = {} BY <1>1
<1>3. Accepts(w) = {} /\ Creations(w) = {} /\ Runs(w) = {}
  BY <1>1, <1>2 DEF Accepts, Creations, Runs
<1> QED BY <1>3 DEF One

\* Steps that start no accept and no fight, and end none.
Quiet ==
  /\ UNCHANGED rooms
  /\ past.unseated => past'.unseated
  /\ \A h \in handlers' : h.kind = "wager_accepted" => h \in handlers

LEMMA QuietKeeps == ASSUME NEW w \in Wagers, One(w), Quiet PROVE One(w)'
<1>1. Accepts(w)' \subseteq Accepts(w) BY DEF Accepts, Quiet
<1>2. Creations(w)' = Creations(w) /\ Runs(w)' = Runs(w) BY DEF Creations, Runs, Quiet
<1>3. Shrinks(w) BY <1>1, <1>2 DEF Shrinks, Quiet
<1> QED BY <1>3, ShrinksKeeps

LEMMA PlayersAreQuiet == ASSUME AdmissionInv, NEW w \in Wagers, PlayerStep(w) PROVE Quiet
<1>1. UNCHANGED rooms /\ UNCHANGED handlers
  BY DEF PlayerStep, create_wager, approve_challenger, cancel_wager, Resend, CancelWagerLobby,
     request_accept_wager, ChallengeEnds, reclaim_stalled_wager, ServerUnchanged
<1>2. \/ UNCHANGED past \/ past' = [past EXCEPT !.challenges = @ + 1]
      \/ past' = [past EXCEPT !.mishaps = @ + 1]
  BY DEF PlayerStep, create_wager, approve_challenger, cancel_wager, Resend, CancelWagerLobby,
     request_accept_wager, ChallengeEnds, reclaim_stalled_wager
<1>3. past'.unseated = past.unseated BY <1>2 DEF AdmissionInv, Shapes, PastFields
<1> QED BY <1>1, <1>3 DEF Quiet

LEMMA ServerIsQuiet == ASSUME AdmissionInv, NEW w \in Wagers, ServerStep(w) PROVE Quiet
<1>1. UNCHANGED rooms
  BY DEF ServerStep, SweepLobby, AdminCancel, AdminCancelFails, ReadWagerFields, RehydrateFails,
     SweepOne
<1>2. UNCHANGED past \/ \E s : past' = [past EXCEPT !.givenUp = s]
  <2>1. CASE ReadWagerFields(w) \/ AdminCancelFails(w) \/ RehydrateFails(w)
    BY <2>1 DEF ReadWagerFields, AdminCancelFails, RehydrateFails
  <2>2. CASE SweepLobby(w) \/ AdminCancel(w) \/ SweepOne(w)
    BY <2>2 DEF SweepLobby, AdminCancel, SweepOne
  <2> QED BY <2>1, <2>2 DEF ServerStep
<1>3. past'.unseated = past.unseated BY <1>2 DEF AdmissionInv, Shapes, PastFields
<1>4. \A h \in handlers' : h.kind = "wager_accepted" => h \in handlers
  <2>1. CASE ReadWagerFields(w)
    <3> DEFINE m == Message("rehydrate", CreatorOf[w], w)
               a == Handler(m, chain[w].challenger, None, FALSE)
               g == [a EXCEPT !.status = chain[w].status]
    <3>1. handlers' = handlers \/ handlers' = handlers \cup {g} BY <2>1 DEF ReadWagerFields
    <3>2. m.kind = "rehydrate" BY DEF Message
    <3> HIDE DEF m
    <3>3. a.kind = "rehydrate" /\ "kind" \in DOMAIN a BY <3>2 DEF Handler
    <3> HIDE DEF a
    <3>4. g.kind = "rehydrate" BY <3>3
    <3> HIDE DEF g
    <3> QED BY <3>1, <3>4
  <2>2. CASE ~ReadWagerFields(w)
    BY <2>2 DEF ServerStep, SweepLobby, AdminCancel, AdminCancelFails, RehydrateFails, SweepOne
  <2> QED BY <2>1, <2>2
<1> QED BY <1>1, <1>3, <1>4 DEF Quiet

LEMMA MessagesAreQuiet ==
  ASSUME AdmissionInv, NEW m, MessageStep(m), ~HandleWagerAccepted(m) PROVE Quiet
<1>1. UNCHANGED rooms /\ UNCHANGED past
  BY DEF MessageStep, QueueWager, HandleWagerHandshake, Lost, ServerUnchanged
<1>2. \A h \in handlers' : h.kind = "wager_accepted" => h \in handlers
  <2>1. CASE HandleWagerHandshake(m)
    <3>1. /\ m.kind # "wager_accepted"
          /\ \/ UNCHANGED handlers
             \/ \E e \in {None, Absent} : handlers' = handlers \cup {Handler(m, e, None, FALSE)}
      BY <2>1 DEF HandleWagerHandshake, Handshakes
    <3>2. \A e : Handler(m, e, None, FALSE).kind = m.kind BY DEF Handler
    <3> QED BY <3>1, <3>2
  <2>2. CASE QueueWager(m) \/ Lost(m) BY <2>2 DEF QueueWager, Lost, ServerUnchanged
  <2> QED BY <2>1, <2>2 DEF MessageStep
<1> QED BY <1>1, <1>2 DEF Quiet

LEMMA HandlersAreQuiet ==
  ASSUME AdmissionInv, NEW h, HandlerStep(h), ~GetWagerStatus(h), ~Proceed(h) PROVE Quiet
BY DEF HandlerStep, NoAnswer, AcceptRejected, AutoRollback, HandshakeEnds, AdoptIntoLobby, Quiet

LEMMA QueueIsOne ==
  ASSUME AdmissionInv, NEW p \in Wallets, QueueStep(p), NEW w \in Wagers, One(w) PROVE One(w)'
<1>1. CASE Login(p) \/ QueueFight(p) \/ LeaveQueue(p)
  BY <1>1, QuietKeeps DEF Login, QueueFight, LeaveQueue, Quiet
<1>2. CASE SessionReplaced(p)
  <2>1. /\ rooms'.starting = rooms.starting /\ rooms'.active = rooms.active
        /\ past'.unseated /\ UNCHANGED handlers
    BY <1>2, ReplacedRooms DEF SessionReplaced
  <2>2. /\ Accepts(w)' = Accepts(w) /\ Creations(w)' = Creations(w) /\ Runs(w)' = Runs(w)
    BY <2>1 DEF Accepts, Creations, Runs
  <2> QED BY <2>1, <2>2, ShrinksKeeps DEF Shrinks
<1>3. ASSUME NEW q \in Wallets, TryMatchPlayers(p, q) \/ OnAcceptFightRequest(p, q)
      PROVE  One(w)'
  <2> DEFINE f == NewFight(None, {p, q})
  <2>1. rooms' = [rooms EXCEPT !.starting = @ \cup {f}]
        /\ UNCHANGED handlers /\ UNCHANGED past
    BY <1>3 DEF TryMatchPlayers, OnAcceptFightRequest
  <2>2. f.wager # w BY NewFightIs, Given
  <2> HIDE DEF f
  <2>3. /\ rooms'.starting = rooms.starting \cup {f} /\ rooms'.active = rooms.active
        /\ rooms'.seat = rooms.seat
    BY <2>1 DEF AdmissionInv, Shapes, RoomFields
  <2>4. /\ Accepts(w)' = Accepts(w) /\ Creations(w)' = Creations(w) /\ Runs(w)' = Runs(w)
    BY <2>1, <2>2, <2>3 DEF Accepts, Creations, Runs
  <2> QED BY <2>1, <2>3, <2>4, ShrinksKeeps DEF Shrinks
<1> QED BY <1>1, <1>2, <1>3 DEF QueueStep

\* The guard of an accept: no other is processed, and the caller, who created
\* the wager, has no seat.
LEMMA AcceptIsOne ==
  ASSUME AdmissionInv, NEW m, HandleWagerAccepted(m), NEW w \in Wagers, One(w) PROVE One(w)'
<1>1. /\ m \in client.posted /\ m.kind = "wager_accepted"
      /\ UNCHANGED rooms /\ UNCHANGED past
      /\ \/ UNCHANGED handlers
         \/ /\ ~Processing(m.wager) /\ rooms.seat[m.who] = None
            /\ \E h : /\ handlers' = handlers \cup {h} /\ h.wager = m.wager
  <2>1. \A e, o, q : Handler(m, e, o, q).wager = m.wager BY DEF Handler
  <2> QED BY <2>1 DEF HandleWagerAccepted
<1>2. m.who = CreatorOf[m.wager] BY <1>1 DEF AdmissionInv, MessageI
<1>3. Creations(w)' = Creations(w) /\ Runs(w)' = Runs(w) BY <1>1 DEF Creations, Runs
<1>4. CASE UNCHANGED handlers BY <1>1, <1>4, QuietKeeps DEF Quiet
<1>5. ASSUME NEW h, handlers' = handlers \cup {h}, h.wager = m.wager,
             ~Processing(m.wager), rooms.seat[m.who] = None
      PROVE  One(w)'
  <2>1. CASE w # m.wager
    <3>1. Accepts(w)' = Accepts(w) BY <1>5, <2>1 DEF Accepts
    <3> QED BY <1>1, <1>3, <3>1, ShrinksKeeps DEF Shrinks
  <2>2. CASE w = m.wager
    <3>1. Accepts(w) = {} /\ Creations(w) = {}
      BY <1>5, <2>2 DEF Processing, Accepts, Creations
    <3>2. rooms.seat[CreatorOf[w]] = None BY <1>2, <1>5, <2>2
    <3>3. ~past.unseated => Runs(w) = {} BY <3>2 DEF One
    <3>4. Accepts(w)' \subseteq {h} BY <1>5, <3>1 DEF Accepts
    <3> QED BY <1>1, <1>3, <3>1, <3>3, <3>4 DEF One
  <2> QED BY <2>1, <2>2
<1> QED BY <1>1, <1>4, <1>5

LEMMA AnswerIsOne ==
  ASSUME AdmissionInv, NEW h, GetWagerStatus(h), NEW w \in Wagers, One(w) PROVE One(w)'
<1> DEFINE g == [h EXCEPT !.status = chain[h.wager].status]
<1>1. /\ h \in handlers /\ handlers' = (handlers \ {h}) \cup {g}
      /\ UNCHANGED rooms /\ UNCHANGED past
  BY DEF GetWagerStatus
<1>2. HandlerI(h) BY <1>1 DEF AdmissionInv
<1>3. g.kind = h.kind /\ g.wager = h.wager BY <1>2 DEF HandlerI, HandlerR
<1> HIDE DEF g
<1>4. Creations(w)' = Creations(w) /\ Runs(w)' = Runs(w) BY <1>1 DEF Creations, Runs
<1>5. CASE h \notin Accepts(w)
  <2>1. g \notin Accepts(w)' BY <1>1, <1>3, <1>5 DEF Accepts
  <2>2. Accepts(w)' \subseteq Accepts(w) BY <1>1, <2>1 DEF Accepts
  <2> QED BY <1>1, <1>4, <2>2, ShrinksKeeps DEF Shrinks
<1>6. CASE h \in Accepts(w)
  <2>1. Accepts(w) = {h} BY <1>6 DEF One
  <2>2. Accepts(w)' \subseteq {g} BY <1>1, <2>1 DEF Accepts
  <2> QED BY <1>1, <1>4, <1>6, <2>2 DEF One
<1> QED BY <1>5, <1>6

\* The accept hands its wager over to the fight it starts.
LEMMA ProceedIsOne ==
  ASSUME AdmissionInv, NEW h, Proceed(h), NEW w \in Wagers, One(w) PROVE One(w)'
<1> DEFINE f == NewFight(h.wager, {h.who, h.entry})
<1>1. /\ h \in handlers /\ h.kind = "wager_accepted" /\ handlers' = handlers \ {h}
      /\ UNCHANGED rooms \/ rooms' = [rooms EXCEPT !.starting = @ \cup {f}]
      /\ UNCHANGED past \/ past' = [past EXCEPT !.unwritten = @ \cup {h.wager}]
  BY DEF Proceed, Answered
<1>2. f.wager = h.wager BY NewFightIs
<1> HIDE DEF f
<1>6. past'.unseated = past.unseated BY <1>1 DEF AdmissionInv, Shapes, PastFields
<1>3. Accepts(w)' \subseteq Accepts(w) BY <1>1 DEF Accepts
<1>4. CASE UNCHANGED rooms BY <1>1, <1>4, <1>6, QuietKeeps DEF Quiet
<1>5. CASE rooms' = [rooms EXCEPT !.starting = @ \cup {f}]
  <2>1. /\ rooms'.starting = rooms.starting \cup {f} /\ rooms'.active = rooms.active
        /\ rooms'.seat = rooms.seat
    BY <1>5 DEF AdmissionInv, Shapes, RoomFields
  <2>2. Runs(w)' = Runs(w) BY <2>1 DEF Runs
  <2>3. CASE h.wager # w
    <3>1. Creations(w)' = Creations(w) BY <1>2, <2>1, <2>3 DEF Creations
    <3> QED BY <1>1, <1>3, <1>6, <2>1, <2>2, <3>1, ShrinksKeeps DEF Shrinks
  <2>4. CASE h.wager = w
    <3>1. h \in Accepts(w) BY <1>1, <2>4 DEF Accepts
    <3>2. Accepts(w) = {h} /\ Creations(w) = {} BY <3>1 DEF One
    <3>3. ~past.unseated => Runs(w) = {} BY <3>1 DEF One
    <3>4. Accepts(w)' = {} BY <1>1, <3>2 DEF Accepts
    <3>5. Creations(w)' \subseteq {f} BY <2>1, <3>2 DEF Creations
    <3> QED BY <1>1, <1>6, <2>2, <3>3, <3>4, <3>5 DEF One
  <2> QED BY <2>3, <2>4
<1> QED BY <1>1, <1>4, <1>5

\* A fight that begins gives its creator, who is online, a seat.
LEMMA CreateIsOne ==
  ASSUME AdmissionInv, RoomInv, NEW f, CreateFight(f), NEW w \in Wagers, One(w) PROVE One(w)'
<1>1. /\ f \in rooms.starting /\ f \in Fights
      /\ rooms'.starting = rooms.starting \ {f} /\ rooms'.active = rooms.active \cup {f}
      /\ rooms'.seat = [p \in Wallets |-> IF p \in f.players \cap client.online
                                          THEN f ELSE rooms.seat[p]]
      /\ f # None
  BY CreateFightRooms
<1>2. UNCHANGED handlers /\ UNCHANGED past BY DEF CreateFight
<1>3. Accepts(w)' = Accepts(w) BY <1>2 DEF Accepts
<1>4. CreatorOf[w] \in Wallets BY Given
<1>5. rooms.seat[CreatorOf[w]] # None => rooms'.seat[CreatorOf[w]] # None BY <1>1, <1>4
<1>6. Creations(w)' \subseteq Creations(w) BY <1>1 DEF Creations
<1>7. CASE f.wager # w
  <2>1. Runs(w)' = Runs(w) BY <1>1, <1>7 DEF Runs
  <2> QED BY <1>2, <1>3, <1>5, <1>6, <2>1, ShrinksKeeps DEF Shrinks
<1>8. CASE f.wager = w
  <2>1. f \in Creations(w) BY <1>1, <1>8 DEF Creations
  <2>2. Creations(w) = {f} /\ Accepts(w) = {} BY <2>1 DEF One
  <2>3. Creations(w)' = {} BY <1>1, <2>2 DEF Creations
  <2>4. ~past.unseated => Runs(w) = {} BY <2>1 DEF One
  <2>5. ~past.unseated => Runs(w)' \subseteq {f} BY <1>1, <2>4 DEF Runs
  <2>6. CreatorOf[w] \in f.players \cap client.online
    BY <1>1, <1>8, Given DEF AdmissionInv, FightI
  <2>7. rooms'.seat[CreatorOf[w]] # None BY <1>1, <1>4, <2>6
  <2> QED BY <1>2, <1>3, <2>2, <2>3, <2>5, <2>7 DEF One
<1> QED BY <1>7, <1>8

\* The end of a fight takes the seats of its players, and that is noted when
\* one of them has another fight.
LEMMA FinishIsOne ==
  ASSUME AdmissionInv, NEW f, NEW winner, FinishFight(f, winner), NEW w \in Wagers, One(w)
  PROVE  One(w)'
<1>1. /\ f \in rooms.active /\ rooms'.starting = rooms.starting
      /\ rooms'.active = rooms.active \ {f}
      /\ rooms'.seat = [p \in Wallets |-> IF p \in f.players THEN None ELSE rooms.seat[p]]
  BY FinishRooms
<1>2. /\ UNCHANGED handlers
      /\ past' = [past EXCEPT !.unseated =
                   @ \/ \E g \in rooms.active \ {f} : f.players \cap g.players # {}]
  BY DEF FinishFight
<1>3. past'.unseated <=> \/ past.unseated
                         \/ \E g \in rooms.active \ {f} : f.players \cap g.players # {}
  <2> DEFINE b == past.unseated \/ \E g \in rooms.active \ {f} : f.players \cap g.players # {}
  <2>1. past' = [past EXCEPT !.unseated = b] BY <1>2
  <2> HIDE DEF b
  <2>2. past'.unseated = b BY <2>1 DEF AdmissionInv, Shapes, PastFields
  <2> QED BY <2>2 DEF b
<1>4. /\ Accepts(w)' = Accepts(w) /\ Creations(w)' = Creations(w) /\ Runs(w)' \subseteq Runs(w)
  BY <1>1, <1>2 DEF Accepts, Creations, Runs
<1>5. ASSUME ~past'.unseated, Runs(w)' # {} PROVE CreatorOf[w] \notin f.players
  <2>1. PICK g \in Runs(w)' : TRUE BY <1>5
  <2>2. g \in rooms.active \ {f} /\ g.wager = w BY <1>1, <2>1 DEF Runs
  <2>3. CreatorOf[w] \in g.players BY <2>2, Given DEF AdmissionInv, FightI, Fights
  <2> QED BY <1>3, <1>5, <2>2, <2>3
<1>6. CreatorOf[w] \in Wallets BY Given
<1>7. ~past'.unseated /\ Runs(w)' # {} /\ rooms.seat[CreatorOf[w]] # None =>
        rooms'.seat[CreatorOf[w]] # None
  BY <1>1, <1>5, <1>6
<1>8. past.unseated => past'.unseated BY <1>3
<1> QED BY <1>4, <1>7, <1>8, ShrinksKeeps DEF Shrinks

LEMMA CrashIsOne ==
  ASSUME NEW old, Crash(old), NEW w \in Wagers PROVE One(w)'
<1>1. rooms' = [starting |-> {}, active |-> {}, seat |-> [p \in Wallets |-> None]]
      /\ handlers' = {}
  BY DEF Crash
<1>2. rooms'.starting = {} /\ rooms'.active = {} BY <1>1
<1>3. Accepts(w)' = {} /\ Creations(w)' = {} /\ Runs(w)' = {}
  BY <1>1, <1>2 DEF Accepts, Creations, Runs
<1> QED BY <1>3 DEF One

UniqueInv == AdmissionInv /\ RoomInv /\ \A w \in Wagers : One(w)

LEMMA StepUnique == UniqueInv /\ [Next]_vars => UniqueInv'
<1> SUFFICES ASSUME UniqueInv, [Next]_vars PROVE UniqueInv' OBVIOUS
<1>1. AdmissionInv /\ RoomInv BY DEF UniqueInv
<1>2. AdmissionInv' /\ RoomInv' BY <1>1, StepAdmission, StepRooms
<1>3. ASSUME NEW w \in Wagers PROVE One(w)'
  <2>1. One(w) BY DEF UniqueInv
  <2>2. ASSUME NEW v \in Wagers, PlayerStep(v) \/ ServerStep(v) PROVE One(w)'
    BY <1>1, <2>1, <2>2, PlayersAreQuiet, ServerIsQuiet, QuietKeeps
  <2>3. ASSUME NEW p \in Wallets, QueueStep(p) PROVE One(w)' BY <1>1, <2>1, <2>3, QueueIsOne
  <2>4. ASSUME NEW m, MessageStep(m) PROVE One(w)'
    BY <1>1, <2>1, <2>4, MessagesAreQuiet, QuietKeeps, AcceptIsOne
  <2>5. ASSUME NEW h, HandlerStep(h) PROVE One(w)'
    BY <1>1, <2>1, <2>5, HandlersAreQuiet, QuietKeeps, AnswerIsOne, ProceedIsOne
  <2>6. ASSUME NEW f, FightStep(f) PROVE One(w)'
    BY <1>1, <2>1, <2>6, CreateIsOne, FinishIsOne DEF FightStep
  <2>7. ASSUME NEW old, Crash(old) PROVE One(w)' BY <2>7, CrashIsOne
  <2>8. CASE UNCHANGED vars
    <3>1. Quiet BY <2>8 DEF vars, Quiet
    <3> QED BY <2>1, <3>1, QuietKeeps
  <2> QED BY <2>2, <2>3, <2>4, <2>5, <2>6, <2>7, <2>8 DEF Next
<1> QED BY <1>2, <1>3 DEF UniqueInv

LEMMA Entitled == UniqueInv => FightsAreEntitled
BY ApprovedFights, OneIsOne DEF UniqueInv, FightsAreEntitled

\* A wager leads to a fight only after its creator approved a challenger on
\* chain, whatever a handler kept over its awaits, and to one fight at a time,
\* unless the end of another fight or of a session took the creator's seat.
THEOREM FightsHaveATitle == Spec => []FightsAreEntitled
<1>1. Init => UniqueInv BY InitAdmission, InitRooms, InitOne DEF UniqueInv
<1> QED BY <1>1, StepUnique, Entitled, PTL DEF Spec
=============================================================================
