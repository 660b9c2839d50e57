------------------------------- MODULE Market -------------------------------
(***************************************************************************)
(* The item market: kiosks, listings and sales on the chain                *)
(* (contracts/sources/marketplace.move, royalty_rule.move), the server's   *)
(* index of what is for sale, which it rebuilds from the events of the     *)
(* chain (server/src/data/marketplace.ts), and the market page of a        *)
(* browser, which shows the index and signs purchases from what it shows   *)
(* (frontend/src/hooks/useMarketplace*.ts, components/marketplace).        *)
(*                                                                         *)
(* The index reads the events twice over: page by page from a cursor (cold *)
(* sync at boot, gap fill before every subscription) and one by one from a *)
(* stream that starts at "now".  The stream does not move the cursor.      *)
(*                                                                         *)
(* A wallet has one kiosk, named after it: create_or_get_player_kiosk      *)
(* refuses a second.  Left out: what an item is, names, timestamps, the    *)
(* listing filters, KioskCreated in the index (nothing reads kioskOwners), *)
(* kiosks opened under older packages, and kiosk calls the web client does *)
(* not make.                                                               *)
(***************************************************************************)
EXTENDS Naturals, Sequences, FiniteSets, SequencesExt

CONSTANTS
  Wallets, Items,
  Watchers,          \* wallets with the market page open
  None,              \* undefined
  Prices,            \* prices a seller may ask
  Funds,             \* coins a wallet starts with
  LISTING_FEE_MIST, ROYALTY_BPS, BPS_BASE, ROYALTY_MIN_MIST,
  PAGE,              \* events in a page of queryEvents
  MaxEvents,         \* bound: events ever emitted
  MaxMishaps         \* bound: failed queries and fetches, ended streams, closed
                     \* sockets and restarts, together

ASSUME MarketAssumption ==
  /\ Prices \subseteq Nat \ {0} /\ Watchers \subseteq Wallets
  /\ None \notin Nat \cup [price : Prices, seller : Wallets]
  /\ PAGE \in Nat \ {0} /\ BPS_BASE \in Nat \ {0}
  /\ {Funds, LISTING_FEE_MIST, ROYALTY_BPS, ROYALTY_MIN_MIST, MaxEvents, MaxMishaps}
        \subseteq Nat

VARIABLES
  place,      \* where an item is: its owner, and if it is in the owner's kiosk
  ask,        \* the price of a listed item
  kiosks,     \* KioskRegistry: wallets with a kiosk
  coins,      \* [purse, profits: by wallet, treasury, royalties]
  log,        \* the events of the package, in order
  tx,         \* the transaction a wallet has signed and that has not run
  listings,   \* the index: price and seller of an item
  cursor,     \* lastEventCursor, 0 if null
  sync,       \* what the index is doing: phase, position, page read and not handled
  conn,       \* the page's socket: off, asking (get_marketplace sent), subscribed
  tab,        \* marketplaceListings of a page
  wire,       \* messages on their way to a page
  past        \* history: listings lost to a failed fetch; mishaps

chainVars == <<place, ask, kiosks, coins, log>>
indexVars == <<listings, cursor, sync>>
pageVars == <<conn, tab, wire>>
vars == <<place, ask, kiosks, coins, log, tx, listings, cursor, sync, conn, tab, wire, past>>

Phases == {"cold", "fill", "open", "live", "waiting", "dead"}
Offers == [item : Items, price : Prices, seller : Wallets]
Kinds == {"listed", "delisted", "bought"}

\* Operators named Bug... are the definition that follows them with a plausible
\* mistake in it; no definition uses one.

\* royalty_rule::amount, and computeRoyalty in the client.
Bugamount(paid) == (paid * ROYALTY_BPS) \div BPS_BASE
amount(paid) ==
  LET computed == (paid * ROYALTY_BPS) \div BPS_BASE
  IN  IF computed < ROYALTY_MIN_MIST THEN ROYALTY_MIN_MIST ELSE computed

\* An item starts in a wallet, or unlisted in a kiosk: a client of an earlier
\* version delisted without taking.
Init ==
  /\ place \in [Items -> [of : Wallets, kiosk : BOOLEAN]]
  /\ kiosks = {place[i].of : i \in {j \in Items : place[j].kiosk}}
  /\ ask = [i \in Items |-> None] /\ log = << >> /\ tx = [w \in Wallets |-> None]
  /\ coins = [purse |-> [w \in Wallets |-> Funds], profits |-> [w \in Wallets |-> 0],
              treasury |-> 0, royalties |-> 0]
  /\ listings = [i \in Items |-> None] /\ cursor = 0
  /\ sync = [phase |-> "cold", at |-> 0, more |-> TRUE, page |-> << >>]
  /\ conn = [w \in Watchers |-> "off"] /\ tab = [w \in Watchers |-> << >>]
  /\ wire = [w \in Watchers |-> << >>]
  /\ past = [lost |-> {}, mishaps |-> 0]

Mishap == /\ past.mishaps < MaxMishaps
          /\ past' = [past EXCEPT !.mishaps = @ + 1]

(***************************************************************************)
(* The chain.  A transaction runs later than it is signed, or never.       *)
(***************************************************************************)
Event(kind, i, w, price) == [kind |-> kind, item |-> i, who |-> w, price |-> price]

create_or_get_player_kiosk(w) ==
  /\ kiosks' = kiosks \cup {w}
  /\ UNCHANGED <<place, ask, coins, log, tx, past>>
  /\ UNCHANGED indexVars /\ UNCHANGED pageVars

Sign(w, kind, i, price, seller) ==
  /\ tx[w] = None /\ Len(log) < MaxEvents
  /\ tx' = [tx EXCEPT ![w] = [kind |-> kind, item |-> i, price |-> price, seller |-> seller]]
  /\ UNCHANGED past /\ UNCHANGED chainVars /\ UNCHANGED indexVars /\ UNCHANGED pageVars

\* What a page shows is what its wallet signs for.
SignList(w) == \E i \in Items, p \in Prices :
  /\ w \in kiosks /\ place[i] = [of |-> w, kiosk |-> FALSE]
  /\ Sign(w, "list", i, p, w)
SignDelist(w) == \E k \in DOMAIN tab[w] :
  tab[w][k].seller = w /\ Sign(w, "delist", tab[w][k].item, tab[w][k].price, w)
SignRetrieve(w) == \E i \in Items :
  /\ place[i] = [of |-> w, kiosk |-> TRUE] /\ ask[i] = None
  /\ Sign(w, "retrieve", i, None, w)
SignBuy(w) == \E k \in DOMAIN tab[w] :
  /\ tab[w][k].seller # w
  /\ tab[w][k].price + amount(tab[w][k].price) =< coins.purse[w]
  /\ Sign(w, "buy", tab[w][k].item, tab[w][k].price, tab[w][k].seller)

\* The transaction of w runs, and nothing else happens.
Runs(w, kind) ==
  /\ tx[w] # None /\ tx[w].kind = kind /\ Len(log) < MaxEvents
  /\ tx' = [tx EXCEPT ![w] = None]
  /\ UNCHANGED <<kiosks, past>> /\ UNCHANGED indexVars /\ UNCHANGED pageVars

list_item(w) == LET i == tx[w].item IN
  /\ Runs(w, "list") /\ place[i] = [of |-> w, kiosk |-> FALSE]
  /\ coins.purse[w] >= LISTING_FEE_MIST
  /\ coins' = [coins EXCEPT !.purse[w] = @ - LISTING_FEE_MIST, !.treasury = @ + LISTING_FEE_MIST]
  /\ place' = [place EXCEPT ![i].kiosk = TRUE]
  /\ ask' = [ask EXCEPT ![i] = tx[w].price]
  /\ log' = Append(log, Event("listed", i, w, tx[w].price))

\* buildDelistItemTx: delist_item, then the item is taken out of the kiosk.
delist_item(w) == LET i == tx[w].item IN
  /\ Runs(w, "delist") /\ place[i] = [of |-> w, kiosk |-> TRUE] /\ ask[i] # None
  /\ place' = [place EXCEPT ![i].kiosk = FALSE]
  /\ ask' = [ask EXCEPT ![i] = None]
  /\ log' = Append(log, Event("delisted", i, w, None))
  /\ UNCHANGED coins

\* kiosk::take, which refuses a listed item.
Retrieve(w) == LET i == tx[w].item IN
  /\ Runs(w, "retrieve") /\ place[i] = [of |-> w, kiosk |-> TRUE] /\ ask[i] = None
  /\ place' = [place EXCEPT ![i].kiosk = FALSE]
  /\ UNCHANGED <<ask, coins, log>>

\* kiosk::purchase takes exactly the price asked now; the client pays the
\* royalty on the price it was shown.
buy_item(w) == LET i == tx[w].item  s == tx[w].seller  p == tx[w].price IN
  /\ Runs(w, "buy") /\ place[i] = [of |-> s, kiosk |-> TRUE] /\ ask[i] = p
  /\ coins.purse[w] >= p + amount(p)
  /\ coins' = [coins EXCEPT !.purse[w] = @ - p - amount(p), !.profits[s] = @ + p,
                            !.royalties = @ + amount(p)]
  /\ place' = [place EXCEPT ![i] = [of |-> w, kiosk |-> FALSE]]
  /\ ask' = [ask EXCEPT ![i] = None]
  /\ log' = Append(log, Event("bought", i, w, p))

\* It aborts, or its signer declined it.
TxFails(w) ==
  /\ tx[w] # None /\ tx' = [tx EXCEPT ![w] = None]
  /\ UNCHANGED past /\ UNCHANGED chainVars /\ UNCHANGED indexVars /\ UNCHANGED pageVars

withdrawAllProfits(w) ==
  /\ coins.profits[w] > 0
  /\ coins' = [coins EXCEPT !.purse[w] = @ + coins.profits[w], !.profits[w] = 0]
  /\ UNCHANGED <<place, ask, kiosks, log, tx, past>>
  /\ UNCHANGED indexVars /\ UNCHANGED pageVars

(***************************************************************************)
(* The index                                                               *)
(***************************************************************************)
Online == {w \in Watchers : conn[w] # "off"}
Tell(msg) == wire' = [w \in Watchers |-> IF w \in Online THEN Append(wire[w], msg) ELSE wire[w]]
Offer(i, l) == [item |-> i, price |-> l.price, seller |-> l.seller]

\* handleItemListed: an item that is in the index is left as it is; the others
\* are fetched from the chain first, once.
handleItemListed(e) ==
  \/ /\ listings[e.item] # None /\ UNCHANGED <<listings, wire, past>>
  \/ /\ listings[e.item] = None
     /\ listings' = [listings EXCEPT ![e.item] = [price |-> e.price, seller |-> e.who]]
     /\ Tell([type |-> "item_listed", offer |-> Offer(e.item, listings'[e.item])])
     /\ past' = [past EXCEPT !.lost = @ \ {e.item}]
  \/ /\ listings[e.item] = None /\ past.mishaps < MaxMishaps
     /\ past' = [past EXCEPT !.lost = @ \cup {e.item}, !.mishaps = @ + 1]
     /\ UNCHANGED <<listings, wire>>

\* handleItemDelisted and handleItemPurchased.
BugGone(e) ==
  /\ past' = [past EXCEPT !.lost = @ \ {e.item}]
  /\ listings' = [listings EXCEPT ![e.item] = None]
  /\ UNCHANGED wire
Gone(e) ==
  /\ past' = [past EXCEPT !.lost = @ \ {e.item}]
  /\ listings' = [listings EXCEPT ![e.item] = None]
  /\ IF listings[e.item] = None THEN UNCHANGED wire
     ELSE Tell([type |-> "removed", offer |-> Offer(e.item, listings[e.item])])

\* A test for the end of the name takes "ItemDelisted" for a listing.
BugHandle(e) == IF e.kind # "bought" THEN handleItemListed(e) ELSE Gone(e)
Handle(e) == IF e.kind = "listed" THEN handleItemListed(e) ELSE Gone(e)

Elsewhere == /\ UNCHANGED <<conn, tab, tx>> /\ UNCHANGED chainVars

\* queryEvents answers with the page after the position.
ReadPage ==
  /\ sync.phase \in {"cold", "fill"} /\ sync.page = << >> /\ sync.more
  /\ LET last == IF sync.at + PAGE < Len(log) THEN sync.at + PAGE ELSE Len(log)
     IN  sync' = [sync EXCEPT !.page = SubSeq(log, sync.at + 1, last), !.at = last,
                              !.more = last < Len(log)]
  /\ UNCHANGED <<listings, cursor, wire, past>> /\ Elsewhere

\* One event of the page; the cursor moves when the page is done.
HandlePageEvent ==
  /\ sync.page # << >> /\ Handle(Head(sync.page))
  /\ sync' = [sync EXCEPT !.page = Tail(@)]
  /\ cursor' = IF Len(sync.page) = 1 THEN sync.at ELSE cursor
  /\ Elsewhere

\* runSubscription: fill the gap if there is a cursor, then open the stream.
Subscribes == [phase |-> IF cursor = 0 THEN "open" ELSE "fill", at |-> cursor,
               more |-> TRUE, page |-> << >>]

ColdSyncDone ==
  /\ sync.phase = "cold" /\ sync.page = << >> /\ ~sync.more /\ sync' = Subscribes
  /\ UNCHANGED <<listings, cursor, wire, past>> /\ Elsewhere

FillDone ==
  /\ sync.phase = "fill" /\ sync.page = << >> /\ ~sync.more
  /\ sync' = [sync EXCEPT !.phase = "open"]
  /\ UNCHANGED <<listings, cursor, wire, past>> /\ Elsewhere

\* Without its retries the stream opens over a gap that was not filled.
BugQueryFails ==
  /\ sync.phase \in {"cold", "fill"} /\ sync.page = << >> /\ sync.more /\ Mishap
  /\ sync' = [sync EXCEPT !.phase = "open"]
  /\ UNCHANGED <<listings, cursor, wire>> /\ Elsewhere
\* Every retry of a page failed.  A cold sync ends the index for good; a gap
\* fill is tried again later.
QueryFails ==
  /\ sync.phase \in {"cold", "fill"} /\ sync.page = << >> /\ sync.more /\ Mishap
  /\ sync' = [sync EXCEPT !.phase = IF @ = "cold" THEN "dead" ELSE "waiting"]
  /\ UNCHANGED <<listings, cursor, wire>> /\ Elsewhere

\* subscribeCheckpoints is served from the latest checkpoint on.
StreamOpens ==
  /\ sync.phase = "open"
  /\ sync' = [sync EXCEPT !.phase = "live", !.at = Len(log)]
  /\ UNCHANGED <<listings, cursor, wire, past>> /\ Elsewhere

BugStreamEvent ==
  /\ sync.phase = "live" /\ sync.at < Len(log) /\ Handle(log[sync.at + 1])
  /\ sync' = [sync EXCEPT !.at = @ + 1] /\ cursor' = sync.at + 1
  /\ Elsewhere
StreamEvent ==
  /\ sync.phase = "live" /\ sync.at < Len(log) /\ Handle(log[sync.at + 1])
  /\ sync' = [sync EXCEPT !.at = @ + 1]
  /\ UNCHANGED cursor /\ Elsewhere

StreamEnds ==
  /\ sync.phase \in {"open", "live"} /\ Mishap
  /\ sync' = [sync EXCEPT !.phase = "waiting"]
  /\ UNCHANGED <<listings, cursor, wire>> /\ Elsewhere

\* The timer of scheduleReconnect.
BugReconnects ==
  /\ sync.phase = "waiting" /\ cursor # 0 /\ sync' = Subscribes
  /\ UNCHANGED <<listings, cursor, wire, past>> /\ Elsewhere
Reconnects ==
  /\ sync.phase = "waiting" /\ sync' = Subscribes
  /\ UNCHANGED <<listings, cursor, wire, past>> /\ Elsewhere

\* The server starts again: startMarketplaceIndex.
Restart ==
  /\ Mishap
  /\ listings' = [i \in Items |-> None] /\ cursor' = 0
  /\ sync' = [phase |-> "cold", at |-> 0, more |-> TRUE, page |-> << >>]
  /\ conn' = [w \in Watchers |-> "off"] /\ wire' = [w \in Watchers |-> << >>]
  /\ UNCHANGED <<tab, tx>> /\ UNCHANGED chainVars

(***************************************************************************)
(* The market page                                                         *)
(***************************************************************************)
\* The page asks for the listings when its socket is authenticated.  What it
\* showed before stays on until the answer.
Connect(w) ==
  /\ conn[w] = "off" /\ conn' = [conn EXCEPT ![w] = "asking"]
  /\ UNCHANGED <<tab, wire, tx, past>> /\ UNCHANGED chainVars /\ UNCHANGED indexVars

Disconnect(w) ==
  /\ conn[w] # "off" /\ Mishap
  /\ conn' = [conn EXCEPT ![w] = "off"] /\ wire' = [wire EXCEPT ![w] = << >>]
  /\ UNCHANGED <<tab, tx>> /\ UNCHANGED chainVars /\ UNCHANGED indexVars

Listed == {i \in Items : listings[i] # None}
Snapshot == {Offer(i, listings[i]) : i \in Listed}

handleGetMarketplace(w) ==
  /\ conn[w] = "asking" /\ conn' = [conn EXCEPT ![w] = "subscribed"]
  /\ wire' = [wire EXCEPT ![w] = Append(@, [type |-> "marketplace_data", offers |-> Snapshot])]
  /\ UNCHANGED <<tab, tx, past>> /\ UNCHANGED chainVars /\ UNCHANGED indexVars

\* The filter of REMOVE_MARKETPLACE_LISTING.
Without(shown, i) ==
  LET keep(kept, o) == IF o.item = i THEN kept ELSE Append(kept, o)
  IN  FoldLeft(keep, << >>, shown)

\* The reducer: SET_, ADD_ and REMOVE_MARKETPLACE_LISTING.
BugReduce(shown, msg) ==
  CASE msg.type = "marketplace_data" -> shown \o SetToSeq(msg.offers)
    [] msg.type = "item_listed" -> Append(shown, msg.offer)
    [] OTHER -> Without(shown, msg.offer.item)
Reduce(shown, msg) ==
  CASE msg.type = "marketplace_data" -> SetToSeq(msg.offers)
    [] msg.type = "item_listed" -> Append(shown, msg.offer)
    [] OTHER -> Without(shown, msg.offer.item)

MessageArrives(w) ==
  /\ wire[w] # << >>
  /\ tab' = [tab EXCEPT ![w] = Reduce(tab[w], Head(wire[w]))]
  /\ wire' = [wire EXCEPT ![w] = Tail(@)]
  /\ UNCHANGED <<conn, tx, past>> /\ UNCHANGED chainVars /\ UNCHANGED indexVars

IndexNext ==
  \/ ReadPage \/ HandlePageEvent \/ ColdSyncDone \/ FillDone \/ QueryFails
  \/ StreamOpens \/ StreamEvent \/ StreamEnds \/ Reconnects \/ Restart
PageNext == \E w \in Watchers :
  \/ SignDelist(w) \/ SignBuy(w)
  \/ Connect(w) \/ Disconnect(w) \/ handleGetMarketplace(w) \/ MessageArrives(w)
WalletNext == \E w \in Wallets :
  \/ create_or_get_player_kiosk(w) \/ SignList(w) \/ SignRetrieve(w)
  \/ list_item(w) \/ delist_item(w) \/ Retrieve(w) \/ buy_item(w)
  \/ TxFails(w) \/ withdrawAllProfits(w)
Next == IndexNext \/ PageNext \/ WalletNext

Spec == Init /\ [][Next]_vars

\* The index's own steps and the answers to a page happen, and what is on its
\* way arrives; nobody has to trade, and nothing has to fail.
FairSpec ==
  /\ Spec
  /\ WF_vars(ReadPage) /\ WF_vars(HandlePageEvent) /\ WF_vars(ColdSyncDone)
  /\ WF_vars(FillDone) /\ WF_vars(StreamOpens) /\ WF_vars(StreamEvent)
  /\ WF_vars(Reconnects)
  /\ \A w \in Watchers :
       WF_vars(Connect(w)) /\ WF_vars(handleGetMarketplace(w)) /\ WF_vars(MessageArrives(w))

(***************************************************************************)
(* Properties                                                              *)
(***************************************************************************)
\* Every variable has its type: the money is in whole coins, the index holds
\* offers, a cursor points into the log.
TypeOK ==
  /\ place \in [Items -> [of : Wallets, kiosk : BOOLEAN]]
  /\ ask \in [Items -> Prices \cup {None}] /\ kiosks \subseteq Wallets
  /\ coins \in [purse : [Wallets -> Nat], profits : [Wallets -> Nat],
                treasury : Nat, royalties : Nat]
  /\ \A k \in DOMAIN log : log[k].kind \in Kinds /\ log[k].item \in Items
  /\ listings \in [Items -> [price : Prices, seller : Wallets] \cup {None}]
  /\ sync.phase \in Phases /\ sync.at \in 0 .. Len(log) /\ cursor \in 0 .. Len(log)
  /\ conn \in [Watchers -> {"off", "asking", "subscribed"}]
  /\ \A w \in Watchers : tab[w] \in Seq(Offers)
  /\ past.lost \subseteq Items /\ past.mishaps \in 0 .. MaxMishaps

\* What the first n events say is for sale.
After(n) == [i \in Items |->
  LET about == {k \in 1 .. n : log[k].item = i}
      last == CHOOSE k \in about : \A j \in about : j =< k
  IN  IF about = {} THEN None
      ELSE IF log[last].kind # "listed" THEN None
      ELSE [price |-> log[last].price, seller |-> log[last].who]]
Count(kind) == Cardinality({k \in DOMAIN log : log[k].kind = kind})
OnSale == [i \in Items |->
  IF ask[i] = None THEN None ELSE [price |-> ask[i], seller |-> place[i].of]]

\* The events alone tell the market: what they say is for sale is what the
\* kiosks offer, a listed item is in its seller's kiosk, each listing paid its
\* fee and each sale its royalty, and no coin is made or lost.
\* (marketplace.move list_item, delist_item, buy_item; royalty_rule.move amount)
LogTellsTheMarket ==
  /\ After(Len(log)) = OnSale
  /\ \A i \in Items : ask[i] # None => place[i].kiosk
  /\ coins.treasury = LISTING_FEE_MIST * Count("listed")
  /\ coins.royalties >= ROYALTY_MIN_MIST * Count("bought")
  /\ coins.treasury + coins.royalties + SumFunction(coins.purse) + SumFunction(coins.profits)
     = Funds * Cardinality(Wallets)

\* A gap fill leaves the index as the chain was at its last page, whatever the
\* stream missed or handled before it and however often an event was handled;
\* only a listing whose item could not be fetched may be missing.
\* (marketplace.ts catchUpFromCursor, handleItemListed)
FillRepairs ==
  sync.phase = "open" /\ cursor # 0 =>
    \A i \in Items \ past.lost : listings[i] = After(cursor)[i]

\* A page that has its listings will show, once what is on its way arrived,
\* exactly what the index holds, and no item twice.
\* (handler.ts handleGetMarketplace, index.ts subscribeMarketplace, useGameStore.ts)
PageFollowsIndex == \A w \in Watchers :
  conn[w] = "subscribed" =>
    LET shown == FoldLeft(Reduce, tab[w], wire[w])
    IN  ToSet(shown) = Snapshot /\ Len(shown) = Cardinality(Snapshot)

\* However it was interrupted, the index comes to follow the stream to its end
\* and the pages show what it holds; unless the cold sync at boot failed, after
\* which nothing starts it again.
\* (marketplace.ts runSubscription, scheduleReconnect)
IndexIsFollowed == []<>(
  \/ sync.phase = "dead"
  \/ /\ sync.phase = "live" /\ sync.at = Len(log)
     /\ \A w \in Watchers : ToSet(tab[w]) = Snapshot)
=============================================================================
