---------------------------- MODULE AuctionHouse ----------------------------
(***************************************************************************)
(* The auction house: the operations of AsyncAuctionOperation.cpp, run by  *)
(* the threads of AsyncAuctionMgr; cancelling, collecting mail and the     *)
(* update of expired auctions on the world's thread (AuctionHouseHandler,  *)
(* MailHandler, AuctionHouseMgr); what each appends to its transaction;    *)
(* and a restart of the server, which loads what has become durable.       *)
(*                                                                         *)
(* The memory and the database are two images of the same tables.  A       *)
(* transaction is a sequence of statements; CommitTransaction queues it,   *)
(* and the asynchronous connection of SqlTransaction and AsyncWorkerPool   *)
(* carries the queue out one transaction at a time, as a whole (Atomic)    *)
(* and in order (InOrderUntilGrown).                                       *)
(*                                                                         *)
(* Players are online, on accounts of their own, in reach of an auctioneer *)
(* and of a mailbox of one house; the items are of one kind, tradable and  *)
(* stackable.                                                              *)
(***************************************************************************)
EXTENDS Integers, Sequences, FiniteSets, Bags, Functions, FiniteSetsExt, SequencesExt

CONSTANTS
    Worker,      \* AsyncAuctionMgr::_threads
    World,       \* the thread of the world's update
    Overlap,     \* may operations of different threads overlap?
    Player,
    Item,        \* items the players have at the start
    Clone,       \* items CloneItem can create
    Holder,      \* who has an item at the start
    Stack,       \* Item::GetCount of it
    MaxStack,    \* Item::GetMaxStackCount
    Purse,       \* money of a player at the start
    Offers,      \* pairs of StartBid and BuyOut
    Prices,      \* prices a client may send with a bid
    Deposit,     \* GetAuctionDeposit
    CutPercent,  \* cutPercent of the auction house
    MaxAuctions, \* bound on the auction ids
    MaxRestarts, \* bound on the restarts
    MaxPending,  \* bound on the queue an operation begins with
    None

Thread == Worker \cup {World}
Guid == Item \cup Clone
AuctionId == 1..MaxAuctions

AuctionEntry ==
    [owner: Player, item: Guid, start: Nat, bid: Nat, buyOut: Nat,
     bidder: Player \cup {None}]

ASSUME ConstantsAssumption ==
    /\ IsFiniteSet(Player) /\ IsFiniteSet(Guid)
    /\ World \notin Worker
    /\ Overlap \in BOOLEAN
    /\ Item \cap Clone = {}
    /\ Holder \in [Item -> Player]
    /\ MaxStack \in Nat \ {0}
    /\ Stack \in [Item -> 1..MaxStack]
    /\ Purse \in [Player -> Nat]
    /\ Offers \subseteq (Nat \ {0}) \X Nat
    /\ Prices \subseteq Nat \ {0}
    /\ Deposit \in Nat \ {0}
    /\ CutPercent \in 0..100
    /\ {MaxAuctions, MaxRestarts, MaxPending} \subseteq Nat
    /\ None \notin Player \cup AuctionEntry

VARIABLES
    mem,      \* players, their mail, and AuctionHouseObject::_auctions
    items,    \* AuctionHouseMgr::_items
    db,       \* the character database
    pending,  \* transactions queued and not carried out
    job,      \* what a thread is doing
    nextId,   \* ObjectMgr::_auctionId
    due,      \* ids whose ExpireTime is at most a minute ahead
    restarts

vars == <<mem, items, db, pending, job, nextId, due, restarts>>

Idle == [step |-> "idle"]

Init ==
    /\ mem = [gold |-> Purse,
              letters |-> [p \in Player |-> EmptyBag],
              inventory |-> [g \in Guid |-> IF g \in Item THEN Holder[g] ELSE None],
              mailed |-> [g \in Guid |-> None],
              stack |-> [g \in Guid |-> IF g \in Item THEN Stack[g] ELSE 0],
              auctions |-> [id \in AuctionId |-> None],
              till |-> 0]
    /\ db = mem
    /\ items = {}
    /\ pending = <<>>
    /\ job = [t \in Thread |-> Idle]
    /\ nextId = 1
    /\ due = {}
    /\ restarts = 0

-----------------------------------------------------------------------------
(* Statements and transactions. *)

Set(table, row, value) == [table |-> table, row |-> row, value |-> value]

(* A letter with money; the letters of a player are a bag of amounts.      *)
Letter(p, money) == Set("letters", p, money)
TakeOut(p, money) == Set("letters", p, -money)
Parcel(p, g) == Set("mailed", g, p)
DeleteAuction(id) == Set("auctions", id, None)

(* What the house keeps: no table of the server, but the other side of     *)
(* every payment to it.                                                    *)
ToTill(money) == Set("till", None, money)

Perform(im, s) ==
    CASE s.table = "till" -> [im EXCEPT !.till = @ + s.value]
      [] s.table = "letters" ->
            [im EXCEPT !.letters[s.row] =
                IF s.value > 0 THEN @ (+) SetToBag({s.value})
                               ELSE @ (-) SetToBag({-s.value})]
      [] OTHER -> [im EXCEPT ![s.table][s.row] = s.value]

Apply(im, tx) == FoldLeft(Perform, im, tx)

CommitTransaction(tx) == pending' = Append(pending, tx)

(* The usual case: memory changes as the transaction says. *)
Change(tx) == mem' = Apply(mem, tx) /\ CommitTransaction(tx)

(* ModifyMoney, which stops at zero, and SaveInventoryAndGoldToDB.         *)
Pay(p, money) ==
    Set("gold", p, IF mem.gold[p] > money THEN mem.gold[p] - money ELSE 0)

Live(im) == {id \in AuctionId : im.auctions[id] # None}
HouseItems(im) == {im.auctions[id].item : id \in Live(im)}

AtLeast1(n) == IF n = 0 THEN 1 ELSE n
GetAuctionOutBid(a) == AtLeast1((a.bid * 5) \div 100)
GetAuctionCut(a) == (a.bid * CutPercent) \div 100

-----------------------------------------------------------------------------
(* Restart: ObjectMgr's highest id, LoadAuctionItems and LoadAuctions. An  *)
(* auction without its item is not loaded.                                 *)
Load(im) ==
    [im EXCEPT !.auctions =
        [id \in AuctionId |->
            IF id \in Live(im) /\ im.stack[im.auctions[id].item] > 0
              THEN im.auctions[id] ELSE None]]

Reload ==
    /\ restarts < MaxRestarts
    /\ restarts' = restarts + 1
    /\ mem' = Load(db)
    /\ items' = HouseItems(mem')
    /\ pending' = <<>>
    /\ job' = [t \in Thread |-> Idle]
    /\ nextId' = Max(Live(db) \cup {0}) + 1
    /\ UNCHANGED <<db, due>>

(* The process ends at any moment, and what was not carried out is lost. *)
Restart == Reload

-----------------------------------------------------------------------------
(* Threads and their operations. *)

Free(t) ==
    /\ job[t] = Idle
    /\ Overlap \/ \A u \in Thread : job[u] = Idle
    /\ Len(pending) <= MaxPending

Begin(t, j) == job' = [job EXCEPT ![t] = j]
Done(t) == job' = [job EXCEPT ![t] = Idle]

(* SellItemTask::Execute, the checks.  take says how much of which stack.  *)
SellItem(w, p, take, offer) ==
    /\ Free(w) /\ nextId \in AuctionId
    /\ \A g \in DOMAIN take :
          /\ mem.inventory[g] = p /\ g \notin items
          /\ take[g] \in 1..mem.stack[g]
    /\ SumFunction(take) <= MaxStack
    /\ Begin(w, [step |-> "sell", player |-> p, take |-> take, offer |-> offer])
    /\ UNCHANGED <<mem, items, db, pending, nextId, due, restarts>>

(* Who has the deposit goes on: GenerateAuctionID reads _auctionId ...     *)
ReadAuctionId(w) ==
    /\ job[w].step = "sell" /\ nextId \in AuctionId
    /\ IF mem.gold[job[w].player] >= Deposit
         THEN Begin(w, [step |-> "list", player |-> job[w].player, take |-> job[w].take,
                        offer |-> job[w].offer, id |-> nextId])
         ELSE Done(w)
    /\ UNCHANGED <<mem, items, db, pending, nextId, due, restarts>>

(* Fault variant: the counter is advanced twice. *)
WriteAuctionIdTwice(w) ==
    /\ nextId' = job[w].id + 2
    /\ due' = due \ {job[w].id}

(* ... and writes it.                                                      *)
WriteAuctionId(w) ==
    /\ nextId' = job[w].id + 1
    /\ due' = due \ {job[w].id}

NewAuction(j, g) ==
    [owner |-> j.player, item |-> g, start |-> j.offer[1], bid |-> 0,
     buyOut |-> j.offer[2], bidder |-> None]

(* Commit of the sale: the auction's row, and the deposit. *)
Listing(j, g) ==
    <<Set("auctions", j.id, NewAuction(j, g)), Pay(j.player, Deposit), ToTill(Deposit)>>

(* In memory the auction is not there yet. *)
Listed(w, g, txs) ==
    /\ mem' = [Apply(mem, FlattenSeq(txs)) EXCEPT !.auctions = mem.auctions]
    /\ pending' = pending \o txs
    /\ Begin(w, [step |-> "item", id |-> job[w].id, auction |-> NewAuction(job[w], g)])
    /\ WriteAuctionId(w)
    /\ UNCHANGED <<items, db, restarts>>

IsWhole(take) ==
    \E g \in DOMAIN take : DOMAIN take = {g} /\ take[g] = mem.stack[g]

(* A whole stack is moved into the house, in one transaction.              *)
ListWhole(w) ==
    /\ job[w].step = "list" /\ IsWhole(job[w].take)
    /\ \E g \in DOMAIN job[w].take :
          Listed(w, g, <<<<Set("inventory", g, None)>> \o Listing(job[w], g)>>)

(* A stack that gave away its last unit is deleted, another one updated.   *)
Reduce(g, n) ==
    IF mem.stack[g] = n
      THEN <<Set("inventory", g, None), Set("stack", g, 0)>>
      ELSE <<Set("stack", g, mem.stack[g] - n)>>

(* Fault variant: the clone is saved before the stacks are reduced. *)
SplitCloneFirst(w) ==
    /\ job[w].step = "list" /\ ~IsWhole(job[w].take)
    /\ \E c \in Clone :
          LET take == job[w].take
              from == SetToSeq(DOMAIN take)
              sum == SumFunction(take)
          IN /\ mem.stack[c] = 0 /\ c \notin items
             /\ Listed(w, c,
                  <<<<Set("stack", c, sum)>> \o Listing(job[w], c)>>
                  \o [i \in 1..Len(from) |-> Reduce(from[i], take[from[i]])])

(* Otherwise a clone is sold: each stack is reduced in a transaction of    *)
(* its own, and the clone saved in a last one.                             *)
ListSplit(w) ==
    /\ job[w].step = "list" /\ ~IsWhole(job[w].take)
    /\ \E c \in Clone :
          LET take == job[w].take
              from == SetToSeq(DOMAIN take)
              sum == SumFunction(take)
          IN /\ mem.stack[c] = 0 /\ c \notin items
             /\ Listed(w, c,
                  [i \in 1..Len(from) |-> Reduce(from[i], take[from[i]])]
                  \o <<<<Set("stack", c, sum)>> \o Listing(job[w], c)>>)

(* AddAuctionItem, which asserts that the item is not there, and           *)
(* AddAuction, whose emplace does nothing when the id is taken.            *)
AddAuctionItem(w) ==
    /\ job[w].step = "item"
    /\ IF job[w].auction.item \in items
         THEN Reload
         ELSE /\ items' = items \cup {job[w].auction.item}
              /\ Begin(w, [job[w] EXCEPT !.step = "add"])
              /\ UNCHANGED <<mem, db, pending, nextId, due, restarts>>

AddAuction(w) ==
    /\ job[w].step = "add"
    /\ mem' = IF job[w].id \in Live(mem) THEN mem
              ELSE [mem EXCEPT !.auctions[job[w].id] = job[w].auction]
    /\ Done(w)
    /\ UNCHANGED <<items, db, pending, nextId, due, restarts>>

-----------------------------------------------------------------------------
(* The mails that end an auction; an item that is not in _items cannot be  *)
(* sent.                                                                   *)
ParcelOf(p, g) == IF g \in items THEN <<Parcel(p, g)>> ELSE <<>>

SendAuctionSuccessfulMail(a) ==
    <<Letter(a.owner, a.bid + Deposit - GetAuctionCut(a)),
      ToTill(GetAuctionCut(a) - Deposit)>>

(* Fault variant: the refund goes to the seller. *)
RefundSeller(a) == <<Letter(a.owner, a.bid)>>

SendAuctionWonMail(a) == ParcelOf(a.bidder, a.item)
SendAuctionExpiredMail(a) == ParcelOf(a.owner, a.item)
SendAuctionOutbiddedMail(a) == <<Letter(a.bidder, a.bid)>>
SendAuctionCancelledToBidderMail(a) == <<Letter(a.bidder, a.bid)>>

(* PlaceBidTask::Execute: the auction is looked up, and the lock of the    *)
(* house released.                                                         *)
PlaceBid(w, p, id, price) ==
    /\ Free(w)
    /\ id \in Live(mem) /\ mem.auctions[id].owner # p
    /\ Begin(w, [step |-> "bid", player |-> p, id |-> id, price |-> price])
    /\ UNCHANGED <<mem, items, db, pending, nextId, due, restarts>>

IsBuyOut(a, price) == a.buyOut # 0 /\ price >= a.buyOut

(* The client is told of a price below StartBid, but the bid goes on.      *)
Refused(a, p, price) ==
    \/ ~IsBuyOut(a, price) /\ price < a.bid + GetAuctionOutBid(a)
    \/ mem.gold[p] < price

(* Fault variant: who bids on his own bid pays the whole price. *)
OutbidSelf(a, p, price) ==
    IF a.bidder \in {p, None} THEN <<Pay(p, price)>>
    ELSE SendAuctionOutbiddedMail(a) \o <<Pay(p, price)>>

(* The bidder of before gets his bid back; who bids on his own bid pays    *)
(* the difference.                                                         *)
Outbid(a, p, price) ==
    IF a.bidder = p THEN <<Pay(p, price - a.bid)>>
    ELSE IF a.bidder = None THEN <<Pay(p, price)>>
    ELSE SendAuctionOutbiddedMail(a) \o <<Pay(p, price)>>

BidOn(w, id, a) ==
    LET p == job[w].player
        price == job[w].price
        led == [a EXCEPT !.bidder = p, !.bid = price]
        won == [a EXCEPT !.bidder = p, !.bid = a.buyOut]
    IN CASE Refused(a, p, price) -> UNCHANGED <<mem, pending, items>>
         [] ~Refused(a, p, price) /\ ~IsBuyOut(a, price) ->
              /\ Change(Outbid(a, p, price) \o <<Set("auctions", id, led)>>)
              /\ UNCHANGED items
         [] ~Refused(a, p, price) /\ IsBuyOut(a, price) ->
              /\ Change(Outbid(a, p, a.buyOut)
                        \o SendAuctionSuccessfulMail(won) \o SendAuctionWonMail(won)
                        \o <<DeleteAuction(id)>>)
              /\ items' = items \ {a.item}

(* Any use of an auction that was freed meanwhile ends the process.        *)
FinishBid(w) ==
    /\ job[w].step = "bid"
    /\ IF job[w].id \in Live(mem)
         THEN /\ BidOn(w, job[w].id, mem.auctions[job[w].id])
              /\ Done(w)
              /\ UNCHANGED <<db, nextId, due, restarts>>
         ELSE Reload

-----------------------------------------------------------------------------
(* The world's thread. *)

(* ExpireTime comes within a minute. *)
Expire(id) ==
    /\ id \in Live(mem) \ due
    /\ due' = due \cup {id}
    /\ UNCHANGED <<mem, items, db, pending, job, nextId, restarts>>

EndOf(id) ==
    LET a == mem.auctions[id]
    IN (IF a.bidder = None
          THEN SendAuctionExpiredMail(a)
          ELSE SendAuctionSuccessfulMail(a) \o SendAuctionWonMail(a))
       \o <<DeleteAuction(id)>>

(* Fault variant: the rows of ended auctions are left in the database. *)
UpdateKeepsRows ==
    /\ Free(World)
    /\ LET over == Live(mem) \cap due
           ids == SetToSeq(over)
           tx == FlattenSeq([i \in 1..Len(ids) |-> EndOf(ids[i])])
       IN /\ over # {}
          /\ mem' = Apply(mem, tx)
          /\ CommitTransaction(SelectSeq(tx, LAMBDA s : s.table # "auctions"))
          /\ items' = items \ {mem.auctions[id].item : id \in over}
    /\ UNCHANGED <<db, job, nextId, due, restarts>>

(* AuctionHouseObject::Update: all auctions that are due, one transaction. *)
Update ==
    /\ Free(World)
    /\ LET over == Live(mem) \cap due
           ids == SetToSeq(over)
       IN /\ over # {}
          /\ Change(FlattenSeq([i \in 1..Len(ids) |-> EndOf(ids[i])]))
          /\ items' = items \ {mem.auctions[id].item : id \in over}
    /\ UNCHANGED <<db, job, nextId, due, restarts>>

(* HandleAuctionRemoveItem: the lookup, then the rest. *)
CancelAuction(p, id) ==
    /\ Free(World)
    /\ id \in Live(mem) /\ mem.auctions[id].owner = p
    /\ Begin(World, [step |-> "cancel", player |-> p, id |-> id])
    /\ UNCHANGED <<mem, items, db, pending, nextId, due, restarts>>

(* With a bidder the owner pays the cut, and the bidder is paid back.      *)
Refund(a) ==
    IF a.bidder = None THEN <<>>
    ELSE SendAuctionCancelledToBidderMail(a)
         \o <<Pay(a.owner, GetAuctionCut(a)), ToTill(GetAuctionCut(a))>>

(* Fault variant: a cancelled auction's item stays in _items. *)
CancelKeepsItem(id, a) ==
    IF \/ a.item \notin items
       \/ a.bidder # None /\ mem.gold[a.owner] < GetAuctionCut(a)
      THEN UNCHANGED <<mem, pending, items>>
      ELSE /\ Change(Refund(a) \o ParcelOf(a.owner, a.item) \o <<DeleteAuction(id)>>)
           /\ UNCHANGED items

RemoveItem(id, a) ==
    IF \/ a.item \notin items
       \/ a.bidder # None /\ mem.gold[a.owner] < GetAuctionCut(a)
      THEN UNCHANGED <<mem, pending, items>>
      ELSE /\ Change(Refund(a) \o ParcelOf(a.owner, a.item) \o <<DeleteAuction(id)>>)
           /\ items' = items \ {a.item}

FinishCancel ==
    /\ job[World].step = "cancel"
    /\ IF job[World].id \in Live(mem)
         THEN /\ RemoveItem(job[World].id, mem.auctions[job[World].id])
              /\ Done(World)
              /\ UNCHANGED <<db, nextId, due, restarts>>
         ELSE Reload

(* HandleMailTakeMoney, from one letter.                                   *)
TakeMoney(p, money) ==
    /\ Free(World)
    /\ BagIn(money, mem.letters[p])
    /\ Change(<<Pay(p, -money), TakeOut(p, money)>>)
    /\ UNCHANGED <<items, db, job, nextId, due, restarts>>

(* HandleMailTakeItem: into a free slot, or merged with another stack.     *)
TakeItem(p, g) ==
    /\ Free(World)
    /\ mem.mailed[g] = p
    /\ \/ Change(<<Parcel(None, g), Set("inventory", g, p)>>)
       \/ \E h \in Guid \ {g} :
             /\ mem.inventory[h] = p
             /\ mem.stack[h] + mem.stack[g] <= MaxStack
             /\ Change(<<Parcel(None, g), Set("stack", g, 0),
                         Set("stack", h, mem.stack[h] + mem.stack[g])>>)
    /\ UNCHANGED <<items, db, job, nextId, due, restarts>>

(* The asynchronous connection. *)
ExecuteTransaction ==
    /\ pending # <<>>
    /\ db' = Apply(db, Head(pending))
    /\ pending' = Tail(pending)
    /\ UNCHANGED <<mem, items, job, nextId, due, restarts>>

-----------------------------------------------------------------------------
Takes(p) ==
    UNION {[S -> 1..MaxStack] : S \in (SUBSET {g \in Guid : mem.inventory[g] = p}) \ {{}}}

WorkerStep(w) ==
    \/ ReadAuctionId(w) \/ ListWhole(w) \/ ListSplit(w)
    \/ AddAuctionItem(w) \/ AddAuction(w) \/ FinishBid(w)

Request(w) ==
    \E p \in Player :
        \/ \E take \in Takes(p), offer \in Offers : SellItem(w, p, take, offer)
        \/ \E id \in AuctionId, price \in Prices : PlaceBid(w, p, id, price)

WorldStep ==
    \/ Update \/ FinishCancel
    \/ \E p \in Player :
          \/ \E id \in AuctionId : CancelAuction(p, id)
          \/ \E money \in DOMAIN mem.letters[p] : TakeMoney(p, money)
          \/ \E g \in Guid : TakeItem(p, g)

Next ==
    \/ \E w \in Worker : WorkerStep(w) \/ Request(w)
    \/ WorldStep
    \/ \E id \in AuctionId : Expire(id)
    \/ ExecuteTransaction
    \/ Restart

Spec == Init /\ [][Next]_vars
-----------------------------------------------------------------------------
(* Properties. *)

Image(im) ==
    /\ im.gold \in [Player -> Nat]
    /\ \A p \in Player : IsABag(im.letters[p]) /\ DOMAIN im.letters[p] \subseteq Nat \ {0}
    /\ im.inventory \in [Guid -> Player \cup {None}]
    /\ im.mailed \in [Guid -> Player \cup {None}]
    /\ im.stack \in [Guid -> 0..MaxStack]
    /\ \A id \in AuctionId : im.auctions[id] = None \/ im.auctions[id] \in AuctionEntry
    /\ im.till \in Int

TypeOK ==
    /\ Image(mem) /\ Image(db)
    /\ items \subseteq Guid
    /\ \A t \in Thread :
          job[t].step \in {"idle", "sell", "list", "item", "add", "bid", "cancel"}
    /\ nextId \in 1..MaxAuctions + 1
    /\ due \subseteq AuctionId
    /\ restarts \in 0..MaxRestarts

LetterMoney(im, p) ==
    SumFunction([m \in DOMAIN im.letters[p] |-> m * im.letters[p][m]])

BidsOf(im, p) == {id \in Live(im) : im.auctions[id].bidder = p}

(* What is a player's: in the purse, in letters, in bids that lead. *)
Wealth(im, p) ==
    im.gold[p] + LetterMoney(im, p)
      + SumFunction([id \in BidsOf(im, p) |-> im.auctions[id].bid])

Money(im) == im.till + SumFunction([p \in Player |-> Wealth(im, p)])

(* No copper appears or vanishes, in memory or in the database, whichever  *)
(* transactions a restart cuts off: bids are refunded once and with the    *)
(* amount that was paid, deposits and cuts go to the house.                *)
MoneyConserved ==
    Money(mem) = SumFunction(Purse) /\ Money(db) = SumFunction(Purse)

Quiet == \A t \in Thread : job[t] = Idle

Places(im, g) ==
    (({im.inventory[g]} \ {None}) \X {"inventory"})
      \cup (({im.mailed[g]} \ {None}) \X {"mail"})
      \cup ({id \in Live(im) : im.auctions[id].item = g} \X {"house"})

(* An item is in one inventory, in one parcel or in one auction, and only  *)
(* an item that exists is: in memory when no operation is under way, and   *)
(* in the database after every transaction, so that a restart finds no     *)
(* item twice and none without a place.                                    *)
OnePlace ==
    \A g \in Guid, im \in (IF Quiet THEN {mem, db} ELSE {db}) :
        Cardinality(Places(im, g)) = (IF im.stack[g] > 0 THEN 1 ELSE 0)

(* Nothing in memory is unsaved: when no operation is under way, carrying  *)
(* out what is queued and loading the result gives exactly the memory,     *)
(* _items included.                                                        *)
NothingUnsaved ==
    Quiet =>
        /\ Load(Apply(db, FlattenSeq(pending))) = mem
        /\ items = HouseItems(mem)

(* A player's wealth falls only in his own sale, by what it costs, or in a *)
(* step that sends him an item: who is outbid, who loses an auction or     *)
(* whose auction is cancelled, bought or expired is never charged for it.  *)
Sells(p) ==
    \E w \in Worker :
        /\ job[w].step = "list" /\ job[w].player = p
        /\ Wealth(mem', p) = Wealth(mem, p) - Deposit

Receives(p) == \E g \in Guid : mem.mailed[g] # p /\ mem'.mailed[g] = p

PaysOnlyForGoods ==
    [][\A p \in Player :
          Wealth(mem', p) < Wealth(mem, p) =>
              restarts' # restarts \/ Sells(p) \/ Receives(p)]_vars

Units(im) == SumFunction(im.stack)

SavesClone(tx) ==
    \E i \in 1..Len(tx) : tx[i].table = "stack" /\ tx[i].row \in Clone /\ tx[i].value > 0

(* The database never has more of an item than the players own, and has    *)
(* less only between the transactions of a sale that splits stacks: a      *)
(* restart then, and only then, loses what was offered.                    *)
ShortOnlyInSplit ==
    /\ Units(db) <= Units(mem)
    /\ Units(db) < Units(mem) => \E i \in 1..Len(pending) : SavesClone(pending[i])

(* What AddAuctionItem asserts. *)
ItemNotThere ==
    \A w \in Worker : job[w].step = "item" => job[w].auction.item \notin items
=============================================================================
