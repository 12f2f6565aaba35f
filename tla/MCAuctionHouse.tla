--------------------------- MODULE MCAuctionHouse ---------------------------
(* AuctionHouse for TLC: p1 has a stack of two items and the money for one *)
(* deposit; p2 can bid, raise his own bid and buy out, p3 only bid once.   *)
EXTENDS AuctionHouse
CONSTANTS w1, w2, p1, p2, p3, i1, c1
OneWorker == {w1}
TwoWorkers == {w1, w2}
MCPlayer == {p1, p2, p3}
MCItem == {i1}
MCClone == {c1}
MCHolder == [i \in MCItem |-> p1]
MCStack == [i \in MCItem |-> 2]
MCPurse == [p \in MCPlayer |-> CASE p = p1 -> 3 [] p = p2 -> 50 [] p = p3 -> 10]
MCOffers == {<<10, 40>>}
MCPrices == {10, 11, 40}
LowPrices == {10}
=============================================================================
