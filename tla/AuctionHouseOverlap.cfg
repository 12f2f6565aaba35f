SPECIFICATION Spec
CONSTANTS
    w1 = w1
    w2 = w2
    p1 = p1
    p2 = p2
    p3 = p3
    i1 = i1
    c1 = c1
    World = World
    None = None
    Worker <- TwoWorkers
    Overlap = TRUE
    Player <- MCPlayer
    Item <- MCItem
    Clone <- MCClone
    Holder <- MCHolder
    Stack <- MCStack
    MaxStack = 2
    Purse <- MCPurse
    Offers <- MCOffers
    Prices <- LowPrices
    Deposit = 3
    CutPercent = 10
    MaxAuctions = 2
    MaxRestarts = 0
    MaxPending = 0
CHECK_DEADLOCK FALSE
INVARIANTS
    ItemNotThere
