SPECIFICATION Spec
CONSTANTS
    w1 = w1
    w2 = w2
    small = small
    large = large
    Sender = {w1, w2}
    Network = Network
    Acceptor = Acceptor
    Outgoing <- MCOutgoing
    Challenge = Challenge
    Response = Response
    Pong = Pong
    Size <- MCSize
    SendBufferSize = 2
    Capacity = 2
    Dummy = Dummy
    None = None
CHECK_DEADLOCK FALSE
INVARIANTS
    TypeOK
    NoFreedNode
    WireIsPrefix
    SessionLives
    
PROPERTIES
    ClosingEnds
    EverythingGoesOut
