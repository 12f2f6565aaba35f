------------------------- MODULE WorldSocket_proofs -------------------------
(***************************************************************************)
(* Proofs about WorldSocket, for any senders, packets and sizes: no        *)
(* deleted session and no link of a deleted packet is used, every variable *)
(* keeps its type, the wire carries the packets in order, and a socket     *)
(* marked for closing is closed only when they are written.                *)
(***************************************************************************)
EXTENDS WorldSocket, DataLemmas

LEMMA PacketBytes ==
    ASSUME NEW p \in Packet
    PROVE  Bytes(p) \in Seq(Byte) /\ Len(Bytes(p)) = Size[p] /\ Size[p] \in Nat \ {0}
<1>1. Size[p] \in Nat \ {0}
  BY ConstantsAssumption
<1>2. \A i \in 1..Size[p] : <<p, i>> \in Byte
  <2>. TAKE i \in 1..Size[p]
  <2>1. <<p, i>> \in ToSet(Bytes(p))
    BY <1>1 DEF Bytes, ToSet
  <2>. QED
    BY <2>1 DEF Byte
<1>. QED
  BY <1>1, <1>2 DEF Bytes

LEMMA Outgoings ==
    /\ \A t \in Sender : Outgoing[t] \subseteq Packet
    /\ Challenge \in Packet /\ Response \in Packet /\ Pong \in Packet
<1>1. ASSUME NEW t \in Sender, NEW p \in Outgoing[t] PROVE p \in Packet
  BY DEF Packet
<1>2. {Challenge, Response, Pong} \subseteq Packet
  BY DEF Packet
<1>. QED
  BY <1>1, <1>2

LEMMA Threads ==
    /\ Network \in Thread /\ Acceptor \in Thread /\ Network # Acceptor
    /\ \A t \in Sender : t \in Thread /\ t # Network /\ t # Acceptor
    /\ \A t \in Thread : t \in Sender \/ t = Network \/ t = Acceptor
BY ConstantsAssumption DEF Thread

LEMMA NonePacket ==
    /\ None \notin Packet /\ None # Dummy /\ Dummy \notin Packet
    /\ None \notin [before: Node, node: Node]
BY ConstantsAssumption DEF Node

-----------------------------------------------------------------------------
(* Types, of the queue and of the rest.                                    *)

QueueTypeOK ==
    /\ head \in Node /\ tail \in Node
    /\ link \in [Node -> Node \cup {None}]
    /\ linking \in [Thread -> [before: Node, node: Node] \cup {None}]
    /\ dequeue \in {"tail", "next", "head", "dummy", "link", "last"}
    /\ sending \in [Thread -> Packet \cup {None}]
    /\ freed \subseteq Packet
    /\ issued \in Seq(Packet)

FlagTypeOK ==
    /\ closer \in [Thread -> {"out", "shutdown", "onclose"}]
    /\ accept \in {"start", "challenge", "mark", "add", "done"}
    /\ net \in {"idle", "dequeue", "base", "loop", "handle", "callbacks", "mark",
                "session", "using", "reread"}
    /\ place \in {"none", "new", "listed", "gone"}
    /\ closed \in BOOLEAN /\ closing \in BOOLEAN
    /\ writing \in BOOLEAN /\ reading \in BOOLEAN
    /\ shut \in BOOLEAN /\ broken \in BOOLEAN
    /\ login \in {"start", "address", "challenged", "account", "done"}
    /\ session \in {"none", "live", "deleted"}
    /\ worldSession \in BOOLEAN

BytesTypeOK ==
    /\ buffer \in Seq(Byte) /\ Len(buffer) <= SendBufferSize
    /\ writeQueue \in Seq(Seq(Byte))
    /\ room \in 0..Capacity
    /\ wire \in Seq(Byte)

-----------------------------------------------------------------------------
(* The invariant.                                                          *)

(* The network thread sees the socket when the acceptor is done with it.   *)
StartIsSound ==
    /\ place # "none" <=> accept = "done"
    /\ net # "idle" \/ writing \/ session # "none" => accept = "done"
    /\ accept \in {"start", "challenge"} => ~closing /\ login = "start"

(* A socket is marked only when its login has failed. *)
LoginIsSound ==
    /\ closing \/ accept = "mark" \/ net = "mark" => login = "done" /\ session = "none"
    /\ session # "none" => login = "done"
    /\ worldSession \/ net \in {"session", "using"} => session # "none"
    /\ session = "none" /\ ~closing /\ net \in {"loop", "callbacks"} => ~closed

(* Who finds the socket closed knows that the pointer is cleared, or about *)
(* to be by a thread that is not where the pointer is used.                *)
SessionIsSound ==
    /\ closer[Acceptor] = "out"
    /\ closed /\ worldSession => \E t \in Thread : closer[t] # "out"
    /\ session = "deleted" /\ worldSession => closer[Network] # "out"
    /\ closer[Network] # "out" => net \notin {"session", "using"}
    /\ net = "using" => session = "live" /\ worldSession

FlagInv == FlagTypeOK /\ StartIsSound /\ LoginIsSound /\ SessionIsSound

LEMMA HandleQueueFlags ==
    ASSUME FlagInv, HandleQueue
    PROVE  /\ writing' \in BOOLEAN
           /\ \/ UNCHANGED <<closed, closer>>
              \/ closing /\ CloseSocket(Network)
<1>. USE DEF FlagInv, FlagTypeOK
<1>1. CASE NothingQueued
  BY <1>1 DEF NothingQueued
<1>2. CASE DropBuffer
  BY <1>2 DEF DropBuffer, Pop
<1>3. CASE WouldBlock
  BY <1>3 DEF WouldBlock
<1>4. CASE WritePart
  BY <1>4 DEF WritePart
<1>5. CASE WriteAll
  BY <1>5 DEF WriteAll, Pop
<1>. QED
  BY <1>1, <1>2, <1>3, <1>4, <1>5 DEF HandleQueue

LEMMA FlagsKept ==
    ASSUME FlagInv, [Next]_vars
    PROVE  FlagInv'
<1>. USE Threads DEF FlagInv, FlagTypeOK, StartIsSound, LoginIsSound, SessionIsSound, callVars, flagVars, kernelVars, sessionVars, IsOpen
<1>1. CASE StartQuery
  BY <1>1 DEF StartQuery
<1>2. CASE StartBanned
  BY <1>2 DEF StartBanned
<1>3. CASE StartMark
  BY <1>3 DEF StartMark, Returned
<1>4. CASE StartRead
  BY <1>4 DEF StartRead
<1>5. CASE StartChallenge
  BY <1>5 DEF StartChallenge
<1>6. CASE AddSocket
  BY <1>6 DEF AddSocket, Returned
<1>7. CASE AddNewSockets
  BY <1>7 DEF AddNewSockets, Returned
<1>8. CASE StartUpdate
  BY <1>8 DEF StartUpdate, Returned
<1>9. CASE Dequeue
  BY <1>9 DEF Dequeue
<1>10. CASE BaseUpdate
  BY <1>10 DEF BaseUpdate
<1>11. CASE NothingReady
  BY <1>11 DEF NothingReady, Callbacks
<1>12. CASE AddressAllowed
  BY <1>12 DEF AddressAllowed, Callbacks
<1>13. CASE Refuse
  BY <1>13 DEF Refuse, Callbacks
<1>14. CASE DelayedCloseSocket
  BY <1>14 DEF DelayedCloseSocket, Returned
<1>15. CASE AcceptAccount
  BY <1>15 DEF AcceptAccount, Callbacks, Returned
<1>16. CASE ReadFails
  BY <1>16 DEF ReadFails, ReadEnds, CloseSocket, Returned
<1>17. CASE ReadAuthSession
  BY <1>17 DEF ReadAuthSession, ReadEnds
<1>18. CASE ReadPacket
  BY <1>18 DEF ReadPacket, ReadEnds, Returned
<1>19. CASE LockSession
  BY <1>19 DEF LockSession, CloseSocket
<1>20. CASE UnlockSession
  BY <1>20 DEF UnlockSession
<1>21. CASE AsyncRead
  BY <1>21 DEF AsyncRead
<1>22. CASE WriteReady
  BY <1>22 DEF WriteReady, Returned
<1>23. CASE EndSession
  BY <1>23 DEF EndSession, Returned
<1>24. CASE PeerReads
  BY <1>24 DEF PeerReads
<1>25. CASE PeerBreaks
  BY <1>25 DEF PeerBreaks
<1>26. CASE HandleQueueLoop
  <2>1. \/ UNCHANGED <<closed, closer>>
        \/ closing /\ closed' = TRUE /\ closer' \in {closer, [closer EXCEPT ![Network] = "shutdown"]}
           /\ (closed => closer' = closer)
    BY <1>26, HandleQueueFlags DEF HandleQueueLoop, CloseSocket
  <2>2. writing' \in BOOLEAN /\ closer' \in [Thread -> {"out", "shutdown", "onclose"}]
    BY <1>26, <2>1, HandleQueueFlags DEF HandleQueueLoop
  <2>3. UNCHANGED <<accept, place, closing, reading, shut, broken, login, session, worldSession>>
        /\ net = "loop" /\ net' \in {"loop", "callbacks"}
    BY <1>26 DEF HandleQueueLoop
  <2>7. FlagTypeOK' /\ StartIsSound'
    BY <2>1, <2>2, <2>3
  <2>5. LoginIsSound'
    BY <2>1, <2>2, <2>3
  <2>6. SessionIsSound'
    BY <2>1, <2>2, <2>3
  <2>. QED
    BY <2>7, <2>5, <2>6
<1>27. CASE HandleQueueOnce
  <2>1. \/ UNCHANGED <<closed, closer>>
        \/ closing /\ closed' = TRUE /\ closer' \in {closer, [closer EXCEPT ![Network] = "shutdown"]}
           /\ (closed => closer' = closer)
    BY <1>27, HandleQueueFlags DEF HandleQueueOnce, CloseSocket
  <2>2. writing' \in BOOLEAN /\ closer' \in [Thread -> {"out", "shutdown", "onclose"}]
    BY <1>27, <2>1, HandleQueueFlags DEF HandleQueueOnce
  <2>3. UNCHANGED <<accept, place, closing, reading, shut, broken, login, session, worldSession>>
        /\ net = "handle" /\ net' = "idle"
    BY <1>27 DEF HandleQueueOnce
  <2>7. FlagTypeOK' /\ StartIsSound'
    BY <2>1, <2>2, <2>3
  <2>5. LoginIsSound'
    BY <2>1, <2>2, <2>3
  <2>6. SessionIsSound'
    BY <2>1, <2>2, <2>3
  <2>. QED
    BY <2>7, <2>5, <2>6
<1>28. ASSUME NEW t \in Thread, Enqueue(t)
      PROVE  FlagInv'
  BY <1>28 DEF Enqueue
<1>29. ASSUME NEW t \in Thread, EndEnqueue(t)
      PROVE  FlagInv'
  BY <1>29 DEF EndEnqueue
<1>30. ASSUME NEW t \in Thread, Shutdown(t)
      PROVE  FlagInv'
  BY <1>30 DEF Shutdown
<1>31. ASSUME NEW t \in Thread, OnClose(t)
      PROVE  FlagInv'
  <2>1. closer'[Network] = closer[Network] \/ closer'[Network] = "out"
    BY <1>31 DEF OnClose
  <2>2. closer'[Acceptor] = "out"
    BY <1>31 DEF OnClose
  <2>3. closer' \in [Thread -> {"out", "shutdown", "onclose"}]
    BY <1>31 DEF OnClose
  <2>4. UNCHANGED <<accept, net, place, closed, closing, writing, reading, shut, broken, login,
                    session>> /\ worldSession' = FALSE
    BY <1>31 DEF OnClose
  <2>7. FlagTypeOK'
    <3>1. (FlagTypeOK' <=> worldSession' \in BOOLEAN)
      BY <2>3, <2>4
    <3>. QED
      BY <3>1, <2>4
  <2>5. StartIsSound' /\ LoginIsSound'
    BY <2>4
  <2>6. SessionIsSound'
    BY <1>31, <2>1, <2>2, <2>4 DEF OnClose
  <2>. QED
    BY <2>7, <2>5, <2>6
<1>32. ASSUME NEW t \in Sender, KickPlayer(t)
      PROVE  FlagInv'
  BY <1>32 DEF KickPlayer, CloseSocket
<1>33. ASSUME NEW t \in Sender, NEW p \in Outgoing[t], Send(t, p)
      PROVE  FlagInv'
  BY <1>33 DEF Send
<1>34. CASE UNCHANGED vars
  BY <1>34 DEF vars
<1>. QED
  BY <1>1, <1>2, <1>3, <1>4, <1>5, <1>6, <1>7, <1>8, <1>9, <1>10, <1>11, <1>12, <1>13, <1>14, <1>15, <1>16, <1>17, <1>18, <1>19, <1>20, <1>21, <1>22, <1>23, <1>24, <1>25, <1>26, <1>27, <1>28, <1>29, <1>30, <1>31, <1>32, <1>33, <1>34
     DEF Next, AcceptorStep, TimerExpires, UpdateStep, CallbackStep, ReadStep, CallStep

LEMMA FlagsStart == Init => FlagInv
BY Threads DEF Init, FlagInv, FlagTypeOK, StartIsSound, LoginIsSound, SessionIsSound

(* The network thread uses no session that the world has deleted: LockSession *)
(* of WorldSocket.cpp against OnClose, KickPlayer and the world's deletion.   *)
THEOREM UsedSessionLives == Spec => []SessionLives
<1>1. FlagInv => SessionLives
  BY DEF FlagInv, SessionIsSound, SessionLives
<1>. QED
  BY FlagsStart, FlagsKept, <1>1, PTL DEF Spec

-----------------------------------------------------------------------------
(* Every packet enters the queue once.                                     *)

Used == ToSet(issued) \cup {sending[t] : t \in Thread}

SendersAreSound ==
    /\ \A t \in Sender : sending[t] \in Outgoing[t] \cup {None}
    /\ sending[Acceptor] \in {Challenge, Response, None}
    /\ sending[Network] \in {Challenge, Response, Pong, None}
    /\ \A t \in Thread : sending[t] \notin ToSet(issued)
    /\ \A t, u \in Thread : t # u /\ sending[t] = sending[u] => sending[t] = None
    /\ login \in {"start", "address"} => Challenge \notin Used
    /\ login # "done" => Response \notin Used

-----------------------------------------------------------------------------
(* The nodes of the queue and the place of each, counted from any number:  *)
(* links and what is still to be linked lead from a node to the next one,  *)
(* and the packets lie in the order in which they were enqueued.           *)

InOrder(nodes, pos) ==
    \A i, j \in 1..Len(issued) : i < j =>
        /\ issued[i] # issued[j]
        /\ issued[i] \in nodes /\ issued[j] \in nodes => pos[issued[i]] < pos[issued[j]]

IsQueue(nodes, pos) ==
    /\ nodes \ {Dummy} = ToSet(issued) \ freed /\ freed \subseteq ToSet(issued)
    /\ tail \in nodes /\ head \in nodes /\ link[head] = None
    /\ \A n \in nodes : pos[tail] <= pos[n] /\ pos[n] <= pos[head]
    /\ \A m, n \in nodes : pos[m] = pos[n] => m = n
    /\ InOrder(nodes, pos)
    /\ \A n \in nodes : link[n] # None => link[n] \in nodes /\ pos[link[n]] = pos[n] + 1
    /\ \A t \in Thread : linking[t] # None =>
          /\ linking[t].before \in nodes /\ linking[t].node \in nodes
          /\ link[linking[t].before] = None
          /\ pos[linking[t].node] = pos[linking[t].before] + 1
          /\ \A u \in Thread : linking[u] # None /\ linking[u].before = linking[t].before
                                  => t = u
    /\ dequeue = "dummy" => Dummy \notin nodes
    /\ dequeue # "tail" => tail # Dummy

QueueIsSound == \E nodes \in SUBSET Node, pos \in [Node -> Int] : IsQueue(nodes, pos)

LEMMA IssuedAppend ==
    ASSUME NEW s \in Seq(Packet), NEW p \in Packet
    PROVE  Append(s, p) \in Seq(Packet) /\ ToSet(Append(s, p)) = ToSet(s) \cup {p}
<1>1. Append(s, p) \in Seq(Packet) /\ Len(Append(s, p)) = Len(s) + 1
      /\ \A i \in 1..Len(s) : Append(s, p)[i] = s[i]
      /\ Append(s, p)[Len(s) + 1] = p
  OBVIOUS
<1>2. Len(s) \in Nat
  OBVIOUS
<1>3. ToSet(Append(s, p)) \subseteq ToSet(s) \cup {p}
  BY <1>1, <1>2 DEF ToSet
<1>4. ToSet(s) \subseteq ToSet(Append(s, p))
  BY <1>1, <1>2 DEF ToSet
<1>5. p \in ToSet(Append(s, p))
  BY <1>1, <1>2 DEF ToSet
<1>. QED
  BY <1>1, <1>3, <1>4, <1>5

(* A node that is not in the queue comes behind all that are. *)
LEMMA ExchangeKeepsQueue ==
    ASSUME QueueTypeOK, NEW nodes \in SUBSET Node, NEW pos \in [Node -> Int],
           IsQueue(nodes, pos),
           NEW t \in Thread, NEW n \in Node, n \notin nodes, Q!ExchangeHead(t, n),
           (nodes \cup {n}) \ {Dummy} = ToSet(issued') \ freed', freed' \subseteq ToSet(issued'),
           issued' = IF n = Dummy THEN issued ELSE Append(issued, n), n \notin ToSet(issued),
           dequeue' = "dummy" => n # Dummy /\ dequeue = "dummy",
           dequeue' # "tail" => dequeue # "tail"
    PROVE  QueueIsSound'
<1>. DEFINE all == nodes \cup {n}
<1>0. PICK places : places = [pos EXCEPT ![n] = pos[head] + 1]
  OBVIOUS
<1>1. all \in SUBSET Node /\ places \in [Node -> Int] /\ head \in nodes /\ head \in Node
  BY <1>0 DEF QueueTypeOK, IsQueue
<1>2. places[n] = pos[head] + 1 /\ \A m \in nodes : places[m] = pos[m]
  BY <1>0
<1>3. link' = [link EXCEPT ![n] = None] /\ head' = n /\ tail' = tail
      /\ linking' = [linking EXCEPT ![t] = [before |-> head, node |-> n]]
  BY DEF Q!ExchangeHead
<1>4. link'[n] = None /\ \A m \in nodes : link'[m] = link[m]
  BY <1>3 DEF QueueTypeOK, Node
<1>5. linking'[t] = [before |-> head, node |-> n]
      /\ \A u \in Thread : u # t => linking'[u] = linking[u]
  BY <1>3 DEF QueueTypeOK
<1>6. tail' \in all /\ head' \in all /\ link'[head'] = None
  BY <1>3, <1>4 DEF IsQueue
<1>7. \A m \in nodes : pos[m] \in Int /\ pos[tail] <= pos[m] /\ pos[m] <= pos[head]
  BY DEF IsQueue
<1>8. \A m \in all : places[tail'] <= places[m] /\ places[m] <= places[head']
  BY <1>1, <1>2, <1>3, <1>7 DEF IsQueue
<1>9. \A l, m \in all : places[l] = places[m] => l = m
  BY <1>1, <1>2, <1>7 DEF IsQueue
<1>10. \A m \in all : link'[m] # None => link'[m] \in all /\ places[link'[m]] = places[m] + 1
  BY <1>2, <1>4 DEF IsQueue
<1>11. \A u \in Thread : linking[u] # None => linking[u].before # head
  BY <1>1, <1>7 DEF IsQueue
<1>12. ASSUME NEW u \in Thread, linking'[u] # None
       PROVE  /\ linking'[u].before \in all /\ linking'[u].node \in all
              /\ link'[linking'[u].before] = None
              /\ places[linking'[u].node] = places[linking'[u].before] + 1
              /\ \A v \in Thread : linking'[v] # None /\ linking'[v].before = linking'[u].before
                                      => u = v
  <2>1. CASE u = t
    BY <1>1, <1>2, <1>4, <1>5, <1>11, <2>1 DEF IsQueue
  <2>2. CASE u # t
    <3>1. linking'[u] = linking[u] /\ linking[u] # None /\ linking[u].before # head
      BY <1>5, <1>11, <1>12, <2>2
    <3>2. /\ linking[u].before \in nodes /\ linking[u].node \in nodes
          /\ link[linking[u].before] = None
          /\ pos[linking[u].node] = pos[linking[u].before] + 1
          /\ \A v \in Thread : linking[v] # None /\ linking[v].before = linking[u].before
                                  => u = v
      BY <3>1 DEF IsQueue
    <3>. QED
      BY <1>2, <1>4, <1>5, <2>2, <3>1, <3>2
  <2>. QED
    BY <2>1, <2>2
<1>13. (dequeue' = "dummy" => Dummy \notin all) /\ (dequeue' # "tail" => tail' # Dummy)
  BY <1>3 DEF IsQueue
<1>14. \A m \in all : m = n \/ (m \in nodes /\ places[m] = pos[m] /\ pos[m] < places[n])
  BY <1>1, <1>2, <1>7
<1>15. InOrder(all, places)'
  <2>1. CASE n = Dummy
    <3>1. issued' = issued /\ \A i \in 1..Len(issued) : issued[i] # n
      BY <2>1 DEF ToSet, QueueTypeOK
    <3>2. InOrder(nodes, pos)
      BY DEF IsQueue
    <3>3. \A i \in 1..Len(issued) : issued[i] \in all =>
              issued[i] \in nodes /\ places[issued[i]] = pos[issued[i]]
      BY <1>2, <3>1
    <3>. QED
      BY <3>1, <3>2, <3>3 DEF InOrder
  <2>2. CASE n # Dummy
    <3>1. n \in Packet /\ issued' = Append(issued, n)
      BY <2>2 DEF Node
    <3>2. /\ Len(issued) \in Nat /\ Len(issued') = Len(issued) + 1
          /\ issued'[Len(issued) + 1] = n
          /\ \A i \in 1..Len(issued) : issued'[i] = issued[i] /\ issued[i] # n
      BY <3>1 DEF QueueTypeOK, ToSet
    <3>3. InOrder(nodes, pos)
      BY DEF IsQueue
    <3>4. ASSUME NEW i \in 1..Len(issued'), NEW j \in 1..Len(issued'), i < j
          PROVE  /\ issued'[i] # issued'[j]
                 /\ issued'[i] \in all /\ issued'[j] \in all
                       => places[issued'[i]] < places[issued'[j]]
      <4>1. i \in 1..Len(issued) /\ issued'[i] = issued[i] /\ issued[i] # n
        BY <3>2, <3>4
      <4>2. CASE j = Len(issued) + 1
        BY <1>14, <3>2, <4>1, <4>2
      <4>3. CASE j # Len(issued) + 1
        <5>1. j \in 1..Len(issued) /\ issued'[j] = issued[j] /\ issued[j] # n
          BY <3>2, <4>3
        <5>. QED
          BY <1>14, <3>3, <3>4, <4>1, <5>1 DEF InOrder
      <4>. QED
        BY <4>2, <4>3
    <3>. QED
      BY <3>4 DEF InOrder
  <2>. QED
    BY <2>1, <2>2
<1>16. IsQueue(all, places)'
  BY <1>6, <1>8, <1>9, <1>10, <1>12, <1>13, <1>15 DEF IsQueue
<1>. QED
  BY <1>1, <1>16 DEF QueueIsSound

(* A node becomes reachable from the one before it. *)
LEMMA StoreKeepsQueue ==
    ASSUME QueueTypeOK, NEW nodes \in SUBSET Node, NEW pos \in [Node -> Int],
           IsQueue(nodes, pos), UNCHANGED <<issued, freed>>,
           NEW t \in Thread, Q!StoreLink(t),
           dequeue' = "dummy" => dequeue = "dummy", dequeue' # "tail" => dequeue # "tail"
    PROVE  QueueIsSound'
<1>. DEFINE b == linking[t].before
            n == linking[t].node
<1>1. linking[t] # None /\ link' = [link EXCEPT ![b] = n] /\ head' = head /\ tail' = tail
      /\ linking' = [linking EXCEPT ![t] = None]
  BY DEF Q!StoreLink
<1>2. b \in nodes /\ n \in nodes /\ link[b] = None /\ pos[n] = pos[b] + 1
  BY <1>1 DEF IsQueue
<1>3. link'[b] = n /\ \A m \in nodes : m # b => link'[m] = link[m]
  BY <1>1, <1>2 DEF QueueTypeOK
<1>4. linking'[t] = None /\ \A u \in Thread : u # t => linking'[u] = linking[u]
  BY <1>1 DEF QueueTypeOK
<1>5. b # head
  BY <1>2 DEF IsQueue, QueueTypeOK
<1>6. \A u \in Thread : linking'[u] # None => u # t /\ linking[u].before # b
  BY <1>1, <1>4 DEF IsQueue
<1>7. tail' \in nodes /\ head' \in nodes /\ link'[head'] = None
  BY <1>1, <1>3, <1>5 DEF IsQueue
<1>8. \A m \in nodes : link'[m] # None => link'[m] \in nodes /\ pos[link'[m]] = pos[m] + 1
  BY <1>2, <1>3 DEF IsQueue
<1>9. \A u \in Thread : linking'[u] # None =>
          /\ linking'[u].before \in nodes /\ linking'[u].node \in nodes
          /\ link'[linking'[u].before] = None
          /\ pos[linking'[u].node] = pos[linking'[u].before] + 1
          /\ \A v \in Thread : linking'[v] # None /\ linking'[v].before = linking'[u].before
                                  => u = v
  BY <1>3, <1>4, <1>6 DEF IsQueue
<1>10. InOrder(nodes, pos)'
  BY DEF IsQueue, InOrder
<1>11. IsQueue(nodes, pos)'
  BY <1>1, <1>7, <1>8, <1>9, <1>10 DEF IsQueue
<1>. QED
  BY <1>11 DEF QueueIsSound

(* The consumer goes on to the next node and leaves the one at the tail. *)
LEMMA AdvanceKeepsQueue ==
    ASSUME QueueTypeOK, NEW nodes \in SUBSET Node, NEW pos \in [Node -> Int],
           IsQueue(nodes, pos), link[tail] # None, tail' = link[tail],
           UNCHANGED <<head, link, linking, issued>>,
           freed' = IF tail = Dummy THEN freed ELSE freed \cup {tail},
           dequeue' # "dummy", dequeue' # "tail" => tail = Dummy
    PROVE  QueueIsSound'
<1>0. PICK rest : rest = nodes \ {tail}
  OBVIOUS
<1>. USE <1>0
<1>1. tail \in nodes /\ tail \in Node /\ tail' \in nodes /\ pos[tail'] = pos[tail] + 1
  BY DEF IsQueue, QueueTypeOK
<1>2. \A m \in nodes : pos[m] \in Int
  OBVIOUS
<1>3. tail' # tail /\ head # tail /\ head \in nodes
  BY <1>1, <1>2 DEF IsQueue
<1>4. \A m \in rest : pos[tail'] <= pos[m] /\ pos[m] <= pos[head]
  BY <1>1, <1>2 DEF IsQueue
<1>5. \A m \in rest : link[m] # None => link[m] \in rest /\ pos[link[m]] = pos[m] + 1
  BY <1>1, <1>2 DEF IsQueue
<1>6. \A t \in Thread : linking[t] # None =>
          linking[t].before \in rest /\ linking[t].node \in rest
  BY <1>1, <1>2 DEF IsQueue
<1>7. rest \ {Dummy} = ToSet(issued) \ freed' /\ freed' \subseteq ToSet(issued)
  BY DEF IsQueue
<1>8. dequeue' # "tail" => tail' # Dummy
  BY <1>3
<1>9. InOrder(rest, pos)'
  BY DEF IsQueue, InOrder
<1>10. IsQueue(rest, pos)'
  BY <1>1, <1>3, <1>4, <1>5, <1>6, <1>7, <1>8, <1>9 DEF IsQueue
<1>. QED
  BY <1>10 DEF QueueIsSound

LEMMA DequeueKeepsQueue ==
    ASSUME QueueTypeOK, QueueIsSound, Dequeue
    PROVE  QueueTypeOK' /\ QueueIsSound'
<1>. PICK nodes \in SUBSET Node, pos \in [Node -> Int] : IsQueue(nodes, pos)
  BY DEF QueueIsSound
<1>0. UNCHANGED <<sending, issued>> /\ Dummy \in Node /\ Network \in Thread /\ tail \in nodes
      /\ tail \in Node
  BY Threads DEF Dequeue, callVars, Node, IsQueue, QueueTypeOK
<1>1. CASE Q!SkipDummy /\ UNCHANGED freed
  <2>1. link[tail] \in Node
    BY <1>0, <1>1 DEF Q!SkipDummy, QueueTypeOK
  <2>2. QueueTypeOK'
    BY <1>0, <1>1, <2>1 DEF Q!SkipDummy, QueueTypeOK
  <2>3. QueueIsSound'
    BY <1>0, <1>1, AdvanceKeepsQueue DEF Q!SkipDummy
  <2>. QED
    BY <2>2, <2>3
<1>2. CASE Q!ReturnElement /\ freed' = freed \cup {tail}
  <2>1. link[tail] \in Node /\ tail # Dummy /\ dequeue' = "tail"
    BY <1>0, <1>2 DEF Q!ReturnElement, Q!AtElement, QueueTypeOK, IsQueue
  <2>2. QueueTypeOK'
    BY <1>0, <1>2, <2>1 DEF Q!ReturnElement, QueueTypeOK, Node
  <2>3. QueueIsSound'
    BY <1>0, <1>2, <2>1, AdvanceKeepsQueue DEF Q!ReturnElement
  <2>. QED
    BY <2>2, <2>3
<1>3. CASE (Q!ReturnNothing \/ Q!FindNoSuccessor) /\ UNCHANGED freed
  <2>1. UNCHANGED <<head, tail, link, linking>> /\ dequeue' \in {"tail", "head"}
    BY <1>3 DEF Q!ReturnNothing, Q!FindNoSuccessor
  <2>2. QueueTypeOK'
    BY <1>0, <1>3, <2>1 DEF QueueTypeOK
  <2>3. dequeue' # "tail" => tail # Dummy
    BY <1>3 DEF Q!ReturnNothing, Q!FindNoSuccessor, Q!AtElement, IsQueue
  <2>4. InOrder(nodes, pos)'
    BY <1>0 DEF IsQueue, InOrder
  <2>5. IsQueue(nodes, pos)'
    BY <1>0, <1>3, <2>1, <2>3, <2>4 DEF IsQueue
  <2>. QED
    BY <2>2, <2>5 DEF QueueIsSound
<1>4. CASE Q!CompareHead /\ UNCHANGED freed
  <2>1. QueueTypeOK'
    BY <1>0, <1>4 DEF Q!CompareHead, QueueTypeOK
  <2>2. \A n \in nodes : pos[n] \in Int
    OBVIOUS
  <2>3. nodes = {tail} /\ tail # Dummy
    BY <1>4, <2>2 DEF Q!CompareHead, IsQueue
  <2>4. UNCHANGED <<head, tail, link, linking>> /\ dequeue' = "dummy"
    BY <1>4 DEF Q!CompareHead
  <2>5. InOrder(nodes, pos)'
    BY <1>0 DEF IsQueue, InOrder
  <2>6. IsQueue(nodes, pos)'
    BY <1>0, <1>4, <2>3, <2>4, <2>5 DEF IsQueue
  <2>. QED
    BY <2>1, <2>6 DEF QueueIsSound
<1>5. CASE Q!EnqueueDummy /\ UNCHANGED freed
  <2>1. [before |-> head, node |-> Dummy] \in [before: Node, node: Node]
    BY <1>0 DEF QueueTypeOK
  <2>2. QueueTypeOK'
    BY <1>0, <1>5, <2>1 DEF Q!EnqueueDummy, Q!ExchangeHead, QueueTypeOK
  <2>3. Dummy \notin nodes /\ (nodes \cup {Dummy}) \ {Dummy} = ToSet(issued') \ freed'
        /\ freed' \subseteq ToSet(issued')
    BY <1>0, <1>5 DEF Q!EnqueueDummy, IsQueue
  <2>4. Dummy \notin ToSet(issued)
    BY NonePacket DEF ToSet, QueueTypeOK
  <2>5. QueueIsSound'
    BY <1>0, <1>5, <2>3, <2>4, ExchangeKeepsQueue DEF Q!EnqueueDummy
  <2>. QED
    BY <2>2, <2>5
<1>6. CASE Q!LinkDummy /\ UNCHANGED freed
  <2>1. linking[Network].before \in Node /\ linking[Network].node \in Node
    BY <1>0, <1>6 DEF Q!LinkDummy, Q!StoreLink, QueueTypeOK
  <2>2. QueueTypeOK'
    BY <1>0, <1>6, <2>1 DEF Q!LinkDummy, Q!StoreLink, QueueTypeOK
  <2>3. QueueIsSound'
    BY <1>0, <1>6, StoreKeepsQueue DEF Q!LinkDummy
  <2>. QED
    BY <2>2, <2>3
<1>. QED
  BY <1>1, <1>2, <1>3, <1>4, <1>5, <1>6 DEF Dequeue, Q!ContinueDequeue

LEMMA EnqueueKeepsQueue ==
    ASSUME QueueTypeOK, QueueIsSound, SendersAreSound, NEW t \in Thread, Enqueue(t)
    PROVE  QueueTypeOK' /\ SendersAreSound' /\ QueueIsSound'
<1>. PICK nodes \in SUBSET Node, pos \in [Node -> Int] : IsQueue(nodes, pos)
  BY DEF QueueIsSound
<1>1. PICK p : p = sending[t]
  OBVIOUS
<1>2. p \in Packet /\ p \in Node /\ p # Dummy /\ p # None
  BY <1>1, NonePacket DEF Enqueue, QueueTypeOK, Node
<1>3. issued' = Append(issued, p) /\ UNCHANGED <<freed, dequeue, login>>
      /\ sending' = [sending EXCEPT ![t] = None] /\ Q!ExchangeHead(t, p)
  BY <1>1 DEF Enqueue, sessionVars
<1>4. issued' \in Seq(Packet) /\ ToSet(issued') = ToSet(issued) \cup {p}
  BY <1>2, <1>3, IssuedAppend DEF QueueTypeOK
<1>5. p \notin ToSet(issued)
  BY <1>1 DEF SendersAreSound
<1>6. QueueTypeOK'
  <2>1. [before |-> head, node |-> p] \in [before: Node, node: Node]
    BY <1>2 DEF QueueTypeOK
  <2>. QED
    BY <1>2, <1>3, <1>4, <2>1 DEF Q!ExchangeHead, QueueTypeOK
<1>7. SendersAreSound'
  <2>1. sending'[t] = None /\ \A u \in Thread : u # t => sending'[u] = sending[u]
    BY <1>3 DEF QueueTypeOK
  <2>2. None \notin ToSet(issued')
    BY <1>4, NonePacket DEF QueueTypeOK, ToSet
  <2>3. \A u \in Thread : sending'[u] \notin ToSet(issued')
    BY <1>1, <1>2, <1>4, <2>1, <2>2 DEF SendersAreSound
  <2>4. Used' \subseteq Used \cup {None}
    BY <1>1, <1>4, <2>1 DEF Used
  <2>5. Challenge # None /\ Response # None
    BY NonePacket, Outgoings
  <2>6. (login' \in {"start", "address"} => Challenge \notin Used')
        /\ (login' # "done" => Response \notin Used')
    BY <1>3, <2>4, <2>5 DEF SendersAreSound
  <2>. QED
    BY <2>1, <2>3, <2>6, Threads DEF SendersAreSound
<1>8. QueueIsSound'
  <2>1. p \notin nodes
    BY <1>2, <1>5 DEF IsQueue
  <2>2. p \notin freed
    BY <1>5 DEF IsQueue
  <2>3. (nodes \cup {p}) \ {Dummy} = ToSet(issued') \ freed' /\ freed' \subseteq ToSet(issued')
    BY <1>2, <1>3, <1>4, <2>2 DEF IsQueue
  <2>. QED
    BY <1>2, <1>3, <1>5, <2>1, <2>3, ExchangeKeepsQueue
<1>. QED
  BY <1>6, <1>7, <1>8

(* A packet that is neither in the queue nor with a thread is given to t. *)
LEMMA SendIsSound ==
    ASSUME QueueTypeOK, SendersAreSound, NEW t \in Thread, NEW p \in Packet, p \notin Used,
           SendPacket(t, p), UNCHANGED issued,
           t \in Sender => p \in Outgoing[t],
           t = Acceptor => p \in {Challenge, Response},
           t = Network => p \in {Challenge, Response, Pong},
           login' \in {"start", "address"} => login \in {"start", "address"} /\ p # Challenge,
           login' # "done" => login # "done" /\ p # Response
    PROVE  SendersAreSound' /\ sending' \in [Thread -> Packet \cup {None}]
<1>1. sending' = sending \/ sending' = [sending EXCEPT ![t] = p]
  BY DEF SendPacket
<1>2. sending' \in [Thread -> Packet \cup {None}]
  BY <1>1 DEF QueueTypeOK
<1>3. \A u \in Thread : sending'[u] = sending[u] \/ (u = t /\ sending'[u] = p)
  BY <1>1 DEF QueueTypeOK
<1>4. Used' \subseteq Used \cup {p}
  BY <1>3 DEF Used
<1>5. p \notin ToSet(issued) /\ \A u \in Thread : sending[u] # p
  BY DEF Used
<1>6. \A u \in Sender : sending'[u] \in Outgoing[u] \cup {None}
  BY <1>3, Threads DEF SendersAreSound
<1>7. sending'[Acceptor] \in {Challenge, Response, None}
      /\ sending'[Network] \in {Challenge, Response, Pong, None}
  BY <1>3, Threads DEF SendersAreSound
<1>8. \A u \in Thread : sending'[u] \notin ToSet(issued')
  BY <1>3, <1>5 DEF SendersAreSound
<1>9. \A u, v \in Thread : u # v /\ sending'[u] = sending'[v] => sending'[u] = None
  BY <1>3, <1>5 DEF SendersAreSound
<1>10. (login' \in {"start", "address"} => Challenge \notin Used')
       /\ (login' # "done" => Response \notin Used')
  BY <1>4 DEF SendersAreSound
<1>. QED
  BY <1>2, <1>6, <1>7, <1>8, <1>9, <1>10 DEF SendersAreSound

(* The login goes on, and nothing is sent. *)
LEMMA NothingSent ==
    ASSUME QueueTypeOK, QueueIsSound, SendersAreSound,
           UNCHANGED <<queueVars, historyVars, sending>>,
           login' \in {"start", "address"} => login \in {"start", "address"},
           login' # "done" => login # "done"
    PROVE  QueueTypeOK' /\ SendersAreSound' /\ QueueIsSound'
<1>. USE DEF queueVars, historyVars
<1>1. QueueTypeOK'
  BY DEF QueueTypeOK
<1>2. Used' = Used
  BY DEF Used
<1>3. SendersAreSound'
  BY <1>2 DEF SendersAreSound
<1>4. QueueIsSound'
  BY DEF QueueIsSound, IsQueue, InOrder
<1>. QED
  BY <1>1, <1>3, <1>4

LEMMA SentKeepsQueue ==
    ASSUME QueueTypeOK, QueueIsSound, UNCHANGED <<queueVars, historyVars>>,
           sending' \in [Thread -> Packet \cup {None}]
    PROVE  QueueTypeOK' /\ QueueIsSound'
<1>. USE DEF queueVars, historyVars
<1>1. QueueTypeOK'
  BY DEF QueueTypeOK
<1>2. QueueIsSound'
  BY DEF QueueIsSound, IsQueue, InOrder
<1>. QED
  BY <1>1, <1>2

QueueInv == QueueTypeOK /\ SendersAreSound /\ QueueIsSound

LEMMA QueueKept ==
    ASSUME FlagInv, QueueInv, [Next]_vars
    PROVE  QueueInv'
<1>. USE DEF QueueInv
<1>1. CASE StartBanned
  <2>1. SendPacket(Acceptor, Response) /\ login = "start" /\ login' = "done"
        /\ UNCHANGED <<queueVars, historyVars>>
    BY <1>1 DEF StartBanned, FlagInv, StartIsSound
  <2>2. Response \notin Used
    BY <2>1 DEF SendersAreSound
  <2>3. SendersAreSound' /\ sending' \in [Thread -> Packet \cup {None}]
    BY <2>1, <2>2, SendIsSound, Threads, Outgoings DEF historyVars
  <2>. QED
    BY <2>1, <2>3, SentKeepsQueue
<1>2. CASE StartChallenge
  <2>1. SendPacket(Acceptor, Challenge) /\ login = "start" /\ login' = "challenged"
        /\ UNCHANGED <<queueVars, historyVars>> /\ Challenge # Response
    BY <1>2, ConstantsAssumption DEF StartChallenge, FlagInv, StartIsSound
  <2>2. Challenge \notin Used
    BY <2>1 DEF SendersAreSound
  <2>3. SendersAreSound' /\ sending' \in [Thread -> Packet \cup {None}]
    BY <2>1, <2>2, SendIsSound, Threads, Outgoings DEF historyVars
  <2>. QED
    BY <2>1, <2>3, SentKeepsQueue
<1>3. CASE AddressAllowed
  <2>1. SendPacket(Network, Challenge) /\ login = "address" /\ login' = "challenged"
        /\ UNCHANGED <<queueVars, historyVars>> /\ Challenge # Response
    BY <1>3, ConstantsAssumption DEF AddressAllowed
  <2>2. Challenge \notin Used
    BY <2>1 DEF SendersAreSound
  <2>3. SendersAreSound' /\ sending' \in [Thread -> Packet \cup {None}]
    BY <2>1, <2>2, SendIsSound, Threads, Outgoings DEF historyVars
  <2>. QED
    BY <2>1, <2>3, SentKeepsQueue
<1>4. CASE Refuse
  <2>1. SendPacket(Network, Response) /\ login # "done" /\ login' = "done"
        /\ UNCHANGED <<queueVars, historyVars>>
    BY <1>4 DEF Refuse
  <2>2. Response \notin Used
    BY <2>1 DEF SendersAreSound
  <2>3. SendersAreSound' /\ sending' \in [Thread -> Packet \cup {None}]
    BY <2>1, <2>2, SendIsSound, Threads, Outgoings DEF historyVars
  <2>. QED
    BY <2>1, <2>3, SentKeepsQueue
<1>5. CASE UnlockSession
  <2>1. UNCHANGED <<queueVars, historyVars, login>>
    BY <1>5 DEF UnlockSession, sessionVars
  <2>2. CASE UNCHANGED sending
    BY <2>1, <2>2, NothingSent
  <2>3. CASE Pong \notin ToSet(issued) /\ SendPacket(Network, Pong)
    <3>1. CASE sending[Network] = Pong
      <4>1. UNCHANGED sending
        BY <2>3, <3>1 DEF SendPacket, QueueTypeOK
      <4>. QED
        BY <2>1, <4>1, NothingSent
    <3>2. CASE sending[Network] # Pong
      <4>1. Pong # Challenge /\ Pong # Response /\ Pong # None
            /\ \A t \in Sender : Pong \notin Outgoing[t]
        BY ConstantsAssumption, NonePacket, Outgoings
      <4>2. \A t \in Thread : sending[t] # Pong
        BY <3>2, <4>1, Threads DEF SendersAreSound
      <4>3. Pong \notin Used
        BY <2>3, <4>2 DEF Used
      <4>4. SendersAreSound' /\ sending' \in [Thread -> Packet \cup {None}]
        BY <2>1, <2>3, <4>1, <4>3, SendIsSound, Threads, Outgoings
           DEF historyVars, SendersAreSound
      <4>. QED
        BY <2>1, <4>4, SentKeepsQueue
    <3>. QED
      BY <3>1, <3>2
  <2>. QED
    BY <1>5, <2>2, <2>3 DEF UnlockSession
<1>6. ASSUME NEW t \in Sender, NEW p \in Outgoing[t], Send(t, p)
      PROVE  QueueInv'
  <2>1. SendPacket(t, p) /\ p \notin ToSet(issued) /\ sending[t] = None
        /\ UNCHANGED <<queueVars, historyVars, login>>
    BY <1>6 DEF Send, sessionVars, Returned
  <2>2. p \in Packet /\ p # None /\ p # Challenge /\ p # Response /\ p # Pong
        /\ \A u \in Sender : u # t => p \notin Outgoing[u]
    BY ConstantsAssumption, NonePacket, Outgoings
  <2>3. \A u \in Thread : sending[u] # p
    BY <2>1, <2>2, Threads DEF SendersAreSound
  <2>4. p \notin Used
    BY <2>1, <2>3 DEF Used
  <2>5. SendersAreSound' /\ sending' \in [Thread -> Packet \cup {None}]
    BY <2>1, <2>2, <2>4, SendIsSound, Threads DEF historyVars
  <2>. QED
    BY <2>1, <2>5, SentKeepsQueue
<1>7. ASSUME NEW t \in Thread, Enqueue(t)
      PROVE  QueueInv'
  BY <1>7, EnqueueKeepsQueue
<1>8. ASSUME NEW t \in Thread, EndEnqueue(t)
      PROVE  QueueInv'
  <2>1. PICK nodes \in SUBSET Node, pos \in [Node -> Int] : IsQueue(nodes, pos)
    BY DEF QueueIsSound
  <2>2. Q!StoreLink(t) /\ UNCHANGED <<dequeue, sending, issued, freed, login>>
    BY <1>8 DEF EndEnqueue, callVars, historyVars, sessionVars
  <2>3. linking[t].before \in Node /\ linking[t].node \in Node
    BY <2>2 DEF Q!StoreLink, QueueTypeOK
  <2>4. QueueTypeOK'
    BY <2>2, <2>3 DEF Q!StoreLink, QueueTypeOK
  <2>5. SendersAreSound'
    BY <2>2 DEF SendersAreSound, Used
  <2>6. QueueIsSound'
    BY <2>1, <2>2, StoreKeepsQueue
  <2>. QED
    BY <2>4, <2>5, <2>6
<1>9. CASE Dequeue
  <2>1. UNCHANGED <<sending, issued, login>>
    BY <1>9 DEF Dequeue, callVars, sessionVars
  <2>2. SendersAreSound'
    BY <2>1 DEF SendersAreSound, Used
  <2>. QED
    BY <1>9, <2>2, DequeueKeepsQueue
<1>10. CASE /\ UNCHANGED <<queueVars, historyVars, sending>>
            /\ login' \in {"start", "address"} => login \in {"start", "address"}
            /\ login' # "done" => login # "done"
  BY <1>10, NothingSent
<1>11. CASE StartQuery \/ StartMark \/ StartRead \/ AddSocket \/ AddNewSockets \/ StartUpdate
            \/ BaseUpdate \/ WriteReady \/ NothingReady \/ DelayedCloseSocket \/ AcceptAccount
  BY <1>10, <1>11
     DEF StartQuery, StartMark, StartRead, AddSocket, AddNewSockets, StartUpdate, BaseUpdate,
         WriteReady, NothingReady, DelayedCloseSocket, AcceptAccount, Callbacks, sessionVars,
         callVars, FlagInv, StartIsSound
<1>12. CASE HandleQueueLoop \/ HandleQueueOnce
  BY <1>10, <1>12 DEF HandleQueueLoop, HandleQueueOnce, sessionVars
<1>13. CASE ReadFails \/ ReadAuthSession \/ ReadPacket \/ LockSession \/ AsyncRead
  BY <1>10, <1>13
     DEF ReadFails, ReadAuthSession, ReadPacket, LockSession, AsyncRead, sessionVars, callVars
<1>14. CASE EndSession \/ PeerReads \/ PeerBreaks \/ UNCHANGED vars
  BY <1>10, <1>14 DEF EndSession, PeerReads, PeerBreaks, vars, sessionVars, callVars
<1>15. ASSUME NEW t \in Thread, Shutdown(t) \/ OnClose(t)
       PROVE  QueueInv'
  BY <1>10, <1>15 DEF Shutdown, OnClose, sessionVars
<1>16. ASSUME NEW t \in Sender, KickPlayer(t)
       PROVE  QueueInv'
  BY <1>10, <1>16 DEF KickPlayer, sessionVars
<1>. QED
  BY <1>1, <1>2, <1>3, <1>4, <1>5, <1>6, <1>7, <1>8, <1>9, <1>11, <1>12, <1>13, <1>14, <1>15,
     <1>16
     DEF Next, AcceptorStep, TimerExpires, UpdateStep, CallbackStep, ReadStep, CallStep

LEMMA QueueStart == Init => QueueInv
<1>. SUFFICES ASSUME Init PROVE QueueInv
  OBVIOUS
<1>0. head = Dummy /\ tail = Dummy /\ link = [n \in Node |-> None] /\ dequeue = "tail"
      /\ linking = [t \in Thread |-> None] /\ sending = [t \in Thread |-> None]
      /\ issued = <<>> /\ freed = {} /\ Dummy \in Node
  BY DEF Init, Q!InitMPSCQueue, Q!Node, Node
<1>1. QueueTypeOK
  BY <1>0 DEF QueueTypeOK
<1>2. ToSet(issued) = {}
  BY <1>0 DEF ToSet
<1>3. Used \subseteq {None}
  BY <1>0, <1>2 DEF Used
<1>4. SendersAreSound
  BY <1>0, <1>2, <1>3, Threads, NonePacket, Outgoings DEF SendersAreSound
<1>5. PICK pos : pos = [n \in Node |-> 0]
  OBVIOUS
<1>6. IsQueue({Dummy}, pos)
  BY <1>0, <1>2, <1>5 DEF IsQueue, InOrder
<1>7. QueueIsSound
  BY <1>0, <1>5, <1>6 DEF QueueIsSound
<1>. QED
  BY <1>1, <1>4, <1>7 DEF QueueInv

(* No thread follows or stores a link of a deleted packet: Enqueue and       *)
(* Dequeue of MPSCQueue.h, with Update of WorldSocket.cpp, which deletes a   *)
(* packet as soon as it is dequeued.                                         *)
THEOREM NoDeletedNodeIsUsed == Spec => []NoFreedNode
<1>1. QueueInv => NoFreedNode
  <2>. SUFFICES ASSUME QueueInv PROVE NoFreedNode
    OBVIOUS
  <2>1. PICK nodes \in SUBSET Node, pos \in [Node -> Int] : IsQueue(nodes, pos)
    BY DEF QueueInv, QueueIsSound
  <2>2. \A n \in nodes : n \notin freed
    BY <2>1, NonePacket DEF IsQueue, QueueInv, QueueTypeOK
  <2>. QED
    BY <2>1, <2>2 DEF IsQueue, NoFreedNode
<1>. QED
  BY FlagsStart, FlagsKept, QueueStart, QueueKept, <1>1, PTL DEF Spec

-----------------------------------------------------------------------------
(* The buffers.                                                            *)

LEMMA PackIsTyped ==
    ASSUME BytesTypeOK, NEW p \in Packet, Pack(p)
    PROVE  /\ buffer' \in Seq(Byte) /\ Len(buffer') <= SendBufferSize
           /\ writeQueue' \in Seq(Seq(Byte))
<1>. USE DEF BytesTypeOK
<1>0. Bytes(p) \in Seq(Byte) /\ Len(Bytes(p)) = Size[p] /\ Size[p] \in Nat
      /\ SendBufferSize \in Nat /\ <<>> \in Seq(Byte) /\ Len(<<>>) = 0 /\ Len(buffer) \in Nat
  BY PacketBytes, ConstantsAssumption
<1>1. buffer \o Bytes(p) \in Seq(Byte) /\ Len(buffer \o Bytes(p)) = Len(buffer) + Size[p]
  <2>1. \A s, t \in Seq(Byte) : s \o t \in Seq(Byte) /\ Len(s \o t) = Len(s) + Len(t)
    OBVIOUS
  <2>2. buffer \in Seq(Byte)
    OBVIOUS
  <2>. QED
    BY <1>0, <2>1, <2>2
<1>2. Append(writeQueue, buffer) \in Seq(Seq(Byte))
  OBVIOUS
<1>3. <<buffer, Bytes(p)>> \in Seq(Seq(Byte))
  BY <1>0
<1>4. writeQueue \o <<buffer, Bytes(p)>> \in Seq(Seq(Byte))
  BY <1>3
<1>5. CASE Len(buffer) + Size[p] <= SendBufferSize
  <2>1. buffer' = buffer \o Bytes(p) /\ writeQueue' = writeQueue
    <3>1. ~(Len(buffer) + Size[p] > SendBufferSize)
      BY <1>0, <1>5
    <3>. QED
      BY <1>5, <3>1 DEF Pack
  <2>. QED
    BY <1>1, <1>5, <2>1
<1>6. CASE Len(buffer) + Size[p] > SendBufferSize /\ Size[p] <= SendBufferSize
  <2>1. buffer' = Bytes(p) /\ writeQueue' = Append(writeQueue, buffer)
    BY <1>0, <1>6 DEF Pack
  <2>. QED
    BY <1>0, <1>2, <1>6, <2>1
<1>7. CASE Size[p] > SendBufferSize
  <2>1. ~(Len(buffer) + Size[p] <= SendBufferSize) /\ ~(Size[p] <= SendBufferSize)
    BY <1>0, <1>7
  <2>2. buffer' = <<>> /\ writeQueue' = writeQueue \o <<buffer, Bytes(p)>>
    BY <2>1 DEF Pack
  <2>. QED
    BY <1>0, <1>4, <2>2
<1>. QED
  BY <1>0, <1>5, <1>6, <1>7

LEMMA HandleQueueIsTyped ==
    ASSUME BytesTypeOK, HandleQueue
    PROVE  writeQueue' \in Seq(Seq(Byte)) /\ room' \in 0..Capacity /\ wire' \in Seq(Byte)
<1>. USE DEF BytesTypeOK
<1>0. Capacity \in Nat
  BY ConstantsAssumption
<1>1. CASE NothingQueued
  BY <1>1 DEF NothingQueued
<1>2. CASE DropBuffer
  BY <1>2 DEF DropBuffer, Pop
<1>3. CASE WouldBlock
  BY <1>3 DEF WouldBlock
<1>4. CASE WritePart
  <2>1. Head(writeQueue) \in Seq(Byte) /\ Head(writeQueue) = writeQueue[1]
        /\ 1 \in DOMAIN writeQueue
    BY <1>4 DEF WritePart
  <2>2. room \in 1..Len(Head(writeQueue)) /\ room + 1 \in Nat \ {0}
    BY <1>4, <2>1 DEF WritePart
  <2>3. SubSeq(Head(writeQueue), 1, room) \in Seq(Byte)
        /\ SubSeq(Head(writeQueue), room + 1, Len(Head(writeQueue))) \in Seq(Byte)
    BY <2>1, <2>2
  <2>4. writeQueue' \in Seq(Seq(Byte))
    BY <1>4, <2>1, <2>3 DEF WritePart
  <2>5. wire' \in Seq(Byte)
    BY <1>4, <2>3 DEF WritePart
  <2>6. room' \in 0..Capacity
    BY <1>0, <1>4 DEF WritePart
  <2>. QED
    BY <2>4, <2>5, <2>6
<1>5. CASE WriteAll
  <2>1. Head(writeQueue) \in Seq(Byte) /\ Len(Head(writeQueue)) \in Nat
        /\ Tail(writeQueue) \in Seq(Seq(Byte))
    BY <1>5 DEF WriteAll, WritesAll
  <2>2. Len(Head(writeQueue)) <= room
    BY <1>5 DEF WriteAll, WritesAll
  <2>. QED
    BY <1>0, <1>5, <2>1, <2>2 DEF WriteAll, Pop
<1>. QED
  BY <1>1, <1>2, <1>3, <1>4, <1>5 DEF HandleQueue

LEMMA BytesKept ==
    ASSUME QueueTypeOK, QueueIsSound, BytesTypeOK, [Next]_vars
    PROVE  BytesTypeOK'
<1>1. CASE Dequeue
  <2>1. UNCHANGED <<room, wire>>
    BY <1>1 DEF Dequeue, kernelVars
  <2>2. CASE Q!ContinueDequeue /\ UNCHANGED bufferVars
    BY <2>1, <2>2 DEF BytesTypeOK, bufferVars
  <2>3. CASE Q!ReturnElement /\ Pack(tail)
    <3>1. tail # Dummy
      BY <2>3 DEF Q!ReturnElement, Q!AtElement, QueueIsSound, IsQueue
    <3>2. tail \in Packet
      BY <3>1 DEF QueueTypeOK, Node
    <3>. QED
      BY <2>1, <2>3, <3>2, PackIsTyped DEF BytesTypeOK
  <2>4. CASE /\ writeQueue' = IF buffer = <<>> THEN writeQueue ELSE Append(writeQueue, buffer)
             /\ buffer' = <<>>
    BY <2>1, <2>4, ConstantsAssumption DEF BytesTypeOK
  <2>. QED
    BY <1>1, <2>2, <2>3, <2>4 DEF Dequeue
<1>2. CASE HandleQueueLoop \/ HandleQueueOnce
  BY <1>2, HandleQueueIsTyped DEF HandleQueueLoop, HandleQueueOnce, BytesTypeOK
<1>3. CASE PeerReads
  BY <1>3, ConstantsAssumption DEF PeerReads, BytesTypeOK, bufferVars
<1>4. CASE UNCHANGED <<buffer, writeQueue, room, wire>>
  BY <1>4 DEF BytesTypeOK
<1>5. CASE AcceptorStep \/ TimerExpires \/ BaseUpdate \/ WriteReady
  BY <1>4, <1>5
     DEF AcceptorStep, TimerExpires, StartQuery, StartBanned, StartMark, StartRead,
         StartChallenge, AddSocket, AddNewSockets, StartUpdate, BaseUpdate, WriteReady,
         bufferVars, kernelVars
<1>6. CASE CallbackStep \/ ReadStep
  BY <1>4, <1>6
     DEF CallbackStep, NothingReady, AddressAllowed, Refuse, DelayedCloseSocket, AcceptAccount,
         ReadStep, ReadFails, ReadAuthSession, ReadPacket, LockSession, UnlockSession, AsyncRead,
         bufferVars, kernelVars
<1>7. ASSUME NEW t \in Thread, CallStep(t)
      PROVE  BytesTypeOK'
  BY <1>4, <1>7 DEF CallStep, Enqueue, EndEnqueue, Shutdown, OnClose, bufferVars, kernelVars
<1>8. ASSUME NEW t \in Sender, KickPlayer(t) \/ \E p \in Outgoing[t] : Send(t, p)
      PROVE  BytesTypeOK'
  BY <1>4, <1>8 DEF KickPlayer, Send, bufferVars, kernelVars
<1>9. CASE EndSession \/ PeerBreaks \/ UNCHANGED vars
  BY <1>4, <1>9 DEF EndSession, PeerBreaks, vars, bufferVars, kernelVars
<1>. QED
  BY <1>1, <1>2, <1>3, <1>5, <1>6, <1>7, <1>8, <1>9 DEF Next, UpdateStep

LEMMA BytesStart == Init => BytesTypeOK
BY ConstantsAssumption DEF Init, BytesTypeOK

(* Every variable stays within its type, and the buffer that             *)
(* WorldSocket::Update fills within the size it was made with.           *)
THEOREM TypeCorrect == Spec => []TypeOK
<1>1. QueueInv => QueueTypeOK /\ QueueIsSound
  BY DEF QueueInv
<1>2. QueueTypeOK /\ FlagTypeOK /\ BytesTypeOK => TypeOK
  BY DEF TypeOK, QueueTypeOK, FlagTypeOK, BytesTypeOK
<1>3. FlagInv => FlagTypeOK
  BY DEF FlagInv
<1>. QED
  BY FlagsStart, FlagsKept, QueueStart, QueueKept, BytesStart, BytesKept, <1>1, <1>2, <1>3, PTL
     DEF Spec

-----------------------------------------------------------------------------
(* The stream of bytes: what the first packets of the queue, deleted by    *)
(* now, are made of is on the wire or still to be written, unless writing  *)
(* fails, and then nothing is written any more.                            *)

Sent(k) == AllBytes(SubSeq(issued, 1, k))

IsStream(k, rest) ==
    /\ freed = {issued[i] : i \in 1..k}
    /\ wire \o rest = Sent(k)
    /\ Failing \/ rest = FlattenSeq(writeQueue) \o buffer

StreamIsSound == \E k \in 0..Len(issued), rest \in Seq(Byte) : IsStream(k, rest)

LEMMA AllBytesAppend ==
    ASSUME NEW s \in Seq(Packet), NEW p \in Packet
    PROVE  AllBytes(s) \in Seq(Byte) /\ AllBytes(Append(s, p)) = AllBytes(s) \o Bytes(p)
<1>. DEFINE each == [i \in 1..Len(s) |-> Bytes(s[i])]
<1>1. each \in Seq(Seq(Byte)) /\ Len(each) = Len(s)
  <2>1. \A i \in 1..Len(s) : Bytes(s[i]) \in Seq(Byte)
    BY PacketBytes
  <2>. QED
    BY <2>1
<1>2. PICK t : t = Append(s, p)
  OBVIOUS
<1>3. /\ t \in Seq(Packet) /\ Len(t) = Len(s) + 1 /\ t[Len(s) + 1] = p /\ Len(s) \in Nat
      /\ \A i \in 1..Len(s) : t[i] = s[i]
  BY <1>2
<1>4. [i \in 1..Len(t) |-> Bytes(t[i])] = Append(each, Bytes(p))
  <2>1. PICK a : a = [i \in 1..Len(t) |-> Bytes(t[i])]
    OBVIOUS
  <2>2. PICK b : b = Append(each, Bytes(p))
    OBVIOUS
  <2>3. a \in Seq(Seq(Byte)) /\ Len(a) = Len(s) + 1
    <3>1. \A i \in 1..Len(t) : Bytes(t[i]) \in Seq(Byte)
      BY <1>3, PacketBytes
    <3>. QED
      BY <1>3, <2>1, <3>1
  <2>4. b \in Seq(Seq(Byte)) /\ Len(b) = Len(s) + 1 /\ b[Len(s) + 1] = Bytes(p)
        /\ \A i \in 1..Len(s) : b[i] = Bytes(s[i])
    BY <1>1, <2>2, PacketBytes, AppendProperties
  <2>5. \A i \in 1..(Len(s) + 1) : a[i] = b[i]
    <3>1. \A i \in 1..(Len(s) + 1) : a[i] = Bytes(t[i])
      BY <1>3, <2>1
    <3>2. \A i \in 1..(Len(s) + 1) : i \in 1..Len(s) \/ i = Len(s) + 1
      BY <1>3
    <3>. QED
      BY <1>3, <2>4, <3>1, <3>2
  <2>. QED
    BY <1>3, <2>1, <2>2, <2>3, <2>4, <2>5, SeqEqual
<1>5. FlattenSeq(Append(each, Bytes(p))) = FlattenSeq(each) \o Bytes(p)
  BY <1>1, PacketBytes, FlattenAppend
<1>. QED
  BY <1>1, <1>2, <1>4, <1>5, FlattenType DEF AllBytes

LEMMA SentIsTyped ==
    ASSUME issued \in Seq(Packet), NEW k \in 0..Len(issued)
    PROVE  SubSeq(issued, 1, k) \in Seq(Packet) /\ Sent(k) \in Seq(Byte)
<1>1. SubSeq(issued, 1, k) \in Seq(Packet)
  BY SubSeqProperties, ElementOfSeq
<1>. QED
  BY <1>1, AllBytesAppend, Outgoings DEF Sent

LEMMA SentNext ==
    ASSUME issued \in Seq(Packet), NEW k \in 0..(Len(issued) - 1)
    PROVE  Sent(k + 1) = Sent(k) \o Bytes(issued[k + 1])
<1>1. k + 1 \in 1..Len(issued) /\ (k + 1) - 1 = k /\ issued[k + 1] \in Packet
      /\ k \in 0..Len(issued) /\ 1 \in 1..Len(issued)
  OBVIOUS
<1>2. SubSeq(issued, 1, k + 1) = SubSeq(issued, 1, k) \o <<issued[k + 1]>>
  BY <1>1, SubSeqRecursiveSecond
<1>3. SubSeq(issued, 1, k + 1) = Append(SubSeq(issued, 1, k), issued[k + 1])
  BY <1>1, <1>2, SentIsTyped, AppendIsConcat
<1>. QED
  BY <1>1, <1>3, SentIsTyped, AllBytesAppend DEF Sent

(* The packet dequeued next is the first in the queue that is not deleted. *)
LEMMA NextIsFirst ==
    ASSUME QueueTypeOK, QueueIsSound, tail # Dummy, NEW k \in 0..Len(issued),
           freed = {issued[i] : i \in 1..k}
    PROVE  k < Len(issued) /\ issued[k + 1] = tail
<1>. PICK nodes \in SUBSET Node, pos \in [Node -> Int] : IsQueue(nodes, pos)
  BY DEF QueueIsSound
<1>0. InOrder(nodes, pos) /\ issued \in Seq(Packet) /\ Len(issued) \in Nat
  BY DEF IsQueue, QueueTypeOK
<1>1. tail \in nodes /\ tail \in ToSet(issued) \ freed
  BY DEF IsQueue
<1>2. PICK j \in 1..Len(issued) : issued[j] = tail
  BY <1>0, <1>1 DEF ToSet
<1>3. j \notin 1..k
  BY <1>1, <1>2
<1>4. k + 1 \in 1..Len(issued) /\ k + 1 <= j
  BY <1>0, <1>2, <1>3
<1>5. ASSUME k + 1 # j PROVE FALSE
  <2>1. k + 1 < j
    BY <1>0, <1>4, <1>5
  <2>2. \A i \in 1..k : issued[i] # issued[k + 1]
    BY <1>0, <1>4 DEF InOrder
  <2>3. issued[k + 1] \in ToSet(issued) \ freed
    BY <1>0, <1>4, <2>2 DEF ToSet
  <2>4. issued[k + 1] \in nodes /\ issued[k + 1] \in Node
    BY <2>3 DEF IsQueue
  <2>5. pos[issued[k + 1]] < pos[tail]
    BY <1>0, <1>1, <1>2, <1>4, <2>1, <2>4 DEF InOrder
  <2>6. pos[tail] <= pos[issued[k + 1]]
    BY <2>4 DEF IsQueue
  <2>7. pos[tail] \in Int /\ pos[issued[k + 1]] \in Int
    BY <2>4 DEF QueueTypeOK
  <2>. QED
    BY <2>5, <2>6, <2>7
<1>. QED
  BY <1>0, <1>2, <1>4, <1>5

LEMMA PackKeepsBytes ==
    ASSUME BytesTypeOK, NEW p \in Packet, Pack(p)
    PROVE  FlattenSeq(writeQueue') \o buffer' = (FlattenSeq(writeQueue) \o buffer) \o Bytes(p)
<1>0. /\ writeQueue \in Seq(Seq(Byte)) /\ buffer \in Seq(Byte) /\ Bytes(p) \in Seq(Byte)
      /\ Size[p] \in Nat /\ SendBufferSize \in Nat /\ Len(buffer) \in Nat
  BY PacketBytes, ConstantsAssumption, LenProperties DEF BytesTypeOK
<1>1. PICK w \in Seq(Byte) : w = FlattenSeq(writeQueue)
  BY <1>0, FlattenType
<1>2. PICK b \in Seq(Byte), c \in Seq(Byte) : b = buffer /\ c = Bytes(p)
  BY <1>0
<1>3. (w \o b) \o c = w \o (b \o c) /\ w \o b \in Seq(Byte) /\ (w \o b) \o c \in Seq(Byte)
  BY ConcatAssociative, ConcatProperties
<1>4. FlattenSeq(Append(writeQueue, b)) = w \o b /\ Append(writeQueue, b) \in Seq(Seq(Byte))
  BY <1>0, <1>1, FlattenAppend, AppendProperties
<1>5. CASE Len(buffer) + Size[p] <= SendBufferSize
  <2>1. buffer' = buffer \o Bytes(p) /\ writeQueue' = writeQueue
    <3>1. ~(Len(buffer) + Size[p] > SendBufferSize)
      BY <1>0, <1>5
    <3>. QED
      BY <1>5, <3>1 DEF Pack
  <2>. QED
    BY <1>1, <1>2, <1>3, <2>1
<1>6. CASE Len(buffer) + Size[p] > SendBufferSize /\ Size[p] <= SendBufferSize
  <2>1. buffer' = Bytes(p) /\ writeQueue' = Append(writeQueue, buffer)
    BY <1>0, <1>6 DEF Pack
  <2>. QED
    BY <1>1, <1>2, <1>4, <2>1
<1>7. CASE Size[p] > SendBufferSize
  <2>1. ~(Len(buffer) + Size[p] <= SendBufferSize) /\ ~(Size[p] <= SendBufferSize)
    BY <1>0, <1>7
  <2>2. buffer' = <<>> /\ writeQueue' = writeQueue \o <<b, c>>
    BY <1>2, <2>1 DEF Pack
  <2>3. writeQueue \o <<b, c>> = Append(Append(writeQueue, b), c)
    BY <1>0
  <2>4. FlattenSeq(writeQueue') = (w \o b) \o c
    BY <1>4, <2>2, <2>3, FlattenAppend
  <2>. QED
    BY <1>1, <1>2, <1>3, <2>2, <2>4, ConcatEmptySeq
<1>8. \/ Len(buffer) + Size[p] <= SendBufferSize \/ Size[p] > SendBufferSize
      \/ Len(buffer) + Size[p] > SendBufferSize /\ Size[p] <= SendBufferSize
  BY <1>0
<1>. QED
  BY <1>5, <1>6, <1>7, <1>8

(* Writing takes from the front what it puts on the wire. *)
LEMMA HandleQueueKeepsBytes ==
    ASSUME BytesTypeOK, HandleQueue, UNCHANGED <<buffer, shut, broken>>, NEW rest \in Seq(Byte),
           Failing \/ rest = FlattenSeq(writeQueue) \o buffer
    PROVE  \E left \in Seq(Byte) : /\ wire' \o left = wire \o rest
                                   /\ Failing' \/ left = FlattenSeq(writeQueue') \o buffer'
<1>0. /\ writeQueue \in Seq(Seq(Byte)) /\ buffer \in Seq(Byte) /\ wire \in Seq(Byte)
      /\ Failing' = Failing
  BY DEF BytesTypeOK, Failing
<1>1. CASE NothingQueued \/ WouldBlock
  BY <1>0, <1>1 DEF NothingQueued, WouldBlock
<1>2. CASE DropBuffer /\ Failing
  BY <1>0, <1>2 DEF DropBuffer
<1>3. ASSUME ~Failing, writeQueue # <<>>
      PROVE  /\ Head(writeQueue) \in Seq(Byte) /\ Tail(writeQueue) \in Seq(Seq(Byte))
             /\ \E b \in Seq(Byte), t \in Seq(Byte) :
                   /\ b = buffer /\ t = FlattenSeq(Tail(writeQueue))
                   /\ rest = Cat(Cat(Head(writeQueue), t), b)
  <2>1. Head(writeQueue) \in Seq(Byte) /\ Tail(writeQueue) \in Seq(Seq(Byte))
    BY <1>0, <1>3, HeadTailProperties
  <2>2. FlattenSeq(writeQueue) = Head(writeQueue) \o FlattenSeq(Tail(writeQueue))
    BY <1>0, <1>3, FlattenHead
  <2>3. FlattenSeq(Tail(writeQueue)) \in Seq(Byte)
    BY <2>1, FlattenType
  <2>4. rest = Cat(Cat(Head(writeQueue), FlattenSeq(Tail(writeQueue))), buffer)
    BY <1>3, <2>2 DEF Cat
  <2>. QED
    BY <1>0, <2>1, <2>3, <2>4
<1>4. CASE DropBuffer /\ ~Failing
  <2>1. writeQueue # <<>> /\ Head(writeQueue) = <<>> /\ writeQueue' = Tail(writeQueue)
        /\ wire' = wire
    BY <1>4 DEF DropBuffer, Pop
  <2>2. PICK b \in Seq(Byte), t \in Seq(Byte) :
            b = buffer /\ t = FlattenSeq(Tail(writeQueue)) /\ rest = Cat(Cat(<<>>, t), b)
    BY <1>3, <1>4, <2>1
  <2>3. Cat(<<>>, t) = t
    BY ConcatEmptySeq DEF Cat
  <2>4. rest = FlattenSeq(writeQueue') \o buffer'
    BY <2>1, <2>2, <2>3 DEF Cat
  <2>. QED
    BY <1>0, <2>1, <2>4
<1>5. CASE WritePart
  <2>1. writeQueue # <<>> /\ ~Failing
    BY <1>5 DEF WritePart
  <2>2. PICK h \in Seq(Byte), b \in Seq(Byte), t \in Seq(Byte) :
            /\ h = Head(writeQueue) /\ b = buffer /\ t = FlattenSeq(Tail(writeQueue))
            /\ rest = Cat(Cat(h, t), b)
    BY <1>3, <2>1
  <2>3. room \in 1..(Len(h) - 1) /\ Len(h) \in Nat
    BY <1>5, <2>2 DEF WritePart
  <2>4. PICK x \in Seq(Byte), y \in Seq(Byte) :
            x = SubSeq(h, 1, room) /\ y = SubSeq(h, room + 1, Len(h)) /\ x \o y = h
    <3>1. room \in 0..Len(h)
      BY <2>3
    <3>. QED
      BY <3>1, SplitSeq
  <2>6. /\ writeQueue' \in Seq(Seq(Byte)) /\ writeQueue' # <<>> /\ Head(writeQueue') = y
        /\ Tail(writeQueue') = Tail(writeQueue) /\ wire' = wire \o x
    <3>1. writeQueue' = [writeQueue EXCEPT ![1] = y] /\ wire' = wire \o x
      <4>1. Head(writeQueue) = writeQueue[1]
        BY <1>0, <2>1
      <4>. QED
        BY <1>5, <2>2, <2>4, <4>1 DEF WritePart
    <3>. QED
      BY <1>0, <2>1, <3>1, ReplaceHead
  <2>7. FlattenSeq(writeQueue') = y \o t
    BY <2>2, <2>6, FlattenHead
  <2>8. Cat(y, t) \in Seq(Byte) /\ Cat(Cat(y, t), b) \in Seq(Byte) /\ Cat(x, y) = h
    BY <2>4, Concat DEF Cat
  <2>9. Cat(Cat(wire, x), Cat(Cat(y, t), b)) = Cat(wire, Cat(Cat(h, t), b))
    <3>1. Cat(Cat(wire, x), Cat(Cat(y, t), b)) = Cat(wire, Cat(x, Cat(Cat(y, t), b)))
      BY <1>0, <2>8, Concat
    <3>2. Cat(x, Cat(Cat(y, t), b)) = Cat(Cat(x, Cat(y, t)), b)
      BY <2>8, Concat
    <3>3. Cat(x, Cat(y, t)) = Cat(h, t)
      BY <2>8, Concat
    <3>. QED
      BY <3>1, <3>2, <3>3
  <2>10. /\ wire' \o Cat(Cat(y, t), b) = wire \o rest
         /\ Cat(Cat(y, t), b) = FlattenSeq(writeQueue') \o buffer'
    <3>1. wire' = Cat(wire, x) /\ FlattenSeq(writeQueue') = Cat(y, t) /\ buffer' = b
      BY <2>2, <2>6, <2>7 DEF Cat
    <3>2. Cat(wire', Cat(Cat(y, t), b)) = Cat(wire, rest)
      BY <2>2, <2>9, <3>1
    <3>3. Cat(Cat(y, t), b) = Cat(FlattenSeq(writeQueue'), buffer')
      BY <3>1
    <3>. QED
      BY <3>2, <3>3 DEF Cat
  <2>. QED
    BY <2>8, <2>10
<1>6. CASE WriteAll
  <2>1. writeQueue # <<>> /\ ~Failing
    BY <1>6 DEF WriteAll, WritesAll
  <2>2. PICK h \in Seq(Byte), b \in Seq(Byte), t \in Seq(Byte) :
            /\ h = Head(writeQueue) /\ b = buffer /\ t = FlattenSeq(Tail(writeQueue))
            /\ rest = Cat(Cat(h, t), b)
    BY <1>3, <2>1
  <2>3. wire' = wire \o h /\ writeQueue' = Tail(writeQueue)
    BY <1>6, <2>2 DEF WriteAll, Pop
  <2>4. Cat(t, b) \in Seq(Byte) /\ Cat(Cat(wire, h), Cat(t, b)) = Cat(wire, Cat(Cat(h, t), b))
    <3>1. Cat(t, b) \in Seq(Byte) /\ Cat(Cat(h, t), b) = Cat(h, Cat(t, b))
      BY Concat
    <3>2. Cat(Cat(wire, h), Cat(t, b)) = Cat(wire, Cat(h, Cat(t, b)))
      BY <1>0, <3>1, Concat
    <3>. QED
      BY <3>1, <3>2
  <2>5. Cat(wire', Cat(t, b)) = Cat(wire, rest) /\ Cat(t, b) = Cat(FlattenSeq(writeQueue'), buffer')
    <3>1. wire' = Cat(wire, h) /\ FlattenSeq(writeQueue') = t /\ buffer' = b
      BY <2>2, <2>3 DEF Cat
    <3>. QED
      BY <2>2, <2>4, <3>1
  <2>6. wire' \o Cat(t, b) = wire \o rest /\ Cat(t, b) = FlattenSeq(writeQueue') \o buffer'
    BY <2>5 DEF Cat
  <2>. QED
    BY <2>4, <2>6
<1>. QED
  BY <1>1, <1>2, <1>4, <1>5, <1>6 DEF HandleQueue

LEMMA DequeueKeepsStream ==
    ASSUME QueueTypeOK, QueueIsSound, BytesTypeOK, Dequeue,
           NEW k \in 0..Len(issued), NEW rest \in Seq(Byte), IsStream(k, rest)
    PROVE  StreamIsSound'
<1>0. /\ writeQueue \in Seq(Seq(Byte)) /\ buffer \in Seq(Byte) /\ wire \in Seq(Byte)
      /\ issued \in Seq(Packet) /\ Len(issued) \in Nat
  BY DEF BytesTypeOK, QueueTypeOK
<1>1. UNCHANGED <<issued, wire, shut, broken>>
  BY DEF Dequeue, kernelVars
<1>2. CASE Q!ContinueDequeue /\ UNCHANGED <<bufferVars, freed>>
  <2>1. IsStream(k, rest)'
    BY <1>1, <1>2 DEF IsStream, Sent, Failing, bufferVars
  <2>. QED
    BY <1>1, <2>1 DEF StreamIsSound
<1>3. CASE Q!ReturnElement /\ Pack(tail) /\ freed' = freed \cup {tail}
  <2>1. tail # Dummy /\ tail \in Packet
    BY <1>3 DEF Q!ReturnElement, Q!AtElement, QueueIsSound, IsQueue, QueueTypeOK, Node
  <2>2. k < Len(issued) /\ issued[k + 1] = tail
    BY <2>1, NextIsFirst DEF IsStream
  <2>3. PICK c \in Seq(Byte) : c = Bytes(tail)
    BY <2>1, PacketBytes
  <2>4. PICK more \in Seq(Byte) : more = rest \o c
    BY ConcatProperties
  <2>5. k + 1 \in 0..Len(issued)
    BY <1>0, <2>2
  <2>6. freed' = {issued'[i] : i \in 1..(k + 1)}
    BY <1>1, <1>3, <2>2 DEF IsStream
  <2>7. wire \o more = (wire \o rest) \o c
    <3>1. Cat(wire, Cat(rest, c)) = Cat(Cat(wire, rest), c)
      BY <1>0, Concat
    <3>. QED
      BY <2>4, <3>1 DEF Cat
  <2>8. wire' \o more = Sent(k + 1)'
    <3>0. k \in 0..(Len(issued) - 1)
      BY <1>0, <2>2
    <3>1. Sent(k + 1) = Sent(k) \o c
      <4>1. Sent(k + 1) = Sent(k) \o Bytes(issued[k + 1])
        BY <1>0, <3>0, SentNext
      <4>. QED
        BY <2>2, <2>3, <4>1, Zenon
    <3>2. wire \o rest = Sent(k)
      BY DEF IsStream
    <3>. QED
      BY <1>1, <2>7, <3>1, <3>2 DEF Sent
  <2>9. Failing' \/ more = FlattenSeq(writeQueue') \o buffer'
    <3>1. FlattenSeq(writeQueue') \o buffer' = (FlattenSeq(writeQueue) \o buffer) \o c
      BY <1>3, <2>1, <2>3, PackKeepsBytes
    <3>2. Failing \/ rest = FlattenSeq(writeQueue) \o buffer
      BY DEF IsStream
    <3>. QED
      BY <1>1, <2>4, <3>1, <3>2 DEF Failing
  <2>10. IsStream(k + 1, more)'
    BY <2>6, <2>8, <2>9 DEF IsStream
  <2>. QED
    BY <1>1, <2>5, <2>10 DEF StreamIsSound
<1>4. CASE /\ writeQueue' = IF buffer = <<>> THEN writeQueue ELSE Append(writeQueue, buffer)
           /\ buffer' = <<>> /\ UNCHANGED freed
  <2>1. PICK w \in Seq(Byte) : w = FlattenSeq(writeQueue)
    BY <1>0, FlattenType
  <2>2. FlattenSeq(writeQueue') = w \o buffer
    <3>1. CASE buffer = <<>>
      BY <1>4, <2>1, <3>1, ConcatEmptySeq
    <3>2. CASE buffer # <<>>
      BY <1>0, <1>4, <2>1, <3>2, FlattenAppend
    <3>. QED
      BY <3>1, <3>2
  <2>3. w \o buffer \in Seq(Byte)
    BY <1>0, ConcatProperties
  <2>4. FlattenSeq(writeQueue') \o buffer' = w \o buffer
    BY <1>4, <2>2, <2>3, ConcatEmptySeq
  <2>5. IsStream(k, rest)'
    BY <1>1, <1>4, <2>1, <2>4 DEF IsStream, Sent, Failing
  <2>. QED
    BY <1>1, <2>5 DEF StreamIsSound
<1>. QED
  BY <1>2, <1>3, <1>4 DEF Dequeue

LEMMA StreamKept ==
    ASSUME QueueTypeOK, QueueIsSound, BytesTypeOK, StreamIsSound, [Next]_vars
    PROVE  StreamIsSound'
<1>. PICK k \in 0..Len(issued), rest \in Seq(Byte) : IsStream(k, rest)
  BY DEF StreamIsSound
<1>1. CASE Dequeue
  BY <1>1, DequeueKeepsStream
<1>2. CASE HandleQueueLoop \/ HandleQueueOnce
  <2>1. HandleQueue /\ UNCHANGED <<issued, freed, buffer, shut, broken>>
    BY <1>2 DEF HandleQueueLoop, HandleQueueOnce, historyVars
  <2>2. PICK left \in Seq(Byte) :
            /\ wire' \o left = wire \o rest
            /\ Failing' \/ left = FlattenSeq(writeQueue') \o buffer'
    BY <2>1, HandleQueueKeepsBytes DEF IsStream
  <2>3. IsStream(k, left)'
    BY <2>1, <2>2 DEF IsStream, Sent
  <2>. QED
    BY <2>1, <2>3 DEF StreamIsSound
<1>3. ASSUME NEW t \in Thread, Enqueue(t)
      PROVE  StreamIsSound'
  <2>1. sending[t] \in Packet /\ issued' = Append(issued, sending[t])
        /\ UNCHANGED <<freed, wire, writeQueue, buffer, shut, broken>>
    BY <1>3, NonePacket DEF Enqueue, QueueTypeOK, bufferVars, kernelVars
  <2>2. /\ issued \in Seq(Packet) /\ Len(issued) \in Nat /\ Len(issued') = Len(issued) + 1
        /\ \A i \in 1..Len(issued) : issued'[i] = issued[i]
    BY <2>1 DEF QueueTypeOK
  <2>3. k \in 0..Len(issued') /\ freed' = {issued'[i] : i \in 1..k}
    BY <2>1, <2>2 DEF IsStream
  <2>4. SubSeq(issued', 1, k) = SubSeq(issued, 1, k)
    <3>1. SubSeq(issued', 1, k) = [i \in 1..k |-> issued'[i]]
      BY <2>1, <2>2
    <3>2. SubSeq(issued, 1, k) = [i \in 1..k |-> issued[i]]
      BY <2>2
    <3>3. \A i \in 1..k : issued'[i] = issued[i]
      BY <2>2
    <3>. QED
      BY <3>1, <3>2, <3>3
  <2>5. IsStream(k, rest)'
    BY <2>1, <2>3, <2>4 DEF IsStream, Sent, Failing
  <2>. QED
    BY <2>3, <2>5 DEF StreamIsSound
<1>4. CASE UNCHANGED <<issued, freed, wire, writeQueue, buffer>> /\ (Failing => Failing')
  <2>1. IsStream(k, rest)'
    BY <1>4 DEF IsStream, Sent
  <2>. QED
    BY <1>4, <2>1 DEF StreamIsSound
<1>. USE DEF historyVars, bufferVars, kernelVars, Failing
<1>5. CASE AcceptorStep \/ TimerExpires \/ BaseUpdate \/ WriteReady
  BY <1>4, <1>5
     DEF AcceptorStep, TimerExpires, StartQuery, StartBanned, StartMark, StartRead,
         StartChallenge, AddSocket, AddNewSockets, StartUpdate, BaseUpdate, WriteReady
<1>6. CASE CallbackStep \/ ReadStep
  BY <1>4, <1>6
     DEF CallbackStep, NothingReady, AddressAllowed, Refuse, DelayedCloseSocket, AcceptAccount,
         ReadStep, ReadFails, ReadAuthSession, ReadPacket, LockSession, UnlockSession, AsyncRead
<1>7. ASSUME NEW t \in Thread, EndEnqueue(t) \/ Shutdown(t) \/ OnClose(t)
      PROVE  StreamIsSound'
  BY <1>4, <1>7 DEF EndEnqueue, Shutdown, OnClose
<1>8. ASSUME NEW t \in Sender, KickPlayer(t) \/ \E p \in Outgoing[t] : Send(t, p)
      PROVE  StreamIsSound'
  BY <1>4, <1>8 DEF KickPlayer, Send
<1>9. CASE EndSession \/ PeerReads \/ PeerBreaks \/ UNCHANGED vars
  BY <1>4, <1>9 DEF EndSession, PeerReads, PeerBreaks, vars
<1>. QED
  BY <1>1, <1>2, <1>3, <1>5, <1>6, <1>7, <1>8, <1>9 DEF Next, UpdateStep, CallStep

LEMMA StreamStart == Init => StreamIsSound
<1>. SUFFICES ASSUME Init PROVE StreamIsSound
  OBVIOUS
<1>1. issued = <<>> /\ freed = {} /\ wire = <<>> /\ writeQueue = <<>> /\ buffer = <<>>
  BY DEF Init
<1>2. Sent(0) = <<>>
  <2>1. AllBytes(<<>>) = <<>>
    BY FlattenEmpty DEF AllBytes
  <2>2. SubSeq(issued, 1, 0) = <<>>
    BY <1>1
  <2>. QED
    BY <2>1, <2>2 DEF Sent
<1>3. FlattenSeq(writeQueue) \o buffer = <<>>
  BY <1>1, FlattenEmpty
<1>4. IsStream(0, <<>>)
  BY <1>1, <1>2, <1>3 DEF IsStream
<1>5. 0 \in 0..Len(issued) /\ <<>> \in Seq(Byte)
  BY <1>1
<1>. QED
  BY <1>4, <1>5 DEF StreamIsSound

(* What the first packets are made of begins what all are made of. *)
LEMMA SentIsPrefix ==
    ASSUME issued \in Seq(Packet)
    PROVE  \A k \in 0..Len(issued) : \E more \in Seq(Byte) : Sent(k) \o more = AllBytes(issued)
<1>. DEFINE Begins(k) == \E more \in Seq(Byte) : Sent(k) \o more = AllBytes(issued)
<1>1. PICK T : T = {j \in Nat : j <= Len(issued) => Begins(Len(issued) - j)}
  OBVIOUS
<1>0. Len(issued) \in Nat /\ Len(issued) \in 0..Len(issued)
  BY LenProperties
<1>2. 0 \in T
  <2>1. SubSeq(issued, 1, Len(issued)) = issued
    BY SubSeqFull
  <2>2. Sent(Len(issued)) = AllBytes(issued) /\ Sent(Len(issued)) \in Seq(Byte)
    BY <1>0, <2>1, SentIsTyped DEF Sent
  <2>3. Begins(Len(issued))
    <3>1. Sent(Len(issued)) \o <<>> = Sent(Len(issued)) /\ <<>> \in Seq(Byte)
      BY <2>2, ConcatEmptySeq
    <3>. QED
      BY <2>2, <3>1
  <2>4. Len(issued) - 0 = Len(issued)
    BY <1>0
  <2>. QED
    BY <1>1, <2>3, <2>4
<1>3. ASSUME NEW j \in Nat, j \in T PROVE j + 1 \in T
  <2>. SUFFICES ASSUME j + 1 <= Len(issued) PROVE Begins(Len(issued) - (j + 1))
    BY <1>1
  <2>0. /\ Len(issued) - (j + 1) \in 0..(Len(issued) - 1)
        /\ (Len(issued) - (j + 1)) + 1 = Len(issued) - j
    BY <1>0
  <2>1. PICK k \in 0..(Len(issued) - 1) : k = Len(issued) - (j + 1) /\ k + 1 = Len(issued) - j
    BY <2>0
  <2>2. PICK more \in Seq(Byte) : Sent(k + 1) \o more = AllBytes(issued)
    BY <1>1, <1>3, <2>1
  <2>3. PICK c \in Seq(Byte) : c = Bytes(issued[k + 1])
    BY PacketBytes
  <2>4. PICK s \in Seq(Byte) : s = Sent(k)
    BY SentIsTyped
  <2>5. Sent(k + 1) = s \o c
    BY <2>3, <2>4, SentNext
  <2>6. c \o more \in Seq(Byte) /\ s \o (c \o more) = AllBytes(issued)
    <3>1. (s \o c) \o more = s \o (c \o more) /\ c \o more \in Seq(Byte)
      BY ConcatAssociative, ConcatProperties
    <3>. QED
      BY <2>2, <2>5, <3>1
  <2>. QED
    BY <2>1, <2>4, <2>6
<1>4. \A j \in Nat : j \in T
  BY <1>2, <1>3, Induction
<1>5. ASSUME NEW k \in 0..Len(issued) PROVE Begins(k)
  <2>1. PICK j \in Nat : j = Len(issued) - k /\ j <= Len(issued) /\ k = Len(issued) - j
    BY <1>0
  <2>. QED
    BY <1>1, <1>4, <2>1
<1>. QED
  BY <1>5

LEMMA StreamIsPrefix == QueueTypeOK /\ BytesTypeOK /\ StreamIsSound => WireIsPrefix
<1>. SUFFICES ASSUME QueueTypeOK, BytesTypeOK, StreamIsSound PROVE WireIsPrefix
  OBVIOUS
<1>0. wire \in Seq(Byte) /\ issued \in Seq(Packet)
  BY DEF BytesTypeOK, QueueTypeOK
<1>1. PICK k \in 0..Len(issued), rest \in Seq(Byte) : wire \o rest = Sent(k)
  BY DEF StreamIsSound, IsStream
<1>2. PICK more \in Seq(Byte) : Sent(k) \o more = AllBytes(issued)
  BY <1>0, SentIsPrefix
<1>3. PICK all \in Seq(Byte) : all = rest \o more
  BY ConcatProperties
<1>4. wire \o all = AllBytes(issued)
  <2>1. Cat(wire, Cat(rest, more)) = Cat(Cat(wire, rest), more)
    BY <1>0, Concat
  <2>. QED
    BY <1>1, <1>2, <1>3, <2>1 DEF Cat
<1>5. IsPrefix(wire, wire \o all)
  BY <1>0, PrefixConcat
<1>. QED
  BY <1>4, <1>5 DEF WireIsPrefix

(* The client receives the packets whole and in the order in which they     *)
(* entered the queue: SendPacket and Update of WorldSocket.cpp and the       *)
(* writing of Socket.h, however packets are packed and written in parts.     *)
THEOREM ClientReceivesPrefix == Spec => []WireIsPrefix
<1>1. QueueTypeOK /\ BytesTypeOK /\ StreamIsSound => WireIsPrefix
  BY StreamIsPrefix
<1>2. QueueInv => QueueTypeOK /\ QueueIsSound
  BY DEF QueueInv
<1>. QED
  BY FlagsStart, FlagsKept, QueueStart, QueueKept, BytesStart, BytesKept, StreamStart, StreamKept,
     <1>1, <1>2, PTL DEF Spec

-----------------------------------------------------------------------------
(* A login that fails: what it has sent, and which thread can still close   *)
(* the socket before it is marked.                                          *)

Refused == login = "done" /\ session = "none"

(* No read is pending while the login waits for the database, or after it   *)
(* has failed: the network thread cannot see the peer leave.                *)
ReadsAreSound ==
    /\ shut => closed
    /\ \A t \in Thread : closer[t] # "out" => closed
    /\ net = "reread" => session # "none"
    /\ reading => accept # "start" /\ login \notin {"address", "account"} /\ ~Refused
    /\ Refused /\ ~closing => ~closed
    /\ login \in {"address", "account"} => ~closed
    /\ accept = "start" => ~closed

AnswersAreSound ==
    /\ closing => \A t \in Thread : sending[t] = None
    /\ accept = "done" => sending[Acceptor] = None
    /\ accept # "done" => sending[Network] = None
    /\ session = "none" => \A t \in Sender : sending[t] = None
    /\ login \in {"start", "address"} => issued = <<>> /\ \A t \in Thread : sending[t] = None
    /\ login = "challenged" =>
          /\ issued \in {<<>>, <<Challenge>>}
          /\ \A t \in Thread : sending[t] \in {Challenge, None}
    /\ login = "account" => issued = <<Challenge>> /\ \A t \in Thread : sending[t] = None
    /\ Refused => \A t \in Thread : sending[t] \in {Response, None}

LEMMA ReadsKept ==
    ASSUME FlagInv, ReadsAreSound, [Next]_vars
    PROVE  ReadsAreSound'
<1>. USE Threads
     DEF FlagInv, FlagTypeOK, StartIsSound, LoginIsSound, SessionIsSound, ReadsAreSound, Refused,
         callVars, flagVars, kernelVars, sessionVars, IsOpen
<1>1. CASE StartQuery \/ StartBanned
  BY <1>1 DEF StartQuery, StartBanned
<1>2. CASE StartMark \/ StartRead \/ StartChallenge \/ AddSocket
  BY <1>2 DEF StartMark, StartRead, StartChallenge, AddSocket
<1>3. CASE TimerExpires \/ BaseUpdate \/ Dequeue \/ WriteReady
  BY <1>3 DEF TimerExpires, AddNewSockets, StartUpdate, BaseUpdate, Dequeue, WriteReady
<1>4. CASE NothingReady \/ AddressAllowed \/ DelayedCloseSocket
  BY <1>4 DEF NothingReady, AddressAllowed, DelayedCloseSocket, Callbacks
<1>5. CASE Refuse
  BY <1>5 DEF Refuse, Callbacks
<1>6. CASE AcceptAccount
  BY <1>6 DEF AcceptAccount, Callbacks
<1>7. CASE ReadFails
  BY <1>7 DEF ReadFails, ReadEnds, CloseSocket
<1>8. CASE ReadAuthSession \/ ReadPacket
  BY <1>8 DEF ReadAuthSession, ReadPacket, ReadEnds
<1>9. CASE LockSession
  BY <1>9 DEF LockSession, CloseSocket
<1>10. CASE UnlockSession \/ AsyncRead
  BY <1>10 DEF UnlockSession, AsyncRead
<1>11. CASE HandleQueueLoop \/ HandleQueueOnce
  <2>1. UNCHANGED <<accept, closing, reading, shut, login, session>>
        /\ (net' = "reread" => net = "reread")
    BY <1>11 DEF HandleQueueLoop, HandleQueueOnce
  <2>2. \/ UNCHANGED <<closed, closer>>
        \/ closing /\ closed' = TRUE
    BY <1>11, HandleQueueFlags DEF HandleQueueLoop, HandleQueueOnce, CloseSocket
  <2>. QED
    BY <2>1, <2>2
<1>12. ASSUME NEW t \in Thread, Enqueue(t) \/ EndEnqueue(t)
       PROVE  ReadsAreSound'
  BY <1>12 DEF Enqueue, EndEnqueue
<1>13. ASSUME NEW t \in Thread, Shutdown(t)
       PROVE  ReadsAreSound'
  BY <1>13 DEF Shutdown
<1>14. ASSUME NEW t \in Thread, OnClose(t)
       PROVE  ReadsAreSound'
  BY <1>14 DEF OnClose
<1>15. ASSUME NEW t \in Sender, KickPlayer(t)
       PROVE  ReadsAreSound'
  BY <1>15 DEF KickPlayer, CloseSocket
<1>16. ASSUME NEW t \in Sender, NEW p \in Outgoing[t], Send(t, p)
       PROVE  ReadsAreSound'
  BY <1>16 DEF Send
<1>17. CASE EndSession \/ PeerReads \/ PeerBreaks
  BY <1>17 DEF EndSession, PeerReads, PeerBreaks
<1>18. CASE UNCHANGED vars
  BY <1>18 DEF vars
<1>. QED
  BY <1>1, <1>2, <1>3, <1>4, <1>5, <1>6, <1>7, <1>8, <1>9, <1>10, <1>11, <1>12, <1>13, <1>14,
     <1>15, <1>16, <1>17, <1>18
     DEF Next, AcceptorStep, UpdateStep, CallbackStep, ReadStep, CallStep

(* The peer has the challenge only if it was sent. *)
LEMMA WireIsIssued ==
    ASSUME QueueTypeOK, BytesTypeOK, StreamIsSound, wire # <<>>
    PROVE  issued # <<>>
<1>. SUFFICES ASSUME issued = <<>> PROVE wire = <<>>
  OBVIOUS
<1>0. wire \in Seq(Byte)
  BY DEF BytesTypeOK
<1>1. PICK k \in 0..Len(issued), rest \in Seq(Byte) : wire \o rest = Sent(k)
  BY DEF StreamIsSound, IsStream
<1>2. k = 0
  BY <1>1
<1>3. SubSeq(issued, 1, 0) = <<>> /\ AllBytes(<<>>) = <<>>
  BY FlattenEmpty DEF AllBytes
<1>4. wire \o rest = <<>>
  BY <1>1, <1>2, <1>3 DEF Sent
<1>5. Len(wire) + Len(rest) = 0 /\ Len(wire) \in Nat /\ Len(rest) \in Nat
  BY <1>0, <1>4, ConcatProperties, LenProperties
<1>6. Len(wire) = 0
  BY <1>5
<1>. QED
  BY <1>0, <1>6, EmptySeq

LEMMA ChallengeIsOnWire ==
    ASSUME BytesTypeOK, HasChallenge
    PROVE  \E i \in 1..Len(wire) : wire[i] = <<Challenge, Size[Challenge]>>
<1>1. wire \in Seq(Byte) /\ room \in 0..Capacity /\ Capacity \in Nat /\ Len(wire) \in Nat
  BY ConstantsAssumption DEF BytesTypeOK
<1>2. Size[Challenge] \in Nat \ {0} /\ Len(Bytes(Challenge)) = Size[Challenge]
      /\ Bytes(Challenge)[Size[Challenge]] = <<Challenge, Size[Challenge]>>
  BY Outgoings, PacketBytes DEF Bytes
<1>3. <<Challenge, Size[Challenge]>> \in ToSet(Bytes(Challenge))
  <2>1. Size[Challenge] \in DOMAIN Bytes(Challenge)
    BY <1>2 DEF Bytes
  <2>. QED
    BY <1>2, <2>1 DEF ToSet
<1>4. PICK n \in Int : n = Len(wire) + room - Capacity /\ n <= Len(wire)
  BY <1>1
<1>5. <<Challenge, Size[Challenge]>> \in ToSet(SubSeq(wire, 1, n))
  BY <1>3, <1>4 DEF HasChallenge
<1>6. n >= 1 /\ SubSeq(wire, 1, n) = [i \in 1..n |-> wire[i]]
  <2>1. CASE n >= 1
    BY <1>1, <1>4, <2>1
  <2>2. CASE ~(n >= 1)
    <3>1. SubSeq(wire, 1, n) = <<>>
      BY <1>1, <1>4, <2>2
    <3>2. ToSet(<<>>) = {}
      BY DEF ToSet
    <3>. QED
      BY <1>5, <3>1, <3>2
  <2>. QED
    BY <2>1, <2>2
<1>7. \E i \in 1..n : wire[i] = <<Challenge, Size[Challenge]>>
  BY <1>5, <1>6 DEF ToSet
<1>. QED
  BY <1>1, <1>4, <1>7

LEMMA AnswersKept ==
    ASSUME FlagInv, QueueInv, BytesTypeOK, StreamIsSound, ReadsAreSound, AnswersAreSound,
           [Next]_vars
    PROVE  AnswersAreSound'
<1>. USE Threads
     DEF QueueInv, QueueTypeOK, FlagInv, FlagTypeOK, StartIsSound, LoginIsSound, AnswersAreSound,
         Refused, callVars, flagVars, sessionVars, historyVars, SendPacket
<1>1. CASE StartQuery
  BY <1>1 DEF StartQuery
<1>2. CASE StartBanned
  BY <1>2 DEF StartBanned
<1>3. CASE StartMark
  BY <1>3 DEF StartMark, Returned
<1>4. CASE StartRead
  BY <1>4 DEF StartRead
<1>5. CASE StartChallenge
  BY <1>5 DEF StartChallenge
<1>6. CASE AddSocket
  BY <1>6 DEF AddSocket, Returned
<1>7. CASE UNCHANGED <<sending, issued, accept, login, session, closing>>
  BY <1>7
<1>8. CASE TimerExpires \/ BaseUpdate \/ Dequeue \/ WriteReady
  BY <1>7, <1>8 DEF TimerExpires, AddNewSockets, StartUpdate, BaseUpdate, Dequeue, WriteReady
<1>9. CASE AddressAllowed
  BY <1>9 DEF AddressAllowed, Callbacks
<1>10. CASE Refuse
  BY <1>10 DEF Refuse, Callbacks
<1>11. CASE DelayedCloseSocket
  BY <1>11 DEF DelayedCloseSocket, Returned
<1>12. CASE AcceptAccount
  BY <1>12 DEF AcceptAccount, Callbacks
<1>13. CASE NothingReady \/ ReadFails \/ ReadPacket \/ LockSession \/ AsyncRead
  BY <1>7, <1>13 DEF NothingReady, ReadFails, ReadPacket, LockSession, AsyncRead
<1>14. CASE ReadAuthSession
  <2>1. UNCHANGED <<sending, issued, accept, session, closing>> /\ login = "challenged"
        /\ login' \in {"challenged", "account"} /\ HasChallenge
    BY <1>14 DEF ReadAuthSession
  <2>2. issued = <<Challenge>>
    <3>1. wire # <<>>
      BY <2>1, ChallengeIsOnWire
    <3>. QED
      BY <2>1, <3>1, WireIsIssued
  <2>3. \A t \in Thread : sending[t] = None
    <3>1. Challenge \in ToSet(issued)
      BY <2>2 DEF ToSet
    <3>. QED
      BY <2>1, <3>1 DEF SendersAreSound
  <2>. QED
    BY <2>1, <2>2, <2>3
<1>15. CASE UnlockSession
  BY <1>15 DEF UnlockSession
<1>16. CASE HandleQueueLoop \/ HandleQueueOnce
  BY <1>7, <1>16 DEF HandleQueueLoop, HandleQueueOnce
<1>17. ASSUME NEW t \in Thread, Enqueue(t)
       PROVE  AnswersAreSound'
  <2>1. PICK p : p = sending[t]
    OBVIOUS
  <2>2. p # None /\ p \in Packet /\ p \notin ToSet(issued)
    BY <1>17, <2>1 DEF Enqueue, SendersAreSound
  <2>3. /\ issued' = Append(issued, p) /\ UNCHANGED <<accept, login, session, closing>>
        /\ \A u \in Thread : sending'[u] = IF u = t THEN None ELSE sending[u]
    BY <1>17, <2>1 DEF Enqueue
  <2>4. ~closing /\ login \in {"challenged", "done"}
    BY <2>1, <2>2
  <2>5. login = "challenged" => issued' = <<Challenge>>
    <3>. SUFFICES ASSUME login = "challenged" PROVE issued' = <<Challenge>>
      OBVIOUS
    <3>1. p = Challenge /\ issued \in {<<>>, <<Challenge>>}
      BY <2>1, <2>2
    <3>2. Challenge \in ToSet(<<Challenge>>)
      BY DEF ToSet
    <3>3. issued = <<>>
      BY <2>2, <3>1, <3>2
    <3>. QED
      BY <2>3, <3>1, <3>3
  <2>. QED
    BY <2>3, <2>4, <2>5
<1>18. ASSUME NEW t \in Thread, EndEnqueue(t) \/ Shutdown(t) \/ OnClose(t)
       PROVE  AnswersAreSound'
  BY <1>7, <1>18 DEF EndEnqueue, Shutdown, OnClose
<1>19. ASSUME NEW t \in Sender, KickPlayer(t)
       PROVE  AnswersAreSound'
  BY <1>7, <1>19 DEF KickPlayer
<1>20. ASSUME NEW t \in Sender, NEW p \in Outgoing[t], Send(t, p)
       PROVE  AnswersAreSound'
  <2>1. session = "live" /\ ~closing /\ UNCHANGED <<issued, accept, login, session, closing>>
    BY <1>20 DEF Send, IsOpen
  <2>2. \A u \in Thread : u # t => sending'[u] = sending[u]
    BY <1>20 DEF Send
  <2>. QED
    BY <2>1, <2>2
<1>21. CASE EndSession
  BY <1>21 DEF EndSession
<1>22. CASE PeerReads \/ PeerBreaks \/ UNCHANGED vars
  BY <1>7, <1>22 DEF PeerReads, PeerBreaks, vars
<1>. QED
  BY <1>1, <1>2, <1>3, <1>4, <1>5, <1>6, <1>8, <1>9, <1>10, <1>11, <1>12, <1>13, <1>14, <1>15,
     <1>16, <1>17, <1>18, <1>19, <1>20, <1>21, <1>22
     DEF Next, AcceptorStep, UpdateStep, CallbackStep, ReadStep, CallStep

(* No buffer is queued without a byte in it, and none is left unqueued     *)
(* outside the loop that fills it.                                         *)
LastIsFilled(queue) == queue # <<>> => queue[Len(queue)] # <<>>

BuffersAreSound ==
    /\ buffer # <<>> => net = "dequeue"
    /\ LastIsFilled(writeQueue)

LEMMA LastOfAppend ==
    ASSUME NEW B, NEW q \in Seq(Seq(B)), NEW x \in Seq(B), x # <<>>
    PROVE  LastIsFilled(Append(q, x))
<1>1. PICK r : r = Append(q, x)
  OBVIOUS
<1>2. r[Len(r)] = x
  BY <1>1
<1>. QED
  BY <1>1, <1>2 DEF LastIsFilled

LEMMA LastOfTail ==
    ASSUME NEW B, NEW q \in Seq(Seq(B)), q # <<>>, LastIsFilled(q)
    PROVE  LastIsFilled(Tail(q))
<1>1. PICK r : r = Tail(q)
  OBVIOUS
<1>2. /\ r \in Seq(Seq(B)) /\ Len(r) = Len(q) - 1 /\ Len(q) \in Nat
      /\ \A i \in 1..(Len(q) - 1) : r[i] = q[i + 1]
  BY <1>1, HeadTailProperties, LenProperties
<1>3. ASSUME r # <<>> PROVE r[Len(r)] # <<>>
  <2>1. Len(q) - 1 \in 1..(Len(q) - 1) /\ (Len(q) - 1) + 1 = Len(q)
    BY <1>2, <1>3, EmptySeq
  <2>2. r[Len(r)] = q[Len(q)]
    BY <1>2, <2>1
  <2>. QED
    BY <2>2 DEF LastIsFilled
<1>. QED
  BY <1>1, <1>3 DEF LastIsFilled

LEMMA NothingLeft ==
    ASSUME NEW B, NEW q \in Seq(Seq(B)), LastIsFilled(q), FlattenSeq(q) = <<>>
    PROVE  q = <<>>
<1>. SUFFICES ASSUME q # <<>> PROVE FALSE
  OBVIOUS
<1>1. PICK r \in Seq(Seq(B)), x \in Seq(B) : q = Append(r, x)
  BY SequenceEmptyOrAppend
<1>2. x # <<>>
  <2>1. q[Len(q)] = x
    BY <1>1
  <2>. QED
    BY <2>1 DEF LastIsFilled
<1>3. PICK f \in Seq(B) : f = FlattenSeq(r)
  BY FlattenType
<1>4. f \o x = <<>>
  BY <1>1, <1>3, FlattenAppend
<1>5. Len(f) + Len(x) = 0 /\ Len(f) \in Nat /\ Len(x) \in Nat
  BY <1>4, ConcatProperties, LenProperties
<1>6. Len(x) = 0
  BY <1>5
<1>. QED
  BY <1>2, <1>6, EmptySeq

LEMMA BuffersKept ==
    ASSUME QueueTypeOK, QueueIsSound, BytesTypeOK, BuffersAreSound, [Next]_vars
    PROVE  BuffersAreSound'
<1>0. /\ writeQueue \in Seq(Seq(Byte)) /\ buffer \in Seq(Byte) /\ Len(buffer) \in Nat
      /\ SendBufferSize \in Nat
  BY ConstantsAssumption, LenProperties DEF BytesTypeOK
<1>1. CASE Dequeue
  <2>1. net = "dequeue"
    BY <1>1 DEF Dequeue
  <2>2. CASE Q!ContinueDequeue /\ UNCHANGED <<net, bufferVars>>
    BY <2>2 DEF BuffersAreSound, bufferVars
  <2>3. CASE Q!ReturnElement /\ Pack(tail) /\ UNCHANGED net
    <3>1. tail \in Packet
      BY <2>3 DEF Q!ReturnElement, Q!AtElement, QueueIsSound, IsQueue, QueueTypeOK, Node
    <3>2. PICK c \in Seq(Byte) : c = Bytes(tail) /\ c # <<>>
      <4>1. Len(Bytes(tail)) # 0 /\ Bytes(tail) \in Seq(Byte)
        BY <3>1, PacketBytes
      <4>. QED
        BY <4>1, EmptySeq
    <3>3. Size[tail] \in Nat
      BY <3>1, PacketBytes
    <3>4. CASE Len(buffer) + Size[tail] <= SendBufferSize
      <4>1. writeQueue' = writeQueue
        <5>1. ~(Len(buffer) + Size[tail] > SendBufferSize)
          BY <1>0, <3>3, <3>4
        <5>. QED
          BY <2>3, <3>4, <5>1 DEF Pack
      <4>. QED
        BY <2>1, <2>3, <4>1 DEF BuffersAreSound
    <3>5. CASE Len(buffer) + Size[tail] > SendBufferSize /\ Size[tail] <= SendBufferSize
      <4>1. writeQueue' = Append(writeQueue, buffer)
        BY <1>0, <2>3, <3>3, <3>5 DEF Pack
      <4>2. buffer # <<>>
        <5>. SUFFICES ASSUME buffer = <<>> PROVE FALSE
          OBVIOUS
        <5>1. Len(buffer) = 0
          OBVIOUS
        <5>. QED
          BY <1>0, <3>3, <3>5, <5>1
      <4>3. LastIsFilled(writeQueue')
        BY <1>0, <4>1, <4>2, LastOfAppend
      <4>. QED
        BY <2>1, <2>3, <4>3 DEF BuffersAreSound
    <3>6. CASE Size[tail] > SendBufferSize
      <4>1. ~(Len(buffer) + Size[tail] <= SendBufferSize) /\ ~(Size[tail] <= SendBufferSize)
        BY <1>0, <3>3, <3>6
      <4>2. writeQueue' = writeQueue \o <<buffer, c>>
        BY <2>3, <3>2, <4>1 DEF Pack
      <4>3. Append(writeQueue, buffer) \in Seq(Seq(Byte))
            /\ writeQueue' = Append(Append(writeQueue, buffer), c)
        BY <1>0, <4>2
      <4>4. LastIsFilled(writeQueue')
        BY <3>2, <4>3, LastOfAppend
      <4>. QED
        BY <2>1, <2>3, <4>4 DEF BuffersAreSound
    <3>7. \/ Len(buffer) + Size[tail] <= SendBufferSize \/ Size[tail] > SendBufferSize
          \/ Len(buffer) + Size[tail] > SendBufferSize /\ Size[tail] <= SendBufferSize
      BY <1>0, <3>3
    <3>. QED
      BY <3>4, <3>5, <3>6, <3>7
  <2>4. CASE /\ writeQueue' = IF buffer = <<>> THEN writeQueue ELSE Append(writeQueue, buffer)
             /\ buffer' = <<>>
    <3>1. CASE buffer = <<>>
      BY <2>4, <3>1 DEF BuffersAreSound
    <3>2. CASE buffer # <<>>
      <4>1. LastIsFilled(writeQueue')
        BY <1>0, <2>4, <3>2, LastOfAppend
      <4>. QED
        BY <2>4, <4>1 DEF BuffersAreSound
    <3>. QED
      BY <3>1, <3>2
  <2>. QED
    BY <1>1, <2>2, <2>3, <2>4 DEF Dequeue
<1>2. CASE HandleQueueLoop \/ HandleQueueOnce
  <2>1. HandleQueue /\ net # "dequeue" /\ UNCHANGED buffer
    BY <1>2 DEF HandleQueueLoop, HandleQueueOnce
  <2>2. CASE NothingQueued \/ WouldBlock
    BY <2>1, <2>2 DEF NothingQueued, WouldBlock, BuffersAreSound
  <2>3. CASE DropBuffer \/ WriteAll
    <3>1. writeQueue # <<>> /\ writeQueue' = Tail(writeQueue)
      BY <2>3 DEF DropBuffer, WriteAll, WritesAll, Pop
    <3>2. LastIsFilled(writeQueue')
      BY <1>0, <3>1, LastOfTail DEF BuffersAreSound
    <3>. QED
      BY <2>1, <3>2 DEF BuffersAreSound
  <2>4. CASE WritePart
    <3>1. PICK h \in Seq(Byte) : h = Head(writeQueue) /\ h = writeQueue[1] /\ writeQueue # <<>>
      BY <1>0, <2>4, HeadTailProperties DEF WritePart
    <3>2. PICK y \in Seq(Byte) : y = SubSeq(h, room + 1, Len(h)) /\ y # <<>>
      <4>1. room \in 0..Len(h) /\ Len(h) - room # 0
        BY <2>4, <3>1, LenProperties DEF WritePart
      <4>2. /\ SubSeq(h, room + 1, Len(h)) \in Seq(Byte)
            /\ Len(SubSeq(h, room + 1, Len(h))) = Len(h) - room
        BY <4>1, SplitSeq
      <4>. QED
        BY <4>1, <4>2, EmptySeq
    <3>3. writeQueue' = [writeQueue EXCEPT ![1] = y]
      BY <2>4, <3>1, <3>2 DEF WritePart
    <3>4. /\ Len(writeQueue') = Len(writeQueue) /\ writeQueue'[1] = y
          /\ \A i \in 1..Len(writeQueue) : i # 1 => writeQueue'[i] = writeQueue[i]
          /\ Len(writeQueue) \in 1..Len(writeQueue)
      BY <1>0, <3>1, <3>3, EmptySeq, LenProperties, ExceptSeq
    <3>5. writeQueue'[Len(writeQueue')] # <<>>
      BY <3>1, <3>2, <3>4 DEF BuffersAreSound, LastIsFilled
    <3>. QED
      BY <2>1, <3>5 DEF BuffersAreSound, LastIsFilled
  <2>. QED
    BY <2>1, <2>2, <2>3, <2>4 DEF HandleQueue
<1>3. CASE UNCHANGED <<buffer, writeQueue>> /\ (net = "dequeue" => net' = "dequeue")
  BY <1>3 DEF BuffersAreSound
<1>4. CASE AcceptorStep \/ TimerExpires \/ BaseUpdate \/ WriteReady
  BY <1>3, <1>4
     DEF AcceptorStep, TimerExpires, StartQuery, StartBanned, StartMark, StartRead,
         StartChallenge, AddSocket, AddNewSockets, StartUpdate, BaseUpdate, WriteReady,
         bufferVars
<1>5. CASE CallbackStep \/ ReadStep
  BY <1>3, <1>5
     DEF CallbackStep, NothingReady, AddressAllowed, Refuse, DelayedCloseSocket, AcceptAccount,
         ReadStep, ReadFails, ReadAuthSession, ReadPacket, LockSession, UnlockSession, AsyncRead,
         bufferVars, Callbacks, ReadEnds
<1>6. ASSUME NEW t \in Thread, CallStep(t)
      PROVE  BuffersAreSound'
  BY <1>3, <1>6 DEF CallStep, Enqueue, EndEnqueue, Shutdown, OnClose, bufferVars
<1>7. ASSUME NEW t \in Sender, KickPlayer(t) \/ \E p \in Outgoing[t] : Send(t, p)
      PROVE  BuffersAreSound'
  BY <1>3, <1>7 DEF KickPlayer, Send, bufferVars
<1>8. CASE EndSession \/ PeerReads \/ PeerBreaks \/ UNCHANGED vars
  BY <1>3, <1>8 DEF EndSession, PeerReads, PeerBreaks, vars, bufferVars
<1>. QED
  BY <1>1, <1>2, <1>4, <1>5, <1>6, <1>7, <1>8 DEF Next, UpdateStep

-----------------------------------------------------------------------------
(* The refusal, a socket's last packet, finds the buffers empty: so nothing *)
(* closes the socket before the refusal itself is written.                  *)

Empty == writeQueue = <<>> /\ buffer = <<>>

Drained == freed = ToSet(issued) /\ \A t \in Thread : sending[t] = None

RefusalIsSound ==
    /\ login \in {"start", "address"} => Empty
    /\ login = "account" => broken \/ (freed = ToSet(issued) /\ Empty)
    /\ Refused => broken \/ Empty \/ Drained
    /\ Refused => broken \/ ToSet(issued) \ freed \subseteq {Response}
    /\ closing /\ closed /\ ~broken => Drained

(* A client that answers the challenge has been sent everything so far. *)
LEMMA ChallengedIsFlushed ==
    ASSUME QueueTypeOK, BytesTypeOK, StreamIsSound, BuffersAreSound,
           HasChallenge, issued = <<Challenge>>, ~Failing, net # "dequeue"
    PROVE  freed = ToSet(issued) /\ Empty
<1>0. /\ writeQueue \in Seq(Seq(Byte)) /\ buffer = <<>> /\ wire \in Seq(Byte)
      /\ Size[Challenge] \in Nat \ {0} /\ Len(Bytes(Challenge)) = Size[Challenge]
      /\ Bytes(Challenge) \in Seq(Byte) /\ Challenge \in Packet /\ Len(wire) \in Nat
  BY Outgoings, PacketBytes, LenProperties DEF BytesTypeOK, BuffersAreSound
<1>1. PICK k \in 0..Len(issued), rest \in Seq(Byte) : IsStream(k, rest)
  BY DEF StreamIsSound
<1>2. PICK i \in 1..Len(wire) : wire[i] = <<Challenge, Size[Challenge]>>
  BY ChallengeIsOnWire
<1>3. Len(issued) = 1 /\ issued[1] = Challenge /\ issued \in Seq(Packet)
  BY <1>0
<1>4. Sent(0) = <<>>
  <2>1. SubSeq(issued, 1, 0) = <<>> /\ AllBytes(<<>>) = <<>>
    BY FlattenEmpty DEF AllBytes
  <2>. QED
    BY <2>1 DEF Sent
<1>5. Len(rest) \in Nat /\ Len(wire \o rest) = Len(wire) + Len(rest)
      /\ \A j \in 1..Len(wire) : (wire \o rest)[j] = wire[j]
  <2>1. \A j \in 1..Len(wire) : j \in 1..(Len(wire) + Len(rest))
    BY <1>0, LenProperties
  <2>. QED
    BY <1>0, <2>1, ConcatProperties, LenProperties
<1>6. k = 1
  <2>. SUFFICES ASSUME k = 0 PROVE FALSE
    BY <1>3
  <2>1. Len(wire) + Len(rest) = 0
    BY <1>1, <1>4, <1>5 DEF IsStream
  <2>. QED
    BY <1>0, <1>2, <1>5, <2>1
<1>7. freed = ToSet(issued)
  <2>1. freed = {issued[j] : j \in 1..1} /\ DOMAIN issued = 1..1
    BY <1>1, <1>3, <1>6 DEF IsStream
  <2>. QED
    BY <2>1 DEF ToSet
<1>8. wire \o rest = Bytes(Challenge)
  <2>1. Sent(1) = Sent(0) \o Bytes(issued[1])
    <3>1. 0 \in 0..(Len(issued) - 1) /\ 0 + 1 = 1
      BY <1>3
    <3>2. Sent(0 + 1) = Sent(0) \o Bytes(issued[0 + 1])
      BY <1>3, <3>1, SentNext
    <3>. QED
      BY <3>1, <3>2
  <2>2. <<>> \o Bytes(Challenge) = Bytes(Challenge)
    BY <1>0, ConcatEmptySeq
  <2>3. Sent(1) = Bytes(Challenge)
    BY <1>3, <1>4, <2>1, <2>2, Zenon
  <2>. QED
    BY <1>1, <1>6, <2>3 DEF IsStream
<1>9. rest = <<>>
  <2>1. i \in 1..Size[Challenge] /\ Len(wire) + Len(rest) = Size[Challenge]
    <3>1. Len(wire \o rest) = Size[Challenge]
      BY <1>0, <1>8, Zenon
    <3>. QED
      BY <1>0, <1>2, <1>5, <3>1
  <2>2. Bytes(Challenge)[i] = <<Challenge, i>>
    BY <2>1 DEF Bytes
  <2>3. <<Challenge, i>> = <<Challenge, Size[Challenge]>>
    BY <1>2, <1>5, <1>8, <2>2
  <2>4. i = Size[Challenge]
    BY <2>3
  <2>5. Len(rest) = 0
    BY <1>0, <1>2, <1>5, <2>1, <2>4
  <2>. QED
    BY <2>5, EmptySeq
<1>10. FlattenSeq(writeQueue) \o <<>> = <<>>
  BY <1>0, <1>1, <1>9 DEF IsStream
<1>11. FlattenSeq(writeQueue) = <<>>
  <2>1. FlattenSeq(writeQueue) \in Seq(Byte)
    BY <1>0, FlattenType
  <2>. QED
    BY <1>10, <2>1, ConcatEmptySeq
<1>. QED
  BY <1>0, <1>7, <1>11, NothingLeft DEF Empty, BuffersAreSound

LEMMA DequeueKeepsRefusal ==
    ASSUME FlagInv, QueueInv, BytesTypeOK, StreamIsSound, AnswersAreSound, RefusalIsSound, Dequeue
    PROVE  RefusalIsSound'
<1>1. UNCHANGED <<issued, sending, login, session, closing, closed, broken>>
  BY DEF Dequeue, callVars, flagVars, kernelVars, sessionVars
<1>2. QueueTypeOK /\ QueueIsSound
  BY DEF QueueInv
<1>3. CASE UNCHANGED <<freed, bufferVars>>
  BY <1>1, <1>3 DEF RefusalIsSound, Refused, Empty, Drained, bufferVars
<1>4. CASE UNCHANGED freed /\ buffer' = <<>>
           /\ writeQueue' = IF buffer = <<>> THEN writeQueue ELSE Append(writeQueue, buffer)
  <2>1. Empty => Empty'
    BY <1>4 DEF Empty
  <2>2. Drained' = Drained
    BY <1>1, <1>4 DEF Drained
  <2>. QED
    BY <1>1, <1>4, <2>1, <2>2 DEF RefusalIsSound, Refused
<1>5. CASE Q!ReturnElement /\ freed' = freed \cup {tail}
  <2>1. tail \in ToSet(issued) \ freed
    BY <1>2, <1>5 DEF Q!ReturnElement, Q!AtElement, QueueIsSound, IsQueue
  <2>2. issued # <<>> /\ freed # ToSet(issued)
    BY <2>1 DEF ToSet
  <2>3. login \notin {"start", "address"} /\ (login = "account" => broken) /\ ~Drained
    BY <2>1, <2>2 DEF AnswersAreSound, RefusalIsSound, Drained
  <2>4. Refused /\ ~broken => Drained' /\ ToSet(issued') \ freed' \subseteq {Response}
    <3>. SUFFICES ASSUME Refused, ~broken
                  PROVE  Drained' /\ ToSet(issued') \ freed' \subseteq {Response}
      OBVIOUS
    <3>1. tail = Response /\ ToSet(issued) \ freed \subseteq {Response}
      BY <2>1 DEF RefusalIsSound
    <3>2. freed \subseteq ToSet(issued)
      BY <1>2 DEF QueueIsSound, IsQueue
    <3>3. freed' = ToSet(issued)
      BY <1>5, <2>1, <3>1, <3>2
    <3>4. \A t \in Thread : sending[t] = None
      BY <2>1, <3>1 DEF AnswersAreSound, QueueInv, SendersAreSound
    <3>. QED
      BY <1>1, <3>3, <3>4 DEF Drained
  <2>5. closing => Refused
    BY DEF FlagInv, LoginIsSound, Refused
  <2>. QED
    BY <1>1, <2>3, <2>4, <2>5 DEF RefusalIsSound, Refused
<1>. QED
  BY <1>3, <1>4, <1>5 DEF Dequeue, bufferVars

LEMMA RefusalKept ==
    ASSUME FlagInv, QueueInv, BytesTypeOK, StreamIsSound, ReadsAreSound, AnswersAreSound,
           BuffersAreSound, RefusalIsSound, [Next]_vars
    PROVE  RefusalIsSound'
<1>0. QueueTypeOK /\ issued \in Seq(Packet) /\ (closing => Refused)
  BY DEF QueueInv, QueueTypeOK, FlagInv, LoginIsSound, Refused
<1>. USE DEF callVars, flagVars, bufferVars, kernelVars, sessionVars, historyVars
<1>1. CASE Dequeue
  BY <1>1, DequeueKeepsRefusal
<1>2. CASE HandleQueueLoop \/ HandleQueueOnce
  <2>1. HandleQueue /\ UNCHANGED <<issued, freed, sending, login, session, closing, buffer, broken>>
    BY <1>2 DEF HandleQueueLoop, HandleQueueOnce
  <2>2. writeQueue = <<>> => writeQueue' = <<>> /\ closed' = closed
    BY <2>1 DEF HandleQueue, NothingQueued, DropBuffer, WouldBlock, WritePart, WriteAll, WritesAll
  <2>3. (Empty => Empty') /\ (Drained' = Drained)
    BY <2>1, <2>2 DEF Empty, Drained
  <2>4. closing' /\ closed' /\ ~broken' => Drained'
    <3>. SUFFICES ASSUME closing, ~broken, closed' PROVE Drained'
      BY <2>1
    <3>1. CASE writeQueue = <<>>
      BY <2>2, <2>3, <3>1 DEF RefusalIsSound
    <3>2. CASE writeQueue # <<>>
      BY <1>0, <2>3, <3>2 DEF RefusalIsSound, Empty
    <3>. QED
      BY <3>1, <3>2
  <2>. QED
    BY <2>1, <2>3, <2>4 DEF RefusalIsSound, Refused
<1>3. ASSUME NEW t \in Thread, Enqueue(t)
      PROVE  RefusalIsSound'
  <2>1. PICK p : p = sending[t] /\ p # None /\ p \in Packet
    BY <1>0, <1>3 DEF Enqueue, QueueTypeOK
  <2>2. /\ UNCHANGED <<freed, login, session, closing, closed, buffer, writeQueue, broken>>
        /\ ToSet(issued') = ToSet(issued) \cup {p}
    BY <1>0, <1>3, <2>1, IssuedAppend DEF Enqueue
  <2>3. ~closing /\ login \in {"challenged", "done"} /\ ~Drained /\ (Refused => p = Response)
    BY <2>1 DEF AnswersAreSound, Drained, FlagInv, FlagTypeOK
  <2>. QED
    BY <2>2, <2>3 DEF RefusalIsSound, Refused, Empty
<1>4. CASE ReadAuthSession
  <2>1. /\ UNCHANGED <<issued, freed, sending, closing, closed, broken, buffer, writeQueue, session>>
        /\ login = "challenged" /\ net = "idle" /\ HasChallenge
        /\ login' = IF IsOpen THEN "account" ELSE login
    BY <1>4 DEF ReadAuthSession, ReadEnds
  <2>2. login' = "account" => broken \/ (freed = ToSet(issued) /\ Empty)
    <3>. SUFFICES ASSUME IsOpen, ~broken PROVE freed = ToSet(issued) /\ Empty
      BY <2>1
    <3>1. ~Failing
      BY DEF ReadsAreSound, IsOpen, Failing
    <3>2. issued = <<Challenge>>
      <4>1. wire # <<>>
        BY <2>1, ChallengeIsOnWire
      <4>. QED
        BY <1>0, <2>1, <4>1, WireIsIssued DEF AnswersAreSound
    <3>. QED
      BY <1>0, <2>1, <3>1, <3>2, ChallengedIsFlushed
  <2>. QED
    BY <1>0, <2>1, <2>2 DEF RefusalIsSound, Refused, Empty, Drained
<1>5. CASE StartBanned
  <2>1. /\ UNCHANGED <<issued, freed, closing, closed, broken, buffer, writeQueue, session>>
        /\ login = "start" /\ login' = "done"
    BY <1>5 DEF StartBanned, FlagInv, StartIsSound
  <2>2. Empty /\ ToSet(issued) = {} /\ ~closing
    BY <1>0, <2>1 DEF RefusalIsSound, AnswersAreSound, ToSet, Refused
  <2>. QED
    BY <2>1, <2>2 DEF RefusalIsSound, Refused, Empty
<1>6. CASE Refuse
  <2>1. /\ UNCHANGED <<issued, freed, closing, closed, broken, buffer, writeQueue, session>>
        /\ login \in {"address", "account"} /\ login' = "done"
    BY <1>6 DEF Refuse
  <2>2. (broken \/ Empty) /\ (broken \/ ToSet(issued) \ freed = {}) /\ ~closing
    BY <1>0, <2>1 DEF RefusalIsSound, AnswersAreSound, ToSet, Refused
  <2>. QED
    BY <2>1, <2>2 DEF RefusalIsSound, Refused, Empty
<1>7. CASE StartQuery \/ StartChallenge \/ AddressAllowed \/ AcceptAccount
  <2>1. /\ UNCHANGED <<issued, freed, closing, closed, broken, buffer, writeQueue>> /\ ~Refused'
        /\ login' # "account"
        /\ login' \in {"start", "address"} => login \in {"start", "address"}
    BY <1>7 DEF StartQuery, StartChallenge, AddressAllowed, AcceptAccount, FlagInv, StartIsSound,
                Refused
  <2>2. ~closing
    <3>1. ~Refused
      BY <1>7 DEF StartQuery, StartChallenge, AddressAllowed, AcceptAccount, FlagInv,
                  StartIsSound, Refused
    <3>. QED
      BY <1>0, <3>1
  <2>. QED
    BY <2>1, <2>2 DEF RefusalIsSound, Empty
<1>8. CASE StartMark \/ DelayedCloseSocket
  <2>1. /\ UNCHANGED <<issued, freed, sending, closed, broken, buffer, writeQueue, session, login>>
        /\ Refused
    BY <1>8 DEF StartMark, DelayedCloseSocket, FlagInv, LoginIsSound, Refused
  <2>2. closing \/ ~closed
    BY <2>1 DEF ReadsAreSound
  <2>. QED
    BY <2>1, <2>2 DEF RefusalIsSound, Refused, Empty, Drained
<1>9. CASE ReadFails \/ LockSession
  <2>1. /\ UNCHANGED <<issued, freed, sending, closing, broken, buffer, writeQueue, session, login>>
        /\ ~Refused
    BY <1>9 DEF ReadFails, LockSession, ReadEnds, ReadsAreSound, FlagInv, LoginIsSound, Refused
  <2>. QED
    BY <1>0, <2>1 DEF RefusalIsSound, Refused, Empty
<1>10. ASSUME NEW t \in Sender, KickPlayer(t) \/ \E p \in Outgoing[t] : Send(t, p)
       PROVE  RefusalIsSound'
  <2>1. /\ UNCHANGED <<issued, freed, closing, broken, buffer, writeQueue, session, login>>
        /\ ~Refused
    BY <1>10 DEF KickPlayer, Send, Refused
  <2>. QED
    BY <1>0, <2>1 DEF RefusalIsSound, Refused, Empty
<1>11. CASE UnlockSession
  <2>1. /\ UNCHANGED <<issued, freed, closing, broken, buffer, writeQueue, session, login>>
        /\ ~Refused
    BY <1>11 DEF UnlockSession, FlagInv, LoginIsSound, Refused
  <2>. QED
    BY <1>0, <2>1 DEF RefusalIsSound, Refused, Empty
<1>12. CASE EndSession
  <2>1. /\ UNCHANGED <<issued, freed, sending, closing, closed, broken, buffer, writeQueue, login>>
        /\ ~Refused /\ ~Refused'
    BY <1>12 DEF EndSession, Refused
  <2>. QED
    BY <2>1 DEF RefusalIsSound, Empty, Drained
<1>13. CASE /\ UNCHANGED <<issued, freed, sending, closing, closed, buffer, writeQueue, login,
                            session>>
            /\ broken => broken'
  BY <1>13 DEF RefusalIsSound, Refused, Empty, Drained
<1>14. CASE StartRead \/ AddSocket \/ TimerExpires \/ BaseUpdate \/ WriteReady
  BY <1>13, <1>14
     DEF StartRead, AddSocket, TimerExpires, AddNewSockets, StartUpdate, BaseUpdate, WriteReady
<1>15. CASE NothingReady \/ ReadPacket \/ AsyncRead
  BY <1>13, <1>15 DEF NothingReady, ReadPacket, AsyncRead
<1>16. ASSUME NEW t \in Thread, EndEnqueue(t) \/ Shutdown(t) \/ OnClose(t)
       PROVE  RefusalIsSound'
  BY <1>13, <1>16 DEF EndEnqueue, Shutdown, OnClose
<1>17. CASE PeerReads \/ PeerBreaks \/ UNCHANGED vars
  BY <1>13, <1>17 DEF PeerReads, PeerBreaks, vars
<1>. QED
  BY <1>1, <1>2, <1>3, <1>4, <1>5, <1>6, <1>7, <1>8, <1>9, <1>10, <1>11, <1>12, <1>14, <1>15,
     <1>16, <1>17
     DEF Next, AcceptorStep, UpdateStep, CallbackStep, ReadStep, CallStep

(* Writing only adds to the wire. *)
LEMMA HandleQueueExtends ==
    ASSUME BytesTypeOK, HandleQueue
    PROVE  wire' \in Seq(Byte) /\ Len(wire) <= Len(wire')
<1>0. wire \in Seq(Byte) /\ Len(wire) \in Nat /\ wire' \in Seq(Byte)
  BY HandleQueueIsTyped, LenProperties DEF BytesTypeOK
<1>1. \A x \in Seq(Byte) : wire' = wire \o x => Len(wire) <= Len(wire')
  BY <1>0, ConcatProperties, LenProperties
<1>2. writeQueue # <<>> => Head(writeQueue) \in Seq(Byte)
  BY HeadTailProperties DEF BytesTypeOK
<1>3. CASE WritePart
  <2>1. PICK h \in Seq(Byte) : h = Head(writeQueue)
    BY <1>2, <1>3 DEF WritePart
  <2>2. room \in 0..Len(h)
    BY <1>3, <2>1, LenProperties DEF WritePart
  <2>3. SubSeq(h, 1, room) \in Seq(Byte)
    BY <2>2, SplitSeq
  <2>4. wire' = wire \o SubSeq(h, 1, room)
    BY <1>3, <2>1 DEF WritePart
  <2>. QED
    BY <1>0, <1>1, <2>3, <2>4
<1>4. CASE WriteAll
  BY <1>0, <1>1, <1>2, <1>4 DEF WriteAll, WritesAll
<1>5. CASE UNCHANGED wire
  BY <1>0, <1>5
<1>. QED
  BY <1>3, <1>4, <1>5 DEF HandleQueue, NothingQueued, DropBuffer, WouldBlock

LEMMA PrefixOfShorter ==
    ASSUME NEW B, NEW s \in Seq(B), NEW t \in Seq(B), IsPrefix(s, t), Len(t) <= Len(s)
    PROVE  s = t
<1>1. Len(s) \in Nat /\ Len(t) \in Nat /\ Len(s) = Len(t)
  BY LenProperties DEF IsPrefix
<1>2. SubSeq(s, 1, Len(s)) = s /\ SubSeq(t, 1, Len(t)) = t
  BY SubSeqFull
<1>3. SubSeq(s, 1, Len(s)) = SubSeq(t, 1, Len(s))
  BY DEF IsPrefix
<1>. QED
  BY <1>1, <1>2, <1>3, Zenon

(* When all that was issued is deleted and no buffer is left, all is written. *)
LEMMA DrainedIsFlushed ==
    /\ QueueTypeOK /\ QueueIsSound /\ BytesTypeOK /\ StreamIsSound /\ ~Failing
    /\ freed = ToSet(issued) /\ Empty
    => Flushed
<1>. SUFFICES ASSUME QueueTypeOK, QueueIsSound, BytesTypeOK, StreamIsSound, ~Failing,
                     freed = ToSet(issued), Empty
              PROVE  Flushed
  OBVIOUS
<1>0. wire \in Seq(Byte) /\ issued \in Seq(Packet) /\ Len(issued) \in Nat
  BY DEF QueueTypeOK, BytesTypeOK
<1>1. PICK k \in 0..Len(issued), rest \in Seq(Byte) : IsStream(k, rest)
  BY DEF StreamIsSound
<1>2. rest = <<>>
  BY <1>1, FlattenEmpty DEF IsStream, Empty
<1>3. k = Len(issued)
  <2>. SUFFICES ASSUME k < Len(issued) PROVE FALSE
    BY <1>0
  <2>1. PICK nodes \in SUBSET Node, pos \in [Node -> Int] : InOrder(nodes, pos)
    BY DEF QueueIsSound, IsQueue
  <2>2. k + 1 \in 1..Len(issued) /\ issued[k + 1] \in ToSet(issued)
    BY <1>0 DEF ToSet
  <2>3. PICK i \in 1..k : issued[i] = issued[k + 1]
    <3>1. freed = {issued[i] : i \in 1..k}
      BY <1>1 DEF IsStream
    <3>. QED
      BY <2>2, <3>1
  <2>. QED
    BY <1>0, <2>1, <2>2, <2>3 DEF InOrder
<1>4. wire = Sent(k)
  <2>1. wire \o <<>> = wire
    BY <1>0, ConcatEmptySeq
  <2>. QED
    BY <1>1, <1>2, <2>1 DEF IsStream
<1>5. SubSeq(issued, 1, Len(issued)) = issued
  BY <1>0, SubSeqFull
<1>. QED
  BY <1>3, <1>4, <1>5 DEF Sent, Flushed

LEMMA FlushedKept ==
    ASSUME FlagInv, QueueInv, BytesTypeOK, StreamIsSound, ReadsAreSound, AnswersAreSound,
           BuffersAreSound, RefusalIsSound, ClosedIsFlushed, [Next]_vars
    PROVE  ClosedIsFlushed'
<1>0. QueueTypeOK /\ QueueIsSound /\ issued \in Seq(Packet) /\ (closing => Refused)
  BY DEF QueueInv, QueueTypeOK, FlagInv, LoginIsSound, Refused
<1>. USE DEF callVars, flagVars, bufferVars, kernelVars, sessionVars, historyVars
<1>1. CASE HandleQueueLoop \/ HandleQueueOnce
  <2>0. /\ HandleQueue /\ net \in {"loop", "handle"}
        /\ UNCHANGED <<issued, freed, sending, closing, buffer, shut, broken>>
    BY <1>1 DEF HandleQueueLoop, HandleQueueOnce
  <2>. SUFFICES ASSUME closing, closed', ~broken PROVE Flushed'
    BY <2>0 DEF ClosedIsFlushed
  <2>1. QueueTypeOK' /\ QueueIsSound' /\ BytesTypeOK' /\ StreamIsSound'
    BY <1>0, QueueKept, BytesKept, StreamKept DEF QueueInv
  <2>2. CASE closed
    <3>1. wire = AllBytes(issued)
      BY <2>2 DEF ClosedIsFlushed, Flushed
    <3>2. IsPrefix(wire', AllBytes(issued)) /\ wire' \in Seq(Byte) /\ wire \in Seq(Byte)
          /\ Len(wire) <= Len(wire')
      <4>1. (QueueTypeOK /\ BytesTypeOK /\ StreamIsSound => WireIsPrefix)'
        BY StreamIsPrefix, PTL
      <4>. QED
        BY <2>0, <2>1, <4>1, HandleQueueExtends DEF WireIsPrefix, BytesTypeOK
    <3>3. wire' = wire
      BY <3>1, <3>2, PrefixOfShorter
    <3>. QED
      BY <2>0, <3>1, <3>3 DEF Flushed
  <2>3. CASE ~closed
    <3>1. writeQueue # <<>> /\ Len(writeQueue) = 1 /\ writeQueue' = Tail(writeQueue)
      BY <2>0, <2>3
         DEF HandleQueue, NothingQueued, DropBuffer, WouldBlock, WritePart, WriteAll, WritesAll, Pop
    <3>2. writeQueue' = <<>>
      <4>1. writeQueue \in Seq(Seq(Byte))
        BY DEF BytesTypeOK
      <4>2. Tail(writeQueue) \in Seq(Seq(Byte)) /\ Len(Tail(writeQueue)) = 0
        BY <3>1, <4>1, HeadTailProperties
      <4>. QED
        BY <3>1, <4>2, EmptySeq
    <3>3. Empty' /\ ~Failing'
      BY <2>0, <2>3, <3>2 DEF Empty, BuffersAreSound, ReadsAreSound, Failing
    <3>4. freed' = ToSet(issued')
      BY <1>0, <2>0, <3>1 DEF RefusalIsSound, Empty, Drained
    <3>5. Flushed'
      <4>1. (/\ QueueTypeOK /\ QueueIsSound /\ BytesTypeOK /\ StreamIsSound /\ ~Failing
             /\ freed = ToSet(issued) /\ Empty
             => Flushed)'
        BY DrainedIsFlushed, PTL
      <4>. QED
        BY <2>1, <3>3, <3>4, <4>1
    <3>. QED
      BY <3>5
  <2>. QED
    BY <2>2, <2>3
<1>2. CASE UNCHANGED <<issued, wire>> /\ (closing' /\ closed' /\ ~broken' => closing /\ closed /\ ~broken)
  <2>1. Flushed' = Flushed
    BY <1>2 DEF Flushed
  <2>. QED
    BY <1>2, <2>1 DEF ClosedIsFlushed
<1>3. ASSUME NEW t \in Thread, Enqueue(t)
      PROVE  ClosedIsFlushed'
  BY <1>3 DEF Enqueue, AnswersAreSound, ClosedIsFlushed
<1>4. CASE StartMark \/ DelayedCloseSocket
  <2>1. UNCHANGED <<issued, wire, closed, broken>> /\ Refused
    BY <1>4 DEF StartMark, DelayedCloseSocket, FlagInv, LoginIsSound, Refused
  <2>. QED
    BY <1>2, <2>1 DEF ReadsAreSound
<1>5. CASE ReadFails \/ LockSession
  <2>1. UNCHANGED <<issued, wire, closing, broken>> /\ ~Refused
    BY <1>5 DEF ReadFails, LockSession, ReadEnds, ReadsAreSound, FlagInv, LoginIsSound, Refused
  <2>. QED
    BY <1>0, <2>1 DEF ClosedIsFlushed
<1>6. ASSUME NEW t \in Sender, KickPlayer(t) \/ \E p \in Outgoing[t] : Send(t, p)
      PROVE  ClosedIsFlushed'
  <2>1. UNCHANGED <<closing>> /\ ~Refused
    BY <1>6 DEF KickPlayer, Send, Refused
  <2>. QED
    BY <1>0, <2>1 DEF ClosedIsFlushed
<1>7. CASE StartQuery \/ StartBanned \/ StartRead \/ StartChallenge \/ AddSocket \/ TimerExpires
           \/ BaseUpdate \/ WriteReady \/ Dequeue
  BY <1>2, <1>7
     DEF StartQuery, StartBanned, StartRead, StartChallenge, AddSocket, TimerExpires,
         AddNewSockets, StartUpdate, BaseUpdate, WriteReady, Dequeue
<1>8. CASE NothingReady \/ AddressAllowed \/ Refuse \/ AcceptAccount \/ ReadAuthSession
           \/ ReadPacket \/ UnlockSession \/ AsyncRead
  BY <1>2, <1>8
     DEF NothingReady, AddressAllowed, Refuse, AcceptAccount, ReadAuthSession, ReadPacket,
         UnlockSession, AsyncRead
<1>9. ASSUME NEW t \in Thread, EndEnqueue(t) \/ Shutdown(t) \/ OnClose(t)
      PROVE  ClosedIsFlushed'
  BY <1>2, <1>9 DEF EndEnqueue, Shutdown, OnClose
<1>10. CASE EndSession \/ PeerReads \/ PeerBreaks \/ UNCHANGED vars
  BY <1>2, <1>10 DEF EndSession, PeerReads, PeerBreaks, vars
<1>. QED
  BY <1>1, <1>3, <1>4, <1>5, <1>6, <1>7, <1>8, <1>9, <1>10
     DEF Next, AcceptorStep, UpdateStep, CallbackStep, ReadStep, CallStep

LEMMA CloseStart ==
    Init => ReadsAreSound /\ AnswersAreSound /\ BuffersAreSound /\ RefusalIsSound /\ ClosedIsFlushed
<1>. SUFFICES ASSUME Init
              PROVE  ReadsAreSound /\ AnswersAreSound /\ BuffersAreSound /\ RefusalIsSound
                     /\ ClosedIsFlushed
  OBVIOUS
<1>1. ReadsAreSound /\ AnswersAreSound
  BY Threads DEF Init, ReadsAreSound, AnswersAreSound, Refused
<1>2. BuffersAreSound /\ RefusalIsSound /\ ClosedIsFlushed
  BY DEF Init, BuffersAreSound, LastIsFilled, RefusalIsSound, Refused, Empty, ClosedIsFlushed
<1>. QED
  BY <1>1, <1>2

(* DelayedCloseSocket of Socket.h: a socket that is marked for closing is    *)
(* not closed before everything queued has been written, unless the peer     *)
(* has left; the network thread clears the queue after the last packet.      *)
THEOREM DelayedCloseFlushes == Spec => []ClosedIsFlushed
<1>1. QueueInv => QueueTypeOK /\ QueueIsSound
  BY DEF QueueInv
<1>. QED
  BY FlagsStart, FlagsKept, QueueStart, QueueKept, BytesStart, BytesKept, StreamStart, StreamKept,
     CloseStart, ReadsKept, AnswersKept, BuffersKept, RefusalKept, FlushedKept, <1>1, PTL DEF Spec
=============================================================================
