---------------------------- MODULE WorldSocket ----------------------------
(***************************************************************************)
(* One WorldSocket from the acceptor to its removal: the queue of packets, *)
(* filled by several threads and emptied by the network thread, the write  *)
(* buffers and the kernel behind them, closing at once and delayed closing, *)
(* the list of new sockets, and the pointer to the WorldSession.           *)
(*                                                                         *)
(* Network is the NetworkThread of the socket, which runs one handler of   *)
(* its io_context after the other.  A Sender uses the session between two  *)
(* barriers of the world's tick: a map's worker or the world's own thread. *)
(* A byte is a packet and a position in it.  The client answers the        *)
(* challenge when it has it, once, and sends nothing else before.          *)
(***************************************************************************)
EXTENDS Naturals, Sequences, SequencesExt

CONSTANTS
    Sender, Network, Acceptor,
    Outgoing,         \* the packets each sender has to send, objects of its own
    Challenge,        \* SMSG_AUTH_CHALLENGE
    Response,         \* SMSG_AUTH_RESPONSE with an error
    Pong,             \* SMSG_PONG; bounds the pings answered to one
    Size,             \* the bytes of each packet with its header
    SendBufferSize,   \* _sendBufferSize
    Capacity,         \* bytes the kernel takes that the peer has not read
    Dummy, None

Thread == Sender \cup {Network, Acceptor}
Packet == (UNION {Outgoing[t] : t \in Sender}) \cup {Challenge, Response, Pong}
Node == Packet \cup {Dummy}

ASSUME ConstantsAssumption ==
    /\ Network \notin Sender /\ Acceptor \notin Sender /\ Network # Acceptor
    /\ \A t, u \in Sender : t # u => Outgoing[t] \cap Outgoing[u] = {}
    /\ \A t \in Sender : {Challenge, Response, Pong} \cap Outgoing[t] = {}
    /\ Challenge # Response /\ Challenge # Pong /\ Response # Pong
    /\ Dummy \notin Packet /\ None \notin Node \cup [before: Node, node: Node]
    /\ Size \in [Packet -> Nat \ {0}]
    /\ SendBufferSize \in Nat \ {0} /\ Capacity \in Nat \ {0}

VARIABLES
    head, tail, link, linking, dequeue, \* _bufferQueue, an MPSCQueue
    sending,       \* the packet that each thread in SendPacket will enqueue
    closer,        \* where each thread is in CloseSocket
    accept,        \* where the acceptor is in OnSocketOpen
    net,           \* where the network thread is; "idle" between handlers
    place,         \* the list of the NetworkThread the socket is in
    closed, closing, writing, \* _closed, _closing, _isWritingAsync
    reading,       \* an asynchronous read is pending
    buffer,        \* the MessageBuffer of WorldSocket::Update
    writeQueue,    \* _writeQueue
    shut,          \* the kernel's socket is shut down for sending
    broken,        \* the peer is gone
    room,          \* bytes the kernel can still take
    login,         \* what the login waits for
    session,       \* the WorldSession object
    worldSession,  \* _worldSession points to it
    freed,         \* history: packets deleted
    issued,        \* history: packets in the order of their enqueueing
    wire           \* history: the bytes the kernel has taken

queueVars == <<head, tail, link, linking, dequeue>>
callVars == <<sending, closer>>
flagVars == <<closed, closing, writing, reading>>
bufferVars == <<buffer, writeQueue>>
kernelVars == <<shut, broken, room, wire>>
sessionVars == <<login, session, worldSession>>
historyVars == <<freed, issued>>
vars == <<queueVars, callVars, accept, net, place, flagVars, bufferVars,
          kernelVars, sessionVars, historyVars>>

Q == INSTANCE MPSCQueue WITH Element <- Packet, Consumer <- Network

Bytes(p) == [i \in 1..Size[p] |-> <<p, i>>]
Byte == UNION {ToSet(Bytes(p)) : p \in Packet}

(* Every variable stays within its type; a buffer within its size.         *)
TypeOK ==
    /\ head \in Node /\ tail \in Node
    /\ link \in [Node -> Node \cup {None}]
    /\ linking \in [Thread -> [before: Node, node: Node] \cup {None}]
    /\ dequeue \in {"tail", "next", "head", "dummy", "link", "last"}
    /\ sending \in [Thread -> Packet \cup {None}]
    /\ closer \in [Thread -> {"out", "shutdown", "onclose"}]
    /\ accept \in {"start", "challenge", "mark", "add", "done"}
    /\ net \in {"idle", "dequeue", "base", "loop", "handle", "callbacks", "mark",
                "session", "using", "reread"}
    /\ place \in {"none", "new", "listed", "gone"}
    /\ closed \in BOOLEAN /\ closing \in BOOLEAN
    /\ writing \in BOOLEAN /\ reading \in BOOLEAN
    /\ buffer \in Seq(Byte) /\ Len(buffer) <= SendBufferSize
    /\ writeQueue \in Seq(Seq(Byte))
    /\ shut \in BOOLEAN /\ broken \in BOOLEAN /\ room \in 0..Capacity
    /\ login \in {"start", "address", "challenged", "account", "done"}
    /\ session \in {"none", "live", "deleted"}
    /\ worldSession \in BOOLEAN
    /\ freed \subseteq Packet
    /\ issued \in Seq(Packet)
    /\ wire \in Seq(Byte)

Init ==
    /\ Q!InitMPSCQueue
    /\ sending = [t \in Thread |-> None] /\ closer = [t \in Thread |-> "out"]
    /\ accept = "start" /\ net = "idle" /\ place = "none"
    /\ closed = FALSE /\ closing = FALSE /\ writing = FALSE /\ reading = FALSE
    /\ buffer = <<>> /\ writeQueue = <<>>
    /\ shut = FALSE /\ broken = FALSE /\ room = Capacity /\ wire = <<>>
    /\ login = "start" /\ session = "none" /\ worldSession = FALSE
    /\ freed = {} /\ issued = <<>>

IsOpen == ~closed /\ ~closing

(* The thread is in neither of the functions below. *)
Returned(t) == sending[t] = None /\ linking[t] = None /\ closer[t] = "out"

-----------------------------------------------------------------------------
(* WorldSocket::SendPacket, called by any thread in a step of its own.     *)

SendPacket(t, p) ==
    sending' = IF IsOpen THEN [sending EXCEPT ![t] = p] ELSE sending

Enqueue(t) ==
    /\ sending[t] # None
    /\ Q!ExchangeHead(t, sending[t])
    /\ issued' = Append(issued, sending[t])
    /\ sending' = [sending EXCEPT ![t] = None]
    /\ UNCHANGED <<dequeue, closer, accept, net, place, flagVars, bufferVars, kernelVars,
                   sessionVars, freed>>

EndEnqueue(t) ==
    /\ dequeue # "link" \/ t # Network
    /\ Q!StoreLink(t)
    /\ UNCHANGED <<dequeue, callVars, accept, net, place, flagVars, bufferVars, kernelVars,
                   sessionVars, historyVars>>

-----------------------------------------------------------------------------
(* Socket::CloseSocket: the first to come shuts the socket down and then    *)
(* calls OnClose, which waits for _worldSessionLock.                       *)

CloseSocket(t) ==
    /\ closed' = TRUE
    /\ closer' = IF closed THEN closer ELSE [closer EXCEPT ![t] = "shutdown"]

Shutdown(t) ==
    /\ closer[t] = "shutdown"
    /\ shut' = TRUE
    /\ closer' = [closer EXCEPT ![t] = "onclose"]
    /\ UNCHANGED <<queueVars, sending, accept, net, place, flagVars, bufferVars, broken,
                   room, wire, sessionVars, historyVars>>

(* Fault variant: the socket keeps the pointer to the session. *)
OnCloseKeepsSession(t) ==
    /\ closer[t] = "onclose" /\ net # "using"
    /\ closer' = [closer EXCEPT ![t] = "out"]
    /\ UNCHANGED <<queueVars, sending, accept, net, place, flagVars, bufferVars, kernelVars,
                   sessionVars, historyVars>>

OnClose(t) ==
    /\ closer[t] = "onclose" /\ net # "using"
    /\ worldSession' = FALSE
    /\ closer' = [closer EXCEPT ![t] = "out"]
    /\ UNCHANGED <<queueVars, sending, accept, net, place, flagVars, bufferVars, kernelVars,
                   login, session, historyVars>>

-----------------------------------------------------------------------------
(* The acceptor: OnSocketOpen with WorldSocket::Start and AddSocket.       *)

(* The address must be looked up in the database. *)
StartQuery ==
    /\ accept = "start"
    /\ login' = "address"
    /\ accept' = "add"
    /\ UNCHANGED <<queueVars, callVars, net, place, flagVars, bufferVars, kernelVars,
                   session, worldSession, historyVars>>

(* The cache knows the address as banned. *)
StartBanned ==
    /\ accept = "start"
    /\ SendPacket(Acceptor, Response)
    /\ login' = "done"
    /\ accept' = "mark"
    /\ UNCHANGED <<queueVars, closer, net, place, flagVars, bufferVars, kernelVars,
                   session, worldSession, historyVars>>

StartMark ==
    /\ accept = "mark" /\ Returned(Acceptor)
    /\ closing' = TRUE
    /\ accept' = "add"
    /\ UNCHANGED <<queueVars, callVars, net, place, closed, writing, reading, bufferVars,
                   kernelVars, sessionVars, historyVars>>

StartRead ==
    /\ accept = "start"
    /\ reading' = IsOpen
    /\ accept' = "challenge"
    /\ UNCHANGED <<queueVars, callVars, net, place, closed, closing, writing, bufferVars,
                   kernelVars, sessionVars, historyVars>>

StartChallenge ==
    /\ accept = "challenge"
    /\ SendPacket(Acceptor, Challenge)
    /\ login' = "challenged"
    /\ accept' = "add"
    /\ UNCHANGED <<queueVars, closer, net, place, flagVars, bufferVars, kernelVars,
                   session, worldSession, historyVars>>

AddSocket ==
    /\ accept = "add" /\ Returned(Acceptor)
    /\ place' = "new"
    /\ accept' = "done"
    /\ UNCHANGED <<queueVars, callVars, net, flagVars, bufferVars, kernelVars, sessionVars,
                   historyVars>>

AcceptorStep == StartQuery \/ StartBanned \/ StartMark \/ StartRead \/ StartChallenge \/ AddSocket

-----------------------------------------------------------------------------
(* NetworkThread::Update, when the timer expires: AddNewSockets, then the  *)
(* Update of the socket if it is in the list.                              *)

AddNewSockets ==
    /\ net = "idle" /\ Returned(Network) /\ place = "new"
    /\ place' = IF IsOpen THEN "listed" ELSE "gone"
    /\ net' = IF IsOpen THEN "dequeue" ELSE "idle"
    /\ UNCHANGED <<queueVars, callVars, accept, flagVars, bufferVars, kernelVars,
                   sessionVars, historyVars>>

StartUpdate ==
    /\ net = "idle" /\ Returned(Network) /\ place = "listed"
    /\ net' = "dequeue"
    /\ UNCHANGED <<queueVars, callVars, accept, place, flagVars, bufferVars, kernelVars,
                   sessionVars, historyVars>>

TimerExpires == AddNewSockets \/ StartUpdate

(* WorldSocket::Update packs what it dequeues into buffers. *)

(* Fault variant: the size of the header counts one byte too few. *)
PackOffByOne(p) ==
    CASE Len(buffer) + Size[p] <= SendBufferSize + 1 ->
            buffer' = buffer \o Bytes(p) /\ UNCHANGED writeQueue
      [] OTHER ->
            buffer' = <<>> /\ writeQueue' = writeQueue \o <<buffer, Bytes(p)>>

(* Fault variant: a packet larger than the buffer overtakes what is in it. *)
PackLargeFirst(p) ==
    CASE Len(buffer) + Size[p] <= SendBufferSize ->
            buffer' = buffer \o Bytes(p) /\ UNCHANGED writeQueue
      [] Len(buffer) + Size[p] > SendBufferSize /\ Size[p] <= SendBufferSize ->
            buffer' = Bytes(p) /\ writeQueue' = Append(writeQueue, buffer)
      [] OTHER ->
            UNCHANGED buffer /\ writeQueue' = Append(writeQueue, Bytes(p))

Pack(p) ==
    CASE Len(buffer) + Size[p] <= SendBufferSize ->
            buffer' = buffer \o Bytes(p) /\ UNCHANGED writeQueue
      [] Len(buffer) + Size[p] > SendBufferSize /\ Size[p] <= SendBufferSize ->
            buffer' = Bytes(p) /\ writeQueue' = Append(writeQueue, buffer)
      [] OTHER ->
            buffer' = <<>> /\ writeQueue' = writeQueue \o <<buffer, Bytes(p)>>

Dequeue ==
    /\ net = "dequeue"
    /\ \/ Q!ContinueDequeue
          /\ UNCHANGED <<net, bufferVars, freed>>
       \/ /\ Q!ReturnElement
          /\ Pack(tail)
          /\ freed' = freed \cup {tail}
          /\ UNCHANGED net
       \/ /\ Q!ReturnNothing
          /\ writeQueue' = IF buffer = <<>> THEN writeQueue ELSE Append(writeQueue, buffer)
          /\ buffer' = <<>>
          /\ net' = "base"
          /\ UNCHANGED freed
    /\ UNCHANGED <<callVars, accept, place, flagVars, kernelVars, sessionVars, issued>>

(* Socket::Update: FALSE takes the socket out of the list. *)
BaseUpdate ==
    /\ net = "base"
    /\ \/ closed /\ place' = "gone" /\ net' = "idle"
       \/ /\ ~closed
          /\ net' = IF writing \/ (writeQueue = <<>> /\ ~closing) THEN "callbacks" ELSE "loop"
          /\ UNCHANGED place
    /\ UNCHANGED <<queueVars, callVars, accept, flagVars, bufferVars, kernelVars,
                   sessionVars, historyVars>>

-----------------------------------------------------------------------------
(* Socket::HandleQueue and AsyncProcessQueue: one write to the kernel.     *)

Failing == shut \/ broken

Pop ==
    /\ writeQueue' = Tail(writeQueue)
    /\ IF closing /\ Len(writeQueue) = 1
         THEN CloseSocket(Network)
         ELSE UNCHANGED <<closed, closer>>

NothingQueued ==
    /\ writeQueue = <<>>
    /\ UNCHANGED <<closed, closer, writing, writeQueue, room, wire>>

DropBuffer ==
    /\ writeQueue # <<>>
    /\ Head(writeQueue) = <<>> \/ Failing
    /\ Pop
    /\ UNCHANGED <<writing, room, wire>>

(* Fault variant: a kernel that takes nothing counts as an error. *)
WouldBlockDrops ==
    /\ writeQueue # <<>> /\ Head(writeQueue) # <<>> /\ ~Failing
    /\ room = 0
    /\ Pop
    /\ UNCHANGED <<writing, room, wire>>

WouldBlock ==
    /\ writeQueue # <<>> /\ Head(writeQueue) # <<>> /\ ~Failing
    /\ room = 0
    /\ writing' = TRUE
    /\ UNCHANGED <<closed, closer, writeQueue, room, wire>>

(* Fault variant: what the kernel did not take is dropped. *)
WritePartDropsRest ==
    /\ writeQueue # <<>> /\ ~Failing
    /\ room \in 1..(Len(Head(writeQueue)) - 1)
    /\ wire' = wire \o SubSeq(Head(writeQueue), 1, room)
    /\ room' = 0
    /\ Pop
    /\ UNCHANGED writing

WritePart ==
    /\ writeQueue # <<>> /\ ~Failing
    /\ room \in 1..(Len(Head(writeQueue)) - 1)
    /\ wire' = wire \o SubSeq(Head(writeQueue), 1, room)
    /\ writeQueue' = [writeQueue EXCEPT ![1] = SubSeq(@, room + 1, Len(@))]
    /\ room' = 0
    /\ writing' = TRUE
    /\ UNCHANGED <<closed, closer>>

WritesAll ==
    /\ writeQueue # <<>> /\ Head(writeQueue) # <<>> /\ ~Failing
    /\ Len(Head(writeQueue)) <= room

(* Fault variant: a delayed close is forgotten when all has been written. *)
WriteAllStaysOpen ==
    /\ WritesAll
    /\ wire' = wire \o Head(writeQueue)
    /\ room' = room - Len(Head(writeQueue))
    /\ writeQueue' = Tail(writeQueue)
    /\ UNCHANGED <<closed, closer, writing>>

WriteAll ==
    /\ WritesAll
    /\ wire' = wire \o Head(writeQueue)
    /\ room' = room - Len(Head(writeQueue))
    /\ Pop
    /\ UNCHANGED writing

HandleQueue == NothingQueued \/ DropBuffer \/ WouldBlock \/ WritePart \/ WriteAll

(* The loop of Socket::Update goes on after a whole buffer with more behind. *)
HandleQueueLoop ==
    /\ net = "loop" /\ Returned(Network)
    /\ HandleQueue
    /\ net' = IF WritesAll /\ Len(writeQueue) > 1 THEN "loop" ELSE "callbacks"
    /\ UNCHANGED <<queueVars, sending, accept, place, closing, reading, buffer, shut, broken,
                   sessionVars, historyVars>>

(* WriteHandlerWrapper, when the kernel can take bytes or has an error. *)
WriteReady ==
    /\ net = "idle" /\ Returned(Network)
    /\ writing /\ (room > 0 \/ Failing)
    /\ writing' = FALSE
    /\ net' = "handle"
    /\ UNCHANGED <<queueVars, callVars, accept, place, closed, closing, reading, bufferVars,
                   kernelVars, sessionVars, historyVars>>

HandleQueueOnce ==
    /\ net = "handle"
    /\ HandleQueue
    /\ net' = "idle"
    /\ UNCHANGED <<queueVars, sending, accept, place, closing, reading, buffer, shut, broken,
                   sessionVars, historyVars>>

-----------------------------------------------------------------------------
(* _queryProcessor.ProcessReadyCallbacks, at the end of the Update.        *)

Callbacks == net = "callbacks" /\ Returned(Network)

NothingReady ==
    /\ Callbacks
    /\ net' = "idle"
    /\ UNCHANGED <<queueVars, callVars, accept, place, flagVars, bufferVars, kernelVars,
                   sessionVars, historyVars>>

(* CheckIpCallback. *)
AddressAllowed ==
    /\ Callbacks /\ login = "address"
    /\ reading' = IsOpen
    /\ SendPacket(Network, Challenge)
    /\ login' = "challenged"
    /\ net' = "idle"
    /\ UNCHANGED <<queueVars, closer, accept, place, closed, closing, writing, bufferVars,
                   kernelVars, session, worldSession, historyVars>>

(* CheckIpCallback and HandleAuthSessionCallback answer with an error. *)
Refuse ==
    /\ Callbacks /\ login \in {"address", "account"}
    /\ SendPacket(Network, Response)
    /\ login' = "done"
    /\ net' = "mark"
    /\ UNCHANGED <<queueVars, closer, accept, place, flagVars, bufferVars, kernelVars,
                   session, worldSession, historyVars>>

DelayedCloseSocket ==
    /\ net = "mark" /\ Returned(Network)
    /\ closing' = TRUE
    /\ net' = "idle"
    /\ UNCHANGED <<queueVars, callVars, accept, place, closed, writing, reading, bufferVars,
                   kernelVars, sessionVars, historyVars>>

(* HandleAuthSessionCallback creates the session. *)
AcceptAccount ==
    /\ Callbacks /\ login = "account"
    /\ session' = "live" /\ worldSession' = TRUE
    /\ login' = "done"
    /\ net' = "reread"
    /\ UNCHANGED <<queueVars, callVars, accept, place, flagVars, bufferVars, kernelVars,
                   historyVars>>

CallbackStep ==
    NothingReady \/ AddressAllowed \/ Refuse \/ DelayedCloseSocket \/ AcceptAccount

-----------------------------------------------------------------------------
(* ReadHandlerInternal: a pending read ends with an error or with a packet. *)

ReadEnds == net = "idle" /\ Returned(Network) /\ reading

ReadFails ==
    /\ ReadEnds /\ broken
    /\ reading' = FALSE
    /\ CloseSocket(Network)
    /\ UNCHANGED <<queueVars, sending, accept, net, place, closing, writing, bufferVars,
                   kernelVars, sessionVars, historyVars>>

(* The peer has read the challenge. *)
HasChallenge ==
    ToSet(Bytes(Challenge)) \subseteq ToSet(SubSeq(wire, 1, Len(wire) + room - Capacity))

(* CMSG_AUTH_SESSION: the next read is started when the account is known. *)
ReadAuthSession ==
    /\ ReadEnds /\ login = "challenged" /\ HasChallenge
    /\ reading' = FALSE
    /\ login' = IF IsOpen THEN "account" ELSE login
    /\ UNCHANGED <<queueVars, callVars, accept, net, place, closed, closing, writing,
                   bufferVars, kernelVars, session, worldSession, historyVars>>

(* Any other packet, for which ReadDataHandler locks _worldSessionLock. *)
ReadPacket ==
    /\ ReadEnds /\ session # "none"
    /\ reading' = FALSE
    /\ net' = IF IsOpen THEN "session" ELSE "idle"
    /\ UNCHANGED <<queueVars, callVars, accept, place, closed, closing, writing, bufferVars,
                   kernelVars, sessionVars, historyVars>>

LockSession ==
    /\ net = "session"
    /\ IF worldSession
         THEN net' = "using" /\ UNCHANGED <<closed, closer>>
         ELSE net' = "idle" /\ CloseSocket(Network)
    /\ UNCHANGED <<queueVars, sending, accept, place, closing, writing, reading, bufferVars,
                   kernelVars, sessionVars, historyVars>>

(* The session was used; HandlePing goes on to answer. *)
UnlockSession ==
    /\ net = "using"
    /\ \/ UNCHANGED sending
       \/ Pong \notin ToSet(issued) /\ SendPacket(Network, Pong)
    /\ net' = "reread"
    /\ UNCHANGED <<queueVars, closer, accept, place, flagVars, bufferVars, kernelVars,
                   sessionVars, historyVars>>

AsyncRead ==
    /\ net = "reread" /\ Returned(Network)
    /\ reading' = IsOpen
    /\ net' = "idle"
    /\ UNCHANGED <<queueVars, callVars, accept, place, closed, closing, writing, bufferVars,
                   kernelVars, sessionVars, historyVars>>

ReadStep ==
    ReadFails \/ ReadAuthSession \/ ReadPacket \/ LockSession \/ UnlockSession \/ AsyncRead

-----------------------------------------------------------------------------
(* The session's side, and the peer's.                                     *)

(* WorldSession::SendPacket; a packet is sent at most once. *)
Send(t, p) ==
    /\ session = "live" /\ Returned(t)
    /\ p \notin ToSet(issued) /\ IsOpen
    /\ SendPacket(t, p)
    /\ UNCHANGED <<queueVars, closer, accept, net, place, flagVars, bufferVars, kernelVars,
                   sessionVars, historyVars>>

KickPlayer(t) ==
    /\ session = "live" /\ Returned(t) /\ ~closed
    /\ CloseSocket(t)
    /\ UNCHANGED <<queueVars, sending, accept, net, place, closing, writing, reading,
                   bufferVars, kernelVars, sessionVars, historyVars>>

(* WorldSession::Update finds the socket closed, and the world deletes the *)
(* session; the barrier of the tick is behind it.                          *)
EndSession ==
    /\ session = "live" /\ ~IsOpen
    /\ \A t \in Sender : Returned(t)
    /\ session' = "deleted"
    /\ UNCHANGED <<queueVars, callVars, accept, net, place, flagVars, bufferVars, kernelVars,
                   login, worldSession, historyVars>>

PeerReads ==
    /\ ~broken /\ room < Capacity
    /\ room' = room + 1
    /\ UNCHANGED <<queueVars, callVars, accept, net, place, flagVars, bufferVars, shut, broken,
                   wire, sessionVars, historyVars>>

PeerBreaks ==
    /\ ~broken
    /\ broken' = TRUE
    /\ UNCHANGED <<queueVars, callVars, accept, net, place, flagVars, bufferVars, shut, room,
                   wire, sessionVars, historyVars>>

-----------------------------------------------------------------------------
CallStep(t) == Enqueue(t) \/ EndEnqueue(t) \/ Shutdown(t) \/ OnClose(t)

UpdateStep == Dequeue \/ BaseUpdate \/ HandleQueueLoop

Next ==
    \/ AcceptorStep \/ TimerExpires \/ UpdateStep \/ CallbackStep \/ ReadStep
    \/ WriteReady \/ HandleQueueOnce
    \/ \E t \in Thread : CallStep(t)
    \/ \E t \in Sender : KickPlayer(t) \/ \E p \in Outgoing[t] : Send(t, p)
    \/ EndSession \/ PeerReads \/ PeerBreaks

(* Every thread goes on inside a function it is in.  io_context serves the *)
(* handlers that are ready first in, first out: neither the timer nor a    *)
(* write that is ready is passed over for ever.  The peer reads what the   *)
(* kernel holds as long as it does not break the connection.               *)
Fairness ==
    /\ \A t \in Thread : WF_vars(CallStep(t))
    /\ WF_vars(AcceptorStep) /\ WF_vars(UpdateStep) /\ WF_vars(CallbackStep)
    /\ WF_vars(LockSession \/ UnlockSession \/ AsyncRead) /\ WF_vars(HandleQueueOnce)
    /\ SF_vars(TimerExpires) /\ SF_vars(WriteReady)
    /\ WF_vars(PeerReads)

Spec == Init /\ [][Next]_vars /\ Fairness

-----------------------------------------------------------------------------
AllBytes(packets) == FlattenSeq([i \in 1..Len(packets) |-> Bytes(packets[i])])

(* No thread follows or stores a link of a deleted packet: neither end of  *)
(* the queue nor the node a sender has still to link is one (MPSCQueue.h). *)
NoFreedNode ==
    /\ {head, tail} \cap freed = {}
    /\ \A t \in Thread : linking[t] # None => linking[t].before \notin freed

(* The client receives the packets whole and in the order in which they    *)
(* entered the queue, whatever thread sent them and however they were      *)
(* packed into buffers and written in parts.                               *)
WireIsPrefix == IsPrefix(wire, AllBytes(issued))

(* The network thread uses no session that the world has deleted, though   *)
(* the session ends by a flag that is set before the pointer is cleared.   *)
SessionLives == net = "using" => session = "live"

Flushed == wire = AllBytes(issued)

(* A socket marked by DelayedCloseSocket is not closed before everything   *)
(* queued has been written, unless the peer left.                          *)
ClosedIsFlushed == closing /\ closed /\ ~broken => Flushed

(* A socket marked for closing is removed, and none is kept for ever.      *)
ClosingEnds == closing ~> place = "gone"

(* What entered the queue is written: a socket that stays open comes back  *)
(* again and again to where everything it was given is in the kernel.      *)
EverythingGoesOut == []<>(Flushed \/ closed \/ broken \/ place = "gone")
=============================================================================
