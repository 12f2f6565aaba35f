----------------------------- MODULE LoginQueue -----------------------------
(***************************************************************************)
(* The sessions of the world and the queue before its player limit         *)
(* (World.cpp): a new connection replaces the session of its account,      *)
(* enters the world or waits; UpdateSessions removes sessions whose socket *)
(* is closed, keeps some of them as offline for a minute, and lets the     *)
(* first in the queue in; a reload of the configuration changes the limit; *)
(* a shutdown kicks everybody.                                             *)
(*                                                                         *)
(* The network threads only append to _addSessQueue and close sockets.     *)
(* The rest is the world's thread, modelled one session of a loop at a     *)
(* time: between two of them sockets close and connections arrive.         *)
(***************************************************************************)
EXTENDS Integers, Sequences, FiniteSets, FiniteSetsExt, SequencesExt

CONSTANTS
    Account,
    Session,    \* the objects a WorldSession can be; used again when deleted
    Owner,      \* WorldSession::GetAccountId
    Privileged, \* accounts above SEC_PLAYER, or that CanSkipQueue
    Limits,     \* values of PlayerLimit; 0 is none
    Tolerance,  \* is DisconnectToleranceInterval positive?
    None

ASSUME ConstantsAssumption ==
    /\ IsFiniteSet(Account)
    /\ Owner \in [Session -> Account]
    /\ Privileged \subseteq Account
    /\ Limits \subseteq Nat
    /\ Tolerance \in BOOLEAN
    /\ None \notin Session

VARIABLES
    incoming, \* _addSessQueue
    world,    \* see TypeOK: _sessions, _offlineSessions, _queuedPlayer, ...
    limit,    \* _playerLimit
    phase,    \* where the world's thread is in UpdateSessions
    todo,     \* accounts its loop has still to visit
    stopping  \* World::IsStopped

vars == <<incoming, world, limit, phase, todo, stopping>>

(* A session: is its socket closed, is it _kicked, m_inQueue; is it waiting *)
(* for InitializeSessionCallback; m_playerLoading, for HandlePlayerLogin-   *)
(* FromDB; and has it a player?                                             *)
Fresh == [closed |-> FALSE, kicked |-> FALSE, inQueue |-> FALSE, starting |-> FALSE,
          loading |-> FALSE, reading |-> FALSE, player |-> FALSE]

Init ==
    /\ incoming = <<>>
    /\ world = [sessions |-> [a \in Account |-> None],
                offline |-> [a \in Account |-> None],
                queue |-> <<>>,
                disconnects |-> {},
                st |-> [s \in Session |-> Fresh]]
    /\ limit \in Limits
    /\ phase = "add" /\ todo = {} /\ stopping = FALSE

Listed == {a \in Account : world.sessions[a] # None}
Kept == {a \in Account : world.offline[a] # None}
Waiting == ToSet(world.queue)
Active == {world.sessions[a] : a \in Listed} \ Waiting
GetActiveSessionCount(w) ==
    Cardinality({a \in Account : w.sessions[a] # None}) - Len(w.queue)

Places(s) ==
    Cardinality({i \in DOMAIN incoming : incoming[i] = s})
    + Cardinality({a \in Account : world.sessions[a] = s})
    + Cardinality({a \in Account : world.offline[a] = s})
-----------------------------------------------------------------------------
(* The network threads, and what comes to the world's thread from outside. *)

(* WorldSocket::HandleAuthSession makes the session and calls AddSession. *)
AddSession(s) ==
    /\ Places(s) = 0 /\ phase # "stopped"
    /\ incoming' = Append(incoming, s)
    /\ UNCHANGED <<world, limit, phase, todo, stopping>>

SocketCloses(s) ==
    /\ Places(s) > 0 /\ s \notin {world.offline[a] : a \in Kept}
    /\ ~world.st[s].closed
    /\ world' = [world EXCEPT !.st[s].closed = TRUE]
    /\ UNCHANGED <<incoming, limit, phase, todo, stopping>>

(* The interval passes: HasRecentlyDisconnected would erase the entry. *)
ToleranceEnds(a) ==
    /\ a \in world.disconnects
    /\ world' = [world EXCEPT !.disconnects = @ \ {a}]
    /\ UNCHANGED <<incoming, limit, phase, todo, stopping>>

(* A reload of the configuration, between two calls of UpdateSessions. *)
SetPlayerAmountLimit(n) ==
    /\ phase = "add" /\ todo = {} /\ ~stopping
    /\ n # limit /\ limit' = n
    /\ UNCHANGED <<incoming, world, phase, todo, stopping>>
-----------------------------------------------------------------------------
(* What the world's thread does to the session s, as functions of the      *)
(* world w: each returns the world that results.                           *)

InitializeSession(w, s) == [w EXCEPT !.st[s].starting = TRUE]

Delete(w, s) == [w EXCEPT !.st[s] = Fresh]

(* The first in the queue q enters if the active sessions leave a place. *)
AcceptFirst(w, q, active) ==
    IF (limit = 0 \/ active < limit) /\ q # <<>>
    THEN InitializeSession([w EXCEPT !.queue = Tail(q)], Head(q))
    ELSE [w EXCEPT !.queue = q]

(* Fault variant: the session is noted in the place of its account. *)
NoteSession(w, s) ==
    IF Tolerance THEN [w EXCEPT !.disconnects = @ \cup {s}] ELSE w

NoteDisconnect(w, s) ==
    IF Tolerance THEN [w EXCEPT !.disconnects = @ \cup {Owner[s]}] ELSE w

(* Fault variant: a session that waits is not looked for. *)
RemoveActive(w, s) ==
    NoteDisconnect(AcceptFirst(w, w.queue, GetActiveSessionCount(w) - 1), s)

(* Fault variant: the active session that goes is still counted. *)
RemoveCounted(w, s) ==
    IF s \in ToSet(w.queue)
    THEN AcceptFirst([w EXCEPT !.st[s].inQueue = FALSE], RemoveFirst(w.queue, s),
                     GetActiveSessionCount(w))
    ELSE NoteDisconnect(AcceptFirst(w, w.queue, GetActiveSessionCount(w)), s)

(* With what both callers do when it returns false. *)
RemoveQueuedPlayer(w, s) ==
    IF s \in ToSet(w.queue)
    THEN AcceptFirst([w EXCEPT !.st[s].inQueue = FALSE], RemoveFirst(w.queue, s),
                     GetActiveSessionCount(w))
    ELSE NoteDisconnect(AcceptFirst(w, w.queue, GetActiveSessionCount(w) - 1), s)

PutOffline(w, s) ==
    LET tmp == w.offline[Owner[s]] IN
    [(IF tmp # None THEN Delete(w, tmp) ELSE w) EXCEPT !.offline[Owner[s]] = s]

(* HandleSocketClosed is true of some sessions with a player only: not on  *)
(* a taxi, in the world, not logging out.                                  *)
MayStay(w, s) ==
    w.st[s].closed /\ ~w.st[s].kicked /\ w.st[s].player /\ ~stopping

HasRecentlyDisconnected(w, a) == Tolerance /\ a \in w.disconnects

(* Fault variant: a session that must wait is put before the others. *)
ListInFront(w, s) ==
    LET listed == [w EXCEPT !.sessions[Owner[s]] = s]
        others == Cardinality({a \in Account : listed.sessions[a] # None}) - 1 IN
    IF limit > 0 /\ others >= limit /\ Owner[s] \notin Privileged
       /\ ~HasRecentlyDisconnected(w, Owner[s])
    THEN [listed EXCEPT !.queue = <<s>> \o @, !.st[s].inQueue = TRUE]
    ELSE InitializeSession(listed, s)

(* The end of AddSession_: list the session, and let it in or queue it. *)
List(w, s) ==
    LET listed == [w EXCEPT !.sessions[Owner[s]] = s]
        others == Cardinality({a \in Account : listed.sessions[a] # None}) - 1 IN
    IF /\ limit > 0 /\ others >= limit
       /\ Owner[s] \notin Privileged
       /\ ~HasRecentlyDisconnected(w, Owner[s])
    THEN [listed EXCEPT !.queue = Append(@, s), !.st[s].inQueue = TRUE]
    ELSE InitializeSession(listed, s)

(* What an old session becomes: it is kept offline if it may stay. *)
Dispose(w, s, stays) == IF stays THEN PutOffline(w, s) ELSE Delete(w, s)
-----------------------------------------------------------------------------
(* AddSession_, for the first of _addSessQueue. *)

Adding(s) ==
    /\ phase = "add" /\ incoming # <<>> /\ s = Head(incoming)
    /\ incoming' = Tail(incoming)
    /\ UNCHANGED <<limit, phase, todo, stopping>>

Old(s) == world.sessions[Owner[s]]

(* The character of the old session is being loaded. *)
RefuseSession(s) ==
    /\ Adding(s)
    /\ Old(s) # None /\ world.st[Old(s)].loading
    /\ world' = Delete(world, s)

AddFirstSession(s) ==
    /\ Adding(s) /\ Old(s) = None
    /\ world' = List(world, s)

ReplaceSession(s) ==
    /\ Adding(s)
    /\ Old(s) # None /\ ~world.st[Old(s)].loading
    /\ LET kicked == [world EXCEPT !.st[Old(s)].closed = TRUE]
           removed == RemoveQueuedPlayer(kicked, Old(s)) IN
       \E stays \in {FALSE, MayStay(kicked, Old(s))} :
           world' = List(Dispose(removed, Old(s), stays), s)

StartUpdates ==
    /\ phase = "add" /\ incoming = <<>>
    /\ phase' = "update" /\ todo' = Listed
    /\ UNCHANGED <<incoming, world, limit, stopping>>
-----------------------------------------------------------------------------
(* The loop over _sessions: WorldSession::Update of one session. *)

(* A login that is refused leaves m_playerLoading set. *)
Refused(w, s) == {[w EXCEPT !.st[s].loading = TRUE]}

ReadCharacter(w, s) == {[w EXCEPT !.st[s].loading = TRUE, !.st[s].reading = TRUE]}

(* The same character is still in the world, or another one is wanted. *)
ReturnToCharacter(w, s) ==
    LET off == w.offline[Owner[s]] IN
    IF ~w.st[off].player \/ w.st[off].kicked THEN {}
    ELSE {[w EXCEPT !.st[off].player = FALSE,
                    !.st[s].player = TRUE, !.st[s].loading = FALSE]}
         \cup ReadCharacter([w EXCEPT !.st[off].kicked = TRUE], s)

(* STATUS_AUTHED packets are dropped while m_inQueue; a client logs in when *)
(* it is told that it may, and once.                                        *)
HandlePlayerLogin(w, s) ==
    IF w.st[s].inQueue \/ w.st[s].starting \/ w.st[s].reading \/ w.st[s].player
    THEN {}
    ELSE Refused(w, s) \cup (IF w.offline[Owner[s]] = None THEN ReadCharacter(w, s)
                                                           ELSE ReturnToCharacter(w, s))

LoadCharacter(w, s) ==
    LET done == [w EXCEPT !.st[s].loading = FALSE, !.st[s].reading = FALSE] IN
    {[done EXCEPT !.st[s].player = TRUE],
     [done EXCEPT !.st[s].closed = TRUE, !.st[s].kicked = TRUE]}

ProcessQueryCallbacks(w, s) ==
    IF w.st[s].starting
    THEN {[w EXCEPT !.st[s].starting = FALSE, !.st[s].inQueue = FALSE]}
    ELSE IF w.st[s].reading THEN LoadCharacter(w, s) ELSE {}

LogoutPlayer(w, s) ==
    IF w.st[s].player /\ ~w.st[s].loading THEN {[w EXCEPT !.st[s].player = FALSE]} ELSE {}

(* The worlds after the packets, the callbacks and a logout, any of which  *)
(* there may be; what a callback finds is what its query was answered.     *)
Update(s) ==
    LET packets == {world} \cup HandlePlayerLogin(world, s)
        callbacks == packets \cup UNION {ProcessQueryCallbacks(w, s) : w \in packets}
    IN callbacks \cup UNION {LogoutPlayer(w, s) : w \in callbacks}

Unlist(w, s) == [w EXCEPT !.sessions[Owner[s]] = None]

Visit(a) ==
    /\ phase = "update" /\ a \in todo
    /\ todo' = todo \ {a}
    /\ UNCHANGED <<incoming, limit, phase, stopping>>

GoOffline(a) ==
    LET s == world.sessions[a] IN
    /\ Visit(a) /\ MayStay(world, s)
    /\ world' = PutOffline(Unlist(RemoveQueuedPlayer(world, s), s), s)

UpdateSession(a) ==
    LET s == world.sessions[a] IN
    /\ Visit(a)
    /\ \E w \in Update(s) :
           world' = IF w.st[s].closed THEN Delete(Unlist(RemoveQueuedPlayer(w, s), s), s)
                                      ELSE w

StartOffline ==
    /\ phase = "update" /\ todo = {}
    /\ phase' = "offline" /\ todo' = Kept
    /\ UNCHANGED <<incoming, world, limit, stopping>>

(* The loop over _offlineSessions; a minute may have passed or not. *)
UpdateOffline(a) ==
    LET s == world.offline[a] IN
    /\ phase = "offline" /\ a \in todo
    /\ todo' = todo \ {a}
    /\ \/ world' = [Delete(world, s) EXCEPT !.offline[a] = None]
       \/ world.st[s].player /\ ~world.st[s].kicked /\ UNCHANGED world
    /\ UNCHANGED <<incoming, limit, phase, stopping>>

EndUpdate ==
    /\ phase = "offline" /\ todo = {}
    /\ phase' = IF stopping THEN "stopped" ELSE "add"
    /\ UNCHANGED <<incoming, world, limit, todo, stopping>>

(* The world's loop has ended; UpdateSessions is called once more. *)
KickAll ==
    /\ phase = "add" /\ todo = {} /\ ~stopping
    /\ stopping' = TRUE
    /\ LET known == {world.sessions[a] : a \in Listed}
           kept == {world.offline[a] : a \in Kept}
           st == [s \in Session |->
                     [world.st[s] EXCEPT !.closed = @ \/ s \in known,
                                         !.kicked = @ \/ s \in known \cup kept]] IN
       world' = [world EXCEPT !.queue = <<>>, !.st = st]
    /\ UNCHANGED <<incoming, limit, phase, todo>>

WorldStep ==
    \/ \E s \in Session : RefuseSession(s) \/ AddFirstSession(s) \/ ReplaceSession(s)
    \/ StartUpdates \/ StartOffline \/ EndUpdate
    \/ \E a \in Account : GoOffline(a) \/ UpdateSession(a) \/ UpdateOffline(a)

Next ==
    \/ WorldStep
    \/ KickAll
    \/ \E s \in Session : AddSession(s) \/ SocketCloses(s)
    \/ \E a \in Account : ToleranceEnds(a)
    \/ \E n \in Limits : SetPlayerAmountLimit(n)

Spec == Init /\ [][Next]_vars
-----------------------------------------------------------------------------
SessionRecord ==
    [closed: BOOLEAN, kicked: BOOLEAN, inQueue: BOOLEAN, starting: BOOLEAN,
     loading: BOOLEAN, reading: BOOLEAN, player: BOOLEAN]

(* Types; whatever is in the maps is a session of that account. *)
TypeOK ==
    /\ incoming \in Seq(Session)
    /\ world \in [sessions: [Account -> Session \cup {None}],  \* _sessions
                  offline: [Account -> Session \cup {None}],   \* _offlineSessions
                  queue: Seq(Session),                         \* _queuedPlayer
                  disconnects: SUBSET Account,                 \* _disconnects
                  st: [Session -> SessionRecord]]
    /\ \A a \in Listed : Owner[world.sessions[a]] = a
    /\ \A a \in Kept : Owner[world.offline[a]] = a
    /\ limit \in Limits
    /\ phase \in {"add", "update", "offline", "stopped"}
    /\ todo \subseteq Account
    /\ stopping \in BOOLEAN

(* The raw pointers of the world are sound: a session is in one container, *)
(* in the queue only while it is the session of its account, and there     *)
(* once; so RemoveQueuedPlayer finds every session that is deleted, and    *)
(* the count it asserts to be positive counts the session it was given     *)
(* (AddSession_, RemoveQueuedPlayer, UpdateSessions).                      *)
QueueIsListed ==
    /\ \A s \in Session : Places(s) <= 1
    /\ \A s \in Waiting : world.sessions[Owner[s]] = s
    /\ Cardinality(Waiting) = Len(world.queue)
    \* nobody plays from the queue: m_inQueue holds back STATUS_AUTHED
    /\ \A s \in Waiting : world.st[s].inQueue /\ ~world.st[s].player

(* Places that are free while somebody waits for one. *)
Unused ==
    IF world.queue = <<>> THEN 0
    ELSE IF limit = 0 THEN Cardinality(Account)
    ELSE Max({0, limit - GetActiveSessionCount(world)})

(* Whatever order sessions come, go, come back and are replaced in, no     *)
(* step but a reload leaves a place unused that was not (RemoveQueuedPlayer *)
(* lets in at most one session a call, AddSession_ counts the queue too).  *)
PlacesAreUsed == [][limit' = limit => Unused' <= Unused]_vars

Entered == Active' \ Active
Exempt ==
    {s \in Entered : \/ Owner[s] \in Privileged
                     \/ Owner[s] \in world.disconnects \cup world'.disconnects}
Before(q, s, t) == \E i, j \in DOMAIN q : i < j /\ q[i] = s /\ q[j] = t

(* The queue is first come, first served: a session that plays leaves the  *)
(* queue from its front, nobody changes places in it, and while no place   *)
(* is unused a player who has to wait does not pass those who do, nor      *)
(* enters above the limit (AddSession_, AddQueuedPlayer,                   *)
(* RemoveQueuedPlayer).                                                    *)
InTurn ==
    [][ ~stopping' =>
          /\ \A s \in Waiting \cap Waiting', t \in Waiting' :
                Before(world.queue, s, t) \/ t \notin Waiting => Before(world'.queue, s, t)
          /\ \A s \in Waiting, t \in Entered :
                Before(world.queue, s, t) => s \notin Active' \cup Waiting'
          /\ limit # 0 /\ Unused = 0 =>
                 /\ Entered \subseteq Exempt \cup Waiting \/ Waiting = {}
                 /\ Entered \subseteq Exempt
                    \/ Cardinality(Active' \ Exempt) <= limit ]_vars
=============================================================================
