-------------------------- MODULE SyncConnections --------------------------
(***************************************************************************)
(* The synchronous half of DatabaseWorkerPool: threads that borrow a       *)
(* connection with GetFreeConnection, use it and unlock it, and the world  *)
(* thread, which also removes idle dynamic connections, keeps the first    *)
(* connection alive and opens connections on an administrator's command.   *)
(*                                                                         *)
(* Dynamic names are addresses: the name of a destroyed connection may     *)
(* come back.  _openSyncConnectMutex is held exactly while a caller spins  *)
(* (OpenDynamicSyncConnect is one step).  What a caller does with a        *)
(* connection that was destroyed, or with a container that another thread  *)
(* changes while it reads, is undefined behaviour; the model stops there.  *)
(***************************************************************************)
EXTENDS Naturals, Sequences, SequencesExt

CONSTANTS
    Caller,             \* threads that run synchronous statements
    World,              \* the world thread, one of them
    Static,             \* the connection Open() creates
    Dynamic,            \* names for the connections opened later
    MaxSyncConnections, \* MAX_SYNC_CONNECTIONS
    None

Connection == {Static} \cup Dynamic

ASSUME ConstantsAssumption ==
    /\ World \in Caller
    /\ Static \notin Dynamic
    /\ MaxSyncConnections \in Nat \ {0}
    /\ None \notin Connection \cup Caller

VARIABLES
    connections,    \* _connections[IDX_SYNCH]
    mutex,          \* holder of MySQLConnection::_mutex
    unused,         \* connections with _lastUseTime DYNAMIC_CONNECTION_TIMEOUT ago
    doomed,         \* connections that CleanupConnections has still to destroy
    cleanupMutex,   \* holder of _cleanupMutex
    pc,             \* program counter of each caller
    index,          \* index of the loop it is in
    freeConnection, \* the pointer GetFreeConnection returned
    stray,          \* callers whose connection has been destroyed
    undefined       \* what undefined behaviour was reached, if any

vars == <<connections, mutex, unused, doomed, cleanupMutex, pc, index, freeConnection,
          stray, undefined>>

Undefined == {"no", "destroyed", "torn"}

TypeOK ==
    /\ connections \in Seq(Connection)
    /\ Len(connections) <= MaxSyncConnections
    /\ IsInjective(connections)
    /\ mutex \in [Connection -> Caller \cup {None}]
    /\ unused \subseteq Connection
    /\ doomed \subseteq Connection
    /\ cleanupMutex \in Caller \cup {None}
    /\ pc \in [Caller -> {"idle", "lock", "scan", "open", "spin", "run",
                          "unlock", "ping", "cleanup"}]
    /\ index \in [Caller -> Nat]
    /\ freeConnection \in [Caller -> Connection \cup {None}]
    /\ stray \subseteq Caller
    /\ undefined \in Undefined

Init ==
    /\ connections = <<Static>>
    /\ mutex = [c \in Connection |-> None]
    /\ unused = {} /\ doomed = {}
    /\ cleanupMutex = None
    /\ pc = [t \in Caller |-> "idle"]
    /\ index = [t \in Caller |-> 0]
    /\ freeConnection = [t \in Caller |-> None]
    /\ stray = {} /\ undefined = "no"

GoTo(t, label) == pc' = [pc EXCEPT ![t] = label]

-----------------------------------------------------------------------------
(* GetFreeConnection. *)

Call(t) ==
    /\ pc[t] = "idle"
    /\ GoTo(t, "lock")
    /\ UNCHANGED <<doomed, connections, mutex, unused, cleanupMutex, index,
                   freeConnection, stray, undefined>>

LockCleanup(t) ==
    /\ pc[t] = "lock" /\ cleanupMutex = None
    /\ cleanupMutex' = t
    /\ GoTo(t, "scan")
    /\ index' = [index EXCEPT ![t] = 0]
    /\ UNCHANGED <<doomed, connections, mutex, unused, freeConnection, stray, undefined>>

(* LockIfReady succeeds; the pointer is returned and the mutex released. *)
Take(t, c) ==
    /\ mutex[c] = None
    /\ mutex' = [mutex EXCEPT ![c] = t]
    /\ freeConnection' = [freeConnection EXCEPT ![t] = c]
    /\ cleanupMutex' = None
    /\ GoTo(t, "run")
    /\ index' = [index EXCEPT ![t] = 0]
    /\ UNCHANGED <<doomed, connections, unused, stray, undefined>>

(* LockIfReady fails: go on at n. *)
Pass(t, c, n) ==
    /\ mutex[c] # None
    /\ index' = [index EXCEPT ![t] = n]
    /\ UNCHANGED <<doomed, connections, mutex, unused, cleanupMutex, freeConnection,
                   stray, undefined>>

(* "Check default connections": once through the container. *)
Scan(t) ==
    /\ pc[t] = "scan"
    /\ LET n == index[t] + 1
           c == connections[n]
       IN  \/ Take(t, c)
           \/ Pass(t, c, n) /\ GoTo(t, IF n = Len(connections) THEN "open" ELSE "scan")

(* OpenConnection appends a connection, under a name that is not in use. *)
OpenConnection(c) ==
    /\ c \in Dynamic \ ToSet(connections)
    /\ connections' = Append(connections, c)
    /\ mutex' = [mutex EXCEPT ![c] = None]
    /\ unused' = unused \ {c}

(* Fault variant: the number of connections is not limited. *)
OpenUnlimited(t) ==
    /\ pc[t] = "open"
    /\ \/ \E c \in Dynamic : OpenConnection(c)
       \/ UNCHANGED <<connections, mutex, unused>>
    /\ GoTo(t, "spin")
    /\ index' = [index EXCEPT ![t] = 0]
    /\ UNCHANGED <<doomed, cleanupMutex, freeConnection, stray, undefined>>

(* OpenDynamicSyncConnect: at the limit, or when the server refuses,       *)
(* nothing is opened.                                                      *)
OpenDynamicSyncConnect(t) ==
    /\ pc[t] = "open"
    /\ \/ Len(connections) < MaxSyncConnections /\ \E c \in Dynamic : OpenConnection(c)
       \/ UNCHANGED <<connections, mutex, unused>>
    /\ GoTo(t, "spin")
    /\ index' = [index EXCEPT ![t] = 0]
    /\ UNCHANGED <<doomed, cleanupMutex, freeConnection, stray, undefined>>

(* "Block forever until a connection is free": ++i % num_cons. *)
Spin(t) ==
    /\ pc[t] = "spin"
    /\ LET n == (index[t] + 1) % Len(connections)
           c == connections[n + 1]
       IN  \/ Take(t, c)
           \/ Pass(t, c, n) /\ UNCHANGED pc

-----------------------------------------------------------------------------
(* The callers of GetFreeConnection: Query, DirectExecute and              *)
(* DirectCommitTransaction.                                                *)

(* The statements run; a successful one is the last use of the connection. *)
Run(t) ==
    /\ pc[t] = "run" /\ t \notin stray
    /\ unused' \in {unused, unused \ {freeConnection[t]}}
    /\ GoTo(t, "unlock")
    /\ UNCHANGED <<doomed, connections, mutex, cleanupMutex, index, freeConnection, stray,
                   undefined>>

(* Fault variant: a failed statement returns without unlocking. *)
UnlockOnSuccess(t) ==
    /\ pc[t] = "unlock" /\ t \notin stray
    /\ mutex' \in {mutex, [mutex EXCEPT ![freeConnection[t]] = None]}
    /\ freeConnection' = [freeConnection EXCEPT ![t] = None]
    /\ GoTo(t, "idle")
    /\ UNCHANGED <<doomed, connections, unused, cleanupMutex, index, stray, undefined>>

Unlock(t) ==
    /\ pc[t] = "unlock" /\ t \notin stray
    /\ mutex' = [mutex EXCEPT ![freeConnection[t]] = None]
    /\ freeConnection' = [freeConnection EXCEPT ![t] = None]
    /\ GoTo(t, "idle")
    /\ UNCHANGED <<doomed, connections, unused, cleanupMutex, index, stray, undefined>>

(* The statement runs on, or unlocks, a connection that no longer exists. *)
UseDestroyed(t) ==
    /\ pc[t] \in {"run", "unlock"} /\ t \in stray
    /\ undefined' = "destroyed"
    /\ UNCHANGED <<doomed, connections, mutex, unused, cleanupMutex, pc, index,
                   freeConnection, stray>>

-----------------------------------------------------------------------------
(* The world thread between its own calls. *)

(* Time passes, also while a statement runs. *)
Age(c) ==
    /\ c \in ToSet(connections) \ unused
    /\ unused' = unused \cup {c}
    /\ UNCHANGED <<doomed, connections, mutex, cleanupMutex, pc, index, freeConnection,
                   stray, undefined>>

(* Fault variant: IsDynamic is not looked at. *)
RemoveEveryUnused ==
    /\ pc[World] = "idle" /\ cleanupMutex = None
    /\ doomed' = unused
    /\ cleanupMutex' = World
    /\ GoTo(World, "cleanup")
    /\ UNCHANGED <<connections, mutex, unused, index, freeConnection, stray, undefined>>

(* CleanupConnections: remove_if finds the connections to remove, *)
CleanupConnections ==
    /\ pc[World] = "idle" /\ cleanupMutex = None
    /\ doomed' = ToSet(connections) \cap unused \cap Dynamic
    /\ cleanupMutex' = World
    /\ GoTo(World, "cleanup")
    /\ UNCHANGED <<connections, mutex, unused, index, freeConnection, stray, undefined>>

(* erase destroys each of them with its mutex, locked or not, *)
DestroyConnection(n) ==
    /\ pc[World] = "cleanup" /\ connections[n] \in doomed
    /\ connections' = RemoveAt(connections, n)
    /\ doomed' = doomed \ {connections[n]}
    /\ mutex' = [mutex EXCEPT ![connections[n]] = None]
    /\ stray' = stray \cup {t \in Caller : freeConnection[t] = connections[n]}
    /\ UNCHANGED <<unused, cleanupMutex, pc, index, freeConnection, undefined>>

(* and the guard is released. *)
FinishErase ==
    /\ pc[World] = "cleanup" /\ doomed = {}
    /\ cleanupMutex' = None
    /\ GoTo(World, "idle")
    /\ UNCHANGED <<connections, mutex, unused, doomed, index, freeConnection, stray,
                   undefined>>

(* KeepAlive pings the first connection if nobody uses it. *)
KeepAlive ==
    /\ pc[World] = "idle" /\ cleanupMutex = None
    /\ mutex[Head(connections)] = None
    /\ mutex' = [mutex EXCEPT ![Head(connections)] = World]
    /\ freeConnection' = [freeConnection EXCEPT ![World] = Head(connections)]
    /\ cleanupMutex' = World
    /\ GoTo(World, "ping")
    /\ UNCHANGED <<doomed, connections, unused, index, stray, undefined>>

FinishPing ==
    /\ pc[World] = "ping"
    /\ mutex' = [mutex EXCEPT ![freeConnection[World]] = None]
    /\ freeConnection' = [freeConnection EXCEPT ![World] = None]
    /\ cleanupMutex' = None
    /\ GoTo(World, "idle")
    /\ UNCHANGED <<doomed, connections, unused, index, stray, undefined>>

(* The command ".db add dynamic connects" appends under                    *)
(* _openSyncConnectMutex only; a caller that scans meanwhile may see the   *)
(* container torn.                                                         *)
AddDynamicConnects ==
    /\ pc[World] = "idle"
    /\ \A t \in Caller : pc[t] # "spin"
    /\ Len(connections) < MaxSyncConnections
    /\ \E c \in Dynamic : OpenConnection(c)
    /\ undefined' \in {"no"} \cup {u \in {"torn"} : \E t \in Caller : pc[t] = "scan"}
    /\ UNCHANGED <<doomed, cleanupMutex, pc, index, freeConnection, stray>>

-----------------------------------------------------------------------------
CallerStep(t) ==
    \/ LockCleanup(t) \/ Scan(t) \/ OpenDynamicSyncConnect(t) \/ Spin(t)
    \/ Run(t) \/ Unlock(t) \/ UseDestroyed(t)
    \/ t = World /\ (FinishPing \/ FinishErase)
    \/ t = World /\ \E n \in DOMAIN connections : DestroyConnection(n)

Step ==
    \/ \E t \in Caller : Call(t) \/ CallerStep(t)
    \/ \E c \in Connection : Age(c)
    \/ CleanupConnections \/ KeepAlive \/ AddDynamicConnects

(* Nothing is known of the program after undefined behaviour. *)
Lost == undefined # "no" /\ UNCHANGED vars

Next == (undefined = "no" /\ Step) \/ Lost

(* A thread inside a call runs, and its statement ends.  The mutex is not  *)
(* fair, and nothing makes a thread call.                                  *)
Fairness ==
    \A t \in Caller : WF_vars(undefined = "no" /\ CallerStep(t))

Spec == Init /\ [][Next]_vars /\ Fairness

-----------------------------------------------------------------------------
(* Safety. *)

(* A connection is locked exactly by the thread that is using it: nobody   *)
(* shares a connection, and none stays locked when its user is done, which *)
(* is what makes the endless loop of GetFreeConnection end.                *)
LockedByItsUser ==
    /\ \A t \in Caller \ stray :
          freeConnection[t] # None => mutex[freeConnection[t]] = t
    /\ \A c \in Connection :
          mutex[c] # None => mutex[c] \notin stray /\ freeConnection[mutex[c]] = c

(* Whatever is opened and removed, the first element is the connection of  *)
(* Open(): EscapeString reads front() without any lock and relies on it.   *)
FrontIsStatic == connections # <<>> /\ Head(connections) = Static

(* A direct query "will block the calling thread until finished": the      *)
(* thread that runs one never finds its connection destroyed under it.     *)
CallFinishes == undefined # "destroyed"

-----------------------------------------------------------------------------
(* Liveness. *)

(* A caller that spins holds _cleanupMutex, and the world thread may wait  *)
(* for it; it always finds a connection in the end.                        *)
SpinEnds ==
    \A t \in Caller : pc[t] = "spin" ~> (pc[t] # "spin" \/ undefined # "no")
=============================================================================
