----------------------- MODULE SyncConnections_proofs -----------------------
(***************************************************************************)
(* Proofs about SyncConnections, for any sets of callers and connections   *)
(* and any limit.                                                          *)
(***************************************************************************)
EXTENDS SyncConnections, SequenceTheorems, TLAPS

(* Who is inside a critical section of _cleanupMutex holds it. *)
MutexIsHeld ==
    /\ \A t \in Caller : pc[t] \in {"scan", "open", "spin", "ping", "cleanup"}
                            => cleanupMutex = t
    /\ \A t \in Caller : pc[t] \in {"ping", "cleanup"} => t = World

(* The scan stays inside the container, which only grows meanwhile. *)
ScanIsInside == \A t \in Caller : pc[t] = "scan" => index[t] < Len(connections)

(* Exactly the threads between LockIfReady and Unlock have a connection,   *)
(* and only one that runs statements can have lost it.                     *)
PointersAreSound ==
    /\ \A t \in Caller : freeConnection[t] # None <=> pc[t] \in {"run", "unlock", "ping"}
    /\ \A t \in stray : pc[t] \in {"run", "unlock"}

(* A connection in use is in the container until it is destroyed. *)
UsersAreInside ==
    \A t \in Caller \ stray :
        freeConnection[t] # None => \E n \in DOMAIN connections : connections[n] = freeConnection[t]

DoomedAreDynamic == doomed \subseteq Dynamic

IInv ==
    /\ TypeOK
    /\ LockedByItsUser
    /\ FrontIsStatic
    /\ MutexIsHeld
    /\ ScanIsInside
    /\ PointersAreSound
    /\ UsersAreInside
    /\ DoomedAreDynamic

-----------------------------------------------------------------------------
(* The two changes of the container. *)

(* What RemoveAt of the community modules returns. *)
LEMMA RemoveAtProperties ==
    ASSUME NEW S, NEW q \in Seq(S), NEW n \in 1..Len(q)
    PROVE  /\ RemoveAt(q, n) \in Seq(S)
           /\ Len(RemoveAt(q, n)) = Len(q) - 1
           /\ \A k \in 1..(Len(q) - 1) :
                 RemoveAt(q, n)[k] = IF k < n THEN q[k] ELSE q[k + 1]
<1> DEFINE L == SubSeq(q, 1, n - 1)
           R == SubSeq(q, n + 1, Len(q))
<1>1. Len(q) \in Nat /\ \A k \in 1..Len(q) : q[k] \in S
  BY ElementOfSeq, LenProperties
<1>2. /\ L \in Seq(S)
      /\ Len(L) = n - 1
      /\ \A k \in 1..(n - 1) : L[k] = q[k]
  <2>1. \A k \in 1..(n - 1) : q[k] \in S
    BY <1>1
  <2>2. 1 \in Int /\ n - 1 \in Int
    BY <1>1
  <2>3. /\ L \in Seq(S)
        /\ Len(L) = IF 1 <= n - 1 THEN (n - 1) - 1 + 1 ELSE 0
        /\ \A k \in 1..((n - 1) - 1 + 1) : L[k] = q[1 + k - 1]
    BY <2>1, <2>2, SubSeqProperties
  <2>4. QED
    BY <1>1, <2>3
<1>3. /\ R \in Seq(S)
      /\ Len(R) = Len(q) - n
      /\ \A k \in 1..(Len(q) - n) : R[k] = q[n + k]
  <2>1. \A k \in (n + 1)..Len(q) : q[k] \in S
    BY <1>1
  <2>2. n + 1 \in Int /\ Len(q) \in Int
    BY <1>1
  <2>3. /\ R \in Seq(S)
        /\ Len(R) = IF n + 1 <= Len(q) THEN Len(q) - (n + 1) + 1 ELSE 0
        /\ \A k \in 1..(Len(q) - (n + 1) + 1) : R[k] = q[(n + 1) + k - 1]
    BY <2>1, <2>2, SubSeqProperties
  <2>4. QED
    BY <1>1, <2>3
<1> HIDE DEF L, R
<1>4. /\ L \o R \in Seq(S)
      /\ Len(L \o R) = Len(L) + Len(R)
      /\ \A k \in 1..(Len(L) + Len(R)) :
            (L \o R)[k] = IF k <= Len(L) THEN L[k] ELSE R[k - Len(L)]
  BY <1>2, <1>3, ConcatProperties
<1>5. RemoveAt(q, n) = L \o R
  BY DEF RemoveAt, L, R
<1>6. Len(L) + Len(R) = Len(q) - 1
  BY <1>1, <1>2, <1>3
<1>7. ASSUME NEW k \in 1..(Len(q) - 1)
      PROVE  (L \o R)[k] = IF k < n THEN q[k] ELSE q[k + 1]
  <2>1. (L \o R)[k] = IF k <= n - 1 THEN L[k] ELSE R[k - (n - 1)]
    BY <1>2, <1>4, <1>6
  <2>2. CASE k < n
    <3>1. k \in 1..(n - 1)
      BY <1>1, <2>2
    <3>2. QED
      BY <1>1, <1>2, <2>1, <2>2, <3>1
  <2>3. CASE ~(k < n)
    <3>1. k - (n - 1) \in 1..(Len(q) - n) /\ n + (k - (n - 1)) = k + 1
      BY <1>1, <2>3
    <3>2. R[k - (n - 1)] = q[k + 1]
      BY <1>3, <3>1
    <3>3. QED
      BY <1>1, <2>1, <2>3, <3>2
  <2>4. QED
    BY <2>2, <2>3
<1>8. QED
  BY <1>4, <1>5, <1>6, <1>7

(* Opening a connection appends it behind the others. *)
LEMMA Appended ==
    ASSUME TypeOK, FrontIsStatic, NEW c \in Dynamic, OpenConnection(c),
           Len(connections) < MaxSyncConnections
    PROVE  /\ connections' \in Seq(Connection)
           /\ Len(connections') = Len(connections) + 1
           /\ Len(connections') <= MaxSyncConnections
           /\ IsInjective(connections')
           /\ FrontIsStatic'
           /\ DOMAIN connections \subseteq DOMAIN connections'
           /\ \A n \in DOMAIN connections : connections'[n] = connections[n]
           /\ \A n \in DOMAIN connections : connections[n] # c
<1>1. /\ connections \in Seq(Connection)
      /\ c \in Connection
      /\ connections' = Append(connections, c)
      /\ DOMAIN connections = 1..Len(connections)
      /\ Len(connections) \in Nat
      /\ MaxSyncConnections \in Nat
  BY ConstantsAssumption, LenProperties DEF TypeOK, OpenConnection, Connection
<1>2. /\ connections' \in Seq(Connection)
      /\ Len(connections') = Len(connections) + 1
      /\ \A n \in 1..Len(connections) : connections'[n] = connections[n]
      /\ connections'[Len(connections) + 1] = c
  BY <1>1, AppendProperties
<1>3. DOMAIN connections' = 1..(Len(connections) + 1)
  BY <1>2, LenProperties
<1>4. \A n \in DOMAIN connections : connections[n] # c
  BY DEF OpenConnection, ToSet
<1>5. IsInjective(connections')
  BY <1>1, <1>2, <1>3, <1>4 DEF IsInjective, TypeOK
<1>6. FrontIsStatic'
  BY <1>1, <1>2 DEF FrontIsStatic
<1>7. QED
  BY <1>1, <1>2, <1>3, <1>4, <1>5, <1>6

(* Destroying one moves those behind it and leaves the first alone. *)
LEMMA Removed ==
    ASSUME TypeOK, FrontIsStatic, DoomedAreDynamic,
           NEW n \in DOMAIN connections, DestroyConnection(n)
    PROVE  /\ connections' \in Seq(Connection)
           /\ Len(connections') <= MaxSyncConnections
           /\ IsInjective(connections')
           /\ FrontIsStatic'
           /\ connections[n] \in Connection
           /\ \A k \in DOMAIN connections :
                 k # n => \E m \in DOMAIN connections' : connections'[m] = connections[k]
<1>1. /\ connections \in Seq(Connection)
      /\ DOMAIN connections = 1..Len(connections)
      /\ Len(connections) \in Nat
      /\ MaxSyncConnections \in Nat
      /\ connections[n] \in Dynamic
      /\ connections[n] \in Connection
  BY ConstantsAssumption, LenProperties, ElementOfSeq
     DEF TypeOK, DestroyConnection, DoomedAreDynamic, Connection
<1>2. /\ connections' \in Seq(Connection)
      /\ Len(connections') = Len(connections) - 1
      /\ \A k \in 1..(Len(connections) - 1) :
            connections'[k] = IF k < n THEN connections[k] ELSE connections[k + 1]
  BY <1>1, RemoveAtProperties DEF DestroyConnection
<1>3. DOMAIN connections' = 1..(Len(connections) - 1)
  BY <1>2, LenProperties
<1>4. IsInjective(connections')
  <2> DEFINE old(k) == IF k < n THEN k ELSE k + 1
  <2>1. \A k \in DOMAIN connections' :
           old(k) \in DOMAIN connections /\ connections'[k] = connections[old(k)]
    BY <1>1, <1>2, <1>3
  <2>2. \A a, b \in DOMAIN connections' : old(a) = old(b) => a = b
    BY <1>1, <1>3
  <2>3. \A a, b \in DOMAIN connections : connections[a] = connections[b] => a = b
    BY DEF IsInjective, TypeOK
  <2> HIDE DEF old
  <2>4. QED
    BY <2>1, <2>2, <2>3 DEF IsInjective
<1>5. n # 1
  BY <1>1, ConstantsAssumption DEF FrontIsStatic
<1>6. FrontIsStatic'
  BY <1>1, <1>2, <1>5 DEF FrontIsStatic
<1>7. ASSUME NEW k \in DOMAIN connections, k # n
      PROVE  \E m \in DOMAIN connections' : connections'[m] = connections[k]
  <2>1. CASE k < n
    BY <1>1, <1>2, <1>3, <1>7, <2>1
  <2>2. CASE n < k
    <3>1. k - 1 \in DOMAIN connections' /\ connections'[k - 1] = connections[k]
      BY <1>1, <1>2, <1>3, <2>2
    <3>2. QED
      BY <3>1
  <2>3. QED
    BY <1>1, <1>7, <2>1, <2>2
<1>8. QED
  BY <1>1, <1>2, <1>4, <1>6, <1>7, <1>3 DEF TypeOK

-----------------------------------------------------------------------------
(* What the steps of a caller preserve. *)

(* A scan has a connection to look at. *)
LEMMA ScannedIsInside ==
    ASSUME IInv, NEW t \in Caller, pc[t] = "scan"
    PROVE  /\ index[t] + 1 \in DOMAIN connections
           /\ connections[index[t] + 1] \in Connection
<1>1. Len(connections) \in Nat /\ DOMAIN connections = 1..Len(connections)
  BY LenProperties DEF IInv, TypeOK
<1>2. index[t] + 1 \in 1..Len(connections)
  BY <1>1 DEF IInv, TypeOK, ScanIsInside
<1>3. QED
  BY <1>1, <1>2, ElementOfSeq DEF IInv, TypeOK

(* So has a caller that spins: ++i % num_cons is an index, as the container *)
(* is not empty.                                                           *)
LEMMA SpunIsInside ==
    ASSUME IInv, NEW t \in Caller
    PROVE  LET n == (index[t] + 1) % Len(connections)
           IN  /\ n \in Nat
               /\ n + 1 \in DOMAIN connections
               /\ connections[n + 1] \in Connection
<1> DEFINE n == (index[t] + 1) % Len(connections)
<1>1. /\ Len(connections) \in Nat \ {0}
      /\ DOMAIN connections = 1..Len(connections)
      /\ index[t] \in Nat
  BY LenProperties, EmptySeq DEF IInv, TypeOK, FrontIsStatic
<1>2. n \in 0..(Len(connections) - 1)
  BY <1>1
<1>3. n + 1 \in 1..Len(connections)
  BY <1>1, <1>2
<1>4. connections[n + 1] \in Connection
  BY <1>3, ElementOfSeq DEF IInv, TypeOK
<1>5. QED
  BY <1>1, <1>2, <1>3, <1>4

(* LockIfReady on a connection of the container. *)
LEMMA TakePreserves ==
    ASSUME IInv, NEW t \in Caller, pc[t] \in {"scan", "spin"},
           NEW n \in DOMAIN connections, connections[n] \in Connection,
           Take(t, connections[n])
    PROVE  IInv'
<1>1. TypeOK'
  BY ConstantsAssumption DEF IInv, TypeOK, Take, GoTo
<1>2. freeConnection[t] = None /\ t \notin stray
  BY DEF IInv, PointersAreSound
<1>3. LockedByItsUser'
  BY <1>2, ConstantsAssumption DEF IInv, TypeOK, LockedByItsUser, Take
<1>4. FrontIsStatic' /\ DoomedAreDynamic'
  BY DEF IInv, FrontIsStatic, DoomedAreDynamic, Take
<1>5. MutexIsHeld'
  BY ConstantsAssumption DEF IInv, TypeOK, MutexIsHeld, Take, GoTo
<1>6. ScanIsInside'
  BY DEF IInv, TypeOK, ScanIsInside, Take, GoTo
<1>7. PointersAreSound'
  BY <1>2, ConstantsAssumption DEF IInv, TypeOK, PointersAreSound, Take, GoTo
<1>8. UsersAreInside'
  BY DEF IInv, TypeOK, UsersAreInside, Take
<1>9. QED
  BY <1>1, <1>3, <1>4, <1>5, <1>6, <1>7, <1>8 DEF IInv

THEOREM InitIInv == Init => IInv
<1> SUFFICES ASSUME Init PROVE IInv
  OBVIOUS
<1>1. /\ connections \in Seq(Connection)
      /\ Len(connections) = 1
      /\ IsInjective(connections)
  BY DEF Init, Connection, IsInjective
<1>2. TypeOK
  BY <1>1, ConstantsAssumption DEF Init, TypeOK, Undefined
<1>3. FrontIsStatic
  BY DEF Init, FrontIsStatic
<1>4. LockedByItsUser /\ UsersAreInside /\ PointersAreSound
  BY ConstantsAssumption DEF Init, LockedByItsUser, UsersAreInside, PointersAreSound
<1>5. MutexIsHeld /\ ScanIsInside /\ DoomedAreDynamic
  BY DEF Init, MutexIsHeld, ScanIsInside, DoomedAreDynamic
<1>6. QED
  BY <1>2, <1>3, <1>4, <1>5 DEF IInv

(* The steps that leave the container and its mutexes alone. *)
LEMMA CallerPreserves ==
    ASSUME IInv, NEW t \in Caller,
           \/ Call(t) \/ LockCleanup(t) \/ Run(t) \/ UseDestroyed(t)
    PROVE  IInv'
<1> USE DEF GoTo
<1>1. CASE Call(t)
  BY <1>1 DEF Call, IInv, TypeOK, LockedByItsUser, FrontIsStatic, MutexIsHeld, ScanIsInside,
              PointersAreSound, UsersAreInside, DoomedAreDynamic
<1>2. CASE LockCleanup(t)
  <2>1. 0 < Len(connections)
    BY LenProperties, EmptySeq DEF IInv, TypeOK, FrontIsStatic
  <2>2. QED
    BY <1>2, <2>1, ConstantsAssumption
       DEF LockCleanup, IInv, TypeOK, LockedByItsUser, FrontIsStatic, MutexIsHeld, ScanIsInside,
           PointersAreSound, UsersAreInside, DoomedAreDynamic
<1>3. CASE Run(t)
  BY <1>3 DEF Run, IInv, TypeOK, LockedByItsUser, FrontIsStatic, MutexIsHeld, ScanIsInside,
              PointersAreSound, UsersAreInside, DoomedAreDynamic
<1>4. CASE UseDestroyed(t)
  BY <1>4 DEF UseDestroyed, IInv, TypeOK, Undefined, LockedByItsUser, FrontIsStatic,
              MutexIsHeld, ScanIsInside, PointersAreSound, UsersAreInside, DoomedAreDynamic
<1>5. QED
  BY <1>1, <1>2, <1>3, <1>4

(* Looking for a connection: it is taken or the loop goes on inside. *)
LEMMA SearchPreserves ==
    ASSUME IInv, NEW t \in Caller, Scan(t) \/ Spin(t)
    PROVE  IInv'
<1>1. CASE Scan(t)
  <2> DEFINE n == index[t] + 1
  <2>1. /\ pc[t] = "scan" /\ n \in DOMAIN connections
        /\ connections[n] \in Connection
    BY <1>1, ScannedIsInside DEF Scan
  <2>2. CASE Take(t, connections[n])
    BY <2>1, <2>2, TakePreserves
  <2>3. CASE Pass(t, connections[n], n) /\ GoTo(t, IF n = Len(connections) THEN "open" ELSE "scan")
    <3>1. Len(connections) \in Nat /\ n \in 1..Len(connections)
      BY <2>1, LenProperties DEF IInv, TypeOK
    <3>2. ScanIsInside'
      BY <2>3, <3>1 DEF Pass, GoTo, IInv, TypeOK, ScanIsInside
    <3>3. MutexIsHeld' /\ PointersAreSound'
      BY <2>1, <2>3 DEF Pass, GoTo, IInv, TypeOK, MutexIsHeld, PointersAreSound
    <3>4. TypeOK'
      BY <2>3, <3>1 DEF Pass, GoTo, IInv, TypeOK
    <3>5. LockedByItsUser' /\ FrontIsStatic' /\ UsersAreInside' /\ DoomedAreDynamic'
      BY <2>3 DEF Pass, IInv, LockedByItsUser, FrontIsStatic, UsersAreInside, DoomedAreDynamic
    <3>6. QED
      BY <3>2, <3>3, <3>4, <3>5 DEF IInv
  <2>4. QED
    BY <1>1, <2>2, <2>3 DEF Scan
<1>2. CASE Spin(t)
  <2> DEFINE n == (index[t] + 1) % Len(connections)
  <2>1. /\ pc[t] = "spin" /\ n \in Nat /\ n + 1 \in DOMAIN connections
        /\ connections[n + 1] \in Connection
    BY <1>2, SpunIsInside DEF Spin
  <2>2. CASE Take(t, connections[n + 1])
    BY <2>1, <2>2, TakePreserves
  <2>3. CASE Pass(t, connections[n + 1], n) /\ UNCHANGED pc
    <3> HIDE DEF n
    <3>1. QED
      BY <2>1, <2>3 DEF Pass, IInv, TypeOK, LockedByItsUser, FrontIsStatic, MutexIsHeld,
                        ScanIsInside, PointersAreSound, UsersAreInside, DoomedAreDynamic
  <2>4. QED
    BY <1>2, <2>2, <2>3 DEF Spin
<1>3. QED
  BY <1>1, <1>2

(* A new connection is nobody's: its name is not in the container, so no   *)
(* user that still has its connection uses that name.                      *)
LEMMA OpenPreserves ==
    ASSUME IInv, NEW c \in Dynamic, OpenConnection(c),
           Len(connections) < MaxSyncConnections,
           UNCHANGED <<doomed, freeConnection, stray>>
    PROVE  /\ connections' \in Seq(Connection)
           /\ Len(connections) \in Nat
           /\ Len(connections') = Len(connections) + 1
           /\ Len(connections') <= MaxSyncConnections
           /\ IsInjective(connections')
           /\ mutex' \in [Connection -> Caller \cup {None}]
           /\ unused' \subseteq Connection
           /\ LockedByItsUser' /\ FrontIsStatic' /\ UsersAreInside' /\ DoomedAreDynamic'
<1>1. /\ connections' \in Seq(Connection)
      /\ Len(connections') = Len(connections) + 1
      /\ Len(connections') <= MaxSyncConnections
      /\ IsInjective(connections')
      /\ FrontIsStatic'
      /\ DOMAIN connections \subseteq DOMAIN connections'
      /\ \A n \in DOMAIN connections : connections'[n] = connections[n]
      /\ \A n \in DOMAIN connections : connections[n] # c
  BY Appended DEF IInv
<1>2. \A t \in Caller \ stray : freeConnection[t] # c
  BY <1>1, ConstantsAssumption DEF IInv, UsersAreInside, Connection
<1>3. mutex[c] = None
  BY <1>2 DEF IInv, TypeOK, LockedByItsUser, Connection
<1>4. mutex' = mutex
  BY <1>3 DEF IInv, TypeOK, OpenConnection, Connection
<1>5. LockedByItsUser'
  BY <1>4 DEF IInv, LockedByItsUser
<1>6. UsersAreInside'
  BY <1>1 DEF IInv, UsersAreInside
<1>7. Len(connections) \in Nat
  BY LenProperties DEF IInv, TypeOK
<1>8. QED
  BY <1>1, <1>4, <1>5, <1>6, <1>7 DEF IInv, TypeOK, OpenConnection, DoomedAreDynamic

(* The two ways to open one. *)
LEMMA OpeningPreserves ==
    ASSUME IInv,
           \/ \E t \in Caller : OpenDynamicSyncConnect(t)
           \/ AddDynamicConnects
    PROVE  IInv'
<1>1. ASSUME NEW t \in Caller, OpenDynamicSyncConnect(t)
      PROVE  IInv'
  <2>1. MutexIsHeld' /\ PointersAreSound'
    BY <1>1 DEF OpenDynamicSyncConnect, GoTo, IInv, TypeOK, MutexIsHeld, PointersAreSound
  <2>2. CASE Len(connections) < MaxSyncConnections /\ \E c \in Dynamic : OpenConnection(c)
    <3>1. PICK c \in Dynamic : OpenConnection(c)
      BY <2>2
    <3>2. UNCHANGED <<doomed, freeConnection, stray>>
      BY <1>1 DEF OpenDynamicSyncConnect
    <3>3. /\ connections' \in Seq(Connection)
          /\ Len(connections) \in Nat
          /\ Len(connections') = Len(connections) + 1
          /\ Len(connections') <= MaxSyncConnections
          /\ IsInjective(connections')
          /\ mutex' \in [Connection -> Caller \cup {None}]
          /\ unused' \subseteq Connection
          /\ LockedByItsUser' /\ FrontIsStatic' /\ UsersAreInside' /\ DoomedAreDynamic'
      BY <2>2, <3>1, <3>2, OpenPreserves
    <3>4. ScanIsInside'
      BY <1>1, <3>3 DEF OpenDynamicSyncConnect, GoTo, IInv, TypeOK, ScanIsInside
    <3>5. TypeOK'
      BY <1>1, <3>3 DEF OpenDynamicSyncConnect, GoTo, IInv, TypeOK
    <3>6. QED
      BY <2>1, <3>3, <3>4, <3>5 DEF IInv
  <2>3. CASE UNCHANGED <<connections, mutex, unused>>
    <3>1. TypeOK' /\ ScanIsInside'
      BY <1>1, <2>3 DEF OpenDynamicSyncConnect, GoTo, IInv, TypeOK, ScanIsInside
    <3>2. LockedByItsUser' /\ FrontIsStatic' /\ UsersAreInside' /\ DoomedAreDynamic'
      BY <1>1, <2>3 DEF OpenDynamicSyncConnect, IInv, LockedByItsUser, FrontIsStatic,
                        UsersAreInside, DoomedAreDynamic
    <3>3. QED
      BY <2>1, <3>1, <3>2 DEF IInv
  <2>4. QED
    BY <1>1, <2>2, <2>3 DEF OpenDynamicSyncConnect
<1>2. CASE AddDynamicConnects
  <2>1. PICK c \in Dynamic : OpenConnection(c)
    BY <1>2 DEF AddDynamicConnects
  <2>2. /\ connections' \in Seq(Connection)
        /\ Len(connections) \in Nat
        /\ Len(connections') = Len(connections) + 1
        /\ Len(connections') <= MaxSyncConnections
        /\ IsInjective(connections')
        /\ mutex' \in [Connection -> Caller \cup {None}]
        /\ unused' \subseteq Connection
        /\ LockedByItsUser' /\ FrontIsStatic' /\ UsersAreInside' /\ DoomedAreDynamic'
    BY <1>2, <2>1, OpenPreserves DEF AddDynamicConnects
  <2>3. TypeOK'
    BY <1>2, <2>2 DEF AddDynamicConnects, IInv, TypeOK, Undefined
  <2>4. ScanIsInside'
    BY <1>2, <2>2 DEF AddDynamicConnects, IInv, TypeOK, ScanIsInside
  <2>5. MutexIsHeld' /\ PointersAreSound'
    BY <1>2 DEF AddDynamicConnects, IInv, MutexIsHeld, PointersAreSound
  <2>6. QED
    BY <2>2, <2>3, <2>4, <2>5 DEF IInv
<1>3. QED
  BY <1>1, <1>2

(* Giving a connection back: only the user that unlocks it had it. *)
LEMMA UnlockPreserves ==
    ASSUME IInv, NEW t \in Caller, Unlock(t) \/ (t = World /\ FinishPing)
    PROVE  IInv'
<1>1. /\ t \notin stray /\ freeConnection[t] \in Connection
      /\ mutex[freeConnection[t]] = t
      /\ mutex' = [mutex EXCEPT ![freeConnection[t]] = None]
      /\ freeConnection' = [freeConnection EXCEPT ![t] = None]
      /\ pc[t] \in {"unlock", "ping"}
      /\ pc' = [pc EXCEPT ![t] = "idle"]
      /\ UNCHANGED <<doomed, connections, unused, index, stray, undefined>>
  BY DEF Unlock, FinishPing, GoTo, IInv, TypeOK, PointersAreSound, LockedByItsUser
<1>2. cleanupMutex' = IF pc[t] = "ping" THEN None ELSE cleanupMutex
  BY DEF Unlock, FinishPing
<1>3. TypeOK'
  BY <1>1, <1>2, ConstantsAssumption DEF IInv, TypeOK
<1>4. LockedByItsUser'
  BY <1>1, ConstantsAssumption DEF IInv, TypeOK, LockedByItsUser
<1>5. MutexIsHeld'
  BY <1>1, <1>2, ConstantsAssumption DEF IInv, TypeOK, MutexIsHeld
<1>6. ScanIsInside' /\ PointersAreSound'
  BY <1>1 DEF IInv, TypeOK, ScanIsInside, PointersAreSound
<1>7. FrontIsStatic' /\ UsersAreInside' /\ DoomedAreDynamic'
  BY <1>1 DEF IInv, TypeOK, FrontIsStatic, UsersAreInside, DoomedAreDynamic
<1>8. QED
  BY <1>3, <1>4, <1>5, <1>6, <1>7 DEF IInv

-----------------------------------------------------------------------------
(* What the steps of the world thread and of time preserve. *)

(* The user of a destroyed connection becomes a stray, the others keep     *)
(* theirs; the removal holds _cleanupMutex, so nobody scans meanwhile.     *)
LEMMA DestroyPreserves ==
    ASSUME IInv, NEW n \in DOMAIN connections, DestroyConnection(n)
    PROVE  IInv'
<1>1. /\ connections' \in Seq(Connection)
      /\ Len(connections') <= MaxSyncConnections
      /\ IsInjective(connections')
      /\ FrontIsStatic'
      /\ connections[n] \in Connection
      /\ \A k \in DOMAIN connections :
            k # n => \E m \in DOMAIN connections' : connections'[m] = connections[k]
  BY Removed DEF IInv
<1> DEFINE gone == connections[n]
<1>2. /\ pc[World] = "cleanup" /\ gone \in Connection
      /\ doomed' = doomed \ {gone}
      /\ mutex' = [mutex EXCEPT ![gone] = None]
      /\ stray' = stray \cup {t \in Caller : freeConnection[t] = gone}
      /\ UNCHANGED <<unused, cleanupMutex, pc, index, freeConnection, undefined>>
      /\ World \in Caller
  BY <1>1, ConstantsAssumption DEF DestroyConnection
<1>3. \A t \in Caller : pc[t] \notin {"scan", "ping"}
  BY <1>2 DEF IInv, MutexIsHeld
<1>4. UsersAreInside'
  BY <1>1, <1>2 DEF IInv, UsersAreInside
<1> HIDE DEF gone
<1>5. TypeOK'
  BY <1>1, <1>2 DEF IInv, TypeOK
<1>6. LockedByItsUser'
  BY <1>2, ConstantsAssumption DEF IInv, TypeOK, LockedByItsUser
<1>7. MutexIsHeld' /\ ScanIsInside' /\ DoomedAreDynamic'
  BY <1>2, <1>3 DEF IInv, MutexIsHeld, ScanIsInside, DoomedAreDynamic
<1>8. PointersAreSound'
  BY <1>2, <1>3, ConstantsAssumption DEF IInv, PointersAreSound
<1>9. QED
  BY <1>1, <1>4, <1>5, <1>6, <1>7, <1>8 DEF IInv

LEMMA WorldPreserves ==
    ASSUME IInv,
           \/ FinishErase \/ CleanupConnections \/ KeepAlive
           \/ \E c \in Connection : Age(c)
    PROVE  IInv'
<1> USE DEF GoTo
<1>1. CASE FinishErase
  BY <1>1, ConstantsAssumption
     DEF FinishErase, IInv, TypeOK, LockedByItsUser, FrontIsStatic, MutexIsHeld, ScanIsInside,
         PointersAreSound, UsersAreInside, DoomedAreDynamic
<1>2. CASE CleanupConnections
  BY <1>2, ConstantsAssumption
     DEF CleanupConnections, IInv, TypeOK, LockedByItsUser, FrontIsStatic, MutexIsHeld,
         ScanIsInside, PointersAreSound, UsersAreInside, DoomedAreDynamic, Connection
<1>3. CASE KeepAlive
  <2>1. /\ 1 \in DOMAIN connections
        /\ Head(connections) = connections[1]
        /\ Head(connections) \in Connection
    <3>1. Len(connections) \in Nat \ {0} /\ DOMAIN connections = 1..Len(connections)
      BY LenProperties, EmptySeq DEF IInv, TypeOK, FrontIsStatic
    <3>2. QED
      BY <3>1, ElementOfSeq DEF IInv, TypeOK, FrontIsStatic, Connection
  <2>2. World \in Caller /\ World \notin stray /\ freeConnection[World] = None
    BY <1>3, ConstantsAssumption DEF KeepAlive, IInv, PointersAreSound
  <2>3. TypeOK' /\ MutexIsHeld' /\ ScanIsInside'
    BY <1>3, <2>1, <2>2, ConstantsAssumption
       DEF KeepAlive, IInv, TypeOK, MutexIsHeld, ScanIsInside
  <2>4. LockedByItsUser' /\ PointersAreSound'
    BY <1>3, <2>1, <2>2, ConstantsAssumption
       DEF KeepAlive, IInv, TypeOK, LockedByItsUser, PointersAreSound
  <2>5. FrontIsStatic' /\ UsersAreInside' /\ DoomedAreDynamic'
    BY <1>3, <2>1, <2>2
       DEF KeepAlive, IInv, TypeOK, FrontIsStatic, UsersAreInside, DoomedAreDynamic
  <2>6. QED
    BY <2>3, <2>4, <2>5 DEF IInv
<1>4. ASSUME NEW c \in Connection, Age(c)
      PROVE  IInv'
  BY <1>4 DEF Age, IInv, TypeOK, LockedByItsUser, FrontIsStatic, MutexIsHeld, ScanIsInside,
              PointersAreSound, UsersAreInside, DoomedAreDynamic
<1>5. QED
  BY <1>1, <1>2, <1>3, <1>4

-----------------------------------------------------------------------------
THEOREM NextIInv == IInv /\ [Next]_vars => IInv'
<1> SUFFICES ASSUME IInv, [Next]_vars PROVE IInv'
  OBVIOUS
<1>1. ASSUME NEW t \in Caller, Call(t) \/ CallerStep(t)
      PROVE  IInv'
  <2>1. CASE Call(t) \/ LockCleanup(t) \/ Run(t) \/ UseDestroyed(t)
    BY <2>1, CallerPreserves
  <2>2. CASE Scan(t) \/ Spin(t)
    BY <2>2, SearchPreserves
  <2>3. CASE OpenDynamicSyncConnect(t)
    BY <2>3, OpeningPreserves
  <2>4. CASE Unlock(t) \/ (t = World /\ FinishPing)
    BY <2>4, UnlockPreserves
  <2>5. CASE t = World /\ FinishErase
    BY <2>5, WorldPreserves
  <2>6. CASE t = World /\ \E n \in DOMAIN connections : DestroyConnection(n)
    BY <2>6, DestroyPreserves
  <2>7. QED
    BY <1>1, <2>1, <2>2, <2>3, <2>4, <2>5, <2>6 DEF CallerStep
<1>2. CASE (\E c \in Connection : Age(c)) \/ CleanupConnections \/ KeepAlive
  BY <1>2, WorldPreserves
<1>3. CASE AddDynamicConnects
  BY <1>3, OpeningPreserves
<1>4. CASE UNCHANGED vars
  BY <1>4 DEF vars, IInv, TypeOK, LockedByItsUser, FrontIsStatic, MutexIsHeld, ScanIsInside,
              PointersAreSound, UsersAreInside, DoomedAreDynamic
<1>5. QED
  BY <1>1, <1>2, <1>3, <1>4 DEF Next, Step, Lost

(* The inductive invariant holds in every reachable state. *)
THEOREM Invariance == Spec => []IInv
<1>1. QED
  BY InitIInv, NextIInv, PTL DEF Spec

(* Every variable has its type; the container has no more connections than *)
(* MAX_SYNC_CONNECTIONS, also with the command that opens them.            *)
THEOREM TypeCorrect == Spec => []TypeOK
<1>1. IInv => TypeOK
  BY DEF IInv
<1>2. QED
  BY <1>1, Invariance, PTL

(* LockIfReady and Unlock are matched: a connection is locked exactly by   *)
(* the one thread that uses it.                                            *)
THEOREM OneUserEach == Spec => []LockedByItsUser
<1>1. IInv => LockedByItsUser
  BY DEF IInv
<1>2. QED
  BY <1>1, Invariance, PTL

(* EscapeString finds the connection of Open() at the front, always. *)
THEOREM FrontStays == Spec => []FrontIsStatic
<1>1. IInv => FrontIsStatic
  BY DEF IInv
<1>2. QED
  BY <1>1, Invariance, PTL
=============================================================================
