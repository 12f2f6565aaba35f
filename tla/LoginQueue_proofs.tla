-------------------------- MODULE LoginQueue_proofs --------------------------
(***************************************************************************)
(* Proofs about LoginQueue, for any accounts, sessions, limits and staff:  *)
(* the world's lists of sessions and its queue hold no pointer too many.   *)
(***************************************************************************)
EXTENDS LoginQueue, SequenceTheorems, FiniteSetTheorems, TLAPS

World ==
    [sessions: [Account -> Session \cup {None}],
     offline: [Account -> Session \cup {None}],
     queue: Seq(Session),
     disconnects: SUBSET Account,
     st: [Session -> SessionRecord]]

(* No character is played, loaded or about to be. *)
Calm(r) == ~r.player /\ ~r.starting /\ ~r.reading

IsListed(w, s) == w.sessions[Owner[s]] = s
IsKept(w, s) == w.offline[Owner[s]] = s
In(q, s) == \E i \in DOMAIN q : q[i] = s

(* Sessions are in the place of their account, and not in both maps. *)
Owned(w) ==
    /\ \A a \in Account : w.sessions[a] # None => Owner[w.sessions[a]] = a
    /\ \A a \in Account : w.offline[a] # None => Owner[w.offline[a]] = a
    /\ \A s \in Session : ~(IsListed(w, s) /\ IsKept(w, s))

(* Who waits is listed, waits once, and nothing goes on in his session. *)
Orderly(w) ==
    /\ \A i, j \in DOMAIN w.queue : w.queue[i] = w.queue[j] => i = j
    /\ \A s \in Session : In(w.queue, s) =>
          IsListed(w, s) /\ w.st[s].inQueue /\ Calm(w.st[s])

(* Nor does anything in a session that the world does not have (any more). *)
OthersCalm(w) ==
    \A s \in Session : ~IsListed(w, s) /\ ~IsKept(w, s) => Calm(w.st[s])

Good(w) == w \in World /\ Owned(w) /\ Orderly(w) /\ OthersCalm(w)

(* What the network threads have brought is known nowhere else. *)
IncomingIsNew ==
    /\ \A i, j \in DOMAIN incoming : incoming[i] = incoming[j] => i = j
    /\ \A s \in Session : In(incoming, s) => ~IsListed(world, s) /\ ~IsKept(world, s)

(* The loops visit what is still there. *)
TodoIsThere ==
    /\ phase = "update" => todo \subseteq Listed
    /\ phase = "offline" => todo \subseteq Kept

IInv ==
    /\ incoming \in Seq(Session)
    /\ Good(world)
    /\ limit \in Limits
    /\ phase \in {"add", "update", "offline", "stopped"}
    /\ todo \subseteq Account
    /\ stopping \in BOOLEAN
    /\ IncomingIsNew
    /\ TodoIsThere

-----------------------------------------------------------------------------
(* The queue without one of its elements. *)
LEMMA RemoveAtProperties ==
    ASSUME NEW S, NEW q \in Seq(S), NEW n \in 1..Len(q)
    PROVE  /\ RemoveAt(q, n) \in Seq(S)
           /\ Len(RemoveAt(q, n)) = Len(q) - 1
           /\ \A k \in 1..(Len(q) - 1) :
                 RemoveAt(q, n)[k] = IF k < n THEN q[k] ELSE q[k + 1]
<1> DEFINE L == SubSeq(q, 1, n - 1)
           R == SubSeq(q, n + 1, Len(q))
<1>1. Len(q) \in Nat /\ \A k \in 1..Len(q) : q[k] \in S
  BY ElementOfSeq, LenProperties
<1>2. /\ L \in Seq(S)
      /\ Len(L) = n - 1
      /\ \A k \in 1..(n - 1) : L[k] = q[k]
  <2>1. \A k \in 1..(n - 1) : q[k] \in S
    BY <1>1
  <2>2. 1 \in Int /\ n - 1 \in Int
    BY <1>1
  <2>3. /\ L \in Seq(S)
        /\ Len(L) = IF 1 <= n - 1 THEN (n - 1) - 1 + 1 ELSE 0
        /\ \A k \in 1..((n - 1) - 1 + 1) : L[k] = q[1 + k - 1]
    BY <2>1, <2>2, SubSeqProperties
  <2>4. QED
    BY <1>1, <2>3
<1>3. /\ R \in Seq(S)
      /\ Len(R) = Len(q) - n
      /\ \A k \in 1..(Len(q) - n) : R[k] = q[n + k]
  <2>1. \A k \in (n + 1)..Len(q) : q[k] \in S
    BY <1>1
  <2>2. n + 1 \in Int /\ Len(q) \in Int
    BY <1>1
  <2>3. /\ R \in Seq(S)
        /\ Len(R) = IF n + 1 <= Len(q) THEN Len(q) - (n + 1) + 1 ELSE 0
        /\ \A k \in 1..(Len(q) - (n + 1) + 1) : R[k] = q[(n + 1) + k - 1]
    BY <2>1, <2>2, SubSeqProperties
  <2>4. QED
    BY <1>1, <2>3
<1> HIDE DEF L, R
<1>4. /\ L \o R \in Seq(S)
      /\ Len(L \o R) = Len(L) + Len(R)
      /\ \A k \in 1..(Len(L) + Len(R)) :
            (L \o R)[k] = IF k <= Len(L) THEN L[k] ELSE R[k - Len(L)]
  BY <1>2, <1>3, ConcatProperties
<1>5. RemoveAt(q, n) = L \o R
  BY DEF RemoveAt, L, R
<1>6. Len(L) + Len(R) = Len(q) - 1
  BY <1>1, <1>2, <1>3
<1>7. ASSUME NEW k \in 1..(Len(q) - 1)
      PROVE  (L \o R)[k] = IF k < n THEN q[k] ELSE q[k + 1]
  <2>1. CASE k < n
    BY <1>1, <1>2, <1>4, <1>6, <2>1
  <2>2. CASE ~(k < n)
    <3>1. k - (n - 1) \in 1..(Len(q) - n) /\ n + (k - (n - 1)) = k + 1
      BY <1>1, <2>2
    <3>2. (L \o R)[k] = R[k - (n - 1)]
      BY <1>1, <1>2, <1>4, <1>6, <2>2
    <3>3. R[k - (n - 1)] = q[n + (k - (n - 1))]
      BY <1>3, <3>1
    <3>4. QED
      BY <2>2, <3>1, <3>2, <3>3
  <2>3. QED
    BY <2>1, <2>2
<1>8. QED
  BY <1>4, <1>5, <1>6, <1>7

(* q with its only s erased. *)
LEMMA RemoveFirstProperties ==
    ASSUME NEW q \in Seq(Session), NEW s \in Session, In(q, s),
           \A i, j \in DOMAIN q : q[i] = q[j] => i = j
    PROVE  LET r == RemoveFirst(q, s) IN
           /\ r \in Seq(Session) /\ Len(r) = Len(q) - 1
           /\ \A i, j \in DOMAIN r : r[i] = r[j] => i = j
           /\ \A t \in Session : In(r, t) <=> In(q, t) /\ t # s
           /\ \A t, u \in Session : Before(q, t, u) /\ t # s /\ u # s => Before(r, t, u)
<1>1. DOMAIN q = 1..Len(q) /\ Len(q) \in Nat
  BY LenProperties
<1>2. PICK n \in 1..Len(q) : q[n] = s
  BY <1>1 DEF In
<1>3. {i \in 1..Len(q) : q[i] = s} = {n}
  BY <1>1, <1>2
<1>4. Min({n}) = n
  BY <1>1, <1>2 DEF Min
<1>5. RemoveFirst(q, s) = RemoveAt(q, n)
  <2>1. SelectInSeq(q, LAMBDA v : v = s) = n
    BY <1>3, <1>4 DEF SelectInSeq
  <2>2. QED
    BY <1>2, <2>1 DEF RemoveFirst
<1> DEFINE r == RemoveAt(q, n)
<1>6. /\ r \in Seq(Session) /\ Len(r) = Len(q) - 1
      /\ \A k \in 1..(Len(q) - 1) : r[k] = IF k < n THEN q[k] ELSE q[k + 1]
  BY <1>2, RemoveAtProperties
<1> HIDE DEF r
<1>7. DOMAIN r = 1..(Len(q) - 1)
  BY <1>6, LenProperties
<1> DEFINE old(k) == IF k < n THEN k ELSE k + 1
<1>8. \A k \in DOMAIN r : old(k) \in DOMAIN q /\ old(k) # n /\ r[k] = q[old(k)]
  BY <1>1, <1>2, <1>6, <1>7
<1>9. \A i, j \in DOMAIN r : old(i) = old(j) => i = j
  BY <1>1, <1>2, <1>7
<1> HIDE DEF old
<1>10. /\ \A i, j \in DOMAIN r : r[i] = r[j] => i = j
       /\ \A t \in Session : In(r, t) => In(q, t) /\ t # s
  BY <1>1, <1>2, <1>8, <1>9 DEF In
<1> DEFINE new(k) == IF k < n THEN k ELSE k - 1
<1>11. \A k \in DOMAIN q : k # n => new(k) \in DOMAIN r /\ r[new(k)] = q[k]
  BY <1>1, <1>2, <1>6, <1>7
<1>12. \A i, j \in DOMAIN q : i # n /\ j # n /\ i < j => new(i) < new(j)
  BY <1>1, <1>2
<1> HIDE DEF new
<1>13. \A t \in Session : In(q, t) /\ t # s => In(r, t)
  BY <1>2, <1>11 DEF In
<1>14. \A t, u \in Session : Before(q, t, u) /\ t # s /\ u # s => Before(r, t, u)
  BY <1>2, <1>11, <1>12 DEF Before
<1>15. QED
  BY <1>5, <1>6, <1>10, <1>13, <1>14 DEF r

(* Changing a session in w changes nothing else. *)
SameBut(w, v, S) ==
    /\ v \in World
    /\ v.sessions = w.sessions /\ v.offline = w.offline /\ v.queue = w.queue
    /\ \A t \in Session : t \notin S => v.st[t] = w.st[t]

LEMMA EditSession ==
    ASSUME NEW w \in World, NEW s \in Session, NEW r \in SessionRecord
    PROVE  LET v == [w EXCEPT !.st = [w.st EXCEPT ![s] = r]] IN
           SameBut(w, v, {s}) /\ v.st[s] = r
<1> DEFINE f == [w.st EXCEPT ![s] = r]
           v == [w EXCEPT !.st = f]
<1>1. w.st \in [Session -> SessionRecord]
  BY DEF World
<1>2. /\ f \in [Session -> SessionRecord] /\ f[s] = r
      /\ \A t \in Session : t # s => f[t] = w.st[t]
  BY <1>1
<1> HIDE DEF f
<1>3. v \in World
  BY <1>2 DEF World
<1>4. v.sessions = w.sessions /\ v.offline = w.offline /\ v.queue = w.queue /\ v.st = f
  BY DEF World
<1>5. QED
  BY <1>2, <1>3, <1>4 DEF SameBut, f

LEMMA FreshIsCalm == Fresh \in SessionRecord /\ Calm(Fresh)
BY DEF Fresh, SessionRecord, Calm

LEMMA DeleteProperties ==
    ASSUME NEW w \in World, NEW s \in Session
    PROVE  SameBut(w, Delete(w, s), {s}) /\ Calm(Delete(w, s).st[s])
<1>1. Delete(w, s) = [w EXCEPT !.st = [w.st EXCEPT ![s] = Fresh]]
  BY DEF Delete, World
<1>2. QED
  BY <1>1, EditSession, FreshIsCalm

LEMMA InitializeSessionProperties ==
    ASSUME NEW w \in World, NEW s \in Session
    PROVE  SameBut(w, InitializeSession(w, s), {s})
<1> DEFINE r == [w.st[s] EXCEPT !.starting = TRUE]
<1>1. r \in SessionRecord
  <2>1. w.st[s] \in SessionRecord
    BY DEF World
  <2>2. QED
    BY <2>1 DEF SessionRecord
<1>2. InitializeSession(w, s) = [w EXCEPT !.st = [w.st EXCEPT ![s] = r]]
  BY DEF InitializeSession, World
<1> HIDE DEF r
<1>3. QED
  BY <1>1, <1>2, EditSession

LEMMA NewQueue ==
    ASSUME NEW w \in World, NEW q \in Seq(Session)
    PROVE  LET v == [w EXCEPT !.queue = q] IN
           /\ v \in World
           /\ v.sessions = w.sessions /\ v.offline = w.offline
           /\ v.queue = q /\ v.st = w.st
BY DEF World

(* The front of the queue is let in or not. *)
LEMMA AcceptFirstProperties ==
    ASSUME NEW w \in World, NEW q \in Seq(Session), NEW active,
           \A i, j \in DOMAIN q : q[i] = q[j] => i = j
    PROVE  LET v == AcceptFirst(w, q, active) IN
           /\ v \in World
           /\ v.sessions = w.sessions /\ v.offline = w.offline
           /\ \A i, j \in DOMAIN v.queue : v.queue[i] = v.queue[j] => i = j
           /\ \A t \in Session : In(v.queue, t) => In(q, t)
           /\ \A t \in Session : In(v.queue, t) \/ ~In(q, t) => v.st[t] = w.st[t]
<1> DEFINE v == AcceptFirst(w, q, active)
<1>1. CASE v = [w EXCEPT !.queue = q]
  BY <1>1, NewQueue
<1>2. CASE q # <<>> /\ v = InitializeSession([w EXCEPT !.queue = Tail(q)], Head(q))
  <2>1. /\ Head(q) = q[1] /\ Head(q) \in Session /\ Tail(q) \in Seq(Session)
        /\ 1 \in DOMAIN q /\ DOMAIN q = 1..Len(q) /\ Len(q) \in Nat \ {0}
        /\ DOMAIN Tail(q) = 1..(Len(q) - 1)
        /\ \A i \in 1..(Len(q) - 1) : Tail(q)[i] = q[i + 1]
    BY <1>2, HeadTailProperties, LenProperties, EmptySeq
  <2> DEFINE h == Head(q)
             r == Tail(q)
             u == [w EXCEPT !.queue = r]
  <2>2. /\ \A i, j \in DOMAIN r : r[i] = r[j] => i = j
        /\ \A t \in Session : In(r, t) => In(q, t) /\ t # h
        /\ In(q, h)
    BY <2>1 DEF In
  <2>3. /\ u \in World /\ u.sessions = w.sessions /\ u.offline = w.offline
        /\ u.queue = r /\ u.st = w.st
    BY <2>1, NewQueue
  <2>4. h \in Session /\ v = InitializeSession(u, h)
    BY <1>2, <2>1
  <2> HIDE DEF u, h, r, v
  <2>5. SameBut(u, v, {h})
    BY <2>3, <2>4, InitializeSessionProperties
  <2>6. QED
    BY <2>2, <2>3, <2>5 DEF SameBut, v
<1>3. QED
  BY <1>1, <1>2 DEF AcceptFirst

LEMMA NoteDisconnectProperties ==
    ASSUME NEW w \in World, NEW s \in Session
    PROVE  SameBut(w, NoteDisconnect(w, s), {}) /\ NoteDisconnect(w, s).st = w.st
BY ConstantsAssumption DEF NoteDisconnect, World, SameBut

(* Good is about the sessions, not about who may come back when. *)
LEMMA GoodOnlySeesSessions ==
    ASSUME NEW w, Good(w), NEW v, SameBut(w, v, {})
    PROVE  Good(v)
BY DEF Good, SameBut, Owned, Orderly, OthersCalm, IsListed, IsKept

(* A session that goes leaves the queue, and perhaps another one, too. *)
LEMMA RemoveQueuedPlayerProperties ==
    ASSUME NEW w, Good(w), NEW s \in Session, IsListed(w, s)
    PROVE  LET v == RemoveQueuedPlayer(w, s) IN
           /\ Good(v) /\ ~In(v.queue, s)
           /\ v.sessions = w.sessions /\ v.offline = w.offline
<1> DEFINE v == RemoveQueuedPlayer(w, s)
<1> SUFFICES Good(v) /\ ~In(v.queue, s) /\ v.sessions = w.sessions /\ v.offline = w.offline
  OBVIOUS
<1>1. w \in World /\ w.queue \in Seq(Session)
  BY DEF Good, World
<1>2. \A i, j \in DOMAIN w.queue : w.queue[i] = w.queue[j] => i = j
  BY DEF Good, Orderly
<1>3. ASSUME NEW u \in World, u.sessions = w.sessions, u.offline = w.offline,
             \A i, j \in DOMAIN u.queue : u.queue[i] = u.queue[j] => i = j,
             \A t \in Session : In(u.queue, t) => In(w.queue, t) /\ t # s,
             \A t \in Session : t # s /\ (In(u.queue, t) \/ ~In(w.queue, t))
                                  => u.st[t] = w.st[t]
      PROVE  Good(u) /\ ~In(u.queue, s)
  <2>1. Owned(u)
    BY <1>3 DEF Good, Owned, IsListed, IsKept
  <2>2. Orderly(u)
    BY <1>3 DEF Good, Orderly, IsListed
  <2>3. OthersCalm(u)
    BY <1>3 DEF Good, OthersCalm, Orderly, IsListed, IsKept
  <2>4. QED
    BY <1>3, <2>1, <2>2, <2>3 DEF Good
<1>4. CASE In(w.queue, s)
  <2> DEFINE r == [w.st[s] EXCEPT !.inQueue = FALSE]
             u == [w EXCEPT !.st = [w.st EXCEPT ![s] = r]]
             q == RemoveFirst(w.queue, s)
  <2>1. r \in SessionRecord
    <3>1. w.st[s] \in SessionRecord
      BY <1>1 DEF World
    <3>2. QED
      BY <3>1 DEF SessionRecord
  <2>2. u = [w EXCEPT !.st[s].inQueue = FALSE]
    BY <1>1 DEF World
  <2>3. s \in ToSet(w.queue)
    BY <1>4 DEF In, ToSet
  <2>4. v = AcceptFirst(u, q, GetActiveSessionCount(w))
    BY <2>2, <2>3 DEF RemoveQueuedPlayer
  <2>5. /\ q \in Seq(Session)
        /\ \A i, j \in DOMAIN q : q[i] = q[j] => i = j
        /\ \A t \in Session : In(q, t) => In(w.queue, t) /\ t # s
    BY <1>1, <1>2, <1>4, RemoveFirstProperties
  <2> HIDE DEF r, v, q
  <2>6. SameBut(w, u, {s})
    BY <1>1, <2>1, EditSession
  <2> HIDE DEF u
  <2>7. u \in World
    BY <2>6 DEF SameBut
  <2> DEFINE act == GetActiveSessionCount(w)
  <2> HIDE DEF act
  <2>8. v = AcceptFirst(u, q, act)
    BY <2>4 DEF act
  <2>9. /\ v \in World
        /\ v.sessions = u.sessions /\ v.offline = u.offline
        /\ \A i, j \in DOMAIN v.queue : v.queue[i] = v.queue[j] => i = j
        /\ \A t \in Session : In(v.queue, t) => In(q, t)
        /\ \A t \in Session : In(v.queue, t) \/ ~In(q, t) => v.st[t] = u.st[t]
    BY <2>5, <2>7, <2>8, AcceptFirstProperties
  <2>10. /\ v.sessions = w.sessions /\ v.offline = w.offline
         /\ \A t \in Session : In(v.queue, t) => In(w.queue, t) /\ t # s
         /\ \A t \in Session : t # s /\ (In(v.queue, t) \/ ~In(w.queue, t))
                                 => v.st[t] = w.st[t]
    BY <2>5, <2>6, <2>9 DEF SameBut
  <2>11. QED
    BY <1>3, <2>9, <2>10
<1>5. CASE ~In(w.queue, s)
  <2> DEFINE act == GetActiveSessionCount(w) - 1
             u == AcceptFirst(w, w.queue, act)
  <2>1. s \notin ToSet(w.queue)
    BY <1>5 DEF In, ToSet
  <2>2. v = NoteDisconnect(u, s)
    BY <2>1 DEF RemoveQueuedPlayer
  <2> HIDE DEF act
  <2>3. /\ u \in World
        /\ u.sessions = w.sessions /\ u.offline = w.offline
        /\ \A i, j \in DOMAIN u.queue : u.queue[i] = u.queue[j] => i = j
        /\ \A t \in Session : In(u.queue, t) => In(w.queue, t)
        /\ \A t \in Session : In(u.queue, t) \/ ~In(w.queue, t) => u.st[t] = w.st[t]
    BY <1>1, <1>2, AcceptFirstProperties
  <2> HIDE DEF u, v
  <2>4. Good(u) /\ ~In(u.queue, s)
    BY <1>3, <1>5, <2>3
  <2>5. SameBut(u, v, {})
    BY <2>2, <2>3, NoteDisconnectProperties
  <2>6. QED
    BY <2>3, <2>4, <2>5, GoodOnlySeesSessions DEF SameBut
<1>6. QED
  BY <1>4, <1>5

(* The offline session of the account gives way to s. *)
LEMMA PutOfflineProperties ==
    ASSUME NEW w \in World, NEW s \in Session
    PROVE  LET v == PutOffline(w, s)
               tmp == w.offline[Owner[s]] IN
           /\ v \in World
           /\ v.sessions = w.sessions /\ v.queue = w.queue
           /\ v.offline = [w.offline EXCEPT ![Owner[s]] = s]
           /\ \A t \in Session : t # tmp => v.st[t] = w.st[t]
           /\ tmp \in Session => Calm(v.st[tmp])
<1> DEFINE v == PutOffline(w, s)
           tmp == w.offline[Owner[s]]
           u == IF tmp # None THEN Delete(w, tmp) ELSE w
<1>1. Owner[s] \in Account
  BY ConstantsAssumption
<1>2. tmp # None => tmp \in Session
  BY <1>1 DEF World
<1>3. SameBut(w, u, {tmp}) /\ (tmp \in Session => Calm(u.st[tmp]))
  BY <1>2, DeleteProperties, ConstantsAssumption DEF SameBut
<1>4. v = [u EXCEPT !.offline[Owner[s]] = s]
  BY DEF PutOffline
<1> HIDE DEF u, v
<1>5. u \in World /\ u.offline = w.offline
  BY <1>3 DEF SameBut
<1> DEFINE f == [w.offline EXCEPT ![Owner[s]] = s]
<1>6. v = [u EXCEPT !.offline = f]
  BY <1>4, <1>5 DEF World
<1>7. f \in [Account -> Session \cup {None}]
  BY <1>1 DEF World
<1> HIDE DEF f
<1>8. /\ v \in World /\ v.sessions = u.sessions /\ v.queue = u.queue
      /\ v.st = u.st /\ v.offline = f
  BY <1>5, <1>6, <1>7 DEF World
<1>9. QED
  BY <1>3, <1>8 DEF SameBut, f, v

LEMMA UnlistProperties ==
    ASSUME NEW w \in World, NEW s \in Session
    PROVE  LET v == Unlist(w, s) IN
           /\ v \in World
           /\ v.offline = w.offline /\ v.queue = w.queue /\ v.st = w.st
           /\ v.sessions = [w.sessions EXCEPT ![Owner[s]] = None]
<1> DEFINE f == [w.sessions EXCEPT ![Owner[s]] = None]
<1>1. f \in [Account -> Session \cup {None}]
  BY ConstantsAssumption DEF World
<1>2. Unlist(w, s) = [w EXCEPT !.sessions = f]
  BY DEF Unlist, World
<1> HIDE DEF f
<1>3. QED
  BY <1>1, <1>2 DEF World, f

(* A listed session that is not in the queue can be kept offline, ... *)
LEMMA GoesOffline ==
    ASSUME NEW w, Good(w), NEW s \in Session, IsListed(w, s), ~In(w.queue, s)
    PROVE  Good(PutOffline(Unlist(w, s), s))
<1> DEFINE u == Unlist(w, s)
           v == PutOffline(u, s)
           tmp == w.offline[Owner[s]]
<1>1. w \in World /\ Owner[s] \in Account /\ None \notin Session
  BY ConstantsAssumption DEF Good
<1>2. /\ u \in World
      /\ u.offline = w.offline /\ u.queue = w.queue /\ u.st = w.st
      /\ u.sessions = [w.sessions EXCEPT ![Owner[s]] = None]
  BY <1>1, UnlistProperties
<1> HIDE DEF u
<1>3. /\ v \in World
      /\ v.sessions = u.sessions /\ v.queue = u.queue
      /\ v.offline = [w.offline EXCEPT ![Owner[s]] = s]
      /\ \A t \in Session : t # tmp => v.st[t] = w.st[t]
      /\ tmp \in Session => Calm(v.st[tmp])
  BY <1>2, PutOfflineProperties
<1> HIDE DEF v
<1>4. /\ \A t \in Session : Owner[t] \in Account
      /\ \A t \in Session : IsListed(v, t) <=> (IsListed(w, t) /\ t # s)
      /\ \A t \in Session : IsKept(v, t) <=> ((IsKept(w, t) /\ t # tmp) \/ t = s)
  <2>1. \A t \in Session : Owner[t] \in Account
    BY ConstantsAssumption
  <2>2. \A t \in Session :
           v.sessions[Owner[t]] = IF Owner[t] = Owner[s] THEN None ELSE w.sessions[Owner[t]]
    BY <1>1, <1>2, <1>3, <2>1 DEF World
  <2>3. \A t \in Session :
           v.offline[Owner[t]] = IF Owner[t] = Owner[s] THEN s ELSE w.offline[Owner[t]]
    BY <1>1, <1>3, <2>1 DEF World
  <2>4. tmp # None => Owner[tmp] = Owner[s]
    BY <1>1 DEF Good, Owned
  <2>5. QED
    BY <1>1, <2>1, <2>2, <2>3, <2>4 DEF IsListed, IsKept
<1>5. \A t \in Session : IsListed(w, t) => t # tmp
  BY <1>1 DEF Good, Owned, IsListed, IsKept
<1>6. Owned(v)
  <2>1. ASSUME NEW a \in Account, v.sessions[a] # None PROVE Owner[v.sessions[a]] = a
    BY <1>1, <1>2, <1>3, <2>1 DEF Good, Owned, World
  <2>2. ASSUME NEW a \in Account, v.offline[a] # None PROVE Owner[v.offline[a]] = a
    BY <1>1, <1>3, <2>2 DEF Good, Owned, World
  <2>3. QED
    BY <1>4, <2>1, <2>2 DEF Good, Owned
<1>7. Orderly(v)
  BY <1>2, <1>3, <1>4, <1>5 DEF Good, Orderly
<1>8. OthersCalm(v)
  BY <1>3, <1>4 DEF Good, OthersCalm
<1>9. QED
  BY <1>3, <1>6, <1>7, <1>8 DEF Good, v, u

(* ... or deleted. *)
LEMMA IsDeleted ==
    ASSUME NEW w, Good(w), NEW s \in Session, IsListed(w, s), ~In(w.queue, s)
    PROVE  Good(Delete(Unlist(w, s), s))
<1> DEFINE u == Unlist(w, s)
           v == Delete(u, s)
<1>1. w \in World /\ Owner[s] \in Account /\ None \notin Session
  BY ConstantsAssumption DEF Good
<1>2. /\ u \in World
      /\ u.offline = w.offline /\ u.queue = w.queue /\ u.st = w.st
      /\ u.sessions = [w.sessions EXCEPT ![Owner[s]] = None]
  BY <1>1, UnlistProperties
<1> HIDE DEF u
<1>3. SameBut(u, v, {s}) /\ Calm(v.st[s])
  BY <1>2, DeleteProperties
<1> HIDE DEF v
<1>4. /\ v \in World /\ v.sessions = u.sessions /\ v.offline = w.offline
      /\ v.queue = w.queue
      /\ \A t \in Session : t # s => v.st[t] = w.st[t]
  BY <1>2, <1>3 DEF SameBut
<1>5. \A t \in Session :
         /\ IsListed(v, t) <=> (IsListed(w, t) /\ t # s)
         /\ IsKept(v, t) <=> IsKept(w, t)
  <2>1. \A t \in Session : Owner[t] \in Account
    BY ConstantsAssumption
  <2>2. \A t \in Session :
           v.sessions[Owner[t]] = IF Owner[t] = Owner[s] THEN None ELSE w.sessions[Owner[t]]
    BY <1>1, <1>2, <1>4, <2>1 DEF World
  <2>3. QED
    BY <1>1, <1>4, <2>1, <2>2 DEF IsListed, IsKept
<1>6. Owned(v)
  <2>1. ASSUME NEW a \in Account, v.sessions[a] # None PROVE Owner[v.sessions[a]] = a
    BY <1>1, <1>2, <1>4, <2>1 DEF Good, Owned, World
  <2>2. QED
    BY <1>4, <1>5, <2>1 DEF Good, Owned
<1>7. Orderly(v)
  BY <1>4, <1>5 DEF Good, Orderly
<1>8. OthersCalm(v)
  BY <1>3, <1>4, <1>5 DEF Good, OthersCalm
<1>9. QED
  BY <1>4, <1>6, <1>7, <1>8 DEF Good, v, u

(* The world is ready to list s: nobody of its account waits, and whoever  *)
(* was listed for it is gone or kept.                                      *)
Ready(w, s) ==
    /\ w \in World
    /\ \A a \in Account : w.sessions[a] # None => Owner[w.sessions[a]] = a
    /\ \A a \in Account : w.offline[a] # None => Owner[w.offline[a]] = a
    /\ \A t \in Session : Owner[t] # Owner[s] => ~(IsListed(w, t) /\ IsKept(w, t))
    /\ ~IsKept(w, s)
    /\ \A i, j \in DOMAIN w.queue : w.queue[i] = w.queue[j] => i = j
    /\ \A t \in Session : In(w.queue, t) =>
          /\ Owner[t] # Owner[s]
          /\ IsListed(w, t) /\ w.st[t].inQueue /\ Calm(w.st[t])
    /\ \A t \in Session :
          (~IsListed(w, t) \/ Owner[t] = Owner[s]) /\ ~IsKept(w, t) => Calm(w.st[t])

LEMMA ListProperties ==
    ASSUME NEW w, NEW s \in Session, Ready(w, s)
    PROVE  LET v == List(w, s) IN
           /\ Good(v)
           /\ v.sessions = [w.sessions EXCEPT ![Owner[s]] = s]
           /\ v.offline = w.offline
<1> DEFINE f == [w.sessions EXCEPT ![Owner[s]] = s]
           u == [w EXCEPT !.sessions = f]
           v == List(w, s)
<1>1. w \in World /\ Owner[s] \in Account /\ None \notin Session
  BY ConstantsAssumption DEF Ready
<1>2. u = [w EXCEPT !.sessions[Owner[s]] = s]
  BY <1>1 DEF World
<1>3. f \in [Account -> Session \cup {None}]
  BY <1>1 DEF World
<1>4. /\ u \in World /\ u.sessions = f /\ u.offline = w.offline
      /\ u.queue = w.queue /\ u.st = w.st
  <2> HIDE DEF f
  <2>1. QED
    BY <1>1, <1>3 DEF World
<1>5. \A t \in Session : IsListed(u, t) <=> (IF Owner[t] = Owner[s] THEN t = s ELSE IsListed(w, t))
  <2>1. \A t \in Session : Owner[t] \in Account
    BY ConstantsAssumption
  <2>2. \A t \in Session :
           u.sessions[Owner[t]] = IF Owner[t] = Owner[s] THEN s ELSE w.sessions[Owner[t]]
    BY <1>1, <1>4, <2>1 DEF World
  <2>3. QED
    BY <2>2 DEF IsListed
<1>6. Owned(u)
  <2>1. ASSUME NEW a \in Account, u.sessions[a] # None PROVE Owner[u.sessions[a]] = a
    BY <1>1, <1>4, <2>1 DEF Ready, World
  <2>2. \A t \in Session : ~(IsListed(u, t) /\ IsKept(u, t))
    BY <1>4, <1>5 DEF Ready, IsKept
  <2>3. QED
    BY <1>4, <2>1, <2>2 DEF Ready, Owned
<1>7. OthersCalm(u)
  BY <1>4, <1>5 DEF Ready, OthersCalm, IsKept
<1> DEFINE g == [w.st[s] EXCEPT !.inQueue = TRUE]
           q == Append(w.queue, s)
<1>8. v = InitializeSession(u, s) \/ v = [u EXCEPT !.queue = q, !.st = [w.st EXCEPT ![s] = g]]
  <2> HIDE DEF f
  <2>1. [u EXCEPT !.queue = Append(@, s), !.st[s].inQueue = TRUE]
          = [u EXCEPT !.queue = q, !.st = [w.st EXCEPT ![s] = g]]
    BY <1>1, <1>4 DEF World
  <2> HIDE DEF u, q, g
  <2>2. QED
    BY <1>2, <2>1 DEF List
<1> HIDE DEF u, v, f
<1>9. CASE v = InitializeSession(u, s)
  <2>1. SameBut(u, v, {s})
    BY <1>4, <1>9, InitializeSessionProperties
  <2>2. /\ v \in World /\ v.sessions = u.sessions /\ v.offline = w.offline
        /\ v.queue = w.queue
        /\ \A t \in Session : t # s => v.st[t] = w.st[t]
    BY <1>4, <2>1 DEF SameBut
  <2>3. \A t \in Session : (IsListed(v, t) <=> IsListed(u, t)) /\ (IsKept(v, t) <=> IsKept(u, t))
    BY <1>4, <2>2 DEF IsListed, IsKept
  <2>4. Owned(v)
    BY <1>4, <1>6, <2>2, <2>3 DEF Owned
  <2>5. Orderly(v)
    BY <1>5, <2>2, <2>3 DEF Ready, Orderly
  <2>6. OthersCalm(v)
    BY <1>4, <1>5, <1>7, <2>2, <2>3 DEF OthersCalm
  <2>7. QED
    BY <1>4, <2>2, <2>4, <2>5, <2>6 DEF Good, f, v
<1>10. CASE v = [u EXCEPT !.queue = q, !.st = [w.st EXCEPT ![s] = g]]
  <2>1. w.st \in [Session -> SessionRecord] /\ w.queue \in Seq(Session)
    BY <1>1 DEF World
  <2>2. g \in SessionRecord
    BY <2>1 DEF SessionRecord
  <2>3. g.inQueue /\ (Calm(w.st[s]) => Calm(g))
    BY <2>1 DEF SessionRecord, Calm
  <2> HIDE DEF g
  <2> DEFINE h == [w.st EXCEPT ![s] = g]
  <2>4. h \in [Session -> SessionRecord] /\ h[s] = g /\ \A t \in Session : t # s => h[t] = w.st[t]
    BY <2>1, <2>2
  <2>5. q \in Seq(Session)
    BY <2>1, AppendProperties
  <2>6. /\ \A t \in Session : In(q, t) <=> (In(w.queue, t) \/ t = s)
        /\ \A i, j \in DOMAIN q : q[i] = q[j] => i = j
    <3>1. /\ DOMAIN w.queue = 1..Len(w.queue) /\ Len(w.queue) \in Nat
          /\ DOMAIN q = 1..(Len(w.queue) + 1)
          /\ \A i \in 1..Len(w.queue) : q[i] = w.queue[i]
          /\ q[Len(w.queue) + 1] = s
      BY <2>1, <2>5, AppendProperties, LenProperties
    <3>2. ~In(w.queue, s)
      BY DEF Ready
    <3>3. \A i, j \in DOMAIN w.queue : w.queue[i] = w.queue[j] => i = j
      BY DEF Ready
    <3> HIDE DEF q
    <3>4. \A t \in Session : In(q, t) <=> (In(w.queue, t) \/ t = s)
      BY <3>1 DEF In
    <3>5. \A i, j \in DOMAIN q : q[i] = q[j] => i = j
      BY <3>1, <3>2, <3>3 DEF In
    <3>6. QED
      BY <3>4, <3>5
  <2> HIDE DEF q, h
  <2>7. v = [u EXCEPT !.queue = q, !.st = h]
    BY <1>10 DEF h
  <2>8. /\ v \in World /\ v.sessions = u.sessions /\ v.offline = u.offline
        /\ v.queue = q /\ v.st = h
    BY <1>4, <2>4, <2>5, <2>7 DEF World
  <2>9. \A t \in Session : (IsListed(v, t) <=> IsListed(u, t)) /\ (IsKept(v, t) <=> IsKept(u, t))
    BY <2>8 DEF IsListed, IsKept
  <2>10. Owned(v)
    BY <1>6, <2>8, <2>9 DEF Owned
  <2>11. Calm(w.st[s])
    BY DEF Ready
  <2>12. Orderly(v)
    BY <1>5, <2>3, <2>4, <2>6, <2>8, <2>9, <2>11 DEF Ready, Orderly
  <2>13. OthersCalm(v)
    BY <1>4, <1>5, <1>7, <2>4, <2>8, <2>9 DEF OthersCalm
  <2>14. QED
    BY <1>4, <2>8, <2>10, <2>12, <2>13 DEF Good, f, v
<1>11. QED
  BY <1>8, <1>9, <1>10

-----------------------------------------------------------------------------
(* What an update may do to a world: the session s and the offline session *)
(* of its account change, and s does not change while it waits.            *)
Updated(w, v, s) ==
    /\ SameBut(w, v, {s, w.offline[Owner[s]]})
    /\ In(w.queue, s) => v.st[s] = w.st[s]

LEMMA UpdatedIsTransitive ==
    ASSUME NEW w, NEW u, NEW v, NEW s \in Session, Updated(w, u, s), Updated(u, v, s)
    PROVE  Updated(w, v, s)
BY DEF Updated, SameBut

LEMMA UpdatedIsReflexive ==
    ASSUME NEW w \in World, NEW s \in Session
    PROVE  Updated(w, w, s)
BY DEF Updated, SameBut

(* One session's record is changed; not that of one who waits. *)
LEMMA EditUpdates ==
    ASSUME NEW w \in World, NEW s \in Session, NEW t \in Session, NEW r \in SessionRecord,
           t \in {s, w.offline[Owner[s]]}, t = s => ~In(w.queue, s),
           In(w.queue, s) => ~IsKept(w, s)
    PROVE  Updated(w, [w EXCEPT !.st = [w.st EXCEPT ![t] = r]], s)
BY EditSession, ConstantsAssumption DEF Updated, SameBut, IsKept

(* A session that is updated is listed, and calm if it waits. *)
Updatable(w, s) ==
    /\ w \in World
    /\ In(w.queue, s) => ~IsKept(w, s) /\ w.st[s].inQueue /\ Calm(w.st[s])

LEMMA UpdatableKept ==
    ASSUME NEW w, NEW v, NEW s \in Session, Updatable(w, s), Updated(w, v, s)
    PROVE  Updatable(v, s)
BY DEF Updatable, Updated, SameBut, IsKept

(* Any one flag of such a session. *)
LEMMA FlagUpdates ==
    ASSUME NEW w, NEW s \in Session, Updatable(w, s), ~In(w.queue, s),
           NEW t \in Session, t \in {s, w.offline[Owner[s]]}, NEW b \in BOOLEAN
    PROVE  /\ Updated(w, [w EXCEPT !.st[t].closed = b], s)
           /\ Updated(w, [w EXCEPT !.st[t].kicked = b], s)
           /\ Updated(w, [w EXCEPT !.st[t].inQueue = b], s)
           /\ Updated(w, [w EXCEPT !.st[t].starting = b], s)
           /\ Updated(w, [w EXCEPT !.st[t].loading = b], s)
           /\ Updated(w, [w EXCEPT !.st[t].reading = b], s)
           /\ Updated(w, [w EXCEPT !.st[t].player = b], s)
<1>1. w \in World /\ w.st[t] \in SessionRecord
  BY DEF Updatable, World
<1>2. ASSUME NEW r \in SessionRecord
      PROVE  Updated(w, [w EXCEPT !.st = [w.st EXCEPT ![t] = r]], s)
  BY <1>1, EditUpdates
<1>3. Updated(w, [w EXCEPT !.st[t].closed = b], s)
  <2> DEFINE r == [w.st[t] EXCEPT !.closed = b]
  <2>1. r \in SessionRecord
    BY <1>1 DEF SessionRecord
  <2>2. [w EXCEPT !.st[t].closed = b] = [w EXCEPT !.st = [w.st EXCEPT ![t] = r]]
    BY <1>1 DEF World
  <2> HIDE DEF r
  <2>3. QED
    BY <1>2, <2>1, <2>2
<1>4. Updated(w, [w EXCEPT !.st[t].kicked = b], s)
  <2> DEFINE r == [w.st[t] EXCEPT !.kicked = b]
  <2>1. r \in SessionRecord
    BY <1>1 DEF SessionRecord
  <2>2. [w EXCEPT !.st[t].kicked = b] = [w EXCEPT !.st = [w.st EXCEPT ![t] = r]]
    BY <1>1 DEF World
  <2> HIDE DEF r
  <2>3. QED
    BY <1>2, <2>1, <2>2
<1>5. Updated(w, [w EXCEPT !.st[t].inQueue = b], s)
  <2> DEFINE r == [w.st[t] EXCEPT !.inQueue = b]
  <2>1. r \in SessionRecord
    BY <1>1 DEF SessionRecord
  <2>2. [w EXCEPT !.st[t].inQueue = b] = [w EXCEPT !.st = [w.st EXCEPT ![t] = r]]
    BY <1>1 DEF World
  <2> HIDE DEF r
  <2>3. QED
    BY <1>2, <2>1, <2>2
<1>6. Updated(w, [w EXCEPT !.st[t].starting = b], s)
  <2> DEFINE r == [w.st[t] EXCEPT !.starting = b]
  <2>1. r \in SessionRecord
    BY <1>1 DEF SessionRecord
  <2>2. [w EXCEPT !.st[t].starting = b] = [w EXCEPT !.st = [w.st EXCEPT ![t] = r]]
    BY <1>1 DEF World
  <2> HIDE DEF r
  <2>3. QED
    BY <1>2, <2>1, <2>2
<1>7. Updated(w, [w EXCEPT !.st[t].loading = b], s)
  <2> DEFINE r == [w.st[t] EXCEPT !.loading = b]
  <2>1. r \in SessionRecord
    BY <1>1 DEF SessionRecord
  <2>2. [w EXCEPT !.st[t].loading = b] = [w EXCEPT !.st = [w.st EXCEPT ![t] = r]]
    BY <1>1 DEF World
  <2> HIDE DEF r
  <2>3. QED
    BY <1>2, <2>1, <2>2
<1>8. Updated(w, [w EXCEPT !.st[t].reading = b], s)
  <2> DEFINE r == [w.st[t] EXCEPT !.reading = b]
  <2>1. r \in SessionRecord
    BY <1>1 DEF SessionRecord
  <2>2. [w EXCEPT !.st[t].reading = b] = [w EXCEPT !.st = [w.st EXCEPT ![t] = r]]
    BY <1>1 DEF World
  <2> HIDE DEF r
  <2>3. QED
    BY <1>2, <2>1, <2>2
<1>9. Updated(w, [w EXCEPT !.st[t].player = b], s)
  <2> DEFINE r == [w.st[t] EXCEPT !.player = b]
  <2>1. r \in SessionRecord
    BY <1>1 DEF SessionRecord
  <2>2. [w EXCEPT !.st[t].player = b] = [w EXCEPT !.st = [w.st EXCEPT ![t] = r]]
    BY <1>1 DEF World
  <2> HIDE DEF r
  <2>3. QED
    BY <1>2, <2>1, <2>2
<1>10. QED
  BY <1>3, <1>4, <1>5, <1>6, <1>7, <1>8, <1>9

(* Two updates one after the other, of a session that does not wait. *)
LEMMA UpdatedTwice ==
    ASSUME NEW w, NEW s \in Session, Updatable(w, s), ~In(w.queue, s),
           NEW u, Updated(w, u, s)
    PROVE  /\ Updatable(u, s) /\ ~In(u.queue, s)
           /\ u.offline = w.offline
           /\ \A v : Updated(u, v, s) => Updated(w, v, s)
BY UpdatableKept, UpdatedIsTransitive DEF Updated, SameBut

LEMMA LoginUpdates ==
    ASSUME NEW w, NEW s \in Session, Updatable(w, s), ~In(w.queue, s),
           NEW v \in Refused(w, s) \cup ReadCharacter(w, s)
    PROVE  Updated(w, v, s)
<1>1. CASE v \in Refused(w, s)
  <2>1. v = [w EXCEPT !.st[s].loading = TRUE]
    BY <1>1 DEF Refused
  <2>2. Updated(w, [w EXCEPT !.st[s].loading = TRUE], s)
    BY FlagUpdates
  <2>3. QED
    BY <2>1, <2>2
<1>2. CASE v \in ReadCharacter(w, s)
  <2> DEFINE u == [w EXCEPT !.st[s].loading = TRUE]
  <2>1. v = [u EXCEPT !.st[s].reading = TRUE]
    BY <1>2 DEF ReadCharacter
  <2>2. Updated(w, u, s)
    BY FlagUpdates
  <2> HIDE DEF u
  <2>3. Updated(u, v, s)
    BY <2>1, <2>2, UpdatedTwice, FlagUpdates
  <2>4. QED
    BY <2>2, <2>3, UpdatedTwice
<1>3. QED
  BY <1>1, <1>2

LEMMA ReturnUpdates ==
    ASSUME NEW w, NEW s \in Session, Updatable(w, s), ~In(w.queue, s),
           w.offline[Owner[s]] # None, NEW v \in ReturnToCharacter(w, s)
    PROVE  Updated(w, v, s)
<1> DEFINE off == w.offline[Owner[s]]
<1>1. off \in Session
  BY ConstantsAssumption DEF Updatable, World
<1>2. CASE v = [w EXCEPT !.st[off].player = FALSE,
                         !.st[s].player = TRUE, !.st[s].loading = FALSE]
  <2> DEFINE u1 == [w EXCEPT !.st[off].player = FALSE]
             u2 == [u1 EXCEPT !.st[s].player = TRUE]
  <2>1. v = [u2 EXCEPT !.st[s].loading = FALSE]
    BY <1>2
  <2>2. Updated(w, u1, s)
    BY <1>1, FlagUpdates
  <2> HIDE DEF u1
  <2>3. Updated(u1, u2, s)
    BY <2>2, UpdatedTwice, FlagUpdates
  <2> HIDE DEF u2
  <2>4. Updated(w, u2, s)
    BY <2>2, <2>3, UpdatedTwice
  <2>5. Updated(u2, v, s)
    BY <2>1, <2>4, UpdatedTwice, FlagUpdates
  <2>6. QED
    BY <2>4, <2>5, UpdatedTwice
<1>3. CASE v \in ReadCharacter([w EXCEPT !.st[off].kicked = TRUE], s)
  <2> DEFINE u == [w EXCEPT !.st[off].kicked = TRUE]
  <2>1. Updated(w, u, s)
    BY <1>1, FlagUpdates
  <2>2. v \in ReadCharacter(u, s)
    BY <1>3
  <2> HIDE DEF u
  <2>3. Updated(u, v, s)
    BY <2>1, <2>2, UpdatedTwice, LoginUpdates
  <2>4. QED
    BY <2>1, <2>3, UpdatedTwice
<1>4. QED
  BY <1>2, <1>3 DEF ReturnToCharacter

(* The packets, the callbacks and the logout of one session. *)
LEMMA PacketUpdates ==
    ASSUME NEW w, NEW s \in Session, Updatable(w, s), NEW v \in HandlePlayerLogin(w, s)
    PROVE  Updated(w, v, s)
<1>1. ~In(w.queue, s)
  BY DEF Updatable, HandlePlayerLogin
<1>2. QED
  BY <1>1, LoginUpdates, ReturnUpdates DEF HandlePlayerLogin

LEMMA CallbackUpdates ==
    ASSUME NEW w, NEW s \in Session, Updatable(w, s), NEW v \in ProcessQueryCallbacks(w, s)
    PROVE  Updated(w, v, s)
<1>1. ~In(w.queue, s)
  BY DEF Updatable, ProcessQueryCallbacks, Calm
<1>2. CASE v = [w EXCEPT !.st[s].starting = FALSE, !.st[s].inQueue = FALSE]
  <2> DEFINE u == [w EXCEPT !.st[s].starting = FALSE]
  <2>1. v = [u EXCEPT !.st[s].inQueue = FALSE]
    BY <1>2
  <2>2. Updated(w, u, s)
    BY <1>1, FlagUpdates
  <2> HIDE DEF u
  <2>3. Updated(u, v, s)
    BY <1>1, <2>1, <2>2, UpdatedTwice, FlagUpdates
  <2>4. QED
    BY <1>1, <2>2, <2>3, UpdatedTwice
<1>3. CASE v \in LoadCharacter(w, s)
  <2> DEFINE u1 == [w EXCEPT !.st[s].loading = FALSE]
             u2 == [u1 EXCEPT !.st[s].reading = FALSE]
             u3 == [u2 EXCEPT !.st[s].closed = TRUE]
  <2>1. v \in {[u2 EXCEPT !.st[s].player = TRUE], [u3 EXCEPT !.st[s].kicked = TRUE]}
    BY <1>3 DEF LoadCharacter
  <2>2. Updated(w, u1, s)
    BY <1>1, FlagUpdates
  <2> HIDE DEF u1
  <2>3. Updated(u1, u2, s)
    BY <1>1, <2>2, UpdatedTwice, FlagUpdates
  <2> HIDE DEF u2
  <2>4. Updated(w, u2, s)
    BY <1>1, <2>2, <2>3, UpdatedTwice
  <2>5. Updated(u2, u3, s) /\ Updated(u2, [u2 EXCEPT !.st[s].player = TRUE], s)
    BY <1>1, <2>4, UpdatedTwice, FlagUpdates
  <2> HIDE DEF u3
  <2>6. Updated(w, u3, s) /\ Updated(w, [u2 EXCEPT !.st[s].player = TRUE], s)
    BY <1>1, <2>4, <2>5, UpdatedTwice
  <2>7. Updated(u3, [u3 EXCEPT !.st[s].kicked = TRUE], s)
    BY <1>1, <2>6, UpdatedTwice, FlagUpdates
  <2>8. Updated(w, [u3 EXCEPT !.st[s].kicked = TRUE], s)
    BY <1>1, <2>6, <2>7, UpdatedTwice
  <2>9. QED
    BY <2>1, <2>6, <2>8
<1>4. QED
  BY <1>2, <1>3 DEF ProcessQueryCallbacks

LEMMA LogoutUpdates ==
    ASSUME NEW w, NEW s \in Session, Updatable(w, s), NEW v \in LogoutPlayer(w, s)
    PROVE  Updated(w, v, s)
<1>1. ~In(w.queue, s)
  BY DEF Updatable, LogoutPlayer, Calm
<1>2. v = [w EXCEPT !.st[s].player = FALSE]
  BY DEF LogoutPlayer
<1>3. Updated(w, [w EXCEPT !.st[s].player = FALSE], s)
  BY <1>1, FlagUpdates
<1>4. QED
  BY <1>2, <1>3

LEMMA UpdateUpdates ==
    ASSUME NEW s \in Session, Updatable(world, s), NEW v \in Update(s)
    PROVE  Updated(world, v, s)
<1> DEFINE packets == {world} \cup HandlePlayerLogin(world, s)
           callbacks == packets \cup UNION {ProcessQueryCallbacks(w, s) : w \in packets}
<1>1. \A w \in packets : Updated(world, w, s)
  BY PacketUpdates, UpdatedIsReflexive DEF Updatable
<1>2. \A w \in callbacks : Updated(world, w, s)
  <2> HIDE DEF packets
  <2>1. QED
    BY <1>1, CallbackUpdates, UpdatableKept, UpdatedIsTransitive
<1>3. v \in callbacks \cup UNION {LogoutPlayer(w, s) : w \in callbacks}
  BY DEF Update
<1> HIDE DEF callbacks
<1>4. QED
  BY <1>2, <1>3, LogoutUpdates, UpdatableKept, UpdatedIsTransitive

(* An update keeps a good world good. *)
LEMMA UpdatedIsGood ==
    ASSUME NEW w, Good(w), NEW s \in Session, IsListed(w, s), NEW v, Updated(w, v, s)
    PROVE  Good(v) /\ IsListed(v, s)
<1>1. /\ v \in World /\ v.sessions = w.sessions /\ v.offline = w.offline
      /\ v.queue = w.queue
      /\ \A t \in Session : t # s /\ t # w.offline[Owner[s]] => v.st[t] = w.st[t]
      /\ In(w.queue, s) => v.st[s] = w.st[s]
  BY DEF Updated, SameBut
<1>2. \A t \in Session : (IsListed(v, t) <=> IsListed(w, t)) /\ (IsKept(v, t) <=> IsKept(w, t))
  BY <1>1 DEF IsListed, IsKept
<1>3. Owned(v)
  BY <1>1, <1>2 DEF Good, Owned
<1>4. \A t \in Session : t = w.offline[Owner[s]] => IsKept(w, t)
  BY ConstantsAssumption DEF Good, Owned, IsKept
<1>5. Orderly(v)
  BY <1>1, <1>2, <1>4 DEF Good, Owned, Orderly
<1>6. OthersCalm(v)
  BY <1>1, <1>2, <1>4 DEF Good, OthersCalm
<1>7. QED
  BY <1>1, <1>2, <1>3, <1>5, <1>6 DEF Good

-----------------------------------------------------------------------------
(* The world after Init. *)
LEMMA InitIInv == Init => IInv
<1> SUFFICES ASSUME Init PROVE IInv
  OBVIOUS
<1> DEFINE n == [a \in Account |-> None]
           f == [s \in Session |-> Fresh]
<1>1. world = [sessions |-> n, offline |-> n, queue |-> <<>>, disconnects |-> {}, st |-> f]
  BY DEF Init
<1>2. n \in [Account -> Session \cup {None}] /\ \A a \in Account : n[a] = None
  OBVIOUS
<1>3. f \in [Session -> SessionRecord] /\ \A s \in Session : f[s] = Fresh
  BY FreshIsCalm
<1> HIDE DEF n, f
<1>4. <<>> \in Seq(Session) /\ DOMAIN <<>> = {}
  BY EmptySeq
<1>5. world \in World
  BY <1>1, <1>2, <1>3, <1>4 DEF World
<1>6. world.sessions = n /\ world.offline = n /\ world.queue = <<>> /\ world.st = f
  BY <1>1
<1>7. \A s \in Session : ~IsListed(world, s) /\ ~IsKept(world, s)
  BY <1>2, <1>6, ConstantsAssumption DEF IsListed, IsKept
<1>8. Owned(world)
  BY <1>2, <1>6, <1>7 DEF Owned
<1>9. Orderly(world)
  BY <1>4, <1>6 DEF Orderly, In
<1>10. OthersCalm(world)
  BY <1>3, <1>6, FreshIsCalm DEF OthersCalm
<1>11. Good(world)
  BY <1>5, <1>8, <1>9, <1>10 DEF Good
<1>12. IncomingIsNew
  BY <1>4 DEF Init, IncomingIsNew, In
<1>13. QED
  BY <1>4, <1>11, <1>12 DEF Init, IInv, TodoIsThere

(* Places in numbers. *)
LEMMA PlacesCounted ==
    ASSUME IInv, NEW s \in Session
    PROVE  Places(s) = (IF In(incoming, s) THEN 1 ELSE 0)
                     + (IF IsListed(world, s) THEN 1 ELSE 0)
                     + (IF IsKept(world, s) THEN 1 ELSE 0)
<1> DEFINE I == {i \in DOMAIN incoming : incoming[i] = s}
           L == {a \in Account : world.sessions[a] = s}
           K == {a \in Account : world.offline[a] = s}
<1>1. Owner[s] \in Account /\ s # None
  BY ConstantsAssumption
<1>2. Cardinality({}) = 0 /\ \A x : Cardinality({x}) = 1
  BY FS_EmptySet, FS_Singleton
<1>3. Cardinality(I) = IF In(incoming, s) THEN 1 ELSE 0
  <2>1. CASE In(incoming, s)
    <3>1. PICK i \in DOMAIN incoming : incoming[i] = s
      BY <2>1 DEF In
    <3>2. I = {i}
      BY <3>1 DEF IInv, IncomingIsNew
    <3>3. QED
      BY <1>2, <2>1, <3>2
  <2>2. CASE ~In(incoming, s)
    <3>1. I = {}
      BY <2>2 DEF In
    <3>2. QED
      BY <1>2, <2>2, <3>1
  <2>3. QED
    BY <2>1, <2>2
<1>4. L = IF IsListed(world, s) THEN {Owner[s]} ELSE {}
  BY <1>1 DEF IInv, Good, Owned, IsListed
<1>5. K = IF IsKept(world, s) THEN {Owner[s]} ELSE {}
  BY <1>1 DEF IInv, Good, Owned, IsKept
<1>6. Cardinality(L) = (IF IsListed(world, s) THEN 1 ELSE 0)
  BY <1>2, <1>4
<1>7. Cardinality(K) = (IF IsKept(world, s) THEN 1 ELSE 0)
  BY <1>2, <1>5
<1>8. QED
  BY <1>3, <1>6, <1>7 DEF Places

(* Whoever waits, does once. *)
LEMMA QueueCounted ==
    ASSUME IInv
    PROVE  Cardinality(Waiting) = Len(world.queue)
<1> DEFINE q == world.queue
           n == Len(q)
<1>1. q \in Seq(Session) /\ n \in Nat /\ DOMAIN q = 1..n
  BY LenProperties DEF IInv, Good, World
<1>2. Waiting = {q[i] : i \in 1..n}
  BY <1>1 DEF Waiting, ToSet
<1>3. \A i, j \in 1..n : q[i] = q[j] => i = j
  BY <1>1 DEF IInv, Good, Orderly
<1> HIDE DEF q, n
<1> DEFINE f == [i \in 1..n |-> q[i]]
<1>4. f \in Bijection(1..n, Waiting)
  BY <1>2, <1>3 DEF Bijection, Injection, IsInjective, Surjection
<1>5. ExistsBijection(1..n, Waiting)
  BY <1>4 DEF ExistsBijection
<1>6. QED
  BY <1>1, <1>5, FS_CountingElements DEF n, q

-----------------------------------------------------------------------------
(* The network threads, the clock and the configuration. *)

(* Steps that change nothing in the maps but flags of known sessions. *)
LEMMA PlacesKept ==
    ASSUME IInv, world'.sessions = world.sessions, world'.offline = world.offline,
           UNCHANGED <<incoming, phase, todo>>
    PROVE  IncomingIsNew' /\ TodoIsThere'
BY DEF IInv, IncomingIsNew, TodoIsThere, IsListed, IsKept, Listed, Kept

LEMMA AddSessionKeepsIInv ==
    ASSUME IInv, NEW s \in Session, AddSession(s)
    PROVE  IInv'
<1>1. ~In(incoming, s) /\ ~IsListed(world, s) /\ ~IsKept(world, s)
  BY PlacesCounted DEF AddSession
<1>2. /\ incoming' \in Seq(Session)
      /\ DOMAIN incoming = 1..Len(incoming) /\ Len(incoming) \in Nat
      /\ DOMAIN incoming' = 1..(Len(incoming) + 1)
      /\ \A i \in 1..Len(incoming) : incoming'[i] = incoming[i]
      /\ incoming'[Len(incoming) + 1] = s
  BY AppendProperties, LenProperties DEF AddSession, IInv
<1>3. \A i, j \in DOMAIN incoming' : incoming'[i] = incoming'[j] => i = j
  BY <1>1, <1>2 DEF IInv, IncomingIsNew, In
<1>4. \A t \in Session : In(incoming', t) => In(incoming, t) \/ t = s
  BY <1>2 DEF In
<1>5. UNCHANGED <<world, limit, phase, todo, stopping>>
  BY DEF AddSession
<1>6. IncomingIsNew'
  BY <1>1, <1>3, <1>4, <1>5 DEF IInv, IncomingIsNew
<1>7. TodoIsThere'
  BY <1>5 DEF IInv, TodoIsThere, Listed, Kept
<1>8. QED
  BY <1>2, <1>5, <1>6, <1>7 DEF IInv

(* A flag that Good does not speak of. *)
LEMMA FlagKeepsGood ==
    ASSUME NEW w, Good(w), NEW v \in World,
           v.sessions = w.sessions, v.offline = w.offline,
           \/ v.queue = w.queue
           \/ v.queue = <<>>,
           \A t \in Session : /\ v.st[t].inQueue = w.st[t].inQueue
                              /\ Calm(v.st[t]) <=> Calm(w.st[t])
    PROVE  Good(v)
<1>1. \A t \in Session : (IsListed(v, t) <=> IsListed(w, t)) /\ (IsKept(v, t) <=> IsKept(w, t))
  BY DEF IsListed, IsKept
<1>2. Owned(v)
  BY <1>1 DEF Good, Owned
<1>3. Orderly(v)
  <2>1. DOMAIN <<>> = {}
    BY EmptySeq
  <2>2. QED
    BY <1>1, <2>1 DEF Good, Orderly, In
<1>4. OthersCalm(v)
  BY <1>1 DEF Good, OthersCalm
<1>5. QED
  BY <1>2, <1>3, <1>4 DEF Good

LEMMA SocketClosesKeepsIInv ==
    ASSUME IInv, NEW s \in Session, SocketCloses(s)
    PROVE  IInv'
<1> DEFINE r == [world.st[s] EXCEPT !.closed = TRUE]
<1>1. world \in World /\ world.st[s] \in SessionRecord
  BY DEF IInv, Good, World
<1>2. r \in SessionRecord
  BY <1>1 DEF SessionRecord
<1>3. r.inQueue = world.st[s].inQueue /\ (Calm(r) <=> Calm(world.st[s]))
  BY <1>1 DEF SessionRecord, Calm
<1>4. world' = [world EXCEPT !.st = [world.st EXCEPT ![s] = r]]
  BY <1>1 DEF SocketCloses, World
<1> HIDE DEF r
<1>5. SameBut(world, world', {s}) /\ world'.st[s] = r
  BY <1>1, <1>2, <1>4, EditSession
<1>6. \A t \in Session : /\ world'.st[t].inQueue = world.st[t].inQueue
                         /\ Calm(world'.st[t]) <=> Calm(world.st[t])
  BY <1>3, <1>5 DEF SameBut
<1>7. Good(world')
  BY <1>5, <1>6, FlagKeepsGood DEF IInv, SameBut
<1>8. UNCHANGED <<incoming, limit, phase, todo, stopping>>
  BY DEF SocketCloses
<1>9. IncomingIsNew' /\ TodoIsThere'
  BY <1>5, <1>8, PlacesKept DEF SameBut
<1>10. QED
  BY <1>7, <1>8, <1>9 DEF IInv

LEMMA ToleranceEndsKeepsIInv ==
    ASSUME IInv, NEW a \in Account, ToleranceEnds(a)
    PROVE  IInv'
<1>1. world \in World
  BY DEF IInv, Good
<1>2. SameBut(world, world', {})
  BY <1>1 DEF ToleranceEnds, World, SameBut
<1>3. Good(world')
  BY <1>2, GoodOnlySeesSessions DEF IInv
<1>4. UNCHANGED <<incoming, limit, phase, todo, stopping>>
  BY DEF ToleranceEnds
<1>5. IncomingIsNew' /\ TodoIsThere'
  BY <1>2, <1>4, PlacesKept DEF SameBut
<1>6. QED
  BY <1>3, <1>4, <1>5 DEF IInv

LEMMA KickAllKeepsIInv ==
    ASSUME IInv, KickAll
    PROVE  IInv'
<1> DEFINE known == {world.sessions[a] : a \in Listed}
           kept == {world.offline[a] : a \in Kept}
           f == [s \in Session |-> [world.st[s] EXCEPT
                     !.closed = world.st[s].closed \/ s \in known,
                     !.kicked = world.st[s].kicked \/ s \in known \cup kept]]
<1>1. world \in World
  BY DEF IInv, Good
<1>2. world' = [world EXCEPT !.queue = <<>>, !.st = f]
  BY DEF KickAll
<1>3. ASSUME NEW s \in Session
      PROVE  /\ f[s] \in SessionRecord
             /\ f[s].inQueue = world.st[s].inQueue
             /\ Calm(f[s]) <=> Calm(world.st[s])
  <2> DEFINE c == world.st[s].closed \/ s \in known
             k == world.st[s].kicked \/ s \in known \cup kept
  <2>1. world.st[s] \in SessionRecord /\ world.st[s].closed \in BOOLEAN
        /\ world.st[s].kicked \in BOOLEAN
    BY <1>1 DEF World, SessionRecord
  <2>2. c \in BOOLEAN /\ k \in BOOLEAN
    BY <2>1
  <2>3. f[s] = [world.st[s] EXCEPT !.closed = c, !.kicked = k]
    OBVIOUS
  <2> HIDE DEF c, k, f
  <2>4. f[s] \in SessionRecord
    BY <2>1, <2>2, <2>3 DEF SessionRecord
  <2>5. /\ f[s].inQueue = world.st[s].inQueue /\ f[s].player = world.st[s].player
        /\ f[s].starting = world.st[s].starting /\ f[s].reading = world.st[s].reading
    BY <2>1, <2>3 DEF SessionRecord
  <2>6. QED
    BY <2>4, <2>5 DEF Calm
<1>4. f \in [Session -> SessionRecord]
  BY <1>3
<1> HIDE DEF f
<1>5. <<>> \in Seq(Session)
  BY EmptySeq
<1>6. /\ world' \in World /\ world'.sessions = world.sessions
      /\ world'.offline = world.offline /\ world'.queue = <<>> /\ world'.st = f
  BY <1>1, <1>2, <1>4, <1>5 DEF World
<1>7. Good(world')
  BY <1>3, <1>6, FlagKeepsGood DEF IInv
<1>8. UNCHANGED <<incoming, limit, phase, todo>> /\ stopping' = TRUE
  BY DEF KickAll
<1>9. IncomingIsNew' /\ TodoIsThere'
  BY <1>6, <1>8, PlacesKept
<1>10. QED
  BY <1>7, <1>8, <1>9 DEF IInv

(* The steps between the parts of UpdateSessions, and the reload. *)
LEMMA PhaseKeepsIInv ==
    ASSUME IInv, StartUpdates \/ StartOffline \/ EndUpdate
                 \/ \E n \in Limits : SetPlayerAmountLimit(n)
    PROVE  IInv'
<1>1. UNCHANGED <<incoming, world>>
  BY DEF StartUpdates, StartOffline, EndUpdate, SetPlayerAmountLimit
<1>2. Good(world)' /\ IncomingIsNew'
  BY <1>1 DEF IInv, IncomingIsNew
<1>3. /\ limit' \in Limits /\ phase' \in {"add", "update", "offline", "stopped"}
      /\ todo' \subseteq Account /\ stopping' \in BOOLEAN
      /\ TodoIsThere'
  BY <1>1 DEF StartUpdates, StartOffline, EndUpdate, SetPlayerAmountLimit, IInv,
     TodoIsThere, Listed, Kept
<1>4. QED
  BY <1>1, <1>2, <1>3 DEF IInv

-----------------------------------------------------------------------------
(* AddSession_.  *)
LEMMA AddedKeepsIInv ==
    ASSUME IInv, NEW s \in Session, Adding(s), Good(world'),
           \A t \in Session : IsListed(world', t) => IsListed(world, t) \/ t = s,
           \A t \in Session : IsKept(world', t) => IsKept(world, t) \/ IsListed(world, t)
    PROVE  IInv'
<1>1. /\ incoming # <<>> /\ s = Head(incoming) /\ incoming' = Tail(incoming)
      /\ phase = "add" /\ UNCHANGED <<limit, phase, todo, stopping>>
  BY DEF Adding
<1>2. /\ incoming' \in Seq(Session)
      /\ DOMAIN incoming = 1..Len(incoming) /\ Len(incoming) \in Nat \ {0}
      /\ DOMAIN incoming' = 1..(Len(incoming) - 1)
      /\ \A i \in 1..(Len(incoming) - 1) : incoming'[i] = incoming[i + 1]
      /\ Head(incoming) = incoming[1]
  BY <1>1, HeadTailProperties, LenProperties, EmptySeq DEF IInv
<1>3. \A i, j \in DOMAIN incoming : incoming[i] = incoming[j] => i = j
  BY DEF IInv, IncomingIsNew
<1>4. \A i, j \in DOMAIN incoming' : incoming'[i] = incoming'[j] => i = j
  BY <1>2, <1>3
<1>5. \A t \in Session : In(incoming', t) => In(incoming, t) /\ t # s
  BY <1>1, <1>2, <1>3 DEF In
<1>6. IncomingIsNew'
  BY <1>4, <1>5 DEF IInv, IncomingIsNew
<1>7. TodoIsThere'
  BY <1>1 DEF TodoIsThere
<1>8. QED
  BY <1>1, <1>2, <1>6, <1>7 DEF IInv

(* The session to be added is known nowhere else yet. *)
LEMMA AddedIsNew ==
    ASSUME IInv, NEW s \in Session, Adding(s)
    PROVE  ~IsListed(world, s) /\ ~IsKept(world, s)
<1>1. incoming # <<>> /\ s = Head(incoming) /\ incoming \in Seq(Session)
  BY DEF Adding, IInv
<1>2. 1 \in DOMAIN incoming /\ incoming[1] = s
  BY <1>1, HeadTailProperties, LenProperties, EmptySeq
<1>3. In(incoming, s)
  BY <1>2 DEF In
<1>4. QED
  BY <1>3 DEF IInv, IncomingIsNew

LEMMA RefuseKeepsIInv ==
    ASSUME IInv, NEW s \in Session, RefuseSession(s)
    PROVE  IInv'
<1>1. Adding(s) /\ world' = Delete(world, s) /\ Good(world)
  BY DEF RefuseSession, IInv
<1>2. ~IsListed(world, s) /\ ~IsKept(world, s)
  BY <1>1, AddedIsNew
<1>3. SameBut(world, world', {s}) /\ Calm(world'.st[s])
  BY <1>1, DeleteProperties DEF Good
<1>4. \A t \in Session : /\ IsListed(world', t) <=> IsListed(world, t)
                         /\ IsKept(world', t) <=> IsKept(world, t)
  BY <1>3 DEF SameBut, IsListed, IsKept
<1>5. Owned(world')
  BY <1>1, <1>3, <1>4 DEF Good, Owned, SameBut
<1>6. Orderly(world')
  BY <1>1, <1>2, <1>3, <1>4 DEF Good, Orderly, SameBut
<1>7. OthersCalm(world')
  BY <1>1, <1>3, <1>4 DEF Good, OthersCalm, SameBut
<1>8. Good(world')
  BY <1>3, <1>5, <1>6, <1>7 DEF Good, SameBut
<1>9. QED
  BY <1>1, <1>4, <1>8, AddedKeepsIInv

(* Listing s in a world in which only its own account has been touched. *)
LEMMA ListKeepsIInv ==
    ASSUME IInv, NEW s \in Session, Adding(s), NEW w, Ready(w, s), world' = List(w, s),
           w.sessions = world.sessions,
           \A t \in Session : IsKept(w, t) => IsKept(world, t) \/ IsListed(world, t)
    PROVE  IInv'
<1>1. /\ Good(world')
      /\ world'.sessions = [world.sessions EXCEPT ![Owner[s]] = s]
      /\ world'.offline = w.offline
  BY ListProperties
<1>2. world \in World /\ Owner[s] \in Account /\ \A t \in Session : Owner[t] \in Account
  BY ConstantsAssumption DEF IInv, Good
<1>3. \A t \in Session : IsListed(world', t) => IsListed(world, t) \/ t = s
  BY <1>1, <1>2 DEF IsListed, World
<1>4. \A t \in Session : IsKept(world', t) => IsKept(world, t) \/ IsListed(world, t)
  BY <1>1 DEF IsKept
<1>5. QED
  BY <1>1, <1>3, <1>4, AddedKeepsIInv

LEMMA AddFirstKeepsIInv ==
    ASSUME IInv, NEW s \in Session, AddFirstSession(s)
    PROVE  IInv'
<1>1. Adding(s) /\ world' = List(world, s) /\ Old(s) = None /\ Good(world)
  BY DEF AddFirstSession, IInv
<1>2. ~IsListed(world, s) /\ ~IsKept(world, s)
  BY <1>1, AddedIsNew
<1>3. \A t \in Session : Owner[t] = Owner[s] => ~IsListed(world, t)
  BY <1>1, ConstantsAssumption DEF Old, IsListed
<1>4. Ready(world, s)
  BY <1>1, <1>2, <1>3 DEF Ready, Good, Owned, Orderly, OthersCalm
<1>5. QED
  BY <1>1, <1>4, ListKeepsIInv

(* The old session, out of the queue, is kept or deleted before s comes.   *)
LEMMA DisposedIsReady ==
    ASSUME NEW w, Good(w), NEW s \in Session, NEW o \in Session,
           Owner[o] = Owner[s], o # s, IsListed(w, o), ~In(w.queue, o), ~IsKept(w, s),
           NEW stays \in BOOLEAN
    PROVE  LET v == Dispose(w, o, stays) IN
           /\ Ready(v, s) /\ v.sessions = w.sessions
           /\ \A t \in Session : IsKept(v, t) => IsKept(w, t) \/ t = o
<1> DEFINE v == Dispose(w, o, stays)
           tmp == w.offline[Owner[o]]
<1>1. /\ w \in World /\ Owner[o] \in Account /\ None \notin Session
      /\ \A t \in Session : Owner[t] \in Account
  BY ConstantsAssumption DEF Good
<1>2. \A t \in Session : IsListed(w, t) /\ Owner[t] = Owner[s] => t = o
  BY DEF IsListed
<1>3. \A t \in Session : In(w.queue, t) => IsListed(w, t) /\ Owner[t] # Owner[s]
  BY <1>2 DEF Good, Orderly
<1>4. CASE stays
  <2>1. /\ v \in World
        /\ v.sessions = w.sessions /\ v.queue = w.queue
        /\ v.offline = [w.offline EXCEPT ![Owner[o]] = o]
        /\ \A t \in Session : t # tmp => v.st[t] = w.st[t]
        /\ tmp \in Session => Calm(v.st[tmp])
    BY <1>1, <1>4, PutOfflineProperties DEF Dispose
  <2> HIDE DEF v
  <2>2. tmp # None => Owner[tmp] = Owner[s] /\ ~IsListed(w, tmp) /\ tmp \in Session
    BY <1>1 DEF Good, Owned, IsListed, IsKept, World
  <2> HIDE DEF tmp
  <2>3. \A t \in Session : IsListed(v, t) <=> IsListed(w, t)
    BY <2>1 DEF IsListed
  <2>4. \A t \in Session :
           v.offline[Owner[t]] = IF Owner[t] = Owner[o] THEN o ELSE w.offline[Owner[t]]
    BY <1>1, <2>1 DEF World
  <2>5. \A t \in Session :
           IsKept(v, t) <=> IF Owner[t] = Owner[s] THEN t = o ELSE IsKept(w, t)
    BY <2>4 DEF IsKept
  <2>6. \A t \in Session : Owner[t] = Owner[s] /\ IsKept(w, t) => t = tmp
    BY DEF IsKept, tmp
  <2>7. /\ \A a \in Account : v.sessions[a] # None => Owner[v.sessions[a]] = a
        /\ \A a \in Account : v.offline[a] # None => Owner[v.offline[a]] = a
    BY <1>1, <2>1 DEF Good, Owned, World
  <2>8. \A t \in Session : Owner[t] # Owner[s] => ~(IsListed(v, t) /\ IsKept(v, t))
    BY <2>3, <2>5 DEF Good, Owned
  <2>9. \A t \in Session : In(v.queue, t) =>
          Owner[t] # Owner[s] /\ IsListed(v, t) /\ v.st[t].inQueue /\ Calm(v.st[t])
    BY <1>1, <1>3, <2>1, <2>2, <2>3 DEF Good, Orderly
  <2>10. \A t \in Session :
           (~IsListed(v, t) \/ Owner[t] = Owner[s]) /\ ~IsKept(v, t) => Calm(v.st[t])
    BY <1>2, <2>1, <2>2, <2>3, <2>5, <2>6 DEF Good, OthersCalm
  <2>11. ~IsKept(v, s)
    BY <2>5
  <2>12. \A i, j \in DOMAIN v.queue : v.queue[i] = v.queue[j] => i = j
    BY <2>1 DEF Good, Orderly
  <2>13. Ready(v, s)
    BY <2>1, <2>7, <2>8, <2>9, <2>10, <2>11, <2>12 DEF Ready
  <2>14. QED
    BY <2>1, <2>5, <2>13 DEF v
<1>5. CASE ~stays
  <2>1. SameBut(w, v, {o}) /\ Calm(v.st[o])
    BY <1>1, <1>5, DeleteProperties DEF Dispose
  <2> HIDE DEF v
  <2>2. /\ v \in World /\ v.sessions = w.sessions /\ v.offline = w.offline
        /\ v.queue = w.queue
        /\ \A t \in Session : t # o => v.st[t] = w.st[t]
    BY <2>1 DEF SameBut
  <2>3. \A t \in Session : (IsListed(v, t) <=> IsListed(w, t)) /\ (IsKept(v, t) <=> IsKept(w, t))
    BY <2>2 DEF IsListed, IsKept
  <2>4. \A t \in Session :
           (~IsListed(v, t) \/ Owner[t] = Owner[s]) /\ ~IsKept(v, t) => Calm(v.st[t])
    BY <1>2, <2>1, <2>2, <2>3 DEF Good, OthersCalm
  <2>5. \A t \in Session : In(v.queue, t) =>
          Owner[t] # Owner[s] /\ IsListed(v, t) /\ v.st[t].inQueue /\ Calm(v.st[t])
    BY <1>3, <2>2, <2>3 DEF Good, Orderly
  <2>6. Ready(v, s)
    BY <2>2, <2>3, <2>4, <2>5 DEF Ready, Good, Owned, Orderly
  <2>7. QED
    BY <2>2, <2>3, <2>6 DEF v
<1>6. QED
  BY <1>4, <1>5

LEMMA ReplaceKeepsIInv ==
    ASSUME IInv, NEW s \in Session, ReplaceSession(s)
    PROVE  IInv'
<1> DEFINE o == Old(s)
           r == [world.st[o] EXCEPT !.closed = TRUE]
           kicked == [world EXCEPT !.st[o].closed = TRUE]
           removed == RemoveQueuedPlayer(kicked, o)
<1>1. Adding(s) /\ o # None /\ Good(world) /\ world \in World
  BY DEF ReplaceSession, IInv, Good
<1>2. PICK stays \in {FALSE, MayStay(kicked, o)} : world' = List(Dispose(removed, o, stays), s)
  BY DEF ReplaceSession
<1>3. stays \in BOOLEAN
  BY <1>2 DEF MayStay
<1>4. ~IsListed(world, s) /\ ~IsKept(world, s)
  BY <1>1, AddedIsNew
<1>5. o \in Session /\ Owner[o] = Owner[s] /\ IsListed(world, o) /\ o # s
  BY <1>1, <1>4, ConstantsAssumption DEF Good, Owned, IsListed, Old, World
<1> HIDE DEF o
<1>6. world.st[o] \in SessionRecord
  BY <1>1, <1>5 DEF World
<1>7. r \in SessionRecord
  BY <1>6 DEF SessionRecord
<1>8. r.inQueue = world.st[o].inQueue /\ (Calm(r) <=> Calm(world.st[o]))
  BY <1>6 DEF SessionRecord, Calm
<1>9. kicked = [world EXCEPT !.st = [world.st EXCEPT ![o] = r]]
  BY <1>1 DEF World
<1> HIDE DEF r, kicked
<1>10. SameBut(world, kicked, {o}) /\ kicked.st[o] = r
  BY <1>1, <1>5, <1>7, <1>9, EditSession
<1>11. \A t \in Session : /\ kicked.st[t].inQueue = world.st[t].inQueue
                          /\ Calm(kicked.st[t]) <=> Calm(world.st[t])
  BY <1>8, <1>10 DEF SameBut
<1>12. Good(kicked) /\ IsListed(kicked, o)
  BY <1>1, <1>5, <1>10, <1>11, FlagKeepsGood DEF SameBut, IsListed
<1>13. /\ Good(removed) /\ ~In(removed.queue, o)
       /\ removed.sessions = world.sessions /\ removed.offline = world.offline
  BY <1>5, <1>10, <1>12, RemoveQueuedPlayerProperties DEF SameBut
<1> HIDE DEF removed
<1> DEFINE w == Dispose(removed, o, stays)
<1>14. \A t \in Session : /\ IsListed(removed, t) <=> IsListed(world, t)
                          /\ IsKept(removed, t) <=> IsKept(world, t)
  BY <1>13 DEF IsListed, IsKept
<1>15. /\ Ready(w, s) /\ w.sessions = removed.sessions
       /\ \A t \in Session : IsKept(w, t) => IsKept(removed, t) \/ t = o
  BY <1>3, <1>4, <1>5, <1>13, <1>14, DisposedIsReady
<1> HIDE DEF w
<1>16. world' = List(w, s)
  BY <1>2 DEF w
<1>17. QED
  BY <1>1, <1>5, <1>13, <1>14, <1>15, <1>16, ListKeepsIInv

-----------------------------------------------------------------------------
(* UpdateSessions. *)
LEMMA VisitKeepsIInv ==
    ASSUME IInv, NEW a \in Account, Visit(a), Good(world'),
           \A b \in Account : b # a => world'.sessions[b] = world.sessions[b],
           \A t \in Session : IsListed(world', t) => IsListed(world, t),
           \A t \in Session : IsKept(world', t) => IsKept(world, t) \/ IsListed(world, t)
    PROVE  IInv'
<1>1. /\ phase = "update" /\ a \in todo /\ todo' = todo \ {a}
      /\ UNCHANGED <<incoming, limit, phase, stopping>>
  BY DEF Visit
<1>2. IncomingIsNew'
  BY <1>1 DEF IInv, IncomingIsNew
<1>3. TodoIsThere'
  BY <1>1 DEF IInv, TodoIsThere, Listed
<1>4. QED
  BY <1>1, <1>2, <1>3 DEF IInv

LEMMA VisitedIsListed ==
    ASSUME IInv, NEW a \in Account, Visit(a)
    PROVE  /\ world.sessions[a] \in Session /\ Owner[world.sessions[a]] = a
           /\ IsListed(world, world.sessions[a])
BY DEF IInv, Visit, TodoIsThere, Listed, Good, World, Owned, IsListed

(* s is taken out of the maps, the queue first. *)
LEMMA LeavesKeepsIInv ==
    ASSUME IInv, NEW a \in Account, Visit(a), NEW s \in Session, Owner[s] = a,
           NEW w, Good(w), IsListed(w, s), ~In(w.queue, s),
           w.sessions = world.sessions, w.offline = world.offline,
           world' \in {PutOffline(Unlist(w, s), s), Delete(Unlist(w, s), s)}
    PROVE  IInv'
<1> DEFINE u == Unlist(w, s)
<1>1. Good(world')
  BY GoesOffline, IsDeleted
<1>2. /\ u \in World /\ u.offline = w.offline
      /\ u.sessions = [w.sessions EXCEPT ![Owner[s]] = None]
  BY UnlistProperties DEF Good
<1>3. world' \in {PutOffline(u, s), Delete(u, s)}
  OBVIOUS
<1> HIDE DEF u
<1>4. /\ world'.sessions = u.sessions
      /\ \/ world'.offline = [w.offline EXCEPT ![Owner[s]] = s]
         \/ world'.offline = w.offline
  BY <1>2, <1>3, PutOfflineProperties, DeleteProperties DEF SameBut
<1>5. w \in World /\ None \notin Session /\ \A t \in Session : Owner[t] \in Account
  BY ConstantsAssumption DEF Good
<1>6. \A b \in Account : b # a => world'.sessions[b] = world.sessions[b]
  BY <1>2, <1>4, <1>5 DEF World
<1>7. \A t \in Session : IsListed(world', t) => IsListed(world, t)
  BY <1>2, <1>4, <1>5 DEF World, IsListed
<1>8. IsListed(world, s)
  BY DEF IsListed
<1>9. \A t \in Session : IsKept(world', t) => IsKept(world, t) \/ IsListed(world, t)
  BY <1>4, <1>5, <1>8 DEF World, IsKept
<1>10. QED
  BY <1>1, <1>6, <1>7, <1>9, VisitKeepsIInv

LEMMA GoOfflineKeepsIInv ==
    ASSUME IInv, NEW a \in Account, GoOffline(a)
    PROVE  IInv'
<1> DEFINE s == world.sessions[a]
           w == RemoveQueuedPlayer(world, s)
<1>1. Visit(a) /\ world' = PutOffline(Unlist(w, s), s)
  BY DEF GoOffline
<1>2. s \in Session /\ Owner[s] = a /\ IsListed(world, s) /\ Good(world)
  BY <1>1, VisitedIsListed DEF IInv
<1> HIDE DEF s
<1>3. /\ Good(w) /\ ~In(w.queue, s)
      /\ w.sessions = world.sessions /\ w.offline = world.offline
  BY <1>2, RemoveQueuedPlayerProperties
<1> HIDE DEF w
<1>4. IsListed(w, s)
  BY <1>2, <1>3 DEF IsListed
<1>5. QED
  BY <1>1, <1>2, <1>3, <1>4, LeavesKeepsIInv

LEMMA UpdateSessionKeepsIInv ==
    ASSUME IInv, NEW a \in Account, UpdateSession(a)
    PROVE  IInv'
<1> DEFINE s == world.sessions[a]
<1>1. Visit(a)
  BY DEF UpdateSession
<1>2. PICK v \in Update(s) :
         world' = IF v.st[s].closed THEN Delete(Unlist(RemoveQueuedPlayer(v, s), s), s)
                                    ELSE v
  BY DEF UpdateSession
<1>3. s \in Session /\ Owner[s] = a /\ IsListed(world, s) /\ Good(world)
  BY <1>1, VisitedIsListed DEF IInv
<1> HIDE DEF s
<1>4. Updatable(world, s)
  BY <1>3 DEF Good, Owned, Orderly, Updatable
<1>5. Updated(world, v, s)
  BY <1>2, <1>3, <1>4, UpdateUpdates
<1>6. Good(v) /\ IsListed(v, s)
  BY <1>3, <1>5, UpdatedIsGood
<1>7. v.sessions = world.sessions /\ v.offline = world.offline
  BY <1>5 DEF Updated, SameBut
<1>8. CASE world' = v
  <2>1. \A t \in Session : /\ IsListed(world', t) <=> IsListed(world, t)
                           /\ IsKept(world', t) <=> IsKept(world, t)
    BY <1>7, <1>8 DEF IsListed, IsKept
  <2>2. QED
    BY <1>1, <1>6, <1>7, <1>8, <2>1, VisitKeepsIInv
<1>9. CASE world' = Delete(Unlist(RemoveQueuedPlayer(v, s), s), s)
  <2> DEFINE w == RemoveQueuedPlayer(v, s)
  <2>1. /\ Good(w) /\ ~In(w.queue, s)
        /\ w.sessions = v.sessions /\ w.offline = v.offline
    BY <1>3, <1>6, RemoveQueuedPlayerProperties
  <2>2. world' = Delete(Unlist(w, s), s)
    BY <1>9
  <2> HIDE DEF w
  <2>3. IsListed(w, s)
    BY <1>6, <2>1 DEF IsListed
  <2>4. QED
    BY <1>1, <1>3, <1>7, <2>1, <2>2, <2>3, LeavesKeepsIInv
<1>10. QED
  BY <1>2, <1>8, <1>9

LEMMA UpdateOfflineKeepsIInv ==
    ASSUME IInv, NEW a \in Account, UpdateOffline(a)
    PROVE  IInv'
<1> DEFINE s == world.offline[a]
<1>1. /\ phase = "offline" /\ a \in todo /\ todo' = todo \ {a}
      /\ UNCHANGED <<incoming, limit, phase, stopping>>
  BY DEF UpdateOffline
<1>2. /\ s \in Session /\ Owner[s] = a /\ IsKept(world, s) /\ Good(world)
      /\ world \in World
  BY <1>1 DEF IInv, TodoIsThere, Kept, Good, World, Owned, IsKept
<1>3. CASE UNCHANGED world
  BY <1>1, <1>3 DEF IInv, IncomingIsNew, TodoIsThere, Kept
<1>4. CASE world' = [Delete(world, s) EXCEPT !.offline[a] = None]
  <2> DEFINE u == Delete(world, s)
             f == [world.offline EXCEPT ![a] = None]
  <2>1. SameBut(world, u, {s}) /\ Calm(u.st[s])
    BY <1>2, DeleteProperties
  <2>2. world' = [u EXCEPT !.offline[a] = None]
    BY <1>4
  <2> HIDE DEF u, s
  <2>3. world' = [u EXCEPT !.offline = f]
    BY <2>1, <2>2 DEF SameBut, World
  <2>4. f \in [Account -> Session \cup {None}]
    BY <1>2 DEF World
  <2>5. \A b \in Account : f[b] = IF b = a THEN None ELSE world.offline[b]
    BY <1>2 DEF World
  <2> HIDE DEF f
  <2>6. /\ world' \in World /\ world'.sessions = world.sessions /\ world'.offline = f
        /\ world'.queue = world.queue /\ world'.st = u.st
    BY <2>1, <2>3, <2>4 DEF SameBut, World
  <2>7. None \notin Session /\ \A t \in Session : Owner[t] \in Account
    BY ConstantsAssumption
  <2>8. \A t \in Session : /\ IsListed(world', t) <=> IsListed(world, t)
                           /\ IsKept(world', t) <=> (IsKept(world, t) /\ t # s)
    BY <1>2, <2>5, <2>6, <2>7 DEF IsListed, IsKept
  <2>9. Owned(world')
    BY <1>2, <2>5, <2>6, <2>8 DEF Good, Owned
  <2>10. ~In(world.queue, s)
    BY <1>2 DEF Good, Owned, Orderly
  <2>11. Orderly(world')
    BY <1>2, <2>1, <2>6, <2>8, <2>10 DEF Good, Orderly, SameBut
  <2>12. OthersCalm(world')
    BY <1>2, <2>1, <2>6, <2>8 DEF Good, OthersCalm, SameBut
  <2>13. Good(world')
    BY <2>6, <2>9, <2>11, <2>12 DEF Good
  <2>14. IncomingIsNew'
    BY <1>1, <2>8 DEF IInv, IncomingIsNew
  <2>15. TodoIsThere'
    BY <1>1, <2>5, <2>6 DEF IInv, TodoIsThere, Kept
  <2>16. QED
    BY <1>1, <2>13, <2>14, <2>15 DEF IInv
<1>5. QED
  BY <1>3, <1>4 DEF UpdateOffline

-----------------------------------------------------------------------------
(* The invariant is inductive. *)
LEMMA IInvIsInductive == IInv /\ [Next]_vars => IInv'
<1> SUFFICES ASSUME IInv, [Next]_vars PROVE IInv'
  OBVIOUS
<1>1. CASE WorldStep
  BY <1>1, RefuseKeepsIInv, AddFirstKeepsIInv, ReplaceKeepsIInv, GoOfflineKeepsIInv,
     UpdateSessionKeepsIInv, UpdateOfflineKeepsIInv, PhaseKeepsIInv DEF WorldStep
<1>2. CASE KickAll
  BY <1>2, KickAllKeepsIInv
<1>3. CASE \E s \in Session : AddSession(s) \/ SocketCloses(s)
  BY <1>3, AddSessionKeepsIInv, SocketClosesKeepsIInv
<1>4. CASE \E a \in Account : ToleranceEnds(a)
  BY <1>4, ToleranceEndsKeepsIInv
<1>5. CASE \E n \in Limits : SetPlayerAmountLimit(n)
  BY <1>5, PhaseKeepsIInv
<1>6. CASE UNCHANGED vars
  BY <1>6 DEF vars, IInv, IncomingIsNew, TodoIsThere, Listed, Kept
<1>7. QED
  BY <1>1, <1>2, <1>3, <1>4, <1>5, <1>6 DEF Next

(* The inductive invariant holds in every reachable state. *)
THEOREM Invariance == Spec => []IInv
BY InitIInv, IInvIsInductive, PTL DEF Spec

(* Whatever is in the maps is a session of that account. *)
THEOREM TypeCorrect == Spec => []TypeOK
<1>1. IInv => TypeOK
  BY DEF IInv, Good, World, Owned, Listed, Kept, TypeOK
<1>2. QED
  BY <1>1, Invariance, PTL

(* However sessions come, go, are replaced, kept and let in: no session is *)
(* in two places, and the queue has no pointer to one that is gone.        *)
THEOREM NoPointerTooMany == Spec => []QueueIsListed
<1>1. IInv => QueueIsListed
  <2>1. SUFFICES ASSUME IInv PROVE QueueIsListed
    OBVIOUS
  <2>2. ASSUME NEW s \in Session PROVE Places(s) <= 1
    BY <2>1, PlacesCounted DEF IInv, IncomingIsNew, Good, Owned
  <2>3. ASSUME NEW s \in Waiting
        PROVE  /\ world.sessions[Owner[s]] = s
               /\ world.st[s].inQueue /\ ~world.st[s].player
    <3>1. s \in Session /\ In(world.queue, s)
      BY <2>1, <2>3, ElementOfSeq, LenProperties
         DEF Waiting, ToSet, In, IInv, Good, World
    <3>2. QED
      BY <2>1, <3>1 DEF IInv, Good, Orderly, IsListed, Calm
  <2>4. QED
    BY <2>1, <2>2, <2>3, QueueCounted DEF QueueIsListed
<1>2. QED
  BY <1>1, Invariance, PTL

-----------------------------------------------------------------------------
(* How many sessions w lists. *)
Count(w) == Cardinality({a \in Account : w.sessions[a] # None})

LEMMA CountIsNat == ASSUME NEW w PROVE Count(w) \in Nat
<1>1. {a \in Account : w.sessions[a] # None} \in SUBSET Account
  OBVIOUS
<1>2. QED
  BY <1>1, FS_Subset, FS_CardinalityType, ConstantsAssumption DEF Count

LEMMA ActiveCounted ==
    ASSUME NEW w \in World
    PROVE  /\ GetActiveSessionCount(w) = Count(w) - Len(w.queue)
           /\ w.queue \in Seq(Session) /\ Len(w.queue) \in Nat
           /\ GetActiveSessionCount(w) \in Int
<1>1. w.queue \in Seq(Session) /\ Len(w.queue) \in Nat
  BY LenProperties DEF World
<1>2. GetActiveSessionCount(w) = Count(w) - Len(w.queue)
  BY DEF GetActiveSessionCount, Count
<1>3. QED
  BY <1>1, <1>2, CountIsNat

LEMMA CountIsOfSessions ==
    ASSUME NEW w, NEW v, v.sessions = w.sessions
    PROVE  Count(v) = Count(w)
BY DEF Count

(* A session that is listed in an empty place makes one more, ... *)
LEMMA ListCounts ==
    ASSUME NEW w \in World, NEW s \in Session, NEW v,
           v.sessions = [w.sessions EXCEPT ![Owner[s]] = s]
    PROVE  Count(v) = IF w.sessions[Owner[s]] = None THEN Count(w) + 1 ELSE Count(w)
<1> DEFINE a == Owner[s]
           S == {b \in Account : w.sessions[b] # None}
           T == {b \in Account : v.sessions[b] # None}
<1>1. a \in Account /\ s # None /\ IsFiniteSet(Account)
  BY ConstantsAssumption
<1>2. \A b \in Account : v.sessions[b] = IF b = a THEN s ELSE w.sessions[b]
  BY <1>1 DEF World
<1>3. T = S \cup {a}
  BY <1>1, <1>2
<1>4. IsFiniteSet(S)
  BY <1>1, FS_Subset
<1>5. a \in S <=> w.sessions[a] # None
  BY <1>1
<1> HIDE DEF S, T, a
<1>6. Cardinality(T) = IF a \in S THEN Cardinality(S) ELSE Cardinality(S) + 1
  BY <1>3, <1>4, FS_AddElement
<1>7. Cardinality(T) = IF w.sessions[a] = None THEN Cardinality(S) + 1 ELSE Cardinality(S)
  BY <1>5, <1>6
<1>8. QED
  BY <1>7 DEF Count, S, T, a

(* ... and one that is taken out makes one less. *)
LEMMA UnlistCounts ==
    ASSUME NEW w \in World, NEW s \in Session, IsListed(w, s), NEW v,
           v.sessions = [w.sessions EXCEPT ![Owner[s]] = None]
    PROVE  Count(v) = Count(w) - 1
<1> DEFINE a == Owner[s]
           S == {b \in Account : w.sessions[b] # None}
           T == {b \in Account : v.sessions[b] # None}
<1>1. a \in Account /\ s # None /\ IsFiniteSet(Account)
  BY ConstantsAssumption
<1>2. \A b \in Account : v.sessions[b] = IF b = a THEN None ELSE w.sessions[b]
  BY <1>1 DEF World
<1>3. T = S \ {a}
  BY <1>1, <1>2
<1>4. IsFiniteSet(S)
  BY <1>1, FS_Subset
<1>5. a \in S
  BY <1>1 DEF IsListed
<1> HIDE DEF S, T, a
<1>6. Cardinality(T) = Cardinality(S) - 1
  BY <1>3, <1>4, <1>5, FS_RemoveElement
<1>7. QED
  BY <1>6 DEF Count, S, T

-----------------------------------------------------------------------------
(* From w to v no place has been left that was not left before: nobody     *)
(* waits, or no place is free, or not more than were when somebody waited. *)
Fills(w, v) ==
    \/ v.queue = <<>>
    \/ limit # 0 /\ GetActiveSessionCount(v) >= limit
    \/ w.queue # <<>> /\ GetActiveSessionCount(v) >= GetActiveSessionCount(w)

(* The same of a v that still lists a session that is about to go. *)
FillsWithout(w, v) ==
    \/ v.queue = <<>>
    \/ limit # 0 /\ GetActiveSessionCount(v) - 1 >= limit
    \/ w.queue # <<>> /\ GetActiveSessionCount(v) - 1 >= GetActiveSessionCount(w)

LEMMA FillsIsPlacesUsed ==
    ASSUME IInv, IInv', limit' = limit, Fills(world, world')
    PROVE  Unused' <= Unused
<1> DEFINE n == GetActiveSessionCount(world)
           m == GetActiveSessionCount(world')
<1>1. limit \in Int
  BY ConstantsAssumption DEF IInv
<1>2. n \in Int /\ m \in Int
  BY ActiveCounted DEF IInv, Good
<1>3. Cardinality(Account) \in Nat
  BY FS_CardinalityType, ConstantsAssumption
<1>4. \A x \in Int : Max({0, x}) = IF x >= 0 THEN x ELSE 0
  BY DEF Max
<1>5. Unused = IF world.queue = <<>> THEN 0
               ELSE IF limit = 0 THEN Cardinality(Account) ELSE Max({0, limit - n})
  BY DEF Unused
<1>6. Unused' = IF world'.queue = <<>> THEN 0
                ELSE IF limit = 0 THEN Cardinality(Account) ELSE Max({0, limit - m})
  BY DEF Unused, GetActiveSessionCount
<1>7. \/ world'.queue = <<>>
      \/ limit # 0 /\ m >= limit
      \/ world.queue # <<>> /\ m >= n
  BY DEF Fills
<1> HIDE DEF n, m
<1>8. Max({0, limit - n}) = IF limit - n >= 0 THEN limit - n ELSE 0
  BY <1>1, <1>2, <1>4
<1>9. Max({0, limit - m}) = IF limit - m >= 0 THEN limit - m ELSE 0
  BY <1>1, <1>2, <1>4
<1>10. QED
  BY <1>1, <1>2, <1>3, <1>5, <1>6, <1>7, <1>8, <1>9

(* Nothing changes in the maps and in the queue. *)
LEMMA SameFills ==
    ASSUME NEW w \in World, NEW v \in World, v.sessions = w.sessions, v.queue = w.queue
    PROVE  Fills(w, v)
<1>1. GetActiveSessionCount(v) = GetActiveSessionCount(w)
  BY DEF GetActiveSessionCount
<1>2. GetActiveSessionCount(w) \in Int
  BY ActiveCounted
<1>3. QED
  BY <1>1, <1>2 DEF Fills

(* The queue that AcceptFirst leaves. *)
LEMMA AcceptFirstQueue ==
    ASSUME NEW w \in World, NEW q \in Seq(Session), NEW active \in Int
    PROVE  LET v == AcceptFirst(w, q, active) IN
           /\ v.queue \in Seq(Session)
           /\ \/ q # <<>> /\ v.queue = Tail(q) /\ (limit = 0 \/ active < limit)
              \/ v.queue = q /\ (q = <<>> \/ (limit # 0 /\ ~(active < limit)))
<1> DEFINE v == AcceptFirst(w, q, active)
<1>1. CASE (limit = 0 \/ active < limit) /\ q # <<>>
  <2>1. Head(q) \in Session /\ Tail(q) \in Seq(Session)
    BY <1>1, HeadTailProperties
  <2> DEFINE h == Head(q)
             r == Tail(q)
             u == [w EXCEPT !.queue = r]
  <2>2. u \in World /\ u.queue = r
    BY <2>1, NewQueue
  <2>3. h \in Session /\ v = InitializeSession(u, h)
    BY <1>1, <2>1 DEF AcceptFirst
  <2> HIDE DEF u, h, v
  <2>4. v.queue = r
    BY <2>2, <2>3, InitializeSessionProperties DEF SameBut
  <2>5. QED
    BY <1>1, <2>1, <2>4 DEF v
<1>2. CASE ~((limit = 0 \/ active < limit) /\ q # <<>>)
  <2>1. v = [w EXCEPT !.queue = q]
    BY <1>2 DEF AcceptFirst
  <2>2. v.queue = q
    BY <2>1, NewQueue
  <2> HIDE DEF v
  <2>3. QED
    BY <1>2, <2>2 DEF v
<1>3. QED
  BY <1>1, <1>2

(* Who goes leaves at most his own place. *)
LEMMA RemoveQueuedPlayerFills ==
    ASSUME limit \in Limits, NEW w, Good(w), NEW s \in Session, IsListed(w, s)
    PROVE  FillsWithout(w, RemoveQueuedPlayer(w, s))
<1> DEFINE v == RemoveQueuedPlayer(w, s)
           n == GetActiveSessionCount(w)
           m == GetActiveSessionCount(v)
           lw == Len(w.queue)
           lv == Len(v.queue)
<1>1. w \in World
  BY DEF Good
<1>2. v \in World /\ v.sessions = w.sessions
  BY RemoveQueuedPlayerProperties DEF Good
<1>3. /\ n = Count(w) - lw /\ w.queue \in Seq(Session) /\ lw \in Nat /\ n \in Int
  BY <1>1, ActiveCounted
<1>4. /\ m = Count(w) - lv /\ v.queue \in Seq(Session) /\ lv \in Nat /\ m \in Int
  BY <1>2, ActiveCounted, CountIsOfSessions
<1>5. Count(w) \in Nat
  BY CountIsNat
<1>6. limit \in Int
  BY ConstantsAssumption
<1>7. \A q \in Seq(Session) : Len(q) \in Nat /\ (Len(q) = 0 <=> q = <<>>)
  BY EmptySeq, LenProperties
<1>8. CASE In(w.queue, s)
  <2> DEFINE r == [w.st[s] EXCEPT !.inQueue = FALSE]
             u == [w EXCEPT !.st = [w.st EXCEPT ![s] = r]]
             q == RemoveFirst(w.queue, s)
  <2>1. r \in SessionRecord
    <3>1. w.st[s] \in SessionRecord
      BY <1>1 DEF World
    <3>2. QED
      BY <3>1 DEF SessionRecord
  <2>2. u = [w EXCEPT !.st[s].inQueue = FALSE]
    BY <1>1 DEF World
  <2>3. s \in ToSet(w.queue)
    BY <1>8 DEF In, ToSet
  <2>4. v = AcceptFirst(u, q, n)
    BY <2>2, <2>3 DEF RemoveQueuedPlayer
  <2>5. q \in Seq(Session) /\ Len(q) = lw - 1
    BY <1>3, <1>8, RemoveFirstProperties DEF Good, Orderly
  <2>6. u \in World
    BY <1>1, <2>1, EditSession DEF SameBut
  <2> HIDE DEF u, q, v, n
  <2>7. \/ Len(v.queue) = Len(q) - 1 /\ q # <<>>
        \/ v.queue = q /\ (q = <<>> \/ (limit # 0 /\ ~(n < limit)))
    BY <1>3, <2>4, <2>5, <2>6, AcceptFirstQueue, HeadTailProperties
  <2>8. w.queue # <<>>
    BY <1>3, <1>7, <2>5
  <2> HIDE DEF lw, m
  <2>9. \/ lv = lw - 2
        \/ v.queue = q /\ lv = lw - 1
    BY <2>5, <2>7, <1>3
  <2>10. m - 1 >= n
    BY <1>3, <1>4, <1>5, <2>9
  <2>11. QED
    BY <2>8, <2>10 DEF FillsWithout, v, n, m
<1>9. CASE ~In(w.queue, s)
  <2> DEFINE act == n - 1
             u == AcceptFirst(w, w.queue, act)
  <2>1. s \notin ToSet(w.queue)
    BY <1>9 DEF In, ToSet
  <2>2. v = NoteDisconnect(u, s)
    BY <2>1 DEF RemoveQueuedPlayer
  <2>3. act \in Int /\ act = n - 1
    BY <1>3
  <2> HIDE DEF act, n
  <2>4. u \in World
    BY <1>1, <1>3, AcceptFirstProperties DEF Good, Orderly
  <2>5. \/ Len(u.queue) = Len(w.queue) - 1 /\ w.queue # <<>>
        \/ u.queue = w.queue /\ (w.queue = <<>> \/ (limit # 0 /\ ~(act < limit)))
    BY <1>1, <1>3, <2>3, AcceptFirstQueue, HeadTailProperties
  <2> HIDE DEF u, v
  <2>6. v.queue = u.queue
    BY <2>2, <2>4, NoteDisconnectProperties DEF SameBut
  <2> HIDE DEF m
  <2>7. CASE Len(u.queue) = Len(w.queue) - 1 /\ w.queue # <<>>
    <3>1. lv = lw - 1
      BY <2>6, <2>7
    <3> HIDE DEF lv, lw
    <3>2. m - 1 >= n
      BY <1>3, <1>4, <1>5, <3>1
    <3>3. QED
      BY <2>7, <3>2 DEF FillsWithout, m, n, v
  <2>8. CASE u.queue = w.queue /\ limit # 0 /\ ~(act < limit)
    <3>1. lv = lw
      BY <2>6, <2>8
    <3> HIDE DEF lv, lw
    <3>2. m - 1 >= limit
      BY <1>3, <1>4, <1>5, <1>6, <2>3, <2>8, <3>1
    <3>3. QED
      BY <2>8, <3>2 DEF FillsWithout, m, v
  <2>9. CASE u.queue = w.queue /\ w.queue = <<>>
    BY <2>6, <2>9 DEF FillsWithout, v
  <2>10. QED
    BY <2>5, <2>7, <2>8, <2>9
<1>10. QED
  BY <1>8, <1>9

(* List puts a session in a place, or makes it wait when there is none. *)
LEMMA ListQueue ==
    ASSUME limit \in Limits, NEW w \in World, NEW s \in Session
    PROVE  LET v == List(w, s) IN
           /\ v \in World
           /\ v.sessions = [w.sessions EXCEPT ![Owner[s]] = s]
           /\ \/ /\ v.queue = w.queue
                 /\ limit # 0 => \/ Count(v) - 1 < limit
                                 \/ Owner[s] \in Privileged \cup v.disconnects
              \/ /\ limit # 0 /\ Count(v) - 1 >= limit
                 /\ v.queue = Append(w.queue, s)
<1> DEFINE f == [w.sessions EXCEPT ![Owner[s]] = s]
           u == [w EXCEPT !.sessions = f]
           v == List(w, s)
           g == [w.st[s] EXCEPT !.inQueue = TRUE]
           q == Append(w.queue, s)
           x == [u EXCEPT !.queue = q]
           y == [x EXCEPT !.st = [x.st EXCEPT ![s] = g]]
           full == limit > 0 /\ Cardinality({a \in Account : u.sessions[a] # None}) - 1 >= limit
           skips == Owner[s] \in Privileged \/ HasRecentlyDisconnected(w, Owner[s])
<1>1. u = [w EXCEPT !.sessions[Owner[s]] = s]
  BY DEF World
<1>2. f \in [Account -> Session \cup {None}]
  BY ConstantsAssumption DEF World
<1>3. /\ u \in World /\ u.sessions = f /\ u.queue = w.queue /\ u.st = w.st
      /\ u.disconnects = w.disconnects
  <2> HIDE DEF f
  <2>1. QED
    BY <1>2 DEF World
<1>4. w.queue \in Seq(Session) /\ w.st \in [Session -> SessionRecord]
  BY DEF World
<1>5. q \in Seq(Session)
  BY <1>4, AppendProperties
<1>6. g \in SessionRecord
  <2>1. w.st[s] \in SessionRecord
    BY <1>4
  <2>2. QED
    BY <2>1 DEF SessionRecord
<1> HIDE DEF f
<1>7. [u EXCEPT !.queue = Append(@, s), !.st[s].inQueue = TRUE] = y
  BY <1>3, <1>4 DEF World
<1> HIDE DEF u, q, g
<1>8. \/ v = InitializeSession(u, s) /\ ~(full /\ ~skips)
      \/ v = y /\ full
  <2> HIDE DEF x, y
  <2>1. QED
    BY <1>1, <1>7 DEF List
<1>9. limit # 0 => limit > 0
  BY ConstantsAssumption
<1>10. CASE v = InitializeSession(u, s) /\ ~(full /\ ~skips)
  <2>1. SameBut(u, v, {s}) /\ v.disconnects = w.disconnects
    <3>1. SameBut(u, v, {s})
      BY <1>3, <1>10, InitializeSessionProperties
    <3> HIDE DEF v, full, skips
    <3>2. v = [u EXCEPT !.st[s].starting = TRUE]
      BY <1>10 DEF InitializeSession
    <3>3. v.disconnects = u.disconnects
      BY <1>3, <3>2 DEF World
    <3>4. QED
      BY <1>3, <3>1, <3>3
  <2> HIDE DEF v
  <2>2. v \in World /\ v.sessions = f /\ v.queue = w.queue
    BY <1>3, <2>1 DEF SameBut
  <2>3. full <=> (limit > 0 /\ Count(v) - 1 >= limit)
    BY <1>3, <2>2 DEF Count
  <2>4. skips => Owner[s] \in Privileged \cup v.disconnects
    BY <2>1 DEF HasRecentlyDisconnected
  <2> HIDE DEF full, skips
  <2>5. Count(v) \in Int /\ limit \in Int
    BY CountIsNat, ConstantsAssumption
  <2>6. limit # 0 => Count(v) - 1 < limit \/ Owner[s] \in Privileged \cup v.disconnects
    BY <1>9, <1>10, <2>3, <2>4, <2>5
  <2>7. QED
    BY <2>2, <2>6 DEF f, v
<1>11. CASE v = y /\ full
  <2>1. x \in World /\ x.sessions = f /\ x.queue = q
    BY <1>3, <1>5, NewQueue
  <2> HIDE DEF x
  <2>2. SameBut(x, y, {s})
    BY <1>6, <2>1, EditSession
  <2> HIDE DEF v, y
  <2>3. v \in World /\ v.sessions = f /\ v.queue = q
    BY <1>11, <2>1, <2>2 DEF SameBut
  <2>4. full <=> (limit > 0 /\ Count(v) - 1 >= limit)
    BY <1>3, <2>3 DEF Count
  <2>5. limit > 0 => limit # 0
    OBVIOUS
  <2>6. limit # 0 /\ Count(v) - 1 >= limit
    BY <1>11, <2>4, <2>5
  <2>7. QED
    BY <2>3, <2>6 DEF f, v, q
<1>12. QED
  BY <1>8, <1>10, <1>11

(* AddSession_ of an account that has no session: s takes a place, or      *)
(* waits because the others have them all.                                 *)
LEMMA AddFirstFills ==
    ASSUME IInv, NEW s \in Session, AddFirstSession(s)
    PROVE  Fills(world, world')
<1> DEFINE n == GetActiveSessionCount(world)
           m == GetActiveSessionCount(world')
           c == Count(world)
           lw == Len(world.queue)
           lv == Len(world'.queue)
<1>1. world \in World /\ world' = List(world, s) /\ world.sessions[Owner[s]] = None
  BY DEF IInv, Good, AddFirstSession, Old
<1>2. /\ world' \in World
      /\ world'.sessions = [world.sessions EXCEPT ![Owner[s]] = s]
      /\ \/ world'.queue = world.queue
         \/ limit # 0 /\ Count(world') - 1 >= limit /\ lv = lw + 1
  BY <1>1, ActiveCounted, ListQueue, AppendProperties DEF IInv
<1>3. Count(world') = c + 1 /\ c \in Nat
  BY <1>1, <1>2, ListCounts, CountIsNat
<1>4. n = c - lw /\ lw \in Nat /\ m = c + 1 - lv /\ lv \in Nat /\ n \in Int /\ m \in Int
  BY <1>1, <1>2, <1>3, ActiveCounted
<1>5. lw = 0 <=> world.queue = <<>>
  BY <1>1, ActiveCounted, EmptySeq
<1>6. limit \in Int
  BY ConstantsAssumption DEF IInv
<1>7. CASE world'.queue = world.queue
  <2>1. lv = lw
    BY <1>7
  <2> HIDE DEF c, lw, lv, n, m
  <2>2. m >= n
    BY <1>3, <1>4, <2>1
  <2>3. QED
    BY <1>7, <2>2 DEF Fills, n, m
<1>8. CASE limit # 0 /\ Count(world') - 1 >= limit /\ lv = lw + 1
  <2> HIDE DEF c, lw, lv, n, m
  <2>1. m >= n
    BY <1>3, <1>4, <1>8
  <2>2. lw = 0 => m >= limit
    BY <1>3, <1>4, <1>6, <1>8
  <2>3. QED
    BY <1>5, <1>8, <2>1, <2>2 DEF Fills, n, m
<1>9. QED
  BY <1>2, <1>7, <1>8

(* AddSession_ of an account that has one: the old session o is kicked and *)
(* goes, then s is listed.                                                 *)
LEMMA ReplaceSteps ==
    ASSUME IInv, NEW s \in Session, ReplaceSession(s)
    PROVE  \E o \in Session, kicked \in World, y \in World :
               /\ Owner[o] = Owner[s] /\ IsListed(world, o)
               /\ Good(kicked) /\ IsListed(kicked, o)
               /\ kicked.sessions = world.sessions /\ kicked.queue = world.queue
               /\ y.sessions = world.sessions
               /\ y.queue = RemoveQueuedPlayer(kicked, o).queue
               /\ world' = List(y, s)
<1> DEFINE o == Old(s)
           r == [world.st[o] EXCEPT !.closed = TRUE]
           kicked == [world EXCEPT !.st[o].closed = TRUE]
           removed == RemoveQueuedPlayer(kicked, o)
<1>1. Adding(s) /\ o # None /\ Good(world) /\ world \in World
  BY DEF ReplaceSession, IInv, Good
<1>2. PICK stays \in {FALSE, MayStay(kicked, o)} : world' = List(Dispose(removed, o, stays), s)
  BY DEF ReplaceSession
<1>3. ~IsListed(world, s) /\ ~IsKept(world, s)
  BY <1>1, AddedIsNew
<1>4. o \in Session /\ Owner[o] = Owner[s] /\ IsListed(world, o)
  BY <1>1, <1>3, ConstantsAssumption DEF Good, Owned, IsListed, Old, World
<1> HIDE DEF o
<1>5. world.st[o] \in SessionRecord
  BY <1>1, <1>4 DEF World
<1>6. r \in SessionRecord
  BY <1>5 DEF SessionRecord
<1>7. r.inQueue = world.st[o].inQueue /\ (Calm(r) <=> Calm(world.st[o]))
  BY <1>5 DEF SessionRecord, Calm
<1>8. kicked = [world EXCEPT !.st = [world.st EXCEPT ![o] = r]]
  BY <1>1 DEF World
<1> HIDE DEF r, kicked
<1>9. SameBut(world, kicked, {o}) /\ kicked.st[o] = r
  BY <1>1, <1>4, <1>6, <1>8, EditSession
<1>10. \A t \in Session : /\ kicked.st[t].inQueue = world.st[t].inQueue
                          /\ Calm(kicked.st[t]) <=> Calm(world.st[t])
  BY <1>7, <1>9 DEF SameBut
<1>11. Good(kicked) /\ IsListed(kicked, o)
  BY <1>1, <1>4, <1>9, <1>10, FlagKeepsGood DEF SameBut, IsListed
<1>12. removed \in World /\ removed.sessions = world.sessions
  BY <1>4, <1>9, <1>11, RemoveQueuedPlayerProperties DEF SameBut, Good
<1>13. removed.queue = RemoveQueuedPlayer(kicked, o).queue
  OBVIOUS
<1> HIDE DEF removed
<1> DEFINE w == Dispose(removed, o, stays)
<1>14. w \in World /\ w.sessions = removed.sessions /\ w.queue = removed.queue
  BY <1>4, <1>12, PutOfflineProperties, DeleteProperties DEF Dispose, SameBut
<1>15. world' = List(w, s)
  BY <1>2
<1> HIDE DEF w
<1>16. /\ kicked \in World /\ kicked.sessions = world.sessions /\ kicked.queue = world.queue
  BY <1>9 DEF SameBut
<1>17. QED
  BY <1>4, <1>11, <1>12, <1>13, <1>14, <1>15, <1>16

LEMMA ReplaceFills ==
    ASSUME IInv, NEW s \in Session, ReplaceSession(s)
    PROVE  Fills(world, world')
<1>1. /\ world \in World /\ limit \in Limits /\ limit \in Int
      /\ \A t \in Session : Owner[t] \in Account /\ t # None
  BY ConstantsAssumption DEF IInv, Good
<1>2. PICK o \in Session, kicked \in World, w \in World :
         /\ Owner[o] = Owner[s] /\ IsListed(world, o)
         /\ Good(kicked) /\ IsListed(kicked, o)
         /\ kicked.sessions = world.sessions /\ kicked.queue = world.queue
         /\ w.sessions = world.sessions
         /\ w.queue = RemoveQueuedPlayer(kicked, o).queue
         /\ world' = List(w, s)
  BY ReplaceSteps
<1> DEFINE removed == RemoveQueuedPlayer(kicked, o)
<1>3. FillsWithout(kicked, removed) /\ removed.sessions = world.sessions
  BY <1>1, <1>2, RemoveQueuedPlayerFills, RemoveQueuedPlayerProperties
<1>4. w.sessions = removed.sessions /\ w.queue = removed.queue
  BY <1>2, <1>3
<1> HIDE DEF removed
<1> DEFINE c == Count(w)
           lw == Len(w.queue)
           lv == Len(world'.queue)
           n == GetActiveSessionCount(world)
           k == GetActiveSessionCount(removed)
           m == GetActiveSessionCount(world')
<1>5. /\ world' \in World
       /\ world'.sessions = [w.sessions EXCEPT ![Owner[s]] = s]
       /\ \/ world'.queue = w.queue
          \/ limit # 0 /\ Count(world') - 1 >= limit /\ lv = lw + 1
  <2>1. /\ world' \in World
        /\ world'.sessions = [w.sessions EXCEPT ![Owner[s]] = s]
        /\ \/ world'.queue = w.queue
           \/ /\ limit # 0 /\ Count(world') - 1 >= limit
              /\ world'.queue = Append(w.queue, s)
    BY <1>1, <1>2, ListQueue
  <2>2. Len(Append(w.queue, s)) = lw + 1
    BY ActiveCounted, AppendProperties
  <2>3. QED
    BY <2>1, <2>2
<1>6. w.sessions[Owner[s]] # None
  BY <1>1, <1>2 DEF IsListed
<1>7. Count(world') = c /\ c \in Nat
  BY <1>5, <1>6, ListCounts, CountIsNat
<1>8. k = GetActiveSessionCount(w)
  BY <1>4 DEF GetActiveSessionCount
<1>9. /\ k = c - lw /\ lw \in Nat /\ m = c - lv /\ lv \in Nat
       /\ n \in Int /\ k \in Int /\ m \in Int
  BY <1>1, <1>4, <1>5, <1>7, <1>8, ActiveCounted
<1>10. lw = 0 <=> w.queue = <<>>
  BY ActiveCounted, EmptySeq
<1>11. n = GetActiveSessionCount(kicked) /\ kicked.queue = world.queue
  BY <1>2 DEF GetActiveSessionCount
<1>12. \/ w.queue = <<>>
       \/ limit # 0 /\ k - 1 >= limit
       \/ world.queue # <<>> /\ k - 1 >= n
  BY <1>3, <1>4, <1>11 DEF FillsWithout
<1>13. CASE world'.queue = w.queue
  <2>1. lv = lw
    BY <1>13
  <2> HIDE DEF c, lw, lv, n, m, k
  <2>2. m = k
    BY <1>7, <1>9, <2>1
  <2>3. /\ k - 1 >= limit => k >= limit
        /\ k - 1 >= n => k >= n
    BY <1>1, <1>9
  <2>4. QED
    BY <1>12, <1>13, <2>2, <2>3 DEF Fills, n, m
<1>14. CASE limit # 0 /\ Count(world') - 1 >= limit /\ lv = lw + 1
  <2> HIDE DEF c, lw, lv, n, m, k
  <2>1. m = k - 1
    BY <1>7, <1>9, <1>14
  <2>2. lw = 0 => m >= limit
    BY <1>1, <1>7, <1>9, <1>14
  <2>3. QED
    BY <1>10, <1>12, <1>14, <2>1, <2>2 DEF Fills, n, m
<1>15. QED
  BY <1>5, <1>13, <1>14

(* A session that UpdateSessions takes out of the map leaves at most its   *)
(* own place, and that one is taken.                                       *)
LEMMA LeavesFills ==
    ASSUME IInv, NEW v, Good(v), v.sessions = world.sessions, v.queue = world.queue,
           NEW s \in Session, IsListed(v, s),
           NEW w, w = Unlist(RemoveQueuedPlayer(v, s), s),
           world' \in {PutOffline(w, s), Delete(w, s)}
    PROVE  Fills(world, world')
<1> DEFINE x == RemoveQueuedPlayer(v, s)
           n == GetActiveSessionCount(v)
           k == GetActiveSessionCount(x)
           m == GetActiveSessionCount(world')
<1>1. limit \in Limits /\ limit \in Int /\ v \in World /\ world \in World
  BY ConstantsAssumption DEF IInv, Good
<1>2. FillsWithout(v, x) /\ x \in World /\ x.sessions = v.sessions
  BY <1>1, RemoveQueuedPlayerFills, RemoveQueuedPlayerProperties DEF Good
<1>3. w = Unlist(x, s)
  OBVIOUS
<1> HIDE DEF x
<1>4. /\ w \in World /\ w.queue = x.queue
      /\ w.sessions = [x.sessions EXCEPT ![Owner[s]] = None]
  BY <1>2, <1>3, UnlistProperties
<1>5. world' \in World /\ world'.sessions = w.sessions /\ world'.queue = w.queue
  <2>1. CASE world' = PutOffline(w, s)
    BY <1>4, <2>1, PutOfflineProperties
  <2>2. CASE world' = Delete(w, s)
    BY <1>4, <2>2, DeleteProperties DEF SameBut
  <2>3. QED
    BY <2>1, <2>2
<1>6. Count(w) = Count(x) - 1
  BY <1>2, <1>4, UnlistCounts DEF IsListed
<1>7. m = GetActiveSessionCount(w)
  BY <1>5 DEF GetActiveSessionCount
<1>8. Count(x) \in Nat /\ Len(x.queue) \in Nat /\ n \in Int
      /\ k = Count(x) - Len(x.queue) /\ m = Count(w) - Len(x.queue)
  BY <1>1, <1>2, <1>4, <1>7, CountIsNat, ActiveCounted
<1>9. m = k - 1
  BY <1>6, <1>8
<1>10. n = GetActiveSessionCount(world)
  BY DEF GetActiveSessionCount
<1>11. QED
  BY <1>2, <1>4, <1>5, <1>9, <1>10 DEF Fills, FillsWithout

LEMMA UpdateSessionFills ==
    ASSUME IInv, NEW a \in Account, GoOffline(a) \/ UpdateSession(a)
    PROVE  Fills(world, world')
<1> DEFINE s == world.sessions[a]
<1>1. Visit(a)
  BY DEF GoOffline, UpdateSession
<1>2. s \in Session /\ IsListed(world, s) /\ Good(world) /\ world \in World
  BY <1>1, VisitedIsListed DEF IInv, Good
<1>3. CASE GoOffline(a)
  <2>1. world' = PutOffline(Unlist(RemoveQueuedPlayer(world, s), s), s)
    BY <1>3 DEF GoOffline
  <2> HIDE DEF s
  <2>2. QED
    BY <1>2, <2>1, LeavesFills
<1>4. CASE UpdateSession(a)
  <2>1. PICK v \in Update(s) :
           world' = IF v.st[s].closed THEN Delete(Unlist(RemoveQueuedPlayer(v, s), s), s)
                                      ELSE v
    BY <1>4 DEF UpdateSession
  <2> HIDE DEF s
  <2>2. Updatable(world, s)
    BY <1>2 DEF Good, Owned, Orderly, Updatable
  <2>3. Updated(world, v, s)
    BY <1>2, <2>1, <2>2, UpdateUpdates
  <2>4. Good(v) /\ IsListed(v, s)
    BY <1>2, <2>3, UpdatedIsGood
  <2>5. v \in World /\ v.sessions = world.sessions /\ v.queue = world.queue
    BY <2>3 DEF Updated, SameBut
  <2>6. CASE world' = v
    BY <1>2, <2>5, <2>6, SameFills
  <2>7. CASE world' = Delete(Unlist(RemoveQueuedPlayer(v, s), s), s)
    BY <1>2, <2>4, <2>5, <2>7, LeavesFills
  <2>8. QED
    BY <2>1, <2>6, <2>7
<1>5. QED
  BY <1>3, <1>4

(* The other steps touch neither _sessions nor the queue, which only a     *)
(* shutdown empties.                                                       *)
LEMMA OthersKeep ==
    ASSUME IInv,
           \/ StartUpdates \/ StartOffline \/ EndUpdate
           \/ \E s \in Session : RefuseSession(s) \/ AddSession(s) \/ SocketCloses(s)
           \/ \E a \in Account : ToleranceEnds(a) \/ UpdateOffline(a)
           \/ \E n \in Limits : SetPlayerAmountLimit(n)
    PROVE  world'.sessions = world.sessions /\ world'.queue = world.queue
<1> DEFINE Stay == world'.sessions = world.sessions /\ world'.queue = world.queue
<1>1. world \in World
  BY DEF IInv, Good
<1>2. UNCHANGED world => Stay
  OBVIOUS
<1>3. ASSUME NEW s \in Session, RefuseSession(s)
      PROVE  Stay
  BY <1>1, <1>3, DeleteProperties DEF RefuseSession, SameBut
<1>4. ASSUME NEW s \in Session, SocketCloses(s)
      PROVE  Stay
  BY <1>1, <1>4 DEF SocketCloses, World
<1>5. ASSUME NEW a \in Account, ToleranceEnds(a)
      PROVE  Stay
  BY <1>1, <1>5 DEF ToleranceEnds, World
<1>6. ASSUME NEW a \in Account, UpdateOffline(a)
      PROVE  Stay
  <2>1. CASE world' = [Delete(world, world.offline[a]) EXCEPT !.offline[a] = None]
    <3> DEFINE s == world.offline[a]
               u == Delete(world, s)
    <3>1. s \in Session
      BY <1>1, <1>6 DEF UpdateOffline, IInv, TodoIsThere, Kept, World
    <3>2. u \in World /\ u.sessions = world.sessions /\ u.queue = world.queue
      BY <1>1, <3>1, DeleteProperties DEF SameBut
    <3>3. world' = [u EXCEPT !.offline[a] = None]
      BY <2>1
    <3> HIDE DEF u
    <3>4. world'.sessions = u.sessions /\ world'.queue = u.queue
      BY <3>2, <3>3 DEF World
    <3>5. QED
      BY <3>2, <3>4
  <2>2. QED
    BY <1>2, <1>6, <2>1 DEF UpdateOffline
<1>7. (StartUpdates \/ StartOffline \/ EndUpdate) => UNCHANGED world
  BY DEF StartUpdates, StartOffline, EndUpdate
<1>8. \A s \in Session : AddSession(s) => UNCHANGED world
  BY DEF AddSession
<1>9. \A n \in Limits : SetPlayerAmountLimit(n) => UNCHANGED world
  BY DEF SetPlayerAmountLimit
<1> HIDE DEF Stay
<1>10. Stay
  BY <1>2, <1>3, <1>4, <1>5, <1>6, <1>7, <1>8, <1>9
<1>11. QED
  BY <1>10 DEF Stay

LEMMA StepFills ==
    ASSUME IInv, IInv', Next
    PROVE  Fills(world, world')
<1>1. world \in World /\ world' \in World
  BY DEF IInv, Good
<1>2. CASE WorldStep
  BY <1>1, <1>2, AddFirstFills, ReplaceFills, UpdateSessionFills, OthersKeep, SameFills
     DEF WorldStep
<1>3. CASE KickAll
  BY <1>1, <1>3 DEF KickAll, World, Fills
<1>4. CASE ~WorldStep /\ ~KickAll
  BY <1>1, <1>4, OthersKeep, SameFills DEF Next
<1>5. QED
  BY <1>2, <1>3, <1>4

(* No step but a reload of the limit leaves a place free, while somebody   *)
(* waits, that was not: who goes lets the next one in, however he goes     *)
(* (RemoveQueuedPlayer, AddSession_, UpdateSessions).                      *)
THEOREM NoPlaceLeftFree == Spec => PlacesAreUsed
<1>1. IInv /\ IInv' /\ [Next]_vars => [limit' = limit => Unused' <= Unused]_vars
  BY StepFills, FillsIsPlacesUsed
<1>2. QED
  BY <1>1, Invariance, PTL DEF Spec, PlacesAreUsed

-----------------------------------------------------------------------------
(* Who waits in w, and who is listed and does not. *)
WaitingIn(w) == {s \in Session : In(w.queue, s)}
ActiveIn(w) == {s \in Session : IsListed(w, s) /\ ~In(w.queue, s)}

LEMMA ActiveIsCounted ==
    ASSUME NEW w, Good(w)
    PROVE  /\ IsFiniteSet(ActiveIn(w))
           /\ Cardinality(ActiveIn(w)) = GetActiveSessionCount(w)
<1> DEFINE D == {a \in Account : w.sessions[a] # None}
           K == {s \in Session : IsListed(w, s)}
           W == WaitingIn(w)
           q == w.queue
           n == Len(q)
<1>1. w \in World /\ q \in Seq(Session) /\ n \in Nat /\ DOMAIN q = 1..n
  BY LenProperties DEF Good, World
<1>2. \A i \in 1..n : q[i] \in Session
  BY <1>1, ElementOfSeq
<1>3. IsFiniteSet(D) /\ Cardinality(D) \in Nat
  BY FS_Subset, FS_CardinalityType, ConstantsAssumption
<1>4. IsFiniteSet(K) /\ Cardinality(K) = Cardinality(D)
  <2> DEFINE f == [a \in D |-> w.sessions[a]]
  <2>1. \A a \in D : w.sessions[a] \in Session /\ Owner[w.sessions[a]] = a
    BY <1>1 DEF World, Good, Owned
  <2>2. \A s \in K : Owner[s] \in D /\ w.sessions[Owner[s]] = s
    BY ConstantsAssumption DEF IsListed
  <2>3. \A a \in D : w.sessions[a] \in K
    BY <2>1 DEF IsListed
  <2> HIDE DEF D, K
  <2>4. f \in [D -> K]
    BY <2>3
  <2>5. \A a, b \in D : f[a] = f[b] => a = b
    BY <2>1
  <2>6. \A s \in K : \E a \in D : f[a] = s
    BY <2>2
  <2> HIDE DEF f
  <2>7. f \in Bijection(D, K)
    BY <2>4, <2>5, <2>6 DEF Bijection, Injection, IsInjective, Surjection
  <2>8. ExistsBijection(D, K)
    BY <2>7 DEF ExistsBijection
  <2>9. QED
    BY <1>3, <2>8, FS_Bijection
<1>5. Cardinality(W) = n
  <2> DEFINE f == [i \in 1..n |-> q[i]]
  <2>1. \A i, j \in 1..n : q[i] = q[j] => i = j
    BY <1>1 DEF Good, Orderly
  <2>2. \A s \in W : \E i \in 1..n : q[i] = s
    BY <1>1 DEF WaitingIn, In
  <2>3. \A i \in 1..n : q[i] \in W
    BY <1>1, <1>2 DEF WaitingIn, In
  <2> HIDE DEF q, n, W
  <2>4. f \in [1..n -> W]
    BY <2>3
  <2>5. \A i, j \in 1..n : f[i] = f[j] => i = j
    BY <2>1
  <2>6. \A s \in W : \E i \in 1..n : f[i] = s
    BY <2>2
  <2> HIDE DEF f
  <2>7. f \in Bijection(1..n, W)
    BY <2>4, <2>5, <2>6 DEF Bijection, Injection, IsInjective, Surjection
  <2>8. ExistsBijection(1..n, W)
    BY <2>7 DEF ExistsBijection
  <2>9. QED
    BY <1>1, <2>8, FS_CountingElements
<1>6. K \cap W = W
  BY DEF WaitingIn, Good, Orderly
<1>7. ActiveIn(w) = K \ W
  BY DEF ActiveIn, WaitingIn
<1> HIDE DEF D, K, W, q, n
<1>8. IsFiniteSet(K \ W) /\ Cardinality(K \ W) = Cardinality(D) - n
  BY <1>4, <1>5, <1>6, FS_Difference
<1>9. QED
  BY <1>7, <1>8 DEF GetActiveSessionCount, D, q, n

LEMMA ActiveIsActive ==
    ASSUME NEW w, Good(w)
    PROVE  /\ ToSet(w.queue) = WaitingIn(w)
           /\ {w.sessions[a] : a \in {b \in Account : w.sessions[b] # None}} \ ToSet(w.queue)
                = ActiveIn(w)
<1>1. w \in World /\ w.queue \in Seq(Session) /\ DOMAIN w.queue = 1..Len(w.queue)
  BY LenProperties DEF Good, World
<1>2. \A i \in DOMAIN w.queue : w.queue[i] \in Session
  BY <1>1, ElementOfSeq
<1>3. ToSet(w.queue) = WaitingIn(w)
  BY <1>2 DEF ToSet, WaitingIn, In
<1>4. \A a \in Account : w.sessions[a] # None =>
         w.sessions[a] \in Session /\ IsListed(w, w.sessions[a])
  BY <1>1 DEF Good, Owned, World, IsListed
<1>5. \A s \in Session : IsListed(w, s) => Owner[s] \in Account /\ w.sessions[Owner[s]] # None
  BY ConstantsAssumption DEF IsListed
<1>6. {w.sessions[a] : a \in {b \in Account : w.sessions[b] # None}}
        = {s \in Session : IsListed(w, s)}
  BY <1>4, <1>5 DEF IsListed
<1>7. QED
  BY <1>3, <1>6 DEF WaitingIn, ActiveIn

LEMMA AppendOrder ==
    ASSUME NEW q \in Seq(Session), NEW s \in Session
    PROVE  LET r == Append(q, s) IN
           /\ \A t \in Session : In(r, t) <=> In(q, t) \/ t = s
           /\ \A t, u \in Session : Before(q, t, u) => Before(r, t, u)
           /\ \A t \in Session : In(q, t) => Before(r, t, s)
<1> DEFINE r == Append(q, s)
           n == Len(q)
<1>1. /\ DOMAIN q = 1..n /\ n \in Nat /\ DOMAIN r = 1..(n + 1)
      /\ \A i \in 1..n : r[i] = q[i]
      /\ r[n + 1] = s
  BY AppendProperties, LenProperties
<1> HIDE DEF r, n
<1>2. \A i \in 1..n : i \in DOMAIN r /\ i < n + 1
  BY <1>1
<1>3. n + 1 \in DOMAIN r /\ \A i \in DOMAIN r : i \in 1..n \/ i = n + 1
  BY <1>1
<1>4. \A t \in Session : In(r, t) <=> In(q, t) \/ t = s
  BY <1>1, <1>2, <1>3 DEF In
<1>5. \A t, u \in Session : Before(q, t, u) => Before(r, t, u)
  BY <1>1, <1>2 DEF Before
<1>6. \A t \in Session : In(q, t) => Before(r, t, s)
  BY <1>1, <1>2, <1>3 DEF Before, In
<1>7. QED
  BY <1>4, <1>5, <1>6 DEF r

(* x is w without o, and perhaps without the first of the others, who was  *)
(* let in because o leaves his place; o is still listed in x.              *)
Thins(w, x, o) ==
    /\ \A t \in Session : In(x.queue, t) => In(w.queue, t)
    /\ \A t, u \in Session :
          Before(w.queue, t, u) /\ In(x.queue, t) /\ In(x.queue, u) => Before(x.queue, t, u)
    /\ \A t \in Session : In(w.queue, t) /\ ~In(x.queue, t) /\ t # o =>
          /\ \A u \in Session : Before(w.queue, u, t) => u = o
          /\ limit # 0 /\ GetActiveSessionCount(w) >= limit =>
                GetActiveSessionCount(x) - 1 <= limit

LEMMA TailOrder ==
    ASSUME NEW q \in Seq(Session), q # <<>>,
           \A i, j \in DOMAIN q : q[i] = q[j] => i = j
    PROVE  /\ \A t \in Session : In(Tail(q), t) => In(q, t)
           /\ \A t, u \in Session :
                 Before(q, t, u) /\ In(Tail(q), t) /\ In(Tail(q), u) => Before(Tail(q), t, u)
           /\ \A t \in Session : In(q, t) /\ ~In(Tail(q), t) =>
                 \A u \in Session : ~Before(q, u, t)
<1> DEFINE r == Tail(q)
           n == Len(q)
<1>1. n \in Nat \ {0} /\ DOMAIN q = 1..n
  BY LenProperties, EmptySeq
<1>2. DOMAIN r = 1..(n - 1) /\ \A i \in 1..(n - 1) : r[i] = q[i + 1]
  BY HeadTailProperties, LenProperties
<1>3. \A i, j \in 1..n : q[i] = q[j] => i = j
  BY <1>1
<1> HIDE DEF r, n
<1>4. \A t \in Session : In(r, t) => In(q, t)
  BY <1>1, <1>2 DEF In
<1>5. ASSUME NEW t \in Session, NEW u \in Session, Before(q, t, u), In(r, t), In(r, u)
      PROVE  Before(r, t, u)
  <2>1. PICK i \in 1..n, j \in 1..n : i < j /\ q[i] = t /\ q[j] = u
    BY <1>1, <1>5 DEF Before
  <2>2. PICK k \in 1..(n - 1) : r[k] = t
    BY <1>2, <1>5 DEF In
  <2>3. PICK l \in 1..(n - 1) : r[l] = u
    BY <1>2, <1>5 DEF In
  <2>4. k + 1 \in 1..n /\ l + 1 \in 1..n /\ q[k + 1] = t /\ q[l + 1] = u
    BY <1>1, <1>2, <2>2, <2>3
  <2>5. k + 1 = i /\ l + 1 = j
    BY <1>3, <2>1, <2>4
  <2>6. k < l
    BY <1>1, <2>1, <2>5
  <2>7. QED
    BY <1>2, <2>2, <2>3, <2>6 DEF Before
<1>6. ASSUME NEW t \in Session, ~In(r, t), NEW u \in Session, Before(q, u, t)
      PROVE  FALSE
  <2>1. PICK i \in 1..n, j \in 1..n : i < j /\ q[j] = t
    BY <1>1, <1>6 DEF Before
  <2>2. j - 1 \in 1..(n - 1) /\ r[j - 1] = t
    BY <1>1, <1>2, <2>1
  <2>3. QED
    BY <1>2, <1>6, <2>2 DEF In
<1>7. QED
  BY <1>4, <1>5, <1>6 DEF r

(* What RemoveQueuedPlayer does to the queue of the others. *)
LEMMA RemoveQueuedPlayerThins ==
    ASSUME limit \in Limits, NEW w, Good(w), NEW s \in Session, IsListed(w, s)
    PROVE  Thins(w, RemoveQueuedPlayer(w, s), s)
<1> DEFINE v == RemoveQueuedPlayer(w, s)
           n == GetActiveSessionCount(w)
           m == GetActiveSessionCount(v)
           lw == Len(w.queue)
           lv == Len(v.queue)
<1>1. w \in World
  BY DEF Good
<1>2. v \in World /\ v.sessions = w.sessions
  BY RemoveQueuedPlayerProperties DEF Good
<1>3. /\ n = Count(w) - lw /\ w.queue \in Seq(Session) /\ lw \in Nat /\ n \in Int
  BY <1>1, ActiveCounted
<1>4. /\ m = Count(w) - lv /\ v.queue \in Seq(Session) /\ lv \in Nat /\ m \in Int
  BY <1>2, ActiveCounted, CountIsOfSessions
<1>5. Count(w) \in Nat /\ limit \in Int
  BY CountIsNat, ConstantsAssumption
<1>6. \A i, j \in DOMAIN w.queue : w.queue[i] = w.queue[j] => i = j
  BY DEF Good, Orderly
<1>7. CASE In(w.queue, s)
  <2> DEFINE r == [w.st[s] EXCEPT !.inQueue = FALSE]
             u == [w EXCEPT !.st = [w.st EXCEPT ![s] = r]]
             q == RemoveFirst(w.queue, s)
  <2>1. r \in SessionRecord
    <3>1. w.st[s] \in SessionRecord
      BY <1>1 DEF World
    <3>2. QED
      BY <3>1 DEF SessionRecord
  <2>2. u = [w EXCEPT !.st[s].inQueue = FALSE]
    BY <1>1 DEF World
  <2>3. s \in ToSet(w.queue)
    BY <1>7 DEF In, ToSet
  <2>4. v = AcceptFirst(u, q, n)
    BY <2>2, <2>3 DEF RemoveQueuedPlayer
  <2>5. /\ q \in Seq(Session)
        /\ \A i, j \in DOMAIN q : q[i] = q[j] => i = j
        /\ \A t \in Session : In(q, t) <=> In(w.queue, t) /\ t # s
        /\ \A t, x \in Session : Before(w.queue, t, x) /\ t # s /\ x # s => Before(q, t, x)
    BY <1>3, <1>6, <1>7, RemoveFirstProperties
  <2>6. u \in World
    BY <1>1, <2>1, EditSession DEF SameBut
  <2> HIDE DEF u, q, v, n
  <2>7. \/ q # <<>> /\ v.queue = Tail(q) /\ (limit = 0 \/ n < limit)
        \/ v.queue = q
    BY <1>3, <2>4, <2>5, <2>6, AcceptFirstQueue
  <2>8. CASE v.queue = q
    BY <2>5, <2>8 DEF Thins, v
  <2>9. CASE q # <<>> /\ v.queue = Tail(q) /\ (limit = 0 \/ n < limit)
    <3>1. /\ \A t \in Session : In(v.queue, t) => In(q, t)
          /\ \A t, x \in Session :
                Before(q, t, x) /\ In(v.queue, t) /\ In(v.queue, x) => Before(v.queue, t, x)
          /\ \A t \in Session : In(q, t) /\ ~In(v.queue, t) =>
                \A x \in Session : ~Before(q, x, t)
      BY <2>5, <2>9, TailOrder
    <3>2. ~(limit # 0 /\ n >= limit)
      BY <1>3, <1>5, <2>9
    <3>3. QED
      BY <2>5, <3>1, <3>2 DEF Thins, v, n
  <2>10. QED
    BY <2>7, <2>8, <2>9
<1>8. CASE ~In(w.queue, s)
  <2> DEFINE act == n - 1
             u == AcceptFirst(w, w.queue, act)
  <2>1. s \notin ToSet(w.queue)
    BY <1>8 DEF In, ToSet
  <2>2. v = NoteDisconnect(u, s)
    BY <2>1 DEF RemoveQueuedPlayer
  <2>3. act \in Int /\ act = n - 1
    BY <1>3
  <2> HIDE DEF act, n
  <2>4. u \in World
    BY <1>1, <1>3, AcceptFirstProperties DEF Good, Orderly
  <2>5. \/ w.queue # <<>> /\ u.queue = Tail(w.queue) /\ (limit = 0 \/ act < limit)
        \/ u.queue = w.queue
    BY <1>1, <1>3, <2>3, AcceptFirstQueue
  <2> HIDE DEF u, v
  <2>6. v.queue = u.queue
    BY <2>2, <2>4, NoteDisconnectProperties DEF SameBut
  <2> HIDE DEF m
  <2>7. CASE v.queue = w.queue
    BY <2>7 DEF Thins, v
  <2>8. CASE w.queue # <<>> /\ v.queue = Tail(w.queue) /\ (limit = 0 \/ act < limit)
    <3>1. /\ \A t \in Session : In(v.queue, t) => In(w.queue, t)
          /\ \A t, x \in Session :
                Before(w.queue, t, x) /\ In(v.queue, t) /\ In(v.queue, x) => Before(v.queue, t, x)
          /\ \A t \in Session : In(w.queue, t) /\ ~In(v.queue, t) =>
                \A x \in Session : ~Before(w.queue, x, t)
      BY <1>3, <1>6, <2>8, TailOrder
    <3>2. lv = lw - 1
      BY <1>3, <2>8, HeadTailProperties
    <3> HIDE DEF lw, lv
    <3>3. limit # 0 => m - 1 <= limit
      BY <1>3, <1>4, <1>5, <2>3, <2>8, <3>2
    <3>4. QED
      BY <3>1, <3>3 DEF Thins, v, m
  <2>9. QED
    BY <2>5, <2>6, <2>7, <2>8
<1>9. QED
  BY <1>7, <1>8

-----------------------------------------------------------------------------
(* InTurn of a step from w to v. *)
EnteredIn(w, v) == ActiveIn(v) \ ActiveIn(w)
ExemptIn(w, v) ==
    {s \in EnteredIn(w, v) : Owner[s] \in Privileged \cup w.disconnects \cup v.disconnects}

OrderKept(w, v) ==
    \A s \in WaitingIn(w) \cap WaitingIn(v), t \in WaitingIn(v) :
        Before(w.queue, s, t) \/ t \notin WaitingIn(w) => Before(v.queue, s, t)

FrontEnters(w, v) ==
    \A s \in WaitingIn(w), t \in EnteredIn(w, v) :
        Before(w.queue, s, t) => s \notin ActiveIn(v) \cup WaitingIn(v)

NobodyPasses(w, v) ==
    limit # 0 /\ (w.queue = <<>> \/ GetActiveSessionCount(w) >= limit) =>
        /\ EnteredIn(w, v) \subseteq ExemptIn(w, v) \cup WaitingIn(w) \/ WaitingIn(w) = {}
        /\ \/ EnteredIn(w, v) \subseteq ExemptIn(w, v)
           \/ Cardinality(ActiveIn(v) \ ExemptIn(w, v)) <= limit

Turn(w, v) == OrderKept(w, v) /\ FrontEnters(w, v) /\ NobodyPasses(w, v)

LEMMA TurnIsInTurn ==
    ASSUME IInv, IInv', Turn(world, world')
    PROVE  /\ \A s \in Waiting \cap Waiting', t \in Waiting' :
                 Before(world.queue, s, t) \/ t \notin Waiting => Before(world'.queue, s, t)
           /\ \A s \in Waiting, t \in Entered :
                 Before(world.queue, s, t) => s \notin Active' \cup Waiting'
           /\ limit # 0 /\ Unused = 0 =>
                 /\ Entered \subseteq Exempt \cup Waiting \/ Waiting = {}
                 /\ \/ Entered \subseteq Exempt
                    \/ Cardinality(Active' \ Exempt) <= limit
<1>1. Good(world) /\ Good(world')
  BY DEF IInv
<1>2. Waiting = WaitingIn(world) /\ Active = ActiveIn(world)
  BY <1>1, ActiveIsActive DEF Waiting, Active, Listed
<1>3. Waiting' = WaitingIn(world') /\ Active' = ActiveIn(world')
  BY <1>1, ActiveIsActive DEF Waiting, Active, Listed
<1>4. Entered = EnteredIn(world, world')
  BY <1>2, <1>3 DEF Entered, EnteredIn
<1>5. Exempt = ExemptIn(world, world')
  BY <1>4 DEF Exempt, ExemptIn
<1>6. limit # 0 /\ Unused = 0 =>
         limit # 0 /\ (world.queue = <<>> \/ GetActiveSessionCount(world) >= limit)
  <2> DEFINE n == GetActiveSessionCount(world)
  <2>1. n \in Int /\ limit \in Int
    BY <1>1, ActiveCounted, ConstantsAssumption DEF Good, IInv
  <2>2. Unused = IF world.queue = <<>> THEN 0
                 ELSE IF limit = 0 THEN Cardinality(Account) ELSE Max({0, limit - n})
    BY DEF Unused
  <2> HIDE DEF n
  <2>3. Max({0, limit - n}) = IF limit - n >= 0 THEN limit - n ELSE 0
    BY <2>1 DEF Max
  <2>4. limit # 0 /\ Unused = 0 => limit # 0 /\ (world.queue = <<>> \/ n >= limit)
    BY <2>1, <2>2, <2>3
  <2>5. QED
    BY <2>4 DEF n
<1>7. OrderKept(world, world') /\ FrontEnters(world, world') /\ NobodyPasses(world, world')
  BY DEF Turn
<1>8. \A s \in Waiting \cap Waiting', t \in Waiting' :
         Before(world.queue, s, t) \/ t \notin Waiting => Before(world'.queue, s, t)
  BY <1>2, <1>3, <1>7 DEF OrderKept
<1>9. \A s \in Waiting, t \in Entered :
         Before(world.queue, s, t) => s \notin Active' \cup Waiting'
  BY <1>2, <1>3, <1>4, <1>7 DEF FrontEnters
<1>10. limit # 0 /\ Unused = 0 =>
          /\ Entered \subseteq Exempt \cup Waiting \/ Waiting = {}
          /\ \/ Entered \subseteq Exempt
             \/ Cardinality(Active' \ Exempt) <= limit
  BY <1>2, <1>3, <1>4, <1>5, <1>6, <1>7 DEF NobodyPasses
<1>11. QED
  BY <1>8, <1>9, <1>10

(* The maps and the queue stay. *)
LEMMA SameTurn ==
    ASSUME NEW w, NEW v, v.sessions = w.sessions, v.queue = w.queue
    PROVE  Turn(w, v)
<1>1. ActiveIn(v) = ActiveIn(w) /\ WaitingIn(v) = WaitingIn(w)
  BY DEF ActiveIn, WaitingIn, IsListed
<1>2. EnteredIn(w, v) = {}
  BY <1>1 DEF EnteredIn
<1>3. OrderKept(w, v)
  BY <1>1 DEF OrderKept
<1>4. QED
  BY <1>2, <1>3 DEF Turn, FrontEnters, NobodyPasses

(* s goes, and the first of the others may enter. *)
LEMMA LeaveTurn ==
    ASSUME IInv, NEW w, Good(w), NEW v, Good(v), NEW s \in Session, IsListed(w, s),
           NEW x \in World, Thins(w, x, s), ~In(x.queue, s),
           x.sessions = w.sessions, v.queue = x.queue,
           v.sessions = [w.sessions EXCEPT ![Owner[s]] = None]
    PROVE  Turn(w, v)
<1>1. w \in World /\ v \in World /\ limit \in Int
      /\ \A t \in Session : Owner[t] \in Account /\ t # None
  BY ConstantsAssumption DEF Good, IInv
<1>2. \A t \in Session : IsListed(v, t) <=> IsListed(w, t) /\ t # s
  BY <1>1 DEF IsListed, World
<1>3. \A t \in EnteredIn(w, v) : In(w.queue, t) /\ ~In(x.queue, t) /\ t # s /\ t \in Session
  BY <1>2 DEF EnteredIn, ActiveIn
<1>4. OrderKept(w, v)
  BY DEF OrderKept, Thins, WaitingIn
<1>5. FrontEnters(w, v)
  <2>1. ASSUME NEW u \in Session, NEW t \in EnteredIn(w, v), Before(w.queue, u, t)
        PROVE  u = s
    BY <1>3, <2>1 DEF Thins
  <2>2. s \notin ActiveIn(v) \cup WaitingIn(v)
    BY <1>2 DEF ActiveIn, WaitingIn
  <2>3. QED
    BY <2>1, <2>2 DEF FrontEnters, WaitingIn
<1>6. NobodyPasses(w, v)
  <2>1. SUFFICES ASSUME limit # 0, w.queue = <<>> \/ GetActiveSessionCount(w) >= limit
                 PROVE  /\ EnteredIn(w, v) \subseteq WaitingIn(w)
                        /\ \/ EnteredIn(w, v) = {}
                           \/ Cardinality(ActiveIn(v) \ ExemptIn(w, v)) <= limit
    BY DEF NobodyPasses
  <2>2. EnteredIn(w, v) \subseteq WaitingIn(w)
    BY <1>3 DEF WaitingIn
  <2>3. ASSUME NEW t \in EnteredIn(w, v)
        PROVE  Cardinality(ActiveIn(v) \ ExemptIn(w, v)) <= limit
    <3>1. w.queue # <<>>
      BY <1>3, EmptySeq DEF In
    <3>2. GetActiveSessionCount(x) - 1 <= limit
      BY <1>3, <2>1, <3>1 DEF Thins
    <3>3. /\ GetActiveSessionCount(x) = Count(x) - Len(x.queue)
          /\ GetActiveSessionCount(v) = Count(v) - Len(x.queue)
          /\ Len(x.queue) \in Nat /\ Count(x) \in Nat
      BY <1>1, ActiveCounted, CountIsNat
    <3>4. Count(v) = Count(x) - 1
      BY UnlistCounts DEF IsListed
    <3>5. GetActiveSessionCount(v) <= limit
      BY <1>1, <3>2, <3>3, <3>4
    <3>6. IsFiniteSet(ActiveIn(v)) /\ Cardinality(ActiveIn(v)) = GetActiveSessionCount(v)
      BY ActiveIsCounted
    <3>7. /\ Cardinality(ActiveIn(v) \ ExemptIn(w, v)) <= Cardinality(ActiveIn(v))
          /\ IsFiniteSet(ActiveIn(v) \ ExemptIn(w, v))
      BY <3>6, FS_Subset
    <3>8. Cardinality(ActiveIn(v) \ ExemptIn(w, v)) \in Int /\ Cardinality(ActiveIn(v)) \in Int
      BY <3>6, <3>7, FS_CardinalityType
    <3>9. QED
      BY <1>1, <3>5, <3>6, <3>7, <3>8
  <2>4. QED
    BY <2>2, <2>3
<1>7. QED
  BY <1>4, <1>5, <1>6 DEF Turn

LEMMA Listing ==
    ASSUME limit \in Limits, NEW w, NEW x, x.sessions = w.sessions,
           NEW y \in World, y.sessions = x.sessions, y.queue = x.queue,
           NEW s \in Session, NEW v, v = List(y, s)
    PROVE  /\ v.sessions = [w.sessions EXCEPT ![Owner[s]] = s]
           /\ \/ /\ v.queue = x.queue
                 /\ limit # 0 => \/ Count(v) - 1 < limit
                                 \/ Owner[s] \in Privileged \cup v.disconnects
              \/ /\ limit # 0 /\ Count(v) - 1 >= limit
                 /\ v.queue = Append(x.queue, s)
BY ListQueue

(* s comes, in the place of o if the account had a session. *)
LEMMA ListTurn ==
    ASSUME limit \in Limits, NEW w, Good(w), NEW v, Good(v),
           NEW s \in Session, ~IsListed(w, s), NEW o \in Session, Owner[o] = Owner[s],
           \A t \in Session : Owner[t] = Owner[s] /\ IsListed(w, t) => t = o,
           NEW x \in World, Thins(w, x, o), ~In(x.queue, o), x.sessions = w.sessions,
           NEW y \in World, y.sessions = x.sessions, y.queue = x.queue, v = List(y, s),
           w.sessions[Owner[s]] = None => x = w
    PROVE  Turn(w, v)
<1>1. w \in World /\ v \in World /\ limit \in Int
      /\ \A t \in Session : Owner[t] \in Account /\ t # None
  BY ConstantsAssumption DEF Good
<1>2. /\ v.sessions = [w.sessions EXCEPT ![Owner[s]] = s]
      /\ \/ /\ v.queue = x.queue
            /\ limit # 0 => \/ Count(v) - 1 < limit
                            \/ Owner[s] \in Privileged \cup v.disconnects
         \/ /\ limit # 0 /\ Count(v) - 1 >= limit
            /\ v.queue = Append(x.queue, s)
  BY Listing
<1>3. \A t \in Session : IsListed(v, t) <=>
         IF Owner[t] = Owner[s] THEN t = s ELSE IsListed(w, t)
  BY <1>1, <1>2 DEF IsListed, World
<1>4. x.queue \in Seq(Session)
  BY DEF World
<1>5. ~In(w.queue, s) /\ ~In(x.queue, s)
  BY DEF Good, Orderly, Thins
<1>6. \A t \in Session : In(w.queue, t) => IsListed(w, t)
  BY DEF Good, Orderly
<1>7. \A t \in Session : In(v.queue, t) <=> In(x.queue, t) \/ (t = s /\ v.queue # x.queue)
  <2> DEFINE r == Append(x.queue, s)
  <2>1. \A t \in Session : In(r, t) <=> In(x.queue, t) \/ t = s
    BY <1>4, AppendOrder
  <2> HIDE DEF r
  <2>2. v.queue = x.queue \/ v.queue = r
    BY <1>2 DEF r
  <2>3. CASE v.queue = x.queue
    BY <2>3
  <2>4. CASE v.queue = r
    <3>1. v.queue # x.queue
      BY <1>5, <2>1, <2>4
    <3>2. QED
      BY <2>1, <2>4, <3>1
  <2>5. QED
    BY <2>2, <2>3, <2>4
<1>8. \A t \in EnteredIn(w, v) :
         \/ t = s /\ v.queue = x.queue
         \/ In(w.queue, t) /\ ~In(x.queue, t) /\ t # o /\ t # s /\ t \in Session
  <2>1. ASSUME NEW t \in EnteredIn(w, v), t # s
        PROVE  In(w.queue, t) /\ ~In(x.queue, t) /\ t # o /\ t \in Session
    <3>1. t \in Session /\ IsListed(v, t) /\ ~In(v.queue, t) /\ ~(IsListed(w, t) /\ ~In(w.queue, t))
      BY DEF EnteredIn, ActiveIn
    <3>2. Owner[t] # Owner[s] /\ IsListed(w, t)
      BY <1>3, <2>1, <3>1
    <3>3. t # o
      BY <3>2
    <3>4. QED
      BY <1>7, <3>1, <3>2, <3>3
  <2>2. ASSUME s \in EnteredIn(w, v) PROVE v.queue = x.queue
    <3>1. ~In(v.queue, s)
      BY <2>2 DEF EnteredIn, ActiveIn
    <3>2. QED
      BY <1>7, <3>1
  <2>3. QED
    BY <2>1, <2>2
<1>9. OrderKept(w, v)
  <2>1. ASSUME NEW t \in WaitingIn(w) \cap WaitingIn(v), NEW u \in WaitingIn(v),
               Before(w.queue, t, u) \/ u \notin WaitingIn(w)
        PROVE  Before(v.queue, t, u)
    <3>1. t \in Session /\ u \in Session /\ In(w.queue, t) /\ In(v.queue, t) /\ In(v.queue, u)
      BY DEF WaitingIn
    <3>2. t # s /\ In(x.queue, t)
      BY <1>5, <1>7, <3>1
    <3>3. CASE u = s
      <4>1. v.queue # x.queue
        BY <1>5, <3>1, <3>3
      <4>2. v.queue = Append(x.queue, s)
        BY <1>2, <4>1
      <4>3. Before(Append(x.queue, s), t, s)
        BY <1>4, <3>1, <3>2, AppendOrder
      <4>4. QED
        BY <3>3, <4>2, <4>3
    <3>4. CASE u # s
      <4>1. In(x.queue, u)
        BY <1>7, <3>1, <3>4
      <4>2. In(w.queue, u)
        BY <3>1, <4>1 DEF Thins
      <4>3. Before(x.queue, t, u)
        BY <2>1, <3>1, <3>2, <4>1, <4>2 DEF Thins, WaitingIn
      <4>4. Before(Append(x.queue, s), t, u)
        BY <1>4, <3>1, <4>3, AppendOrder
      <4>5. QED
        BY <1>2, <4>3, <4>4
    <3>5. QED
      BY <3>3, <3>4
  <2>2. QED
    BY <2>1 DEF OrderKept
<1>10. FrontEnters(w, v)
  <2>1. ASSUME NEW u \in WaitingIn(w), NEW t \in EnteredIn(w, v), Before(w.queue, u, t)
        PROVE  u \notin ActiveIn(v) \cup WaitingIn(v)
    <3>1. u \in Session /\ In(w.queue, u)
      BY DEF WaitingIn
    <3>2. t # s
      <4>1. SUFFICES ASSUME t = s PROVE In(w.queue, s)
        BY <1>5
      <4>2. QED
        BY <2>1, <4>1 DEF Before, In
    <3>3. u = o
      BY <1>8, <2>1, <3>1, <3>2 DEF Thins
    <3>4. u # s
      BY <1>5, <3>1
    <3>5. ~IsListed(v, u)
      BY <1>3, <3>3, <3>4
    <3>6. ~In(v.queue, u)
      BY <3>5, <3>1 DEF Good, Orderly
    <3>7. QED
      BY <3>5, <3>6 DEF ActiveIn, WaitingIn
  <2>2. QED
    BY <2>1 DEF FrontEnters
<1> DEFINE E == EnteredIn(w, v)
           X == ExemptIn(w, v)
           c == Count(w)
           d == Count(v)
           lw == Len(w.queue)
           lx == Len(x.queue)
           lv == Len(v.queue)
           n == GetActiveSessionCount(w)
           k == GetActiveSessionCount(x)
           m == GetActiveSessionCount(v)
<1>11. /\ c \in Nat /\ d = IF w.sessions[Owner[s]] = None THEN c + 1 ELSE c
       /\ Count(x) = c
  BY <1>1, <1>2, ListCounts, CountIsNat, CountIsOfSessions
<1>12. /\ n = c - lw /\ lw \in Nat /\ k = c - lx /\ lx \in Nat /\ m = d - lv /\ lv \in Nat
       /\ v.queue # x.queue => lv = lx + 1
       /\ v.queue = x.queue => lv = lx
       /\ lw = 0 <=> w.queue = <<>>
  <2>1. n = c - lw /\ lw \in Nat /\ k = c - lx /\ lx \in Nat /\ m = d - lv /\ lv \in Nat
    BY <1>1, <1>11, ActiveCounted
  <2>2. v.queue # x.queue => v.queue = Append(x.queue, s)
    BY <1>2
  <2>3. Len(Append(x.queue, s)) = lx + 1
    BY <1>4, AppendProperties
  <2>4. lw = 0 <=> w.queue = <<>>
    BY <1>1, ActiveCounted, EmptySeq
  <2>5. QED
    BY <2>1, <2>2, <2>3, <2>4
<1>13. s \in E /\ s \notin X /\ limit # 0 => d - 1 < limit
  <2>1. SUFFICES ASSUME s \in E, s \notin X, limit # 0 PROVE d - 1 < limit
    OBVIOUS
  <2>2. Owner[s] \notin Privileged \cup v.disconnects
    BY <2>1 DEF ExemptIn
  <2>3. v.queue = x.queue
    BY <1>5, <1>8, <2>1
  <2>4. v.queue # Append(x.queue, s)
    BY <1>12, <1>4, <2>3, AppendProperties
  <2>5. QED
    BY <1>2, <2>1, <2>2, <2>4
<1>14. IsFiniteSet(ActiveIn(v)) /\ Cardinality(ActiveIn(v)) = m
  BY ActiveIsCounted
<1>15. X \subseteq E
  BY DEF ExemptIn
<1>16. NobodyPasses(w, v)
  <2>1. SUFFICES ASSUME limit # 0, w.queue = <<>> \/ n >= limit
                 PROVE  /\ E \subseteq X \cup WaitingIn(w) \/ WaitingIn(w) = {}
                        /\ E \subseteq X \/ Cardinality(ActiveIn(v) \ X) <= limit
    BY DEF NobodyPasses
  <2> HIDE DEF X, c, d, lw, lx, lv, n, k, m
  <2>2. E \subseteq X \cup WaitingIn(w) \/ WaitingIn(w) = {}
    <3>1. SUFFICES ASSUME ~(E \subseteq X \cup WaitingIn(w)) PROVE WaitingIn(w) = {}
      OBVIOUS
    <3>2. s \in E /\ s \notin X
      BY <1>8, <3>1 DEF WaitingIn
    <3>3. d - 1 < limit
      BY <1>13, <2>1, <3>2
    <3>4. w.queue = <<>>
      BY <1>1, <1>11, <1>12, <2>1, <3>3
    <3>5. QED
      BY <3>4, EmptySeq DEF WaitingIn, In
  <2>3. E \subseteq X \/ Cardinality(ActiveIn(v) \ X) <= limit
    <3>1. SUFFICES ASSUME NEW t \in E, t \notin X
                   PROVE  Cardinality(ActiveIn(v) \ X) <= limit
      OBVIOUS
    <3>2. /\ Cardinality(ActiveIn(v) \ X) <= m
          /\ IsFiniteSet(ActiveIn(v) \ X)
      BY <1>14, FS_Subset
    <3>3. Cardinality(ActiveIn(v) \ X) \in Int /\ m \in Int
      BY <1>14, <3>2, FS_CardinalityType
    <3>4. CASE s \in E /\ s \notin X
      <4>1. d - 1 < limit
        BY <1>13, <2>1, <3>4
      <4>2. m <= limit
        BY <1>1, <1>11, <1>12, <4>1
      <4>3. QED
        BY <1>1, <3>2, <3>3, <4>2
    <3>5. CASE s \in E => s \in X
      <4>1. t # s /\ In(w.queue, t) /\ ~In(x.queue, t) /\ t # o /\ t \in Session
        BY <1>8, <3>1, <3>5
      <4>2. n >= limit
        BY <2>1, <4>1, EmptySeq DEF In
      <4>3. k - 1 <= limit
        BY <2>1, <4>1, <4>2 DEF Thins, n, k
      <4>4. d = c
        BY <1>11, <4>1
      <4>5. CASE v.queue # x.queue
        <5>1. m <= limit
          BY <1>1, <1>11, <1>12, <4>3, <4>4, <4>5
        <5>2. QED
          BY <1>1, <3>2, <3>3, <5>1
      <4>6. CASE v.queue = x.queue
        <5>1. s \in ActiveIn(v) /\ s \notin ActiveIn(w)
          BY <1>3, <1>5, <1>7, <4>6 DEF ActiveIn
        <5>2. s \in X
          BY <3>5, <5>1 DEF EnteredIn
        <5>3. IsFiniteSet(ActiveIn(v) \ {s}) /\ Cardinality(ActiveIn(v) \ {s}) = m - 1
          BY <1>14, <5>1, FS_RemoveElement
        <5>4. (ActiveIn(v) \ X) \in SUBSET (ActiveIn(v) \ {s})
          BY <5>2
        <5>5. Cardinality(ActiveIn(v) \ X) <= m - 1
          <6> HIDE DEF E
          <6>1. QED
            BY <5>3, <5>4, FS_Subset
        <5>6. m - 1 <= limit
          BY <1>1, <1>11, <1>12, <4>3, <4>4, <4>6
        <5>7. QED
          BY <1>1, <3>3, <5>5, <5>6
      <4>7. QED
        BY <4>5, <4>6
    <3>6. QED
      BY <3>4, <3>5
  <2>4. QED
    BY <2>2, <2>3
<1>17. QED
  BY <1>9, <1>10, <1>16 DEF Turn

(* Thins is about the maps and the queue only. *)
LEMMA ThinsOfSame ==
    ASSUME NEW w, NEW v, v.sessions = w.sessions, v.queue = w.queue, NEW x, NEW o,
           Thins(v, x, o)
    PROVE  Thins(w, x, o)
<1>1. GetActiveSessionCount(v) = GetActiveSessionCount(w)
  BY DEF GetActiveSessionCount
<1>2. QED
  BY <1>1 DEF Thins

LEMMA AddFirstTurn ==
    ASSUME IInv, IInv', NEW s \in Session, AddFirstSession(s)
    PROVE  Turn(world, world')
<1>1. /\ Adding(s) /\ world' = List(world, s) /\ world.sessions[Owner[s]] = None
      /\ Good(world) /\ Good(world') /\ world \in World /\ limit \in Limits
  BY DEF AddFirstSession, Old, IInv, Good
<1>2. ~IsListed(world, s)
  BY <1>1, AddedIsNew
<1>3. \A t \in Session : Owner[t] = Owner[s] /\ IsListed(world, t) => t = s
  BY <1>1, ConstantsAssumption DEF IsListed
<1>4. ~In(world.queue, s)
  BY <1>1, <1>2 DEF Good, Orderly
<1>5. Thins(world, world, s)
  BY DEF Thins
<1>6. QED
  BY <1>1, <1>2, <1>3, <1>4, <1>5, ListTurn

LEMMA ReplaceTurn ==
    ASSUME IInv, IInv', NEW s \in Session, ReplaceSession(s)
    PROVE  Turn(world, world')
<1>1. /\ Good(world) /\ Good(world') /\ limit \in Limits
      /\ Adding(s) /\ Old(s) # None
  BY DEF ReplaceSession, IInv
<1>2. ~IsListed(world, s)
  BY <1>1, AddedIsNew
<1>3. PICK o \in Session, kicked \in World, y \in World :
         /\ Owner[o] = Owner[s] /\ IsListed(world, o)
         /\ Good(kicked) /\ IsListed(kicked, o)
         /\ kicked.sessions = world.sessions /\ kicked.queue = world.queue
         /\ y.sessions = world.sessions
         /\ y.queue = RemoveQueuedPlayer(kicked, o).queue
         /\ world' = List(y, s)
  BY ReplaceSteps
<1> DEFINE removed == RemoveQueuedPlayer(kicked, o)
<1>4. /\ Thins(kicked, removed, o) /\ removed \in World /\ ~In(removed.queue, o)
      /\ removed.sessions = world.sessions
  BY <1>1, <1>3, RemoveQueuedPlayerThins, RemoveQueuedPlayerProperties DEF Good
<1>5. y.sessions = removed.sessions /\ y.queue = removed.queue
  BY <1>3, <1>4
<1> HIDE DEF removed
<1>6. Thins(world, removed, o)
  BY <1>3, <1>4, ThinsOfSame
<1>7. \A t \in Session : Owner[t] = Owner[s] /\ IsListed(world, t) => t = o
  BY <1>3 DEF IsListed
<1>8. world.sessions[Owner[s]] # None
  BY <1>1 DEF Old
<1>9. QED
  BY <1>1, <1>2, <1>3, <1>4, <1>5, <1>6, <1>7, <1>8, ListTurn

LEMMA LeavesTurn ==
    ASSUME IInv, IInv', NEW u, Good(u), u.sessions = world.sessions, u.queue = world.queue,
           NEW s \in Session, IsListed(u, s),
           NEW w, w = Unlist(RemoveQueuedPlayer(u, s), s),
           world' \in {PutOffline(w, s), Delete(w, s)}
    PROVE  Turn(world, world')
<1> DEFINE x == RemoveQueuedPlayer(u, s)
<1>1. Good(world) /\ Good(world') /\ limit \in Limits /\ IsListed(world, s)
  BY DEF IInv, IsListed
<1>2. /\ Thins(u, x, s) /\ x \in World /\ ~In(x.queue, s) /\ x.sessions = u.sessions
  BY <1>1, RemoveQueuedPlayerThins, RemoveQueuedPlayerProperties DEF Good
<1>3. w = Unlist(x, s)
  OBVIOUS
<1> HIDE DEF x
<1>4. Thins(world, x, s)
  BY <1>2, ThinsOfSame
<1>5. /\ w \in World /\ w.queue = x.queue
      /\ w.sessions = [x.sessions EXCEPT ![Owner[s]] = None]
  BY <1>2, <1>3, UnlistProperties
<1>6. world'.sessions = w.sessions /\ world'.queue = w.queue
  <2>1. CASE world' = PutOffline(w, s)
    BY <1>5, <2>1, PutOfflineProperties
  <2>2. CASE world' = Delete(w, s)
    BY <1>5, <2>2, DeleteProperties DEF SameBut
  <2>3. QED
    BY <2>1, <2>2
<1>7. world'.sessions = [world.sessions EXCEPT ![Owner[s]] = None] /\ world'.queue = x.queue
      /\ x.sessions = world.sessions
  BY <1>2, <1>5, <1>6
<1>8. QED
  BY <1>1, <1>2, <1>4, <1>7, LeaveTurn

LEMMA UpdateSessionTurn ==
    ASSUME IInv, IInv', NEW a \in Account, GoOffline(a) \/ UpdateSession(a)
    PROVE  Turn(world, world')
<1> DEFINE s == world.sessions[a]
<1>1. Visit(a)
  BY DEF GoOffline, UpdateSession
<1>2. s \in Session /\ IsListed(world, s) /\ Good(world)
  BY <1>1, VisitedIsListed DEF IInv
<1>3. CASE GoOffline(a)
  <2>1. world' = PutOffline(Unlist(RemoveQueuedPlayer(world, s), s), s)
    BY <1>3 DEF GoOffline
  <2> HIDE DEF s
  <2>2. QED
    BY <1>2, <2>1, LeavesTurn
<1>4. CASE UpdateSession(a)
  <2>1. PICK v \in Update(s) :
           world' = IF v.st[s].closed THEN Delete(Unlist(RemoveQueuedPlayer(v, s), s), s)
                                      ELSE v
    BY <1>4 DEF UpdateSession
  <2> HIDE DEF s
  <2>2. Updatable(world, s)
    BY <1>2 DEF Good, Owned, Orderly, Updatable
  <2>3. Updated(world, v, s)
    BY <1>2, <2>1, <2>2, UpdateUpdates
  <2>4. Good(v) /\ IsListed(v, s)
    BY <1>2, <2>3, UpdatedIsGood
  <2>5. v.sessions = world.sessions /\ v.queue = world.queue
    BY <2>3 DEF Updated, SameBut
  <2>6. CASE world' = v
    BY <2>5, <2>6, SameTurn
  <2>7. CASE world' = Delete(Unlist(RemoveQueuedPlayer(v, s), s), s)
    BY <1>2, <2>4, <2>5, <2>7, LeavesTurn
  <2>8. QED
    BY <2>1, <2>6, <2>7
<1>5. QED
  BY <1>3, <1>4

LEMMA StepTurn ==
    ASSUME IInv, IInv', Next, ~stopping'
    PROVE  Turn(world, world')
<1>1. CASE WorldStep
  BY <1>1, AddFirstTurn, ReplaceTurn, UpdateSessionTurn, OthersKeep, SameTurn DEF WorldStep
<1>2. CASE KickAll
  BY <1>2 DEF KickAll
<1>3. CASE ~WorldStep /\ ~KickAll
  BY <1>3, OthersKeep, SameTurn DEF Next
<1>4. QED
  BY <1>1, <1>2, <1>3

(* The queue before the limit is first come, first served, and nobody but  *)
(* the staff and those who come back passes it or enters above the limit   *)
(* (AddSession_, AddQueuedPlayer, RemoveQueuedPlayer).                     *)
THEOREM FirstComeFirstServed == Spec => InTurn
<1> DEFINE A == ~stopping' =>
          /\ \A s \in Waiting \cap Waiting', t \in Waiting' :
                Before(world.queue, s, t) \/ t \notin Waiting => Before(world'.queue, s, t)
          /\ \A s \in Waiting, t \in Entered :
                Before(world.queue, s, t) => s \notin Active' \cup Waiting'
          /\ limit # 0 /\ Unused = 0 =>
                 /\ Entered \subseteq Exempt \cup Waiting \/ Waiting = {}
                 /\ Entered \subseteq Exempt
                    \/ Cardinality(Active' \ Exempt) <= limit
<1>1. IInv /\ IInv' /\ [Next]_vars => [A]_vars
  BY StepTurn, TurnIsInTurn
<1>2. InTurn <=> [][A]_vars
  BY DEF InTurn
<1> HIDE DEF A
<1>3. QED
  BY <1>1, <1>2, Invariance, PTL DEF Spec
=============================================================================
