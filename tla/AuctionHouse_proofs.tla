------------------------ MODULE AuctionHouse_proofs ------------------------
(***************************************************************************)
(* Proofs about AuctionHouse, for any players, items, purses, offers and   *)
(* restarts, while operations do not overlap: no money and no item is lost *)
(* or copied, in memory or in the database, and everything that memory     *)
(* shows is in the database or in the queue of transactions.               *)
(***************************************************************************)
EXTENDS AuctionHouse, DataLemmas

-----------------------------------------------------------------------------
(* Apply performs the statements of a transaction one after the other.     *)

(* k is the function that Apply(im, tx) defines on the sets of positions. *)
Folds(k, im, tx) ==
    k = [s \in SUBSET (DOMAIN tx) |->
            IF s = {} THEN im ELSE Perform(k[s \ {Max(s)}], tx[Max(s)])]

FoldsUpTo(n, k, im, tx) ==
    k = [s \in SUBSET (DOMAIN tx) |->
            IF s = {} \/ Cardinality(s) > n THEN im
            ELSE Perform(k[s \ {Max(s)}], tx[Max(s)])]

LEMMA LastPosition ==
    ASSUME NEW B, NEW tx \in Seq(B), NEW s \in SUBSET (DOMAIN tx), s # {}
    PROVE  Max(s) \in s /\ IsFiniteSet(DOMAIN tx)
<1>1. Len(tx) \in Nat /\ DOMAIN tx = 1..Len(tx)
  OBVIOUS
<1>2. s \in SUBSET (0..Len(tx))
  BY <1>1
<1>3. IsFiniteSet(1..Len(tx))
  BY <1>1, FS_Interval
<1>. QED
  BY <1>1, <1>2, <1>3, MaxIsIn

LEMMA FoldsGrow ==
    ASSUME NEW B, NEW tx \in Seq(B), NEW im, NEW n \in Nat, NEW k, FoldsUpTo(n, k, im, tx)
    PROVE  \E g : FoldsUpTo(n + 1, g, im, tx)
<1>0. IsFiniteSet(DOMAIN tx)
  BY FS_Interval
<1>1. PICK g : g = [s \in SUBSET (DOMAIN tx) |->
                       IF s = {} \/ Cardinality(s) > n + 1 THEN im
                       ELSE Perform(k[s \ {Max(s)}], tx[Max(s)])]
  OBVIOUS
<1>2. ASSUME NEW s \in SUBSET (DOMAIN tx), Cardinality(s) <= n PROVE g[s] = k[s]
  <2>1. Cardinality(s) \in Nat
    BY <1>0, FS_Subset, FS_CardinalityType
  <2>2. ~(Cardinality(s) > n) /\ ~(Cardinality(s) > n + 1)
    BY <1>2, <2>1
  <2>3. k[s] = IF s = {} \/ Cardinality(s) > n THEN im
               ELSE Perform(k[s \ {Max(s)}], tx[Max(s)])
    BY Zenon DEF FoldsUpTo
  <2>4. g[s] = IF s = {} \/ Cardinality(s) > n + 1 THEN im
               ELSE Perform(k[s \ {Max(s)}], tx[Max(s)])
    BY <1>1, Zenon
  <2>5. CASE s = {}
    BY <2>3, <2>4, <2>5, Zenon
  <2>6. CASE s # {}
    BY <2>2, <2>3, <2>4, <2>6, Zenon
  <2>. QED
    BY <2>5, <2>6
<1>3. ASSUME NEW s \in SUBSET (DOMAIN tx)
      PROVE  g[s] = IF s = {} \/ Cardinality(s) > n + 1 THEN im
                    ELSE Perform(g[s \ {Max(s)}], tx[Max(s)])
  <2>1. g[s] = IF s = {} \/ Cardinality(s) > n + 1 THEN im
               ELSE Perform(k[s \ {Max(s)}], tx[Max(s)])
    BY <1>1, Zenon
  <2>2. ASSUME s # {}, ~(Cardinality(s) > n + 1)
        PROVE  g[s \ {Max(s)}] = k[s \ {Max(s)}]
    <3>1. Max(s) \in s
      BY <2>2, LastPosition
    <3>2. s \ {Max(s)} \in SUBSET (DOMAIN tx) /\ Cardinality(s \ {Max(s)}) <= n
      BY <1>0, <2>2, <3>1, OneLess
    <3>. QED
      BY <1>2, <3>2
  <2>. QED
    BY <2>1, <2>2, Zenon
<1>4. FoldsUpTo(n + 1, g, im, tx)
  <2>1. g = [s \in SUBSET (DOMAIN tx) |-> g[s]]
    BY <1>1, Zenon
  <2>. QED
    BY <1>3, <2>1, Zenon DEF FoldsUpTo
<1>. QED
  BY <1>4

LEMMA FoldsExist ==
    ASSUME NEW B, NEW tx \in Seq(B), NEW im
    PROVE  \E k : Folds(k, im, tx)
<1>0. IsFiniteSet(DOMAIN tx)
  BY FS_Interval
<1>1. PICK T : T = {n \in Nat : \E k : FoldsUpTo(n, k, im, tx)}
  OBVIOUS
<1>2. 0 \in T
  <2>1. PICK k : k = [s \in SUBSET (DOMAIN tx) |-> im]
    OBVIOUS
  <2>2. \A s \in SUBSET (DOMAIN tx) : s = {} \/ Cardinality(s) > 0
    BY <1>0, FS_Subset, FS_EmptySet, FS_CardinalityType
  <2>3. FoldsUpTo(0, k, im, tx)
    BY <2>1, <2>2, Zenon DEF FoldsUpTo
  <2>. QED
    BY <1>1, <2>3
<1>3. \A n \in Nat : n \in T => n + 1 \in T
  BY <1>1, FoldsGrow
<1>4. \A n \in Nat : n \in T
  BY <1>2, <1>3, Induction
<1>5. Cardinality(DOMAIN tx) \in Nat
  BY <1>0, FS_CardinalityType
<1>6. PICK k : FoldsUpTo(Cardinality(DOMAIN tx), k, im, tx)
  BY <1>1, <1>4, <1>5
<1>7. \A s \in SUBSET (DOMAIN tx) : ~(Cardinality(s) > Cardinality(DOMAIN tx))
  BY <1>0, <1>5, FS_Subset, FS_CardinalityType
<1>8. Folds(k, im, tx)
  BY <1>6, <1>7, Zenon DEF FoldsUpTo, Folds
<1>. QED
  BY <1>8

LEMMA ApplyDef ==
    ASSUME NEW B, NEW tx \in Seq(B), NEW im
    PROVE  \E k : Folds(k, im, tx) /\ Apply(im, tx) = k[DOMAIN tx]
<1>1. Apply(im, tx) = (CHOOSE k : Folds(k, im, tx))[DOMAIN tx]
  BY Zenon DEF Apply, FoldLeft, MapThenFoldSet, Folds
<1>. QED
  BY <1>1, FoldsExist

LEMMA ApplyEmpty == ASSUME NEW im PROVE Apply(im, <<>>) = im
<1>1. PICK tx : tx = <<>> /\ tx \in Seq({})
  BY EmptySeq
<1>2. PICK k : Folds(k, im, tx) /\ Apply(im, tx) = k[DOMAIN tx]
  BY <1>1, ApplyDef
<1>3. DOMAIN tx = {} /\ {} \in SUBSET (DOMAIN tx)
  BY <1>1
<1>4. k[{}] = im
  BY <1>2, <1>3, Zenon DEF Folds
<1>. QED
  BY <1>1, <1>2, <1>3, <1>4

LEMMA ApplyAppend ==
    ASSUME NEW B, NEW tx \in Seq(B), NEW s \in B, NEW im
    PROVE  Apply(im, Append(tx, s)) = Perform(Apply(im, tx), s)
<1>1. PICK u : u = Append(tx, s)
  OBVIOUS
<1>2. /\ u \in Seq(B) /\ DOMAIN u = (DOMAIN tx) \cup {Len(tx) + 1} /\ Len(tx) \in Nat
      /\ u[Len(tx) + 1] = s /\ \A i \in DOMAIN tx : u[i] = tx[i]
      /\ DOMAIN tx = 1..Len(tx) /\ DOMAIN u = 1..Len(tx) + 1
  BY <1>1
<1>3. PICK k : Folds(k, im, tx) /\ Apply(im, tx) = k[DOMAIN tx]
  BY ApplyDef
<1>4. PICK g : Folds(g, im, u) /\ Apply(im, u) = g[DOMAIN u]
  BY <1>2, ApplyDef
<1>5. ASSUME NEW x \in SUBSET (DOMAIN tx)
      PROVE  k[x] = IF x = {} THEN im ELSE Perform(k[x \ {Max(x)}], tx[Max(x)])
  BY <1>3, Zenon DEF Folds
<1>6. ASSUME NEW x \in SUBSET (DOMAIN u)
      PROVE  g[x] = IF x = {} THEN im ELSE Perform(g[x \ {Max(x)}], u[Max(x)])
  BY <1>4, Zenon DEF Folds
<1>7. IsFiniteSet(DOMAIN tx)
  BY <1>2, FS_Interval
<1>8. PICK T : T = {n \in Nat : \A x \in SUBSET (DOMAIN tx) : Cardinality(x) = n => g[x] = k[x]}
  OBVIOUS
<1>9. 0 \in T
  <2>1. ASSUME NEW x \in SUBSET (DOMAIN tx), Cardinality(x) = 0 PROVE g[x] = k[x]
    <3>1. x = {} /\ x \in SUBSET (DOMAIN u)
      BY <1>2, <1>7, <2>1, FS_Subset, FS_EmptySet
    <3>. QED
      BY <1>5, <1>6, <3>1, Zenon
  <2>. QED
    BY <1>8, <2>1
<1>10. ASSUME NEW n \in Nat, n \in T PROVE n + 1 \in T
  <2>1. ASSUME NEW x \in SUBSET (DOMAIN tx), Cardinality(x) = n + 1 PROVE g[x] = k[x]
    <3>1. x # {}
      <4>1. n + 1 # 0
        OBVIOUS
      <4>. QED
        BY <2>1, <4>1, FS_EmptySet
    <3>2. Max(x) \in x
      BY <3>1, LastPosition
    <3>3. x \ {Max(x)} \in SUBSET (DOMAIN tx) /\ Cardinality(x \ {Max(x)}) = n
      BY <1>7, <2>1, <3>2, OneLess
    <3>4. g[x \ {Max(x)}] = k[x \ {Max(x)}]
      BY <1>8, <1>10, <3>3
    <3>5. u[Max(x)] = tx[Max(x)] /\ x \in SUBSET (DOMAIN u)
      BY <1>2, <3>2
    <3>6. k[x] = Perform(k[x \ {Max(x)}], tx[Max(x)])
      BY <1>5, <3>1, Zenon
    <3>7. g[x] = Perform(g[x \ {Max(x)}], u[Max(x)])
      BY <1>6, <3>1, <3>5, Zenon
    <3>. QED
      BY <3>4, <3>5, <3>6, <3>7
  <2>. QED
    BY <1>8, <2>1
<1>11. \A n \in Nat : n \in T
  BY <1>9, <1>10, Induction
<1>12. g[DOMAIN tx] = k[DOMAIN tx]
  BY <1>7, <1>8, <1>11, FS_CardinalityType
<1>13. Max(DOMAIN u) = Len(tx) + 1
  <2>0. PICK m \in Nat : m = Len(tx) + 1
    BY <1>2
  <2>1. DOMAIN u \in SUBSET (0..m) /\ DOMAIN u # {} /\ m \in DOMAIN u
    BY <1>2, <2>0
  <2>2. Max(DOMAIN u) \in DOMAIN u /\ \A y \in DOMAIN u : Max(DOMAIN u) >= y
    BY <2>1, MaxIsIn
  <2>3. PICK x : x = Max(DOMAIN u)
    OBVIOUS
  <2>4. x \in 1..m /\ x >= m
    BY <1>2, <2>0, <2>1, <2>2, <2>3
  <2>. QED
    BY <2>0, <2>3, <2>4
<1>14. DOMAIN u \ {Len(tx) + 1} = DOMAIN tx /\ DOMAIN u # {}
  BY <1>2
<1>15. g[DOMAIN u] = Perform(g[DOMAIN u \ {Max(DOMAIN u)}], u[Max(DOMAIN u)])
  BY <1>6, <1>14, Zenon
<1>. QED
  BY <1>1, <1>2, <1>3, <1>4, <1>12, <1>13, <1>14, <1>15

(* A transaction may be split anywhere. *)
LEMMA ApplyConcat ==
    ASSUME NEW B
    PROVE  \A im : \A tx, u \in Seq(B) : Apply(im, tx \o u) = Apply(Apply(im, tx), u)
<1>1. SUFFICES ASSUME NEW im, NEW tx \in Seq(B)
               PROVE  \A u \in Seq(B) : Apply(im, tx \o u) = Apply(Apply(im, tx), u)
  OBVIOUS
<1>2. PICK T : T = {n \in Nat : \A u \in Seq(B) : Len(u) = n =>
                        Apply(im, tx \o u) = Apply(Apply(im, tx), u)}
  OBVIOUS
<1>3. 0 \in T
  <2>1. ASSUME NEW u \in Seq(B), Len(u) = 0
        PROVE  Apply(im, tx \o u) = Apply(Apply(im, tx), u)
    <3>1. u = <<>>
      BY <2>1
    <3>2. tx \o u = tx
      BY <3>1
    <3>. QED
      BY <3>1, <3>2, ApplyEmpty
  <2>. QED
    BY <1>2, <2>1
<1>4. ASSUME NEW n \in Nat, n \in T PROVE n + 1 \in T
  <2>1. ASSUME NEW u \in Seq(B), Len(u) = n + 1
        PROVE  Apply(im, tx \o u) = Apply(Apply(im, tx), u)
    <3>1. PICK v \in Seq(B), s \in B : u = Append(v, s) /\ Len(v) = n
      <4>1. SubSeq(u, 1, n) \in Seq(B) /\ Len(SubSeq(u, 1, n)) = n /\ u[n + 1] \in B
        BY <2>1, SplitSeq
      <4>2. u = Append(SubSeq(u, 1, n), u[n + 1])
        BY <2>1
      <4>. QED
        BY <4>1, <4>2
    <3>2. tx \o u = Append(tx \o v, s) /\ tx \o v \in Seq(B)
      BY <3>1
    <3>3. Apply(im, tx \o v) = Apply(Apply(im, tx), v)
      BY <1>2, <1>4, <3>1
    <3>4. Apply(im, Append(tx \o v, s)) = Perform(Apply(im, tx \o v), s)
      BY <3>2, ApplyAppend
    <3>5. Apply(Apply(im, tx), Append(v, s)) = Perform(Apply(Apply(im, tx), v), s)
      BY ApplyAppend
    <3>. QED
      BY <3>1, <3>2, <3>3, <3>4, <3>5
  <2>. QED
    BY <1>2, <2>1
<1>5. \A n \in Nat : n \in T
  BY <1>3, <1>4, Induction
<1>. QED
  BY <1>2, <1>5
LEMMA ApplyParts ==
    ASSUME NEW B, NEW im, NEW u \in Seq(B), NEW s \in Seq(B), NEW t \in Seq(B)
    PROVE  /\ (u \o s) \o t \in Seq(B)
           /\ Apply(im, (u \o s) \o t) = Apply(Apply(Apply(im, u), s), t)
<1>1. PICK v : v = u \o s
  OBVIOUS
<1>2. v \in Seq(B)
  BY <1>1, ConcatProperties
<1>3. v \o t \in Seq(B)
  BY <1>2, ConcatProperties
<1>4. Apply(im, v \o t) = Apply(Apply(im, v), t)
  BY <1>2, ApplyConcat
<1>5. Apply(im, u \o s) = Apply(Apply(im, u), s)
  BY ApplyConcat
<1>. QED
  BY <1>1, <1>3, <1>4, <1>5, Zenon

-----------------------------------------------------------------------------
(* Images, and what one statement makes of one.                            *)

LetterBag ==
    {b \in UNION {[S -> Nat \ {0}] : S \in SUBSET (Nat \ {0})} : IsFiniteSet(DOMAIN b)}

Images ==
    [gold : [Player -> Nat], letters : [Player -> LetterBag],
     inventory : [Guid -> Player \cup {None}], mailed : [Guid -> Player \cup {None}],
     stack : [Guid -> 0..MaxStack], auctions : [AuctionId -> AuctionEntry \cup {None}],
     till : Int]

Statements ==
    [table : {"gold", "letters", "inventory", "mailed", "stack", "auctions", "till"},
     row : Player \cup Guid \cup AuctionId \cup {None},
     value : Int \cup Player \cup AuctionEntry \cup {None}]

LEMMA LetterBagIs ==
    ASSUME NEW b
    PROVE  b \in LetterBag <=>
              /\ b \in [DOMAIN b -> Nat \ {0}]
              /\ DOMAIN b \subseteq Nat \ {0} /\ IsFiniteSet(DOMAIN b)
BY DEF LetterBag

LEMMA LetterAdded ==
    ASSUME NEW b \in LetterBag, NEW m \in Nat \ {0}
    PROVE  /\ b (+) SetToBag({m}) \in LetterBag
           /\ DOMAIN (b (+) SetToBag({m})) = DOMAIN b \cup {m}
           /\ (b (+) SetToBag({m}))[m] = (IF m \in DOMAIN b THEN b[m] ELSE 0) + 1
           /\ \A e \in DOMAIN b \ {m} : (b (+) SetToBag({m}))[e] = b[e]
<1>1. PICK c : c = b (+) SetToBag({m})
  OBVIOUS
<1>2. c = [e \in (DOMAIN b) \cup {m} |->
              (IF e \in DOMAIN b THEN b[e] ELSE 0) + (IF e \in {m} THEN 1 ELSE 0)]
  BY <1>1 DEF (+), SetToBag
<1>3. /\ b \in [DOMAIN b -> Nat \ {0}]
      /\ DOMAIN b \subseteq Nat \ {0} /\ IsFiniteSet(DOMAIN b)
  BY LetterBagIs
<1>4. DOMAIN c = DOMAIN b \cup {m} /\ c[m] = (IF m \in DOMAIN b THEN b[m] ELSE 0) + 1
      /\ \A e \in DOMAIN b \ {m} : c[e] = b[e]
  BY <1>2, <1>3
<1>5. IsFiniteSet(DOMAIN b \cup {m})
  BY <1>3, FS_AddElement
<1>6. c \in [DOMAIN c -> Nat \ {0}] /\ DOMAIN c \subseteq Nat \ {0}
  BY <1>2, <1>3
<1>7. c \in LetterBag
  BY <1>4, <1>5, <1>6, LetterBagIs
<1>. QED
  BY <1>1, <1>4, <1>7

LEMMA LetterRemoved ==
    ASSUME NEW b \in LetterBag, NEW m \in DOMAIN b
    PROVE  /\ b (-) SetToBag({m}) \in LetterBag
           /\ DOMAIN (b (-) SetToBag({m})) = IF b[m] = 1 THEN DOMAIN b \ {m} ELSE DOMAIN b
           /\ b[m] # 1 => (b (-) SetToBag({m}))[m] = b[m] - 1
           /\ \A e \in DOMAIN b \ {m} : (b (-) SetToBag({m}))[e] = b[e]
<1>1. PICK c : c = b (-) SetToBag({m})
  OBVIOUS
<1>2. PICK d : d = [e \in DOMAIN b |-> IF e \in {m} THEN b[e] - 1 ELSE b[e]]
  OBVIOUS
<1>3. c = [e \in {x \in DOMAIN d : d[x] > 0} |-> d[e]]
  <2>1. d = [e \in DOMAIN b |-> IF e \in DOMAIN SetToBag({m}) THEN b[e] - SetToBag({m})[e]
                                ELSE b[e]]
    BY <1>2 DEF SetToBag
  <2>. QED
    BY <1>1, <2>1, Zenon DEF (-)
<1>4. /\ b \in [DOMAIN b -> Nat \ {0}]
      /\ DOMAIN b \subseteq Nat \ {0} /\ IsFiniteSet(DOMAIN b)
  BY LetterBagIs
<1>5. DOMAIN d = DOMAIN b /\ d[m] = b[m] - 1 /\ \A e \in DOMAIN b \ {m} : d[e] = b[e]
  BY <1>2
<1>6. b[m] \in Nat \ {0} /\ \A e \in DOMAIN b : b[e] \in Nat \ {0} /\ e \in Nat \ {0}
  BY <1>4
<1>7. {x \in DOMAIN d : d[x] > 0} = IF b[m] = 1 THEN DOMAIN b \ {m} ELSE DOMAIN b
  BY <1>5, <1>6
<1>8. /\ DOMAIN c = IF b[m] = 1 THEN DOMAIN b \ {m} ELSE DOMAIN b
      /\ \A e \in DOMAIN c : c[e] = d[e]
  BY <1>3, <1>7
<1>9. /\ b[m] # 1 => c[m] = b[m] - 1
      /\ \A e \in DOMAIN b \ {m} : c[e] = b[e]
  BY <1>5, <1>8
<1>10. IsFiniteSet(DOMAIN c)
  BY <1>4, <1>8, FS_RemoveElement
<1>11. c \in [DOMAIN c -> Nat \ {0}] /\ DOMAIN c \subseteq Nat \ {0}
  <2>1. \A e \in DOMAIN c : c[e] \in Nat \ {0} /\ e \in Nat \ {0}
    <3>. TAKE e \in DOMAIN c
    <3>1. CASE e = m
      BY <1>6, <1>8, <1>9, <3>1
    <3>2. CASE e # m
      BY <1>6, <1>8, <1>9, <3>2
    <3>. QED
      BY <3>1, <3>2
  <2>2. c = [e \in DOMAIN c |-> c[e]]
    BY <1>3, <1>8
  <2>. QED
    BY <2>1, <2>2
<1>12. c \in LetterBag
  BY <1>10, <1>11, LetterBagIs
<1>. QED
  BY <1>1, <1>8, <1>9, <1>12

LEMMA SetGold ==
    ASSUME NEW im \in Images, NEW p \in Player, NEW v \in Nat
    PROVE  /\ Perform(im, Set("gold", p, v)) =
                 [im EXCEPT !.gold = [im.gold EXCEPT ![p] = v]]
           /\ Perform(im, Set("gold", p, v)) \in Images
<1>1. Perform(im, Set("gold", p, v)) = [im EXCEPT !.gold = [im.gold EXCEPT ![p] = v]]
  BY DEF Perform, Set
<1>2. [im EXCEPT !.gold = [im.gold EXCEPT ![p] = v]] \in Images
  BY DEF Images
<1>. QED
  BY <1>1, <1>2

LEMMA SetInventory ==
    ASSUME NEW im \in Images, NEW g \in Guid, NEW p \in Player \cup {None}
    PROVE  /\ Perform(im, Set("inventory", g, p)) =
                 [im EXCEPT !.inventory = [im.inventory EXCEPT ![g] = p]]
           /\ Perform(im, Set("inventory", g, p)) \in Images
<1>1. Perform(im, Set("inventory", g, p)) =
            [im EXCEPT !.inventory = [im.inventory EXCEPT ![g] = p]]
  BY DEF Perform, Set
<1>2. [im EXCEPT !.inventory = [im.inventory EXCEPT ![g] = p]] \in Images
  BY DEF Images
<1>. QED
  BY <1>1, <1>2

LEMMA SetMailed ==
    ASSUME NEW im \in Images, NEW g \in Guid, NEW p \in Player \cup {None}
    PROVE  /\ Perform(im, Parcel(p, g)) =
                 [im EXCEPT !.mailed = [im.mailed EXCEPT ![g] = p]]
           /\ Perform(im, Parcel(p, g)) \in Images
<1>1. Perform(im, Parcel(p, g)) = [im EXCEPT !.mailed = [im.mailed EXCEPT ![g] = p]]
  BY DEF Perform, Set, Parcel
<1>2. [im EXCEPT !.mailed = [im.mailed EXCEPT ![g] = p]] \in Images
  BY DEF Images
<1>. QED
  BY <1>1, <1>2

LEMMA SetStack ==
    ASSUME NEW im \in Images, NEW g \in Guid, NEW n \in 0..MaxStack
    PROVE  /\ Perform(im, Set("stack", g, n)) =
                 [im EXCEPT !.stack = [im.stack EXCEPT ![g] = n]]
           /\ Perform(im, Set("stack", g, n)) \in Images
<1>1. Perform(im, Set("stack", g, n)) = [im EXCEPT !.stack = [im.stack EXCEPT ![g] = n]]
  BY DEF Perform, Set
<1>2. [im EXCEPT !.stack = [im.stack EXCEPT ![g] = n]] \in Images
  BY DEF Images
<1>. QED
  BY <1>1, <1>2

LEMMA SetAuction ==
    ASSUME NEW im \in Images, NEW id \in AuctionId, NEW a \in AuctionEntry \cup {None}
    PROVE  /\ Perform(im, Set("auctions", id, a)) =
                 [im EXCEPT !.auctions = [im.auctions EXCEPT ![id] = a]]
           /\ Perform(im, Set("auctions", id, a)) \in Images
<1>1. Perform(im, Set("auctions", id, a)) =
            [im EXCEPT !.auctions = [im.auctions EXCEPT ![id] = a]]
  BY DEF Perform, Set
<1>2. [im EXCEPT !.auctions = [im.auctions EXCEPT ![id] = a]] \in Images
  BY DEF Images
<1>. QED
  BY <1>1, <1>2

LEMMA SetTill ==
    ASSUME NEW im \in Images, NEW m \in Int
    PROVE  /\ Perform(im, ToTill(m)) =
                 [im EXCEPT !.till = im.till + m]
           /\ Perform(im, ToTill(m)) \in Images
<1>1. Perform(im, ToTill(m)) = [im EXCEPT !.till = im.till + m]
  BY DEF Perform, Set, ToTill
<1>2. [im EXCEPT !.till = im.till + m] \in Images
  BY DEF Images
<1>. QED
  BY <1>1, <1>2

LEMMA PerformLetter ==
    ASSUME NEW im \in Images, NEW p \in Player
    PROVE  /\ \A m \in Nat \ {0} :
                /\ Perform(im, Letter(p, m)) =
                      [im EXCEPT !.letters = [im.letters EXCEPT ![p] = @ (+) SetToBag({m})]]
                /\ Perform(im, Letter(p, m)) \in Images
           /\ \A m \in DOMAIN im.letters[p] :
                /\ Perform(im, TakeOut(p, m)) =
                      [im EXCEPT !.letters = [im.letters EXCEPT ![p] = @ (-) SetToBag({m})]]
                /\ Perform(im, TakeOut(p, m)) \in Images
<1>0. im.letters \in [Player -> LetterBag] /\ im.letters[p] \in LetterBag
  BY DEF Images
<1>1. ASSUME NEW m \in Nat \ {0}
      PROVE  /\ Perform(im, Letter(p, m)) =
                   [im EXCEPT !.letters = [im.letters EXCEPT ![p] = @ (+) SetToBag({m})]]
             /\ Perform(im, Letter(p, m)) \in Images
  <2>1. m > 0
    OBVIOUS
  <2>2. Perform(im, Letter(p, m)) =
           [im EXCEPT !.letters = [im.letters EXCEPT ![p] = im.letters[p] (+) SetToBag({m})]]
    BY <2>1 DEF Perform, Set, Letter
  <2>3. im.letters[p] (+) SetToBag({m}) \in LetterBag
    BY <1>0, LetterAdded
  <2>4. \A b \in LetterBag : [im EXCEPT !.letters = [im.letters EXCEPT ![p] = b]] \in Images
    BY DEF Images
  <2>. QED
    BY <2>2, <2>3, <2>4
<1>2. ASSUME NEW m \in DOMAIN im.letters[p]
      PROVE  /\ Perform(im, TakeOut(p, m)) =
                   [im EXCEPT !.letters = [im.letters EXCEPT ![p] = @ (-) SetToBag({m})]]
             /\ Perform(im, TakeOut(p, m)) \in Images
  <2>1. m \in Nat \ {0}
    BY <1>0, LetterBagIs
  <2>2. ~(-m > 0) /\ -(-m) = m
    BY <2>1
  <2>3. Perform(im, TakeOut(p, m)) =
           [im EXCEPT !.letters = [im.letters EXCEPT ![p] = im.letters[p] (-) SetToBag({m})]]
    BY <2>2 DEF Perform, Set, TakeOut
  <2>4. im.letters[p] (-) SetToBag({m}) \in LetterBag
    BY <1>0, LetterRemoved
  <2>5. \A b \in LetterBag : [im EXCEPT !.letters = [im.letters EXCEPT ![p] = b]] \in Images
    BY DEF Images
  <2>. QED
    BY <2>3, <2>4, <2>5
<1>. QED
  BY <1>1, <1>2

LEMMA ApplyFew ==
    ASSUME NEW im
    PROVE  /\ \A s \in Statements : Apply(im, <<s>>) = Perform(im, s)
           /\ \A s, t \in Statements : Apply(im, <<s, t>>) = Perform(Perform(im, s), t)
           /\ \A s, t, u \in Statements :
                 Apply(im, <<s, t, u>>) = Perform(Perform(Perform(im, s), t), u)
<1>0. <<>> \in Seq(Statements)
  BY EmptySeq
<1>1. ASSUME NEW s \in Statements PROVE Apply(im, <<s>>) = Perform(im, s)
  <2>1. Append(<<>>, s) = <<s>>
    OBVIOUS
  <2>2. Apply(im, Append(<<>>, s)) = Perform(Apply(im, <<>>), s)
    BY <1>0, ApplyAppend
  <2>. QED
    BY <2>1, <2>2, ApplyEmpty
<1>2. ASSUME NEW s \in Statements, NEW t \in Statements
      PROVE  Apply(im, <<s, t>>) = Perform(Perform(im, s), t)
  <2>1. Append(<<s>>, t) = <<s, t>> /\ <<s>> \in Seq(Statements)
    <3>1. PICK v : v = Append(<<s>>, t)
      OBVIOUS
    <3>2. PICK w : w = <<s, t>>
      OBVIOUS
    <3>3. v \in Seq(Statements) /\ Len(v) = 2 /\ v[1] = s /\ v[2] = t
      BY <3>1
    <3>4. w \in Seq(Statements) /\ Len(w) = 2 /\ w[1] = s /\ w[2] = t
      BY <3>2
    <3>5. \A i \in 1..Len(v) : v[i] = w[i]
      BY <3>3, <3>4
    <3>6. v = w
      BY <3>3, <3>4, <3>5, SeqEqual
    <3>7. <<s>> \in Seq(Statements)
      OBVIOUS
    <3>. QED
      BY <3>1, <3>2, <3>6, <3>7
  <2>2. Apply(im, Append(<<s>>, t)) = Perform(Apply(im, <<s>>), t)
    BY <2>1, ApplyAppend
  <2>. QED
    BY <1>1, <2>1, <2>2
<1>3. ASSUME NEW s \in Statements, NEW t \in Statements, NEW u \in Statements
      PROVE  Apply(im, <<s, t, u>>) = Perform(Perform(Perform(im, s), t), u)
  <2>1. Append(<<s, t>>, u) = <<s, t, u>> /\ <<s, t>> \in Seq(Statements)
    <3>1. PICK v : v = Append(<<s, t>>, u)
      OBVIOUS
    <3>2. PICK w : w = <<s, t, u>>
      OBVIOUS
    <3>3. v \in Seq(Statements) /\ Len(v) = 3 /\ v[1] = s /\ v[2] = t /\ v[3] = u
      BY <3>1
    <3>4. w \in Seq(Statements) /\ Len(w) = 3 /\ w[1] = s /\ w[2] = t /\ w[3] = u
      BY <3>2
    <3>5. \A i \in 1..Len(v) : v[i] = w[i]
      BY <3>3, <3>4
    <3>6. v = w
      BY <3>3, <3>4, <3>5, SeqEqual
    <3>7. <<s, t>> \in Seq(Statements)
      OBVIOUS
    <3>. QED
      BY <3>1, <3>2, <3>6, <3>7
  <2>2. Apply(im, Append(<<s, t>>, u)) = Perform(Apply(im, <<s, t>>), u)
    BY <2>1, ApplyAppend
  <2>. QED
    BY <1>2, <2>1, <2>2
<1>. QED
  BY <1>1, <1>2, <1>3
-----------------------------------------------------------------------------
(* Every item that exists is in one place, and no two auctions sell one.   *)
Placed(im) ==
    /\ \A g \in Guid :
          \/ /\ im.stack[g] = 0 /\ im.inventory[g] = None /\ im.mailed[g] = None
             /\ g \notin HouseItems(im)
          \/ /\ im.stack[g] > 0 /\ im.inventory[g] # None /\ im.mailed[g] = None
             /\ g \notin HouseItems(im)
          \/ /\ im.stack[g] > 0 /\ im.inventory[g] = None /\ im.mailed[g] # None
             /\ g \notin HouseItems(im)
          \/ /\ im.stack[g] > 0 /\ im.inventory[g] = None /\ im.mailed[g] = None
             /\ g \in HouseItems(im)
    /\ \A i, j \in Live(im) : im.auctions[i].item = im.auctions[j].item => i = j

(* n is above the ids of the auctions, and who leads one has bid. *)
Sound(im, n) ==
    /\ im \in Images
    /\ Placed(im)
    /\ \A id \in Live(im) :
          id < n /\ (im.auctions[id].bidder # None => im.auctions[id].bid > 0)

LEMMA LiveIs ==
    ASSUME NEW im \in Images
    PROVE  /\ \A id \in AuctionId : id \in Live(im) <=> im.auctions[id] # None
           /\ \A id \in Live(im) : id \in AuctionId /\ im.auctions[id] \in AuctionEntry
           /\ \A g : g \in HouseItems(im) <=> \E id \in Live(im) : im.auctions[id].item = g
BY DEF Live, HouseItems, Images

LEMMA OnePlaceEach ==
    ASSUME NEW im \in Images, Placed(im), NEW g \in Guid
    PROVE  Cardinality(Places(im, g)) = (IF im.stack[g] > 0 THEN 1 ELSE 0)
<1>1. g \in HouseItems(im) <=> \E id \in Live(im) : im.auctions[id].item = g
  BY LiveIs
<1>2. PICK R : R = {id \in Live(im) : im.auctions[id].item = g}
  OBVIOUS
<1>3. R = {} \/ \E id : R = {id}
  <2>1. SUFFICES ASSUME NEW id \in R PROVE R = {id}
    OBVIOUS
  <2>2. \A i \in R : i = id
    BY <1>2 DEF Placed
  <2>. QED
    BY <2>2
<1>4. Places(im, g) = (({im.inventory[g]} \ {None}) \X {"inventory"})
                        \cup (({im.mailed[g]} \ {None}) \X {"mail"})
                        \cup (R \X {"house"})
  BY <1>2 DEF Places
<1>5. CASE /\ im.stack[g] = 0 /\ im.inventory[g] = None /\ im.mailed[g] = None
           /\ g \notin HouseItems(im)
  <2>1. R = {}
    BY <1>1, <1>2, <1>5
  <2>2. Places(im, g) = {}
    BY <1>4, <1>5, <2>1
  <2>. QED
    BY <1>5, <2>2, FS_EmptySet
<1>6. CASE /\ im.stack[g] > 0 /\ im.inventory[g] # None /\ im.mailed[g] = None
           /\ g \notin HouseItems(im)
  <2>1. R = {}
    BY <1>1, <1>2, <1>6
  <2>2. Places(im, g) = {<<im.inventory[g], "inventory">>}
    BY <1>4, <1>6, <2>1
  <2>. QED
    BY <1>6, <2>2, FS_Singleton
<1>7. CASE /\ im.stack[g] > 0 /\ im.inventory[g] = None /\ im.mailed[g] # None
           /\ g \notin HouseItems(im)
  <2>1. R = {}
    BY <1>1, <1>2, <1>7
  <2>2. Places(im, g) = {<<im.mailed[g], "mail">>}
    BY <1>4, <1>7, <2>1
  <2>. QED
    BY <1>7, <2>2, FS_Singleton
<1>8. CASE /\ im.stack[g] > 0 /\ im.inventory[g] = None /\ im.mailed[g] = None
           /\ g \in HouseItems(im)
  <2>1. PICK id : R = {id}
    BY <1>1, <1>2, <1>3, <1>8
  <2>2. Places(im, g) = {<<id, "house">>}
    BY <1>4, <1>8, <2>1
  <2>. QED
    BY <1>8, <2>2, FS_Singleton
<1>. QED
  BY <1>5, <1>6, <1>7, <1>8 DEF Placed

(* Loading drops nothing. *)
LEMMA LoadAll ==
    ASSUME NEW im \in Images, Placed(im)
    PROVE  Load(im) = im
<1>1. \A id \in Live(im) : im.stack[im.auctions[id].item] > 0
  <2>. TAKE id \in Live(im)
  <2>1. im.auctions[id].item \in HouseItems(im) /\ im.auctions[id].item \in Guid
    BY LiveIs DEF AuctionEntry
  <2>. QED
    BY <2>1 DEF Placed
<1>2. PICK a : a = [id \in AuctionId |->
                      IF id \in Live(im) /\ im.stack[im.auctions[id].item] > 0
                        THEN im.auctions[id] ELSE None]
  OBVIOUS
<1>3. \A id \in AuctionId : a[id] = im.auctions[id]
  BY <1>1, <1>2, LiveIs
<1>4. im.auctions \in [AuctionId -> AuctionEntry \cup {None}]
  BY DEF Images
<1>5. a = im.auctions
  BY <1>2, <1>3, <1>4
<1>6. [im EXCEPT !.auctions = im.auctions] = im
  BY DEF Images
<1>. QED
  BY <1>2, <1>5, <1>6 DEF Load

-----------------------------------------------------------------------------
(* The money of an image, and what each statement adds to it.              *)

LEMMA FinitePlayers == IsFiniteSet(Player)
BY ConstantsAssumption

(* What a player has in letters and in bids. *)
LetterTable(im, p) == [m \in DOMAIN im.letters[p] |-> m * im.letters[p][m]]
BidTable(im, p) == [id \in BidsOf(im, p) |-> im.auctions[id].bid]
WealthTable(im) == [p \in Player |-> Wealth(im, p)]

LEMMA LettersCount ==
    ASSUME NEW im \in Images, NEW p \in Player
    PROVE  /\ IsFiniteSet(DOMAIN LetterTable(im, p))
           /\ \A m \in DOMAIN LetterTable(im, p) : LetterTable(im, p)[m] \in Int
           /\ LetterMoney(im, p) = SumFunction(LetterTable(im, p))
           /\ LetterMoney(im, p) \in Int
<1>1. im.letters[p] \in LetterBag
  BY DEF Images
<1>2. PICK b : b = im.letters[p]
  OBVIOUS
<1>3. /\ \A m \in DOMAIN b : b[m] \in Nat \ {0} /\ m \in Nat \ {0}
      /\ IsFiniteSet(DOMAIN b)
  BY <1>1, <1>2, LetterBagIs
<1>4. PICK f : f = [m \in DOMAIN b |-> m * b[m]]
  OBVIOUS
<1>5. DOMAIN f = DOMAIN b /\ \A m \in DOMAIN f : f[m] \in Int
  <2>1. \A x, y \in Nat \ {0} : x * y \in Int
    OBVIOUS
  <2>. QED
    BY <1>3, <1>4, <2>1
<1>6. LetterTable(im, p) = f /\ LetterMoney(im, p) = SumFunction(f)
  BY <1>2, <1>4 DEF LetterTable, LetterMoney
<1>7. SumFunction(f) \in Int
  BY <1>3, <1>5, SumType
<1>. QED
  BY <1>3, <1>5, <1>6, <1>7

LEMMA BidsCount ==
    ASSUME NEW im \in Images, NEW p \in Player
    PROVE  /\ DOMAIN BidTable(im, p) = BidsOf(im, p) /\ IsFiniteSet(BidsOf(im, p))
           /\ \A id \in BidsOf(im, p) :
                 BidTable(im, p)[id] = im.auctions[id].bid /\ im.auctions[id].bid \in Int
           /\ SumFunction(BidTable(im, p)) \in Int
<1>1. \A id \in BidsOf(im, p) : im.auctions[id].bid \in Int /\ id \in AuctionId
  BY LiveIs DEF BidsOf, AuctionEntry
<1>2. IsFiniteSet(BidsOf(im, p))
  <2>1. IsFiniteSet(AuctionId)
    BY ConstantsAssumption, FS_Interval DEF AuctionId
  <2>. QED
    BY <1>1, <2>1, FS_Subset
<1>3. PICK f : f = BidTable(im, p)
  OBVIOUS
<1>4. DOMAIN f = BidsOf(im, p) /\ \A id \in BidsOf(im, p) : f[id] = im.auctions[id].bid
  BY <1>3 DEF BidTable
<1>5. SumFunction(f) \in Int
  BY <1>1, <1>2, <1>4, SumType
<1>. QED
  BY <1>1, <1>2, <1>3, <1>4, <1>5

LEMMA WealthIs ==
    ASSUME NEW im \in Images, NEW p \in Player
    PROVE  /\ Wealth(im, p) = im.gold[p] + LetterMoney(im, p) + SumFunction(BidTable(im, p))
           /\ im.gold[p] \in Nat /\ LetterMoney(im, p) \in Int
           /\ SumFunction(BidTable(im, p)) \in Int
           /\ Wealth(im, p) \in Int
<1>1. /\ im.gold[p] \in Nat /\ LetterMoney(im, p) \in Int
      /\ SumFunction(BidTable(im, p)) \in Int
  BY LettersCount, BidsCount DEF Images
<1>2. Wealth(im, p) = im.gold[p] + LetterMoney(im, p) + SumFunction(BidTable(im, p))
  BY DEF Wealth, BidTable
<1>. QED
  BY <1>1, <1>2

LEMMA MoneyIs ==
    ASSUME NEW im \in Images
    PROVE  /\ Money(im) = im.till + SumFunction(WealthTable(im))
           /\ DOMAIN WealthTable(im) = Player
           /\ \A p \in Player : WealthTable(im)[p] = Wealth(im, p)
           /\ SumFunction(WealthTable(im)) \in Int /\ im.till \in Int
           /\ Money(im) \in Int
<1>1. PICK f : f = WealthTable(im)
  OBVIOUS
<1>2. DOMAIN f = Player /\ \A p \in Player : f[p] = Wealth(im, p)
  BY <1>1 DEF WealthTable
<1>3. \A p \in Player : f[p] \in Int
  BY <1>2, WealthIs
<1>4. SumFunction(f) \in Int
  BY <1>2, <1>3, FinitePlayers, SumType
<1>5. im.till \in Int
  BY DEF Images
<1>6. Money(im) = im.till + SumFunction(f)
  BY <1>1 DEF Money, WealthTable
<1>. QED
  BY <1>1, <1>2, <1>4, <1>5, <1>6

(* The wealth of one player changes, or nobody's. *)
LEMMA OneWealth ==
    ASSUME NEW a \in Images, NEW b \in Images, a.till = b.till, NEW p \in Player,
           \A q \in Player \ {p} : Wealth(b, q) = Wealth(a, q)
    PROVE  Money(b) = Money(a) - Wealth(a, p) + Wealth(b, p)
<1>1. PICK f : f = WealthTable(a)
  OBVIOUS
<1>2. PICK g : g = WealthTable(b)
  OBVIOUS
<1>3. /\ DOMAIN f = Player /\ \A q \in Player : f[q] = Wealth(a, q)
      /\ Money(a) = a.till + SumFunction(f) /\ SumFunction(f) \in Int /\ a.till \in Int
  BY <1>1, MoneyIs
<1>4. /\ DOMAIN g = Player /\ \A q \in Player : g[q] = Wealth(b, q)
      /\ Money(b) = b.till + SumFunction(g)
  BY <1>2, MoneyIs
<1>5. Wealth(a, p) \in Int /\ Wealth(b, p) \in Int /\ \A q \in Player : Wealth(a, q) \in Int
  BY WealthIs
<1>6. SumFunction(g) = SumFunction(f) - f[p] + g[p]
  <2>1. IsFiniteSet(DOMAIN f) /\ \A q \in DOMAIN f : f[q] \in Int
    BY <1>3, <1>5, FinitePlayers
  <2>2. DOMAIN g = DOMAIN f /\ p \in DOMAIN f /\ g[p] \in Int
    BY <1>3, <1>4, <1>5
  <2>3. \A q \in DOMAIN f : q # p => g[q] = f[q]
    BY <1>3, <1>4
  <2>. QED
    BY <2>1, <2>2, <2>3, SumChange
<1>. QED
  BY <1>3, <1>4, <1>5, <1>6

LEMMA NoWealth ==
    ASSUME NEW a \in Images, NEW b \in Images, \A q \in Player : Wealth(b, q) = Wealth(a, q)
    PROVE  Money(b) = Money(a) - a.till + b.till
<1>1. PICK f : f = WealthTable(a)
  OBVIOUS
<1>2. PICK g : g = WealthTable(b)
  OBVIOUS
<1>3. /\ DOMAIN f = Player /\ \A q \in Player : f[q] = Wealth(a, q)
      /\ Money(a) = a.till + SumFunction(f) /\ SumFunction(f) \in Int /\ a.till \in Int
  BY <1>1, MoneyIs
<1>4. /\ DOMAIN g = Player /\ \A q \in Player : g[q] = Wealth(b, q)
      /\ Money(b) = b.till + SumFunction(g) /\ b.till \in Int
  BY <1>2, MoneyIs
<1>5. SumFunction(g) = SumFunction(f)
  <2>1. IsFiniteSet(DOMAIN f) /\ DOMAIN g = DOMAIN f
    BY <1>3, <1>4, FinitePlayers
  <2>2. \A q \in DOMAIN f : g[q] = f[q]
    BY <1>3, <1>4
  <2>. QED
    BY <2>1, <2>2, SumSame
<1>. QED
  BY <1>3, <1>4, <1>5

LEMMA WealthSame ==
    ASSUME NEW a, NEW b, NEW p, a.gold[p] = b.gold[p], a.letters[p] = b.letters[p],
           a.auctions = b.auctions
    PROVE  Wealth(b, p) = Wealth(a, p)
BY DEF Wealth, LetterMoney, BidsOf, Live

(* The letters of a bag. *)
BagMoney(b) == SumFunction([m \in DOMAIN b |-> m * b[m]])

LEMMA BagTable ==
    ASSUME NEW b \in LetterBag, NEW f, f = [m \in DOMAIN b |-> m * b[m]]
    PROVE  /\ DOMAIN f = DOMAIN b /\ IsFiniteSet(DOMAIN b)
           /\ \A m \in DOMAIN b :
                 m \in Nat \ {0} /\ b[m] \in Nat \ {0} /\ f[m] = m * b[m] /\ f[m] \in Int
           /\ BagMoney(b) = SumFunction(f) /\ BagMoney(b) \in Int
<1>1. /\ \A m \in DOMAIN b : b[m] \in Nat \ {0} /\ m \in Nat \ {0}
      /\ IsFiniteSet(DOMAIN b)
  BY LetterBagIs
<1>2. DOMAIN f = DOMAIN b /\ \A m \in DOMAIN b : f[m] = m * b[m] /\ f[m] \in Int
  <2>1. \A x, y \in Nat \ {0} : x * y \in Int
    OBVIOUS
  <2>. QED
    BY <1>1, <2>1
<1>3. SumFunction(f) \in Int
  BY <1>1, <1>2, SumType
<1>4. BagMoney(b) = SumFunction(f)
  BY DEF BagMoney
<1>. QED
  BY <1>1, <1>2, <1>3, <1>4

LEMMA OneMore == ASSUME NEW x \in Int, NEW y \in Int PROVE x * (y + 1) = x * y + x /\ x * 1 = x
OBVIOUS

LEMMA BagAdded ==
    ASSUME NEW b \in LetterBag, NEW m \in Nat \ {0}
    PROVE  BagMoney(b (+) SetToBag({m})) = BagMoney(b) + m
<1>1. PICK c \in LetterBag : c = b (+) SetToBag({m})
  BY LetterAdded
<1>2. PICK f : f = [k \in DOMAIN b |-> k * b[k]]
  OBVIOUS
<1>3. PICK g : g = [k \in DOMAIN c |-> k * c[k]]
  OBVIOUS
<1>4. /\ DOMAIN c = DOMAIN b \cup {m}
      /\ c[m] = (IF m \in DOMAIN b THEN b[m] ELSE 0) + 1
      /\ \A e \in DOMAIN b \ {m} : c[e] = b[e]
  BY <1>1, LetterAdded
<1>5. /\ DOMAIN f = DOMAIN b /\ IsFiniteSet(DOMAIN b)
      /\ \A k \in DOMAIN b :
            k \in Nat \ {0} /\ b[k] \in Nat \ {0} /\ f[k] = k * b[k] /\ f[k] \in Int
      /\ BagMoney(b) = SumFunction(f) /\ BagMoney(b) \in Int
  BY <1>2, BagTable
<1>6. /\ DOMAIN g = DOMAIN c /\ IsFiniteSet(DOMAIN c)
      /\ \A k \in DOMAIN c :
            k \in Nat \ {0} /\ c[k] \in Nat \ {0} /\ g[k] = k * c[k] /\ g[k] \in Int
      /\ BagMoney(c) = SumFunction(g) /\ BagMoney(c) \in Int
  BY <1>3, BagTable
<1>7. \A e \in DOMAIN b \ {m} : g[e] = f[e]
  BY <1>4, <1>5, <1>6
<1>8. CASE m \in DOMAIN b
  <2>1. DOMAIN g = DOMAIN f /\ m \in DOMAIN f /\ g[m] \in Int
    BY <1>4, <1>5, <1>6, <1>8
  <2>2. g[m] = f[m] + m
    <3>1. PICK y \in Int : y = b[m]
      BY <1>5, <1>8
    <3>2. c[m] = y + 1
      BY <1>4, <1>8, <3>1
    <3>3. m * (y + 1) = m * y + m
      BY OneMore
    <3>. QED
      BY <1>5, <1>6, <1>8, <2>1, <3>1, <3>2, <3>3
  <2>3. IsFiniteSet(DOMAIN f) /\ \A y \in DOMAIN f : f[y] \in Int
    BY <1>5
  <2>4. \A y \in DOMAIN f : y # m => g[y] = f[y]
    BY <1>5, <1>7
  <2>5. SumFunction(g) = SumFunction(f) - f[m] + g[m]
    BY <2>1, <2>3, <2>4, SumChange
  <2>6. f[m] \in Int /\ SumFunction(f) \in Int
    BY <1>5, <1>8
  <2>. QED
    BY <1>1, <1>5, <1>6, <2>2, <2>5, <2>6
<1>9. CASE m \notin DOMAIN b
  <2>1. IsFiniteSet(DOMAIN g) /\ \A y \in DOMAIN g : g[y] \in Int
    BY <1>6
  <2>2. m \in DOMAIN g /\ DOMAIN f = DOMAIN g \ {m}
    BY <1>4, <1>5, <1>6, <1>9
  <2>3. \A y \in DOMAIN f : f[y] = g[y]
    BY <1>5, <1>7, <1>9
  <2>4. SumFunction(g) = g[m] + SumFunction(f)
    BY <2>1, <2>2, <2>3, SumRemove
  <2>5. g[m] = m
    <3>1. c[m] = 1
      BY <1>4, <1>9
    <3>2. m * 1 = m
      BY OneMore
    <3>. QED
      BY <1>6, <2>2, <3>1, <3>2
  <2>. QED
    BY <1>1, <1>5, <1>6, <2>4, <2>5
<1>. QED
  BY <1>8, <1>9

LEMMA BagRemoved ==
    ASSUME NEW b \in LetterBag, NEW m \in DOMAIN b
    PROVE  BagMoney(b (-) SetToBag({m})) = BagMoney(b) - m /\ m \in Nat \ {0}
<1>1. PICK c \in LetterBag : c = b (-) SetToBag({m})
  BY LetterRemoved
<1>2. PICK f : f = [k \in DOMAIN b |-> k * b[k]]
  OBVIOUS
<1>3. PICK g : g = [k \in DOMAIN c |-> k * c[k]]
  OBVIOUS
<1>4. /\ DOMAIN c = IF b[m] = 1 THEN DOMAIN b \ {m} ELSE DOMAIN b
      /\ b[m] # 1 => c[m] = b[m] - 1
      /\ \A e \in DOMAIN b \ {m} : c[e] = b[e]
  BY <1>1, LetterRemoved
<1>5. /\ DOMAIN f = DOMAIN b /\ IsFiniteSet(DOMAIN b)
      /\ \A k \in DOMAIN b :
            k \in Nat \ {0} /\ b[k] \in Nat \ {0} /\ f[k] = k * b[k] /\ f[k] \in Int
      /\ BagMoney(b) = SumFunction(f) /\ BagMoney(b) \in Int
  BY <1>2, BagTable
<1>6. /\ DOMAIN g = DOMAIN c /\ IsFiniteSet(DOMAIN c)
      /\ \A k \in DOMAIN c :
            k \in Nat \ {0} /\ c[k] \in Nat \ {0} /\ g[k] = k * c[k] /\ g[k] \in Int
      /\ BagMoney(c) = SumFunction(g) /\ BagMoney(c) \in Int
  BY <1>3, BagTable
<1>7. \A e \in DOMAIN c \ {m} : g[e] = f[e]
  <2>1. \A e \in DOMAIN c \ {m} : e \in DOMAIN b \ {m}
    BY <1>4
  <2>. QED
    BY <1>4, <1>5, <1>6, <2>1
<1>8. CASE b[m] # 1
  <2>1. DOMAIN g = DOMAIN f /\ m \in DOMAIN f /\ g[m] \in Int /\ f[m] \in Int
    BY <1>4, <1>5, <1>6, <1>8
  <2>2. f[m] = g[m] + m
    <3>1. PICK y \in Int : y = b[m] - 1 /\ b[m] = y + 1
      BY <1>5
    <3>2. c[m] = y
      BY <1>4, <1>8, <3>1
    <3>3. m * (y + 1) = m * y + m
      BY <1>5, OneMore
    <3>. QED
      BY <1>5, <1>6, <2>1, <3>1, <3>2, <3>3
  <2>3. IsFiniteSet(DOMAIN f) /\ \A y \in DOMAIN f : f[y] \in Int
    BY <1>5
  <2>4. \A y \in DOMAIN f : y # m => g[y] = f[y]
    BY <1>6, <1>7, <2>1
  <2>5. SumFunction(g) = SumFunction(f) - f[m] + g[m]
    BY <2>1, <2>3, <2>4, SumChange
  <2>. QED
    BY <1>1, <1>5, <1>6, <2>1, <2>2, <2>5
<1>9. CASE b[m] = 1
  <2>1. IsFiniteSet(DOMAIN f) /\ \A y \in DOMAIN f : f[y] \in Int
    BY <1>5
  <2>2. m \in DOMAIN f /\ DOMAIN g = DOMAIN f \ {m}
    BY <1>4, <1>5, <1>6, <1>9
  <2>3. \A y \in DOMAIN g : g[y] = f[y]
    BY <1>6, <1>7, <2>2
  <2>4. SumFunction(f) = f[m] + SumFunction(g)
    BY <2>1, <2>2, <2>3, SumRemove
  <2>5. f[m] = m
    <3>1. m * 1 = m
      BY <1>5, OneMore
    <3>. QED
      BY <1>5, <1>9, <3>1
  <2>. QED
    BY <1>1, <1>5, <1>6, <2>4, <2>5
<1>. QED
  BY <1>8, <1>9

LEMMA GoldMoney ==
    ASSUME NEW im \in Images, NEW p \in Player, NEW v \in Nat,
           NEW im2, im2 = Perform(im, Set("gold", p, v))
    PROVE  /\ Money(im2) = Money(im) - im.gold[p] + v /\ im2 \in Images
           /\ im2.letters = im.letters /\ im2.auctions = im.auctions
<1>1. im2 \in Images /\ im2 = [im EXCEPT !.gold = [im.gold EXCEPT ![p] = v]]
  BY SetGold
<1>2. /\ im2.letters = im.letters /\ im2.auctions = im.auctions /\ im2.till = im.till
      /\ im2.gold = [im.gold EXCEPT ![p] = v]
  BY <1>1 DEF Images
<1>3. \A q \in Player : im2.gold[q] = IF q = p THEN v ELSE im.gold[q]
  BY <1>1, <1>2 DEF Images
<1>4. \A q \in Player \ {p} : Wealth(im2, q) = Wealth(im, q)
  BY <1>2, <1>3, WealthSame
<1>5. LetterMoney(im2, p) = LetterMoney(im, p) /\ BidTable(im2, p) = BidTable(im, p)
  BY <1>2 DEF LetterMoney, BidTable, BidsOf, Live
<1>6. Wealth(im2, p) = Wealth(im, p) - im.gold[p] + v
  <2>1. /\ Wealth(im, p) = im.gold[p] + LetterMoney(im, p) + SumFunction(BidTable(im, p))
        /\ im.gold[p] \in Nat /\ LetterMoney(im, p) \in Int
        /\ SumFunction(BidTable(im, p)) \in Int
    BY WealthIs
  <2>2. Wealth(im2, p) = im2.gold[p] + LetterMoney(im2, p) + SumFunction(BidTable(im2, p))
    BY <1>1, WealthIs
  <2>3. im2.gold[p] = v
    BY <1>3
  <2>. QED
    BY <1>5, <2>1, <2>2, <2>3
<1>7. Money(im2) = Money(im) - Wealth(im, p) + Wealth(im2, p)
  BY <1>1, <1>2, <1>4, OneWealth
<1>8. Wealth(im, p) \in Int /\ Money(im) \in Int /\ im.gold[p] \in Int
  BY WealthIs, MoneyIs
<1>. QED
  BY <1>1, <1>2, <1>6, <1>7, <1>8

(* The letters of p become c. *)
LEMMA LettersMoney ==
    ASSUME NEW im \in Images, NEW p \in Player, NEW c \in LetterBag,
           NEW im2 \in Images, im2 = [im EXCEPT !.letters = [im.letters EXCEPT ![p] = c]]
    PROVE  /\ Money(im2) = Money(im) - BagMoney(im.letters[p]) + BagMoney(c)
           /\ im2.gold = im.gold /\ im2.auctions = im.auctions
           /\ BagMoney(im.letters[p]) \in Int /\ BagMoney(c) \in Int
<1>1. /\ im2.gold = im.gold /\ im2.auctions = im.auctions /\ im2.till = im.till
      /\ im2.letters = [im.letters EXCEPT ![p] = c]
  BY DEF Images
<1>2. im.letters \in [Player -> LetterBag]
  BY DEF Images
<1>3. \A q \in Player : im2.letters[q] = IF q = p THEN c ELSE im.letters[q]
  BY <1>1, <1>2
<1>4. \A q \in Player \ {p} : Wealth(im2, q) = Wealth(im, q)
  <2>. TAKE q \in Player \ {p}
  <2>1. /\ im.gold[q] = im2.gold[q] /\ im.letters[q] = im2.letters[q]
        /\ im.auctions = im2.auctions
    BY <1>1, <1>3
  <2>. QED
    BY <2>1, WealthSame
<1>5. BidTable(im2, p) = BidTable(im, p)
  BY <1>1 DEF BidTable, BidsOf, Live
<1>6. LetterMoney(im2, p) = BagMoney(c) /\ LetterMoney(im, p) = BagMoney(im.letters[p])
  BY <1>3 DEF LetterMoney, BagMoney
<1>7. /\ Wealth(im, p) = im.gold[p] + LetterMoney(im, p) + SumFunction(BidTable(im, p))
      /\ im.gold[p] \in Nat /\ LetterMoney(im, p) \in Int
      /\ SumFunction(BidTable(im, p)) \in Int
  BY WealthIs
<1>8. /\ Wealth(im2, p) = im2.gold[p] + LetterMoney(im2, p) + SumFunction(BidTable(im2, p))
      /\ LetterMoney(im2, p) \in Int
  BY WealthIs
<1>9. Money(im2) = Money(im) - Wealth(im, p) + Wealth(im2, p)
  BY <1>1, <1>4, OneWealth
<1>10. Wealth(im, p) \in Int /\ Money(im) \in Int
  BY WealthIs, MoneyIs
<1>11. Wealth(im2, p) = Wealth(im, p) - LetterMoney(im, p) + LetterMoney(im2, p)
  BY <1>1, <1>5, <1>7, <1>8
<1>. QED
  BY <1>1, <1>6, <1>7, <1>8, <1>9, <1>10, <1>11

LEMMA LetterSent ==
    ASSUME NEW im \in Images, NEW p \in Player, NEW m \in Nat \ {0},
           NEW im2, im2 = Perform(im, Letter(p, m))
    PROVE  /\ Money(im2) = Money(im) + m /\ im2 \in Images
           /\ im2.gold = im.gold /\ im2.auctions = im.auctions
<1>1. im.letters[p] \in LetterBag
  BY DEF Images
<1>2. PICK c \in LetterBag : c = im.letters[p] (+) SetToBag({m})
  BY <1>1, LetterAdded
<1>3. im2 \in Images /\ im2 = [im EXCEPT !.letters = [im.letters EXCEPT ![p] = c]]
  <2>1. /\ Perform(im, Letter(p, m)) =
              [im EXCEPT !.letters = [im.letters EXCEPT ![p] = @ (+) SetToBag({m})]]
        /\ Perform(im, Letter(p, m)) \in Images
    BY PerformLetter
  <2>. QED
    BY <1>2, <2>1, Zenon
<1>4. /\ Money(im2) = Money(im) - BagMoney(im.letters[p]) + BagMoney(c)
      /\ im2.gold = im.gold /\ im2.auctions = im.auctions
      /\ BagMoney(im.letters[p]) \in Int /\ BagMoney(c) \in Int
  BY <1>3, LettersMoney
<1>5. BagMoney(c) = BagMoney(im.letters[p]) + m
  BY <1>1, <1>2, BagAdded
<1>6. Money(im) \in Int
  BY MoneyIs
<1>. QED
  BY <1>3, <1>4, <1>5, <1>6

LEMMA LetterTaken ==
    ASSUME NEW im \in Images, NEW p \in Player, NEW m \in DOMAIN im.letters[p],
           NEW im2, im2 = Perform(im, TakeOut(p, m))
    PROVE  Money(im2) = Money(im) - m /\ im2 \in Images /\ m \in Nat \ {0}
<1>1. im.letters[p] \in LetterBag
  BY DEF Images
<1>2. PICK b \in LetterBag : b = im.letters[p] /\ m \in DOMAIN b
  BY <1>1
<1>3. PICK c \in LetterBag : c = b (-) SetToBag({m})
  BY <1>2, LetterRemoved
<1>4. im2 \in Images /\ im2 = [im EXCEPT !.letters = [im.letters EXCEPT ![p] = c]]
  <2>1. /\ Perform(im, TakeOut(p, m)) =
              [im EXCEPT !.letters = [im.letters EXCEPT ![p] = @ (-) SetToBag({m})]]
        /\ Perform(im, TakeOut(p, m)) \in Images
    BY PerformLetter
  <2>. QED
    BY <1>2, <1>3, <2>1, Zenon
<1>5. /\ Money(im2) = Money(im) - BagMoney(im.letters[p]) + BagMoney(c)
      /\ BagMoney(im.letters[p]) \in Int /\ BagMoney(c) \in Int
  BY <1>4, LettersMoney
<1>6. BagMoney(c) = BagMoney(b) - m /\ m \in Nat \ {0}
  BY <1>2, <1>3, BagRemoved
<1>7. Money(im) \in Int
  BY MoneyIs
<1>. QED
  BY <1>2, <1>4, <1>5, <1>6, <1>7

LEMMA TillMoney ==
    ASSUME NEW im \in Images, NEW m \in Int, NEW im2, im2 = Perform(im, ToTill(m))
    PROVE  /\ Money(im2) = Money(im) + m /\ im2 \in Images
           /\ im2.gold = im.gold /\ im2.auctions = im.auctions
<1>1. im2 \in Images /\ im2 = [im EXCEPT !.till = im.till + m]
  BY SetTill
<1>2. /\ im2.gold = im.gold /\ im2.auctions = im.auctions /\ im2.letters = im.letters
      /\ im2.till = im.till + m /\ im.till \in Int
  BY <1>1 DEF Images
<1>3. \A q \in Player : Wealth(im2, q) = Wealth(im, q)
  BY <1>2, WealthSame
<1>4. Money(im2) = Money(im) - im.till + im2.till
  BY <1>1, <1>3, NoWealth
<1>5. Money(im) \in Int
  BY MoneyIs
<1>. QED
  BY <1>1, <1>2, <1>4, <1>5

(* Where the items are does not matter. *)
LEMMA SameMoney ==
    ASSUME NEW a \in Images, NEW b \in Images, a.gold = b.gold, a.letters = b.letters,
           a.auctions = b.auctions, a.till = b.till
    PROVE  Money(b) = Money(a)
<1>1. \A q \in Player : Wealth(b, q) = Wealth(a, q)
  BY WealthSame
<1>2. Money(b) = Money(a) - a.till + b.till
  BY <1>1, NoWealth
<1>3. Money(a) \in Int /\ a.till \in Int
  BY MoneyIs
<1>. QED
  BY <1>2, <1>3

(* What is bid in an auction. *)
Lead(a) == IF a = None THEN 0 ELSE IF a.bidder = None THEN 0 ELSE a.bid

LEMMA LeadIs == ASSUME NEW a \in AuctionEntry \cup {None} PROVE Lead(a) \in Nat
BY DEF Lead, AuctionEntry

LEMMA WithoutAuction ==
    ASSUME NEW im \in Images, NEW id \in AuctionId,
           NEW im2 \in Images, im2 = [im EXCEPT !.auctions = [im.auctions EXCEPT ![id] = None]]
    PROVE  Money(im2) = Money(im) - Lead(im.auctions[id])
<1>1. /\ im2.gold = im.gold /\ im2.letters = im.letters /\ im2.till = im.till
      /\ im2.auctions = [im.auctions EXCEPT ![id] = None]
  BY DEF Images
<1>2. \A i \in AuctionId : im2.auctions[i] = IF i = id THEN None ELSE im.auctions[i]
  BY <1>1 DEF Images
<1>3. /\ Live(im2) = Live(im) \ {id}
      /\ \A i \in Live(im2) : im2.auctions[i] = im.auctions[i]
  BY <1>2 DEF Live
<1>4. PICK a : a = im.auctions[id]
  OBVIOUS
<1>5. \A q \in Player : LetterMoney(im2, q) = LetterMoney(im, q)
  BY <1>1 DEF LetterMoney
<1>6. ASSUME NEW q \in Player, id \notin BidsOf(im, q)
      PROVE  Wealth(im2, q) = Wealth(im, q)
  <2>1. BidsOf(im2, q) = BidsOf(im, q)
    BY <1>3, <1>6 DEF BidsOf
  <2>2. \A i \in BidsOf(im, q) : im2.auctions[i] = im.auctions[i]
    BY <1>3, <2>1 DEF BidsOf
  <2>3. [i \in BidsOf(im2, q) |-> im2.auctions[i].bid] =
          [i \in BidsOf(im, q) |-> im.auctions[i].bid]
    BY <2>1, <2>2
  <2>. QED
    BY <1>1, <1>5, <2>3 DEF Wealth
<1>7. Money(im) \in Int
  BY MoneyIs
<1>8. CASE a = None \/ (a # None /\ a.bidder = None)
  <2>1. \A q \in Player : id \notin BidsOf(im, q)
    BY <1>4, <1>8, ConstantsAssumption DEF BidsOf, Live
  <2>2. Money(im2) = Money(im) - im.till + im2.till
    BY <1>6, <2>1, NoWealth
  <2>3. Lead(a) = 0 /\ im.till \in Int
    BY <1>8, MoneyIs DEF Lead
  <2>. QED
    BY <1>1, <1>4, <1>7, <2>2, <2>3
<1>9. CASE a # None /\ a.bidder # None
  <2>1. id \in Live(im) /\ a \in AuctionEntry
    BY <1>4, <1>9, LiveIs
  <2>2. PICK p \in Player : p = a.bidder
    BY <1>9, <2>1 DEF AuctionEntry
  <2>3. id \in BidsOf(im, p) /\ \A q \in Player \ {p} : id \notin BidsOf(im, q)
    BY <1>4, <2>1, <2>2 DEF BidsOf
  <2>4. Money(im2) = Money(im) - Wealth(im, p) + Wealth(im2, p)
    <3>1. \A q \in Player \ {p} : Wealth(im2, q) = Wealth(im, q)
      BY <1>6, <2>3
    <3>. QED
      BY <1>1, <3>1, OneWealth
  <2>5. PICK f : f = BidTable(im, p)
    OBVIOUS
  <2>6. PICK g : g = BidTable(im2, p)
    OBVIOUS
  <2>7. /\ DOMAIN f = BidsOf(im, p) /\ IsFiniteSet(BidsOf(im, p))
        /\ \A i \in BidsOf(im, p) : f[i] = im.auctions[i].bid /\ im.auctions[i].bid \in Int
        /\ SumFunction(f) \in Int
    BY <2>5, BidsCount
  <2>8. /\ DOMAIN g = BidsOf(im2, p) /\ SumFunction(g) \in Int
        /\ \A i \in BidsOf(im2, p) : g[i] = im2.auctions[i].bid
    BY <2>6, BidsCount
  <2>9. /\ BidsOf(im2, p) = BidsOf(im, p) \ {id}
        /\ \A i \in BidsOf(im2, p) : im2.auctions[i] = im.auctions[i]
    BY <1>3 DEF BidsOf
  <2>10. SumFunction(f) = f[id] + SumFunction(g)
    <3>1. IsFiniteSet(DOMAIN f) /\ \A y \in DOMAIN f : f[y] \in Int
      BY <2>7
    <3>2. id \in DOMAIN f /\ DOMAIN g = DOMAIN f \ {id}
      BY <2>3, <2>7, <2>8, <2>9
    <3>3. \A y \in DOMAIN g : g[y] = f[y]
      BY <2>7, <2>8, <2>9
    <3>. QED
      BY <3>1, <3>2, <3>3, SumRemove
  <2>11. f[id] = Lead(a) /\ Lead(a) \in Int
    BY <1>4, <1>9, <2>3, <2>7 DEF Lead
  <2>12. /\ Wealth(im, p) = im.gold[p] + LetterMoney(im, p) + SumFunction(f)
         /\ im.gold[p] \in Nat /\ LetterMoney(im, p) \in Int
    BY <2>5, WealthIs
  <2>13. Wealth(im2, p) = im2.gold[p] + LetterMoney(im2, p) + SumFunction(g)
    BY <2>6, WealthIs
  <2>14. Wealth(im2, p) = Wealth(im, p) - Lead(a) /\ Wealth(im, p) \in Int
    BY <1>1, <1>5, <2>7, <2>8, <2>10, <2>11, <2>12, <2>13
  <2>. QED
    BY <1>4, <1>7, <2>4, <2>11, <2>14
<1>. QED
  BY <1>8, <1>9

LEMMA AuctionMoney ==
    ASSUME NEW im \in Images, NEW id \in AuctionId, NEW v \in AuctionEntry \cup {None},
           NEW im2, im2 = Perform(im, Set("auctions", id, v))
    PROVE  /\ Money(im2) = Money(im) - Lead(im.auctions[id]) + Lead(v)
           /\ im2 \in Images /\ im2.gold = im.gold
<1>1. im2 \in Images /\ im2 = [im EXCEPT !.auctions = [im.auctions EXCEPT ![id] = v]]
  BY SetAuction
<1>2. /\ im2.gold = im.gold /\ im2.letters = im.letters /\ im2.till = im.till
      /\ im2.auctions = [im.auctions EXCEPT ![id] = v]
  BY <1>1 DEF Images
<1>3. PICK im0 : im0 = [im EXCEPT !.auctions = [im.auctions EXCEPT ![id] = None]]
  OBVIOUS
<1>4. im0 \in Images
  BY <1>3 DEF Images
<1>5. Money(im0) = Money(im) - Lead(im.auctions[id])
  BY <1>3, <1>4, WithoutAuction
<1>6. im0 = [im2 EXCEPT !.auctions = [im2.auctions EXCEPT ![id] = None]]
  <2>1. [im2.auctions EXCEPT ![id] = None] = [im.auctions EXCEPT ![id] = None]
    BY <1>2 DEF Images
  <2>2. \A x : [im2 EXCEPT !.auctions = x] = [im EXCEPT !.auctions = x]
    BY <1>1 DEF Images
  <2>. QED
    BY <1>3, <2>1, <2>2
<1>7. im2.auctions[id] = v /\ im.auctions[id] \in AuctionEntry \cup {None}
  BY <1>2 DEF Images
<1>8. Money(im0) = Money(im2) - Lead(v)
  <2>1. Money(im0) = Money(im2) - Lead(im2.auctions[id])
    BY <1>1, <1>4, <1>6, WithoutAuction
  <2>. QED
    BY <1>7, <2>1
<1>9. Money(im) \in Int /\ Money(im2) \in Int /\ Lead(v) \in Int /\ Lead(im.auctions[id]) \in Int
  BY <1>1, <1>7, LeadIs, MoneyIs
<1>. QED
  BY <1>1, <1>2, <1>5, <1>8, <1>9

-----------------------------------------------------------------------------
(* The units of all items. *)
LEMMA UnitsIs == ASSUME NEW im \in Images PROVE Units(im) \in Nat
<1>1. PICK f : f = im.stack
  OBVIOUS
<1>2. DOMAIN f = Guid /\ \A g \in Guid : f[g] \in Nat
  BY <1>1, ConstantsAssumption DEF Images
<1>3. SumFunction(f) \in Nat
  BY <1>2, ConstantsAssumption, SumNat
<1>. QED
  BY <1>1, <1>3 DEF Units

LEMMA UnitsChange ==
    ASSUME NEW im \in Images, NEW im2 \in Images, NEW g \in Guid,
           \A h \in Guid \ {g} : im2.stack[h] = im.stack[h]
    PROVE  Units(im2) = Units(im) - im.stack[g] + im2.stack[g]
<1>1. PICK f : f = im.stack
  OBVIOUS
<1>2. PICK f2 : f2 = im2.stack
  OBVIOUS
<1>3. DOMAIN f = Guid /\ \A h \in Guid : f[h] \in Int
  BY <1>1, ConstantsAssumption DEF Images
<1>4. DOMAIN f2 = Guid /\ \A h \in Guid : f2[h] \in Int
  BY <1>2, ConstantsAssumption DEF Images
<1>5. \A h \in DOMAIN f : h # g => f2[h] = f[h]
  BY <1>1, <1>2, <1>3
<1>6. SumFunction(f2) = SumFunction(f) - f[g] + f2[g]
  BY <1>3, <1>4, <1>5, ConstantsAssumption, SumChange
<1>. QED
  BY <1>1, <1>2, <1>6 DEF Units

LEMMA UnitsSame ==
    ASSUME NEW im, NEW im2, im2.stack = im.stack
    PROVE  Units(im2) = Units(im)
BY DEF Units

(* A sound image with all the money there was at the start. *)
Right(im, n) == Sound(im, n) /\ Money(im) = SumFunction(Purse)

-----------------------------------------------------------------------------
(* h is the history of the database while the transactions of P are        *)
(* carried out on d, and m the last image.  An image with fewer units than *)
(* m has a clone to come.                                                  *)
Short(im, P, i, m) ==
    /\ Units(im) <= Units(m)
    /\ Units(im) < Units(m) => \E k \in 1..Len(P) : k > i /\ SavesClone(P[k])

Chain(h, d, P, m, n) ==
    /\ DOMAIN h = 0..Len(P)
    /\ h[0] = d /\ h[Len(P)] = m
    /\ \A i \in 0..Len(P) : Right(h[i], n)
    /\ \A i \in 1..Len(P) : h[i] = Apply(h[i - 1], P[i])
    /\ \A i \in 0..Len(P) : Short(h[i], P, i, m)

Saves(d, P, m, n) == \E h : Chain(h, d, P, m, n)

Queue == Seq(Seq(Statements))

LEMMA ChainNothing == ASSUME NEW m, NEW n, Right(m, n) PROVE Saves(m, <<>>, m, n)
<1>1. PICK h : h = [i \in 0..0 |-> m]
  OBVIOUS
<1>2. Len(<<>>) = 0
  OBVIOUS
<1>3. DOMAIN h = 0..0 /\ \A i \in 0..0 : h[i] = m
  BY <1>1
<1>31. Units(m) \in Nat
  BY UnitsIs DEF Right, Sound
<1>4. Chain(h, m, <<>>, m, n)
  BY <1>2, <1>3, <1>31 DEF Chain, Short
<1>. QED
  BY <1>4 DEF Saves

LEMMA SavesSound ==
    ASSUME NEW d, NEW P \in Queue, NEW m, NEW n, Saves(d, P, m, n)
    PROVE  Right(d, n) /\ Right(m, n) /\ Sound(d, n) /\ Sound(m, n)
<1>1. PICK h : Chain(h, d, P, m, n)
  BY DEF Saves
<1>2. Len(P) \in Nat
  BY DEF Queue
<1>3. Right(d, n) /\ Right(m, n)
  BY <1>1, <1>2 DEF Chain
<1>. QED
  BY <1>3 DEF Right

LEMMA SavesMore ==
    ASSUME NEW d, NEW P \in Queue, NEW m, NEW n \in Nat, Saves(d, P, m, n),
           NEW Q \in Queue, NEW m2, NEW n2 \in Nat, n <= n2, Saves(m, Q, m2, n2)
    PROVE  Saves(d, P \o Q, m2, n2)
<1>1. PICK h : Chain(h, d, P, m, n)
  BY DEF Saves
<1>2. PICK g : Chain(g, m, Q, m2, n2)
  BY DEF Saves
<1>3. PICK R : R = P \o Q
  OBVIOUS
<1>4. /\ R \in Queue /\ Len(R) = Len(P) + Len(Q) /\ Len(P) \in Nat /\ Len(Q) \in Nat
      /\ \A i \in 1..Len(P) : R[i] = P[i]
      /\ \A i \in 1..Len(R) : i > Len(P) => R[i] = Q[i - Len(P)]
  BY <1>3, ConcatProperties DEF Queue
<1>5. PICK k : k = [i \in 0..Len(R) |-> IF i <= Len(P) THEN h[i] ELSE g[i - Len(P)]]
  OBVIOUS
<1>6. \A i \in 0..Len(P) : k[i] = h[i]
  BY <1>4, <1>5
<1>7. \A i \in 0..Len(Q) : k[i + Len(P)] = g[i]
  <2>. TAKE i \in 0..Len(Q)
  <2>1. i + Len(P) \in 0..Len(R) /\ (i + Len(P)) - Len(P) = i
    BY <1>4
  <2>2. CASE i = 0
    BY <1>1, <1>2, <1>4, <1>6, <2>2 DEF Chain
  <2>3. CASE i # 0
    BY <1>4, <1>5, <2>1, <2>3
  <2>. QED
    BY <2>2, <2>3
<1>8. ASSUME NEW i \in 1..Len(R) PROVE k[i] = Apply(k[i - 1], R[i])
  <2>1. CASE i <= Len(P)
    <3>1. i \in 1..Len(P) /\ i - 1 \in 0..Len(P) /\ i \in 0..Len(P)
      BY <1>4, <2>1
    <3>. QED
      BY <1>1, <1>4, <1>6, <3>1 DEF Chain
  <2>2. CASE i > Len(P)
    <3>1. PICK j \in 1..Len(Q) : i = j + Len(P)
      <4>1. i - Len(P) \in 1..Len(Q) /\ i = (i - Len(P)) + Len(P)
        BY <1>4, <2>2
      <4>. QED
        BY <4>1
    <3>2. j - 1 \in 0..Len(Q) /\ j \in 0..Len(Q) /\ i - 1 = (j - 1) + Len(P) /\ i - Len(P) = j
      BY <1>4, <3>1
    <3>3. R[i] = Q[j]
      BY <1>4, <2>2, <3>2
    <3>4. k[i] = g[j] /\ k[i - 1] = g[j - 1]
      BY <1>7, <3>1, <3>2
    <3>5. g[j] = Apply(g[j - 1], Q[j])
      BY <1>2, <3>1 DEF Chain
    <3>. QED
      BY <3>3, <3>4, <3>5
  <2>. QED
    BY <1>4, <2>1, <2>2
<1>9. ASSUME NEW i \in 0..Len(R) PROVE Right(k[i], n2)
  <2>1. CASE i <= Len(P)
    <3>1. i \in 0..Len(P)
      BY <1>4, <2>1
    <3>2. Sound(h[i], n) /\ Money(h[i]) = SumFunction(Purse) /\ k[i] = h[i]
      BY <1>1, <1>6, <3>1 DEF Chain, Right
    <3>3. \A id \in Live(h[i]) : id < n2
      <4>1. \A id \in Live(h[i]) : id \in Nat /\ id < n
        BY <3>2 DEF Sound, Live, AuctionId
      <4>. QED
        BY <4>1
    <3>. QED
      BY <3>2, <3>3 DEF Sound, Right
  <2>2. CASE i > Len(P)
    <3>1. PICK j \in 0..Len(Q) : i = j + Len(P)
      <4>1. i - Len(P) \in 0..Len(Q) /\ i = (i - Len(P)) + Len(P)
        BY <1>4, <2>2
      <4>. QED
        BY <4>1
    <3>. QED
      BY <1>2, <1>7, <3>1 DEF Chain
  <2>. QED
    BY <1>4, <2>1, <2>2
<1>10. k[0] = d /\ k[Len(R)] = m2
  <2>1. k[0] = d
    BY <1>1, <1>4, <1>6 DEF Chain
  <2>2. Len(R) = Len(Q) + Len(P) /\ Len(Q) \in 0..Len(Q)
    BY <1>4
  <2>3. k[Len(R)] = g[Len(Q)]
    BY <1>7, <2>2
  <2>. QED
    BY <1>2, <2>1, <2>3 DEF Chain
<1>11. DOMAIN k = 0..Len(R)
  BY <1>5
<1>111. Units(m) \in Nat /\ Units(m2) \in Nat
  <2>1. Right(m, n) /\ Right(m2, n2)
    BY <1>1, <1>2, <1>4 DEF Chain
  <2>. QED
    BY <2>1, UnitsIs DEF Right, Sound
<1>112. ASSUME NEW j \in 1..Len(Q), NEW i \in 0..Len(R), j + Len(P) > i, SavesClone(Q[j])
        PROVE  \E e \in 1..Len(R) : e > i /\ SavesClone(R[e])
  <2>1. PICK e \in 1..Len(R) : e = j + Len(P) /\ e > Len(P) /\ e - Len(P) = j
    BY <1>4
  <2>2. R[e] = Q[j]
    BY <1>4, <2>1
  <2>. QED
    BY <1>112, <2>1, <2>2
<1>113. ASSUME NEW i \in 0..Len(R) PROVE Short(k[i], R, i, m2)
  <2>1. Units(k[i]) \in Nat
    BY <1>9, UnitsIs DEF Right, Sound
  <2>2. CASE i <= Len(P)
    <3>1. i \in 0..Len(P)
      BY <1>4, <2>2
    <3>2. Short(k[i], P, i, m)
      BY <1>1, <1>6, <3>1 DEF Chain
    <3>3. Short(m, Q, 0, m2)
      BY <1>2, <1>4 DEF Chain
    <3>4. Units(k[i]) <= Units(m2)
      BY <1>111, <2>1, <3>2, <3>3 DEF Short
    <3>5. ASSUME Units(k[i]) < Units(m)
          PROVE  \E e \in 1..Len(R) : e > i /\ SavesClone(R[e])
      <4>1. PICK e \in 1..Len(P) : e > i /\ SavesClone(P[e])
        BY <3>2, <3>5 DEF Short
      <4>2. e \in 1..Len(R) /\ R[e] = P[e]
        BY <1>4
      <4>. QED
        BY <4>1, <4>2
    <3>6. ASSUME Units(m) < Units(m2)
          PROVE  \E e \in 1..Len(R) : e > i /\ SavesClone(R[e])
      <4>1. PICK j \in 1..Len(Q) : SavesClone(Q[j])
        BY <3>3, <3>6 DEF Short
      <4>2. j + Len(P) > i
        BY <1>4, <3>1
      <4>. QED
        BY <1>112, <4>1, <4>2
    <3>7. Units(k[i]) < Units(m2) => Units(k[i]) < Units(m) \/ Units(m) < Units(m2)
      BY <1>111, <2>1
    <3>. QED
      BY <3>4, <3>5, <3>6, <3>7 DEF Short
  <2>3. CASE i > Len(P)
    <3>1. PICK j \in 0..Len(Q) : i = j + Len(P)
      <4>1. i - Len(P) \in 0..Len(Q) /\ i = (i - Len(P)) + Len(P)
        BY <1>4, <2>3
      <4>. QED
        BY <4>1
    <3>2. Short(k[i], Q, j, m2)
      BY <1>2, <1>7, <3>1 DEF Chain
    <3>3. ASSUME NEW e \in 1..Len(Q), e > j PROVE e + Len(P) > i
      BY <1>4, <3>1, <3>3
    <3>. QED
      BY <1>112, <3>2, <3>3 DEF Short
  <2>. QED
    BY <1>4, <2>2, <2>3
<1>12. Chain(k, d, R, m2, n2)
  BY <1>8, <1>9, <1>10, <1>11, <1>113 DEF Chain
<1>. QED
  BY <1>3, <1>12 DEF Saves

(* One more transaction. *)
LEMMA SavesNext ==
    ASSUME NEW d, NEW P \in Queue, NEW m, NEW n \in Nat, Saves(d, P, m, n),
           NEW tx \in Seq(Statements), NEW m2, NEW n2 \in Nat, n <= n2,
           m2 = Apply(m, tx), Right(m, n2), Right(m2, n2), Units(m2) = Units(m)
    PROVE  Saves(d, Append(P, tx), m2, n2) /\ Append(P, tx) \in Queue
<1>1. PICK Q : Q = <<tx>>
  OBVIOUS
<1>2. Q \in Queue /\ Len(Q) = 1 /\ Q[1] = tx
  BY <1>1 DEF Queue
<1>3. P \o Q = Append(P, tx) /\ Append(P, tx) \in Queue
  <2>1. P \o <<tx>> = Append(P, tx)
    BY DEF Queue
  <2>. QED
    BY <1>1, <2>1 DEF Queue
<1>4. PICK g : g = [i \in 0..1 |-> IF i = 0 THEN m ELSE m2]
  OBVIOUS
<1>41. Units(m) \in Nat
  BY UnitsIs DEF Right, Sound
<1>5. Chain(g, m, Q, m2, n2)
  BY <1>2, <1>4, <1>41 DEF Chain, Short
<1>6. Saves(m, Q, m2, n2)
  BY <1>5 DEF Saves
<1>. QED
  BY <1>2, <1>3, <1>6, SavesMore

(* One transaction less. *)
LEMMA SavesRest ==
    ASSUME NEW d, NEW P \in Queue, P # <<>>, NEW m, NEW n, Saves(d, P, m, n)
    PROVE  Saves(Apply(d, Head(P)), Tail(P), m, n) /\ Tail(P) \in Queue
<1>1. PICK h : Chain(h, d, P, m, n)
  BY DEF Saves
<1>2. PICK Q : Q = Tail(P)
  OBVIOUS
<1>3. /\ Q \in Queue /\ Len(P) = Len(Q) + 1 /\ Len(Q) \in Nat /\ Head(P) = P[1]
      /\ \A i \in 1..Len(Q) : Q[i] = P[i + 1]
  BY <1>2 DEF Queue
<1>4. PICK k : k = [i \in 0..Len(Q) |-> h[i + 1]]
  OBVIOUS
<1>5. k[0] = Apply(d, Head(P))
  <2>1. 1 \in 1..Len(P) /\ 0 \in 0..Len(Q)
    BY <1>3
  <2>2. h[1] = Apply(h[1 - 1], P[1])
    BY <1>1, <2>1 DEF Chain
  <2>3. h[1 - 1] = d
    BY <1>1 DEF Chain
  <2>. QED
    BY <1>3, <1>4, <2>1, <2>2, <2>3
<1>6. k[Len(Q)] = m
  BY <1>1, <1>3, <1>4 DEF Chain
<1>7. ASSUME NEW i \in 0..Len(Q) PROVE Right(k[i], n)
  <2>1. i + 1 \in 0..Len(P)
    BY <1>3
  <2>. QED
    BY <1>1, <1>4, <2>1 DEF Chain
<1>8. ASSUME NEW i \in 1..Len(Q) PROVE k[i] = Apply(k[i - 1], Q[i])
  <2>1. i + 1 \in 1..Len(P) /\ i - 1 \in 0..Len(Q) /\ i \in 0..Len(Q) /\ (i + 1) - 1 = (i - 1) + 1
    BY <1>3
  <2>2. h[i + 1] = Apply(h[(i + 1) - 1], P[i + 1])
    BY <1>1, <2>1 DEF Chain
  <2>3. k[i] = h[i + 1] /\ k[i - 1] = h[(i - 1) + 1]
    BY <1>4, <2>1
  <2>. QED
    BY <1>3, <2>1, <2>2, <2>3
<1>81. ASSUME NEW i \in 0..Len(Q) PROVE Short(k[i], Q, i, m)
  <2>1. PICK j \in 0..Len(P) : j = i + 1
    BY <1>3
  <2>2. Short(k[i], P, j, m)
    BY <1>1, <1>4, <2>1 DEF Chain
  <2>3. ASSUME NEW e \in 1..Len(P), e > j, SavesClone(P[e])
        PROVE  \E l \in 1..Len(Q) : l > i /\ SavesClone(Q[l])
    <3>1. PICK l \in 1..Len(Q) : l = e - 1 /\ e = l + 1 /\ l > i
      BY <1>3, <2>1, <2>3
    <3>. QED
      BY <1>3, <2>3, <3>1
  <2>. QED
    BY <2>2, <2>3 DEF Short
<1>9. Chain(k, Apply(d, Head(P)), Q, m, n)
  BY <1>4, <1>5, <1>6, <1>7, <1>8, <1>81 DEF Chain
<1>. QED
  BY <1>2, <1>3, <1>9 DEF Saves

(* Carrying out the whole queue at once gives the last image. *)
LEMMA SavesAll ==
    ASSUME NEW d, NEW P \in Queue, NEW m, NEW n, Saves(d, P, m, n)
    PROVE  Apply(d, FlattenSeq(P)) = m
<1>1. PICK h : Chain(h, d, P, m, n)
  BY DEF Saves
<1>2. Len(P) \in Nat /\ P \in Seq(Seq(Statements))
  BY DEF Queue
<1>3. PICK T : T = {i \in Nat : i <= Len(P) => Apply(d, FlattenSeq(SubSeq(P, 1, i))) = h[i]}
  OBVIOUS
<1>4. 0 \in T
  <2>1. SubSeq(P, 1, 0) = <<>>
    BY <1>2
  <2>2. Apply(d, FlattenSeq(<<>>)) = d
    BY ApplyEmpty, FlattenEmpty
  <2>. QED
    BY <1>1, <1>3, <2>1, <2>2 DEF Chain
<1>5. ASSUME NEW i \in Nat, i \in T PROVE i + 1 \in T
  <2>1. SUFFICES ASSUME i + 1 <= Len(P)
                 PROVE  Apply(d, FlattenSeq(SubSeq(P, 1, i + 1))) = h[i + 1]
    BY <1>3
  <2>2. i \in 0..Len(P) /\ i + 1 \in 1..Len(P) /\ (i + 1) - 1 = i
    BY <1>2, <2>1
  <2>3. PICK Q : Q = SubSeq(P, 1, i)
    OBVIOUS
  <2>4. Q \in Seq(Seq(Statements)) /\ P[i + 1] \in Seq(Statements)
    BY <1>2, <2>2, <2>3, SplitSeq
  <2>5. SubSeq(P, 1, i + 1) = Append(Q, P[i + 1])
    BY <1>2, <2>2, <2>3
  <2>6. FlattenSeq(Append(Q, P[i + 1])) = FlattenSeq(Q) \o P[i + 1]
        /\ FlattenSeq(Q) \in Seq(Statements)
    BY <2>4, FlattenAppend, FlattenType
  <2>7. Apply(d, FlattenSeq(Q) \o P[i + 1]) = Apply(Apply(d, FlattenSeq(Q)), P[i + 1])
    BY <2>4, <2>6, ApplyConcat
  <2>8. Apply(d, FlattenSeq(Q)) = h[i]
    BY <1>2, <1>3, <1>5, <2>2, <2>3
  <2>9. h[i + 1] = Apply(h[i], P[i + 1])
    BY <1>1, <2>2 DEF Chain
  <2>. QED
    BY <2>5, <2>6, <2>7, <2>8, <2>9
<1>6. \A i \in Nat : i \in T
  BY <1>4, <1>5, Induction
<1>7. SubSeq(P, 1, Len(P)) = P
  BY <1>2
<1>8. Apply(d, FlattenSeq(SubSeq(P, 1, Len(P)))) = h[Len(P)]
  BY <1>2, <1>3, <1>6
<1>9. h[Len(P)] = m
  BY <1>1 DEF Chain
<1>. QED
  BY <1>7, <1>8, <1>9
-----------------------------------------------------------------------------
(* Payments: what changes purses, letters and the till only.               *)

SameItems(a, b) ==
    /\ a.inventory = b.inventory /\ a.mailed = b.mailed
    /\ a.stack = b.stack /\ a.auctions = b.auctions

(* While the purses are as in memory, tx adds d to the money of an image.  *)
Payment(tx, d) ==
    /\ tx \in Seq(Statements) /\ d \in Int
    /\ \A im \in Images :
          /\ Apply(im, tx) \in Images /\ SameItems(im, Apply(im, tx))
          /\ im.gold = mem.gold => Money(Apply(im, tx)) = Money(im) + d

(* So does a gift, whatever is in the purses, and it leaves them alone. *)
Gift(tx, d) ==
    /\ tx \in Seq(Statements) /\ d \in Int
    /\ \A im \in Images :
          /\ Apply(im, tx) \in Images /\ SameItems(im, Apply(im, tx))
          /\ Money(Apply(im, tx)) = Money(im) + d /\ Apply(im, tx).gold = im.gold

LEMMA SameItemsSound ==
    ASSUME NEW a \in Images, NEW b \in Images, SameItems(a, b)
    PROVE  /\ Live(b) = Live(a) /\ HouseItems(b) = HouseItems(a)
           /\ \A n : Sound(a, n) => Sound(b, n)
<1>1. Live(b) = Live(a)
  BY DEF Live, SameItems
<1>2. HouseItems(b) = HouseItems(a)
  BY <1>1 DEF HouseItems, SameItems
<1>. QED
  BY <1>1, <1>2 DEF Sound, Placed, SameItems

LEMMA GiftIsPayment ==
    ASSUME NEW tx, NEW d, Gift(tx, d)
    PROVE  Payment(tx, d)
BY DEF Gift, Payment

LEMMA NoGift == Gift(<<>>, 0)
<1>1. ASSUME NEW im \in Images PROVE Money(im) = Money(im) + 0
  BY MoneyIs
<1>. QED
  BY <1>1, EmptySeq, ApplyEmpty DEF Gift, SameItems

LEMMA GiftAnd ==
    ASSUME NEW s, NEW d, Gift(s, d), NEW t, NEW e
    PROVE  /\ Payment(t, e) => Payment(s \o t, d + e)
           /\ Gift(t, e) => Gift(s \o t, d + e)
<1>1. ASSUME t \in Seq(Statements) PROVE s \o t \in Seq(Statements)
  BY <1>1, ConcatProperties DEF Gift
<1>2. ASSUME NEW im \in Images, t \in Seq(Statements)
      PROVE  Apply(im, s \o t) = Apply(Apply(im, s), t) /\ Money(im) \in Int /\ d \in Int
  BY <1>2, ApplyConcat, MoneyIs DEF Gift
<1>3. ASSUME Payment(t, e) PROVE Payment(s \o t, d + e)
  <2>1. t \in Seq(Statements) /\ e \in Int /\ d \in Int
    BY <1>3 DEF Payment, Gift
  <2>2. ASSUME NEW im \in Images
        PROVE  /\ Apply(im, s \o t) \in Images /\ SameItems(im, Apply(im, s \o t))
               /\ im.gold = mem.gold => Money(Apply(im, s \o t)) = Money(im) + (d + e)
    <3>1. PICK im1 : im1 = Apply(im, s)
      OBVIOUS
    <3>2. /\ im1 \in Images /\ SameItems(im, im1)
          /\ Money(im1) = Money(im) + d /\ im1.gold = im.gold
      BY <3>1 DEF Gift
    <3>3. PICK im2 : im2 = Apply(im1, t)
      OBVIOUS
    <3>4. /\ im2 \in Images /\ SameItems(im1, im2)
          /\ im1.gold = mem.gold => Money(im2) = Money(im1) + e
      BY <1>3, <3>2, <3>3 DEF Payment
    <3>5. im2 = Apply(im, s \o t) /\ Money(im) \in Int
      BY <1>2, <2>1, <3>1, <3>3
    <3>. QED
      BY <2>1, <3>2, <3>4, <3>5 DEF SameItems
  <2>3. d + e \in Int
    BY <2>1
  <2>. QED
    BY <1>1, <2>1, <2>2, <2>3 DEF Payment
<1>4. ASSUME Gift(t, e) PROVE Gift(s \o t, d + e)
  <2>1. t \in Seq(Statements) /\ e \in Int /\ d \in Int
    BY <1>4 DEF Gift
  <2>2. ASSUME NEW im \in Images
        PROVE  /\ Apply(im, s \o t) \in Images /\ SameItems(im, Apply(im, s \o t))
               /\ Money(Apply(im, s \o t)) = Money(im) + (d + e)
               /\ Apply(im, s \o t).gold = im.gold
    <3>1. PICK im1 : im1 = Apply(im, s)
      OBVIOUS
    <3>2. /\ im1 \in Images /\ SameItems(im, im1)
          /\ Money(im1) = Money(im) + d /\ im1.gold = im.gold
      BY <3>1 DEF Gift
    <3>3. PICK im2 : im2 = Apply(im1, t)
      OBVIOUS
    <3>4. /\ im2 \in Images /\ SameItems(im1, im2)
          /\ Money(im2) = Money(im1) + e /\ im2.gold = im1.gold
      BY <1>4, <3>2, <3>3 DEF Gift
    <3>5. im2 = Apply(im, s \o t) /\ Money(im) \in Int
      BY <1>2, <2>1, <3>1, <3>3
    <3>. QED
      BY <2>1, <3>2, <3>4, <3>5 DEF SameItems
  <2>3. d + e \in Int
    BY <2>1
  <2>. QED
    BY <1>1, <2>1, <2>2, <2>3 DEF Gift
<1>. QED
  BY <1>3, <1>4

LEMMA PaymentAnd ==
    ASSUME NEW s, NEW d, Payment(s, d), NEW t, NEW e, Gift(t, e)
    PROVE  Payment(s \o t, d + e)
<1>1. t \in Seq(Statements) /\ e \in Int /\ d \in Int /\ s \o t \in Seq(Statements)
  BY ConcatProperties DEF Payment, Gift
<1>2. ASSUME NEW im \in Images
      PROVE  /\ Apply(im, s \o t) \in Images /\ SameItems(im, Apply(im, s \o t))
             /\ im.gold = mem.gold => Money(Apply(im, s \o t)) = Money(im) + (d + e)
  <2>1. PICK im1 : im1 = Apply(im, s)
    OBVIOUS
  <2>2. /\ im1 \in Images /\ SameItems(im, im1)
        /\ im.gold = mem.gold => Money(im1) = Money(im) + d
    BY <2>1 DEF Payment
  <2>3. PICK im2 : im2 = Apply(im1, t)
    OBVIOUS
  <2>4. im2 \in Images /\ SameItems(im1, im2) /\ Money(im2) = Money(im1) + e
    BY <2>2, <2>3 DEF Gift
  <2>5. im2 = Apply(im, s \o t) /\ Money(im) \in Int
    BY <2>1, <2>3, ApplyConcat, MoneyIs DEF Payment, Gift
  <2>. QED
    BY <1>1, <2>2, <2>4, <2>5 DEF SameItems
<1>3. d + e \in Int
  BY <1>1
<1>. QED
  BY <1>1, <1>2, <1>3 DEF Payment

LEMMA PairIs ==
    ASSUME NEW s \in Statements, NEW t \in Statements
    PROVE  <<s>> \o <<t>> = <<s, t>>
<1>1. PICK v : v = <<s>> \o <<t>>
  OBVIOUS
<1>2. PICK w : w = <<s, t>>
  OBVIOUS
<1>3. v \in Seq(Statements) /\ Len(v) = 2 /\ v[1] = s /\ v[2] = t
  BY <1>1
<1>4. w \in Seq(Statements) /\ Len(w) = 2 /\ w[1] = s /\ w[2] = t
  BY <1>2
<1>5. \A i \in 1..Len(v) : v[i] = w[i]
  BY <1>3, <1>4
<1>6. v = w
  BY <1>3, <1>4, <1>5, SeqEqual
<1>. QED
  BY <1>1, <1>2, <1>6

LEMMA PayIsPayment ==
    ASSUME mem \in Images, NEW p \in Player, NEW money \in Int, mem.gold[p] >= money
    PROVE  Pay(p, money) \in Statements /\ Payment(<<Pay(p, money)>>, -money)
<1>1. mem.gold[p] \in Nat /\ -money \in Int
  BY DEF Images
<1>2. PICK v \in Nat : v = mem.gold[p] - money
  BY <1>1
<1>3. Pay(p, money) = Set("gold", p, v)
  BY <1>1, <1>2 DEF Pay
<1>4. PICK s : s = Set("gold", p, v)
  OBVIOUS
<1>5. s \in Statements
  BY <1>4 DEF Set, Statements
<1>6. ASSUME NEW im \in Images
      PROVE  /\ Apply(im, <<s>>) \in Images /\ SameItems(im, Apply(im, <<s>>))
             /\ im.gold = mem.gold => Money(Apply(im, <<s>>)) = Money(im) + (-money)
  <2>1. PICK im2 : im2 = Perform(im, Set("gold", p, v))
    OBVIOUS
  <2>2. Apply(im, <<s>>) = im2
    BY <1>4, <1>5, <2>1, ApplyFew
  <2>3. /\ Money(im2) = Money(im) - im.gold[p] + v /\ im2 \in Images
        /\ im2.letters = im.letters /\ im2.auctions = im.auctions
    BY <2>1, GoldMoney
  <2>4. im2 = [im EXCEPT !.gold = [im.gold EXCEPT ![p] = v]]
    BY <2>1, SetGold
  <2>5. SameItems(im, im2)
    BY <2>4 DEF Images, SameItems
  <2>6. Money(im) \in Int
    BY MoneyIs
  <2>. QED
    BY <1>1, <1>2, <2>2, <2>3, <2>5, <2>6
<1>7. Payment(<<s>>, -money)
  BY <1>1, <1>5, <1>6 DEF Payment
<1>. QED
  BY <1>3, <1>4, <1>5, <1>7

LEMMA LetterIsGift ==
    ASSUME NEW p \in Player, NEW m \in Nat \ {0}
    PROVE  Letter(p, m) \in Statements /\ Gift(<<Letter(p, m)>>, m)
<1>1. PICK s : s = Letter(p, m)
  OBVIOUS
<1>2. s \in Statements
  BY <1>1 DEF Set, Letter, Statements
<1>3. ASSUME NEW im \in Images
      PROVE  /\ Apply(im, <<s>>) \in Images /\ SameItems(im, Apply(im, <<s>>))
             /\ Money(Apply(im, <<s>>)) = Money(im) + m /\ Apply(im, <<s>>).gold = im.gold
  <2>1. PICK im2 : im2 = Perform(im, Letter(p, m))
    OBVIOUS
  <2>2. Apply(im, <<s>>) = im2
    BY <1>1, <1>2, <2>1, ApplyFew
  <2>3. /\ Money(im2) = Money(im) + m /\ im2 \in Images
        /\ im2.gold = im.gold /\ im2.auctions = im.auctions
    BY <2>1, LetterSent
  <2>4. im2 = [im EXCEPT !.letters = [im.letters EXCEPT ![p] = @ (+) SetToBag({m})]]
    BY <2>1, PerformLetter
  <2>5. \A l : SameItems(im, [im EXCEPT !.letters = l])
    BY DEF Images, SameItems
  <2>. QED
    BY <2>2, <2>3, <2>4, <2>5
<1>4. Gift(<<s>>, m)
  BY <1>2, <1>3 DEF Gift
<1>. QED
  BY <1>1, <1>2, <1>4

LEMMA ToTillIsGift ==
    ASSUME NEW m \in Int
    PROVE  ToTill(m) \in Statements /\ Gift(<<ToTill(m)>>, m)
<1>1. PICK s : s = ToTill(m)
  OBVIOUS
<1>2. s \in Statements
  BY <1>1 DEF Set, ToTill, Statements
<1>3. ASSUME NEW im \in Images
      PROVE  /\ Apply(im, <<s>>) \in Images /\ SameItems(im, Apply(im, <<s>>))
             /\ Money(Apply(im, <<s>>)) = Money(im) + m /\ Apply(im, <<s>>).gold = im.gold
  <2>1. PICK im2 : im2 = Perform(im, ToTill(m))
    OBVIOUS
  <2>2. Apply(im, <<s>>) = im2
    BY <1>1, <1>2, <2>1, ApplyFew
  <2>3. /\ Money(im2) = Money(im) + m /\ im2 \in Images
        /\ im2.gold = im.gold /\ im2.auctions = im.auctions
    BY <2>1, TillMoney
  <2>4. im2 = [im EXCEPT !.till = im.till + m]
    BY <2>1, SetTill
  <2>5. \A l : SameItems(im, [im EXCEPT !.till = l])
    BY DEF Images, SameItems
  <2>. QED
    BY <2>2, <2>3, <2>4, <2>5
<1>4. Gift(<<s>>, m)
  BY <1>2, <1>3 DEF Gift
<1>. QED
  BY <1>1, <1>2, <1>4

LEMMA CutIsPart ==
    ASSUME NEW b \in Nat, NEW c \in 0..100
    PROVE  (b * c) \div 100 \in 0..b
<1>1. b * c <= b * 100 /\ b * c \in Nat
  OBVIOUS
<1>2. PICK x \in Nat : x = b * c
  BY <1>1
<1>3. x <= b * 100
  BY <1>1, <1>2
<1>4. x \div 100 \in 0..b
  BY <1>3
<1>. QED
  BY <1>2, <1>4

LEMMA AuctionCut ==
    ASSUME NEW a \in AuctionEntry
    PROVE  GetAuctionCut(a) \in 0..a.bid /\ a.bid \in Nat
<1>1. a.bid \in Nat /\ CutPercent \in 0..100
  BY ConstantsAssumption DEF AuctionEntry
<1>. QED
  BY <1>1, CutIsPart DEF GetAuctionCut

(* The seller gets the bid and his deposit, less the cut. *)
LEMMA SuccessIsGift ==
    ASSUME NEW a \in AuctionEntry, a.bid > 0
    PROVE  Gift(SendAuctionSuccessfulMail(a), a.bid)
<1>1. PICK c \in 0..a.bid : c = GetAuctionCut(a)
  BY AuctionCut
<1>2. a.bid \in Nat /\ Deposit \in Nat \ {0} /\ a.owner \in Player
  BY ConstantsAssumption DEF AuctionEntry
<1>3. PICK x \in Nat \ {0} : x = a.bid + Deposit - c
  BY <1>2
<1>4. PICK y \in Int : y = c - Deposit
  BY <1>2
<1>5. PICK s \in Statements : s = Letter(a.owner, x) /\ Gift(<<s>>, x)
  BY <1>2, LetterIsGift
<1>6. PICK t \in Statements : t = ToTill(y) /\ Gift(<<t>>, y)
  BY ToTillIsGift
<1>7. Gift(<<s>> \o <<t>>, x + y)
  BY <1>5, <1>6, GiftAnd
<1>8. x + y = a.bid
  BY <1>2, <1>3, <1>4
<1>9. SendAuctionSuccessfulMail(a) = <<s>> \o <<t>>
  <2>1. SendAuctionSuccessfulMail(a) = <<s, t>>
    BY <1>1, <1>3, <1>4, <1>5, <1>6 DEF SendAuctionSuccessfulMail
  <2>. QED
    BY <2>1, PairIs
<1>. QED
  BY <1>7, <1>8, <1>9

(* Who bids pays the price, and the bidder of before gets his bid back. *)
LEMMA OutbidIsPayment ==
    ASSUME mem \in Images, NEW a \in AuctionEntry, NEW p \in Player, NEW price \in Nat,
           a.bidder # None => a.bid > 0, mem.gold[p] >= price
    PROVE  Payment(Outbid(a, p, price), Lead(a) - price)
<1>1. a.bid \in Nat /\ a.bidder \in Player \cup {None} /\ a # None /\ mem.gold[p] \in Nat
  BY ConstantsAssumption DEF AuctionEntry, Images
<1>2. CASE a.bidder = p
  <2>1. PICK x \in Int : x = price - a.bid
    BY <1>1
  <2>2. mem.gold[p] >= x
    BY <1>1, <2>1
  <2>3. Payment(<<Pay(p, x)>>, -x)
    BY <2>2, PayIsPayment
  <2>4. Lead(a) = a.bid
    BY <1>1, <1>2, ConstantsAssumption DEF Lead
  <2>5. -x = Lead(a) - price
    BY <1>1, <2>1, <2>4
  <2>6. Outbid(a, p, price) = <<Pay(p, x)>>
    BY <1>2, <2>1 DEF Outbid
  <2>. QED
    BY <2>3, <2>5, <2>6
<1>3. CASE a.bidder # p /\ a.bidder = None
  <2>1. PICK x \in Int : x = price
    OBVIOUS
  <2>2. Payment(<<Pay(p, x)>>, -x)
    BY <2>1, PayIsPayment
  <2>3. Lead(a) = 0
    BY <1>3 DEF Lead
  <2>4. -x = Lead(a) - price
    BY <2>1, <2>3
  <2>5. Outbid(a, p, price) = <<Pay(p, x)>>
    BY <1>3, <2>1 DEF Outbid
  <2>. QED
    BY <2>2, <2>4, <2>5
<1>4. CASE a.bidder # p /\ a.bidder # None
  <2>1. PICK x \in Int : x = price
    OBVIOUS
  <2>2. Payment(<<Pay(p, x)>>, -x)
    BY <2>1, PayIsPayment
  <2>3. PICK s : s = SendAuctionOutbiddedMail(a)
    OBVIOUS
  <2>4. Gift(s, a.bid)
    BY <1>1, <1>4, <2>3, LetterIsGift DEF SendAuctionOutbiddedMail
  <2>5. Payment(s \o <<Pay(p, x)>>, a.bid + (-x))
    BY <2>2, <2>4, GiftAnd
  <2>6. Lead(a) = a.bid
    BY <1>1, <1>4 DEF Lead
  <2>7. a.bid + (-x) = Lead(a) - price
    BY <1>1, <2>1, <2>6
  <2>8. Outbid(a, p, price) = s \o <<Pay(p, x)>>
    BY <1>4, <2>1, <2>3 DEF Outbid
  <2>. QED
    BY <2>5, <2>7, <2>8
<1>. QED
  BY <1>2, <1>3, <1>4

(* Who cancels pays the cut of the bid that is returned. *)
LEMMA RefundIsPayment ==
    ASSUME mem \in Images, NEW a \in AuctionEntry, a.bidder # None => a.bid > 0,
           ~(a.bidder # None /\ mem.gold[a.owner] < GetAuctionCut(a))
    PROVE  Payment(Refund(a), Lead(a))
<1>1. a.bid \in Nat /\ a.bidder \in Player \cup {None} /\ a.owner \in Player /\ a # None
  BY ConstantsAssumption DEF AuctionEntry
<1>2. CASE a.bidder = None
  <2>1. Refund(a) = <<>> /\ Lead(a) = 0
    BY <1>2 DEF Refund, Lead
  <2>. QED
    BY <2>1, NoGift, GiftIsPayment
<1>3. CASE a.bidder # None
  <2>1. PICK u : u = SendAuctionCancelledToBidderMail(a)
    OBVIOUS
  <2>2. Gift(u, a.bid)
    BY <1>1, <1>3, <2>1, LetterIsGift DEF SendAuctionCancelledToBidderMail
  <2>3. PICK c \in Int : c = GetAuctionCut(a)
    BY AuctionCut
  <2>4. mem.gold[a.owner] >= c
    BY <1>1, <1>3, <2>3 DEF Images
  <2>5. PICK s \in Statements : s = Pay(a.owner, c) /\ Payment(<<s>>, -c)
    BY <1>1, <2>4, PayIsPayment
  <2>6. PICK t \in Statements : t = ToTill(c) /\ Gift(<<t>>, c)
    BY ToTillIsGift
  <2>7. Payment(<<s>> \o <<t>>, (-c) + c)
    BY <2>5, <2>6, PaymentAnd
  <2>8. (-c) + c = 0
    OBVIOUS
  <2>9. Payment(<<s, t>>, 0)
    BY <2>7, <2>8, PairIs
  <2>10. Payment(u \o <<s, t>>, a.bid + 0)
    BY <2>2, <2>9, GiftAnd
  <2>11. a.bid + 0 = Lead(a)
    BY <1>1, <1>3 DEF Lead
  <2>12. Refund(a) = u \o <<s, t>>
    BY <1>3, <2>1, <2>3, <2>5, <2>6 DEF Refund
  <2>. QED
    BY <2>10, <2>11, <2>12
<1>. QED
  BY <1>2, <1>3

-----------------------------------------------------------------------------
(* An auction ends: its item is sent away, and its row deleted.            *)
LEMMA EndAuction ==
    ASSUME NEW im, NEW n, Sound(im, n), NEW id \in Live(im), NEW p \in Player,
           NEW g, g = im.auctions[id].item,
           NEW im2, im2 = Apply(Apply(im, <<Parcel(p, g)>>), <<DeleteAuction(id)>>)
    PROVE  /\ Sound(im2, n) /\ im2.auctions = [im.auctions EXCEPT ![id] = None]
           /\ Live(im2) = Live(im) \ {id} /\ HouseItems(im2) = HouseItems(im) \ {g}
           /\ <<Parcel(p, g)>> \in Seq(Statements) /\ <<DeleteAuction(id)>> \in Seq(Statements)
           /\ g \in Guid /\ Money(im2) = Money(im) - Lead(im.auctions[id])
           /\ Units(im2) = Units(im)
<1>1. im \in Images /\ id \in AuctionId /\ g \in Guid /\ im.auctions[id] \in AuctionEntry
  BY LiveIs DEF Sound, AuctionEntry
<1>2. Parcel(p, g) \in Statements /\ DeleteAuction(id) \in Statements
  BY <1>1 DEF Statements, Parcel, DeleteAuction, Set
<1>3. PICK im1 : im1 = Perform(im, Parcel(p, g))
  OBVIOUS
<1>4. im1 \in Images /\ im1 = [im EXCEPT !.mailed = [im.mailed EXCEPT ![g] = p]]
  BY <1>1, <1>3, SetMailed
<1>5. im2 = Perform(im1, DeleteAuction(id))
  BY <1>2, <1>3, ApplyFew
<1>6. im2 \in Images /\ im2 = [im1 EXCEPT !.auctions = [im1.auctions EXCEPT ![id] = None]]
  <2>0. im1 \in Images /\ id \in AuctionId
    BY <1>1, <1>4
  <2>1. /\ Perform(im1, Set("auctions", id, None)) =
                 [im1 EXCEPT !.auctions = [im1.auctions EXCEPT ![id] = None]]
        /\ Perform(im1, Set("auctions", id, None)) \in Images
    BY <2>0, SetAuction
  <2>. QED
    BY <1>5, <2>1, Zenon DEF DeleteAuction
<1>7. /\ im2.inventory = im.inventory /\ im2.stack = im.stack
      /\ im2.mailed = [im.mailed EXCEPT ![g] = p]
      /\ im2.auctions = [im.auctions EXCEPT ![id] = None]
  BY <1>1, <1>4, <1>6 DEF Images
<1>8. \A i \in AuctionId : im2.auctions[i] = IF i = id THEN None ELSE im.auctions[i]
  BY <1>1, <1>7 DEF Images
<1>9. \A h \in Guid : im2.mailed[h] = IF h = g THEN p ELSE im.mailed[h]
  BY <1>1, <1>7 DEF Images
<1>10. Live(im2) = Live(im) \ {id}
  BY <1>1, <1>8 DEF Live
<1>11. HouseItems(im2) = HouseItems(im) \ {g}
  <2>1. \A i \in Live(im) \ {id} : im2.auctions[i] = im.auctions[i] /\ im.auctions[i].item # g
    BY <1>1, <1>8, LiveIs DEF Sound, Placed
  <2>. QED
    BY <1>1, <1>6, <1>10, <2>1, LiveIs
<1>12. Placed(im2)
  <2>1. \A i, j \in Live(im2) : im2.auctions[i].item = im2.auctions[j].item => i = j
    BY <1>1, <1>8, <1>10, LiveIs DEF Sound, Placed
  <2>2. p # None
    BY ConstantsAssumption
  <2>3. g \in HouseItems(im)
    BY <1>1, LiveIs
  <2>. QED
    BY <1>1, <1>7, <1>9, <1>11, <2>1, <2>2, <2>3 DEF Sound, Placed
<1>13. Sound(im2, n)
  BY <1>1, <1>6, <1>8, <1>10, <1>12, LiveIs DEF Sound
<1>14. Money(im1) = Money(im) /\ im1.auctions = im.auctions
  <2>1. /\ im.gold = im1.gold /\ im.letters = im1.letters
        /\ im.auctions = im1.auctions /\ im.till = im1.till
    BY <1>1, <1>4 DEF Images
  <2>. QED
    BY <1>1, <1>4, <2>1, SameMoney
<1>15. Money(im2) = Money(im) - Lead(im.auctions[id])
  <2>0. im1 \in Images /\ im2 \in Images
    BY <1>4, <1>6
  <2>1. im2 = [im1 EXCEPT !.auctions = [im1.auctions EXCEPT ![id] = None]]
    BY <1>6
  <2>2. Money(im2) = Money(im1) - Lead(im1.auctions[id])
    BY <1>1, <2>0, <2>1, WithoutAuction
  <2>. QED
    BY <1>14, <2>2
<1>. QED
  BY <1>1, <1>2, <1>7, <1>10, <1>11, <1>13, <1>15, UnitsSame

(* A bid on an auction leaves its item where it is. *)
LEMMA RaiseBid ==
    ASSUME NEW im, NEW n, Sound(im, n), NEW id \in Live(im), NEW a \in AuctionEntry,
           a.item = im.auctions[id].item, a.bid > 0,
           NEW im2, im2 = Apply(im, <<Set("auctions", id, a)>>)
    PROVE  /\ Sound(im2, n) /\ HouseItems(im2) = HouseItems(im)
           /\ <<Set("auctions", id, a)>> \in Seq(Statements)
           /\ Money(im2) = Money(im) - Lead(im.auctions[id]) + Lead(a)
           /\ Units(im2) = Units(im)
<1>1. im \in Images /\ id \in AuctionId /\ im.auctions[id] \in AuctionEntry
  BY LiveIs DEF Sound
<1>2. Set("auctions", id, a) \in Statements
  BY <1>1 DEF Statements, Set
<1>3. im2 \in Images /\ im2 = [im EXCEPT !.auctions = [im.auctions EXCEPT ![id] = a]]
  <2>1. /\ Perform(im, Set("auctions", id, a)) =
                 [im EXCEPT !.auctions = [im.auctions EXCEPT ![id] = a]]
        /\ Perform(im, Set("auctions", id, a)) \in Images
    BY <1>1, SetAuction
  <2>. QED
    BY <1>2, ApplyFew, <2>1, Zenon
<1>4. /\ im2.inventory = im.inventory /\ im2.stack = im.stack /\ im2.mailed = im.mailed
      /\ im2.auctions = [im.auctions EXCEPT ![id] = a]
  BY <1>1, <1>3 DEF Images
<1>5. \A i \in AuctionId : im2.auctions[i] = IF i = id THEN a ELSE im.auctions[i]
  BY <1>1, <1>4 DEF Images
<1>6. Live(im2) = Live(im)
  <2>1. a # None
    BY ConstantsAssumption
  <2>. QED
    BY <1>1, <1>5, <2>1 DEF Live
<1>7. \A i \in Live(im) : im2.auctions[i].item = im.auctions[i].item
  BY <1>1, <1>5, LiveIs
<1>8. HouseItems(im2) = HouseItems(im)
  BY <1>6, <1>7 DEF HouseItems
<1>9. Placed(im2)
  BY <1>4, <1>6, <1>7, <1>8 DEF Sound, Placed
<1>10. Sound(im2, n)
  BY <1>1, <1>3, <1>5, <1>6, <1>9, LiveIs DEF Sound
<1>11. Money(im2) = Money(im) - Lead(im.auctions[id]) + Lead(a)
  <2>1. im2 = Perform(im, Set("auctions", id, a))
    BY <1>2, ApplyFew
  <2>2. im \in Images /\ id \in AuctionId /\ a \in AuctionEntry \cup {None}
    BY <1>1
  <2>. QED
    BY <2>1, <2>2, AuctionMoney
<1>. QED
  BY <1>2, <1>4, <1>8, <1>10, <1>11, UnitsSame

(* A parcel is opened into a free slot. *)
LEMMA OpenParcel ==
    ASSUME NEW im, NEW n, Sound(im, n), NEW g \in Guid, NEW p \in Player, im.mailed[g] = p,
           NEW im2, im2 = Apply(im, <<Parcel(None, g), Set("inventory", g, p)>>)
    PROVE  /\ Sound(im2, n) /\ HouseItems(im2) = HouseItems(im)
           /\ <<Parcel(None, g), Set("inventory", g, p)>> \in Seq(Statements)
           /\ Money(im2) = Money(im) /\ Units(im2) = Units(im)
<1>1. im \in Images /\ p # None
  BY ConstantsAssumption DEF Sound
<1>2. Parcel(None, g) \in Statements /\ Set("inventory", g, p) \in Statements
  BY DEF Statements, Set, Parcel
<1>3. PICK im1 : im1 = Perform(im, Parcel(None, g))
  OBVIOUS
<1>4. im1 \in Images /\ im1 = [im EXCEPT !.mailed = [im.mailed EXCEPT ![g] = None]]
  BY <1>1, <1>3, SetMailed
<1>5. im2 = Perform(im1, Set("inventory", g, p))
  BY <1>2, <1>3, ApplyFew
<1>6. im2 \in Images /\ im2 = [im1 EXCEPT !.inventory = [im1.inventory EXCEPT ![g] = p]]
  <2>0. im1 \in Images
    BY <1>4
  <2>1. /\ Perform(im1, Set("inventory", g, p)) =
                 [im1 EXCEPT !.inventory = [im1.inventory EXCEPT ![g] = p]]
        /\ Perform(im1, Set("inventory", g, p)) \in Images
    BY <2>0, SetInventory
  <2>. QED
    BY <1>5, <2>1, Zenon
<1>7. /\ im2.inventory = [im.inventory EXCEPT ![g] = p] /\ im2.stack = im.stack
      /\ im2.mailed = [im.mailed EXCEPT ![g] = None] /\ im2.auctions = im.auctions
  BY <1>1, <1>4, <1>6 DEF Images
<1>8. \A h \in Guid : /\ im2.mailed[h] = IF h = g THEN None ELSE im.mailed[h]
                      /\ im2.inventory[h] = IF h = g THEN p ELSE im.inventory[h]
  BY <1>1, <1>7 DEF Images
<1>9. Live(im2) = Live(im) /\ HouseItems(im2) = HouseItems(im)
  BY <1>7 DEF Live, HouseItems
<1>10. Placed(im2)
  BY <1>1, <1>7, <1>8, <1>9 DEF Sound, Placed
<1>11. Sound(im2, n)
  BY <1>6, <1>7, <1>9, <1>10 DEF Sound
<1>12. Money(im2) = Money(im)
  <2>1. /\ im.gold = im2.gold /\ im.letters = im2.letters
        /\ im.auctions = im2.auctions /\ im.till = im2.till
    BY <1>1, <1>4, <1>6 DEF Images
  <2>. QED
    BY <1>1, <1>6, <2>1, SameMoney
<1>. QED
  BY <1>2, <1>7, <1>9, <1>11, <1>12, UnitsSame

(* A parcel is opened, and its item merged with another one. *)
Merge(im, g, h) ==
    <<Parcel(None, g), Set("stack", g, 0), Set("stack", h, im.stack[h] + im.stack[g])>>

LEMMA MergeParcel ==
    ASSUME NEW im, NEW n, Sound(im, n), NEW g \in Guid, NEW p \in Player, im.mailed[g] = p,
           NEW h \in Guid \ {g}, im.inventory[h] = p, im.stack[h] + im.stack[g] <= MaxStack,
           NEW tx, tx = Merge(im, g, h), NEW im2, im2 = Apply(im, tx)
    PROVE  /\ Sound(im2, n) /\ HouseItems(im2) = HouseItems(im) /\ tx \in Seq(Statements)
           /\ Money(im2) = Money(im) /\ Units(im2) = Units(im)
<1>1. im \in Images /\ p # None /\ MaxStack \in Nat
  BY ConstantsAssumption DEF Sound
<1>2. im.stack \in [Guid -> 0..MaxStack]
  BY <1>1 DEF Images
<1>3. PICK s \in 0..MaxStack : s = im.stack[h] + im.stack[g]
  BY <1>1, <1>2
<1>4. /\ Parcel(None, g) \in Statements /\ Set("stack", g, 0) \in Statements
      /\ Set("stack", h, s) \in Statements /\ 0 \in 0..MaxStack
  BY <1>1 DEF Statements, Set, Parcel
<1>5. PICK im1 : im1 = Perform(im, Parcel(None, g))
  OBVIOUS
<1>6. im1 \in Images /\ im1 = [im EXCEPT !.mailed = [im.mailed EXCEPT ![g] = None]]
  BY <1>1, <1>5, SetMailed
<1>7. PICK im3 : im3 = Perform(im1, Set("stack", g, 0))
  OBVIOUS
<1>8. im3 \in Images /\ im3 = [im1 EXCEPT !.stack = [im1.stack EXCEPT ![g] = 0]]
  <2>0. im1 \in Images /\ 0 \in 0..MaxStack
    BY <1>4, <1>6
  <2>1. /\ Perform(im1, Set("stack", g, 0)) = [im1 EXCEPT !.stack = [im1.stack EXCEPT ![g] = 0]]
        /\ Perform(im1, Set("stack", g, 0)) \in Images
    BY <2>0, SetStack
  <2>. QED
    BY <1>7, <2>1, Zenon
<1>9. im2 = Perform(im3, Set("stack", h, s))
  BY <1>3, <1>4, <1>5, <1>7, ApplyFew DEF Merge
<1>10. im2 \in Images /\ im2 = [im3 EXCEPT !.stack = [im3.stack EXCEPT ![h] = s]]
  <2>0. im3 \in Images
    BY <1>4, <1>8
  <2>1. /\ Perform(im3, Set("stack", h, s)) = [im3 EXCEPT !.stack = [im3.stack EXCEPT ![h] = s]]
        /\ Perform(im3, Set("stack", h, s)) \in Images
    BY <2>0, SetStack
  <2>. QED
    BY <1>9, <2>1, Zenon
<1>11. /\ im2.inventory = im.inventory
       /\ im2.stack = [[im.stack EXCEPT ![g] = 0] EXCEPT ![h] = s]
       /\ im2.mailed = [im.mailed EXCEPT ![g] = None] /\ im2.auctions = im.auctions
  BY <1>1, <1>6, <1>8, <1>10 DEF Images
<1>12. \A k \in Guid : /\ im2.mailed[k] = IF k = g THEN None ELSE im.mailed[k]
                       /\ im2.stack[k] = IF k = h THEN s ELSE IF k = g THEN 0 ELSE im.stack[k]
  BY <1>1, <1>2, <1>11 DEF Images
<1>13. Live(im2) = Live(im) /\ HouseItems(im2) = HouseItems(im)
  BY <1>11 DEF Live, HouseItems
<1>14. Placed(im2)
  <2>1. ASSUME NEW k \in Guid, k # g, k # h
        PROVE  im2.mailed[k] = im.mailed[k] /\ im2.stack[k] = im.stack[k]
    BY <1>12, <2>1
  <2>2. im.stack[h] > 0 /\ im.mailed[h] = None /\ h \notin HouseItems(im)
    BY <1>1 DEF Sound, Placed
  <2>3. s > 0
    BY <1>2, <1>3, <2>2
  <2>4. im.inventory[g] = None /\ g \notin HouseItems(im)
    BY <1>1 DEF Sound, Placed
  <2>. QED
    BY <1>1, <1>11, <1>12, <1>13, <2>1, <2>2, <2>3, <2>4 DEF Sound, Placed
<1>15. Sound(im2, n)
  BY <1>10, <1>11, <1>13, <1>14 DEF Sound
<1>16. tx \in Seq(Statements)
  BY <1>3, <1>4 DEF Merge
<1>17. Money(im2) = Money(im)
  <2>1. /\ im.gold = im2.gold /\ im.letters = im2.letters
        /\ im.auctions = im2.auctions /\ im.till = im2.till
    BY <1>1, <1>6, <1>8, <1>10 DEF Images
  <2>. QED
    BY <1>1, <1>10, <2>1, SameMoney
<1>18. Units(im2) = Units(im)
  <2>1. /\ im3.stack = [im.stack EXCEPT ![g] = 0]
        /\ im2.stack = [im3.stack EXCEPT ![h] = s]
    BY <1>1, <1>6, <1>8, <1>10 DEF Images
  <2>2. /\ \A k \in Guid \ {g} : im3.stack[k] = im.stack[k]
        /\ im3.stack[g] = 0
    BY <1>2, <2>1
  <2>3. DOMAIN im3.stack = Guid
    BY <1>2, <2>1
  <2>4. /\ \A k \in Guid \ {h} : im2.stack[k] = im3.stack[k]
        /\ im2.stack[h] = s
    BY <2>1, <2>3
  <2>5. Units(im3) = Units(im) - im.stack[g] + im3.stack[g]
    BY <1>1, <1>8, <2>2, UnitsChange
  <2>6. Units(im2) = Units(im3) - im3.stack[h] + im2.stack[h]
    BY <1>8, <1>10, <2>4, UnitsChange
  <2>7. Units(im) \in Nat /\ im.stack[g] \in Nat /\ im.stack[h] \in Nat
    BY <1>1, <1>2, UnitsIs
  <2>. QED
    BY <1>3, <2>2, <2>4, <2>5, <2>6, <2>7
<1>. QED
  BY <1>13, <1>15, <1>16, <1>17, <1>18
-----------------------------------------------------------------------------
(* Sales. *)

(* As Sound, but g, which exists, has no place. *)
SoundBut(im, n, g) ==
    /\ im \in Images
    /\ \A h \in Guid \ {g} :
          \/ /\ im.stack[h] = 0 /\ im.inventory[h] = None /\ im.mailed[h] = None
             /\ h \notin HouseItems(im)
          \/ /\ im.stack[h] > 0 /\ im.inventory[h] # None /\ im.mailed[h] = None
             /\ h \notin HouseItems(im)
          \/ /\ im.stack[h] > 0 /\ im.inventory[h] = None /\ im.mailed[h] # None
             /\ h \notin HouseItems(im)
          \/ /\ im.stack[h] > 0 /\ im.inventory[h] = None /\ im.mailed[h] = None
             /\ h \in HouseItems(im)
    /\ im.stack[g] > 0 /\ im.inventory[g] = None /\ im.mailed[g] = None
    /\ g \notin HouseItems(im)
    /\ \A i, j \in Live(im) : im.auctions[i].item = im.auctions[j].item => i = j
    /\ \A id \in Live(im) :
          id < n /\ (im.auctions[id].bidder # None => im.auctions[id].bid > 0)

(* The new auction is the place. *)
LEMMA NewListing ==
    ASSUME NEW im, NEW n \in AuctionId, NEW g \in Guid, SoundBut(im, n, g),
           NEW a \in AuctionEntry, a.item = g, a.bidder = None,
           NEW s \in Statements, NEW t \in Statements, Payment(<<s, t>>, 0),
           im.gold = mem.gold,
           NEW im2, im2 = Apply(im, <<Set("auctions", n, a), s, t>>)
    PROVE  /\ Sound(im2, n + 1) /\ im2.auctions = [im.auctions EXCEPT ![n] = a]
           /\ Live(im2) = Live(im) \cup {n} /\ n \notin Live(im)
           /\ Money(im2) = Money(im) /\ Units(im2) = Units(im)
           /\ HouseItems(im2) = HouseItems(im) \cup {g}
           /\ im2.stack = im.stack /\ im2.inventory = im.inventory /\ im2.mailed = im.mailed
           /\ <<Set("auctions", n, a), s, t>> \in Seq(Statements)
<1>1. im \in Images /\ a # None /\ n \in Nat /\ \A i \in Live(im) : i \in Nat
  BY ConstantsAssumption DEF SoundBut, AuctionId, Live
<1>2. Set("auctions", n, a) \in Statements
  BY DEF Statements, Set
<1>3. PICK im1 : im1 = Perform(im, Set("auctions", n, a))
  OBVIOUS
<1>4. im1 \in Images /\ im1 = [im EXCEPT !.auctions = [im.auctions EXCEPT ![n] = a]]
  <2>1. /\ Perform(im, Set("auctions", n, a)) =
              [im EXCEPT !.auctions = [im.auctions EXCEPT ![n] = a]]
        /\ Perform(im, Set("auctions", n, a)) \in Images
    BY <1>1, SetAuction
  <2>. QED
    BY <1>3, <2>1, Zenon
<1>5. im2 = Apply(im1, <<s, t>>)
  BY <1>2, <1>3, ApplyFew
<1>6. im2 \in Images /\ SameItems(im1, im2)
  BY <1>4, <1>5 DEF Payment
<1>7. /\ im2.inventory = im.inventory /\ im2.stack = im.stack /\ im2.mailed = im.mailed
      /\ im2.auctions = [im.auctions EXCEPT ![n] = a]
  BY <1>1, <1>4, <1>6 DEF Images, SameItems
<1>8. \A i \in AuctionId : im2.auctions[i] = IF i = n THEN a ELSE im.auctions[i]
  BY <1>1, <1>7 DEF Images
<1>9. Live(im2) = Live(im) \cup {n}
  BY <1>1, <1>8 DEF Live
<1>10. n \notin Live(im)
  BY <1>1 DEF SoundBut
<1>11. HouseItems(im2) = HouseItems(im) \cup {g}
  <2>1. \A i \in Live(im) : im2.auctions[i] = im.auctions[i]
    BY <1>1, <1>8, <1>10, LiveIs
  <2>2. im2.auctions[n] = a
    BY <1>8
  <2>. QED
    BY <1>9, <2>1, <2>2 DEF HouseItems
<1>12. Placed(im2)
  <2>1. \A i, j \in Live(im2) : im2.auctions[i].item = im2.auctions[j].item => i = j
    <3>1. \A i \in Live(im) : im2.auctions[i] = im.auctions[i] /\ im.auctions[i].item # g
      BY <1>1, <1>8, <1>10, LiveIs DEF SoundBut
    <3>2. im2.auctions[n].item = g
      BY <1>8
    <3>. QED
      BY <1>9, <3>1, <3>2 DEF SoundBut
  <2>. QED
    BY <1>7, <1>11, <2>1 DEF SoundBut, Placed
<1>13. Sound(im2, n + 1)
  <2>1. \A i \in Live(im2) : i < n + 1
    BY <1>1, <1>9 DEF SoundBut
  <2>2. \A i \in Live(im2) : im2.auctions[i].bidder # None => im2.auctions[i].bid > 0
    BY <1>1, <1>8, <1>9, LiveIs DEF SoundBut
  <2>. QED
    BY <1>6, <1>12, <2>1, <2>2 DEF Sound
<1>14. <<Set("auctions", n, a), s, t>> \in Seq(Statements)
  BY <1>2
<1>15. Money(im2) = Money(im)
  <2>1. /\ Money(im1) = Money(im) - Lead(im.auctions[n]) + Lead(a)
        /\ im1 \in Images /\ im1.gold = im.gold
    BY <1>1, <1>3, AuctionMoney
  <2>2. Lead(im.auctions[n]) = 0 /\ Lead(a) = 0
    BY <1>10 DEF Lead, Live
  <2>3. Money(im2) = Money(im1) + 0
    BY <1>5, <2>1 DEF Payment
  <2>4. Money(im) \in Int
    BY <1>1, MoneyIs
  <2>. QED
    BY <2>1, <2>2, <2>3, <2>4
<1>. QED
  BY <1>7, <1>9, <1>10, <1>11, <1>13, <1>14, <1>15, UnitsSame

(* A whole stack leaves the inventory. *)
LEMMA LeaveInventory ==
    ASSUME NEW im, NEW n, Sound(im, n), NEW g \in Guid, im.inventory[g] # None,
           NEW im2, im2 = Apply(im, <<Set("inventory", g, None)>>)
    PROVE  /\ SoundBut(im2, n, g) /\ <<Set("inventory", g, None)>> \in Seq(Statements)
           /\ im2.auctions = im.auctions /\ HouseItems(im2) = HouseItems(im)
           /\ im2.stack = im.stack
           /\ Money(im2) = Money(im) /\ im2.gold = im.gold /\ Units(im2) = Units(im)
<1>1. im \in Images
  BY DEF Sound
<1>2. Set("inventory", g, None) \in Statements
  BY DEF Statements, Set
<1>3. im2 = Perform(im, Set("inventory", g, None))
  BY <1>2, ApplyFew
<1>4. im2 \in Images /\ im2 = [im EXCEPT !.inventory = [im.inventory EXCEPT ![g] = None]]
  <2>1. /\ Perform(im, Set("inventory", g, None)) =
              [im EXCEPT !.inventory = [im.inventory EXCEPT ![g] = None]]
        /\ Perform(im, Set("inventory", g, None)) \in Images
    BY <1>1, SetInventory
  <2>. QED
    BY <1>3, <2>1, Zenon
<1>5. /\ im2.stack = im.stack /\ im2.mailed = im.mailed /\ im2.auctions = im.auctions
      /\ im2.inventory = [im.inventory EXCEPT ![g] = None]
  BY <1>1, <1>4 DEF Images
<1>6. \A h \in Guid : im2.inventory[h] = IF h = g THEN None ELSE im.inventory[h]
  BY <1>1, <1>5 DEF Images
<1>7. Live(im2) = Live(im) /\ HouseItems(im2) = HouseItems(im)
  BY <1>5 DEF Live, HouseItems
<1>8. SoundBut(im2, n, g)
  BY <1>4, <1>5, <1>6, <1>7 DEF Sound, SoundBut, Placed
<1>9. Money(im2) = Money(im)
  <2>1. /\ im.gold = im2.gold /\ im.letters = im2.letters
        /\ im.auctions = im2.auctions /\ im.till = im2.till
    BY <1>1, <1>4 DEF Images
  <2>. QED
    BY <1>1, <1>4, <2>1, SameMoney
<1>10. im2.gold = im.gold
  BY <1>1, <1>4 DEF Images
<1>. QED
  BY <1>2, <1>5, <1>7, <1>8, <1>9, <1>10, UnitsSame

(* A clone is created. *)
CloneOf(c, s) == <<Set("stack", c, s)>>

LEMMA CreateClone ==
    ASSUME NEW im, NEW n, Sound(im, n), NEW c \in Guid, NEW s \in 1..MaxStack,
           im.stack[c] = 0, NEW tx, tx = CloneOf(c, s), NEW im2, im2 = Apply(im, tx)
    PROVE  /\ SoundBut(im2, n, c) /\ tx \in Seq(Statements)
           /\ im2.auctions = im.auctions /\ HouseItems(im2) = HouseItems(im)
           /\ Money(im2) = Money(im) /\ im2.gold = im.gold
           /\ Units(im2) = Units(im) + s
<1>1. im \in Images /\ s \in 0..MaxStack /\ s > 0
  BY DEF Sound
<1>2. Set("stack", c, s) \in Statements
  BY DEF Statements, Set
<1>3. im2 = Perform(im, Set("stack", c, s))
  BY <1>2, ApplyFew DEF CloneOf
<1>4. im2 \in Images /\ im2 = [im EXCEPT !.stack = [im.stack EXCEPT ![c] = s]]
  <2>1. /\ Perform(im, Set("stack", c, s)) =
              [im EXCEPT !.stack = [im.stack EXCEPT ![c] = s]]
        /\ Perform(im, Set("stack", c, s)) \in Images
    BY <1>1, SetStack
  <2>. QED
    BY <1>3, <2>1, Zenon
<1>5. /\ im2.inventory = im.inventory /\ im2.mailed = im.mailed /\ im2.auctions = im.auctions
      /\ im2.stack = [im.stack EXCEPT ![c] = s]
  BY <1>1, <1>4 DEF Images
<1>6. \A h \in Guid : im2.stack[h] = IF h = c THEN s ELSE im.stack[h]
  BY <1>1, <1>5 DEF Images
<1>7. Live(im2) = Live(im) /\ HouseItems(im2) = HouseItems(im)
  BY <1>5 DEF Live, HouseItems
<1>8. im.inventory[c] = None /\ im.mailed[c] = None /\ c \notin HouseItems(im)
  BY DEF Sound, Placed
<1>9. SoundBut(im2, n, c)
  BY <1>1, <1>4, <1>5, <1>6, <1>7, <1>8 DEF Sound, SoundBut, Placed
<1>10. Money(im2) = Money(im)
  <2>1. /\ im.gold = im2.gold /\ im.letters = im2.letters
        /\ im.auctions = im2.auctions /\ im.till = im2.till
    BY <1>1, <1>4 DEF Images
  <2>. QED
    BY <1>1, <1>4, <2>1, SameMoney
<1>11. im2.gold = im.gold
  BY <1>1, <1>4 DEF Images
<1>12. tx \in Seq(Statements)
  BY <1>2 DEF CloneOf
<1>13. Units(im2) = Units(im) + s
  <2>0. im2 \in Images /\ \A h \in Guid \ {c} : im2.stack[h] = im.stack[h]
    BY <1>4, <1>6
  <2>1. Units(im2) = Units(im) - im.stack[c] + im2.stack[c]
    BY <1>1, <2>0, UnitsChange
  <2>2. Units(im) \in Nat
    BY <1>1, UnitsIs
  <2>. QED
    BY <1>6, <2>1, <2>2
<1>. QED
  BY <1>5, <1>7, <1>9, <1>10, <1>11, <1>12, <1>13

(* A stack gives away k units. *)
LEMMA ReduceOne ==
    ASSUME NEW im, NEW n, Sound(im, n), NEW g \in Guid, im.stack[g] = mem.stack[g],
           im.inventory[g] # None, NEW k \in 1..im.stack[g],
           NEW im2, im2 = Apply(im, Reduce(g, k))
    PROVE  /\ Sound(im2, n) /\ Reduce(g, k) \in Seq(Statements)
           /\ im2.auctions = im.auctions /\ im2.mailed = im.mailed
           /\ im2.gold = im.gold /\ im2.letters = im.letters /\ im2.till = im.till
           /\ im2.stack = [im.stack EXCEPT ![g] = im.stack[g] - k]
           /\ \A h \in Guid \ {g} : im2.inventory[h] = im.inventory[h]
<1>1. im \in Images /\ im.stack[g] \in 0..MaxStack /\ MaxStack \in Nat
  BY ConstantsAssumption DEF Sound, Images
<1>2. g \notin HouseItems(im) /\ im.mailed[g] = None
  BY DEF Sound, Placed
<1>3. CASE im.stack[g] = k
  <2>1. Reduce(g, k) = <<Set("inventory", g, None), Set("stack", g, 0)>>
    BY <1>3 DEF Reduce
  <2>2. Set("inventory", g, None) \in Statements /\ Set("stack", g, 0) \in Statements
    BY DEF Statements, Set
  <2>3. PICK im1 : im1 = Perform(im, Set("inventory", g, None))
    OBVIOUS
  <2>4. im1 \in Images /\ im1 = [im EXCEPT !.inventory = [im.inventory EXCEPT ![g] = None]]
    <3>1. /\ Perform(im, Set("inventory", g, None)) =
                [im EXCEPT !.inventory = [im.inventory EXCEPT ![g] = None]]
          /\ Perform(im, Set("inventory", g, None)) \in Images
      BY <1>1, SetInventory
    <3>. QED
      BY <2>3, <3>1, Zenon
  <2>5. im2 \in Images /\ im2 = [im1 EXCEPT !.stack = [im1.stack EXCEPT ![g] = 0]]
    <3>0. im1 \in Images /\ 0 \in 0..MaxStack
      BY <1>1, <2>4
    <3>1. /\ Perform(im1, Set("stack", g, 0)) =
                [im1 EXCEPT !.stack = [im1.stack EXCEPT ![g] = 0]]
          /\ Perform(im1, Set("stack", g, 0)) \in Images
      BY <3>0, SetStack
    <3>2. im2 = Perform(im1, Set("stack", g, 0))
      BY <2>1, <2>2, <2>3, ApplyFew
    <3>. QED
      BY <3>1, <3>2, Zenon
  <2>6. /\ im2.auctions = im.auctions /\ im2.mailed = im.mailed
        /\ im2.gold = im.gold /\ im2.letters = im.letters /\ im2.till = im.till
        /\ im2.stack = [im.stack EXCEPT ![g] = 0]
        /\ im2.inventory = [im.inventory EXCEPT ![g] = None]
    BY <1>1, <2>4, <2>5 DEF Images
  <2>7. \A h \in Guid : /\ im2.inventory[h] = IF h = g THEN None ELSE im.inventory[h]
                        /\ im2.stack[h] = IF h = g THEN 0 ELSE im.stack[h]
    BY <1>1, <2>6 DEF Images
  <2>8. Live(im2) = Live(im) /\ HouseItems(im2) = HouseItems(im)
    BY <2>6 DEF Live, HouseItems
  <2>9. Placed(im2)
    BY <1>2, <2>6, <2>7, <2>8 DEF Sound, Placed
  <2>10. Sound(im2, n)
    BY <2>5, <2>6, <2>8, <2>9 DEF Sound
  <2>11. im.stack[g] - k = 0
    BY <1>1, <1>3
  <2>12. Reduce(g, k) \in Seq(Statements)
    BY <2>1, <2>2
  <2>. QED
    BY <2>6, <2>7, <2>10, <2>11, <2>12
<1>4. CASE im.stack[g] # k
  <2>1. Reduce(g, k) = <<Set("stack", g, im.stack[g] - k)>>
    BY <1>4 DEF Reduce
  <2>2. PICK r \in 1..MaxStack : r = im.stack[g] - k
    BY <1>1, <1>4
  <2>3. Set("stack", g, r) \in Statements
    BY DEF Statements, Set
  <2>4. im2 \in Images /\ im2 = [im EXCEPT !.stack = [im.stack EXCEPT ![g] = r]]
    <3>0. r \in 0..MaxStack
      OBVIOUS
    <3>1. /\ Perform(im, Set("stack", g, r)) =
                [im EXCEPT !.stack = [im.stack EXCEPT ![g] = r]]
          /\ Perform(im, Set("stack", g, r)) \in Images
      BY <1>1, <3>0, SetStack
    <3>2. im2 = Perform(im, Set("stack", g, r))
      BY <2>1, <2>2, <2>3, ApplyFew
    <3>. QED
      BY <3>1, <3>2, Zenon
  <2>5. /\ im2.auctions = im.auctions /\ im2.mailed = im.mailed
        /\ im2.gold = im.gold /\ im2.letters = im.letters /\ im2.till = im.till
        /\ im2.stack = [im.stack EXCEPT ![g] = r]
        /\ im2.inventory = im.inventory
    BY <1>1, <2>4 DEF Images
  <2>6. \A h \in Guid : im2.stack[h] = IF h = g THEN r ELSE im.stack[h]
    BY <1>1, <2>5 DEF Images
  <2>7. Live(im2) = Live(im) /\ HouseItems(im2) = HouseItems(im)
    BY <2>5 DEF Live, HouseItems
  <2>8. im.stack[g] > 0 /\ r > 0
    BY <1>1
  <2>9. Placed(im2)
    BY <2>5, <2>6, <2>7, <2>8 DEF Sound, Placed
  <2>10. Sound(im2, n)
    BY <2>4, <2>5, <2>7, <2>9 DEF Sound
  <2>11. Reduce(g, k) \in Seq(Statements)
    BY <2>1, <2>2, <2>3
  <2>. QED
    BY <2>2, <2>5, <2>10, <2>11
<1>. QED
  BY <1>3, <1>4

LEMMA ReduceUnits ==
    ASSUME NEW im, NEW n, Sound(im, n), NEW g \in Guid, im.stack[g] = mem.stack[g],
           im.inventory[g] # None, NEW k \in 1..im.stack[g],
           NEW im2, im2 = Apply(im, Reduce(g, k))
    PROVE  Units(im2) = Units(im) - k
<1>1. im \in Images /\ im.stack[g] \in 0..MaxStack /\ MaxStack \in Nat
  BY ConstantsAssumption DEF Sound, Images
<1>2. /\ Sound(im2, n) /\ Reduce(g, k) \in Seq(Statements)
      /\ im2.auctions = im.auctions /\ im2.mailed = im.mailed
      /\ im2.gold = im.gold /\ im2.letters = im.letters /\ im2.till = im.till
      /\ im2.stack = [im.stack EXCEPT ![g] = im.stack[g] - k]
      /\ \A h \in Guid \ {g} : im2.inventory[h] = im.inventory[h]
  BY ReduceOne
<1>3. Units(im2) = Units(im) - k
  <2>1. im2 \in Images /\ DOMAIN im.stack = Guid
    BY <1>1, <1>2 DEF Sound, Images
  <2>2. \A h \in Guid : im2.stack[h] = IF h = g THEN im.stack[g] - k ELSE im.stack[h]
    BY <1>2, <2>1
  <2>3. /\ \A h \in Guid \ {g} : im2.stack[h] = im.stack[h]
        /\ im2.stack[g] = im.stack[g] - k
    BY <2>2
  <2>4. Units(im2) = Units(im) - im.stack[g] + im2.stack[g]
    BY <1>1, <2>1, <2>3, UnitsChange
  <2>5. Units(im) \in Nat /\ im.stack[g] \in Nat /\ k \in Nat
    BY <1>1, UnitsIs
  <2>. QED
    BY <2>3, <2>4, <2>5
<1>. QED
  BY <1>3
-----------------------------------------------------------------------------
(* Several transactions in a row. *)

(* The image after the first i transactions of Q. *)
Point(d, Q, i) == Apply(d, FlattenSeq(SubSeq(Q, 1, i)))

LEMMA Points ==
    ASSUME NEW d, NEW Q \in Queue
    PROVE  /\ Len(Q) \in Nat
           /\ Point(d, Q, 0) = d
           /\ \A i \in 1..Len(Q) : Point(d, Q, i) = Apply(Point(d, Q, i - 1), Q[i])
           /\ Point(d, Q, Len(Q)) = Apply(d, FlattenSeq(Q))
           /\ FlattenSeq(Q) \in Seq(Statements)
<1>1. Len(Q) \in Nat /\ Q \in Seq(Seq(Statements))
  BY DEF Queue
<1>2. Point(d, Q, 0) = d
  <2>1. SubSeq(Q, 1, 0) = <<>>
    BY <1>1
  <2>. QED
    BY <2>1, ApplyEmpty, FlattenEmpty DEF Point
<1>3. ASSUME NEW i \in 1..Len(Q) PROVE Point(d, Q, i) = Apply(Point(d, Q, i - 1), Q[i])
  <2>1. i - 1 \in 0..Len(Q) /\ (i - 1) + 1 = i
    BY <1>1
  <2>2. PICK R : R = SubSeq(Q, 1, i - 1)
    OBVIOUS
  <2>3. R \in Seq(Seq(Statements)) /\ Q[i] \in Seq(Statements)
    BY <1>1, <2>1, <2>2, SplitSeq
  <2>4. SubSeq(Q, 1, i) = Append(R, Q[i])
    BY <1>1, <2>1, <2>2
  <2>5. FlattenSeq(Append(R, Q[i])) = FlattenSeq(R) \o Q[i] /\ FlattenSeq(R) \in Seq(Statements)
    BY <2>3, FlattenAppend, FlattenType
  <2>6. Apply(d, FlattenSeq(R) \o Q[i]) = Apply(Apply(d, FlattenSeq(R)), Q[i])
    BY <2>3, <2>5, ApplyConcat
  <2>. QED
    BY <2>2, <2>4, <2>5, <2>6 DEF Point
<1>4. SubSeq(Q, 1, Len(Q)) = Q
  BY <1>1
<1>. QED
  BY <1>1, <1>2, <1>3, <1>4, FlattenType DEF Point

(* A last transaction that saves a clone makes up for what the others took. *)
LEMMA LastSavesClone ==
    ASSUME NEW d, NEW Q \in Queue, NEW n, NEW tx \in Seq(Statements), SavesClone(tx),
           NEW m2, m2 = Apply(Apply(d, FlattenSeq(Q)), tx), Right(m2, n),
           \A i \in 0..Len(Q) :
              Right(Point(d, Q, i), n) /\ Units(Point(d, Q, i)) <= Units(m2)
    PROVE  Saves(d, Append(Q, tx), m2, n) /\ Append(Q, tx) \in Queue
<1>1. PICK R : R = Append(Q, tx)
  OBVIOUS
<1>2. /\ R \in Queue /\ Len(Q) \in Nat /\ Len(R) = Len(Q) + 1 /\ R[Len(R)] = tx
      /\ \A i \in 1..Len(Q) : R[i] = Q[i]
  BY <1>1 DEF Queue
<1>3. PICK h : h = [i \in 0..Len(R) |-> IF i = Len(R) THEN m2 ELSE Point(d, Q, i)]
  OBVIOUS
<1>4. /\ DOMAIN h = 0..Len(R) /\ h[Len(R)] = m2
      /\ \A i \in 0..Len(Q) : h[i] = Point(d, Q, i)
  BY <1>2, <1>3
<1>5. h[0] = d
  BY <1>2, <1>4, Points
<1>6. ASSUME NEW i \in 1..Len(R) PROVE h[i] = Apply(h[i - 1], R[i])
  <2>1. CASE i = Len(R)
    <3>1. i - 1 = Len(Q) /\ Len(Q) \in 0..Len(Q)
      BY <1>2, <2>1
    <3>2. h[i - 1] = Apply(d, FlattenSeq(Q))
      BY <1>4, <3>1, Points
    <3>. QED
      BY <1>2, <1>4, <2>1, <3>2
  <2>2. CASE i # Len(R)
    <3>1. i \in 1..Len(Q) /\ i \in 0..Len(Q) /\ i - 1 \in 0..Len(Q)
      BY <1>2, <2>2
    <3>2. Point(d, Q, i) = Apply(Point(d, Q, i - 1), Q[i])
      BY <3>1, Points
    <3>. QED
      BY <1>2, <1>4, <3>1, <3>2
  <2>. QED
    BY <2>1, <2>2
<1>7. ASSUME NEW i \in 0..Len(R) PROVE Right(h[i], n)
  BY <1>2, <1>4
<1>8. Units(m2) \in Nat
  BY UnitsIs DEF Right, Sound
<1>9. ASSUME NEW i \in 0..Len(R) PROVE Short(h[i], R, i, m2)
  <2>1. CASE i = Len(R)
    BY <1>4, <1>8, <2>1 DEF Short
  <2>2. CASE i # Len(R)
    <3>1. i \in 0..Len(Q) /\ Len(R) \in 1..Len(R) /\ Len(R) > i
      BY <1>2, <2>2
    <3>. QED
      BY <1>2, <1>4, <3>1 DEF Short
  <2>. QED
    BY <2>1, <2>2
<1>10. Chain(h, d, R, m2, n)
  BY <1>4, <1>5, <1>6, <1>7, <1>9 DEF Chain
<1>. QED
  BY <1>1, <1>2, <1>10 DEF Saves

(* What the first i items of from give. *)
Part(take, from, i) == [g \in {from[j] : j \in 1..i} |-> take[g]]

Given(take, from, i) == SumFunction(Part(take, from, i))

(* The stacks of the first i items of from are reduced. *)
Reduced(im, from, take, i, n) ==
    /\ Sound(im, n) /\ im.auctions = mem.auctions /\ im.mailed = mem.mailed
    /\ im.gold = mem.gold /\ im.letters = mem.letters /\ im.till = mem.till
    /\ DOMAIN im.stack = Guid
    /\ \A g \in Guid : (\A j \in 1..i : from[j] # g) =>
          im.stack[g] = mem.stack[g] /\ im.inventory[g] = mem.inventory[g]
    /\ \A j \in 1..i : im.stack[from[j]] = mem.stack[from[j]] - take[from[j]]
    /\ Units(im) = Units(mem) - Given(take, from, i)

(* from names each giver once. *)
Names(take, from, l) ==
    /\ \A i \in 1..l : from[i] \in DOMAIN take /\ take[from[i]] \in Nat
    /\ \A i, j \in 1..l : from[i] = from[j] => i = j
    /\ \A g \in DOMAIN take : \E i \in 1..l : from[i] = g

LEMMA Parts ==
    ASSUME NEW take, NEW from, NEW l \in Nat, Names(take, from, l)
    PROVE  /\ \A i \in 0..l : Given(take, from, i) \in Nat
           /\ Given(take, from, 0) = 0
           /\ \A i \in 1..l : Given(take, from, i) =
                                take[from[i]] + Given(take, from, i - 1)
           /\ Given(take, from, l) = SumFunction(take)
<1>0. /\ \A i \in 1..l : from[i] \in DOMAIN take /\ take[from[i]] \in Nat
      /\ \A i, j \in 1..l : from[i] = from[j] => i = j
      /\ \A g \in DOMAIN take : \E i \in 1..l : from[i] = g
  BY DEF Names
<1>1. ASSUME NEW i \in 0..l
      PROVE  /\ IsFiniteSet(DOMAIN Part(take, from, i))
             /\ DOMAIN Part(take, from, i) = {from[j] : j \in 1..i}
             /\ \A g \in {from[j] : j \in 1..i} :
                   Part(take, from, i)[g] = take[g] /\ take[g] \in Nat
  <2>1. IsFiniteSet(1..i)
    BY FS_Interval
  <2>2. PICK S : S = {from[j] : j \in 1..i}
    OBVIOUS
  <2>3. IsFiniteSet(S)
    <3>1. PICK f : f = [j \in 1..i |-> from[j]]
      OBVIOUS
    <3>2. f \in Surjection(1..i, S)
      BY <2>2, <3>1 DEF Surjection
    <3>. QED
      BY <2>1, <3>2, FS_Surjection
  <2>4. \A j \in 1..i : j \in 1..l
    OBVIOUS
  <2>. QED
    BY <1>0, <2>2, <2>3, <2>4 DEF Part
<1>2. ASSUME NEW i \in 0..l PROVE Given(take, from, i) \in Nat
  <2>1. PICK f : f = Part(take, from, i)
    OBVIOUS
  <2>2. IsFiniteSet(DOMAIN f) /\ \A g \in DOMAIN f : f[g] \in Nat
    BY <1>1, <2>1
  <2>. QED
    BY <2>1, <2>2, SumNat DEF Given
<1>3. Given(take, from, 0) = 0
  <2>0. 1..0 = {}
    OBVIOUS
  <2>1. DOMAIN Part(take, from, 0) = {}
    BY <2>0 DEF Part
  <2>. QED
    BY <2>1, SumEmpty DEF Given
<1>4. ASSUME NEW i \in 1..l
      PROVE  Given(take, from, i) =
                take[from[i]] + Given(take, from, i - 1)
  <2>1. PICK f : f = Part(take, from, i)
    OBVIOUS
  <2>2. PICK f2 : f2 = Part(take, from, i - 1)
    OBVIOUS
  <2>3. PICK x : x = from[i]
    OBVIOUS
  <2>4. i \in 0..l /\ i - 1 \in 0..l /\ \A j : j \in 1..i <=> (j \in 1..(i - 1) \/ j = i)
    OBVIOUS
  <2>41. /\ IsFiniteSet(DOMAIN Part(take, from, i))
         /\ DOMAIN Part(take, from, i) = {from[j] : j \in 1..i}
         /\ \A g \in {from[j] : j \in 1..i} :
               Part(take, from, i)[g] = take[g] /\ take[g] \in Nat
    BY <1>1, <2>4, Zenon
  <2>5. /\ IsFiniteSet(DOMAIN f) /\ DOMAIN f = {from[j] : j \in 1..i}
        /\ \A g \in DOMAIN f : f[g] = take[g] /\ f[g] \in Int
    BY <2>1, <2>41
  <2>6. /\ DOMAIN f2 = {from[j] : j \in 1..(i - 1)}
        /\ \A g \in DOMAIN f2 : f2[g] = take[g]
    BY <1>1, <2>2, <2>4
  <2>7. \A j \in 1..(i - 1) : from[j] # x
    BY <1>0, <2>3
  <2>8. x \in DOMAIN f /\ DOMAIN f2 = DOMAIN f \ {x}
    BY <2>3, <2>4, <2>5, <2>6, <2>7
  <2>9. \A y \in DOMAIN f2 : f2[y] = f[y]
    BY <2>5, <2>6, <2>8
  <2>10. SumFunction(f) = f[x] + SumFunction(f2)
    BY <2>5, <2>8, <2>9, SumRemove
  <2>. QED
    BY <2>1, <2>2, <2>3, <2>5, <2>8, <2>10 DEF Given
<1>5. Given(take, from, l) = SumFunction(take)
  <2>1. PICK f : f = Part(take, from, l)
    OBVIOUS
  <2>11. /\ IsFiniteSet(DOMAIN Part(take, from, l))
         /\ DOMAIN Part(take, from, l) = {from[j] : j \in 1..l}
         /\ \A g \in {from[j] : j \in 1..l} :
               Part(take, from, l)[g] = take[g] /\ take[g] \in Nat
    <3>1. l \in 0..l
      OBVIOUS
    <3>. QED
      BY <1>1, <3>1, Zenon
  <2>2. IsFiniteSet(DOMAIN take) /\ DOMAIN f = DOMAIN take
        /\ \A g \in DOMAIN take : f[g] = take[g]
    BY <1>0, <2>1, <2>11
  <2>. QED
    BY <2>1, <2>2, SumSame DEF Given
<1>. QED
  BY <1>2, <1>3, <1>4, <1>5

LEMMA ReduceAll ==
    ASSUME NEW n, Right(mem, n), NEW take, IsFiniteSet(DOMAIN take),
           \A g \in DOMAIN take :
              g \in Guid /\ mem.inventory[g] # None /\ take[g] \in 1..mem.stack[g],
           NEW from, from = SetToSeq(DOMAIN take),
           NEW Q, Q = [i \in 1..Len(from) |-> Reduce(from[i], take[from[i]])],
           NEW m2, m2 = Apply(mem, FlattenSeq(Q))
    PROVE  /\ Q \in Queue /\ Right(m2, n)
           /\ \A i \in 0..Len(Q) :
                 Right(Point(mem, Q, i), n) /\ Units(Point(mem, Q, i)) <= Units(mem)
           /\ Units(m2) = Units(mem) - SumFunction(take)
           /\ \A i \in 0..Len(from) : Reduced(Point(mem, Q, i), from, take, i, n)
           /\ Reduced(m2, from, take, Len(from), n)
           /\ \A g : (\A j \in 1..Len(from) : from[j] # g) <=> g \notin DOMAIN take
<1>0. Sound(mem, n)
  BY DEF Right
<1>1. /\ from \in Seq(DOMAIN take) /\ Len(from) \in Nat
      /\ \A i \in 1..Len(from) : from[i] \in DOMAIN take
      /\ \A i, j \in 1..Len(from) : from[i] = from[j] => i = j
      /\ \A g \in DOMAIN take : \E i \in 1..Len(from) : from[i] = g
  <2>1. PICK D : D = DOMAIN take
    OBVIOUS
  <2>2. /\ from \in Seq(D)
        /\ \A i, j \in 1..Len(from) : from[i] = from[j] => i = j
        /\ \A g \in D : \E i \in 1..Len(from) : from[i] = g
    BY <2>1, ListOfSet
  <2>3. Len(from) \in Nat /\ \A i \in 1..Len(from) : from[i] \in D
    BY <2>2
  <2>4. from \in Seq(DOMAIN take)
    BY <2>1, <2>2, Zenon
  <2>. QED
    BY <2>1, <2>2, <2>3, <2>4, Zenon
<1>20. Units(mem) \in Nat
  BY <1>0, UnitsIs DEF Sound
<1>21. /\ \A i \in 0..Len(from) : Given(take, from, i) \in Nat
       /\ Given(take, from, 0) = 0
       /\ \A i \in 1..Len(from) : Given(take, from, i) =
                                      take[from[i]] + Given(take, from, i - 1)
       /\ Given(take, from, Len(from)) = SumFunction(take)
  <2>1. PICK l \in Nat : l = Len(from)
    BY <1>1
  <2>2. \A g \in DOMAIN take : take[g] \in Nat
    BY <1>0 DEF Sound, Images
  <2>3. \A i \in 1..l : from[i] \in DOMAIN take /\ take[from[i]] \in Nat
    BY <1>1, <2>1, <2>2
  <2>4. \A i, j \in 1..l : from[i] = from[j] => i = j
    BY <1>1, <2>1
  <2>5. \A g \in DOMAIN take : \E j \in 1..l : from[j] = g
    BY <1>1, <2>1, Zenon
  <2>6. Names(take, from, l)
    BY <2>3, <2>4, <2>5 DEF Names
  <2>7. /\ \A i \in 0..l : Given(take, from, i) \in Nat
        /\ Given(take, from, 0) = 0
        /\ \A i \in 1..l : Given(take, from, i) =
                             take[from[i]] + Given(take, from, i - 1)
        /\ Given(take, from, l) = SumFunction(take)
    BY <2>6, Parts
  <2>. QED
    BY <2>1, <2>7
<1>2. Len(Q) = Len(from) /\ \A i \in 1..Len(from) : Q[i] = Reduce(from[i], take[from[i]])
  BY <1>1
<1>3. ASSUME NEW i \in 1..Len(from), NEW im, Reduced(im, from, take, i - 1, n),
             NEW im2, im2 = Apply(im, Q[i])
      PROVE  Reduced(im2, from, take, i, n) /\ Q[i] \in Seq(Statements)
  <2>1. PICK g \in Guid : g = from[i] /\ g \in DOMAIN take
    BY <1>1
  <2>2. PICK k : k = take[g]
    OBVIOUS
  <2>3. \A j \in 1..(i - 1) : from[j] # g /\ j \in 1..Len(from)
    <3>1. \A j \in 1..(i - 1) : j \in 1..Len(from) /\ j # i
      <4>1. Len(from) \in Nat
        BY <1>1
      <4>. QED
        BY <4>1
    <3>. QED
      BY <1>1, <2>1, <3>1, Zenon
  <2>4. im.stack[g] = mem.stack[g] /\ im.inventory[g] = mem.inventory[g]
    BY <1>3, <2>1, <2>3 DEF Reduced
  <2>5. k \in 1..im.stack[g] /\ im.inventory[g] # None /\ Sound(im, n)
    BY <1>3, <2>1, <2>2, <2>4 DEF Reduced
  <2>6. im2 = Apply(im, Reduce(g, k))
    BY <1>2, <1>3, <2>1, <2>2
  <2>7. /\ Sound(im2, n) /\ Reduce(g, k) \in Seq(Statements)
        /\ im2.auctions = im.auctions /\ im2.mailed = im.mailed
        /\ im2.gold = im.gold /\ im2.letters = im.letters /\ im2.till = im.till
        /\ im2.stack = [im.stack EXCEPT ![g] = im.stack[g] - k]
        /\ \A h \in Guid \ {g} : im2.inventory[h] = im.inventory[h]
    BY <2>4, <2>5, <2>6, ReduceOne
  <2>8. DOMAIN im.stack = Guid
    BY <1>3 DEF Reduced
  <2>9. \A h \in Guid : im2.stack[h] = IF h = g THEN im.stack[g] - k ELSE im.stack[h]
    BY <2>7, <2>8
  <2>10. ASSUME NEW h \in Guid, \A j \in 1..i : from[j] # h
         PROVE  im2.stack[h] = mem.stack[h] /\ im2.inventory[h] = mem.inventory[h]
    <3>1. h # g /\ \A j \in 1..(i - 1) : from[j] # h
      <4>1. i \in 1..i /\ \A j \in 1..(i - 1) : j \in 1..i
        BY <1>1
      <4>. QED
        BY <2>1, <2>10, <4>1
    <3>2. im.stack[h] = mem.stack[h] /\ im.inventory[h] = mem.inventory[h]
      BY <1>3, <3>1 DEF Reduced
    <3>. QED
      BY <2>7, <2>9, <3>1, <3>2
  <2>11. ASSUME NEW j \in 1..i
         PROVE  im2.stack[from[j]] = mem.stack[from[j]] - take[from[j]]
    <3>1. CASE j = i
      BY <2>1, <2>2, <2>4, <2>9, <3>1
    <3>2. CASE j # i
      <4>1. j \in 1..(i - 1)
        BY <1>1, <3>2
      <4>2. from[j] \in Guid /\ from[j] # g
        BY <1>1, <2>3, <4>1
      <4>3. im.stack[from[j]] = mem.stack[from[j]] - take[from[j]]
        BY <1>3, <4>1 DEF Reduced
      <4>. QED
        BY <2>9, <4>2, <4>3
    <3>. QED
      BY <3>1, <3>2
  <2>12. DOMAIN im2.stack = Guid
    BY <2>7, <2>8
  <2>13. Units(im2) = Units(im) - k
    BY <2>4, <2>5, <2>6, ReduceUnits
  <2>14. Units(im2) = Units(mem) - Given(take, from, i)
    <3>1. Units(im) = Units(mem) - Given(take, from, i - 1)
      BY <1>3 DEF Reduced
    <3>2. Given(take, from, i) = k + Given(take, from, i - 1)
      BY <1>21, <2>1, <2>2
    <3>3. Given(take, from, i - 1) \in Nat /\ k \in Nat
      <4>1. i - 1 \in 0..Len(from)
        BY <1>1
      <4>2. im.stack[g] \in Nat
        BY <2>5 DEF Sound, Images
      <4>. QED
        BY <1>21, <2>5, <4>1, <4>2
    <3>. QED
      BY <1>20, <2>13, <3>1, <3>2, <3>3
  <2>15. Reduced(im2, from, take, i, n)
    BY <1>3, <2>7, <2>10, <2>11, <2>12, <2>14 DEF Reduced
  <2>. QED
    BY <1>2, <2>1, <2>2, <2>7, <2>15
<1>4. Reduced(mem, from, take, 0, n)
  BY <1>0, <1>20, <1>21 DEF Reduced, Sound, Images
<1>5. \A i \in 1..Len(from) : Q[i] \in Seq(Statements)
  <2>. TAKE i \in 1..Len(from)
  <2>1. from[i] \in Guid
    BY <1>1
  <2>2. Reduce(from[i], take[from[i]]) \in Seq(Statements)
    <3>1. PICK g \in Guid : g = from[i] /\ g \in DOMAIN take
      BY <1>1
    <3>2. PICK k \in 1..mem.stack[g] : k = take[g]
      BY <3>1
    <3>3. mem.inventory[g] # None
      BY <3>1
    <3>4. Reduce(g, k) \in Seq(Statements)
      BY <1>0, <3>3, ReduceOne
    <3>. QED
      BY <3>1, <3>2, <3>4
  <2>. QED
    BY <1>2, <2>2
<1>6. Q \in Queue
  BY <1>1, <1>5 DEF Queue
<1>7. PICK T : T = {i \in Nat : i <= Len(from) => Reduced(Point(mem, Q, i), from, take, i, n)}
  OBVIOUS
<1>8. 0 \in T
  BY <1>4, <1>6, <1>7, Points
<1>9. ASSUME NEW i \in Nat, i \in T PROVE i + 1 \in T
  <2>1. SUFFICES ASSUME i + 1 <= Len(from)
                 PROVE  Reduced(Point(mem, Q, i + 1), from, take, i + 1, n)
    BY <1>7
  <2>2. i + 1 \in 1..Len(from) /\ (i + 1) - 1 = i /\ i <= Len(from)
    BY <1>1, <2>1
  <2>3. Reduced(Point(mem, Q, i), from, take, i, n)
    BY <1>7, <1>9, <2>2
  <2>4. Point(mem, Q, i + 1) = Apply(Point(mem, Q, (i + 1) - 1), Q[i + 1])
    BY <1>2, <1>6, <2>2, Points
  <2>5. PICK j \in 1..Len(from) : j = i + 1 /\ j - 1 = i
    BY <2>2
  <2>. QED
    BY <1>3, <2>2, <2>3, <2>4, <2>5
<1>10. \A i \in Nat : i \in T
  BY <1>8, <1>9, Induction
<1>11. \A i \in 0..Len(from) : Reduced(Point(mem, Q, i), from, take, i, n)
  BY <1>1, <1>7, <1>10
<1>12. ASSUME NEW im, NEW i \in 0..Len(from), Reduced(im, from, take, i, n)
       PROVE  Right(im, n) /\ Units(im) <= Units(mem)
  <2>1. /\ Sound(im, n) /\ im \in Images /\ mem \in Images
        /\ mem.gold = im.gold /\ mem.letters = im.letters
        /\ mem.auctions = im.auctions /\ mem.till = im.till
    BY <1>0, <1>12 DEF Reduced, Sound
  <2>2. Money(im) = Money(mem)
    BY <2>1, SameMoney
  <2>3. Units(im) = Units(mem) - Given(take, from, i)
    BY <1>12 DEF Reduced
  <2>. QED
    BY <1>20, <1>21, <2>1, <2>2, <2>3 DEF Right
<1>13. Reduced(m2, from, take, Len(from), n)
  <2>1. Point(mem, Q, Len(from)) = m2
    BY <1>2, <1>6, Points
  <2>2. Len(from) \in 0..Len(from)
    BY <1>1
  <2>. QED
    BY <1>11, <2>1, <2>2
<1>14. Len(from) \in 0..Len(from)
  BY <1>1
<1>15. Units(m2) = Units(mem) - SumFunction(take)
  BY <1>13, <1>21 DEF Reduced
<1>16. Right(m2, n)
  BY <1>12, <1>13, <1>14
<1>17. \A i \in 0..Len(Q) : Right(Point(mem, Q, i), n) /\ Units(Point(mem, Q, i)) <= Units(mem)
  BY <1>2, <1>11, <1>12
<1>. QED
  BY <1>1, <1>6, <1>11, <1>13, <1>15, <1>16, <1>17

-----------------------------------------------------------------------------
(* Auctions that are over. *)
LEMMA EndOfOne ==
    ASSUME NEW n, Sound(mem, n), items = HouseItems(mem), NEW id \in Live(mem),
           NEW im, Sound(im, n), im.auctions[id] = mem.auctions[id],
           NEW im2, im2 = Apply(im, EndOf(id))
    PROVE  /\ Sound(im2, n) /\ EndOf(id) \in Seq(Statements)
           /\ im2.auctions = [im.auctions EXCEPT ![id] = None]
           /\ Live(im2) = Live(im) \ {id}
           /\ HouseItems(im2) = HouseItems(im) \ {mem.auctions[id].item}
           /\ Money(im2) = Money(im) /\ Units(im2) = Units(im)
<1>1. PICK a \in AuctionEntry : a = mem.auctions[id]
  BY LiveIs DEF Sound
<1>2. /\ a.item \in Guid /\ a.owner \in Player /\ a.bidder \in Player \cup {None}
      /\ id \in AuctionId /\ mem \in Images /\ im \in Images /\ a # None
  BY ConstantsAssumption, LiveIs DEF AuctionEntry, Sound
<1>3. a.item \in items /\ id \in Live(im) /\ im.auctions[id] = a
  BY <1>1, <1>2, LiveIs
<1>4. \A p : ParcelOf(p, a.item) = <<Parcel(p, a.item)>>
  BY <1>3 DEF ParcelOf
<1>5. CASE a.bidder = None
  <2>1. EndOf(id) = <<Parcel(a.owner, a.item)>> \o <<DeleteAuction(id)>>
    BY <1>1, <1>4, <1>5 DEF EndOf, SendAuctionExpiredMail
  <2>2. PICK im3 : im3 = Apply(Apply(im, <<Parcel(a.owner, a.item)>>), <<DeleteAuction(id)>>)
    OBVIOUS
  <2>3. /\ Sound(im3, n) /\ im3.auctions = [im.auctions EXCEPT ![id] = None]
        /\ Live(im3) = Live(im) \ {id} /\ HouseItems(im3) = HouseItems(im) \ {a.item}
        /\ <<Parcel(a.owner, a.item)>> \in Seq(Statements)
        /\ <<DeleteAuction(id)>> \in Seq(Statements)
        /\ Money(im3) = Money(im) - Lead(im.auctions[id])
        /\ Units(im3) = Units(im)
    BY <1>2, <1>3, <2>2, EndAuction
  <2>4. im2 = im3
    <3>1. PICK s \in Seq(Statements) : s = <<Parcel(a.owner, a.item)>>
      BY <2>3
    <3>2. PICK t \in Seq(Statements) : t = <<DeleteAuction(id)>>
      BY <2>3
    <3>3. Apply(im, s \o t) = Apply(Apply(im, s), t)
      BY ApplyConcat
    <3>. QED
      BY <2>1, <2>2, <3>1, <3>2, <3>3, Zenon
  <2>5. EndOf(id) \in Seq(Statements)
    BY <2>1, <2>3, ConcatProperties
  <2>6. Lead(im.auctions[id]) = 0 /\ Money(im) \in Int
    BY <1>2, <1>3, <1>5, MoneyIs DEF Lead
  <2>. QED
    BY <1>1, <2>3, <2>4, <2>5, <2>6
<1>6. CASE a.bidder # None
  <2>1. EndOf(id) = (SendAuctionSuccessfulMail(a) \o <<Parcel(a.bidder, a.item)>>)
                      \o <<DeleteAuction(id)>>
    BY <1>1, <1>4, <1>6 DEF EndOf, SendAuctionWonMail
  <2>2. Gift(SendAuctionSuccessfulMail(a), a.bid)
    BY <1>1, <1>6, SuccessIsGift DEF Sound
  <2>3. PICK im1 : im1 = Apply(im, SendAuctionSuccessfulMail(a))
    OBVIOUS
  <2>4. /\ im1 \in Images /\ SameItems(im, im1)
        /\ SendAuctionSuccessfulMail(a) \in Seq(Statements)
        /\ Money(im1) = Money(im) + a.bid
    BY <1>2, <2>2, <2>3 DEF Gift
  <2>5. Sound(im1, n) /\ Live(im1) = Live(im) /\ HouseItems(im1) = HouseItems(im)
        /\ im1.auctions = im.auctions
    BY <1>2, <2>4, SameItemsSound DEF SameItems
  <2>6. PICK im3 : im3 = Apply(Apply(im1, <<Parcel(a.bidder, a.item)>>), <<DeleteAuction(id)>>)
    OBVIOUS
  <2>7. /\ Sound(im3, n) /\ im3.auctions = [im1.auctions EXCEPT ![id] = None]
        /\ Live(im3) = Live(im1) \ {id} /\ HouseItems(im3) = HouseItems(im1) \ {a.item}
        /\ <<Parcel(a.bidder, a.item)>> \in Seq(Statements)
        /\ <<DeleteAuction(id)>> \in Seq(Statements)
        /\ Money(im3) = Money(im1) - Lead(im1.auctions[id])
        /\ Units(im3) = Units(im1)
    BY <1>2, <1>3, <1>6, <2>5, <2>6, EndAuction
  <2>8. SendAuctionSuccessfulMail(a) \o <<Parcel(a.bidder, a.item)>> \in Seq(Statements)
    BY <2>4, <2>7, ConcatProperties
  <2>9. im2 = im3
    <3>1. PICK s \in Seq(Statements) : s = <<Parcel(a.bidder, a.item)>>
      BY <2>7
    <3>2. PICK t \in Seq(Statements) : t = <<DeleteAuction(id)>>
      BY <2>7
    <3>3. PICK u \in Seq(Statements) : u = SendAuctionSuccessfulMail(a)
      BY <2>4
    <3>4. Apply(im, (u \o s) \o t) = Apply(Apply(Apply(im, u), s), t)
      BY ApplyParts
    <3>. QED
      BY <2>1, <2>3, <2>6, <3>1, <3>2, <3>3, <3>4, Zenon
  <2>10. EndOf(id) \in Seq(Statements)
    BY <2>1, <2>7, <2>8, ConcatProperties
  <2>11. Lead(im1.auctions[id]) = a.bid /\ Money(im) \in Int /\ a.bid \in Int
    BY <1>2, <1>3, <1>6, <2>5, MoneyIs DEF Lead, AuctionEntry
  <2>12. Money(im2) = Money(im)
    BY <2>4, <2>7, <2>9, <2>11
  <2>13. Units(im2) = Units(im)
    BY <2>4, <2>7, <2>9, UnitsSame DEF SameItems
  <2>. QED
    BY <1>1, <2>5, <2>7, <2>9, <2>10, <2>12, <2>13
<1>. QED
  BY <1>5, <1>6

(* The first i of the auctions ids have ended. *)
Ended(im, ids, i, n) ==
    /\ Sound(im, n) /\ Money(im) = Money(mem) /\ Units(im) = Units(mem)
    /\ \A id \in AuctionId : im.auctions[id] =
          IF \E j \in 1..i : ids[j] = id THEN None ELSE mem.auctions[id]
    /\ HouseItems(im) = HouseItems(mem) \ {mem.auctions[ids[j]].item : j \in 1..i}

LEMMA EndAll ==
    ASSUME NEW n, Sound(mem, n), items = HouseItems(mem),
           NEW over, over \subseteq Live(mem), NEW ids, ids = SetToSeq(over),
           NEW Q, Q = [i \in 1..Len(ids) |-> EndOf(ids[i])],
           NEW m2, m2 = Apply(mem, FlattenSeq(Q))
    PROVE  /\ Sound(m2, n) /\ FlattenSeq(Q) \in Seq(Statements) /\ Q \in Queue
           /\ \A i \in 0..Len(ids) : Ended(Point(mem, Q, i), ids, i, n)
           /\ HouseItems(m2) = items \ {mem.auctions[id].item : id \in over}
           /\ Money(m2) = Money(mem) /\ Units(m2) = Units(mem)
<1>0. IsFiniteSet(over)
  <2>1. over \subseteq 1..MaxAuctions /\ MaxAuctions \in Nat
    BY ConstantsAssumption DEF Live, AuctionId
  <2>2. IsFiniteSet(1..MaxAuctions)
    BY <2>1, FS_Interval
  <2>. QED
    BY <2>1, <2>2, FS_Subset
<1>1. /\ Len(ids) \in Nat
      /\ \A i \in 1..Len(ids) : ids[i] \in over
      /\ \A i, j \in 1..Len(ids) : ids[i] = ids[j] => i = j
      /\ \A g \in over : \E i \in 1..Len(ids) : ids[i] = g
  <2>1. /\ ids \in Seq(over)
        /\ \A i, j \in 1..Len(ids) : ids[i] = ids[j] => i = j
        /\ \A g \in over : \E i \in 1..Len(ids) : ids[i] = g
    BY <1>0, ListOfSet
  <2>. QED
    BY <2>1
<1>2. Len(Q) = Len(ids) /\ \A i \in 1..Len(ids) : Q[i] = EndOf(ids[i])
  BY <1>1
<1>3. ASSUME NEW i \in 1..Len(ids), NEW im, Ended(im, ids, i - 1, n),
             NEW im2, im2 = Apply(im, Q[i])
      PROVE  Ended(im2, ids, i, n) /\ Q[i] \in Seq(Statements)
  <2>1. PICK id \in Live(mem) : id = ids[i]
    BY <1>1
  <2>2. \A j \in 1..(i - 1) : ids[j] # id /\ j \in 1..Len(ids)
    BY <1>1, <2>1
  <2>3. id \in AuctionId /\ im \in Images
    BY <1>3, LiveIs DEF Sound, Ended
  <2>4. im.auctions[id] = mem.auctions[id] /\ Sound(im, n)
    BY <1>3, <2>2, <2>3 DEF Ended
  <2>5. im2 = Apply(im, EndOf(id))
    BY <1>2, <1>3, <2>1
  <2>6. /\ Sound(im2, n) /\ EndOf(id) \in Seq(Statements)
        /\ im2.auctions = [im.auctions EXCEPT ![id] = None]
        /\ HouseItems(im2) = HouseItems(im) \ {mem.auctions[id].item}
        /\ Money(im2) = Money(im) /\ Units(im2) = Units(im)
    BY <2>4, <2>5, EndOfOne
  <2>7. \A k \in AuctionId : im2.auctions[k] = IF k = id THEN None ELSE im.auctions[k]
    BY <2>3, <2>6 DEF Images
  <2>8. i \in 1..i /\ \A j : j \in 1..i <=> (j \in 1..(i - 1) \/ j = i)
    BY <1>1
  <2>9. ASSUME NEW k \in AuctionId
        PROVE  im2.auctions[k] = IF \E j \in 1..i : ids[j] = k THEN None ELSE mem.auctions[k]
    <3>1. im.auctions[k] = IF \E j \in 1..(i - 1) : ids[j] = k THEN None ELSE mem.auctions[k]
      BY <1>3 DEF Ended
    <3>. QED
      BY <2>1, <2>7, <2>8, <3>1
  <2>10. HouseItems(im2) = HouseItems(mem) \ {mem.auctions[ids[j]].item : j \in 1..i}
    <3>1. HouseItems(im) = HouseItems(mem) \ {mem.auctions[ids[j]].item : j \in 1..(i - 1)}
      BY <1>3 DEF Ended
    <3>2. {mem.auctions[ids[j]].item : j \in 1..i} =
             {mem.auctions[ids[j]].item : j \in 1..(i - 1)} \cup {mem.auctions[ids[i]].item}
      BY <2>8
    <3>. QED
      BY <2>1, <2>6, <3>1, <3>2
  <2>11. Ended(im2, ids, i, n)
    BY <1>3, <2>6, <2>9, <2>10 DEF Ended
  <2>. QED
    BY <1>2, <2>1, <2>6, <2>11
<1>4. Ended(mem, ids, 0, n)
  BY DEF Ended
<1>5. \A i \in 1..Len(ids) : Q[i] \in Seq(Statements)
  <2>. TAKE i \in 1..Len(ids)
  <2>1. PICK id \in Live(mem) : id = ids[i]
    BY <1>1
  <2>2. EndOf(id) \in Seq(Statements)
    BY EndOfOne
  <2>. QED
    BY <1>2, <2>1, <2>2
<1>6. Q \in Queue
  BY <1>1, <1>5 DEF Queue
<1>7. PICK T : T = {i \in Nat : i <= Len(ids) => Ended(Point(mem, Q, i), ids, i, n)}
  OBVIOUS
<1>8. 0 \in T
  BY <1>4, <1>6, <1>7, Points
<1>9. ASSUME NEW i \in Nat, i \in T PROVE i + 1 \in T
  <2>1. SUFFICES ASSUME i + 1 <= Len(ids)
                 PROVE  Ended(Point(mem, Q, i + 1), ids, i + 1, n)
    BY <1>7
  <2>2. i + 1 \in 1..Len(ids) /\ (i + 1) - 1 = i /\ i <= Len(ids)
    BY <1>1, <2>1
  <2>3. Ended(Point(mem, Q, i), ids, i, n)
    BY <1>7, <1>9, <2>2
  <2>4. Point(mem, Q, i + 1) = Apply(Point(mem, Q, (i + 1) - 1), Q[i + 1])
    BY <1>2, <1>6, <2>2, Points
  <2>5. PICK j \in 1..Len(ids) : j = i + 1 /\ j - 1 = i
    BY <2>2
  <2>. QED
    BY <1>3, <2>2, <2>3, <2>4, <2>5
<1>10. \A i \in Nat : i \in T
  BY <1>8, <1>9, Induction
<1>11. \A i \in 0..Len(ids) : Ended(Point(mem, Q, i), ids, i, n)
  BY <1>1, <1>7, <1>10
<1>12. Ended(m2, ids, Len(ids), n)
  <2>1. Point(mem, Q, Len(ids)) = m2
    BY <1>2, <1>6, Points
  <2>2. Len(ids) \in 0..Len(ids)
    BY <1>1
  <2>. QED
    BY <1>11, <2>1, <2>2
<1>13. {mem.auctions[ids[j]].item : j \in 1..Len(ids)} = {mem.auctions[id].item : id \in over}
  BY <1>1
<1>. QED
  BY <1>6, <1>11, <1>12, <1>13, Points DEF Ended
-----------------------------------------------------------------------------
(* The inductive invariant, while operations do not overlap: at most one   *)
(* thread t is busy, and when everything queued has been carried out the   *)
(* database is the memory, or, while a sale is being entered, the memory   *)
(* with the new auction.                                                   *)

SaleOf(j) ==
    /\ j.player \in Player /\ j.offer \in Offers
    /\ IsFiniteSet(DOMAIN j.take) /\ DOMAIN j.take # {}
    /\ \A g \in DOMAIN j.take :
          g \in Guid /\ mem.inventory[g] = j.player /\ j.take[g] \in 1..mem.stack[g]
    /\ SumFunction(j.take) <= MaxStack

Stage(t, saved) ==
    /\ job[t].step \in {"idle", "sell", "list", "item", "add", "bid", "cancel"}
    /\ job[t].step \notin {"item", "add"} => saved = mem /\ items = HouseItems(mem)
    /\ job[t].step = "bid" => job[t].player \in Player /\ job[t].price \in Prices
    /\ job[t].step \in {"sell", "list"} => SaleOf(job[t])
    /\ job[t].step = "list" => /\ job[t].id = nextId /\ nextId \in AuctionId
                               /\ mem.gold[job[t].player] >= Deposit
    /\ job[t].step \in {"item", "add"} =>
          /\ job[t].id \in AuctionId \ Live(mem) /\ job[t].auction \in AuctionEntry
          /\ job[t].auction.bidder = None
          /\ saved = [mem EXCEPT !.auctions =
                         [mem.auctions EXCEPT ![job[t].id] = job[t].auction]]
    /\ job[t].step = "item" =>
          /\ job[t] = [step |-> "item", id |-> job[t].id, auction |-> job[t].auction]
          /\ items = HouseItems(mem) /\ job[t].auction.item \notin items
    /\ job[t].step = "add" => items = HouseItems(saved)

OnlyBusy(t) == \A u \in Thread \ {t} : job[u] = Idle

Busy(t, saved) ==
    OnlyBusy(t) /\ Stage(t, saved) /\ Saves(db, pending, saved, nextId)

Typed ==
    /\ mem \in Images /\ pending \in Queue /\ DOMAIN job = Thread
    /\ nextId \in 1..MaxAuctions + 1 /\ due \subseteq AuctionId
    /\ restarts \in 0..MaxRestarts

IInv == Typed /\ \E t \in Thread : \E saved : Busy(t, saved)

(* What holds when nobody is entering a sale. *)
Calm ==
    /\ Right(mem, nextId) /\ items = HouseItems(mem)
    /\ Saves(db, pending, mem, nextId)

LEMMA CalmIs ==
    IInv => \A w \in Thread : job[w].step \notin {"idle", "item", "add"} =>
                                  Calm /\ OnlyBusy(w) /\ Stage(w, mem)
<1>. SUFFICES ASSUME IInv, NEW w \in Thread, job[w].step \notin {"idle", "item", "add"}
              PROVE  Calm /\ OnlyBusy(w) /\ Stage(w, mem)
  OBVIOUS
<1>1. PICK t, saved : t \in Thread /\ Busy(t, saved)
  BY DEF IInv
<1>2. t = w
  BY <1>1 DEF Busy, OnlyBusy, Idle
<1>3. saved = mem /\ items = HouseItems(mem)
  BY <1>1, <1>2 DEF Busy, Stage
<1>4. Right(mem, nextId)
  BY <1>1, <1>3, SavesSound DEF Busy, IInv, Typed
<1>. QED
  BY <1>1, <1>2, <1>3, <1>4 DEF Busy, Calm

LEMMA FreeIs ==
    IInv /\ ~Overlap => \A w \in Thread : Free(w) => Calm /\ Quiet
<1>. SUFFICES ASSUME IInv, ~Overlap, NEW w \in Thread, Free(w) PROVE Calm /\ Quiet
  OBVIOUS
<1>1. PICK t, saved : t \in Thread /\ Busy(t, saved)
  BY DEF IInv
<1>2. job[t].step = "idle" /\ Quiet
  BY <1>1 DEF Free, Idle, Quiet
<1>3. saved = mem /\ items = HouseItems(mem)
  BY <1>1, <1>2 DEF Busy, Stage
<1>4. Right(mem, nextId)
  BY <1>1, <1>3, SavesSound DEF Busy, IInv, Typed
<1>. QED
  BY <1>1, <1>2, <1>3, <1>4 DEF Busy, Calm

LEMMA SoundNat == IInv => nextId \in Nat
BY ConstantsAssumption DEF IInv, Typed

-----------------------------------------------------------------------------
LEMMA InitIsSound == Init => IInv
<1>. SUFFICES ASSUME Init PROVE IInv
  OBVIOUS
<1>1. EmptyBag \in LetterBag
  <2>1. EmptyBag = [e \in {} |-> 1] /\ DOMAIN EmptyBag = {}
    BY DEF EmptyBag, SetToBag
  <2>2. EmptyBag \in [{} -> Nat \ {0}]
    BY <2>1
  <2>. QED
    BY <2>1, <2>2, FS_EmptySet, LetterBagIs
<1>2. mem \in Images
  <2>1. [p \in Player |-> EmptyBag] \in [Player -> LetterBag]
    BY <1>1
  <2>2. [g \in Guid |-> IF g \in Item THEN Holder[g] ELSE None] \in [Guid -> Player \cup {None}]
    BY ConstantsAssumption DEF Guid
  <2>3. [g \in Guid |-> IF g \in Item THEN Stack[g] ELSE 0] \in [Guid -> 0..MaxStack]
    BY ConstantsAssumption DEF Guid
  <2>. QED
    BY <2>1, <2>2, <2>3, ConstantsAssumption DEF Init, Images
<1>3. Live(mem) = {} /\ HouseItems(mem) = {}
  BY DEF Init, Live, HouseItems
<1>4. Sound(mem, 1)
  <2>1. \A g \in Guid : /\ mem.inventory[g] = IF g \in Item THEN Holder[g] ELSE None
                        /\ mem.mailed[g] = None
                        /\ mem.stack[g] = IF g \in Item THEN Stack[g] ELSE 0
    BY DEF Init
  <2>2. \A g \in Item : Holder[g] \in Player /\ Holder[g] # None /\ Stack[g] > 0
    BY ConstantsAssumption
  <2>3. Placed(mem)
    BY <1>3, <2>1, <2>2 DEF Placed
  <2>. QED
    BY <1>2, <1>3, <2>3 DEF Sound
<1>41. Right(mem, 1)
  <2>1. \A p \in Player : /\ mem.gold[p] = Purse[p] /\ mem.letters[p] = EmptyBag
                         /\ Purse[p] \in Nat
    BY ConstantsAssumption DEF Init
  <2>2. DOMAIN EmptyBag = {}
    BY DEF EmptyBag, SetToBag
  <2>3. ASSUME NEW p \in Player PROVE Wealth(mem, p) = Purse[p]
    <3>1. LetterMoney(mem, p) = 0
      <4>1. LetterMoney(mem, p) = SumFunction(LetterTable(mem, p))
        BY DEF LetterMoney, LetterTable
      <4>2. DOMAIN LetterTable(mem, p) = {}
        BY <2>1, <2>2 DEF LetterTable
      <4>. QED
        BY <4>1, <4>2, SumEmpty
    <3>2. SumFunction(BidTable(mem, p)) = 0
      <4>1. DOMAIN BidTable(mem, p) = {}
        BY <1>3 DEF BidTable, BidsOf
      <4>. QED
        BY <4>1, SumEmpty
    <3>3. Wealth(mem, p) = mem.gold[p] + LetterMoney(mem, p) + SumFunction(BidTable(mem, p))
      BY <1>2, WealthIs
    <3>. QED
      BY <2>1, <3>1, <3>2, <3>3
  <2>4. WealthTable(mem) = Purse
    BY <2>3, ConstantsAssumption DEF WealthTable
  <2>5. mem.till = 0
    BY DEF Init
  <2>6. Money(mem) = mem.till + SumFunction(WealthTable(mem)) /\ Money(mem) \in Int
        /\ SumFunction(WealthTable(mem)) \in Int
    BY <1>2, MoneyIs
  <2>7. Money(mem) = SumFunction(Purse)
    BY <2>4, <2>5, <2>6
  <2>. QED
    BY <1>4, <2>7 DEF Right
<1>5. Saves(db, pending, mem, nextId)
  <2>1. Saves(mem, <<>>, mem, 1)
    BY <1>41, ChainNothing
  <2>. QED
    BY <2>1 DEF Init
<1>6. Typed
  BY <1>2, ConstantsAssumption DEF Typed, Init, Queue
<1>7. Busy(World, mem)
  BY <1>3, <1>5 DEF Busy, OnlyBusy, Stage, Init, Idle, Thread
<1>. QED
  BY <1>6, <1>7 DEF IInv, Thread

(* A restart. *)
LEMMA ReloadSound == IInv /\ Reload => IInv'
<1>. SUFFICES ASSUME IInv, Reload PROVE IInv'
  OBVIOUS
<1>1. PICK t, saved : t \in Thread /\ Busy(t, saved)
  BY DEF IInv
<1>2. Sound(db, nextId) /\ Right(db, nextId)
  BY <1>1, SavesSound DEF Busy, IInv, Typed
<1>3. db \in Images /\ Load(db) = db
  BY <1>2, LoadAll DEF Sound
<1>4. mem' = db /\ db' = db /\ pending' = <<>> /\ items' = HouseItems(mem')
  BY <1>3 DEF Reload
<1>5. PICK n : n = Max(Live(db) \cup {0})
  OBVIOUS
<1>6. n \in 0..MaxAuctions /\ \A id \in Live(db) : n >= id
  <2>1. Live(db) \cup {0} \in SUBSET (0..MaxAuctions) /\ MaxAuctions \in Nat
    BY ConstantsAssumption DEF Live, AuctionId
  <2>2. Max(Live(db) \cup {0}) \in Live(db) \cup {0}
        /\ \A y \in Live(db) \cup {0} : Max(Live(db) \cup {0}) >= y
    BY <2>1, MaxIsIn
  <2>. QED
    BY <1>5, <2>1, <2>2
<1>7. Sound(db, n + 1) /\ n + 1 \in 1..MaxAuctions + 1 /\ nextId' = n + 1
  <2>1. \A id \in Live(db) : id \in Nat /\ n >= id /\ n \in Nat
    BY <1>6 DEF Live, AuctionId
  <2>2. \A id \in Live(db) : id < n + 1
    BY <2>1
  <2>3. n + 1 \in 1..MaxAuctions + 1
    BY <1>6, ConstantsAssumption
  <2>. QED
    BY <1>2, <1>5, <2>2, <2>3 DEF Sound, Reload
<1>8. Saves(db', pending', mem', nextId')
  <2>1. Right(db, n + 1)
    BY <1>2, <1>7 DEF Right
  <2>. QED
    BY <1>4, <1>7, <2>1, ChainNothing
<1>9. Typed'
  <2>1. <<>> \in Queue
    BY EmptySeq DEF Queue
  <2>2. DOMAIN job' = Thread
    BY DEF Reload
  <2>3. restarts' \in 0..MaxRestarts
    BY ConstantsAssumption DEF Reload, IInv, Typed
  <2>. QED
    BY <1>3, <1>4, <1>7, <2>1, <2>2, <2>3 DEF Typed, Reload, IInv
<1>10. \A u \in Thread : job'[u] = Idle
  BY DEF Reload
<1>11. PICK m : m = mem'
  OBVIOUS
<1>12. Busy(World, m)'
  <2>1. OnlyBusy(World)'
    BY <1>10 DEF OnlyBusy
  <2>2. job'[World].step = "idle"
    BY <1>10 DEF Idle, Thread
  <2>. QED
    BY <1>4, <1>8, <1>11, <2>1, <2>2 DEF Busy, Stage
<1>. QED
  BY <1>9, <1>12 DEF IInv, Thread
-----------------------------------------------------------------------------
(* The steps.  A step that commits a transaction and ends its operation    *)
(* leaves everything calm; so does one that only changes its job.          *)
LEMMA Commits ==
    ASSUME IInv, Calm, NEW tx \in Seq(Statements), NEW m, m = Apply(mem, tx),
           Sound(m, nextId), Money(m) = Money(mem), Units(m) = Units(mem), mem' = m,
           pending' = Append(pending, tx),
           items' = HouseItems(m), UNCHANGED <<db, nextId, due, restarts>>,
           DOMAIN job' = Thread, \A u \in Thread : job'[u] = Idle
    PROVE  IInv'
<1>1. nextId \in Nat /\ nextId <= nextId
  BY SoundNat
<1>2. Saves(db, Append(pending, tx), m, nextId) /\ Append(pending, tx) \in Queue
  <2>1. Right(mem, nextId) /\ Saves(db, pending, mem, nextId)
    BY DEF Calm
  <2>2. Right(m, nextId)
    BY <2>1 DEF Right
  <2>. QED
    BY <1>1, <2>1, <2>2, SavesNext DEF IInv, Typed
<1>3. Typed'
  BY <1>2 DEF IInv, Typed, Sound
<1>4. Busy(World, m)'
  <2>1. OnlyBusy(World)'
    BY DEF OnlyBusy
  <2>2. job'[World].step = "idle"
    BY DEF Idle, Thread
  <2>3. Stage(World, m)'
    BY <2>2 DEF Stage
  <2>. QED
    BY <1>2, <2>1, <2>3 DEF Busy
<1>. QED
  BY <1>3, <1>4 DEF IInv, Thread

LEMMA OnlyJob ==
    ASSUME IInv, Calm, UNCHANGED <<mem, items, db, pending, nextId, due, restarts>>,
           NEW t \in Thread, NEW m, m = mem, Stage(t, m)',
           DOMAIN job' = Thread, \A u \in Thread \ {t} : job'[u] = Idle
    PROVE  IInv'
<1>1. Typed'
  BY DEF IInv, Typed
<1>2. Busy(t, m)'
  BY DEF Busy, OnlyBusy, Calm
<1>. QED
  BY <1>1, <1>2 DEF IInv

LEMMA OnlyIdle ==
    ASSUME IInv, Calm, UNCHANGED <<mem, items, db, pending, nextId, due, restarts>>,
           DOMAIN job' = Thread, \A u \in Thread : job'[u] = Idle
    PROVE  IInv'
<1>1. PICK m : m = mem
  OBVIOUS
<1>2. Stage(World, m)'
  BY <1>1 DEF Stage, Idle, Thread, Calm
<1>. QED
  BY <1>1, <1>2, OnlyJob DEF Thread

LEMMA JobIs ==
    IInv => DOMAIN job = Thread
BY DEF IInv, Typed

LEMMA SellItemSound ==
    ASSUME IInv, ~Overlap, NEW w \in Worker, NEW p \in Player, NEW take \in Takes(p),
           NEW offer \in Offers, SellItem(w, p, take, offer)
    PROVE  IInv'
<1>1. Calm /\ Quiet /\ w \in Thread
  BY FreeIs DEF SellItem, Thread
<1>2. PICK j : j = [step |-> "sell", player |-> p, take |-> take, offer |-> offer]
  OBVIOUS
<1>3. job' = [job EXCEPT ![w] = j]
  BY <1>2 DEF SellItem, Begin
<1>4. DOMAIN job' = Thread /\ job'[w] = j /\ \A u \in Thread \ {w} : job'[u] = Idle
  BY <1>1, <1>3, JobIs DEF Quiet
<1>5. PICK S \in (SUBSET {g \in Guid : mem.inventory[g] = p}) \ {{}} : take \in [S -> 1..MaxStack]
  BY DEF Takes
<1>6. DOMAIN take = S /\ IsFiniteSet(S) /\ S # {}
  <2>1. S \in SUBSET Guid /\ IsFiniteSet(Guid)
    BY ConstantsAssumption
  <2>2. IsFiniteSet(S)
    BY <2>1, FS_Subset
  <2>3. DOMAIN take = S
    BY <1>5
  <2>4. S # {}
    BY <1>5
  <2>. QED
    BY <2>2, <2>3, <2>4
<1>7. SaleOf(j)
  BY <1>2, <1>5, <1>6 DEF SaleOf, SellItem
<1>8. UNCHANGED <<mem, items, db, pending, nextId, due, restarts>>
  BY DEF SellItem
<1>9. PICK m : m = mem
  OBVIOUS
<1>10. Stage(w, m)'
  <2>1. SaleOf(j)'
    BY <1>7, <1>8 DEF SaleOf
  <2>. QED
    BY <1>1, <1>2, <1>4, <1>8, <1>9, <2>1 DEF Stage, Calm
<1>. QED
  BY <1>1, <1>4, <1>8, <1>9, <1>10, OnlyJob

LEMMA ReadAuctionIdSound ==
    ASSUME IInv, ~Overlap, NEW w \in Worker, ReadAuctionId(w)
    PROVE  IInv'
<1>1. Calm /\ OnlyBusy(w) /\ Stage(w, mem) /\ w \in Thread /\ job[w].step = "sell"
  BY CalmIs DEF ReadAuctionId, Thread
<1>2. UNCHANGED <<mem, items, db, pending, nextId, due, restarts>>
  BY DEF ReadAuctionId
<1>3. CASE mem.gold[job[w].player] >= Deposit
  <2>1. PICK j : j = [step |-> "list", player |-> job[w].player, take |-> job[w].take,
                      offer |-> job[w].offer, id |-> nextId]
    OBVIOUS
  <2>2. job' = [job EXCEPT ![w] = j]
    BY <1>3, <2>1 DEF ReadAuctionId, Begin
  <2>3. DOMAIN job' = Thread /\ job'[w] = j /\ \A u \in Thread \ {w} : job'[u] = Idle
    BY <1>1, <2>2, JobIs DEF OnlyBusy
  <2>4. SaleOf(job[w])
    BY <1>1 DEF Stage
  <2>5. SaleOf(j)'
    BY <1>2, <2>1, <2>4 DEF SaleOf
  <2>6. PICK m : m = mem
    OBVIOUS
  <2>7. j.step = "list" /\ j.id = nextId /\ nextId \in AuctionId /\ mem.gold[j.player] >= Deposit
    BY <1>3, <2>1 DEF ReadAuctionId
  <2>8. Stage(w, m)'
    BY <1>1, <1>2, <2>3, <2>5, <2>6, <2>7 DEF Stage, Calm
  <2>. QED
    BY <1>1, <1>2, <2>3, <2>6, <2>8, OnlyJob
<1>4. CASE ~(mem.gold[job[w].player] >= Deposit)
  <2>1. job' = [job EXCEPT ![w] = Idle]
    BY <1>4 DEF ReadAuctionId, Done
  <2>2. DOMAIN job' = Thread /\ \A u \in Thread : job'[u] = Idle
    BY <1>1, <2>1, JobIs DEF OnlyBusy
  <2>. QED
    BY <1>1, <1>2, <2>2, OnlyIdle
<1>. QED
  BY <1>3, <1>4

LEMMA PlaceBidSound ==
    ASSUME IInv, ~Overlap, NEW w \in Worker, NEW p \in Player, NEW id \in AuctionId,
           NEW price \in Prices, PlaceBid(w, p, id, price)
    PROVE  IInv'
<1>1. Calm /\ Quiet /\ w \in Thread
  BY FreeIs DEF PlaceBid, Thread
<1>2. PICK j : j = [step |-> "bid", player |-> p, id |-> id, price |-> price]
  OBVIOUS
<1>3. job' = [job EXCEPT ![w] = j]
  BY <1>2 DEF PlaceBid, Begin
<1>4. DOMAIN job' = Thread /\ job'[w] = j /\ \A u \in Thread \ {w} : job'[u] = Idle
  BY <1>1, <1>3, JobIs DEF Quiet
<1>5. UNCHANGED <<mem, items, db, pending, nextId, due, restarts>>
  BY DEF PlaceBid
<1>6. PICK m : m = mem
  OBVIOUS
<1>7. Stage(w, m)'
  BY <1>1, <1>2, <1>4, <1>5, <1>6 DEF Stage, Calm
<1>. QED
  BY <1>1, <1>4, <1>5, <1>6, <1>7, OnlyJob

LEMMA CancelAuctionSound ==
    ASSUME IInv, ~Overlap, NEW p \in Player, NEW id \in AuctionId, CancelAuction(p, id)
    PROVE  IInv'
<1>1. Calm /\ Quiet /\ World \in Thread
  BY FreeIs DEF CancelAuction, Thread
<1>2. PICK j : j = [step |-> "cancel", player |-> p, id |-> id]
  OBVIOUS
<1>3. job' = [job EXCEPT ![World] = j]
  BY <1>2 DEF CancelAuction, Begin
<1>4. DOMAIN job' = Thread /\ job'[World] = j /\ \A u \in Thread \ {World} : job'[u] = Idle
  BY <1>1, <1>3, JobIs DEF Quiet
<1>5. UNCHANGED <<mem, items, db, pending, nextId, due, restarts>>
  BY DEF CancelAuction
<1>6. PICK m : m = mem
  OBVIOUS
<1>7. Stage(World, m)'
  BY <1>1, <1>2, <1>4, <1>5, <1>6 DEF Stage, Calm
<1>. QED
  BY <1>1, <1>4, <1>5, <1>6, <1>7, OnlyJob

LEMMA ExpireSound ==
    ASSUME IInv, NEW id \in AuctionId, Expire(id)
    PROVE  IInv'
<1>1. UNCHANGED <<mem, items, db, pending, job, nextId, restarts>> /\ due' = due \cup {id}
  BY DEF Expire
<1>2. PICK t, saved : t \in Thread /\ Busy(t, saved)
  BY DEF IInv
<1>3. Busy(t, saved)'
  BY <1>1, <1>2 DEF Busy, OnlyBusy, Stage, SaleOf
<1>4. Typed'
  BY <1>1 DEF IInv, Typed
<1>. QED
  BY <1>2, <1>3, <1>4 DEF IInv

LEMMA ExecuteSound ==
    ASSUME IInv, ExecuteTransaction
    PROVE  IInv'
<1>1. UNCHANGED <<mem, items, job, nextId, due, restarts>>
  BY DEF ExecuteTransaction
<1>2. PICK t, saved : t \in Thread /\ Busy(t, saved)
  BY DEF IInv
<1>3. pending \in Queue /\ pending # <<>> /\ Saves(db, pending, saved, nextId)
  BY <1>2 DEF IInv, Typed, Busy, ExecuteTransaction
<1>4. Saves(db', pending', saved, nextId) /\ pending' \in Queue
  BY <1>3, SavesRest DEF ExecuteTransaction
<1>5. Busy(t, saved)'
  BY <1>1, <1>2, <1>4 DEF Busy, OnlyBusy, Stage, SaleOf
<1>6. Typed'
  BY <1>1, <1>4 DEF IInv, Typed
<1>. QED
  BY <1>2, <1>5, <1>6 DEF IInv

LEMMA StutterSound == IInv /\ UNCHANGED vars => IInv'
<1>. SUFFICES ASSUME IInv, UNCHANGED vars PROVE IInv'
  OBVIOUS
<1>1. PICK t, saved : t \in Thread /\ Busy(t, saved)
  BY DEF IInv
<1>2. Busy(t, saved)'
  BY <1>1 DEF vars, Busy, OnlyBusy, Stage, SaleOf
<1>3. Typed'
  BY DEF vars, IInv, Typed
<1>. QED
  BY <1>1, <1>2, <1>3 DEF IInv

(* A sale is entered: what Listed does with a sound row of transactions.   *)
LEMMA ListedSound ==
    ASSUME IInv, Calm, NEW w \in Worker, NEW g, NEW txs \in Queue, Listed(w, g, txs),
           OnlyBusy(w), job[w].id = nextId, nextId \in AuctionId,
           NewAuction(job[w], g) \in AuctionEntry, NewAuction(job[w], g).bidder = None,
           g \notin HouseItems(mem),
           NEW m2, Saves(mem, txs, m2, nextId + 1),
           m2.auctions = [mem.auctions EXCEPT ![nextId] = NewAuction(job[w], g)],
           nextId \notin Live(mem)
    PROVE  IInv'
<1>1. PICK n \in AuctionId : n = nextId
  OBVIOUS
<1>2. PICK a \in AuctionEntry : a = NewAuction(job[w], g) /\ a.bidder = None
  OBVIOUS
<1>3. n \in Nat /\ n + 1 \in Nat /\ n <= n + 1 /\ n + 1 \in 1..MaxAuctions + 1 /\ w \in Thread
  BY ConstantsAssumption DEF AuctionId, Thread
<1>4. Saves(db, pending \o txs, m2, n + 1)
  BY <1>1, <1>3, SavesMore DEF IInv, Typed, Calm
<1>5. pending \o txs \in Queue
  BY ConcatProperties DEF IInv, Typed, Queue
<1>6. Sound(m2, n + 1) /\ m2 \in Images
  BY <1>1, SavesSound DEF Sound
<1>7. Apply(mem, FlattenSeq(txs)) = m2
  BY SavesAll
<1>8. mem \in Images
  BY DEF IInv, Typed
<1>9. mem' = [m2 EXCEPT !.auctions = mem.auctions] /\ pending' = pending \o txs
  BY <1>7 DEF Listed
<1>10. mem' \in Images /\ mem'.auctions = mem.auctions
  BY <1>6, <1>8, <1>9 DEF Images
<1>11. nextId' = n + 1 /\ due' \subseteq AuctionId /\ UNCHANGED <<items, db, restarts>>
  BY <1>1 DEF Listed, WriteAuctionId, IInv, Typed
<1>12. PICK j : j = [step |-> "item", id |-> n, auction |-> a]
  OBVIOUS
<1>13. job' = [job EXCEPT ![w] = j]
  BY <1>1, <1>2, <1>12 DEF Listed, Begin
<1>14. DOMAIN job' = Thread /\ job'[w] = j /\ \A u \in Thread \ {w} : job'[u] = Idle
  BY <1>3, <1>13, JobIs DEF OnlyBusy
<1>15. m2 = [mem' EXCEPT !.auctions = [mem'.auctions EXCEPT ![n] = a]]
  <2>1. m2.auctions = [mem'.auctions EXCEPT ![n] = a]
    BY <1>1, <1>2, <1>10
  <2>2. [mem' EXCEPT !.auctions = m2.auctions] = m2
    BY <1>6, <1>9 DEF Images
  <2>. QED
    BY <2>1, <2>2
<1>16. Live(mem)' = Live(mem) /\ HouseItems(mem)' = HouseItems(mem)
  BY <1>10 DEF Live, HouseItems
<1>17. a.item = g
  BY <1>2 DEF NewAuction
<1>18. Stage(w, m2)'
  <2>1. /\ j.step = "item" /\ j.id = n /\ j.auction = a
        /\ j = [step |-> "item", id |-> j.id, auction |-> j.auction]
    BY <1>12
  <2>2. n \in AuctionId \ Live(mem)
    BY <1>1
  <2>3. items' = HouseItems(mem)' /\ a.item \notin items'
    BY <1>11, <1>16, <1>17 DEF Calm
  <2>. QED
    BY <1>2, <1>14, <1>15, <1>16, <2>1, <2>2, <2>3 DEF Stage
<1>19. Busy(w, m2)'
  BY <1>4, <1>9, <1>11, <1>14, <1>18 DEF Busy, OnlyBusy
<1>20. Typed'
  BY <1>3, <1>5, <1>9, <1>10, <1>11, <1>14 DEF IInv, Typed
<1>. QED
  BY <1>3, <1>19, <1>20 DEF IInv

(* What a listing appends. *)
LEMMA ListingIs ==
    ASSUME mem \in Images, NEW j, SaleOf(j), mem.gold[j.player] >= Deposit, NEW g \in Guid
    PROVE  /\ NewAuction(j, g) \in AuctionEntry /\ NewAuction(j, g).item = g
           /\ NewAuction(j, g).bidder = None
           /\ Pay(j.player, Deposit) \in Statements /\ ToTill(Deposit) \in Statements
           /\ Payment(<<Pay(j.player, Deposit), ToTill(Deposit)>>, 0)
<1>1. j.offer \in (Nat \ {0}) \X Nat /\ j.player \in Player /\ Deposit \in Int
  BY ConstantsAssumption DEF SaleOf
<1>2. NewAuction(j, g) \in AuctionEntry /\ NewAuction(j, g).item = g
      /\ NewAuction(j, g).bidder = None
  BY <1>1 DEF NewAuction, AuctionEntry
<1>3. PICK x \in Int : x = Deposit
  BY <1>1
<1>4. PICK s \in Statements : s = Pay(j.player, x) /\ Payment(<<s>>, -x)
  BY <1>1, <1>3, PayIsPayment
<1>5. PICK t \in Statements : t = ToTill(x) /\ Gift(<<t>>, x)
  BY ToTillIsGift
<1>6. Payment(<<s>> \o <<t>>, (-x) + x)
  BY <1>4, <1>5, PaymentAnd
<1>7. (-x) + x = 0
  OBVIOUS
<1>8. Payment(<<s, t>>, 0)
  BY <1>6, <1>7, PairIs
<1>. QED
  BY <1>2, <1>3, <1>4, <1>5, <1>8

LEMMA ListWholeSound ==
    ASSUME IInv, ~Overlap, NEW w \in Worker, ListWhole(w)
    PROVE  IInv'
<1>1. Calm /\ OnlyBusy(w) /\ Stage(w, mem) /\ w \in Thread /\ job[w].step = "list"
  BY CalmIs DEF ListWhole, Thread
<1>2. PICK j : j = job[w]
  OBVIOUS
<1>3. SaleOf(j) /\ j.id = nextId /\ nextId \in AuctionId /\ mem \in Images
      /\ mem.gold[j.player] >= Deposit
  BY <1>1, <1>2 DEF Stage, IInv, Typed
<1>4. PICK g \in DOMAIN j.take : Listed(w, g, <<<<Set("inventory", g, None)>> \o Listing(j, g)>>)
  BY <1>2 DEF ListWhole
<1>5. g \in Guid /\ mem.inventory[g] # None
  BY <1>3, ConstantsAssumption DEF SaleOf
<1>6. PICK n \in AuctionId : n = nextId
  BY <1>3
<1>7. Sound(mem, n) /\ Right(mem, n)
  BY <1>1, <1>6 DEF Calm, Right
<1>8. PICK a \in AuctionEntry : a = NewAuction(j, g) /\ a.item = g /\ a.bidder = None
  BY <1>3, <1>5, ListingIs
<1>9. PICK s \in Statements, t \in Statements :
         s = Pay(j.player, Deposit) /\ t = ToTill(Deposit) /\ Payment(<<s, t>>, 0)
  BY <1>3, <1>5, ListingIs
<1>10. PICK m1 : m1 = Apply(mem, <<Set("inventory", g, None)>>)
  OBVIOUS
<1>11. /\ SoundBut(m1, n, g) /\ <<Set("inventory", g, None)>> \in Seq(Statements)
       /\ m1.auctions = mem.auctions /\ HouseItems(m1) = HouseItems(mem)
       /\ Money(m1) = Money(mem) /\ m1.gold = mem.gold /\ Units(m1) = Units(mem)
  BY <1>5, <1>7, <1>10, LeaveInventory
<1>12. PICK m2 : m2 = Apply(m1, <<Set("auctions", n, a), s, t>>)
  OBVIOUS
<1>13. /\ Sound(m2, n + 1) /\ m2.auctions = [m1.auctions EXCEPT ![n] = a]
       /\ Money(m2) = Money(m1) /\ Units(m2) = Units(m1)
       /\ n \notin Live(m1) /\ <<Set("auctions", n, a), s, t>> \in Seq(Statements)
  BY <1>5, <1>8, <1>9, <1>11, <1>12, NewListing
<1>14. PICK x \in Seq(Statements) : x = <<Set("inventory", g, None)>>
  BY <1>11
<1>15. PICK y \in Seq(Statements) : y = <<Set("auctions", n, a), s, t>>
  BY <1>13
<1>16. PICK tx : tx = x \o y
  OBVIOUS
<1>17. tx \in Seq(Statements)
  BY <1>16, ConcatProperties
<1>18. Apply(mem, tx) = m2
  <2>1. Apply(mem, x \o y) = Apply(Apply(mem, x), y)
    BY ApplyConcat
  <2>. QED
    BY <1>10, <1>12, <1>14, <1>15, <1>16, <2>1
<1>19. Listed(w, g, <<tx>>)
  BY <1>3, <1>4, <1>6, <1>8, <1>9, <1>14, <1>15, <1>16 DEF Listing
<1>20. Saves(mem, <<tx>>, m2, n + 1) /\ <<tx>> \in Queue
  <2>1. n \in Nat /\ n + 1 \in Nat /\ n <= n + 1
    BY DEF AuctionId
  <2>2. Saves(mem, <<>>, mem, n) /\ <<>> \in Queue
    BY <1>7, ChainNothing, EmptySeq DEF Queue
  <2>3. Sound(mem, n + 1)
    <3>1. \A id \in Live(mem) : id \in Nat /\ id < n
      BY <1>7 DEF Sound, Live, AuctionId
    <3>2. \A id \in Live(mem) : id < n + 1
      BY <2>1, <3>1
    <3>. QED
      BY <1>7, <3>2 DEF Sound
  <2>31. Right(mem, n + 1) /\ Right(m2, n + 1) /\ Units(m2) = Units(mem)
    BY <1>7, <1>11, <1>13, <2>3 DEF Right
  <2>4. Saves(mem, Append(<<>>, tx), m2, n + 1) /\ Append(<<>>, tx) \in Queue
    BY <1>13, <1>17, <1>18, <2>1, <2>2, <2>31, SavesNext
  <2>5. Append(<<>>, tx) = <<tx>>
    OBVIOUS
  <2>. QED
    BY <2>4, <2>5
<1>21. g \notin HouseItems(mem)
  BY <1>11 DEF SoundBut
<1>22. n \notin Live(mem)
  BY <1>11, <1>13 DEF Live
<1>. QED
  BY <1>1, <1>2, <1>3, <1>6, <1>8, <1>11, <1>13, <1>19, <1>20, <1>21, <1>22, ListedSound

LEMMA ListSplitSound ==
    ASSUME IInv, ~Overlap, NEW w \in Worker, ListSplit(w)
    PROVE  IInv'
<1>1. Calm /\ OnlyBusy(w) /\ Stage(w, mem) /\ w \in Thread /\ job[w].step = "list"
  BY CalmIs DEF ListSplit, Thread
<1>2. PICK j : j = job[w]
  OBVIOUS
<1>3. SaleOf(j) /\ j.id = nextId /\ nextId \in AuctionId /\ mem \in Images
      /\ mem.gold[j.player] >= Deposit
  BY <1>1, <1>2 DEF Stage, IInv, Typed
<1>4. PICK take, from, sum :
         take = j.take /\ from = SetToSeq(DOMAIN take) /\ sum = SumFunction(take)
  <2>1. PICK take : take = j.take
    OBVIOUS
  <2>2. PICK from : from = SetToSeq(DOMAIN take)
    OBVIOUS
  <2>. QED
    BY <2>1, <2>2, Zenon
<1>41. PICK c \in Clone :
         /\ mem.stack[c] = 0 /\ c \notin items
         /\ Listed(w, c,
                  [i \in 1..Len(from) |-> Reduce(from[i], take[from[i]])]
                  \o <<<<Set("stack", c, sum)>> \o Listing(j, c)>>)
  BY <1>2, <1>4 DEF ListSplit
<1>5. c \in Guid
  BY DEF Guid
<1>6. PICK n \in AuctionId : n = nextId
  BY <1>3
<1>7. Sound(mem, n) /\ Right(mem, n)
  BY <1>1, <1>6 DEF Calm, Right
<1>8. /\ IsFiniteSet(DOMAIN take) /\ DOMAIN take # {} /\ sum <= MaxStack
      /\ \A g \in DOMAIN take :
            g \in Guid /\ mem.inventory[g] # None /\ take[g] \in 1..mem.stack[g]
      /\ \A g \in Guid : mem.stack[g] \in Nat
  BY <1>3, <1>4, ConstantsAssumption DEF SaleOf, Images
<1>9. sum \in 1..MaxStack
  <2>1. \A g \in DOMAIN take : take[g] \in Nat /\ take[g] >= 1
    BY <1>8
  <2>2. sum \in Nat /\ \A g \in DOMAIN take : take[g] <= sum
    BY <1>4, <1>8, <2>1, SumNat
  <2>3. sum >= 1
    BY <1>8, <2>1, <2>2
  <2>. QED
    BY <1>8, <2>2, <2>3, ConstantsAssumption
<1>10. PICK Q : Q = [i \in 1..Len(from) |-> Reduce(from[i], take[from[i]])]
  OBVIOUS
<1>11. PICK m0 : m0 = Apply(mem, FlattenSeq(Q))
  OBVIOUS
<1>12. /\ Q \in Queue /\ Right(m0, n)
       /\ \A i \in 0..Len(Q) :
             Right(Point(mem, Q, i), n) /\ Units(Point(mem, Q, i)) <= Units(mem)
       /\ Units(m0) = Units(mem) - sum /\ Reduced(m0, from, take, Len(from), n)
       /\ \A g : (\A i \in 1..Len(from) : from[i] # g) <=> g \notin DOMAIN take
  <2>1. from = SetToSeq(DOMAIN take)
    BY <1>4
  <2>2. /\ IsFiniteSet(DOMAIN take)
        /\ \A g \in DOMAIN take :
              g \in Guid /\ mem.inventory[g] # None /\ take[g] \in 1..mem.stack[g]
    BY <1>8
  <2>. QED
    BY <1>4, <1>7, <1>10, <1>11, <2>1, <2>2, ReduceAll
<1>13. m0.stack[c] = 0 /\ Sound(m0, n) /\ m0.auctions = mem.auctions
       /\ m0.gold = mem.gold /\ Right(m0, n)
  <2>1. c \notin DOMAIN take
    BY <1>41, <1>8
  <2>. QED
    BY <1>41, <1>5, <1>12, <2>1 DEF Reduced
<1>14. PICK a \in AuctionEntry : a = NewAuction(j, c) /\ a.item = c /\ a.bidder = None
  BY <1>3, <1>5, ListingIs
<1>15. PICK s \in Statements, t \in Statements :
         s = Pay(j.player, Deposit) /\ t = ToTill(Deposit) /\ Payment(<<s, t>>, 0)
  BY <1>3, <1>5, ListingIs
<1>16. PICK m1 : m1 = Apply(m0, <<Set("stack", c, sum)>>)
  OBVIOUS
<1>17. /\ SoundBut(m1, n, c) /\ <<Set("stack", c, sum)>> \in Seq(Statements)
       /\ m1.auctions = m0.auctions /\ HouseItems(m1) = HouseItems(m0)
       /\ Money(m1) = Money(m0) /\ m1.gold = mem.gold /\ Units(m1) = Units(m0) + sum
  <2>1. PICK r \in 1..MaxStack : r = sum
    BY <1>9
  <2>2. PICK d \in Guid : d = c
    BY <1>5
  <2>3. PICK x : x = CloneOf(d, r)
    OBVIOUS
  <2>4. Sound(m0, n) /\ m0.stack[d] = 0 /\ m1 = Apply(m0, x)
    BY <1>13, <1>16, <2>1, <2>2, <2>3 DEF CloneOf
  <2>5. /\ SoundBut(m1, n, d) /\ x \in Seq(Statements)
        /\ m1.auctions = m0.auctions /\ HouseItems(m1) = HouseItems(m0)
        /\ Money(m1) = Money(m0) /\ m1.gold = m0.gold /\ Units(m1) = Units(m0) + r
    BY <2>3, <2>4, CreateClone
  <2>. QED
    BY <1>13, <2>1, <2>2, <2>3, <2>5 DEF CloneOf
<1>18. PICK m2 : m2 = Apply(m1, <<Set("auctions", n, a), s, t>>)
  OBVIOUS
<1>19. /\ Sound(m2, n + 1) /\ m2.auctions = [m1.auctions EXCEPT ![n] = a]
       /\ Money(m2) = Money(m1) /\ Units(m2) = Units(m1)
       /\ n \notin Live(m1) /\ <<Set("auctions", n, a), s, t>> \in Seq(Statements)
  BY <1>5, <1>14, <1>15, <1>17, <1>18, NewListing
<1>20. PICK x \in Seq(Statements) : x = <<Set("stack", c, sum)>>
  BY <1>17
<1>21. PICK y \in Seq(Statements) : y = <<Set("auctions", n, a), s, t>>
  BY <1>19
<1>22. PICK tx : tx = x \o y
  OBVIOUS
<1>23. tx \in Seq(Statements)
  BY <1>22, ConcatProperties
<1>24. Apply(m0, tx) = m2
  <2>1. Apply(m0, x \o y) = Apply(Apply(m0, x), y)
    BY ApplyConcat
  <2>. QED
    BY <1>16, <1>18, <1>20, <1>21, <1>22, <2>1
<1>25. Listed(w, c, Q \o <<tx>>)
  BY <1>3, <1>41, <1>6, <1>10, <1>14, <1>15, <1>20, <1>21, <1>22 DEF Listing
<1>26. Saves(mem, Q \o <<tx>>, m2, n + 1) /\ Q \o <<tx>> \in Queue
  <2>1. n \in Nat
    BY DEF AuctionId
  <2>2. ASSUME NEW im, Right(im, n) PROVE Right(im, n + 1)
    <3>1. \A id \in Live(im) : id \in Nat /\ id < n
      BY <2>2 DEF Right, Sound, Live, AuctionId
    <3>2. \A id \in Live(im) : id < n + 1
      BY <2>1, <3>1
    <3>. QED
      BY <2>2, <3>2 DEF Right, Sound
  <2>3. Right(m2, n + 1)
    BY <1>13, <1>17, <1>19 DEF Right
  <2>4. Units(m2) = Units(mem)
    <3>1. Units(mem) \in Nat
      BY <1>3, UnitsIs
    <3>. QED
      BY <1>9, <1>12, <1>17, <1>19, <3>1
  <2>5. SavesClone(tx)
    <3>1. Len(x) = 1 /\ x[1] = Set("stack", c, sum)
      BY <1>20
    <3>2. 1 \in 1..Len(tx) /\ tx[1] = x[1]
      BY <1>20, <1>21, <1>22, <3>1, ConcatProperties
    <3>3. tx[1].table = "stack" /\ tx[1].row = c /\ tx[1].value = sum
      BY <3>1, <3>2 DEF Set
    <3>. QED
      BY <1>9, <3>2, <3>3 DEF SavesClone
  <2>6. m2 = Apply(Apply(mem, FlattenSeq(Q)), tx)
    BY <1>11, <1>24
  <2>7. \A i \in 0..Len(Q) :
           Right(Point(mem, Q, i), n + 1) /\ Units(Point(mem, Q, i)) <= Units(m2)
    BY <1>12, <2>2, <2>4
  <2>8. PICK n1 : n1 = n + 1
    OBVIOUS
  <2>9. Saves(mem, Append(Q, tx), m2, n1) /\ Append(Q, tx) \in Queue
    BY <1>12, <1>23, <2>3, <2>5, <2>6, <2>7, <2>8, LastSavesClone
  <2>10. Append(Q, tx) = Q \o <<tx>>
    BY <1>12 DEF Queue
  <2>. QED
    BY <2>8, <2>9, <2>10
<1>27. c \notin HouseItems(mem)
  BY <1>1, <1>41 DEF Calm
<1>28. n \notin Live(mem)
  BY <1>13, <1>17, <1>19 DEF Live
<1>29. m2.auctions = [mem.auctions EXCEPT ![n] = a]
  BY <1>13, <1>17, <1>19
<1>. QED
  BY <1>1, <1>2, <1>3, <1>6, <1>14, <1>25, <1>26, <1>27, <1>28, <1>29, ListedSound
-----------------------------------------------------------------------------
(* The item of the new auction is entered, and then the auction. *)
LEMMA AddAuctionItemSound ==
    ASSUME IInv, NEW w \in Worker, AddAuctionItem(w)
    PROVE  IInv'
<1>1. PICK t, saved : t \in Thread /\ Busy(t, saved)
  BY DEF IInv
<1>2. w \in Thread /\ job[w].step = "item"
  BY DEF AddAuctionItem, Thread
<1>3. t = w
  BY <1>1, <1>2 DEF Busy, OnlyBusy, Idle
<1>4. PICK j : j = job[w]
  OBVIOUS
<1>5. /\ j.id \in AuctionId \ Live(mem) /\ j.auction \in AuctionEntry
      /\ j.auction.bidder = None
      /\ saved = [mem EXCEPT !.auctions = [mem.auctions EXCEPT ![j.id] = j.auction]]
      /\ items = HouseItems(mem) /\ j.auction.item \notin items
  BY <1>1, <1>2, <1>3, <1>4 DEF Busy, Stage
<1>6. /\ items' = items \cup {j.auction.item}
      /\ job' = [job EXCEPT ![w] = [j EXCEPT !.step = "add"]]
      /\ UNCHANGED <<mem, db, pending, nextId, due, restarts>>
  BY <1>4, <1>5 DEF AddAuctionItem, Begin
<1>7. PICK k : k = [j EXCEPT !.step = "add"]
  OBVIOUS
<1>8. DOMAIN job' = Thread /\ job'[w] = k /\ \A u \in Thread \ {w} : job'[u] = Idle
  BY <1>1, <1>2, <1>3, <1>6, <1>7, JobIs DEF Busy, OnlyBusy
<1>9. Sound(saved, nextId) /\ mem \in Images /\ saved \in Images
  BY <1>1, SavesSound DEF IInv, Typed, Busy, Sound
<1>10. HouseItems(saved) = items \cup {j.auction.item}
  <2>1. saved.auctions = [mem.auctions EXCEPT ![j.id] = j.auction]
    BY <1>5, <1>9 DEF Images
  <2>2. \A i \in AuctionId : saved.auctions[i] = IF i = j.id THEN j.auction ELSE mem.auctions[i]
    BY <1>5, <1>9, <2>1 DEF Images
  <2>3. Live(saved) = Live(mem) \cup {j.id}
    <3>1. j.auction # None
      BY <1>5, ConstantsAssumption
    <3>. QED
      BY <1>5, <2>2, <3>1 DEF Live
  <2>4. \A i \in Live(mem) : saved.auctions[i] = mem.auctions[i]
    BY <1>5, <1>9, <2>2, LiveIs
  <2>5. saved.auctions[j.id] = j.auction
    BY <1>5, <2>2
  <2>. QED
    BY <1>5, <2>3, <2>4, <2>5 DEF HouseItems
<1>11. k.step = "add" /\ k.id = j.id /\ k.auction = j.auction
  <2>1. j = [step |-> "item", id |-> j.id, auction |-> j.auction]
    BY <1>1, <1>2, <1>3, <1>4 DEF Busy, Stage
  <2>. QED
    BY <1>7, <2>1
<1>12. Stage(w, saved)'
  BY <1>5, <1>6, <1>8, <1>10, <1>11 DEF Stage, Live, HouseItems
<1>13. Busy(w, saved)'
  BY <1>1, <1>6, <1>8, <1>12 DEF Busy, OnlyBusy
<1>14. Typed'
  BY <1>6, <1>8 DEF IInv, Typed
<1>. QED
  BY <1>2, <1>13, <1>14 DEF IInv

LEMMA AddAuctionSound ==
    ASSUME IInv, NEW w \in Worker, AddAuction(w)
    PROVE  IInv'
<1>1. PICK t, saved : t \in Thread /\ Busy(t, saved)
  BY DEF IInv
<1>2. w \in Thread /\ job[w].step = "add"
  BY DEF AddAuction, Thread
<1>3. t = w
  BY <1>1, <1>2 DEF Busy, OnlyBusy, Idle
<1>4. /\ job[w].id \in AuctionId \ Live(mem) /\ items = HouseItems(saved)
      /\ saved = [mem EXCEPT !.auctions =
                     [mem.auctions EXCEPT ![job[w].id] = job[w].auction]]
  BY <1>1, <1>2, <1>3 DEF Busy, Stage
<1>5. mem' = saved /\ UNCHANGED <<items, db, pending, nextId, due, restarts>>
  BY <1>4 DEF AddAuction
<1>6. job' = [job EXCEPT ![w] = Idle]
  BY DEF AddAuction, Done
<1>7. DOMAIN job' = Thread /\ \A u \in Thread : job'[u] = Idle
  BY <1>1, <1>3, <1>6, JobIs DEF Busy, OnlyBusy
<1>8. saved \in Images
  BY <1>1, SavesSound DEF IInv, Typed, Busy, Sound
<1>9. Typed'
  BY <1>5, <1>7, <1>8 DEF IInv, Typed
<1>10. items' = HouseItems(mem)'
  BY <1>4, <1>5 DEF HouseItems, Live
<1>11. Stage(w, saved)'
  BY <1>2, <1>5, <1>7, <1>10 DEF Stage, Idle
<1>12. Busy(w, saved)'
  BY <1>1, <1>2, <1>5, <1>7, <1>11 DEF Busy, OnlyBusy
<1>. QED
  BY <1>2, <1>9, <1>12 DEF IInv

(* Payments, a parcel, and the end of an auction, in one transaction. *)
PaidEnd(u, p, g, id) == (u \o <<Parcel(p, g)>>) \o <<DeleteAuction(id)>>

LEMMA EndPaid ==
    ASSUME NEW im, NEW n, Sound(im, n), NEW id \in Live(im), NEW p \in Player,
           NEW g, g = im.auctions[id].item, im.gold = mem.gold,
           NEW d, d = Lead(im.auctions[id]), NEW u, Payment(u, d),
           NEW tx, tx = PaidEnd(u, p, g, id),
           NEW im2, im2 = Apply(im, tx)
    PROVE  /\ Sound(im2, n) /\ HouseItems(im2) = HouseItems(im) \ {g}
           /\ tx \in Seq(Statements) /\ Money(im2) = Money(im)
           /\ Units(im2) = Units(im)
<1>1. PICK im1 : im1 = Apply(im, u)
  OBVIOUS
<1>2. im \in Images
  BY DEF Sound
<1>3. /\ im1 \in Images /\ SameItems(im, im1) /\ u \in Seq(Statements)
      /\ Money(im1) = Money(im) + Lead(im.auctions[id])
  BY <1>1, <1>2 DEF Payment
<1>4. Sound(im1, n) /\ Live(im1) = Live(im) /\ HouseItems(im1) = HouseItems(im)
      /\ im1.auctions = im.auctions
  BY <1>2, <1>3, SameItemsSound DEF SameItems
<1>5. PICK im3 : im3 = Apply(Apply(im1, <<Parcel(p, g)>>), <<DeleteAuction(id)>>)
  OBVIOUS
<1>6. id \in Live(im1) /\ g = im1.auctions[id].item
  BY <1>4
<1>7. /\ Sound(im3, n) /\ HouseItems(im3) = HouseItems(im1) \ {g}
      /\ <<Parcel(p, g)>> \in Seq(Statements) /\ <<DeleteAuction(id)>> \in Seq(Statements)
      /\ Money(im3) = Money(im1) - Lead(im1.auctions[id]) /\ Units(im3) = Units(im1)
  <2>1. Sound(im1, n)
    BY <1>4
  <2>2. PICK k \in Live(im1) : k = id /\ g = im1.auctions[k].item
    BY <1>6
  <2>3. im3 = Apply(Apply(im1, <<Parcel(p, g)>>), <<DeleteAuction(k)>>)
    BY <1>5, <2>2
  <2>4. /\ Sound(im3, n) /\ im3.auctions = [im1.auctions EXCEPT ![k] = None]
        /\ Live(im3) = Live(im1) \ {k} /\ HouseItems(im3) = HouseItems(im1) \ {g}
        /\ <<Parcel(p, g)>> \in Seq(Statements) /\ <<DeleteAuction(k)>> \in Seq(Statements)
        /\ g \in Guid /\ Money(im3) = Money(im1) - Lead(im1.auctions[k])
        /\ Units(im3) = Units(im1)
    BY <2>1, <2>2, <2>3, EndAuction
  <2>. QED
    BY <2>2, <2>4
<1>8. PICK s \in Seq(Statements) : s = <<Parcel(p, g)>>
  BY <1>7
<1>9. PICK t \in Seq(Statements) : t = <<DeleteAuction(id)>>
  BY <1>7
<1>10. PICK v \in Seq(Statements) : v = u
  BY <1>3
<1>11. (v \o s) \o t \in Seq(Statements)
       /\ Apply(im, (v \o s) \o t) = Apply(Apply(Apply(im, v), s), t)
  BY ApplyParts
<1>12. tx = (v \o s) \o t
  BY <1>8, <1>9, <1>10 DEF PaidEnd
<1>13. im2 = im3
  BY <1>1, <1>5, <1>8, <1>9, <1>10, <1>11, <1>12
<1>14. Money(im2) = Money(im)
  <2>1. Money(im) \in Int /\ Lead(im.auctions[id]) \in Int
    <3>1. PICK a \in AuctionEntry : a = im.auctions[id]
      BY <1>2, LiveIs
    <3>2. Lead(a) \in Nat
      BY LeadIs
    <3>. QED
      BY <1>2, <3>1, <3>2, MoneyIs
  <2>. QED
    BY <1>3, <1>4, <1>7, <1>13, <2>1
<1>15. Units(im2) = Units(im)
  BY <1>3, <1>7, <1>13, UnitsSame DEF SameItems
<1>. QED
  BY <1>4, <1>7, <1>11, <1>12, <1>13, <1>14, <1>15

(* A letter's money goes into the purse. *)
LEMMA TakeOutSound ==
    ASSUME NEW n, Sound(mem, n), NEW p \in Player, NEW money \in DOMAIN mem.letters[p],
           NEW tx, tx = <<Pay(p, -money), TakeOut(p, money)>>,
           NEW m, m = Apply(mem, tx)
    PROVE  Sound(m, n) /\ SameItems(mem, m) /\ tx \in Seq(Statements)
           /\ Money(m) = Money(mem)
<1>1. mem \in Images /\ mem.letters[p] \in LetterBag
  BY DEF Sound, Images
<1>2. money \in Nat \ {0} /\ -money \in Int
  BY <1>1, LetterBagIs
<1>21. mem.gold[p] >= -money
  <2>1. mem.gold[p] \in Nat
    BY <1>1 DEF Images
  <2>. QED
    BY <1>2, <2>1
<1>3. PICK s \in Statements : s = Pay(p, -money) /\ Payment(<<s>>, -(-money))
  BY <1>1, <1>2, <1>21, PayIsPayment
<1>4. PICK t \in Statements : t = TakeOut(p, money)
  BY <1>2 DEF TakeOut, Set, Statements
<1>5. PICK m1 : m1 = Perform(mem, s)
  OBVIOUS
<1>6. m1 \in Images /\ SameItems(mem, m1) /\ Money(m1) = Money(mem) + (-(-money))
  <2>1. Apply(mem, <<s>>) = Perform(mem, s)
    BY ApplyFew
  <2>2. Apply(mem, <<s>>) \in Images /\ SameItems(mem, Apply(mem, <<s>>))
        /\ Money(Apply(mem, <<s>>)) = Money(mem) + (-(-money))
    BY <1>1, <1>3 DEF Payment
  <2>. QED
    BY <1>5, <2>1, <2>2
<1>7. m1.letters = mem.letters
  <2>1. PICK v \in Nat : v = IF mem.gold[p] > -money THEN mem.gold[p] - (-money) ELSE 0
    BY <1>1, <1>2 DEF Images
  <2>2. s = Set("gold", p, v)
    BY <1>3, <2>1 DEF Pay
  <2>3. m1 = [mem EXCEPT !.gold = [mem.gold EXCEPT ![p] = v]]
    BY <1>1, <1>5, <2>2, SetGold
  <2>. QED
    BY <1>1, <2>3 DEF Images
<1>8. money \in DOMAIN m1.letters[p]
  BY <1>7
<1>9. m = Perform(m1, t)
  <2>1. Apply(mem, <<s, t>>) = Perform(Perform(mem, s), t)
    BY ApplyFew
  <2>. QED
    BY <1>3, <1>4, <1>5, <2>1
<1>10. m \in Images /\ \E l : m = [m1 EXCEPT !.letters = l]
  <2>1. /\ Perform(m1, TakeOut(p, money)) =
              [m1 EXCEPT !.letters = [m1.letters EXCEPT ![p] = @ (-) SetToBag({money})]]
        /\ Perform(m1, TakeOut(p, money)) \in Images
    BY <1>6, <1>8, PerformLetter
  <2>. QED
    BY <1>4, <1>9, <2>1
<1>11. SameItems(m1, m)
  <2>1. \A l : SameItems(m1, [m1 EXCEPT !.letters = l])
    BY <1>6 DEF Images, SameItems
  <2>. QED
    BY <1>10, <2>1
<1>12. SameItems(mem, m)
  BY <1>6, <1>11 DEF SameItems
<1>13. Sound(m, n)
  BY <1>1, <1>10, <1>12, SameItemsSound
<1>14. tx \in Seq(Statements)
  <2>1. <<s, t>> \in Seq(Statements)
    OBVIOUS
  <2>. QED
    BY <1>3, <1>4, <2>1
<1>15. Money(m) = Money(mem)
  <2>1. m = Perform(m1, TakeOut(p, money))
    BY <1>4, <1>9
  <2>2. Money(m) = Money(m1) - money
    BY <1>6, <1>8, <2>1, LetterTaken
  <2>3. Money(mem) \in Int
    BY <1>1, MoneyIs
  <2>. QED
    BY <1>2, <1>6, <2>2, <2>3
<1>. QED
  BY <1>12, <1>13, <1>14, <1>15
-----------------------------------------------------------------------------
(* After a bid or a cancellation the thread is idle again. *)
LEMMA DoneIs ==
    ASSUME IInv, NEW w \in Thread, OnlyBusy(w), Done(w)
    PROVE  DOMAIN job' = Thread /\ \A u \in Thread : job'[u] = Idle
<1>1. job' = [job EXCEPT ![w] = Idle]
  BY DEF Done
<1>. QED
  BY <1>1, JobIs DEF OnlyBusy

(* An auction ends in a paid transaction, and everything is calm again.    *)
LEMMA PaidEndSound ==
    ASSUME IInv, Calm, NEW id \in Live(mem), NEW p \in Player,
           NEW g, g = mem.auctions[id].item, NEW u, Payment(u, Lead(mem.auctions[id])),
           NEW tx, tx = PaidEnd(u, p, g, id), Change(tx), items' = items \ {g},
           UNCHANGED <<db, nextId, due, restarts>>,
           DOMAIN job' = Thread, \A v \in Thread : job'[v] = Idle
    PROVE  IInv'
<1>1. PICK m : m = Apply(mem, tx)
  OBVIOUS
<1>2. PICK n : n = nextId
  OBVIOUS
<1>3. PICK im : im = mem
  OBVIOUS
<1>4. PICK k \in Live(im) : k = id
  BY <1>3
<1>5. Sound(im, n) /\ g = im.auctions[k].item /\ m = Apply(im, tx)
  BY <1>1, <1>2, <1>3, <1>4 DEF Calm, Right
<1>6. PICK d : d = Lead(im.auctions[k])
  OBVIOUS
<1>61. tx = PaidEnd(u, p, g, k) /\ Payment(u, d) /\ im.gold = mem.gold
  BY <1>3, <1>4, <1>6
<1>7. /\ Sound(m, n) /\ HouseItems(m) = HouseItems(im) \ {g}
      /\ tx \in Seq(Statements) /\ Money(m) = Money(im) /\ Units(m) = Units(im)
  BY <1>5, <1>6, <1>61, EndPaid
<1>8. mem' = m /\ pending' = Append(pending, tx)
  BY <1>1 DEF Change, CommitTransaction
<1>9. items' = HouseItems(m)
  BY <1>3, <1>7 DEF Calm
<1>10. Sound(m, nextId) /\ Money(m) = Money(mem) /\ Units(m) = Units(mem)
  BY <1>2, <1>3, <1>7
<1>. QED
  BY <1>1, <1>7, <1>8, <1>9, <1>10, Commits

LEMMA BidSound ==
    ASSUME IInv, Calm, NEW w \in Thread, OnlyBusy(w), NEW id \in Live(mem),
           NEW a, a = mem.auctions[id], job[w].player \in Player, job[w].price \in Prices,
           BidOn(w, id, a), Done(w), UNCHANGED <<db, nextId, due, restarts>>
    PROVE  IInv'
<1>1. DOMAIN job' = Thread /\ \A u \in Thread : job'[u] = Idle
  BY DoneIs
<1>2. PICK p \in Player : p = job[w].player
  OBVIOUS
<1>3. PICK price \in Nat \ {0} : price = job[w].price
  BY ConstantsAssumption
<1>4. Sound(mem, nextId) /\ mem \in Images
  BY DEF Calm, Right, Sound
<1>5. a \in AuctionEntry /\ (a.bidder # None => a.bid > 0)
  BY <1>4, LiveIs DEF Sound
<1>51. Lead(a) = IF a.bidder = None THEN 0 ELSE a.bid
  BY <1>5, ConstantsAssumption DEF Lead
<1>52. mem.gold[p] \in Nat /\ Money(mem) \in Int /\ Lead(a) \in Int
  BY <1>4, <1>5, MoneyIs, LeadIs DEF Images
<1>6. a.item \in items /\ items = HouseItems(mem)
  BY <1>4, LiveIs DEF Calm
<1>7. PICK led : led = [a EXCEPT !.bidder = p, !.bid = price]
  OBVIOUS
<1>8. PICK won : won = [a EXCEPT !.bidder = p, !.bid = a.buyOut]
  OBVIOUS
<1>9. CASE Refused(a, p, price)
  <2>1. UNCHANGED <<mem, pending, items>>
    BY <1>2, <1>3, <1>9 DEF BidOn
  <2>. QED
    BY <1>1, <2>1, OnlyIdle
<1>10. CASE ~Refused(a, p, price) /\ ~IsBuyOut(a, price)
  <2>1. Change(Outbid(a, p, price) \o <<Set("auctions", id, led)>>) /\ UNCHANGED items
    BY <1>2, <1>3, <1>7, <1>10 DEF BidOn
  <2>2. PICK u : u = Outbid(a, p, price)
    OBVIOUS
  <2>25. mem.gold[p] >= price
    BY <1>10, <1>52 DEF Refused
  <2>3. Payment(u, Lead(a) - price) /\ u \in Seq(Statements)
    BY <1>4, <1>5, <2>2, <2>25, OutbidIsPayment DEF Payment
  <2>4. /\ led \in AuctionEntry /\ led.item = a.item /\ led.bid > 0
        /\ led.bid = price /\ led.bidder = p
    <3>1. a \in AuctionEntry /\ price \in Nat /\ price > 0
      BY <1>5
    <3>. QED
      BY <1>7, <3>1 DEF AuctionEntry
  <2>5. PICK im1 : im1 = Apply(mem, u)
    OBVIOUS
  <2>6. /\ im1 \in Images /\ SameItems(mem, im1)
        /\ Money(im1) = Money(mem) + (Lead(a) - price)
    BY <1>4, <2>3, <2>5 DEF Payment
  <2>7. Sound(im1, nextId) /\ Live(im1) = Live(mem) /\ HouseItems(im1) = HouseItems(mem)
        /\ im1.auctions = mem.auctions
    BY <1>4, <2>6, SameItemsSound DEF SameItems
  <2>8. PICK k \in Live(im1) : k = id /\ led.item = im1.auctions[k].item
    BY <2>4, <2>7
  <2>9. PICK m : m = Apply(im1, <<Set("auctions", k, led)>>)
    OBVIOUS
  <2>10. PICK n : n = nextId
    OBVIOUS
  <2>11. Sound(im1, n)
    BY <2>7, <2>10
  <2>12. /\ Sound(m, n) /\ HouseItems(m) = HouseItems(im1)
         /\ <<Set("auctions", k, led)>> \in Seq(Statements)
         /\ Money(m) = Money(im1) - Lead(im1.auctions[k]) + Lead(led)
         /\ Units(m) = Units(im1)
    BY <2>4, <2>8, <2>9, <2>11, RaiseBid
  <2>13. PICK t \in Seq(Statements) : t = <<Set("auctions", k, led)>>
    BY <2>12
  <2>14. PICK v \in Seq(Statements) : v = u
    BY <2>3
  <2>15. PICK tx : tx = v \o t
    OBVIOUS
  <2>16. tx \in Seq(Statements) /\ Apply(mem, tx) = Apply(Apply(mem, v), t)
    BY <2>15, ApplyConcat, ConcatProperties
  <2>17. Change(tx)
    BY <2>1, <2>2, <2>8, <2>13, <2>14, <2>15
  <2>18. m = Apply(mem, tx)
    BY <2>5, <2>9, <2>13, <2>14, <2>16
  <2>19. mem' = m /\ pending' = Append(pending, tx)
    BY <2>17, <2>18 DEF Change, CommitTransaction
  <2>20. items' = HouseItems(m)
    BY <1>6, <2>1, <2>7, <2>12
  <2>21. Sound(m, nextId)
    BY <2>10, <2>12
  <2>22. Money(m) = Money(mem)
    <3>1. im1.auctions[k] = a
      BY <2>7, <2>8
    <3>2. Lead(led) = price
      BY <2>4, ConstantsAssumption DEF Lead
    <3>. QED
      BY <1>52, <2>6, <2>12, <3>1, <3>2
  <2>23. Units(m) = Units(mem)
    BY <2>6, <2>12, UnitsSame DEF SameItems
  <2>. QED
    BY <1>1, <2>16, <2>18, <2>19, <2>20, <2>21, <2>22, <2>23, Commits
<1>11. CASE ~Refused(a, p, price) /\ IsBuyOut(a, price)
  <2>1. /\ Change(Outbid(a, p, a.buyOut)
                    \o SendAuctionSuccessfulMail(won) \o SendAuctionWonMail(won)
                    \o <<DeleteAuction(id)>>)
        /\ items' = items \ {a.item}
    BY <1>2, <1>3, <1>8, <1>11 DEF BidOn
  <2>2. won \in AuctionEntry /\ won.item = a.item /\ won.bid > 0 /\ won.bidder = p
        /\ a.buyOut \in Nat /\ won.bid = a.buyOut
    <3>1. a \in AuctionEntry /\ a.buyOut \in Nat /\ a.buyOut > 0
      <4>1. a.buyOut # 0
        BY <1>11 DEF IsBuyOut
      <4>. QED
        BY <1>5, <4>1 DEF AuctionEntry
    <3>2. PICK y \in Nat : y = a.buyOut
      BY <3>1
    <3>3. won = [a EXCEPT !.bidder = p, !.bid = y]
      BY <1>8, <3>2
    <3>4. won \in AuctionEntry /\ won.item = a.item /\ won.bid = y /\ won.bidder = p
      BY <3>1, <3>3 DEF AuctionEntry
    <3>. QED
      BY <3>1, <3>2, <3>4
  <2>21. mem.gold[p] >= a.buyOut
    <3>1. mem.gold[p] >= price /\ price >= a.buyOut
      BY <1>11, <1>52 DEF Refused, IsBuyOut
    <3>. QED
      BY <1>52, <2>2, <3>1
  <2>3. Payment(Outbid(a, p, a.buyOut), Lead(a) - a.buyOut)
    BY <1>4, <1>5, <2>2, <2>21, OutbidIsPayment
  <2>4. Gift(SendAuctionSuccessfulMail(won), a.buyOut)
    BY <2>2, SuccessIsGift
  <2>5. PICK u : u = Outbid(a, p, a.buyOut) \o SendAuctionSuccessfulMail(won)
    OBVIOUS
  <2>6. Payment(u, Lead(a))
    <3>1. Payment(u, (Lead(a) - a.buyOut) + a.buyOut)
      BY <2>3, <2>4, <2>5, PaymentAnd
    <3>2. (Lead(a) - a.buyOut) + a.buyOut = Lead(a)
      BY <1>52, <2>2
    <3>. QED
      BY <3>1, <3>2
  <2>7. SendAuctionWonMail(won) = <<Parcel(p, a.item)>>
    BY <1>6, <2>2 DEF SendAuctionWonMail, ParcelOf
  <2>8. PICK g : g = mem.auctions[id].item
    OBVIOUS
  <2>9. PICK tx : tx = PaidEnd(u, p, g, id)
    OBVIOUS
  <2>10. Change(tx) /\ items' = items \ {g}
    BY <2>1, <2>5, <2>7, <2>8, <2>9 DEF PaidEnd
  <2>. QED
    BY <1>1, <2>6, <2>8, <2>9, <2>10, PaidEndSound
<1>. QED
  BY <1>9, <1>10, <1>11

LEMMA FinishBidSound ==
    ASSUME IInv, ~Overlap, NEW w \in Worker, FinishBid(w)
    PROVE  IInv'
<1>1. w \in Thread /\ Calm /\ OnlyBusy(w) /\ Stage(w, mem) /\ job[w].step = "bid"
  BY CalmIs DEF FinishBid, Thread
<1>2. job[w].player \in Player /\ job[w].price \in Prices
  BY <1>1 DEF Stage
<1>3. CASE job[w].id \in Live(mem)
  <2>1. PICK id \in Live(mem) : id = job[w].id
    BY <1>3
  <2>2. PICK a : a = mem.auctions[id]
    OBVIOUS
  <2>3. BidOn(w, id, a) /\ Done(w) /\ UNCHANGED <<db, nextId, due, restarts>>
    BY <1>3, <2>1, <2>2 DEF FinishBid
  <2>. QED
    BY <1>1, <1>2, <2>2, <2>3, BidSound
<1>4. CASE job[w].id \notin Live(mem)
  BY <1>4, ReloadSound DEF FinishBid
<1>. QED
  BY <1>3, <1>4

LEMMA RemoveItemSound ==
    ASSUME IInv, Calm, NEW w \in Thread, OnlyBusy(w), NEW id \in Live(mem),
           NEW a, a = mem.auctions[id],
           RemoveItem(id, a), Done(w), UNCHANGED <<db, nextId, due, restarts>>
    PROVE  IInv'
<1>1. DOMAIN job' = Thread /\ \A u \in Thread : job'[u] = Idle
  BY DoneIs
<1>2. Sound(mem, nextId) /\ mem \in Images
  BY DEF Calm, Right, Sound
<1>3. a \in AuctionEntry /\ (a.bidder # None => a.bid > 0)
  BY <1>2, LiveIs DEF Sound
<1>4. a.item \in items /\ items = HouseItems(mem)
  BY <1>2, LiveIs DEF Calm
<1>5. CASE a.bidder # None /\ mem.gold[a.owner] < GetAuctionCut(a)
  <2>1. UNCHANGED <<mem, pending, items>>
    BY <1>5 DEF RemoveItem
  <2>. QED
    BY <1>1, <2>1, OnlyIdle
<1>6. CASE ~(a.bidder # None /\ mem.gold[a.owner] < GetAuctionCut(a))
  <2>1. /\ Change(Refund(a) \o ParcelOf(a.owner, a.item) \o <<DeleteAuction(id)>>)
        /\ items' = items \ {a.item}
    BY <1>4, <1>6 DEF RemoveItem
  <2>2. PICK p \in Player : p = a.owner
    BY <1>3 DEF AuctionEntry
  <2>3. PICK u : u = Refund(a)
    OBVIOUS
  <2>4. Payment(u, Lead(a))
    BY <1>2, <1>3, <1>6, <2>3, RefundIsPayment
  <2>5. ParcelOf(a.owner, a.item) = <<Parcel(p, a.item)>>
    BY <1>4, <2>2 DEF ParcelOf
  <2>6. PICK g : g = mem.auctions[id].item
    OBVIOUS
  <2>7. PICK tx : tx = PaidEnd(u, p, g, id)
    OBVIOUS
  <2>8. Change(tx) /\ items' = items \ {g}
    BY <2>1, <2>3, <2>5, <2>6, <2>7 DEF PaidEnd
  <2>. QED
    BY <1>1, <2>4, <2>6, <2>7, <2>8, PaidEndSound
<1>. QED
  BY <1>5, <1>6

LEMMA FinishCancelSound ==
    ASSUME IInv, ~Overlap, FinishCancel
    PROVE  IInv'
<1>0. World \in Thread
  BY DEF Thread
<1>1. Calm /\ OnlyBusy(World) /\ job[World].step = "cancel"
  BY <1>0, CalmIs DEF FinishCancel
<1>2. CASE job[World].id \in Live(mem)
  <2>1. PICK id \in Live(mem) : id = job[World].id
    BY <1>2
  <2>2. PICK a : a = mem.auctions[id]
    OBVIOUS
  <2>3. RemoveItem(id, a) /\ Done(World) /\ UNCHANGED <<db, nextId, due, restarts>>
    BY <1>2, <2>1, <2>2 DEF FinishCancel
  <2>. QED
    BY <1>0, <1>1, <2>2, <2>3, RemoveItemSound
<1>3. CASE job[World].id \notin Live(mem)
  BY <1>3, ReloadSound DEF FinishCancel
<1>. QED
  BY <1>2, <1>3

(* The world's thread begins when everybody is idle, and stays idle. *)
LEMMA IdleIs ==
    ASSUME IInv, ~Overlap, NEW w \in Thread, Free(w), job' = job
    PROVE  Calm /\ DOMAIN job' = Thread /\ \A u \in Thread : job'[u] = Idle
BY FreeIs, JobIs DEF Quiet

LEMMA UpdateSound ==
    ASSUME IInv, ~Overlap, Update
    PROVE  IInv'
<1>0. World \in Thread
  BY DEF Thread
<1>1. Calm /\ DOMAIN job' = Thread /\ \A u \in Thread : job'[u] = Idle
  BY <1>0, IdleIs DEF Update
<1>2. UNCHANGED <<db, nextId, due, restarts>>
  BY DEF Update
<1>3. PICK over : over = Live(mem) \cap due
  OBVIOUS
<1>4. PICK ids : ids = SetToSeq(over)
  OBVIOUS
<1>5. PICK Q : Q = [i \in 1..Len(ids) |-> EndOf(ids[i])]
  OBVIOUS
<1>6. Change(FlattenSeq(Q)) /\ items' = items \ {mem.auctions[id].item : id \in over}
  BY <1>3, <1>4, <1>5 DEF Update
<1>7. PICK m : m = Apply(mem, FlattenSeq(Q))
  OBVIOUS
<1>8. PICK n : n = nextId
  OBVIOUS
<1>9. Sound(mem, n) /\ items = HouseItems(mem) /\ over \subseteq Live(mem)
  BY <1>1, <1>3, <1>8 DEF Calm, Right
<1>10. /\ Sound(m, n) /\ FlattenSeq(Q) \in Seq(Statements)
       /\ HouseItems(m) = items \ {mem.auctions[id].item : id \in over}
       /\ Money(m) = Money(mem) /\ Units(m) = Units(mem)
  BY <1>4, <1>5, <1>7, <1>9, EndAll
<1>11. PICK tx \in Seq(Statements) : tx = FlattenSeq(Q)
  BY <1>10
<1>12. m = Apply(mem, tx) /\ mem' = m /\ pending' = Append(pending, tx)
  BY <1>6, <1>7, <1>11 DEF Change, CommitTransaction
<1>13. items' = HouseItems(m) /\ Sound(m, nextId)
  BY <1>6, <1>8, <1>10
<1>. QED
  BY <1>1, <1>2, <1>10, <1>12, <1>13, Commits

LEMMA TakeMoneySound ==
    ASSUME IInv, ~Overlap, NEW p \in Player, NEW money \in DOMAIN mem.letters[p],
           TakeMoney(p, money)
    PROVE  IInv'
<1>0. World \in Thread
  BY DEF Thread
<1>1. Calm /\ DOMAIN job' = Thread /\ \A u \in Thread : job'[u] = Idle
  BY <1>0, IdleIs DEF TakeMoney
<1>2. UNCHANGED <<items, db, nextId, due, restarts>>
  BY DEF TakeMoney
<1>3. PICK tx : tx = <<Pay(p, -money), TakeOut(p, money)>>
  OBVIOUS
<1>4. Change(tx)
  BY <1>3 DEF TakeMoney
<1>5. PICK m : m = Apply(mem, tx)
  OBVIOUS
<1>6. PICK n : n = nextId
  OBVIOUS
<1>7. Sound(mem, n) /\ mem \in Images
  BY <1>1, <1>6 DEF Calm, Right, Sound
<1>8. Sound(m, n) /\ SameItems(mem, m) /\ tx \in Seq(Statements)
      /\ Money(m) = Money(mem)
  BY <1>3, <1>5, <1>7, TakeOutSound
<1>9. mem' = m /\ pending' = Append(pending, tx)
  BY <1>4, <1>5 DEF Change, CommitTransaction
<1>10. items' = HouseItems(m)
  <2>1. m \in Images
    BY <1>8 DEF Sound
  <2>2. HouseItems(m) = HouseItems(mem)
    BY <1>7, <1>8, <2>1, SameItemsSound
  <2>. QED
    BY <1>1, <1>2, <2>2 DEF Calm
<1>11. Sound(m, nextId) /\ Units(m) = Units(mem)
  BY <1>6, <1>8, UnitsSame DEF SameItems
<1>. QED
  BY <1>1, <1>2, <1>5, <1>8, <1>9, <1>10, <1>11, Commits

LEMMA TakeItemSound ==
    ASSUME IInv, ~Overlap, NEW p \in Player, NEW g \in Guid, TakeItem(p, g)
    PROVE  IInv'
<1>0. World \in Thread
  BY DEF Thread
<1>1. Calm /\ DOMAIN job' = Thread /\ \A u \in Thread : job'[u] = Idle
  BY <1>0, IdleIs DEF TakeItem
<1>2. UNCHANGED <<items, db, nextId, due, restarts>> /\ mem.mailed[g] = p
  BY DEF TakeItem
<1>3. PICK im : im = mem
  OBVIOUS
<1>4. PICK n : n = nextId
  OBVIOUS
<1>5. Sound(im, n) /\ im.mailed[g] = p
  BY <1>1, <1>2, <1>3, <1>4 DEF Calm, Right
<1>6. ASSUME NEW tx \in Seq(Statements), Change(tx), Sound(Apply(im, tx), n),
             HouseItems(Apply(im, tx)) = HouseItems(im), Money(Apply(im, tx)) = Money(im),
             Units(Apply(im, tx)) = Units(im)
      PROVE  IInv'
  <2>1. PICK m : m = Apply(mem, tx)
    OBVIOUS
  <2>2. mem' = m /\ pending' = Append(pending, tx)
    BY <1>6, <2>1 DEF Change, CommitTransaction
  <2>3. Sound(m, nextId)
    BY <1>3, <1>4, <1>6, <2>1
  <2>4. items' = HouseItems(m)
    BY <1>1, <1>2, <1>3, <1>6, <2>1 DEF Calm
  <2>5. Money(m) = Money(mem) /\ Units(m) = Units(mem)
    BY <1>3, <1>6, <2>1
  <2>. QED
    BY <1>1, <1>2, <2>1, <2>2, <2>3, <2>4, <2>5, Commits
<1>7. CASE Change(<<Parcel(None, g), Set("inventory", g, p)>>)
  <2>1. PICK m : m = Apply(im, <<Parcel(None, g), Set("inventory", g, p)>>)
    OBVIOUS
  <2>2. /\ Sound(m, n) /\ HouseItems(m) = HouseItems(im)
        /\ <<Parcel(None, g), Set("inventory", g, p)>> \in Seq(Statements)
        /\ Money(m) = Money(im) /\ Units(m) = Units(im)
    BY <1>5, <2>1, OpenParcel
  <2>. QED
    BY <1>6, <1>7, <2>1, <2>2
<1>8. ASSUME NEW h \in Guid \ {g}, mem.inventory[h] = p,
             mem.stack[h] + mem.stack[g] <= MaxStack,
             Change(<<Parcel(None, g), Set("stack", g, 0),
                      Set("stack", h, mem.stack[h] + mem.stack[g])>>)
      PROVE  IInv'
  <2>1. PICK tx : tx = Merge(im, g, h)
    OBVIOUS
  <2>2. PICK m : m = Apply(im, tx)
    OBVIOUS
  <2>3. im.inventory[h] = p /\ im.stack[h] + im.stack[g] <= MaxStack
    BY <1>3, <1>8
  <2>4. Sound(m, n) /\ HouseItems(m) = HouseItems(im) /\ tx \in Seq(Statements)
        /\ Money(m) = Money(im) /\ Units(m) = Units(im)
    BY <1>5, <2>1, <2>2, <2>3, MergeParcel
  <2>5. Change(tx)
    BY <1>3, <1>8, <2>1 DEF Merge
  <2>. QED
    BY <1>6, <2>2, <2>4, <2>5
<1>. QED
  BY <1>7, <1>8 DEF TakeItem

LEMMA NextSound ==
    ASSUME IInv, ~Overlap, [Next]_vars
    PROVE  IInv'
<1>1. ASSUME NEW w \in Worker, WorkerStep(w) PROVE IInv'
  <2>1. CASE ReadAuctionId(w)
    BY <2>1, ReadAuctionIdSound
  <2>2. CASE ListWhole(w)
    BY <2>2, ListWholeSound
  <2>3. CASE ListSplit(w)
    BY <2>3, ListSplitSound
  <2>4. CASE AddAuctionItem(w)
    BY <2>4, AddAuctionItemSound
  <2>5. CASE AddAuction(w)
    BY <2>5, AddAuctionSound
  <2>6. CASE FinishBid(w)
    BY <2>6, FinishBidSound
  <2>. QED
    BY <1>1, <2>1, <2>2, <2>3, <2>4, <2>5, <2>6 DEF WorkerStep
<1>2. ASSUME NEW w \in Worker, Request(w) PROVE IInv'
  <2>1. ASSUME NEW p \in Player, NEW take \in Takes(p), NEW offer \in Offers,
               SellItem(w, p, take, offer)
        PROVE  IInv'
    BY <2>1, SellItemSound
  <2>2. ASSUME NEW p \in Player, NEW id \in AuctionId, NEW price \in Prices,
               PlaceBid(w, p, id, price)
        PROVE  IInv'
    BY <2>2, PlaceBidSound
  <2>. QED
    BY <1>2, <2>1, <2>2 DEF Request
<1>3. CASE WorldStep
  <2>1. ASSUME NEW p \in Player, NEW id \in AuctionId, CancelAuction(p, id) PROVE IInv'
    BY <2>1, CancelAuctionSound
  <2>2. ASSUME NEW p \in Player, NEW money \in DOMAIN mem.letters[p], TakeMoney(p, money)
        PROVE  IInv'
    BY <2>2, TakeMoneySound
  <2>3. ASSUME NEW p \in Player, NEW g \in Guid, TakeItem(p, g) PROVE IInv'
    BY <2>3, TakeItemSound
  <2>. QED
    BY <1>3, <2>1, <2>2, <2>3, UpdateSound, FinishCancelSound DEF WorldStep
<1>4. ASSUME NEW id \in AuctionId, Expire(id) PROVE IInv'
  BY <1>4, ExpireSound
<1>5. CASE ExecuteTransaction
  BY <1>5, ExecuteSound
<1>6. CASE Restart
  BY <1>6, ReloadSound DEF Restart
<1>7. CASE UNCHANGED vars
  BY <1>7, StutterSound
<1>. QED
  BY <1>1, <1>2, <1>3, <1>4, <1>5, <1>6, <1>7 DEF Next

LEMMA InvariantHolds == ~Overlap => (Spec => []IInv)
<1>1. ASSUME ~Overlap PROVE Spec => []IInv
  <2>1. Init => IInv
    BY InitIsSound
  <2>2. IInv /\ [Next]_vars => IInv'
    BY <1>1, NextSound
  <2>. QED
    BY <2>1, <2>2, PTL DEF Spec
<1>. QED
  BY <1>1
-----------------------------------------------------------------------------
(* PaysOnlyForGoods: what a statement does to each player's wealth.        *)
LEMMA GoldWealth ==
    ASSUME NEW im \in Images, NEW p \in Player, NEW v \in Nat,
           NEW im2, im2 = Perform(im, Set("gold", p, v))
    PROVE  /\ im2 \in Images
           /\ Wealth(im2, p) = Wealth(im, p) - im.gold[p] + v
           /\ \A q \in Player \ {p} : Wealth(im2, q) = Wealth(im, q)
<1>1. im2 \in Images /\ im2 = [im EXCEPT !.gold = [im.gold EXCEPT ![p] = v]]
  BY SetGold
<1>2. /\ im2.letters = im.letters /\ im2.auctions = im.auctions /\ im2.till = im.till
      /\ im2.gold = [im.gold EXCEPT ![p] = v]
  BY <1>1 DEF Images
<1>3. \A q \in Player : im2.gold[q] = IF q = p THEN v ELSE im.gold[q]
  BY <1>1, <1>2 DEF Images
<1>4. \A q \in Player \ {p} : Wealth(im2, q) = Wealth(im, q)
  BY <1>2, <1>3, WealthSame
<1>5. LetterMoney(im2, p) = LetterMoney(im, p) /\ BidTable(im2, p) = BidTable(im, p)
  BY <1>2 DEF LetterMoney, BidTable, BidsOf, Live
<1>6. Wealth(im2, p) = Wealth(im, p) - im.gold[p] + v
  <2>1. /\ Wealth(im, p) = im.gold[p] + LetterMoney(im, p) + SumFunction(BidTable(im, p))
        /\ im.gold[p] \in Nat /\ LetterMoney(im, p) \in Int
        /\ SumFunction(BidTable(im, p)) \in Int
    BY WealthIs
  <2>2. Wealth(im2, p) = im2.gold[p] + LetterMoney(im2, p) + SumFunction(BidTable(im2, p))
    BY <1>1, WealthIs
  <2>3. im2.gold[p] = v
    BY <1>3
  <2>. QED
    BY <1>5, <2>1, <2>2, <2>3
<1>. QED
  BY <1>1, <1>4, <1>6

(* The letters of p become c. *)
LEMMA LettersWealth ==
    ASSUME NEW im \in Images, NEW p \in Player, NEW c \in LetterBag,
           NEW im2 \in Images, im2 = [im EXCEPT !.letters = [im.letters EXCEPT ![p] = c]]
    PROVE  /\ Wealth(im2, p) = Wealth(im, p) - BagMoney(im.letters[p]) + BagMoney(c)
           /\ \A q \in Player \ {p} : Wealth(im2, q) = Wealth(im, q)
           /\ BagMoney(im.letters[p]) \in Int /\ BagMoney(c) \in Int
<1>1. /\ im2.gold = im.gold /\ im2.auctions = im.auctions
      /\ im2.letters = [im.letters EXCEPT ![p] = c]
  BY DEF Images
<1>2. im.letters \in [Player -> LetterBag]
  BY DEF Images
<1>3. \A q \in Player : im2.letters[q] = IF q = p THEN c ELSE im.letters[q]
  BY <1>1, <1>2
<1>4. \A q \in Player \ {p} : Wealth(im2, q) = Wealth(im, q)
  <2>. TAKE q \in Player \ {p}
  <2>1. /\ im.gold[q] = im2.gold[q] /\ im.letters[q] = im2.letters[q]
        /\ im.auctions = im2.auctions
    BY <1>1, <1>3
  <2>. QED
    BY <2>1, WealthSame
<1>5. BidTable(im2, p) = BidTable(im, p)
  BY <1>1 DEF BidTable, BidsOf, Live
<1>6. LetterMoney(im2, p) = BagMoney(c) /\ LetterMoney(im, p) = BagMoney(im.letters[p])
  BY <1>3 DEF LetterMoney, BagMoney
<1>7. /\ Wealth(im, p) = im.gold[p] + LetterMoney(im, p) + SumFunction(BidTable(im, p))
      /\ im.gold[p] \in Nat /\ LetterMoney(im, p) \in Int
      /\ SumFunction(BidTable(im, p)) \in Int
  BY WealthIs
<1>8. /\ Wealth(im2, p) = im2.gold[p] + LetterMoney(im2, p) + SumFunction(BidTable(im2, p))
      /\ LetterMoney(im2, p) \in Int
  BY WealthIs
<1>9. Wealth(im2, p) = Wealth(im, p) - LetterMoney(im, p) + LetterMoney(im2, p)
  BY <1>1, <1>5, <1>7, <1>8
<1>. QED
  BY <1>4, <1>6, <1>7, <1>8, <1>9

(* What q has in an auction. *)
Held(a, q) == IF a = None THEN 0 ELSE IF a.bidder = q THEN a.bid ELSE 0

LEMMA HeldIs ==
    ASSUME NEW a \in AuctionEntry \cup {None}, NEW q \in Player
    PROVE  Held(a, q) \in Nat
BY DEF Held, AuctionEntry

LEMMA WithoutHeld ==
    ASSUME NEW im \in Images, NEW id \in AuctionId, NEW q \in Player,
           NEW im2 \in Images, im2 = [im EXCEPT !.auctions = [im.auctions EXCEPT ![id] = None]]
    PROVE  Wealth(im2, q) = Wealth(im, q) - Held(im.auctions[id], q)
<1>1. /\ im2.gold = im.gold /\ im2.letters = im.letters
      /\ im2.auctions = [im.auctions EXCEPT ![id] = None]
  BY DEF Images
<1>2. \A i \in AuctionId : im2.auctions[i] = IF i = id THEN None ELSE im.auctions[i]
  BY <1>1 DEF Images
<1>3. /\ Live(im2) = Live(im) \ {id}
      /\ \A i \in Live(im2) : im2.auctions[i] = im.auctions[i]
  BY <1>2 DEF Live
<1>4. PICK a : a = im.auctions[id]
  OBVIOUS
<1>5. LetterMoney(im2, q) = LetterMoney(im, q)
  BY <1>1 DEF LetterMoney
<1>6. PICK f : f = BidTable(im, q)
  OBVIOUS
<1>7. PICK g : g = BidTable(im2, q)
  OBVIOUS
<1>8. /\ DOMAIN f = BidsOf(im, q) /\ IsFiniteSet(BidsOf(im, q))
      /\ \A i \in BidsOf(im, q) : f[i] = im.auctions[i].bid /\ im.auctions[i].bid \in Int
      /\ SumFunction(f) \in Int
  BY <1>6, BidsCount
<1>9. /\ DOMAIN g = BidsOf(im2, q) /\ SumFunction(g) \in Int
      /\ \A i \in BidsOf(im2, q) : g[i] = im2.auctions[i].bid
  BY <1>7, BidsCount
<1>10. /\ BidsOf(im2, q) = BidsOf(im, q) \ {id}
       /\ \A i \in BidsOf(im2, q) : im2.auctions[i] = im.auctions[i]
  BY <1>3 DEF BidsOf
<1>11. /\ Wealth(im, q) = im.gold[q] + LetterMoney(im, q) + SumFunction(f)
       /\ im.gold[q] \in Nat /\ LetterMoney(im, q) \in Int
  BY <1>6, WealthIs
<1>12. Wealth(im2, q) = im2.gold[q] + LetterMoney(im2, q) + SumFunction(g)
  BY <1>7, WealthIs
<1>13. \A i \in DOMAIN g : g[i] = f[i]
  BY <1>8, <1>9, <1>10
<1>14. CASE id \notin BidsOf(im, q)
  <2>1. Held(a, q) = 0
    BY <1>4, <1>14 DEF BidsOf, Live, Held
  <2>2. IsFiniteSet(DOMAIN f) /\ DOMAIN g = DOMAIN f
    BY <1>8, <1>9, <1>10, <1>14
  <2>3. \A i \in DOMAIN f : g[i] = f[i]
    BY <1>13, <2>2
  <2>4. SumFunction(g) = SumFunction(f)
    BY <2>2, <2>3, SumSame
  <2>. QED
    BY <1>1, <1>4, <1>5, <1>8, <1>11, <1>12, <2>1, <2>4
<1>15. CASE id \in BidsOf(im, q)
  <2>1. f[id] = Held(a, q) /\ Held(a, q) \in Int
    BY <1>4, <1>8, <1>15 DEF BidsOf, Live, Held
  <2>2. IsFiniteSet(DOMAIN f) /\ \A y \in DOMAIN f : f[y] \in Int
    BY <1>8
  <2>3. id \in DOMAIN f /\ DOMAIN g = DOMAIN f \ {id}
    BY <1>8, <1>9, <1>10, <1>15
  <2>4. SumFunction(f) = f[id] + SumFunction(g)
    BY <1>13, <2>2, <2>3, SumRemove
  <2>. QED
    BY <1>1, <1>4, <1>5, <1>8, <1>9, <1>11, <1>12, <2>1, <2>4
<1>. QED
  BY <1>14, <1>15

LEMMA AuctionWealth ==
    ASSUME NEW im \in Images, NEW id \in AuctionId, NEW v \in AuctionEntry \cup {None},
           NEW im2, im2 = Perform(im, Set("auctions", id, v)), NEW q \in Player
    PROVE  /\ im2 \in Images
           /\ Wealth(im2, q) = Wealth(im, q) - Held(im.auctions[id], q) + Held(v, q)
<1>1. im2 \in Images /\ im2 = [im EXCEPT !.auctions = [im.auctions EXCEPT ![id] = v]]
  BY SetAuction
<1>2. im2.auctions = [im.auctions EXCEPT ![id] = v]
  BY <1>1 DEF Images
<1>3. PICK im0 : im0 = [im EXCEPT !.auctions = [im.auctions EXCEPT ![id] = None]]
  OBVIOUS
<1>4. im0 \in Images
  BY <1>3 DEF Images
<1>5. Wealth(im0, q) = Wealth(im, q) - Held(im.auctions[id], q)
  BY <1>3, <1>4, WithoutHeld
<1>6. im0 = [im2 EXCEPT !.auctions = [im2.auctions EXCEPT ![id] = None]]
  <2>1. [im2.auctions EXCEPT ![id] = None] = [im.auctions EXCEPT ![id] = None]
    BY <1>2 DEF Images
  <2>2. \A x : [im2 EXCEPT !.auctions = x] = [im EXCEPT !.auctions = x]
    BY <1>1 DEF Images
  <2>. QED
    BY <1>3, <2>1, <2>2
<1>7. im2.auctions[id] = v /\ im.auctions[id] \in AuctionEntry \cup {None}
  BY <1>2 DEF Images
<1>8. Wealth(im0, q) = Wealth(im2, q) - Held(v, q)
  <2>0. PICK b \in Images, c \in Images :
           b = im2 /\ c = im0 /\ c = [b EXCEPT !.auctions = [b.auctions EXCEPT ![id] = None]]
    BY <1>1, <1>4, <1>6
  <2>1. Wealth(c, q) = Wealth(b, q) - Held(b.auctions[id], q)
    BY <2>0, WithoutHeld
  <2>. QED
    BY <1>7, <2>0, <2>1
<1>9. /\ Wealth(im, q) \in Int /\ Wealth(im2, q) \in Int
      /\ Held(v, q) \in Int /\ Held(im.auctions[id], q) \in Int
  BY <1>1, <1>7, HeldIs, WealthIs
<1>. QED
  BY <1>1, <1>5, <1>8, <1>9

-----------------------------------------------------------------------------
(* The same for transactions.                                              *)
(* While the purses are as in memory, tx adds c[q] to the wealth of each   *)
(* player q; a grant does so whatever is in the purses.                    *)
Bill(tx, c) ==
    /\ \E d : Payment(tx, d)
    /\ c \in [Player -> Int]
    /\ \A im \in Images : im.gold = mem.gold =>
          \A q \in Player : Wealth(Apply(im, tx), q) = Wealth(im, q) + c[q]

Grant(tx, c) ==
    /\ \E d : Gift(tx, d)
    /\ c \in [Player -> Int]
    /\ \A im \in Images, q \in Player : Wealth(Apply(im, tx), q) = Wealth(im, q) + c[q]

To(p, x) == [q \in Player |-> IF q = p THEN x ELSE 0]
Both(c, d) == [q \in Player |-> c[q] + d[q]]

LEMMA ToIs ==
    ASSUME NEW p \in Player, NEW x \in Int
    PROVE  /\ To(p, x) \in [Player -> Int]
           /\ \A q \in Player : To(p, x)[q] = IF q = p THEN x ELSE 0
BY DEF To

LEMMA BothIs ==
    ASSUME NEW c \in [Player -> Int], NEW d \in [Player -> Int]
    PROVE  /\ Both(c, d) \in [Player -> Int]
           /\ \A q \in Player : Both(c, d)[q] = c[q] + d[q]
BY DEF Both

LEMMA GrantIsBill == ASSUME NEW tx, NEW c, Grant(tx, c) PROVE Bill(tx, c)
BY GiftIsPayment DEF Grant, Bill

LEMMA GrantAnd ==
    ASSUME NEW s, NEW c, Grant(s, c), NEW t, NEW d
    PROVE  /\ Bill(t, d) => Bill(s \o t, Both(c, d))
           /\ Grant(t, d) => Grant(s \o t, Both(c, d))
<1>1. PICK x : Gift(s, x)
  BY DEF Grant
<1>2. s \in Seq(Statements) /\ c \in [Player -> Int]
  BY <1>1 DEF Gift, Grant
<1>3. ASSUME NEW im \in Images, t \in Seq(Statements), d \in [Player -> Int],
             NEW im1, im1 = Apply(im, s)
      PROVE  /\ Apply(im, s \o t) = Apply(im1, t)
             /\ im1 \in Images /\ im1.gold = im.gold
             /\ \A q \in Player : /\ Wealth(im1, q) = Wealth(im, q) + c[q]
                                  /\ Wealth(im, q) \in Int /\ c[q] \in Int /\ d[q] \in Int
                                  /\ Both(c, d)[q] = c[q] + d[q]
  <2>1. Apply(im, s \o t) = Apply(im1, t)
    BY <1>2, <1>3, ApplyConcat
  <2>2. im1 \in Images /\ im1.gold = im.gold
    BY <1>1, <1>3 DEF Gift
  <2>3. \A q \in Player : Wealth(im1, q) = Wealth(im, q) + c[q]
    BY <1>3 DEF Grant
  <2>. QED
    BY <1>2, <1>3, <2>1, <2>2, <2>3, WealthIs, BothIs
<1>4. ASSUME Bill(t, d) PROVE Bill(s \o t, Both(c, d))
  <2>1. PICK y : Payment(t, y)
    BY <1>4 DEF Bill
  <2>2. t \in Seq(Statements) /\ d \in [Player -> Int]
    BY <1>4, <2>1 DEF Payment, Bill
  <2>3. Payment(s \o t, x + y) /\ Both(c, d) \in [Player -> Int]
    BY <1>1, <1>2, <2>1, <2>2, GiftAnd, BothIs
  <2>4. ASSUME NEW im \in Images, im.gold = mem.gold, NEW q \in Player
        PROVE  Wealth(Apply(im, s \o t), q) = Wealth(im, q) + Both(c, d)[q]
    <3>1. PICK im1 : im1 = Apply(im, s)
      OBVIOUS
    <3>2. /\ Apply(im, s \o t) = Apply(im1, t)
          /\ im1 \in Images /\ im1.gold = im.gold
          /\ Wealth(im1, q) = Wealth(im, q) + c[q]
          /\ Wealth(im, q) \in Int /\ c[q] \in Int /\ d[q] \in Int
          /\ Both(c, d)[q] = c[q] + d[q]
      BY <1>3, <2>2, <3>1
    <3>3. Wealth(Apply(im1, t), q) = Wealth(im1, q) + d[q]
      BY <1>4, <2>4, <3>2 DEF Bill
    <3>. QED
      BY <3>2, <3>3
  <2>. QED
    BY <2>3, <2>4 DEF Bill
<1>5. ASSUME Grant(t, d) PROVE Grant(s \o t, Both(c, d))
  <2>1. PICK y : Gift(t, y)
    BY <1>5 DEF Grant
  <2>2. t \in Seq(Statements) /\ d \in [Player -> Int]
    BY <1>5, <2>1 DEF Gift, Grant
  <2>3. Gift(s \o t, x + y) /\ Both(c, d) \in [Player -> Int]
    BY <1>1, <1>2, <2>1, <2>2, GiftAnd, BothIs
  <2>4. ASSUME NEW im \in Images, NEW q \in Player
        PROVE  Wealth(Apply(im, s \o t), q) = Wealth(im, q) + Both(c, d)[q]
    <3>1. PICK im1 : im1 = Apply(im, s)
      OBVIOUS
    <3>2. /\ Apply(im, s \o t) = Apply(im1, t)
          /\ im1 \in Images /\ im1.gold = im.gold
          /\ Wealth(im1, q) = Wealth(im, q) + c[q]
          /\ Wealth(im, q) \in Int /\ c[q] \in Int /\ d[q] \in Int
          /\ Both(c, d)[q] = c[q] + d[q]
      BY <1>3, <2>2, <3>1
    <3>3. Wealth(Apply(im1, t), q) = Wealth(im1, q) + d[q]
      BY <1>5, <3>2 DEF Grant
    <3>. QED
      BY <3>2, <3>3
  <2>. QED
    BY <2>3, <2>4 DEF Grant
<1>. QED
  BY <1>4, <1>5

LEMMA BillAnd ==
    ASSUME NEW s, NEW c, Bill(s, c), NEW t, NEW d, Grant(t, d)
    PROVE  Bill(s \o t, Both(c, d))
<1>1. PICK x, y : Payment(s, x) /\ Gift(t, y)
  BY DEF Bill, Grant
<1>2. /\ s \in Seq(Statements) /\ t \in Seq(Statements)
      /\ c \in [Player -> Int] /\ d \in [Player -> Int]
  BY <1>1 DEF Payment, Gift, Bill, Grant
<1>3. Payment(s \o t, x + y) /\ Both(c, d) \in [Player -> Int]
  BY <1>1, <1>2, PaymentAnd, BothIs
<1>4. ASSUME NEW im \in Images, im.gold = mem.gold, NEW q \in Player
      PROVE  Wealth(Apply(im, s \o t), q) = Wealth(im, q) + Both(c, d)[q]
  <2>1. PICK im1 : im1 = Apply(im, s)
    OBVIOUS
  <2>2. Apply(im, s \o t) = Apply(im1, t)
    BY <1>2, <2>1, ApplyConcat
  <2>3. im1 \in Images
    BY <1>1, <2>1 DEF Payment
  <2>4. Wealth(im1, q) = Wealth(im, q) + c[q]
    BY <1>4, <2>1 DEF Bill
  <2>5. Wealth(Apply(im1, t), q) = Wealth(im1, q) + d[q]
    BY <2>3 DEF Grant
  <2>6. Wealth(im, q) \in Int /\ c[q] \in Int /\ d[q] \in Int /\ Both(c, d)[q] = c[q] + d[q]
    BY <1>2, WealthIs, BothIs
  <2>. QED
    BY <2>2, <2>4, <2>5, <2>6
<1>. QED
  BY <1>3, <1>4 DEF Bill

LEMMA PayIsBill ==
    ASSUME mem \in Images, NEW p \in Player, NEW money \in Int, mem.gold[p] >= money
    PROVE  Bill(<<Pay(p, money)>>, To(p, -money))
<1>1. mem.gold[p] \in Nat /\ -money \in Int
  BY DEF Images
<1>2. PICK v \in Nat : v = mem.gold[p] - money
  BY <1>1
<1>3. PICK s \in Statements : s = Pay(p, money) /\ Payment(<<s>>, -money)
  BY PayIsPayment
<1>4. s = Set("gold", p, v)
  BY <1>1, <1>2, <1>3 DEF Pay
<1>5. PICK c \in [Player -> Int] :
         c = To(p, -money) /\ \A q \in Player : c[q] = IF q = p THEN -money ELSE 0
  BY <1>1, ToIs
<1>6. ASSUME NEW im \in Images, im.gold = mem.gold, NEW q \in Player
      PROVE  Wealth(Apply(im, <<s>>), q) = Wealth(im, q) + c[q]
  <2>1. PICK im2 : im2 = Perform(im, Set("gold", p, v))
    OBVIOUS
  <2>2. Apply(im, <<s>>) = im2
    BY <1>4, <2>1, ApplyFew
  <2>3. /\ Wealth(im2, p) = Wealth(im, p) - im.gold[p] + v
        /\ \A r \in Player \ {p} : Wealth(im2, r) = Wealth(im, r)
    BY <2>1, GoldWealth
  <2>4. Wealth(im, q) \in Int
    BY WealthIs
  <2>. QED
    BY <1>1, <1>2, <1>5, <1>6, <2>2, <2>3, <2>4
<1>7. Bill(<<s>>, c)
  BY <1>3, <1>6 DEF Bill
<1>. QED
  BY <1>3, <1>5, <1>7

LEMMA LetterIsGrant ==
    ASSUME NEW p \in Player, NEW m \in Nat \ {0}
    PROVE  Grant(<<Letter(p, m)>>, To(p, m))
<1>1. PICK s \in Statements : s = Letter(p, m) /\ Gift(<<s>>, m)
  BY LetterIsGift
<1>2. PICK c \in [Player -> Int] :
         c = To(p, m) /\ \A q \in Player : c[q] = IF q = p THEN m ELSE 0
  BY ToIs
<1>3. ASSUME NEW im \in Images, NEW q \in Player
      PROVE  Wealth(Apply(im, <<s>>), q) = Wealth(im, q) + c[q]
  <2>1. PICK im2 : im2 = Perform(im, Letter(p, m))
    OBVIOUS
  <2>2. Apply(im, <<s>>) = im2
    BY <1>1, <2>1, ApplyFew
  <2>3. im.letters[p] \in LetterBag
    BY DEF Images
  <2>4. PICK b \in LetterBag : b = im.letters[p] (+) SetToBag({m})
    BY <2>3, LetterAdded
  <2>5. im2 \in Images /\ im2 = [im EXCEPT !.letters = [im.letters EXCEPT ![p] = b]]
    <3>1. /\ Perform(im, Letter(p, m)) =
                [im EXCEPT !.letters = [im.letters EXCEPT ![p] = @ (+) SetToBag({m})]]
          /\ Perform(im, Letter(p, m)) \in Images
      BY PerformLetter
    <3>. QED
      BY <2>1, <2>4, <3>1, Zenon
  <2>6. /\ Wealth(im2, p) = Wealth(im, p) - BagMoney(im.letters[p]) + BagMoney(b)
        /\ \A r \in Player \ {p} : Wealth(im2, r) = Wealth(im, r)
        /\ BagMoney(im.letters[p]) \in Int /\ BagMoney(b) \in Int
    BY <2>5, LettersWealth
  <2>7. BagMoney(b) = BagMoney(im.letters[p]) + m
    BY <2>3, <2>4, BagAdded
  <2>8. Wealth(im, q) \in Int /\ Wealth(im, p) \in Int
    BY WealthIs
  <2>. QED
    BY <1>2, <2>2, <2>6, <2>7, <2>8
<1>4. Grant(<<s>>, c)
  BY <1>1, <1>2, <1>3 DEF Grant
<1>. QED
  BY <1>1, <1>2, <1>4

Nothing == [q \in Player |-> 0]

LEMMA ToTillIsGrant ==
    ASSUME NEW m \in Int
    PROVE  Grant(<<ToTill(m)>>, Nothing)
<1>1. PICK s \in Statements : s = ToTill(m) /\ Gift(<<s>>, m)
  BY ToTillIsGift
<1>2. Nothing \in [Player -> Int] /\ \A q \in Player : Nothing[q] = 0
  BY DEF Nothing
<1>3. ASSUME NEW im \in Images, NEW q \in Player
      PROVE  Wealth(Apply(im, <<s>>), q) = Wealth(im, q) + Nothing[q]
  <2>1. PICK im2 : im2 = Perform(im, ToTill(m))
    OBVIOUS
  <2>2. Apply(im, <<s>>) = im2
    BY <1>1, <2>1, ApplyFew
  <2>3. im2 = [im EXCEPT !.till = im.till + m]
    BY <2>1, SetTill
  <2>4. im2.gold = im.gold /\ im2.auctions = im.auctions /\ im2.letters = im.letters
    BY <2>3 DEF Images
  <2>5. Wealth(im2, q) = Wealth(im, q)
    BY <2>4, WealthSame
  <2>6. Wealth(im, q) \in Int
    BY WealthIs
  <2>. QED
    BY <1>2, <2>2, <2>5, <2>6
<1>4. Grant(<<s>>, Nothing)
  BY <1>1, <1>2, <1>3 DEF Grant
<1>. QED
  BY <1>1, <1>4

LEMMA NoGrant == Grant(<<>>, Nothing)
<1>1. Nothing \in [Player -> Int] /\ \A q \in Player : Nothing[q] = 0
  BY DEF Nothing
<1>2. ASSUME NEW im \in Images, NEW q \in Player PROVE Wealth(im, q) = Wealth(im, q) + 0
  BY WealthIs
<1>. QED
  BY <1>1, <1>2, NoGift, ApplyEmpty DEF Grant

-----------------------------------------------------------------------------
(* What the mails and payments of the house do to it.                      *)
(* The seller loses nothing, and nobody else is concerned. *)
LEMMA SuccessIsGrant ==
    ASSUME NEW a \in AuctionEntry, a.bid > 0
    PROVE  \E c : /\ Grant(SendAuctionSuccessfulMail(a), c)
                  /\ \A q \in Player : c[q] \in Nat
<1>1. PICK r \in 0..a.bid : r = GetAuctionCut(a)
  BY AuctionCut
<1>2. a.bid \in Nat /\ Deposit \in Nat \ {0} /\ a.owner \in Player
  BY ConstantsAssumption DEF AuctionEntry
<1>3. PICK x \in Nat \ {0} : x = a.bid + Deposit - r
  BY <1>2
<1>4. PICK y \in Int : y = r - Deposit
  BY <1>2
<1>5. PICK s \in Statements : s = Letter(a.owner, x)
  BY <1>2, LetterIsGift
<1>6. PICK t \in Statements : t = ToTill(y)
  BY ToTillIsGift
<1>7. PICK d \in [Player -> Int] :
         d = To(a.owner, x) /\ \A q \in Player : d[q] = IF q = a.owner THEN x ELSE 0
  BY <1>2, ToIs
<1>8. Nothing \in [Player -> Int] /\ \A q \in Player : Nothing[q] = 0
  BY DEF Nothing
<1>9. Grant(<<s>>, d)
  BY <1>2, <1>5, <1>7, LetterIsGrant
<1>10. Grant(<<t>>, Nothing)
  BY <1>6, ToTillIsGrant
<1>11. PICK c : c = Both(d, Nothing)
  OBVIOUS
<1>12. Grant(<<s>> \o <<t>>, c)
  BY <1>9, <1>10, <1>11, GrantAnd
<1>13. \A q \in Player : c[q] \in Nat
  BY <1>7, <1>8, <1>11, BothIs
<1>14. SendAuctionSuccessfulMail(a) = <<s>> \o <<t>>
  <2>1. SendAuctionSuccessfulMail(a) = <<s, t>>
    BY <1>1, <1>3, <1>4, <1>5, <1>6 DEF SendAuctionSuccessfulMail
  <2>. QED
    BY <2>1, PairIs
<1>. QED
  BY <1>12, <1>13, <1>14

(* The bidder pays what he then has in the auction, and who is outbid gets *)
(* what he had there.                                                      *)
LEMMA OutbidIsBill ==
    ASSUME mem \in Images, NEW a \in AuctionEntry, NEW p \in Player, NEW price \in Nat,
           a.bidder # None => a.bid > 0, mem.gold[p] >= price
    PROVE  \E c : /\ Bill(Outbid(a, p, price), c)
                  /\ \A q \in Player : c[q] = Held(a, q) - (IF q = p THEN price ELSE 0)
<1>1. /\ a.bid \in Nat /\ a.bidder \in Player \cup {None} /\ a # None /\ mem.gold[p] \in Nat
      /\ None \notin Player
  BY ConstantsAssumption DEF AuctionEntry, Images
<1>2. \A q \in Player : Held(a, q) = IF a.bidder = q THEN a.bid ELSE 0
  BY <1>1 DEF Held
<1>3. CASE a.bidder = p
  <2>1. PICK x \in Int : x = price - a.bid
    BY <1>1
  <2>2. mem.gold[p] >= x /\ -x \in Int
    BY <1>1, <2>1
  <2>3. PICK c : c = To(p, -x)
    OBVIOUS
  <2>4. Bill(<<Pay(p, x)>>, c) /\ \A q \in Player : c[q] = IF q = p THEN -x ELSE 0
    BY <2>2, <2>3, PayIsBill, ToIs
  <2>5. \A q \in Player : c[q] = Held(a, q) - (IF q = p THEN price ELSE 0)
    BY <1>1, <1>2, <1>3, <2>1, <2>4
  <2>6. Outbid(a, p, price) = <<Pay(p, x)>>
    BY <1>3, <2>1 DEF Outbid
  <2>. QED
    BY <2>4, <2>5, <2>6
<1>4. PICK x \in Int : x = price /\ -x \in Int
  OBVIOUS
<1>5. PICK c : c = To(p, -x)
  OBVIOUS
<1>6. /\ Bill(<<Pay(p, x)>>, c) /\ c \in [Player -> Int]
      /\ \A q \in Player : c[q] = IF q = p THEN -x ELSE 0
  BY <1>4, <1>5, PayIsBill, ToIs
<1>7. CASE a.bidder # p /\ a.bidder = None
  <2>1. \A q \in Player : c[q] = Held(a, q) - (IF q = p THEN price ELSE 0)
    BY <1>1, <1>2, <1>4, <1>6, <1>7
  <2>2. Outbid(a, p, price) = <<Pay(p, x)>>
    BY <1>7, <1>4 DEF Outbid
  <2>. QED
    BY <1>6, <2>1, <2>2
<1>8. CASE a.bidder # p /\ a.bidder # None
  <2>1. PICK s : s = SendAuctionOutbiddedMail(a)
    OBVIOUS
  <2>2. PICK b \in Player, m \in Nat \ {0} : b = a.bidder /\ m = a.bid
    BY <1>1, <1>8
  <2>3. PICK d : d = To(b, m)
    OBVIOUS
  <2>4. /\ Grant(s, d) /\ d \in [Player -> Int]
        /\ \A q \in Player : d[q] = IF q = b THEN m ELSE 0
    <3>1. s = <<Letter(b, m)>>
      BY <2>1, <2>2 DEF SendAuctionOutbiddedMail
    <3>2. Grant(<<Letter(b, m)>>, d)
      BY <2>3, LetterIsGrant
    <3>. QED
      BY <2>3, <3>1, <3>2, ToIs
  <2>5. PICK e : e = Both(d, c)
    OBVIOUS
  <2>6. Bill(s \o <<Pay(p, x)>>, e) /\ \A q \in Player : e[q] = d[q] + c[q]
    BY <1>6, <2>4, <2>5, GrantAnd, BothIs
  <2>7. \A q \in Player : e[q] = Held(a, q) - (IF q = p THEN price ELSE 0)
    BY <1>1, <1>2, <1>4, <1>6, <1>8, <2>2, <2>4, <2>6
  <2>8. Outbid(a, p, price) = s \o <<Pay(p, x)>>
    BY <1>8, <1>4, <2>1 DEF Outbid
  <2>. QED
    BY <2>6, <2>7, <2>8
<1>. QED
  BY <1>3, <1>7, <1>8

(* Only who cancels pays; the bidder gets back what he has in the auction. *)
LEMMA RefundIsBill ==
    ASSUME mem \in Images, NEW a \in AuctionEntry, a.bidder # None => a.bid > 0,
           ~(a.bidder # None /\ mem.gold[a.owner] < GetAuctionCut(a))
    PROVE  \E c : /\ Bill(Refund(a), c)
                  /\ \A q \in Player \ {a.owner} : c[q] = Held(a, q)
<1>1. /\ a.bid \in Nat /\ a.bidder \in Player \cup {None} /\ a.owner \in Player /\ a # None
      /\ None \notin Player
  BY ConstantsAssumption DEF AuctionEntry
<1>2. \A q \in Player : Held(a, q) = IF a.bidder = q THEN a.bid ELSE 0
  BY <1>1 DEF Held
<1>3. Nothing \in [Player -> Int] /\ \A q \in Player : Nothing[q] = 0
  BY DEF Nothing
<1>4. CASE a.bidder = None
  <2>1. Refund(a) = <<>> /\ Bill(<<>>, Nothing)
    BY <1>4, NoGrant, GrantIsBill DEF Refund
  <2>2. \A q \in Player : Held(a, q) = 0
    BY <1>1, <1>2, <1>4
  <2>. QED
    BY <1>3, <2>1, <2>2
<1>5. CASE a.bidder # None
  <2>1. PICK u : u = SendAuctionCancelledToBidderMail(a)
    OBVIOUS
  <2>2. PICK b \in Player, m \in Nat \ {0} : b = a.bidder /\ m = a.bid
    BY <1>1, <1>5
  <2>3. PICK d : d = To(b, m)
    OBVIOUS
  <2>4. /\ Grant(u, d) /\ d \in [Player -> Int]
        /\ \A q \in Player : d[q] = IF q = b THEN m ELSE 0
    BY <2>1, <2>2, <2>3, LetterIsGrant, ToIs DEF SendAuctionCancelledToBidderMail
  <2>5. PICK r \in Int : r = GetAuctionCut(a) /\ -r \in Int
    BY AuctionCut
  <2>6. mem.gold[a.owner] >= r
    BY <1>1, <1>5, <2>5 DEF Images
  <2>7. PICK s \in Statements : s = Pay(a.owner, r)
    BY <1>1, <2>6, PayIsPayment
  <2>8. PICK t \in Statements : t = ToTill(r)
    BY ToTillIsGift
  <2>9. PICK c : c = To(a.owner, -r)
    OBVIOUS
  <2>10. /\ Bill(<<s>>, c) /\ c \in [Player -> Int]
         /\ \A q \in Player : c[q] = IF q = a.owner THEN -r ELSE 0
    <3>1. PICK o \in Player : o = a.owner
      BY <1>1
    <3>2. Bill(<<Pay(o, r)>>, To(o, -r))
      BY <2>6, <3>1, PayIsBill
    <3>3. /\ To(o, -r) \in [Player -> Int]
          /\ \A q \in Player : To(o, -r)[q] = IF q = o THEN -r ELSE 0
      BY <2>5, ToIs
    <3>. QED
      BY <2>7, <2>9, <3>1, <3>2, <3>3
  <2>11. PICK e : e = Both(c, Nothing)
    OBVIOUS
  <2>12. /\ Bill(<<s>> \o <<t>>, e) /\ e \in [Player -> Int]
         /\ \A q \in Player : e[q] = c[q] + Nothing[q]
    BY <1>3, <2>8, <2>10, <2>11, ToTillIsGrant, BillAnd, BothIs
  <2>13. Bill(<<s, t>>, e)
    BY <2>12, PairIs
  <2>14. PICK f : f = Both(d, e)
    OBVIOUS
  <2>15. Bill(u \o <<s, t>>, f) /\ \A q \in Player : f[q] = d[q] + e[q]
    BY <2>4, <2>12, <2>13, <2>14, GrantAnd, BothIs
  <2>16. \A q \in Player \ {a.owner} : f[q] = Held(a, q)
    <3>. TAKE q \in Player \ {a.owner}
    <3>1. /\ f[q] = d[q] + e[q] /\ e[q] = c[q] + 0 /\ c[q] = 0
          /\ d[q] = IF q = b THEN m ELSE 0
      BY <1>3, <2>4, <2>10, <2>12, <2>15
    <3>2. Held(a, q) = d[q]
      BY <1>2, <2>2, <3>1
    <3>3. d[q] \in Int
      BY <2>4
    <3>. QED
      BY <3>1, <3>2, <3>3
  <2>17. Refund(a) = u \o <<s, t>>
    BY <1>5, <2>1, <2>5, <2>7, <2>8 DEF Refund
  <2>. QED
    BY <2>15, <2>16, <2>17
<1>. QED
  BY <1>4, <1>5

LEMMA DeleteWealth ==
    ASSUME NEW im \in Images, NEW id \in AuctionId, NEW im2, im2 = Perform(im, DeleteAuction(id))
    PROVE  /\ im2 \in Images
           /\ im2 = [im EXCEPT !.auctions = [im.auctions EXCEPT ![id] = None]]
           /\ \A q \in Player : Wealth(im2, q) = Wealth(im, q) - Held(im.auctions[id], q)
<1>1. PICK v \in AuctionEntry \cup {None} : v = None
  OBVIOUS
<1>2. im2 = Perform(im, Set("auctions", id, v))
  BY <1>1 DEF DeleteAuction
<1>3. im2 \in Images /\ im2 = [im EXCEPT !.auctions = [im.auctions EXCEPT ![id] = v]]
  BY <1>2, SetAuction
<1>4. ASSUME NEW q \in Player
      PROVE  Wealth(im2, q) = Wealth(im, q) - Held(im.auctions[id], q)
  <2>1. Wealth(im2, q) = Wealth(im, q) - Held(im.auctions[id], q) + Held(v, q)
    BY <1>2, AuctionWealth
  <2>2. Held(v, q) = 0
    BY <1>1 DEF Held
  <2>3. im.auctions[id] \in AuctionEntry \cup {None}
    BY DEF Images
  <2>4. PICK a \in AuctionEntry \cup {None} : a = im.auctions[id]
    BY <2>3
  <2>5. Wealth(im, q) \in Int /\ Held(a, q) \in Int
    BY WealthIs, HeldIs
  <2>. QED
    BY <2>1, <2>2, <2>4, <2>5
<1>. QED
  BY <1>1, <1>3, <1>4

(* The end of an auction takes from each what he has in it. *)
LEMMA EndWealth ==
    ASSUME NEW im \in Images, NEW id \in Live(im), NEW p \in Player,
           NEW g, g = im.auctions[id].item, NEW u \in Seq(Statements),
           NEW im1 \in Images, im1 = Apply(im, u), SameItems(im, im1),
           NEW im2, im2 = Apply(im, PaidEnd(u, p, g, id))
    PROVE  /\ im2 \in Images /\ im2.gold = im1.gold
           /\ im2.mailed = [im.mailed EXCEPT ![g] = p]
           /\ \A q \in Player : Wealth(im2, q) = Wealth(im1, q) - Held(im.auctions[id], q)
<1>1. id \in AuctionId /\ im.auctions[id] \in AuctionEntry /\ g \in Guid
  BY LiveIs DEF AuctionEntry
<1>2. PICK s \in Statements : s = Parcel(p, g)
  BY <1>1 DEF Parcel, Set, Statements
<1>3. PICK t \in Statements : t = DeleteAuction(id)
  BY <1>1 DEF DeleteAuction, Set, Statements
<1>4. PICK im3 : im3 = Perform(im1, s)
  OBVIOUS
<1>5. im3 \in Images /\ im3 = [im1 EXCEPT !.mailed = [im1.mailed EXCEPT ![g] = p]]
  BY <1>1, <1>2, <1>4, SetMailed
<1>6. PICK im4 : im4 = Perform(im3, t)
  OBVIOUS
<1>7. /\ im4 \in Images /\ im4 = [im3 EXCEPT !.auctions = [im3.auctions EXCEPT ![id] = None]]
      /\ \A q \in Player : Wealth(im4, q) = Wealth(im3, q) - Held(im3.auctions[id], q)
  <2>1. PICK b \in Images : b = im3
    BY <1>5
  <2>2. PICK k \in AuctionId : k = id
    BY <1>1
  <2>3. im4 = Perform(b, DeleteAuction(k))
    BY <1>3, <1>6, <2>1, <2>2
  <2>4. /\ im4 \in Images /\ im4 = [b EXCEPT !.auctions = [b.auctions EXCEPT ![k] = None]]
        /\ \A q \in Player : Wealth(im4, q) = Wealth(b, q) - Held(b.auctions[k], q)
    BY <2>3, DeleteWealth
  <2>. QED
    BY <2>1, <2>2, <2>4
<1>8. im2 = im4
  <2>0. <<s>> \in Seq(Statements) /\ <<t>> \in Seq(Statements)
    OBVIOUS
  <2>1. PICK x \in Seq(Statements), y \in Seq(Statements) : x = <<s>> /\ y = <<t>>
    BY <2>0
  <2>2. Apply(im, (u \o x) \o y) = Apply(Apply(Apply(im, u), x), y)
    BY ApplyParts
  <2>3. Apply(im1, x) = im3 /\ Apply(im3, y) = im4
    BY <1>4, <1>6, <2>1, ApplyFew
  <2>. QED
    BY <1>2, <1>3, <2>1, <2>2, <2>3 DEF PaidEnd
<1>9. /\ im3.gold = im1.gold /\ im3.letters = im1.letters /\ im3.auctions = im1.auctions
      /\ im3.mailed = [im1.mailed EXCEPT ![g] = p]
  BY <1>5 DEF Images
<1>10. im4.gold = im3.gold /\ im4.mailed = im3.mailed
  BY <1>5, <1>7 DEF Images
<1>11. im1.auctions = im.auctions /\ im1.mailed = im.mailed
  BY DEF SameItems
<1>12. ASSUME NEW q \in Player
       PROVE  Wealth(im4, q) = Wealth(im1, q) - Held(im.auctions[id], q)
  <2>1. Wealth(im3, q) = Wealth(im1, q)
    BY <1>9, WealthSame
  <2>. QED
    BY <1>7, <1>9, <1>11, <2>1
<1>. QED
  BY <1>7, <1>8, <1>9, <1>10, <1>11, <1>12

-----------------------------------------------------------------------------
(* The end of an auction.                                                  *)
(* From a to b, q loses nothing or is sent an item. *)
Sent(a, b, q) == \E g \in Guid : a.mailed[g] # q /\ b.mailed[g] = q
Spared(a, b, q) == Wealth(b, q) >= Wealth(a, q) \/ Sent(a, b, q)

LEMMA SparedSame ==
    ASSUME NEW a \in Images, NEW b, NEW q \in Player, a.gold[q] = b.gold[q],
           a.letters[q] = b.letters[q], a.auctions = b.auctions
    PROVE  Spared(a, b, q)
<1>1. Wealth(b, q) = Wealth(a, q) /\ Wealth(a, q) \in Int
  BY WealthSame, WealthIs
<1>. QED
  BY <1>1 DEF Spared

(* Who pays for the end of an auction more than he has in it receives its  *)
(* item.                                                                   *)
LEMMA PaidEndSpares ==
    ASSUME NEW n, Sound(mem, n), NEW id \in Live(mem), NEW p \in Player,
           NEW g, g = mem.auctions[id].item, NEW u, NEW c, Bill(u, c),
           \A q \in Player \ {p} : c[q] >= Held(mem.auctions[id], q),
           NEW m, m = Apply(mem, PaidEnd(u, p, g, id))
    PROVE  \A q \in Player : Spared(mem, m, q)
<1>1. PICK im \in Images : im = mem
  BY DEF Sound
<1>2. PICK k \in Live(im) : k = id
  BY <1>1
<1>3. im.auctions[k] \in AuctionEntry /\ g = im.auctions[k].item
  BY <1>1, <1>2, LiveIs
<1>4. PICK a \in AuctionEntry : a = im.auctions[k]
  BY <1>3
<1>5. g \in Guid /\ g \in HouseItems(im)
  BY <1>3, <1>4, LiveIs DEF AuctionEntry
<1>6. im.mailed[g] = None /\ p # None
  BY <1>1, <1>5, ConstantsAssumption DEF Sound, Placed
<1>7. /\ u \in Seq(Statements) /\ c \in [Player -> Int]
      /\ Apply(im, u) \in Images /\ SameItems(im, Apply(im, u))
      /\ \A q \in Player : Wealth(Apply(im, u), q) = Wealth(im, q) + c[q]
  BY <1>1 DEF Bill, Payment
<1>8. PICK v \in Seq(Statements) : v = u
  BY <1>7
<1>9. PICK im1 \in Images : im1 = Apply(im, v)
  BY <1>7, <1>8
<1>10. SameItems(im, im1) /\ \A q \in Player : Wealth(im1, q) = Wealth(im, q) + c[q]
  BY <1>7, <1>8, <1>9
<1>11. m = Apply(im, PaidEnd(v, p, g, k))
  BY <1>1, <1>2, <1>8
<1>12. /\ m.mailed = [im.mailed EXCEPT ![g] = p]
       /\ \A q \in Player : Wealth(m, q) = Wealth(im1, q) - Held(im.auctions[k], q)
  BY <1>3, <1>9, <1>10, <1>11, EndWealth
<1>13. ASSUME NEW q \in Player \ {p} PROVE Wealth(m, q) >= Wealth(im, q)
  <2>1. /\ Wealth(m, q) = Wealth(im1, q) - Held(a, q)
        /\ Wealth(im1, q) = Wealth(im, q) + c[q]
    BY <1>4, <1>10, <1>12
  <2>2. c[q] >= Held(a, q)
    BY <1>1, <1>2, <1>4
  <2>3. Wealth(im, q) \in Int /\ c[q] \in Int /\ Held(a, q) \in Int
    BY <1>7, WealthIs, HeldIs
  <2>. QED
    BY <2>1, <2>2, <2>3
<1>14. Sent(im, m, p)
  <2>1. m.mailed[g] = p
    BY <1>5, <1>12 DEF Images
  <2>. QED
    BY <1>5, <1>6, <2>1 DEF Sent
<1>. QED
  BY <1>1, <1>13, <1>14 DEF Spared

(* One auction that is over: its item goes to r, and who leads it is r. *)
LEMMA EndOfOneWealth ==
    ASSUME NEW n, Sound(mem, n), items = HouseItems(mem), NEW id \in Live(mem),
           NEW im, Sound(im, n), im.auctions[id] = mem.auctions[id],
           NEW im2, im2 = Apply(im, EndOf(id))
    PROVE  \E r \in Player :
              /\ im2.mailed = [im.mailed EXCEPT ![mem.auctions[id].item] = r]
              /\ \A q \in Player \ {r} : Wealth(im2, q) >= Wealth(im, q)
<1>1. PICK a \in AuctionEntry : a = mem.auctions[id]
  BY LiveIs DEF Sound
<1>2. /\ a.item \in Guid /\ a.owner \in Player /\ a.bidder \in Player \cup {None}
      /\ id \in AuctionId /\ mem \in Images /\ im \in Images /\ a # None /\ None \notin Player
  BY ConstantsAssumption, LiveIs DEF AuctionEntry, Sound
<1>3. a.item \in items /\ id \in Live(im) /\ im.auctions[id] = a
  BY <1>1, <1>2, LiveIs
<1>4. \A p : ParcelOf(p, a.item) = <<Parcel(p, a.item)>>
  BY <1>3 DEF ParcelOf
<1>5. PICK g : g = a.item
  OBVIOUS
<1>6. \A q \in Player : Held(a, q) = IF a.bidder = q THEN a.bid ELSE 0
  BY <1>2 DEF Held
<1>7. ASSUME NEW r \in Player, NEW u, NEW c, Grant(u, c), \A q \in Player : c[q] \in Nat,
             EndOf(id) = PaidEnd(u, r, g, id), a.bidder \in {r, None}
      PROVE  /\ im2.mailed = [im.mailed EXCEPT ![g] = r]
             /\ \A q \in Player \ {r} : Wealth(im2, q) >= Wealth(im, q)
  <2>1. /\ u \in Seq(Statements) /\ Apply(im, u) \in Images /\ SameItems(im, Apply(im, u))
        /\ \A q \in Player : Wealth(Apply(im, u), q) = Wealth(im, q) + c[q]
    BY <1>2, <1>7 DEF Grant, Gift
  <2>2. PICK im0 \in Images : im0 = im
    BY <1>2
  <2>3. PICK k \in Live(im0) : k = id /\ g = im0.auctions[k].item /\ a = im0.auctions[k]
    BY <1>3, <1>5, <2>2
  <2>4. PICK v \in Seq(Statements) : v = u
    BY <2>1
  <2>5. PICK im1 \in Images : im1 = Apply(im0, v)
    BY <2>1, <2>2, <2>4
  <2>6. /\ SameItems(im0, im1) /\ im2 = Apply(im0, PaidEnd(v, r, g, k))
    BY <1>7, <2>1, <2>2, <2>3, <2>4, <2>5
  <2>7. /\ im2.mailed = [im0.mailed EXCEPT ![g] = r]
        /\ \A q \in Player : Wealth(im2, q) = Wealth(im1, q) - Held(im0.auctions[k], q)
    BY <2>3, <2>5, <2>6, EndWealth
  <2>8. ASSUME NEW q \in Player \ {r} PROVE Wealth(im2, q) >= Wealth(im, q)
    <3>1. Held(a, q) = 0
      BY <1>2, <1>6, <1>7
    <3>2. Wealth(im2, q) = Wealth(im1, q) - 0 /\ Wealth(im1, q) = Wealth(im, q) + c[q]
      BY <2>1, <2>2, <2>3, <2>4, <2>5, <2>7, <3>1
    <3>3. Wealth(im, q) \in Int /\ c[q] \in Nat
      BY <1>2, <1>7, WealthIs
    <3>. QED
      BY <3>2, <3>3
  <2>. QED
    BY <2>2, <2>7, <2>8
<1>8. CASE a.bidder = None
  <2>1. PICK s \in Seq(Statements) : s = <<Parcel(a.owner, g)>>
    <3>1. PICK t \in Statements : t = Parcel(a.owner, g)
      BY <1>2, <1>5 DEF Parcel, Set, Statements
    <3>2. <<t>> \in Seq(Statements)
      OBVIOUS
    <3>. QED
      BY <3>1, <3>2
  <2>2. <<>> \o s = s
    BY <2>1
  <2>3. EndOf(id) = s \o <<DeleteAuction(id)>>
    BY <1>1, <1>4, <1>5, <1>8, <2>1 DEF EndOf, SendAuctionExpiredMail
  <2>4. EndOf(id) = PaidEnd(<<>>, a.owner, g, id)
    BY <2>1, <2>2, <2>3 DEF PaidEnd
  <2>5. Grant(<<>>, Nothing) /\ \A q \in Player : Nothing[q] \in Nat
    BY NoGrant DEF Nothing
  <2>. QED
    BY <1>1, <1>2, <1>5, <1>7, <1>8, <2>4, <2>5
<1>9. CASE a.bidder # None
  <2>1. PICK u : u = SendAuctionSuccessfulMail(a)
    OBVIOUS
  <2>2. EndOf(id) = PaidEnd(u, a.bidder, g, id)
    BY <1>1, <1>4, <1>5, <1>9, <2>1 DEF EndOf, SendAuctionWonMail, PaidEnd
  <2>3. a.bid > 0
    BY <1>1, <1>9 DEF Sound
  <2>4. PICK c : Grant(u, c) /\ \A q \in Player : c[q] \in Nat
    BY <2>1, <2>3, SuccessIsGrant
  <2>. QED
    BY <1>1, <1>2, <1>5, <1>7, <1>9, <2>2, <2>4
<1>. QED
  BY <1>8, <1>9

(* After i auctions are over, who lost something has received an item. *)
Served(im, ids, i) ==
    \A q \in Player : \/ Wealth(im, q) >= Wealth(mem, q)
                      \/ \E j \in 1..i : im.mailed[mem.auctions[ids[j]].item] = q

LEMMA EndAllSpares ==
    ASSUME NEW n, Sound(mem, n), items = HouseItems(mem),
           NEW over, over \subseteq Live(mem), NEW ids, ids = SetToSeq(over),
           NEW Q, Q = [i \in 1..Len(ids) |-> EndOf(ids[i])],
           NEW m2, m2 = Apply(mem, FlattenSeq(Q))
    PROVE  \A q \in Player : Spared(mem, m2, q)
<1>0. IsFiniteSet(over)
  <2>1. over \subseteq 1..MaxAuctions /\ MaxAuctions \in Nat
    BY ConstantsAssumption DEF Live, AuctionId
  <2>2. IsFiniteSet(1..MaxAuctions)
    BY <2>1, FS_Interval
  <2>. QED
    BY <2>1, <2>2, FS_Subset
<1>1. /\ Len(ids) \in Nat
      /\ \A i \in 1..Len(ids) : ids[i] \in over
      /\ \A i, j \in 1..Len(ids) : ids[i] = ids[j] => i = j
  <2>1. /\ ids \in Seq(over)
        /\ \A i, j \in 1..Len(ids) : ids[i] = ids[j] => i = j
    BY <1>0, ListOfSet
  <2>. QED
    BY <2>1
<1>2. Len(Q) = Len(ids) /\ \A i \in 1..Len(ids) : Q[i] = EndOf(ids[i])
  BY <1>1
<1>3. Q \in Queue /\ \A i \in 0..Len(ids) : Ended(Point(mem, Q, i), ids, i, n)
  BY EndAll
<1>4. \A i \in 1..Len(ids) :
         /\ mem.auctions[ids[i]].item \in Guid
         /\ mem.mailed[mem.auctions[ids[i]].item] = None
  <2>. TAKE i \in 1..Len(ids)
  <2>1. PICK id \in Live(mem) : id = ids[i]
    BY <1>1
  <2>2. mem \in Images /\ mem.auctions[id] \in AuctionEntry
    BY LiveIs DEF Sound
  <2>3. PICK a \in AuctionEntry : a = mem.auctions[id]
    BY <2>2
  <2>4. a.item \in Guid /\ a.item \in HouseItems(mem)
    BY <2>2, <2>3, LiveIs DEF AuctionEntry
  <2>. QED
    BY <2>1, <2>3, <2>4 DEF Sound, Placed
<1>5. \A i, j \in 1..Len(ids) :
         mem.auctions[ids[i]].item = mem.auctions[ids[j]].item => i = j
  <2>. TAKE i, j \in 1..Len(ids)
  <2>1. ids[i] \in Live(mem) /\ ids[j] \in Live(mem)
    BY <1>1
  <2>. QED
    BY <1>1, <2>1 DEF Sound, Placed
<1>6. ASSUME NEW i \in 1..Len(ids), NEW im, Ended(im, ids, i - 1, n), Served(im, ids, i - 1),
             NEW im2, im2 = Apply(im, Q[i])
      PROVE  Served(im2, ids, i)
  <2>1. PICK id \in Live(mem) : id = ids[i]
    BY <1>1
  <2>2. \A j \in 1..(i - 1) : ids[j] # id /\ j \in 1..Len(ids)
    BY <1>1, <2>1
  <2>3. id \in AuctionId /\ im \in Images /\ mem \in Images
    BY <1>6, LiveIs DEF Sound, Ended
  <2>4. im.auctions[id] = mem.auctions[id] /\ Sound(im, n)
    BY <1>6, <2>2, <2>3 DEF Ended
  <2>5. im2 = Apply(im, EndOf(id))
    BY <1>2, <1>6, <2>1
  <2>6. PICK r \in Player :
           /\ im2.mailed = [im.mailed EXCEPT ![mem.auctions[id].item] = r]
           /\ \A q \in Player \ {r} : Wealth(im2, q) >= Wealth(im, q)
    BY <2>4, <2>5, EndOfOneWealth
  <2>7. PICK g \in Guid : g = mem.auctions[id].item
    BY <1>4, <2>1
  <2>8. im2.mailed[g] = r /\ \A h \in Guid \ {g} : im2.mailed[h] = im.mailed[h]
    BY <2>3, <2>6, <2>7 DEF Images
  <2>9. ASSUME NEW q \in Player
        PROVE  \/ Wealth(im2, q) >= Wealth(mem, q)
               \/ \E j \in 1..i : im2.mailed[mem.auctions[ids[j]].item] = q
    <3>1. CASE q = r
      <4>1. i \in 1..i
        BY <1>1
      <4>. QED
        BY <2>1, <2>7, <2>8, <3>1, <4>1
    <3>2. CASE q # r /\ \E j \in 1..(i - 1) : im.mailed[mem.auctions[ids[j]].item] = q
      <4>1. PICK j \in 1..(i - 1) : im.mailed[mem.auctions[ids[j]].item] = q
        BY <3>2
      <4>2. j \in 1..i /\ j \in 1..Len(ids) /\ j # i
        BY <1>1
      <4>3. mem.auctions[ids[j]].item \in Guid \ {g}
        BY <1>4, <1>5, <2>1, <2>7, <4>2
      <4>4. im2.mailed[mem.auctions[ids[j]].item] = q
        BY <2>8, <4>1, <4>3
      <4>. QED
        BY <4>2, <4>4
    <3>3. CASE q # r /\ Wealth(im, q) >= Wealth(mem, q)
      <4>1. Wealth(im2, q) >= Wealth(im, q)
        BY <2>6, <3>3
      <4>2. Sound(im2, n)
        BY <2>4, <2>5, EndOfOne
      <4>3. im2 \in Images
        BY <4>2 DEF Sound
      <4>4. Wealth(im2, q) \in Int /\ Wealth(im, q) \in Int /\ Wealth(mem, q) \in Int
        BY <2>3, <4>3, WealthIs
      <4>. QED
        BY <3>3, <4>1, <4>4
    <3>. QED
      BY <1>6, <3>1, <3>2, <3>3 DEF Served
  <2>. QED
    BY <2>9 DEF Served
<1>7. mem \in Images
  BY DEF Sound
<1>8. Served(mem, ids, 0)
  <2>1. \A q \in Player : Wealth(mem, q) \in Int
    BY <1>7, WealthIs
  <2>. QED
    BY <2>1 DEF Served
<1>9. PICK T : T = {i \in Nat : i <= Len(ids) => Served(Point(mem, Q, i), ids, i)}
  OBVIOUS
<1>10. 0 \in T
  BY <1>3, <1>8, <1>9, Points
<1>11. ASSUME NEW i \in Nat, i \in T PROVE i + 1 \in T
  <2>1. SUFFICES ASSUME i + 1 <= Len(ids)
                 PROVE  Served(Point(mem, Q, i + 1), ids, i + 1)
    BY <1>9
  <2>2. i + 1 \in 1..Len(ids) /\ (i + 1) - 1 = i /\ i <= Len(ids) /\ i \in 0..Len(ids)
    BY <1>1, <2>1
  <2>3. Served(Point(mem, Q, i), ids, i) /\ Ended(Point(mem, Q, i), ids, i, n)
    BY <1>3, <1>9, <1>11, <2>2
  <2>4. Point(mem, Q, i + 1) = Apply(Point(mem, Q, (i + 1) - 1), Q[i + 1])
    BY <1>2, <1>3, <2>2, Points
  <2>5. PICK j \in 1..Len(ids) : j = i + 1 /\ j - 1 = i
    BY <2>2
  <2>. QED
    BY <1>6, <2>2, <2>3, <2>4, <2>5
<1>12. \A i \in Nat : i \in T
  BY <1>10, <1>11, Induction
<1>13. Served(m2, ids, Len(ids))
  <2>1. Point(mem, Q, Len(ids)) = m2
    BY <1>2, <1>3, Points
  <2>. QED
    BY <1>1, <1>9, <1>12, <2>1
<1>14. ASSUME NEW q \in Player, NEW j \in 1..Len(ids),
              m2.mailed[mem.auctions[ids[j]].item] = q
       PROVE  Sent(mem, m2, q)
  <2>1. q # None
    BY ConstantsAssumption
  <2>. QED
    BY <1>4, <1>14, <2>1 DEF Sent
<1>. QED
  BY <1>13, <1>14 DEF Served, Spared

-----------------------------------------------------------------------------
(* The steps.                                                              *)
(* What a step may do to the players' wealth. *)
Fair ==
    \A p \in Player :
        Wealth(mem', p) < Wealth(mem, p) => restarts' # restarts \/ Sells(p) \/ Receives(p)

LEMMA SparedIsFair ==
    ASSUME mem \in Images, NEW m \in Images, mem' = m, \A q \in Player : Spared(mem, m, q)
    PROVE  Fair
<1>. SUFFICES ASSUME NEW p \in Player, Wealth(mem', p) < Wealth(mem, p) PROVE Receives(p)
  BY DEF Fair
<1>1. Wealth(mem', p) = Wealth(m, p) /\ Wealth(m, p) \in Int /\ Wealth(mem, p) \in Int
  BY WealthIs
<1>2. Sent(mem, m, p)
  <2>1. ~(Wealth(m, p) >= Wealth(mem, p))
    BY <1>1
  <2>2. Spared(mem, m, p)
    OBVIOUS
  <2>. QED
    BY <2>1, <2>2 DEF Spared
<1>. QED
  BY <1>2 DEF Sent, Receives

LEMMA SameIsFair == mem \in Images /\ mem' = mem => Fair
<1>. SUFFICES ASSUME mem \in Images, mem' = mem PROVE Fair
  OBVIOUS
<1>1. PICK m : m = mem
  OBVIOUS
<1>2. \A q \in Player : Spared(mem, m, q)
  BY <1>1, SparedSame
<1>. QED
  BY <1>1, <1>2, SparedIsFair

LEMMA RestartIsFair == Reload /\ restarts \in Nat => Fair
BY DEF Reload, Fair

(* The entering of a sale costs the deposit. *)
LEMMA ListingWealth ==
    ASSUME mem \in Images, NEW p \in Player, mem.gold[p] >= Deposit,
           NEW im \in Images, im.gold = mem.gold, im.letters = mem.letters,
           NEW id \in AuctionId, NEW a \in AuctionEntry, NEW s \in Statements,
           NEW t \in Statements, s = Pay(p, Deposit), t = ToTill(Deposit),
           NEW im2, im2 = Apply(im, <<Set("auctions", id, a), s, t>>),
           NEW m \in Images, m.gold = im2.gold, m.letters = im2.letters,
           m.auctions = mem.auctions
    PROVE  /\ Wealth(m, p) = Wealth(mem, p) - Deposit
           /\ \A q \in Player \ {p} : Wealth(m, q) = Wealth(mem, q)
<1>1. Deposit \in Nat /\ Deposit \in Int /\ mem.gold[p] \in Nat
  BY ConstantsAssumption DEF Images
<1>2. PICK v \in Nat : v = mem.gold[p] - Deposit
  BY <1>1
<1>3. s = Set("gold", p, v)
  BY <1>1, <1>2 DEF Pay
<1>4. PICK x \in Statements : x = Set("auctions", id, a)
  BY DEF Set, Statements
<1>5. PICK im3 : im3 = Perform(im, x)
  OBVIOUS
<1>6. im3 \in Images /\ im3.gold = mem.gold /\ im3.letters = mem.letters
  <2>1. im3 \in Images /\ im3 = [im EXCEPT !.auctions = [im.auctions EXCEPT ![id] = a]]
    BY <1>4, <1>5, SetAuction
  <2>. QED
    BY <2>1 DEF Images
<1>7. PICK im4 : im4 = Perform(im3, s)
  OBVIOUS
<1>8. im4 \in Images /\ im4.gold = [mem.gold EXCEPT ![p] = v] /\ im4.letters = mem.letters
  <2>1. PICK b \in Images : b = im3
    BY <1>6
  <2>2. im4 \in Images /\ im4 = [b EXCEPT !.gold = [b.gold EXCEPT ![p] = v]]
    BY <1>3, <1>7, <2>1, SetGold
  <2>. QED
    BY <1>6, <2>1, <2>2 DEF Images
<1>9. im2 = Perform(im4, t)
  BY <1>4, <1>5, <1>7, ApplyFew
<1>10. im2.gold = im4.gold /\ im2.letters = im4.letters
  <2>1. PICK b \in Images : b = im4
    BY <1>8
  <2>2. PICK d \in Int : d = Deposit
    BY <1>1
  <2>3. im2 = [b EXCEPT !.till = b.till + d]
    BY <1>9, <2>1, <2>2, SetTill
  <2>. QED
    BY <2>1, <2>3 DEF Images
<1>11. PICK k : k = Perform(mem, Set("gold", p, v))
  OBVIOUS
<1>12. k \in Images /\ k = [mem EXCEPT !.gold = [mem.gold EXCEPT ![p] = v]]
  BY <1>11, SetGold
<1>13. k.gold = m.gold /\ k.letters = m.letters /\ k.auctions = m.auctions
  BY <1>8, <1>10, <1>12 DEF Images
<1>14. \A q \in Player : Wealth(m, q) = Wealth(k, q)
  BY <1>13, WealthSame
<1>15. /\ Wealth(k, p) = Wealth(mem, p) - mem.gold[p] + v
       /\ \A q \in Player \ {p} : Wealth(k, q) = Wealth(mem, q)
  BY <1>11, GoldWealth
<1>16. Wealth(mem, p) \in Int
  BY WealthIs
<1>. QED
  BY <1>1, <1>2, <1>14, <1>15, <1>16

LEMMA ListedIsFair ==
    ASSUME mem \in Images, mem' \in Images, NEW w \in Worker, job[w].step = "list",
           NEW j, j = job[w], SaleOf(j), mem.gold[j.player] >= Deposit,
           j.id \in AuctionId, NEW g \in Guid, NEW txs, Listed(w, g, txs),
           NEW im \in Images, im.gold = mem.gold, im.letters = mem.letters,
           Apply(mem, FlattenSeq(txs)) = Apply(im, Listing(j, g))
    PROVE  Fair
<1>1. PICK p \in Player : p = j.player
  BY DEF SaleOf
<1>2. PICK a \in AuctionEntry : a = NewAuction(j, g)
  BY ListingIs
<1>3. PICK s \in Statements, t \in Statements : s = Pay(p, Deposit) /\ t = ToTill(Deposit)
  BY <1>1, ListingIs
<1>4. PICK id \in AuctionId : id = j.id
  OBVIOUS
<1>5. PICK im2 : im2 = Apply(im, <<Set("auctions", id, a), s, t>>)
  OBVIOUS
<1>6. PICK m : m = [im2 EXCEPT !.auctions = mem.auctions]
  OBVIOUS
<1>7. mem' = m
  BY <1>1, <1>2, <1>3, <1>4, <1>5, <1>6 DEF Listed, Listing
<1>8. m \in Images
  BY <1>7
<1>9. m.gold = im2.gold /\ m.letters = im2.letters /\ m.auctions = mem.auctions
  <2>1. /\ Set("auctions", id, a) \in Statements
    BY DEF Set, Statements
  <2>2. PICK x \in Statements : x = Set("auctions", id, a)
    BY <2>1
  <2>3. PICK im3 \in Images : im3 = Perform(im, x)
    BY <2>2, SetAuction
  <2>4. PICK v \in Nat : s = Set("gold", p, v)
    <3>1. Deposit \in Nat /\ mem.gold[p] \in Nat
      BY ConstantsAssumption DEF Images
    <3>. QED
      BY <1>3, <3>1 DEF Pay
  <2>5. PICK im4 \in Images : im4 = Perform(im3, s)
    BY <2>4, SetGold
  <2>6. PICK im5 \in Images : im5 = Perform(im4, t)
    BY <1>3, SetTill, ConstantsAssumption
  <2>7. im2 = im5
    BY <1>5, <2>2, <2>3, <2>5, <2>6, ApplyFew
  <2>. QED
    BY <1>6, <2>7 DEF Images
<1>10. /\ Wealth(m, p) = Wealth(mem, p) - Deposit
       /\ \A q \in Player \ {p} : Wealth(m, q) = Wealth(mem, q)
  <2>1. mem.gold[p] >= Deposit
    BY <1>1
  <2>. QED
    BY <1>3, <1>5, <1>8, <1>9, <2>1, ListingWealth
<1>11. Sells(p)
  BY <1>1, <1>7, <1>10 DEF Sells
<1>12. ASSUME NEW q \in Player \ {p} PROVE ~(Wealth(mem', q) < Wealth(mem, q))
  <2>1. Wealth(mem', q) = Wealth(mem, q) /\ Wealth(mem, q) \in Int
    BY <1>7, <1>10, WealthIs
  <2>. QED
    BY <2>1
<1>. QED
  BY <1>11, <1>12 DEF Fair

LEMMA ListingTyped ==
    ASSUME mem \in Images, NEW j, SaleOf(j), mem.gold[j.player] >= Deposit,
           j.id \in AuctionId, NEW g \in Guid
    PROVE  Listing(j, g) \in Seq(Statements)
<1>1. PICK a \in AuctionEntry : a = NewAuction(j, g)
  BY ListingIs
<1>2. PICK s \in Statements, t \in Statements :
         s = Pay(j.player, Deposit) /\ t = ToTill(Deposit)
  BY ListingIs
<1>3. PICK x \in Statements : x = Set("auctions", j.id, a)
  BY DEF Set, Statements
<1>4. <<x, s, t>> \in Seq(Statements)
  OBVIOUS
<1>. QED
  BY <1>1, <1>2, <1>3, <1>4 DEF Listing

LEMMA FlattenOne == ASSUME NEW B, NEW x \in Seq(B) PROVE FlattenSeq(<<x>>) = x
<1>1. PICK e \in Seq(Seq(B)) : e = <<>>
  BY EmptySeq
<1>2. FlattenSeq(Append(e, x)) = FlattenSeq(e) \o x
  BY FlattenAppend
<1>3. Append(e, x) = <<x>> /\ FlattenSeq(e) = <<>>
  BY <1>1, FlattenEmpty
<1>4. <<>> \o x = x
  OBVIOUS
<1>. QED
  BY <1>2, <1>3, <1>4

LEMMA ListWholeIsFair ==
    ASSUME IInv, ~Overlap, NEW w \in Worker, ListWhole(w), mem' \in Images
    PROVE  Fair
<1>1. Calm /\ OnlyBusy(w) /\ Stage(w, mem) /\ w \in Thread /\ job[w].step = "list"
  BY CalmIs DEF ListWhole, Thread
<1>2. PICK j : j = job[w]
  OBVIOUS
<1>3. SaleOf(j) /\ j.id = nextId /\ nextId \in AuctionId /\ mem \in Images
      /\ mem.gold[j.player] >= Deposit
  BY <1>1, <1>2 DEF Stage, IInv, Typed
<1>4. PICK g \in DOMAIN j.take : Listed(w, g, <<<<Set("inventory", g, None)>> \o Listing(j, g)>>)
  BY <1>2 DEF ListWhole
<1>5. g \in Guid
  BY <1>3 DEF SaleOf
<1>6. PICK x \in Statements : x = Set("inventory", g, None)
  BY <1>5 DEF Set, Statements
<1>7. PICK im : im = Perform(mem, x)
  OBVIOUS
<1>8. im \in Images /\ im.gold = mem.gold /\ im.letters = mem.letters
  <2>1. im \in Images /\ im = [mem EXCEPT !.inventory = [mem.inventory EXCEPT ![g] = None]]
    BY <1>3, <1>5, <1>6, <1>7, SetInventory
  <2>. QED
    BY <1>3, <2>1 DEF Images
<1>9. Listing(j, g) \in Seq(Statements)
  BY <1>3, <1>5, ListingTyped
<1>10. PICK y \in Seq(Statements) : y = Listing(j, g)
  BY <1>9
<1>11. PICK z \in Seq(Statements) : z = <<x>>
  <2>1. <<x>> \in Seq(Statements)
    OBVIOUS
  <2>. QED
    BY <2>1
<1>12. PICK tx : tx = z \o y
  OBVIOUS
<1>13. tx \in Seq(Statements) /\ Apply(mem, tx) = Apply(Apply(mem, z), y)
  BY <1>12, ApplyConcat, ConcatProperties
<1>14. FlattenSeq(<<tx>>) = tx
  BY <1>13, FlattenOne
<1>15. Apply(mem, FlattenSeq(<<tx>>)) = Apply(im, Listing(j, g))
  BY <1>7, <1>10, <1>11, <1>13, <1>14, ApplyFew
<1>16. Listed(w, g, <<tx>>)
  BY <1>4, <1>6, <1>10, <1>11, <1>12
<1>. QED
  BY <1>1, <1>2, <1>3, <1>5, <1>8, <1>15, <1>16, ListedIsFair

LEMMA ListSplitIsFair ==
    ASSUME IInv, ~Overlap, NEW w \in Worker, ListSplit(w), mem' \in Images
    PROVE  Fair
<1>1. Calm /\ OnlyBusy(w) /\ Stage(w, mem) /\ w \in Thread /\ job[w].step = "list"
  BY CalmIs DEF ListSplit, Thread
<1>2. PICK j : j = job[w]
  OBVIOUS
<1>3. SaleOf(j) /\ j.id = nextId /\ nextId \in AuctionId /\ mem \in Images
      /\ mem.gold[j.player] >= Deposit
  BY <1>1, <1>2 DEF Stage, IInv, Typed
<1>4. PICK take, from, sum :
         take = j.take /\ from = SetToSeq(DOMAIN take) /\ sum = SumFunction(take)
  <2>1. PICK take : take = j.take
    OBVIOUS
  <2>2. PICK from : from = SetToSeq(DOMAIN take)
    OBVIOUS
  <2>. QED
    BY <2>1, <2>2, Zenon
<1>5. PICK c \in Clone :
         /\ mem.stack[c] = 0 /\ c \notin items
         /\ Listed(w, c,
                  [i \in 1..Len(from) |-> Reduce(from[i], take[from[i]])]
                  \o <<<<Set("stack", c, sum)>> \o Listing(j, c)>>)
  BY <1>2, <1>4 DEF ListSplit
<1>6. c \in Guid
  BY DEF Guid
<1>7. Right(mem, nextId)
  BY <1>1 DEF Calm
<1>8. /\ IsFiniteSet(DOMAIN take) /\ DOMAIN take # {} /\ sum <= MaxStack
      /\ \A g \in DOMAIN take :
            g \in Guid /\ mem.inventory[g] # None /\ take[g] \in 1..mem.stack[g]
      /\ \A g \in Guid : mem.stack[g] \in Nat
  BY <1>3, <1>4, ConstantsAssumption DEF SaleOf, Images
<1>9. sum \in 0..MaxStack
  <2>1. \A g \in DOMAIN take : take[g] \in Nat
    BY <1>8
  <2>2. sum \in Nat
    BY <1>4, <1>8, <2>1, SumNat
  <2>. QED
    BY <1>8, <2>2, ConstantsAssumption
<1>10. PICK Q : Q = [i \in 1..Len(from) |-> Reduce(from[i], take[from[i]])]
  OBVIOUS
<1>11. PICK m0 : m0 = Apply(mem, FlattenSeq(Q))
  OBVIOUS
<1>12. PICK n : n = nextId
  OBVIOUS
<1>13. Q \in Queue /\ Reduced(m0, from, take, Len(from), n)
  <2>1. from = SetToSeq(DOMAIN take)
    BY <1>4
  <2>2. /\ IsFiniteSet(DOMAIN take) /\ Right(mem, n)
        /\ \A g \in DOMAIN take :
              g \in Guid /\ mem.inventory[g] # None /\ take[g] \in 1..mem.stack[g]
    BY <1>7, <1>8, <1>12
  <2>. QED
    BY <1>10, <1>11, <2>1, <2>2, ReduceAll
<1>14. PICK m1 \in Images : m1 = m0 /\ m1.gold = mem.gold /\ m1.letters = mem.letters
  BY <1>13 DEF Reduced, Sound
<1>15. PICK x \in Statements : x = Set("stack", c, sum)
  <2>1. PICK r \in Int : r = sum
    BY <1>9, ConstantsAssumption
  <2>2. Set("stack", c, r) \in Statements
    BY <1>6 DEF Set, Statements
  <2>. QED
    BY <2>1, <2>2
<1>16. PICK im : im = Perform(m1, x)
  OBVIOUS
<1>17. im \in Images /\ im.gold = mem.gold /\ im.letters = mem.letters
  <2>1. im \in Images /\ im = [m1 EXCEPT !.stack = [m1.stack EXCEPT ![c] = sum]]
    BY <1>6, <1>9, <1>15, <1>16, SetStack
  <2>. QED
    BY <1>14, <2>1 DEF Images
<1>18. Listing(j, c) \in Seq(Statements)
  BY <1>3, <1>6, ListingTyped
<1>19. PICK y \in Seq(Statements) : y = Listing(j, c)
  BY <1>18
<1>20. PICK z \in Seq(Statements) : z = <<x>>
  <2>1. <<x>> \in Seq(Statements)
    OBVIOUS
  <2>. QED
    BY <2>1
<1>21. PICK tx : tx = z \o y
  OBVIOUS
<1>22. tx \in Seq(Statements) /\ Apply(m0, tx) = Apply(Apply(m0, z), y)
  BY <1>21, ApplyConcat, ConcatProperties
<1>23. Apply(mem, FlattenSeq(Q \o <<tx>>)) = Apply(m0, tx)
  <2>1. Q \in Seq(Seq(Statements))
    BY <1>13 DEF Queue
  <2>2. Q \o <<tx>> = Append(Q, tx)
    BY <1>22, <2>1
  <2>3. FlattenSeq(Append(Q, tx)) = FlattenSeq(Q) \o tx
    BY <1>22, <2>1, FlattenAppend
  <2>4. FlattenSeq(Q) \in Seq(Statements)
    BY <2>1, FlattenType
  <2>5. Apply(mem, FlattenSeq(Q) \o tx) = Apply(Apply(mem, FlattenSeq(Q)), tx)
    BY <1>22, <2>4, ApplyConcat
  <2>. QED
    BY <1>11, <2>2, <2>3, <2>5
<1>24. Apply(mem, FlattenSeq(Q \o <<tx>>)) = Apply(im, Listing(j, c))
  BY <1>14, <1>16, <1>19, <1>20, <1>22, <1>23, ApplyFew
<1>25. Listed(w, c, Q \o <<tx>>)
  BY <1>5, <1>10, <1>15, <1>19, <1>20, <1>21
<1>. QED
  BY <1>1, <1>2, <1>3, <1>6, <1>17, <1>24, <1>25, ListedIsFair

LEMMA BidIsFair ==
    ASSUME IInv, Calm, NEW w \in Thread, NEW id \in Live(mem),
           NEW a, a = mem.auctions[id], job[w].player \in Player, job[w].price \in Prices,
           BidOn(w, id, a), mem' \in Images
    PROVE  Fair
<1>1. PICK p \in Player : p = job[w].player
  OBVIOUS
<1>2. PICK price \in Nat \ {0} : price = job[w].price
  BY ConstantsAssumption
<1>3. Sound(mem, nextId) /\ mem \in Images
  BY DEF Calm, Right, Sound
<1>4. a \in AuctionEntry /\ (a.bidder # None => a.bid > 0) /\ id \in AuctionId
  BY <1>3, LiveIs DEF Sound
<1>5. mem.gold[p] \in Nat
  BY <1>3 DEF Images
<1>6. a.item \in items
  BY <1>3, LiveIs DEF Calm
<1>7. PICK led : led = [a EXCEPT !.bidder = p, !.bid = price]
  OBVIOUS
<1>8. PICK won : won = [a EXCEPT !.bidder = p, !.bid = a.buyOut]
  OBVIOUS
<1>9. CASE Refused(a, p, price)
  <2>1. UNCHANGED <<mem, pending, items>>
    BY <1>1, <1>2, <1>9 DEF BidOn
  <2>. QED
    BY <1>3, <2>1, SameIsFair
<1>10. CASE ~Refused(a, p, price) /\ ~IsBuyOut(a, price)
  <2>1. Change(Outbid(a, p, price) \o <<Set("auctions", id, led)>>)
    BY <1>1, <1>2, <1>7, <1>10 DEF BidOn
  <2>2. mem.gold[p] >= price
    BY <1>5, <1>10 DEF Refused
  <2>3. PICK c : /\ Bill(Outbid(a, p, price), c)
                 /\ \A q \in Player : c[q] = Held(a, q) - (IF q = p THEN price ELSE 0)
    BY <1>3, <1>4, <2>2, OutbidIsBill
  <2>4. /\ Outbid(a, p, price) \in Seq(Statements) /\ c \in [Player -> Int]
        /\ Apply(mem, Outbid(a, p, price)) \in Images
        /\ SameItems(mem, Apply(mem, Outbid(a, p, price)))
        /\ \A q \in Player :
              Wealth(Apply(mem, Outbid(a, p, price)), q) = Wealth(mem, q) + c[q]
    BY <1>3, <2>3 DEF Bill, Payment
  <2>5. PICK u \in Seq(Statements) : u = Outbid(a, p, price)
    BY <2>4
  <2>6. PICK im1 \in Images : im1 = Apply(mem, u)
    BY <2>4, <2>5
  <2>7. led \in AuctionEntry /\ led.bid = price /\ led.bidder = p
    <3>1. a \in AuctionEntry /\ price \in Nat
      BY <1>4
    <3>. QED
      BY <1>7, <3>1 DEF AuctionEntry
  <2>8. PICK s \in Statements : s = Set("auctions", id, led)
    BY <1>4, <2>7 DEF Set, Statements
  <2>9. PICK t \in Seq(Statements) : t = <<s>>
    <3>1. <<s>> \in Seq(Statements)
      OBVIOUS
    <3>. QED
      BY <3>1
  <2>10. PICK m : m = Perform(im1, Set("auctions", id, led))
    OBVIOUS
  <2>11. Apply(mem, u \o t) = m
    <3>1. Apply(mem, u \o t) = Apply(Apply(mem, u), t)
      BY ApplyConcat
    <3>. QED
      BY <2>6, <2>8, <2>9, <2>10, <3>1, ApplyFew
  <2>12. mem' = m
    BY <2>1, <2>5, <2>8, <2>9, <2>11 DEF Change
  <2>13. m \in Images
    BY <2>12
  <2>14. ASSUME NEW q \in Player PROVE Wealth(m, q) = Wealth(mem, q)
    <3>1. Wealth(m, q) = Wealth(im1, q) - Held(im1.auctions[id], q) + Held(led, q)
      <4>1. led \in AuctionEntry \cup {None}
        BY <2>7
      <4>. QED
        BY <1>4, <2>10, <4>1, AuctionWealth
    <3>2. im1.auctions[id] = a
      BY <2>4, <2>5, <2>6 DEF SameItems
    <3>3. Wealth(im1, q) = Wealth(mem, q) + c[q]
      BY <2>4, <2>5, <2>6
    <3>4. c[q] = Held(a, q) - (IF q = p THEN price ELSE 0)
      BY <2>3
    <3>5. Held(led, q) = IF q = p THEN price ELSE 0
      BY <2>7, ConstantsAssumption DEF Held
    <3>6. Wealth(mem, q) \in Int /\ Held(a, q) \in Int
      BY <1>3, <1>4, WealthIs, HeldIs
    <3>7. PICK x \in Int, y \in Int : x = Held(a, q) /\ y = IF q = p THEN price ELSE 0
      BY <3>6
    <3>. QED
      BY <3>1, <3>2, <3>3, <3>4, <3>5, <3>6, <3>7
  <2>15. \A q \in Player : Spared(mem, m, q)
    <3>. TAKE q \in Player
    <3>1. Wealth(m, q) = Wealth(mem, q) /\ Wealth(mem, q) \in Int
      BY <1>3, <2>14, WealthIs
    <3>. QED
      BY <3>1 DEF Spared
  <2>. QED
    BY <1>3, <2>12, <2>13, <2>15, SparedIsFair
<1>11. CASE ~Refused(a, p, price) /\ IsBuyOut(a, price)
  <2>1. Change(Outbid(a, p, a.buyOut)
                 \o SendAuctionSuccessfulMail(won) \o SendAuctionWonMail(won)
                 \o <<DeleteAuction(id)>>)
    BY <1>1, <1>2, <1>8, <1>11 DEF BidOn
  <2>2. PICK y \in Nat : y = a.buyOut /\ y > 0
    <3>1. a.buyOut # 0
      BY <1>11 DEF IsBuyOut
    <3>. QED
      BY <1>4, <3>1 DEF AuctionEntry
  <2>3. won \in AuctionEntry /\ won.item = a.item /\ won.bid = y /\ won.bidder = p
    <3>1. a \in AuctionEntry /\ won = [a EXCEPT !.bidder = p, !.bid = y]
      BY <1>4, <1>8, <2>2
    <3>. QED
      BY <3>1 DEF AuctionEntry
  <2>4. mem.gold[p] >= y
    <3>1. mem.gold[p] >= price /\ price >= y
      BY <1>5, <1>11, <2>2 DEF Refused, IsBuyOut
    <3>. QED
      BY <1>5, <3>1
  <2>5. PICK c : /\ Bill(Outbid(a, p, y), c)
                 /\ \A q \in Player : c[q] = Held(a, q) - (IF q = p THEN y ELSE 0)
    BY <1>3, <1>4, <2>4, OutbidIsBill
  <2>6. PICK d : /\ Grant(SendAuctionSuccessfulMail(won), d)
                 /\ \A q \in Player : d[q] \in Nat
    BY <2>2, <2>3, SuccessIsGrant
  <2>7. c \in [Player -> Int] /\ d \in [Player -> Int]
    BY <2>5, <2>6 DEF Bill, Grant
  <2>8. PICK e : e = Both(c, d)
    OBVIOUS
  <2>9. PICK u : u = Outbid(a, p, y) \o SendAuctionSuccessfulMail(won)
    OBVIOUS
  <2>10. Bill(u, e)
    BY <2>5, <2>6, <2>8, <2>9, BillAnd
  <2>11. ASSUME NEW q \in Player \ {p} PROVE e[q] >= Held(a, q)
    <3>1. e[q] = c[q] + d[q] /\ c[q] = Held(a, q) - 0
      BY <2>5, <2>7, <2>8, BothIs
    <3>2. d[q] \in Nat /\ Held(a, q) \in Int
      BY <1>4, <2>6, HeldIs
    <3>. QED
      BY <3>1, <3>2
  <2>12. SendAuctionWonMail(won) = <<Parcel(p, a.item)>>
    BY <1>6, <2>3 DEF SendAuctionWonMail, ParcelOf
  <2>13. PICK g : g = a.item
    OBVIOUS
  <2>14. PICK m : m = Apply(mem, PaidEnd(u, p, g, id))
    OBVIOUS
  <2>15. mem' = m
    BY <2>1, <2>2, <2>9, <2>12, <2>13, <2>14 DEF Change, PaidEnd
  <2>16. PICK n : n = nextId /\ Sound(mem, n)
    BY <1>3
  <2>17. g = mem.auctions[id].item /\ \A q \in Player \ {p} : e[q] >= Held(mem.auctions[id], q)
    BY <2>11, <2>13
  <2>18. \A q \in Player : Spared(mem, m, q)
    BY <2>10, <2>14, <2>16, <2>17, PaidEndSpares
  <2>19. m \in Images
    BY <2>15
  <2>. QED
    BY <1>3, <2>15, <2>18, <2>19, SparedIsFair
<1>. QED
  BY <1>9, <1>10, <1>11

LEMMA RemoveItemIsFair ==
    ASSUME IInv, Calm, NEW id \in Live(mem), NEW a, a = mem.auctions[id],
           RemoveItem(id, a), mem' \in Images
    PROVE  Fair
<1>1. Sound(mem, nextId) /\ mem \in Images
  BY DEF Calm, Right, Sound
<1>2. a \in AuctionEntry /\ (a.bidder # None => a.bid > 0)
  BY <1>1, LiveIs DEF Sound
<1>3. a.item \in items
  BY <1>1, LiveIs DEF Calm
<1>4. CASE a.bidder # None /\ mem.gold[a.owner] < GetAuctionCut(a)
  <2>1. UNCHANGED <<mem, pending, items>>
    BY <1>4 DEF RemoveItem
  <2>. QED
    BY <1>1, <2>1, SameIsFair
<1>5. CASE ~(a.bidder # None /\ mem.gold[a.owner] < GetAuctionCut(a))
  <2>1. Change(Refund(a) \o ParcelOf(a.owner, a.item) \o <<DeleteAuction(id)>>)
    BY <1>3, <1>5 DEF RemoveItem
  <2>2. PICK p \in Player : p = a.owner
    BY <1>2 DEF AuctionEntry
  <2>3. PICK u : u = Refund(a)
    OBVIOUS
  <2>4. PICK c : Bill(u, c) /\ \A q \in Player \ {p} : c[q] = Held(a, q)
    BY <1>1, <1>2, <1>5, <2>2, <2>3, RefundIsBill
  <2>5. ParcelOf(a.owner, a.item) = <<Parcel(p, a.item)>>
    BY <1>3, <2>2 DEF ParcelOf
  <2>6. PICK g : g = a.item
    OBVIOUS
  <2>7. PICK m : m = Apply(mem, PaidEnd(u, p, g, id))
    OBVIOUS
  <2>8. mem' = m
    BY <2>1, <2>3, <2>5, <2>6, <2>7 DEF Change, PaidEnd
  <2>9. PICK n : n = nextId /\ Sound(mem, n)
    BY <1>1
  <2>10. g = mem.auctions[id].item /\ \A q \in Player \ {p} : c[q] >= Held(mem.auctions[id], q)
    <3>1. \A q \in Player : Held(a, q) \in Nat
      BY <1>2, HeldIs
    <3>. QED
      BY <2>4, <2>6, <3>1
  <2>11. \A q \in Player : Spared(mem, m, q)
    BY <2>4, <2>7, <2>9, <2>10, PaidEndSpares
  <2>12. m \in Images
    BY <2>8
  <2>. QED
    BY <1>1, <2>8, <2>11, <2>12, SparedIsFair
<1>. QED
  BY <1>4, <1>5

LEMMA UpdateIsFair ==
    ASSUME IInv, ~Overlap, Update, mem' \in Images
    PROVE  Fair
<1>1. Calm
  BY FreeIs DEF Update, Thread
<1>2. PICK over : over = Live(mem) \cap due
  OBVIOUS
<1>3. PICK ids : ids = SetToSeq(over)
  OBVIOUS
<1>4. PICK Q : Q = [i \in 1..Len(ids) |-> EndOf(ids[i])]
  OBVIOUS
<1>5. PICK m : m = Apply(mem, FlattenSeq(Q))
  OBVIOUS
<1>6. mem' = m
  BY <1>2, <1>3, <1>4, <1>5 DEF Update, Change
<1>7. PICK n : n = nextId
  OBVIOUS
<1>8. Sound(mem, n) /\ items = HouseItems(mem) /\ over \subseteq Live(mem)
  BY <1>1, <1>2, <1>7 DEF Calm, Right
<1>9. \A q \in Player : Spared(mem, m, q)
  BY <1>3, <1>4, <1>5, <1>8, EndAllSpares
<1>10. m \in Images /\ mem \in Images
  BY <1>6, <1>8 DEF Sound
<1>. QED
  BY <1>6, <1>9, <1>10, SparedIsFair

LEMMA TakeMoneyIsFair ==
    ASSUME IInv, NEW p \in Player, NEW money \in DOMAIN mem.letters[p],
           TakeMoney(p, money), mem' \in Images
    PROVE  Fair
<1>1. mem \in Images /\ mem.letters[p] \in LetterBag /\ mem.gold[p] \in Nat
  BY DEF IInv, Typed, Images
<1>2. money \in Nat \ {0}
  BY <1>1, LetterBagIs
<1>3. PICK v \in Nat : v = mem.gold[p] + money
  BY <1>1, <1>2
<1>4. PICK s \in Statements : s = Set("gold", p, v)
  <2>1. v \in Int
    OBVIOUS
  <2>2. Set("gold", p, v) \in Statements
    BY <2>1 DEF Set, Statements
  <2>. QED
    BY <2>2
<1>5. Pay(p, -money) = s
  <2>1. mem.gold[p] > -money /\ mem.gold[p] - (-money) = v
    BY <1>1, <1>2, <1>3
  <2>. QED
    BY <1>4, <2>1 DEF Pay
<1>6. PICK t \in Statements : t = TakeOut(p, money)
  <2>1. PICK k \in Int : k = -money
    BY <1>2
  <2>2. Set("letters", p, k) \in Statements
    BY DEF Set, Statements
  <2>. QED
    BY <2>1, <2>2 DEF TakeOut
<1>7. PICK m : m = Apply(mem, <<s, t>>)
  OBVIOUS
<1>8. mem' = m
  BY <1>5, <1>6, <1>7 DEF TakeMoney, Change
<1>9. PICK im : im = Perform(mem, s)
  OBVIOUS
<1>10. /\ im \in Images
       /\ Wealth(im, p) = Wealth(mem, p) - mem.gold[p] + v
       /\ \A q \in Player \ {p} : Wealth(im, q) = Wealth(mem, q)
  BY <1>1, <1>4, <1>9, GoldWealth
<1>11. im.letters = mem.letters
  <2>1. im = [mem EXCEPT !.gold = [mem.gold EXCEPT ![p] = v]]
    BY <1>1, <1>4, <1>9, SetGold
  <2>. QED
    BY <1>1, <2>1 DEF Images
<1>12. PICK b \in LetterBag : b = im.letters[p] /\ money \in DOMAIN b
  BY <1>1, <1>11
<1>13. PICK c \in LetterBag : c = b (-) SetToBag({money})
  BY <1>12, LetterRemoved
<1>14. m \in Images /\ m = [im EXCEPT !.letters = [im.letters EXCEPT ![p] = c]]
  <2>1. m = Perform(im, TakeOut(p, money))
    BY <1>6, <1>7, <1>9, ApplyFew
  <2>2. PICK k \in DOMAIN im.letters[p] : k = money
    BY <1>12
  <2>3. /\ Perform(im, TakeOut(p, k)) =
              [im EXCEPT !.letters = [im.letters EXCEPT ![p] = @ (-) SetToBag({k})]]
        /\ Perform(im, TakeOut(p, k)) \in Images
    BY <1>10, PerformLetter
  <2>. QED
    BY <1>12, <1>13, <2>1, <2>2, <2>3, Zenon
<1>15. /\ Wealth(m, p) = Wealth(im, p) - BagMoney(b) + BagMoney(c)
       /\ \A q \in Player \ {p} : Wealth(m, q) = Wealth(im, q)
       /\ BagMoney(b) \in Int
  BY <1>10, <1>12, <1>14, LettersWealth
<1>16. BagMoney(c) = BagMoney(b) - money
  BY <1>12, <1>13, BagRemoved
<1>17. ASSUME NEW q \in Player PROVE Spared(mem, m, q)
  <2>1. Wealth(mem, q) \in Int /\ Wealth(mem, p) \in Int
    BY <1>1, WealthIs
  <2>2. Wealth(m, q) = Wealth(mem, q)
    BY <1>1, <1>2, <1>3, <1>10, <1>15, <1>16, <2>1
  <2>. QED
    BY <2>1, <2>2 DEF Spared
<1>. QED
  BY <1>1, <1>8, <1>14, <1>17, SparedIsFair

(* Opening a parcel moves no money. *)
LEMMA TakeItemIsFair ==
    ASSUME IInv, NEW p \in Player, NEW g \in Guid, TakeItem(p, g), mem' \in Images
    PROVE  Fair
<1>1. PICK im \in Images : im = mem
  BY DEF IInv, Typed
<1>2. PICK s \in Statements : s = Parcel(None, g)
  BY DEF Parcel, Set, Statements
<1>3. PICK im1 \in Images :
         /\ im1 = Perform(im, s) /\ im1.gold = im.gold
         /\ im1.letters = im.letters /\ im1.auctions = im.auctions
  <2>1. PICK b \in Images : b = Perform(im, s) /\ b = [im EXCEPT !.mailed = [im.mailed EXCEPT ![g] = None]]
    BY <1>2, SetMailed
  <2>. QED
    BY <2>1 DEF Images
<1>4. ASSUME NEW m \in Images, mem' = m, m.gold = im.gold, m.letters = im.letters,
             m.auctions = im.auctions
      PROVE  Fair
  <2>1. \A q \in Player : Spared(mem, m, q)
    BY <1>1, <1>4, SparedSame
  <2>. QED
    BY <1>1, <1>4, <2>1, SparedIsFair
<1>5. CASE Change(<<Parcel(None, g), Set("inventory", g, p)>>)
  <2>1. PICK t \in Statements : t = Set("inventory", g, p)
    BY DEF Set, Statements
  <2>2. PICK m \in Images : m = Perform(im1, t)
                            /\ m = [im1 EXCEPT !.inventory = [im1.inventory EXCEPT ![g] = p]]
    BY <2>1, SetInventory
  <2>3. m.gold = im.gold /\ m.letters = im.letters /\ m.auctions = im.auctions
    BY <1>3, <2>2 DEF Images
  <2>4. mem' = m
    <3>1. Apply(im, <<s, t>>) = Perform(Perform(im, s), t)
      BY ApplyFew
    <3>. QED
      BY <1>1, <1>2, <1>3, <1>5, <2>1, <2>2, <3>1 DEF Change
  <2>. QED
    BY <1>4, <2>3, <2>4
<1>6. ASSUME NEW h \in Guid \ {g}, mem.stack[h] + mem.stack[g] <= MaxStack,
             Change(<<Parcel(None, g), Set("stack", g, 0),
                      Set("stack", h, mem.stack[h] + mem.stack[g])>>)
      PROVE  Fair
  <2>0. im.stack[h] \in Nat /\ im.stack[g] \in Nat /\ MaxStack \in Nat
    BY ConstantsAssumption DEF Images
  <2>1. PICK r \in 0..MaxStack : r = mem.stack[h] + mem.stack[g]
    BY <1>1, <1>6, <2>0
  <2>2. PICK z \in 0..MaxStack : z = 0
    BY <2>0
  <2>25. ASSUME NEW k \in Guid, NEW y \in 0..MaxStack PROVE Set("stack", k, y) \in Statements
    <3>1. PICK i \in Int : i = y
      BY <2>0
    <3>2. Set("stack", k, i) \in Statements
      BY DEF Set, Statements
    <3>. QED
      BY <3>1, <3>2
  <2>3. PICK t \in Statements : t = Set("stack", g, z)
    BY <2>25
  <2>4. PICK x \in Statements : x = Set("stack", h, r)
    BY <2>25
  <2>5. PICK im2 \in Images : im2 = Perform(im1, t)
                              /\ im2 = [im1 EXCEPT !.stack = [im1.stack EXCEPT ![g] = z]]
    <3>1. /\ Perform(im1, Set("stack", g, z)) =
                [im1 EXCEPT !.stack = [im1.stack EXCEPT ![g] = z]]
          /\ Perform(im1, Set("stack", g, z)) \in Images
      BY SetStack
    <3>. QED
      BY <2>3, <3>1, Zenon
  <2>6. PICK m \in Images : m = Perform(im2, x)
                            /\ m = [im2 EXCEPT !.stack = [im2.stack EXCEPT ![h] = r]]
    <3>1. PICK k \in Guid : k = h
      OBVIOUS
    <3>2. /\ Perform(im2, Set("stack", k, r)) =
                [im2 EXCEPT !.stack = [im2.stack EXCEPT ![k] = r]]
          /\ Perform(im2, Set("stack", k, r)) \in Images
      BY SetStack
    <3>. QED
      BY <2>4, <3>1, <3>2, Zenon
  <2>7. im2.gold = im.gold /\ im2.letters = im.letters /\ im2.auctions = im.auctions
    BY <1>3, <2>5 DEF Images
  <2>8. m.gold = im.gold /\ m.letters = im.letters /\ m.auctions = im.auctions
    BY <2>6, <2>7 DEF Images
  <2>9. mem' = m
    <3>1. Apply(im, <<s, t, x>>) = Perform(Perform(Perform(im, s), t), x)
      BY ApplyFew
    <3>. QED
      BY <1>1, <1>2, <1>3, <1>6, <2>1, <2>2, <2>3, <2>4, <2>5, <2>6, <3>1 DEF Change
  <2>. QED
    BY <1>4, <2>8, <2>9
<1>. QED
  BY <1>5, <1>6 DEF TakeItem

(* A new auction appears in memory: nobody leads it. *)
LEMMA AddAuctionIsFair ==
    ASSUME IInv, NEW w \in Worker, AddAuction(w), mem' \in Images
    PROVE  Fair
<1>1. PICK t, saved : t \in Thread /\ Busy(t, saved)
  BY DEF IInv
<1>2. w \in Thread /\ job[w].step = "add"
  BY DEF AddAuction, Thread
<1>3. t = w
  BY <1>1, <1>2 DEF Busy, OnlyBusy, Idle
<1>4. /\ job[w].id \in AuctionId \ Live(mem) /\ job[w].auction \in AuctionEntry
      /\ job[w].auction.bidder = None
  BY <1>1, <1>2, <1>3 DEF Busy, Stage
<1>5. PICK id \in AuctionId : id = job[w].id /\ id \notin Live(mem)
  BY <1>4
<1>6. PICK a \in AuctionEntry \cup {None} : a = job[w].auction /\ a # None /\ a.bidder = None
  BY <1>4, ConstantsAssumption
<1>7. mem \in Images /\ mem.auctions[id] = None
  BY <1>5 DEF IInv, Typed, Live
<1>8. PICK m : m = Perform(mem, Set("auctions", id, a))
  OBVIOUS
<1>9. mem' = m
  <2>1. m = [mem EXCEPT !.auctions = [mem.auctions EXCEPT ![id] = a]]
    BY <1>7, <1>8, SetAuction
  <2>2. mem' = [mem EXCEPT !.auctions[id] = a]
    BY <1>5, <1>6 DEF AddAuction
  <2>. QED
    BY <2>1, <2>2
<1>10. ASSUME NEW q \in Player PROVE Spared(mem, m, q)
  <2>1. Wealth(m, q) = Wealth(mem, q) - Held(mem.auctions[id], q) + Held(a, q)
    BY <1>7, <1>8, AuctionWealth
  <2>2. Held(mem.auctions[id], q) = 0 /\ Held(a, q) = 0
    BY <1>6, <1>7, ConstantsAssumption DEF Held
  <2>3. Wealth(mem, q) \in Int
    BY <1>7, WealthIs
  <2>4. Wealth(m, q) = Wealth(mem, q)
    BY <2>1, <2>2, <2>3
  <2>. QED
    BY <2>3, <2>4 DEF Spared
<1>. QED
  BY <1>7, <1>9, <1>10, SparedIsFair

LEMMA NextIsFair ==
    ASSUME IInv, ~Overlap, [Next]_vars
    PROVE  Fair
<1>1. mem \in Images /\ mem' \in Images /\ restarts \in Nat
  <2>1. IInv'
    BY NextSound
  <2>. QED
    BY <2>1, ConstantsAssumption DEF IInv, Typed
<1>2. UNCHANGED mem \/ Reload => Fair
  BY <1>1, SameIsFair, RestartIsFair
<1>3. ASSUME NEW w \in Worker, WorkerStep(w) PROVE Fair
  <2>1. CASE ReadAuctionId(w)
    BY <1>2, <2>1 DEF ReadAuctionId
  <2>2. CASE ListWhole(w)
    BY <1>1, <2>2, ListWholeIsFair
  <2>3. CASE ListSplit(w)
    BY <1>1, <2>3, ListSplitIsFair
  <2>4. CASE AddAuctionItem(w)
    BY <1>2, <2>4 DEF AddAuctionItem
  <2>5. CASE AddAuction(w)
    BY <1>1, <2>5, AddAuctionIsFair
  <2>6. CASE FinishBid(w)
    <3>1. w \in Thread /\ Calm /\ Stage(w, mem) /\ job[w].step = "bid"
      BY <2>6, CalmIs DEF FinishBid, Thread
    <3>2. job[w].player \in Player /\ job[w].price \in Prices
      BY <3>1 DEF Stage
    <3>3. CASE job[w].id \in Live(mem)
      <4>1. PICK id \in Live(mem) : id = job[w].id
        BY <3>3
      <4>2. PICK a : a = mem.auctions[id]
        OBVIOUS
      <4>3. BidOn(w, id, a)
        BY <2>6, <3>3, <4>1, <4>2 DEF FinishBid
      <4>. QED
        BY <1>1, <3>1, <3>2, <4>2, <4>3, BidIsFair
    <3>4. CASE job[w].id \notin Live(mem)
      BY <1>2, <2>6, <3>4 DEF FinishBid
    <3>. QED
      BY <3>3, <3>4
  <2>. QED
    BY <1>3, <2>1, <2>2, <2>3, <2>4, <2>5, <2>6 DEF WorkerStep
<1>4. ASSUME NEW w \in Worker, Request(w) PROVE Fair
  BY <1>2, <1>4 DEF Request, SellItem, PlaceBid
<1>5. CASE WorldStep
  <2>1. CASE Update
    BY <1>1, <2>1, UpdateIsFair
  <2>2. CASE FinishCancel
    <3>1. Calm
      BY <2>2, CalmIs DEF FinishCancel, Thread
    <3>2. CASE job[World].id \in Live(mem)
      <4>1. PICK id \in Live(mem) : id = job[World].id
        BY <3>2
      <4>2. PICK a : a = mem.auctions[id]
        OBVIOUS
      <4>3. RemoveItem(id, a)
        BY <2>2, <3>2, <4>1, <4>2 DEF FinishCancel
      <4>. QED
        BY <1>1, <3>1, <4>2, <4>3, RemoveItemIsFair
    <3>3. CASE job[World].id \notin Live(mem)
      BY <1>2, <2>2, <3>3 DEF FinishCancel
    <3>. QED
      BY <3>2, <3>3
  <2>3. ASSUME NEW p \in Player, NEW id \in AuctionId, CancelAuction(p, id) PROVE Fair
    BY <1>2, <2>3 DEF CancelAuction
  <2>4. ASSUME NEW p \in Player, NEW money \in DOMAIN mem.letters[p], TakeMoney(p, money)
        PROVE  Fair
    BY <1>1, <2>4, TakeMoneyIsFair
  <2>5. ASSUME NEW p \in Player, NEW g \in Guid, TakeItem(p, g) PROVE Fair
    BY <1>1, <2>5, TakeItemIsFair
  <2>. QED
    BY <1>5, <2>1, <2>2, <2>3, <2>4, <2>5 DEF WorldStep
<1>6. ASSUME NEW id \in AuctionId, Expire(id) PROVE Fair
  BY <1>2, <1>6 DEF Expire
<1>7. CASE ExecuteTransaction
  BY <1>2, <1>7 DEF ExecuteTransaction
<1>8. CASE Restart
  BY <1>2, <1>8 DEF Restart
<1>9. CASE UNCHANGED vars
  BY <1>2, <1>9 DEF vars
<1>. QED
  BY <1>3, <1>4, <1>5, <1>6, <1>7, <1>8, <1>9 DEF Next
-----------------------------------------------------------------------------
(* Theorems. *)

LEMMA BusyOrIdle ==
    IInv => \E t \in Thread : \E saved :
                /\ Busy(t, saved) /\ Sound(db, nextId) /\ Sound(saved, nextId)
                /\ \A u \in Thread \ {t} : job[u] = Idle
BY SavesSound DEF IInv, Typed, Busy, OnlyBusy

LEMMA ImagesAreImages == ASSUME NEW im \in Images PROVE Image(im)
<1>1. \A p \in Player : im.letters[p] \in LetterBag
  BY DEF Images
<1>2. ASSUME NEW p \in Player
      PROVE  IsABag(im.letters[p]) /\ DOMAIN im.letters[p] \subseteq Nat \ {0}
  <2>1. /\ im.letters[p] \in [DOMAIN im.letters[p] -> Nat \ {0}]
        /\ DOMAIN im.letters[p] \subseteq Nat \ {0}
    BY <1>1, LetterBagIs
  <2>2. Nat \ {0} = {n \in Nat : n > 0}
    OBVIOUS
  <2>. QED
    BY <2>1, <2>2 DEF IsABag
<1>3. \A id \in AuctionId : im.auctions[id] = None \/ im.auctions[id] \in AuctionEntry
  BY DEF Images
<1>. QED
  BY <1>2, <1>3 DEF Image, Images

LEMMA IsTypeOK == IInv => TypeOK
<1>. SUFFICES ASSUME IInv PROVE TypeOK
  OBVIOUS
<1>1. PICK t, saved :
         /\ t \in Thread
         /\ Busy(t, saved) /\ Sound(db, nextId) /\ Sound(saved, nextId)
         /\ \A u \in Thread \ {t} : job[u] = Idle
  BY BusyOrIdle
<1>2. mem \in Images /\ db \in Images /\ saved \in Images
  BY <1>1 DEF IInv, Typed, Sound
<1>3. ASSUME NEW im \in Images PROVE HouseItems(im) \subseteq Guid
  BY LiveIs DEF AuctionEntry
<1>4. items \subseteq Guid
  <2>1. items = HouseItems(mem) \/ items = HouseItems(saved)
    BY <1>1 DEF Busy, Stage
  <2>. QED
    BY <1>2, <1>3, <2>1
<1>5. \A u \in Thread :
         job[u].step \in {"idle", "sell", "list", "item", "add", "bid", "cancel"}
  BY <1>1 DEF Busy, Stage, Idle
<1>. QED
  BY <1>2, <1>4, <1>5, ImagesAreImages DEF TypeOK, IInv, Typed

LEMMA IsOnePlace == IInv => OnePlace
<1>. SUFFICES ASSUME IInv, NEW g \in Guid, NEW im \in (IF Quiet THEN {mem, db} ELSE {db})
              PROVE  Cardinality(Places(im, g)) = (IF im.stack[g] > 0 THEN 1 ELSE 0)
  BY DEF OnePlace
<1>1. PICK t, saved :
         /\ t \in Thread
         /\ Busy(t, saved) /\ Sound(db, nextId) /\ Sound(saved, nextId)
         /\ \A u \in Thread \ {t} : job[u] = Idle
  BY BusyOrIdle
<1>2. Quiet => saved = mem
  BY <1>1 DEF Busy, Stage, Quiet, Idle
<1>3. im = db \/ im = saved
  BY <1>2
<1>4. im \in Images /\ Placed(im)
  BY <1>1, <1>3 DEF Sound
<1>. QED
  BY <1>4, OnePlaceEach

LEMMA IsNothingUnsaved == IInv => NothingUnsaved
<1>. SUFFICES ASSUME IInv, Quiet
              PROVE  /\ Load(Apply(db, FlattenSeq(pending))) = mem
                     /\ items = HouseItems(mem)
  BY DEF NothingUnsaved
<1>1. PICK t, saved :
         /\ t \in Thread
         /\ Busy(t, saved) /\ Sound(db, nextId) /\ Sound(saved, nextId)
         /\ \A u \in Thread \ {t} : job[u] = Idle
  BY BusyOrIdle
<1>2. saved = mem /\ items = HouseItems(mem)
  BY <1>1 DEF Busy, Stage, Quiet, Idle
<1>3. Apply(db, FlattenSeq(pending)) = mem
  BY <1>1, <1>2, SavesAll DEF Busy, IInv, Typed
<1>4. Load(mem) = mem
  BY <1>1, <1>2, LoadAll DEF Sound
<1>. QED
  BY <1>2, <1>3, <1>4

LEMMA IsItemNotThere == IInv => ItemNotThere
<1>. SUFFICES ASSUME IInv, NEW w \in Worker, job[w].step = "item"
              PROVE  job[w].auction.item \notin items
  BY DEF ItemNotThere
<1>1. PICK t, saved : t \in Thread /\ Busy(t, saved)
  BY DEF IInv
<1>2. t = w
  BY <1>1 DEF Busy, OnlyBusy, Idle, Thread
<1>. QED
  BY <1>1, <1>2 DEF Busy, Stage

LEMMA IsMoneyConserved == IInv => MoneyConserved
<1>. SUFFICES ASSUME IInv
              PROVE  Money(mem) = SumFunction(Purse) /\ Money(db) = SumFunction(Purse)
  BY DEF MoneyConserved
<1>1. PICK t, saved : t \in Thread /\ Busy(t, saved)
  BY DEF IInv
<1>2. Right(db, nextId) /\ Right(saved, nextId) /\ mem \in Images
  BY <1>1, SavesSound DEF IInv, Typed, Busy
<1>3. CASE job[t].step \notin {"item", "add"}
  <2>1. saved = mem
    BY <1>1, <1>3 DEF Busy, Stage
  <2>. QED
    BY <1>2, <2>1 DEF Right
<1>4. CASE job[t].step \in {"item", "add"}
  <2>1. PICK id \in AuctionId : id = job[t].id /\ id \notin Live(mem)
    BY <1>1, <1>4 DEF Busy, Stage
  <2>2. PICK a \in AuctionEntry : a = job[t].auction /\ a.bidder = None
    BY <1>1, <1>4 DEF Busy, Stage
  <2>3. saved = [mem EXCEPT !.auctions = [mem.auctions EXCEPT ![id] = a]]
    BY <1>1, <1>4, <2>1, <2>2 DEF Busy, Stage
  <2>4. saved = Perform(mem, Set("auctions", id, a))
    BY <1>2, <2>3, SetAuction
  <2>5. Money(saved) = Money(mem) - Lead(mem.auctions[id]) + Lead(a)
    BY <1>2, <2>4, AuctionMoney
  <2>6. Lead(mem.auctions[id]) = 0 /\ Lead(a) = 0 /\ Money(mem) \in Int
    BY <1>2, <2>1, <2>2, MoneyIs DEF Lead, Live
  <2>. QED
    BY <1>2, <2>5, <2>6 DEF Right
<1>. QED
  BY <1>3, <1>4

LEMMA IsShortOnlyInSplit == IInv => ShortOnlyInSplit
<1>. SUFFICES ASSUME IInv PROVE ShortOnlyInSplit
  OBVIOUS
<1>1. PICK t, saved : t \in Thread /\ Busy(t, saved)
  BY DEF IInv
<1>2. PICK h : Chain(h, db, pending, saved, nextId)
  BY <1>1 DEF Busy, Saves
<1>3. Len(pending) \in Nat
  BY DEF IInv, Typed, Queue
<1>4. Short(db, pending, 0, saved)
  BY <1>2, <1>3 DEF Chain
<1>5. Units(saved) = Units(mem)
  BY <1>1, UnitsSame DEF Busy, Stage, IInv, Typed, Images
<1>. QED
  BY <1>4, <1>5 DEF Short, ShortOnlyInSplit

(* The types of the two images, of _items, the jobs and the counters, as   *)
(* long as no two threads are inside operations of the auction house.      *)
THEOREM TypeCorrect == ~Overlap => (Spec => []TypeOK)
BY InvariantHolds, IsTypeOK, PTL

(* Every item is in one inventory, one parcel or one auction, in memory    *)
(* between operations and in the database after every transaction, so      *)
(* that a restart at any moment finds none twice and none without a place, *)
(* as long as operations do not overlap.                                   *)
THEOREM ItemsHaveOnePlace == ~Overlap => (Spec => []OnePlace)
BY InvariantHolds, IsOnePlace, PTL

(* What SendAuction...Mail, AddAuction and the bids append to their        *)
(* transactions is all that they change in memory: between operations, the *)
(* queue carried out and loaded gives the memory back.                     *)
THEOREM MemoryIsSaved == ~Overlap => (Spec => []NothingUnsaved)
BY InvariantHolds, IsNothingUnsaved, PTL

(* The assertion of AddAuctionItem, that the item of a new auction is not  *)
(* in _items, cannot fail as long as operations do not overlap.            *)
THEOREM AssertionHolds == ~Overlap => (Spec => []ItemNotThere)
BY InvariantHolds, IsItemNotThere, PTL

(* No copper appears or vanishes in purses, letters, leading bids and the  *)
(* till together: neither in memory nor in the database, whichever queued  *)
(* transactions a restart cuts off, as long as operations do not overlap.  *)
THEOREM MoneyIsConserved == ~Overlap => (Spec => []MoneyConserved)
BY InvariantHolds, IsMoneyConserved, PTL

(* The database never holds more of an item than memory, and less only     *)
(* while a split sale's last transaction, which saves the clone, is still  *)
(* queued, as long as operations do not overlap.                           *)
THEOREM OnlySplitsAreShort == ~Overlap => (Spec => []ShortOnlyInSplit)
BY InvariantHolds, IsShortOnlyInSplit, PTL

(* Nobody is charged for an auction he does not win: a player's wealth     *)
(* falls only by the deposit of his own sale or in a step that sends him   *)
(* an item, as long as operations do not overlap.                          *)
THEOREM OnlyBuyersPay == ~Overlap => (Spec => PaysOnlyForGoods)
<1>1. ASSUME ~Overlap PROVE Spec => PaysOnlyForGoods
  <2>1. Init => IInv
    BY InitIsSound
  <2>2. IInv /\ [Next]_vars => IInv'
    BY <1>1, NextSound
  <2>3. IInv /\ [Next]_vars =>
           [\A p \in Player :
               Wealth(mem', p) < Wealth(mem, p) =>
                   restarts' # restarts \/ Sells(p) \/ Receives(p)]_vars
    BY <1>1, NextIsFair DEF Fair
  <2>. QED
    BY <2>1, <2>2, <2>3, PTL DEF Spec, PaysOnlyForGoods
<1>. QED
  BY <1>1
=============================================================================
