----------------------------- MODULE DataLemmas -----------------------------
(***************************************************************************)
(* What the recursive functions of the community modules compute, for the  *)
(* proofs about the modules that use them.  Induction is stated for a set  *)
(* of numbers, the theorem on < that is proved in WellFoundedInduction     *)
(* behind it.                                                              *)
(***************************************************************************)
EXTENDS Integers, Sequences, SequencesExt, Functions, FiniteSetsExt, SequenceTheorems,
        FiniteSetTheorems, WellFoundedInduction, TLAPS

(* Every non-empty set of numbers has a least one. *)
LEMMA LeastNumber ==
    ASSUME NEW T \in SUBSET Nat, T # {}
    PROVE  \E n \in T : \A m \in T : ~(m < n)
<1>1. \E n \in T : \A m \in T : <<m, n>> \notin OpToRel(<, Nat)
  BY NatLessThanWellFounded, WFMin
<1>2. \A m, n \in Nat : m < n => <<m, n>> \in OpToRel(<, Nat)
  BY DEF OpToRel
<1>. QED
  BY <1>1, <1>2

LEMMA Induction ==
    ASSUME NEW T, 0 \in T, \A n \in Nat : n \in T => n + 1 \in T
    PROVE  \A n \in Nat : n \in T
<1>. SUFFICES ASSUME NEW k \in Nat, k \notin T PROVE FALSE
  OBVIOUS
<1>1. PICK n \in Nat \ T : \A m \in Nat \ T : ~(m < n)
  BY LeastNumber
<1>2. n # 0 /\ n - 1 \in Nat /\ n - 1 < n /\ n = (n - 1) + 1
  BY <1>1
<1>3. n - 1 \in T
  BY <1>1, <1>2
<1>. QED
  BY <1>1, <1>2, <1>3

-----------------------------------------------------------------------------
(* Sequences. *)

(* Concatenation under a name, which the provers do not expand. *)
Cat(s, t) == s \o t

LEMMA Concat ==
    ASSUME NEW B
    PROVE  \A u, v, w \in Seq(B) : Cat(u, v) \in Seq(B) /\ Cat(Cat(u, v), w) = Cat(u, Cat(v, w))
<1>. TAKE u, v, w \in Seq(B)
<1>1. u \o v \in Seq(B)
  BY ConcatProperties
<1>2. (u \o v) \o w = u \o (v \o w)
  BY ConcatAssociative
<1>. QED
  BY <1>1, <1>2 DEF Cat

LEMMA SplitSeq ==
    ASSUME NEW B, NEW s \in Seq(B), NEW n \in 0..Len(s)
    PROVE  /\ SubSeq(s, 1, n) \in Seq(B) /\ SubSeq(s, n + 1, Len(s)) \in Seq(B)
           /\ Len(SubSeq(s, 1, n)) = n /\ Len(SubSeq(s, n + 1, Len(s))) = Len(s) - n
           /\ SubSeq(s, 1, n) \o SubSeq(s, n + 1, Len(s)) = s
<1>1. Len(s) \in Nat /\ \A i \in 1..Len(s) : s[i] \in B
  BY LenProperties, ElementOfSeq
<1>2. SubSeq(s, 1, n) \in Seq(B) /\ Len(SubSeq(s, 1, n)) = n
  BY <1>1, SubSeqProperties
<1>3. SubSeq(s, n + 1, Len(s)) \in Seq(B) /\ Len(SubSeq(s, n + 1, Len(s))) = Len(s) - n
  BY <1>1, SubSeqProperties
<1>4. SubSeq(s, 1, n) \o SubSeq(s, n + 1, Len(s)) = SubSeq(s, 1, Len(s))
  <2>1. 1 \in 1..Len(s) + 1 /\ n \in 1 - 1..Len(s) /\ Len(s) \in n..Len(s)
    BY <1>1
  <2>. QED
    BY <2>1, ConcatAdjacentSubSeq, Zenon
<1>5. SubSeq(s, 1, Len(s)) = s
  BY SubSeqFull
<1>. QED
  BY <1>2, <1>3, <1>4, <1>5

LEMMA PrefixConcat ==
    ASSUME NEW B, NEW s \in Seq(B), NEW t \in Seq(B)
    PROVE  IsPrefix(s, s \o t)
<1>1. PICK u : u = s \o t
  OBVIOUS
<1>2. u \in Seq(B) /\ Len(u) = Len(s) + Len(t) /\ \A i \in 1..Len(s) : u[i] = s[i]
  BY <1>1, ConcatProperties
<1>3. Len(s) \in Nat /\ Len(t) \in Nat
  BY LenProperties
<1>4. SubSeq(u, 1, Len(s)) = [i \in 1..Len(s) |-> u[i]]
  BY <1>2, <1>3
<1>5. SubSeq(s, 1, Len(s)) = [i \in 1..Len(s) |-> s[i]]
  BY <1>3
<1>6. SubSeq(s, 1, Len(s)) = SubSeq(u, 1, Len(s))
  BY <1>2, <1>4, <1>5
<1>. QED
  BY <1>1, <1>2, <1>3, <1>6 DEF IsPrefix

(* What a sequence begins with and what follows it are replaced one by one. *)
LEMMA ReplaceHead ==
    ASSUME NEW B, NEW s \in Seq(B), s # <<>>, NEW x \in B
    PROVE  /\ [s EXCEPT ![1] = x] \in Seq(B) /\ [s EXCEPT ![1] = x] # <<>>
           /\ Head([s EXCEPT ![1] = x]) = x /\ Tail([s EXCEPT ![1] = x]) = Tail(s)
<1>1. PICK t : t = [s EXCEPT ![1] = x]
  OBVIOUS
<1>2. 1 \in 1..Len(s) /\ Len(s) \in Nat
  BY EmptySeq
<1>3. t \in Seq(B) /\ Len(t) = Len(s) /\ t[1] = x /\ \A i \in 1..Len(s) : i # 1 => t[i] = s[i]
  BY <1>1, <1>2, ExceptSeq
<1>4. t # <<>> /\ Head(t) = x
  BY <1>2, <1>3
<1>5. /\ Tail(t) \in Seq(B) /\ Len(Tail(t)) = Len(s) - 1
      /\ \A i \in 1..(Len(s) - 1) : Tail(t)[i] = t[i + 1]
  BY <1>3, <1>4, HeadTailProperties
<1>6. /\ Tail(s) \in Seq(B) /\ Len(Tail(s)) = Len(s) - 1
      /\ \A i \in 1..(Len(s) - 1) : Tail(s)[i] = s[i + 1]
  BY HeadTailProperties
<1>7. \A i \in 1..(Len(s) - 1) : t[i + 1] = s[i + 1]
  BY <1>2, <1>3
<1>8. \A i \in 1..(Len(s) - 1) : Tail(t)[i] = Tail(s)[i]
  BY <1>5, <1>6, <1>7
<1>9. Tail(t) = Tail(s)
  BY <1>5, <1>6, <1>8, SeqEqual
<1>. QED
  BY <1>1, <1>3, <1>4, <1>9

-----------------------------------------------------------------------------
(* FlattenSeq.                                                             *)

(* f is the function that FlattenSeq defines, for the first n members of s. *)
Flattens(f, s, n) == f = [i \in 1..n |-> IF i = 1 THEN s[i] ELSE f[i - 1] \o s[i]]

Agree(f, g, n) == \A i \in 1..n : f[i] = g[i]

LEMMA FlattensGrows ==
    ASSUME NEW s, NEW n \in Nat, NEW f, n > 0 => Flattens(f, s, n)
    PROVE  \E g : Flattens(g, s, n + 1)
<1>. DEFINE Value(h, i) == IF i = 1 THEN s[i] ELSE h[i - 1] \o s[i]
<1>1. PICK g : g = [i \in 1..(n + 1) |-> IF i = n + 1 THEN Value(f, i) ELSE f[i]]
  OBVIOUS
<1>2. ASSUME NEW i \in 1..(n + 1) PROVE g[i] = Value(g, i)
  <2>1. CASE i = 1 /\ n = 0
    BY <1>1, <2>1
  <2>2. CASE i = 1 /\ n > 0
    <3>1. 1 \in 1..n /\ Flattens(f, s, n)
      BY <2>2
    <3>2. f[1] = s[1]
      BY <3>1, Zenon DEF Flattens
    <3>3. g[i] = f[1]
      BY <1>1, <2>2
    <3>. QED
      BY <2>2, <3>2, <3>3
  <2>3. CASE i # 1
    <3>1. i - 1 \in 1..n /\ i - 1 \in 1..(n + 1) /\ i - 1 # n + 1 /\ n > 0
      BY <2>3
    <3>2. g[i - 1] = f[i - 1]
      BY <1>1, <3>1
    <3>3. CASE i = n + 1
      <4>1. g[i] = Value(f, i)
        BY <1>1, <3>3
      <4>. QED
        BY <2>3, <3>2, <4>1
    <3>4. CASE i # n + 1
      <4>1. g[i] = f[i] /\ i \in 1..n
        BY <1>1, <3>4
      <4>2. f[i] = f[i - 1] \o s[i]
        BY <2>3, <3>1, <4>1 DEF Flattens
      <4>. QED
        BY <2>3, <3>2, <4>1, <4>2
    <3>. QED
      BY <3>3, <3>4
  <2>. QED
    BY <2>1, <2>2, <2>3
<1>3. g = [i \in 1..(n + 1) |-> Value(g, i)]
  <2>1. g = [i \in 1..(n + 1) |-> g[i]]
    BY <1>1
  <2>. HIDE DEF Value
  <2>. QED
    BY <1>2, <2>1
<1>. QED
  BY <1>3 DEF Flattens

LEMMA FlattensExists ==
    ASSUME NEW s
    PROVE  \A n \in Nat : n > 0 => \E f : Flattens(f, s, n)
<1>1. PICK T : T = {n \in Nat : n > 0 => \E f : Flattens(f, s, n)}
  OBVIOUS
<1>2. 0 \in T
  BY <1>1
<1>3. ASSUME NEW n \in Nat, n \in T PROVE n + 1 \in T
  <2>1. PICK f : n > 0 => Flattens(f, s, n)
    BY <1>1, <1>3
  <2>2. \E g : Flattens(g, s, n + 1)
    BY <2>1, FlattensGrows
  <2>. QED
    BY <1>1, <2>2
<1>4. \A n \in Nat : n \in T
  BY <1>2, <1>3, Induction
<1>. QED
  BY <1>1, <1>4

LEMMA FlattensUnique ==
    ASSUME NEW s, NEW t, NEW n \in Nat, NEW m \in Nat, n <= m, NEW f, NEW g,
           Flattens(f, s, n), Flattens(g, t, m), Agree(s, t, n)
    PROVE  Agree(f, g, n)
<1>1. PICK T : T = {i \in Nat : i \in 1..n => f[i] = g[i]}
  OBVIOUS
<1>2. 0 \in T
  BY <1>1
<1>3. ASSUME NEW i \in Nat, i \in T, i + 1 \in 1..n PROVE f[i + 1] = g[i + 1]
  <2>1. i + 1 \in 1..m /\ s[i + 1] = t[i + 1] /\ (i + 1) - 1 = i
    BY <1>3 DEF Agree
  <2>2. f[i + 1] = IF i + 1 = 1 THEN s[i + 1] ELSE f[(i + 1) - 1] \o s[i + 1]
    BY <1>3, Zenon DEF Flattens
  <2>3. g[i + 1] = IF i + 1 = 1 THEN t[i + 1] ELSE g[(i + 1) - 1] \o t[i + 1]
    BY <2>1, Zenon DEF Flattens
  <2>4. CASE i + 1 = 1
    BY <2>1, <2>2, <2>3, <2>4
  <2>5. CASE i + 1 # 1
    <3>1. f[i] = g[i]
      BY <1>1, <1>3, <2>5
    <3>. QED
      BY <2>1, <2>2, <2>3, <2>5, <3>1
  <2>. QED
    BY <2>4, <2>5
<1>4. \A i \in Nat : i \in T
  BY <1>1, <1>2, <1>3, Induction
<1>. QED
  BY <1>1, <1>4 DEF Agree

LEMMA FlattenSeqDef ==
    ASSUME NEW B, NEW s \in Seq(Seq(B)), s # <<>>
    PROVE  \E f : Flattens(f, s, Len(s)) /\ FlattenSeq(s) = f[Len(s)]
<1>. DEFINE flatten == CHOOSE f : Flattens(f, s, Len(s))
<1>1. Len(s) # 0 /\ Len(s) \in Nat /\ Len(s) > 0
  OBVIOUS
<1>2. FlattenSeq(s) = flatten[Len(s)]
  BY <1>1 DEF FlattenSeq, Flattens
<1>3. Flattens(flatten, s, Len(s))
  BY <1>1, FlattensExists
<1>. QED
  BY <1>2, <1>3

LEMMA FlattenEmpty == FlattenSeq(<<>>) = <<>>
BY DEF FlattenSeq

LEMMA FlattenAppend ==
    ASSUME NEW B, NEW s \in Seq(Seq(B)), NEW x \in Seq(B)
    PROVE  FlattenSeq(Append(s, x)) = FlattenSeq(s) \o x
<1>1. PICK t : t = Append(s, x)
  OBVIOUS
<1>2. /\ t \in Seq(Seq(B)) /\ t # <<>> /\ Len(t) = Len(s) + 1 /\ t[Len(s) + 1] = x
      /\ Len(s) \in Nat /\ \A i \in 1..Len(s) : s[i] = t[i]
  BY <1>1, AppendProperties, LenProperties
<1>3. PICK g : Flattens(g, t, Len(t)) /\ FlattenSeq(t) = g[Len(t)]
  BY <1>2, FlattenSeqDef
<1>4. CASE s = <<>>
  <2>1. Len(t) = 1 /\ 1 \in 1..1
    BY <1>2, <1>4
  <2>2. g[1] = t[1]
    BY <1>3, <2>1, Zenon DEF Flattens
  <2>3. <<>> \o x = x /\ FlattenSeq(s) = <<>> /\ t[1] = x
    BY <1>2, <1>4, FlattenEmpty
  <2>. QED
    BY <1>1, <1>3, <2>1, <2>2, <2>3
<1>5. CASE s # <<>>
  <2>1. PICK f : Flattens(f, s, Len(s)) /\ FlattenSeq(s) = f[Len(s)]
    BY <1>5, FlattenSeqDef
  <2>2. Len(s) \in 1..Len(s) /\ Len(t) \in Nat /\ Len(s) <= Len(t)
    BY <1>2, <1>5
  <2>3. f[Len(s)] = g[Len(s)]
    <3>1. PICK n \in Nat, m \in Nat : n = Len(s) /\ m = Len(t) /\ n <= m
      BY <1>2, <2>2
    <3>2. Flattens(f, s, n) /\ Flattens(g, t, m)
      BY <1>3, <2>1, <3>1
    <3>3. Agree(s, t, n)
      BY <1>2, <3>1 DEF Agree
    <3>4. Agree(f, g, n)
      BY <3>1, <3>2, <3>3, FlattensUnique
    <3>. QED
      BY <2>2, <3>1, <3>4 DEF Agree
  <2>4. Len(t) \in 1..Len(t) /\ Len(t) # 1 /\ Len(t) - 1 = Len(s)
    BY <1>2, <2>2
  <2>5. g[Len(t)] = g[Len(t) - 1] \o t[Len(t)]
    BY <1>3, <2>4, Zenon DEF Flattens
  <2>. QED
    BY <1>1, <1>2, <1>3, <2>1, <2>2, <2>3, <2>4, <2>5
<1>. QED
  BY <1>4, <1>5

LEMMA FlattenType ==
    ASSUME NEW B
    PROVE  \A s \in Seq(Seq(B)) : FlattenSeq(s) \in Seq(B)
<1>1. PICK T : T = {n \in Nat : \A s \in Seq(Seq(B)) : Len(s) = n => FlattenSeq(s) \in Seq(B)}
  OBVIOUS
<1>2. 0 \in T
  <2>1. \A s \in Seq(Seq(B)) : Len(s) = 0 => s = <<>>
    OBVIOUS
  <2>2. <<>> \in Seq(B)
    OBVIOUS
  <2>. QED
    BY <1>1, <2>1, <2>2, FlattenEmpty
<1>3. ASSUME NEW n \in Nat, n \in T PROVE n + 1 \in T
  <2>1. ASSUME NEW s \in Seq(Seq(B)), Len(s) = n + 1 PROVE FlattenSeq(s) \in Seq(B)
    <3>1. s # <<>>
      BY <2>1
    <3>2. PICK r \in Seq(Seq(B)), x \in Seq(B) : s = Append(r, x)
      BY <3>1, SequenceEmptyOrAppend
    <3>3. Len(r) = n
      BY <2>1, <3>2
    <3>4. FlattenSeq(r) \in Seq(B)
      BY <1>1, <1>3, <3>3
    <3>. QED
      BY <3>2, <3>4, FlattenAppend, ConcatProperties
  <2>. QED
    BY <1>1, <2>1
<1>4. \A n \in Nat : n \in T
  BY <1>2, <1>3, Induction
<1>. QED
  BY <1>1, <1>4, LenProperties

LEMMA FlattenHead ==
    ASSUME NEW B
    PROVE  \A s \in Seq(Seq(B)) : s # <<>> => FlattenSeq(s) = Head(s) \o FlattenSeq(Tail(s))
<1>1. PICK T : T = {n \in Nat : \A s \in Seq(Seq(B)) :
                        Len(s) = n + 1 => FlattenSeq(s) = Head(s) \o FlattenSeq(Tail(s))}
  OBVIOUS
<1>2. ASSUME NEW r \in Seq(Seq(B)), NEW x \in Seq(B),
             r # <<>> => FlattenSeq(r) = Head(r) \o FlattenSeq(Tail(r))
      PROVE  FlattenSeq(Append(r, x)) = Head(Append(r, x)) \o FlattenSeq(Tail(Append(r, x)))
  <2>1. FlattenSeq(Append(r, x)) = FlattenSeq(r) \o x
    BY FlattenAppend
  <2>2. CASE r = <<>>
    <3>1. Head(Append(r, x)) = x /\ Tail(Append(r, x)) = <<>>
      BY <2>2, HeadTailAppend
    <3>2. <<>> \o x = x /\ x \o <<>> = x
      BY ConcatEmptySeq
    <3>. QED
      BY <2>1, <2>2, <3>1, <3>2, FlattenEmpty
  <2>3. CASE r # <<>>
    <3>1. Head(Append(r, x)) = Head(r) /\ Tail(Append(r, x)) = Append(Tail(r), x)
      BY <2>3, HeadTailAppend
    <3>2. Head(r) \in Seq(B) /\ Tail(r) \in Seq(Seq(B))
      BY <2>3, HeadTailProperties
    <3>3. FlattenSeq(Tail(r)) \in Seq(B)
      BY <3>2, FlattenType
    <3>4. FlattenSeq(Append(Tail(r), x)) = FlattenSeq(Tail(r)) \o x
      BY <3>2, FlattenAppend
    <3>5. (Head(r) \o FlattenSeq(Tail(r))) \o x = Head(r) \o (FlattenSeq(Tail(r)) \o x)
      <4>1. PICK a \in Seq(B), b \in Seq(B) : a = Head(r) /\ b = FlattenSeq(Tail(r))
        BY <3>2, <3>3
      <4>2. (a \o b) \o x = a \o (b \o x)
        BY ConcatAssociative
      <4>. QED
        BY <4>1, <4>2
    <3>. QED
      BY <1>2, <2>1, <2>3, <3>1, <3>4, <3>5
  <2>. QED
    BY <2>2, <2>3
<1>3. \A s \in Seq(Seq(B)) : s # <<>> => \E r \in Seq(Seq(B)), x \in Seq(B) :
          s = Append(r, x) /\ Len(s) = Len(r) + 1
  <2>. TAKE s \in Seq(Seq(B))
  <2>. HAVE s # <<>>
  <2>1. PICK r \in Seq(Seq(B)), x \in Seq(B) : s = Append(r, x)
    BY SequenceEmptyOrAppend
  <2>. QED
    BY <2>1
<1>4. 0 \in T
  <2>1. ASSUME NEW s \in Seq(Seq(B)), Len(s) = 1
        PROVE  FlattenSeq(s) = Head(s) \o FlattenSeq(Tail(s))
    <3>0. s # <<>>
      <4>1. SUFFICES ASSUME s = <<>> PROVE Len(s) = 0
        BY <2>1
      <4>. QED
        BY <4>1
    <3>1. PICK r \in Seq(Seq(B)), x \in Seq(B) : s = Append(r, x) /\ Len(s) = Len(r) + 1
      BY <1>3, <3>0
    <3>2. r = <<>>
      BY <2>1, <3>1
    <3>. QED
      BY <1>2, <3>1, <3>2
  <2>. QED
    BY <1>1, <2>1
<1>5. ASSUME NEW n \in Nat, n \in T PROVE n + 1 \in T
  <2>1. ASSUME NEW s \in Seq(Seq(B)), Len(s) = (n + 1) + 1
        PROVE  FlattenSeq(s) = Head(s) \o FlattenSeq(Tail(s))
    <3>1. s # <<>>
      BY <2>1
    <3>2. PICK r \in Seq(Seq(B)), x \in Seq(B) : s = Append(r, x) /\ Len(s) = Len(r) + 1
      BY <1>3, <3>1
    <3>3. Len(r) = n + 1
      BY <2>1, <3>2
    <3>4. FlattenSeq(r) = Head(r) \o FlattenSeq(Tail(r))
      BY <1>1, <1>5, <3>3
    <3>. QED
      BY <1>2, <3>2, <3>4
  <2>. QED
    BY <1>1, <2>1
<1>6. \A n \in Nat : n \in T
  BY <1>4, <1>5, Induction
<1>7. \A s \in Seq(Seq(B)) : s # <<>> => Len(s) - 1 \in Nat /\ Len(s) = (Len(s) - 1) + 1
  BY EmptySeq
<1>. QED
  BY <1>1, <1>6, <1>7
-----------------------------------------------------------------------------
(* SumFunction, of a function with a finite domain.                        *)

Choice(s) == CHOOSE x \in s : TRUE

(* h is the function that SumFunction(f) defines on the subsets of S. *)
Sums(h, f, S) ==
    h = [s \in SUBSET S |-> IF s = {} THEN 0 ELSE f[Choice(s)] + h[s \ {Choice(s)}]]

(* The same, for the subsets of at most n elements. *)
SumsUpTo(n, h, f, S) ==
    h = [s \in SUBSET S |-> IF s = {} \/ Cardinality(s) > n THEN 0
                            ELSE f[Choice(s)] + h[s \ {Choice(s)}]]

LEMMA ChoiceIsIn == ASSUME NEW s, s # {} PROVE Choice(s) \in s
BY DEF Choice

LEMMA OneLess ==
    ASSUME NEW S, IsFiniteSet(S), NEW s \in SUBSET S, NEW x \in s
    PROVE  /\ Cardinality(s) \in Nat /\ Cardinality(s) > 0 /\ s \ {x} \in SUBSET S
           /\ Cardinality(s \ {x}) = Cardinality(s) - 1
<1>1. IsFiniteSet(s)
  BY FS_Subset
<1>2. Cardinality(s) \in Nat /\ Cardinality(s \ {x}) = Cardinality(s) - 1
      /\ Cardinality(s \ {x}) \in Nat
  BY <1>1, FS_RemoveElement, FS_CardinalityType
<1>. QED
  BY <1>2

LEMMA SumsGrow ==
    ASSUME NEW S, IsFiniteSet(S), NEW f, NEW n \in Nat, NEW h, SumsUpTo(n, h, f, S)
    PROVE  \E g : SumsUpTo(n + 1, g, f, S)
<1>1. PICK g : g = [s \in SUBSET S |-> IF s = {} \/ Cardinality(s) > n + 1 THEN 0
                                       ELSE f[Choice(s)] + h[s \ {Choice(s)}]]
  OBVIOUS
<1>2. ASSUME NEW s \in SUBSET S, Cardinality(s) <= n PROVE g[s] = h[s]
  <2>1. Cardinality(s) \in Nat
    BY FS_Subset, FS_CardinalityType
  <2>2. ~(Cardinality(s) > n) /\ ~(Cardinality(s) > n + 1)
    BY <1>2, <2>1
  <2>3. h[s] = IF s = {} \/ Cardinality(s) > n THEN 0 ELSE f[Choice(s)] + h[s \ {Choice(s)}]
    BY Zenon DEF SumsUpTo
  <2>4. g[s] = IF s = {} \/ Cardinality(s) > n + 1 THEN 0 ELSE f[Choice(s)] + h[s \ {Choice(s)}]
    BY <1>1, Zenon
  <2>5. CASE s = {}
    BY <2>3, <2>4, <2>5, Zenon
  <2>6. CASE s # {}
    BY <2>2, <2>3, <2>4, <2>6, Zenon
  <2>. QED
    BY <2>5, <2>6
<1>3. ASSUME NEW s \in SUBSET S
      PROVE  g[s] = IF s = {} \/ Cardinality(s) > n + 1 THEN 0
                    ELSE f[Choice(s)] + g[s \ {Choice(s)}]
  <2>1. g[s] = IF s = {} \/ Cardinality(s) > n + 1 THEN 0 ELSE f[Choice(s)] + h[s \ {Choice(s)}]
    BY <1>1, Zenon
  <2>2. ASSUME s # {}, ~(Cardinality(s) > n + 1)
        PROVE  g[s \ {Choice(s)}] = h[s \ {Choice(s)}]
    <3>1. Choice(s) \in s
      BY <2>2, ChoiceIsIn
    <3>2. s \ {Choice(s)} \in SUBSET S /\ Cardinality(s \ {Choice(s)}) <= n
      BY <2>2, <3>1, OneLess
    <3>. QED
      BY <1>2, <3>2
  <2>. QED
    BY <2>1, <2>2, Zenon
<1>4. SumsUpTo(n + 1, g, f, S)
  <2>1. g = [s \in SUBSET S |-> g[s]]
    BY <1>1, Zenon
  <2>. QED
    BY <1>3, <2>1, Zenon DEF SumsUpTo
<1>. QED
  BY <1>4

LEMMA SumsExist ==
    ASSUME NEW S, IsFiniteSet(S), NEW f
    PROVE  \E h : Sums(h, f, S)
<1>1. PICK T : T = {n \in Nat : \E h : SumsUpTo(n, h, f, S)}
  OBVIOUS
<1>2. 0 \in T
  <2>1. PICK h : h = [s \in SUBSET S |-> 0]
    OBVIOUS
  <2>2. \A s \in SUBSET S : s = {} \/ Cardinality(s) > 0
    <3>. TAKE s \in SUBSET S
    <3>1. IsFiniteSet(s)
      BY FS_Subset
    <3>. QED
      BY <3>1, FS_EmptySet, FS_CardinalityType
  <2>3. SumsUpTo(0, h, f, S)
    BY <2>1, <2>2, Zenon DEF SumsUpTo
  <2>. QED
    BY <1>1, <2>3
<1>3. \A n \in Nat : n \in T => n + 1 \in T
  BY <1>1, SumsGrow
<1>4. \A n \in Nat : n \in T
  BY <1>2, <1>3, Induction
<1>5. Cardinality(S) \in Nat
  BY FS_CardinalityType
<1>6. PICK h : SumsUpTo(Cardinality(S), h, f, S)
  BY <1>1, <1>4, <1>5
<1>7. \A s \in SUBSET S : ~(Cardinality(s) > Cardinality(S))
  <2>. TAKE s \in SUBSET S
  <2>1. Cardinality(s) <= Cardinality(S) /\ Cardinality(s) \in Nat
    BY FS_Subset, FS_CardinalityType
  <2>. QED
    BY <1>5, <2>1
<1>8. Sums(h, f, S)
  BY <1>6, <1>7, Zenon DEF SumsUpTo, Sums
<1>. QED
  BY <1>8

LEMMA SumDef ==
    ASSUME NEW f, IsFiniteSet(DOMAIN f)
    PROVE  \E h : Sums(h, f, DOMAIN f) /\ SumFunction(f) = h[DOMAIN f]
<1>1. SumFunction(f) = (CHOOSE h : Sums(h, f, DOMAIN f))[DOMAIN f]
  BY Zenon DEF SumFunction, SumFunctionOnSet, FoldFunctionOnSet, MapThenFoldSet, Sums, Choice
<1>2. \E h : Sums(h, f, DOMAIN f)
  BY SumsExist
<1>. QED
  BY <1>1, <1>2

LEMMA SumsStep ==
    ASSUME NEW S, NEW f, NEW h, Sums(h, f, S)
    PROVE  /\ h[{}] = 0
           /\ \A s \in SUBSET S : s # {} => h[s] = f[Choice(s)] + h[s \ {Choice(s)}]
<1>1. ASSUME NEW s \in SUBSET S
      PROVE  h[s] = IF s = {} THEN 0 ELSE f[Choice(s)] + h[s \ {Choice(s)}]
  BY Zenon DEF Sums
<1>2. {} \in SUBSET S
  OBVIOUS
<1>. QED
  BY <1>1, <1>2

(* Two of these functions agree where what they sum agrees. *)
LEMMA SumsAgree ==
    ASSUME NEW S, NEW R, IsFiniteSet(S), S \subseteq R, NEW f, NEW g, \A x \in S : f[x] = g[x],
           NEW h, NEW k, Sums(h, f, S), Sums(k, g, R)
    PROVE  h[S] = k[S]
<1>5. ASSUME NEW s \in SUBSET S, s # {} PROVE h[s] = f[Choice(s)] + h[s \ {Choice(s)}]
  <2>1. h[s] = IF s = {} THEN 0 ELSE f[Choice(s)] + h[s \ {Choice(s)}]
    BY Zenon DEF Sums
  <2>. QED
    BY <1>5, <2>1
<1>6. ASSUME NEW s \in SUBSET R, s # {} PROVE k[s] = g[Choice(s)] + k[s \ {Choice(s)}]
  <2>1. k[s] = IF s = {} THEN 0 ELSE g[Choice(s)] + k[s \ {Choice(s)}]
    BY Zenon DEF Sums
  <2>. QED
    BY <1>6, <2>1
<1>7. h[{}] = 0 /\ k[{}] = 0
  <2>1. h[{}] = 0
    BY SumsStep, Zenon
  <2>2. k[{}] = 0
    BY SumsStep, Zenon
  <2>. QED
    BY <2>1, <2>2
<1>1. PICK T : T = {n \in Nat : \A s \in SUBSET S : Cardinality(s) = n => h[s] = k[s]}
  OBVIOUS
<1>2. 0 \in T
  <2>1. \A s \in SUBSET S : Cardinality(s) = 0 => s = {}
    BY FS_Subset, FS_EmptySet
  <2>. QED
    BY <1>1, <1>7, <2>1
<1>3. ASSUME NEW n \in Nat, n \in T PROVE n + 1 \in T
  <2>1. ASSUME NEW s \in SUBSET S, Cardinality(s) = n + 1 PROVE h[s] = k[s]
    <3>1. s # {}
      BY <2>1, FS_EmptySet
    <3>2. Choice(s) \in s
      BY <3>1, ChoiceIsIn
    <3>3. s \ {Choice(s)} \in SUBSET S /\ Cardinality(s \ {Choice(s)}) = n
      BY <2>1, <3>2, OneLess
    <3>4. h[s \ {Choice(s)}] = k[s \ {Choice(s)}]
      BY <1>1, <1>3, <3>3
    <3>5. s \in SUBSET R
      OBVIOUS
    <3>6. h[s] = f[Choice(s)] + h[s \ {Choice(s)}] /\ k[s] = g[Choice(s)] + k[s \ {Choice(s)}]
      BY <1>5, <1>6, <3>1, <3>5
    <3>. QED
      BY <3>2, <3>4, <3>6
  <2>. QED
    BY <1>1, <2>1
<1>4. \A n \in Nat : n \in T
  BY <1>2, <1>3, Induction
<1>. QED
  BY <1>1, <1>4, FS_CardinalityType

LEMMA SumsAreIntegers ==
    ASSUME NEW S, IsFiniteSet(S), NEW f, \A x \in S : f[x] \in Int, NEW h, Sums(h, f, S)
    PROVE  \A s \in SUBSET S : h[s] \in Int
<1>0. \A s \in SUBSET S : s # {} => h[s] = f[Choice(s)] + h[s \ {Choice(s)}]
  BY SumsStep
<1>1. PICK T : T = {n \in Nat : \A s \in SUBSET S : Cardinality(s) = n => h[s] \in Int}
  OBVIOUS
<1>2. 0 \in T
  <2>1. \A s \in SUBSET S : Cardinality(s) = 0 => s = {}
    BY FS_Subset, FS_EmptySet
  <2>2. h[{}] = 0
    BY SumsStep
  <2>. QED
    BY <1>1, <2>1, <2>2
<1>3. ASSUME NEW n \in Nat, n \in T PROVE n + 1 \in T
  <2>1. ASSUME NEW s \in SUBSET S, Cardinality(s) = n + 1 PROVE h[s] \in Int
    <3>1. s # {}
      BY <2>1, FS_EmptySet
    <3>2. Choice(s) \in s
      BY <3>1, ChoiceIsIn
    <3>3. s \ {Choice(s)} \in SUBSET S /\ Cardinality(s \ {Choice(s)}) = n
      BY <2>1, <3>2, OneLess
    <3>4. h[s \ {Choice(s)}] \in Int /\ f[Choice(s)] \in Int
      BY <1>1, <1>3, <3>2, <3>3
    <3>5. h[s] = f[Choice(s)] + h[s \ {Choice(s)}]
      BY <1>0, <3>1
    <3>. QED
      BY <3>4, <3>5
  <2>. QED
    BY <1>1, <2>1
<1>4. \A n \in Nat : n \in T
  BY <1>2, <1>3, Induction
<1>5. ASSUME NEW s \in SUBSET S PROVE Cardinality(s) \in Nat
  BY FS_Subset, FS_CardinalityType
<1>. QED
  BY <1>1, <1>4, <1>5

(* Any element can be the one that is added last. *)
LEMMA SumsCommute ==
    ASSUME NEW S, IsFiniteSet(S), NEW f, \A x \in S : f[x] \in Int, NEW h, Sums(h, f, S)
    PROVE  \A s \in SUBSET S : \A x \in s : h[s] = f[x] + h[s \ {x}]
<1>0. \A s \in SUBSET S : h[s] \in Int
  BY SumsAreIntegers
<1>6. \A s \in SUBSET S : s # {} => h[s] = f[Choice(s)] + h[s \ {Choice(s)}]
  BY SumsStep
<1>1. PICK T : T = {n \in Nat : \A s \in SUBSET S : Cardinality(s) = n =>
                        \A x \in s : h[s] = f[x] + h[s \ {x}]}
  OBVIOUS
<1>2. 0 \in T
  <2>1. \A s \in SUBSET S : Cardinality(s) = 0 => s = {}
    BY FS_Subset, FS_EmptySet
  <2>. QED
    BY <1>1, <2>1
<1>3. ASSUME NEW n \in Nat, n \in T PROVE n + 1 \in T
  <2>1. ASSUME NEW s \in SUBSET S, Cardinality(s) = n + 1, NEW x \in s
        PROVE  h[s] = f[x] + h[s \ {x}]
    <3>1. PICK c \in s : h[s] = f[c] + h[s \ {c}]
      <4>1. s # {}
        OBVIOUS
      <4>2. Choice(s) \in s
        BY <4>1, ChoiceIsIn
      <4>3. h[s] = f[Choice(s)] + h[s \ {Choice(s)}]
        BY <1>6, <4>1
      <4>. QED
        BY <4>2, <4>3
    <3>2. CASE x = c
      BY <3>1, <3>2
    <3>3. CASE x # c
      <4>1. s \ {c} \in SUBSET S /\ Cardinality(s \ {c}) = n
            /\ s \ {x} \in SUBSET S /\ Cardinality(s \ {x}) = n
        BY <2>1, OneLess
      <4>2. h[s \ {c}] = f[x] + h[(s \ {c}) \ {x}]
        BY <1>1, <1>3, <3>3, <4>1
      <4>3. h[s \ {x}] = f[c] + h[(s \ {x}) \ {c}]
        BY <1>1, <1>3, <3>3, <4>1
      <4>4. (s \ {c}) \ {x} = (s \ {x}) \ {c} /\ (s \ {x}) \ {c} \in SUBSET S
        OBVIOUS
      <4>5. PICK v \in Int, w \in Int, r \in Int :
                v = f[x] /\ w = f[c] /\ r = h[(s \ {x}) \ {c}]
        BY <1>0, <4>4
      <4>6. h[s] = w + (v + r)
        BY <3>1, <4>2, <4>4, <4>5
      <4>7. h[s \ {x}] = w + r
        BY <4>3, <4>5
      <4>8. w + (v + r) = v + (w + r)
        OBVIOUS
      <4>. QED
        BY <4>5, <4>6, <4>7, <4>8
    <3>. QED
      BY <3>2, <3>3
  <2>. QED
    BY <1>1, <2>1
<1>4. \A n \in Nat : n \in T
  BY <1>2, <1>3, Induction
<1>5. ASSUME NEW s \in SUBSET S PROVE Cardinality(s) \in Nat
  BY FS_Subset, FS_CardinalityType
<1>. QED
  BY <1>1, <1>4, <1>5

LEMMA SumEmpty == ASSUME NEW f, DOMAIN f = {} PROVE SumFunction(f) = 0
<1>1. PICK h : Sums(h, f, DOMAIN f) /\ SumFunction(f) = h[DOMAIN f]
  BY SumDef, FS_EmptySet
<1>2. h[{}] = 0
  BY <1>1, SumsStep, Zenon
<1>. QED
  BY <1>1, <1>2

LEMMA SumType ==
    ASSUME NEW f, IsFiniteSet(DOMAIN f), \A x \in DOMAIN f : f[x] \in Int
    PROVE  SumFunction(f) \in Int
<1>1. PICK h : Sums(h, f, DOMAIN f) /\ SumFunction(f) = h[DOMAIN f]
  BY SumDef
<1>. QED
  BY <1>1, SumsAreIntegers

(* A sum is one of its terms and the sum of the others. *)
LEMMA SumRemove ==
    ASSUME NEW f, IsFiniteSet(DOMAIN f), \A x \in DOMAIN f : f[x] \in Int,
           NEW g, NEW x \in DOMAIN f, DOMAIN g = DOMAIN f \ {x},
           \A y \in DOMAIN g : g[y] = f[y]
    PROVE  SumFunction(f) = f[x] + SumFunction(g)
<1>0. IsFiniteSet(DOMAIN g)
  BY FS_RemoveElement
<1>1. PICK h : Sums(h, f, DOMAIN f) /\ SumFunction(f) = h[DOMAIN f]
  BY SumDef
<1>2. PICK k : Sums(k, g, DOMAIN g) /\ SumFunction(g) = k[DOMAIN g]
  BY <1>0, SumDef
<1>3. h[DOMAIN f] = f[x] + h[DOMAIN f \ {x}]
  BY <1>1, SumsCommute
<1>4. k[DOMAIN g] = h[DOMAIN g]
  BY <1>0, <1>1, <1>2, SumsAgree
<1>. QED
  BY <1>1, <1>2, <1>3, <1>4

(* Sums of equal terms are equal. *)
LEMMA SumSame ==
    ASSUME NEW f, NEW g, IsFiniteSet(DOMAIN f), DOMAIN g = DOMAIN f,
           \A y \in DOMAIN f : g[y] = f[y]
    PROVE  SumFunction(g) = SumFunction(f)
<1>1. PICK h : Sums(h, f, DOMAIN f) /\ SumFunction(f) = h[DOMAIN f]
  BY SumDef
<1>2. PICK k : Sums(k, g, DOMAIN g) /\ SumFunction(g) = k[DOMAIN g]
  BY SumDef
<1>3. k[DOMAIN g] = h[DOMAIN g]
  BY <1>1, <1>2, SumsAgree
<1>. QED
  BY <1>1, <1>2, <1>3

(* When one term changes, the sum changes by as much. *)
LEMMA SumChange ==
    ASSUME NEW f, IsFiniteSet(DOMAIN f), \A y \in DOMAIN f : f[y] \in Int,
           NEW g, DOMAIN g = DOMAIN f, NEW x \in DOMAIN f, g[x] \in Int,
           \A y \in DOMAIN f : y # x => g[y] = f[y]
    PROVE  SumFunction(g) = SumFunction(f) - f[x] + g[x]
<1>1. PICK r : r = [y \in DOMAIN f \ {x} |-> f[y]]
  OBVIOUS
<1>2. DOMAIN r = DOMAIN f \ {x} /\ \A y \in DOMAIN r : r[y] = f[y] /\ r[y] = g[y]
  BY <1>1
<1>3. SumFunction(f) = f[x] + SumFunction(r)
  BY <1>2, SumRemove
<1>4. \A y \in DOMAIN g : g[y] \in Int
  OBVIOUS
<1>5. SumFunction(g) = g[x] + SumFunction(r)
  BY <1>2, <1>4, SumRemove
<1>6. SumFunction(r) \in Int
  <2>1. IsFiniteSet(DOMAIN r)
    BY <1>2, FS_RemoveElement
  <2>. QED
    BY <1>2, <2>1, SumType
<1>7. PICK a \in Int, b \in Int, c \in Int : a = f[x] /\ b = g[x] /\ c = SumFunction(r)
  BY <1>6
<1>8. b + c = (a + c) - a + b
  OBVIOUS
<1>. QED
  BY <1>3, <1>5, <1>7, <1>8

LEMMA SumsAreNaturals ==
    ASSUME NEW S, IsFiniteSet(S), NEW f, \A x \in S : f[x] \in Nat, NEW h, Sums(h, f, S)
    PROVE  h[S] \in Nat
<1>0. \A s \in SUBSET S : s # {} => h[s] = f[Choice(s)] + h[s \ {Choice(s)}]
  BY SumsStep
<1>1. PICK T : T = {n \in Nat : \A s \in SUBSET S : Cardinality(s) = n => h[s] \in Nat}
  OBVIOUS
<1>2. 0 \in T
  <2>1. \A s \in SUBSET S : Cardinality(s) = 0 => s = {}
    BY FS_Subset, FS_EmptySet
  <2>2. h[{}] \in Nat
    BY SumsStep
  <2>3. \A s \in SUBSET S : Cardinality(s) = 0 => h[s] \in Nat
    BY <2>1, <2>2, Zenon
  <2>. QED
    BY <1>1, <2>3
<1>3. ASSUME NEW n \in Nat, n \in T PROVE n + 1 \in T
  <2>1. ASSUME NEW s \in SUBSET S, Cardinality(s) = n + 1 PROVE h[s] \in Nat
    <3>1. s # {}
      BY <2>1, FS_EmptySet
    <3>2. Choice(s) \in s
      BY <3>1, ChoiceIsIn
    <3>3. s \ {Choice(s)} \in SUBSET S /\ Cardinality(s \ {Choice(s)}) = n
      BY <2>1, <3>2, OneLess
    <3>4. h[s \ {Choice(s)}] \in Nat /\ f[Choice(s)] \in Nat
      BY <1>1, <1>3, <3>2, <3>3
    <3>5. h[s] = f[Choice(s)] + h[s \ {Choice(s)}]
      BY <1>0, <3>1
    <3>. QED
      BY <3>4, <3>5
  <2>. QED
    BY <1>1, <2>1
<1>4. \A n \in Nat : n \in T
  BY <1>2, <1>3, Induction
<1>5. Cardinality(S) \in Nat
  BY FS_CardinalityType
<1>. QED
  BY <1>1, <1>4, <1>5

LEMMA SumNat ==
    ASSUME NEW f, IsFiniteSet(DOMAIN f), \A x \in DOMAIN f : f[x] \in Nat
    PROVE  /\ SumFunction(f) \in Nat
           /\ \A x \in DOMAIN f : f[x] <= SumFunction(f)
<1>1. ASSUME NEW g, IsFiniteSet(DOMAIN g), \A x \in DOMAIN g : g[x] \in Nat
      PROVE  SumFunction(g) \in Nat
  <2>1. PICK h : Sums(h, g, DOMAIN g) /\ SumFunction(g) = h[DOMAIN g]
    BY <1>1, SumDef
  <2>. QED
    BY <1>1, <2>1, SumsAreNaturals
<1>2. ASSUME NEW x \in DOMAIN f PROVE f[x] <= SumFunction(f)
  <2>1. PICK r : r = [y \in DOMAIN f \ {x} |-> f[y]]
    OBVIOUS
  <2>2. DOMAIN r = DOMAIN f \ {x} /\ \A y \in DOMAIN r : r[y] = f[y]
    BY <2>1
  <2>3. IsFiniteSet(DOMAIN r)
    BY <2>2, FS_RemoveElement
  <2>4. SumFunction(r) \in Nat
    BY <1>1, <2>2, <2>3
  <2>5. SumFunction(f) = f[x] + SumFunction(r)
    BY <2>2, SumRemove
  <2>. QED
    BY <2>4, <2>5
<1>. QED
  BY <1>1, <1>2

-----------------------------------------------------------------------------
LEMMA MaxIsIn ==
    ASSUME NEW n \in Nat, NEW S \in SUBSET (0..n), S # {}
    PROVE  Max(S) \in S /\ \A y \in S : Max(S) >= y
<1>1. PICK T : T = {m \in Nat : \A y \in S : y <= m}
  OBVIOUS
<1>2. n \in T
  BY <1>1
<1>3. PICK m \in T : \A k \in T : ~(k < m)
  BY <1>1, <1>2, LeastNumber
<1>4. m \in S
  <2>1. SUFFICES ASSUME m \notin S PROVE FALSE
    OBVIOUS
  <2>2. m \in Nat /\ \A y \in S : y <= m /\ y # m /\ y \in Nat
    BY <1>1, <2>1
  <2>3. m # 0
    <3>1. PICK y : y \in S
      OBVIOUS
    <3>. QED
      BY <2>2, <3>1
  <2>4. m - 1 \in Nat /\ \A y \in S : y <= m - 1
    BY <2>2, <2>3
  <2>5. m - 1 \in T /\ m - 1 < m
    BY <1>1, <2>2, <2>4
  <2>. QED
    BY <1>3, <2>5
<1>5. \E x \in S : \A y \in S : x >= y
  BY <1>1, <1>4
<1>. QED
  BY <1>5 DEF Max

(* SetToSeq lists the elements of a finite set, each one once. *)
LEMMA ListOfSet ==
    ASSUME NEW S, IsFiniteSet(S)
    PROVE  /\ SetToSeq(S) \in Seq(S) /\ Len(SetToSeq(S)) = Cardinality(S)
           /\ \A i, j \in 1..Len(SetToSeq(S)) : SetToSeq(S)[i] = SetToSeq(S)[j] => i = j
           /\ \A x \in S : \E i \in 1..Len(SetToSeq(S)) : SetToSeq(S)[i] = x
<1>1. PICK n \in Nat : n = Cardinality(S)
  BY FS_CardinalityType
<1>2. PICK b : b \in Bijection(1..n, S)
  BY <1>1, FS_CardinalityType DEF ExistsBijection
<1>3. b \in [1..n -> S] /\ IsInjective(b)
  BY <1>2 DEF Bijection, Injection, Surjection
<1>4. PICK q : q = SetToSeq(S)
  OBVIOUS
<1>5. q \in [1..n -> S] /\ IsInjective(q)
  BY <1>1, <1>3, <1>4, Zenon DEF SetToSeq
<1>6. q \in Injection(1..n, S)
  BY <1>5 DEF Injection
<1>7. Cardinality(1..n) = n /\ IsFiniteSet(1..n)
  BY FS_Interval
<1>8. q \in Surjection(1..n, S)
  BY <1>1, <1>6, <1>7, FS_Injection
<1>9. \A x \in S : \E i \in 1..n : q[i] = x
  BY <1>8 DEF Surjection
<1>10. q \in Seq(S) /\ Len(q) = n /\ DOMAIN q = 1..n
  BY <1>5
<1>. QED
  BY <1>1, <1>4, <1>5, <1>9, <1>10 DEF IsInjective
=============================================================================
