-------------------------- MODULE HistoryOpsProofs --------------------------
(***************************************************************************)
(* What each operation of HistoryOps does to a session, for every session: *)
(* the facts the proofs about HistorySession and DaemonService cite, and   *)
(* the lemmas about sequences and sums they rest on.                       *)
(***************************************************************************)
EXTENDS HistoryOps, SequenceTheorems, FiniteSetTheorems, WellFoundedInduction,
        TLAPS

-----------------------------------------------------------------------------
(* Sequences, and the least-number principle: the induction of this module *)
(* is on a least counterexample.                                           *)

\* Cons puts the element first and shifts the rest by one (Vec::insert(0, _)).
LEMMA ConsProperties ==
    ASSUME NEW S, NEW seq \in Seq(S), NEW elt \in S
    PROVE  /\ Cons(elt, seq) \in Seq(S)
           /\ Len(Cons(elt, seq)) = Len(seq) + 1
           /\ Cons(elt, seq)[1] = elt
           /\ \A i \in 1 .. Len(seq) : Cons(elt, seq)[i + 1] = seq[i]
  BY DEF Cons

\* RemoveAt keeps the entries before i and moves up those after it
\* (Vec::remove).
LEMMA RemoveAtProperties ==
    ASSUME NEW S, NEW seq \in Seq(S), NEW i \in 1 .. Len(seq)
    PROVE  /\ RemoveAt(seq, i) \in Seq(S)
           /\ Len(RemoveAt(seq, i)) = Len(seq) - 1
           /\ \A j \in 1 .. Len(seq) - 1 :
                 RemoveAt(seq, i)[j] = IF j < i THEN seq[j] ELSE seq[j + 1]
  <1> DEFINE front == SubSeq(seq, 1, i - 1)
             back  == SubSeq(seq, i + 1, Len(seq))
  <1>1. /\ front \in Seq(S)
        /\ Len(front) = i - 1
        /\ \A j \in 1 .. i - 1 : front[j] = seq[j]
    BY SubSeqProperties
  <1>2. /\ back \in Seq(S)
        /\ Len(back) = Len(seq) - i
    BY SubSeqProperties
  <1>3. ASSUME NEW j \in 1 .. Len(seq) - i
        PROVE  back[j] = seq[i + j]
    <2>1. back[j] = seq[(i + 1) + j - 1]
      BY SubSeqProperties
    <2> QED
      BY <2>1
  <1>4. RemoveAt(seq, i) = front \o back
    BY DEF RemoveAt
  <1> HIDE DEF front, back
  <1>5. front \o back \in Seq(S) /\ Len(front \o back) = Len(seq) - 1
    <2>1. front \o back \in Seq(S) /\ Len(front \o back) = Len(front) + Len(back)
      BY <1>1, <1>2, ConcatProperties
    <2> QED
      BY <2>1, <1>1, <1>2
  <1>6. ASSUME NEW j \in 1 .. Len(seq) - 1
        PROVE  (front \o back)[j] = IF j < i THEN seq[j] ELSE seq[j + 1]
    <2>1. (front \o back)[j] = IF j <= i - 1 THEN front[j] ELSE back[j - (i - 1)]
      BY <1>1, <1>2, ConcatProperties
    <2>2. CASE j < i
      BY <2>1, <2>2, <1>1
    <2>3. CASE ~ (j < i)
      <3>1. j - (i - 1) \in 1 .. Len(seq) - i
        BY <2>3
      <3>2. back[j - (i - 1)] = seq[i + (j - (i - 1))]
        BY <3>1, <1>3
      <3> QED
        BY <2>1, <2>3, <3>2
    <2> QED
      BY <2>2, <2>3
  <1> QED
    BY <1>4, <1>5, <1>6

\* Moving entry i to the front shifts the entries before it by one.
LEMMA MoveProperties ==
    ASSUME NEW S, NEW seq \in Seq(S), NEW i \in 1 .. Len(seq)
    PROVE  /\ Cons(seq[i], RemoveAt(seq, i)) \in Seq(S)
           /\ Len(Cons(seq[i], RemoveAt(seq, i))) = Len(seq)
           /\ \A j \in 1 .. Len(seq) :
                 Cons(seq[i], RemoveAt(seq, i))[j]
                   = IF j = 1 THEN seq[i] ELSE IF j <= i THEN seq[j - 1] ELSE seq[j]
  <1> DEFINE rest == RemoveAt(seq, i)
  <1>1. /\ rest \in Seq(S)
        /\ Len(rest) = Len(seq) - 1
        /\ \A j \in 1 .. Len(seq) - 1 :
              rest[j] = IF j < i THEN seq[j] ELSE seq[j + 1]
    BY RemoveAtProperties
  <1>2. seq[i] \in S
    OBVIOUS
  <1> HIDE DEF rest
  <1> DEFINE first == seq[i]
  <1> HIDE DEF first
  <1>3. /\ Cons(first, rest) \in Seq(S)
        /\ Len(Cons(first, rest)) = Len(rest) + 1
        /\ Cons(first, rest)[1] = first
        /\ \A j \in 1 .. Len(rest) : Cons(first, rest)[j + 1] = rest[j]
    <2>1. rest \in Seq(S) /\ first \in S
      BY <1>1, <1>2 DEF first
    <2> QED
      BY <2>1 DEF Cons
  <1> DEFINE moved == Cons(seq[i], rest)
  <1> HIDE DEF moved
  <1>4. /\ moved \in Seq(S)
        /\ Len(moved) = Len(rest) + 1
        /\ moved[1] = seq[i]
        /\ \A j \in 1 .. Len(rest) : moved[j + 1] = rest[j]
    BY <1>3 DEF moved, first
  <1>5. ASSUME NEW j \in 1 .. Len(seq)
        PROVE  moved[j] = IF j = 1 THEN seq[i]
                          ELSE IF j <= i THEN seq[j - 1] ELSE seq[j]
    <2>1. CASE j = 1
      BY <2>1, <1>4
    <2>2. CASE j # 1
      <3>1. j - 1 \in 1 .. Len(rest) /\ (j - 1) + 1 = j
        BY <2>2, <1>1
      <3>2. moved[(j - 1) + 1] = rest[j - 1]
        BY <3>1, <1>4
      <3>3. rest[j - 1] = IF j - 1 < i THEN seq[j - 1] ELSE seq[(j - 1) + 1]
        BY <3>1, <1>1
      <3> QED
        BY <3>1, <3>2, <3>3, <2>2
    <2> QED
      BY <2>1, <2>2
  <1>6. Len(moved) = Len(seq)
    BY <1>1, <1>4
  <1> QED
    BY <1>4, <1>5, <1>6 DEF moved, rest

\* A prefix of a sequence: its length and its entries (Vec::pop, repeated).
LEMMA PrefixProperties ==
    ASSUME NEW S, NEW seq \in Seq(S), NEW n \in 0 .. Len(seq)
    PROVE  /\ SubSeq(seq, 1, n) \in Seq(S)
           /\ Len(SubSeq(seq, 1, n)) = n
           /\ \A i \in 1 .. n : SubSeq(seq, 1, n)[i] = seq[i]
  BY SubSeqProperties

\* A non-empty set of naturals has a least element.
LEMMA LeastNatural ==
    ASSUME NEW T \in SUBSET Nat, T # {}
    PROVE  \E k \in T : \A j \in T : k <= j
  <1>1. PICK k \in T : \A j \in T : <<j, k>> \notin OpToRel(<, Nat)
    BY WFMin, NatLessThanWellFounded
  <1>2. \A j \in T : ~ (j < k)
    BY <1>1 DEF OpToRel
  <1> QED
    BY <1>2

-----------------------------------------------------------------------------
(* Sums over finite sets.  FoldSeq adds the sizes of a list up in an order *)
(* that CHOOSE picks; the total does not depend on it.                     *)

Chosen(s) == CHOOSE x \in s : TRUE

\* f[s] is the sum of the weights w of the members of s, as MapThenFoldSet
\* adds them up.
AddsUp(f, w, S) ==
    \A s \in SUBSET S :
        f[s] = IF s = {} THEN 0 ELSE w[Chosen(s)] + f[s \ {Chosen(s)}]

\* Taking one member away, the chosen one or another.
LEMMA SubsetSizes ==
    ASSUME NEW S, IsFiniteSet(S), NEW s \in SUBSET S
    PROVE  /\ Cardinality(s) \in Nat
           /\ Cardinality(s) = 0 => s = {}
           /\ s # {} => Chosen(s) \in s
           /\ \A x \in s : /\ s \ {x} \in SUBSET S
                           /\ Cardinality(s \ {x}) = Cardinality(s) - 1
  <1>1. IsFiniteSet(s)
    BY FS_Subset
  <1>2. Cardinality(s) \in Nat
    BY <1>1, FS_CardinalityType
  <1>3. Cardinality(s) = 0 => s = {}
    BY <1>1, FS_EmptySet
  <1>4. \A x \in s : Cardinality(s \ {x}) = Cardinality(s) - 1
    BY <1>1, FS_RemoveElement
  <1> QED
    BY <1>2, <1>3, <1>4 DEF Chosen

\* There is such a function for any weights.
LEMMA SumsExist ==
    ASSUME NEW S, IsFiniteSet(S), NEW w \in [S -> Nat]
    PROVE  \E f \in [SUBSET S -> Nat] : AddsUp(f, w, S)
  <1> DEFINE Small(k) == {s \in SUBSET S : Cardinality(s) <= k}
             Adds(f, k) ==
               /\ f \in [Small(k) -> Nat]
               /\ \A s \in Small(k) :
                     f[s] = IF s = {} THEN 0 ELSE w[Chosen(s)] + f[s \ {Chosen(s)}]
             T == {k \in Nat : ~ \E f : Adds(f, k)}
  <1>1. \E f : Adds(f, 0)
    <2> DEFINE f == [s \in Small(0) |-> 0]
    <2>1. \A s \in Small(0) : s = {}
      BY SubsetSizes
    <2>2. f \in [Small(0) -> Nat] /\ \A s \in Small(0) : f[s] = 0
      OBVIOUS
    <2> HIDE DEF f
    <2> QED
      BY <2>1, <2>2
  <1>2. ASSUME NEW k \in Nat \ {0}, NEW f, Adds(f, k - 1)
        PROVE  \E g : Adds(g, k)
    <2> DEFINE Sum(s) == IF s = {} THEN 0 ELSE w[Chosen(s)] + f[s \ {Chosen(s)}]
               g == [s \in Small(k) |-> Sum(s)]
    <2>1. ASSUME NEW s \in Small(k), s # {}
          PROVE  /\ Chosen(s) \in S
                 /\ s \ {Chosen(s)} \in Small(k - 1)
                 /\ s \ {Chosen(s)} \in Small(k)
      <3>1. /\ s \in SUBSET S /\ Cardinality(s) <= k /\ Cardinality(s) \in Nat
            /\ Chosen(s) \in s
            /\ s \ {Chosen(s)} \in SUBSET S
            /\ Cardinality(s \ {Chosen(s)}) = Cardinality(s) - 1
        BY <2>1, SubsetSizes
      <3> QED
        BY <3>1
    <2>2. \A s \in Small(k) : Sum(s) \in Nat
      BY <1>2, <2>1
    <2>3. \A s \in Small(k - 1) : s \in Small(k) /\ f[s] = Sum(s)
      <3>1. ASSUME NEW s \in Small(k - 1)
            PROVE  s \in Small(k)
        <4>1. s \in SUBSET S /\ Cardinality(s) <= k - 1 /\ Cardinality(s) \in Nat
          BY SubsetSizes
        <4> QED
          BY <4>1
      <3> QED
        BY <3>1, <1>2
    <2>4. g \in [Small(k) -> Nat]
      BY <2>2
    <2>5. ASSUME NEW s \in Small(k)
          PROVE  g[s] = IF s = {} THEN 0 ELSE w[Chosen(s)] + g[s \ {Chosen(s)}]
      <3>1. s # {} => g[s \ {Chosen(s)}] = f[s \ {Chosen(s)}]
        BY <2>1, <2>3
      <3> QED
        BY <3>1
    <2> HIDE DEF g
    <2> QED
      BY <2>4, <2>5
  <1>3. T = {}
    <2> SUFFICES ASSUME T # {} PROVE FALSE
      OBVIOUS
    <2>1. PICK k \in T : \A j \in T : k <= j
      <3> HIDE DEF Adds
      <3> QED
        BY LeastNatural
    <2>2. k \in Nat \ {0}
      <3> HIDE DEF Adds
      <3> QED
        BY <1>1, <2>1
    <2>3. PICK f : Adds(f, k - 1)
      <3> HIDE DEF Adds
      <3>1. k - 1 \in Nat /\ ~(k <= k - 1)
        BY <2>2
      <3> QED
        BY <3>1, <2>1
    <2>4. \E g : Adds(g, k)
      <3> HIDE DEF Adds
      <3> QED
        BY <1>2, <2>2, <2>3
    <2> HIDE DEF Adds
    <2> QED
      BY <2>1, <2>4
  <1>4. PICK f : Adds(f, Cardinality(S))
    <2>1. Cardinality(S) \in Nat
      BY FS_CardinalityType
    <2> HIDE DEF Adds
    <2> QED
      BY <1>3, <2>1
  <1>5. Small(Cardinality(S)) = SUBSET S
    BY FS_Subset
  <1> QED
    BY <1>4, <1>5 DEF AddsUp

\* And it is the only one.
LEMMA SumsUnique ==
    ASSUME NEW S, IsFiniteSet(S), NEW w, NEW f, NEW g,
           AddsUp(f, w, S), AddsUp(g, w, S)
    PROVE  \A s \in SUBSET S : f[s] = g[s]
  <1> DEFINE T == {k \in Nat : \E s \in SUBSET S : Cardinality(s) = k /\ f[s] # g[s]}
  <1>1. T = {}
    <2> SUFFICES ASSUME T # {} PROVE FALSE
      OBVIOUS
    <2>1. PICK k \in T : \A j \in T : k <= j
      BY LeastNatural
    <2>2. PICK s \in SUBSET S : Cardinality(s) = k /\ f[s] # g[s]
      BY <2>1
    <2>3. s # {}
      BY <2>2 DEF AddsUp
    <2> DEFINE t == s \ {Chosen(s)}
    <2>4. t \in SUBSET S /\ Cardinality(t) = k - 1 /\ Cardinality(t) \in Nat
      <3>1. t \in SUBSET S /\ Cardinality(t) = k - 1
        BY <2>2, <2>3, SubsetSizes
      <3> QED
        BY <3>1, SubsetSizes
    <2>5. f[t] = g[t]
      <3>1. ~(k <= k - 1)
        BY <2>1
      <3> QED
        BY <2>1, <2>4, <3>1
    <2> QED
      BY <2>2, <2>3, <2>5 DEF AddsUp
  <1> QED
    BY <1>1, SubsetSizes

\* The order does not matter: any member may be taken away first.
LEMMA SumsInAnyOrder ==
    ASSUME NEW S, IsFiniteSet(S), NEW w \in [S -> Nat], NEW f \in [SUBSET S -> Nat],
           AddsUp(f, w, S), NEW r \in SUBSET S, NEW z \in r
    PROVE  f[r] = w[z] + f[r \ {z}]
  <1> DEFINE Bad(s) == \E x \in s : f[s] # w[x] + f[s \ {x}]
             T == {k \in Nat : \E s \in SUBSET S : Cardinality(s) = k /\ Bad(s)}
  <1>1. T = {}
    <2> SUFFICES ASSUME T # {} PROVE FALSE
      OBVIOUS
    <2>1. PICK k \in T : \A j \in T : k <= j
      <3> HIDE DEF Bad
      <3> QED
        BY LeastNatural
    <2>2. PICK s \in SUBSET S : Cardinality(s) = k /\ Bad(s)
      BY <2>1
    <2>3. PICK x \in s : f[s] # w[x] + f[s \ {x}]
      BY <2>2
    <2> DEFINE c == Chosen(s)
               withoutC == s \ {c}
               withoutX == s \ {x}
               rest == (s \ {c}) \ {x}
    <2>4. /\ c \in s /\ x \in S /\ c \in S /\ f[s] = w[c] + f[withoutC]
          /\ withoutC \in SUBSET S /\ Cardinality(withoutC) = k - 1
          /\ withoutX \in SUBSET S /\ Cardinality(withoutX) = k - 1
          /\ k \in Nat /\ k - 1 \in Nat
      <3>1. c \in s
        BY <2>3, SubsetSizes
      <3>2. /\ withoutC \in SUBSET S /\ Cardinality(withoutC) = k - 1
            /\ withoutX \in SUBSET S /\ Cardinality(withoutX) = k - 1
        BY <3>1, <2>2, <2>3, SubsetSizes
      <3>3. k - 1 \in Nat
        BY <3>2, SubsetSizes
      <3> QED
        BY <2>1, <2>3, <3>1, <3>2, <3>3 DEF AddsUp
    <2>5. x # c
      BY <2>3, <2>4
    <2>6. ASSUME NEW t \in SUBSET S, Cardinality(t) = k - 1, NEW y \in t
          PROVE  f[t] = w[y] + f[t \ {y}]
      <3>1. ~Bad(t)
        <4>1. ~(k <= k - 1) /\ k - 1 \in Nat
          BY <2>4
        <4> HIDE DEF Bad
        <4> QED
          BY <2>1, <2>6, <4>1
      <3> QED
        BY <3>1
    <2>7. f[withoutC] = w[x] + f[rest] /\ f[withoutX] = w[c] + f[rest]
      <3>1. rest = withoutX \ {c} /\ x \in withoutC /\ c \in withoutX
        BY <2>3, <2>4, <2>5
      <3>2. f[withoutC] = w[x] + f[rest]
        BY <2>4, <2>6, <3>1
      <3>3. f[withoutX] = w[c] + f[withoutX \ {c}]
        BY <2>4, <2>6, <3>1
      <3> QED
        BY ONLY <3>1, <3>2, <3>3
    <2>8. w[x] \in Nat /\ w[c] \in Nat /\ f[rest] \in Nat
      BY <2>4
    <2> QED
      BY <2>3, <2>4, <2>7, <2>8
  <1>2. ASSUME NEW s \in SUBSET S
        PROVE  ~Bad(s)
    <2>1. Cardinality(s) \in Nat
      BY SubsetSizes
    <2> HIDE DEF Bad
    <2> QED
      BY <1>1, <2>1
  <1> QED
    BY <1>2

-----------------------------------------------------------------------------
(* Sizes of lists.                                                         *)

Sizes(items) == [i \in DOMAIN items |-> ByteSize(items[i])]

LEMMA SizesTyped ==
    ASSUME NEW items \in Seq(Item)
    PROVE  /\ DOMAIN items = 1 .. Len(items) /\ Len(items) \in Nat
           /\ IsFiniteSet(DOMAIN items)
           /\ Sizes(items) \in [DOMAIN items -> Nat]
           /\ \A i \in DOMAIN items : Sizes(items)[i] = ByteSize(items[i])
           /\ \A i \in DOMAIN items : ByteSize(items[i]) \in Nat
  <1>1. DOMAIN items = 1 .. Len(items) /\ Len(items) \in Nat
    OBVIOUS
  <1>2. IsFiniteSet(1 .. Len(items))
    BY FS_Interval
  <1>3. \A i \in DOMAIN items : items[i] \in Item
    BY <1>1, ElementOfSeq
  <1>4. \A i \in DOMAIN items : ByteSize(items[i]) \in Nat
    BY <1>3, TextAssumption DEF ByteSize, Item
  <1> QED
    BY <1>1, <1>2, <1>4 DEF Sizes

\* Bytes adds up the sizes of all items.
LEMMA BytesAddUp ==
    ASSUME NEW items \in Seq(Item)
    PROVE  \E f : /\ f \in [SUBSET DOMAIN items -> Nat]
                  /\ AddsUp(f, Sizes(items), DOMAIN items)
                  /\ Bytes(items) = f[DOMAIN items]
  <1> DEFINE D == DOMAIN items
             w == Sizes(items)
             Recursion(f) ==
               f = [s \in SUBSET D |->
                      IF s = {} THEN 0
                      ELSE ByteSize(items[CHOOSE x \in s : TRUE])
                             + f[s \ {CHOOSE x \in s : TRUE}]]
             iter == CHOOSE f : Recursion(f)
  <1>1. Bytes(items) = iter[D]
    BY Zenon DEF Bytes, FoldSeq, FoldFunction, FoldFunctionOnSet, MapThenFoldSet
  <1>2. \A s \in SUBSET D : s # {} => Chosen(s) \in D /\ Chosen(s) = CHOOSE x \in s : TRUE
    BY DEF Chosen
  <1>3. PICK f \in [SUBSET D -> Nat] : AddsUp(f, w, D)
    BY SizesTyped, SumsExist
  <1>4. \A s \in SUBSET D : s # {} => w[Chosen(s)] = ByteSize(items[Chosen(s)])
    BY <1>2, SizesTyped
  <1>5. Recursion(f)
    BY <1>2, <1>3, <1>4 DEF AddsUp
  <1> HIDE DEF w
  <1>6. Recursion(iter)
    <2> HIDE DEF Recursion
    <2> QED
      BY <1>5
  <1> HIDE DEF iter
  <1>7. AddsUp(iter, w, D)
    <2>1. \A s \in SUBSET D :
             iter[s] = IF s = {} THEN 0
                       ELSE ByteSize(items[Chosen(s)]) + iter[s \ {Chosen(s)}]
      BY <1>6 DEF Chosen
    <2> HIDE DEF Recursion, D
    <2> QED
      BY <2>1, <1>4 DEF AddsUp
  <1>8. D \in SUBSET D /\ IsFiniteSet(D)
    BY SizesTyped
  <1> HIDE DEF Recursion
  <1>9. iter[D] = f[D]
    BY <1>3, <1>7, <1>8, SumsUnique
  <1> QED
    BY <1>1, <1>3, <1>9 DEF w

\* f[s] is the size of the items at the positions s, whichever is counted first.
CountsSizes(f, items) ==
    /\ f \in [SUBSET DOMAIN items -> Nat]
    /\ f[{}] = 0
    /\ \A s \in SUBSET DOMAIN items : \A x \in s : f[s] = Sizes(items)[x] + f[s \ {x}]

LEMMA SizesInAnyOrder ==
    ASSUME NEW items, NEW f, f \in [SUBSET DOMAIN items -> Nat],
           AddsUp(f, Sizes(items), DOMAIN items), IsFiniteSet(DOMAIN items),
           Sizes(items) \in [DOMAIN items -> Nat]
    PROVE  CountsSizes(f, items)
  <1>1. f[{}] = 0
    BY DEF AddsUp
  <1>2. ASSUME NEW s \in SUBSET DOMAIN items, NEW x \in s
        PROVE  f[s] = Sizes(items)[x] + f[s \ {x}]
    BY SumsInAnyOrder
  <1> QED
    BY <1>1, <1>2 DEF CountsSizes

\* p[k] is the size of the k newest items.
PrefixSums(p, items) ==
    /\ p \in [0 .. Len(items) -> Nat]
    /\ p[0] = 0
    /\ \A k \in 1 .. Len(items) : p[k] = p[k - 1] + ByteSize(items[k])

LEMMA BytesByPrefix ==
    ASSUME NEW items \in Seq(Item)
    PROVE  \E p : PrefixSums(p, items) /\ Bytes(items) = p[Len(items)]
  <1> DEFINE n == Len(items)
  <1>1. PICK f : CountsSizes(f, items) /\ Bytes(items) = f[DOMAIN items]
    BY BytesAddUp, SizesTyped, SizesInAnyOrder
  <1>2. DOMAIN items = 1 .. n /\ n \in Nat
    BY SizesTyped
  <1>3. /\ f \in [SUBSET DOMAIN items -> Nat] /\ f[{}] = 0
        /\ \A s \in SUBSET DOMAIN items : \A x \in s :
              f[s] = Sizes(items)[x] + f[s \ {x}]
    BY <1>1 DEF CountsSizes
  <1> DEFINE p == [k \in 0 .. n |-> f[1 .. k]]
  <1>4. p \in [0 .. n -> Nat]
    BY <1>2, <1>3
  <1>5. p[0] = 0
    <2>1. 1 .. 0 = {}
      OBVIOUS
    <2>2. p[0] = f[{}]
      BY <1>2, <2>1
    <2> QED
      BY <1>3, <2>2
  <1>6. ASSUME NEW k \in 1 .. n
        PROVE  p[k] = p[k - 1] + ByteSize(items[k])
    <2>1. 1 .. k \in SUBSET DOMAIN items /\ k \in 1 .. k
      BY <1>2
    <2>2. (1 .. k) \ {k} = 1 .. k - 1
      BY <1>2
    <2>3. f[1 .. k] = Sizes(items)[k] + f[1 .. k - 1]
      BY <1>3, <2>1, <2>2
    <2>4. Sizes(items)[k] = ByteSize(items[k]) /\ ByteSize(items[k]) \in Nat
      BY <1>2, SizesTyped
    <2>5. p[k] = f[1 .. k] /\ p[k - 1] = f[1 .. k - 1]
      BY <1>2
    <2>6. p[k - 1] \in Nat
      <3>1. k - 1 \in 0 .. n
        BY <1>2
      <3> HIDE DEF p
      <3> QED
        BY <1>4, <3>1
    <2> HIDE DEF p
    <2> QED
      BY <2>3, <2>4, <2>5, <2>6
  <1>7. Bytes(items) = p[n]
    BY <1>1, <1>2
  <1> HIDE DEF p
  <1> QED
    BY <1>4, <1>5, <1>6, <1>7 DEF PrefixSums

\* The n items after the first a of one list have the sizes of the n items
\* after the first b of the other.
SameRun(items, a, other, b, n) ==
    /\ a + n <= Len(items) /\ b + n <= Len(other)
    /\ \A j \in 1 .. n : ByteSize(items[a + j]) = ByteSize(other[b + j])

\* Runs of items of the same sizes add the same to both sums.
LEMMA SameRunsSameSums ==
    ASSUME NEW items \in Seq(Item), NEW other \in Seq(Item),
           NEW p, PrefixSums(p, items), NEW q, PrefixSums(q, other),
           NEW a \in Nat, NEW b \in Nat, NEW n \in Nat,
           SameRun(items, a, other, b, n)
    PROVE  p[a + n] + q[b] = q[b + n] + p[a]
  <1> DEFINE Same(k) == p[a + k] + q[b] = q[b + k] + p[a]
             T == {k \in Nat : k <= n /\ ~Same(k)}
  <1>r. /\ a + n <= Len(items) /\ b + n <= Len(other)
        /\ \A j \in 1 .. n : ByteSize(items[a + j]) = ByteSize(other[b + j])
    BY DEF SameRun
  <1>0. /\ Len(items) \in Nat /\ Len(other) \in Nat
        /\ DOMAIN items = 1 .. Len(items) /\ DOMAIN other = 1 .. Len(other)
    BY SizesTyped
  <1>1. ASSUME NEW k \in Nat, k <= n
        PROVE  p[a + k] \in Nat /\ q[b + k] \in Nat
    <2>1. a + k \in 0 .. Len(items) /\ b + k \in 0 .. Len(other)
      BY <1>0, <1>r, <1>1
    <2> QED
      BY <2>1 DEF PrefixSums
  <1>a. p[a] \in Nat /\ q[b] \in Nat
    <2>1. a \in 0 .. Len(items) /\ b \in 0 .. Len(other)
      BY <1>0, <1>r
    <2> QED
      BY <2>1 DEF PrefixSums
  <1>2. Same(0)
    <2>1. a + 0 = a /\ b + 0 = b
      OBVIOUS
    <2> QED
      BY <1>a, <2>1
  <1>3. ASSUME NEW k \in Nat \ {0}, k <= n, Same(k - 1)
        PROVE  Same(k)
    <2>1. /\ a + k \in 1 .. Len(items) /\ b + k \in 1 .. Len(other)
          /\ (a + k) - 1 = a + (k - 1) /\ (b + k) - 1 = b + (k - 1)
          /\ k \in 1 .. n /\ k - 1 \in Nat /\ k - 1 <= n
      BY <1>0, <1>r, <1>3
    <2>2. /\ p[a + k] = p[a + (k - 1)] + ByteSize(items[a + k])
          /\ q[b + k] = q[b + (k - 1)] + ByteSize(other[b + k])
      BY <2>1 DEF PrefixSums
    <2>3. /\ ByteSize(items[a + k]) = ByteSize(other[b + k])
          /\ ByteSize(items[a + k]) \in Nat
      BY <1>0, <1>r, <2>1, SizesTyped
    <2>4. p[a + (k - 1)] \in Nat /\ q[b + (k - 1)] \in Nat
      BY <1>1, <2>1
    <2>5. p[a + (k - 1)] + q[b] = q[b + (k - 1)] + p[a]
      BY <1>3
    <2> DEFINE x == p[a + (k - 1)]
               y == q[b + (k - 1)]
               u == q[b]
               v == p[a]
               size == ByteSize(items[a + k])
    <2>6. /\ x \in Nat /\ y \in Nat /\ u \in Nat /\ v \in Nat /\ size \in Nat
          /\ x + u = y + v
          /\ p[a + k] = x + size /\ q[b + k] = y + size
      BY <1>a, <2>2, <2>3, <2>4, <2>5
    <2>7. u = q[b] /\ v = p[a]
      OBVIOUS
    <2> HIDE DEF x, y, u, v, size
    <2>8. (x + size) + u = (y + size) + v
      BY <2>6
    <2> QED
      BY <2>6, <2>7, <2>8
  <1>4. T = {}
    <2> SUFFICES ASSUME T # {} PROVE FALSE
      OBVIOUS
    <2> HIDE DEF Same
    <2>1. PICK k \in T : \A j \in T : k <= j
      BY LeastNatural
    <2>2. k # 0 /\ k \in Nat /\ k <= n /\ ~Same(k)
      BY <1>2, <2>1
    <2>3. k - 1 \in Nat /\ k - 1 <= n /\ ~(k <= k - 1)
      BY <2>2
    <2>4. Same(k - 1)
      BY <2>1, <2>3
    <2> QED
      BY <1>3, <2>2, <2>4
  <1>5. Same(n)
    <2> HIDE DEF Same
    <2> QED
      BY <1>4
  <1> QED
    BY <1>5

LEMMA BytesInNat ==
    ASSUME NEW items \in Seq(Item)
    PROVE  Bytes(items) \in Nat
  <1>1. PICK p : PrefixSums(p, items) /\ Bytes(items) = p[Len(items)]
    BY BytesByPrefix
  <1> QED
    BY <1>1, SizesTyped DEF PrefixSums

LEMMA BytesOfNone ==
    ASSUME NEW items \in Seq(Item), Len(items) = 0
    PROVE  Bytes(items) = 0
  <1>1. PICK p : PrefixSums(p, items) /\ Bytes(items) = p[Len(items)]
    BY BytesByPrefix
  <1> QED
    BY <1>1 DEF PrefixSums

LEMMA BytesOfOne ==
    ASSUME NEW items \in Seq(Item), Len(items) = 1
    PROVE  Bytes(items) = ByteSize(items[1])
  <1>1. PICK p : PrefixSums(p, items) /\ Bytes(items) = p[Len(items)]
    BY BytesByPrefix
  <1>2. p[1] = p[0] + ByteSize(items[1]) /\ p[0] = 0
    <2>1. p[1] = p[1 - 1] + ByteSize(items[1])
      BY <1>1 DEF PrefixSums
    <2>2. 1 - 1 = 0
      OBVIOUS
    <2> QED
      BY <1>1, <2>1, <2>2 DEF PrefixSums
  <1>3. ByteSize(items[1]) \in Nat
    BY SizesTyped
  <1> QED
    BY <1>1, <1>2, <1>3

\* The size of a list is that of its two halves.
LEMMA BytesOfConcat ==
    ASSUME NEW one \in Seq(Item), NEW two \in Seq(Item)
    PROVE  Bytes(one \o two) = Bytes(one) + Bytes(two)
  <1> DEFINE both == one \o two
  <1>1. /\ both \in Seq(Item) /\ Len(both) = Len(one) + Len(two)
        /\ Len(one) \in Nat /\ Len(two) \in Nat
        /\ \A i \in 1 .. Len(one) + Len(two) :
             both[i] = IF i <= Len(one) THEN one[i] ELSE two[i - Len(one)]
    BY ConcatProperties, LenProperties
  <1> HIDE DEF both
  <1>2. PICK p : PrefixSums(p, both) /\ Bytes(both) = p[Len(both)]
    BY <1>1, BytesByPrefix
  <1>3. PICK q : PrefixSums(q, one) /\ Bytes(one) = q[Len(one)]
    BY BytesByPrefix
  <1>4. PICK r : PrefixSums(r, two) /\ Bytes(two) = r[Len(two)]
    BY BytesByPrefix
  <1> DEFINE m == Len(one)
             n == Len(two)
  <1>5. m \in Nat /\ n \in Nat /\ Len(both) = m + n
    BY <1>1
  <1> DEFINE z == 0
  <1>z. z \in Nat /\ z = 0
    OBVIOUS
  <1> HIDE DEF m, n, z
  <1>6. p[z + m] + q[z] = q[z + m] + p[z]
    <2>1. ASSUME NEW j \in 1 .. m
          PROVE  ByteSize(both[z + j]) = ByteSize(one[z + j])
      <3>1. z + j = j /\ j \in 1 .. m + n /\ j <= m
        BY <1>5, <1>z
      <3> QED
        BY <1>1, <3>1 DEF m, n
    <2>2. z + m <= Len(both) /\ z + m <= Len(one)
      BY <1>5, <1>z DEF m
    <2>3. SameRun(both, z, one, z, m)
      BY <2>1, <2>2 DEF SameRun
    <2> QED
      BY <1>1, <1>2, <1>3, <1>5, <1>z, <2>3, SameRunsSameSums
  <1>7. p[m + n] + r[z] = r[z + n] + p[m]
    <2>1. ASSUME NEW j \in 1 .. n
          PROVE  ByteSize(both[m + j]) = ByteSize(two[z + j])
      <3>1. m + j \in 1 .. m + n /\ ~(m + j <= m) /\ (m + j) - m = j /\ z + j = j
        BY <1>5, <1>z
      <3> QED
        BY <1>1, <3>1 DEF m, n
    <2>2. m + n <= Len(both) /\ z + n <= Len(two)
      BY <1>5, <1>z DEF n
    <2>3. SameRun(both, m, two, z, n)
      BY <2>1, <2>2 DEF SameRun
    <2> QED
      BY <1>1, <1>2, <1>4, <1>5, <1>z, <2>3, SameRunsSameSums
  <1>8. p[z] = 0 /\ q[z] = 0 /\ r[z] = 0
    BY <1>z, <1>2, <1>3, <1>4 DEF PrefixSums
  <1>9. z + m = m /\ z + n = n
    BY <1>5, <1>z
  <1>10. Bytes(both) \in Nat /\ Bytes(one) \in Nat /\ Bytes(two) \in Nat
    BY <1>1, BytesInNat
  <1>11. Bytes(one) = q[m] /\ Bytes(two) = r[n] /\ Bytes(both) = p[m + n]
    BY <1>2, <1>3, <1>4, <1>5 DEF m, n
  <1>12. p[m] \in Nat
    <2>1. m \in 0 .. Len(both)
      BY <1>5
    <2> QED
      BY <1>2, <2>1 DEF PrefixSums
  <1>13. p[m] = Bytes(one)
    BY <1>6, <1>8, <1>9, <1>10, <1>11, <1>12
  <1> QED
    BY <1>7, <1>8, <1>9, <1>10, <1>11, <1>13 DEF both

\* A new first item adds its size.
LEMMA BytesOfCons ==
    ASSUME NEW items \in Seq(Item), NEW item \in Item
    PROVE  Bytes(Cons(item, items)) = ByteSize(item) + Bytes(items)
  <1>1. Cons(item, items) = <<item>> \o items
    BY DEF Cons
  <1>2. <<item>> \in Seq(Item) /\ Len(<<item>>) = 1 /\ <<item>>[1] = item
    OBVIOUS
  <1>3. Bytes(<<item>>) = ByteSize(item)
    BY <1>2, BytesOfOne
  <1> QED
    BY <1>1, <1>2, <1>3, BytesOfConcat

\* Cut in two, a list keeps its size.
LEMMA BytesOfParts ==
    ASSUME NEW items \in Seq(Item), NEW n \in 0 .. Len(items)
    PROVE  /\ SubSeq(items, 1, n) \in Seq(Item)
           /\ SubSeq(items, n + 1, Len(items)) \in Seq(Item)
           /\ Bytes(items) = Bytes(SubSeq(items, 1, n))
                               + Bytes(SubSeq(items, n + 1, Len(items)))
  <1> DEFINE front == SubSeq(items, 1, n)
             back  == SubSeq(items, n + 1, Len(items))
  <1>1. /\ front \in Seq(Item)
        /\ Len(front) = n
        /\ \A j \in 1 .. n : front[j] = items[j]
    BY PrefixProperties
  <1>2. /\ back \in Seq(Item)
        /\ Len(back) = Len(items) - n
    BY SubSeqProperties
  <1>3. ASSUME NEW j \in 1 .. Len(items) - n
        PROVE  back[j] = items[n + j]
    <2>1. back[j] = items[(n + 1) + j - 1]
      BY SubSeqProperties
    <2> QED
      BY <2>1
  <1> HIDE DEF front, back
  <1>4. /\ front \o back \in Seq(Item) /\ Len(front \o back) = Len(items)
        /\ \A i \in 1 .. Len(items) :
             (front \o back)[i] = IF i <= n THEN front[i] ELSE back[i - n]
    <2>1. /\ front \o back \in Seq(Item)
          /\ Len(front \o back) = Len(front) + Len(back)
          /\ \A i \in 1 .. Len(front) + Len(back) :
               (front \o back)[i] = IF i <= Len(front) THEN front[i]
                                    ELSE back[i - Len(front)]
      BY <1>1, <1>2, ConcatProperties
    <2>2. Len(front) + Len(back) = Len(items)
      BY <1>1, <1>2
    <2> QED
      BY <2>1, <2>2, <1>1
  <1>5. ASSUME NEW i \in 1 .. Len(items)
        PROVE  items[i] = (front \o back)[i]
    <2>1. CASE i <= n
      BY <2>1, <1>1, <1>4
    <2>2. CASE ~(i <= n)
      <3>1. i - n \in 1 .. Len(items) - n /\ n + (i - n) = i
        BY <2>2
      <3> QED
        BY <2>2, <3>1, <1>3, <1>4
    <2> QED
      BY <2>1, <2>2
  <1>6. items = front \o back
    BY <1>4, <1>5, SeqEqual
  <1>7. Bytes(front \o back) = Bytes(front) + Bytes(back)
    BY <1>1, <1>2, BytesOfConcat
  <1> QED
    BY <1>1, <1>2, <1>6, <1>7 DEF front, back

\* A removal takes away the size of the item.
LEMMA BytesOfRemoval ==
    ASSUME NEW items \in Seq(Item), NEW i \in 1 .. Len(items)
    PROVE  Bytes(items) = ByteSize(items[i]) + Bytes(RemoveAt(items, i))
  <1> DEFINE front == SubSeq(items, 1, i - 1)
             tail  == SubSeq(items, i, Len(items))
             back  == SubSeq(items, i + 1, Len(items))
             item  == items[i]
  <1>1. item \in Item
    BY ElementOfSeq
  <1>2. /\ front \in Seq(Item) /\ tail \in Seq(Item)
        /\ Bytes(items) = Bytes(front) + Bytes(tail)
    <2>1. i - 1 \in 0 .. Len(items) /\ (i - 1) + 1 = i
      OBVIOUS
    <2> HIDE DEF item
    <2> QED
      BY <2>1, BytesOfParts
  <1>3. back \in Seq(Item)
    BY BytesOfParts
  <1>4. tail = Cons(item, back)
    <2>1. Len(tail) = (Len(items) - i) + 1 /\ Len(back) = Len(items) - i
      BY SubSeqProperties
    <2>2. ASSUME NEW j \in 1 .. Len(items) - i
          PROVE  back[j] = items[i + j]
      <3>1. back[j] = items[(i + 1) + j - 1]
        BY SubSeqProperties
      <3> QED
        BY <3>1
    <2>3. ASSUME NEW j \in 1 .. (Len(items) - i) + 1
          PROVE  tail[j] = items[i + j - 1]
      BY SubSeqProperties
    <2> HIDE DEF tail, back
    <2>4. /\ Cons(item, back) \in Seq(Item)
          /\ Len(Cons(item, back)) = Len(back) + 1
          /\ Cons(item, back)[1] = item
          /\ \A j \in 1 .. Len(back) : Cons(item, back)[j + 1] = back[j]
      <3> HIDE DEF item
      <3> QED
        BY ONLY <1>1, <1>3, ConsProperties
    <2>5. ASSUME NEW j \in 1 .. Len(tail)
          PROVE  tail[j] = Cons(item, back)[j]
      <3>1. CASE j = 1
        BY <3>1, <2>1, <2>3, <2>4
      <3>2. CASE j # 1
        <4>1. j - 1 \in 1 .. Len(items) - i /\ (j - 1) + 1 = j /\ i + (j - 1) = i + j - 1
          BY <3>2, <2>1
        <4>2. Cons(item, back)[(j - 1) + 1] = back[j - 1]
          BY <4>1, <2>1, <2>4
        <4>3. back[j - 1] = items[i + (j - 1)]
          BY <4>1, <2>2
        <4>4. tail[j] = items[i + j - 1]
          BY <2>1, <2>3
        <4> QED
          BY <4>1, <4>2, <4>3, <4>4
      <3> QED
        BY <3>1, <3>2
    <2>6. Len(tail) = Len(Cons(item, back))
      BY <2>1, <2>4
    <2> DEFINE new == Cons(item, back)
    <2>7. new \in Seq(Item) /\ Len(tail) = Len(new) /\ \A j \in 1 .. Len(tail) : tail[j] = new[j]
      BY <2>4, <2>5, <2>6
    <2> HIDE DEF new
    <2>8. tail = new
      BY <1>2, <2>7, SeqEqual
    <2> QED
      BY <2>8 DEF new
  <1>5. RemoveAt(items, i) = front \o back
    BY DEF RemoveAt
  <1> HIDE DEF front, tail, back, item
  <1>6. Bytes(tail) = ByteSize(item) + Bytes(back)
    BY <1>1, <1>3, <1>4, BytesOfCons
  <1>7. Bytes(front \o back) = Bytes(front) + Bytes(back)
    BY <1>2, <1>3, BytesOfConcat
  <1>8. /\ Bytes(front) \in Nat /\ Bytes(back) \in Nat
        /\ ByteSize(item) \in Nat
    BY <1>1, <1>2, <1>3, BytesInNat, TextAssumption DEF ByteSize, Item
  <1> DEFINE f == Bytes(front)
             b == Bytes(back)
             c == ByteSize(item)
  <1>9. /\ f \in Nat /\ b \in Nat /\ c \in Nat
        /\ Bytes(items) = f + (c + b) /\ Bytes(front \o back) = f + b
    BY <1>2, <1>6, <1>7, <1>8
  <1>10. Bytes(items) = c + Bytes(front \o back)
    <2> HIDE DEF f, b, c
    <2> QED
      BY <1>9
  <1> QED
    BY <1>5, <1>10 DEF item

\* Moving an item to the front keeps the size.
LEMMA BytesOfMove ==
    ASSUME NEW items \in Seq(Item), NEW i \in 1 .. Len(items)
    PROVE  Bytes(Cons(items[i], RemoveAt(items, i))) = Bytes(items)
  <1> DEFINE rest == RemoveAt(items, i)
             item == items[i]
  <1>1. rest \in Seq(Item) /\ item \in Item
    BY RemoveAtProperties, ElementOfSeq
  <1>2. Bytes(items) = ByteSize(item) + Bytes(rest)
    BY BytesOfRemoval
  <1> HIDE DEF rest, item
  <1>3. Bytes(Cons(item, rest)) = ByteSize(item) + Bytes(rest)
    BY <1>1, BytesOfCons
  <1> QED
    BY <1>2, <1>3 DEF rest, item

\* Another first item changes the size by the difference of the two.
LEMMA BytesOfNewFirst ==
    ASSUME NEW items \in Seq(Item), NEW new \in Seq(Item),
           Len(items) >= 1, Len(new) = Len(items),
           \A j \in 2 .. Len(items) : new[j] = items[j]
    PROVE  \E rest \in Nat : /\ Bytes(items) = ByteSize(items[1]) + rest
                             /\ Bytes(new) = ByteSize(new[1]) + rest
  <1> DEFINE rest == RemoveAt(items, 1)
             newRest == RemoveAt(new, 1)
             n == Len(items)
  <1>0. n \in Nat /\ 1 \in 1 .. Len(items) /\ 1 \in 1 .. Len(new) /\ Len(new) = n
    OBVIOUS
  <1>1. /\ Bytes(items) = ByteSize(items[1]) + Bytes(rest)
        /\ Bytes(new) = ByteSize(new[1]) + Bytes(newRest)
    BY <1>0, BytesOfRemoval
  <1>2. /\ rest \in Seq(Item) /\ Len(rest) = n - 1
        /\ \A j \in 1 .. n - 1 : rest[j] = IF j < 1 THEN items[j] ELSE items[j + 1]
    BY <1>0, RemoveAtProperties
  <1>3. /\ newRest \in Seq(Item) /\ Len(newRest) = n - 1
        /\ \A j \in 1 .. n - 1 : newRest[j] = IF j < 1 THEN new[j] ELSE new[j + 1]
    BY <1>0, RemoveAtProperties
  <1> HIDE DEF rest, newRest
  <1>4. ASSUME NEW j \in 1 .. n - 1
        PROVE  rest[j] = newRest[j]
    <2>1. ~(j < 1) /\ j + 1 \in 2 .. n
      BY <1>0
    <2> QED
      BY <1>2, <1>3, <2>1
  <1>5. rest = newRest
    BY <1>2, <1>3, <1>4, SeqEqual
  <1>6. Bytes(rest) \in Nat
    BY <1>2, BytesInNat
  <1> QED
    BY <1>1, <1>5, <1>6

-----------------------------------------------------------------------------
(* The operations: types, positions and repetitions.                       *)

\* Adding up and taking away sizes stays within u64's naturals.
LEMMA SaturatingSubType == \A a, b : SaturatingSub(a, b) \in Nat
  BY DEF SaturatingSub

\* The types of a session's fields.
LEMMA SessionFields ==
    ASSUME NEW s \in Session
    PROVE  /\ s.items \in Seq(Item) /\ Len(s.items) \in Nat
           /\ DOMAIN s.items = 1 .. Len(s.items)
           /\ s.byte_total \in Nat
           /\ s.policies \in Policies /\ s.policies \in PolicyRecord
           /\ s.active_index \in Nat
           /\ s.navigation_wrap \in BOOLEAN
  BY PoliciesAssumption DEF Session

\* enforce_limits keeps a prefix, no longer than max_history_size, and stops
\* when that prefix is empty or fits the memory budget.
LEMMA EnforceLimitsKeepsPrefix ==
    ASSUME NEW s \in Session
    PROVE  \E kept \in 0 .. Len(s.items) :
              /\ EnforceLimits(s) = [s EXCEPT !.items = SubSeq(s.items, 1, kept),
                                              !.byte_total = TotalOfNewest(s, kept)]
              /\ kept <= s.policies.max_history_size
              /\ \/ kept = 0
                 \/ TotalOfNewest(s, kept) <= s.policies.max_memory_usage_bytes
  <1> DEFINE stops == SecondLoopStops(s)
             pops  == CHOOSE k \in stops : \A j \in stops : k <= j
  <1>1. /\ Len(s.items) \in Nat
        /\ s.policies.max_history_size \in Nat
        /\ s.policies.max_memory_usage_bytes \in Nat
    BY SessionFields DEF PolicyRecord
  <1>2. /\ WithinCount(s) \in 0 .. Len(s.items)
        /\ WithinCount(s) <= s.policies.max_history_size
    BY <1>1 DEF WithinCount
  <1>3. stops \in SUBSET Nat /\ WithinCount(s) \in stops
    BY <1>2 DEF SecondLoopStops
  <1>4. \E k \in stops : \A j \in stops : k <= j
    <2> HIDE DEF stops
    <2> QED
      BY <1>3, LeastNatural
  <1>5. pops \in stops
    BY <1>4
  <1>6. /\ WithinCount(s) - pops \in 0 .. Len(s.items)
        /\ WithinCount(s) - pops <= s.policies.max_history_size
        /\ \/ WithinCount(s) - pops = 0
           \/ TotalOfNewest(s, WithinCount(s) - pops) <= s.policies.max_memory_usage_bytes
    <2>1. /\ pops \in 0 .. WithinCount(s)
          /\ \/ pops = WithinCount(s)
             \/ TotalOfNewest(s, WithinCount(s) - pops) <= s.policies.max_memory_usage_bytes
      BY <1>5 DEF SecondLoopStops
    <2> HIDE DEF pops
    <2> QED
      BY <1>1, <1>2, <2>1
  <1>7. EnforceLimits(s) =
          [s EXCEPT !.items = SubSeq(s.items, 1, WithinCount(s) - pops),
                    !.byte_total = TotalOfNewest(s, WithinCount(s) - pops)]
    BY DEF EnforceLimits
  <1> QED
    BY <1>6, <1>7

\* Eviction yields a session whose items are the newest of those before.
LEMMA EnforceLimitsProperties ==
    ASSUME NEW s \in Session
    PROVE  LET e == EnforceLimits(s)
           IN  /\ e \in Session
               /\ Len(e.items) <= Len(s.items)
               /\ Len(e.items) <= e.policies.max_history_size
               /\ \A i \in DOMAIN e.items : e.items[i] = s.items[i]
               /\ e.policies = s.policies
               /\ e.active_index = s.active_index
  <1>1. PICK kept \in 0 .. Len(s.items) :
              /\ EnforceLimits(s) = [s EXCEPT !.items = SubSeq(s.items, 1, kept),
                                              !.byte_total = TotalOfNewest(s, kept)]
              /\ kept <= s.policies.max_history_size
    BY EnforceLimitsKeepsPrefix
  <1>2. /\ SubSeq(s.items, 1, kept) \in Seq(Item)
        /\ Len(SubSeq(s.items, 1, kept)) = kept
        /\ \A i \in 1 .. kept : SubSeq(s.items, 1, kept)[i] = s.items[i]
    BY PrefixProperties, SessionFields
  <1>3. TotalOfNewest(s, kept) \in Nat
    BY SaturatingSubType DEF TotalOfNewest
  <1> DEFINE e == EnforceLimits(s)
  <1>4. /\ e \in Session /\ e.items = SubSeq(s.items, 1, kept)
        /\ e.policies = s.policies /\ e.active_index = s.active_index
    <2> DEFINE items == SubSeq(s.items, 1, kept)
               total == TotalOfNewest(s, kept)
    <2>1. items \in Seq(Item) /\ total \in Nat
      BY <1>2, <1>3
    <2>2. e = [s EXCEPT !.items = items, !.byte_total = total]
      BY <1>1
    <2> HIDE DEF items, total, e
    <2>3. /\ e \in Session /\ e.items = items
          /\ e.policies = s.policies /\ e.active_index = s.active_index
      BY ONLY <2>1, <2>2, s \in Session DEF Session
    <2> QED
      BY <2>3 DEF items
  <1>5. DOMAIN e.items = 1 .. kept
    BY <1>4, <1>2, SessionFields
  <1> HIDE DEF e
  <1>6. Len(e.items) <= Len(s.items) /\ Len(e.items) <= e.policies.max_history_size
    BY <1>1, <1>2, <1>4, SessionFields
  <1>7. \A i \in DOMAIN e.items : e.items[i] = s.items[i]
    BY <1>2, <1>4, <1>5
  <1> QED
    BY <1>4, <1>6, <1>7 DEF e

\* Where the entry at position j of the moved list stood before.
MovedFrom(i, j) == IF j = 1 THEN i ELSE IF j <= i THEN j - 1 ELSE j

\* move_to_front permutes the items and changes nothing else.
LEMMA MoveToFrontProperties ==
    ASSUME NEW s \in Session, NEW i \in DOMAIN s.items
    PROVE  LET m == MoveToFront(s, i)
           IN  /\ m \in Session
               /\ Len(m.items) = Len(s.items)
               /\ \A j \in DOMAIN m.items : m.items[j] = s.items[MovedFrom(i, j)]
               /\ m.policies = s.policies
  <1> DEFINE moved == Cons(s.items[i], RemoveAt(s.items, i))
  <1>1. i \in 1 .. Len(s.items) /\ s.items \in Seq(Item)
    BY SessionFields
  <1>2. /\ moved \in Seq(Item)
        /\ Len(moved) = Len(s.items)
        /\ \A j \in 1 .. Len(s.items) :
              moved[j] = IF j = 1 THEN s.items[i]
                         ELSE IF j <= i THEN s.items[j - 1] ELSE s.items[j]
    BY <1>1, MoveProperties
  <1>3. MoveToFront(s, i) = [s EXCEPT !.items = moved]
    BY DEF MoveToFront
  <1> HIDE DEF moved
  <1>4. /\ MoveToFront(s, i) \in Session
        /\ MoveToFront(s, i).items = moved
        /\ MoveToFront(s, i).policies = s.policies
    BY <1>2, <1>3 DEF Session
  <1>5. \A j \in 1 .. Len(s.items) : moved[j] = s.items[MovedFrom(i, j)]
    BY <1>2 DEF MovedFrom
  <1> QED
    BY <1>1, <1>2, <1>4, <1>5, SessionFields

\* A permutation repeats no text and no uuid that was not repeated before.
LEMMA MoveToFrontKeepsDistinct ==
    ASSUME NEW s \in Session, NEW i \in DOMAIN s.items
    PROVE  /\ DistinctTexts(s) => DistinctTexts(MoveToFront(s, i))
           /\ DistinctUuids(s) => DistinctUuids(MoveToFront(s, i))
  <1> DEFINE m == MoveToFront(s, i)
  <1>1. /\ DOMAIN m.items = 1 .. Len(s.items) /\ DOMAIN s.items = 1 .. Len(s.items)
        /\ Len(s.items) \in Nat
        /\ \A j \in DOMAIN m.items : m.items[j] = s.items[MovedFrom(i, j)]
    BY MoveToFrontProperties, SessionFields
  <1>2. ASSUME NEW j \in DOMAIN m.items, NEW k \in DOMAIN m.items
        PROVE  /\ MovedFrom(i, j) \in DOMAIN s.items
               /\ MovedFrom(i, j) = MovedFrom(i, k) => j = k
    BY <1>1 DEF MovedFrom
  <1> HIDE DEF m
  <1>3. DistinctTexts(s) => DistinctTexts(m)
    BY <1>1, <1>2 DEF DistinctTexts
  <1>4. DistinctUuids(s) => DistinctUuids(m)
    BY <1>1, <1>2 DEF DistinctUuids
  <1> QED
    BY <1>3, <1>4 DEF m

\* Where the entry at position j of the shortened list stood before.
KeptFrom(i, j) == IF j < i THEN j ELSE j + 1

\* Removal moves up the later entries and changes the list and the total only.
LEMMA RemoveItemProperties ==
    ASSUME NEW s \in Session, NEW i \in DOMAIN s.items
    PROVE  LET r == RemoveItem(s, i)
           IN  /\ r \in Session
               /\ Len(r.items) = Len(s.items) - 1
               /\ \A j \in DOMAIN r.items :
                     r.items[j] = s.items[KeptFrom(i, j)]
               /\ r.policies = s.policies
               /\ r.active_index = s.active_index
  <1> DEFINE left  == RemoveAt(s.items, i)
             total == SaturatingSub(s.byte_total, ByteSize(s.items[i]))
  <1>1. i \in 1 .. Len(s.items) /\ s.items \in Seq(Item)
    BY SessionFields
  <1>2. /\ left \in Seq(Item)
        /\ Len(left) = Len(s.items) - 1
        /\ \A j \in 1 .. Len(s.items) - 1 :
              left[j] = IF j < i THEN s.items[j] ELSE s.items[j + 1]
    BY <1>1, RemoveAtProperties
  <1>3. total \in Nat
    BY SaturatingSubType
  <1>4. RemoveItem(s, i) = [s EXCEPT !.items = left, !.byte_total = total]
    BY DEF RemoveItem
  <1> HIDE DEF left, total
  <1>5. /\ RemoveItem(s, i) \in Session
        /\ RemoveItem(s, i).items = left
        /\ RemoveItem(s, i).policies = s.policies
        /\ RemoveItem(s, i).active_index = s.active_index
    BY <1>2, <1>3, <1>4 DEF Session
  <1>6. DOMAIN left = 1 .. Len(s.items) - 1
    BY <1>2, LenProperties
  <1>7. \A j \in 1 .. Len(s.items) - 1 : left[j] = s.items[KeptFrom(i, j)]
    BY <1>2 DEF KeptFrom
  <1> QED
    BY <1>2, <1>5, <1>6, <1>7

\* Removal repeats no text and no uuid that was not repeated before.
LEMMA RemoveItemKeepsDistinct ==
    ASSUME NEW s \in Session, NEW i \in DOMAIN s.items
    PROVE  /\ DistinctTexts(s) => DistinctTexts(RemoveItem(s, i))
           /\ DistinctUuids(s) => DistinctUuids(RemoveItem(s, i))
  <1> DEFINE r == RemoveItem(s, i)
  <1>1. /\ DOMAIN r.items = 1 .. Len(s.items) - 1
        /\ DOMAIN s.items = 1 .. Len(s.items) /\ Len(s.items) \in Nat
        /\ \A j \in DOMAIN r.items : r.items[j] = s.items[KeptFrom(i, j)]
    BY RemoveItemProperties, SessionFields
  <1>2. ASSUME NEW j \in DOMAIN r.items, NEW k \in DOMAIN r.items
        PROVE  /\ KeptFrom(i, j) \in DOMAIN s.items
               /\ KeptFrom(i, j) = KeptFrom(i, k) => j = k
    BY <1>1 DEF KeptFrom
  <1> HIDE DEF r
  <1>3. DistinctTexts(s) => DistinctTexts(r)
    BY <1>1, <1>2 DEF DistinctTexts
  <1>4. DistinctUuids(s) => DistinctUuids(r)
    BY <1>1, <1>2 DEF DistinctUuids
  <1> QED
    BY <1>3, <1>4 DEF r

\* push_front puts the item first and evicts from the other end.
LEMMA PushFrontProperties ==
    ASSUME NEW s \in Session, NEW item \in Item
    PROVE  LET p == PushFront(s, item)
           IN  /\ p \in Session
               /\ Len(p.items) <= p.policies.max_history_size
               /\ \A j \in DOMAIN p.items :
                     /\ j - 1 \in DOMAIN s.items \cup {0}
                     /\ p.items[j] = IF j = 1 THEN item ELSE s.items[j - 1]
               /\ p.policies = s.policies
  <1> DEFINE list  == Cons(item, s.items)
             total == s.byte_total + ByteSize(item)
             t     == [s EXCEPT !.items = list, !.byte_total = total]
  <1>1. /\ list \in Seq(Item)
        /\ Len(list) = Len(s.items) + 1
        /\ list[1] = item
        /\ \A j \in 1 .. Len(s.items) : list[j + 1] = s.items[j]
    <2> DEFINE old == s.items
    <2>1. old \in Seq(Item) /\ item \in Item
      BY SessionFields
    <2> HIDE DEF old
    <2>2. /\ Cons(item, old) \in Seq(Item)
          /\ Len(Cons(item, old)) = Len(old) + 1
          /\ Cons(item, old)[1] = item
          /\ \A j \in 1 .. Len(old) : Cons(item, old)[j + 1] = old[j]
      BY ONLY <2>1, ConsProperties
    <2> QED
      BY <2>2 DEF old
  <1>2. total \in Nat
    BY SessionFields, TextAssumption DEF ByteSize, Item
  <1>3. t \in Session /\ t.items = list /\ t.policies = s.policies
    <2> HIDE DEF list, total
    <2> QED
      BY <1>1, <1>2 DEF Session
  <1>4. PushFront(s, item) = EnforceLimits(t)
    BY DEF PushFront
  <1> HIDE DEF list, total, t
  <1> DEFINE p == PushFront(s, item)
  <1>5. /\ p \in Session
        /\ Len(p.items) <= Len(list)
        /\ Len(p.items) <= p.policies.max_history_size
        /\ \A j \in DOMAIN p.items : p.items[j] = list[j]
        /\ p.policies = s.policies
    BY <1>3, <1>4, EnforceLimitsProperties
  <1> HIDE DEF p
  <1>6. ASSUME NEW j \in DOMAIN p.items
        PROVE  /\ j - 1 \in DOMAIN s.items \cup {0}
               /\ p.items[j] = IF j = 1 THEN item ELSE s.items[j - 1]
    <2>1. j \in 1 .. Len(s.items) + 1
      BY <1>1, <1>5, SessionFields
    <2>2. CASE j = 1
      BY <2>2, <1>1, <1>5
    <2>3. CASE j # 1
      <3>1. j - 1 \in 1 .. Len(s.items) /\ (j - 1) + 1 = j
        BY <2>1, <2>3, SessionFields
      <3>2. list[(j - 1) + 1] = s.items[j - 1]
        BY <3>1, <1>1
      <3> QED
        BY <3>1, <3>2, <2>3, <1>5, SessionFields
    <2> QED
      BY <2>2, <2>3
  <1> QED
    BY <1>5, <1>6 DEF p

\* An item with a new uuid and a new text repeats neither.
LEMMA PushFrontKeepsDistinct ==
    ASSUME NEW s \in Session, NEW item \in Item
    PROVE  /\ Holding(s, item.text) = {} /\ DistinctTexts(s)
                => DistinctTexts(PushFront(s, item))
           /\ item.uuid \notin UuidsOf(s.items) /\ DistinctUuids(s)
                => DistinctUuids(PushFront(s, item))
  <1> DEFINE p == PushFront(s, item)
  <1>1. \A j \in DOMAIN p.items :
           /\ j \in Nat
           /\ j # 1 => j - 1 \in DOMAIN s.items
           /\ p.items[j] = IF j = 1 THEN item ELSE s.items[j - 1]
    <2>1. p \in Session
      BY PushFrontProperties
    <2>2. DOMAIN p.items = 1 .. Len(p.items) /\ Len(p.items) \in Nat
      BY <2>1, SessionFields
    <2>3. \A j \in DOMAIN p.items :
             /\ j - 1 \in DOMAIN s.items \cup {0}
             /\ p.items[j] = IF j = 1 THEN item ELSE s.items[j - 1]
      BY PushFrontProperties
    <2> HIDE DEF p
    <2> QED
      BY <2>2, <2>3
  <1> HIDE DEF p
  <1>2. ASSUME Holding(s, item.text) = {}, DistinctTexts(s)
        PROVE  DistinctTexts(p)
    BY <1>1, <1>2 DEF DistinctTexts, Holding
  <1>3. ASSUME item.uuid \notin UuidsOf(s.items), DistinctUuids(s)
        PROVE  DistinctUuids(p)
    BY <1>1, <1>3 DEF DistinctUuids, UuidsOf
  <1> QED
    BY <1>2, <1>3 DEF p

\* A growing line changes the text of the first item and the total only.
LEMMA GrowFirstProperties ==
    ASSUME NEW s \in Session, s.items # <<>>, NEW text \in Text
    PROVE  LET g == GrowFirst(s, text)
           IN  /\ g \in Session
               /\ Len(g.items) = Len(s.items)
               /\ \A j \in DOMAIN g.items : g.items[j].uuid = s.items[j].uuid
               /\ g.policies = s.policies
  <1> DEFINE list  == [s.items EXCEPT ![1].text = text]
             total == SaturatingSub(s.byte_total, ByteSize(s.items[1])) + ByteLen[text]
  <1>1. 1 \in DOMAIN s.items /\ s.items[1] \in Item
    BY SessionFields
  <1>2. /\ list \in Seq(Item) /\ Len(list) = Len(s.items)
        /\ \A j \in DOMAIN s.items : list[j].uuid = s.items[j].uuid
        /\ DOMAIN list = DOMAIN s.items
    <2>1. [s.items[1] EXCEPT !.text = text] \in Item
      BY <1>1 DEF Item
    <2>2. s.items \in [1 .. Len(s.items) -> Item] /\ Len(s.items) \in Nat
      BY SessionFields
    <2>3. /\ list \in [1 .. Len(s.items) -> Item]
          /\ \A j \in DOMAIN s.items : list[j].uuid = s.items[j].uuid
      BY <2>1, <2>2, <1>1 DEF Item
    <2> HIDE DEF list
    <2> QED
      BY <2>2, <2>3
  <1>3. total \in Nat
    BY SaturatingSubType, TextAssumption
  <1>4. GrowFirst(s, text) = [s EXCEPT !.items = list, !.byte_total = total]
    BY DEF GrowFirst
  <1> HIDE DEF list, total
  <1>5. /\ GrowFirst(s, text) \in Session
        /\ GrowFirst(s, text).items = list
        /\ GrowFirst(s, text).policies = s.policies
    BY <1>2, <1>3, <1>4 DEF Session
  <1> QED
    BY <1>2, <1>5
\* Resetting the active index leaves the list alone.
LEMMA ResetActiveProperties ==
    ASSUME NEW s \in Session
    PROVE  LET r == ResetActive(s)
           IN  /\ r \in Session
               /\ r.items = s.items
               /\ r.policies = s.policies
               /\ r.active_index = 0
  BY DEF ResetActive, Session

\* CHOOSE in FirstHolding and FirstWith finds an item when there is one.
LEMMA FirstPositions ==
    ASSUME NEW s \in Session
    PROVE  /\ \A text : Holding(s, text) # {} => FirstHolding(s, text) \in DOMAIN s.items
           /\ \A uuid : Found(s, uuid) => /\ FirstWith(s, uuid) \in DOMAIN s.items
                                         /\ s.items[FirstWith(s, uuid)].uuid = uuid
  <1>1. DOMAIN s.items \subseteq Nat
    BY SessionFields
  <1>2. ASSUME NEW text, Holding(s, text) # {}
        PROVE  FirstHolding(s, text) \in DOMAIN s.items
    <2>1. Holding(s, text) \in SUBSET Nat
      BY <1>1 DEF Holding
    <2>2. \E i \in Holding(s, text) : \A j \in Holding(s, text) : i <= j
      BY <2>1, <1>2, LeastNatural
    <2>3. FirstHolding(s, text) \in Holding(s, text)
      BY <2>2 DEF FirstHolding
    <2> QED
      BY <2>3 DEF Holding
  <1>3. ASSUME NEW uuid, Found(s, uuid)
        PROVE  /\ FirstWith(s, uuid) \in DOMAIN s.items
               /\ s.items[FirstWith(s, uuid)].uuid = uuid
    <2>1. FindIndex(s, uuid) \in SUBSET Nat /\ FindIndex(s, uuid) # {}
      BY <1>1, <1>3 DEF FindIndex, Found
    <2>2. \E i \in FindIndex(s, uuid) : \A j \in FindIndex(s, uuid) : i <= j
      BY <2>1, LeastNatural
    <2>3. FirstWith(s, uuid) \in FindIndex(s, uuid)
      BY <2>2 DEF FirstWith
    <2> QED
      BY <2>3 DEF FindIndex
  <1> QED
    BY <1>2, <1>3

\* Ingest keeps the length bound and unique uuids; it repeats a text only when
\* a growing line is replaced.
LEMMA SessionIngestProperties ==
    ASSUME NEW s \in Session, NEW text \in Text,
           NEW uuid \in Uuid \ UuidsOf(s.items)
    PROVE  LET r == SessionIngest(s, text, uuid)
           IN  /\ r \in Session
               /\ WithinLength(s) => WithinLength(r)
               /\ DistinctUuids(s) => DistinctUuids(r)
               /\ IngestOutcome(s, text) # "ReplacedGrowingLine" /\ DistinctTexts(s)
                    => DistinctTexts(r)
               /\ IngestOutcome(s, text) # "RejectedTextSize" => r.active_index = 0
               /\ r.policies = s.policies
  <1> DEFINE prepared == PrepareText(s.policies, text)
             r == SessionIngest(s, text, uuid)
  <1>1. prepared \in Text
    BY TextAssumption DEF PrepareText
  <1>2. CASE IngestOutcome(s, text) = "RejectedTextSize"
    BY <1>2 DEF SessionIngest
  <1>3. CASE IngestOutcome(s, text) = "ReplacedGrowingLine"
    <2> DEFINE g == GrowFirst(s, prepared)
    <2>1. s.items # <<>>
      BY <1>3 DEF IngestOutcome, Grows
    <2>2. r = ResetActive(g)
      BY <1>3 DEF SessionIngest, IngestText
    <2>3. /\ g \in Session /\ Len(g.items) = Len(s.items) /\ g.policies = s.policies
          /\ \A j \in DOMAIN g.items : g.items[j].uuid = s.items[j].uuid
      BY <1>1, <2>1, GrowFirstProperties
    <2>4. DOMAIN g.items = DOMAIN s.items
      BY <2>3, SessionFields
    <2> HIDE DEF g, r
    <2>5. r \in Session /\ r.items = g.items /\ r.policies = g.policies /\ r.active_index = 0
      BY <2>2, <2>3, ResetActiveProperties
    <2>6. WithinLength(s) => WithinLength(r)
      BY <2>3, <2>5 DEF WithinLength
    <2>7. DistinctUuids(s) => DistinctUuids(r)
      BY <2>3, <2>4, <2>5 DEF DistinctUuids
    <2> QED
      BY <1>3, <2>3, <2>5, <2>6, <2>7 DEF r
  <1>4. CASE IngestOutcome(s, text) = "MovedExisting"
    <2> DEFINE i == FirstHolding(s, prepared)
               m == MoveToFront(s, i)
    <2>1. i \in DOMAIN s.items
      BY <1>4, FirstPositions DEF IngestOutcome
    <2>2. r = ResetActive(m)
      BY <1>4 DEF SessionIngest, IngestText
    <2> HIDE DEF i
    <2>3. /\ m \in Session /\ Len(m.items) = Len(s.items) /\ m.policies = s.policies
          /\ DistinctTexts(s) => DistinctTexts(m)
          /\ DistinctUuids(s) => DistinctUuids(m)
      BY <2>1, MoveToFrontProperties, MoveToFrontKeepsDistinct
    <2> HIDE DEF m, r
    <2>4. r \in Session /\ r.items = m.items /\ r.policies = m.policies /\ r.active_index = 0
      BY <2>2, <2>3, ResetActiveProperties
    <2> QED
      BY <2>3, <2>4 DEF r, WithinLength, DistinctTexts, DistinctUuids
  <1>5. CASE IngestOutcome(s, text) = "Added"
    <2> DEFINE item == [uuid |-> uuid, text |-> prepared]
               p == PushFront(s, item)
    <2>1. item \in Item /\ item.uuid \notin UuidsOf(s.items)
      BY <1>1 DEF Item
    <2>2. Holding(s, item.text) = {}
      BY <1>5 DEF IngestOutcome
    <2>3. r = ResetActive(p)
      BY <1>5 DEF SessionIngest, IngestText
    <2> HIDE DEF item
    <2>4. /\ p \in Session /\ WithinLength(p) /\ p.policies = s.policies
          /\ DistinctTexts(s) => DistinctTexts(p)
          /\ DistinctUuids(s) => DistinctUuids(p)
      BY <2>1, <2>2, PushFrontProperties, PushFrontKeepsDistinct DEF WithinLength
    <2> HIDE DEF p, r
    <2>5. r \in Session /\ r.items = p.items /\ r.policies = p.policies /\ r.active_index = 0
      BY <2>3, <2>4, ResetActiveProperties
    <2> QED
      BY <2>4, <2>5 DEF r, WithinLength, DistinctTexts, DistinctUuids
  <1> QED
    BY <1>2, <1>3, <1>4, <1>5 DEF IngestOutcome

-----------------------------------------------------------------------------
(* The running total.                                                      *)

\* Subtracting the sizes of the oldest items from an exact total leaves that
\* of the newest.
LEMMA NewestTotals ==
    ASSUME NEW s \in Session, ExactTotal(s), NEW n \in 0 .. Len(s.items)
    PROVE  TotalOfNewest(s, n) = Bytes(SubSeq(s.items, 1, n))
  <1> DEFINE front == SubSeq(s.items, 1, n)
             back  == SubSeq(s.items, n + 1, Len(s.items))
             f     == Bytes(front)
             b     == Bytes(back)
  <1>1. front \in Seq(Item) /\ back \in Seq(Item) /\ Bytes(s.items) = f + b
    BY SessionFields, BytesOfParts
  <1>2. f \in Nat /\ b \in Nat
    BY <1>1, BytesInNat
  <1>3. TotalOfNewest(s, n) = SaturatingSub(f + b, b)
    BY <1>1 DEF TotalOfNewest, ExactTotal
  <1> HIDE DEF f, b
  <1>4. (f + b) - b = f
    BY <1>2
  <1>5. TotalOfNewest(s, n) = f
    BY <1>2, <1>3, <1>4 DEF SaturatingSub
  <1> QED
    BY <1>5 DEF f

\* Eviction subtracts the sizes of what it drops, and stops within the budget:
\* an exact total is 0 once nothing is left.
LEMMA EnforceLimitsExact ==
    ASSUME NEW s \in Session, ExactTotal(s)
    PROVE  ExactTotal(EnforceLimits(s)) /\ InBudget(EnforceLimits(s))
  <1>1. PICK kept \in 0 .. Len(s.items) :
              /\ EnforceLimits(s) = [s EXCEPT !.items = SubSeq(s.items, 1, kept),
                                              !.byte_total = TotalOfNewest(s, kept)]
              /\ \/ kept = 0
                 \/ TotalOfNewest(s, kept) <= s.policies.max_memory_usage_bytes
    BY EnforceLimitsKeepsPrefix
  <1> DEFINE front == SubSeq(s.items, 1, kept)
             total == TotalOfNewest(s, kept)
             budget == s.policies.max_memory_usage_bytes
  <1>2. s.items \in Seq(Item) /\ budget \in Nat
    BY SessionFields DEF PolicyRecord
  <1>3. total = Bytes(front)
    BY NewestTotals
  <1>4. total <= budget
    <2>1. CASE kept = 0
      <3>1. front \in Seq(Item) /\ Len(front) = 0
        BY <1>2, <2>1, PrefixProperties
      <3>2. total = 0
        BY <1>3, <3>1, BytesOfNone
      <3> HIDE DEF total, budget
      <3> QED
        BY <1>2, <3>2
    <2> QED
      BY <1>1, <2>1
  <1>5. EnforceLimits(s) = [s EXCEPT !.items = front, !.byte_total = total]
    BY <1>1
  <1> HIDE DEF front, total
  <1>6. /\ EnforceLimits(s).items = front
        /\ EnforceLimits(s).byte_total = total
        /\ EnforceLimits(s).policies = s.policies
    BY <1>5 DEF Session
  <1> QED
    BY <1>3, <1>4, <1>6 DEF ExactTotal, InBudget

\* Nothing is evicted that could stay: any number of the newest items that both
\* limits allow is still there after enforce_limits (history.rs:254), whose two
\* loops stop at the first list that fits.
THEOREM EvictionIsLeast ==
    ASSUME NEW s \in Session, ExactTotal(s), NEW n \in 0 .. Len(s.items),
           n <= s.policies.max_history_size,
           Bytes(SubSeq(s.items, 1, n)) <= s.policies.max_memory_usage_bytes
    PROVE  /\ n <= Len(EnforceLimits(s).items)
           /\ \A i \in 1 .. n : EnforceLimits(s).items[i] = s.items[i]
  <1> DEFINE stops == SecondLoopStops(s)
             pops  == CHOOSE k \in stops : \A j \in stops : k <= j
             count == WithinCount(s)
             kept  == count - pops
             front == SubSeq(s.items, 1, kept)
  <1>1. /\ s.items \in Seq(Item) /\ Len(s.items) \in Nat
        /\ s.policies.max_history_size \in Nat
    BY SessionFields DEF PolicyRecord
  <1>2. count \in 0 .. Len(s.items) /\ n <= count
    BY <1>1 DEF WithinCount
  <1>3. count - n \in stops
    <2>1. TotalOfNewest(s, n) <= s.policies.max_memory_usage_bytes
      BY NewestTotals
    <2>2. count - n \in 0 .. count /\ count - (count - n) = n
      BY <1>1, <1>2
    <2> QED
      BY <2>1, <2>2 DEF SecondLoopStops
  <1>4. pops \in stops /\ \A j \in stops : pops <= j
    <2>1. stops \in SUBSET Nat
      BY <1>2 DEF SecondLoopStops
    <2>2. \E k \in stops : \A j \in stops : k <= j
      <3> HIDE DEF stops
      <3> QED
        BY <1>3, <2>1, LeastNatural
    <2> QED
      BY <2>2
  <1>5. pops \in 0 .. count /\ pops <= count - n
    BY <1>3, <1>4 DEF SecondLoopStops
  <1>6. kept \in 0 .. Len(s.items) /\ n <= kept
    <2> HIDE DEF pops, count
    <2> QED
      BY <1>1, <1>2, <1>5
  <1>7. EnforceLimits(s).items = front
    BY DEF EnforceLimits, Session
  <1> HIDE DEF kept
  <1>8. /\ front \in Seq(Item) /\ Len(front) = kept
        /\ \A i \in 1 .. kept : front[i] = s.items[i]
    BY <1>1, <1>6, PrefixProperties
  <1> QED
    BY <1>6, <1>7, <1>8

\* A new item is paid for before room is made for it.
LEMMA PushFrontExact ==
    ASSUME NEW s \in Session, ExactTotal(s), NEW item \in Item
    PROVE  ExactTotal(PushFront(s, item)) /\ InBudget(PushFront(s, item))
  <1> DEFINE list  == Cons(item, s.items)
             total == s.byte_total + ByteSize(item)
             t     == [s EXCEPT !.items = list, !.byte_total = total]
  <1>1. s.items \in Seq(Item) /\ s.byte_total \in Nat
    BY SessionFields
  <1>2. ByteSize(item) \in Nat
    BY TextAssumption DEF ByteSize, Item
  <1>3. list \in Seq(Item)
    <2> DEFINE old == s.items
    <2>1. old \in Seq(Item)
      BY <1>1
    <2> HIDE DEF old
    <2>2. Cons(item, old) \in Seq(Item)
      BY <2>1, ConsProperties
    <2> QED
      BY <2>2 DEF old
  <1>4. Bytes(list) = ByteSize(item) + Bytes(s.items)
    BY <1>1, BytesOfCons
  <1>5. total = Bytes(list) /\ total \in Nat
    BY <1>1, <1>2, <1>4 DEF ExactTotal
  <1> HIDE DEF list, total
  <1>6. t \in Session /\ t.items = list /\ t.byte_total = total
    BY <1>3, <1>5 DEF Session
  <1>7. PushFront(s, item) = EnforceLimits(t)
    BY DEF PushFront, list, total
  <1> HIDE DEF t
  <1> QED
    BY <1>5, <1>6, <1>7, EnforceLimitsExact DEF ExactTotal

\* A permutation has the same size.
LEMMA MoveToFrontExact ==
    ASSUME NEW s \in Session, NEW i \in DOMAIN s.items
    PROVE  /\ ExactTotal(s) => ExactTotal(MoveToFront(s, i))
           /\ InBudget(s) => InBudget(MoveToFront(s, i))
  <1> DEFINE moved == Cons(s.items[i], RemoveAt(s.items, i))
  <1>1. Bytes(moved) = Bytes(s.items)
    BY SessionFields, BytesOfMove
  <1>2. MoveToFront(s, i) = [s EXCEPT !.items = moved]
    BY DEF MoveToFront
  <1> HIDE DEF moved
  <1>3. /\ MoveToFront(s, i).items = moved
        /\ MoveToFront(s, i).byte_total = s.byte_total
        /\ MoveToFront(s, i).policies = s.policies
    BY <1>2 DEF Session
  <1> QED
    BY <1>1, <1>3 DEF ExactTotal, InBudget

\* A removal takes away the size of what it removes, which the total holds.
LEMMA RemoveItemExact ==
    ASSUME NEW s \in Session, NEW i \in DOMAIN s.items, ExactTotal(s)
    PROVE  /\ ExactTotal(RemoveItem(s, i))
           /\ InBudget(s) => InBudget(RemoveItem(s, i))
  <1> DEFINE left  == RemoveAt(s.items, i)
             size  == ByteSize(s.items[i])
             total == SaturatingSub(s.byte_total, size)
  <1>1. i \in 1 .. Len(s.items) /\ s.items \in Seq(Item) /\ s.byte_total \in Nat
    BY SessionFields
  <1>2. Bytes(s.items) = size + Bytes(left)
    BY <1>1, BytesOfRemoval
  <1>3. left \in Seq(Item)
    BY <1>1, RemoveAtProperties
  <1>4. Bytes(left) \in Nat
    BY <1>3, BytesInNat
  <1>5. size \in Nat
    <2>1. s.items[i] \in Item
      BY <1>1, ElementOfSeq
    <2> HIDE DEF left
    <2> QED
      BY <2>1, TextAssumption DEF ByteSize, Item
  <1>6. RemoveItem(s, i) = [s EXCEPT !.items = left, !.byte_total = total]
    BY DEF RemoveItem
  <1> HIDE DEF left, size
  <1>7. total = Bytes(left) /\ total <= s.byte_total /\ total \in Nat
    <2> DEFINE b == Bytes(left)
               before == s.byte_total
    <2>1. b \in Nat /\ size \in Nat /\ before = size + b
      BY <1>2, <1>4, <1>5 DEF ExactTotal
    <2>2. total = SaturatingSub(before, size)
      OBVIOUS
    <2> HIDE DEF b, before, total
    <2>3. before - size = b /\ b <= before
      BY <2>1
    <2>4. total = b
      BY <2>1, <2>2, <2>3 DEF SaturatingSub
    <2> QED
      BY <2>1, <2>3, <2>4 DEF b, before
  <1> HIDE DEF total
  <1>8. /\ RemoveItem(s, i).items = left
        /\ RemoveItem(s, i).byte_total = total
        /\ RemoveItem(s, i).policies = s.policies
    BY <1>6 DEF Session
  <1>9. s.policies.max_memory_usage_bytes \in Nat
    BY SessionFields DEF PolicyRecord
  <1>10. InBudget(s) => total <= s.policies.max_memory_usage_bytes
    <2> DEFINE budget == s.policies.max_memory_usage_bytes
               before == s.byte_total
    <2>1. budget \in Nat /\ before \in Nat /\ total <= before /\ total \in Nat
      BY <1>1, <1>7, <1>9
    <2>2. InBudget(s) => before <= budget
      BY DEF InBudget
    <2> HIDE DEF budget, before
    <2>3. before <= budget => total <= budget
      BY <2>1
    <2>4. InBudget(s) => total <= budget
      BY <2>2, <2>3
    <2> QED
      BY <2>4 DEF budget
  <1> QED
    BY <1>7, <1>8, <1>10 DEF ExactTotal, InBudget

\* A growing line exchanges the size of the old text for that of the new.
LEMMA GrowFirstExact ==
    ASSUME NEW s \in Session, s.items # <<>>, NEW text \in Text, ExactTotal(s)
    PROVE  ExactTotal(GrowFirst(s, text))
  <1> DEFINE list  == [s.items EXCEPT ![1].text = text]
             old   == ByteSize(s.items[1])
             total == SaturatingSub(s.byte_total, old) + ByteLen[text]
  <1>1. /\ s.items \in Seq(Item) /\ s.byte_total \in Nat
        /\ 1 \in 1 .. Len(s.items) /\ Len(s.items) >= 1
    BY SessionFields, EmptySeq
  <1>2. s.items[1] \in Item
    BY <1>1, ElementOfSeq
  <1>3. /\ list \in Seq(Item) /\ Len(list) = Len(s.items)
        /\ \A j \in 2 .. Len(s.items) : list[j] = s.items[j]
        /\ list[1] = [s.items[1] EXCEPT !.text = text]
    <2> DEFINE items == s.items
               first == [items[1] EXCEPT !.text = text]
    <2>1. items \in Seq(Item) /\ 1 \in 1 .. Len(items)
      BY <1>1
    <2>2. first \in Item
      BY <1>2 DEF Item
    <2>3. list = [items EXCEPT ![1] = first]
      OBVIOUS
    <2> HIDE DEF items, first, list
    <2>4. list \in Seq(Item) /\ Len(list) = Len(items)
      BY <2>1, <2>2, <2>3, ExceptSeq
    <2>5. list[1] = first /\ \A j \in 2 .. Len(items) : list[j] = items[j]
      BY <2>1, <2>3
    <2> QED
      BY <2>4, <2>5 DEF items, first
  <1>4. ByteSize(list[1]) = ByteLen[text]
    <2>1. list[1].text = text
      <3> HIDE DEF list
      <3> QED
        BY <1>2, <1>3 DEF Item
    <2> HIDE DEF list
    <2> QED
      BY <2>1 DEF ByteSize
  <1> HIDE DEF list
  <1>5. PICK rest \in Nat : /\ Bytes(s.items) = ByteSize(s.items[1]) + rest
                            /\ Bytes(list) = ByteSize(list[1]) + rest
    BY <1>1, <1>3, BytesOfNewFirst
  <1>6. old \in Nat /\ ByteLen[text] \in Nat
    BY <1>2, TextAssumption DEF ByteSize, Item
  <1>7. total = Bytes(list)
    <2> DEFINE before == s.byte_total
               new == ByteLen[text]
    <2>1. before = old + rest /\ old \in Nat /\ new \in Nat
      BY <1>5, <1>6 DEF ExactTotal
    <2>2. Bytes(list) = new + rest /\ total = SaturatingSub(before, old) + new
      BY <1>4, <1>5
    <2> HIDE DEF before, new, old, total
    <2>3. before - old = rest
      BY <2>1
    <2>4. SaturatingSub(before, old) = rest
      BY <2>3 DEF SaturatingSub
    <2> QED
      BY <2>1, <2>2, <2>4
  <1>8. GrowFirst(s, text) = [s EXCEPT !.items = list, !.byte_total = total]
    BY DEF GrowFirst, list
  <1> HIDE DEF total
  <1>9. GrowFirst(s, text).items = list /\ GrowFirst(s, text).byte_total = total
    BY <1>8 DEF Session
  <1> QED
    BY <1>7, <1>9 DEF ExactTotal

-----------------------------------------------------------------------------
(* What each operation keeps of a sound session.                           *)

\* A sound session left by an operation, within the budget if it was before.
KeepsSound(s, r) == r \in Session /\ Sound(r) /\ (InBudget(s) => InBudget(r))

\* Only the list, its total and the policies matter.
LEMMA SameListSound ==
    ASSUME NEW s \in Session, Sound(s), NEW r \in Session,
           r.items = s.items, r.byte_total = s.byte_total, r.policies = s.policies
    PROVE  KeepsSound(s, r)
  BY DEF KeepsSound, Sound, WithinLength, DistinctUuids, ExactTotal, InBudget

\* So the active index may change.
LEMMA IndexSound ==
    ASSUME NEW s \in Session, NEW r \in Session, KeepsSound(s, r), NEW active \in Nat
    PROVE  KeepsSound(s, [r EXCEPT !.active_index = active])
  <1> DEFINE t == [r EXCEPT !.active_index = active]
  <1>1. /\ t \in Session /\ t.items = r.items /\ t.byte_total = r.byte_total
        /\ t.policies = r.policies
    BY DEF Session
  <1> HIDE DEF t
  <1> QED
    BY <1>1 DEF KeepsSound, Sound, WithinLength, DistinctUuids, ExactTotal, InBudget, t

LEMMA IndexOperationsSound ==
    ASSUME NEW s \in Session, Sound(s)
    PROVE  /\ \A index \in Nat : KeepsSound(s, SetActiveIndex(s, index))
           /\ \A offset : KeepsSound(s, SelectAtOffset(s, offset))
  <1>1. KeepsSound(s, s)
    BY DEF KeepsSound
  <1>2. ASSUME NEW index \in Nat
        PROVE  KeepsSound(s, SetActiveIndex(s, index))
    BY <1>1, IndexSound DEF SetActiveIndex
  <1>3. ASSUME NEW offset
        PROVE  KeepsSound(s, SelectAtOffset(s, offset))
    <2>1. CASE OffsetRefused(s, offset)
      BY <1>1, <2>1 DEF SelectAtOffset
    <2>2. CASE ~OffsetRefused(s, offset)
      <3> DEFINE target == OffsetTarget(s, offset)
      <3>1. target \in Nat
        <4>1. target \in Positions(s)
          BY <2>2 DEF OffsetRefused
        <4> HIDE DEF target
        <4> QED
          BY <4>1, SessionFields DEF Positions
      <3>2. SelectAtOffset(s, offset) = [s EXCEPT !.active_index = target]
        BY <2>2 DEF SelectAtOffset
      <3> HIDE DEF target
      <3> QED
        BY <1>1, <3>1, <3>2, IndexSound
    <2> QED
      BY <2>1, <2>2
  <1> QED
    BY <1>2, <1>3

\* A move to the front.
LEMMA MoveSound ==
    ASSUME NEW s \in Session, Sound(s), NEW i \in DOMAIN s.items
    PROVE  KeepsSound(s, ResetActive(MoveToFront(s, i)))
  <1> DEFINE m == MoveToFront(s, i)
  <1>1. /\ m \in Session /\ Len(m.items) = Len(s.items) /\ m.policies = s.policies
        /\ DistinctUuids(s) => DistinctUuids(m)
        /\ ExactTotal(s) => ExactTotal(m)
        /\ InBudget(s) => InBudget(m)
    BY MoveToFrontProperties, MoveToFrontKeepsDistinct, MoveToFrontExact
  <1> HIDE DEF m
  <1>2. KeepsSound(s, m)
    BY <1>1 DEF KeepsSound, Sound, WithinLength
  <1> QED
    BY <1>1, <1>2, IndexSound DEF ResetActive, m

\* A removal, and whatever index it leaves.
LEMMA RemovalSound ==
    ASSUME NEW s \in Session, Sound(s), NEW i \in DOMAIN s.items, NEW active \in Nat
    PROVE  KeepsSound(s, [RemoveItem(s, i) EXCEPT !.active_index = active])
  <1> DEFINE r == RemoveItem(s, i)
  <1>1. ExactTotal(s)
    BY DEF Sound
  <1>2. /\ r \in Session /\ Len(r.items) = Len(s.items) - 1 /\ r.policies = s.policies
        /\ DistinctUuids(s) => DistinctUuids(r)
        /\ ExactTotal(r)
        /\ InBudget(s) => InBudget(r)
    BY <1>1, RemoveItemProperties, RemoveItemKeepsDistinct, RemoveItemExact
  <1>3. s.policies.max_history_size \in Nat /\ Len(s.items) \in Nat
    BY SessionFields DEF PolicyRecord
  <1> HIDE DEF r
  <1>4. KeepsSound(s, r)
    BY <1>2, <1>3 DEF KeepsSound, Sound, WithinLength
  <1> QED
    BY <1>2, <1>4, IndexSound DEF r

LEMMA ItemOperationsSound ==
    ASSUME NEW s \in Session, Sound(s)
    PROVE  /\ \A uuid : Found(s, uuid) => KeepsSound(s, SessionSelect(s, uuid))
           /\ \A uuid : Found(s, uuid) => KeepsSound(s, SessionDelete(s, uuid))
           /\ s.items # <<>> => KeepsSound(s, SessionPop(s))
  <1>1. ASSUME NEW uuid, Found(s, uuid)
        PROVE  KeepsSound(s, SessionSelect(s, uuid))
    BY <1>1, FirstPositions, MoveSound DEF SessionSelect
  <1>2. ASSUME NEW uuid, Found(s, uuid)
        PROVE  KeepsSound(s, SessionDelete(s, uuid))
    <2> DEFINE i == FirstWith(s, uuid)
               n == Len(s.items) - 1
               active == OnDelete(s.active_index, i - 1, n)
    <2>1. i \in DOMAIN s.items
      BY <1>2, FirstPositions
    <2>2. active \in Nat
      <3>1. /\ s.active_index \in Nat /\ n \in Nat /\ i - 1 \in Nat
            /\ DOMAIN s.items = 1 .. Len(s.items)
        BY <2>1, SessionFields
      <3> HIDE DEF i, n
      <3> QED
        BY <3>1 DEF OnDelete
    <2>3. SessionDelete(s, uuid) = [RemoveItem(s, i) EXCEPT !.active_index = active]
      BY DEF SessionDelete
    <2> HIDE DEF i, n, active
    <2> QED
      BY <2>1, <2>2, <2>3, RemovalSound
  <1>3. ASSUME s.items # <<>>
        PROVE  KeepsSound(s, SessionPop(s))
    <2>1. 1 \in DOMAIN s.items
      BY <1>3, SessionFields
    <2> QED
      BY <2>1, RemovalSound DEF SessionPop, ResetActive
  <1> QED
    BY <1>1, <1>2, <1>3

LEMMA EmptySound ==
    ASSUME NEW s \in Session
    PROVE  KeepsSound(s, SessionEmpty(s))
  <1> DEFINE t == [s EXCEPT !.items = <<>>, !.byte_total = 0]
             none == << >>
  <1>1. none \in Seq(Item) /\ Len(none) = 0 /\ DOMAIN none = {}
    OBVIOUS
  <1>2. Bytes(none) = 0
    <2> HIDE DEF none
    <2> QED
      BY <1>1, BytesOfNone
  <1>3. /\ t \in Session /\ t.items = none /\ t.byte_total = 0
        /\ t.policies = s.policies
    BY <1>1 DEF Session
  <1>4. s.policies.max_history_size \in Nat /\ s.policies.max_memory_usage_bytes \in Nat
    BY SessionFields DEF PolicyRecord
  <1>5. SessionEmpty(s) = ResetActive(t)
    BY DEF SessionEmpty
  <1> HIDE DEF t, none
  <1>6. KeepsSound(s, t)
    BY <1>1, <1>2, <1>3, <1>4
    DEF KeepsSound, Sound, WithinLength, DistinctUuids, ExactTotal, InBudget
  <1> QED
    BY <1>3, <1>5, <1>6, IndexSound DEF ResetActive

\* New settings: the list is cut to the new limits, whichever they are.
LEMMA ApplySettingsSound ==
    ASSUME NEW s \in Session, Sound(s), NEW policies \in Policies, NEW wrap \in BOOLEAN
    PROVE  /\ KeepsSound(s, ApplySettings(s, policies, wrap))
           /\ InBudget(ApplySettings(s, policies, wrap))
  <1> DEFINE t == [s EXCEPT !.policies = policies]
             e == EnforceLimits(t)
  <1>1. t \in Session /\ t.items = s.items /\ t.byte_total = s.byte_total
    BY DEF Session
  <1>2. ApplySettings(s, policies, wrap) = [e EXCEPT !.navigation_wrap = wrap]
    BY DEF ApplySettings, SetPolicies
  <1> HIDE DEF t
  <1>3. ExactTotal(t) /\ DistinctUuids(t)
    BY <1>1 DEF Sound, ExactTotal, DistinctUuids
  <1>4. /\ e \in Session
        /\ Len(e.items) <= Len(t.items)
        /\ WithinLength(e)
        /\ \A i \in DOMAIN e.items : e.items[i] = t.items[i]
        /\ ExactTotal(e) /\ InBudget(e)
    BY <1>1, <1>3, EnforceLimitsProperties, EnforceLimitsExact DEF WithinLength
  <1> HIDE DEF e
  <1>5. DOMAIN e.items \subseteq DOMAIN t.items
    BY <1>1, <1>4, SessionFields
  <1>6. DistinctUuids(e)
    BY <1>3, <1>4, <1>5 DEF DistinctUuids
  <1> DEFINE r == [e EXCEPT !.navigation_wrap = wrap]
  <1>7. /\ r \in Session /\ r.items = e.items /\ r.byte_total = e.byte_total
        /\ r.policies = e.policies
    BY <1>4 DEF Session
  <1> HIDE DEF r
  <1>8. Sound(r) /\ InBudget(r)
    BY <1>4, <1>6, <1>7 DEF Sound, WithinLength, DistinctUuids, ExactTotal, InBudget
  <1> QED
    BY <1>2, <1>7, <1>8 DEF KeepsSound, r

\* Ingest: only a growing line may leave the budget.
LEMMA IngestSound ==
    ASSUME NEW s \in Session, Sound(s), NEW text \in Text,
           NEW uuid \in Uuid \ UuidsOf(s.items)
    PROVE  LET r == SessionIngest(s, text, uuid)
           IN  /\ r \in Session /\ Sound(r)
               /\ IngestOutcome(s, text) # "ReplacedGrowingLine" => KeepsSound(s, r)
  <1> DEFINE prepared == PrepareText(s.policies, text)
             r == SessionIngest(s, text, uuid)
             changed == IngestText(s, text, uuid)
  <1>1. prepared \in Text
    BY TextAssumption DEF PrepareText
  <1>2. /\ r \in Session /\ WithinLength(r) /\ DistinctUuids(r)
    <2> HIDE DEF r
    <2> QED
      BY SessionIngestProperties DEF Sound, r
  <1>3. ExactTotal(s)
    BY DEF Sound
  <1>4. CASE IngestOutcome(s, text) = "RejectedTextSize"
    BY <1>4 DEF SessionIngest, KeepsSound
  <1>5. CASE IngestOutcome(s, text) = "ReplacedGrowingLine"
    <2> DEFINE g == GrowFirst(s, prepared)
    <2>1. s.items # <<>>
      BY <1>5 DEF IngestOutcome, Grows
    <2>2. r = ResetActive(g)
      BY <1>5 DEF SessionIngest, IngestText
    <2>3. g \in Session /\ ExactTotal(g)
      BY <1>1, <1>3, <2>1, GrowFirstProperties, GrowFirstExact
    <2> HIDE DEF g, r
    <2>4. ExactTotal(r)
      BY <2>2, <2>3 DEF ExactTotal, ResetActive, Session
    <2> QED
      BY <1>2, <1>5, <2>4 DEF Sound, r
  <1>6. CASE IngestOutcome(s, text) = "MovedExisting"
    <2> DEFINE i == FirstHolding(s, prepared)
    <2>1. i \in DOMAIN s.items
      BY <1>6, FirstPositions DEF IngestOutcome
    <2>2. r = ResetActive(MoveToFront(s, i))
      BY <1>6 DEF SessionIngest, IngestText
    <2> HIDE DEF i, r
    <2>3. KeepsSound(s, r)
      BY <2>1, <2>2, MoveSound
    <2> QED
      BY <2>3 DEF r, KeepsSound
  <1>7. CASE IngestOutcome(s, text) = "Added"
    <2> DEFINE item == [uuid |-> uuid, text |-> prepared]
               p == PushFront(s, item)
    <2>1. item \in Item
      BY <1>1 DEF Item
    <2>2. r = ResetActive(p)
      BY <1>7 DEF SessionIngest, IngestText
    <2> HIDE DEF item
    <2>3. p \in Session /\ ExactTotal(p) /\ InBudget(p)
      BY <1>3, <2>1, PushFrontProperties, PushFrontExact
    <2> HIDE DEF p, r
    <2>4. ExactTotal(r) /\ InBudget(r)
      BY <2>2, <2>3 DEF ExactTotal, InBudget, ResetActive, Session
    <2> QED
      BY <1>2, <2>4 DEF Sound, KeepsSound, r
  <1> QED
    BY <1>4, <1>5, <1>6, <1>7 DEF IngestOutcome

\* A session begins empty.
LEMMA NewSessionSound ==
    ASSUME NEW policies \in Policies, NEW wrap \in BOOLEAN
    PROVE  /\ NewSession(policies, wrap) \in Session
           /\ Sound(NewSession(policies, wrap)) /\ InBudget(NewSession(policies, wrap))
  <1> DEFINE t == NewSession(policies, wrap)
             none == << >>
  <1>1. none \in Seq(Item) /\ Len(none) = 0 /\ DOMAIN none = {}
    OBVIOUS
  <1>2. Bytes(none) = 0
    <2> HIDE DEF none
    <2> QED
      BY <1>1, BytesOfNone
  <1>3. /\ t \in Session /\ t.items = none /\ t.byte_total = 0
        /\ t.policies = policies
    BY <1>1 DEF Session, NewSession
  <1>4. policies.max_history_size \in Nat /\ policies.max_memory_usage_bytes \in Nat
    BY PoliciesAssumption DEF PolicyRecord
  <1> HIDE DEF t, none
  <1>5. Sound(t) /\ InBudget(t)
    BY <1>1, <1>2, <1>3, <1>4
    DEF Sound, WithinLength, DistinctUuids, ExactTotal, InBudget
  <1> QED
    BY <1>3, <1>5 DEF t
=============================================================================
