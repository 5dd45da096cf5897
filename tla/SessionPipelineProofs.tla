----------------------- MODULE SessionPipelineProofs -----------------------
(* Proofs about SessionPipeline: each chunk is where it should be, in its    *)
(* order, and counted, and a session that stops has answered what it took.   *)
EXTENDS SessionPipeline, FiniteSetTheorems, WellFoundedInduction, TLAPS

(* Induction over the natural numbers, for a set of them.                   *)
LEMMA InductionOnSet ==
  ASSUME NEW P \in SUBSET Nat, 0 \in P, \A n \in P : n + 1 \in P
  PROVE  P = Nat
<1> SUFFICES ASSUME P # Nat PROVE FALSE
  OBVIOUS
<1> DEFINE T == Nat \ P
<1>1. PICK x \in T : \A y \in T : ~ (<<y, x>> \in OpToRel(<, Nat))
  <2>1. T # {}
    OBVIOUS
  <2> QED
    BY <2>1, NatLessThanWellFounded, WFMin
<1>2. x # 0 /\ x \in Nat
  OBVIOUS
<1>3. x - 1 \in Nat
  BY <1>2
<1>4. <<x - 1, x>> \in OpToRel(<, Nat)
  BY <1>2, <1>3 DEF OpToRel
<1>5. x - 1 \in P
  BY <1>1, <1>3, <1>4
<1>6. x \in P
  BY <1>5, <1>2, (x - 1) + 1 = x
<1> QED
  BY <1>6

Listings(S) ==
  {f \in [1..Cardinality(S) -> S] : \A i, j \in 1..Cardinality(S) : i < j => f[i] < f[j]}

(* Every set of positions has a listing from first to last.                 *)
LEMMA ListingExists ==
  ASSUME NEW n \in Nat, NEW S \in SUBSET (1..n)
  PROVE  Listings(S) # {}
<1> DEFINE P == {k \in Nat : \A T \in SUBSET (1..k) : Listings(T) # {}}
<1>1. 0 \in P
  <2> SUFFICES ASSUME NEW T \in SUBSET (1..0) PROVE Listings(T) # {}
    OBVIOUS
  <2>2. 1..0 = {}
    OBVIOUS
  <2>1. T = {} /\ Cardinality(T) = 0
    <3>1. T = {}
      BY <2>2
    <3> QED
      BY <3>1, FS_EmptySet
  <2>3. [i \in 1..0 |-> i] \in [1..0 -> T]
    BY <2>2
  <2> DEFINE e == [i \in 1..0 |-> i]
  <2> HIDE DEF e
  <2>4. e \in [1..Cardinality(T) -> T]
    BY <2>1, <2>3 DEF e
  <2>5. \A i, j \in 1..Cardinality(T) : i < j => e[i] < e[j]
    BY <2>1
  <2> QED
    BY <2>4, <2>5 DEF Listings
<1>2. ASSUME NEW k \in P PROVE k + 1 \in P
  <2> SUFFICES ASSUME NEW T \in SUBSET (1..(k + 1)) PROVE Listings(T) # {}
    OBVIOUS
  <2>1. CASE k + 1 \notin T
    <3>1. T \in SUBSET (1..k)
      BY <2>1
    <3> QED
      BY <3>1
  <2>2. CASE k + 1 \in T
    <3> DEFINE U == T \ {k + 1}
               c == Cardinality(U)
    <3>1. U \in SUBSET (1..k)
      OBVIOUS
    <3>2. PICK f : f \in Listings(U)
      BY <3>1
    <3>3. IsFiniteSet(U) /\ c \in Nat /\ Cardinality(T) = c + 1
      <4>1. IsFiniteSet(1..k)
        BY FS_Interval
      <4>2. IsFiniteSet(U) /\ c \in Nat
        BY <3>1, <4>1, FS_Subset, FS_CardinalityType
      <4>3. T = U \union {k + 1} /\ k + 1 \notin U
        BY <2>2
      <4>4. Cardinality(U \union {k + 1}) = c + 1
        BY <4>2, <4>3, FS_AddElement
      <4> QED
        BY <4>2, <4>3, <4>4
    <3> DEFINE g == [i \in 1..(c + 1) |-> IF i = c + 1 THEN k + 1 ELSE f[i]]
    <3> HIDE DEF c
    <3>4. ASSUME NEW i \in 1..(c + 1) PROVE g[i] \in T /\ (i # c + 1 => g[i] = f[i] /\ f[i] \in 1..k)
      <4>0. f \in [1..c -> U]
        BY <3>2 DEF Listings, c
      <4>1. CASE i = c + 1
        BY <2>2, <4>1
      <4>2. CASE i # c + 1
        <5>1. i \in 1..c /\ g[i] = f[i]
          BY <4>2, <3>3
        <5>2. f[i] \in U
          BY <4>0, <5>1
        <5> QED
          BY <3>1, <5>1, <5>2
      <4> QED
        BY <4>1, <4>2
    <3>5. ASSUME NEW i \in 1..(c + 1), NEW j \in 1..(c + 1), i < j PROVE g[i] < g[j]
      <4>1. i # c + 1 /\ i \in 1..c /\ g[i] = f[i] /\ f[i] \in 1..k
        BY <3>3, <3>4, <3>5
      <4>2. CASE j = c + 1
        <5>1. g[j] = k + 1
          BY <4>2, <3>3
        <5> QED
          BY <4>1, <5>1
      <4>3. CASE j # c + 1
        <5>1. j \in 1..c /\ g[j] = f[j]
          BY <4>3, <3>3
        <5> QED
          BY <3>2, <3>5, <4>1, <5>1 DEF Listings, c
      <4> QED
        BY <4>2, <4>3
    <3>6. g \in Listings(T)
      <4>1. g \in [1..(c + 1) -> T]
        BY <3>4
      <4> QED
        BY <3>3, <3>5, <4>1 DEF Listings
    <3> QED
      BY <3>6
  <2> QED
    BY <2>1, <2>2
<1>3. P = Nat
  <2> HIDE DEF P
  <2>1. P \in SUBSET Nat
    BY DEF P
  <2> QED
    BY <1>1, <1>2, <2>1, InductionOnSet
<1>4. n \in P
  BY <1>3
<1> HIDE DEF P
<1>5. \A T \in SUBSET (1..n) : Listings(T) # {}
  BY <1>4 DEF P
<1> QED
  BY <1>5

Kept(queue, s) == {k \in 1..Len(queue) : queue[k][1] # s}
Removed(queue, s) == {k \in 1..Len(queue) : queue[k][1] = s}

(* A listing goes from first to last and leaves no position out.            *)
LEMMA ListingOnto ==
  ASSUME NEW n \in Nat, NEW S \in SUBSET (1..n)
  PROVE  /\ IsFiniteSet(S) /\ Cardinality(S) \in Nat /\ Cardinality(S) <= n
         /\ Listing(S) \in Listings(S)
         /\ \A k \in S : \E i \in 1..Cardinality(S) : Listing(S)[i] = k
<1> DEFINE c == Cardinality(S)
           f == Listing(S)
<1>1. IsFiniteSet(S) /\ c \in Nat /\ c <= n
  <2>1. IsFiniteSet(1..n) /\ Cardinality(1..n) = n
    BY FS_Interval
  <2> QED
    BY <2>1, FS_Subset, FS_CardinalityType
<1>2. f \in Listings(S)
  BY ListingExists DEF Listing, Listings
<1>3. f \in [1..c -> S] /\ \A i, j \in 1..c : i < j => f[i] < f[j]
  BY <1>2 DEF Listings
<1>4. f \in Injection(1..c, S)
  <2> HIDE DEF c, f
  <2>1. \A i, j \in 1..c : f[i] = f[j] => i = j
    <3> SUFFICES ASSUME NEW i \in 1..c, NEW j \in 1..c, f[i] = f[j] PROVE i = j
      OBVIOUS
    <3>1. f[i] \in S /\ f[j] \in S
      BY <1>3
    <3>2. f[i] \in 1..n
      BY <3>1
    <3>3. ~(i < j) /\ ~(j < i)
      BY <1>3, <3>2
    <3> QED
      BY <1>1, <3>3
  <2> QED
    BY <1>3, <2>1 DEF Injection, IsInjective
<1>5. Cardinality(1..c) = c
  BY <1>1, FS_Interval
<1>6. f \in Surjection(1..c, S)
  BY <1>1, <1>4, <1>5, FS_Injection
<1>7. \A k \in S : \E i \in 1..c : f[i] = k
  BY <1>6 DEF Surjection
<1> QED
  BY <1>1, <1>2, <1>7

(* How many positions are left when some are taken out.                     *)
LEMMA PositionsLeft ==
  ASSUME NEW n \in Nat, NEW R \in SUBSET (1..n)
  PROVE  /\ IsFiniteSet(R) /\ Cardinality(R) \in Nat
         /\ Cardinality((1..n) \ R) = n - Cardinality(R)
<1>1. IsFiniteSet(1..n) /\ Cardinality(1..n) = n
  BY FS_Interval
<1>2. (1..n) \intersect R = R
  OBVIOUS
<1>3. IsFiniteSet(R) /\ Cardinality(R) \in Nat
  BY <1>1, FS_Subset, FS_CardinalityType
<1> DEFINE U == 1..n
<1>4. IsFiniteSet(U) /\ Cardinality(U) = n /\ U \intersect R = R
  BY <1>1, <1>2
<1> HIDE DEF U
<1>5. Cardinality(U \ R) = Cardinality(U) - Cardinality(U \intersect R)
  BY <1>4, FS_Difference
<1>6. Cardinality(U \ R) = n - Cardinality(R)
  BY <1>4, <1>5
<1> QED
  BY <1>3, <1>6 DEF U

\* f leads from the places of what is left of a queue to where it was before.
Selects(queue, s, m, f) ==
  /\ Len(Others(queue, s)) = m /\ m = Len(queue) - Cardinality(Removed(queue, s))
  /\ \A i, j \in 1..m : i < j => f[i] < f[j]
  /\ \A i \in 1..m : Others(queue, s)[i] = queue[f[i]] /\ queue[f[i]][1] # s
  /\ \A k \in 1..Len(queue) : queue[k][1] # s => \E i \in 1..m : f[i] = k

(* What Others keeps, and where: a strictly increasing map of positions.    *)
LEMMA OthersMap ==
  ASSUME NEW T, NEW queue \in Seq(T), NEW s
  PROVE  /\ Others(queue, s) \in Seq(T)
         /\ \E m \in Nat : \E f \in [1..m -> 1..Len(queue)] : Selects(queue, s, m, f)
<1> DEFINE n == Len(queue)
           K == Kept(queue, s)
           m == Cardinality(K)
           f == Listing(K)
<1>1. n \in Nat /\ K \in SUBSET (1..n)
  BY DEF Kept
<1>2. /\ IsFiniteSet(K) /\ m \in Nat /\ f \in Listings(K)
      /\ \A k \in K : \E i \in 1..m : f[i] = k
  BY <1>1, ListingOnto
<1>3. f \in [1..m -> K] /\ \A i, j \in 1..m : i < j => f[i] < f[j]
  BY <1>2 DEF Listings
<1>4. f \in [1..m -> 1..n]
  <2> HIDE DEF f, K, m
  <2> QED
    BY <1>1, <1>3
<1>5. Others(queue, s) = [i \in 1..m |-> queue[f[i]]]
  BY DEF Others, Kept
<1>6. m = n - Cardinality(Removed(queue, s))
  <2>1. K = (1..n) \ Removed(queue, s) /\ Removed(queue, s) \in SUBSET (1..n)
    BY DEF Kept, Removed
  <2> QED
    BY <1>1, <2>1, PositionsLeft
<1> HIDE DEF f, m
<1>7. \A i \in 1..m : queue[f[i]] \in T /\ queue[f[i]][1] # s
  <2> SUFFICES ASSUME NEW i \in 1..m PROVE queue[f[i]] \in T /\ queue[f[i]][1] # s
    OBVIOUS
  <2>1. f[i] \in K /\ f[i] \in 1..n
    BY <1>3, <1>4
  <2> QED
    BY <2>1 DEF Kept
<1>8. Others(queue, s) \in Seq(T) /\ Len(Others(queue, s)) = m
  BY <1>2, <1>5, <1>7
<1>9. \A i \in 1..m : Others(queue, s)[i] = queue[f[i]]
  BY <1>5
<1>10. \A k \in 1..n : queue[k][1] # s => \E i \in 1..m : f[i] = k
  BY <1>2 DEF Kept
<1>11. Selects(queue, s, m, f)
  BY <1>3, <1>6, <1>7, <1>8, <1>9, <1>10 DEF Selects
<1> QED
  BY <1>2, <1>4, <1>8, <1>11

(* Numbers are natural; those of a session are among them; End is none.     *)
LEMMA NumbersAreNat ==
  /\ Numbers \subseteq Nat /\ End \notin Numbers
  /\ \A s \in Sessions, n \in Nat : n <= MaxSequence[s] => n \in Numbers
<1>1. Numbers \subseteq Nat
  BY SessionPipelineAssumption DEF Numbers
<1>2. End \notin Numbers
  BY <1>1 DEF End
<1>3. \A s \in Sessions, n \in Nat : n <= MaxSequence[s] => n \in Numbers
  <2> SUFFICES ASSUME NEW s \in Sessions, NEW n \in Nat, n <= MaxSequence[s]
               PROVE  n \in Numbers
    OBVIOUS
  <2>1. n \in 0..MaxSequence[s]
    BY SessionPipelineAssumption
  <2> QED
    BY <2>1 DEF Numbers
<1> QED
  BY <1>1, <1>2, <1>3

(* A chunk is in a queue when some place of the queue holds it.             *)
LEMMA ChunksAt ==
  ASSUME NEW queue \in Seq(Item), NEW s
  PROVE  \A n : n \in Chunks(queue, s) <=>
           n \in Numbers /\ \E i \in 1..Len(queue) : queue[i] = <<s, n>>
<1>1. DOMAIN queue = 1..Len(queue)
  OBVIOUS
<1>2. \A n : <<s, n>> \in Range(queue) <=> \E i \in 1..Len(queue) : queue[i] = <<s, n>>
  BY <1>1 DEF Range
<1> QED
  BY <1>2 DEF Chunks

(* Appending an item adds its chunk.                                        *)
LEMMA ChunksAppend ==
  ASSUME NEW queue \in Seq(Item), NEW x \in Item, NEW s
  PROVE  /\ Append(queue, x) \in Seq(Item)
         /\ Chunks(Append(queue, x), s) = Chunks(queue, s) \union {n \in Numbers : x = <<s, n>>}
<1> DEFINE q == Append(queue, x)
<1>1. /\ q \in Seq(Item) /\ Len(q) = Len(queue) + 1 /\ Len(queue) \in Nat
      /\ q[Len(queue) + 1] = x /\ \A i \in 1..Len(queue) : q[i] = queue[i]
  OBVIOUS
<1> HIDE DEF q
<1>2. ASSUME NEW n PROVE n \in Chunks(q, s) <=> (n \in Chunks(queue, s) \/ (n \in Numbers /\ x = <<s, n>>))
  <2>1. n \in Chunks(q, s) <=> (n \in Numbers /\ \E i \in 1..Len(q) : q[i] = <<s, n>>)
    BY <1>1, ChunksAt
  <2>2. n \in Chunks(queue, s) <=> (n \in Numbers /\ \E i \in 1..Len(queue) : queue[i] = <<s, n>>)
    BY ChunksAt
  <2>3. 1..Len(q) = (1..Len(queue)) \union {Len(queue) + 1}
    BY <1>1
  <2> QED
    BY <1>1, <2>1, <2>2, <2>3
<1> QED
  BY <1>1, <1>2 DEF q

(* Taking the head removes its chunk, which is nowhere behind it.           *)
LEMMA ChunksTail ==
  ASSUME NEW queue \in Seq(Item), queue # <<>>, NEW s
  PROVE  /\ Head(queue) \in Item /\ Tail(queue) \in Seq(Item)
         /\ Len(Tail(queue)) = Len(queue) - 1
        
         /\ Chunks(queue, s) = Chunks(Tail(queue), s) \union {n \in Numbers : Head(queue) = <<s, n>>}
<1> DEFINE q == Tail(queue)
<1>1. /\ q \in Seq(Item) /\ Len(q) = Len(queue) - 1 /\ Len(queue) \in Nat /\ Len(queue) > 0
      /\ queue[1] = Head(queue) /\ \A i \in 1..Len(q) : q[i] = queue[i + 1]
  OBVIOUS
<1>2. Head(queue) \in Item
  BY <1>1
<1> HIDE DEF q
<1>3. ASSUME NEW n
      PROVE  n \in Chunks(queue, s) <=> (n \in Chunks(q, s) \/ (n \in Numbers /\ Head(queue) = <<s, n>>))
  <2>1. n \in Chunks(q, s) <=> (n \in Numbers /\ \E i \in 1..Len(q) : q[i] = <<s, n>>)
    BY <1>1, ChunksAt
  <2>2. n \in Chunks(queue, s) <=> (n \in Numbers /\ \E i \in 1..Len(queue) : queue[i] = <<s, n>>)
    BY ChunksAt
  <2>3. ASSUME NEW i \in 1..Len(q) PROVE i + 1 \in 1..Len(queue) /\ q[i] = queue[i + 1]
    BY <1>1
  <2>4. ASSUME NEW i \in 1..Len(queue), i # 1
        PROVE  i - 1 \in 1..Len(q) /\ q[i - 1] = queue[i]
    <3>1. i - 1 \in 1..Len(q) /\ (i - 1) + 1 = i
      BY <1>1, <2>4
    <3> QED
      BY <1>1, <3>1
  <2>5. (\E i \in 1..Len(queue) : queue[i] = <<s, n>>)
          <=> (Head(queue) = <<s, n>> \/ \E i \in 1..Len(q) : q[i] = <<s, n>>)
    <3>1. 1 \in 1..Len(queue)
      BY <1>1
    <3> QED
      BY <1>1, <2>3, <2>4, <3>1
  <2> QED
    BY <2>1, <2>2, <2>5
<1> QED
  BY <1>1, <1>2, <1>3 DEF q

(* A queue in order stays so when its head is taken, and the head was first. *)
LEMMA OrderTail ==
  ASSUME NEW queue \in Seq(Item), queue # <<>>, NEW s, QueueInOrder(queue, s)
  PROVE  /\ QueueInOrder(Tail(queue), s)
         /\ \A n \in Numbers, m \in Chunks(Tail(queue), s) : Head(queue) = <<s, n>> => n < m
<1> DEFINE q == Tail(queue)
<1>1. /\ q \in Seq(Item) /\ Len(q) = Len(queue) - 1 /\ Len(queue) \in Nat /\ Len(queue) > 0
      /\ queue[1] = Head(queue) /\ \A i \in 1..Len(q) : q[i] = queue[i + 1]
  OBVIOUS
<1> HIDE DEF q
<1>2. \A i \in 1..Len(q) : i + 1 \in 1..Len(queue) /\ i + 1 > 1
  BY <1>1
<1>3. QueueInOrder(q, s)
  BY <1>1, <1>2 DEF QueueInOrder
<1>4. ASSUME NEW n \in Numbers, NEW m \in Chunks(q, s), Head(queue) = <<s, n>> PROVE n < m
  <2>1. PICK i \in 1..Len(q) : q[i] = <<s, m>>
    BY <1>1, ChunksAt
  <2>2. m \in Numbers /\ m # End
    BY <1>1, ChunksAt, NumbersAreNat
  <2>3. queue[i + 1] = <<s, m>> /\ queue[1] = <<s, n>> /\ 1 < i + 1 /\ i + 1 \in 1..Len(queue) /\ 1 \in 1..Len(queue)
    BY <1>1, <1>2, <1>4, <2>1
  <2> QED
    BY <2>2, <2>3 DEF QueueInOrder
<1> QED
  BY <1>3, <1>4 DEF q

(* It stays so when a later chunk is appended, or an end.                   *)
LEMMA OrderAppend ==
  ASSUME NEW queue \in Seq(Item), NEW x \in Item, NEW s, QueueInOrder(queue, s),
         x[1] = s /\ x[2] # End => \A n \in Chunks(queue, s) : n < x[2]
  PROVE  QueueInOrder(Append(queue, x), s)
<1> DEFINE q == Append(queue, x)
<1>1. /\ Len(q) = Len(queue) + 1 /\ Len(queue) \in Nat
      /\ q[Len(queue) + 1] = x /\ \A i \in 1..Len(queue) : q[i] = queue[i]
  OBVIOUS
<1> HIDE DEF q
<1>2. SUFFICES ASSUME NEW i \in 1..Len(q), NEW j \in 1..Len(q),
                      i < j, q[i][1] = s, q[j][1] = s, q[j][2] # End
               PROVE  q[i][2] < q[j][2]
  BY DEF QueueInOrder, q
<1>3. i \in 1..Len(queue) /\ q[i] = queue[i]
  BY <1>1, <1>2
<1>4. CASE j \in 1..Len(queue)
  BY <1>1, <1>2, <1>3, <1>4 DEF QueueInOrder
<1>5. CASE j = Len(queue) + 1
  <2>1. q[j] = x /\ x[1] = s /\ x[2] # End
    BY <1>1, <1>2, <1>5
  <2>2. queue[i] \in Item /\ x[2] \in Numbers
    BY <1>3, <2>1 DEF Item
  <2>3. queue[i] = <<s, queue[i][2]>> /\ queue[i][2] \in Numbers \union {End}
    BY <1>2, <1>3, <2>2 DEF Item
  <2>4. CASE queue[i][2] = End
    <3>1. x[2] \in Nat
      BY <2>2, NumbersAreNat
    <3>2. q[i][2] = -1 /\ q[j][2] = x[2]
      BY <1>3, <2>1, <2>4 DEF End
    <3> QED
      BY <3>1, <3>2
  <2>5. CASE queue[i][2] # End
    <3>1. queue[i][2] \in Chunks(queue, s)
      BY <1>3, <2>3, <2>5, ChunksAt
    <3> QED
      BY <1>3, <2>1, <3>1
  <2> QED
    BY <2>4, <2>5
<1> QED
  BY <1>1, <1>4, <1>5

Gone(queue, s) == \A i \in 1..Len(queue) : queue[i][1] # s

\* The end of a session is behind all its other items.
EndLast(queue, s) ==
  \A i, j \in 1..Len(queue) : queue[i] = <<s, End>> /\ i < j => queue[j][1] # s

HasEnd(queue, s) == \E i \in 1..Len(queue) : queue[i] = <<s, End>>

(* A purge takes the chunks of one session and leaves those of the others,  *)
(* all of them and in their order.                                          *)
LEMMA OthersKeep ==
  ASSUME NEW queue \in Seq(Item), NEW s, NEW t
  PROVE  /\ Others(queue, s) \in Seq(Item) /\ Len(Others(queue, s)) <= Len(queue)
         /\ Chunks(Others(queue, s), s) = {}
         /\ t # s => Chunks(Others(queue, s), t) = Chunks(queue, t)
         /\ QueueInOrder(queue, t) => QueueInOrder(Others(queue, s), t)
         /\ Gone(Others(queue, s), s)
         /\ Gone(queue, t) => Gone(Others(queue, s), t)
         /\ EndLast(queue, t) => EndLast(Others(queue, s), t)
         /\ HasEnd(Others(queue, s), t) => HasEnd(queue, t)
<1> DEFINE q == Others(queue, s)
<1>0. PICK m \in Nat : \E f \in [1..m -> 1..Len(queue)] : Selects(queue, s, m, f)
  BY OthersMap
<1>00. PICK f \in [1..m -> 1..Len(queue)] : Selects(queue, s, m, f)
  BY <1>0
<1>1. /\ q \in Seq(Item) /\ Len(q) = m
      /\ m = Len(queue) - Cardinality(Removed(queue, s))
      /\ \A i, j \in 1..m : i < j => f[i] < f[j]
      /\ \A i \in 1..m : q[i] = queue[f[i]] /\ queue[f[i]][1] # s
      /\ \A k \in 1..Len(queue) : queue[k][1] # s => \E i \in 1..m : f[i] = k
  <2>1. /\ q \in Seq(Item) /\ Len(q) = m
        /\ m = Len(queue) - Cardinality(Removed(queue, s))
    BY <1>00, OthersMap DEF Selects
  <2> QED
    BY <2>1, <1>00 DEF Selects
<1>2. Len(queue) \in Nat /\ Len(q) <= Len(queue)
  <2>1. Len(queue) \in Nat /\ Removed(queue, s) \in SUBSET (1..Len(queue))
    BY DEF Removed
  <2>2. Cardinality(Removed(queue, s)) \in Nat
    BY <2>1, PositionsLeft
  <2> HIDE DEF q
  <2> QED
    BY <1>1, <2>1, <2>2
<1> HIDE DEF q
<1>3. \A i \in 1..m : f[i] \in 1..Len(queue)
  BY <1>1
<1>34. \A x, n : n \in Chunks(q, x) <=> n \in Numbers /\ \E i \in 1..m : q[i] = <<x, n>>
  <2>1. q \in Seq(Item) /\ Len(q) = m
    BY <1>1
  <2> QED
    BY <2>1, ChunksAt
<1>4. Chunks(q, s) = {}
  <2> SUFFICES ASSUME NEW n \in Chunks(q, s) PROVE FALSE
    OBVIOUS
  <2>1. PICK i \in 1..m : q[i] = <<s, n>>
    BY <1>34
  <2> QED
    BY <1>1, <2>1
<1>5. ASSUME t # s PROVE Chunks(q, t) = Chunks(queue, t)
  <2>1. ASSUME NEW n \in Chunks(q, t) PROVE n \in Chunks(queue, t)
    <3>1. PICK i \in 1..m : q[i] = <<t, n>>
      BY <1>34, <2>1
    <3>2. n \in Numbers /\ f[i] \in 1..Len(queue) /\ queue[f[i]] = <<t, n>>
      BY <1>1, <1>3, <1>34, <2>1, <3>1
    <3> QED
      BY <3>2, ChunksAt
  <2>2. ASSUME NEW n \in Chunks(queue, t) PROVE n \in Chunks(q, t)
    <3>1. PICK k \in 1..Len(queue) : queue[k] = <<t, n>>
      BY <2>2, ChunksAt
    <3>2. PICK i \in 1..m : f[i] = k
      BY <1>1, <1>5, <3>1
    <3>3. n \in Numbers /\ q[i] = <<t, n>>
      BY <1>1, <2>2, <3>1, <3>2, ChunksAt
    <3> QED
      BY <1>34, <3>3
  <2> QED
    BY <2>1, <2>2
<1>6. QueueInOrder(queue, t) => QueueInOrder(q, t)
  BY <1>1, <1>3 DEF QueueInOrder
<1>7. Gone(q, s)
  BY <1>1 DEF Gone
<1>8. Gone(queue, t) => Gone(q, t)
  BY <1>1, <1>3 DEF Gone
<1>9. EndLast(queue, t) => EndLast(q, t)
  BY <1>1, <1>3 DEF EndLast
<1>10. HasEnd(q, t) => HasEnd(queue, t)
  <2> SUFFICES ASSUME HasEnd(q, t) PROVE HasEnd(queue, t)
    OBVIOUS
  <2>1. PICK i \in 1..m : q[i] = <<t, End>>
    BY <1>1 DEF HasEnd
  <2>2. f[i] \in 1..Len(queue) /\ queue[f[i]] = <<t, End>>
    BY <1>1, <1>3, <2>1
  <2> QED
    BY <2>2 DEF HasEnd
<1> QED
  BY <1>1, <1>2, <1>4, <1>5, <1>6, <1>7, <1>8, <1>9, <1>10 DEF q

(* A purge of the work queue takes out as many items as it held chunks of   *)
(* the session: none of them was there twice.                               *)
LEMMA OthersCount ==
  ASSUME NEW queue \in Seq(Sessions \X Numbers), NEW s \in Sessions, QueueInOrder(queue, s)
  PROVE  /\ Others(queue, s) \in Seq(Sessions \X Numbers)
         /\ IsFiniteSet(Chunks(queue, s)) /\ Cardinality(Chunks(queue, s)) \in Nat
         /\ Len(queue) - Len(Others(queue, s)) = Cardinality(Chunks(queue, s))
<1> DEFINE R == Removed(queue, s)
           C == Chunks(queue, s)
           g == [k \in R |-> queue[k][2]]
<1>1. /\ Len(queue) \in Nat /\ R \in SUBSET (1..Len(queue))
      /\ \A i \in 1..Len(queue) : queue[i] \in Sessions \X Numbers
  BY DEF Removed
<1>2. Len(queue) - Len(Others(queue, s)) = Cardinality(R) /\ Others(queue, s) \in Seq(Sessions \X Numbers)
  <2>1. PICK m \in Nat : \E f \in [1..m -> 1..Len(queue)] : Selects(queue, s, m, f)
    BY OthersMap
  <2>3. /\ Others(queue, s) \in Seq(Sessions \X Numbers) /\ Len(Others(queue, s)) = m
        /\ m = Len(queue) - Cardinality(R)
    BY <2>1, OthersMap DEF Selects
  <2>2. Cardinality(R) \in Nat
    BY <1>1, PositionsLeft
  <2> HIDE DEF R
  <2> QED
    BY <1>1, <2>2, <2>3
<1>3. \A k \in R : queue[k] = <<s, queue[k][2]>> /\ queue[k][2] \in Numbers
  BY <1>1 DEF Removed
<1>4. \A k \in R : queue[k][2] \in C
  <2>1. \A k \in R : k \in 1..Len(queue) /\ queue[k] = <<s, queue[k][2]>> /\ queue[k][2] \in Numbers
    BY <1>1, <1>3
  <2>2. queue \in Seq(Item)
    BY DEF Item
  <2> QED
    BY <2>1, <2>2, ChunksAt
<1>5. \A i, j \in R : queue[i][2] = queue[j][2] => i = j
  <2> SUFFICES ASSUME NEW i \in R, NEW j \in R, queue[i][2] = queue[j][2] PROVE i = j
    OBVIOUS
  <2>1. /\ i \in 1..Len(queue) /\ j \in 1..Len(queue)
        /\ queue[i][1] = s /\ queue[j][1] = s
        /\ queue[i][2] \in Nat /\ queue[i][2] # End /\ queue[j][2] # End
    BY <1>1, <1>3, NumbersAreNat DEF Removed
  <2>2. ~(i < j) /\ ~(j < i)
    BY <2>1 DEF QueueInOrder
  <2> QED
    BY <1>1, <2>1, <2>2
<1>6. \A n \in C : \E k \in R : queue[k][2] = n
  <2>1. queue \in Seq(Item)
    BY DEF Item
  <2> QED
    BY <2>1, ChunksAt DEF Removed
<1>7. g \in Bijection(R, C)
  <2> HIDE DEF R, C
  <2>1. g \in [R -> C]
    BY <1>4
  <2>2. \A i, j \in R : g[i] = g[j] => i = j
    BY <1>5
  <2>3. \A n \in C : \E k \in R : g[k] = n
    BY <1>6
  <2> HIDE DEF g
  <2> QED
    BY <2>1, <2>2, <2>3 DEF Bijection, Injection, Surjection, IsInjective
<1>8. IsFiniteSet(R) /\ Cardinality(R) \in Nat
  BY <1>1, PositionsLeft
<1>9. IsFiniteSet(C) /\ Cardinality(C) = Cardinality(R)
  BY <1>7, <1>8, FS_Bijection DEF ExistsBijection
<1> QED
  BY <1>2, <1>8, <1>9

(* The end of a session stays behind its items when another is appended     *)
(* to a queue that has none.                                                *)
LEMMA EndAppend ==
  ASSUME NEW queue \in Seq(Item), NEW x \in Item, NEW t
  PROVE  /\ EndLast(queue, t) /\ (x[1] = t => ~HasEnd(queue, t)) => EndLast(Append(queue, x), t)
         /\ HasEnd(Append(queue, x), t) => HasEnd(queue, t) \/ x = <<t, End>>
         /\ Gone(queue, t) /\ x[1] # t => Gone(Append(queue, x), t)
<1> DEFINE q == Append(queue, x)
<1>1. /\ Len(q) = Len(queue) + 1 /\ Len(queue) \in Nat
      /\ q[Len(queue) + 1] = x /\ \A i \in 1..Len(queue) : q[i] = queue[i]
      /\ \A i \in 1..Len(q) : i \in 1..Len(queue) \/ i = Len(queue) + 1
  OBVIOUS
<1> HIDE DEF q
<1>2. ASSUME EndLast(queue, t), x[1] = t => ~HasEnd(queue, t) PROVE EndLast(q, t)
  <2> SUFFICES ASSUME NEW i \in 1..Len(q), NEW j \in 1..Len(q), q[i] = <<t, End>>, i < j
               PROVE  q[j][1] # t
    BY DEF EndLast
  <2>1. i \in 1..Len(queue) /\ queue[i] = <<t, End>>
    BY <1>1
  <2>2. HasEnd(queue, t)
    BY <2>1 DEF HasEnd
  <2> QED
    BY <1>1, <1>2, <2>1, <2>2 DEF EndLast
<1>3. HasEnd(q, t) => HasEnd(queue, t) \/ x = <<t, End>>
  BY <1>1 DEF HasEnd
<1>4. Gone(queue, t) /\ x[1] # t => Gone(q, t)
  BY <1>1 DEF Gone
<1> QED
  BY <1>2, <1>3, <1>4 DEF q

(* When its end is taken a session has left the queue.                      *)
LEMMA EndTail ==
  ASSUME NEW queue \in Seq(Item), queue # <<>>, NEW t
  PROVE  /\ EndLast(queue, t) => EndLast(Tail(queue), t) /\ (Head(queue) = <<t, End>> => Gone(Tail(queue), t))
         /\ HasEnd(Tail(queue), t) \/ Head(queue) = <<t, End>> => HasEnd(queue, t)
         /\ Gone(queue, t) => Gone(Tail(queue), t) /\ Head(queue)[1] # t
<1> DEFINE q == Tail(queue)
<1>1. /\ q \in Seq(Item) /\ Len(q) = Len(queue) - 1 /\ Len(queue) \in Nat /\ Len(queue) > 0
      /\ queue[1] = Head(queue) /\ \A i \in 1..Len(q) : q[i] = queue[i + 1]
  OBVIOUS
<1> HIDE DEF q
<1>2. 1 \in 1..Len(queue) /\ \A i \in 1..Len(q) : i + 1 \in 1..Len(queue) /\ 1 < i + 1
  BY <1>1
<1>3. EndLast(queue, t) => EndLast(q, t) /\ (Head(queue) = <<t, End>> => Gone(q, t))
  <2>1. EndLast(queue, t) => EndLast(q, t)
    BY <1>1, <1>2 DEF EndLast
  <2>2. EndLast(queue, t) /\ Head(queue) = <<t, End>> => Gone(q, t)
    BY <1>1, <1>2 DEF EndLast, Gone
  <2> QED
    BY <2>1, <2>2
<1>4. HasEnd(q, t) \/ Head(queue) = <<t, End>> => HasEnd(queue, t)
  BY <1>1, <1>2 DEF HasEnd
<1>5. Gone(queue, t) => Gone(q, t) /\ Head(queue)[1] # t
  BY <1>1, <1>2 DEF Gone
<1> QED
  BY <1>3, <1>4, <1>5 DEF q

(* A session that is gone from a queue has no chunks there.                 *)
LEMMA GoneNoChunks ==
  ASSUME NEW queue \in Seq(Item), NEW s, Gone(queue, s)
  PROVE  Chunks(queue, s) = {}
<1> SUFFICES ASSUME NEW n \in Chunks(queue, s) PROVE FALSE
  OBVIOUS
<1>1. PICK i \in 1..Len(queue) : queue[i] = <<s, n>>
  BY ChunksAt
<1> QED
  BY <1>1 DEF Gone

TypeState ==
  /\ active \in [Sessions -> BOOLEAN] /\ stopping \in [Sessions -> BOOLEAN]
  /\ fatal \in [Sessions -> BOOLEAN] /\ captureDone \in [Sessions -> BOOLEAN]
  /\ pending \in [Sessions -> Nat] /\ lastSequence \in [Sessions -> Numbers \union {-1}]
TypeEvents ==
  /\ answers \in [Sessions -> Seq(Numbers)] /\ refused \in [Sessions -> SUBSET Numbers]
  /\ completions \in [Sessions -> {<<>>, <<"stopped">>, <<"failed">>}]
TypeCapture ==
  /\ source \in [Sessions -> {"open", "stopping", "closed", "failed"}]
  /\ callback \in [Sessions -> 0..MaxBatch]
TypeQueues ==
  /\ ingress \in Seq(Item) /\ Len(ingress) <= IngressCap
  /\ work \in Seq(Sessions \X Numbers) /\ Len(work) <= WorkCap
  /\ ingressLock \in Sessions \union {None} /\ workMutex \in Sessions \union {None}
TypeWorkers ==
  /\ ingressPc \in {"idle", "end", "conclude", "taken", "detected", "put", "undetected",
                   "rejected", "fatal"}
  /\ ingressItem \in Item \union {NoItem}
  /\ modelPc \in {"idle", "taken", "conclude"} /\ modelItem \in Item \union {NoItem}
TypeStop ==
  /\ stopPc \in [Sessions -> {"idle", "source", "flush", "enqueue", "put", "wait", "fatal",
                              "returned", "raised"}]
  /\ tail \in [Sessions -> 0..MaxTail] /\ endEnqueued \in [Sessions -> BOOLEAN]
TypeFatal ==
  /\ fatalDue \in [Sessions -> BOOLEAN]
  /\ fatalPc \in [Sessions -> {"none", "source", "stopped", "purge", "emit", "done"}]

(* What a worker has in hand is what its program counter says.             *)
HandInv ==
  /\ ingressPc \in {"taken", "detected", "put", "undetected", "rejected", "fatal"} =>
       ingressItem \in Sessions \X Numbers
  /\ ingressPc \in {"end", "conclude"} => ingressItem \in Sessions \X {End}
  /\ modelPc # "idle" => modelItem \in Sessions \X Numbers

(* The chunks a callback or a stopping thread has yet to number have numbers *)
(* left; a session that stops has no callback, and one whose end is in the  *)
(* queue numbers nothing any more; without a fatal error a session is       *)
(* active until it has completed.                                           *)
Controlled(s) ==
  /\ lastSequence[s] + callback[s] <= MaxSequence[s]
  /\ stopPc[s] = "enqueue" => lastSequence[s] + tail[s] <= MaxSequence[s]
  /\ stopPc[s] = "put" =>
       tail[s] > 0 /\ lastSequence[s] >= 0 /\ lastSequence[s] + tail[s] <= MaxSequence[s] + 1
  /\ stopping[s] => callback[s] = 0 /\ stopPc[s] \notin {"idle", "source", "flush", "fatal"}
  /\ stopPc[s] \in {"enqueue", "put"} => stopping[s]
  /\ endEnqueued[s] => stopping[s] /\ tail[s] = 0
  /\ fatalPc[s] # "none" => fatal[s]
  /\ fatal[s] => ~active[s]
  /\ workMutex = s => fatalPc[s] = "purge"
  /\ ~fatal[s] => (active[s] <=> completions[s] = <<>>) /\ completions[s] # <<"failed">>

BaseInv == TypeOK /\ HandInv /\ \A s \in Sessions : Controlled(s)

(* The type invariant, by groups of variables.                              *)
LEMMA TypeSplit ==
  ASSUME TypeOK
  PROVE  /\ TypeState /\ TypeEvents /\ TypeCapture /\ TypeQueues /\ TypeWorkers
         /\ TypeStop /\ TypeFatal
BY DEF TypeOK, TypeState, TypeEvents, TypeCapture, TypeQueues, TypeWorkers, TypeStop, TypeFatal

(* The groups that are needed after a step.                                 *)
LEMMA TypeSplitNext ==
  ASSUME TypeOK'
  PROVE  TypeState' /\ TypeEvents' /\ TypeQueues'
BY DEF TypeOK, TypeState, TypeEvents, TypeQueues

(* The groups make up the invariant.                                        *)
LEMMA TypeJoined ==
  ASSUME TypeState', TypeEvents', TypeCapture', TypeQueues', TypeWorkers', TypeStop', TypeFatal'
  PROVE  TypeOK'
BY DEF TypeOK, TypeState, TypeEvents, TypeCapture, TypeQueues, TypeWorkers, TypeStop, TypeFatal

(* Control of a session is kept by a step that touches none of it.          *)
LEMMA ControlledSame ==
  ASSUME NEW s \in Sessions, Controlled(s),
         UNCHANGED <<lastSequence[s], callback[s], stopPc[s], tail[s], stopping[s],
                    endEnqueued[s]>>,
         UNCHANGED <<fatalPc[s], fatal[s], active[s], completions[s]>>,
         workMutex' = s => workMutex = s
  PROVE  Controlled(s)'
BY DEF Controlled

(* Control of a session is kept by a call of _fatal.                        *)
LEMMA ControlledFatal ==
  ASSUME NEW s \in Sessions, TypeState, TypeFatal, Controlled(s), FatalCalled(s),
         UNCHANGED <<lastSequence[s], callback[s], tail[s], stopping[s], endEnqueued[s]>>,
         UNCHANGED <<completions[s], workMutex>>,
         \/ stopPc'[s] = stopPc[s]
         \/ stopPc[s] = "source" /\ stopPc'[s] \in {"returned", "fatal"}
  PROVE  Controlled(s)'
<1>1. CASE FatalEntry(s)
  <2>1. active[s] /\ ~fatal[s] /\ fatalPc[s] = "none" /\ workMutex # s
    BY <1>1 DEF FatalEntry, Controlled, TypeState, TypeFatal
  <2>2. fatal'[s] = TRUE /\ active'[s] = FALSE
    BY <1>1 DEF FatalEntry, TypeState
  <2> QED
    BY <2>1, <2>2 DEF Controlled
<1>2. CASE FatalIgnored(s)
  BY <1>2 DEF FatalIgnored, Controlled
<1> QED
  BY <1>1, <1>2 DEF FatalCalled

(* Every step keeps the types, what is in hand and the control of a session. *)
LEMMA BaseStep ==
  ASSUME BaseInv, [Next]_vars
  PROVE  BaseInv'
<1> USE SessionPipelineAssumption DEF MaxBatch, MaxTail
<1>0. /\ HandInv /\ \A t \in Sessions : Controlled(t)
      /\ TypeState /\ TypeEvents /\ TypeCapture /\ TypeQueues /\ TypeWorkers /\ TypeStop
      /\ TypeFatal
  BY TypeSplit DEF BaseInv
<1>00. ASSUME NEW t \in Sessions
       PROVE  /\ lastSequence[t] \in Int /\ lastSequence[t] >= -1
              /\ callback[t] \in 0..MaxBatch /\ tail[t] \in 0..MaxTail /\ MaxSequence[t] \in Nat
  <2>1. lastSequence[t] \in Numbers \union {-1}
    BY <1>0 DEF TypeState
  <2>2. callback[t] \in 0..MaxBatch /\ tail[t] \in 0..MaxTail
    BY <1>0 DEF TypeCapture, TypeStop
  <2>3. MaxSequence[t] \in Nat
    BY SessionPipelineAssumption
  <2>4. lastSequence[t] \in Nat \/ lastSequence[t] = -1
    BY <2>1, NumbersAreNat
  <2> QED
    BY <2>2, <2>3, <2>4
<1>1. ASSUME IngressTake PROVE BaseInv'
  <2>0. /\ Head(ingress) \in Item /\ Tail(ingress) \in Seq(Item)
        /\ Len(Tail(ingress)) <= Len(ingress)
    <3>1. ingress # <<>> /\ ingress \in Seq(Item)
      BY <1>1, <1>0 DEF TypeQueues, IngressTake
    <3> QED
      BY <3>1
  <2>1. TypeQueues'
    BY <1>1, <1>0, <2>0 DEF TypeQueues, HandInv, Item, TypeWorkers, IngressTake, IngressUnchanged,
         IngressGoto, IngressDone, modelVars, stopVars
  <2>2. TypeWorkers'
    BY <1>1, <1>0, <2>0 DEF TypeWorkers, HandInv, Item, NoItem, TypeQueues, IngressTake,
         IngressUnchanged, IngressGoto, IngressDone, modelVars, stopVars
  <2>3. TypeState' /\ TypeEvents' /\ TypeCapture' /\ TypeStop' /\ TypeFatal'
    BY <1>1, <1>0 DEF TypeState, TypeEvents, TypeCapture, TypeStop, TypeFatal, IngressTake,
         IngressUnchanged, IngressGoto, IngressDone, modelVars, stopVars
  <2>4. HandInv'
    BY <1>1, <1>0, <2>0 DEF HandInv, Item, NoItem, TypeWorkers, IngressTake, IngressUnchanged,
         IngressGoto, IngressDone, modelVars, stopVars
  <2>5. ASSUME NEW t \in Sessions PROVE Controlled(t)'
    BY <1>1, <1>0, ControlledSame DEF IngressTake, IngressUnchanged, IngressGoto, IngressDone,
         modelVars, stopVars
  <2> QED
    BY <2>1, <2>2, <2>3, <2>4, <2>5, TypeJoined DEF BaseInv
<1>2. ASSUME IngressPut PROVE BaseInv'
  <2>1. TypeQueues'
    BY <1>2, <1>0 DEF TypeQueues, HandInv, Item, TypeWorkers, IngressPut, IngressUnchanged,
         IngressGoto, IngressDone, WorkRoom, modelVars, stopVars
  <2>2. TypeWorkers'
    BY <1>2, <1>0 DEF TypeWorkers, HandInv, Item, NoItem, TypeQueues, IngressPut, IngressUnchanged,
         IngressGoto, IngressDone, WorkRoom, modelVars, stopVars
  <2>3. TypeState' /\ TypeEvents' /\ TypeCapture' /\ TypeStop' /\ TypeFatal'
    BY <1>2, <1>0 DEF TypeState, TypeEvents, TypeCapture, TypeStop, TypeFatal, IngressPut,
         IngressUnchanged, IngressGoto, IngressDone, WorkRoom, modelVars, stopVars
  <2>4. HandInv'
    BY <1>2, <1>0 DEF HandInv, Item, NoItem, TypeWorkers, IngressPut, IngressUnchanged, IngressGoto,
         IngressDone, WorkRoom, modelVars, stopVars
  <2>5. ASSUME NEW t \in Sessions PROVE Controlled(t)'
    BY <1>2, <1>0, ControlledSame DEF IngressPut, IngressUnchanged, IngressGoto, IngressDone,
         WorkRoom, modelVars, stopVars
  <2> QED
    BY <2>1, <2>2, <2>3, <2>4, <2>5, TypeJoined DEF BaseInv
<1>3. ASSUME ModelTake PROVE BaseInv'
  <2>0. /\ Head(work) \in (Sessions \X Numbers) /\ Tail(work) \in Seq((Sessions \X Numbers))
        /\ Len(Tail(work)) <= Len(work)
    <3>1. work # <<>> /\ work \in Seq((Sessions \X Numbers))
      BY <1>3, <1>0 DEF TypeQueues, ModelTake
    <3> QED
      BY <3>1
  <2>1. TypeQueues'
    BY <1>3, <1>0, <2>0 DEF TypeQueues, HandInv, Item, TypeWorkers, ModelTake, ModelUnchanged,
         ModelDone, captureVars, ingressVars, stopVars, fatalVars
  <2>2. TypeWorkers'
    BY <1>3, <1>0, <2>0 DEF TypeWorkers, HandInv, Item, NoItem, TypeQueues, ModelTake,
         ModelUnchanged, ModelDone, captureVars, ingressVars, stopVars, fatalVars
  <2>3. TypeState' /\ TypeEvents' /\ TypeCapture' /\ TypeStop' /\ TypeFatal'
    BY <1>3, <1>0 DEF TypeState, TypeEvents, TypeCapture, TypeStop, TypeFatal, ModelTake,
         ModelUnchanged, ModelDone, captureVars, ingressVars, stopVars, fatalVars
  <2>4. HandInv'
    BY <1>3, <1>0, <2>0 DEF HandInv, Item, NoItem, TypeWorkers, ModelTake, ModelUnchanged,
         ModelDone, captureVars, ingressVars, stopVars, fatalVars
  <2>5. ASSUME NEW t \in Sessions PROVE Controlled(t)'
    BY <1>3, <1>0, ControlledSame DEF ModelTake, ModelUnchanged, ModelDone, captureVars,
         ingressVars, stopVars, fatalVars
  <2> QED
    BY <2>1, <2>2, <2>3, <2>4, <2>5, TypeJoined DEF BaseInv
<1>4. ASSUME NEW s \in Sessions, IngressEnd(s) PROVE BaseInv'
  <2>1. TypeState'
    BY <1>4, <1>0 DEF TypeState, IngressEnd, IngressUnchanged, IngressGoto, IngressDone, modelVars,
         stopVars
  <2>2. TypeWorkers'
    BY <1>4, <1>0 DEF TypeWorkers, HandInv, Item, NoItem, TypeQueues, IngressEnd, IngressUnchanged,
         IngressGoto, IngressDone, modelVars, stopVars
  <2>3. TypeEvents' /\ TypeCapture' /\ TypeQueues' /\ TypeStop' /\ TypeFatal'
    BY <1>4, <1>0 DEF TypeEvents, TypeCapture, TypeQueues, TypeStop, TypeFatal, IngressEnd,
         IngressUnchanged, IngressGoto, IngressDone, modelVars, stopVars
  <2>4. HandInv'
    BY <1>4, <1>0 DEF HandInv, Item, NoItem, TypeWorkers, IngressEnd, IngressUnchanged, IngressGoto,
         IngressDone, modelVars, stopVars
  <2>5. ASSUME NEW t \in Sessions PROVE Controlled(t)'
    <3>1. CASE t = s
      BY <1>4, <1>0, <1>00, <3>1 DEF Controlled, Terminal, LockFree, TypeState, TypeWorkers,
           IngressEnd, IngressUnchanged, IngressGoto, IngressDone, modelVars, stopVars
    <3>2. CASE t # s
      BY <1>4, <1>0, <3>2, ControlledSame DEF TypeState, TypeWorkers, IngressEnd, IngressUnchanged,
           IngressGoto, IngressDone, modelVars, stopVars
    <3> QED
      BY <3>1, <3>2
  <2> QED
    BY <2>1, <2>2, <2>3, <2>4, <2>5, TypeJoined DEF BaseInv
<1>5. ASSUME NEW s \in Sessions, IngressConclude(s) PROVE BaseInv'
  <2>1. TypeState'
    BY <1>5, <1>0 DEF TypeState, IngressConclude, IngressUnchanged, IngressGoto, IngressDone,
         Complete, modelVars, stopVars
  <2>2. TypeEvents'
    BY <1>5, <1>0 DEF TypeEvents, TypeState, HandInv, IngressConclude, IngressUnchanged,
         IngressGoto, IngressDone, Complete, modelVars, stopVars
  <2>3. TypeWorkers'
    BY <1>5, <1>0 DEF TypeWorkers, HandInv, Item, NoItem, TypeQueues, IngressConclude,
         IngressUnchanged, IngressGoto, IngressDone, Complete, modelVars, stopVars
  <2>4. TypeCapture' /\ TypeQueues' /\ TypeStop' /\ TypeFatal'
    BY <1>5, <1>0 DEF TypeCapture, TypeQueues, TypeStop, TypeFatal, IngressConclude,
         IngressUnchanged, IngressGoto, IngressDone, Complete, modelVars, stopVars
  <2>5. HandInv'
    BY <1>5, <1>0 DEF HandInv, Item, NoItem, TypeWorkers, IngressConclude, IngressUnchanged,
         IngressGoto, IngressDone, Complete, modelVars, stopVars
  <2>6. ASSUME NEW t \in Sessions PROVE Controlled(t)'
    <3>1. CASE t = s
      BY <1>5, <1>0, <1>00, <3>1 DEF Controlled, Terminal, LockFree, TypeState, TypeEvents,
           TypeWorkers, IngressConclude, IngressUnchanged, IngressGoto, IngressDone, Complete,
           modelVars, stopVars
    <3>2. CASE t # s
      BY <1>5, <1>0, <3>2, ControlledSame DEF TypeState, TypeEvents, TypeWorkers, IngressConclude,
           IngressUnchanged, IngressGoto, IngressDone, Complete, modelVars, stopVars
    <3> QED
      BY <3>1, <3>2
  <2> QED
    BY <2>1, <2>2, <2>3, <2>4, <2>5, <2>6, TypeJoined DEF BaseInv
<1>6. ASSUME NEW s \in Sessions, IngressDetect(s) PROVE BaseInv'
  <2>1. TypeWorkers'
    BY <1>6, <1>0 DEF TypeWorkers, HandInv, Item, NoItem, TypeQueues, IngressDetect,
         IngressUnchanged, IngressGoto, IngressDone, modelVars, stopVars
  <2>2. TypeState' /\ TypeEvents' /\ TypeCapture' /\ TypeQueues' /\ TypeStop' /\ TypeFatal'
    BY <1>6, <1>0 DEF TypeState, TypeEvents, TypeCapture, TypeQueues, TypeStop, TypeFatal,
         IngressDetect, IngressUnchanged, IngressGoto, IngressDone, modelVars, stopVars
  <2>3. HandInv'
    BY <1>6, <1>0 DEF HandInv, Item, NoItem, TypeWorkers, IngressDetect, IngressUnchanged,
         IngressGoto, IngressDone, modelVars, stopVars
  <2>4. ASSUME NEW t \in Sessions PROVE Controlled(t)'
    <3>1. CASE t = s
      BY <1>6, <1>0, <1>00, <3>1 DEF Controlled, Terminal, LockFree, TypeWorkers, IngressDetect,
           IngressUnchanged, IngressGoto, IngressDone, modelVars, stopVars
    <3>2. CASE t # s
      BY <1>6, <1>0, <3>2, ControlledSame DEF TypeWorkers, IngressDetect, IngressUnchanged,
           IngressGoto, IngressDone, modelVars, stopVars
    <3> QED
      BY <3>1, <3>2
  <2> QED
    BY <2>1, <2>2, <2>3, <2>4, TypeJoined DEF BaseInv
<1>7. ASSUME NEW s \in Sessions, IngressCount(s) PROVE BaseInv'
  <2>1. TypeState'
    BY <1>7, <1>0 DEF TypeState, IngressCount, IngressUnchanged, IngressGoto, IngressDone,
         modelVars, stopVars
  <2>2. TypeWorkers'
    BY <1>7, <1>0 DEF TypeWorkers, HandInv, Item, NoItem, TypeQueues, IngressCount,
         IngressUnchanged, IngressGoto, IngressDone, modelVars, stopVars
  <2>3. TypeEvents' /\ TypeCapture' /\ TypeQueues' /\ TypeStop' /\ TypeFatal'
    BY <1>7, <1>0 DEF TypeEvents, TypeCapture, TypeQueues, TypeStop, TypeFatal, IngressCount,
         IngressUnchanged, IngressGoto, IngressDone, modelVars, stopVars
  <2>4. HandInv'
    BY <1>7, <1>0 DEF HandInv, Item, NoItem, TypeWorkers, IngressCount, IngressUnchanged,
         IngressGoto, IngressDone, modelVars, stopVars
  <2>5. ASSUME NEW t \in Sessions PROVE Controlled(t)'
    <3>1. CASE t = s
      BY <1>7, <1>0, <1>00, <3>1 DEF Controlled, Terminal, LockFree, TypeState, TypeWorkers,
           IngressCount, IngressUnchanged, IngressGoto, IngressDone, modelVars, stopVars
    <3>2. CASE t # s
      BY <1>7, <1>0, <3>2, ControlledSame DEF TypeState, TypeWorkers, IngressCount,
           IngressUnchanged, IngressGoto, IngressDone, modelVars, stopVars
    <3> QED
      BY <3>1, <3>2
  <2> QED
    BY <2>1, <2>2, <2>3, <2>4, <2>5, TypeJoined DEF BaseInv
<1>8. ASSUME NEW s \in Sessions, IngressPutTimeout(s) PROVE BaseInv'
  <2>1. TypeState'
    BY <1>8, <1>0 DEF TypeState, IngressPutTimeout, IngressUnchanged, IngressGoto, IngressDone,
         WorkRoom, modelVars, stopVars
  <2>2. TypeEvents'
    BY <1>8, <1>0 DEF TypeEvents, TypeState, HandInv, IngressPutTimeout, IngressUnchanged,
         IngressGoto, IngressDone, WorkRoom, modelVars, stopVars
  <2>3. TypeWorkers'
    BY <1>8, <1>0 DEF TypeWorkers, HandInv, Item, NoItem, TypeQueues, IngressPutTimeout,
         IngressUnchanged, IngressGoto, IngressDone, WorkRoom, modelVars, stopVars
  <2>4. TypeCapture' /\ TypeQueues' /\ TypeStop' /\ TypeFatal'
    BY <1>8, <1>0 DEF TypeCapture, TypeQueues, TypeStop, TypeFatal, IngressPutTimeout,
         IngressUnchanged, IngressGoto, IngressDone, WorkRoom, modelVars, stopVars
  <2>5. HandInv'
    BY <1>8, <1>0 DEF HandInv, Item, NoItem, TypeWorkers, IngressPutTimeout, IngressUnchanged,
         IngressGoto, IngressDone, WorkRoom, modelVars, stopVars
  <2>6. ASSUME NEW t \in Sessions PROVE Controlled(t)'
    <3>1. CASE t = s
      BY <1>8, <1>0, <1>00, <3>1 DEF Controlled, Terminal, LockFree, TypeState, TypeEvents,
           TypeWorkers, IngressPutTimeout, IngressUnchanged, IngressGoto, IngressDone, WorkRoom,
           modelVars, stopVars
    <3>2. CASE t # s
      BY <1>8, <1>0, <3>2, ControlledSame DEF TypeState, TypeEvents, TypeWorkers, IngressPutTimeout,
           IngressUnchanged, IngressGoto, IngressDone, WorkRoom, modelVars, stopVars
    <3> QED
      BY <3>1, <3>2
  <2> QED
    BY <2>1, <2>2, <2>3, <2>4, <2>5, <2>6, TypeJoined DEF BaseInv
<1>9. ASSUME NEW s \in Sessions, IngressFails(s) PROVE BaseInv'
  <2>1. TypeState'
    BY <1>9, <1>0 DEF TypeState, IngressFails, IngressUnchanged, IngressGoto, IngressDone,
         FatalCalled, FatalEntry, FatalIgnored, StopSource, modelVars, stopVars
  <2>2. TypeCapture'
    BY <1>9, <1>0 DEF TypeCapture, IngressFails, IngressUnchanged, IngressGoto, IngressDone,
         FatalCalled, FatalEntry, FatalIgnored, StopSource, modelVars, stopVars
  <2>3. TypeWorkers'
    BY <1>9, <1>0 DEF TypeWorkers, HandInv, Item, NoItem, TypeQueues, IngressFails,
         IngressUnchanged, IngressGoto, IngressDone, FatalCalled, FatalEntry, FatalIgnored,
         StopSource, modelVars, stopVars
  <2>4. TypeFatal'
    BY <1>9, <1>0 DEF TypeFatal, IngressFails, IngressUnchanged, IngressGoto, IngressDone,
         FatalCalled, FatalEntry, FatalIgnored, StopSource, modelVars, stopVars
  <2>5. TypeEvents' /\ TypeQueues' /\ TypeStop'
    BY <1>9, <1>0 DEF TypeEvents, TypeQueues, TypeStop, IngressFails, IngressUnchanged, IngressGoto,
         IngressDone, FatalCalled, FatalEntry, FatalIgnored, StopSource, modelVars, stopVars
  <2>6. HandInv'
    BY <1>9, <1>0 DEF HandInv, Item, NoItem, TypeWorkers, IngressFails, IngressUnchanged,
         IngressGoto, IngressDone, FatalCalled, FatalEntry, FatalIgnored, StopSource, modelVars,
         stopVars
  <2>7. ASSUME NEW t \in Sessions PROVE Controlled(t)'
    <3>1. CASE t = s
      BY <1>9, <1>0, <3>1, ControlledFatal DEF TypeState, TypeFatal, IngressFails, IngressUnchanged,
           IngressGoto, IngressDone, modelVars, stopVars
    <3>2. CASE t # s
      BY <1>9, <1>0, <3>2, ControlledSame DEF TypeState, TypeCapture, TypeWorkers, TypeFatal,
           IngressFails, IngressUnchanged, IngressGoto, IngressDone, FatalCalled, FatalEntry,
           FatalIgnored, StopSource, modelVars, stopVars
    <3> QED
      BY <3>1, <3>2
  <2> QED
    BY <2>1, <2>2, <2>3, <2>4, <2>5, <2>6, <2>7, TypeJoined DEF BaseInv
<1>10. ASSUME NEW s \in Sessions, IngressFailed(s) PROVE BaseInv'
  <2>1. TypeWorkers'
    BY <1>10, <1>0 DEF TypeWorkers, HandInv, Item, NoItem, TypeQueues, IngressFailed,
         IngressUnchanged, IngressGoto, IngressDone, modelVars, stopVars
  <2>2. TypeState' /\ TypeEvents' /\ TypeCapture' /\ TypeQueues' /\ TypeStop' /\ TypeFatal'
    BY <1>10, <1>0 DEF TypeState, TypeEvents, TypeCapture, TypeQueues, TypeStop, TypeFatal,
         IngressFailed, IngressUnchanged, IngressGoto, IngressDone, modelVars, stopVars
  <2>3. HandInv'
    BY <1>10, <1>0 DEF HandInv, Item, NoItem, TypeWorkers, IngressFailed, IngressUnchanged,
         IngressGoto, IngressDone, modelVars, stopVars
  <2>4. ASSUME NEW t \in Sessions PROVE Controlled(t)'
    <3>1. CASE t = s
      BY <1>10, <1>0, <1>00, <3>1 DEF Controlled, Terminal, LockFree, TypeWorkers, IngressFailed,
           IngressUnchanged, IngressGoto, IngressDone, modelVars, stopVars
    <3>2. CASE t # s
      BY <1>10, <1>0, <3>2, ControlledSame DEF TypeWorkers, IngressFailed, IngressUnchanged,
           IngressGoto, IngressDone, modelVars, stopVars
    <3> QED
      BY <3>1, <3>2
  <2> QED
    BY <2>1, <2>2, <2>3, <2>4, TypeJoined DEF BaseInv
<1>11. ASSUME NEW s \in Sessions, ModelComplete(s) PROVE BaseInv'
  <2>1. TypeState'
    BY <1>11, <1>0 DEF TypeState, ModelComplete, ModelUnchanged, ModelDone, captureVars,
         ingressVars, stopVars, fatalVars
  <2>2. TypeEvents'
    BY <1>11, <1>0 DEF TypeEvents, TypeState, HandInv, ModelComplete, ModelUnchanged, ModelDone,
         captureVars, ingressVars, stopVars, fatalVars
  <2>3. TypeWorkers'
    BY <1>11, <1>0 DEF TypeWorkers, HandInv, Item, NoItem, TypeQueues, ModelComplete,
         ModelUnchanged, ModelDone, captureVars, ingressVars, stopVars, fatalVars
  <2>4. TypeCapture' /\ TypeQueues' /\ TypeStop' /\ TypeFatal'
    BY <1>11, <1>0 DEF TypeCapture, TypeQueues, TypeStop, TypeFatal, ModelComplete, ModelUnchanged,
         ModelDone, captureVars, ingressVars, stopVars, fatalVars
  <2>5. HandInv'
    BY <1>11, <1>0 DEF HandInv, Item, NoItem, TypeWorkers, ModelComplete, ModelUnchanged, ModelDone,
         captureVars, ingressVars, stopVars, fatalVars
  <2>6. ASSUME NEW t \in Sessions PROVE Controlled(t)'
    <3>1. CASE t = s
      BY <1>11, <1>0, <1>00, <3>1 DEF Controlled, Terminal, LockFree, TypeState, TypeEvents,
           TypeWorkers, ModelComplete, ModelUnchanged, ModelDone, captureVars, ingressVars,
           stopVars, fatalVars
    <3>2. CASE t # s
      BY <1>11, <1>0, <3>2, ControlledSame DEF TypeState, TypeEvents, TypeWorkers, ModelComplete,
           ModelUnchanged, ModelDone, captureVars, ingressVars, stopVars, fatalVars
    <3> QED
      BY <3>1, <3>2
  <2> QED
    BY <2>1, <2>2, <2>3, <2>4, <2>5, <2>6, TypeJoined DEF BaseInv
<1>12. ASSUME NEW s \in Sessions, ModelConclude(s) PROVE BaseInv'
  <2>1. TypeState'
    BY <1>12, <1>0 DEF TypeState, ModelConclude, ModelUnchanged, ModelDone, Complete, captureVars,
         ingressVars, stopVars, fatalVars
  <2>2. TypeEvents'
    BY <1>12, <1>0 DEF TypeEvents, TypeState, HandInv, ModelConclude, ModelUnchanged, ModelDone,
         Complete, captureVars, ingressVars, stopVars, fatalVars
  <2>3. TypeWorkers'
    BY <1>12, <1>0 DEF TypeWorkers, HandInv, Item, NoItem, TypeQueues, ModelConclude,
         ModelUnchanged, ModelDone, Complete, captureVars, ingressVars, stopVars, fatalVars
  <2>4. TypeCapture' /\ TypeQueues' /\ TypeStop' /\ TypeFatal'
    BY <1>12, <1>0 DEF TypeCapture, TypeQueues, TypeStop, TypeFatal, ModelConclude, ModelUnchanged,
         ModelDone, Complete, captureVars, ingressVars, stopVars, fatalVars
  <2>5. HandInv'
    BY <1>12, <1>0 DEF HandInv, Item, NoItem, TypeWorkers, ModelConclude, ModelUnchanged, ModelDone,
         Complete, captureVars, ingressVars, stopVars, fatalVars
  <2>6. ASSUME NEW t \in Sessions PROVE Controlled(t)'
    <3>1. CASE t = s
      BY <1>12, <1>0, <1>00, <3>1 DEF Controlled, Terminal, LockFree, TypeState, TypeEvents,
           TypeWorkers, ModelConclude, ModelUnchanged, ModelDone, Complete, captureVars,
           ingressVars, stopVars, fatalVars
    <3>2. CASE t # s
      BY <1>12, <1>0, <3>2, ControlledSame DEF TypeState, TypeEvents, TypeWorkers, ModelConclude,
           ModelUnchanged, ModelDone, Complete, captureVars, ingressVars, stopVars, fatalVars
    <3> QED
      BY <3>1, <3>2
  <2> QED
    BY <2>1, <2>2, <2>3, <2>4, <2>5, <2>6, TypeJoined DEF BaseInv
<1>13. ASSUME NEW s \in Sessions, CallbackBegin(s) PROVE BaseInv'
  <2>1. TypeCapture'
    BY <1>13, <1>0 DEF TypeCapture, CallbackBegin, CallbackUnchanged, ingressVars, modelVars,
         stopVars
  <2>2. TypeState' /\ TypeEvents' /\ TypeQueues' /\ TypeWorkers' /\ TypeStop' /\ TypeFatal'
    BY <1>13, <1>0 DEF TypeState, TypeEvents, TypeQueues, TypeWorkers, TypeStop, TypeFatal,
         CallbackBegin, CallbackUnchanged, ingressVars, modelVars, stopVars
  <2>3. HandInv'
    BY <1>13, <1>0 DEF HandInv, Item, NoItem, TypeWorkers, CallbackBegin, CallbackUnchanged,
         ingressVars, modelVars, stopVars
  <2>4. ASSUME NEW t \in Sessions PROVE Controlled(t)'
    <3>1. CASE t = s
      BY <1>13, <1>0, <1>00, <3>1 DEF Controlled, Terminal, LockFree, TypeCapture, CallbackBegin,
           CallbackUnchanged, ingressVars, modelVars, stopVars
    <3>2. CASE t # s
      BY <1>13, <1>0, <3>2, ControlledSame DEF TypeCapture, CallbackBegin, CallbackUnchanged,
           ingressVars, modelVars, stopVars
    <3> QED
      BY <3>1, <3>2
  <2> QED
    BY <2>1, <2>2, <2>3, <2>4, TypeJoined DEF BaseInv
<1>14. ASSUME NEW s \in Sessions, CallbackEnqueue(s) PROVE BaseInv'
  <2>0. lastSequence[s] + 1 \in Numbers /\ lastSequence'[s] = lastSequence[s] + 1
    <3>1. lastSequence[s] + 1 \in Nat /\ lastSequence[s] + 1 <= MaxSequence[s]
      BY <1>14, <1>0, <1>00 DEF Controlled, LockFree, CallbackEnqueue
    <3>2. lastSequence'[s] = lastSequence[s] + 1
      BY <1>14, <1>0 DEF TypeState, NumberChunk, CallbackEnqueue
    <3> QED
      BY <3>1, <3>2, NumbersAreNat
  <2>1. TypeState'
    BY <1>14, <1>0, <2>0 DEF TypeState, CallbackEnqueue, CallbackUnchanged, NumberChunk
  <2>2. TypeEvents'
    <3>1. /\ \/ refused' = refused
             \/ refused' = [refused EXCEPT ![s] = @ \union {lastSequence'[s]}]
          /\ UNCHANGED <<answers, completions>>
      BY <1>14 DEF CallbackEnqueue, CallbackUnchanged
    <3> DEFINE n == lastSequence'[s]
    <3>3. n \in Numbers
      BY <2>0
    <3> HIDE DEF n
    <3>4. refused[s] \union {n} \in SUBSET Numbers
      BY <1>0, <3>3 DEF TypeEvents
    <3>2. refused' \in [Sessions -> SUBSET Numbers]
      BY <1>0, <3>1, <3>4 DEF TypeEvents, n
    <3> QED
      BY <1>0, <3>1, <3>2 DEF TypeEvents
  <2>3. TypeCapture'
    <3>1. /\ \/ callback' = [callback EXCEPT ![s] = @ - 1]
             \/ callback' = [callback EXCEPT ![s] = 0]
          /\ callback[s] > 0 /\ source' = source
      BY <1>14 DEF CallbackEnqueue, CallbackUnchanged
    <3>2. callback[s] \in 0..MaxBatch
      BY <1>00
    <3>3. callback[s] - 1 \in 0..MaxBatch /\ 0 \in 0..MaxBatch
      BY <3>1, <3>2
    <3>4. callback' \in [Sessions -> 0..MaxBatch]
      BY <1>0, <3>1, <3>3 DEF TypeCapture
    <3> QED
      BY <1>0, <3>1, <3>4 DEF TypeCapture
  <2>4. TypeQueues'
    <3>1. /\ \/ ingress' = ingress
             \/ IngressRoom /\ ingress' = Append(ingress, <<s, lastSequence'[s]>>)
          /\ UNCHANGED <<work, ingressLock, workMutex>>
      BY <1>14 DEF CallbackEnqueue, CallbackUnchanged
    <3>2. <<s, lastSequence'[s]>> \in Item
      BY <2>0 DEF Item
    <3> DEFINE x == <<s, lastSequence'[s]>>
    <3> HIDE DEF x
    <3>4. x \in Item /\ (ingress' = ingress \/ (IngressRoom /\ ingress' = Append(ingress, x)))
      BY <3>1, <3>2 DEF x
    <3>5. /\ ingress \in Seq(Item) /\ Len(ingress) \in Nat /\ Len(ingress) <= IngressCap
          /\ Append(ingress, x) \in Seq(Item) /\ Len(Append(ingress, x)) = Len(ingress) + 1
      BY <1>0, <3>4 DEF TypeQueues
    <3>6. IngressCap \in Nat
      BY SessionPipelineAssumption
    <3>3. ingress' \in Seq(Item) /\ Len(ingress') <= IngressCap
      BY <3>4, <3>5, <3>6 DEF IngressRoom
    <3> QED
      BY <1>0, <3>1, <3>3 DEF TypeQueues
  <2>5. TypeFatal'
    BY <1>14, <1>0, <2>0 DEF TypeFatal, CallbackEnqueue, CallbackUnchanged
  <2>6. TypeWorkers' /\ TypeStop'
    BY <1>14, <1>0 DEF TypeWorkers, TypeStop, CallbackEnqueue, CallbackUnchanged, NumberChunk,
         IngressRoom, ingressVars, modelVars, stopVars
  <2>7. HandInv'
    BY <1>14, <1>0, <2>0 DEF HandInv, Item, NoItem, TypeWorkers, CallbackEnqueue, CallbackUnchanged,
         NumberChunk, IngressRoom, ingressVars, modelVars, stopVars
  <2>8. ASSUME NEW t \in Sessions PROVE Controlled(t)'
    <3>1. CASE t = s
      <4>1. /\ callback[s] > 0 /\ callback'[s] \in {0, callback[s] - 1}
            /\ UNCHANGED <<stopPc, tail, stopping, endEnqueued, fatalPc, fatal, active,
                          completions>>
            /\ workMutex' = workMutex
        BY <1>14, <1>0 DEF TypeCapture, CallbackEnqueue, CallbackUnchanged, stopVars
      <4>2. Controlled(s) /\ callback[s] \in 0..MaxBatch /\ lastSequence[s] \in Int
        BY <1>0, <1>00
      <4>3. ~stopping[s] /\ stopPc[s] \notin {"enqueue", "put"}
        BY <4>1, <4>2 DEF Controlled
      <4>4. lastSequence'[s] + callback'[s] <= MaxSequence[s]
        BY <2>0, <4>1, <4>2, <1>00 DEF Controlled
      <4> QED
        BY <3>1, <4>1, <4>2, <4>3, <4>4 DEF Controlled
    <3>2. CASE t # s
      BY <1>14, <1>0, <3>2, ControlledSame, <2>0 DEF TypeState, TypeEvents, TypeCapture, TypeQueues,
           TypeFatal, CallbackEnqueue, CallbackUnchanged, NumberChunk, IngressRoom, ingressVars,
           modelVars, stopVars
    <3> QED
      BY <3>1, <3>2
  <2> QED
    BY <2>1, <2>2, <2>3, <2>4, <2>5, <2>6, <2>7, <2>8, TypeJoined DEF BaseInv
<1>15. ASSUME NEW s \in Sessions, CallbackFails(s) PROVE BaseInv'
  <2>1. TypeCapture'
    BY <1>15, <1>0 DEF TypeCapture, CallbackFails, CallbackUnchanged, ingressVars, modelVars,
         stopVars
  <2>2. TypeFatal'
    BY <1>15, <1>0 DEF TypeFatal, CallbackFails, CallbackUnchanged, ingressVars, modelVars, stopVars
  <2>3. TypeState' /\ TypeEvents' /\ TypeQueues' /\ TypeWorkers' /\ TypeStop'
    BY <1>15, <1>0 DEF TypeState, TypeEvents, TypeQueues, TypeWorkers, TypeStop, CallbackFails,
         CallbackUnchanged, ingressVars, modelVars, stopVars
  <2>4. HandInv'
    BY <1>15, <1>0 DEF HandInv, Item, NoItem, TypeWorkers, CallbackFails, CallbackUnchanged,
         ingressVars, modelVars, stopVars
  <2>5. ASSUME NEW t \in Sessions PROVE Controlled(t)'
    <3>1. CASE t = s
      <4>1. /\ callback'[s] = 0
            /\ UNCHANGED <<stopPc, tail, stopping, endEnqueued, fatalPc, fatal, active,
                          completions>>
            /\ UNCHANGED <<lastSequence, workMutex>>
        BY <1>15, <1>0 DEF TypeCapture, CallbackFails, CallbackUnchanged, stopVars
      <4>2. Controlled(s) /\ callback[s] \in 0..MaxBatch /\ lastSequence[s] \in Int
        BY <1>0, <1>00
      <4> QED
        BY <3>1, <4>1, <4>2, <1>00 DEF Controlled
    <3>2. CASE t # s
      BY <1>15, <1>0, <3>2, ControlledSame DEF TypeCapture, TypeFatal, CallbackFails,
           CallbackUnchanged, ingressVars, modelVars, stopVars
    <3> QED
      BY <3>1, <3>2
  <2> QED
    BY <2>1, <2>2, <2>3, <2>4, <2>5, TypeJoined DEF BaseInv
<1>16. ASSUME NEW s \in Sessions, CaptureError(s) PROVE BaseInv'
  <2>1. TypeFatal'
    BY <1>16, <1>0 DEF TypeFatal, CaptureError, CallbackUnchanged, ingressVars, modelVars, stopVars
  <2>2. TypeState' /\ TypeEvents' /\ TypeCapture' /\ TypeQueues' /\ TypeWorkers' /\ TypeStop'
    BY <1>16, <1>0 DEF TypeState, TypeEvents, TypeCapture, TypeQueues, TypeWorkers, TypeStop,
         CaptureError, CallbackUnchanged, ingressVars, modelVars, stopVars
  <2>3. HandInv'
    BY <1>16, <1>0 DEF HandInv, Item, NoItem, TypeWorkers, CaptureError, CallbackUnchanged,
         ingressVars, modelVars, stopVars
  <2>4. ASSUME NEW t \in Sessions PROVE Controlled(t)'
    <3>1. CASE t = s
      BY <1>16, <1>0, <1>00, <3>1 DEF Controlled, Terminal, LockFree, TypeFatal, CaptureError,
           CallbackUnchanged, ingressVars, modelVars, stopVars
    <3>2. CASE t # s
      BY <1>16, <1>0, <3>2, ControlledSame DEF TypeFatal, CaptureError, CallbackUnchanged,
           ingressVars, modelVars, stopVars
    <3> QED
      BY <3>1, <3>2
  <2> QED
    BY <2>1, <2>2, <2>3, <2>4, TypeJoined DEF BaseInv
<1>17. ASSUME NEW s \in Sessions, SourceEnds(s) PROVE BaseInv'
  <2>1. TypeCapture'
    BY <1>17, <1>0 DEF TypeCapture, SourceEnds, stateVars, eventVars, queueVars, ingressVars,
         modelVars, stopVars, fatalVars
  <2>2. TypeState' /\ TypeEvents' /\ TypeQueues' /\ TypeWorkers' /\ TypeStop' /\ TypeFatal'
    BY <1>17, <1>0 DEF TypeState, TypeEvents, TypeQueues, TypeWorkers, TypeStop, TypeFatal,
         SourceEnds, stateVars, eventVars, queueVars, ingressVars, modelVars, stopVars, fatalVars
  <2>3. HandInv'
    BY <1>17, <1>0 DEF HandInv, Item, NoItem, TypeWorkers, SourceEnds, stateVars, eventVars,
         queueVars, ingressVars, modelVars, stopVars, fatalVars
  <2>4. ASSUME NEW t \in Sessions PROVE Controlled(t)'
    <3>1. CASE t = s
      BY <1>17, <1>0, <1>00, <3>1 DEF Controlled, Terminal, LockFree, TypeCapture, SourceEnds,
           stateVars, eventVars, queueVars, ingressVars, modelVars, stopVars, fatalVars
    <3>2. CASE t # s
      BY <1>17, <1>0, <3>2, ControlledSame DEF TypeCapture, SourceEnds, stateVars, eventVars,
           queueVars, ingressVars, modelVars, stopVars, fatalVars
    <3> QED
      BY <3>1, <3>2
  <2> QED
    BY <2>1, <2>2, <2>3, <2>4, TypeJoined DEF BaseInv
<1>18. ASSUME NEW s \in Sessions, FatalBegin(s) PROVE BaseInv'
  <2>1. TypeState'
    BY <1>18, <1>0 DEF TypeState, FatalBegin, FatalCalled, FatalEntry, FatalIgnored, StopSource,
         eventVars, queueVars, ingressVars, modelVars, stopVars
  <2>2. TypeCapture'
    BY <1>18, <1>0 DEF TypeCapture, FatalBegin, FatalCalled, FatalEntry, FatalIgnored, StopSource,
         eventVars, queueVars, ingressVars, modelVars, stopVars
  <2>3. TypeFatal'
    BY <1>18, <1>0 DEF TypeFatal, FatalBegin, FatalCalled, FatalEntry, FatalIgnored, StopSource,
         eventVars, queueVars, ingressVars, modelVars, stopVars
  <2>4. TypeEvents' /\ TypeQueues' /\ TypeWorkers' /\ TypeStop'
    BY <1>18, <1>0 DEF TypeEvents, TypeQueues, TypeWorkers, TypeStop, FatalBegin, FatalCalled,
         FatalEntry, FatalIgnored, StopSource, eventVars, queueVars, ingressVars, modelVars,
         stopVars
  <2>5. HandInv'
    BY <1>18, <1>0 DEF HandInv, Item, NoItem, TypeWorkers, FatalBegin, FatalCalled, FatalEntry,
         FatalIgnored, StopSource, eventVars, queueVars, ingressVars, modelVars, stopVars
  <2>6. ASSUME NEW t \in Sessions PROVE Controlled(t)'
    <3>1. CASE t = s
      BY <1>18, <1>0, <3>1, ControlledFatal DEF TypeState, TypeFatal, FatalBegin, eventVars,
           queueVars, ingressVars, modelVars, stopVars
    <3>2. CASE t # s
      BY <1>18, <1>0, <3>2, ControlledSame DEF TypeState, TypeCapture, TypeFatal, FatalBegin,
           FatalCalled, FatalEntry, FatalIgnored, StopSource, eventVars, queueVars, ingressVars,
           modelVars, stopVars
    <3> QED
      BY <3>1, <3>2
  <2> QED
    BY <2>1, <2>2, <2>3, <2>4, <2>5, <2>6, TypeJoined DEF BaseInv
<1>19. ASSUME NEW s \in Sessions, FatalPurgeIngress(s) PROVE BaseInv'
  <2>0. /\ Others(ingress, s) \in Seq(Item) /\ Len(Others(ingress, s)) <= Len(ingress)
        /\ Len(ingress) \in Nat /\ Len(Others(ingress, s)) \in Nat
    <3>1. ingress \in Seq(Item) /\ ingress \in Seq(Item)
      BY <1>0 DEF TypeQueues, Item
    <3>2. Others(ingress, s) \in Seq(Item)
      BY <3>1, OthersMap
    <3>3. Len(Others(ingress, s)) <= Len(ingress)
      BY <3>1, OthersKeep
    <3> QED
      BY <3>1, <3>2, <3>3
  <2>1. TypeQueues'
    BY <1>19, <1>0, <2>0 DEF TypeQueues, HandInv, Item, TypeWorkers, FatalPurgeIngress, stateVars,
         eventVars, captureVars, ingressVars, modelVars, stopVars
  <2>2. TypeFatal'
    BY <1>19, <1>0, <2>0 DEF TypeFatal, FatalPurgeIngress, stateVars, eventVars, captureVars,
         ingressVars, modelVars, stopVars
  <2>3. TypeState' /\ TypeEvents' /\ TypeCapture' /\ TypeWorkers' /\ TypeStop'
    BY <1>19, <1>0 DEF TypeState, TypeEvents, TypeCapture, TypeWorkers, TypeStop, FatalPurgeIngress,
         stateVars, eventVars, captureVars, ingressVars, modelVars, stopVars
  <2>4. HandInv'
    BY <1>19, <1>0, <2>0 DEF HandInv, Item, NoItem, TypeWorkers, FatalPurgeIngress, stateVars,
         eventVars, captureVars, ingressVars, modelVars, stopVars
  <2>5. ASSUME NEW t \in Sessions PROVE Controlled(t)'
    <3>1. CASE t = s
      BY <1>19, <1>0, <1>00, <3>1, <2>0 DEF Controlled, Terminal, LockFree, TypeQueues, TypeFatal,
           FatalPurgeIngress, stateVars, eventVars, captureVars, ingressVars, modelVars, stopVars
    <3>2. CASE t # s
      BY <1>19, <1>0, <3>2, ControlledSame, <2>0 DEF TypeQueues, TypeFatal, FatalPurgeIngress,
           stateVars, eventVars, captureVars, ingressVars, modelVars, stopVars
    <3> QED
      BY <3>1, <3>2
  <2> QED
    BY <2>1, <2>2, <2>3, <2>4, <2>5, TypeJoined DEF BaseInv
<1>20. ASSUME NEW s \in Sessions, FatalLockWork(s) PROVE BaseInv'
  <2>1. TypeQueues'
    BY <1>20, <1>0 DEF TypeQueues, HandInv, Item, TypeWorkers, FatalLockWork, stateVars, eventVars,
         captureVars, ingressVars, modelVars, stopVars, fatalVars
  <2>2. TypeState' /\ TypeEvents' /\ TypeCapture' /\ TypeWorkers' /\ TypeStop' /\ TypeFatal'
    BY <1>20, <1>0 DEF TypeState, TypeEvents, TypeCapture, TypeWorkers, TypeStop, TypeFatal,
         FatalLockWork, stateVars, eventVars, captureVars, ingressVars, modelVars, stopVars,
         fatalVars
  <2>3. HandInv'
    BY <1>20, <1>0 DEF HandInv, Item, NoItem, TypeWorkers, FatalLockWork, stateVars, eventVars,
         captureVars, ingressVars, modelVars, stopVars, fatalVars
  <2>4. ASSUME NEW t \in Sessions PROVE Controlled(t)'
    <3>1. CASE t = s
      BY <1>20, <1>0, <1>00, <3>1 DEF Controlled, Terminal, LockFree, TypeQueues, FatalLockWork,
           stateVars, eventVars, captureVars, ingressVars, modelVars, stopVars, fatalVars
    <3>2. CASE t # s
      BY <1>20, <1>0, <3>2, ControlledSame DEF TypeQueues, FatalLockWork, stateVars, eventVars,
           captureVars, ingressVars, modelVars, stopVars, fatalVars
    <3> QED
      BY <3>1, <3>2
  <2> QED
    BY <2>1, <2>2, <2>3, <2>4, TypeJoined DEF BaseInv
<1>21. ASSUME NEW s \in Sessions, FatalPurgeWork(s) PROVE BaseInv'
  <2>0. /\ Others(work, s) \in Seq((Sessions \X Numbers)) /\ Len(Others(work, s)) <= Len(work)
        /\ Len(work) \in Nat /\ Len(Others(work, s)) \in Nat
    <3>1. work \in Seq((Sessions \X Numbers)) /\ work \in Seq(Item)
      BY <1>0 DEF TypeQueues, Item
    <3>2. Others(work, s) \in Seq((Sessions \X Numbers))
      BY <3>1, OthersMap
    <3>3. Len(Others(work, s)) <= Len(work)
      BY <3>1, OthersKeep
    <3> QED
      BY <3>1, <3>2, <3>3
  <2>1. TypeState'
    BY <1>21, <1>0, <2>0 DEF TypeState, TypeQueues, FatalPurgeWork, eventVars, captureVars,
         ingressVars, modelVars, stopVars
  <2>2. TypeQueues'
    BY <1>21, <1>0, <2>0 DEF TypeQueues, HandInv, Item, TypeWorkers, FatalPurgeWork, eventVars,
         captureVars, ingressVars, modelVars, stopVars
  <2>3. TypeFatal'
    BY <1>21, <1>0, <2>0 DEF TypeFatal, FatalPurgeWork, eventVars, captureVars, ingressVars,
         modelVars, stopVars
  <2>4. TypeEvents' /\ TypeCapture' /\ TypeWorkers' /\ TypeStop'
    BY <1>21, <1>0 DEF TypeEvents, TypeCapture, TypeWorkers, TypeStop, FatalPurgeWork, eventVars,
         captureVars, ingressVars, modelVars, stopVars
  <2>5. HandInv'
    BY <1>21, <1>0, <2>0 DEF HandInv, Item, NoItem, TypeWorkers, FatalPurgeWork, eventVars,
         captureVars, ingressVars, modelVars, stopVars
  <2>6. ASSUME NEW t \in Sessions PROVE Controlled(t)'
    <3>1. CASE t = s
      BY <1>21, <1>0, <1>00, <3>1, <2>0 DEF Controlled, Terminal, LockFree, TypeState, TypeQueues,
           TypeFatal, FatalPurgeWork, eventVars, captureVars, ingressVars, modelVars, stopVars
    <3>2. CASE t # s
      BY <1>21, <1>0, <3>2, ControlledSame, <2>0 DEF TypeState, TypeQueues, TypeFatal,
           FatalPurgeWork, eventVars, captureVars, ingressVars, modelVars, stopVars
    <3> QED
      BY <3>1, <3>2
  <2> QED
    BY <2>1, <2>2, <2>3, <2>4, <2>5, <2>6, TypeJoined DEF BaseInv
<1>22. ASSUME NEW s \in Sessions, FatalEmit(s) PROVE BaseInv'
  <2>1. TypeEvents'
    BY <1>22, <1>0 DEF TypeEvents, TypeState, HandInv, FatalEmit, Complete, stateVars, captureVars,
         queueVars, ingressVars, modelVars, stopVars
  <2>2. TypeFatal'
    BY <1>22, <1>0 DEF TypeFatal, FatalEmit, Complete, stateVars, captureVars, queueVars,
         ingressVars, modelVars, stopVars
  <2>3. TypeState' /\ TypeCapture' /\ TypeQueues' /\ TypeWorkers' /\ TypeStop'
    BY <1>22, <1>0 DEF TypeState, TypeCapture, TypeQueues, TypeWorkers, TypeStop, FatalEmit,
         Complete, stateVars, captureVars, queueVars, ingressVars, modelVars, stopVars
  <2>4. HandInv'
    BY <1>22, <1>0 DEF HandInv, Item, NoItem, TypeWorkers, FatalEmit, Complete, stateVars,
         captureVars, queueVars, ingressVars, modelVars, stopVars
  <2>5. ASSUME NEW t \in Sessions PROVE Controlled(t)'
    <3>1. CASE t = s
      BY <1>22, <1>0, <1>00, <3>1 DEF Controlled, Terminal, LockFree, TypeEvents, TypeFatal,
           FatalEmit, Complete, stateVars, captureVars, queueVars, ingressVars, modelVars, stopVars
    <3>2. CASE t # s
      BY <1>22, <1>0, <3>2, ControlledSame DEF TypeEvents, TypeFatal, FatalEmit, Complete,
           stateVars, captureVars, queueVars, ingressVars, modelVars, stopVars
    <3> QED
      BY <3>1, <3>2
  <2> QED
    BY <2>1, <2>2, <2>3, <2>4, <2>5, TypeJoined DEF BaseInv
<1>23. ASSUME NEW s \in Sessions, StopCall(s) PROVE BaseInv'
  <2>1. TypeCapture'
    BY <1>23, <1>0 DEF TypeCapture, StopCall, StopUnchanged, StopGoto, StopSource, ingressVars,
         modelVars, fatalVars
  <2>2. TypeStop'
    BY <1>23, <1>0 DEF TypeStop, StopCall, StopUnchanged, StopGoto, StopSource, ingressVars,
         modelVars, fatalVars
  <2>3. TypeState' /\ TypeEvents' /\ TypeQueues' /\ TypeWorkers' /\ TypeFatal'
    BY <1>23, <1>0 DEF TypeState, TypeEvents, TypeQueues, TypeWorkers, TypeFatal, StopCall,
         StopUnchanged, StopGoto, StopSource, ingressVars, modelVars, fatalVars
  <2>4. HandInv'
    BY <1>23, <1>0 DEF HandInv, Item, NoItem, TypeWorkers, StopCall, StopUnchanged, StopGoto,
         StopSource, ingressVars, modelVars, fatalVars
  <2>5. ASSUME NEW t \in Sessions PROVE Controlled(t)'
    <3>1. CASE t = s
      BY <1>23, <1>0, <1>00, <3>1 DEF Controlled, Terminal, LockFree, TypeCapture, TypeStop,
           StopCall, StopUnchanged, StopGoto, StopSource, ingressVars, modelVars, fatalVars
    <3>2. CASE t # s
      BY <1>23, <1>0, <3>2, ControlledSame DEF TypeCapture, TypeStop, StopCall, StopUnchanged,
           StopGoto, StopSource, ingressVars, modelVars, fatalVars
    <3> QED
      BY <3>1, <3>2
  <2> QED
    BY <2>1, <2>2, <2>3, <2>4, <2>5, TypeJoined DEF BaseInv
<1>24. ASSUME NEW s \in Sessions, StopSourceEnded(s) PROVE BaseInv'
  <2>1. TypeStop'
    BY <1>24, <1>0 DEF TypeStop, StopSourceEnded, StopUnchanged, StopGoto, ingressVars, modelVars,
         fatalVars
  <2>2. TypeState' /\ TypeEvents' /\ TypeCapture' /\ TypeQueues' /\ TypeWorkers' /\ TypeFatal'
    BY <1>24, <1>0 DEF TypeState, TypeEvents, TypeCapture, TypeQueues, TypeWorkers, TypeFatal,
         StopSourceEnded, StopUnchanged, StopGoto, ingressVars, modelVars, fatalVars
  <2>3. HandInv'
    BY <1>24, <1>0 DEF HandInv, Item, NoItem, TypeWorkers, StopSourceEnded, StopUnchanged, StopGoto,
         ingressVars, modelVars, fatalVars
  <2>4. ASSUME NEW t \in Sessions PROVE Controlled(t)'
    <3>1. CASE t = s
      BY <1>24, <1>0, <1>00, <3>1 DEF Controlled, Terminal, LockFree, TypeStop, StopSourceEnded,
           StopUnchanged, StopGoto, ingressVars, modelVars, fatalVars
    <3>2. CASE t # s
      BY <1>24, <1>0, <3>2, ControlledSame DEF TypeStop, StopSourceEnded, StopUnchanged, StopGoto,
           ingressVars, modelVars, fatalVars
    <3> QED
      BY <3>1, <3>2
  <2> QED
    BY <2>1, <2>2, <2>3, <2>4, TypeJoined DEF BaseInv
<1>25. ASSUME NEW s \in Sessions, StopSourceFailed(s) PROVE BaseInv'
  <2>1. TypeState'
    BY <1>25, <1>0 DEF TypeState, StopSourceFailed, StopUnchanged, StopGoto, FatalCalled,
         FatalEntry, FatalIgnored, StopSource, ingressVars, modelVars
  <2>2. TypeCapture'
    BY <1>25, <1>0 DEF TypeCapture, StopSourceFailed, StopUnchanged, StopGoto, FatalCalled,
         FatalEntry, FatalIgnored, StopSource, ingressVars, modelVars
  <2>3. TypeStop'
    BY <1>25, <1>0 DEF TypeStop, StopSourceFailed, StopUnchanged, StopGoto, FatalCalled, FatalEntry,
         FatalIgnored, StopSource, ingressVars, modelVars
  <2>4. TypeFatal'
    BY <1>25, <1>0 DEF TypeFatal, StopSourceFailed, StopUnchanged, StopGoto, FatalCalled,
         FatalEntry, FatalIgnored, StopSource, ingressVars, modelVars
  <2>5. TypeEvents' /\ TypeQueues' /\ TypeWorkers'
    BY <1>25, <1>0 DEF TypeEvents, TypeQueues, TypeWorkers, StopSourceFailed, StopUnchanged,
         StopGoto, FatalCalled, FatalEntry, FatalIgnored, StopSource, ingressVars, modelVars
  <2>6. HandInv'
    BY <1>25, <1>0 DEF HandInv, Item, NoItem, TypeWorkers, StopSourceFailed, StopUnchanged,
         StopGoto, FatalCalled, FatalEntry, FatalIgnored, StopSource, ingressVars, modelVars
  <2>7. ASSUME NEW t \in Sessions PROVE Controlled(t)'
    <3>1. CASE t = s
      BY <1>25, <1>0, <3>1, ControlledFatal DEF TypeState, TypeFatal, TypeStop, StopSourceFailed,
           StopUnchanged, StopGoto, ingressVars, modelVars
    <3>2. CASE t # s
      BY <1>25, <1>0, <3>2, ControlledSame DEF TypeState, TypeCapture, TypeStop, TypeFatal,
           StopSourceFailed, StopUnchanged, StopGoto, FatalCalled, FatalEntry, FatalIgnored,
           StopSource, ingressVars, modelVars
    <3> QED
      BY <3>1, <3>2
  <2> QED
    BY <2>1, <2>2, <2>3, <2>4, <2>5, <2>6, <2>7, TypeJoined DEF BaseInv
<1>26. ASSUME NEW s \in Sessions, StopFatalReturns(s) PROVE BaseInv'
  <2>1. TypeStop'
    BY <1>26, <1>0 DEF TypeStop, StopFatalReturns, StopUnchanged, StopGoto, ingressVars, modelVars,
         fatalVars
  <2>2. TypeState' /\ TypeEvents' /\ TypeCapture' /\ TypeQueues' /\ TypeWorkers' /\ TypeFatal'
    BY <1>26, <1>0 DEF TypeState, TypeEvents, TypeCapture, TypeQueues, TypeWorkers, TypeFatal,
         StopFatalReturns, StopUnchanged, StopGoto, ingressVars, modelVars, fatalVars
  <2>3. HandInv'
    BY <1>26, <1>0 DEF HandInv, Item, NoItem, TypeWorkers, StopFatalReturns, StopUnchanged,
         StopGoto, ingressVars, modelVars, fatalVars
  <2>4. ASSUME NEW t \in Sessions PROVE Controlled(t)'
    <3>1. CASE t = s
      BY <1>26, <1>0, <1>00, <3>1 DEF Controlled, Terminal, LockFree, TypeStop, StopFatalReturns,
           StopUnchanged, StopGoto, ingressVars, modelVars, fatalVars
    <3>2. CASE t # s
      BY <1>26, <1>0, <3>2, ControlledSame DEF TypeStop, StopFatalReturns, StopUnchanged, StopGoto,
           ingressVars, modelVars, fatalVars
    <3> QED
      BY <3>1, <3>2
  <2> QED
    BY <2>1, <2>2, <2>3, <2>4, TypeJoined DEF BaseInv
<1>27. ASSUME NEW s \in Sessions, StopFlush(s) PROVE BaseInv'
  <2>1. TypeState'
    BY <1>27, <1>0 DEF TypeState, StopFlush, StopUnchanged, StopGoto, ingressVars, modelVars,
         fatalVars
  <2>2. TypeStop'
    BY <1>27, <1>0 DEF TypeStop, StopFlush, StopUnchanged, StopGoto, ingressVars, modelVars,
         fatalVars
  <2>3. TypeEvents' /\ TypeCapture' /\ TypeQueues' /\ TypeWorkers' /\ TypeFatal'
    BY <1>27, <1>0 DEF TypeEvents, TypeCapture, TypeQueues, TypeWorkers, TypeFatal, StopFlush,
         StopUnchanged, StopGoto, ingressVars, modelVars, fatalVars
  <2>4. HandInv'
    BY <1>27, <1>0 DEF HandInv, Item, NoItem, TypeWorkers, StopFlush, StopUnchanged, StopGoto,
         ingressVars, modelVars, fatalVars
  <2>5. ASSUME NEW t \in Sessions PROVE Controlled(t)'
    <3>1. CASE t = s
      BY <1>27, <1>0, <1>00, <3>1 DEF Controlled, Terminal, LockFree, TypeState, TypeStop,
           StopFlush, StopUnchanged, StopGoto, ingressVars, modelVars, fatalVars
    <3>2. CASE t # s
      BY <1>27, <1>0, <3>2, ControlledSame DEF TypeState, TypeStop, StopFlush, StopUnchanged,
           StopGoto, ingressVars, modelVars, fatalVars
    <3> QED
      BY <3>1, <3>2
  <2> QED
    BY <2>1, <2>2, <2>3, <2>4, <2>5, TypeJoined DEF BaseInv
<1>28. ASSUME NEW s \in Sessions, StopSkip(s) PROVE BaseInv'
  <2>1. TypeStop'
    BY <1>28, <1>0 DEF TypeStop, Controlled, StopSkip, StopUnchanged, StopGoto, ingressVars,
         modelVars, fatalVars
  <2>2. TypeState' /\ TypeEvents' /\ TypeCapture' /\ TypeQueues' /\ TypeWorkers' /\ TypeFatal'
    BY <1>28, <1>0 DEF TypeState, TypeEvents, TypeCapture, TypeQueues, TypeWorkers, TypeFatal,
         StopSkip, StopUnchanged, StopGoto, ingressVars, modelVars, fatalVars
  <2>3. HandInv'
    BY <1>28, <1>0 DEF HandInv, Item, NoItem, TypeWorkers, StopSkip, StopUnchanged, StopGoto,
         ingressVars, modelVars, fatalVars
  <2>4. ASSUME NEW t \in Sessions PROVE Controlled(t)'
    <3>1. CASE t = s
      BY <1>28, <1>0, <1>00, <3>1 DEF Controlled, Terminal, LockFree, TypeStop, StopSkip,
           StopUnchanged, StopGoto, ingressVars, modelVars, fatalVars
    <3>2. CASE t # s
      BY <1>28, <1>0, <3>2, ControlledSame DEF TypeStop, StopSkip, StopUnchanged, StopGoto,
           ingressVars, modelVars, fatalVars
    <3> QED
      BY <3>1, <3>2
  <2> QED
    BY <2>1, <2>2, <2>3, <2>4, TypeJoined DEF BaseInv
<1>29. ASSUME NEW s \in Sessions, StopNumber(s) PROVE BaseInv'
  <2>0. lastSequence[s] + 1 \in Numbers /\ lastSequence'[s] = lastSequence[s] + 1
    <3>1. lastSequence[s] + 1 \in Nat /\ lastSequence[s] + 1 <= MaxSequence[s]
      BY <1>29, <1>0, <1>00 DEF Controlled, LockFree, StopNumber
    <3>2. lastSequence'[s] = lastSequence[s] + 1
      BY <1>29, <1>0 DEF TypeState, NumberChunk, StopNumber
    <3> QED
      BY <3>1, <3>2, NumbersAreNat
  <2>1. TypeState'
    BY <1>29, <1>0, <2>0 DEF TypeState, Controlled, TypeCapture, TypeStop, StopNumber,
         StopUnchanged, StopGoto, NumberChunk, ingressVars, modelVars, fatalVars
  <2>2. TypeQueues'
    BY <1>29, <1>0, <2>0 DEF TypeQueues, HandInv, Item, TypeWorkers, StopNumber, StopUnchanged,
         StopGoto, NumberChunk, ingressVars, modelVars, fatalVars
  <2>3. TypeStop'
    BY <1>29, <1>0, <2>0 DEF TypeStop, StopNumber, StopUnchanged, StopGoto, NumberChunk,
         ingressVars, modelVars, fatalVars
  <2>4. TypeEvents' /\ TypeCapture' /\ TypeWorkers' /\ TypeFatal'
    BY <1>29, <1>0 DEF TypeEvents, TypeCapture, TypeWorkers, TypeFatal, StopNumber, StopUnchanged,
         StopGoto, NumberChunk, ingressVars, modelVars, fatalVars
  <2>5. HandInv'
    BY <1>29, <1>0, <2>0 DEF HandInv, Item, NoItem, TypeWorkers, StopNumber, StopUnchanged,
         StopGoto, NumberChunk, ingressVars, modelVars, fatalVars
  <2>6. ASSUME NEW t \in Sessions PROVE Controlled(t)'
    <3>1. CASE t = s
      <4>1. /\ stopPc[s] = "enqueue" /\ callback[s] = 0 /\ tail[s] > 0 /\ stopPc'[s] = "put"
            /\ UNCHANGED <<callback, tail, stopping, endEnqueued, fatalPc, fatal, active,
                          completions>>
            /\ workMutex' = workMutex
        BY <1>29, <1>0 DEF TypeStop, StopNumber, StopUnchanged, StopGoto, LockFree, fatalVars
      <4>2. Controlled(s) /\ tail[s] \in 0..MaxTail /\ lastSequence[s] \in Int /\ lastSequence[s] >= -1
        BY <1>0, <1>00
      <4>3. /\ lastSequence'[s] + callback'[s] <= MaxSequence[s] /\ lastSequence'[s] >= 0
            /\ lastSequence'[s] + tail'[s] <= MaxSequence[s] + 1
        BY <2>0, <4>1, <4>2, <1>00 DEF Controlled
      <4> QED
        BY <3>1, <4>1, <4>2, <4>3 DEF Controlled
    <3>2. CASE t # s
      BY <1>29, <1>0, <3>2, ControlledSame, <2>0 DEF TypeState, TypeQueues, TypeStop, StopNumber,
           StopUnchanged, StopGoto, NumberChunk, ingressVars, modelVars, fatalVars
    <3> QED
      BY <3>1, <3>2
  <2> QED
    BY <2>1, <2>2, <2>3, <2>4, <2>5, <2>6, TypeJoined DEF BaseInv
<1>30. ASSUME NEW s \in Sessions, StopPut(s) PROVE BaseInv'
  <2>0. lastSequence[s] \in Numbers /\ tail[s] = 1
    <3>1. tail[s] = 1 /\ lastSequence[s] \in Nat /\ lastSequence[s] <= MaxSequence[s]
      BY <1>30, <1>0, <1>00 DEF Controlled, StopPut
    <3> QED
      BY <3>1, NumbersAreNat
  <2>1. TypeQueues'
    BY <1>30, <1>0, <2>0 DEF TypeQueues, HandInv, Item, TypeWorkers, TypeState, Controlled,
         TypeCapture, TypeStop, StopPut, StopUnchanged, StopGoto, IngressRoom, ingressVars,
         modelVars, fatalVars
  <2>2. TypeStop'
    BY <1>30, <1>0, <2>0 DEF TypeStop, Controlled, StopPut, StopUnchanged, StopGoto, IngressRoom,
         ingressVars, modelVars, fatalVars
  <2>3. TypeState' /\ TypeEvents' /\ TypeCapture' /\ TypeWorkers' /\ TypeFatal'
    BY <1>30, <1>0 DEF TypeState, TypeEvents, TypeCapture, TypeWorkers, TypeFatal, StopPut,
         StopUnchanged, StopGoto, IngressRoom, ingressVars, modelVars, fatalVars
  <2>4. HandInv'
    BY <1>30, <1>0, <2>0 DEF HandInv, Item, NoItem, TypeWorkers, StopPut, StopUnchanged, StopGoto,
         IngressRoom, ingressVars, modelVars, fatalVars
  <2>5. ASSUME NEW t \in Sessions PROVE Controlled(t)'
    <3>1. CASE t = s
      BY <1>30, <1>0, <1>00, <3>1, <2>0 DEF Controlled, Terminal, LockFree, TypeQueues, TypeStop,
           StopPut, StopUnchanged, StopGoto, IngressRoom, ingressVars, modelVars, fatalVars
    <3>2. CASE t # s
      BY <1>30, <1>0, <3>2, ControlledSame, <2>0 DEF TypeQueues, TypeStop, StopPut, StopUnchanged,
           StopGoto, IngressRoom, ingressVars, modelVars, fatalVars
    <3> QED
      BY <3>1, <3>2
  <2> QED
    BY <2>1, <2>2, <2>3, <2>4, <2>5, TypeJoined DEF BaseInv
<1>31. ASSUME NEW s \in Sessions, StopPutTimeout(s) PROVE BaseInv'
  <2>0. lastSequence[s] \in Numbers /\ tail[s] = 1
    <3>1. tail[s] = 1 /\ lastSequence[s] \in Nat /\ lastSequence[s] <= MaxSequence[s]
      BY <1>31, <1>0, <1>00 DEF Controlled, StopPutTimeout
    <3> QED
      BY <3>1, NumbersAreNat
  <2>1. TypeEvents'
    BY <1>31, <1>0, <2>0 DEF TypeEvents, StopPutTimeout, StopUnchanged, StopGoto, ingressVars,
         modelVars
  <2>2. TypeQueues'
    BY <1>31, <1>0, <2>0 DEF TypeQueues, StopPutTimeout, StopUnchanged, StopGoto, ingressVars,
         modelVars
  <2>3. TypeStop'
    BY <1>31, <1>0, <2>0 DEF TypeStop, StopPutTimeout, StopUnchanged, StopGoto, ingressVars,
         modelVars
  <2>4. TypeFatal'
    BY <1>31, <1>0, <2>0 DEF TypeFatal, StopPutTimeout, StopUnchanged, StopGoto, ingressVars,
         modelVars
  <2>5. TypeState' /\ TypeCapture' /\ TypeWorkers'
    BY <1>31, <1>0 DEF TypeState, TypeCapture, TypeWorkers, StopPutTimeout, StopUnchanged, StopGoto,
         IngressRoom, ingressVars, modelVars
  <2>6. HandInv'
    BY <1>31, <1>0, <2>0 DEF HandInv, Item, NoItem, TypeWorkers, StopPutTimeout, StopUnchanged,
         StopGoto, IngressRoom, ingressVars, modelVars
  <2>7. ASSUME NEW t \in Sessions PROVE Controlled(t)'
    <3>1. CASE t = s
      BY <1>31, <1>0, <1>00, <3>1, <2>0 DEF Controlled, Terminal, LockFree, TypeEvents, TypeQueues,
           TypeStop, TypeFatal, StopPutTimeout, StopUnchanged, StopGoto, IngressRoom, ingressVars,
           modelVars
    <3>2. CASE t # s
      BY <1>31, <1>0, <3>2, ControlledSame, <2>0 DEF TypeEvents, TypeQueues, TypeStop, TypeFatal,
           StopPutTimeout, StopUnchanged, StopGoto, IngressRoom, ingressVars, modelVars
    <3> QED
      BY <3>1, <3>2
  <2> QED
    BY <2>1, <2>2, <2>3, <2>4, <2>5, <2>6, <2>7, TypeJoined DEF BaseInv
<1>32. ASSUME NEW s \in Sessions, StopEnd(s) PROVE BaseInv'
  <2>1. TypeQueues'
    BY <1>32, <1>0 DEF TypeQueues, HandInv, Item, TypeWorkers, TypeState, StopEnd, StopUnchanged,
         StopGoto, IngressRoom, ingressVars, modelVars, fatalVars
  <2>2. TypeStop'
    BY <1>32, <1>0 DEF TypeStop, StopEnd, StopUnchanged, StopGoto, IngressRoom, ingressVars,
         modelVars, fatalVars
  <2>3. TypeState' /\ TypeEvents' /\ TypeCapture' /\ TypeWorkers' /\ TypeFatal'
    BY <1>32, <1>0 DEF TypeState, TypeEvents, TypeCapture, TypeWorkers, TypeFatal, StopEnd,
         StopUnchanged, StopGoto, IngressRoom, ingressVars, modelVars, fatalVars
  <2>4. HandInv'
    BY <1>32, <1>0 DEF HandInv, Item, NoItem, TypeWorkers, StopEnd, StopUnchanged, StopGoto,
         IngressRoom, ingressVars, modelVars, fatalVars
  <2>5. ASSUME NEW t \in Sessions PROVE Controlled(t)'
    <3>1. CASE t = s
      BY <1>32, <1>0, <1>00, <3>1 DEF Controlled, Terminal, LockFree, TypeQueues, TypeStop, StopEnd,
           StopUnchanged, StopGoto, IngressRoom, ingressVars, modelVars, fatalVars
    <3>2. CASE t # s
      BY <1>32, <1>0, <3>2, ControlledSame DEF TypeQueues, TypeStop, StopEnd, StopUnchanged,
           StopGoto, IngressRoom, ingressVars, modelVars, fatalVars
    <3> QED
      BY <3>1, <3>2
  <2> QED
    BY <2>1, <2>2, <2>3, <2>4, <2>5, TypeJoined DEF BaseInv
<1>33. ASSUME NEW s \in Sessions, StopWait(s) PROVE BaseInv'
  <2>1. TypeStop'
    BY <1>33, <1>0 DEF TypeStop, StopWait, StopUnchanged, StopGoto, ingressVars, modelVars,
         fatalVars
  <2>2. TypeState' /\ TypeEvents' /\ TypeCapture' /\ TypeQueues' /\ TypeWorkers' /\ TypeFatal'
    BY <1>33, <1>0 DEF TypeState, TypeEvents, TypeCapture, TypeQueues, TypeWorkers, TypeFatal,
         StopWait, StopUnchanged, StopGoto, ingressVars, modelVars, fatalVars
  <2>3. HandInv'
    BY <1>33, <1>0 DEF HandInv, Item, NoItem, TypeWorkers, StopWait, StopUnchanged, StopGoto,
         ingressVars, modelVars, fatalVars
  <2>4. ASSUME NEW t \in Sessions PROVE Controlled(t)'
    <3>1. CASE t = s
      BY <1>33, <1>0, <1>00, <3>1 DEF Controlled, Terminal, LockFree, TypeStop, StopWait,
           StopUnchanged, StopGoto, ingressVars, modelVars, fatalVars
    <3>2. CASE t # s
      BY <1>33, <1>0, <3>2, ControlledSame DEF TypeStop, StopWait, StopUnchanged, StopGoto,
           ingressVars, modelVars, fatalVars
    <3> QED
      BY <3>1, <3>2
  <2> QED
    BY <2>1, <2>2, <2>3, <2>4, TypeJoined DEF BaseInv
<1>34. ASSUME NEW s \in Sessions, StopTimesOut(s) PROVE BaseInv'
  <2>1. TypeStop'
    BY <1>34, <1>0 DEF TypeStop, StopTimesOut, StopUnchanged, StopGoto, IngressRoom, ingressVars,
         modelVars, fatalVars
  <2>2. TypeState' /\ TypeEvents' /\ TypeCapture' /\ TypeQueues' /\ TypeWorkers' /\ TypeFatal'
    BY <1>34, <1>0 DEF TypeState, TypeEvents, TypeCapture, TypeQueues, TypeWorkers, TypeFatal,
         StopTimesOut, StopUnchanged, StopGoto, IngressRoom, ingressVars, modelVars, fatalVars
  <2>3. HandInv'
    BY <1>34, <1>0 DEF HandInv, Item, NoItem, TypeWorkers, StopTimesOut, StopUnchanged, StopGoto,
         IngressRoom, ingressVars, modelVars, fatalVars
  <2>4. ASSUME NEW t \in Sessions PROVE Controlled(t)'
    <3>1. CASE t = s
      BY <1>34, <1>0, <1>00, <3>1 DEF Controlled, Terminal, LockFree, TypeStop, StopTimesOut,
           StopUnchanged, StopGoto, IngressRoom, ingressVars, modelVars, fatalVars
    <3>2. CASE t # s
      BY <1>34, <1>0, <3>2, ControlledSame DEF TypeStop, StopTimesOut, StopUnchanged, StopGoto,
           IngressRoom, ingressVars, modelVars, fatalVars
    <3> QED
      BY <3>1, <3>2
  <2> QED
    BY <2>1, <2>2, <2>3, <2>4, TypeJoined DEF BaseInv
<1>35. ASSUME NEW s \in Sessions, StopChunkFails(s) PROVE BaseInv'
  <2>1. TypeStop'
    BY <1>35, <1>0 DEF TypeStop, StopChunkFails, StopUnchanged, StopGoto, ingressVars, modelVars
  <2>2. TypeFatal'
    BY <1>35, <1>0 DEF TypeFatal, StopChunkFails, StopUnchanged, StopGoto, ingressVars, modelVars
  <2>3. TypeState' /\ TypeEvents' /\ TypeCapture' /\ TypeQueues' /\ TypeWorkers'
    BY <1>35, <1>0 DEF TypeState, TypeEvents, TypeCapture, TypeQueues, TypeWorkers, StopChunkFails,
         StopUnchanged, StopGoto, ingressVars, modelVars
  <2>4. HandInv'
    BY <1>35, <1>0 DEF HandInv, Item, NoItem, TypeWorkers, StopChunkFails, StopUnchanged, StopGoto,
         ingressVars, modelVars
  <2>5. ASSUME NEW t \in Sessions PROVE Controlled(t)'
    <3>1. CASE t = s
      BY <1>35, <1>0, <1>00, <3>1 DEF Controlled, Terminal, LockFree, TypeStop, TypeFatal,
           StopChunkFails, StopUnchanged, StopGoto, ingressVars, modelVars
    <3>2. CASE t # s
      BY <1>35, <1>0, <3>2, ControlledSame DEF TypeStop, TypeFatal, StopChunkFails, StopUnchanged,
           StopGoto, ingressVars, modelVars
    <3> QED
      BY <3>1, <3>2
  <2> QED
    BY <2>1, <2>2, <2>3, <2>4, <2>5, TypeJoined DEF BaseInv
<1>36. ASSUME UNCHANGED vars PROVE BaseInv'
  BY <1>36 DEF BaseInv, TypeOK, HandInv, Controlled, vars, stateVars, eventVars, captureVars,
       queueVars, ingressVars, modelVars, stopVars, fatalVars
<1> QED
  BY <1>1, <1>2, <1>3, <1>4, <1>5, <1>6, <1>7, <1>8, <1>9, <1>10, <1>11, <1>12, <1>13, <1>14, <1>15,
       <1>16, <1>17, <1>18, <1>19, <1>20, <1>21, <1>22, <1>23, <1>24, <1>25, <1>26, <1>27, <1>28,
       <1>29, <1>30, <1>31, <1>32, <1>33, <1>34, <1>35, <1>36
     DEF Next, IngressWorker, ModelWorker, Fatal, Stop

(* The types, what is in hand and the control of the sessions, to begin with. *)
LEMMA BaseStart ==
  ASSUME Init
  PROVE  BaseInv
<1>1. TypeOK
  BY SessionPipelineAssumption DEF Init, TypeOK, MaxBatch, MaxTail, NoItem
<1>2. HandInv
  BY DEF Init, HandInv
<1>3. ASSUME NEW s \in Sessions PROVE Controlled(s)
  <2>1. MaxSequence[s] \in Nat
    BY SessionPipelineAssumption
  <2> QED
    BY <2>1, SessionPipelineAssumption DEF Init, Controlled
<1> QED
  BY <1>1, <1>2, <1>3 DEF BaseInv

(* They hold in every state.                                                *)
LEMMA BaseInvariant == Spec => []BaseInv
<1>1. Init => BaseInv
  BY BaseStart
<1>2. BaseInv /\ [Next]_vars => BaseInv'
  BY BaseStep
<1> QED
  BY <1>1, <1>2, PTL DEF Spec

(* Every variable keeps its type, and the queues their capacity, for any    *)
(* sessions, capacities and bounds.                                         *)
THEOREM TypeCorrect == Spec => []TypeOK
<1>1. BaseInv => TypeOK
  BY DEF BaseInv
<1> QED
  BY <1>1, BaseInvariant, PTL

\* The ingress worker has the end of s in hand, or something else of s.
EndTaken(s) == ingressPc \in {"end", "conclude"} /\ ingressItem[1] = s
ChunkTaken(s) == ingressPc \notin {"idle", "end", "conclude"} /\ ingressItem[1] = s

\* A worker is about to complete s, or has.
Concluding(s) ==
  \/ ingressPc = "conclude" /\ ingressItem[1] = s
  \/ modelPc = "conclude" /\ modelItem[1] = s
  \/ completions[s] = <<"stopped">>

(* The end of a session is the last of its items; once it has been taken    *)
(* nothing of the session is left before the count, and a session is        *)
(* concluded with nothing pending.                                          *)
Ended(s) ==
  /\ HasEnd(ingress, s) => endEnqueued[s]
  /\ EndLast(ingress, s)
  /\ captureDone[s] \/ EndTaken(s) => endEnqueued[s] /\ Gone(ingress, s)
  /\ captureDone[s] => ~ChunkTaken(s)
  /\ Concluding(s) => captureDone[s] /\ pending[s] = 0

(* A step that leaves the queue and the flags of a session alone, and takes *)
(* up nothing of it, keeps this.                                            *)
LEMMA EndedSame ==
  ASSUME NEW s \in Sessions, Ended(s), ingress' = ingress,
         UNCHANGED <<endEnqueued[s], captureDone[s]>>, pending[s] = 0 => pending'[s] = 0,
         EndTaken(s)' => EndTaken(s), ChunkTaken(s)' => ChunkTaken(s), Concluding(s)' => Concluding(s)
  PROVE  Ended(s)'
BY DEF Ended

(* An item is appended for a session whose end has not been enqueued.       *)
LEMMA EndedAppend ==
  ASSUME NEW s \in Sessions, NEW t \in Sessions, NEW n \in Numbers \union {End},
         ingress \in Seq(Item), Ended(t), ~endEnqueued[s],
         ingress' = Append(ingress, <<s, n>>),
         t # s => endEnqueued'[t] = endEnqueued[t], n = End => endEnqueued'[s],
         endEnqueued'[t] \/ ~endEnqueued[t],
         UNCHANGED <<captureDone[t], pending[t], ingressVars, modelVars, completions[t]>>
  PROVE  Ended(t)'
<1>1. <<s, n>> \in Item
  BY DEF Item
<1>2. t = s => ~HasEnd(ingress, t) /\ ~captureDone[t] /\ ~EndTaken(t) /\ ~Concluding(t)
  BY DEF Ended
<1>3. /\ EndLast(ingress, t) => EndLast(ingress', t)
      /\ HasEnd(ingress', t) => HasEnd(ingress, t) \/ <<s, n>> = <<t, End>>
      /\ Gone(ingress, t) /\ s # t => Gone(ingress', t)
  BY <1>1, <1>2, EndAppend
<1>4. /\ EndTaken(t)' <=> EndTaken(t)
      /\ ChunkTaken(t)' <=> ChunkTaken(t)
      /\ Concluding(t)' <=> Concluding(t)
  BY DEF EndTaken, ChunkTaken, Concluding, ingressVars, modelVars
<1>5. CASE t # s
  BY <1>3, <1>4, <1>5 DEF Ended
<1>6. CASE t = s
  <2>1. HasEnd(ingress', t) => endEnqueued'[t]
    BY <1>2, <1>3, <1>6
  <2>2. ~captureDone'[t] /\ ~EndTaken(t)' /\ ~Concluding(t)'
    BY <1>2, <1>4, <1>6
  <2> QED
    BY <1>3, <2>1, <2>2 DEF Ended
<1> QED
  BY <1>5, <1>6

(* The next number of a session that has chunks to number.                  *)
LEMMA NextNumber ==
  ASSUME BaseInv, NEW s \in Sessions,
         callback[s] > 0 \/ (callback[s] = 0 /\ stopPc[s] = "enqueue" /\ tail[s] > 0)
  PROVE  lastSequence[s] + 1 \in Numbers /\ lastSequence[s] + 1 \in Nat /\ lastSequence[s] \in Int
<1>1. /\ Controlled(s) /\ lastSequence[s] \in Numbers \union {-1}
      /\ callback[s] \in 0..2 /\ tail[s] \in 0..1
  BY TypeSplit DEF BaseInv, TypeState, TypeCapture, TypeStop, MaxBatch, MaxTail
<1>2. MaxSequence[s] \in Nat
  BY SessionPipelineAssumption
<1>3. lastSequence[s] \in Nat \/ lastSequence[s] = -1
  BY <1>1, NumbersAreNat
<1>4. lastSequence[s] + 1 \in Nat /\ lastSequence[s] + 1 <= MaxSequence[s]
  BY <1>1, <1>2, <1>3 DEF Controlled
<1> QED
  BY <1>3, <1>4, NumbersAreNat

(* Every step keeps the ends where they belong.                             *)
LEMMA EndedStep ==
  ASSUME BaseInv, \A s \in Sessions : Ended(s), [Next]_vars
  PROVE  \A s \in Sessions : Ended(s)'
<1> DEFINE Goal == \A t \in Sessions : Ended(t)'
<1> HIDE DEF Goal
<1>0. /\ HandInv /\ \A t \in Sessions : Controlled(t) /\ Ended(t)
      /\ TypeState /\ TypeEvents /\ TypeCapture /\ TypeQueues /\ TypeWorkers /\ TypeStop
      /\ TypeFatal
  BY TypeSplit DEF BaseInv
<1>1. ASSUME IngressTake PROVE Goal
  <2>1. ingress \in Seq(Item) /\ ingress # <<>> /\ Head(ingress) \in Item
    <3>1. ingress \in Seq(Item) /\ ingress # <<>>
      BY <1>1, <1>0 DEF IngressTake, TypeQueues
    <3> QED
      BY <3>1, ChunksTail
  <2>2. ASSUME NEW t \in Sessions PROVE Ended(t)'
    <3>1. /\ EndLast(ingress, t) => EndLast(ingress', t) /\ (ingressItem' = <<t, End>> => Gone(ingress', t))
          /\ HasEnd(ingress', t) \/ ingressItem' = <<t, End>> => HasEnd(ingress, t)
          /\ Gone(ingress, t) => Gone(ingress', t) /\ ingressItem'[1] # t
      BY <1>1, <2>1, EndTail DEF IngressTake
    <3>2. /\ ingressItem' \in Item /\ ingressPc' = IF ingressItem'[2] = End THEN "end" ELSE "taken"
          /\ UNCHANGED <<endEnqueued, captureDone, pending, modelPc, modelItem, completions>>
          /\ ~EndTaken(t) /\ ~ChunkTaken(t)
      BY <1>1, <2>1 DEF IngressTake, IngressUnchanged, stopVars, modelVars, EndTaken, ChunkTaken
    <3>3. EndTaken(t)' => ingressItem' = <<t, End>>
      BY <3>2 DEF EndTaken, Item
    <3>4. ChunkTaken(t)' => ingressItem'[1] = t
      BY DEF ChunkTaken
    <3>5. Concluding(t)' => Concluding(t)
      BY <3>2 DEF Concluding
    <3>6. Ended(t)
      BY <1>0
    <3> QED
      BY <3>1, <3>2, <3>3, <3>4, <3>5, <3>6 DEF Ended
  <2> QED
    BY <2>2 DEF Goal
<1>2. ASSUME IngressPut PROVE Goal
  <2>1. ASSUME NEW t \in Sessions PROVE Ended(t)'
    <3>1. /\ UNCHANGED <<ingress, endEnqueued, captureDone>> /\ (pending[t] = 0 => pending'[t] = 0)
          /\ EndTaken(t)' => EndTaken(t)
          /\ ChunkTaken(t)' => ChunkTaken(t)
          /\ Concluding(t)' => Concluding(t)
      BY <1>2, <1>0 DEF EndTaken, ChunkTaken, Concluding, IngressPut, IngressUnchanged, IngressGoto,
           IngressDone, modelVars, stopVars
    <3> QED
      BY <1>0, <3>1, EndedSame
  <2> QED
    BY <2>1 DEF Goal
<1>3. ASSUME ModelTake PROVE Goal
  <2>1. ASSUME NEW t \in Sessions PROVE Ended(t)'
    <3>1. /\ UNCHANGED <<ingress, endEnqueued, captureDone>> /\ (pending[t] = 0 => pending'[t] = 0)
          /\ EndTaken(t)' => EndTaken(t)
          /\ ChunkTaken(t)' => ChunkTaken(t)
          /\ Concluding(t)' => Concluding(t)
      BY <1>3, <1>0 DEF EndTaken, ChunkTaken, Concluding, ModelTake, ModelUnchanged, ModelDone,
           captureVars, ingressVars, stopVars, fatalVars
    <3> QED
      BY <1>0, <3>1, EndedSame
  <2> QED
    BY <2>1 DEF Goal
<1>4. ASSUME NEW s \in Sessions, IngressEnd(s) PROVE Goal
  <2>1. ASSUME NEW t \in Sessions PROVE Ended(t)'
    <3>1. /\ Ended(t) /\ EndTaken(s) /\ ingress' = ingress
          /\ captureDone'[s] = TRUE /\ (t # s => captureDone'[t] = captureDone[t])
          /\ UNCHANGED <<endEnqueued, pending, modelPc, modelItem, completions>>
          /\ ingressPc' = "idle" \/ (ingressPc' = "conclude" /\ ingressItem'[1] = s /\ pending[s] = 0)
      BY <1>4, <1>0 DEF IngressEnd, IngressUnchanged, IngressGoto, IngressDone, EndTaken, TypeState,
           modelVars, stopVars
    <3>2. (EndTaken(t)' => t = s) /\ ~ChunkTaken(t)'
      BY <3>1 DEF EndTaken, ChunkTaken
    <3>3. Concluding(t)' => Concluding(t) \/ (t = s /\ pending'[s] = 0)
      BY <3>1 DEF Concluding
    <3> QED
      BY <3>1, <3>2, <3>3 DEF Ended
  <2> QED
    BY <2>1 DEF Goal
<1>5. ASSUME NEW s \in Sessions, IngressConclude(s) PROVE Goal
  <2>1. ASSUME NEW t \in Sessions PROVE Ended(t)'
    <3>1. /\ Ended(t) /\ Concluding(s) /\ ingress' = ingress /\ ingressPc' = "idle"
          /\ UNCHANGED <<endEnqueued, captureDone, pending, modelPc, modelItem>>
          /\ t # s => completions'[t] = completions[t]
      BY <1>5, <1>0 DEF IngressConclude, IngressUnchanged, IngressDone, Complete, Concluding,
           TypeEvents, modelVars, stopVars
    <3>2. ~EndTaken(t)' /\ ~ChunkTaken(t)' /\ (Concluding(t)' => Concluding(t))
      BY <3>1 DEF EndTaken, ChunkTaken, Concluding
    <3> QED
      BY <3>1, <3>2, EndedSame
  <2> QED
    BY <2>1 DEF Goal
<1>6. ASSUME NEW s \in Sessions, IngressDetect(s) PROVE Goal
  <2>1. ASSUME NEW t \in Sessions PROVE Ended(t)'
    <3>1. /\ UNCHANGED <<ingress, endEnqueued, captureDone>> /\ (pending[t] = 0 => pending'[t] = 0)
          /\ EndTaken(t)' => EndTaken(t)
          /\ ChunkTaken(t)' => ChunkTaken(t)
          /\ Concluding(t)' => Concluding(t)
      BY <1>6, <1>0 DEF EndTaken, ChunkTaken, Concluding, IngressDetect, IngressUnchanged,
           IngressGoto, IngressDone, modelVars, stopVars
    <3> QED
      BY <1>0, <3>1, EndedSame
  <2> QED
    BY <2>1 DEF Goal
<1>7. ASSUME NEW s \in Sessions, IngressCount(s) PROVE Goal
  <2>1. ASSUME NEW t \in Sessions PROVE Ended(t)'
    <3>1. /\ Ended(t) /\ ingress' = ingress /\ ChunkTaken(s) /\ (t # s => pending'[t] = pending[t])
          /\ UNCHANGED <<endEnqueued, captureDone, modelPc, modelItem, completions>>
          /\ ingressPc' = "idle" \/ (ingressPc' = "put" /\ ingressItem' = ingressItem)
      BY <1>7, <1>0 DEF IngressCount, IngressUnchanged, IngressGoto, IngressDone, ChunkTaken,
           TypeState, modelVars, stopVars
    <3>2. ~EndTaken(t)' /\ (ChunkTaken(t)' => ChunkTaken(t)) /\ (Concluding(t)' => Concluding(t))
      BY <3>1 DEF EndTaken, ChunkTaken, Concluding
    <3> QED
      BY <3>1, <3>2 DEF Ended
  <2> QED
    BY <2>1 DEF Goal
<1>8. ASSUME NEW s \in Sessions, IngressPutTimeout(s) PROVE Goal
  <2>1. ASSUME NEW t \in Sessions PROVE Ended(t)'
    <3>1. /\ UNCHANGED <<ingress, endEnqueued, captureDone>> /\ (pending[t] = 0 => pending'[t] = 0)
          /\ EndTaken(t)' => EndTaken(t)
          /\ ChunkTaken(t)' => ChunkTaken(t)
          /\ Concluding(t)' => Concluding(t)
      BY <1>8, <1>0 DEF EndTaken, ChunkTaken, Concluding, TypeState, IngressPutTimeout,
           IngressUnchanged, IngressGoto, IngressDone, modelVars, stopVars
    <3> QED
      BY <1>0, <3>1, EndedSame
  <2> QED
    BY <2>1 DEF Goal
<1>9. ASSUME NEW s \in Sessions, IngressFails(s) PROVE Goal
  <2>1. ASSUME NEW t \in Sessions PROVE Ended(t)'
    <3>1. /\ UNCHANGED <<ingress, endEnqueued, captureDone>> /\ (pending[t] = 0 => pending'[t] = 0)
          /\ EndTaken(t)' => EndTaken(t)
          /\ ChunkTaken(t)' => ChunkTaken(t)
          /\ Concluding(t)' => Concluding(t)
      BY <1>9, <1>0 DEF EndTaken, ChunkTaken, Concluding, IngressFails, IngressUnchanged,
           IngressGoto, IngressDone, modelVars, stopVars
    <3> QED
      BY <1>0, <3>1, EndedSame
  <2> QED
    BY <2>1 DEF Goal
<1>10. ASSUME NEW s \in Sessions, IngressFailed(s) PROVE Goal
  <2>1. ASSUME NEW t \in Sessions PROVE Ended(t)'
    <3>1. /\ UNCHANGED <<ingress, endEnqueued, captureDone>> /\ (pending[t] = 0 => pending'[t] = 0)
          /\ EndTaken(t)' => EndTaken(t)
          /\ ChunkTaken(t)' => ChunkTaken(t)
          /\ Concluding(t)' => Concluding(t)
      BY <1>10, <1>0 DEF EndTaken, ChunkTaken, Concluding, IngressFailed, IngressUnchanged,
           IngressGoto, IngressDone, modelVars, stopVars
    <3> QED
      BY <1>0, <3>1, EndedSame
  <2> QED
    BY <2>1 DEF Goal
<1>11. ASSUME NEW s \in Sessions, ModelComplete(s) PROVE Goal
  <2>1. ASSUME NEW t \in Sessions PROVE Ended(t)'
    <3>1. /\ Ended(t) /\ ingress' = ingress
          /\ UNCHANGED <<endEnqueued, captureDone, ingressPc, ingressItem, completions>>
      BY <1>11, <1>0 DEF ModelComplete, ModelUnchanged, ingressVars, stopVars
    <3>2. pending[t] = 0 => pending'[t] = 0
      BY <1>11, <1>0 DEF ModelComplete, TypeState
    <3>3. modelPc' = "conclude" /\ modelItem'[1] = t => t = s /\ captureDone[s] /\ pending'[s] = 0
      BY <1>11, <1>0 DEF ModelComplete, ModelDone
    <3>4. (EndTaken(t)' => EndTaken(t)) /\ (ChunkTaken(t)' => ChunkTaken(t))
      BY <3>1 DEF EndTaken, ChunkTaken
    <3>5. Concluding(t)' => Concluding(t) \/ (captureDone[t] /\ pending'[t] = 0)
      BY <3>1, <3>3 DEF Concluding
    <3> QED
      BY <3>1, <3>2, <3>4, <3>5 DEF Ended
  <2> QED
    BY <2>1 DEF Goal
<1>12. ASSUME NEW s \in Sessions, ModelConclude(s) PROVE Goal
  <2>1. ASSUME NEW t \in Sessions PROVE Ended(t)'
    <3>1. /\ Ended(t) /\ Concluding(s) /\ ingress' = ingress /\ modelPc' = "idle"
          /\ UNCHANGED <<endEnqueued, captureDone, pending, ingressPc, ingressItem>>
          /\ t # s => completions'[t] = completions[t]
      BY <1>12, <1>0 DEF ModelConclude, ModelUnchanged, ModelDone, Complete, Concluding,
           TypeEvents, ingressVars, stopVars
    <3>2. /\ EndTaken(t)' => EndTaken(t)
          /\ ChunkTaken(t)' => ChunkTaken(t)
          /\ Concluding(t)' => Concluding(t)
      BY <3>1 DEF EndTaken, ChunkTaken, Concluding
    <3> QED
      BY <3>1, <3>2, EndedSame
  <2> QED
    BY <2>1 DEF Goal
<1>13. ASSUME NEW s \in Sessions, CallbackBegin(s) PROVE Goal
  <2>1. ASSUME NEW t \in Sessions PROVE Ended(t)'
    <3>1. /\ UNCHANGED <<ingress, endEnqueued, captureDone>> /\ (pending[t] = 0 => pending'[t] = 0)
          /\ EndTaken(t)' => EndTaken(t)
          /\ ChunkTaken(t)' => ChunkTaken(t)
          /\ Concluding(t)' => Concluding(t)
      BY <1>13, <1>0 DEF EndTaken, ChunkTaken, Concluding, CallbackBegin, CallbackUnchanged,
           ingressVars, modelVars, stopVars
    <3> QED
      BY <1>0, <3>1, EndedSame
  <2> QED
    BY <2>1 DEF Goal
<1>14. ASSUME NEW s \in Sessions, CallbackEnqueue(s) PROVE Goal
  <2>1. ASSUME NEW t \in Sessions PROVE Ended(t)'
    <3>1. /\ Ended(t) /\ ingress \in Seq(Item)
          /\ UNCHANGED <<endEnqueued, captureDone, pending, ingressVars, modelVars, completions>>
      BY <1>14, <1>0 DEF CallbackEnqueue, CallbackUnchanged, TypeQueues, stopVars
    <3>2. ~endEnqueued[s]
      BY <1>14, <1>0 DEF CallbackEnqueue, Controlled
    <3>3. CASE ingress' = ingress
      <4>1. /\ EndTaken(t)' => EndTaken(t)
            /\ ChunkTaken(t)' => ChunkTaken(t)
            /\ Concluding(t)' => Concluding(t)
        BY <3>1 DEF EndTaken, ChunkTaken, Concluding, ingressVars, modelVars
      <4> QED
        BY <3>1, <3>3, <4>1, EndedSame
    <3>4. CASE ingress' = Append(ingress, <<s, lastSequence'[s]>>)
      <4>1. lastSequence'[s] \in Numbers
        BY <1>14, <1>0, NextNumber DEF CallbackEnqueue, NumberChunk, TypeState
      <4>2. lastSequence'[s] # End
        BY <4>1, NumbersAreNat
      <4> QED
        BY <3>1, <3>2, <3>4, <4>1, <4>2, EndedAppend
    <3> QED
      BY <1>14, <3>3, <3>4 DEF CallbackEnqueue
  <2> QED
    BY <2>1 DEF Goal
<1>15. ASSUME NEW s \in Sessions, CallbackFails(s) PROVE Goal
  <2>1. ASSUME NEW t \in Sessions PROVE Ended(t)'
    <3>1. /\ UNCHANGED <<ingress, endEnqueued, captureDone>> /\ (pending[t] = 0 => pending'[t] = 0)
          /\ EndTaken(t)' => EndTaken(t)
          /\ ChunkTaken(t)' => ChunkTaken(t)
          /\ Concluding(t)' => Concluding(t)
      BY <1>15, <1>0 DEF EndTaken, ChunkTaken, Concluding, CallbackFails, CallbackUnchanged,
           ingressVars, modelVars, stopVars
    <3> QED
      BY <1>0, <3>1, EndedSame
  <2> QED
    BY <2>1 DEF Goal
<1>16. ASSUME NEW s \in Sessions, CaptureError(s) PROVE Goal
  <2>1. ASSUME NEW t \in Sessions PROVE Ended(t)'
    <3>1. /\ UNCHANGED <<ingress, endEnqueued, captureDone>> /\ (pending[t] = 0 => pending'[t] = 0)
          /\ EndTaken(t)' => EndTaken(t)
          /\ ChunkTaken(t)' => ChunkTaken(t)
          /\ Concluding(t)' => Concluding(t)
      BY <1>16, <1>0 DEF EndTaken, ChunkTaken, Concluding, CaptureError, CallbackUnchanged,
           ingressVars, modelVars, stopVars
    <3> QED
      BY <1>0, <3>1, EndedSame
  <2> QED
    BY <2>1 DEF Goal
<1>17. ASSUME NEW s \in Sessions, SourceEnds(s) PROVE Goal
  <2>1. ASSUME NEW t \in Sessions PROVE Ended(t)'
    <3>1. /\ UNCHANGED <<ingress, endEnqueued, captureDone>> /\ (pending[t] = 0 => pending'[t] = 0)
          /\ EndTaken(t)' => EndTaken(t)
          /\ ChunkTaken(t)' => ChunkTaken(t)
          /\ Concluding(t)' => Concluding(t)
      BY <1>17, <1>0 DEF EndTaken, ChunkTaken, Concluding, SourceEnds, stateVars, eventVars,
           queueVars, ingressVars, modelVars, stopVars, fatalVars
    <3> QED
      BY <1>0, <3>1, EndedSame
  <2> QED
    BY <2>1 DEF Goal
<1>18. ASSUME NEW s \in Sessions, FatalBegin(s) PROVE Goal
  <2>1. ASSUME NEW t \in Sessions PROVE Ended(t)'
    <3>1. /\ UNCHANGED <<ingress, endEnqueued, captureDone>> /\ (pending[t] = 0 => pending'[t] = 0)
          /\ EndTaken(t)' => EndTaken(t)
          /\ ChunkTaken(t)' => ChunkTaken(t)
          /\ Concluding(t)' => Concluding(t)
      BY <1>18, <1>0 DEF EndTaken, ChunkTaken, Concluding, FatalBegin, eventVars, queueVars,
           ingressVars, modelVars, stopVars
    <3> QED
      BY <1>0, <3>1, EndedSame
  <2> QED
    BY <2>1 DEF Goal
<1>19. ASSUME NEW s \in Sessions, FatalPurgeIngress(s) PROVE Goal
  <2>1. ASSUME NEW t \in Sessions PROVE Ended(t)'
    <3>1. /\ Ended(t) /\ ingress \in Seq(Item) /\ ingress' = Others(ingress, s)
          /\ UNCHANGED <<endEnqueued, captureDone, pending, ingressVars, modelVars, completions>>
      BY <1>19, <1>0 DEF FatalPurgeIngress, TypeQueues, stateVars, eventVars, stopVars
    <3>2. /\ EndLast(ingress, t) => EndLast(ingress', t)
          /\ HasEnd(ingress', t) => HasEnd(ingress, t)
          /\ Gone(ingress, t) => Gone(ingress', t)
      BY <3>1, OthersKeep
    <3>3. /\ EndTaken(t)' => EndTaken(t)
          /\ ChunkTaken(t)' => ChunkTaken(t)
          /\ Concluding(t)' => Concluding(t)
      BY <3>1 DEF EndTaken, ChunkTaken, Concluding, ingressVars, modelVars
    <3> QED
      BY <3>1, <3>2, <3>3 DEF Ended
  <2> QED
    BY <2>1 DEF Goal
<1>20. ASSUME NEW s \in Sessions, FatalLockWork(s) PROVE Goal
  <2>1. ASSUME NEW t \in Sessions PROVE Ended(t)'
    <3>1. /\ UNCHANGED <<ingress, endEnqueued, captureDone>> /\ (pending[t] = 0 => pending'[t] = 0)
          /\ EndTaken(t)' => EndTaken(t)
          /\ ChunkTaken(t)' => ChunkTaken(t)
          /\ Concluding(t)' => Concluding(t)
      BY <1>20, <1>0 DEF EndTaken, ChunkTaken, Concluding, FatalLockWork, stateVars, eventVars,
           captureVars, ingressVars, modelVars, stopVars, fatalVars
    <3> QED
      BY <1>0, <3>1, EndedSame
  <2> QED
    BY <2>1 DEF Goal
<1>21. ASSUME NEW s \in Sessions, FatalPurgeWork(s) PROVE Goal
  <2>1. ASSUME NEW t \in Sessions PROVE Ended(t)'
    <3>0. Len(work) \in Nat /\ Len(work') \in Nat /\ Len(work') <= Len(work)
      <4>1. work \in Seq(Item) /\ work' = Others(work, s)
        BY <1>21, <1>0 DEF TypeQueues, FatalPurgeWork, Item
      <4>2. work' \in Seq(Item) /\ Len(work') <= Len(work)
        BY <4>1, OthersKeep
      <4> QED
        BY <4>1, <4>2
    <3>2. pending[t] = 0 => pending'[t] = 0
      <4>1. t = s => pending'[t] = IF Len(work) - Len(work') <= pending[t] THEN pending[t] - (Len(work) - Len(work')) ELSE 0
        BY <1>21, <1>0 DEF FatalPurgeWork, TypeState
      <4>2. t # s => pending'[t] = pending[t]
        BY <1>21, <1>0 DEF FatalPurgeWork, TypeState
      <4> QED
        BY <3>0, <4>1, <4>2
    <3>1. /\ UNCHANGED <<ingress, endEnqueued, captureDone>> /\ (pending[t] = 0 => pending'[t] = 0)
          /\ EndTaken(t)' => EndTaken(t)
          /\ ChunkTaken(t)' => ChunkTaken(t)
          /\ Concluding(t)' => Concluding(t)
      BY <1>21, <1>0, <3>2 DEF EndTaken, ChunkTaken, Concluding, TypeState, FatalPurgeWork,
           eventVars, captureVars, ingressVars, modelVars, stopVars
    <3> QED
      BY <1>0, <3>1, EndedSame
  <2> QED
    BY <2>1 DEF Goal
<1>22. ASSUME NEW s \in Sessions, FatalEmit(s) PROVE Goal
  <2>1. ASSUME NEW t \in Sessions PROVE Ended(t)'
    <3>1. /\ UNCHANGED <<ingress, endEnqueued, captureDone>> /\ (pending[t] = 0 => pending'[t] = 0)
          /\ EndTaken(t)' => EndTaken(t)
          /\ ChunkTaken(t)' => ChunkTaken(t)
          /\ Concluding(t)' => Concluding(t)
      BY <1>22, <1>0 DEF EndTaken, ChunkTaken, Concluding, TypeEvents, FatalEmit, Complete,
           stateVars, captureVars, queueVars, ingressVars, modelVars, stopVars
    <3> QED
      BY <1>0, <3>1, EndedSame
  <2> QED
    BY <2>1 DEF Goal
<1>23. ASSUME NEW s \in Sessions, StopCall(s) PROVE Goal
  <2>1. ASSUME NEW t \in Sessions PROVE Ended(t)'
    <3>1. /\ UNCHANGED <<ingress, endEnqueued, captureDone>> /\ (pending[t] = 0 => pending'[t] = 0)
          /\ EndTaken(t)' => EndTaken(t)
          /\ ChunkTaken(t)' => ChunkTaken(t)
          /\ Concluding(t)' => Concluding(t)
      BY <1>23, <1>0 DEF EndTaken, ChunkTaken, Concluding, StopCall, StopUnchanged, StopGoto,
           ingressVars, modelVars, fatalVars
    <3> QED
      BY <1>0, <3>1, EndedSame
  <2> QED
    BY <2>1 DEF Goal
<1>24. ASSUME NEW s \in Sessions, StopSourceEnded(s) PROVE Goal
  <2>1. ASSUME NEW t \in Sessions PROVE Ended(t)'
    <3>1. /\ UNCHANGED <<ingress, endEnqueued, captureDone>> /\ (pending[t] = 0 => pending'[t] = 0)
          /\ EndTaken(t)' => EndTaken(t)
          /\ ChunkTaken(t)' => ChunkTaken(t)
          /\ Concluding(t)' => Concluding(t)
      BY <1>24, <1>0 DEF EndTaken, ChunkTaken, Concluding, StopSourceEnded, StopUnchanged, StopGoto,
           ingressVars, modelVars, fatalVars
    <3> QED
      BY <1>0, <3>1, EndedSame
  <2> QED
    BY <2>1 DEF Goal
<1>25. ASSUME NEW s \in Sessions, StopSourceFailed(s) PROVE Goal
  <2>1. ASSUME NEW t \in Sessions PROVE Ended(t)'
    <3>1. /\ UNCHANGED <<ingress, endEnqueued, captureDone>> /\ (pending[t] = 0 => pending'[t] = 0)
          /\ EndTaken(t)' => EndTaken(t)
          /\ ChunkTaken(t)' => ChunkTaken(t)
          /\ Concluding(t)' => Concluding(t)
      BY <1>25, <1>0 DEF EndTaken, ChunkTaken, Concluding, StopSourceFailed, StopUnchanged,
           StopGoto, ingressVars, modelVars
    <3> QED
      BY <1>0, <3>1, EndedSame
  <2> QED
    BY <2>1 DEF Goal
<1>26. ASSUME NEW s \in Sessions, StopFatalReturns(s) PROVE Goal
  <2>1. ASSUME NEW t \in Sessions PROVE Ended(t)'
    <3>1. /\ UNCHANGED <<ingress, endEnqueued, captureDone>> /\ (pending[t] = 0 => pending'[t] = 0)
          /\ EndTaken(t)' => EndTaken(t)
          /\ ChunkTaken(t)' => ChunkTaken(t)
          /\ Concluding(t)' => Concluding(t)
      BY <1>26, <1>0 DEF EndTaken, ChunkTaken, Concluding, StopFatalReturns, StopUnchanged,
           StopGoto, ingressVars, modelVars, fatalVars
    <3> QED
      BY <1>0, <3>1, EndedSame
  <2> QED
    BY <2>1 DEF Goal
<1>27. ASSUME NEW s \in Sessions, StopFlush(s) PROVE Goal
  <2>1. ASSUME NEW t \in Sessions PROVE Ended(t)'
    <3>1. /\ UNCHANGED <<ingress, endEnqueued, captureDone>> /\ (pending[t] = 0 => pending'[t] = 0)
          /\ EndTaken(t)' => EndTaken(t)
          /\ ChunkTaken(t)' => ChunkTaken(t)
          /\ Concluding(t)' => Concluding(t)
      BY <1>27, <1>0 DEF EndTaken, ChunkTaken, Concluding, StopFlush, StopUnchanged, StopGoto,
           ingressVars, modelVars, fatalVars
    <3> QED
      BY <1>0, <3>1, EndedSame
  <2> QED
    BY <2>1 DEF Goal
<1>28. ASSUME NEW s \in Sessions, StopSkip(s) PROVE Goal
  <2>1. ASSUME NEW t \in Sessions PROVE Ended(t)'
    <3>1. /\ UNCHANGED <<ingress, endEnqueued, captureDone>> /\ (pending[t] = 0 => pending'[t] = 0)
          /\ EndTaken(t)' => EndTaken(t)
          /\ ChunkTaken(t)' => ChunkTaken(t)
          /\ Concluding(t)' => Concluding(t)
      BY <1>28, <1>0 DEF EndTaken, ChunkTaken, Concluding, StopSkip, StopUnchanged, StopGoto,
           ingressVars, modelVars, fatalVars
    <3> QED
      BY <1>0, <3>1, EndedSame
  <2> QED
    BY <2>1 DEF Goal
<1>29. ASSUME NEW s \in Sessions, StopNumber(s) PROVE Goal
  <2>1. ASSUME NEW t \in Sessions PROVE Ended(t)'
    <3>1. /\ UNCHANGED <<ingress, endEnqueued, captureDone>> /\ (pending[t] = 0 => pending'[t] = 0)
          /\ EndTaken(t)' => EndTaken(t)
          /\ ChunkTaken(t)' => ChunkTaken(t)
          /\ Concluding(t)' => Concluding(t)
      BY <1>29, <1>0 DEF EndTaken, ChunkTaken, Concluding, StopNumber, StopUnchanged, StopGoto,
           ingressVars, modelVars, fatalVars
    <3> QED
      BY <1>0, <3>1, EndedSame
  <2> QED
    BY <2>1 DEF Goal
<1>30. ASSUME NEW s \in Sessions, StopPut(s) PROVE Goal
  <2>1. ASSUME NEW t \in Sessions PROVE Ended(t)'
    <3>1. /\ Ended(t) /\ ingress \in Seq(Item) /\ ingress' = Append(ingress, <<s, lastSequence[s]>>)
          /\ UNCHANGED <<endEnqueued, captureDone, pending, ingressVars, modelVars, completions>>
      BY <1>30, <1>0 DEF StopPut, StopUnchanged, TypeQueues
    <3>2. ~endEnqueued[s]
      BY <1>30, <1>0 DEF StopPut, Controlled
    <3>3. lastSequence[s] \in Numbers /\ lastSequence[s] # End
      <4>1. lastSequence[s] >= 0 /\ lastSequence[s] \in Numbers \union {-1}
        BY <1>30, <1>0 DEF StopPut, Controlled, TypeState
      <4> QED
        BY <4>1, NumbersAreNat
    <3> QED
      BY <3>1, <3>2, <3>3, EndedAppend
  <2> QED
    BY <2>1 DEF Goal
<1>31. ASSUME NEW s \in Sessions, StopPutTimeout(s) PROVE Goal
  <2>1. ASSUME NEW t \in Sessions PROVE Ended(t)'
    <3>1. /\ UNCHANGED <<ingress, endEnqueued, captureDone>> /\ (pending[t] = 0 => pending'[t] = 0)
          /\ EndTaken(t)' => EndTaken(t)
          /\ ChunkTaken(t)' => ChunkTaken(t)
          /\ Concluding(t)' => Concluding(t)
      BY <1>31, <1>0 DEF EndTaken, ChunkTaken, Concluding, StopPutTimeout, StopUnchanged, StopGoto,
           ingressVars, modelVars
    <3> QED
      BY <1>0, <3>1, EndedSame
  <2> QED
    BY <2>1 DEF Goal
<1>32. ASSUME NEW s \in Sessions, StopEnd(s) PROVE Goal
  <2>1. ASSUME NEW t \in Sessions PROVE Ended(t)'
    <3>1. /\ Ended(t) /\ ingress \in Seq(Item)
          /\ UNCHANGED <<captureDone, pending, ingressVars, modelVars, completions>>
          /\ endEnqueued'[s] = TRUE /\ (t # s => endEnqueued'[t] = endEnqueued[t])
          /\ ingress' = IF endEnqueued[s] THEN ingress ELSE Append(ingress, <<s, End>>)
      BY <1>32, <1>0 DEF StopEnd, StopUnchanged, TypeQueues, TypeStop
    <3>2. CASE endEnqueued[s]
      <4>1. /\ EndTaken(t)' => EndTaken(t)
            /\ ChunkTaken(t)' => ChunkTaken(t)
            /\ Concluding(t)' => Concluding(t)
        BY <3>1 DEF EndTaken, ChunkTaken, Concluding, ingressVars, modelVars
      <4>2. endEnqueued[t] => endEnqueued'[t]
        BY <3>1
      <4> QED
        BY <3>1, <3>2, <4>1, <4>2 DEF Ended
    <3>3. CASE ~endEnqueued[s]
      <4>1. endEnqueued'[t] \/ ~endEnqueued[t]
        BY <3>1
      <4> QED
        BY <3>1, <3>3, <4>1, EndedAppend
    <3> QED
      BY <3>2, <3>3
  <2> QED
    BY <2>1 DEF Goal
<1>33. ASSUME NEW s \in Sessions, StopWait(s) PROVE Goal
  <2>1. ASSUME NEW t \in Sessions PROVE Ended(t)'
    <3>1. /\ UNCHANGED <<ingress, endEnqueued, captureDone>> /\ (pending[t] = 0 => pending'[t] = 0)
          /\ EndTaken(t)' => EndTaken(t)
          /\ ChunkTaken(t)' => ChunkTaken(t)
          /\ Concluding(t)' => Concluding(t)
      BY <1>33, <1>0 DEF EndTaken, ChunkTaken, Concluding, StopWait, StopUnchanged, StopGoto,
           ingressVars, modelVars, fatalVars
    <3> QED
      BY <1>0, <3>1, EndedSame
  <2> QED
    BY <2>1 DEF Goal
<1>34. ASSUME NEW s \in Sessions, StopTimesOut(s) PROVE Goal
  <2>1. ASSUME NEW t \in Sessions PROVE Ended(t)'
    <3>1. /\ UNCHANGED <<ingress, endEnqueued, captureDone>> /\ (pending[t] = 0 => pending'[t] = 0)
          /\ EndTaken(t)' => EndTaken(t)
          /\ ChunkTaken(t)' => ChunkTaken(t)
          /\ Concluding(t)' => Concluding(t)
      BY <1>34, <1>0 DEF EndTaken, ChunkTaken, Concluding, StopTimesOut, StopUnchanged, StopGoto,
           ingressVars, modelVars, fatalVars
    <3> QED
      BY <1>0, <3>1, EndedSame
  <2> QED
    BY <2>1 DEF Goal
<1>35. ASSUME NEW s \in Sessions, StopChunkFails(s) PROVE Goal
  <2>1. ASSUME NEW t \in Sessions PROVE Ended(t)'
    <3>1. /\ UNCHANGED <<ingress, endEnqueued, captureDone>> /\ (pending[t] = 0 => pending'[t] = 0)
          /\ EndTaken(t)' => EndTaken(t)
          /\ ChunkTaken(t)' => ChunkTaken(t)
          /\ Concluding(t)' => Concluding(t)
      BY <1>35, <1>0 DEF EndTaken, ChunkTaken, Concluding, StopChunkFails, StopUnchanged, StopGoto,
           ingressVars, modelVars
    <3> QED
      BY <1>0, <3>1, EndedSame
  <2> QED
    BY <2>1 DEF Goal
<1>36. ASSUME UNCHANGED vars PROVE Goal
  <2>1. ASSUME NEW t \in Sessions PROVE Ended(t)'
    BY <1>36, <1>0 DEF Ended, EndTaken, ChunkTaken, Concluding, vars, stateVars, eventVars,
         queueVars, ingressVars, modelVars, stopVars
  <2> QED
    BY <2>1 DEF Goal
<1>37. Goal
  BY <1>1, <1>2, <1>3, <1>4, <1>5, <1>6, <1>7, <1>8, <1>9, <1>10, <1>11, <1>12, <1>13, <1>14, <1>15,
       <1>16, <1>17, <1>18, <1>19, <1>20, <1>21, <1>22, <1>23, <1>24, <1>25, <1>26, <1>27, <1>28,
       <1>29, <1>30, <1>31, <1>32, <1>33, <1>34, <1>35, <1>36
     DEF Next, IngressWorker, ModelWorker, Fatal, Stop
<1> QED
  BY <1>37 DEF Goal

\* Six places, one behind the other, that hold numbers of chunks.
Row == [1..6 -> SUBSET Nat]
Sorted(P) == \A i, j \in 1..6 : i < j => \A n \in P[i], m \in P[j] : n < m
Held(P) == UNION {P[i] : i \in 1..6}

\* The first chunk of place j goes on to place i, with nothing in between.
Advance(P, Q, i, j, n) ==
  /\ i < j /\ n \in P[j] /\ \A m \in P[j] : n <= m
  /\ \A k \in 1..6 : i < k /\ k < j => P[k] = {}
  /\ Q = [P EXCEPT ![i] = @ \union {n}, ![j] = @ \ {n}]

\* A chunk arrives at place i, behind all the others.
Arrive(P, Q, i, n) ==
  /\ \A k \in 1..6 : i < k => P[k] = {}
  /\ Q = [P EXCEPT ![i] = @ \union {n}]

(* An advance keeps the row sorted and holds the same chunks.               *)
LEMMA RowAdvance ==
  ASSUME NEW P \in Row, NEW Q, NEW i \in 1..6, NEW j \in 1..6, NEW n, Sorted(P), Advance(P, Q, i,
         j, n)
  PROVE  Q \in Row /\ Sorted(Q) /\ Held(Q) = Held(P)
<1>1. /\ n \in Nat /\ i < j /\ n \in P[j] /\ \A m \in P[j] : n <= m
      /\ \A k \in 1..6 : i < k /\ k < j => P[k] = {}
  BY DEF Advance, Row
<1>2. \A k \in 1..6 : P[k] \in SUBSET Nat
  BY DEF Row
<1>3. /\ Q[i] = P[i] \union {n} /\ Q[j] = P[j] \ {n}
      /\ \A k \in 1..6 : k # i /\ k # j => Q[k] = P[k]
  BY <1>1 DEF Advance, Row
<1>4. Q \in Row
  <2>1. P[i] \union {n} \in SUBSET Nat /\ P[j] \ {n} \in SUBSET Nat
    BY <1>1, <1>2
  <2> QED
    BY <2>1 DEF Advance, Row
<1>5. Sorted(Q)
  <2> SUFFICES ASSUME NEW k \in 1..6, NEW l \in 1..6, k < l, NEW x \in Q[k], NEW y \in Q[l]
               PROVE  x < y
    BY DEF Sorted
  <2>1. x \in P[k] \/ (k = i /\ x = n)
    BY <1>3
  <2>2. y \in P[l] \/ (l = i /\ y = n)
    BY <1>3
  <2>3. CASE x \in P[k] /\ y \in P[l]
    BY <2>3 DEF Sorted
  <2>4. CASE k = i /\ x = n /\ y \in P[l]
    <3>1. CASE l < j
      BY <1>1, <2>4, <3>1
    <3>2. CASE l = j
      <4>1. y \in P[j] \ {n}
        BY <1>1, <1>3, <2>4, <3>2
      <4>2. n <= y /\ n # y /\ y \in Nat
        BY <1>1, <1>2, <4>1
      <4> QED
        BY <1>1, <2>4, <4>2
    <3>3. CASE j < l
      BY <1>1, <2>4, <3>3 DEF Sorted
    <3> QED
      BY <3>1, <3>2, <3>3
  <2>5. CASE l = i /\ y = n /\ x \in P[k]
    BY <1>1, <2>5 DEF Sorted
  <2> QED
    BY <2>1, <2>2, <2>3, <2>4, <2>5
<1>6. Held(Q) = Held(P)
  <2>1. \A k \in 1..6 : Q[k] \subseteq Held(P)
    BY <1>1, <1>3 DEF Held
  <2>2. \A k \in 1..6 : P[k] \subseteq Held(Q)
    <3>1. P[j] \subseteq Q[j] \union Q[i] /\ P[i] \subseteq Q[i]
      BY <1>3
    <3> QED
      BY <1>3, <3>1 DEF Held
  <2> QED
    BY <2>1, <2>2 DEF Held
<1> QED
  BY <1>4, <1>5, <1>6

(* So does an arrival of a chunk later than all.                            *)
LEMMA RowArrive ==
  ASSUME NEW P \in Row, NEW Q, NEW i \in 1..6, NEW n \in Nat, Sorted(P), Arrive(P, Q, i, n),
         \A m \in Held(P) : m < n
  PROVE  Q \in Row /\ Sorted(Q) /\ Held(Q) = Held(P) \union {n}
<1>1. \A k \in 1..6 : P[k] \in SUBSET Nat /\ P[k] \subseteq Held(P)
  BY DEF Row, Held
<1>2. /\ Q[i] = P[i] \union {n} /\ \A k \in 1..6 : k # i => Q[k] = P[k]
      /\ \A k \in 1..6 : i < k => Q[k] = {}
  BY DEF Arrive, Row
<1>3. Q \in Row
  <2>1. P[i] \union {n} \in SUBSET Nat
    BY <1>1
  <2> QED
    BY <2>1 DEF Arrive, Row
<1>4. Sorted(Q)
  <2> SUFFICES ASSUME NEW k \in 1..6, NEW l \in 1..6, k < l, NEW x \in Q[k], NEW y \in Q[l]
               PROVE  x < y
    BY DEF Sorted
  <2>1. ~(i < k) /\ ~(i < l) /\ k # i /\ x \in P[k]
    BY <1>2
  <2>2. y \in P[l] \/ y = n
    BY <1>2
  <2> QED
    BY <1>1, <2>1, <2>2 DEF Sorted
<1>5. Held(Q) = Held(P) \union {n}
  <2>1. \A k \in 1..6 : Q[k] \subseteq Held(P) \union {n}
    BY <1>1, <1>2
  <2>2. \A k \in 1..6 : P[k] \subseteq Q[k]
    BY <1>2
  <2>3. n \in Q[i]
    BY <1>2
  <2> QED
    BY <2>1, <2>2, <2>3 DEF Held
<1> QED
  BY <1>3, <1>4, <1>5

(* And what leaves a row leaves it sorted.                                  *)
LEMMA RowShrink ==
  ASSUME NEW P \in Row, NEW Q \in [1..6 -> SUBSET Nat], Sorted(P),
         \A k \in 1..6 : Q[k] \subseteq P[k]
  PROVE  Sorted(Q) /\ Held(Q) \subseteq Held(P)
<1>1. Sorted(Q)
  BY DEF Sorted
<1>2. Held(Q) \subseteq Held(P)
  BY DEF Held
<1> QED
  BY <1>1, <1>2

(* A chunk that leaves a place is in no other.                              *)
LEMMA RowLeave ==
  ASSUME NEW P \in Row, NEW j \in 1..6, NEW n \in P[j], Sorted(P)
  PROVE  LET Q == [P EXCEPT ![j] = @ \ {n}]
         IN  Q \in Row /\ Sorted(Q) /\ Held(Q) = Held(P) \ {n}
<1> DEFINE Q == [P EXCEPT ![j] = @ \ {n}]
<1>1. \A k \in 1..6 : P[k] \in SUBSET Nat
  BY DEF Row
<1>2. Q[j] = P[j] \ {n} /\ \A k \in 1..6 : k # j => Q[k] = P[k]
  BY DEF Row
<1>3. Q \in Row
  BY <1>1 DEF Row
<1> HIDE DEF Q
<1>4. Sorted(Q)
  BY <1>2 DEF Sorted
<1>5. \A k \in 1..6 : k # j => n \notin P[k]
  <2> SUFFICES ASSUME NEW k \in 1..6, k # j, n \in P[k] PROVE FALSE
    OBVIOUS
  <2>1. n \in Nat /\ (k < j \/ j < k)
    BY <1>1
  <2>2. n < n
    BY <2>1 DEF Sorted
  <2> QED
    BY <2>1, <2>2
<1>6. Held(Q) = Held(P) \ {n}
  <2>1. \A k \in 1..6 : Q[k] = P[k] \ {n}
    BY <1>2, <1>5
  <2> QED
    BY <2>1 DEF Held
<1> QED
  BY <1>3, <1>4, <1>6 DEF Q

(* A tuple of six sets of numbers is a row.                                 *)
LEMMA RowTuple ==
  ASSUME NEW P, P = <<P[1], P[2], P[3], P[4], P[5], P[6]>>,
         P[1] \in SUBSET Nat, P[2] \in SUBSET Nat, P[3] \in SUBSET Nat,
         P[4] \in SUBSET Nat, P[5] \in SUBSET Nat, P[6] \in SUBSET Nat
  PROVE  P \in Row /\ Held(P) = P[1] \union P[2] \union P[3] \union P[4] \union P[5] \union P[6]
<1>1. 1..6 = {1, 2, 3, 4, 5, 6}
  OBVIOUS
<1>2. P = [k \in 1..6 |-> P[k]]
  OBVIOUS
<1>3. P \in Row
  <2>1. \A k \in 1..6 : P[k] \in SUBSET Nat
    BY <1>1
  <2> QED
    BY <1>2, <2>1 DEF Row
<1>4. Held(P) = P[1] \union P[2] \union P[3] \union P[4] \union P[5] \union P[6]
  BY <1>1 DEF Held
<1> QED
  BY <1>3, <1>4

(* The places of a session are a row of sets of numbers, before a step and  *)
(* after it.                                                                *)
LEMMA PlacesRow ==
  ASSUME BaseInv, NEW s \in Sessions
  PROVE  /\ Places(s) \in Row
         /\ Places(s)[1] = Answered(s) /\ Places(s)[2] = InModel(s)
         /\ Places(s)[3] = Chunks(work, s) /\ Places(s)[4] = InIngress(s)
         /\ Places(s)[5] = Chunks(ingress, s) /\ Places(s)[6] = Putting(s)
         /\ Held(Places(s)) = Answered(s) \union Underway(s)
         /\ Answered(s) \subseteq Numbers /\ Underway(s) \subseteq Numbers
<1>1. Answered(s) \in SUBSET Numbers
  <2>1. answers[s] \in Seq(Numbers)
    BY TypeSplit DEF BaseInv, TypeEvents
  <2> QED
    BY <2>1 DEF Answered, Range
<1>2. /\ InModel(s) \in SUBSET Numbers /\ Chunks(work, s) \in SUBSET Numbers
      /\ InIngress(s) \in SUBSET Numbers /\ Chunks(ingress, s) \in SUBSET Numbers
      /\ Putting(s) \in SUBSET Numbers
  BY DEF InModel, InIngress, InHand, Chunks, Putting
<1>3. /\ Answered(s) \in SUBSET Nat /\ InModel(s) \in SUBSET Nat /\ Chunks(work, s) \in SUBSET Nat
      /\ InIngress(s) \in SUBSET Nat /\ Chunks(ingress, s) \in SUBSET Nat
      /\ Putting(s) \in SUBSET Nat
  BY <1>1, <1>2, NumbersAreNat
<1> DEFINE P == Places(s)
<1>4. /\ P[1] = Answered(s) /\ P[2] = InModel(s) /\ P[3] = Chunks(work, s)
      /\ P[4] = InIngress(s) /\ P[5] = Chunks(ingress, s) /\ P[6] = Putting(s)
  BY DEF Places
<1>5. P = <<P[1], P[2], P[3], P[4], P[5], P[6]>>
  BY DEF Places
<1> HIDE DEF P
<1>6. P \in Row /\ Held(P) = P[1] \union P[2] \union P[3] \union P[4] \union P[5] \union P[6]
  BY <1>3, <1>4, <1>5, RowTuple
<1>7. Held(P) = Answered(s) \union Underway(s)
  BY <1>4, <1>6 DEF Underway
<1>8. Underway(s) \subseteq Numbers
  BY <1>2 DEF Underway
<1> QED
  BY <1>1, <1>4, <1>6, <1>7, <1>8 DEF P

(* The same of the places after a step.                                     *)
LEMMA PlacesRowNext ==
  ASSUME BaseInv', NEW s \in Sessions
  PROVE  /\ Places(s)' \in Row
         /\ Places(s)'[1] = Answered(s)' /\ Places(s)'[2] = InModel(s)'
         /\ Places(s)'[3] = Chunks(work', s) /\ Places(s)'[4] = InIngress(s)'
         /\ Places(s)'[5] = Chunks(ingress', s) /\ Places(s)'[6] = Putting(s)'
         /\ Held(Places(s))' = Answered(s)' \union Underway(s)'
<1>1. Answered(s)' \in SUBSET Numbers
  <2>1. answers'[s] \in Seq(Numbers)
    BY TypeSplitNext DEF BaseInv, TypeEvents
  <2> QED
    BY <2>1 DEF Answered, Range
<1>2. /\ InModel(s)' \in SUBSET Numbers /\ Chunks(work', s) \in SUBSET Numbers
      /\ InIngress(s)' \in SUBSET Numbers /\ Chunks(ingress', s) \in SUBSET Numbers
      /\ Putting(s)' \in SUBSET Numbers
  BY DEF InModel, InIngress, InHand, Chunks, Putting
<1>3. /\ Answered(s)' \in SUBSET Nat /\ InModel(s)' \in SUBSET Nat
      /\ Chunks(work', s) \in SUBSET Nat
      /\ InIngress(s)' \in SUBSET Nat /\ Chunks(ingress', s) \in SUBSET Nat
      /\ Putting(s)' \in SUBSET Nat
  BY <1>1, <1>2, NumbersAreNat
<1> DEFINE P == Places(s)'
<1>4. /\ P[1] = Answered(s)' /\ P[2] = InModel(s)' /\ P[3] = Chunks(work', s)
      /\ P[4] = InIngress(s)' /\ P[5] = Chunks(ingress', s) /\ P[6] = Putting(s)'
  BY DEF Places
<1>5. P = <<P[1], P[2], P[3], P[4], P[5], P[6]>>
  BY DEF Places
<1>6. Held(Places(s))' = Held(P)
  BY DEF Held
<1> HIDE DEF P
<1>7. P \in Row /\ Held(P) = P[1] \union P[2] \union P[3] \union P[4] \union P[5] \union P[6]
  BY <1>3, <1>4, <1>5, RowTuple
<1>8. Underway(s)' = InModel(s)' \union Chunks(work', s) \union InIngress(s)' \union Chunks(ingress', s)
                       \union Putting(s)'
  BY DEF Underway
<1>9. Held(P) = Answered(s)' \union Underway(s)'
  BY <1>4, <1>7, <1>8
<1> QED
  BY <1>4, <1>6, <1>7, <1>9 DEF P

(* The place a step changes is the only one it changes.                     *)
LEMMA RowChange ==
  ASSUME NEW P \in Row, NEW Q \in Row, NEW i \in 1..6, NEW S \in SUBSET Nat,
         Q[i] = S, \A k \in 1..6 : k # i => Q[k] = P[k]
  PROVE  Q = [P EXCEPT ![i] = S]
BY DEF Row

\* What a step does to the chunks of a session: nothing; the next one is
\* numbered, and refused or put behind the others; the first of a place goes on
\* to the next; one is refused that was on its way; or, once the session has
\* ended, some are thrown away.
Rests(s) == UNCHANGED <<Places(s), refused[s], lastSequence[s]>>

NextNumbered(s) ==
  /\ lastSequence'[s] = lastSequence[s] + 1
  /\ \/ refused'[s] = refused[s] \union {lastSequence'[s]} /\ UNCHANGED Places(s)
     \/ /\ refused'[s] = refused[s]
        /\ \E i \in 1..6 : Arrive(Places(s), Places(s)', i, lastSequence'[s])

Advances(s) ==
  /\ UNCHANGED <<refused[s], lastSequence[s]>>
  /\ \E i, j \in 1..6 : \E n \in Numbers : Advance(Places(s), Places(s)', i, j, n)

Refuses(s) ==
  /\ UNCHANGED lastSequence[s]
  /\ \E j \in 1..6 : \E n \in Places(s)[j] :
       /\ Places(s)' = [Places(s) EXCEPT ![j] = @ \ {n}]
       /\ refused'[s] = refused[s] \union {n}

Loses(s) ==
  /\ UNCHANGED <<refused[s], lastSequence[s]>>
  /\ fatal'[s] \/ ~active[s] \/ Terminal(s)
  /\ \A k \in 1..6 : Places(s)'[k] \subseteq Places(s)[k]
  /\ Answered(s)' = Answered(s)

Moved(s) == Rests(s) \/ NextNumbered(s) \/ Advances(s) \/ Refuses(s) \/ Loses(s)

\* The row is sorted, and all numbers in it have been given out.
RowInv(s) ==
  /\ Sorted(Places(s))
  /\ Held(Places(s)) \union refused[s] \subseteq 0..lastSequence[s]

(* Whatever a step does to the chunks of a session, they remain sorted.     *)
LEMMA RowStep ==
  ASSUME BaseInv, BaseInv', NEW s \in Sessions, RowInv(s), Moved(s)
  PROVE  RowInv(s)'
<1> DEFINE P == Places(s)
           Q == Places(s)'
           l == lastSequence[s]
           m == lastSequence'[s]
           R == refused[s]
           T == refused'[s]
<1>1. P \in Row /\ Q \in Row
  BY PlacesRow, PlacesRowNext
<1>2. /\ Sorted(P) /\ Held(P) \subseteq 0..l /\ R \subseteq 0..l
      /\ l \in Nat \union {-1}
  <2>1. l \in Numbers \union {-1}
    BY TypeSplit DEF BaseInv, TypeState
  <2> QED
    BY <2>1, NumbersAreNat DEF RowInv
<1>3. SUFFICES Sorted(Q) /\ Held(Q) \subseteq 0..m /\ T \subseteq 0..m
  BY DEF RowInv, Sorted, Held
<1>4. CASE Rests(s)
  BY <1>2, <1>4 DEF Rests
<1>5. CASE NextNumbered(s)
  <2>1. m = l + 1 /\ m \in Nat
    BY <1>2, <1>5 DEF NextNumbered
  <2>2. 0..l \subseteq 0..m /\ m \in 0..m /\ \A x \in 0..l : x < m
    BY <1>2, <2>1
  <2>3. CASE T = R \union {m} /\ Q = P
    BY <1>2, <2>2, <2>3
  <2>4. CASE T = R /\ \E i \in 1..6 : Arrive(P, Q, i, m)
    <3>1. PICK i \in 1..6 : Arrive(P, Q, i, m)
      BY <2>4
    <3> HIDE DEF P, Q, m, l, R, T
    <3>2. \A x \in Held(P) : x < m
      BY <1>2, <2>2
    <3>3. Sorted(Q) /\ Held(Q) = Held(P) \union {m}
      BY <1>1, <1>2, <2>1, <3>1, <3>2, RowArrive
    <3> QED
      BY <1>2, <2>2, <2>4, <3>3
  <2> QED
    BY <1>5, <2>3, <2>4 DEF NextNumbered
<1>6. CASE Advances(s)
  <2>1. T = R /\ m = l
    BY <1>6 DEF Advances
  <2>2. PICK i \in 1..6, j \in 1..6, n \in Numbers : Advance(P, Q, i, j, n)
    BY <1>6 DEF Advances
  <2> HIDE DEF P, Q, m, l, R, T
  <2>3. Sorted(Q) /\ Held(Q) = Held(P)
    BY <1>1, <1>2, <2>2, RowAdvance
  <2> QED
    BY <1>2, <2>1, <2>3
<1>7. CASE Refuses(s)
  <2>0. PICK j \in 1..6 : \E n \in P[j] : Q = [P EXCEPT ![j] = @ \ {n}] /\ T = R \union {n}
    BY <1>7 DEF Refuses
  <2>1. PICK n \in P[j] : Q = [P EXCEPT ![j] = @ \ {n}] /\ T = R \union {n}
    BY <2>0
  <2>2. m = l
    BY <1>7 DEF Refuses
  <2> HIDE DEF P, Q, m, l, R, T
  <2>3. Sorted(Q) /\ Held(Q) = Held(P) \ {n}
    BY <1>1, <1>2, <2>1, RowLeave
  <2>4. n \in Held(P)
    BY <2>1 DEF Held
  <2> QED
    BY <1>2, <2>1, <2>2, <2>3, <2>4
<1>8. CASE Loses(s)
  <2>1. T = R /\ m = l /\ \A k \in 1..6 : Q[k] \subseteq P[k]
    BY <1>8 DEF Loses
  <2> HIDE DEF P, Q, m, l, R, T
  <2>2. Sorted(Q) /\ Held(Q) \subseteq Held(P)
    BY <1>1, <1>2, <2>1, RowShrink DEF Row
  <2> QED
    BY <1>2, <2>1, <2>2
<1> QED
  BY <1>4, <1>5, <1>6, <1>7, <1>8 DEF Moved

\* The chunk of s the ingress worker has counted and not yet passed on.
Counted(s) == InHand(ingressPc = "put", ingressItem, s)

\* What a step does to the count of a session: nothing; it takes out what is
\* scheduled no more; or it counts one more.
Counts(s) ==
  \/ Scheduled(s)' = Scheduled(s) /\ pending'[s] = pending[s]
  \/ \E X \in SUBSET Scheduled(s) :
       /\ Scheduled(s)' = Scheduled(s) \ X
       /\ pending'[s] = IF Cardinality(X) <= pending[s] THEN pending[s] - Cardinality(X) ELSE 0
  \/ \E n \in Numbers \ Scheduled(s) :
       Scheduled(s)' = Scheduled(s) \union {n} /\ pending'[s] = pending[s] + 1

\* The answers of a session and its chunks in each queue are in order.
InSequence(s) ==
  /\ \A i, j \in 1..Len(answers[s]) : i < j => answers[s][i] < answers[s][j]
  /\ QueueInOrder(work, s) /\ QueueInOrder(ingress, s)

Progress(s) == Moved(s) /\ Counts(s) /\ InSequence(s)'

(* A step that leaves a session's chunks where they are.                    *)
LEMMA StillPlaces ==
  ASSUME NEW t \in Sessions, UNCHANGED answers[t], InModel(t)' = InModel(t),
         Chunks(work', t) = Chunks(work, t), InIngress(t)' = InIngress(t),
         Chunks(ingress', t) = Chunks(ingress, t), Putting(t)' = Putting(t)
  PROVE  Places(t)' = Places(t)
BY DEF Places, Answered, Range

(* And what of them is counted.                                             *)
LEMMA StillScheduled ==
  ASSUME NEW t \in Sessions, InModel(t)' = InModel(t), Chunks(work', t) = Chunks(work, t),
         Counted(t)' = Counted(t)
  PROVE  Scheduled(t)' = Scheduled(t)
BY DEF Scheduled, Counted

(* And their order.                                                         *)
LEMMA StillSequence ==
  ASSUME NEW t \in Sessions, InSequence(t), UNCHANGED answers[t],
         QueueInOrder(work', t), QueueInOrder(ingress', t)
  PROVE  InSequence(t)'
BY DEF InSequence, QueueInOrder

(* All of it.                                                               *)
LEMMA StillStep ==
  ASSUME NEW t \in Sessions, InSequence(t),
         UNCHANGED <<answers[t], refused[t], lastSequence[t], pending[t], work, ingress>>,
         InModel(t)' = InModel(t), InIngress(t)' = InIngress(t), Counted(t)' = Counted(t),
         Putting(t)' = Putting(t)
  PROVE  Progress(t)
<1>1. Chunks(work', t) = Chunks(work, t) /\ Chunks(ingress', t) = Chunks(ingress, t)
  OBVIOUS
<1>2. Rests(t)
  BY <1>1, StillPlaces DEF Rests
<1>3. Counts(t)
  BY <1>1, StillScheduled DEF Counts
<1>4. InSequence(t)'
  <2>1. QueueInOrder(work', t) /\ QueueInOrder(ingress', t)
    BY DEF InSequence
  <2> QED
    BY <2>1, StillSequence
<1> QED
  BY <1>2, <1>3, <1>4 DEF Progress, Moved

(* The first chunk of a place goes on to another.                           *)
LEMMA GoesOn ==
  ASSUME BaseInv, BaseInv', NEW t \in Sessions, NEW i \in 1..6, NEW j \in 1..6, i < j,
         NEW n \in Numbers, n \in Places(t)[j], \A m \in Places(t)[j] : n <= m,
         \A k \in 1..6 : i < k /\ k < j => Places(t)[k] = {},
         Places(t)'[i] = Places(t)[i] \union {n}, Places(t)'[j] = Places(t)[j] \ {n},
         \A k \in 1..6 : k # i /\ k # j => Places(t)'[k] = Places(t)[k],
         UNCHANGED <<refused[t], lastSequence[t]>>
  PROVE  Moved(t)
<1> DEFINE P == Places(t)
           Q == Places(t)'
<1>1. P \in Row /\ Q \in Row
  BY PlacesRow, PlacesRowNext
<1>2. UNCHANGED <<refused[t], lastSequence[t]>>
  OBVIOUS
<1>3. Advance(P, Q, i, j, n)
  <2> HIDE DEF P, Q
  <2>1. Q = [P EXCEPT ![i] = P[i] \union {n}, ![j] = P[j] \ {n}]
    <3>1. P[i] \union {n} \in SUBSET Nat /\ P[j] \ {n} \in SUBSET Nat
      BY <1>1, NumbersAreNat DEF Row
    <3>2. /\ Q[i] = P[i] \union {n} /\ Q[j] = P[j] \ {n} /\ i # j
          /\ \A k \in 1..6 : k # i /\ k # j => Q[k] = P[k]
      BY DEF P, Q
    <3> QED
      BY <1>1, <3>1, <3>2 DEF Row
  <2>2. [P EXCEPT ![i] = P[i] \union {n}, ![j] = P[j] \ {n}]
          = [P EXCEPT ![i] = @ \union {n}, ![j] = @ \ {n}]
    BY <1>1 DEF Row
  <2>3. /\ n \in P[j] /\ \A m \in P[j] : n <= m
        /\ \A k \in 1..6 : i < k /\ k < j => P[k] = {}
    BY DEF P
  <2> QED
    BY <2>1, <2>2, <2>3 DEF Advance
<1>4. Advances(t)
  BY <1>2, <1>3 DEF Advances
<1> QED
  BY <1>4 DEF Moved

(* The next number is given to a chunk behind all the others.               *)
LEMMA GetsIn ==
  ASSUME BaseInv, BaseInv', NEW t \in Sessions, NEW i \in 1..6,
         lastSequence'[t] = lastSequence[t] + 1, lastSequence'[t] \in Numbers,
         \A k \in 1..6 : i < k => Places(t)[k] = {},
         Places(t)'[i] = Places(t)[i] \union {lastSequence'[t]},
         \A k \in 1..6 : k # i => Places(t)'[k] = Places(t)[k],
         UNCHANGED refused[t]
  PROVE  Moved(t)
<1> DEFINE P == Places(t)
           Q == Places(t)'
           n == lastSequence'[t]
<1>1. P \in Row /\ Q \in Row
  BY PlacesRow, PlacesRowNext
<1>2. refused'[t] = refused[t] /\ n = lastSequence[t] + 1
  OBVIOUS
<1>3. Arrive(P, Q, i, n)
  <2>0. n \in Nat
    BY NumbersAreNat
  <2> HIDE DEF P, Q, n
  <2>1. P[i] \union {n} \in SUBSET Nat
    BY <1>1, <2>0 DEF Row
  <2>2. Q[i] = P[i] \union {n} /\ \A k \in 1..6 : k # i => Q[k] = P[k]
    BY DEF P, Q, n
  <2>3. Q = [P EXCEPT ![i] = @ \union {n}]
    BY <1>1, <2>1, <2>2, RowChange
  <2>4. \A k \in 1..6 : i < k => P[k] = {}
    BY DEF P
  <2> QED
    BY <2>3, <2>4 DEF Arrive
<1>4. NextNumbered(t)
  BY <1>2, <1>3 DEF NextNumbered
<1> QED
  BY <1>4 DEF Moved

(* A chunk leaves its place and is refused.                                 *)
LEMMA IsRefused ==
  ASSUME BaseInv, BaseInv', NEW t \in Sessions, NEW j \in 1..6, NEW n \in Places(t)[j],
         Places(t)'[j] = Places(t)[j] \ {n},
         \A k \in 1..6 : k # j => Places(t)'[k] = Places(t)[k],
         refused'[t] = refused[t] \union {n}, UNCHANGED lastSequence[t]
  PROVE  Moved(t)
<1> DEFINE P == Places(t)
           Q == Places(t)'
<1>1. P \in Row /\ Q \in Row
  BY PlacesRow, PlacesRowNext
<1>2. Q = [P EXCEPT ![j] = @ \ {n}]
  <2>1. Q[j] = P[j] \ {n} /\ \A k \in 1..6 : k # j => Q[k] = P[k]
    OBVIOUS
  <2> HIDE DEF P, Q
  <2>2. P[j] \ {n} \in SUBSET Nat
    BY <1>1 DEF Row
  <2> QED
    BY <1>1, <2>1, <2>2, RowChange
<1>3. Refuses(t)
  BY <1>2 DEF Refuses
<1> QED
  BY <1>3 DEF Moved

(* The six places, one by one.                                              *)
LEMMA Six == \A k \in 1..6 : k \in {1, 2, 3, 4, 5, 6}
OBVIOUS

(* The ingress worker takes the first chunk of the queue.                   *)
LEMMA IngressTakeMoves ==
  ASSUME BaseInv, BaseInv', IngressTake, NEW t \in Sessions, RowInv(t), InSequence(t)
  PROVE  Progress(t)
<1> DEFINE N == {n \in Numbers : Head(ingress) = <<t, n>>}
<1>1. /\ ingress \in Seq(Item) /\ ingress # <<>> /\ ingressPc = "idle"
      /\ ingressItem' = Head(ingress) /\ ingress' = Tail(ingress)
      /\ ingressPc' = IF Head(ingress)[2] = End THEN "end" ELSE "taken"
      /\ UNCHANGED <<answers, refused, lastSequence, pending, work, modelPc, modelItem, stopPc>>
  BY TypeSplit DEF BaseInv, TypeQueues, IngressTake, IngressUnchanged, modelVars, stopVars
<1>2. /\ InModel(t)' = InModel(t) /\ Chunks(work', t) = Chunks(work, t)
      /\ Putting(t)' = Putting(t)
  BY <1>1 DEF InModel, InHand, Putting
<1>3. /\ InIngress(t) = {} /\ InIngress(t)' = N /\ Counted(t) = {} /\ Counted(t)' = {}
  BY <1>1, NumbersAreNat DEF InIngress, InHand, Counted
<1>4. Chunks(ingress, t) = Chunks(ingress', t) \union N
  BY <1>1, ChunksTail
<1>5. /\ QueueInOrder(work', t) /\ QueueInOrder(ingress', t)
      /\ \A n \in N, m \in Chunks(ingress', t) : n < m
  BY <1>1, OrderTail DEF InSequence
<1>6. InSequence(t)'
  BY <1>1, <1>5, StillSequence
<1>7. Counts(t)
  BY <1>1, <1>2, <1>3, StillScheduled DEF Counts
<1>8. Moved(t)
  <2>1. CASE N = {}
    <3>1. Places(t)' = Places(t)
      BY <1>1, <1>2, <1>3, <1>4, <2>1, StillPlaces
    <3> QED
      BY <1>1, <3>1 DEF Moved, Rests
  <2>2. CASE N # {}
    <3>1. PICK n \in Numbers : Head(ingress) = <<t, n>>
      BY <2>2
    <3>2. N = {n}
      BY <3>1
    <3> HIDE DEF N
    <3>3. n \in Nat /\ n \notin Chunks(ingress', t) /\ \A m \in Chunks(ingress, t) : n <= m
      <4>1. n \in Nat
        BY NumbersAreNat
      <4>2. \A m \in Chunks(ingress', t) : n < m /\ m \in Nat
        BY <1>5, <3>2, NumbersAreNat DEF Chunks
      <4> QED
        BY <1>4, <3>2, <4>1, <4>2
    <3>4. /\ Places(t)[4] = {} /\ Places(t)'[4] = {n} /\ Places(t)[5] = Chunks(ingress, t)
          /\ Places(t)'[5] = Chunks(ingress, t) \ {n} /\ n \in Places(t)[5]
          /\ Places(t)'[1] = Places(t)[1] /\ Places(t)'[2] = Places(t)[2]
          /\ Places(t)'[3] = Places(t)[3] /\ Places(t)'[6] = Places(t)[6]
      <4>1. Answered(t)' = Answered(t)
        BY <1>1 DEF Answered
      <4> QED
        BY <1>2, <1>3, <1>4, <3>2, <3>3, <4>1, PlacesRow, PlacesRowNext
    <3>5. \A k \in 1..6 : k # 4 /\ k # 5 => Places(t)'[k] = Places(t)[k]
      BY <3>4, Six
    <3>6. UNCHANGED <<refused[t], lastSequence[t]>>
      BY <1>1
    <3> QED
      BY <3>3, <3>4, <3>5, <3>6, GoesOn
  <2> QED
    BY <2>1, <2>2
<1> QED
  BY <1>6, <1>7, <1>8 DEF Progress

(* It puts the chunk in its hands behind those of the work queue.           *)
LEMMA IngressPutMoves ==
  ASSUME BaseInv, BaseInv', IngressPut, NEW t \in Sessions, RowInv(t), InSequence(t)
  PROVE  Progress(t)
<1> DEFINE N == InIngress(t)
<1>1. /\ work \in Seq(Item) /\ ingressPc = "put" /\ ingressItem \in Sessions \X Numbers
      /\ work' = Append(work, ingressItem) /\ ingressPc' = "idle"
      /\ UNCHANGED <<answers, refused, lastSequence, pending, ingress, modelPc, modelItem, stopPc>>
  BY TypeSplit DEF BaseInv, HandInv, TypeQueues, IngressPut, IngressDone, IngressUnchanged,
       modelVars, stopVars, Item
<1>2. /\ InModel(t)' = InModel(t) /\ Chunks(ingress', t) = Chunks(ingress, t)
      /\ Putting(t)' = Putting(t) /\ Answered(t)' = Answered(t)
  BY <1>1 DEF InModel, InHand, Putting, Answered
<1>3. /\ InIngress(t)' = {} /\ Counted(t)' = {} /\ Counted(t) = N
      /\ N = {n \in Numbers : ingressItem = <<t, n>>}
  BY <1>1 DEF InIngress, InHand, Counted
<1>4. Chunks(work', t) = Chunks(work, t) \union N
  <2>1. ingressItem \in Item
    BY <1>1 DEF Item
  <2> QED
    BY <1>1, <1>3, <2>1, ChunksAppend
<1>5. \A n \in Chunks(work, t), m \in N : n < m
  <2>1. Sorted(Places(t)) /\ Places(t)[3] = Chunks(work, t) /\ Places(t)[4] = N
    BY PlacesRow DEF RowInv
  <2> QED
    BY <2>1 DEF Sorted
<1>6. InSequence(t)'
  <2>1. QueueInOrder(ingress', t)
    BY <1>1 DEF InSequence
  <2>2. ingressItem \in Item /\ ingressItem = <<ingressItem[1], ingressItem[2]>>
    BY <1>1 DEF Item
  <2>3. ingressItem[1] = t /\ ingressItem[2] # End => ingressItem[2] \in N
    BY <1>1, <1>3, <2>2
  <2>4. QueueInOrder(work', t)
    <3>1. ingressItem[1] = t /\ ingressItem[2] # End => \A n \in Chunks(work, t) : n < ingressItem[2]
      BY <1>5, <2>3
    <3>2. QueueInOrder(work, t)
      BY DEF InSequence
    <3> QED
      BY <1>1, <2>2, <3>1, <3>2, OrderAppend
  <2> QED
    BY <1>1, <2>1, <2>4, StillSequence
<1>7. Counts(t)
  <2>1. Scheduled(t)' = Scheduled(t)
    BY <1>2, <1>3, <1>4 DEF Scheduled, Counted
  <2> QED
    BY <1>1, <2>1 DEF Counts
<1>8. Moved(t)
  <2>1. CASE N = {}
    <3>1. Places(t)' = Places(t)
      BY <1>1, <1>2, <1>3, <1>4, <2>1, StillPlaces
    <3> QED
      BY <1>1, <3>1 DEF Moved, Rests
  <2>2. CASE N # {}
    <3>1. PICK n \in Numbers : N = {n}
      BY <1>3, <2>2
    <3> HIDE DEF N
    <3>2. /\ Places(t)[3] = Chunks(work, t) /\ Places(t)'[3] = Places(t)[3] \union {n}
          /\ Places(t)[4] = {n} /\ Places(t)'[4] = Places(t)[4] \ {n}
          /\ Places(t)'[1] = Places(t)[1] /\ Places(t)'[2] = Places(t)[2]
          /\ Places(t)'[5] = Places(t)[5] /\ Places(t)'[6] = Places(t)[6]
      BY <1>2, <1>3, <1>4, <3>1, PlacesRow, PlacesRowNext DEF N
    <3>3. \A k \in 1..6 : k # 3 /\ k # 4 => Places(t)'[k] = Places(t)[k]
      BY <3>2, Six
    <3>4. UNCHANGED <<refused[t], lastSequence[t]>> /\ n \in Nat
      BY <1>1, NumbersAreNat
    <3>5. n \in Places(t)[4] /\ \A m \in Places(t)[4] : n <= m
      BY <3>2, <3>4
    <3> QED
      BY <3>2, <3>3, <3>4, <3>5, GoesOn
  <2> QED
    BY <2>1, <2>2
<1> QED
  BY <1>6, <1>7, <1>8 DEF Progress

(* The model worker takes the first chunk of the work queue.                *)
LEMMA ModelTakeMoves ==
  ASSUME BaseInv, BaseInv', ModelTake, NEW t \in Sessions, RowInv(t), InSequence(t)
  PROVE  Progress(t)
<1> DEFINE N == {n \in Numbers : Head(work) = <<t, n>>}
<1>1. /\ work \in Seq(Item) /\ work # <<>> /\ modelPc = "idle"
      /\ modelItem' = Head(work) /\ work' = Tail(work) /\ modelPc' = "taken"
      /\ UNCHANGED <<answers, refused, lastSequence, pending, ingress, ingressPc, ingressItem,
                    stopPc>>
  BY TypeSplit DEF BaseInv, TypeQueues, ModelTake, ModelUnchanged, ingressVars, stopVars, Item
<1>2. /\ InIngress(t)' = InIngress(t) /\ Counted(t)' = Counted(t)
      /\ Chunks(ingress', t) = Chunks(ingress, t)
      /\ Putting(t)' = Putting(t) /\ Answered(t)' = Answered(t)
  BY <1>1 DEF InIngress, InHand, Counted, Putting, Answered
<1>3. InModel(t) = {} /\ InModel(t)' = N
  BY <1>1 DEF InModel, InHand
<1>4. Chunks(work, t) = Chunks(work', t) \union N
  BY <1>1, ChunksTail
<1>5. /\ QueueInOrder(work', t) /\ QueueInOrder(ingress', t)
      /\ \A n \in N, m \in Chunks(work', t) : n < m
  BY <1>1, OrderTail DEF InSequence
<1>6. InSequence(t)'
  BY <1>1, <1>5, StillSequence
<1>7. Counts(t)
  <2>1. Scheduled(t)' = Scheduled(t)
    BY <1>2, <1>3, <1>4 DEF Scheduled, Counted
  <2> QED
    BY <1>1, <2>1 DEF Counts
<1>8. Moved(t)
  <2>1. CASE N = {}
    <3>1. Places(t)' = Places(t)
      BY <1>1, <1>2, <1>3, <1>4, <2>1, StillPlaces
    <3> QED
      BY <1>1, <3>1 DEF Moved, Rests
  <2>2. CASE N # {}
    <3>1. PICK n \in Numbers : N = {n}
      BY <2>2
    <3> HIDE DEF N
    <3>2. n \in Nat /\ n \notin Chunks(work', t) /\ \A m \in Chunks(work, t) : n <= m
      <4>1. n \in Nat
        BY NumbersAreNat
      <4>2. \A m \in Chunks(work', t) : n < m /\ m \in Nat
        BY <1>5, <3>1, NumbersAreNat DEF Chunks
      <4> QED
        BY <1>4, <3>1, <4>1, <4>2
    <3>3. /\ Places(t)[2] = {} /\ Places(t)'[2] = {n} /\ Places(t)[3] = Chunks(work, t)
          /\ Places(t)'[3] = Chunks(work, t) \ {n} /\ n \in Places(t)[3]
          /\ Places(t)'[1] = Places(t)[1] /\ Places(t)'[4] = Places(t)[4]
          /\ Places(t)'[5] = Places(t)[5] /\ Places(t)'[6] = Places(t)[6]
      BY <1>2, <1>3, <1>4, <3>1, <3>2, PlacesRow, PlacesRowNext
    <3>4. \A k \in 1..6 : k # 2 /\ k # 3 => Places(t)'[k] = Places(t)[k]
      BY <3>3, Six
    <3>5. UNCHANGED <<refused[t], lastSequence[t]>>
      BY <1>1
    <3> QED
      BY <3>2, <3>3, <3>4, <3>5, GoesOn
  <2> QED
    BY <2>1, <2>2
<1> QED
  BY <1>6, <1>7, <1>8 DEF Progress

(* One chunk fewer is scheduled, and counted.                               *)
LEMMA CountsDown ==
  ASSUME NEW t \in Sessions, NEW n \in Scheduled(t), Scheduled(t)' = Scheduled(t) \ {n},
         pending[t] \in Nat, pending'[t] = IF pending[t] > 0 THEN pending[t] - 1 ELSE 0
  PROVE  Counts(t)
<1>1. Cardinality({n}) = 1
  BY FS_Singleton
<1>2. pending'[t] = IF Cardinality({n}) <= pending[t] THEN pending[t] - Cardinality({n}) ELSE 0
  BY <1>1
<1> QED
  BY <1>2 DEF Counts

(* The chunk that is alone in a place is in no other.                       *)
LEMMA InOnePlace ==
  ASSUME NEW P \in Row, Sorted(P), NEW i \in 1..6, NEW j \in 1..6, i # j, NEW n \in P[i]
  PROVE  n \notin P[j]
<1> SUFFICES ASSUME n \in P[j] PROVE FALSE
  OBVIOUS
<1>1. n \in Nat
  BY DEF Row
<1>2. n < n
  BY DEF Sorted
<1> QED
  BY <1>1, <1>2

(* The answer to the chunk in the model worker's hands.                     *)
LEMMA AnswerMoves ==
  ASSUME BaseInv, BaseInv', NEW t \in Sessions, RowInv(t), InSequence(t), NEW n \in Numbers,
         InModel(t) = {n}, InModel(t)' = {},
         answers'[t] = IF active[t] /\ ~Terminal(t) THEN Append(answers[t], n) ELSE answers[t],
         UNCHANGED <<refused[t], lastSequence[t], work, ingress>>,
         InIngress(t)' = InIngress(t), Putting(t)' = Putting(t)
  PROVE  Moved(t) /\ InSequence(t)'
<1>1. /\ Places(t) \in Row /\ Sorted(Places(t)) /\ Places(t)' \in Row
      /\ Places(t)[1] = Answered(t) /\ Places(t)[2] = {n}
      /\ Places(t)'[1] = Answered(t)' /\ Places(t)'[2] = Places(t)[2] \ {n}
      /\ Places(t)'[3] = Places(t)[3] /\ Places(t)'[4] = Places(t)[4]
      /\ Places(t)'[5] = Places(t)[5] /\ Places(t)'[6] = Places(t)[6]
  BY PlacesRow, PlacesRowNext DEF RowInv
<1>2. answers[t] \in Seq(Numbers) /\ n \in Nat /\ Numbers \subseteq Nat
  BY TypeSplit, NumbersAreNat DEF BaseInv, TypeEvents
<1>3. \A m \in Answered(t) : m < n
  BY <1>1 DEF Sorted
<1>4. QueueInOrder(work', t) /\ QueueInOrder(ingress', t)
  BY DEF InSequence
<1>5. UNCHANGED <<refused[t], lastSequence[t]>>
  OBVIOUS
<1>6. CASE active[t] /\ ~Terminal(t)
  <2> DEFINE q == answers[t]
             r == Append(q, n)
  <2>1. answers'[t] = r
    BY <1>6
  <2>2. /\ Len(q) \in Nat /\ Len(r) = Len(q) + 1 /\ r[Len(q) + 1] = n
        /\ DOMAIN q = 1..Len(q) /\ DOMAIN r = 1..Len(r)
        /\ \A i \in 1..Len(q) : r[i] = q[i]
    BY <1>2
  <2>3. \A i \in 1..Len(q) : q[i] \in Answered(t)
    BY <2>2 DEF Answered, Range
  <2> HIDE DEF q, r
  <2>4. \A i \in 1..Len(r) : i \in 1..Len(q) \/ i = Len(q) + 1
    BY <2>2
  <2>5. Answered(t)' = Answered(t) \union {n}
    <3>1. \A x : x \in Range(r) <=> \E i \in 1..Len(r) : x = r[i]
      BY <2>2 DEF Range
    <3>2. \A x : x \in Range(q) <=> \E i \in 1..Len(q) : x = q[i]
      BY <2>2 DEF Range
    <3>3. 1..Len(q) \subseteq 1..Len(r) /\ Len(q) + 1 \in 1..Len(r)
      BY <2>2
    <3>4. Range(r) = Range(q) \union {n}
      BY <2>2, <2>4, <3>1, <3>2, <3>3
    <3> QED
      BY <2>1, <3>4 DEF Answered, q
  <2>6. InSequence(t)'
    <3>1. \A i, j \in 1..Len(r) : i < j => r[i] < r[j]
      <4> SUFFICES ASSUME NEW i \in 1..Len(r), NEW j \in 1..Len(r), i < j PROVE r[i] < r[j]
        OBVIOUS
      <4>1. i \in 1..Len(q)
        BY <2>2
      <4>2. CASE j \in 1..Len(q)
        BY <2>2, <4>1, <4>2 DEF InSequence, q
      <4>3. CASE j = Len(q) + 1
        BY <1>3, <2>2, <2>3, <4>1, <4>3
      <4> QED
        BY <2>4, <4>2, <4>3
    <3> QED
      BY <1>4, <2>1, <3>1 DEF InSequence, QueueInOrder
  <2>7. Moved(t)
    <3>1. \A k \in 1..6 : k # 1 /\ k # 2 => Places(t)'[k] = Places(t)[k]
      BY <1>1, Six
    <3>2. n \in Places(t)[2] /\ \A m \in Places(t)[2] : n <= m
      BY <1>1, <1>2
    <3>3. Places(t)'[1] = Places(t)[1] \union {n}
      BY <1>1, <2>5
    <3> QED
      BY <1>1, <1>5, <3>1, <3>2, <3>3, GoesOn
  <2> QED
    BY <2>6, <2>7
<1>7. CASE ~(active[t] /\ ~Terminal(t))
  <2>1. UNCHANGED answers[t] /\ Answered(t)' = Answered(t)
    BY <1>7 DEF Answered
  <2>2. InSequence(t)'
    BY <1>4, <2>1, StillSequence
  <2>3. \A k \in 1..6 : Places(t)'[k] \subseteq Places(t)[k]
    BY <1>1, <2>1, Six
  <2> QED
    BY <1>5, <1>7, <2>1, <2>2, <2>3 DEF Moved, Loses
<1> QED
  BY <1>6, <1>7

(* The model worker answers the chunk in its hands, or, when its session has *)
(* ended, throws the answer away.                                           *)
LEMMA ModelCompleteMoves ==
  ASSUME BaseInv, BaseInv', NEW s \in Sessions, ModelComplete(s), NEW t \in Sessions,
         RowInv(t), InSequence(t)
  PROVE  Progress(t)
<1>1. /\ modelPc = "taken" /\ modelItem[1] = s /\ modelPc' # "taken"
      /\ modelItem \in Sessions \X Numbers
      /\ UNCHANGED <<refused, lastSequence, work, ingress, ingressPc, ingressItem, stopPc>>
  BY DEF BaseInv, HandInv, ModelComplete, ModelDone, ModelUnchanged, ingressVars, stopVars
<1>2. /\ InIngress(t)' = InIngress(t) /\ Counted(t)' = Counted(t) /\ Putting(t)' = Putting(t)
      /\ InModel(t)' = {}
  BY <1>1 DEF InIngress, InModel, InHand, Counted, Putting
<1>3. PICK n \in Numbers : modelItem = <<s, n>>
  BY <1>1
<1>4. CASE t # s
  <2>1. InModel(t) = {}
    BY <1>3, <1>4 DEF InModel, InHand
  <2>2. UNCHANGED <<answers[t], pending[t]>>
    BY <1>4, TypeSplit DEF BaseInv, TypeState, TypeEvents, ModelComplete
  <2> QED
    BY <1>1, <1>2, <2>1, <2>2, StillStep
<1>5. CASE t = s
  <2>1. InModel(t) = {n}
    BY <1>1, <1>3, <1>5 DEF InModel, InHand
  <2>2. answers'[t] = IF active[t] /\ ~Terminal(t) THEN Append(answers[t], n) ELSE answers[t]
    BY <1>3, <1>5, TypeSplit DEF BaseInv, TypeEvents, ModelComplete
  <2>3. Moved(t) /\ InSequence(t)'
    BY <1>1, <1>2, <2>1, <2>2, AnswerMoves
  <2>4. Counts(t)
    <3>1. pending[t] \in Nat /\ pending'[t] = IF pending[t] > 0 THEN pending[t] - 1 ELSE 0
      BY <1>5, TypeSplit DEF BaseInv, TypeState, ModelComplete
    <3>2. n \notin Chunks(work, t) /\ n \notin InIngress(t)
      <4>1. /\ Places(t) \in Row /\ Sorted(Places(t)) /\ n \in Places(t)[2]
            /\ Places(t)[3] = Chunks(work, t) /\ Places(t)[4] = InIngress(t)
        BY <2>1, PlacesRow DEF RowInv
      <4>2. n \notin Places(t)[3] /\ n \notin Places(t)[4]
        BY <4>1, InOnePlace
      <4> QED
        BY <4>1, <4>2
    <3>3. Counted(t) \subseteq InIngress(t)
      BY DEF Counted, InIngress, InHand
    <3>4. n \in Scheduled(t) /\ Scheduled(t)' = Scheduled(t) \ {n}
      BY <1>1, <1>2, <2>1, <3>2, <3>3 DEF Scheduled, Counted
    <3> QED
      BY <3>1, <3>4, CountsDown
  <2> QED
    BY <2>3, <2>4 DEF Progress
<1> QED
  BY <1>4, <1>5

(* A chunk in the ingress worker's hands is thrown away.                    *)
LEMMA ThrownAway ==
  ASSUME BaseInv, BaseInv', NEW t \in Sessions, InSequence(t),
         fatal'[t] \/ ~active[t] \/ Terminal(t),
         UNCHANGED <<answers[t], refused[t], lastSequence[t], pending[t], work, ingress>>,
         InModel(t)' = InModel(t), Counted(t)' = Counted(t), Putting(t)' = Putting(t),
         InIngress(t)' \subseteq InIngress(t)
  PROVE  Progress(t)
<1>1. /\ Places(t)'[1] = Places(t)[1] /\ Places(t)'[2] = Places(t)[2]
      /\ Places(t)'[3] = Places(t)[3] /\ Places(t)'[4] \subseteq Places(t)[4]
      /\ Places(t)'[5] = Places(t)[5] /\ Places(t)'[6] = Places(t)[6]
      /\ Answered(t)' = Answered(t)
  <2>1. Answered(t)' = Answered(t)
    BY DEF Answered
  <2> QED
    BY <2>1, PlacesRow, PlacesRowNext
<1>2. \A k \in 1..6 : Places(t)'[k] \subseteq Places(t)[k]
  BY <1>1, Six
<1>3. Moved(t)
  BY <1>1, <1>2 DEF Moved, Loses
<1>4. Counts(t)
  BY StillScheduled DEF Counts
<1>5. InSequence(t)'
  <2>1. QueueInOrder(work', t) /\ QueueInOrder(ingress', t)
    BY DEF InSequence
  <2> QED
    BY <2>1, StillSequence
<1> QED
  BY <1>3, <1>4, <1>5 DEF Progress

(* The chunk of a session that has ended is thrown away, before it is       *)
(* looked at or after.                                                      *)
LEMMA IngressDetectMoves ==
  ASSUME BaseInv, BaseInv', NEW s \in Sessions, IngressDetect(s), NEW t \in Sessions, InSequence(t)
  PROVE  Progress(t)
<1>1. /\ ingressPc = "taken" /\ ingressItem[1] = s /\ ingressItem \in Sessions \X Numbers
      /\ \/ ~active[s] /\ ingressPc' = "idle"
         \/ ingressPc' \in {"detected", "undetected"} /\ ingressItem' = ingressItem
      /\ UNCHANGED <<answers, refused, lastSequence, pending, work, ingress, modelPc, modelItem,
                    stopPc>>
  BY DEF BaseInv, HandInv, IngressDetect, IngressDone, IngressGoto, IngressUnchanged, modelVars,
       stopVars
<1>2. /\ InModel(t)' = InModel(t) /\ Putting(t)' = Putting(t)
      /\ Counted(t)' = Counted(t)
  BY <1>1 DEF InModel, InHand, Putting, Counted
<1>3. \/ InIngress(t)' = InIngress(t)
      \/ t = s /\ ~active[t] /\ InIngress(t)' \subseteq InIngress(t)
  BY <1>1 DEF InIngress, InHand
<1>4. CASE InIngress(t)' = InIngress(t)
  BY <1>1, <1>2, <1>4, StillStep
<1>5. CASE ~active[t] /\ InIngress(t)' \subseteq InIngress(t)
  BY <1>1, <1>2, <1>5, ThrownAway
<1> QED
  BY <1>3, <1>4, <1>5

(* The ingress worker counts the chunk it will pass on.                     *)
LEMMA IngressCountMoves ==
  ASSUME BaseInv, BaseInv', NEW s \in Sessions, IngressCount(s), NEW t \in Sessions,
         RowInv(t), InSequence(t)
  PROVE  Progress(t)
<1>1. /\ ingressPc = "detected" /\ ingressItem[1] = s /\ ingressItem \in Sessions \X Numbers
      /\ \/ ~active[s] /\ ingressPc' = "idle" /\ UNCHANGED pending
         \/ /\ ingressPc' = "put" /\ ingressItem' = ingressItem
            /\ pending' = [pending EXCEPT ![s] = @ + 1]
      /\ UNCHANGED <<answers, refused, lastSequence, work, ingress, modelPc, modelItem, stopPc>>
  BY DEF BaseInv, HandInv, IngressCount, IngressDone, IngressGoto, IngressUnchanged, modelVars,
       stopVars
<1>2. /\ InModel(t)' = InModel(t) /\ Putting(t)' = Putting(t) /\ Counted(t) = {}
  BY <1>1 DEF InModel, InHand, Putting, Counted
<1>3. CASE ~active[s] /\ ingressPc' = "idle" /\ UNCHANGED pending
  <2>1. InIngress(t)' = {} /\ Counted(t)' = {} /\ (t # s => InIngress(t) = {})
    BY <1>1, <1>3 DEF InIngress, InHand, Counted
  <2>2. CASE t = s
    BY <1>1, <1>2, <1>3, <2>1, <2>2, ThrownAway
  <2>3. CASE t # s
    BY <1>1, <1>2, <1>3, <2>1, <2>3, StillStep
  <2> QED
    BY <2>2, <2>3
<1>4. CASE /\ ingressPc' = "put" /\ ingressItem' = ingressItem
           /\ pending' = [pending EXCEPT ![s] = @ + 1]
  <2>1. InIngress(t)' = InIngress(t) /\ Counted(t)' = InIngress(t)
    BY <1>1, <1>4 DEF InIngress, InHand, Counted
  <2>2. CASE t # s
    <3>1. Counted(t)' = {} /\ pending'[t] = pending[t]
      <4>1. InIngress(t) = {}
        BY <1>1, <2>2 DEF InIngress, InHand
      <4>2. pending'[t] = pending[t]
        BY <1>4, <2>2, TypeSplit DEF BaseInv, TypeState
      <4> QED
        BY <2>1, <4>1, <4>2
    <3> QED
      BY <1>1, <1>2, <2>1, <3>1, StillStep
  <2>3. CASE t = s
    <3>1. PICK n \in Numbers : ingressItem = <<t, n>>
      BY <1>1, <2>3
    <3>2. InIngress(t) = {n}
      BY <1>1, <3>1 DEF InIngress, InHand
    <3>3. n \notin Scheduled(t) /\ Scheduled(t)' = Scheduled(t) \union {n}
      <4>1. n \notin InModel(t) /\ n \notin Chunks(work, t)
        <5>1. /\ Places(t) \in Row /\ Sorted(Places(t)) /\ n \in Places(t)[4]
              /\ Places(t)[2] = InModel(t) /\ Places(t)[3] = Chunks(work, t)
          BY <3>2, PlacesRow DEF RowInv
        <5>2. n \notin Places(t)[2] /\ n \notin Places(t)[3]
          BY <5>1, InOnePlace
        <5> QED
          BY <5>1, <5>2
      <4> QED
        BY <1>1, <1>2, <2>1, <3>2, <4>1 DEF Scheduled, Counted
    <3>4. pending'[t] = pending[t] + 1
      BY <1>4, <2>3, TypeSplit DEF BaseInv, TypeState
    <3>5. Counts(t)
      BY <3>3, <3>4 DEF Counts
    <3>6. Moved(t)
      <4>1. Places(t)' = Places(t)
        BY <1>1, <1>2, <2>1, StillPlaces
      <4> QED
        BY <1>1, <4>1 DEF Moved, Rests
    <3>7. InSequence(t)'
      <4>1. QueueInOrder(work', t) /\ QueueInOrder(ingress', t)
        BY <1>1 DEF InSequence
      <4> QED
        BY <1>1, <4>1, StillSequence
    <3> QED
      BY <3>5, <3>6, <3>7 DEF Progress
  <2> QED
    BY <2>2, <2>3
<1> QED
  BY <1>1, <1>3, <1>4

(* The counted chunk is refused when the work queue remains full.           *)
LEMMA IngressPutTimeoutMoves ==
  ASSUME BaseInv, BaseInv', NEW s \in Sessions, IngressPutTimeout(s), NEW t \in Sessions,
         RowInv(t), InSequence(t)
  PROVE  Progress(t)
<1>1. /\ ingressPc = "put" /\ ingressItem[1] = s /\ ingressItem \in Sessions \X Numbers
      /\ ingressPc' \in {"idle", "rejected"}
      /\ UNCHANGED <<answers, lastSequence, work, ingress, modelPc, modelItem, stopPc>>
  BY DEF BaseInv, HandInv, IngressPutTimeout, IngressDone, IngressGoto, IngressUnchanged,
       modelVars, stopVars
<1>2. /\ InModel(t)' = InModel(t) /\ Putting(t)' = Putting(t)
      /\ InIngress(t)' = {} /\ Counted(t)' = {} /\ Counted(t) = InIngress(t)
  BY <1>1 DEF InModel, InHand, Putting, Counted, InIngress
<1>3. CASE t # s
  <2>1. InIngress(t) = {}
    BY <1>1, <1>3 DEF InIngress, InHand
  <2>2. UNCHANGED <<refused[t], pending[t]>>
    BY <1>3, TypeSplit DEF BaseInv, TypeState, TypeEvents, IngressPutTimeout
  <2> QED
    BY <1>1, <1>2, <2>1, <2>2, StillStep
<1>4. CASE t = s
  <2>1. PICK n \in Numbers : ingressItem = <<t, n>>
    BY <1>1, <1>4
  <2>2. InIngress(t) = {n}
    BY <1>1, <2>1 DEF InIngress, InHand
  <2>3. /\ refused'[t] = refused[t] \union {n} /\ pending[t] \in Nat
        /\ pending'[t] = IF pending[t] > 0 THEN pending[t] - 1 ELSE 0
    BY <1>4, <2>1, TypeSplit DEF BaseInv, TypeState, TypeEvents, IngressPutTimeout
  <2>4. n \notin InModel(t) /\ n \notin Chunks(work, t)
    <3>1. /\ Places(t) \in Row /\ Sorted(Places(t)) /\ n \in Places(t)[4]
          /\ Places(t)[2] = InModel(t) /\ Places(t)[3] = Chunks(work, t)
      BY <2>2, PlacesRow DEF RowInv
    <3>2. n \notin Places(t)[2] /\ n \notin Places(t)[3]
      BY <3>1, InOnePlace
    <3> QED
      BY <3>1, <3>2
  <2>5. Counts(t)
    <3>1. n \in Scheduled(t) /\ Scheduled(t)' = Scheduled(t) \ {n}
      BY <1>1, <1>2, <2>2, <2>4 DEF Scheduled, Counted
    <3> QED
      BY <2>3, <3>1, CountsDown
  <2>6. Moved(t)
    <3>1. Answered(t)' = Answered(t)
      BY <1>1 DEF Answered
    <3>2. /\ Places(t)[4] = {n} /\ Places(t)'[4] = Places(t)[4] \ {n}
          /\ Places(t)'[1] = Places(t)[1] /\ Places(t)'[2] = Places(t)[2]
          /\ Places(t)'[3] = Places(t)[3]
          /\ Places(t)'[5] = Places(t)[5] /\ Places(t)'[6] = Places(t)[6]
      BY <1>1, <1>2, <2>2, <3>1, PlacesRow, PlacesRowNext
    <3>3. \A k \in 1..6 : k # 4 => Places(t)'[k] = Places(t)[k]
      BY <3>2, Six
    <3>4. UNCHANGED lastSequence[t] /\ n \in Places(t)[4]
      BY <1>1, <3>2
    <3> QED
      BY <2>3, <3>2, <3>3, <3>4, IsRefused
  <2>7. InSequence(t)'
    <3>1. QueueInOrder(work', t) /\ QueueInOrder(ingress', t)
      BY <1>1 DEF InSequence
    <3> QED
      BY <1>1, <3>1, StillSequence
  <2> QED
    BY <2>5, <2>6, <2>7 DEF Progress
<1> QED
  BY <1>3, <1>4

(* A chunk the voice detector fails on goes with its session.               *)
LEMMA IngressFailsMoves ==
  ASSUME BaseInv, BaseInv', NEW s \in Sessions, IngressFails(s), NEW t \in Sessions, InSequence(t)
  PROVE  Progress(t)
<1>1. /\ ingressPc \in {"undetected", "rejected"} /\ ingressItem[1] = s
      /\ ingressItem \in Sessions \X Numbers
      /\ ingressPc' \in {"idle", "fatal"}
      /\ UNCHANGED <<answers, refused, lastSequence, pending, work, ingress, modelPc, modelItem,
                    stopPc>>
  BY DEF BaseInv, HandInv, IngressFails, IngressDone, IngressGoto, IngressUnchanged, modelVars,
       stopVars
<1>2. fatal'[s] \/ ~active[s] \/ Terminal(s)
  BY TypeSplit DEF BaseInv, TypeState, IngressFails, FatalCalled, FatalEntry, FatalIgnored
<1>3. /\ InModel(t)' = InModel(t) /\ Putting(t)' = Putting(t)
      /\ InIngress(t)' = {} /\ Counted(t)' = {} /\ Counted(t) = {}
      /\ t # s => InIngress(t) = {}
  BY <1>1 DEF InModel, InHand, Putting, Counted, InIngress
<1>4. CASE t # s
  BY <1>1, <1>3, <1>4, StillStep
<1>5. CASE t = s
  BY <1>1, <1>2, <1>3, <1>5, ThrownAway
<1> QED
  BY <1>4, <1>5

(* A callback numbers its next chunk; it is put behind the others or refused. *)
LEMMA CallbackEnqueueMoves ==
  ASSUME BaseInv, BaseInv', NEW s \in Sessions, CallbackEnqueue(s), NEW t \in Sessions,
         RowInv(t), InSequence(t)
  PROVE  Progress(t)
<1> DEFINE m == lastSequence[s] + 1
<1>1. /\ ingress \in Seq(Item) /\ callback[s] > 0
      /\ lastSequence' = [lastSequence EXCEPT ![s] = @ + 1]
      /\ UNCHANGED <<answers, pending, work, modelPc, modelItem, ingressPc, ingressItem, stopPc>>
  BY TypeSplit DEF BaseInv, TypeQueues, CallbackEnqueue, NumberChunk, CallbackUnchanged, modelVars,
       ingressVars, stopVars
<1>2. m \in Numbers /\ lastSequence'[s] = m /\ (t # s => UNCHANGED lastSequence[t])
  BY <1>1, TypeSplit, NextNumber DEF BaseInv, TypeState
<1>3. /\ InModel(t)' = InModel(t) /\ InIngress(t)' = InIngress(t) /\ Counted(t)' = Counted(t)
      /\ Putting(t)' = Putting(t) /\ (t = s => Putting(t) = {})
  <2>1. Controlled(s) /\ callback[s] \in 0..MaxBatch
    BY TypeSplit DEF BaseInv, TypeCapture
  <2>2. stopPc[s] # "put"
    BY <1>1, <2>1 DEF Controlled
  <2> QED
    BY <1>1, <1>2, <2>2 DEF InModel, InIngress, InHand, Counted, Putting
<1>4. QueueInOrder(work', t) /\ QueueInOrder(ingress, t) /\ <<s, m>> \in Item
  BY <1>1, <1>2 DEF InSequence, Item
<1>5. \A n \in Chunks(ingress, s) : t = s => n < m
  <2>1. CASE t = s
    <3>1. Chunks(ingress, s) \subseteq 0..lastSequence[s]
      <4>1. Places(t)[5] = Chunks(ingress, s) /\ Held(Places(t)) \subseteq 0..lastSequence[s]
        BY <2>1, PlacesRow DEF RowInv
      <4> QED
        BY <4>1 DEF Held
    <3>2. lastSequence[s] \in Int
      BY <1>1, NextNumber
    <3> QED
      BY <3>1, <3>2
  <2> QED
    BY <2>1
<1>6. Counts(t)
  BY <1>1, <1>3, StillScheduled DEF Counts
<1>7. CASE ingress' = Append(ingress, <<s, m>>) /\ UNCHANGED refused
  <2>1. QueueInOrder(ingress', t)
    <3>1. m # End
      BY <1>2, NumbersAreNat
    <3> QED
      BY <1>1, <1>4, <1>5, <1>7, OrderAppend
  <2>2. InSequence(t)'
    BY <1>1, <1>4, <2>1, StillSequence
  <2>3. Chunks(ingress', t) = Chunks(ingress, t) \union {n \in Numbers : <<s, m>> = <<t, n>>}
    BY <1>1, <1>4, <1>7, ChunksAppend
  <2>4. CASE t # s
    <3>1. Chunks(ingress', t) = Chunks(ingress, t)
      BY <2>3, <2>4
    <3>2. Places(t)' = Places(t)
      BY <1>1, <1>3, <3>1, StillPlaces
    <3>3. Moved(t)
      BY <1>2, <1>7, <2>4, <3>2 DEF Moved, Rests
    <3> QED
      BY <1>6, <2>2, <3>3 DEF Progress
  <2>5. CASE t = s
    <3>1. Chunks(ingress', t) = Chunks(ingress, t) \union {m}
      BY <1>2, <2>3, <2>5
    <3>2. Answered(t)' = Answered(t)
      BY <1>1 DEF Answered
    <3> HIDE DEF m
    <3>3. /\ Places(t)'[5] = Places(t)[5] \union {m} /\ Places(t)[6] = {}
          /\ Places(t)'[1] = Places(t)[1] /\ Places(t)'[2] = Places(t)[2]
          /\ Places(t)'[3] = Places(t)[3] /\ Places(t)'[4] = Places(t)[4]
          /\ Places(t)'[6] = Places(t)[6]
      BY <1>1, <1>3, <2>5, <3>1, <3>2, PlacesRow, PlacesRowNext
    <3>4. /\ \A k \in 1..6 : k # 5 => Places(t)'[k] = Places(t)[k]
          /\ \A k \in 1..6 : 5 < k => Places(t)[k] = {}
      BY <3>3, Six
    <3>5. lastSequence'[t] = lastSequence[t] + 1 /\ lastSequence'[t] = m /\ UNCHANGED refused[t]
      BY <1>2, <1>7, <2>5 DEF m
    <3>6. Moved(t)
      BY <1>2, <3>3, <3>4, <3>5, GetsIn
    <3> QED
      BY <1>6, <2>2, <3>6 DEF Progress
  <2> QED
    BY <2>4, <2>5
<1>8. CASE refused' = [refused EXCEPT ![s] = @ \union {m}] /\ ingress' = ingress
  <2>1. InSequence(t)'
    BY <1>1, <1>4, <1>8, StillSequence
  <2>2. Places(t)' = Places(t)
    BY <1>1, <1>3, <1>8, StillPlaces
  <2>3. Moved(t)
    <3>1. CASE t # s
      <4>1. UNCHANGED refused[t]
        BY <1>8, <3>1, TypeSplit DEF BaseInv, TypeEvents
      <4> QED
        BY <1>2, <2>2, <3>1, <4>1 DEF Moved, Rests
    <3>2. CASE t = s
      <4>1. refused'[t] = refused[t] \union {lastSequence'[t]}
        BY <1>2, <1>8, <3>2, TypeSplit DEF BaseInv, TypeEvents
      <4> QED
        BY <1>2, <2>2, <3>2, <4>1 DEF Moved, NextNumbered
    <3> QED
      BY <3>1, <3>2
  <2> QED
    BY <1>6, <2>1, <2>3 DEF Progress
<1>9. \/ ingress' = Append(ingress, <<s, m>>) /\ UNCHANGED refused
      \/ refused' = [refused EXCEPT ![s] = @ \union {m}] /\ ingress' = ingress
  BY <1>2 DEF CallbackEnqueue
<1> QED
  BY <1>7, <1>8, <1>9

(* A fatal error takes the session's items out of the ingress queue.        *)
LEMMA FatalPurgeIngressMoves ==
  ASSUME BaseInv, BaseInv', NEW s \in Sessions, FatalPurgeIngress(s), NEW t \in Sessions,
         InSequence(t)
  PROVE  Progress(t)
<1>1. /\ ingress \in Seq(Item) /\ ingress' = Others(ingress, s)
      /\ UNCHANGED <<answers, refused, lastSequence, pending, work, fatal, modelPc, modelItem,
                     ingressPc, ingressItem, stopPc>>
  BY TypeSplit DEF BaseInv, TypeQueues, FatalPurgeIngress, stateVars, eventVars, modelVars,
       ingressVars, stopVars
<1>2. fatal'[s]
  <2>1. Controlled(s) /\ fatalPc[s] # "none"
    BY DEF BaseInv, FatalPurgeIngress
  <2> QED
    BY <1>1, <2>1 DEF Controlled
<1>3. /\ InModel(t)' = InModel(t) /\ InIngress(t)' = InIngress(t) /\ Counted(t)' = Counted(t)
      /\ Putting(t)' = Putting(t) /\ Chunks(work', t) = Chunks(work, t)
      /\ Answered(t)' = Answered(t)
  BY <1>1 DEF InModel, InIngress, InHand, Counted, Putting, Answered
<1>4. /\ QueueInOrder(ingress', t) /\ Chunks(ingress', s) = {}
      /\ t # s => Chunks(ingress', t) = Chunks(ingress, t)
  BY <1>1, OthersKeep DEF InSequence
<1>5. InSequence(t)'
  <2>1. QueueInOrder(work', t)
    BY <1>1 DEF InSequence
  <2> QED
    BY <1>1, <1>4, <2>1, StillSequence
<1>6. Counts(t)
  BY <1>1, <1>3, StillScheduled DEF Counts
<1>7. CASE t # s
  <2>1. Places(t)' = Places(t)
    BY <1>1, <1>3, <1>4, <1>7, StillPlaces
  <2>2. Moved(t)
    BY <1>1, <2>1 DEF Moved, Rests
  <2> QED
    BY <1>5, <1>6, <2>2 DEF Progress
<1>8. CASE t = s
  <2>1. /\ Places(t)'[1] = Places(t)[1] /\ Places(t)'[2] = Places(t)[2]
        /\ Places(t)'[3] = Places(t)[3] /\ Places(t)'[4] = Places(t)[4]
        /\ Places(t)'[5] = {} /\ Places(t)'[6] = Places(t)[6]
    BY <1>1, <1>3, <1>4, <1>8, PlacesRow, PlacesRowNext
  <2>2. \A k \in 1..6 : Places(t)'[k] \subseteq Places(t)[k]
    BY <2>1, Six
  <2>3. Moved(t)
    BY <1>1, <1>2, <1>3, <1>8, <2>2 DEF Moved, Loses
  <2> QED
    BY <1>5, <1>6, <2>3 DEF Progress
<1> QED
  BY <1>7, <1>8

(* Then out of the work queue, and out of the count.                        *)
LEMMA FatalPurgeWorkMoves ==
  ASSUME BaseInv, BaseInv', NEW s \in Sessions, FatalPurgeWork(s), NEW t \in Sessions,
         RowInv(t), InSequence(t)
  PROVE  Progress(t)
<1>1. /\ work \in Seq(Item) /\ work \in Seq(Sessions \X Numbers) /\ work' = Others(work, s)
      /\ UNCHANGED <<answers, refused, lastSequence, ingress, fatal, modelPc, modelItem,
                     ingressPc, ingressItem, stopPc>>
  BY TypeSplit DEF BaseInv, TypeQueues, FatalPurgeWork, eventVars, modelVars, ingressVars,
       stopVars, Item
<1>2. fatal'[s]
  <2>1. Controlled(s) /\ workMutex = s
    BY DEF BaseInv, FatalPurgeWork
  <2> QED
    BY <1>1, <2>1 DEF Controlled
<1>3. /\ InModel(t)' = InModel(t) /\ InIngress(t)' = InIngress(t) /\ Counted(t)' = Counted(t)
      /\ Putting(t)' = Putting(t) /\ Chunks(ingress', t) = Chunks(ingress, t)
      /\ Answered(t)' = Answered(t)
  BY <1>1 DEF InModel, InIngress, InHand, Counted, Putting, Answered
<1>4. /\ QueueInOrder(work', t) /\ Chunks(work', s) = {}
      /\ t # s => Chunks(work', t) = Chunks(work, t)
  BY <1>1, OthersKeep DEF InSequence
<1>5. InSequence(t)'
  <2>1. QueueInOrder(ingress', t)
    BY <1>1 DEF InSequence
  <2> QED
    BY <1>1, <1>4, <2>1, StillSequence
<1>6. CASE t # s
  <2>1. Places(t)' = Places(t)
    BY <1>1, <1>3, <1>4, <1>6, StillPlaces
  <2>2. pending'[t] = pending[t]
    BY <1>6, TypeSplit DEF BaseInv, TypeState, FatalPurgeWork
  <2>3. Counts(t)
    BY <1>3, <1>4, <1>6, <2>2, StillScheduled DEF Counts
  <2>4. Moved(t)
    BY <1>1, <2>1 DEF Moved, Rests
  <2> QED
    BY <1>5, <2>3, <2>4 DEF Progress
<1>7. CASE t = s
  <2>1. /\ Places(t)'[1] = Places(t)[1] /\ Places(t)'[2] = Places(t)[2]
        /\ Places(t)'[3] = {} /\ Places(t)'[4] = Places(t)[4]
        /\ Places(t)'[5] = Places(t)[5] /\ Places(t)'[6] = Places(t)[6]
    BY <1>1, <1>3, <1>4, <1>7, PlacesRow, PlacesRowNext
  <2>2. \A k \in 1..6 : Places(t)'[k] \subseteq Places(t)[k]
    BY <2>1, Six
  <2>3. Moved(t)
    BY <1>1, <1>2, <1>3, <1>7, <2>2 DEF Moved, Loses
  <2>4. Counts(t)
    <3> DEFINE X == Chunks(work, t)
    <3>1. Len(work) - Len(work') = Cardinality(X)
      BY <1>1, <1>7, OthersCount DEF InSequence
    <3>2. pending'[t] = LET removed == Len(work) - Len(work')
                        IN  IF removed <= pending[t] THEN pending[t] - removed ELSE 0
      BY <1>7, TypeSplit DEF BaseInv, TypeState, FatalPurgeWork
    <3>3. \A n \in X : n \notin InModel(t) /\ n \notin InIngress(t)
      <4> SUFFICES ASSUME NEW n \in X PROVE n \notin InModel(t) /\ n \notin InIngress(t)
        OBVIOUS
      <4>1. /\ Places(t) \in Row /\ Sorted(Places(t)) /\ n \in Places(t)[3]
            /\ Places(t)[2] = InModel(t) /\ Places(t)[4] = InIngress(t)
        BY PlacesRow DEF RowInv
      <4>2. n \notin Places(t)[2] /\ n \notin Places(t)[4]
        BY <4>1, InOnePlace
      <4> QED
        BY <4>1, <4>2
    <3>4. Counted(t) \subseteq InIngress(t)
      BY DEF Counted, InIngress, InHand
    <3> HIDE DEF X
    <3>5. X \in SUBSET Scheduled(t) /\ Scheduled(t)' = Scheduled(t) \ X
      BY <1>3, <1>4, <1>7, <3>3, <3>4 DEF Scheduled, Counted, X
    <3>6. pending'[t] = IF Cardinality(X) <= pending[t] THEN pending[t] - Cardinality(X) ELSE 0
      BY <3>1, <3>2
    <3> QED
      BY <3>5, <3>6 DEF Counts
  <2> QED
    BY <1>5, <2>3, <2>4 DEF Progress
<1> QED
  BY <1>6, <1>7

(* A stopping session numbers its next chunk, which is behind the others.   *)
LEMMA StopNumberMoves ==
  ASSUME BaseInv, BaseInv', NEW s \in Sessions, StopNumber(s), NEW t \in Sessions, InSequence(t)
  PROVE  Progress(t)
<1> DEFINE m == lastSequence[s] + 1
<1>1. /\ stopPc[s] = "enqueue" /\ tail[s] > 0 /\ callback[s] = 0
      /\ lastSequence' = [lastSequence EXCEPT ![s] = @ + 1]
      /\ stopPc' = [stopPc EXCEPT ![s] = "put"]
      /\ UNCHANGED <<answers, refused, pending, work, ingress, modelPc, modelItem, ingressPc,
                    ingressItem>>
  BY DEF StopNumber, StopGoto, NumberChunk, StopUnchanged, LockFree, modelVars, ingressVars
<1>2. /\ m \in Numbers /\ lastSequence'[s] = m /\ stopPc'[s] = "put"
      /\ t # s => UNCHANGED <<lastSequence[t], stopPc[t]>>
  BY <1>1, TypeSplit, NextNumber DEF BaseInv, TypeState, TypeStop
<1>3. /\ InModel(t)' = InModel(t) /\ InIngress(t)' = InIngress(t) /\ Counted(t)' = Counted(t)
      /\ Chunks(work', t) = Chunks(work, t) /\ Chunks(ingress', t) = Chunks(ingress, t)
      /\ Answered(t)' = Answered(t)
  BY <1>1 DEF InModel, InIngress, InHand, Counted, Answered
<1>4. CASE t # s
  <2>1. Putting(t)' = Putting(t)
    BY <1>2, <1>4 DEF Putting
  <2> QED
    BY <1>1, <1>2, <1>3, <1>4, <2>1, StillStep
<1>5. CASE t = s
  <2>1. Putting(t) = {} /\ Putting(t)' = {m}
    BY <1>1, <1>2, <1>5 DEF Putting
  <2> HIDE DEF m
  <2>2. /\ Places(t)'[6] = Places(t)[6] \union {m}
        /\ Places(t)'[1] = Places(t)[1] /\ Places(t)'[2] = Places(t)[2]
        /\ Places(t)'[3] = Places(t)[3] /\ Places(t)'[4] = Places(t)[4]
        /\ Places(t)'[5] = Places(t)[5]
    BY <1>1, <1>3, <2>1, PlacesRow, PlacesRowNext
  <2>3. /\ \A k \in 1..6 : k # 6 => Places(t)'[k] = Places(t)[k]
        /\ \A k \in 1..6 : 6 < k => Places(t)[k] = {}
    BY <2>2, Six
  <2>4. lastSequence'[t] = lastSequence[t] + 1 /\ lastSequence'[t] = m /\ UNCHANGED refused[t]
    BY <1>1, <1>2, <1>5 DEF m
  <2>5. Moved(t)
    BY <1>2, <2>2, <2>3, <2>4, GetsIn
  <2>6. Counts(t)
    BY <1>1, <1>3, StillScheduled DEF Counts
  <2>7. InSequence(t)'
    <3>1. QueueInOrder(work', t) /\ QueueInOrder(ingress', t)
      BY <1>1 DEF InSequence
    <3> QED
      BY <1>1, <3>1, StillSequence
  <2> QED
    BY <2>5, <2>6, <2>7 DEF Progress
<1> QED
  BY <1>4, <1>5

(* The chunk a stopping session is putting has the last number.             *)
LEMMA PuttingLast ==
  ASSUME BaseInv, NEW s \in Sessions, stopPc[s] = "put"
  PROVE  lastSequence[s] \in Numbers /\ Putting(s) = {lastSequence[s]}
<1>1. Controlled(s) /\ lastSequence[s] \in Numbers \union {-1}
  BY TypeSplit DEF BaseInv, TypeState
<1>2. lastSequence[s] # -1
  BY <1>1 DEF Controlled
<1> QED
  BY <1>1, <1>2 DEF Putting

(* It goes behind the others of the queue as soon as that has room.         *)
LEMMA StopPutMoves ==
  ASSUME BaseInv, BaseInv', NEW s \in Sessions, StopPut(s), NEW t \in Sessions,
         RowInv(t), InSequence(t)
  PROVE  Progress(t)
<1> DEFINE n == lastSequence[s]
<1>1. /\ stopPc[s] = "put" /\ stopPc' = [stopPc EXCEPT ![s] = "enqueue"]
      /\ ingress \in Seq(Item) /\ ingress' = Append(ingress, <<s, n>>)
      /\ UNCHANGED <<answers, refused, lastSequence, pending, work, modelPc, modelItem, ingressPc,
                     ingressItem>>
  BY TypeSplit DEF BaseInv, TypeQueues, StopPut, StopGoto, StopUnchanged, modelVars, ingressVars
<1>2. /\ n \in Numbers /\ Putting(s) = {n} /\ Putting(s)' = {} /\ <<s, n>> \in Item
      /\ t # s => Putting(t)' = Putting(t)
  <2>1. n \in Numbers /\ Putting(s) = {n}
    BY <1>1, PuttingLast
  <2>2. stopPc'[s] = "enqueue" /\ (t # s => stopPc'[t] = stopPc[t])
    BY <1>1, TypeSplit DEF BaseInv, TypeStop
  <2>3. Putting(s)' = {} /\ (t # s => Putting(t)' = Putting(t))
    BY <1>1, <2>2 DEF Putting
  <2> QED
    BY <2>1, <2>3 DEF Item
<1>3. /\ InModel(t)' = InModel(t) /\ InIngress(t)' = InIngress(t) /\ Counted(t)' = Counted(t)
      /\ Chunks(work', t) = Chunks(work, t) /\ Answered(t)' = Answered(t)
  BY <1>1 DEF InModel, InIngress, InHand, Counted, Answered
<1> HIDE DEF n
<1>4. Chunks(ingress', t) = Chunks(ingress, t) \union {k \in Numbers : <<s, n>> = <<t, k>>}
  BY <1>1, <1>2, ChunksAppend
<1>5. QueueInOrder(ingress', t)
  <2>1. t = s => \A m \in Chunks(ingress, t) : m < n
    <3>1. CASE t = s
      <4>1. /\ Places(t)[5] = Chunks(ingress, t) /\ n \in Places(t)[6] /\ Sorted(Places(t))
        BY <1>2, <3>1, PlacesRow DEF RowInv
      <4> QED
        BY <4>1 DEF Sorted
    <3> QED
      BY <3>1
  <2>2. QueueInOrder(ingress, t)
    BY DEF InSequence
  <2> QED
    BY <1>1, <1>2, <2>1, <2>2, OrderAppend
<1>6. InSequence(t)'
  <2>1. QueueInOrder(work', t)
    BY <1>1 DEF InSequence
  <2> QED
    BY <1>1, <1>5, <2>1, StillSequence
<1>7. Counts(t)
  BY <1>1, <1>3, StillScheduled DEF Counts
<1>8. Moved(t)
  <2>1. CASE t # s
    <3>1. Chunks(ingress', t) = Chunks(ingress, t)
      BY <1>4, <2>1
    <3>2. Places(t)' = Places(t)
      BY <1>1, <1>2, <1>3, <2>1, <3>1, StillPlaces
    <3> QED
      BY <1>1, <3>2 DEF Moved, Rests
  <2>2. CASE t = s
    <3>1. /\ Chunks(ingress', t) = Chunks(ingress, t) \union {n}
          /\ Putting(t) = {n} /\ Putting(t)' = {} /\ Chunks(work', t) = Chunks(work, t)
      BY <1>2, <1>3, <1>4, <2>2
    <3>2. /\ Places(t)'[5] = Places(t)[5] \union {n}
          /\ Places(t)[6] = {n} /\ Places(t)'[6] = Places(t)[6] \ {n}
          /\ Places(t)'[1] = Places(t)[1] /\ Places(t)'[2] = Places(t)[2]
          /\ Places(t)'[3] = Places(t)[3] /\ Places(t)'[4] = Places(t)[4]
      BY <1>3, <3>1, PlacesRow, PlacesRowNext
    <3>3. \A k \in 1..6 : k # 5 /\ k # 6 => Places(t)'[k] = Places(t)[k]
      BY <3>2, Six
    <3>4. UNCHANGED <<refused[t], lastSequence[t]>> /\ n \in Nat
      BY <1>1, <1>2, NumbersAreNat
    <3>5. n \in Places(t)[6] /\ \A m \in Places(t)[6] : n <= m
      BY <3>2, <3>4
    <3> QED
      BY <1>2, <3>2, <3>3, <3>4, <3>5, GoesOn
  <2> QED
    BY <2>1, <2>2
<1> QED
  BY <1>6, <1>7, <1>8 DEF Progress

(* It is refused when the time is up before that.                           *)
LEMMA StopPutTimeoutMoves ==
  ASSUME BaseInv, BaseInv', NEW s \in Sessions, StopPutTimeout(s), NEW t \in Sessions, InSequence(t)
  PROVE  Progress(t)
<1> DEFINE n == lastSequence[s]
<1>1. /\ stopPc[s] = "put" /\ refused' = [refused EXCEPT ![s] = @ \union {n}]
      /\ \E label \in {"enqueue", "raised"} : stopPc' = [stopPc EXCEPT ![s] = label]
      /\ UNCHANGED <<answers, lastSequence, pending, work, ingress, modelPc, modelItem, ingressPc,
                     ingressItem>>
  BY DEF StopPutTimeout, StopGoto, StopUnchanged, modelVars, ingressVars
<1>2. /\ n \in Numbers /\ Putting(s) = {n} /\ Putting(s)' = {}
      /\ refused'[s] = refused[s] \union {n}
      /\ t # s => Putting(t)' = Putting(t) /\ UNCHANGED refused[t]
  <2>1. n \in Numbers /\ Putting(s) = {n}
    BY <1>1, PuttingLast
  <2>2. stopPc'[s] # "put" /\ (t # s => stopPc'[t] = stopPc[t])
    BY <1>1, TypeSplit DEF BaseInv, TypeStop
  <2>3. Putting(s)' = {} /\ (t # s => Putting(t)' = Putting(t))
    BY <1>1, <2>2 DEF Putting
  <2>4. refused'[s] = refused[s] \union {n} /\ (t # s => UNCHANGED refused[t])
    BY <1>1, TypeSplit DEF BaseInv, TypeEvents
  <2> QED
    BY <2>1, <2>3, <2>4
<1>3. /\ InModel(t)' = InModel(t) /\ InIngress(t)' = InIngress(t) /\ Counted(t)' = Counted(t)
      /\ Chunks(work', t) = Chunks(work, t) /\ Chunks(ingress', t) = Chunks(ingress, t)
      /\ Answered(t)' = Answered(t)
  BY <1>1 DEF InModel, InIngress, InHand, Counted, Answered
<1> HIDE DEF n
<1>4. CASE t # s
  BY <1>1, <1>2, <1>3, <1>4, StillStep
<1>5. CASE t = s
  <2>1. /\ Places(t)[6] = {n} /\ Places(t)'[6] = Places(t)[6] \ {n}
        /\ Places(t)'[1] = Places(t)[1] /\ Places(t)'[2] = Places(t)[2]
        /\ Places(t)'[3] = Places(t)[3] /\ Places(t)'[4] = Places(t)[4]
        /\ Places(t)'[5] = Places(t)[5]
    BY <1>1, <1>2, <1>3, <1>5, PlacesRow, PlacesRowNext
  <2>2. \A k \in 1..6 : k # 6 => Places(t)'[k] = Places(t)[k]
    BY <2>1, Six
  <2>3. UNCHANGED lastSequence[t] /\ n \in Places(t)[6] /\ refused'[t] = refused[t] \union {n}
    BY <1>1, <1>2, <1>5, <2>1
  <2>4. Moved(t)
    BY <2>1, <2>2, <2>3, IsRefused
  <2>5. Counts(t)
    BY <1>1, <1>3, StillScheduled DEF Counts
  <2>6. InSequence(t)'
    <3>1. QueueInOrder(work', t) /\ QueueInOrder(ingress', t)
      BY <1>1 DEF InSequence
    <3> QED
      BY <1>1, <3>1, StillSequence
  <2> QED
    BY <2>4, <2>5, <2>6 DEF Progress
<1> QED
  BY <1>4, <1>5

(* The end of a session is no chunk.                                        *)
LEMMA StopEndMoves ==
  ASSUME BaseInv, NEW s \in Sessions, StopEnd(s), NEW t \in Sessions, InSequence(t)
  PROVE  Progress(t)
<1>1. /\ stopPc[s] = "enqueue" /\ stopPc' = [stopPc EXCEPT ![s] = "wait"]
      /\ ingress \in Seq(Item) /\ (ingress' = ingress \/ ingress' = Append(ingress, <<s, End>>))
      /\ UNCHANGED <<answers, refused, lastSequence, pending, work, modelPc, modelItem, ingressPc,
                     ingressItem>>
  BY TypeSplit DEF BaseInv, TypeQueues, StopEnd, StopGoto, StopUnchanged, modelVars, ingressVars
<1>2. /\ InModel(t)' = InModel(t) /\ InIngress(t)' = InIngress(t) /\ Counted(t)' = Counted(t)
      /\ Chunks(work', t) = Chunks(work, t)
  BY <1>1 DEF InModel, InIngress, InHand, Counted
<1>3. Putting(t)' = Putting(t)
  <2>1. stopPc'[s] = "wait" /\ (t # s => stopPc'[t] = stopPc[t])
    BY <1>1, TypeSplit DEF BaseInv, TypeStop
  <2> QED
    BY <1>1, <2>1 DEF Putting
<1>4. Chunks(ingress', t) = Chunks(ingress, t) /\ QueueInOrder(ingress', t)
  <2>1. QueueInOrder(ingress, t) /\ <<s, End>> \in Item
    BY DEF InSequence, Item
  <2>2. CASE ingress' = Append(ingress, <<s, End>>)
    <3>1. Chunks(ingress', t) = Chunks(ingress, t) \union {k \in Numbers : <<s, End>> = <<t, k>>}
      BY <1>1, <2>1, <2>2, ChunksAppend
    <3>2. Chunks(ingress', t) = Chunks(ingress, t)
      BY <3>1, NumbersAreNat
    <3>3. QueueInOrder(ingress', t)
      BY <1>1, <2>1, <2>2, OrderAppend
    <3> QED
      BY <3>2, <3>3
  <2> QED
    BY <1>1, <2>1, <2>2
<1>5. Moved(t)
  <2>1. Places(t)' = Places(t)
    BY <1>1, <1>2, <1>3, <1>4, StillPlaces
  <2> QED
    BY <1>1, <2>1 DEF Moved, Rests
<1>6. Counts(t)
  BY <1>1, <1>2, StillScheduled DEF Counts
<1>7. InSequence(t)'
  <2>1. QueueInOrder(work', t)
    BY <1>1 DEF InSequence
  <2> QED
    BY <1>1, <1>4, <2>1, StillSequence
<1> QED
  BY <1>5, <1>6, <1>7 DEF Progress

(* Whatever the step, the chunks of a session progress as said above.       *)
LEMMA ProgressStep ==
  ASSUME BaseInv, BaseInv', [Next]_vars, NEW t \in Sessions, RowInv(t), InSequence(t)
  PROVE  Progress(t)
<1>0. HandInv /\ TypeStop
  BY TypeSplit DEF BaseInv
<1>1. ASSUME IngressTake PROVE Progress(t)
  BY <1>1, IngressTakeMoves
<1>2. ASSUME IngressPut PROVE Progress(t)
  BY <1>2, IngressPutMoves
<1>3. ASSUME ModelTake PROVE Progress(t)
  BY <1>3, ModelTakeMoves
<1>4. ASSUME NEW s \in Sessions, IngressEnd(s) PROVE Progress(t)
  <2>1. UNCHANGED <<answers, refused, lastSequence, pending, work, ingress>>
    BY <1>4 DEF IngressEnd, IngressUnchanged
  <2>2. InModel(t)' = InModel(t) /\ InIngress(t)' = InIngress(t) /\ Counted(t)' = Counted(t)
    BY <1>4 DEF InModel, InIngress, Counted, InHand, IngressEnd, IngressUnchanged, IngressGoto,
         IngressDone, modelVars
  <2>3. Putting(t)' = Putting(t)
    BY <1>0, <1>4, <2>1 DEF TypeStop, Putting, IngressEnd, IngressUnchanged, stopVars
  <2> QED
    BY <2>1, <2>2, <2>3, StillStep
<1>5. ASSUME NEW s \in Sessions, IngressConclude(s) PROVE Progress(t)
  <2>1. UNCHANGED <<answers, refused, lastSequence, pending, work, ingress>>
    BY <1>5 DEF IngressConclude, IngressUnchanged
  <2>2. InModel(t)' = InModel(t) /\ InIngress(t)' = InIngress(t) /\ Counted(t)' = Counted(t)
    BY <1>5 DEF InModel, InIngress, Counted, InHand, IngressConclude, IngressUnchanged, IngressGoto,
         IngressDone, modelVars
  <2>3. Putting(t)' = Putting(t)
    BY <1>0, <1>5, <2>1 DEF TypeStop, Putting, IngressConclude, IngressUnchanged, stopVars
  <2> QED
    BY <2>1, <2>2, <2>3, StillStep
<1>6. ASSUME NEW s \in Sessions, IngressDetect(s) PROVE Progress(t)
  BY <1>6, IngressDetectMoves
<1>7. ASSUME NEW s \in Sessions, IngressCount(s) PROVE Progress(t)
  BY <1>7, IngressCountMoves
<1>8. ASSUME NEW s \in Sessions, IngressPutTimeout(s) PROVE Progress(t)
  BY <1>8, IngressPutTimeoutMoves
<1>9. ASSUME NEW s \in Sessions, IngressFails(s) PROVE Progress(t)
  BY <1>9, IngressFailsMoves
<1>10. ASSUME NEW s \in Sessions, IngressFailed(s) PROVE Progress(t)
  <2>1. UNCHANGED <<answers, refused, lastSequence, pending, work, ingress>>
    BY <1>10 DEF IngressFailed, IngressUnchanged
  <2>2. InModel(t)' = InModel(t) /\ InIngress(t)' = InIngress(t) /\ Counted(t)' = Counted(t)
    BY <1>10 DEF InModel, InIngress, Counted, InHand, IngressFailed, IngressUnchanged, IngressGoto,
         IngressDone, modelVars
  <2>3. Putting(t)' = Putting(t)
    BY <1>0, <1>10, <2>1 DEF TypeStop, Putting, IngressFailed, IngressUnchanged, stopVars
  <2> QED
    BY <2>1, <2>2, <2>3, StillStep
<1>11. ASSUME NEW s \in Sessions, ModelComplete(s) PROVE Progress(t)
  BY <1>11, ModelCompleteMoves
<1>12. ASSUME NEW s \in Sessions, ModelConclude(s) PROVE Progress(t)
  <2>1. UNCHANGED <<answers, refused, lastSequence, pending, work, ingress>>
    BY <1>12 DEF ModelConclude, ModelUnchanged
  <2>2. InModel(t)' = InModel(t) /\ InIngress(t)' = InIngress(t) /\ Counted(t)' = Counted(t)
    BY <1>12 DEF InModel, InIngress, Counted, InHand, ModelConclude, ModelUnchanged, ModelDone,
         ingressVars
  <2>3. Putting(t)' = Putting(t)
    BY <1>0, <1>12, <2>1 DEF TypeStop, Putting, ModelConclude, ModelUnchanged, stopVars
  <2> QED
    BY <2>1, <2>2, <2>3, StillStep
<1>13. ASSUME NEW s \in Sessions, CallbackBegin(s) PROVE Progress(t)
  <2>1. UNCHANGED <<answers, refused, lastSequence, pending, work, ingress>>
    BY <1>13 DEF CallbackBegin, CallbackUnchanged
  <2>2. InModel(t)' = InModel(t) /\ InIngress(t)' = InIngress(t) /\ Counted(t)' = Counted(t)
    BY <1>13 DEF InModel, InIngress, Counted, InHand, CallbackBegin, CallbackUnchanged, ingressVars,
         modelVars
  <2>3. Putting(t)' = Putting(t)
    BY <1>0, <1>13, <2>1 DEF TypeStop, Putting, CallbackBegin, CallbackUnchanged, stopVars
  <2> QED
    BY <2>1, <2>2, <2>3, StillStep
<1>14. ASSUME NEW s \in Sessions, CallbackEnqueue(s) PROVE Progress(t)
  BY <1>14, CallbackEnqueueMoves
<1>15. ASSUME NEW s \in Sessions, CallbackFails(s) PROVE Progress(t)
  <2>1. UNCHANGED <<answers, refused, lastSequence, pending, work, ingress>>
    BY <1>15 DEF CallbackFails, CallbackUnchanged
  <2>2. InModel(t)' = InModel(t) /\ InIngress(t)' = InIngress(t) /\ Counted(t)' = Counted(t)
    BY <1>15 DEF InModel, InIngress, Counted, InHand, CallbackFails, CallbackUnchanged, ingressVars,
         modelVars
  <2>3. Putting(t)' = Putting(t)
    BY <1>0, <1>15, <2>1 DEF TypeStop, Putting, CallbackFails, CallbackUnchanged, stopVars
  <2> QED
    BY <2>1, <2>2, <2>3, StillStep
<1>16. ASSUME NEW s \in Sessions, CaptureError(s) PROVE Progress(t)
  <2>1. UNCHANGED <<answers, refused, lastSequence, pending, work, ingress>>
    BY <1>16 DEF CaptureError, CallbackUnchanged
  <2>2. InModel(t)' = InModel(t) /\ InIngress(t)' = InIngress(t) /\ Counted(t)' = Counted(t)
    BY <1>16 DEF InModel, InIngress, Counted, InHand, CaptureError, CallbackUnchanged, ingressVars,
         modelVars
  <2>3. Putting(t)' = Putting(t)
    BY <1>0, <1>16, <2>1 DEF TypeStop, Putting, CaptureError, CallbackUnchanged, stopVars
  <2> QED
    BY <2>1, <2>2, <2>3, StillStep
<1>17. ASSUME NEW s \in Sessions, SourceEnds(s) PROVE Progress(t)
  <2>1. UNCHANGED <<answers, refused, lastSequence, pending, work, ingress>>
    BY <1>17 DEF SourceEnds, stateVars, eventVars, queueVars
  <2>2. InModel(t)' = InModel(t) /\ InIngress(t)' = InIngress(t) /\ Counted(t)' = Counted(t)
    BY <1>17 DEF InModel, InIngress, Counted, InHand, SourceEnds, ingressVars, modelVars
  <2>3. Putting(t)' = Putting(t)
    BY <1>0, <1>17, <2>1 DEF TypeStop, Putting, SourceEnds, stateVars, stopVars
  <2> QED
    BY <2>1, <2>2, <2>3, StillStep
<1>18. ASSUME NEW s \in Sessions, FatalBegin(s) PROVE Progress(t)
  <2>1. UNCHANGED <<answers, refused, lastSequence, pending, work, ingress>>
    BY <1>18 DEF FatalBegin, eventVars, queueVars
  <2>2. InModel(t)' = InModel(t) /\ InIngress(t)' = InIngress(t) /\ Counted(t)' = Counted(t)
    BY <1>18 DEF InModel, InIngress, Counted, InHand, FatalBegin, ingressVars, modelVars
  <2>3. Putting(t)' = Putting(t)
    BY <1>0, <1>18, <2>1 DEF TypeStop, Putting, FatalBegin, stopVars
  <2> QED
    BY <2>1, <2>2, <2>3, StillStep
<1>19. ASSUME NEW s \in Sessions, FatalPurgeIngress(s) PROVE Progress(t)
  BY <1>19, FatalPurgeIngressMoves
<1>20. ASSUME NEW s \in Sessions, FatalLockWork(s) PROVE Progress(t)
  <2>1. UNCHANGED <<answers, refused, lastSequence, pending, work, ingress>>
    BY <1>20 DEF FatalLockWork, stateVars, eventVars
  <2>2. InModel(t)' = InModel(t) /\ InIngress(t)' = InIngress(t) /\ Counted(t)' = Counted(t)
    BY <1>20 DEF InModel, InIngress, Counted, InHand, FatalLockWork, ingressVars, modelVars
  <2>3. Putting(t)' = Putting(t)
    BY <1>0, <1>20, <2>1 DEF TypeStop, Putting, FatalLockWork, stateVars, stopVars
  <2> QED
    BY <2>1, <2>2, <2>3, StillStep
<1>21. ASSUME NEW s \in Sessions, FatalPurgeWork(s) PROVE Progress(t)
  BY <1>21, FatalPurgeWorkMoves
<1>22. ASSUME NEW s \in Sessions, FatalEmit(s) PROVE Progress(t)
  <2>1. UNCHANGED <<answers, refused, lastSequence, pending, work, ingress>>
    BY <1>22 DEF FatalEmit, stateVars, queueVars
  <2>2. InModel(t)' = InModel(t) /\ InIngress(t)' = InIngress(t) /\ Counted(t)' = Counted(t)
    BY <1>22 DEF InModel, InIngress, Counted, InHand, FatalEmit, ingressVars, modelVars
  <2>3. Putting(t)' = Putting(t)
    BY <1>0, <1>22, <2>1 DEF TypeStop, Putting, FatalEmit, stateVars, stopVars
  <2> QED
    BY <2>1, <2>2, <2>3, StillStep
<1>23. ASSUME NEW s \in Sessions, StopCall(s) PROVE Progress(t)
  <2>1. UNCHANGED <<answers, refused, lastSequence, pending, work, ingress>>
    BY <1>23 DEF StopCall, StopUnchanged
  <2>2. InModel(t)' = InModel(t) /\ InIngress(t)' = InIngress(t) /\ Counted(t)' = Counted(t)
    BY <1>23 DEF InModel, InIngress, Counted, InHand, StopCall, StopUnchanged, ingressVars,
         modelVars
  <2>3. Putting(t)' = Putting(t)
    BY <1>0, <1>23, <2>1 DEF TypeStop, Putting, StopCall, StopUnchanged, StopGoto
  <2> QED
    BY <2>1, <2>2, <2>3, StillStep
<1>24. ASSUME NEW s \in Sessions, StopSourceEnded(s) PROVE Progress(t)
  <2>1. UNCHANGED <<answers, refused, lastSequence, pending, work, ingress>>
    BY <1>24 DEF StopSourceEnded, StopUnchanged
  <2>2. InModel(t)' = InModel(t) /\ InIngress(t)' = InIngress(t) /\ Counted(t)' = Counted(t)
    BY <1>24 DEF InModel, InIngress, Counted, InHand, StopSourceEnded, StopUnchanged, ingressVars,
         modelVars
  <2>3. Putting(t)' = Putting(t)
    BY <1>0, <1>24, <2>1 DEF TypeStop, Putting, StopSourceEnded, StopUnchanged, StopGoto
  <2> QED
    BY <2>1, <2>2, <2>3, StillStep
<1>25. ASSUME NEW s \in Sessions, StopSourceFailed(s) PROVE Progress(t)
  <2>1. UNCHANGED <<answers, refused, lastSequence, pending, work, ingress>>
    BY <1>25 DEF StopSourceFailed, StopUnchanged
  <2>2. InModel(t)' = InModel(t) /\ InIngress(t)' = InIngress(t) /\ Counted(t)' = Counted(t)
    BY <1>25 DEF InModel, InIngress, Counted, InHand, StopSourceFailed, StopUnchanged, ingressVars,
         modelVars
  <2>3. Putting(t)' = Putting(t)
    BY <1>0, <1>25, <2>1 DEF TypeStop, Putting, StopSourceFailed, StopUnchanged, StopGoto
  <2> QED
    BY <2>1, <2>2, <2>3, StillStep
<1>26. ASSUME NEW s \in Sessions, StopFatalReturns(s) PROVE Progress(t)
  <2>1. UNCHANGED <<answers, refused, lastSequence, pending, work, ingress>>
    BY <1>26 DEF StopFatalReturns, StopUnchanged
  <2>2. InModel(t)' = InModel(t) /\ InIngress(t)' = InIngress(t) /\ Counted(t)' = Counted(t)
    BY <1>26 DEF InModel, InIngress, Counted, InHand, StopFatalReturns, StopUnchanged, ingressVars,
         modelVars
  <2>3. Putting(t)' = Putting(t)
    BY <1>0, <1>26, <2>1 DEF TypeStop, Putting, StopFatalReturns, StopUnchanged, StopGoto
  <2> QED
    BY <2>1, <2>2, <2>3, StillStep
<1>27. ASSUME NEW s \in Sessions, StopFlush(s) PROVE Progress(t)
  <2>1. UNCHANGED <<answers, refused, lastSequence, pending, work, ingress>>
    BY <1>27 DEF StopFlush, StopUnchanged
  <2>2. InModel(t)' = InModel(t) /\ InIngress(t)' = InIngress(t) /\ Counted(t)' = Counted(t)
    BY <1>27 DEF InModel, InIngress, Counted, InHand, StopFlush, StopUnchanged, ingressVars,
         modelVars
  <2>3. Putting(t)' = Putting(t)
    BY <1>0, <1>27, <2>1 DEF TypeStop, Putting, StopFlush, StopUnchanged, StopGoto
  <2> QED
    BY <2>1, <2>2, <2>3, StillStep
<1>28. ASSUME NEW s \in Sessions, StopSkip(s) PROVE Progress(t)
  <2>1. UNCHANGED <<answers, refused, lastSequence, pending, work, ingress>>
    BY <1>28 DEF StopSkip, StopUnchanged
  <2>2. InModel(t)' = InModel(t) /\ InIngress(t)' = InIngress(t) /\ Counted(t)' = Counted(t)
    BY <1>28 DEF InModel, InIngress, Counted, InHand, StopSkip, StopUnchanged, ingressVars,
         modelVars
  <2>3. Putting(t)' = Putting(t)
    BY <1>0, <1>28, <2>1 DEF TypeStop, Putting, StopSkip, StopUnchanged, StopGoto
  <2> QED
    BY <2>1, <2>2, <2>3, StillStep
<1>29. ASSUME NEW s \in Sessions, StopNumber(s) PROVE Progress(t)
  BY <1>29, StopNumberMoves
<1>30. ASSUME NEW s \in Sessions, StopPut(s) PROVE Progress(t)
  BY <1>30, StopPutMoves
<1>31. ASSUME NEW s \in Sessions, StopPutTimeout(s) PROVE Progress(t)
  BY <1>31, StopPutTimeoutMoves
<1>32. ASSUME NEW s \in Sessions, StopEnd(s) PROVE Progress(t)
  BY <1>32, StopEndMoves
<1>33. ASSUME NEW s \in Sessions, StopWait(s) PROVE Progress(t)
  <2>1. UNCHANGED <<answers, refused, lastSequence, pending, work, ingress>>
    BY <1>33 DEF StopWait, StopUnchanged
  <2>2. InModel(t)' = InModel(t) /\ InIngress(t)' = InIngress(t) /\ Counted(t)' = Counted(t)
    BY <1>33 DEF InModel, InIngress, Counted, InHand, StopWait, StopUnchanged, ingressVars,
         modelVars
  <2>3. Putting(t)' = Putting(t)
    BY <1>0, <1>33, <2>1 DEF TypeStop, Putting, StopWait, StopUnchanged, StopGoto
  <2> QED
    BY <2>1, <2>2, <2>3, StillStep
<1>34. ASSUME NEW s \in Sessions, StopTimesOut(s) PROVE Progress(t)
  <2>1. UNCHANGED <<answers, refused, lastSequence, pending, work, ingress>>
    BY <1>34 DEF StopTimesOut, StopUnchanged
  <2>2. InModel(t)' = InModel(t) /\ InIngress(t)' = InIngress(t) /\ Counted(t)' = Counted(t)
    BY <1>34 DEF InModel, InIngress, Counted, InHand, StopTimesOut, StopUnchanged, ingressVars,
         modelVars
  <2>3. Putting(t)' = Putting(t)
    BY <1>0, <1>34, <2>1 DEF TypeStop, Putting, StopTimesOut, StopUnchanged, StopGoto
  <2> QED
    BY <2>1, <2>2, <2>3, StillStep
<1>35. ASSUME NEW s \in Sessions, StopChunkFails(s) PROVE Progress(t)
  <2>1. UNCHANGED <<answers, refused, lastSequence, pending, work, ingress>>
    BY <1>35 DEF StopChunkFails, StopUnchanged
  <2>2. InModel(t)' = InModel(t) /\ InIngress(t)' = InIngress(t) /\ Counted(t)' = Counted(t)
    BY <1>35 DEF InModel, InIngress, Counted, InHand, StopChunkFails, StopUnchanged, ingressVars,
         modelVars
  <2>3. Putting(t)' = Putting(t)
    BY <1>0, <1>35, <2>1 DEF TypeStop, Putting, StopChunkFails, StopUnchanged, StopGoto
  <2> QED
    BY <2>1, <2>2, <2>3, StillStep
<1>36. ASSUME UNCHANGED vars PROVE Progress(t)
  <2>1. /\ UNCHANGED <<answers, refused, lastSequence, pending, work, ingress, modelPc, modelItem>>
        /\ UNCHANGED <<ingressPc, ingressItem, stopPc>>
    BY <1>36 DEF vars, stateVars, eventVars, queueVars, ingressVars, modelVars, stopVars
  <2>2. /\ InModel(t)' = InModel(t) /\ InIngress(t)' = InIngress(t) /\ Counted(t)' = Counted(t)
        /\ Putting(t)' = Putting(t)
    BY <2>1 DEF InModel, InIngress, Counted, InHand, Putting
  <2> QED
    BY <2>1, <2>2, StillStep
<1> QED
  BY <1>1, <1>2, <1>3, <1>4, <1>5, <1>6, <1>7, <1>8, <1>9, <1>10, <1>11, <1>12, <1>13, <1>14, <1>15,
       <1>16, <1>17, <1>18, <1>19, <1>20, <1>21, <1>22, <1>23, <1>24, <1>25, <1>26, <1>27, <1>28,
       <1>29, <1>30, <1>31, <1>32, <1>33, <1>34, <1>35, <1>36
     DEF Next, IngressWorker, ModelWorker, Fatal, Stop

(* A fatal error is never taken back.                                       *)
LEMMA FatalStays ==
  ASSUME BaseInv, [Next]_vars, NEW t \in Sessions, fatal[t]
  PROVE  fatal'[t]
<1>0. ASSUME NEW s \in Sessions, FatalCalled(s) PROVE fatal'[t]
  BY <1>0, TypeSplit DEF BaseInv, TypeState, FatalCalled, FatalEntry, FatalIgnored
<1>1. ASSUME IngressTake PROVE fatal'[t]
  BY <1>1 DEF IngressTake
<1>2. ASSUME IngressPut PROVE fatal'[t]
  BY <1>2 DEF IngressPut
<1>3. ASSUME ModelTake PROVE fatal'[t]
  BY <1>3 DEF ModelTake, ModelUnchanged
<1>4. ASSUME NEW s \in Sessions, IngressEnd(s) PROVE fatal'[t]
  BY <1>4 DEF IngressEnd
<1>5. ASSUME NEW s \in Sessions, IngressConclude(s) PROVE fatal'[t]
  BY <1>5 DEF IngressConclude
<1>6. ASSUME NEW s \in Sessions, IngressDetect(s) PROVE fatal'[t]
  BY <1>6 DEF IngressDetect
<1>7. ASSUME NEW s \in Sessions, IngressCount(s) PROVE fatal'[t]
  BY <1>7 DEF IngressCount
<1>8. ASSUME NEW s \in Sessions, IngressPutTimeout(s) PROVE fatal'[t]
  BY <1>8 DEF IngressPutTimeout
<1>9. ASSUME NEW s \in Sessions, IngressFails(s) PROVE fatal'[t]
  BY <1>0, <1>9 DEF IngressFails
<1>10. ASSUME NEW s \in Sessions, IngressFailed(s) PROVE fatal'[t]
  BY <1>10 DEF IngressFailed
<1>11. ASSUME NEW s \in Sessions, ModelComplete(s) PROVE fatal'[t]
  BY <1>11 DEF ModelComplete, ModelUnchanged
<1>12. ASSUME NEW s \in Sessions, ModelConclude(s) PROVE fatal'[t]
  BY <1>12 DEF ModelConclude, ModelUnchanged
<1>13. ASSUME NEW s \in Sessions, CallbackBegin(s) PROVE fatal'[t]
  BY <1>13 DEF CallbackBegin, CallbackUnchanged
<1>14. ASSUME NEW s \in Sessions, CallbackEnqueue(s) PROVE fatal'[t]
  BY <1>14 DEF CallbackEnqueue, CallbackUnchanged
<1>15. ASSUME NEW s \in Sessions, CallbackFails(s) PROVE fatal'[t]
  BY <1>15 DEF CallbackFails, CallbackUnchanged
<1>16. ASSUME NEW s \in Sessions, CaptureError(s) PROVE fatal'[t]
  BY <1>16 DEF CaptureError, CallbackUnchanged
<1>17. ASSUME NEW s \in Sessions, SourceEnds(s) PROVE fatal'[t]
  BY <1>17 DEF SourceEnds, stateVars
<1>18. ASSUME NEW s \in Sessions, FatalBegin(s) PROVE fatal'[t]
  BY <1>0, <1>18 DEF FatalBegin
<1>19. ASSUME NEW s \in Sessions, FatalPurgeIngress(s) PROVE fatal'[t]
  BY <1>19 DEF FatalPurgeIngress, stateVars
<1>20. ASSUME NEW s \in Sessions, FatalLockWork(s) PROVE fatal'[t]
  BY <1>20 DEF FatalLockWork, stateVars
<1>21. ASSUME NEW s \in Sessions, FatalPurgeWork(s) PROVE fatal'[t]
  BY <1>21 DEF FatalPurgeWork
<1>22. ASSUME NEW s \in Sessions, FatalEmit(s) PROVE fatal'[t]
  BY <1>22 DEF FatalEmit, stateVars
<1>23. ASSUME NEW s \in Sessions, StopCall(s) PROVE fatal'[t]
  BY <1>23 DEF StopCall
<1>24. ASSUME NEW s \in Sessions, StopSourceEnded(s) PROVE fatal'[t]
  BY <1>24 DEF StopSourceEnded
<1>25. ASSUME NEW s \in Sessions, StopSourceFailed(s) PROVE fatal'[t]
  BY <1>0, <1>25 DEF StopSourceFailed
<1>26. ASSUME NEW s \in Sessions, StopFatalReturns(s) PROVE fatal'[t]
  BY <1>26 DEF StopFatalReturns
<1>27. ASSUME NEW s \in Sessions, StopFlush(s) PROVE fatal'[t]
  BY <1>27 DEF StopFlush
<1>28. ASSUME NEW s \in Sessions, StopSkip(s) PROVE fatal'[t]
  BY <1>28 DEF StopSkip
<1>29. ASSUME NEW s \in Sessions, StopNumber(s) PROVE fatal'[t]
  BY <1>29 DEF StopNumber
<1>30. ASSUME NEW s \in Sessions, StopPut(s) PROVE fatal'[t]
  BY <1>30 DEF StopPut
<1>31. ASSUME NEW s \in Sessions, StopPutTimeout(s) PROVE fatal'[t]
  BY <1>31 DEF StopPutTimeout
<1>32. ASSUME NEW s \in Sessions, StopEnd(s) PROVE fatal'[t]
  BY <1>32 DEF StopEnd
<1>33. ASSUME NEW s \in Sessions, StopWait(s) PROVE fatal'[t]
  BY <1>33 DEF StopWait
<1>34. ASSUME NEW s \in Sessions, StopTimesOut(s) PROVE fatal'[t]
  BY <1>34 DEF StopTimesOut
<1>35. ASSUME NEW s \in Sessions, StopChunkFails(s) PROVE fatal'[t]
  BY <1>35 DEF StopChunkFails
<1>36. ASSUME UNCHANGED vars PROVE fatal'[t]
  BY <1>36 DEF vars, stateVars
<1> QED
  BY <1>1, <1>2, <1>3, <1>4, <1>5, <1>6, <1>7, <1>8, <1>9, <1>10, <1>11, <1>12, <1>13, <1>14, <1>15,
       <1>16, <1>17, <1>18, <1>19, <1>20, <1>21, <1>22, <1>23, <1>24, <1>25, <1>26, <1>27, <1>28,
       <1>29, <1>30, <1>31, <1>32, <1>33, <1>34, <1>35, <1>36
     DEF Next, IngressWorker, ModelWorker, Fatal, Stop

\* The pending count is exact; a session without a fatal error has lost nothing.
CountExact(s) == pending[s] = Cardinality(Scheduled(s))
AllKept(s) ==
  ~fatal[s] =>
    /\ Held(Places(s)) \union refused[s] = 0..lastSequence[s]
    /\ Held(Places(s)) \intersect refused[s] = {}

(* What is scheduled is finite.                                             *)
LEMMA ScheduledFinite ==
  ASSUME BaseInv, NEW s \in Sessions, RowInv(s)
  PROVE  IsFiniteSet(Scheduled(s)) /\ Scheduled(s) \subseteq Underway(s)
<1>1. Scheduled(s) \subseteq Underway(s)
  BY DEF Scheduled, Underway, InIngress, InHand
<1>2. Underway(s) \subseteq 0..lastSequence[s]
  BY PlacesRow DEF RowInv
<1>3. lastSequence[s] \in Int
  <2>1. lastSequence[s] \in Numbers \union {-1}
    BY TypeSplit DEF BaseInv, TypeState
  <2>2. lastSequence[s] \in Nat \/ lastSequence[s] = -1
    BY <2>1, NumbersAreNat
  <2> QED
    BY <2>2
<1>4. IsFiniteSet(0..lastSequence[s])
  BY <1>3, FS_Interval
<1>5. Scheduled(s) \in SUBSET (0..lastSequence[s])
  BY <1>1, <1>2
<1>6. IsFiniteSet(Scheduled(s))
  BY <1>4, <1>5, FS_Subset
<1> QED
  BY <1>1, <1>6

(* The count remains exact, whatever a step takes out.                      *)
LEMMA CountStep ==
  ASSUME BaseInv, NEW s \in Sessions, RowInv(s), CountExact(s), Counts(s)
  PROVE  CountExact(s)'
<1> DEFINE S == Scheduled(s)
           T == Scheduled(s)'
<1>1. IsFiniteSet(S) /\ Cardinality(S) \in Nat /\ pending[s] = Cardinality(S)
  BY ScheduledFinite, FS_CardinalityType DEF CountExact
<1>2. SUFFICES pending'[s] = Cardinality(T)
  BY DEF CountExact
<1>3. CASE T = S /\ pending'[s] = pending[s]
  BY <1>1, <1>3
<1>4. CASE \E X \in SUBSET S :
             /\ T = S \ X
             /\ pending'[s] = IF Cardinality(X) <= pending[s] THEN pending[s] - Cardinality(X) ELSE 0
  <2>1. PICK X \in SUBSET S :
          /\ T = S \ X
          /\ pending'[s] = IF Cardinality(X) <= pending[s] THEN pending[s] - Cardinality(X) ELSE 0
    BY <1>4
  <2> HIDE DEF S, T
  <2>2. Cardinality(X) <= Cardinality(S)
    BY <1>1, FS_Subset
  <2>3. Cardinality(S \ X) = Cardinality(S) - Cardinality(X)
    <3>1. S \cap X = X
      OBVIOUS
    <3> QED
      BY <1>1, <3>1, FS_Difference
  <2> QED
    BY <1>1, <2>1, <2>2, <2>3
<1>5. CASE \E n \in Numbers \ S : T = S \union {n} /\ pending'[s] = pending[s] + 1
  <2>1. PICK n \in Numbers \ S : T = S \union {n} /\ pending'[s] = pending[s] + 1
    BY <1>5
  <2> HIDE DEF S, T
  <2>2. Cardinality(S \union {n}) = Cardinality(S) + 1
    BY <1>1, FS_AddElement
  <2> QED
    BY <1>1, <2>1, <2>2
<1> QED
  BY <1>3, <1>4, <1>5 DEF Counts

(* A session whose end has been taken, with nothing pending, has nothing    *)
(* left anywhere.                                                           *)
LEMMA Drained ==
  ASSUME BaseInv, NEW s \in Sessions, Ended(s), RowInv(s), CountExact(s), captureDone[s],
         pending[s] = 0
  PROVE  Underway(s) = {} /\ tail[s] = 0
<1>1. Scheduled(s) = {}
  BY ScheduledFinite, FS_EmptySet DEF CountExact
<1>2. endEnqueued[s] /\ Gone(ingress, s) /\ ~ChunkTaken(s)
  BY DEF Ended
<1>3. Chunks(ingress, s) = {}
  <2>1. ingress \in Seq(Item)
    BY TypeSplit DEF BaseInv, TypeQueues
  <2> QED
    BY <1>2, <2>1, GoneNoChunks
<1>4. InIngress(s) = {}
  BY <1>2 DEF InIngress, InHand, ChunkTaken
<1>5. tail[s] = 0 /\ Putting(s) = {}
  <2>1. Controlled(s) /\ tail[s] \in 0..MaxTail
    BY TypeSplit DEF BaseInv, TypeStop
  <2>2. tail[s] = 0 /\ stopPc[s] # "put"
    BY <1>2, <2>1 DEF Controlled
  <2> QED
    BY <2>2 DEF Putting
<1> QED
  BY <1>1, <1>3, <1>4, <1>5 DEF Scheduled, Underway

(* No step loses a chunk of a session that has no fatal error after it.     *)
LEMMA KeptStep ==
  ASSUME BaseInv, BaseInv', [Next]_vars, NEW s \in Sessions, Ended(s), RowInv(s), CountExact(s),
         AllKept(s), Moved(s)
  PROVE  AllKept(s)'
<1> DEFINE P == Places(s)
           Q == Places(s)'
           l == lastSequence[s]
           m == lastSequence'[s]
           R == refused[s]
           T == refused'[s]
<1>1. SUFFICES ASSUME ~fatal'[s]
               PROVE  Held(Q) \union T = 0..m /\ Held(Q) \intersect T = {}
  BY DEF AllKept, Held
<1>2. /\ ~fatal[s] /\ Held(P) \union R = 0..l /\ Held(P) \intersect R = {}
  BY <1>1, FatalStays DEF AllKept
<1>3. P \in Row /\ Q \in Row /\ Sorted(P) /\ l \in Int /\ l >= -1
  <2>1. l \in Numbers \union {-1}
    BY TypeSplit DEF BaseInv, TypeState
  <2>2. l \in Nat \/ l = -1
    BY <2>1, NumbersAreNat
  <2> QED
    BY <2>2, PlacesRow, PlacesRowNext DEF RowInv
<1>4. CASE Rests(s)
  BY <1>2, <1>4 DEF Rests
<1>5. CASE NextNumbered(s)
  <2>1. m = l + 1
    BY <1>5 DEF NextNumbered
  <2>2. 0..m = (0..l) \union {m} /\ m \notin 0..l /\ m \in Nat
    BY <1>3, <2>1
  <2>3. CASE T = R \union {m} /\ Q = P
    BY <1>2, <2>2, <2>3
  <2>4. CASE T = R /\ \E i \in 1..6 : Arrive(P, Q, i, m)
    <3>1. PICK i \in 1..6 : Arrive(P, Q, i, m)
      BY <2>4
    <3>2. \A x \in 0..l : x < m
      BY <1>3, <2>1
    <3> HIDE DEF P, Q, m, l, R, T
    <3>3. \A x \in Held(P) : x < m
      BY <1>2, <3>2
    <3>4. Held(Q) = Held(P) \union {m}
      BY <1>3, <2>2, <3>1, <3>3, RowArrive
    <3> QED
      BY <1>2, <2>2, <2>4, <3>4
  <2> QED
    BY <1>5, <2>3, <2>4 DEF NextNumbered
<1>6. CASE Advances(s)
  <2>1. T = R /\ m = l
    BY <1>6 DEF Advances
  <2>2. PICK i \in 1..6, j \in 1..6, n \in Numbers : Advance(P, Q, i, j, n)
    BY <1>6 DEF Advances
  <2> HIDE DEF P, Q, m, l, R, T
  <2>3. Held(Q) = Held(P)
    BY <1>3, <2>2, RowAdvance
  <2> QED
    BY <1>2, <2>1, <2>3
<1>7. CASE Refuses(s)
  <2>1. m = l
    BY <1>7 DEF Refuses
  <2>2. PICK j \in 1..6 : \E n \in P[j] : Q = [P EXCEPT ![j] = @ \ {n}] /\ T = R \union {n}
    BY <1>7 DEF Refuses
  <2>3. PICK n \in P[j] : Q = [P EXCEPT ![j] = @ \ {n}] /\ T = R \union {n}
    BY <2>2
  <2> HIDE DEF P, Q, m, l, R, T
  <2>4. Held(Q) = Held(P) \ {n}
    BY <1>3, <2>3, RowLeave
  <2>5. n \in Held(P)
    BY DEF Held
  <2> QED
    BY <1>2, <2>1, <2>3, <2>4, <2>5
<1>8. CASE Loses(s)
  <2>1. T = R /\ m = l /\ Answered(s)' = Answered(s) /\ \A k \in 1..6 : Q[k] \subseteq P[k]
    BY <1>8 DEF Loses
  <2>2. completions[s] = <<"stopped">>
    <3>1. /\ Controlled(s) /\ (~active[s] \/ Terminal(s))
          /\ completions[s] \in {<<>>, <<"stopped">>, <<"failed">>}
      BY <1>1, <1>8, TypeSplit DEF Loses, BaseInv, TypeEvents
    <3> QED
      BY <1>2, <3>1 DEF Controlled, Terminal
  <2>3. captureDone[s] /\ pending[s] = 0
    BY <2>2 DEF Ended, Concluding
  <2>4. Held(P) = Answered(s)
    BY <2>3, Drained, PlacesRow
  <2>5. Held(Q) \subseteq Held(P) /\ Held(P) \subseteq Held(Q)
    <3>1. Held(Q) = Answered(s)' \union Underway(s)'
      BY PlacesRowNext DEF Held
    <3>2. Held(P) \subseteq Held(Q)
      BY <2>1, <2>4, <3>1
    <3> HIDE DEF P, Q
    <3>3. Held(Q) \subseteq Held(P)
      BY <2>1 DEF Held
    <3> QED
      BY <3>2, <3>3
  <2> QED
    BY <1>2, <2>1, <2>5
<1> QED
  BY <1>4, <1>5, <1>6, <1>7, <1>8 DEF Moved

\* The invariant of a session: what ends it, where its chunks are, in which
\* order, how many are counted, and that none is lost.
SessionInv(s) == Ended(s) /\ RowInv(s) /\ InSequence(s) /\ CountExact(s) /\ AllKept(s)

Inv == BaseInv /\ \A s \in Sessions : SessionInv(s)

(* A session that has numbered nothing has nothing anywhere.                *)
LEMMA SessionsStart ==
  ASSUME Init, BaseInv, NEW s \in Sessions
  PROVE  SessionInv(s)
<1>1. /\ answers[s] = <<>> /\ refused[s] = {} /\ lastSequence[s] = -1 /\ pending[s] = 0
      /\ ingress = <<>> /\ work = <<>> /\ ingressPc = "idle" /\ modelPc = "idle"
      /\ stopPc[s] = "idle" /\ ~captureDone[s] /\ completions[s] = <<>>
  BY DEF Init
<1>2. Len(ingress) = 0 /\ Len(work) = 0 /\ Len(answers[s]) = 0 /\ 1..0 = {} /\ 0..(-1) = {}
  BY <1>1
<1>3. Range(<<>>) = {}
  BY DEF Range
<1>4. Answered(s) = {} /\ Underway(s) = {}
  BY <1>1, <1>3 DEF Answered, Underway, InModel, InIngress, InHand, Chunks, Putting
<1>5. Held(Places(s)) = {}
  BY <1>4, PlacesRow
<1>6. Ended(s)
  BY <1>1, <1>2 DEF Ended, HasEnd, EndLast, EndTaken, ChunkTaken, Concluding
<1>7. RowInv(s)
  <2>1. \A k \in 1..6 : Places(s)[k] = {}
    BY <1>5 DEF Held
  <2> QED
    BY <1>1, <1>5, <2>1 DEF RowInv, Sorted
<1>8. InSequence(s)
  BY <1>2 DEF InSequence, QueueInOrder
<1>9. CountExact(s)
  <2>1. Scheduled(s) = {}
    BY <1>4, <1>7, ScheduledFinite
  <2> QED
    BY <1>1, <2>1, FS_EmptySet DEF CountExact
<1>10. AllKept(s)
  BY <1>1, <1>2, <1>5 DEF AllKept
<1> QED
  BY <1>6, <1>7, <1>8, <1>9, <1>10 DEF SessionInv

(* The invariant of every session holds in every state.                     *)
LEMMA SessionInvariant == Spec => []Inv
<1>1. Init => Inv
  <2> SUFFICES ASSUME Init PROVE Inv
    OBVIOUS
  <2>1. BaseInv
    BY BaseStart
  <2> QED
    BY <2>1, SessionsStart DEF Inv
<1>2. Inv /\ [Next]_vars => Inv'
  <2> SUFFICES ASSUME Inv, [Next]_vars PROVE Inv'
    OBVIOUS
  <2>1. BaseInv /\ BaseInv'
    BY BaseStep DEF Inv
  <2>2. \A s \in Sessions : Ended(s)'
    BY <2>1, EndedStep DEF Inv, SessionInv
  <2>3. ASSUME NEW s \in Sessions PROVE SessionInv(s)'
    <3>1. Ended(s) /\ RowInv(s) /\ InSequence(s) /\ CountExact(s) /\ AllKept(s)
      BY DEF Inv, SessionInv
    <3>2. Moved(s) /\ Counts(s) /\ InSequence(s)'
      BY <2>1, <3>1, ProgressStep DEF Progress
    <3>3. RowInv(s)'
      BY <2>1, <3>1, <3>2, RowStep
    <3>4. CountExact(s)'
      BY <2>1, <3>1, <3>2, CountStep
    <3>5. AllKept(s)'
      BY <2>1, <3>1, <3>2, KeptStep
    <3> QED
      BY <2>2, <3>2, <3>3, <3>4, <3>5 DEF SessionInv
  <2> QED
    BY <2>1, <2>3 DEF Inv
<1> QED
  BY <1>1, <1>2, PTL DEF Spec

(* Each chunk is where it should be, in its order, and counted, for any     *)
(* sessions and capacities.                                                 *)
THEOREM ChunksAccountedAlways == Spec => []ChunksAccounted
<1>1. Inv => ChunksAccounted
  <2> SUFFICES ASSUME Inv PROVE ChunksAccounted
    OBVIOUS
  <2>1. ASSUME NEW s \in Sessions PROVE SessionInv(s) /\ BaseInv
    BY DEF Inv
  <2>2. PendingCounted
    BY <2>1 DEF PendingCounted, SessionInv, CountExact
  <2>3. InOrder
    <3> SUFFICES ASSUME NEW s \in Sessions
                 PROVE  /\ \A i, j \in 1..Len(answers[s]) : i < j => answers[s][i] < answers[s][j]
                        /\ QueueInOrder(work, s) /\ QueueInOrder(ingress, s)
                        /\ \A i, j \in 1..Len(Places(s)) : i < j =>
                             \A n \in Places(s)[i], m \in Places(s)[j] : n < m
      BY DEF InOrder
    <3>1. InSequence(s) /\ Sorted(Places(s))
      BY <2>1 DEF SessionInv, RowInv
    <3>2. Len(Places(s)) = 6
      BY DEF Places
    <3> QED
      BY <3>1, <3>2 DEF InSequence, Sorted
  <2>4. ChunksKept
    <3> SUFFICES ASSUME NEW s \in Sessions, ~fatal[s]
                 PROVE  /\ Answered(s) \union Underway(s) \union refused[s] = 0..lastSequence[s]
                        /\ (Answered(s) \union Underway(s)) \intersect refused[s] = {}
      BY DEF ChunksKept
    <3>1. Held(Places(s)) = Answered(s) \union Underway(s)
      BY <2>1, PlacesRow
    <3> QED
      BY <2>1, <3>1 DEF SessionInv, AllKept
  <2> QED
    BY <2>2, <2>3, <2>4 DEF ChunksAccounted
<1> QED
  BY <1>1, SessionInvariant, PTL

(* A session that ends as stopped has answered every chunk it accepted, for *)
(* any sessions and capacities.                                             *)
THEOREM StoppedMeansDrainedAlways == Spec => []StoppedMeansDrained
<1>1. Inv => StoppedMeansDrained
  <2> SUFFICES ASSUME Inv, NEW s \in Sessions, completions[s] = <<"stopped">>
               PROVE  Underway(s) = {} /\ tail[s] = 0
    BY DEF StoppedMeansDrained
  <2>1. BaseInv /\ Ended(s) /\ RowInv(s) /\ CountExact(s)
    BY DEF Inv, SessionInv
  <2>2. captureDone[s] /\ pending[s] = 0
    BY <2>1 DEF Ended, Concluding
  <2> QED
    BY <2>1, <2>2, Drained
<1> QED
  BY <1>1, SessionInvariant, PTL
=============================================================================
