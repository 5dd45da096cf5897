-------------------------- MODULE ProcessGroupProofs --------------------------
(* Proofs about ProcessGroup: what its processes hold, what stop and abort    *)
(* leave behind, why a session failed, and that one that stopped got an       *)
(* answer to each of its chunks, in their order.                              *)
EXTENDS ProcessGroup, FiniteSetTheorems, WellFoundedInduction, TLAPS

(* Induction over the natural numbers, for a set of them.                   *)
LEMMA InductionOnSet ==
  ASSUME NEW P \in SUBSET Nat, 0 \in P, \A n \in P : n + 1 \in P
  PROVE  P = Nat
<1> SUFFICES ASSUME P # Nat PROVE FALSE
  OBVIOUS
<1> DEFINE T == Nat \ P
<1>1. PICK x \in T : \A y \in T : ~ (<<y, x>> \in OpToRel(<, Nat))
  <2>1. T # {}
    OBVIOUS
  <2> QED
    BY <2>1, NatLessThanWellFounded, WFMin
<1>2. x # 0 /\ x \in Nat
  OBVIOUS
<1>3. x - 1 \in Nat
  BY <1>2
<1>4. <<x - 1, x>> \in OpToRel(<, Nat)
  BY <1>2, <1>3 DEF OpToRel
<1>5. x - 1 \in P
  BY <1>1, <1>3, <1>4
<1>6. x \in P
  BY <1>5, <1>2, (x - 1) + 1 = x
<1> QED
  BY <1>6

Listings(S) ==
  {f \in [1..Cardinality(S) -> S] : \A i, j \in 1..Cardinality(S) : i < j => f[i] < f[j]}

(* Every set of positions has a listing from first to last.                 *)
LEMMA ListingExists ==
  ASSUME NEW n \in Nat, NEW S \in SUBSET (1..n)
  PROVE  Listings(S) # {}
<1> DEFINE P == {k \in Nat : \A T \in SUBSET (1..k) : Listings(T) # {}}
<1>1. 0 \in P
  <2> SUFFICES ASSUME NEW T \in SUBSET (1..0) PROVE Listings(T) # {}
    OBVIOUS
  <2>2. 1..0 = {}
    OBVIOUS
  <2>1. T = {} /\ Cardinality(T) = 0
    <3>1. T = {}
      BY <2>2
    <3> QED
      BY <3>1, FS_EmptySet
  <2>3. [i \in 1..0 |-> i] \in [1..0 -> T]
    BY <2>2
  <2> DEFINE e == [i \in 1..0 |-> i]
  <2> HIDE DEF e
  <2>4. e \in [1..Cardinality(T) -> T]
    BY <2>1, <2>3 DEF e
  <2>5. \A i, j \in 1..Cardinality(T) : i < j => e[i] < e[j]
    BY <2>1
  <2> QED
    BY <2>4, <2>5 DEF Listings
<1>2. ASSUME NEW k \in P PROVE k + 1 \in P
  <2> SUFFICES ASSUME NEW T \in SUBSET (1..(k + 1)) PROVE Listings(T) # {}
    OBVIOUS
  <2>1. CASE k + 1 \notin T
    <3>1. T \in SUBSET (1..k)
      BY <2>1
    <3> QED
      BY <3>1
  <2>2. CASE k + 1 \in T
    <3> DEFINE U == T \ {k + 1}
               c == Cardinality(U)
    <3>1. U \in SUBSET (1..k)
      OBVIOUS
    <3>2. PICK f : f \in Listings(U)
      BY <3>1
    <3>3. IsFiniteSet(U) /\ c \in Nat /\ Cardinality(T) = c + 1
      <4>1. IsFiniteSet(1..k)
        BY FS_Interval
      <4>2. IsFiniteSet(U) /\ c \in Nat
        BY <3>1, <4>1, FS_Subset, FS_CardinalityType
      <4>3. T = U \union {k + 1} /\ k + 1 \notin U
        BY <2>2
      <4>4. Cardinality(U \union {k + 1}) = c + 1
        BY <4>2, <4>3, FS_AddElement
      <4> QED
        BY <4>2, <4>3, <4>4
    <3> DEFINE g == [i \in 1..(c + 1) |-> IF i = c + 1 THEN k + 1 ELSE f[i]]
    <3> HIDE DEF c
    <3>4. ASSUME NEW i \in 1..(c + 1) PROVE g[i] \in T /\ (i # c + 1 => g[i] = f[i] /\ f[i] \in 1..k)
      <4>0. f \in [1..c -> U]
        BY <3>2 DEF Listings, c
      <4>1. CASE i = c + 1
        BY <2>2, <4>1
      <4>2. CASE i # c + 1
        <5>1. i \in 1..c /\ g[i] = f[i]
          BY <4>2, <3>3
        <5>2. f[i] \in U
          BY <4>0, <5>1
        <5> QED
          BY <3>1, <5>1, <5>2
      <4> QED
        BY <4>1, <4>2
    <3>5. ASSUME NEW i \in 1..(c + 1), NEW j \in 1..(c + 1), i < j PROVE g[i] < g[j]
      <4>1. i # c + 1 /\ i \in 1..c /\ g[i] = f[i] /\ f[i] \in 1..k
        BY <3>3, <3>4, <3>5
      <4>2. CASE j = c + 1
        <5>1. g[j] = k + 1
          BY <4>2, <3>3
        <5> QED
          BY <4>1, <5>1
      <4>3. CASE j # c + 1
        <5>1. j \in 1..c /\ g[j] = f[j]
          BY <4>3, <3>3
        <5> QED
          BY <3>2, <3>5, <4>1, <5>1 DEF Listings, c
      <4> QED
        BY <4>2, <4>3
    <3>6. g \in Listings(T)
      <4>1. g \in [1..(c + 1) -> T]
        BY <3>4
      <4> QED
        BY <3>3, <3>5, <4>1 DEF Listings
    <3> QED
      BY <3>6
  <2> QED
    BY <2>1, <2>2
<1>3. P = Nat
  <2> HIDE DEF P
  <2>1. P \in SUBSET Nat
    BY DEF P
  <2> QED
    BY <1>1, <1>2, <2>1, InductionOnSet
<1>4. n \in P
  BY <1>3
<1> HIDE DEF P
<1>5. \A T \in SUBSET (1..n) : Listings(T) # {}
  BY <1>4 DEF P
<1> QED
  BY <1>5

Kept(q, s) == {k \in 1..Len(q) : q[k].source # s}

(* A listing goes from first to last and leaves no position out.            *)
LEMMA ListingOnto ==
  ASSUME NEW n \in Nat, NEW S \in SUBSET (1..n)
  PROVE  /\ Cardinality(S) \in Nat /\ Cardinality(S) <= n
         /\ Listing(S) \in Listings(S)
         /\ \A k \in S : \E i \in 1..Cardinality(S) : Listing(S)[i] = k
<1> DEFINE c == Cardinality(S)
           f == Listing(S)
<1>1. IsFiniteSet(S) /\ c \in Nat /\ c <= n
  <2>1. IsFiniteSet(1..n) /\ Cardinality(1..n) = n
    BY FS_Interval
  <2> QED
    BY <2>1, FS_Subset, FS_CardinalityType
<1>2. f \in Listings(S)
  BY ListingExists DEF Listing, Listings
<1>3. f \in [1..c -> S] /\ \A i, j \in 1..c : i < j => f[i] < f[j]
  BY <1>2 DEF Listings
<1>4. f \in Injection(1..c, S)
  <2> HIDE DEF c, f
  <2>1. \A i, j \in 1..c : f[i] = f[j] => i = j
    <3> SUFFICES ASSUME NEW i \in 1..c, NEW j \in 1..c, f[i] = f[j] PROVE i = j
      OBVIOUS
    <3>1. f[i] \in S /\ f[j] \in S
      BY <1>3
    <3>2. f[i] \in 1..n
      BY <3>1
    <3>3. ~(i < j) /\ ~(j < i)
      BY <1>3, <3>2
    <3> QED
      BY <1>1, <3>3
  <2> QED
    BY <1>3, <2>1 DEF Injection, IsInjective
<1>5. Cardinality(1..c) = c
  BY <1>1, FS_Interval
<1>6. f \in Surjection(1..c, S)
  BY <1>1, <1>4, <1>5, FS_Injection
<1>7. \A k \in S : \E i \in 1..c : f[i] = k
  BY <1>6 DEF Surjection
<1> QED
  BY <1>1, <1>2, <1>7

\* f leads from the places of what is left of a queue to where it was before.
Selects(q, s, m, f) ==
  /\ Len(Without(q, s)) = m /\ m <= Len(q)
  /\ \A i, j \in 1..m : i < j => f[i] < f[j]
  /\ \A i \in 1..m : Without(q, s)[i] = q[f[i]] /\ q[f[i]].source # s
  /\ \A k \in 1..Len(q) : q[k].source # s => \E i \in 1..m : f[i] = k

(* What Without keeps, and where: a strictly increasing map of positions.   *)
LEMMA WithoutMap ==
  ASSUME NEW R, NEW q \in Seq(R), NEW s
  PROVE  /\ Without(q, s) \in Seq(R)
         /\ \E m \in Nat : \E f \in [1..m -> 1..Len(q)] : Selects(q, s, m, f)
<1> DEFINE n == Len(q)
           K == Kept(q, s)
           m == Cardinality(K)
           f == Listing(K)
<1>1. n \in Nat /\ K \in SUBSET (1..n)
  BY DEF Kept
<1>2. /\ m \in Nat /\ m <= n /\ f \in Listings(K)
      /\ \A k \in K : \E i \in 1..m : f[i] = k
  BY <1>1, ListingOnto
<1>3. f \in [1..m -> K] /\ \A i, j \in 1..m : i < j => f[i] < f[j]
  BY <1>2 DEF Listings
<1>4. f \in [1..m -> 1..n]
  <2> HIDE DEF f, K, m
  <2> QED
    BY <1>1, <1>3
<1>5. Without(q, s) = [i \in 1..m |-> q[f[i]]]
  BY DEF Without, Kept
<1> HIDE DEF f, m
<1>7. \A i \in 1..m : q[f[i]] \in R /\ q[f[i]].source # s
  <2> SUFFICES ASSUME NEW i \in 1..m PROVE q[f[i]] \in R /\ q[f[i]].source # s
    OBVIOUS
  <2>1. f[i] \in K /\ f[i] \in 1..n
    BY <1>3, <1>4
  <2> QED
    BY <2>1 DEF Kept
<1>8. Without(q, s) \in Seq(R) /\ Len(Without(q, s)) = m
  BY <1>2, <1>5, <1>7
<1>9. \A i \in 1..m : Without(q, s)[i] = q[f[i]]
  BY <1>5
<1>10. \A k \in 1..n : q[k].source # s => \E i \in 1..m : f[i] = k
  BY <1>2 DEF Kept
<1>11. Selects(q, s, m, f)
  BY <1>2, <1>3, <1>7, <1>8, <1>9, <1>10 DEF Selects
<1> QED
  BY <1>2, <1>4, <1>8, <1>11

\* The chunks of s a queue holds in items of a kind.
Body(q, s, kind) == {n \in 0..Chunks : Item(kind, s, n) \in Range(q)}

Gone(q, s) == \A i \in 1..Len(q) : q[i].source # s

\* The items of s in a queue are chunks in their order, and its end at most last.
Lined(q, s) ==
  \A i, j \in 1..Len(q) : i < j /\ q[i].source = s /\ q[j].source = s =>
     /\ q[i].kind \in {"chunk", "answer"}
     /\ q[j].kind \in {"chunk", "answer"} => q[i].chunk < q[j].chunk

HasEnd(q, s) ==
  \E i \in 1..Len(q) : q[i].source = s /\ q[i].kind \in {"complete", "stopped"}

(* A chunk is in a queue when some place of the queue holds it.             *)
LEMMA BodyAt ==
  ASSUME NEW R, NEW q \in Seq(R), NEW s, NEW kind
  PROVE  \A n : n \in Body(q, s, kind) <=>
           n \in 0..Chunks /\ \E i \in 1..Len(q) : q[i] = Item(kind, s, n)
<1>1. DOMAIN q = 1..Len(q)
  OBVIOUS
<1>2. \A n : Item(kind, s, n) \in Range(q) <=> \E i \in 1..Len(q) : q[i] = Item(kind, s, n)
  BY <1>1 DEF Range
<1> QED
  BY <1>2 DEF Body

(* Taking a source out of a queue leaves none of it there, and of the other *)
(* sources all they had, in its order.                                      *)
LEMMA WithoutKeeps ==
  ASSUME NEW R, NEW q \in Seq(R), NEW s, NEW t
  PROVE  LET w == Without(q, s)
         IN  /\ w \in Seq(R) /\ Len(w) <= Len(q)
             /\ Gone(w, s)
             /\ Gone(q, t) => Gone(w, t)
             /\ Lined(q, t) => Lined(w, t)
             /\ HasEnd(w, t) => HasEnd(q, t)
             /\ \A kind : Body(w, s, kind) = {}
             /\ t # s => \A kind : Body(w, t, kind) = Body(q, t, kind)
<1> DEFINE w == Without(q, s)
<1>0. PICK m \in Nat : \E f \in [1..m -> 1..Len(q)] : Selects(q, s, m, f)
  BY WithoutMap
<1>00. PICK f \in [1..m -> 1..Len(q)] : Selects(q, s, m, f)
  BY <1>0
<1>1. /\ w \in Seq(R) /\ Len(w) = m /\ m <= Len(q)
      /\ \A i, j \in 1..m : i < j => f[i] < f[j]
      /\ \A i \in 1..m : f[i] \in 1..Len(q) /\ w[i] = q[f[i]] /\ q[f[i]].source # s
      /\ \A k \in 1..Len(q) : q[k].source # s => \E i \in 1..m : f[i] = k
  BY <1>00, WithoutMap DEF Selects
<1> HIDE DEF w
<1>2. Gone(w, s)
  BY <1>1 DEF Gone
<1>9. /\ \A i \in 1..Len(w) : f[i] \in 1..Len(q) /\ w[i] = q[f[i]]
      /\ \A i, j \in 1..Len(w) : i < j => f[i] < f[j]
  BY <1>1
<1>3. ASSUME Gone(q, t) PROVE Gone(w, t)
  BY <1>3, <1>9 DEF Gone
<1>4. ASSUME Lined(q, t) PROVE Lined(w, t)
  <2> SUFFICES ASSUME NEW i \in 1..Len(w), NEW j \in 1..Len(w), i < j,
                      w[i].source = t, w[j].source = t
               PROVE  /\ w[i].kind \in {"chunk", "answer"}
                      /\ w[j].kind \in {"chunk", "answer"} => w[i].chunk < w[j].chunk
    BY DEF Lined
  <2>1. /\ f[i] \in 1..Len(q) /\ f[j] \in 1..Len(q) /\ f[i] < f[j]
        /\ w[i] = q[f[i]] /\ w[j] = q[f[j]]
    BY <1>9
  <2> QED
    BY <1>4, <2>1 DEF Lined
<1>5. HasEnd(w, t) => HasEnd(q, t)
  BY <1>1 DEF HasEnd
<1>6. \A kind, x, n : n \in Body(w, x, kind) <=>
        n \in 0..Chunks /\ \E i \in 1..m : w[i] = Item(kind, x, n)
  <2> TAKE kind, x
  <2>1. w \in Seq(R) /\ Len(w) = m
    BY <1>1
  <2>2. DOMAIN w = 1..m
    BY <2>1
  <2>3. \A n : Item(kind, x, n) \in Range(w) <=> \E i \in 1..m : w[i] = Item(kind, x, n)
    BY <2>2 DEF Range
  <2> QED
    BY <2>3 DEF Body
<1>7. ASSUME NEW kind PROVE Body(w, s, kind) = {}
  <2> SUFFICES ASSUME NEW n \in Body(w, s, kind) PROVE FALSE
    OBVIOUS
  <2>1. PICK i \in 1..m : w[i] = Item(kind, s, n)
    BY <1>6
  <2> QED
    BY <1>1, <2>1 DEF Item
<1>8. ASSUME t # s, NEW kind PROVE Body(w, t, kind) = Body(q, t, kind)
  <2>1. ASSUME NEW n \in Body(w, t, kind) PROVE n \in Body(q, t, kind)
    <3>1. PICK i \in 1..m : w[i] = Item(kind, t, n)
      BY <1>6
    <3>2. f[i] \in 1..Len(q) /\ q[f[i]] = Item(kind, t, n)
      BY <1>1, <3>1
    <3>3. n \in 0..Chunks
      BY <1>6
    <3> QED
      BY <3>2, <3>3, BodyAt
  <2>2. ASSUME NEW n \in Body(q, t, kind) PROVE n \in Body(w, t, kind)
    <3>1. PICK k \in 1..Len(q) : q[k] = Item(kind, t, n)
      BY BodyAt
    <3>2. PICK i \in 1..m : f[i] = k
      BY <1>1, <1>8, <3>1 DEF Item
    <3>3. n \in 0..Chunks /\ w[i] = Item(kind, t, n)
      BY <1>1, <3>1, <3>2, BodyAt
    <3> QED
      BY <1>6, <3>3
  <2> QED
    BY <2>1, <2>2
<1> QED
  BY <1>1, <1>2, <1>3, <1>4, <1>5, <1>7, <1>8 DEF w

\* Queues of items, with the one kind of item that carries a chunk and the one that
\* ends a source.
Records(body, end) == [kind : {body, end}, source : Sources, chunk : 0..Chunks]
BodyKinds == {"chunk", "answer"}
EndKinds == {"complete", "stopped"}

(* Items and model events are such queues' items.                           *)
LEMMA QueuesOfRecords ==
  Items = Records("chunk", "complete") /\ ModelEvents = Records("answer", "stopped")
BY DEF Items, ModelEvents, Records

(* An item that carries a chunk is the one written with its parts.          *)
LEMMA RecordIsItem ==
  ASSUME NEW body \in BodyKinds, NEW end \in EndKinds, NEW x \in Records(body, end)
  PROVE  /\ x = Item(x.kind, x.source, x.chunk) /\ x.chunk \in 0..Chunks /\ x.chunk \in Nat
         /\ x.kind = body \/ x.kind = end
         /\ x.source \in Sources
<1>1. x.chunk \in 0..Chunks /\ Chunks \in Nat
  BY GroupAssumption DEF Records
<1> QED
  BY <1>1 DEF Records, Item

(* Appending an item adds its chunk, and keeps a queue in line when the     *)
(* chunk is later than those before it and no end is.                       *)
LEMMA QueueAppend ==
  ASSUME NEW body \in BodyKinds, NEW end \in EndKinds,
         NEW q \in Seq(Records(body, end)), NEW x \in Records(body, end), NEW t
  PROVE  LET w == Append(q, x)
         IN  /\ w \in Seq(Records(body, end)) /\ Len(w) = Len(q) + 1
             /\ Body(w, t, body) = Body(q, t, body) \union {n \in 0..Chunks : x = Item(body, t, n)}
             /\ HasEnd(w, t) <=> (HasEnd(q, t) \/ (x.source = t /\ x.kind = end))
             /\ x.source # t => (Gone(q, t) => Gone(w, t)) /\ (Lined(q, t) => Lined(w, t))
             /\ Lined(q, t) /\ ~HasEnd(q, t)
                /\ (x.source = t /\ x.kind = body => \A n \in Body(q, t, body) : n < x.chunk)
                  => Lined(w, t)
<1> DEFINE w == Append(q, x)
           R == Records(body, end)
<1>1. /\ w \in Seq(R) /\ Len(w) = Len(q) + 1 /\ Len(q) \in Nat
      /\ w[Len(q) + 1] = x /\ \A i \in 1..Len(q) : w[i] = q[i] /\ i \in 1..Len(w)
      /\ Len(q) + 1 \in 1..Len(w)
      /\ \A i \in 1..Len(w) : i \in 1..Len(q) \/ i = Len(q) + 1
  OBVIOUS
<1>0. body \notin EndKinds /\ end \notin BodyKinds
  BY DEF BodyKinds, EndKinds
<1> HIDE DEF w, R
<1>2. ASSUME NEW n
      PROVE  n \in Body(w, t, body) <=> (n \in Body(q, t, body) \/ (n \in 0..Chunks /\ x = Item(body, t, n)))
  <2>1. n \in Body(w, t, body) <=> (n \in 0..Chunks /\ \E i \in 1..Len(w) : w[i] = Item(body, t, n))
    BY <1>1, BodyAt
  <2>2. n \in Body(q, t, body) <=> (n \in 0..Chunks /\ \E i \in 1..Len(q) : q[i] = Item(body, t, n))
    BY BodyAt
  <2> QED
    BY <1>1, <2>1, <2>2
<1>3. HasEnd(w, t) <=> (HasEnd(q, t) \/ (x.source = t /\ x.kind = end))
  <2>1. x.kind \in {"complete", "stopped"} <=> x.kind = end
    BY RecordIsItem DEF BodyKinds, EndKinds
  <2> QED
    BY <1>1, <2>1 DEF HasEnd
<1>4. ASSUME x.source # t, Gone(q, t) PROVE Gone(w, t)
  BY <1>1, <1>4 DEF Gone
<1>5. ASSUME x.source # t, Lined(q, t) PROVE Lined(w, t)
  <2> SUFFICES ASSUME NEW i \in 1..Len(w), NEW j \in 1..Len(w), i < j, w[i].source = t, w[j].source = t
               PROVE  /\ w[i].kind \in {"chunk", "answer"}
                      /\ w[j].kind \in {"chunk", "answer"} => w[i].chunk < w[j].chunk
    BY DEF Lined
  <2>1. i \in 1..Len(q) /\ j \in 1..Len(q) /\ w[i] = q[i] /\ w[j] = q[j]
    BY <1>1, <1>5
  <2> QED
    BY <1>5, <2>1 DEF Lined
<1>6. ASSUME Lined(q, t), ~HasEnd(q, t),
             x.source = t /\ x.kind = body => \A n \in Body(q, t, body) : n < x.chunk
      PROVE  Lined(w, t)
  <2> SUFFICES ASSUME NEW i \in 1..Len(w), NEW j \in 1..Len(w), i < j, w[i].source = t, w[j].source = t
               PROVE  /\ w[i].kind \in {"chunk", "answer"}
                      /\ w[j].kind \in {"chunk", "answer"} => w[i].chunk < w[j].chunk
    BY DEF Lined
  <2>1. i \in 1..Len(q) /\ w[i] = q[i]
    BY <1>1
  <2>2. CASE j \in 1..Len(q)
    BY <1>1, <1>6, <2>1, <2>2 DEF Lined
  <2>3. CASE j = Len(q) + 1
    <3>1. w[j] = x /\ x.source = t
      BY <1>1, <2>3
    <3>2. q[i] \in R
      BY <2>1 DEF R
    <3>3. /\ q[i] = Item(q[i].kind, q[i].source, q[i].chunk) /\ q[i].chunk \in 0..Chunks
          /\ q[i].kind = body \/ q[i].kind = end
      BY <3>2, RecordIsItem DEF R
    <3>4. q[i].source = t /\ q[i].kind = body
      BY <1>6, <2>1, <3>3 DEF HasEnd, EndKinds
    <3>5. q[i].chunk \in Body(q, t, body)
      BY <2>1, <3>3, <3>4, BodyAt
    <3>6. x.kind \in {"chunk", "answer"} => x.kind = body
      BY <1>0, RecordIsItem DEF BodyKinds, EndKinds
    <3> QED
      BY <1>6, <2>1, <3>1, <3>4, <3>5, <3>6 DEF BodyKinds
  <2> QED
    BY <1>1, <2>2, <2>3
<1> QED
  BY <1>1, <1>2, <1>3, <1>4, <1>5, <1>6 DEF w, R

(* Taking the head of a queue in line takes the first chunk of its source,  *)
(* or the end with nothing behind it.                                       *)
LEMMA QueueTail ==
  ASSUME NEW body \in BodyKinds, NEW end \in EndKinds,
         NEW q \in Seq(Records(body, end)), q # <<>>, NEW t
  PROVE  LET w == Tail(q)
             h == Head(q)
         IN  /\ h \in Records(body, end) /\ w \in Seq(Records(body, end)) /\ Len(w) = Len(q) - 1
             /\ Body(q, t, body) = Body(w, t, body) \union {n \in 0..Chunks : h = Item(body, t, n)}
             /\ HasEnd(q, t) <=> (HasEnd(w, t) \/ (h.source = t /\ h.kind = end))
             /\ Gone(q, t) => Gone(w, t) /\ h.source # t
             /\ Lined(q, t) =>
                  /\ Lined(w, t)
                  /\ h.source = t /\ h.kind = body => \A m \in Body(w, t, body) : h.chunk < m
                  /\ h.source = t /\ h.kind = end => Gone(w, t)
<1> DEFINE w == Tail(q)
           h == Head(q)
           R == Records(body, end)
<1>1. /\ w \in Seq(R) /\ Len(w) = Len(q) - 1 /\ Len(q) \in Nat /\ Len(q) > 0
      /\ q[1] = h /\ 1 \in 1..Len(q)
      /\ \A i \in 1..Len(w) : w[i] = q[i + 1] /\ i + 1 \in 1..Len(q) /\ 1 < i + 1
  OBVIOUS
<1>0. body \notin EndKinds /\ end \notin BodyKinds
  BY DEF BodyKinds, EndKinds
<1>00. h \in R
  BY <1>1
<1> HIDE DEF w, R, h
<1>2. ASSUME NEW i \in 1..Len(q), i # 1 PROVE i - 1 \in 1..Len(w) /\ w[i - 1] = q[i]
  <2>1. i - 1 \in 1..Len(w) /\ (i - 1) + 1 = i
    BY <1>1, <1>2
  <2> QED
    BY <1>1, <2>1
<1>3. ASSUME NEW n
      PROVE  n \in Body(q, t, body) <=> (n \in Body(w, t, body) \/ (n \in 0..Chunks /\ h = Item(body, t, n)))
  <2>1. n \in Body(w, t, body) <=> (n \in 0..Chunks /\ \E i \in 1..Len(w) : w[i] = Item(body, t, n))
    BY <1>1, BodyAt
  <2>2. n \in Body(q, t, body) <=> (n \in 0..Chunks /\ \E i \in 1..Len(q) : q[i] = Item(body, t, n))
    BY BodyAt
  <2>3. (\E i \in 1..Len(q) : q[i] = Item(body, t, n))
          <=> (h = Item(body, t, n) \/ \E i \in 1..Len(w) : w[i] = Item(body, t, n))
    BY <1>1, <1>2
  <2> QED
    BY <2>1, <2>2, <2>3
<1>4. HasEnd(q, t) <=> (HasEnd(w, t) \/ (h.source = t /\ h.kind = end))
  <2>1. h.kind \in {"complete", "stopped"} <=> h.kind = end
    BY <1>00, RecordIsItem DEF BodyKinds, EndKinds, R
  <2>2. ASSUME HasEnd(q, t) PROVE HasEnd(w, t) \/ (h.source = t /\ h.kind = end)
    BY <1>1, <1>2, <2>1, <2>2 DEF HasEnd
  <2>3. ASSUME HasEnd(w, t) \/ (h.source = t /\ h.kind = end) PROVE HasEnd(q, t)
    BY <1>1, <2>1, <2>3 DEF HasEnd
  <2> QED
    BY <2>2, <2>3
<1>5. ASSUME Gone(q, t) PROVE Gone(w, t) /\ h.source # t
  BY <1>1, <1>5 DEF Gone
<1>6. ASSUME Lined(q, t)
      PROVE  /\ Lined(w, t)
             /\ h.source = t /\ h.kind = body => \A m \in Body(w, t, body) : h.chunk < m
             /\ h.source = t /\ h.kind = end => Gone(w, t)
  <2>1. Lined(w, t)
    <3> SUFFICES ASSUME NEW i \in 1..Len(w), NEW j \in 1..Len(w), i < j,
                        w[i].source = t, w[j].source = t
                 PROVE  /\ w[i].kind \in {"chunk", "answer"}
                        /\ w[j].kind \in {"chunk", "answer"} => w[i].chunk < w[j].chunk
      BY DEF Lined
    <3>1. /\ w[i] = q[i + 1] /\ w[j] = q[j + 1] /\ i + 1 < j + 1
          /\ i + 1 \in 1..Len(q) /\ j + 1 \in 1..Len(q)
      BY <1>1
    <3> QED
      BY <1>6, <3>1 DEF Lined
  <2>2. ASSUME h.source = t, h.kind = body, NEW m \in Body(w, t, body) PROVE h.chunk < m
    <3>1. PICK i \in 1..Len(w) : w[i] = Item(body, t, m)
      BY <1>1, BodyAt
    <3>2. q[i + 1].source = t /\ q[i + 1].kind = body /\ q[i + 1].chunk = m /\ q[1] = h
      BY <1>1, <3>1 DEF Item
    <3> QED
      BY <1>1, <1>6, <2>2, <3>2 DEF Lined, BodyKinds
  <2>3. ASSUME h.source = t, h.kind = end PROVE Gone(w, t)
    <3> SUFFICES ASSUME NEW i \in 1..Len(w), w[i].source = t PROVE FALSE
      BY DEF Gone
    <3>1. q[i + 1].source = t /\ q[1] = h /\ 1 < i + 1 /\ i + 1 \in 1..Len(q)
      BY <1>1
    <3>2. h.kind \in {"chunk", "answer"}
      BY <1>1, <1>6, <2>3, <3>1 DEF Lined
    <3> QED
      BY <1>0, <2>3, <3>2 DEF BodyKinds
  <2> QED
    BY <2>1, <2>2, <2>3
<1> QED
  BY <1>1, <1>00, <1>3, <1>4, <1>5, <1>6 DEF w, h, R

(* A source that is gone from a queue has no chunk and no end there.        *)
LEMMA GoneEmpty ==
  ASSUME NEW R, NEW q \in Seq(R), NEW t, NEW kind, Gone(q, t)
  PROVE  Body(q, t, kind) = {} /\ ~HasEnd(q, t) /\ Lined(q, t)
<1>1. Body(q, t, kind) = {}
  <2> SUFFICES ASSUME NEW n \in Body(q, t, kind) PROVE FALSE
    OBVIOUS
  <2>1. PICK i \in 1..Len(q) : q[i] = Item(kind, t, n)
    BY BodyAt
  <2> QED
    BY <2>1 DEF Gone, Item
<1>2. ~HasEnd(q, t) /\ Lined(q, t)
  BY DEF Gone, HasEnd, Lined
<1> QED
  BY <1>1, <1>2

(* An answer is in a queue of events when some place of the queue holds it. *)
LEMMA AnswersAt ==
  ASSUME NEW q \in Seq(Events)
  PROVE  \A n : n \in Answers(q) <=>
           n \in 0..Chunks /\ \E i \in 1..Len(q) : q[i].kind = "answer" /\ q[i].chunk = n
<1>1. DOMAIN q = 1..Len(q)
  OBVIOUS
<1>2. \A i \in 1..Len(q) : q[i] \in Events
  OBVIOUS
<1>3. \A n : \A x \in Events : x = Event("answer", n) <=> x.kind = "answer" /\ x.chunk = n
  BY DEF Events, Event
<1>4. ASSUME NEW n
      PROVE  Event("answer", n) \in Range(q) <=> \E i \in 1..Len(q) : q[i].kind = "answer" /\ q[i].chunk = n
  BY <1>1, <1>2, <1>3 DEF Range
<1> QED
  BY <1>4 DEF Answers

(* An event put behind the others, or two that are no answers.              *)
LEMMA EventsAppend ==
  ASSUME NEW q \in Seq(Events), NEW x \in Events
  PROVE  LET w == q \o <<x>>
         IN  /\ w \in Seq(Events) /\ w # <<>> /\ Len(w) = Len(q) + 1 /\ w[Len(w)] = x
             /\ \A i \in 1..Len(q) : w[i] = q[i]
             /\ Answers(w) = Answers(q) \union {n \in 0..Chunks : x.kind = "answer" /\ x.chunk = n}
             /\ InOrder(q) /\ (x.kind = "answer" => \A n \in Answers(q) : n < x.chunk) => InOrder(w)
<1> DEFINE w == q \o <<x>>
<1>1. /\ w \in Seq(Events) /\ Len(w) = Len(q) + 1 /\ Len(q) \in Nat
      /\ w[Len(q) + 1] = x /\ \A i \in 1..Len(q) : w[i] = q[i] /\ i \in 1..Len(w)
      /\ Len(q) + 1 \in 1..Len(w)
      /\ \A i \in 1..Len(w) : i \in 1..Len(q) \/ i = Len(q) + 1
  OBVIOUS
<1>2. w # <<>> /\ w[Len(w)] = x
  BY <1>1
<1> HIDE DEF w
<1>3. ASSUME NEW n
      PROVE  n \in Answers(w) <=> (n \in Answers(q) \/ (n \in 0..Chunks /\ x.kind = "answer" /\ x.chunk = n))
  <2>1. n \in Answers(w) <=> (n \in 0..Chunks /\ \E i \in 1..Len(w) : w[i].kind = "answer" /\ w[i].chunk = n)
    BY <1>1, AnswersAt
  <2>2. n \in Answers(q) <=> (n \in 0..Chunks /\ \E i \in 1..Len(q) : q[i].kind = "answer" /\ q[i].chunk = n)
    BY AnswersAt
  <2> QED
    BY <1>1, <2>1, <2>2
<1>4. ASSUME InOrder(q), x.kind = "answer" => \A n \in Answers(q) : n < x.chunk
      PROVE  InOrder(w)
  <2>1. DOMAIN w = 1..Len(w) /\ DOMAIN q = 1..Len(q)
    BY <1>1
  <2> SUFFICES ASSUME NEW i \in 1..Len(w), NEW j \in 1..Len(w), i < j,
                      w[i].kind = "answer", w[j].kind = "answer"
               PROVE  w[i].chunk < w[j].chunk
    BY <2>1 DEF InOrder
  <2>2. i \in 1..Len(q) /\ w[i] = q[i]
    BY <1>1
  <2>3. CASE j \in 1..Len(q)
    BY <1>1, <1>4, <2>1, <2>2, <2>3 DEF InOrder
  <2>4. CASE j = Len(q) + 1
    <3>1. q[i] \in Events
      BY <2>2
    <3>2. q[i].chunk \in 0..Chunks
      BY <3>1 DEF Events
    <3>3. q[i].chunk \in Answers(q)
      BY <2>2, <3>2, AnswersAt
    <3> QED
      BY <1>1, <1>4, <2>2, <2>4, <3>3
  <2> QED
    BY <1>1, <2>3, <2>4
<1> QED
  BY <1>1, <1>2, <1>3, <1>4 DEF w

(* Two events that are no answers, put behind the others.                   *)
LEMMA EventsAppendTwo ==
  ASSUME NEW q \in Seq(Events), NEW x \in Events, NEW y \in Events,
         x.kind # "answer", y.kind # "answer"
  PROVE  LET w == q \o <<x, y>>
         IN  /\ w \in Seq(Events) /\ w # <<>> /\ Len(w) = Len(q) + 2
             /\ w[Len(w)] = y /\ w[Len(q) + 1] = x /\ \A i \in 1..Len(q) : w[i] = q[i]
             /\ Answers(w) = Answers(q) /\ (InOrder(q) => InOrder(w))
<1> DEFINE v == q \o <<x>>
           w == q \o <<x, y>>
<1>0. {n \in 0..Chunks : x.kind = "answer" /\ x.chunk = n} = {}
      /\ {n \in 0..Chunks : y.kind = "answer" /\ y.chunk = n} = {}
  OBVIOUS
<1>1. /\ v \in Seq(Events) /\ Len(v) = Len(q) + 1 /\ v[Len(v)] = x
      /\ \A i \in 1..Len(q) : v[i] = q[i]
      /\ Answers(v) = Answers(q) \union {n \in 0..Chunks : x.kind = "answer" /\ x.chunk = n}
      /\ InOrder(q) => InOrder(v)
  <2> HIDE DEF v
  <2> QED
    BY EventsAppend DEF v
<1>2. w = v \o <<y>> /\ Len(q) \in Nat
  <2>1. \A i \in 1..(Len(q) + 2) : w[i] = (v \o <<y>>)[i]
    OBVIOUS
  <2>2. Len(w) = Len(q) + 2 /\ Len(v \o <<y>>) = Len(q) + 2 /\ w \in Seq(Events) /\ v \o <<y>> \in Seq(Events)
    OBVIOUS
  <2> HIDE DEF w, v
  <2> QED
    BY <2>1, <2>2
<1> HIDE DEF v, w
<1>3. /\ w \in Seq(Events) /\ w # <<>> /\ Len(w) = Len(v) + 1 /\ w[Len(w)] = y
      /\ \A i \in 1..Len(v) : w[i] = v[i]
      /\ Answers(w) = Answers(v) \union {n \in 0..Chunks : y.kind = "answer" /\ y.chunk = n}
      /\ InOrder(v) => InOrder(w)
  BY <1>1, <1>2, EventsAppend
<1>4. Answers(w) = Answers(q)
  BY <1>0, <1>1, <1>3
<1>5. Len(w) = Len(q) + 2 /\ w[Len(q) + 1] = x /\ \A i \in 1..Len(q) : w[i] = q[i]
  BY <1>1, <1>2, <1>3
<1> QED
  BY <1>1, <1>3, <1>4, <1>5 DEF w

(* The first event is taken.                                                *)
LEMMA EventsTail ==
  ASSUME NEW q \in Seq(Events), q # <<>>
  PROVE  LET w == Tail(q)
             h == Head(q)
         IN  /\ w \in Seq(Events) /\ Len(w) = Len(q) - 1 /\ Len(q) \in Nat \ {0}
             /\ h \in Events /\ h = q[1] /\ \A i \in 1..Len(w) : w[i] = q[i + 1] /\ i + 1 \in 1..Len(q)
             /\ Answers(q) = Answers(w) \union {n \in 0..Chunks : h.kind = "answer" /\ h.chunk = n}
             /\ InOrder(q) => InOrder(w) /\ (h.kind = "answer" => \A n \in Answers(w) : h.chunk < n)
<1> DEFINE w == Tail(q)
           h == Head(q)
<1>1. /\ w \in Seq(Events) /\ Len(w) = Len(q) - 1 /\ Len(q) \in Nat \ {0}
      /\ h = q[1] /\ 1 \in 1..Len(q)
      /\ \A i \in 1..Len(w) : w[i] = q[i + 1] /\ i + 1 \in 1..Len(q) /\ 1 < i + 1
  OBVIOUS
<1>2. h \in Events
  BY <1>1
<1> HIDE DEF w, h
<1>3. ASSUME NEW i \in 1..Len(q), i # 1 PROVE i - 1 \in 1..Len(w) /\ w[i - 1] = q[i]
  <2>1. i - 1 \in 1..Len(w) /\ (i - 1) + 1 = i
    BY <1>1, <1>3
  <2> QED
    BY <1>1, <2>1
<1>4. ASSUME NEW n
      PROVE  n \in Answers(q) <=> (n \in Answers(w) \/ (n \in 0..Chunks /\ h.kind = "answer" /\ h.chunk = n))
  <2>1. n \in Answers(w) <=> (n \in 0..Chunks /\ \E i \in 1..Len(w) : w[i].kind = "answer" /\ w[i].chunk = n)
    BY <1>1, AnswersAt
  <2>2. n \in Answers(q) <=> (n \in 0..Chunks /\ \E i \in 1..Len(q) : q[i].kind = "answer" /\ q[i].chunk = n)
    BY AnswersAt
  <2>3. (\E i \in 1..Len(q) : q[i].kind = "answer" /\ q[i].chunk = n)
          <=> ((h.kind = "answer" /\ h.chunk = n) \/ \E i \in 1..Len(w) : w[i].kind = "answer" /\ w[i].chunk = n)
    BY <1>1, <1>3
  <2> QED
    BY <2>1, <2>2, <2>3
<1>5. ASSUME InOrder(q)
      PROVE  InOrder(w) /\ (h.kind = "answer" => \A n \in Answers(w) : h.chunk < n)
  <2>1. DOMAIN w = 1..Len(w) /\ DOMAIN q = 1..Len(q)
    BY <1>1
  <2>2. InOrder(w)
    <3> SUFFICES ASSUME NEW i \in 1..Len(w), NEW j \in 1..Len(w), i < j,
                        w[i].kind = "answer", w[j].kind = "answer"
                 PROVE  w[i].chunk < w[j].chunk
      BY <2>1 DEF InOrder
    <3>1. /\ w[i] = q[i + 1] /\ w[j] = q[j + 1] /\ i + 1 < j + 1
          /\ i + 1 \in 1..Len(q) /\ j + 1 \in 1..Len(q)
      BY <1>1
    <3> QED
      BY <1>5, <2>1, <3>1 DEF InOrder
  <2>3. ASSUME h.kind = "answer", NEW n \in Answers(w) PROVE h.chunk < n
    <3>1. PICK i \in 1..Len(w) : w[i].kind = "answer" /\ w[i].chunk = n
      BY <1>1, AnswersAt
    <3>2. i + 1 \in 1..Len(q) /\ 1 < i + 1 /\ q[i + 1].kind = "answer" /\ q[i + 1].chunk = n
      BY <1>1, <3>1
    <3> QED
      BY <1>1, <1>5, <2>1, <2>3, <3>2 DEF InOrder
  <2> QED
    BY <2>2, <2>3
<1> QED
  BY <1>1, <1>2, <1>4, <1>5 DEF w, h

(* A process that dies keeps back the last events of its queue.             *)
LEMMA EventsPrefix ==
  ASSUME NEW q \in Seq(Events), NEW n \in 0..Len(q)
  PROVE  LET w == SubSeq(q, 1, n)
         IN  /\ w \in Seq(Events) /\ Len(w) = n /\ \A i \in 1..Len(w) : w[i] = q[i] /\ i \in 1..Len(q)
             /\ n = Len(q) => w = q
             /\ Answers(w) \subseteq Answers(q) /\ (InOrder(q) => InOrder(w))
<1> DEFINE w == SubSeq(q, 1, n)
<1>1. /\ w \in Seq(Events) /\ Len(w) = n /\ n \in Nat /\ Len(q) \in Nat
      /\ \A i \in 1..Len(w) : w[i] = q[i] /\ i \in 1..Len(q)
  OBVIOUS
<1>2. n = Len(q) => w = q
  BY <1>1
<1> HIDE DEF w
<1>3. Answers(w) \subseteq Answers(q)
  <2> SUFFICES ASSUME NEW m \in Answers(w) PROVE m \in Answers(q)
    OBVIOUS
  <2>1. m \in 0..Chunks
    BY <1>1, AnswersAt
  <2>2. PICK i \in 1..Len(w) : w[i].kind = "answer" /\ w[i].chunk = m
    BY <1>1, AnswersAt
  <2>3. i \in 1..Len(q) /\ q[i].kind = "answer" /\ q[i].chunk = m
    BY <1>1, <2>2
  <2> QED
    BY <2>1, <2>3, AnswersAt
<1>4. InOrder(q) => InOrder(w)
  <2>1. DOMAIN w = 1..Len(w) /\ DOMAIN q = 1..Len(q)
    BY <1>1
  <2> QED
    BY <1>1, <2>1 DEF InOrder
<1> QED
  BY <1>1, <1>2, <1>3, <1>4 DEF w

(* The processes are the sources' captures and the model's.                 *)
LEMMA ProcessNames ==
  /\ Model \notin Sources /\ Model \in Procs /\ Sources \subseteq Procs
  /\ Chunks \in Nat /\ Capacity \in Nat \ {0} /\ TelemetryRoom \in Nat /\ Crashes \in Nat
  /\ \A p \in Procs : p \in Sources \/ p = Model
  /\ NoItem \notin Items /\ NoItem.kind = "none"
BY GroupAssumption DEF Model, Procs, Sources, NoItem, Items

(* Each source has a place among the sessions.                              *)
LEMMA SessionPlaces ==
  /\ Len(Sessions) \in Nat /\ Len(Sessions) > 0
  /\ \A i \in 1..Len(Sessions) : Sessions[i] \in Sources
  /\ \A s \in Sources : \E i \in 1..Len(Sessions) : Sessions[i] = s
<1>1. Sessions \in Seq(Range(Sessions)) /\ Sessions # <<>>
  BY GroupAssumption
<1>2. Len(Sessions) \in Nat /\ Len(Sessions) > 0 /\ DOMAIN Sessions = 1..Len(Sessions)
  BY <1>1
<1> QED
  BY <1>2 DEF Sources, Range

TypePhase ==
  /\ topology \in Topologies
  /\ phase \in {"model", "captures", "running", "stopping", "closing",
                "failed", "stopped", "aborted"}
  /\ asked \in 0..Len(Sessions)
TypePc ==
  /\ pc \in [Procs -> CapturePlaces \cup ModelPlaces]
  /\ pc[Model] \in ModelPlaces /\ \A s \in Sources : pc[s] \in CapturePlaces
TypeReady ==
  /\ ready \in [Procs -> {"none", "ok", "error", "read"}]
  /\ control \in [Sources -> Seq({"start", "stop"})]
TypeSources ==
  /\ made \in [Sources -> 0..Chunks]
  /\ dropped \in [Sources -> SUBSET (1..Chunks)]
  /\ local \in [Sources -> 0..Chunks]
  /\ \A s \in Sources : dropped[s] \subseteq 1..made[s]
  /\ \A s \in Sources : local[s] <= IF Shared THEN 0 ELSE made[s]
TypeEvents == outq \in [Sources -> Seq(Events)] /\ results \in [Sources -> Seq(Events)]
TypeModel ==
  /\ inq \in Seq(Items) /\ Len(inq) <= Capacity
  /\ modelEv \in Seq(ModelEvents)
  /\ retired \subseteq Sources
  /\ working \in Items \cup {NoItem}
TypeRest ==
  /\ shutdown \in BOOLEAN /\ idle \in BOOLEAN
  /\ exitSeen \subseteq Sources
  /\ telemetry \in 0..TelemetryRoom /\ stuck \subseteq Procs
  /\ crashes \in 0..Crashes

(* The type invariant in parts, before a step and after it.                 *)
LEMMA TypeParts ==
  TypeOK <=> TypePhase /\ TypePc /\ TypeReady /\ TypeSources /\ TypeEvents /\ TypeModel /\ TypeRest
BY DEF TypeOK, TypePhase, TypePc, TypeReady, TypeSources, TypeEvents, TypeModel, TypeRest
LEMMA TypePartsNext ==
  TypeOK' <=> TypePhase' /\ TypePc' /\ TypeReady' /\ TypeSources' /\ TypeEvents' /\ TypeModel'
              /\ TypeRest'
BY DEF TypeOK, TypePhase, TypePc, TypeReady, TypeSources, TypeEvents, TypeModel, TypeRest

\* The model process holds an item while it answers one and never a completion; it
\* exists, and its queues hold anything, only where the model is shared.
HandInv ==
  /\ working.kind \in {"none", "chunk"}
  /\ pc[Model] \in {"none", "loading", "loop"} => working = NoItem
  /\ pc[Model] = "answer" => working # NoItem
  /\ ~Shared => pc[Model] = "none" /\ inq = <<>> /\ modelEv = <<>> /\ working = NoItem

BaseInv == TypeOK /\ HandInv

(* What the steps are made of keeps the types; first, where a process goes. *)
LEMMA GotoMoves ==
  ASSUME TypePc, NEW p \in Procs, NEW there, Goto(p, there),
         p = Model => there \in ModelPlaces, p # Model => there \in CapturePlaces
  PROVE  TypePc' /\ pc'[p] = there /\ \A o \in Procs : o # p => pc'[o] = pc[o]
<1>1. pc' = [pc EXCEPT ![p] = there] /\ pc \in [Procs -> CapturePlaces \cup ModelPlaces]
  BY DEF Goto, TypePc
<1>2. there \in CapturePlaces \cup ModelPlaces
  OBVIOUS
<1>3. pc' \in [Procs -> CapturePlaces \cup ModelPlaces]
  BY <1>1, <1>2
<1>4. pc'[p] = there /\ \A o \in Procs : o # p => pc'[o] = pc[o]
  BY <1>1
<1>5. pc'[Model] \in ModelPlaces
  BY <1>4, ProcessNames DEF TypePc
<1>6. \A s \in Sources : pc'[s] \in CapturePlaces
  BY <1>4, ProcessNames DEF TypePc
<1> QED
  BY <1>3, <1>4, <1>5, <1>6 DEF TypePc

(* A clean-up leaves no process alive and disturbs none that is not.        *)
LEMMA TerminateMoves ==
  ASSUME TypePc, TerminateAll
  PROVE  /\ TypePc'
         /\ \A p \in Procs : pc'[p] = IF Alive(p) THEN "crashed" ELSE pc[p]
         /\ \A p \in Procs : pc'[p] \in {"none", "clean", "crashed"}
<1>1. \A p \in Procs : pc'[p] = IF Alive(p) THEN "crashed" ELSE pc[p]
  BY DEF TerminateAll
<1>2. \A p \in Procs : pc'[p] \in {"none", "clean", "crashed"}
  BY <1>1 DEF Alive
<1>3. pc' \in [Procs -> CapturePlaces \cup ModelPlaces]
  <2>1. \A p \in Procs : (IF Alive(p) THEN "crashed" ELSE pc[p]) \in CapturePlaces \cup ModelPlaces
    BY DEF TypePc, CapturePlaces
  <2> QED
    BY <2>1 DEF TerminateAll
<1> QED
  BY <1>1, <1>2, <1>3, ProcessNames DEF TypePc, CapturePlaces, ModelPlaces

(* Events of the kinds there are.                                           *)
LEMMA EventKinds ==
  ASSUME NEW n \in 0..Chunks,
         NEW kind \in {"answer", "drop", "fatal", "exited", "stopped", "failed"}
  PROVE  /\ Event(kind, n) \in Events /\ <<Event(kind, n)>> \in Seq(Events)
         /\ Event(kind, n).kind = kind /\ Event(kind, n).chunk = n
BY DEF Events, Event

(* A process puts events behind those it has put before.                    *)
LEMMA PutMoves ==
  ASSUME TypeEvents, NEW s \in Sources, NEW events \in Seq(Events), Put(s, events)
  PROVE  /\ outq' \in [Sources -> Seq(Events)]
         /\ outq'[s] = outq[s] \o events /\ \A t \in Sources : t # s => outq'[t] = outq[t]
<1>1. outq' = [outq EXCEPT ![s] = @ \o events] /\ outq \in [Sources -> Seq(Events)]
  BY DEF Put, TypeEvents
<1>2. outq[s] \o events \in Seq(Events)
  BY <1>1
<1> QED
  BY <1>1, <1>2

(* A delivery goes to a session that has not had its completed event.       *)
LEMMA DeliverMoves ==
  ASSUME TypeEvents, NEW s \in Sources, NEW events \in Seq(Events), Deliver(events, s)
  PROVE  /\ results' \in [Sources -> Seq(Events)]
         /\ Terminal(s) => results'[s] = results[s]
         /\ ~Terminal(s) => results'[s] = results[s] \o events
         /\ \A t \in Sources : t # s => results'[t] = results[t]
<1>1. results \in [Sources -> Seq(Events)]
  BY DEF TypeEvents
<1>2. results[s] \o events \in Seq(Events)
  BY <1>1
<1>3. CASE Terminal(s)
  BY <1>1, <1>3 DEF Deliver
<1>4. CASE ~Terminal(s)
  <2>1. results' = [results EXCEPT ![s] = @ \o events]
    BY <1>4 DEF Deliver
  <2> QED
    BY <1>1, <1>2, <1>4, <2>1
<1> QED
  BY <1>3, <1>4

(* The FIFO takes an item when it has room.                                 *)
LEMMA FifoMoves ==
  ASSUME TypeModel, NEW x \in Items, FifoPut(x)
  PROVE  inq' \in Seq(Items) /\ Len(inq') <= Capacity /\ inq' = Append(inq, x)
<1>1. inq' = Append(inq, x) /\ Len(inq) < Capacity
  <2>1. ~(Len(inq) >= Capacity) /\ Len(inq) \in Nat
    BY DEF TypeModel, FifoPut, Full
  <2> QED
    BY <2>1, ProcessNames DEF FifoPut
<1>2. inq \in Seq(Items)
  BY DEF TypeModel
<1>3. inq' \in Seq(Items) /\ Len(inq') = Len(inq) + 1 /\ Len(inq) \in Nat
  BY <1>1, <1>2
<1> QED
  BY <1>1, <1>3, ProcessNames

(* Retiring a source takes it out of both queues.                           *)
LEMMA RetireMoves ==
  ASSUME TypeModel, NEW s \in Sources, RetireSource(s)
  PROVE  /\ retired' = retired \union {s} /\ retired' \subseteq Sources
         /\ inq' = Without(inq, s) /\ inq' \in Seq(Items) /\ Len(inq') <= Capacity
         /\ modelEv' = Without(modelEv, s) /\ modelEv' \in Seq(ModelEvents)
<1>1. /\ inq \in Seq(Items) /\ Len(inq) <= Capacity /\ modelEv \in Seq(ModelEvents)
      /\ retired \subseteq Sources
  BY DEF TypeModel
<1>2. Without(inq, s) \in Seq(Items) /\ Len(Without(inq, s)) <= Len(inq)
  BY <1>1, WithoutKeeps
<1>3. Without(modelEv, s) \in Seq(ModelEvents)
  BY <1>1, WithoutKeeps
<1>4. Len(Without(inq, s)) <= Capacity
  <2>1. Len(Without(inq, s)) \in Nat /\ Len(inq) \in Nat
    BY <1>1, <1>2
  <2> QED
    BY <1>1, <1>2, <2>1, ProcessNames
<1> QED
  BY <1>1, <1>2, <1>3, <1>4 DEF RetireSource

(* What the model process publishes reaches the queue unless the source has *)
(* retired, and its end retires it.                                         *)
LEMMA PublishMoves ==
  ASSUME TypeModel, NEW event \in ModelEvents, PublishModelEvent(event)
  PROVE  /\ modelEv' \in Seq(ModelEvents) /\ retired' \subseteq Sources
         /\ event.source \in retired => modelEv' = modelEv /\ retired' = retired
         /\ event.source \notin retired =>
              /\ modelEv' = Append(modelEv, event)
              /\ retired' = IF event.kind = "stopped" THEN retired \union {event.source} ELSE retired
<1>1. modelEv \in Seq(ModelEvents) /\ retired \subseteq Sources /\ event.source \in Sources
  BY DEF TypeModel, ModelEvents
<1>2. Append(modelEv, event) \in Seq(ModelEvents)
  BY <1>1
<1>3. CASE event.source \in retired
  BY <1>1, <1>3 DEF PublishModelEvent
<1>4. CASE event.source \notin retired
  BY <1>1, <1>2, <1>4 DEF PublishModelEvent
<1> QED
  BY <1>3, <1>4

(* A telemetry record fits or its process keeps it.                         *)
LEMMA TelemetryMoves ==
  ASSUME TypeRest, NEW p \in Procs, PutTelemetry(p)
  PROVE  telemetry' \in 0..TelemetryRoom /\ stuck' \subseteq Procs
BY ProcessNames DEF TypeRest, PutTelemetry

(* Every step keeps the types, and what the model process holds.            *)
LEMMA BaseStep ==
  ASSUME BaseInv, Next PROVE BaseInv'
<1> DEFINE Goal == /\ TypePhase' /\ TypePc' /\ TypeReady' /\ TypeSources' /\ TypeEvents'
                   /\ TypeModel' /\ TypeRest' /\ HandInv'
<1>1. /\ TypePhase /\ TypePc /\ TypeReady /\ TypeSources /\ TypeEvents
      /\ TypeModel /\ TypeRest /\ HandInv
  BY TypeParts DEF BaseInv
<1>2. SUFFICES Goal
  BY TypePartsNext DEF BaseInv
<1>3. ASSUME NEW s \in Sources, CaptureReady(s) PROVE Goal
  <2>1. UNCHANGED <<topology, phase, asked, control, made, dropped, local, inq, modelEv,
                    retired, working, shutdown, outq, results, idle, exitSeen, telemetry, stuck,
                    crashes>>
    BY <1>3 DEF CaptureReady, owner, fifo, worker, dispatch, tele
  <2>2. TypePc' /\ pc'[Model] = pc[Model]
    <3>1. s \in Procs /\ s # Model /\ (IF s \in Replays THEN "wait" ELSE "capture") \in CapturePlaces
      BY ProcessNames DEF CapturePlaces
    <3>2. Goto(s, (IF s \in Replays THEN "wait" ELSE "capture"))
      BY <1>3 DEF CaptureReady
    <3> QED
      BY <1>1, <3>1, <3>2, GotoMoves, ProcessNames
  <2>3. HandInv'
    BY <1>1, <2>1, <2>2 DEF HandInv, Shared
  <2>4. TypeReady'
    BY <1>1, <1>3, <2>1, ProcessNames DEF TypeReady, CaptureReady
  <2>5. TypePhase' /\ TypeSources' /\ TypeEvents' /\ TypeModel' /\ TypeRest'
    BY <1>1, <2>1 DEF TypePhase, TypeSources, TypeEvents, TypeModel, TypeRest, Shared
  <2> QED
    BY <2>2, <2>3, <2>4, <2>5
<1>4. ASSUME NEW s \in Sources, CaptureFailsToStart(s) PROVE Goal
  <2>1. UNCHANGED <<topology, phase, asked, control, made, dropped, local, inq, modelEv,
                    retired, working, shutdown, outq, results, idle, exitSeen, telemetry, stuck,
                    crashes>>
    BY <1>4 DEF CaptureFailsToStart, owner, fifo, worker, dispatch, tele
  <2>2. TypePc' /\ pc'[Model] = pc[Model]
    <3>1. s \in Procs /\ s # Model /\ "clean" \in CapturePlaces
      BY ProcessNames DEF CapturePlaces
    <3>2. Goto(s, "clean")
      BY <1>4 DEF CaptureFailsToStart
    <3> QED
      BY <1>1, <3>1, <3>2, GotoMoves, ProcessNames
  <2>3. HandInv'
    BY <1>1, <2>1, <2>2 DEF HandInv, Shared
  <2>4. TypeReady'
    BY <1>1, <1>4, <2>1, ProcessNames DEF TypeReady, CaptureFailsToStart
  <2>5. TypePhase' /\ TypeSources' /\ TypeEvents' /\ TypeModel' /\ TypeRest'
    BY <1>1, <2>1 DEF TypePhase, TypeSources, TypeEvents, TypeModel, TypeRest, Shared
  <2> QED
    BY <2>2, <2>3, <2>4, <2>5
<1>5. ASSUME NEW s \in Sources, TakeCommand(s) PROVE Goal
  <2>1. UNCHANGED <<topology, phase, asked, ready, made, dropped, local, inq, modelEv, retired,
                    working, shutdown, outq, results, idle, exitSeen, telemetry, stuck, crashes>>
    BY <1>5 DEF TakeCommand, owner, fifo, worker, dispatch, tele
  <2>2. TypePc' /\ pc'[Model] = pc[Model]
    <3>1. s \in Procs /\ s # Model /\ (IF Head(control[s]) = "stop" THEN "drain" ELSE "capture") \in CapturePlaces
      BY ProcessNames DEF CapturePlaces
    <3>2. Goto(s, (IF Head(control[s]) = "stop" THEN "drain" ELSE "capture"))
      BY <1>5 DEF TakeCommand
    <3> QED
      BY <1>1, <3>1, <3>2, GotoMoves, ProcessNames
  <2>3. HandInv'
    BY <1>1, <2>1, <2>2 DEF HandInv, Shared
  <2>4. TypeReady'
    <3>1. control[s] \in Seq({"start", "stop"}) /\ control[s] # <<>>
      BY <1>1, <1>5 DEF TypeReady, TakeCommand
    <3>2. Tail(control[s]) \in Seq({"start", "stop"})
      BY <3>1
    <3> QED
      BY <1>1, <1>5, <2>1, <3>2 DEF TypeReady, TakeCommand
  <2>5. TypePhase' /\ TypeSources' /\ TypeEvents' /\ TypeModel' /\ TypeRest'
    BY <1>1, <2>1 DEF TypePhase, TypeSources, TypeEvents, TypeModel, TypeRest, Shared
  <2> QED
    BY <2>2, <2>3, <2>4, <2>5
<1>6. ASSUME NEW s \in Sources, SourceEnds(s) PROVE Goal
  <2>1. UNCHANGED <<topology, phase, asked, ready, control, made, dropped, local, inq, modelEv,
                    retired, working, shutdown, outq, results, idle, exitSeen, telemetry, stuck,
                    crashes>>
    BY <1>6 DEF SourceEnds, owner, fifo, worker, dispatch, tele
  <2>2. TypePc' /\ pc'[Model] = pc[Model]
    <3>1. s \in Procs /\ s # Model /\ "drain" \in CapturePlaces /\ "drainErr" \in CapturePlaces
      BY ProcessNames DEF CapturePlaces
    <3>2. Goto(s, "drain") \/ Goto(s, "drainErr")
      BY <1>6 DEF SourceEnds
    <3> QED
      BY <1>1, <3>1, <3>2, GotoMoves, ProcessNames
  <2>3. HandInv'
    BY <1>1, <2>1, <2>2 DEF HandInv, Shared
  <2>4. TypePhase' /\ TypeReady' /\ TypeSources' /\ TypeEvents' /\ TypeModel' /\ TypeRest'
    BY <1>1, <2>1 DEF TypePhase, TypeReady, TypeSources, TypeEvents, TypeModel, TypeRest, Shared
  <2> QED
    BY <2>2, <2>3, <2>4
<1>7. ASSUME NEW s \in Sources, Submit(s) PROVE Goal
  <2>1. UNCHANGED <<topology, phase, asked, pc, ready, control, dropped, modelEv, retired,
                    working, shutdown, outq, results, idle, exitSeen, telemetry, stuck, crashes>>
    BY <1>7 DEF Submit, MakeChunk, FifoPut, owner, fifo, worker, dispatch, tele
  <2>2. made[s] + 1 \in 0..Chunks /\ made' = [made EXCEPT ![s] = @ + 1] /\ made'[s] = made[s] + 1
    <3>1. made' = [made EXCEPT ![s] = @ + 1] /\ made[s] < Chunks
      BY <1>7 DEF Submit, MakeChunk
    <3>2. made[s] \in 0..Chunks
      BY <1>1 DEF TypeSources
    <3> QED
      BY <1>1, <3>1, <3>2, ProcessNames DEF TypeSources
  <2>3. TypeSources'
    <3>1. made' \in [Sources -> 0..Chunks] /\ dropped' = dropped
      BY <1>1, <2>1, <2>2 DEF TypeSources
    <3>2. \A o \in Sources : made[o] \in 0..Chunks /\ made'[o] = IF o = s THEN made[o] + 1 ELSE made[o]
      BY <1>1, <2>2 DEF TypeSources
    <3>3. \A o \in Sources : dropped'[o] \subseteq 1..made'[o]
      BY <1>1, <3>1, <3>2, ProcessNames DEF TypeSources
    <3>4. CASE Shared
      <4>1. local' = local
        BY <1>7, <3>4 DEF Submit
      <4> QED
        BY <1>1, <2>1, <3>1, <3>3, <3>4, <4>1 DEF TypeSources, Shared
    <3>5. CASE ~Shared
      <4>1. local' = [local EXCEPT ![s] = @ + 1]
        BY <1>7, <3>5 DEF Submit
      <4>2. \A o \in Sources : local[o] \in 0..Chunks /\ local[o] <= made[o]
        BY <1>1, <3>5 DEF TypeSources
      <4>3. local[s] + 1 \in 0..Chunks /\ local[s] + 1 <= made[s] + 1
        BY <2>2, <3>2, <4>2, ProcessNames
      <4>4. local' \in [Sources -> 0..Chunks] /\ \A o \in Sources : local'[o] = IF o = s THEN local[o] + 1 ELSE local[o]
        BY <1>1, <4>1, <4>3 DEF TypeSources
      <4>5. \A o \in Sources : local'[o] <= made'[o]
        BY <3>2, <4>2, <4>3, <4>4
      <4> QED
        BY <1>1, <2>1, <3>1, <3>3, <3>5, <4>4, <4>5 DEF TypeSources, Shared
    <3> QED
      BY <3>4, <3>5
  <2>4. TypeModel' /\ (~Shared => inq' = inq)
    <3>1. CASE Shared
      <4>1. FifoPut(Item("chunk", s, made[s] + 1)) /\ Item("chunk", s, made[s] + 1) \in Items
        BY <1>7, <2>2, <3>1 DEF Submit, Items, Item
      <4> QED
        BY <1>1, <2>1, <3>1, <4>1, FifoMoves DEF TypeModel
    <3>2. CASE ~Shared
      BY <1>1, <1>7, <2>1, <3>2 DEF Submit, TypeModel
    <3> QED
      BY <3>1, <3>2
  <2>5. HandInv'
    BY <1>1, <2>1, <2>4 DEF HandInv, Shared
  <2>6. TypePhase' /\ TypePc' /\ TypeReady' /\ TypeEvents' /\ TypeRest'
    BY <1>1, <2>1 DEF TypePhase, TypePc, TypeReady, TypeEvents, TypeRest, Shared
  <2> QED
    BY <2>2, <2>3, <2>4, <2>5, <2>6
<1>8. ASSUME NEW s \in Sources, SubmitDropped(s) PROVE Goal
  <2>1. UNCHANGED <<topology, phase, asked, pc, ready, control, local, inq, modelEv, retired,
                    working, shutdown, results, idle, exitSeen, telemetry, stuck, crashes>>
    BY <1>8 DEF SubmitDropped, MakeChunk, owner, fifo, worker, dispatch, tele
  <2>2. made[s] + 1 \in 1..Chunks /\ made' = [made EXCEPT ![s] = @ + 1] /\ made'[s] = made[s] + 1
    <3>1. made' = [made EXCEPT ![s] = @ + 1] /\ made[s] < Chunks
      BY <1>8 DEF SubmitDropped, MakeChunk
    <3>2. made[s] \in 0..Chunks
      BY <1>1 DEF TypeSources
    <3> QED
      BY <1>1, <3>1, <3>2, ProcessNames DEF TypeSources
  <2>3. TypeSources'
    <3>1. made' \in [Sources -> 0..Chunks] /\ local' = local
      BY <1>1, <2>1, <2>2 DEF TypeSources
    <3>2. \A o \in Sources : made[o] \in 0..Chunks /\ made'[o] = IF o = s THEN made[o] + 1 ELSE made[o]
      BY <1>1, <2>2 DEF TypeSources
    <3>3. dropped' = [dropped EXCEPT ![s] = @ \cup {made[s] + 1}]
      BY <1>8 DEF SubmitDropped
    <3>4. dropped \in [Sources -> SUBSET (1..Chunks)] /\ dropped[s] \cup {made[s] + 1} \in SUBSET (1..Chunks)
      BY <1>1, <2>2 DEF TypeSources
    <3>5. dropped' \in [Sources -> SUBSET (1..Chunks)]
      BY <3>3, <3>4
    <3>6. dropped'[s] = dropped[s] \cup {made[s] + 1} /\ \A o \in Sources : o # s => dropped'[o] = dropped[o]
      BY <3>3, <3>4
    <3>7. ASSUME NEW o \in Sources PROVE dropped'[o] \subseteq 1..made'[o]
      <4>1. dropped[o] \subseteq 1..made[o] /\ made[o] \in Nat
        BY <1>1, <3>2, ProcessNames DEF TypeSources
      <4>2. CASE o = s
        BY <3>2, <3>6, <4>1, <4>2
      <4>3. CASE o # s
        BY <3>2, <3>6, <4>1, <4>3
      <4> QED
        BY <4>2, <4>3
    <3>8. \A o \in Sources : local'[o] <= IF Shared THEN 0 ELSE made'[o]
      <4>1. Shared
        BY <1>8 DEF SubmitDropped
      <4> QED
        BY <1>1, <3>1, <4>1 DEF TypeSources
    <3> QED
      BY <1>1, <2>1, <3>1, <3>5, <3>7, <3>8 DEF TypeSources, Shared
  <2>4. TypeEvents'
    <3>1. <<Event("drop", made[s] + 1)>> \in Seq(Events)
      BY <2>2, EventKinds
    <3>2. Put(s, <<Event("drop", made[s] + 1)>>)
      BY <1>8 DEF SubmitDropped
    <3> QED
      BY <1>1, <2>1, <3>1, <3>2, PutMoves DEF TypeEvents
  <2>5. TypePhase' /\ TypePc' /\ TypeReady' /\ TypeModel' /\ TypeRest' /\ HandInv'
    BY <1>1, <2>1 DEF TypePhase, TypePc, TypeReady, TypeModel, TypeRest, HandInv, Shared
  <2> QED
    BY <2>2, <2>3, <2>4, <2>5
<1>9. ASSUME NEW s \in Sources, SubmitFails(s) PROVE Goal
  <2>1. UNCHANGED <<topology, phase, asked, ready, control, dropped, local, working, shutdown,
                    results, idle, exitSeen, telemetry, stuck, crashes>>
    BY <1>9 DEF SubmitFails, MakeChunk, Fail, RetireSource, owner, fifo, worker, dispatch, tele
  <2>2. TypePc' /\ pc'[Model] = pc[Model]
    <3>1. s \in Procs /\ s # Model /\ "exit" \in CapturePlaces
      BY ProcessNames DEF CapturePlaces
    <3>2. Goto(s, "exit")
      BY <1>9 DEF SubmitFails, Fail
    <3> QED
      BY <1>1, <3>1, <3>2, GotoMoves, ProcessNames
  <2>3. TypeEvents'
    <3>1. made[s] \in 0..Chunks /\ 0 \in 0..Chunks
      BY <1>1, ProcessNames DEF TypeSources
    <3>2. <<Event("fatal", 0), Event("failed", made[s])>> \in Seq(Events)
      BY <3>1, EventKinds
    <3>3. Put(s, <<Event("fatal", 0), Event("failed", made[s])>>)
      BY <1>9 DEF SubmitFails, Fail
    <3>4. outq' \in [Sources -> Seq(Events)]
      BY <1>1, <3>2, <3>3, PutMoves
    <3> QED
      BY <1>1, <2>1, <3>4 DEF TypeEvents
  <2>4. TypeModel' /\ RetireSource(s) /\ Shared
    <3>1. RetireSource(s) /\ Shared
      BY <1>9 DEF SubmitFails, Fail
    <3> QED
      BY <1>1, <2>1, <3>1, RetireMoves DEF TypeModel
  <2>5. HandInv'
    BY <1>1, <2>1, <2>2, <2>4 DEF HandInv, Shared
  <2>6. TypeSources'
    <3>1. made' = [made EXCEPT ![s] = @ + 1] /\ made[s] < Chunks
      BY <1>9 DEF SubmitFails, MakeChunk
    <3>2. \A o \in Sources : made[o] \in 0..Chunks
      BY <1>1 DEF TypeSources
    <3>3. made' \in [Sources -> 0..Chunks]
      BY <1>1, <3>1, <3>2, ProcessNames DEF TypeSources
    <3>4. \A o \in Sources : made'[o] = IF o = s THEN made[o] + 1 ELSE made[o]
      BY <1>1, <3>1 DEF TypeSources
    <3>5. \A o \in Sources : dropped[o] \subseteq 1..made'[o] /\ made[o] <= made'[o]
      BY <1>1, <3>2, <3>4, ProcessNames DEF TypeSources
    <3> QED
      BY <1>1, <2>1, <2>4, <3>3, <3>5 DEF TypeSources, Shared
  <2>7. TypePhase' /\ TypeReady' /\ TypeRest'
    BY <1>1, <2>1 DEF TypePhase, TypeReady, TypeRest, Shared
  <2> QED
    BY <2>2, <2>3, <2>4, <2>5, <2>6, <2>7
<1>10. ASSUME NEW s \in Sources, Complete(s) PROVE Goal
  <2>1. UNCHANGED <<topology, phase, asked, ready, control, made, dropped, local, modelEv,
                    retired, working, shutdown, results, idle, exitSeen, telemetry, stuck,
                    crashes>>
    BY <1>10 DEF Complete, FifoPut, owner, fifo, worker, dispatch, tele
  <2>2. TypePc' /\ pc'[Model] = pc[Model]
    <3>1. s \in Procs /\ s # Model /\ "exit" \in CapturePlaces
      BY ProcessNames DEF CapturePlaces
    <3>2. Goto(s, "exit")
      BY <1>10 DEF Complete
    <3> QED
      BY <1>1, <3>1, <3>2, GotoMoves, ProcessNames
  <2>3. TypeEvents'
    <3>1. made[s] \in 0..Chunks
      BY <1>1 DEF TypeSources
    <3>2. <<Event("stopped", made[s])>> \in Seq(Events)
      BY <3>1, EventKinds
    <3>3. outq' = outq \/ Put(s, <<Event("stopped", made[s])>>)
      BY <1>10 DEF Complete
    <3>4. outq' \in [Sources -> Seq(Events)]
      BY <1>1, <3>2, <3>3, PutMoves DEF TypeEvents
    <3> QED
      BY <1>1, <2>1, <3>4 DEF TypeEvents
  <2>4. TypeModel' /\ (~Shared => inq' = inq)
    <3>1. CASE Shared
      <4>1. FifoPut(Item("complete", s, made[s])) /\ Item("complete", s, made[s]) \in Items
        BY <1>1, <1>10, <3>1 DEF Complete, Items, Item, TypeSources
      <4> QED
        BY <1>1, <2>1, <3>1, <4>1, FifoMoves DEF TypeModel
    <3>2. CASE ~Shared
      BY <1>1, <1>10, <2>1, <3>2 DEF Complete, TypeModel
    <3> QED
      BY <3>1, <3>2
  <2>5. HandInv'
    BY <1>1, <2>1, <2>2, <2>4 DEF HandInv, Shared
  <2>6. TypePhase' /\ TypeReady' /\ TypeSources' /\ TypeRest'
    BY <1>1, <2>1 DEF TypePhase, TypeReady, TypeSources, TypeRest, Shared
  <2> QED
    BY <2>2, <2>3, <2>4, <2>5, <2>6
<1>11. ASSUME NEW s \in Sources, CompleteFails(s) PROVE Goal
  <2>1. UNCHANGED <<topology, phase, asked, ready, control, made, dropped, local, working,
                    shutdown, results, idle, exitSeen, telemetry, stuck, crashes>>
    BY <1>11 DEF CompleteFails, Fail, RetireSource, owner, fifo, worker, dispatch, tele
  <2>2. TypePc' /\ pc'[Model] = pc[Model]
    <3>1. s \in Procs /\ s # Model /\ "exit" \in CapturePlaces
      BY ProcessNames DEF CapturePlaces
    <3>2. Goto(s, "exit")
      BY <1>11 DEF CompleteFails, Fail
    <3> QED
      BY <1>1, <3>1, <3>2, GotoMoves, ProcessNames
  <2>3. TypeEvents'
    <3>1. made[s] \in 0..Chunks /\ 0 \in 0..Chunks
      BY <1>1, ProcessNames DEF TypeSources
    <3>2. <<Event("fatal", 0), Event("failed", made[s])>> \in Seq(Events)
      BY <3>1, EventKinds
    <3>3. Put(s, <<Event("fatal", 0), Event("failed", made[s])>>)
      BY <1>11 DEF CompleteFails, Fail
    <3>4. outq' \in [Sources -> Seq(Events)]
      BY <1>1, <3>2, <3>3, PutMoves
    <3> QED
      BY <1>1, <2>1, <3>4 DEF TypeEvents
  <2>4. TypeModel' /\ RetireSource(s) /\ Shared
    <3>1. RetireSource(s) /\ Shared
      BY <1>11 DEF CompleteFails, Fail
    <3> QED
      BY <1>1, <2>1, <3>1, RetireMoves DEF TypeModel
  <2>5. HandInv'
    BY <1>1, <2>1, <2>2, <2>4 DEF HandInv, Shared
  <2>6. TypePhase' /\ TypeReady' /\ TypeSources' /\ TypeRest'
    BY <1>1, <2>1 DEF TypePhase, TypeReady, TypeSources, TypeRest, Shared
  <2> QED
    BY <2>2, <2>3, <2>4, <2>5, <2>6
<1>12. ASSUME NEW s \in Sources, AnswerLocal(s) PROVE Goal
  <2>1. UNCHANGED <<topology, phase, asked, pc, ready, control, made, dropped, inq, modelEv,
                    retired, working, shutdown, results, idle, exitSeen, crashes>>
    BY <1>12 DEF AnswerLocal, PutTelemetry, owner, fifo, worker, dispatch, tele
  <2>2. local[s] \in 1..Chunks /\ local[s] <= made[s] /\ made[s] \in 0..Chunks /\ ~Shared
    <3>1. local[s] \in 0..Chunks /\ made[s] \in 0..Chunks /\ local[s] > 0 /\ ~Shared
      BY <1>1, <1>12 DEF TypeSources, AnswerLocal
    <3> QED
      BY <1>1, <3>1, ProcessNames DEF TypeSources
  <2>3. TypeSources'
    <3>1. local' = [local EXCEPT ![s] = @ - 1] /\ local[s] - 1 \in 0..Chunks
      BY <1>12, <2>2, ProcessNames DEF AnswerLocal
    <3>2. local' \in [Sources -> 0..Chunks] /\ \A o \in Sources : local'[o] <= local[o]
      <4>1. local \in [Sources -> 0..Chunks]
        BY <1>1 DEF TypeSources
      <4>2. \A o \in Sources : local'[o] = IF o = s THEN local[o] - 1 ELSE local[o]
        BY <3>1, <4>1
      <4>3. \A o \in Sources : local[o] \in Nat
        BY <4>1, ProcessNames
      <4>4. local' \in [Sources -> 0..Chunks]
        BY <3>1, <4>1
      <4> QED
        BY <4>2, <4>3, <4>4
    <3>3. \A o \in Sources : local'[o] \in Nat /\ local[o] \in Nat /\ made[o] \in Nat /\ local[o] <= made[o]
      BY <1>1, <2>2, <3>2, ProcessNames DEF TypeSources
    <3>4. \A o \in Sources : local'[o] <= made[o]
      BY <3>2, <3>3
    <3> QED
      BY <1>1, <2>1, <2>2, <3>2, <3>4 DEF TypeSources, Shared
  <2>4. TypeEvents'
    <3>1. made[s] - local[s] + 1 \in 0..Chunks
      BY <2>2, ProcessNames
    <3>2. <<Event("answer", made[s] - local[s] + 1)>> \in Seq(Events)
      BY <3>1, EventKinds
    <3>3. Put(s, <<Event("answer", made[s] - local[s] + 1)>>)
      BY <1>12 DEF AnswerLocal
    <3> QED
      BY <1>1, <2>1, <3>2, <3>3, PutMoves DEF TypeEvents
  <2>5. TypeRest'
    <3>1. PutTelemetry(s) /\ s \in Procs
      BY <1>12, ProcessNames DEF AnswerLocal
    <3> QED
      BY <1>1, <2>1, <3>1, TelemetryMoves DEF TypeRest
  <2>6. TypePhase' /\ TypePc' /\ TypeReady' /\ TypeModel' /\ HandInv'
    BY <1>1, <2>1 DEF TypePhase, TypePc, TypeReady, TypeModel, HandInv, Shared
  <2> QED
    BY <2>2, <2>3, <2>4, <2>5, <2>6
<1>13. ASSUME NEW s \in Sources, CaptureRaises(s) PROVE Goal
  <2>1. UNCHANGED <<topology, phase, asked, ready, control, made, dropped, local, inq, modelEv,
                    retired, working, shutdown, results, idle, exitSeen, telemetry, stuck,
                    crashes>>
    BY <1>13 DEF CaptureRaises, owner, fifo, worker, dispatch, tele
  <2>2. TypePc' /\ pc'[Model] = pc[Model]
    <3>1. s \in Procs /\ s # Model /\ "exit" \in CapturePlaces
      BY ProcessNames DEF CapturePlaces
    <3>2. Goto(s, "exit")
      BY <1>13 DEF CaptureRaises
    <3> QED
      BY <1>1, <3>1, <3>2, GotoMoves, ProcessNames
  <2>3. HandInv'
    BY <1>1, <2>1, <2>2 DEF HandInv, Shared
  <2>4. TypeEvents'
    <3>1. <<Event("fatal", 0), Event("failed", 0)>> \in Seq(Events)
      BY ProcessNames, EventKinds
    <3>2. Put(s, <<Event("fatal", 0), Event("failed", 0)>>)
      BY <1>13 DEF CaptureRaises
    <3> QED
      BY <1>1, <2>1, <3>1, <3>2, PutMoves DEF TypeEvents
  <2>5. TypePhase' /\ TypeReady' /\ TypeSources' /\ TypeModel' /\ TypeRest'
    BY <1>1, <2>1 DEF TypePhase, TypeReady, TypeSources, TypeModel, TypeRest, Shared
  <2> QED
    BY <2>2, <2>3, <2>4, <2>5
<1>14. ASSUME NEW p \in Procs, Exit(p) PROVE Goal
  <2>1. UNCHANGED <<topology, phase, asked, ready, control, made, dropped, local, inq, modelEv,
                    retired, working, shutdown, outq, results, idle, exitSeen, telemetry, stuck,
                    crashes>>
    BY <1>14 DEF Exit, owner, fifo, worker, dispatch, tele
  <2>2. TypePc' /\ (pc'[Model] = pc[Model] \/ pc'[Model] = "clean")
    <3>1. Goto(p, "clean")
      BY <1>14 DEF Exit
    <3>2. "clean" \in CapturePlaces /\ "clean" \in ModelPlaces
      BY DEF CapturePlaces, ModelPlaces
    <3> QED
      BY <1>1, <3>1, <3>2, GotoMoves, ProcessNames
  <2>3. HandInv'
    <3>1. ~Shared => pc'[Model] = "none"
      <4>1. Goto(p, "clean") /\ pc[p] = "exit"
        BY <1>14 DEF Exit
      <4>2. "clean" \in CapturePlaces /\ "clean" \in ModelPlaces
        BY DEF CapturePlaces, ModelPlaces
      <4>3. p # Model => pc'[Model] = pc[Model]
        BY <1>1, <4>1, <4>2, GotoMoves, ProcessNames
      <4> QED
        BY <1>1, <4>1, <4>3 DEF HandInv
    <3> QED
      BY <1>1, <2>1, <2>2, <3>1 DEF HandInv, Shared
  <2>4. TypePhase' /\ TypeReady' /\ TypeSources' /\ TypeEvents' /\ TypeModel' /\ TypeRest'
    BY <1>1, <2>1 DEF TypePhase, TypeReady, TypeSources, TypeEvents, TypeModel, TypeRest, Shared
  <2> QED
    BY <2>2, <2>3, <2>4
<1>15. ASSUME NEW p \in Procs, Crash(p) PROVE Goal
  <2>1. UNCHANGED <<topology, phase, asked, ready, control, made, dropped, local, inq, modelEv,
                    retired, working, shutdown, results, idle, exitSeen, telemetry, stuck>>
    BY <1>15 DEF Crash, Alive, owner, fifo, worker, dispatch, tele
  <2>2. TypePc' /\ (pc'[Model] = pc[Model] \/ (pc'[Model] = "crashed" /\ Alive(Model)))
    <3>1. Goto(p, "crashed") /\ Alive(p)
      BY <1>15 DEF Crash
    <3>2. "crashed" \in CapturePlaces /\ "crashed" \in ModelPlaces
      BY DEF CapturePlaces, ModelPlaces
    <3> QED
      BY <1>1, <3>1, <3>2, GotoMoves, ProcessNames
  <2>3. HandInv'
    BY <1>1, <2>1, <2>2 DEF HandInv, Shared, Alive
  <2>4. TypeEvents'
    <3>1. CASE p = Model
      BY <1>1, <1>15, <2>1, <3>1 DEF Crash, TypeEvents
    <3>2. CASE p # Model
      <4>1. p \in Sources /\ outq \in [Sources -> Seq(Events)] /\ outq[p] \in Seq(Events)
        BY <1>1, <3>2, ProcessNames DEF TypeEvents
      <4>2. PICK n \in 0..Len(outq[p]) : outq' = [outq EXCEPT ![p] = SubSeq(@, 1, n)]
        BY <1>15, <3>2 DEF Crash
      <4>3. SubSeq(outq[p], 1, n) \in Seq(Events)
        BY <4>1, EventsPrefix
      <4>4. outq' \in [Sources -> Seq(Events)]
        BY <4>1, <4>2, <4>3
      <4> QED
        BY <1>1, <2>1, <4>4 DEF TypeEvents
    <3> QED
      BY <3>1, <3>2
  <2>5. TypeRest'
    BY <1>1, <1>15, <2>1, ProcessNames DEF TypeRest, Crash
  <2>6. TypePhase' /\ TypeReady' /\ TypeSources' /\ TypeModel'
    BY <1>1, <2>1 DEF TypePhase, TypeReady, TypeSources, TypeModel, Shared
  <2> QED
    BY <2>2, <2>3, <2>4, <2>5, <2>6
<1>16. ASSUME NEW s \in Sources, CollectReady(s) PROVE Goal
  <2>1. UNCHANGED <<topology, asked, pc, made, dropped, local, inq, modelEv, retired, working,
                    shutdown, outq, results, idle, exitSeen, telemetry, stuck, crashes>>
    BY <1>16 DEF CollectReady, owner, fifo, worker, dispatch, tele
  <2>2. TypePhase'
    BY <1>1, <1>16, <2>1 DEF TypePhase, CollectReady
  <2>3. TypeReady'
    <3>1. ready' \in [Procs -> {"none", "ok", "error", "read"}]
      BY <1>1, <1>16, ProcessNames DEF TypeReady, CollectReady
    <3>2. control' = control \/ control' = [o \in Sources |-> <<"start">>]
      BY <1>16 DEF CollectReady
    <3>3. <<"start">> \in Seq({"start", "stop"})
      OBVIOUS
    <3> QED
      BY <1>1, <3>1, <3>2, <3>3 DEF TypeReady
  <2>4. TypePc' /\ TypeSources' /\ TypeEvents' /\ TypeModel' /\ TypeRest' /\ HandInv'
    BY <1>1, <2>1 DEF TypePc, TypeSources, TypeEvents, TypeModel, TypeRest, HandInv, Shared
  <2> QED
    BY <2>2, <2>3, <2>4
<1>17. ASSUME NEW loaded \in BOOLEAN, ModelLoads(loaded) PROVE Goal
  <2>1. UNCHANGED <<topology, phase, asked, control, made, dropped, local, inq, modelEv,
                    retired, working, shutdown, outq, results, idle, exitSeen, telemetry, stuck,
                    crashes>>
    BY <1>17 DEF ModelLoads, owner, fifo, worker, dispatch, tele
  <2>2. TypePc' /\ pc'[Model] = (IF loaded THEN "loop" ELSE "clean")
    <3>1. Model \in Procs /\ (IF loaded THEN "loop" ELSE "clean") \in ModelPlaces
      BY ProcessNames DEF ModelPlaces
    <3>2. Goto(Model, (IF loaded THEN "loop" ELSE "clean"))
      BY <1>17 DEF ModelLoads
    <3> QED
      BY <1>1, <3>1, <3>2, GotoMoves, ProcessNames
  <2>3. HandInv'
    <3>1. pc[Model] = "loading"
      BY <1>17 DEF ModelLoads
    <3> QED
      BY <1>1, <2>1, <2>2, <3>1 DEF HandInv, Shared
  <2>4. TypeReady'
    BY <1>1, <1>17, <2>1, ProcessNames DEF TypeReady, ModelLoads
  <2>5. TypePhase' /\ TypeSources' /\ TypeEvents' /\ TypeModel' /\ TypeRest'
    BY <1>1, <2>1 DEF TypePhase, TypeSources, TypeEvents, TypeModel, TypeRest, Shared
  <2> QED
    BY <2>2, <2>3, <2>4, <2>5
<1>18. ASSUME ApplyShutdown PROVE Goal
  <2>1. UNCHANGED <<topology, phase, asked, ready, control, made, dropped, local, inq, modelEv,
                    retired, working, shutdown, outq, results, idle, exitSeen, telemetry, stuck,
                    crashes>>
    BY <1>18 DEF ApplyShutdown, owner, fifo, worker, dispatch, tele
  <2>2. TypePc' /\ pc'[Model] = "exit"
    <3>1. Model \in Procs /\ "exit" \in ModelPlaces
      BY ProcessNames DEF ModelPlaces
    <3>2. Goto(Model, "exit")
      BY <1>18 DEF ApplyShutdown
    <3> QED
      BY <1>1, <3>1, <3>2, GotoMoves, ProcessNames
  <2>3. HandInv'
    <3>1. pc[Model] = "loop"
      BY <1>18 DEF ApplyShutdown
    <3> QED
      BY <1>1, <2>1, <2>2, <3>1 DEF HandInv, Shared
  <2>4. TypePhase' /\ TypeReady' /\ TypeSources' /\ TypeEvents' /\ TypeModel' /\ TypeRest'
    BY <1>1, <2>1 DEF TypePhase, TypeReady, TypeSources, TypeEvents, TypeModel, TypeRest, Shared
  <2> QED
    BY <2>2, <2>3, <2>4
<1>19. ASSUME GetItem PROVE Goal
  <2>1. UNCHANGED <<topology, phase, asked, ready, control, made, dropped, local, shutdown,
                    outq, results, idle, exitSeen, telemetry, stuck, crashes>>
    BY <1>19 DEF GetItem, PublishModelEvent, owner, fifo, worker, dispatch, tele
  <2>2. Head(inq) \in Items /\ Tail(inq) \in Seq(Items) /\ Len(Tail(inq)) <= Capacity /\ inq' = Tail(inq)
    <3>1. inq \in Seq(Items) /\ Len(inq) <= Capacity /\ inq # <<>> /\ inq' = Tail(inq)
      BY <1>1, <1>19 DEF TypeModel, GetItem
    <3>2. Head(inq) \in Items /\ Tail(inq) \in Seq(Items) /\ Len(Tail(inq)) = Len(inq) - 1 /\ Len(inq) \in Nat
      BY <3>1
    <3> QED
      BY <3>1, <3>2, ProcessNames
  <2>3. TypePc' /\ TypeModel' /\ HandInv'
    <3>1. pc[Model] = "loop" /\ Shared
      BY <1>1, <1>19 DEF GetItem, HandInv
    <3>2. CASE Head(inq).kind = "complete"
      <4>1. [Head(inq) EXCEPT !.kind = "stopped"] \in ModelEvents
        BY <2>2 DEF Items, ModelEvents
      <4>2. PublishModelEvent([Head(inq) EXCEPT !.kind = "stopped"]) /\ UNCHANGED <<pc, working>>
        BY <1>19, <3>2 DEF GetItem
      <4>3. modelEv' \in Seq(ModelEvents) /\ retired' \subseteq Sources
        BY <1>1, <4>1, <4>2, PublishMoves
      <4> QED
        BY <1>1, <2>1, <2>2, <3>1, <4>2, <4>3 DEF TypePc, TypeModel, HandInv, Shared
    <3>3. CASE Head(inq).kind # "complete"
      <4>1. working' = Head(inq) /\ Goto(Model, "answer") /\ UNCHANGED <<modelEv, retired>>
        BY <1>19, <3>3 DEF GetItem
      <4>2. Model \in Procs /\ "answer" \in ModelPlaces
        BY ProcessNames DEF ModelPlaces
      <4>3. TypePc' /\ pc'[Model] = "answer"
        BY <1>1, <4>1, <4>2, GotoMoves
      <4>4. working'.kind = "chunk" /\ working' \in Items /\ working' # NoItem
        BY <2>2, <3>3, <4>1, ProcessNames DEF Items
      <4> QED
        BY <1>1, <2>1, <2>2, <3>1, <4>1, <4>3, <4>4 DEF TypeModel, HandInv, Shared
    <3> QED
      BY <3>2, <3>3
  <2>4. TypePhase' /\ TypeReady' /\ TypeSources' /\ TypeEvents' /\ TypeRest'
    BY <1>1, <2>1 DEF TypePhase, TypeReady, TypeSources, TypeEvents, TypeRest, Shared
  <2> QED
    BY <2>2, <2>3, <2>4
<1>20. ASSUME PublishAnswer PROVE Goal
  <2>1. UNCHANGED <<topology, phase, asked, ready, control, made, dropped, local, inq, shutdown,
                    outq, results, idle, exitSeen, crashes>>
    BY <1>20 DEF PublishAnswer, PublishModelEvent, PutTelemetry, owner, fifo, worker, dispatch,
           tele
  <2>2. TypePc' /\ pc'[Model] = "loop"
    <3>1. Model \in Procs /\ "loop" \in ModelPlaces
      BY ProcessNames DEF ModelPlaces
    <3>2. Goto(Model, "loop")
      BY <1>20 DEF PublishAnswer
    <3> QED
      BY <1>1, <3>1, <3>2, GotoMoves, ProcessNames
  <2>3. TypeModel' /\ working' = NoItem /\ Shared
    <3>1. pc[Model] = "answer" /\ PublishModelEvent([working EXCEPT !.kind = "answer"]) /\ working' = NoItem
      BY <1>20 DEF PublishAnswer
    <3>2. working \in Items /\ Shared
      BY <1>1, <3>1 DEF HandInv, TypeModel
    <3>3. [working EXCEPT !.kind = "answer"] \in ModelEvents
      BY <3>2 DEF Items, ModelEvents
    <3>4. modelEv' \in Seq(ModelEvents) /\ retired' \subseteq Sources
      BY <1>1, <3>1, <3>3, PublishMoves
    <3> QED
      BY <1>1, <2>1, <3>1, <3>2, <3>4 DEF TypeModel
  <2>4. TypeRest'
    <3>1. PutTelemetry(Model) /\ Model \in Procs
      BY <1>20, ProcessNames DEF PublishAnswer
    <3> QED
      BY <1>1, <2>1, <3>1, TelemetryMoves DEF TypeRest
  <2>5. HandInv'
    BY <2>1, <2>2, <2>3, ProcessNames DEF HandInv, Shared
  <2>6. TypePhase' /\ TypeReady' /\ TypeSources' /\ TypeEvents'
    BY <1>1, <2>1 DEF TypePhase, TypeReady, TypeSources, TypeEvents, Shared
  <2> QED
    BY <2>2, <2>3, <2>4, <2>5, <2>6
<1>21. ASSUME DispatchEvent PROVE Goal
  <2>1. UNCHANGED <<topology, phase, asked, pc, ready, control, made, dropped, local, inq,
                    retired, working, shutdown, telemetry, stuck, crashes>>
    BY <1>21 DEF DispatchEvent, Look, Deliver, ExitCounts, owner, fifo, worker, dispatch, tele
  <2>2. TypeEvents' /\ modelEv' \in Seq(ModelEvents) /\ (modelEv = <<>> => modelEv' = modelEv)
    <3>1. CASE modelEv # <<>>
      <4> DEFINE h == Head(modelEv)
      <4>1. /\ h \in ModelEvents /\ Tail(modelEv) \in Seq(ModelEvents)
            /\ Deliver(<<Event(h.kind, h.chunk)>>, h.source)
            /\ modelEv' = Tail(modelEv) /\ outq' = outq
        <5>1. modelEv \in Seq(ModelEvents)
          BY <1>1 DEF TypeModel
        <5>2. h \in ModelEvents /\ Tail(modelEv) \in Seq(ModelEvents)
          BY <3>1, <5>1
        <5> QED
          BY <1>21, <3>1, <5>2 DEF DispatchEvent
      <4> HIDE DEF h
      <4>2. h.source \in Sources /\ <<Event(h.kind, h.chunk)>> \in Seq(Events)
        <5>1. h.source \in Sources /\ h.kind \in {"answer", "stopped"} /\ h.chunk \in 0..Chunks
          BY <4>1 DEF ModelEvents
        <5> QED
          BY <5>1, EventKinds
      <4>3. results' \in [Sources -> Seq(Events)]
        BY <1>1, <4>1, <4>2, DeliverMoves
      <4> QED
        BY <1>1, <3>1, <4>1, <4>3 DEF TypeEvents
    <3>2. CASE modelEv = <<>>
      <4>1. PICK s \in Sources : /\ outq[s] # <<>> /\ Deliver(<<Head(outq[s])>>, s)
                                 /\ outq' = [outq EXCEPT ![s] = Tail(@)] /\ modelEv' = modelEv
        BY <1>21, <3>2 DEF DispatchEvent
      <4>2. outq \in [Sources -> Seq(Events)] /\ outq[s] \in Seq(Events)
        BY <1>1 DEF TypeEvents
      <4>3. Head(outq[s]) \in Events /\ Tail(outq[s]) \in Seq(Events) /\ <<Head(outq[s])>> \in Seq(Events)
        BY <4>1, <4>2
      <4>4. results' \in [Sources -> Seq(Events)]
        BY <1>1, <4>1, <4>3, DeliverMoves
      <4>5. outq' \in [Sources -> Seq(Events)]
        BY <4>1, <4>2, <4>3
      <4> QED
        BY <1>1, <3>2, <4>1, <4>4, <4>5 DEF TypeEvents, TypeModel
    <3> QED
      BY <3>1, <3>2
  <2>3. TypeModel'
    BY <1>1, <2>1, <2>2 DEF TypeModel
  <2>4. HandInv'
    BY <1>1, <2>1, <2>2 DEF HandInv, Shared
  <2>5. TypeRest'
    BY <1>1, <1>21, <2>1 DEF TypeRest, DispatchEvent, Look
  <2>6. TypePhase' /\ TypePc' /\ TypeReady' /\ TypeSources'
    BY <1>1, <2>1 DEF TypePhase, TypePc, TypeReady, TypeSources, Shared
  <2> QED
    BY <2>2, <2>3, <2>4, <2>5, <2>6
<1>22. ASSUME DispatchIdle PROVE Goal
  <2>1. UNCHANGED <<topology, phase, asked, pc, ready, control, made, dropped, local, inq,
                    modelEv, retired, working, shutdown, outq, results, telemetry, stuck,
                    crashes>>
    BY <1>22 DEF DispatchIdle, Look, ExitCounts, owner, fifo, worker, dispatch, tele
  <2>2. TypeRest'
    BY <1>1, <1>22, <2>1 DEF TypeRest, DispatchIdle, Look
  <2>3. TypePhase' /\ TypePc' /\ TypeReady' /\ TypeSources' /\ TypeEvents' /\ TypeModel' /\ HandInv'
    BY <1>1, <2>1 DEF TypePhase, TypePc, TypeReady, TypeSources, TypeEvents, TypeModel, HandInv,
           Shared
  <2> QED
    BY <2>2, <2>3
<1>23. ASSUME NEW s \in Sources, DispatchExited(s) PROVE Goal
  <2>1. UNCHANGED <<topology, phase, asked, pc, ready, control, made, dropped, local, inq,
                    modelEv, retired, working, shutdown, outq, idle, telemetry, stuck, crashes>>
    BY <1>23 DEF DispatchExited, Deliver, owner, fifo, worker, dispatch, tele
  <2>2. TypeEvents'
    <3>1. <<Event("exited", 0), Event("failed", 0)>> \in Seq(Events)
      BY ProcessNames, EventKinds
    <3>2. Deliver(<<Event("exited", 0), Event("failed", 0)>>, s)
      BY <1>23 DEF DispatchExited
    <3>3. results' \in [Sources -> Seq(Events)]
      BY <1>1, <3>1, <3>2, DeliverMoves
    <3> QED
      BY <1>1, <2>1, <3>3 DEF TypeEvents
  <2>3. TypeRest'
    BY <1>1, <1>23, <2>1 DEF TypeRest, DispatchExited
  <2>4. TypePhase' /\ TypePc' /\ TypeReady' /\ TypeSources' /\ TypeModel' /\ HandInv'
    BY <1>1, <2>1 DEF TypePhase, TypePc, TypeReady, TypeSources, TypeModel, HandInv, Shared
  <2> QED
    BY <2>2, <2>3, <2>4
<1>24. ASSUME ModelReady PROVE Goal
  <2>1. UNCHANGED <<topology, asked, control, made, dropped, local, inq, modelEv, retired,
                    working, shutdown, outq, results, idle, exitSeen, telemetry, stuck, crashes>>
    BY <1>24 DEF ModelReady, owner, fifo, worker, dispatch, tele
  <2>2. TypePhase'
    BY <1>1, <1>24, <2>1 DEF TypePhase, ModelReady
  <2>3. TypePc' /\ pc'[Model] = pc[Model]
    <3>1. pc' = [p \in Procs |-> IF p = Model THEN pc[p] ELSE "starting"]
      BY <1>24 DEF ModelReady
    <3>2. pc'[Model] = pc[Model] /\ \A s \in Sources : pc'[s] = "starting"
      BY <3>1, ProcessNames
    <3>3. \A p \in Procs : (IF p = Model THEN pc[p] ELSE "starting") \in CapturePlaces \cup ModelPlaces
      BY <1>1 DEF TypePc, CapturePlaces
    <3>4. pc' \in [Procs -> CapturePlaces \cup ModelPlaces]
      BY <3>1, <3>3
    <3> QED
      BY <1>1, <3>2, <3>4 DEF TypePc, CapturePlaces
  <2>4. HandInv'
    BY <1>1, <2>1, <2>3 DEF HandInv, Shared
  <2>5. TypeReady'
    BY <1>1, <1>24, <2>1, ProcessNames DEF TypeReady, ModelReady
  <2>6. TypeSources' /\ TypeEvents' /\ TypeModel' /\ TypeRest'
    BY <1>1, <2>1 DEF TypeSources, TypeEvents, TypeModel, TypeRest, Shared
  <2> QED
    BY <2>2, <2>3, <2>4, <2>5, <2>6
<1>25. ASSUME StartFails PROVE Goal
  <2>1. UNCHANGED <<topology, asked, ready, control, made, dropped, local, inq, modelEv,
                    retired, working, shutdown, outq, results, idle, exitSeen, telemetry, stuck,
                    crashes>>
    BY <1>25 DEF StartFails, TerminateAll, owner, fifo, worker, dispatch, tele
  <2>2. TypePhase'
    BY <1>1, <1>25, <2>1 DEF TypePhase, StartFails
  <2>3. TypePc' /\ pc'[Model] = (IF Alive(Model) THEN "crashed" ELSE pc[Model])
    <3>1. TerminateAll
      BY <1>25 DEF StartFails
    <3> QED
      BY <1>1, <3>1, TerminateMoves, ProcessNames
  <2>4. HandInv'
    BY <1>1, <2>1, <2>3 DEF HandInv, Shared, Alive
  <2>5. TypeReady' /\ TypeSources' /\ TypeEvents' /\ TypeModel' /\ TypeRest'
    BY <1>1, <2>1 DEF TypeReady, TypeSources, TypeEvents, TypeModel, TypeRest, Shared
  <2> QED
    BY <2>2, <2>3, <2>4, <2>5
<1>26. ASSUME StopSession PROVE Goal
  <2>1. UNCHANGED <<topology, pc, ready, made, dropped, local, inq, modelEv, retired, working,
                    shutdown, outq, results, idle, exitSeen, telemetry, stuck, crashes>>
    BY <1>26 DEF StopSession, owner, fifo, worker, dispatch, tele
  <2>2. TypePhase'
    <3>1. asked < Len(Sessions) /\ asked' = asked + 1 /\ phase' = "stopping"
      BY <1>26 DEF StopSession
    <3> QED
      BY <1>1, <2>1, <3>1, SessionPlaces DEF TypePhase
  <2>3. TypeReady'
    <3>1. asked < Len(Sessions) /\ asked \in 0..Len(Sessions)
      BY <1>1, <1>26 DEF StopSession, TypePhase
    <3>2. Sessions[asked + 1] \in Sources
      BY <3>1, SessionPlaces
    <3>3. control' = [control EXCEPT ![Sessions[asked + 1]] = Append(@, "stop")] \/ control' = control
      BY <1>26 DEF StopSession
    <3>4. Append(control[Sessions[asked + 1]], "stop") \in Seq({"start", "stop"})
      BY <1>1, <3>2 DEF TypeReady
    <3>5. control' \in [Sources -> Seq({"start", "stop"})]
      BY <1>1, <3>2, <3>3, <3>4 DEF TypeReady
    <3> QED
      BY <1>1, <2>1, <3>5 DEF TypeReady
  <2>4. TypePc' /\ TypeSources' /\ TypeEvents' /\ TypeModel' /\ TypeRest' /\ HandInv'
    BY <1>1, <2>1 DEF TypePc, TypeSources, TypeEvents, TypeModel, TypeRest, HandInv, Shared
  <2> QED
    BY <2>2, <2>3, <2>4
<1>27. ASSUME ShutdownModel PROVE Goal
  <2>1. UNCHANGED <<topology, asked, pc, ready, control, made, dropped, local, inq, modelEv,
                    retired, working, outq, results, idle, exitSeen, telemetry, stuck, crashes>>
    BY <1>27 DEF ShutdownModel, owner, fifo, worker, dispatch, tele
  <2>2. TypePhase'
    BY <1>1, <1>27, <2>1 DEF TypePhase, ShutdownModel
  <2>3. TypeRest'
    <3>1. shutdown' \in BOOLEAN
      BY <1>27 DEF ShutdownModel, Alive
    <3> QED
      BY <1>1, <2>1, <3>1 DEF TypeRest
  <2>4. TypePc' /\ TypeReady' /\ TypeSources' /\ TypeEvents' /\ TypeModel' /\ HandInv'
    BY <1>1, <2>1 DEF TypePc, TypeReady, TypeSources, TypeEvents, TypeModel, HandInv, Shared
  <2> QED
    BY <2>2, <2>3, <2>4
<1>28. ASSUME StopReturns PROVE Goal
  <2>1. UNCHANGED <<topology, asked, pc, ready, control, made, dropped, local, inq, modelEv,
                    retired, working, shutdown, outq, results, idle, exitSeen, telemetry, stuck,
                    crashes>>
    BY <1>28 DEF StopReturns, owner, fifo, worker, dispatch, tele
  <2>2. TypePhase'
    BY <1>1, <1>28, <2>1 DEF TypePhase, StopReturns
  <2>3. TypePc' /\ TypeReady' /\ TypeSources' /\ TypeEvents' /\ TypeModel' /\ TypeRest' /\ HandInv'
    BY <1>1, <2>1 DEF TypePc, TypeReady, TypeSources, TypeEvents, TypeModel, TypeRest, HandInv,
           Shared
  <2> QED
    BY <2>2, <2>3
<1>29. ASSUME Abort PROVE Goal
  <2>1. UNCHANGED <<topology, asked, ready, control, made, dropped, local, inq, modelEv,
                    retired, working, shutdown, outq, results, idle, exitSeen, telemetry, stuck,
                    crashes>>
    BY <1>29 DEF Abort, TerminateAll, owner, fifo, worker, dispatch, tele
  <2>2. TypePhase'
    BY <1>1, <1>29, <2>1 DEF TypePhase, Abort
  <2>3. TypePc' /\ pc'[Model] = (IF Alive(Model) THEN "crashed" ELSE pc[Model])
    <3>1. TerminateAll
      BY <1>29 DEF Abort
    <3> QED
      BY <1>1, <3>1, TerminateMoves, ProcessNames
  <2>4. HandInv'
    BY <1>1, <2>1, <2>3 DEF HandInv, Shared, Alive
  <2>5. TypeReady' /\ TypeSources' /\ TypeEvents' /\ TypeModel' /\ TypeRest'
    BY <1>1, <2>1 DEF TypeReady, TypeSources, TypeEvents, TypeModel, TypeRest, Shared
  <2> QED
    BY <2>2, <2>3, <2>4, <2>5
<1>30. ASSUME Terminated PROVE Goal
  <2>1. UNCHANGED <<topology, phase, asked, pc, ready, control, made, dropped, local, inq,
                    modelEv, retired, working, shutdown, outq, results, idle, exitSeen,
                    telemetry, stuck, crashes>>
    BY <1>30 DEF Terminated, vars, owner, fifo, worker, dispatch, tele
  <2>2. TypePhase' /\ TypePc' /\ TypeReady' /\ TypeSources' /\ TypeEvents' /\ TypeModel' /\ TypeRest' /\ HandInv'
    BY <1>1, <2>1 DEF TypePhase, TypePc, TypeReady, TypeSources, TypeEvents, TypeModel,
           TypeRest, HandInv, Shared
  <2> QED
    BY <2>2
<1> QED
  BY <1>3, <1>4, <1>5, <1>6, <1>7, <1>8, <1>9, <1>10, <1>11, <1>12, <1>13, <1>14, <1>15, <1>16,
     <1>17, <1>18, <1>19, <1>20, <1>21, <1>22, <1>23, <1>24, <1>25, <1>26, <1>27, <1>28, <1>29,
     <1>30
     DEF Next, CaptureWork, ModelWork, Dispatch, Procs

(* The invariant holds at the start.                                        *)
LEMMA BaseStart == Init => BaseInv
<1> SUFFICES ASSUME Init PROVE BaseInv
  OBVIOUS
<1>1. TypePhase
  BY SessionPlaces DEF Init, TypePhase
<1>2. TypePc /\ (pc[Model] = "none" \/ pc[Model] = "loading") /\ (~Shared => pc[Model] = "none")
  <2>1. pc = [p \in Procs |-> IF p = Model
                              THEN IF Shared THEN "loading" ELSE "none"
                              ELSE IF Shared THEN "none" ELSE "starting"]
    BY DEF Init
  <2>2. pc[Model] = IF Shared THEN "loading" ELSE "none"
    BY <2>1, ProcessNames
  <2>3. \A s \in Sources : pc[s] = IF Shared THEN "none" ELSE "starting"
    BY <2>1, ProcessNames
  <2>4. pc \in [Procs -> CapturePlaces \cup ModelPlaces]
    BY <2>1 DEF CapturePlaces, ModelPlaces
  <2> QED
    BY <2>2, <2>3, <2>4 DEF TypePc, CapturePlaces, ModelPlaces
<1>3. TypeReady
  <2>1. <<>> \in Seq({"start", "stop"})
    OBVIOUS
  <2> QED
    BY <2>1 DEF Init, TypeReady
<1>4. TypeSources
  <2>1. made = [s \in Sources |-> 0] /\ local = [s \in Sources |-> 0] /\ dropped = [s \in Sources |-> {}]
    BY DEF Init
  <2> QED
    BY <2>1, ProcessNames DEF TypeSources
<1>5. TypeEvents
  <2>1. <<>> \in Seq(Events)
    OBVIOUS
  <2> QED
    BY <2>1 DEF Init, TypeEvents
<1>6. TypeModel
  BY ProcessNames DEF Init, TypeModel
<1>7. TypeRest
  <2>1. shutdown = FALSE /\ idle = FALSE
    BY DEF Init
  <2>2. exitSeen = {} /\ stuck = {} /\ telemetry = 0 /\ crashes = 0
    BY DEF Init
  <2>3. shutdown \in BOOLEAN /\ idle \in BOOLEAN
    BY <2>1
  <2>4. /\ exitSeen \subseteq Sources /\ stuck \subseteq Procs
        /\ telemetry \in 0..TelemetryRoom /\ crashes \in 0..Crashes
    BY <2>2, ProcessNames
  <2> QED
    BY <2>3, <2>4 DEF TypeRest
<1>8. HandInv
  <2>1. working = NoItem /\ inq = <<>> /\ modelEv = <<>>
    BY DEF Init
  <2> QED
    BY <1>2, <2>1, ProcessNames DEF HandInv
<1> QED
  BY <1>1, <1>2, <1>3, <1>4, <1>5, <1>6, <1>7, <1>8, TypeParts DEF BaseInv

(* The variables keep their types, and the model process holds an item only *)
(* while it answers one.                                                    *)
LEMMA BaseInvariant == Spec => []BaseInv
<1>1. BaseInv /\ [Next]_vars => BaseInv'
  <2> SUFFICES ASSUME BaseInv, [Next]_vars PROVE BaseInv'
    OBVIOUS
  <2>1. CASE Next
    BY <2>1, BaseStep
  <2>2. CASE UNCHANGED vars
    <3>1. /\ TypePhase /\ TypePc /\ TypeReady /\ TypeSources /\ TypeEvents
          /\ TypeModel /\ TypeRest /\ HandInv
      BY TypeParts DEF BaseInv
    <3>2. TypePhase' /\ TypePc' /\ TypeReady' /\ TypeSources' /\ TypeEvents'
      BY <2>2, <3>1 DEF vars, owner, fifo, worker, dispatch, tele, TypePhase, TypePc, TypeReady,
                        TypeSources, TypeEvents, Shared
    <3>3. TypeModel' /\ TypeRest' /\ HandInv'
      BY <2>2, <3>1 DEF vars, owner, fifo, worker, dispatch, tele, TypeModel, TypeRest, HandInv,
                        Shared
    <3> QED
      BY <3>2, <3>3, TypePartsNext DEF BaseInv
  <2> QED
    BY <2>1, <2>2
<1> QED
  BY <1>1, BaseStart, PTL DEF Spec

(* Every variable keeps its type: the FIFO never holds more than its        *)
(* capacity, and no process is in a place it has not.                       *)
THEOREM TypeCorrect == Spec => []TypeOK
<1>1. BaseInv => TypeOK
  BY DEF BaseInv
<1> QED
  BY <1>1, BaseInvariant, PTL

\* No source has begun while its model loads; what reported has begun; and events are
\* dispatched once all have.
StartInv ==
  /\ phase = "model" => Shared /\ \A s \in Sources : pc[s] = "none"
  /\ \A s \in Sources : ready[s] # "none" => pc[s] \notin {"none", "starting"}
  /\ Dispatching => \A s \in Sources : ready[s] = "read"

\* What is over: everything once the group has ended, and before that the sessions that
\* were asked before the last.
OverInv ==
  /\ Ended => \A p \in Procs : ~Alive(p)
  /\ phase \in {"model", "captures", "running"} => asked = 0
  /\ phase = "stopping" => \A i \in 1..(asked - 1) : Stopped(Sessions[i])
  /\ phase \in {"closing", "stopped"} => \A s \in Sources : Stopped(s)

ControlInv == StartInv /\ OverInv

\* A session that got its completed event gets no more.
ResultsKept == \A s \in Sources : Terminal(s) => results'[s] = results[s]

(* So it is with every delivery.                                            *)
LEMMA DeliverKeeps ==
  ASSUME TypeEvents, NEW s \in Sources, NEW events \in Seq(Events), Deliver(events, s)
  PROVE  ResultsKept
BY DeliverMoves DEF ResultsKept

(* The heads of the queues are events to deliver.                           *)
LEMMA HeadsAreEvents ==
  ASSUME TypeEvents, TypeModel
  PROVE  /\ modelEv # <<>> =>
              /\ Head(modelEv) \in ModelEvents /\ Head(modelEv).source \in Sources
              /\ Event(Head(modelEv).kind, Head(modelEv).chunk) \in Events
              /\ <<Event(Head(modelEv).kind, Head(modelEv).chunk)>> \in Seq(Events)
         /\ \A s \in Sources : outq[s] # <<>> =>
              Head(outq[s]) \in Events /\ <<Head(outq[s])>> \in Seq(Events)
<1>1. ASSUME modelEv # <<>>
      PROVE  /\ Head(modelEv) \in ModelEvents /\ Head(modelEv).source \in Sources
             /\ Event(Head(modelEv).kind, Head(modelEv).chunk) \in Events
             /\ <<Event(Head(modelEv).kind, Head(modelEv).chunk)>> \in Seq(Events)
  <2>1. modelEv \in Seq(ModelEvents)
    BY DEF TypeModel
  <2>2. Head(modelEv) \in ModelEvents
    BY <1>1, <2>1
  <2>3. /\ Head(modelEv).source \in Sources /\ Head(modelEv).kind \in {"answer", "stopped"}
        /\ Head(modelEv).chunk \in 0..Chunks
    BY <2>2 DEF ModelEvents
  <2> QED
    BY <2>2, <2>3, EventKinds
<1>2. ASSUME NEW s \in Sources, outq[s] # <<>>
      PROVE  Head(outq[s]) \in Events /\ <<Head(outq[s])>> \in Seq(Events)
  <2>1. outq[s] \in Seq(Events)
    BY DEF TypeEvents
  <2>2. Head(outq[s]) \in Events
    BY <1>2, <2>1
  <2> QED
    BY <2>2
<1> QED
  BY <1>1, <1>2

(* What the dispatcher does delivers at most once to one session.           *)
LEMMA DispatchKeeps ==
  ASSUME BaseInv, Dispatch
  PROVE  ResultsKept
<1>1. TypeEvents /\ TypeModel
  BY TypeParts DEF BaseInv
<1>2. CASE DispatchEvent
  <2>1. CASE modelEv # <<>>
    <3>1. Deliver(<<Event(Head(modelEv).kind, Head(modelEv).chunk)>>, Head(modelEv).source)
      BY <1>2, <2>1 DEF DispatchEvent
    <3> QED
      BY <1>1, <2>1, <3>1, HeadsAreEvents, DeliverKeeps
  <2>2. CASE modelEv = <<>>
    <3>1. PICK s \in Sources : outq[s] # <<>> /\ Deliver(<<Head(outq[s])>>, s)
      BY <1>2, <2>2 DEF DispatchEvent
    <3> QED
      BY <1>1, <3>1, HeadsAreEvents, DeliverKeeps
  <2> QED
    BY <2>1, <2>2
<1>3. CASE DispatchIdle
  BY <1>3 DEF DispatchIdle, ResultsKept
<1>4. ASSUME NEW s \in Sources, DispatchExited(s) PROVE ResultsKept
  <2>1. Deliver(<<Event("exited", 0), Event("failed", 0)>>, s)
    BY <1>4 DEF DispatchExited
  <2>2. <<Event("exited", 0), Event("failed", 0)>> \in Seq(Events)
    BY ProcessNames, EventKinds
  <2> QED
    BY <1>1, <2>1, <2>2, DeliverKeeps
<1> QED
  BY <1>2, <1>3, <1>4 DEF Dispatch

\* Where the processes are and what they reported, as far as the control needs it.
ControlKept ==
  /\ UNCHANGED <<topology, phase, asked>>
  /\ \A s \in Sources : ready'[s] # ready[s] => pc[s] = "starting" /\ pc'[s] # "starting"

(* A session that is over stays over.                                       *)
LEMMA StoppedKept ==
  ASSUME NEW s \in Sources, ResultsKept, pc'[s] = pc[s] \/ Alive(s), Stopped(s)
  PROVE  Stopped(s)'
<1>1. ~Alive(s) /\ Terminal(s)
  BY DEF Stopped
<1>2. results'[s] = results[s] /\ pc'[s] = pc[s]
  BY <1>1 DEF ResultsKept
<1>3. ~Alive(s)'
  BY <1>1, <1>2 DEF Alive
<1>4. Terminal(s)'
  BY <1>1, <1>2 DEF Terminal, LastKind
<1> QED
  BY <1>3, <1>4 DEF Stopped

(* A step of one living process, or of none, keeps the control invariant.   *)
LEMMA ControlOfOne ==
  ASSUME BaseInv, ControlInv, ControlKept, ResultsKept,
         \A p \in Procs : pc'[p] # pc[p] => Alive(p) /\ pc'[p] \notin {"none", "starting"}
  PROVE  ControlInv'
<1>1. /\ phase' = phase /\ asked' = asked /\ (Shared' <=> Shared)
      /\ \A s \in Sources : ready'[s] # ready[s] => pc[s] = "starting" /\ pc'[s] # "starting"
  BY DEF ControlKept, Shared
<1>2. \A s \in Sources : s \in Procs /\ (Stopped(s) => Stopped(s)')
  BY StoppedKept, ProcessNames
<1>3. StartInv'
  <2>1. phase' = "model" => Shared' /\ \A s \in Sources : pc'[s] = "none"
    BY <1>1, <1>2 DEF ControlInv, StartInv, Alive
  <2>2. \A s \in Sources : ready'[s] # "none" => pc'[s] \notin {"none", "starting"}
    BY <1>1, <1>2 DEF ControlInv, StartInv
  <2>3. Dispatching' => \A s \in Sources : ready'[s] = "read"
    BY <1>1 DEF ControlInv, StartInv, Dispatching
  <2> QED
    BY <2>1, <2>2, <2>3 DEF StartInv
<1>4. Ended' => \A p \in Procs : ~Alive(p)'
  BY <1>1 DEF ControlInv, OverInv, Ended, Alive
<1>5. phase' \in {"model", "captures", "running"} => asked' = 0
  BY <1>1 DEF ControlInv, OverInv
<1>6. phase' = "stopping" => \A i \in 1..(asked' - 1) : Stopped(Sessions[i])'
  <2> SUFFICES ASSUME phase' = "stopping", NEW i \in 1..(asked' - 1) PROVE Stopped(Sessions[i])'
    OBVIOUS
  <2>1. asked \in 0..Len(Sessions)
    BY TypeParts DEF BaseInv, TypePhase
  <2>2. i \in 1..(asked - 1) /\ i \in 1..Len(Sessions)
    BY <1>1, <2>1, SessionPlaces
  <2>3. Sessions[i] \in Sources /\ Stopped(Sessions[i])
    BY <1>1, <2>2, SessionPlaces DEF ControlInv, OverInv
  <2> QED
    BY <1>2, <2>3
<1>7. phase' \in {"closing", "stopped"} => \A s \in Sources : Stopped(s)'
  BY <1>1, <1>2 DEF ControlInv, OverInv
<1> QED
  BY <1>3, <1>4, <1>5, <1>6, <1>7 DEF ControlInv, OverInv

(* Where a living process goes nobody else does.                            *)
LEMMA GotoOfOne ==
  ASSUME TypePc, NEW p \in Procs, NEW there, Goto(p, there), Alive(p),
         there \notin {"none", "starting"}
  PROVE  \A o \in Procs : pc'[o] # pc[o] => Alive(o) /\ pc'[o] \notin {"none", "starting"}
BY DEF TypePc, Goto

(* Every step keeps the control invariant.                                  *)
LEMMA ControlStep ==
  ASSUME BaseInv, BaseInv', ControlInv, Next
  PROVE  ControlInv'
<1>1. /\ TypePhase /\ TypePc /\ TypeReady /\ TypeSources /\ TypeEvents
      /\ TypeModel /\ TypeRest /\ HandInv
  BY TypeParts DEF BaseInv
<1>2. \A s \in Sources : s \in Procs /\ s # Model
  BY ProcessNames
<1>3. ASSUME NEW s \in Sources, CaptureReady(s) PROVE ControlInv'
  <2>1. Goto(s, (IF s \in Replays THEN "wait" ELSE "capture"))
    BY <1>3 DEF CaptureReady
  <2>2. Alive(s) /\ s \in Procs
    BY <1>3, <1>2, ProcessNames DEF CaptureReady, Alive
  <2>3. \A o \in Procs : pc'[o] # pc[o] => Alive(o) /\ pc'[o] \notin {"none", "starting"}
    BY <1>1, <2>1, <2>2, GotoOfOne
  <2>4. ControlKept /\ ResultsKept
    <3>1. pc[s] = "starting" /\ pc'[s] # "starting"
      BY <1>1, <1>2, <1>3, <2>1 DEF CaptureReady, Goto, TypePc
    <3>2. \A t \in Sources : t # s => ready'[t] = ready[t]
      BY <1>1, <1>3 DEF CaptureReady, TypeReady
    <3> QED
      BY <1>3, <3>1, <3>2 DEF ControlKept, ResultsKept, CaptureReady, owner, fifo, worker,
             dispatch, tele
  <2> QED
    BY <2>3, <2>4, ControlOfOne
<1>4. ASSUME NEW s \in Sources, CaptureFailsToStart(s) PROVE ControlInv'
  <2>1. Goto(s, "clean")
    BY <1>4 DEF CaptureFailsToStart
  <2>2. Alive(s) /\ s \in Procs
    BY <1>4, <1>2, ProcessNames DEF CaptureFailsToStart, Alive
  <2>3. \A o \in Procs : pc'[o] # pc[o] => Alive(o) /\ pc'[o] \notin {"none", "starting"}
    BY <1>1, <2>1, <2>2, GotoOfOne
  <2>4. ControlKept /\ ResultsKept
    <3>1. pc[s] = "starting" /\ pc'[s] # "starting"
      BY <1>1, <1>2, <1>4, <2>1 DEF CaptureFailsToStart, Goto, TypePc
    <3>2. \A t \in Sources : t # s => ready'[t] = ready[t]
      BY <1>1, <1>4 DEF CaptureFailsToStart, TypeReady
    <3> QED
      BY <1>4, <3>1, <3>2 DEF ControlKept, ResultsKept, CaptureFailsToStart, owner, fifo,
             worker, dispatch, tele
  <2> QED
    BY <2>3, <2>4, ControlOfOne
<1>5. ASSUME NEW s \in Sources, TakeCommand(s) PROVE ControlInv'
  <2>1. Goto(s, (IF Head(control[s]) = "stop" THEN "drain" ELSE "capture"))
    BY <1>5 DEF TakeCommand
  <2>2. Alive(s) /\ s \in Procs
    BY <1>5, <1>2, ProcessNames DEF TakeCommand, Alive
  <2>3. \A o \in Procs : pc'[o] # pc[o] => Alive(o) /\ pc'[o] \notin {"none", "starting"}
    BY <1>1, <2>1, <2>2, GotoOfOne
  <2>4. ControlKept /\ ResultsKept
    BY <1>5 DEF ControlKept, ResultsKept, TakeCommand, owner, fifo, worker, dispatch, tele
  <2> QED
    BY <2>3, <2>4, ControlOfOne
<1>6. ASSUME NEW s \in Sources, SourceEnds(s) PROVE ControlInv'
  <2>1. Goto(s, "drain") \/ Goto(s, "drainErr")
    BY <1>6 DEF SourceEnds
  <2>2. Alive(s) /\ s \in Procs
    BY <1>6, <1>2 DEF SourceEnds, Alive
  <2>3. \A o \in Procs : pc'[o] # pc[o] => Alive(o) /\ pc'[o] \notin {"none", "starting"}
    BY <1>1, <2>1, <2>2, GotoOfOne
  <2>4. ControlKept /\ ResultsKept
    BY <1>6 DEF ControlKept, ResultsKept, SourceEnds, owner, fifo, worker, dispatch, tele
  <2> QED
    BY <2>3, <2>4, ControlOfOne
<1>7. ASSUME NEW s \in Sources, Submit(s) PROVE ControlInv'
  <2>1. ControlKept /\ ResultsKept /\ pc' = pc
    BY <1>7 DEF ControlKept, ResultsKept, Submit, owner, fifo, worker, dispatch, tele
  <2> QED
    BY <2>1, ControlOfOne
<1>8. ASSUME NEW s \in Sources, SubmitDropped(s) PROVE ControlInv'
  <2>1. ControlKept /\ ResultsKept /\ pc' = pc
    BY <1>8 DEF ControlKept, ResultsKept, SubmitDropped, owner, fifo, worker, dispatch, tele
  <2> QED
    BY <2>1, ControlOfOne
<1>9. ASSUME NEW s \in Sources, SubmitFails(s) PROVE ControlInv'
  <2>1. Goto(s, "exit")
    BY <1>9 DEF SubmitFails, MakeChunk, Fail
  <2>2. Alive(s) /\ s \in Procs
    BY <1>9, <1>2, ProcessNames DEF SubmitFails, MakeChunk, Fail, Alive
  <2>3. \A o \in Procs : pc'[o] # pc[o] => Alive(o) /\ pc'[o] \notin {"none", "starting"}
    BY <1>1, <2>1, <2>2, GotoOfOne
  <2>4. ControlKept /\ ResultsKept
    BY <1>9 DEF ControlKept, ResultsKept, SubmitFails, MakeChunk, Fail, owner, fifo, worker,
           dispatch, tele
  <2> QED
    BY <2>3, <2>4, ControlOfOne
<1>10. ASSUME NEW s \in Sources, Complete(s) PROVE ControlInv'
  <2>1. Goto(s, "exit")
    BY <1>10 DEF Complete
  <2>2. Alive(s) /\ s \in Procs
    BY <1>10, <1>2, ProcessNames DEF Complete, Alive
  <2>3. \A o \in Procs : pc'[o] # pc[o] => Alive(o) /\ pc'[o] \notin {"none", "starting"}
    BY <1>1, <2>1, <2>2, GotoOfOne
  <2>4. ControlKept /\ ResultsKept
    BY <1>10 DEF ControlKept, ResultsKept, Complete, owner, fifo, worker, dispatch, tele
  <2> QED
    BY <2>3, <2>4, ControlOfOne
<1>11. ASSUME NEW s \in Sources, CompleteFails(s) PROVE ControlInv'
  <2>1. Goto(s, "exit")
    BY <1>11 DEF CompleteFails, Fail
  <2>2. Alive(s) /\ s \in Procs
    BY <1>11, <1>2, ProcessNames DEF CompleteFails, Fail, Alive
  <2>3. \A o \in Procs : pc'[o] # pc[o] => Alive(o) /\ pc'[o] \notin {"none", "starting"}
    BY <1>1, <2>1, <2>2, GotoOfOne
  <2>4. ControlKept /\ ResultsKept
    BY <1>11 DEF ControlKept, ResultsKept, CompleteFails, Fail, owner, fifo, worker, dispatch,
           tele
  <2> QED
    BY <2>3, <2>4, ControlOfOne
<1>12. ASSUME NEW s \in Sources, AnswerLocal(s) PROVE ControlInv'
  <2>1. ControlKept /\ ResultsKept /\ pc' = pc
    BY <1>12 DEF ControlKept, ResultsKept, AnswerLocal, owner, fifo, worker, dispatch, tele
  <2> QED
    BY <2>1, ControlOfOne
<1>13. ASSUME NEW s \in Sources, CaptureRaises(s) PROVE ControlInv'
  <2>1. Goto(s, "exit")
    BY <1>13 DEF CaptureRaises
  <2>2. Alive(s) /\ s \in Procs
    BY <1>13, <1>2, ProcessNames DEF CaptureRaises, Alive
  <2>3. \A o \in Procs : pc'[o] # pc[o] => Alive(o) /\ pc'[o] \notin {"none", "starting"}
    BY <1>1, <2>1, <2>2, GotoOfOne
  <2>4. ControlKept /\ ResultsKept
    BY <1>13 DEF ControlKept, ResultsKept, CaptureRaises, owner, fifo, worker, dispatch, tele
  <2> QED
    BY <2>3, <2>4, ControlOfOne
<1>14. ASSUME NEW p \in Procs, Exit(p) PROVE ControlInv'
  <2>1. Goto(p, "clean")
    BY <1>14 DEF Exit
  <2>2. Alive(p) /\ p \in Procs
    BY <1>14, <1>2, ProcessNames DEF Exit, Alive
  <2>3. \A o \in Procs : pc'[o] # pc[o] => Alive(o) /\ pc'[o] \notin {"none", "starting"}
    BY <1>1, <2>1, <2>2, GotoOfOne
  <2>4. ControlKept /\ ResultsKept
    BY <1>14 DEF ControlKept, ResultsKept, Exit, owner, fifo, worker, dispatch, tele
  <2> QED
    BY <2>3, <2>4, ControlOfOne
<1>15. ASSUME NEW p \in Procs, Crash(p) PROVE ControlInv'
  <2>1. Goto(p, "crashed")
    BY <1>15 DEF Crash
  <2>2. Alive(p) /\ p \in Procs
    BY <1>15, <1>2, ProcessNames DEF Crash, Alive
  <2>3. \A o \in Procs : pc'[o] # pc[o] => Alive(o) /\ pc'[o] \notin {"none", "starting"}
    BY <1>1, <2>1, <2>2, GotoOfOne
  <2>4. ControlKept /\ ResultsKept
    BY <1>15 DEF ControlKept, ResultsKept, Crash, owner, fifo, worker, dispatch, tele
  <2> QED
    BY <2>3, <2>4, ControlOfOne
<1>16. ASSUME NEW loaded \in BOOLEAN, ModelLoads(loaded) PROVE ControlInv'
  <2>1. Goto(Model, (IF loaded THEN "loop" ELSE "clean"))
    BY <1>16 DEF ModelLoads
  <2>2. Alive(Model) /\ Model \in Procs
    BY <1>16, <1>2, ProcessNames DEF ModelLoads, Alive
  <2>3. \A o \in Procs : pc'[o] # pc[o] => Alive(o) /\ pc'[o] \notin {"none", "starting"}
    BY <1>1, <2>1, <2>2, GotoOfOne
  <2>4. ControlKept /\ ResultsKept
    <3>1. \A s \in Sources : ready'[s] = ready[s]
      BY <1>1, <1>2, <1>16 DEF ModelLoads, TypeReady
    <3> QED
      BY <1>16, <3>1 DEF ControlKept, ResultsKept, ModelLoads, owner, fifo, worker, dispatch,
             tele
  <2> QED
    BY <2>3, <2>4, ControlOfOne
<1>17. ASSUME ApplyShutdown PROVE ControlInv'
  <2>1. Goto(Model, "exit")
    BY <1>17 DEF ApplyShutdown
  <2>2. Alive(Model) /\ Model \in Procs
    BY <1>17, <1>2, ProcessNames DEF ApplyShutdown, Alive
  <2>3. \A o \in Procs : pc'[o] # pc[o] => Alive(o) /\ pc'[o] \notin {"none", "starting"}
    BY <1>1, <2>1, <2>2, GotoOfOne
  <2>4. ControlKept /\ ResultsKept
    BY <1>17 DEF ControlKept, ResultsKept, ApplyShutdown, owner, fifo, worker, dispatch, tele
  <2> QED
    BY <2>3, <2>4, ControlOfOne
<1>18. ASSUME GetItem PROVE ControlInv'
  <2>1. pc' = pc \/ Goto(Model, "answer")
    BY <1>18 DEF GetItem
  <2>2. Alive(Model) /\ Model \in Procs
    BY <1>18, ProcessNames DEF GetItem, Alive
  <2>3. \A o \in Procs : pc'[o] # pc[o] => Alive(o) /\ pc'[o] \notin {"none", "starting"}
    BY <1>1, <2>1, <2>2, GotoOfOne
  <2>4. ControlKept /\ ResultsKept
    BY <1>18 DEF ControlKept, ResultsKept, GetItem, owner, fifo, worker, dispatch, tele
  <2> QED
    BY <2>3, <2>4, ControlOfOne
<1>19. ASSUME PublishAnswer PROVE ControlInv'
  <2>1. Goto(Model, "loop")
    BY <1>19 DEF PublishAnswer
  <2>2. Alive(Model) /\ Model \in Procs
    BY <1>19, <1>2, ProcessNames DEF PublishAnswer, Alive
  <2>3. \A o \in Procs : pc'[o] # pc[o] => Alive(o) /\ pc'[o] \notin {"none", "starting"}
    BY <1>1, <2>1, <2>2, GotoOfOne
  <2>4. ControlKept /\ ResultsKept
    BY <1>19 DEF ControlKept, ResultsKept, PublishAnswer, owner, fifo, worker, dispatch, tele
  <2> QED
    BY <2>3, <2>4, ControlOfOne
<1>20. ASSUME DispatchEvent PROVE ControlInv'
  <2>1. ResultsKept
    BY <1>20, DispatchKeeps DEF Dispatch
  <2>2. ControlKept /\ pc' = pc
    BY <1>20 DEF ControlKept, DispatchEvent, owner, fifo, worker, tele
  <2> QED
    BY <2>1, <2>2, ControlOfOne
<1>21. ASSUME DispatchIdle PROVE ControlInv'
  <2>1. ResultsKept
    BY <1>21, DispatchKeeps DEF Dispatch
  <2>2. ControlKept /\ pc' = pc
    BY <1>21 DEF ControlKept, DispatchIdle, owner, fifo, worker, tele
  <2> QED
    BY <2>1, <2>2, ControlOfOne
<1>22. ASSUME NEW s \in Sources, DispatchExited(s) PROVE ControlInv'
  <2>1. ResultsKept
    BY <1>22, DispatchKeeps DEF Dispatch
  <2>2. ControlKept /\ pc' = pc
    BY <1>22 DEF ControlKept, DispatchExited, owner, fifo, worker, tele
  <2> QED
    BY <2>1, <2>2, ControlOfOne
<1>23. ASSUME Terminated PROVE ControlInv'
  <2>1. ControlKept /\ ResultsKept /\ pc' = pc
    BY <1>23 DEF ControlKept, ResultsKept, Terminated, vars, owner, fifo, worker, dispatch, tele
  <2> QED
    BY <2>1, ControlOfOne
<1>24. ASSUME NEW s \in Sources, CollectReady(s) PROVE ControlInv'
  <2>1. /\ phase = "captures" /\ ready[s] = "ok" /\ UNCHANGED <<topology, asked, pc, results>>
        /\ ready' = [ready EXCEPT ![s] = "read"]
        /\ \/ phase' = "running" /\ \A o \in Sources : ready'[o] = "read"
           \/ phase' = "captures"
    BY <1>24 DEF CollectReady, dispatch
  <2>2. ready'[s] = "read" /\ \A o \in Sources : o # s => ready'[o] = ready[o]
    BY <1>1, <1>2, <2>1 DEF TypeReady
  <2>3. \A o \in Sources : ready'[o] # "none" => pc'[o] \notin {"none", "starting"}
    BY <2>1, <2>2 DEF ControlInv, StartInv
  <2>4. StartInv'
    BY <2>1, <2>3 DEF StartInv, Dispatching
  <2>5. OverInv'
    BY <2>1 DEF ControlInv, OverInv, Ended
  <2> QED
    BY <2>4, <2>5 DEF ControlInv
<1>25. ASSUME ModelReady PROVE ControlInv'
  <2>1. /\ phase = "model" /\ phase' = "captures" /\ UNCHANGED <<topology, asked, results>>
        /\ ready' = [ready EXCEPT ![Model] = "read"]
    BY <1>25 DEF ModelReady, dispatch
  <2>2. \A s \in Sources : ready'[s] = ready[s]
    BY <1>1, <1>2, <2>1 DEF TypeReady
  <2>3. \A s \in Sources : ready'[s] = "none"
    BY <2>1, <2>2 DEF ControlInv, StartInv
  <2> QED
    BY <2>1, <2>3 DEF ControlInv, StartInv, OverInv, Ended, Dispatching
<1>26. ASSUME TerminateAll, phase' \in {"failed", "aborted"}, UNCHANGED ready PROVE ControlInv'
  <2>1. \A p \in Procs : pc'[p] \in {"none", "clean", "crashed"} /\ (pc'[p] = "none" => pc[p] = "none")
    BY <1>1, <1>26, TerminateMoves DEF Alive
  <2>2. \A s \in Sources : ready'[s] # "none" => pc'[s] \notin {"none", "starting"}
    BY <1>2, <1>26, <2>1 DEF ControlInv, StartInv
  <2>3. StartInv'
    BY <1>26, <2>2 DEF StartInv, Dispatching
  <2>4. OverInv'
    BY <1>26, <2>1 DEF OverInv, Alive
  <2> QED
    BY <2>3, <2>4 DEF ControlInv
<1>27. ASSUME StopSession PROVE ControlInv'
  <2>1. /\ phase \in {"running", "stopping"} /\ asked < Len(Sessions) /\ AskedStopped
        /\ phase' = "stopping" /\ asked' = asked + 1
        /\ UNCHANGED <<topology, pc, ready, results>>
    BY <1>27 DEF StopSession, dispatch
  <2>2. StartInv'
    BY <2>1 DEF ControlInv, StartInv, Dispatching
  <2>3. \A i \in 1..(asked' - 1) : Stopped(Sessions[i])'
    <3> SUFFICES ASSUME NEW i \in 1..(asked' - 1) PROVE Stopped(Sessions[i])
      BY <2>1 DEF Stopped, Alive, Terminal, LastKind
    <3>1. i \in 1..asked /\ asked \in 0..Len(Sessions)
      BY <1>1, <2>1, SessionPlaces DEF TypePhase
    <3>2. CASE i = asked
      BY <2>1, <3>1, <3>2 DEF AskedStopped
    <3>3. CASE i # asked
      <4>1. i \in 1..(asked - 1) /\ asked # 0
        BY <3>1, <3>3, SessionPlaces
      <4> QED
        BY <2>1, <4>1 DEF ControlInv, OverInv
    <3> QED
      BY <3>2, <3>3
  <2> QED
    BY <2>1, <2>2, <2>3 DEF ControlInv, OverInv, Ended
<1>28. ASSUME ShutdownModel PROVE ControlInv'
  <2>1. /\ phase = "stopping" /\ asked = Len(Sessions) /\ AskedStopped
        /\ phase' = "closing" /\ UNCHANGED <<topology, asked, pc, ready, results>>
    BY <1>28 DEF ShutdownModel, dispatch
  <2>2. StartInv'
    BY <2>1 DEF ControlInv, StartInv, Dispatching
  <2>3. ASSUME NEW s \in Sources PROVE Stopped(s)
    <3>1. PICK i \in 1..Len(Sessions) : Sessions[i] = s
      BY SessionPlaces
    <3>2. CASE i = asked
      BY <2>1, <3>1, <3>2, SessionPlaces DEF AskedStopped
    <3>3. CASE i # asked
      <4>1. i \in 1..(asked - 1)
        BY <2>1, <3>1, <3>3, SessionPlaces
      <4> QED
        BY <2>1, <3>1, <4>1 DEF ControlInv, OverInv
    <3> QED
      BY <3>2, <3>3
  <2>4. \A s \in Sources : Stopped(s)'
    BY <2>1, <2>3 DEF Stopped, Alive, Terminal, LastKind
  <2> QED
    BY <2>1, <2>2, <2>4 DEF ControlInv, OverInv, Ended
<1>29. ASSUME StopReturns PROVE ControlInv'
  <2>1. /\ phase = "closing" /\ ~Alive(Model)
        /\ phase' = "stopped" /\ UNCHANGED <<topology, asked, pc, ready, results>>
    BY <1>29 DEF StopReturns, dispatch
  <2>2. StartInv'
    BY <2>1 DEF ControlInv, StartInv, Dispatching
  <2>3. \A s \in Sources : Stopped(s)
    BY <2>1 DEF ControlInv, OverInv
  <2>4. \A s \in Sources : Stopped(s)'
    BY <2>1, <2>3 DEF Stopped, Alive, Terminal, LastKind
  <2>5. \A p \in Procs : ~Alive(p)'
    BY <2>1, <2>3, ProcessNames DEF Stopped, Alive
  <2> QED
    BY <2>1, <2>2, <2>4, <2>5 DEF ControlInv, OverInv
<1>30. CASE StartFails
  BY <1>26, <1>30 DEF StartFails
<1>31. CASE Abort
  BY <1>26, <1>31 DEF Abort
<1> QED
  BY <1>3, <1>4, <1>5, <1>6, <1>7, <1>8, <1>9, <1>10, <1>11, <1>12, <1>13, <1>14, <1>15, <1>16,
     <1>17, <1>18, <1>19, <1>20, <1>21, <1>22, <1>23, <1>24, <1>25, <1>27, <1>28, <1>29, <1>30,
     <1>31
     DEF Next, CaptureWork, ModelWork, Dispatch, Procs

(* The control invariant holds at the start.                                *)
LEMMA ControlStart == Init => ControlInv
<1> SUFFICES ASSUME Init PROVE ControlInv
  OBVIOUS
<1>1. /\ phase = (IF Shared THEN "model" ELSE "captures") /\ asked = 0
      /\ \A s \in Sources : ready[s] = "none" /\ pc[s] = IF Shared THEN "none" ELSE "starting"
  BY ProcessNames DEF Init
<1>2. phase \in {"model", "captures"} /\ (phase = "model" => Shared)
  BY <1>1
<1> QED
  BY <1>1, <1>2 DEF ControlInv, StartInv, OverInv, Dispatching, Ended

LEMMA ControlInvariant == Spec => []ControlInv
<1>1. BaseInv /\ BaseInv' /\ ControlInv /\ [Next]_vars => ControlInv'
  <2> SUFFICES ASSUME BaseInv, BaseInv', ControlInv, [Next]_vars PROVE ControlInv'
    OBVIOUS
  <2>1. CASE Next
    BY <2>1, ControlStep
  <2>2. CASE UNCHANGED vars
    <3>1. ControlKept /\ ResultsKept /\ pc' = pc
      BY <2>2 DEF vars, owner, dispatch, ControlKept, ResultsKept
    <3> QED
      BY <3>1, ControlOfOne
  <2> QED
    BY <2>1, <2>2
<1> QED
  BY <1>1, BaseInvariant, ControlStart, PTL DEF Spec

(* Once stop() has returned, an abort is over or a start has failed, no     *)
(* process of the group runs; stop() returns only when every session has    *)
(* had its completed event.                                                 *)
THEOREM EndedMeansOverAlways == Spec => []EndedMeansOver
<1>1. ControlInv => EndedMeansOver
  BY DEF ControlInv, OverInv, EndedMeansOver, Stopped
<1> QED
  BY <1>1, ControlInvariant, PTL

HasKind(q, kinds) == \E i \in 1..Len(q) : q[i].kind \in kinds

\* Why a session may fail: an exit the dispatcher waits on is a crash; where no model is
\* shared, a source that ended has said so; a "failed" on its way follows a fatal error;
\* one that has arrived followed that, or a crash.
IdleInv(s) == idle /\ s \in exitSeen => pc[s] = "crashed"
SaidInv(s) ==
  ~Shared /\ pc[s] \in {"exit", "clean"} /\ ready[s] # "error" =>
    Terminal(s) \/ HasKind(outq[s], {"stopped", "failed"})
FatalFirst(s) ==
  \A i \in 1..Len(outq[s]) : outq[s][i].kind = "failed" =>
    \/ Terminal(s) \/ HasKind(results[s], {"fatal"})
    \/ \E j \in 1..(i - 1) : outq[s][j].kind = "fatal"
FailedInv(s) ==
  LastKind(s) = "failed" =>
    \/ HasKind(results[s], {"fatal"})
    \/ pc[s] = "crashed" /\ HasKind(results[s], {"exited"})
FailInv(s) == IdleInv(s) /\ SaidInv(s) /\ FatalFirst(s) /\ FailedInv(s)

\* A source goes on, or ends in a way that needs no event.
GoesOn(s) ==
  /\ topology' = topology
  /\ pc[s] = "crashed" => pc'[s] = "crashed"
  /\ pc'[s] \in {"exit", "clean"} =>
       ready'[s] = "error" \/ (pc[s] \in {"exit", "clean"} /\ ready[s] # "error")

(* A step that leaves the events of a source alone.                         *)
LEMMA FailOfSame ==
  ASSUME NEW s \in Sources, FailInv(s), GoesOn(s),
         results'[s] = results[s], outq'[s] = outq[s],
         idle' /\ s \in exitSeen' => idle /\ s \in exitSeen
  PROVE  FailInv(s)'
<1>1. (Terminal(s)' <=> Terminal(s)) /\ LastKind(s)' = LastKind(s) /\ (Shared' <=> Shared)
  BY DEF Terminal, LastKind, GoesOn, Shared
<1>2. IdleInv(s)'
  BY DEF FailInv, IdleInv, GoesOn
<1>3. SaidInv(s)'
  BY <1>1 DEF FailInv, SaidInv, GoesOn
<1>4. FatalFirst(s)'
  BY <1>1 DEF FailInv, FatalFirst
<1>5. FailedInv(s)'
  BY <1>1 DEF FailInv, FailedInv, GoesOn
<1> QED
  BY <1>2, <1>3, <1>4, <1>5 DEF FailInv

(* A step that puts one event of a source: no "failed", and its end if the  *)
(* source ends.                                                             *)
LEMMA FailOfPut ==
  ASSUME TypeEvents, NEW s \in Sources, FailInv(s), NEW x \in Events,
         outq'[s] = outq[s] \o <<x>>, x.kind # "failed",
         x.kind = "stopped" \/ Shared \/ GoesOn(s), topology' = topology, pc[s] # "crashed",
         results'[s] = results[s], idle' = idle, exitSeen' = exitSeen
  PROVE  FailInv(s)'
<1> DEFINE q == outq[s]
           w == outq'[s]
<1>1. /\ w \in Seq(Events) /\ Len(w) = Len(q) + 1 /\ Len(q) \in Nat /\ w[Len(w)] = x
      /\ \A i \in 1..Len(q) : w[i] = q[i] /\ i \in 1..Len(w)
      /\ Len(w) \in 1..Len(w) /\ \A i \in 1..Len(w) : i \in 1..Len(q) \/ i = Len(w)
  <2>1. q \in Seq(Events)
    BY DEF TypeEvents
  <2>2. w \in Seq(Events) /\ Len(w) = Len(q) + 1 /\ w[Len(w)] = x /\ \A i \in 1..Len(q) : w[i] = q[i]
    BY <2>1, EventsAppend
  <2>3. Len(q) \in Nat
    BY <2>1
  <2> HIDE DEF w, q
  <2> QED
    BY <2>2, <2>3
<1>2. (Terminal(s)' <=> Terminal(s)) /\ LastKind(s)' = LastKind(s) /\ (Shared' <=> Shared)
  BY DEF Terminal, LastKind, Shared
<1>3. IdleInv(s)'
  BY DEF FailInv, IdleInv
<1>4. \A kinds : HasKind(q, kinds) => HasKind(w, kinds)
  <2> HIDE DEF w, q
  <2> QED
    BY <1>1 DEF HasKind
<1>5. SaidInv(s)'
  <2>1. CASE x.kind = "stopped"
    <3>1. HasKind(w, {"stopped", "failed"})
      <4> HIDE DEF w, q
      <4> QED
        BY <1>1, <2>1 DEF HasKind
    <3> QED
      BY <3>1 DEF SaidInv
  <2>2. CASE Shared
    BY <1>2, <2>2 DEF SaidInv
  <2>3. CASE GoesOn(s)
    BY <1>2, <1>4, <2>3 DEF FailInv, SaidInv, GoesOn
  <2> QED
    BY <2>1, <2>2, <2>3
<1>6. FatalFirst(s)'
  <2> SUFFICES ASSUME NEW i \in 1..Len(w), w[i].kind = "failed"
               PROVE  \/ Terminal(s) \/ HasKind(results[s], {"fatal"})
                      \/ \E j \in 1..(i - 1) : w[j].kind = "fatal"
    BY <1>2 DEF FatalFirst
  <2>0. \/ Terminal(s) \/ HasKind(results[s], {"fatal"})
        \/ ~(i \in 1..Len(q) /\ q[i].kind = "failed")
        \/ \E j \in 1..(i - 1) : q[j].kind = "fatal"
    BY DEF FailInv, FatalFirst
  <2> HIDE DEF w, q
  <2>1. i \in 1..Len(q) /\ w[i] = q[i]
    BY <1>1
  <2>2. \A j \in 1..(i - 1) : w[j] = q[j]
    BY <1>1, <2>1
  <2> QED
    BY <2>0, <2>1, <2>2
<1>7. FailedInv(s)'
  BY <1>2 DEF FailInv, FailedInv
<1> QED
  BY <1>3, <1>5, <1>6, <1>7 DEF FailInv

(* A source that fails puts the reason first.                               *)
LEMMA FailOfFailure ==
  ASSUME TypeEvents, NEW s \in Sources, FailInv(s), NEW x \in Events, NEW y \in Events,
         outq'[s] = outq[s] \o <<x, y>>, x.kind = "fatal", y.kind = "failed",
         topology' = topology, pc[s] # "crashed",
         results'[s] = results[s], idle' = idle, exitSeen' = exitSeen
  PROVE  FailInv(s)'
<1> DEFINE q == outq[s]
           w == outq'[s]
<1>1. /\ w \in Seq(Events) /\ Len(w) = Len(q) + 2 /\ Len(q) \in Nat
      /\ w[Len(w)] = y /\ w[Len(q) + 1] = x
      /\ \A i \in 1..Len(q) : w[i] = q[i]
      /\ \A i \in 1..Len(w) : i \in 1..Len(q) \/ i = Len(q) + 1 \/ i = Len(w)
  <2>1. q \in Seq(Events)
    BY DEF TypeEvents
  <2>2. /\ w \in Seq(Events) /\ Len(w) = Len(q) + 2 /\ w[Len(w)] = y /\ w[Len(q) + 1] = x
        /\ \A i \in 1..Len(q) : w[i] = q[i]
    BY <2>1, EventsAppendTwo
  <2>3. Len(q) \in Nat
    BY <2>1
  <2> HIDE DEF w, q
  <2> QED
    BY <2>2, <2>3
<1>2. (Terminal(s)' <=> Terminal(s)) /\ LastKind(s)' = LastKind(s) /\ (Shared' <=> Shared)
  BY DEF Terminal, LastKind, Shared
<1>3. IdleInv(s)'
  BY DEF FailInv, IdleInv
<1>5. SaidInv(s)'
  <2>1. HasKind(w, {"stopped", "failed"})
    <3> HIDE DEF w, q
    <3> QED
      BY <1>1 DEF HasKind
  <2> QED
    BY <2>1 DEF SaidInv
<1>6. FatalFirst(s)'
  <2> SUFFICES ASSUME NEW i \in 1..Len(w), w[i].kind = "failed"
               PROVE  \/ Terminal(s) \/ HasKind(results[s], {"fatal"})
                      \/ \E j \in 1..(i - 1) : w[j].kind = "fatal"
    BY <1>2 DEF FatalFirst
  <2>0. \/ Terminal(s) \/ HasKind(results[s], {"fatal"})
        \/ ~(i \in 1..Len(q) /\ q[i].kind = "failed")
        \/ \E j \in 1..(i - 1) : q[j].kind = "fatal"
    BY DEF FailInv, FatalFirst
  <2> HIDE DEF w, q
  <2>1. CASE i \in 1..Len(q)
    <3>1. \A j \in 1..(i - 1) : w[j] = q[j]
      BY <1>1, <2>1
    <3> QED
      BY <1>1, <2>0, <2>1, <3>1
  <2>2. CASE i = Len(w)
    <3>1. Len(q) + 1 \in 1..(i - 1) /\ w[Len(q) + 1].kind = "fatal"
      BY <1>1, <2>2
    <3> QED
      BY <3>1
  <2> QED
    BY <1>1, <2>1, <2>2
<1>7. FailedInv(s)'
  BY <1>2 DEF FailInv, FailedInv
<1> QED
  BY <1>3, <1>5, <1>6, <1>7 DEF FailInv

(* A source that dies keeps back its last events.                           *)
LEMMA FailOfCrash ==
  ASSUME TypeEvents, NEW s \in Sources, FailInv(s), NEW n \in 0..Len(outq[s]),
         outq'[s] = SubSeq(outq[s], 1, n), pc'[s] = "crashed",
         topology' = topology, results'[s] = results[s], idle' = idle, exitSeen' = exitSeen
  PROVE  FailInv(s)'
<1> DEFINE q == outq[s]
           w == outq'[s]
<1>1. Len(w) \in Nat /\ Len(q) \in Nat /\ \A i \in 1..Len(w) : w[i] = q[i] /\ i \in 1..Len(q)
  <2>1. q \in Seq(Events)
    BY DEF TypeEvents
  <2>2. w \in Seq(Events) /\ \A i \in 1..Len(w) : w[i] = q[i] /\ i \in 1..Len(q)
    BY <2>1, EventsPrefix
  <2> HIDE DEF w, q
  <2> QED
    BY <2>1, <2>2
<1>2. (Terminal(s)' <=> Terminal(s)) /\ LastKind(s)' = LastKind(s)
  BY DEF Terminal, LastKind
<1>3. IdleInv(s)' /\ SaidInv(s)'
  BY DEF IdleInv, SaidInv
<1>4. FatalFirst(s)'
  <2> SUFFICES ASSUME NEW i \in 1..Len(w), w[i].kind = "failed"
               PROVE  \/ Terminal(s) \/ HasKind(results[s], {"fatal"})
                      \/ \E j \in 1..(i - 1) : w[j].kind = "fatal"
    BY <1>2 DEF FatalFirst
  <2>0. \/ Terminal(s) \/ HasKind(results[s], {"fatal"})
        \/ ~(i \in 1..Len(q) /\ q[i].kind = "failed")
        \/ \E j \in 1..(i - 1) : q[j].kind = "fatal"
    BY DEF FailInv, FatalFirst
  <2> HIDE DEF w, q
  <2>1. \A j \in 1..(i - 1) : w[j] = q[j]
    BY <1>1
  <2> QED
    BY <1>1, <2>0, <2>1
<1>5. FailedInv(s)'
  <2>1. FailedInv(s)
    BY DEF FailInv
  <2> QED
    BY <1>2, <2>1 DEF FailedInv
<1> QED
  BY <1>3, <1>4, <1>5 DEF FailInv

(* What a delivered event is to the session that gets it.                   *)
LEMMA Delivered ==
  ASSUME TypeEvents, NEW s \in Sources, NEW x \in Events, results'[s] = results[s] \o <<x>>
  PROVE  /\ LastKind(s)' = x.kind
         /\ \A kinds : HasKind(results'[s], kinds) <=> HasKind(results[s], kinds) \/ x.kind \in kinds
<1> DEFINE q == results[s]
           w == results'[s]
<1>1. /\ w \in Seq(Events) /\ w # <<>> /\ Len(w) = Len(q) + 1 /\ Len(q) \in Nat /\ w[Len(w)] = x
      /\ \A i \in 1..Len(q) : w[i] = q[i] /\ i \in 1..Len(w)
      /\ Len(w) \in 1..Len(w) /\ \A i \in 1..Len(w) : i \in 1..Len(q) \/ i = Len(w)
  <2>1. q \in Seq(Events)
    BY DEF TypeEvents
  <2>2. /\ w \in Seq(Events) /\ w # <<>> /\ Len(w) = Len(q) + 1 /\ w[Len(w)] = x
        /\ \A i \in 1..Len(q) : w[i] = q[i]
    BY <2>1, EventsAppend
  <2>3. Len(q) \in Nat
    BY <2>1
  <2> HIDE DEF w, q
  <2> QED
    BY <2>2, <2>3
<1>2. LastKind(s)' = IF w = <<>> THEN "none" ELSE w[Len(w)].kind
  BY DEF LastKind
<1> HIDE DEF w, q
<1>3. LastKind(s)' = x.kind
  BY <1>1, <1>2
<1>4. \A kinds : HasKind(w, kinds) <=> HasKind(q, kinds) \/ x.kind \in kinds
  BY <1>1 DEF HasKind
<1> QED
  BY <1>3, <1>4 DEF w, q

(* An event of the model process reaches its session.                       *)
LEMMA FailOfModelEvent ==
  ASSUME TypeEvents, NEW s \in Sources, FailInv(s),
         NEW x \in Events, x.kind \in {"answer", "stopped"}, Deliver(<<x>>, s),
         outq'[s] = outq[s], idle' = FALSE, UNCHANGED <<topology, pc, ready>>
  PROVE  FailInv(s)'
<1>0. <<x>> \in Seq(Events)
  OBVIOUS
<1>1. CASE Terminal(s)
  <2>1. results'[s] = results[s]
    BY <1>0, <1>1, DeliverMoves
  <2>2. GoesOn(s)
    <3>1. SaidInv(s)' <=> SaidInv(s)
      BY <2>1 DEF SaidInv, Shared, Terminal, LastKind
    <3> QED
      BY DEF GoesOn, FailInv, SaidInv
  <2> QED
    BY <2>1, <2>2, FailOfSame
<1>2. CASE ~Terminal(s)
  <2>1. results'[s] = results[s] \o <<x>>
    BY <1>0, <1>2, DeliverMoves
  <2>2. /\ LastKind(s)' = x.kind
        /\ HasKind(results[s], {"fatal"}) => HasKind(results'[s], {"fatal"})
    BY <2>1, Delivered
  <2>3. IdleInv(s)' /\ FailedInv(s)'
    BY <2>2 DEF IdleInv, FailedInv
  <2>4. SaidInv(s)'
    BY <1>2 DEF FailInv, SaidInv, Shared
  <2>5. FatalFirst(s)'
    BY <1>2, <2>2 DEF FailInv, FatalFirst
  <2> QED
    BY <2>3, <2>4, <2>5 DEF FailInv
<1> QED
  BY <1>1, <1>2

(* So does the first event of its source's process.                         *)
LEMMA FailOfOutput ==
  ASSUME TypeEvents, NEW s \in Sources, FailInv(s),
         outq[s] # <<>>, Deliver(<<Head(outq[s])>>, s), outq'[s] = Tail(outq[s]),
         idle' = FALSE, UNCHANGED <<topology, pc, ready>>
  PROVE  FailInv(s)'
<1> DEFINE q == outq[s]
           w == outq'[s]
           h == Head(outq[s])
<1>1. /\ h \in Events /\ h = q[1] /\ Len(w) \in Nat /\ Len(w) = Len(q) - 1 /\ Len(q) \in Nat
      /\ \A i \in 1..Len(w) : w[i] = q[i + 1] /\ i + 1 \in 1..Len(q)
  <2>1. q \in Seq(Events) /\ q # <<>>
    BY DEF TypeEvents
  <2>2. /\ w \in Seq(Events) /\ Len(w) = Len(q) - 1 /\ Len(q) \in Nat
        /\ h \in Events /\ h = q[1] /\ \A i \in 1..Len(w) : w[i] = q[i + 1] /\ i + 1 \in 1..Len(q)
    BY <2>1, EventsTail
  <2> HIDE DEF w, q, h
  <2> QED
    BY <2>2
<1>2. /\ Terminal(s) => results'[s] = results[s]
      /\ ~Terminal(s) => results'[s] = results[s] \o <<h>>
  <2>1. <<h>> \in Seq(Events)
    BY <1>1
  <2> QED
    BY <2>1, DeliverMoves
<1>3. /\ ~Terminal(s) => /\ LastKind(s)' = h.kind
                         /\ \A kinds : HasKind(results'[s], kinds) <=> HasKind(results[s], kinds) \/ h.kind \in kinds
      /\ Terminal(s) => Terminal(s)' /\ LastKind(s)' = LastKind(s)
  <2>1. CASE Terminal(s)
    BY <1>2, <2>1 DEF Terminal, LastKind
  <2>2. CASE ~Terminal(s)
    <3>1. results'[s] = results[s] \o <<h>> /\ h \in Events
      BY <1>1, <1>2, <2>2
    <3> HIDE DEF h
    <3> QED
      BY <2>2, <3>1, Delivered
  <2> QED
    BY <2>1, <2>2
<1>4. FatalFirst(s) /\ FailedInv(s) /\ SaidInv(s)
  BY DEF FailInv
<1>5. IdleInv(s)'
  BY DEF IdleInv
<1>6. SaidInv(s)'
  <2>1. ASSUME HasKind(q, {"stopped", "failed"}), ~Terminal(s)
        PROVE  Terminal(s)' \/ HasKind(w, {"stopped", "failed"})
    <3> HIDE DEF w, q, h
    <3>1. PICK i \in 1..Len(q) : q[i].kind \in {"stopped", "failed"}
      BY <2>1 DEF HasKind
    <3>2. CASE i = 1
      BY <1>1, <1>3, <2>1, <3>1, <3>2 DEF Terminal
    <3>3. CASE i # 1
      <4>1. i - 1 \in 1..Len(w) /\ (i - 1) + 1 = i
        BY <1>1, <3>3
      <4>2. w[i - 1] = q[i]
        BY <1>1, <4>1
      <4> QED
        BY <3>1, <4>1, <4>2 DEF HasKind
    <3> QED
      BY <3>2, <3>3
  <2> QED
    BY <1>3, <1>4, <2>1 DEF SaidInv, Shared
<1>7. FatalFirst(s)'
  <2> SUFFICES ASSUME NEW i \in 1..Len(w), w[i].kind = "failed", ~Terminal(s)',
                      ~HasKind(results'[s], {"fatal"})
               PROVE  \E j \in 1..(i - 1) : w[j].kind = "fatal"
    BY DEF FatalFirst
  <2>1. ~Terminal(s) /\ ~HasKind(results[s], {"fatal"}) /\ h.kind # "fatal"
    BY <1>3
  <2>2. \A k \in 1..Len(q) : q[k].kind = "failed" => \E j \in 1..(k - 1) : q[j].kind = "fatal"
    BY <1>4, <2>1 DEF FatalFirst
  <2> HIDE DEF w, q, h
  <2>3. i + 1 \in 1..Len(q) /\ q[i + 1].kind = "failed" /\ i \in Nat
    BY <1>1
  <2>4. PICK j \in 1..((i + 1) - 1) : q[j].kind = "fatal"
    BY <2>2, <2>3
  <2>5. j # 1
    BY <1>1, <2>1, <2>4
  <2>6. j - 1 \in 1..(i - 1) /\ (j - 1) + 1 = j /\ j - 1 \in 1..Len(w)
    BY <2>3, <2>4, <2>5
  <2>7. w[j - 1] = q[j]
    BY <1>1, <2>6
  <2> QED
    BY <2>4, <2>6, <2>7
<1>8. FailedInv(s)'
  <2>1. CASE Terminal(s)
    BY <1>2, <1>3, <1>4, <2>1 DEF FailedInv
  <2>2. ASSUME ~Terminal(s), h.kind = "failed" PROVE HasKind(results'[s], {"fatal"})
    <3>1. \E i \in 1..Len(q) : i = 1 /\ q[i].kind = "failed"
      BY <1>1, <2>2
    <3>2. HasKind(results[s], {"fatal"}) \/ \E j \in 1..(1 - 1) : q[j].kind = "fatal"
      BY <1>4, <2>2, <3>1 DEF FatalFirst
    <3>3. 1..(1 - 1) = {}
      OBVIOUS
    <3> HIDE DEF q, h
    <3> QED
      BY <1>3, <2>2, <3>2, <3>3
  <2> QED
    BY <1>3, <2>1, <2>2 DEF FailedInv
<1> QED
  BY <1>5, <1>6, <1>7, <1>8 DEF FailInv

(* A crash the dispatcher has waited for is told before the session fails.  *)
LEMMA FailOfExit ==
  ASSUME TypeEvents, NEW s \in Sources, FailInv(s), DispatchExited(s)
  PROVE  FailInv(s)'
<1> DEFINE x == Event("exited", 0)
           y == Event("failed", 0)
<1>1. x \in Events /\ y \in Events /\ x.kind = "exited" /\ y.kind = "failed" /\ <<x, y>> \in Seq(Events)
  BY ProcessNames, EventKinds
<1>2. /\ Deliver(<<x, y>>, s) /\ ~Terminal(s) /\ pc[s] = "crashed"
      /\ UNCHANGED <<topology, pc, ready, outq, idle>> /\ exitSeen' = exitSeen \ {s}
  BY DEF DispatchExited, FailInv, IdleInv, ExitCounts
<1> HIDE DEF x, y
<1>3. results'[s] = results[s] \o <<x, y>>
  BY <1>1, <1>2, DeliverMoves
<1> DEFINE w == results'[s]
           q == results[s]
<1>4. /\ w # <<>> /\ w[Len(w)] = y /\ w[Len(q) + 1] = x /\ Len(w) = Len(q) + 2 /\ Len(q) \in Nat
  <2>1. q \in Seq(Events)
    BY DEF TypeEvents
  <2>2. Len(q) \in Nat
    BY <2>1
  <2> QED
    BY <1>1, <1>3, <2>1, <2>2, EventsAppendTwo
<1>5. LastKind(s)' = "failed"
  BY <1>1, <1>4 DEF LastKind
<1>6. HasKind(w, {"exited"})
  <2>1. Len(q) + 1 \in 1..Len(w)
    BY <1>4
  <2> QED
    BY <1>1, <1>4, <2>1 DEF HasKind
<1>7. Terminal(s)'
  BY <1>5 DEF Terminal
<1> QED
  BY <1>2, <1>5, <1>6, <1>7 DEF FailInv, IdleInv, SaidInv, FatalFirst, FailedInv

(* A step that is none of a source's leaves its reasons as they are.        *)
LEMMA FailOfFrame ==
  ASSUME NEW s \in Sources, FailInv(s), topology' = topology, pc'[s] = pc[s],
         ready'[s] = ready[s] \/ ready[s] # "error",
         results'[s] = results[s], outq'[s] = outq[s],
         idle' /\ s \in exitSeen' => idle /\ s \in exitSeen
  PROVE  FailInv(s)'
<1>1. GoesOn(s)
  BY DEF GoesOn
<1> QED
  BY <1>1, FailOfSame

(* Nor does it take an event for a source to end while the model answers.   *)
LEMMA FailOfSharedEnd ==
  ASSUME NEW s \in Sources, FailInv(s), Shared, topology' = topology, pc[s] # "crashed",
         results'[s] = results[s], outq'[s] = outq[s], idle' = idle, exitSeen' = exitSeen
  PROVE  FailInv(s)'
<1>1. (Terminal(s)' <=> Terminal(s)) /\ LastKind(s)' = LastKind(s) /\ (Shared' <=> Shared)
  BY DEF Terminal, LastKind, Shared
<1>2. IdleInv(s)' /\ SaidInv(s)'
  BY <1>1 DEF FailInv, IdleInv, SaidInv
<1>3. FatalFirst(s)' /\ FailedInv(s)'
  BY <1>1 DEF FailInv, FatalFirst, FailedInv
<1> QED
  BY <1>2, <1>3 DEF FailInv

(* An empty poll: who has exited without a word has crashed.                *)
LEMMA FailOfIdle ==
  ASSUME ControlInv, NEW s \in Sources, FailInv(s), DispatchIdle
  PROVE  FailInv(s)'
<1>1. /\ UNCHANGED <<topology, pc, ready, outq, results>> /\ outq[s] = <<>>
      /\ ready[s] = "read"
      /\ s \in exitSeen' => ExitCounts(s)
  BY DEF DispatchIdle, Look, ControlInv, StartInv
<1>2. (Terminal(s)' <=> Terminal(s)) /\ LastKind(s)' = LastKind(s) /\ (Shared' <=> Shared)
  BY <1>1 DEF Terminal, LastKind, Shared
<1>3. ~HasKind(outq[s], {"stopped", "failed"})
  BY <1>1 DEF HasKind
<1>4. IdleInv(s)'
  BY <1>1, <1>3 DEF IdleInv, ExitCounts, FailInv, SaidInv
<1>5. SaidInv(s)' /\ FatalFirst(s)' /\ FailedInv(s)'
  BY <1>1, <1>2 DEF FailInv, SaidInv, FatalFirst, FailedInv
<1> QED
  BY <1>4, <1>5 DEF FailInv

(* Every step keeps the reasons.                                            *)
LEMMA FailStep ==
  ASSUME BaseInv, ControlInv, \A s \in Sources : FailInv(s), Next
  PROVE  \A s \in Sources : FailInv(s)'
<1> SUFFICES ASSUME NEW s \in Sources PROVE FailInv(s)'
  OBVIOUS
<1>1. /\ TypePhase /\ TypePc /\ TypeReady /\ TypeSources /\ TypeEvents
      /\ TypeModel /\ TypeRest /\ HandInv
  BY TypeParts DEF BaseInv
<1>2. FailInv(s) /\ s \in Procs /\ s # Model /\ \A t \in Sources : t \in Procs /\ t # Model
  BY ProcessNames
<1>3. ASSUME NEW t \in Sources, TakeCommand(t) PROVE FailInv(s)'
  <2>1. /\ Goto(t, (IF Head(control[t]) = "stop" THEN "drain" ELSE "capture"))
        /\ UNCHANGED <<topology, outq, results, idle, exitSeen>>
        /\ pc[t] \notin {"exit", "clean", "crashed"}
    BY <1>3 DEF TakeCommand, dispatch
  <2>2. pc' = [pc EXCEPT ![t] = pc'[t]]
    BY <1>1, <1>2, <2>1 DEF Goto, TypePc
  <2>3. ready' = ready
    BY <1>3 DEF TakeCommand
  <2>4. CASE s = t
    <3>1. GoesOn(s)
      BY <1>1, <1>2, <2>1, <2>3, <2>4 DEF GoesOn, Goto, TypePc, TypeReady
    <3> QED
      BY <1>2, <2>1, <3>1, FailOfSame
  <2>5. CASE s # t
    <3>1. pc'[s] = pc[s] /\ ready'[s] = ready[s]
      BY <1>1, <1>2, <2>1, <2>3, <2>5 DEF Goto, TypePc, TypeReady
    <3> QED
      BY <1>2, <2>1, <3>1, FailOfFrame
  <2> QED
    BY <2>4, <2>5
<1>4. ASSUME NEW t \in Sources, SourceEnds(t) PROVE FailInv(s)'
  <2>1. /\ Goto(t, "drain") \/ Goto(t, "drainErr")
        /\ UNCHANGED <<topology, outq, results, idle, exitSeen>>
        /\ pc[t] \notin {"exit", "clean", "crashed"}
    BY <1>4 DEF SourceEnds, dispatch
  <2>2. pc' = [pc EXCEPT ![t] = pc'[t]]
    BY <1>1, <1>2, <2>1 DEF Goto, TypePc
  <2>3. ready' = ready
    BY <1>4 DEF SourceEnds
  <2>4. CASE s = t
    <3>1. GoesOn(s)
      BY <1>1, <1>2, <2>1, <2>3, <2>4 DEF GoesOn, Goto, TypePc, TypeReady
    <3> QED
      BY <1>2, <2>1, <3>1, FailOfSame
  <2>5. CASE s # t
    <3>1. pc'[s] = pc[s] /\ ready'[s] = ready[s]
      BY <1>1, <1>2, <2>1, <2>3, <2>5 DEF Goto, TypePc, TypeReady
    <3> QED
      BY <1>2, <2>1, <3>1, FailOfFrame
  <2> QED
    BY <2>4, <2>5
<1>5. ASSUME NEW t \in Sources, CaptureReady(t) PROVE FailInv(s)'
  <2>1. /\ Goto(t, (IF t \in Replays THEN "wait" ELSE "capture"))
        /\ UNCHANGED <<topology, outq, results, idle, exitSeen>>
        /\ pc[t] \notin {"exit", "clean", "crashed"}
    BY <1>5 DEF CaptureReady, dispatch
  <2>2. pc' = [pc EXCEPT ![t] = pc'[t]]
    BY <1>1, <1>2, <2>1 DEF Goto, TypePc
  <2>3. ready' = [ready EXCEPT ![t] = "ok"]
    BY <1>5 DEF CaptureReady
  <2>4. CASE s = t
    <3>1. GoesOn(s)
      BY <1>1, <1>2, <2>1, <2>3, <2>4 DEF GoesOn, Goto, TypePc, TypeReady
    <3> QED
      BY <1>2, <2>1, <3>1, FailOfSame
  <2>5. CASE s # t
    <3>1. pc'[s] = pc[s] /\ ready'[s] = ready[s]
      BY <1>1, <1>2, <2>1, <2>3, <2>5 DEF Goto, TypePc, TypeReady
    <3> QED
      BY <1>2, <2>1, <3>1, FailOfFrame
  <2> QED
    BY <2>4, <2>5
<1>6. ASSUME NEW t \in Sources, CaptureFailsToStart(t) PROVE FailInv(s)'
  <2>1. /\ Goto(t, "clean")
        /\ UNCHANGED <<topology, outq, results, idle, exitSeen>>
        /\ pc[t] \notin {"exit", "clean", "crashed"}
    BY <1>6 DEF CaptureFailsToStart, dispatch
  <2>2. pc' = [pc EXCEPT ![t] = pc'[t]]
    BY <1>1, <1>2, <2>1 DEF Goto, TypePc
  <2>3. ready' = [ready EXCEPT ![t] = "error"]
    BY <1>6 DEF CaptureFailsToStart
  <2>4. CASE s = t
    <3>1. GoesOn(s)
      BY <1>1, <1>2, <2>1, <2>3, <2>4 DEF GoesOn, Goto, TypePc, TypeReady
    <3> QED
      BY <1>2, <2>1, <3>1, FailOfSame
  <2>5. CASE s # t
    <3>1. pc'[s] = pc[s] /\ ready'[s] = ready[s]
      BY <1>1, <1>2, <2>1, <2>3, <2>5 DEF Goto, TypePc, TypeReady
    <3> QED
      BY <1>2, <2>1, <3>1, FailOfFrame
  <2> QED
    BY <2>4, <2>5
<1>7. ASSUME NEW t \in Sources, Submit(t) PROVE FailInv(s)'
  <2>1. UNCHANGED <<topology, pc, ready, outq, results, idle, exitSeen>>
    BY <1>7 DEF Submit, dispatch
  <2> QED
    BY <1>2, <2>1, FailOfFrame
<1>8. ASSUME StopSession PROVE FailInv(s)'
  <2>1. UNCHANGED <<topology, pc, ready, outq, results, idle, exitSeen>>
    BY <1>8 DEF StopSession, dispatch
  <2> QED
    BY <1>2, <2>1, FailOfFrame
<1>9. ASSUME ShutdownModel PROVE FailInv(s)'
  <2>1. UNCHANGED <<topology, pc, ready, outq, results, idle, exitSeen>>
    BY <1>9 DEF ShutdownModel, dispatch
  <2> QED
    BY <1>2, <2>1, FailOfFrame
<1>10. ASSUME StopReturns PROVE FailInv(s)'
  <2>1. UNCHANGED <<topology, pc, ready, outq, results, idle, exitSeen>>
    BY <1>10 DEF StopReturns, dispatch
  <2> QED
    BY <1>2, <2>1, FailOfFrame
<1>11. ASSUME Terminated PROVE FailInv(s)'
  <2>1. UNCHANGED <<topology, pc, ready, outq, results, idle, exitSeen>>
    BY <1>11 DEF Terminated, vars, dispatch
  <2> QED
    BY <1>2, <2>1, FailOfFrame
<1>12. ASSUME NEW loaded \in BOOLEAN, ModelLoads(loaded) PROVE FailInv(s)'
  <2>1. UNCHANGED <<topology, outq, results, idle, exitSeen>>
    BY <1>12 DEF ModelLoads, dispatch
  <2>2. pc'[s] = pc[s] /\ ready'[s] = ready[s]
    BY <1>1, <1>2, <1>12 DEF ModelLoads, Goto, TypePc, TypeReady
  <2> QED
    BY <1>2, <2>1, <2>2, FailOfFrame
<1>13. ASSUME ApplyShutdown PROVE FailInv(s)'
  <2>1. UNCHANGED <<topology, outq, results, idle, exitSeen>>
    BY <1>13 DEF ApplyShutdown, dispatch
  <2>2. pc'[s] = pc[s] /\ ready'[s] = ready[s]
    BY <1>1, <1>2, <1>13 DEF ApplyShutdown, Goto, TypePc, TypeReady
  <2> QED
    BY <1>2, <2>1, <2>2, FailOfFrame
<1>14. ASSUME GetItem PROVE FailInv(s)'
  <2>1. UNCHANGED <<topology, outq, results, idle, exitSeen>>
    BY <1>14 DEF GetItem, dispatch
  <2>2. pc'[s] = pc[s] /\ ready'[s] = ready[s]
    BY <1>1, <1>2, <1>14 DEF GetItem, Goto, TypePc, TypeReady
  <2> QED
    BY <1>2, <2>1, <2>2, FailOfFrame
<1>15. ASSUME PublishAnswer PROVE FailInv(s)'
  <2>1. UNCHANGED <<topology, outq, results, idle, exitSeen>>
    BY <1>15 DEF PublishAnswer, dispatch
  <2>2. pc'[s] = pc[s] /\ ready'[s] = ready[s]
    BY <1>1, <1>2, <1>15 DEF PublishAnswer, Goto, TypePc, TypeReady
  <2> QED
    BY <1>2, <2>1, <2>2, FailOfFrame
<1>16. ASSUME NEW t \in Sources, SubmitDropped(t) PROVE FailInv(s)'
  <2>0. made[t] + 1 \in 0..Chunks
    BY <1>1, <1>16, ProcessNames DEF SubmitDropped, MakeChunk, TypeSources
  <2>1. /\ Put(t, <<Event("drop", made[t] + 1)>>) /\ Shared /\ pc[t] # "crashed"
        /\ UNCHANGED <<topology, pc, ready, results, idle, exitSeen>>
    BY <1>16 DEF SubmitDropped, MakeChunk, dispatch
  <2> DEFINE x == Event("drop", made[t] + 1)
  <2>2. x \in Events /\ <<x>> \in Seq(Events) /\ x.kind = "drop"
    BY <2>0, EventKinds
  <2> HIDE DEF x
  <2>3. outq'[t] = outq[t] \o <<x>> /\ (s # t => outq'[s] = outq[s])
    BY <1>1, <2>1, <2>2, PutMoves DEF x
  <2>4. CASE s = t
    BY <1>1, <1>2, <2>1, <2>2, <2>3, <2>4, FailOfPut
  <2>5. CASE s # t
    BY <1>2, <2>1, <2>3, <2>5, FailOfFrame
  <2> QED
    BY <2>4, <2>5
<1>17. ASSUME NEW t \in Sources, AnswerLocal(t) PROVE FailInv(s)'
  <2>0. made[t] - local[t] + 1 \in 0..Chunks
    BY <1>1, <1>17, ProcessNames DEF AnswerLocal, TypeSources
  <2>1. /\ Put(t, <<Event("answer", made[t] - local[t] + 1)>>)
        /\ pc[t] \in {"capture", "drain"}
        /\ UNCHANGED <<topology, pc, ready, results, idle, exitSeen>>
    BY <1>17 DEF AnswerLocal, dispatch
  <2> DEFINE x == Event("answer", made[t] - local[t] + 1)
  <2>2. x \in Events /\ <<x>> \in Seq(Events) /\ x.kind = "answer"
    BY <2>0, EventKinds
  <2> HIDE DEF x
  <2>3. outq'[t] = outq[t] \o <<x>> /\ (s # t => outq'[s] = outq[s])
    BY <1>1, <2>1, <2>2, PutMoves DEF x
  <2>4. CASE s = t
    <3>1. GoesOn(s) /\ pc[s] # "crashed"
      BY <2>1, <2>4 DEF GoesOn
    <3> QED
      BY <1>1, <1>2, <2>1, <2>2, <2>3, <2>4, <3>1, FailOfPut
  <2>5. CASE s # t
    BY <1>2, <2>1, <2>3, <2>5, FailOfFrame
  <2> QED
    BY <2>4, <2>5
<1>18. ASSUME NEW t \in Sources, Complete(t) PROVE FailInv(s)'
  <2>0. made[t] \in 0..Chunks
    BY <1>1 DEF TypeSources
  <2>1. /\ Goto(t, "exit") /\ pc[t] = "drain"
        /\ UNCHANGED <<topology, ready, results, idle, exitSeen>>
        /\ Shared => outq' = outq
        /\ ~Shared => Put(t, <<Event("stopped", made[t])>>)
    BY <1>18 DEF Complete, dispatch
  <2> DEFINE x == Event("stopped", made[t])
  <2>2. x \in Events /\ <<x>> \in Seq(Events) /\ x.kind = "stopped"
    BY <2>0, EventKinds
  <2> HIDE DEF x
  <2>3. ~Shared => outq'[t] = outq[t] \o <<x>> /\ (s # t => outq'[s] = outq[s])
    BY <1>1, <2>1, <2>2, PutMoves DEF x
  <2>4. CASE s = t
    BY <1>1, <1>2, <2>1, <2>2, <2>3, <2>4, FailOfPut, FailOfSharedEnd
  <2>5. CASE s # t
    <3>1. pc'[s] = pc[s]
      BY <1>1, <1>2, <2>1, <2>5 DEF Goto, TypePc
    <3> QED
      BY <1>2, <2>1, <2>3, <2>5, <3>1, FailOfFrame
  <2> QED
    BY <2>4, <2>5
<1>19. ASSUME NEW t \in Sources, NEW n \in 0..Chunks, Put(t, <<Event("fatal", 0), Event("failed", n)>>),
             Goto(t, "exit"), pc[t] # "crashed",
             UNCHANGED <<topology, ready, results, idle, exitSeen>> PROVE FailInv(s)'
  <2> DEFINE x == Event("fatal", 0)
             y == Event("failed", n)
  <2>1. x \in Events /\ y \in Events /\ <<x, y>> \in Seq(Events) /\ x.kind = "fatal" /\ y.kind = "failed"
    BY ProcessNames, EventKinds
  <2> HIDE DEF x, y
  <2>2. outq'[t] = outq[t] \o <<x, y>> /\ (s # t => outq'[s] = outq[s])
    BY <1>1, <1>19, <2>1, PutMoves DEF x, y
  <2>3. CASE s = t
    BY <1>1, <1>2, <1>19, <2>1, <2>2, <2>3, FailOfFailure
  <2>4. CASE s # t
    <3>1. pc'[s] = pc[s]
      BY <1>1, <1>2, <1>19, <2>4 DEF Goto, TypePc
    <3> QED
      BY <1>2, <1>19, <2>2, <2>4, <3>1, FailOfFrame
  <2> QED
    BY <2>3, <2>4
<1>20. ASSUME NEW t \in Sources, SubmitFails(t) PROVE FailInv(s)'
  <2>1. \E n \in 0..Chunks : Put(t, <<Event("fatal", 0), Event("failed", n)>>)
    BY <1>1, <1>20, ProcessNames DEF SubmitFails, MakeChunk, Fail, dispatch, TypeSources
  <2>2. Goto(t, "exit") /\ pc[t] # "crashed" /\ UNCHANGED <<topology, ready, results, idle, exitSeen>>
    BY <1>20 DEF SubmitFails, MakeChunk, Fail, dispatch
  <2> QED
    BY <1>19, <2>1, <2>2
<1>21. ASSUME NEW t \in Sources, CompleteFails(t) PROVE FailInv(s)'
  <2>1. \E n \in 0..Chunks : Put(t, <<Event("fatal", 0), Event("failed", n)>>)
    BY <1>1, <1>21, ProcessNames DEF CompleteFails, Fail, dispatch, TypeSources
  <2>2. Goto(t, "exit") /\ pc[t] # "crashed" /\ UNCHANGED <<topology, ready, results, idle, exitSeen>>
    BY <1>21 DEF CompleteFails, Fail, dispatch
  <2> QED
    BY <1>19, <2>1, <2>2
<1>22. ASSUME NEW t \in Sources, CaptureRaises(t) PROVE FailInv(s)'
  <2>1. 0 \in 0..Chunks /\ Put(t, <<Event("fatal", 0), Event("failed", 0)>>)
    BY <1>22, ProcessNames DEF CaptureRaises
  <2>2. Goto(t, "exit") /\ pc[t] # "crashed" /\ UNCHANGED <<topology, ready, results, idle, exitSeen>>
    BY <1>22 DEF CaptureRaises, dispatch
  <2> QED
    BY <1>19, <2>1, <2>2
<1>23. ASSUME NEW p \in Procs, Exit(p) PROVE FailInv(s)'
  <2>1. Goto(p, "clean") /\ pc[p] = "exit" /\ UNCHANGED <<topology, ready, outq, results, idle, exitSeen>>
    BY <1>23 DEF Exit, dispatch
  <2>2. GoesOn(s)
    BY <1>1, <1>2, <2>1 DEF GoesOn, Goto, TypePc
  <2> QED
    BY <1>2, <2>1, <2>2, FailOfSame
<1>24. ASSUME NEW p \in Procs, Crash(p) PROVE FailInv(s)'
  <2>1. Goto(p, "crashed") /\ UNCHANGED <<topology, ready, results, idle, exitSeen>>
    BY <1>24 DEF Crash, dispatch
  <2>2. CASE p = s
    <3>1. pc'[s] = "crashed"
      BY <1>1, <1>2, <2>1, <2>2 DEF Goto, TypePc
    <3>2. PICK n \in 0..Len(outq[s]) : outq' = [outq EXCEPT ![s] = SubSeq(@, 1, n)]
      BY <1>2, <1>24, <2>2 DEF Crash
    <3>3. outq'[s] = SubSeq(outq[s], 1, n)
      BY <1>1, <3>2 DEF TypeEvents
    <3> QED
      BY <1>1, <1>2, <2>1, <3>1, <3>3, FailOfCrash
  <2>3. CASE p # s
    <3>1. pc'[s] = pc[s] /\ outq'[s] = outq[s]
      BY <1>1, <1>2, <1>24, <2>1, <2>3 DEF Crash, Goto, TypePc, TypeEvents
    <3> QED
      BY <1>2, <2>1, <3>1, FailOfFrame
  <2> QED
    BY <2>2, <2>3
<1>25. ASSUME DispatchEvent PROVE FailInv(s)'
  <2>0. UNCHANGED <<topology, pc, ready>> /\ idle' = FALSE
    BY <1>25 DEF DispatchEvent
  <2>1. CASE modelEv # <<>>
    <3> DEFINE x == Event(Head(modelEv).kind, Head(modelEv).chunk)
               t == Head(modelEv).source
    <3>1. Deliver(<<x>>, t) /\ outq' = outq
      BY <1>25, <2>1 DEF DispatchEvent
    <3>2. /\ x \in Events /\ <<x>> \in Seq(Events) /\ t \in Sources
          /\ x.kind \in {"answer", "stopped"}
      BY <1>1, <2>1, HeadsAreEvents DEF ModelEvents, Event
    <3> HIDE DEF x, t
    <3>3. CASE s = t
      BY <1>1, <1>2, <2>0, <3>1, <3>2, <3>3, FailOfModelEvent
    <3>4. CASE s # t
      <4>1. results'[s] = results[s]
        BY <1>1, <3>1, <3>2, <3>4, DeliverMoves
      <4> QED
        BY <1>2, <2>0, <3>1, <4>1, FailOfFrame
    <3> QED
      BY <3>3, <3>4
  <2>2. CASE modelEv = <<>>
    <3>1. PICK t \in Sources : /\ outq[t] # <<>> /\ Deliver(<<Head(outq[t])>>, t)
                               /\ outq' = [outq EXCEPT ![t] = Tail(@)]
      BY <1>25, <2>2 DEF DispatchEvent
    <3>2. outq'[t] = Tail(outq[t]) /\ (s # t => outq'[s] = outq[s])
      BY <1>1, <3>1 DEF TypeEvents
    <3>3. CASE s = t
      BY <1>1, <1>2, <2>0, <3>1, <3>2, <3>3, FailOfOutput
    <3>4. CASE s # t
      <4>1. <<Head(outq[t])>> \in Seq(Events)
        BY <1>1, <3>1, HeadsAreEvents
      <4>2. results'[s] = results[s]
        BY <1>1, <3>1, <3>4, <4>1, DeliverMoves
      <4> QED
        BY <1>2, <2>0, <3>2, <3>4, <4>2, FailOfFrame
    <3> QED
      BY <3>3, <3>4
  <2> QED
    BY <2>1, <2>2
<1>26. ASSUME DispatchIdle PROVE FailInv(s)'
  BY <1>2, <1>26, FailOfIdle
<1>27. ASSUME NEW t \in Sources, DispatchExited(t) PROVE FailInv(s)'
  <2>1. CASE s = t
    BY <1>1, <1>2, <1>27, <2>1, FailOfExit
  <2>2. CASE s # t
    <3>1. /\ Deliver(<<Event("exited", 0), Event("failed", 0)>>, t)
          /\ UNCHANGED <<topology, pc, ready, outq, idle>> /\ exitSeen' = exitSeen \ {t}
      BY <1>27 DEF DispatchExited
    <3>2. <<Event("exited", 0), Event("failed", 0)>> \in Seq(Events)
      BY ProcessNames, EventKinds
    <3>3. results'[s] = results[s]
      BY <1>1, <2>2, <3>1, <3>2, DeliverMoves
    <3> QED
      BY <1>2, <3>1, <3>3, FailOfFrame
  <2> QED
    BY <2>1, <2>2
<1>28. ASSUME NEW t \in Sources, CollectReady(t) PROVE FailInv(s)'
  <2>1. /\ UNCHANGED <<topology, pc, outq, results, idle, exitSeen>>
        /\ ready' = [ready EXCEPT ![t] = "read"] /\ ready[t] = "ok"
    BY <1>28 DEF CollectReady, dispatch
  <2>2. ready'[s] = ready[s] \/ ready[s] # "error"
    BY <1>1, <1>2, <2>1 DEF TypeReady
  <2> QED
    BY <1>2, <2>1, <2>2, FailOfFrame
<1>29. ASSUME ModelReady PROVE FailInv(s)'
  <2>1. /\ UNCHANGED <<topology, outq, results, idle, exitSeen>>
        /\ pc[s] = "none" /\ pc'[s] = "starting"
    BY <1>2, <1>29 DEF ModelReady, dispatch, ControlInv, StartInv
  <2>2. GoesOn(s)
    BY <2>1 DEF GoesOn
  <2> QED
    BY <1>2, <2>1, <2>2, FailOfSame
<1>30. ASSUME TerminateAll, UNCHANGED <<topology, ready, outq, results, idle, exitSeen>> PROVE FailInv(s)'
  <2>1. GoesOn(s)
    BY <1>1, <1>2, <1>30, TerminateMoves DEF GoesOn, Alive
  <2> QED
    BY <1>2, <1>30, <2>1, FailOfSame
<1>31. ASSUME StartFails PROVE FailInv(s)'
  BY <1>31, <1>30 DEF StartFails, dispatch
<1>32. ASSUME Abort PROVE FailInv(s)'
  BY <1>32, <1>30 DEF Abort, dispatch
<1> QED
  BY <1>3, <1>4, <1>5, <1>6, <1>7, <1>8, <1>9, <1>10, <1>11, <1>12, <1>13, <1>14, <1>15,
     <1>16, <1>17, <1>18, <1>20, <1>21, <1>22, <1>23, <1>24, <1>25, <1>26, <1>27, <1>28,
     <1>29, <1>31, <1>32
     DEF Next, CaptureWork, ModelWork, Dispatch, Procs

(* The reasons hold at the start.                                           *)
LEMMA FailStart == Init => \A s \in Sources : FailInv(s)
<1> SUFFICES ASSUME Init, NEW s \in Sources PROVE FailInv(s)
  OBVIOUS
<1>1. results[s] = <<>> /\ outq[s] = <<>> /\ idle = FALSE /\ ready[s] = "none"
  BY ProcessNames DEF Init
<1>2. pc[s] \in {"none", "starting"}
  BY ProcessNames DEF Init
<1> QED
  BY <1>1, <1>2 DEF FailInv, IdleInv, SaidInv, FatalFirst, FailedInv, LastKind

(* Every reachable state can account for a failure.                         *)
LEMMA FailInvariant == Spec => [](\A s \in Sources : FailInv(s))
<1> DEFINE Inv == \A s \in Sources : FailInv(s)
<1>1. BaseInv /\ ControlInv /\ Inv /\ [Next]_vars => Inv'
  <2> SUFFICES ASSUME BaseInv, ControlInv, Inv, [Next]_vars PROVE Inv'
    OBVIOUS
  <2>1. CASE Next
    BY <2>1, FailStep
  <2>2. CASE UNCHANGED vars
    <3> SUFFICES ASSUME NEW s \in Sources PROVE FailInv(s)'
      OBVIOUS
    <3>1. UNCHANGED <<topology, pc, ready, outq, results, idle, exitSeen>>
      BY <2>2 DEF vars, dispatch
    <3> QED
      BY <3>1, FailOfFrame
  <2> QED
    BY <2>1, <2>2
<1>2. Init => Inv
  BY FailStart
<1> HIDE DEF Inv
<1>3. Spec => []Inv
  BY <1>1, <1>2, BaseInvariant, ControlInvariant, PTL DEF Spec
<1> QED
  BY <1>3 DEF Inv

(* Whatever ends a source, its session never gets a bare "failed": a fatal  *)
(* error came first, or the process did crash and the session was told.     *)
THEOREM FailureExplainedAlways == Spec => []FailureExplained
<1>1. BaseInv /\ (\A s \in Sources : FailInv(s)) => FailureExplained
  <2> SUFFICES ASSUME BaseInv, \A s \in Sources : FailInv(s),
                      NEW s \in Sources, LastKind(s) = "failed"
               PROVE  \E e \in Range(results[s]) :
                         e.kind = "fatal" \/ (e.kind = "exited" /\ pc[s] = "crashed")
    BY DEF FailureExplained
  <2>1. results[s] \in Seq(Events)
    BY TypeParts DEF BaseInv, TypeEvents
  <2>2. \A i \in 1..Len(results[s]) : results[s][i] \in Range(results[s])
    BY <2>1 DEF Range
  <2>3. HasKind(results[s], {"fatal"}) \/ (pc[s] = "crashed" /\ HasKind(results[s], {"exited"}))
    BY DEF FailInv, FailedInv
  <2> QED
    BY <2>2, <2>3 DEF HasKind
<1> QED
  BY <1>1, BaseInvariant, FailInvariant, PTL

\* A chunk of a source is with its session, on its way there, in the model's hands, or
\* waits for it; what is due is what the source made and did not drop.
Told(s) == Answers(results[s])
Sent(s) == Answers(outq[s]) \union Body(modelEv, s, "answer")
Held(s) == {n \in 0..Chunks : working = Item("chunk", s, n)}
Waiting(s) == Body(inq, s, "chunk") \union {n \in 1..made[s] : n > made[s] - local[s]}
Due(s) == (1..made[s]) \ dropped[s]
Before(A, B) == \A n \in A, m \in B : n < m

\* The four places hold the source's chunks one behind the other.
RowInv(s) ==
  /\ Before(Told(s), Sent(s)) /\ Before(Told(s), Held(s)) /\ Before(Told(s), Waiting(s))
  /\ Before(Sent(s), Held(s)) /\ Before(Sent(s), Waiting(s)) /\ Before(Held(s), Waiting(s))
  /\ Told(s) \subseteq Due(s) /\ Sent(s) \subseteq Due(s)
  /\ Held(s) \subseteq Due(s) /\ Waiting(s) \subseteq Due(s)

\* Each queue holds them in their order.
LineInv(s) ==
  /\ InOrder(results[s]) /\ InOrder(outq[s])
  /\ Lined(modelEv, s) /\ Lined(inq, s)

\* The source's end comes behind its chunks, wherever it is, and the source is over by then.
Over(s) == pc[s] \in {"exit", "clean", "crashed"}
EndInv(s) ==
  /\ HasEnd(inq, s) => Over(s) /\ ~HasEnd(modelEv, s)
  /\ HasEnd(modelEv, s) => Over(s) /\ Gone(inq, s) /\ Held(s) = {}
  /\ Shared => \A i \in 1..Len(outq[s]) : outq[s][i].kind \in {"drop", "fatal", "failed"}
  /\ \A i \in 1..Len(outq[s]) : outq[s][i].kind = "stopped" =>
       i = Len(outq[s]) /\ Over(s) /\ local[s] = 0
  /\ LastKind(s) = "stopped" => Over(s)

\* As long as a session can still be told that its source stopped, no chunk that is due
\* is anywhere but in one of the places; and once it is told, all are answered.
Answering(s) ==
  IF Shared THEN s \notin retired \/ HasEnd(modelEv, s)
            ELSE pc[s] # "crashed" \/ HasKind(outq[s], {"stopped"})
KeptInv(s) ==
  /\ ~Terminal(s) /\ Answering(s) =>
       \A n \in Due(s) : n \in Told(s) \/ n \in Sent(s) \/ n \in Held(s) \/ n \in Waiting(s)
  /\ LastKind(s) = "stopped" => \A n \in Due(s) : n \in Told(s)

FlowInv(s) == RowInv(s) /\ LineInv(s) /\ EndInv(s) /\ KeptInv(s)

\* What a step that is none of a source's leaves of it: its own variables, its items in
\* the model's queues, and, if it is over, that it is.
Untouched(s) ==
  /\ topology' = topology /\ made'[s] = made[s] /\ dropped'[s] = dropped[s]
  /\ local'[s] = local[s] /\ outq'[s] = outq[s] /\ results'[s] = results[s]
FifoKeeps(s) ==
  /\ Body(inq', s, "chunk") = Body(inq, s, "chunk")
  /\ Body(modelEv', s, "answer") = Body(modelEv, s, "answer")
  /\ Held(s)' = Held(s)
  /\ (Lined(inq, s) => Lined(inq', s)) /\ (Lined(modelEv, s) => Lined(modelEv', s))
  /\ Gone(inq, s) => Gone(inq', s)
  /\ (HasEnd(inq', s) => HasEnd(inq, s)) /\ (HasEnd(modelEv', s) => HasEnd(modelEv, s))
  /\ s \in retired => s \in retired'
Lasts(s) == (Over(s) => Over(s)') /\ (pc[s] = "crashed" => pc'[s] = "crashed")

(* Nothing happens to the queues of the model.                              *)
LEMMA FifoStays ==
  ASSUME NEW s \in Sources, UNCHANGED <<inq, modelEv, retired, working>>
  PROVE  FifoKeeps(s)
BY DEF FifoKeeps, Held

(* What leaves its place leaves the row sorted.                             *)
LEMMA RowShrinks ==
  ASSUME NEW s \in Sources, RowInv(s), Told(s)' \subseteq Told(s), Sent(s)' \subseteq Sent(s),
         Held(s)' \subseteq Held(s), Waiting(s)' \subseteq Waiting(s), Due(s) \subseteq Due(s)'
  PROVE  RowInv(s)'
BY DEF RowInv, Before

(* A session is where it was when it gets nothing.                          *)
LEMMA SessionStays ==
  ASSUME NEW s \in Sources, topology' = topology, results'[s] = results[s]
  PROVE  /\ (Terminal(s)' <=> Terminal(s)) /\ LastKind(s)' = LastKind(s)
         /\ Told(s)' = Told(s) /\ (Shared' <=> Shared)
BY DEF Terminal, LastKind, Told, Shared

(* The other sources do not notice.                                         *)
LEMMA FlowOfOther ==
  ASSUME NEW s \in Sources, FlowInv(s), Untouched(s), FifoKeeps(s), Lasts(s)
  PROVE  FlowInv(s)'
<1>1. /\ (Terminal(s)' <=> Terminal(s)) /\ LastKind(s)' = LastKind(s)
      /\ Told(s)' = Told(s) /\ (Shared' <=> Shared)
  BY SessionStays DEF Untouched
<1>2. Sent(s)' = Sent(s) /\ Held(s)' = Held(s) /\ Waiting(s)' = Waiting(s) /\ Due(s)' = Due(s)
  BY DEF Untouched, FifoKeeps, Sent, Waiting, Due
<1>3. RowInv(s)'
  BY <1>1, <1>2, RowShrinks DEF FlowInv
<1>4. LineInv(s)'
  BY DEF FlowInv, LineInv, Untouched, FifoKeeps
<1>5. EndInv(s)'
  BY <1>1, <1>2 DEF FlowInv, EndInv, Untouched, FifoKeeps, Lasts
<1>6. Answering(s)' => Answering(s)
  BY <1>1 DEF Answering, Untouched, FifoKeeps, Lasts
<1>7. KeptInv(s)'
  BY <1>1, <1>2, <1>6 DEF FlowInv, KeptInv
<1> QED
  BY <1>3, <1>4, <1>5, <1>7 DEF FlowInv

(* A step of the processes that moves no chunk.                             *)
LEMMA FlowOfSame ==
  ASSUME NEW s \in Sources, FlowInv(s), Untouched(s),
         UNCHANGED <<inq, modelEv, retired, working>>, Lasts(s)
  PROVE  FlowInv(s)'
BY FifoStays, FlowOfOther

(* The items of a source in the queues of the model, by the queues' types.  *)
LEMMA FifoOfRecords ==
  ASSUME TypeModel
  PROVE  /\ inq \in Seq(Records("chunk", "complete")) /\ modelEv \in Seq(Records("answer", "stopped"))
         /\ "chunk" \in BodyKinds /\ "complete" \in EndKinds
         /\ "answer" \in BodyKinds /\ "stopped" \in EndKinds
BY QueuesOfRecords DEF TypeModel, BodyKinds, EndKinds

(* Items appended to the FIFO, and what of them each source sees.           *)
LEMMA AppendFifo ==
  ASSUME TypeModel, NEW x \in Items, inq' = Append(inq, x), NEW t \in Sources
  PROVE  /\ Body(inq', t, "chunk") = Body(inq, t, "chunk") \union {n \in 0..Chunks : x = Item("chunk", t, n)}
         /\ HasEnd(inq', t) <=> (HasEnd(inq, t) \/ (x.source = t /\ x.kind = "complete"))
         /\ x.source # t => /\ (Gone(inq, t) => Gone(inq', t)) /\ (Lined(inq, t) => Lined(inq', t))
                            /\ Body(inq', t, "chunk") = Body(inq, t, "chunk")
         /\ Lined(inq, t) /\ ~HasEnd(inq, t)
            /\ (x.source = t /\ x.kind = "chunk" => \A n \in Body(inq, t, "chunk") : n < x.chunk)
              => Lined(inq', t)
<1>1. /\ inq \in Seq(Records("chunk", "complete")) /\ x \in Records("chunk", "complete")
      /\ "chunk" \in BodyKinds /\ "complete" \in EndKinds
  BY FifoOfRecords, QueuesOfRecords
<1>2. x.source # t => {n \in 0..Chunks : x = Item("chunk", t, n)} = {}
  BY DEF Item
<1> DEFINE w == Append(inq, x)
<1>3. /\ Body(w, t, "chunk") = Body(inq, t, "chunk") \union {n \in 0..Chunks : x = Item("chunk", t, n)}
      /\ HasEnd(w, t) <=> (HasEnd(inq, t) \/ (x.source = t /\ x.kind = "complete"))
      /\ x.source # t => (Gone(inq, t) => Gone(w, t)) /\ (Lined(inq, t) => Lined(w, t))
      /\ Lined(inq, t) /\ ~HasEnd(inq, t)
         /\ (x.source = t /\ x.kind = "chunk" => \A n \in Body(inq, t, "chunk") : n < x.chunk)
           => Lined(w, t)
  BY <1>1, QueueAppend
<1>4. inq' = w
  OBVIOUS
<1> HIDE DEF w
<1> QED
  BY <1>2, <1>3, <1>4

(* The same of the events of the model process.                             *)
LEMMA AppendEvents ==
  ASSUME TypeModel, NEW x \in ModelEvents, modelEv' = Append(modelEv, x), NEW t \in Sources
  PROVE  /\ Body(modelEv', t, "answer") =
              Body(modelEv, t, "answer") \union {n \in 0..Chunks : x = Item("answer", t, n)}
         /\ HasEnd(modelEv', t) <=> (HasEnd(modelEv, t) \/ (x.source = t /\ x.kind = "stopped"))
         /\ x.source # t => /\ (Lined(modelEv, t) => Lined(modelEv', t))
                            /\ Body(modelEv', t, "answer") = Body(modelEv, t, "answer")
         /\ Lined(modelEv, t) /\ ~HasEnd(modelEv, t)
            /\ (x.source = t /\ x.kind = "answer" => \A n \in Body(modelEv, t, "answer") : n < x.chunk)
              => Lined(modelEv', t)
<1>1. /\ modelEv \in Seq(Records("answer", "stopped")) /\ x \in Records("answer", "stopped")
      /\ "answer" \in BodyKinds /\ "stopped" \in EndKinds
  BY FifoOfRecords, QueuesOfRecords
<1>2. x.source # t => {n \in 0..Chunks : x = Item("answer", t, n)} = {}
  BY DEF Item
<1> DEFINE w == Append(modelEv, x)
<1>3. /\ Body(w, t, "answer") = Body(modelEv, t, "answer") \union {n \in 0..Chunks : x = Item("answer", t, n)}
      /\ HasEnd(w, t) <=> (HasEnd(modelEv, t) \/ (x.source = t /\ x.kind = "stopped"))
      /\ x.source # t => (Gone(modelEv, t) => Gone(w, t)) /\ (Lined(modelEv, t) => Lined(w, t))
      /\ Lined(modelEv, t) /\ ~HasEnd(modelEv, t)
         /\ (x.source = t /\ x.kind = "answer" => \A n \in Body(modelEv, t, "answer") : n < x.chunk)
           => Lined(w, t)
  BY <1>1, QueueAppend
<1>4. modelEv' = w
  OBVIOUS
<1> HIDE DEF w
<1> QED
  BY <1>2, <1>3, <1>4

(* The chunk a record carries, as a set of one or none.                     *)
LEMMA ChunkOf ==
  ASSUME NEW body \in BodyKinds, NEW end \in EndKinds, NEW x \in Records(body, end), NEW t
  PROVE  /\ x.source = t /\ x.kind = body =>
              {n \in 0..Chunks : x = Item(body, t, n)} = {x.chunk} /\ x = Item(body, t, x.chunk)
         /\ x.source # t \/ x.kind # body => {n \in 0..Chunks : x = Item(body, t, n)} = {}
<1>1. /\ x = Item(x.kind, x.source, x.chunk) /\ x.chunk \in 0..Chunks
  BY RecordIsItem
<1>2. \A n : Item(body, t, n).kind = body /\ Item(body, t, n).source = t /\ Item(body, t, n).chunk = n
  BY DEF Item
<1> QED
  BY <1>1, <1>2

(* The chunks a per-input session has not answered are its last ones.       *)
LEMMA LocalChunks ==
  ASSUME TypeSources, NEW s \in Sources
  PROVE  /\ local[s] = 0 => {n \in 1..made[s] : n > made[s] - local[s]} = {}
         /\ made'[s] = made[s] + 1 /\ local'[s] = local[s] + 1 =>
              {n \in 1..made[s] : n > made[s] - local[s]}' =
                {n \in 1..made[s] : n > made[s] - local[s]} \union {made[s] + 1}
         /\ made'[s] = made[s] /\ local'[s] = local[s] - 1 /\ local[s] > 0 =>
              /\ {n \in 1..made[s] : n > made[s] - local[s]}' =
                   {n \in 1..made[s] : n > made[s] - local[s]} \ {made[s] - local[s] + 1}
              /\ made[s] - local[s] + 1 \in {n \in 1..made[s] : n > made[s] - local[s]}
              /\ \A n \in {n \in 1..made[s] : n > made[s] - local[s]} : made[s] - local[s] + 1 <= n
<1>1. made[s] \in Nat /\ local[s] \in Nat /\ local[s] <= made[s]
  BY ProcessNames DEF TypeSources
<1> QED
  BY <1>1

(* A source that can still make chunks has put no end anywhere.             *)
LEMMA NoEndYet ==
  ASSUME NEW s \in Sources, FlowInv(s), ~Over(s)
  PROVE  /\ ~HasEnd(inq, s) /\ ~HasEnd(modelEv, s) /\ LastKind(s) # "stopped"
         /\ \A i \in 1..Len(outq[s]) : outq[s][i].kind # "stopped"
BY DEF FlowInv, EndInv

(* The chunks of a row are numbers up to the last one made.                 *)
LEMMA RowNumbers ==
  ASSUME TypeSources, NEW s \in Sources, RowInv(s)
  PROVE  /\ made[s] \in 0..Chunks /\ made[s] \in Nat
         /\ \A n \in Told(s) \union Sent(s) \union Held(s) \union Waiting(s) : n \in 1..made[s] /\ n \in Nat
<1>1. made[s] \in 0..Chunks /\ made[s] \in Nat
  BY ProcessNames DEF TypeSources
<1>2. \A n \in Due(s) : n \in 1..made[s] /\ n \in Nat
  BY DEF Due
<1> QED
  BY <1>1, <1>2 DEF RowInv

(* A new chunk goes behind the others.                                      *)
LEMMA RowOfNew ==
  ASSUME TypeSources, NEW s \in Sources, RowInv(s), made'[s] = made[s] + 1, dropped'[s] = dropped[s],
         Told(s)' = Told(s), Sent(s)' = Sent(s), Held(s)' = Held(s),
         Waiting(s)' = Waiting(s) \union {made[s] + 1}
  PROVE  RowInv(s)' /\ \A n \in Due(s)' : n \in Due(s) \/ n = made[s] + 1
<1>1. /\ made[s] \in Nat /\ dropped[s] \subseteq 1..made[s]
      /\ \A n \in Told(s) \union Sent(s) \union Held(s) \union Waiting(s) : n \in 1..made[s] /\ n \in Nat
  BY RowNumbers DEF TypeSources
<1>2. /\ Due(s)' = (1..(made[s] + 1)) \ dropped[s]
      /\ Due(s) = (1..made[s]) \ dropped[s]
  BY DEF Due
<1>3. Due(s)' = Due(s) \union {made[s] + 1}
  BY <1>1, <1>2
<1>4. /\ Told(s) \subseteq Due(s)' /\ Sent(s) \subseteq Due(s)' /\ Held(s) \subseteq Due(s)'
      /\ Waiting(s)' \subseteq Due(s)'
  BY <1>3 DEF RowInv
<1>5. \A n \in Told(s) \union Sent(s) \union Held(s) : n < made[s] + 1
  BY <1>1
<1>6. /\ Before(Told(s), Waiting(s)') /\ Before(Sent(s), Waiting(s)') /\ Before(Held(s), Waiting(s)')
  BY <1>5 DEF RowInv, Before
<1>7. RowInv(s)'
  BY <1>4, <1>6 DEF RowInv
<1> QED
  BY <1>3, <1>7

(* A capture hands on a chunk.                                              *)
LEMMA FlowOfSubmit ==
  ASSUME TypeSources, TypeEvents, TypeModel, HandInv, NEW s \in Sources, FlowInv(s), Submit(s)
  PROVE  FlowInv(s)'
<1> DEFINE x == Item("chunk", s, made[s] + 1)
<1>1. /\ UNCHANGED <<topology, pc, dropped, outq, results, modelEv, retired, working>>
      /\ ~Over(s) /\ made' = [made EXCEPT ![s] = @ + 1] /\ made[s] < Chunks
      /\ Shared => FifoPut(x) /\ local' = local
      /\ ~Shared => local' = [local EXCEPT ![s] = @ + 1] /\ inq' = inq
  BY DEF Submit, MakeChunk, dispatch, worker, Over
<1>2. made'[s] = made[s] + 1 /\ made[s] + 1 \in 0..Chunks /\ made[s] \in Nat
  BY <1>1, ProcessNames DEF TypeSources
<1>3. x \in Items /\ x.source = s /\ x.kind = "chunk" /\ x.chunk = made[s] + 1
  BY <1>2 DEF Items, Item
<1>4. /\ (Terminal(s)' <=> Terminal(s)) /\ LastKind(s)' = LastKind(s)
      /\ Told(s)' = Told(s) /\ (Shared' <=> Shared)
  BY <1>1, SessionStays
<1>5. /\ Sent(s)' = Sent(s) /\ Held(s)' = Held(s) /\ (Over(s)' <=> Over(s))
      /\ (Answering(s)' <=> Answering(s))
  BY <1>1, <1>4 DEF Sent, Held, Over, Answering
<1>6. /\ ~HasEnd(inq, s) /\ ~HasEnd(modelEv, s) /\ LastKind(s) # "stopped"
      /\ \A i \in 1..Len(outq[s]) : outq[s][i].kind # "stopped"
  BY <1>1, NoEndYet
<1>7. RowInv(s) /\ LineInv(s) /\ EndInv(s) /\ KeptInv(s)
  BY DEF FlowInv
<1> HIDE DEF x
<1>8. Waiting(s)' = Waiting(s) \union {made[s] + 1} /\ Lined(inq', s) /\ ~HasEnd(inq', s)
  <2>1. CASE Shared
    <3>1. inq' = Append(inq, x) /\ local'[s] = 0 /\ local[s] = 0
      BY <1>1, <1>3, <2>1, FifoMoves, ProcessNames DEF TypeSources
    <3>2. {n \in 1..made[s] : n > made[s] - local[s]} = {}
      BY <3>1, LocalChunks
    <3>3. {n \in 1..made[s] : n > made[s] - local[s]}' = {}
      BY <1>2, <3>1
    <3>4. {n \in 0..Chunks : x = Item("chunk", s, n)} = {made[s] + 1}
      BY <1>2 DEF x, Item
    <3>5. Body(inq', s, "chunk") = Body(inq, s, "chunk") \union {made[s] + 1}
      BY <1>3, <3>1, <3>4, AppendFifo
    <3>6. \A n \in Body(inq, s, "chunk") : n < made[s] + 1
      BY <1>2, <1>7, RowNumbers DEF Waiting
    <3>7. Lined(inq', s) /\ ~HasEnd(inq', s)
      BY <1>3, <1>6, <1>7, <3>1, <3>6, AppendFifo DEF LineInv
    <3> QED
      BY <3>2, <3>3, <3>5, <3>7 DEF Waiting
  <2>2. CASE ~Shared
    <3>1. inq' = inq /\ local'[s] = local[s] + 1
      BY <1>1, <2>2, ProcessNames DEF TypeSources
    <3>2. {n \in 1..made[s] : n > made[s] - local[s]}' =
                {n \in 1..made[s] : n > made[s] - local[s]} \union {made[s] + 1}
      BY <1>2, <3>1, LocalChunks
    <3> QED
      BY <1>6, <1>7, <3>1, <3>2 DEF Waiting, LineInv
  <2> QED
    BY <2>1, <2>2
<1>9. RowInv(s)' /\ \A n \in Due(s)' : n \in Due(s) \/ n = made[s] + 1
  BY <1>1, <1>2, <1>4, <1>5, <1>7, <1>8, RowOfNew
<1>10. LineInv(s)'
  BY <1>1, <1>7, <1>8 DEF LineInv
<1>11. EndInv(s)'
  BY <1>1, <1>4, <1>6, <1>7, <1>8 DEF EndInv
<1>12. KeptInv(s)'
  BY <1>4, <1>5, <1>6, <1>7, <1>8, <1>9 DEF KeptInv
<1> QED
  BY <1>9, <1>10, <1>11, <1>12 DEF FlowInv

(* An event that is no answer changes none of what a queue tells.           *)
LEMMA PutNoAnswer ==
  ASSUME NEW q \in Seq(Events), NEW x \in Events, x.kind # "answer"
  PROVE  Answers(q \o <<x>>) = Answers(q) /\ (InOrder(q) => InOrder(q \o <<x>>))
<1>1. {n \in 0..Chunks : x.kind = "answer" /\ x.chunk = n} = {}
  OBVIOUS
<1>2. Answers(q \o <<x>>) = Answers(q) \union {n \in 0..Chunks : x.kind = "answer" /\ x.chunk = n}
  BY EventsAppend
<1>3. InOrder(q) => InOrder(q \o <<x>>)
  BY EventsAppend
<1> QED
  BY <1>1, <1>2, <1>3

(* The drop policy discards a chunk.                                        *)
LEMMA FlowOfDrop ==
  ASSUME TypeSources, TypeEvents, NEW s \in Sources, FlowInv(s), SubmitDropped(s)
  PROVE  FlowInv(s)'
<1> DEFINE x == Event("drop", made[s] + 1)
           q == outq[s]
           w == outq'[s]
<1>1. /\ UNCHANGED <<topology, pc, local, inq, modelEv, retired, working, results>>
      /\ ~Over(s) /\ made' = [made EXCEPT ![s] = @ + 1] /\ made[s] < Chunks /\ Shared
      /\ dropped' = [dropped EXCEPT ![s] = @ \union {made[s] + 1}] /\ Put(s, <<x>>)
  BY DEF SubmitDropped, MakeChunk, dispatch, worker, fifo, Over
<1>2. /\ made'[s] = made[s] + 1 /\ made[s] + 1 \in 0..Chunks /\ made[s] \in Nat
      /\ dropped'[s] = dropped[s] \union {made[s] + 1} /\ local[s] = 0 /\ local'[s] = 0
  BY <1>1, ProcessNames DEF TypeSources
<1>3. x \in Events /\ <<x>> \in Seq(Events) /\ x.kind = "drop"
  BY <1>2, EventKinds
<1> HIDE DEF x
<1>4. q \in Seq(Events) /\ w = q \o <<x>> /\ Len(q) \in Nat
  <2>1. w = q \o <<x>>
    BY <1>1, <1>3, PutMoves
  <2> QED
    BY <2>1 DEF TypeEvents
<1>5. /\ (Terminal(s)' <=> Terminal(s)) /\ LastKind(s)' = LastKind(s)
      /\ Told(s)' = Told(s) /\ (Shared' <=> Shared)
  BY <1>1, SessionStays
<1>6. Answers(w) = Answers(q) /\ (InOrder(q) => InOrder(w))
  BY <1>3, <1>4, PutNoAnswer
<1>7. /\ Sent(s)' = Sent(s) /\ Held(s)' = Held(s) /\ (Over(s)' <=> Over(s))
      /\ (Answering(s)' <=> Answering(s))
  BY <1>1, <1>5, <1>6 DEF Sent, Held, Over, Answering
<1>8. Waiting(s)' = Waiting(s)
  <2>1. {n \in 1..made[s] : n > made[s] - local[s]} = {}
    BY <1>2, LocalChunks
  <2>2. {n \in 1..made[s] : n > made[s] - local[s]}' = {}
    BY <1>2
  <2> QED
    BY <1>1, <2>1, <2>2 DEF Waiting
<1>9. Due(s)' = Due(s)
  <2>1. 1..(made[s] + 1) = 1..made[s] \union {made[s] + 1} /\ made[s] + 1 \notin 1..made[s]
    BY <1>2
  <2> QED
    BY <1>2, <2>1 DEF Due
<1>10. RowInv(s) /\ LineInv(s) /\ EndInv(s) /\ KeptInv(s)
  BY DEF FlowInv
<1>11. RowInv(s)'
  BY <1>5, <1>7, <1>8, <1>9, <1>10, RowShrinks
<1>12. LineInv(s)'
  BY <1>1, <1>6, <1>10 DEF LineInv
<1>13. \A i \in 1..Len(w) : w[i].kind \in {"drop", "fatal", "failed"}
  <2>1. \A i \in 1..Len(q) : q[i].kind \in {"drop", "fatal", "failed"}
    BY <1>1, <1>10 DEF EndInv
  <2>2. w \in Seq(Events) /\ Len(w) = Len(q) + 1 /\ w[Len(w)] = x /\ \A i \in 1..Len(q) : w[i] = q[i]
    BY <1>3, <1>4, EventsAppend
  <2> HIDE DEF q, w
  <2>3. \A i \in 1..Len(w) : i \in 1..Len(q) \/ i = Len(w)
    BY <1>4, <2>2
  <2> QED
    BY <1>3, <2>1, <2>2, <2>3
<1>14. EndInv(s)'
  <2>1. \A i \in 1..Len(w) : w[i].kind # "stopped"
    BY <1>13
  <2> QED
    BY <1>1, <1>5, <1>7, <1>10, <1>13, <2>1 DEF EndInv
<1>15. KeptInv(s)'
  BY <1>5, <1>7, <1>8, <1>9, <1>10 DEF KeptInv
<1> QED
  BY <1>11, <1>12, <1>14, <1>15 DEF FlowInv

(* What a failure puts behind the events of a source.                       *)
LEMMA PutFailure ==
  ASSUME NEW q \in Seq(Events), NEW x \in Events, NEW y \in Events,
         x.kind = "fatal", y.kind = "failed"
  PROVE  LET w == q \o <<x, y>>
         IN  /\ Answers(w) = Answers(q) /\ (InOrder(q) => InOrder(w))
             /\ \A kinds : (\A i \in 1..Len(q) : q[i].kind \in kinds) /\ "fatal" \in kinds /\ "failed" \in kinds
                  => \A i \in 1..Len(w) : w[i].kind \in kinds
             /\ (\A i \in 1..Len(q) : q[i].kind # "stopped") => ~HasKind(w, {"stopped"})
<1> DEFINE w == q \o <<x, y>>
<1>1. /\ w \in Seq(Events) /\ Len(w) = Len(q) + 2 /\ w[Len(w)] = y /\ w[Len(q) + 1] = x
      /\ \A i \in 1..Len(q) : w[i] = q[i]
      /\ Answers(w) = Answers(q) /\ (InOrder(q) => InOrder(w))
  BY EventsAppendTwo
<1>2. Len(q) \in Nat
  OBVIOUS
<1> HIDE DEF w
<1>3. \A i \in 1..Len(w) : i \in 1..Len(q) \/ i = Len(q) + 1 \/ i = Len(w)
  BY <1>1, <1>2
<1>4. \A i \in 1..Len(w) : (i \in 1..Len(q) /\ w[i] = q[i]) \/ w[i].kind = "fatal" \/ w[i].kind = "failed"
  BY <1>1, <1>3
<1>5. (\A i \in 1..Len(q) : q[i].kind # "stopped") => ~HasKind(w, {"stopped"})
  <2> SUFFICES ASSUME \A i \in 1..Len(q) : q[i].kind # "stopped", NEW i \in 1..Len(w)
               PROVE  w[i].kind # "stopped"
    BY DEF HasKind
  <2>1. (i \in 1..Len(q) /\ w[i] = q[i]) \/ w[i].kind = "fatal" \/ w[i].kind = "failed"
    BY <1>4
  <2> QED
    BY <2>1
<1>6. ASSUME NEW kinds, \A i \in 1..Len(q) : q[i].kind \in kinds, "fatal" \in kinds, "failed" \in kinds,
             NEW i \in 1..Len(w)
      PROVE  w[i].kind \in kinds
  <2>1. (i \in 1..Len(q) /\ w[i] = q[i]) \/ w[i].kind = "fatal" \/ w[i].kind = "failed"
    BY <1>4
  <2> QED
    BY <1>6, <2>1
<1> QED
  BY <1>1, <1>5, <1>6 DEF w

\* A source that fails says so on the output queue and is over.
Failing(s) ==
  /\ ~Over(s) /\ pc'[s] = "exit"
  /\ \E n \in 0..Chunks : outq'[s] = outq[s] \o <<Event("fatal", 0), Event("failed", n)>>
  /\ topology' = topology /\ results'[s] = results[s] /\ working' = working
  /\ dropped'[s] = dropped[s] /\ local'[s] = local[s]

(* What its failure changes of the output queue.                            *)
LEMMA FailingPuts ==
  ASSUME TypeEvents, NEW s \in Sources, FlowInv(s), Failing(s)
  PROVE  /\ Answers(outq'[s]) = Answers(outq[s]) /\ InOrder(outq'[s])
         /\ Shared => \A i \in 1..Len(outq'[s]) : outq'[s][i].kind \in {"drop", "fatal", "failed"}
         /\ ~HasKind(outq'[s], {"stopped"})
         /\ \A i \in 1..Len(outq'[s]) : outq'[s][i].kind # "stopped"
<1> DEFINE q == outq[s]
           w == outq'[s]
<1>1. PICK n \in 0..Chunks : w = q \o <<Event("fatal", 0), Event("failed", n)>>
  BY DEF Failing
<1> DEFINE x == Event("fatal", 0)
           y == Event("failed", n)
<1>2. x \in Events /\ y \in Events /\ x.kind = "fatal" /\ y.kind = "failed"
  BY ProcessNames, EventKinds
<1>3. q \in Seq(Events) /\ w = q \o <<x, y>>
  BY <1>1 DEF TypeEvents
<1>4. /\ InOrder(q) /\ \A i \in 1..Len(q) : q[i].kind # "stopped"
      /\ Shared => \A i \in 1..Len(q) : q[i].kind \in {"drop", "fatal", "failed"}
  BY NoEndYet DEF Failing, FlowInv, LineInv, EndInv
<1> HIDE DEF x, y, q, w
<1>5. /\ Answers(w) = Answers(q) /\ (InOrder(q) => InOrder(w))
      /\ \A kinds : (\A i \in 1..Len(q) : q[i].kind \in kinds) /\ "fatal" \in kinds /\ "failed" \in kinds
                  => \A i \in 1..Len(w) : w[i].kind \in kinds
      /\ (\A i \in 1..Len(q) : q[i].kind # "stopped") => ~HasKind(w, {"stopped"})
  BY <1>2, <1>3, PutFailure
<1>6. ~HasKind(w, {"stopped"}) /\ \A i \in 1..Len(w) : w[i].kind # "stopped"
  BY <1>4, <1>5 DEF HasKind
<1> DEFINE K == {"drop", "fatal", "failed"}
<1>7. Shared => \A i \in 1..Len(w) : w[i].kind \in K
  <2>1. "fatal" \in K /\ "failed" \in K
    OBVIOUS
  <2> HIDE DEF K
  <2>2. Shared => \A i \in 1..Len(q) : q[i].kind \in K
    BY <1>4 DEF K
  <2> QED
    BY <1>5, <2>1, <2>2
<1> QED
  BY <1>4, <1>5, <1>6, <1>7 DEF q, w

(* An exception ends a source: its chunks stay where they are.              *)
LEMMA FlowOfRaise ==
  ASSUME TypeEvents, NEW s \in Sources, FlowInv(s), Failing(s), made'[s] = made[s],
         UNCHANGED <<inq, modelEv, retired>>, pc[s] # "crashed"
  PROVE  FlowInv(s)'
<1>1. /\ Answers(outq'[s]) = Answers(outq[s]) /\ InOrder(outq'[s])
      /\ Shared => \A i \in 1..Len(outq'[s]) : outq'[s][i].kind \in {"drop", "fatal", "failed"}
      /\ \A i \in 1..Len(outq'[s]) : outq'[s][i].kind # "stopped"
  BY FailingPuts
<1>2. /\ (Terminal(s)' <=> Terminal(s)) /\ LastKind(s)' = LastKind(s)
      /\ Told(s)' = Told(s) /\ (Shared' <=> Shared)
  BY SessionStays DEF Failing
<1>3. /\ Sent(s)' = Sent(s) /\ Held(s)' = Held(s) /\ Waiting(s)' = Waiting(s) /\ Due(s)' = Due(s)
      /\ Over(s)' /\ ~Over(s)
  BY <1>1 DEF Failing, Sent, Held, Waiting, Due, Over
<1>4. /\ ~HasEnd(inq, s) /\ ~HasEnd(modelEv, s) /\ LastKind(s) # "stopped"
  BY <1>3, NoEndYet
<1>5. RowInv(s) /\ LineInv(s) /\ EndInv(s) /\ KeptInv(s)
  BY DEF FlowInv
<1>6. RowInv(s)'
  BY <1>2, <1>3, <1>5, RowShrinks
<1>7. LineInv(s)'
  BY <1>1, <1>5 DEF LineInv, Failing
<1>8. EndInv(s)'
  BY <1>1, <1>2, <1>3, <1>4 DEF EndInv
<1>9. Answering(s)' => Answering(s)
  BY <1>2 DEF Answering
<1>10. KeptInv(s)'
  BY <1>2, <1>3, <1>5, <1>9 DEF KeptInv
<1> QED
  BY <1>6, <1>7, <1>8, <1>10 DEF FlowInv

(* A source that retires takes its chunks with it.                          *)
LEMMA FlowOfRetire ==
  ASSUME TypeSources, TypeEvents, NEW s \in Sources, FlowInv(s), Failing(s), Shared,
         made'[s] = made[s] \/ made'[s] = made[s] + 1,
         NEW R, inq' \in Seq(R), modelEv' \in Seq(R),
         Gone(inq', s), Gone(modelEv', s), s \in retired'
  PROVE  FlowInv(s)'
<1>1. /\ Answers(outq'[s]) = Answers(outq[s]) /\ InOrder(outq'[s])
      /\ \A i \in 1..Len(outq'[s]) : outq'[s][i].kind \in {"drop", "fatal", "failed"}
      /\ \A i \in 1..Len(outq'[s]) : outq'[s][i].kind # "stopped"
  BY FailingPuts
<1>2. /\ (Terminal(s)' <=> Terminal(s)) /\ LastKind(s)' = LastKind(s)
      /\ Told(s)' = Told(s) /\ (Shared' <=> Shared)
  BY SessionStays DEF Failing
<1>3. /\ Body(inq', s, "chunk") = {} /\ Body(modelEv', s, "answer") = {}
      /\ ~HasEnd(inq', s) /\ ~HasEnd(modelEv', s) /\ Lined(inq', s) /\ Lined(modelEv', s)
  BY GoneEmpty
<1>4. Sent(s)' \subseteq Sent(s) /\ Held(s)' = Held(s) /\ Over(s)' /\ ~Over(s)
  BY <1>1, <1>3 DEF Failing, Sent, Held, Over
<1>5. made[s] \in Nat /\ made'[s] \in Nat /\ made[s] <= made'[s] /\ local'[s] = 0
  BY ProcessNames DEF TypeSources, Failing
<1>6. Waiting(s)' = {} /\ Due(s) \subseteq Due(s)'
  <2>1. {n \in 1..made[s] : n > made[s] - local[s]}' = {}
    BY <1>5
  <2>2. 1..made[s] \subseteq 1..made'[s]
    BY <1>5
  <2> QED
    BY <1>3, <2>1, <2>2 DEF Waiting, Due, Failing
<1>7. LastKind(s) # "stopped"
  BY <1>4, NoEndYet
<1>8. RowInv(s) /\ LineInv(s) /\ EndInv(s) /\ KeptInv(s)
  BY DEF FlowInv
<1>9. RowInv(s)'
  BY <1>2, <1>4, <1>6, <1>8, RowShrinks
<1>10. LineInv(s)'
  BY <1>1, <1>3, <1>8 DEF LineInv, Failing
<1>11. EndInv(s)'
  BY <1>1, <1>2, <1>3, <1>7 DEF EndInv
<1>12. KeptInv(s)'
  BY <1>2, <1>3, <1>7 DEF KeptInv, Answering
<1> QED
  BY <1>9, <1>10, <1>11, <1>12 DEF FlowInv

(* A source that dies loses at most what it had put and the pipe had not.   *)
LEMMA FlowOfCrash ==
  ASSUME TypeEvents, NEW s \in Sources, FlowInv(s), NEW n \in 0..Len(outq[s]),
         outq'[s] = SubSeq(outq[s], 1, n), pc'[s] = "crashed", topology' = topology,
         made'[s] = made[s], dropped'[s] = dropped[s], local'[s] = local[s], results'[s] = results[s],
         UNCHANGED <<inq, modelEv, retired, working>>
  PROVE  FlowInv(s)'
<1> DEFINE q == outq[s]
           w == outq'[s]
<1>1. /\ w \in Seq(Events) /\ Len(w) = n /\ \A i \in 1..Len(w) : w[i] = q[i] /\ i \in 1..Len(q)
      /\ n = Len(q) => w = q
      /\ Answers(w) \subseteq Answers(q) /\ (InOrder(q) => InOrder(w))
      /\ Len(q) \in Nat /\ n \in Nat /\ n <= Len(q)
  <2>1. q \in Seq(Events)
    BY DEF TypeEvents
  <2>2. Len(q) \in Nat
    BY <2>1
  <2> QED
    BY <2>1, <2>2, EventsPrefix
<1>2. /\ (Terminal(s)' <=> Terminal(s)) /\ LastKind(s)' = LastKind(s)
      /\ Told(s)' = Told(s) /\ (Shared' <=> Shared)
  BY SessionStays
<1>3. /\ Sent(s)' \subseteq Sent(s) /\ Held(s)' = Held(s) /\ Waiting(s)' = Waiting(s)
      /\ Due(s)' = Due(s) /\ Over(s)'
  BY <1>1 DEF Sent, Held, Waiting, Due, Over
<1>4. RowInv(s) /\ LineInv(s) /\ EndInv(s) /\ KeptInv(s)
  BY DEF FlowInv
<1>5. RowInv(s)'
  BY <1>2, <1>3, <1>4, RowShrinks
<1>6. LineInv(s)'
  BY <1>1, <1>4 DEF LineInv
<1>7. /\ \A i \in 1..Len(q) : q[i].kind = "stopped" => i = Len(q) /\ local[s] = 0
      /\ Shared => \A i \in 1..Len(q) : q[i].kind \in {"drop", "fatal", "failed"}
  BY <1>4 DEF EndInv
<1> HIDE DEF q, w
<1>8. \A i \in 1..Len(w) : w[i].kind = "stopped" => i = Len(w) /\ local[s] = 0 /\ w = q
  <2> SUFFICES ASSUME NEW i \in 1..Len(w), w[i].kind = "stopped"
               PROVE  i = Len(w) /\ local[s] = 0 /\ w = q
    OBVIOUS
  <2>1. i = Len(q) /\ local[s] = 0
    BY <1>1, <1>7
  <2> QED
    BY <1>1, <2>1
<1>9. Shared => \A i \in 1..Len(w) : w[i].kind \in {"drop", "fatal", "failed"}
  BY <1>1, <1>7
<1>10. EndInv(s)'
  BY <1>2, <1>3, <1>4, <1>8, <1>9 DEF EndInv, w
<1>11. Answering(s)' => Answering(s) /\ Answers(w) = Answers(q)
  <2>1. CASE Shared
    <3>1. \A i \in 1..Len(q) : q[i].kind # "answer"
      BY <1>7, <2>1
    <3>2. Answers(q) = {}
      <4>1. q \in Seq(Events)
        BY DEF q, TypeEvents
      <4>2. \A k \in Answers(q) : \E i \in 1..Len(q) : q[i].kind = "answer" /\ q[i].chunk = k
        BY <4>1, AnswersAt
      <4> QED
        BY <3>1, <4>2
    <3> QED
      BY <1>1, <1>2, <2>1, <3>2 DEF Answering
  <2>2. CASE ~Shared
    <3>1. Answering(s)' => HasKind(w, {"stopped"})
      BY <1>2, <2>2 DEF Answering, w
    <3>2. HasKind(w, {"stopped"}) => w = q
      BY <1>8 DEF HasKind
    <3> QED
      BY <2>2, <3>1, <3>2 DEF Answering, w, q
  <2> QED
    BY <2>1, <2>2
<1>12. KeptInv(s)'
  <2>1. Answering(s)' => Sent(s)' = Sent(s)
    BY <1>11 DEF Sent, w, q
  <2> QED
    BY <1>2, <1>3, <1>4, <1>11, <2>1 DEF KeptInv
<1> QED
  BY <1>5, <1>6, <1>10, <1>12 DEF FlowInv

(* A source reaches its end: shared, its completion queues behind its chunks; by itself,  *)
(* it has answered them all.                                                *)
LEMMA FlowOfComplete ==
  ASSUME TypeSources, TypeEvents, TypeModel, TypePc, NEW s \in Sources, FlowInv(s), Complete(s)
  PROVE  FlowInv(s)'
<1> DEFINE x == Item("complete", s, made[s])
           y == Event("stopped", made[s])
           q == outq[s]
           w == outq'[s]
<1>1. /\ UNCHANGED <<topology, made, dropped, local, modelEv, retired, working, results>>
      /\ pc[s] = "drain" /\ Goto(s, "exit")
      /\ Shared => FifoPut(x) /\ outq' = outq
      /\ ~Shared => local[s] = 0 /\ Put(s, <<y>>) /\ inq' = inq
  BY DEF Complete, dispatch, worker
<1>2. pc'[s] = "exit" /\ Over(s)' /\ ~Over(s)
  BY <1>1, ProcessNames DEF TypePc, Goto, Over
<1>3. /\ x \in Items /\ x.source = s /\ x.kind = "complete"
      /\ y \in Events /\ <<y>> \in Seq(Events) /\ y.kind = "stopped"
  <2>1. made[s] \in 0..Chunks
    BY DEF TypeSources
  <2> QED
    BY <2>1, EventKinds DEF Items, Item
<1>4. /\ (Terminal(s)' <=> Terminal(s)) /\ LastKind(s)' = LastKind(s)
      /\ Told(s)' = Told(s) /\ (Shared' <=> Shared)
  BY <1>1, SessionStays
<1>5. /\ ~HasEnd(inq, s) /\ ~HasEnd(modelEv, s) /\ LastKind(s) # "stopped"
      /\ \A i \in 1..Len(outq[s]) : outq[s][i].kind # "stopped"
  BY <1>2, NoEndYet
<1>6. RowInv(s) /\ LineInv(s) /\ EndInv(s) /\ KeptInv(s)
  BY DEF FlowInv
<1> HIDE DEF x, y
<1>7. CASE Shared
  <2>1. inq' = Append(inq, x) /\ outq' = outq
    BY <1>1, <1>3, <1>7, FifoMoves
  <2>2. {n \in 0..Chunks : x = Item("chunk", s, n)} = {}
    BY <1>3 DEF Item
  <2>3. Body(inq', s, "chunk") = Body(inq, s, "chunk")
    BY <1>3, <2>1, <2>2, AppendFifo
  <2>4. Lined(inq', s)
    BY <1>3, <1>5, <1>6, <2>1, AppendFifo DEF LineInv
  <2>5. /\ Sent(s)' = Sent(s) /\ Held(s)' = Held(s) /\ Waiting(s)' = Waiting(s) /\ Due(s)' = Due(s)
        /\ (Answering(s)' <=> Answering(s))
    BY <1>1, <1>4, <1>7, <2>1, <2>3 DEF Sent, Held, Waiting, Due, Answering
  <2>6. RowInv(s)'
    BY <1>4, <1>6, <2>5, RowShrinks
  <2>7. LineInv(s)'
    BY <1>1, <1>6, <2>1, <2>4 DEF LineInv
  <2>8. EndInv(s)'
    BY <1>1, <1>2, <1>4, <1>5, <1>6, <2>1 DEF EndInv
  <2>9. KeptInv(s)'
    BY <1>4, <1>6, <2>5 DEF KeptInv
  <2> QED
    BY <2>6, <2>7, <2>8, <2>9 DEF FlowInv
<1>8. CASE ~Shared
  <2>1. q \in Seq(Events) /\ w = q \o <<y>> /\ inq' = inq /\ local[s] = 0
    BY <1>1, <1>3, <1>8, PutMoves DEF TypeEvents
  <2>2. Answers(w) = Answers(q) /\ (InOrder(q) => InOrder(w))
    BY <1>3, <2>1, PutNoAnswer
  <2>3. \A i \in 1..Len(w) : w[i].kind = "stopped" => i = Len(w)
    <3>1. w \in Seq(Events) /\ Len(w) = Len(q) + 1 /\ \A i \in 1..Len(q) : w[i] = q[i]
      BY <1>3, <2>1, EventsAppend
    <3>2. Len(q) \in Nat
      BY <2>1
    <3> HIDE DEF q, w
    <3>3. \A i \in 1..Len(w) : i \in 1..Len(q) \/ i = Len(w)
      BY <3>1, <3>2
    <3>4. \A i \in 1..Len(q) : q[i].kind # "stopped"
      BY <1>5 DEF q
    <3> QED
      BY <3>1, <3>3, <3>4
  <2>4. /\ Sent(s)' = Sent(s) /\ Held(s)' = Held(s) /\ Waiting(s)' = Waiting(s) /\ Due(s)' = Due(s)
    BY <1>1, <2>1, <2>2 DEF Sent, Held, Waiting, Due
  <2>5. RowInv(s)'
    BY <1>4, <1>6, <2>4, RowShrinks
  <2>6. LineInv(s)'
    BY <1>1, <1>6, <2>1, <2>2 DEF LineInv
  <2>7. EndInv(s)'
    BY <1>1, <1>2, <1>4, <1>5, <1>8, <2>1, <2>3 DEF EndInv
  <2>8. Answering(s)
    BY <1>1, <1>8 DEF Answering
  <2>9. KeptInv(s)'
    BY <1>4, <1>6, <2>4, <2>8 DEF KeptInv
  <2> QED
    BY <2>5, <2>6, <2>7, <2>9 DEF FlowInv
<1> QED
  BY <1>7, <1>8

(* A per-input session answers its first chunk.                             *)
LEMMA FlowOfLocalAnswer ==
  ASSUME TypeSources, TypeEvents, HandInv, NEW s \in Sources, FlowInv(s), AnswerLocal(s)
  PROVE  FlowInv(s)'
<1> DEFINE n == made[s] - local[s] + 1
           x == Event("answer", n)
           q == outq[s]
           w == outq'[s]
           L == {m \in 1..made[s] : m > made[s] - local[s]}
<1>1. /\ UNCHANGED <<topology, pc, made, dropped, inq, modelEv, retired, working, results>>
      /\ pc[s] \in {"capture", "drain"} /\ ~Shared /\ local[s] > 0
      /\ local' = [local EXCEPT ![s] = @ - 1] /\ Put(s, <<x>>)
  BY DEF AnswerLocal, dispatch, worker, fifo
<1>2. /\ local'[s] = local[s] - 1 /\ made'[s] = made[s] /\ n \in 0..Chunks /\ n \in Nat
      /\ made[s] \in Nat
  BY <1>1, ProcessNames DEF TypeSources
<1>3. x \in Events /\ <<x>> \in Seq(Events) /\ x.kind = "answer" /\ x.chunk = n
  BY <1>2, EventKinds
<1>4. /\ {m \in 1..made[s] : m > made[s] - local[s]}' = L \ {n} /\ n \in L /\ \A m \in L : n <= m
  BY <1>1, <1>2, LocalChunks
<1>5. Body(inq, s, "chunk") = {} /\ Body(modelEv, s, "answer") = {} /\ Held(s) = {}
  <2>1. inq = <<>> /\ modelEv = <<>> /\ working = NoItem
    BY <1>1 DEF HandInv
  <2>2. Gone(inq, s) /\ Gone(modelEv, s) /\ inq \in Seq(Items) /\ modelEv \in Seq(Items)
    BY <2>1 DEF Gone
  <2> QED
    BY <2>1, <2>2, GoneEmpty DEF Held, Item, NoItem
<1>6. q \in Seq(Events) /\ w = q \o <<x>>
  <2> HIDE DEF x
  <2> QED
    BY <1>1, <1>3, PutMoves DEF TypeEvents
<1>7. RowInv(s) /\ LineInv(s) /\ EndInv(s) /\ KeptInv(s)
  BY DEF FlowInv
<1>8. Sent(s) = Answers(q) /\ Waiting(s) = L
  BY <1>5 DEF Sent, Waiting
<1> HIDE DEF x, q, w, L, n
<1>9. {m \in 0..Chunks : x.kind = "answer" /\ x.chunk = m} = {n}
  BY <1>2, <1>3
<1>10. \A m \in Answers(q) : m < n
  BY <1>4, <1>7, <1>8 DEF RowInv, Before
<1>11. Answers(w) = Answers(q) \union {n} /\ InOrder(w)
  <2>1. Answers(w) = Answers(q) \union {m \in 0..Chunks : x.kind = "answer" /\ x.chunk = m}
    BY <1>3, <1>6, EventsAppend
  <2>2. InOrder(q) => InOrder(w)
    BY <1>3, <1>6, <1>10, EventsAppend
  <2>3. InOrder(q)
    BY <1>7 DEF LineInv, q
  <2> QED
    BY <1>9, <2>1, <2>2, <2>3
<1>12. /\ (Terminal(s)' <=> Terminal(s)) /\ LastKind(s)' = LastKind(s)
       /\ Told(s)' = Told(s) /\ (Shared' <=> Shared)
  BY <1>1, SessionStays
<1>13. /\ Held(s)' = {} /\ Due(s)' = Due(s)
       /\ (Over(s)' <=> Over(s)) /\ ~Over(s)
  BY <1>1, <1>5 DEF Held, Due, Over
<1>14. Sent(s)' = Sent(s) \union {n}
  BY <1>1, <1>5, <1>8, <1>11 DEF Sent, w, q
<1>15. Waiting(s)' = Waiting(s) \ {n}
  BY <1>1, <1>4, <1>5, <1>8 DEF Waiting
<1>16. n \in Waiting(s) /\ (\A m \in Waiting(s) : n <= m) /\ Held(s) = {}
  BY <1>4, <1>5, <1>8
<1>17. \A m \in Told(s) \union Sent(s) \union Held(s) \union Waiting(s) : m \in Nat
  BY <1>7, RowNumbers
<1>18. RowInv(s)'
  <2>1. Before(Told(s), Sent(s)') /\ Before(Sent(s)', Waiting(s)')
    <3>1. \A m \in Waiting(s)' : m \in Waiting(s) /\ n < m
      BY <1>2, <1>15, <1>16, <1>17
    <3>2. \A m \in Told(s) : m < n
      BY <1>7, <1>16 DEF RowInv, Before
    <3> QED
      BY <1>7, <1>14, <3>1, <3>2 DEF RowInv, Before
  <2>2. Before(Told(s), Waiting(s)')
    BY <1>7, <1>15 DEF RowInv, Before
  <2>3. /\ Before(Told(s), Held(s)') /\ Before(Sent(s)', Held(s)') /\ Before(Held(s)', Waiting(s)')
    BY <1>13 DEF Before
  <2>4. Told(s) \subseteq Due(s) /\ Sent(s)' \subseteq Due(s) /\ Waiting(s)' \subseteq Due(s)
    BY <1>7, <1>14, <1>15, <1>16 DEF RowInv
  <2> QED
    BY <1>12, <1>13, <2>1, <2>2, <2>3, <2>4 DEF RowInv
<1>19. LineInv(s)'
  BY <1>1, <1>7, <1>11 DEF LineInv, w
<1>20. ~HasEnd(inq, s) /\ ~HasEnd(modelEv, s) /\ LastKind(s) # "stopped" /\ \A i \in 1..Len(q) : q[i].kind # "stopped"
  BY <1>13, NoEndYet DEF q
<1>21. \A i \in 1..Len(w) : w[i].kind # "stopped"
  <2>1. w \in Seq(Events) /\ Len(w) = Len(q) + 1 /\ w[Len(w)] = x /\ \A i \in 1..Len(q) : w[i] = q[i]
    BY <1>3, <1>6, EventsAppend
  <2>2. Len(q) \in Nat
    BY <1>6
  <2>3. \A i \in 1..Len(w) : i \in 1..Len(q) \/ i = Len(w)
    BY <2>1, <2>2
  <2> QED
    BY <1>3, <1>20, <2>1, <2>3
<1>22. EndInv(s)'
  BY <1>1, <1>12, <1>13, <1>20, <1>21 DEF EndInv, w
<1>23. Answering(s)
  BY <1>1 DEF Answering
<1>24. KeptInv(s)'
  BY <1>7, <1>12, <1>13, <1>14, <1>15, <1>16, <1>20, <1>23 DEF KeptInv
<1> QED
  BY <1>18, <1>19, <1>22, <1>24 DEF FlowInv

(* The first chunk on its way to a session reaches it.                      *)
LEMMA RowOfTell ==
  ASSUME TypeSources, NEW s \in Sources, RowInv(s), NEW n \in Sent(s), \A m \in Sent(s) : n <= m,
         Told(s)' = Told(s) \union {n}, Sent(s)' = Sent(s) \ {n},
         Held(s)' = Held(s), Waiting(s)' = Waiting(s), Due(s)' = Due(s)
  PROVE  RowInv(s)'
<1>1. \A m \in Told(s) \union Sent(s) \union Held(s) \union Waiting(s) : m \in Nat
  BY RowNumbers
<1>2. \A m \in Sent(s)' : n < m
  BY <1>1
<1>3. \A m \in Held(s) \union Waiting(s) : n < m
  BY DEF RowInv, Before
<1>4. /\ Before(Told(s)', Sent(s)') /\ Before(Told(s)', Held(s)') /\ Before(Told(s)', Waiting(s)')
  BY <1>2, <1>3 DEF RowInv, Before
<1>5. /\ Before(Sent(s)', Held(s)') /\ Before(Sent(s)', Waiting(s)') /\ Before(Held(s)', Waiting(s)')
  BY DEF RowInv, Before
<1>6. /\ Told(s)' \subseteq Due(s)' /\ Sent(s)' \subseteq Due(s)'
      /\ Held(s)' \subseteq Due(s)' /\ Waiting(s)' \subseteq Due(s)'
  BY DEF RowInv
<1> QED
  BY <1>4, <1>5, <1>6 DEF RowInv

(* The chunk the model had is answered.                                     *)
LEMMA RowOfSend ==
  ASSUME NEW s \in Sources, RowInv(s), NEW n, Held(s) = {n}, Held(s)' = {},
         Told(s)' = Told(s), Sent(s)' = Sent(s) \union {n},
         Waiting(s)' = Waiting(s), Due(s)' = Due(s)
  PROVE  RowInv(s)'
<1>1. /\ Before(Told(s)', Held(s)') /\ Before(Sent(s)', Held(s)') /\ Before(Held(s)', Waiting(s)')
  BY DEF Before
<1>2. /\ Before(Told(s)', Sent(s)') /\ Before(Told(s)', Waiting(s)') /\ Before(Sent(s)', Waiting(s)')
  BY DEF RowInv, Before
<1>3. /\ Told(s)' \subseteq Due(s)' /\ Sent(s)' \subseteq Due(s)'
      /\ Held(s)' \subseteq Due(s)' /\ Waiting(s)' \subseteq Due(s)'
  BY DEF RowInv
<1> QED
  BY <1>1, <1>2, <1>3 DEF RowInv

(* The model takes the first chunk that waits.                              *)
LEMMA RowOfTake ==
  ASSUME NEW s \in Sources, RowInv(s), NEW n \in Waiting(s), \A m \in Waiting(s) : m = n \/ n < m,
         Held(s) = {}, Held(s)' = {n}, Told(s)' = Told(s), Sent(s)' = Sent(s),
         Waiting(s)' = Waiting(s) \ {n}, Due(s)' = Due(s)
  PROVE  RowInv(s)'
<1>1. /\ Before(Told(s)', Held(s)') /\ Before(Sent(s)', Held(s)') /\ Before(Held(s)', Waiting(s)')
  BY DEF RowInv, Before
<1>2. /\ Before(Told(s)', Sent(s)') /\ Before(Told(s)', Waiting(s)') /\ Before(Sent(s)', Waiting(s)')
  BY DEF RowInv, Before
<1>3. /\ Told(s)' \subseteq Due(s)' /\ Sent(s)' \subseteq Due(s)'
      /\ Held(s)' \subseteq Due(s)' /\ Waiting(s)' \subseteq Due(s)'
  BY DEF RowInv
<1> QED
  BY <1>1, <1>2, <1>3 DEF RowInv

(* The FIFO without its first item.                                         *)
LEMMA TailFifo ==
  ASSUME TypeModel, inq # <<>>, inq' = Tail(inq), NEW t \in Sources
  PROVE  LET h == Head(inq)
         IN  /\ h \in Items
             /\ h.source = t /\ h.kind = "chunk" =>
                  /\ Body(inq, t, "chunk") = Body(inq', t, "chunk") \union {h.chunk}
                  /\ Lined(inq, t) => \A m \in Body(inq', t, "chunk") : h.chunk < m
             /\ h.source # t \/ h.kind # "chunk" => Body(inq', t, "chunk") = Body(inq, t, "chunk")
             /\ HasEnd(inq, t) <=> (HasEnd(inq', t) \/ (h.source = t /\ h.kind = "complete"))
             /\ Gone(inq, t) => Gone(inq', t) /\ h.source # t
             /\ Lined(inq, t) =>
                  /\ Lined(inq', t)
                  /\ h.source = t /\ h.kind = "complete" => Gone(inq', t)
<1> DEFINE h == Head(inq)
           w == Tail(inq)
           S == {n \in 0..Chunks : h = Item("chunk", t, n)}
<1>1. /\ inq \in Seq(Records("chunk", "complete"))
      /\ "chunk" \in BodyKinds /\ "complete" \in EndKinds /\ Items = Records("chunk", "complete")
  BY FifoOfRecords, QueuesOfRecords
<1>2. /\ h \in Records("chunk", "complete")
      /\ Body(inq, t, "chunk") = Body(w, t, "chunk") \union S
      /\ HasEnd(inq, t) <=> (HasEnd(w, t) \/ (h.source = t /\ h.kind = "complete"))
      /\ Gone(inq, t) => Gone(w, t) /\ h.source # t
      /\ Lined(inq, t) =>
           /\ Lined(w, t)
           /\ h.source = t /\ h.kind = "chunk" => \A m \in Body(w, t, "chunk") : h.chunk < m
           /\ h.source = t /\ h.kind = "complete" => Gone(w, t)
  BY <1>1, QueueTail
<1>3. /\ h.source = t /\ h.kind = "chunk" => S = {h.chunk}
      /\ h.source # t \/ h.kind # "chunk" => S = {}
  BY <1>1, <1>2, ChunkOf
<1>4. inq' = w
  OBVIOUS
<1> HIDE DEF h, w, S
<1> QED
  BY <1>1, <1>2, <1>3, <1>4 DEF h

(* The model's events without the first.                                    *)
LEMMA TailEvents ==
  ASSUME TypeModel, modelEv # <<>>, modelEv' = Tail(modelEv), NEW t \in Sources
  PROVE  LET h == Head(modelEv)
         IN  /\ h \in ModelEvents
             /\ h.source = t /\ h.kind = "answer" =>
                  /\ Body(modelEv, t, "answer") = Body(modelEv', t, "answer") \union {h.chunk}
                  /\ Lined(modelEv, t) => \A m \in Body(modelEv', t, "answer") : h.chunk < m
             /\ h.source # t \/ h.kind # "answer" => Body(modelEv', t, "answer") = Body(modelEv, t, "answer")
             /\ HasEnd(modelEv, t) <=> (HasEnd(modelEv', t) \/ (h.source = t /\ h.kind = "stopped"))
             /\ Lined(modelEv, t) =>
                  /\ Lined(modelEv', t)
                  /\ h.source = t /\ h.kind = "stopped" => Gone(modelEv', t)
<1> DEFINE h == Head(modelEv)
           w == Tail(modelEv)
           S == {n \in 0..Chunks : h = Item("answer", t, n)}
<1>1. /\ modelEv \in Seq(Records("answer", "stopped"))
      /\ "answer" \in BodyKinds /\ "stopped" \in EndKinds /\ ModelEvents = Records("answer", "stopped")
  BY FifoOfRecords, QueuesOfRecords
<1>2. /\ h \in Records("answer", "stopped")
      /\ Body(modelEv, t, "answer") = Body(w, t, "answer") \union S
      /\ HasEnd(modelEv, t) <=> (HasEnd(w, t) \/ (h.source = t /\ h.kind = "stopped"))
      /\ Lined(modelEv, t) =>
           /\ Lined(w, t)
           /\ h.source = t /\ h.kind = "answer" => \A m \in Body(w, t, "answer") : h.chunk < m
           /\ h.source = t /\ h.kind = "stopped" => Gone(w, t)
  BY <1>1, QueueTail
<1>3. /\ h.source = t /\ h.kind = "answer" => S = {h.chunk}
      /\ h.source # t \/ h.kind # "answer" => S = {}
  <2> HIDE DEF h, w
  <2> QED
    BY <1>1, <1>2, ChunkOf
<1>4. modelEv' = w
  OBVIOUS
<1> HIDE DEF h, w, S
<1> QED
  BY <1>1, <1>2, <1>3, <1>4 DEF h

(* An item becomes an event of the same source and chunk.                   *)
LEMMA PassedOn ==
  ASSUME NEW h \in Items, NEW kind \in {"answer", "stopped"}
  PROVE  LET x == [h EXCEPT !.kind = kind]
         IN  x \in ModelEvents /\ x.source = h.source /\ x.kind = kind /\ x.chunk = h.chunk
BY DEF Items, ModelEvents

(* What the model process has in hand.                                      *)
LEMMA InHand ==
  ASSUME TypeModel, HandInv, NEW t \in Sources
  PROVE  /\ working = NoItem => Held(t) = {}
         /\ working # NoItem =>
              /\ working \in Items /\ working.kind = "chunk" /\ working.source \in Sources
              /\ Held(t) = IF working.source = t THEN {working.chunk} ELSE {}
<1>1. ASSUME working = NoItem PROVE Held(t) = {}
  BY <1>1 DEF Held, NoItem, Item
<1>2. ASSUME working # NoItem
      PROVE  /\ working \in Items /\ working.kind = "chunk" /\ working.source \in Sources
             /\ Held(t) = IF working.source = t THEN {working.chunk} ELSE {}
  <2>1. working \in Items /\ working.source \in Sources
    BY <1>2 DEF TypeModel, Items
  <2>2. working.kind = "chunk"
    BY <2>1 DEF HandInv, Items
  <2>3. working \in Records("chunk", "complete") /\ "chunk" \in BodyKinds /\ "complete" \in EndKinds
    BY <2>1, FifoOfRecords, QueuesOfRecords
  <2>4. Held(t) = IF working.source = t THEN {working.chunk} ELSE {}
    BY <2>2, <2>3, ChunkOf DEF Held
  <2> QED
    BY <2>1, <2>2, <2>4
<1> QED
  BY <1>1, <1>2

\* What the model process does to the source of the item it works on.
ModelSide(s) ==
  /\ UNCHANGED <<topology, made, dropped, local, outq, results>>
  /\ pc'[s] = pc[s]

(* It takes a chunk.                                                        *)
LEMMA FlowOfTake ==
  ASSUME TypeSources, TypeModel, HandInv, NEW s \in Sources, FlowInv(s), ModelSide(s),
         inq # <<>>, inq' = Tail(inq), Head(inq).source = s, Head(inq).kind = "chunk",
         working = NoItem, working' = Head(inq), UNCHANGED <<modelEv, retired>>
  PROVE  FlowInv(s)'
<1> DEFINE h == Head(inq)
           n == h.chunk
<1>1. RowInv(s) /\ LineInv(s) /\ EndInv(s) /\ KeptInv(s)
  BY DEF FlowInv
<1>2. /\ h \in Items
      /\ Body(inq, s, "chunk") = Body(inq', s, "chunk") \union {n}
      /\ \A m \in Body(inq', s, "chunk") : n < m
      /\ Lined(inq', s) /\ ~Gone(inq, s) /\ (HasEnd(inq', s) => HasEnd(inq, s))
  BY <1>1, TailFifo DEF LineInv
<1>3. /\ (Terminal(s)' <=> Terminal(s)) /\ LastKind(s)' = LastKind(s)
      /\ Told(s)' = Told(s) /\ (Shared' <=> Shared)
  BY SessionStays DEF ModelSide
<1>4. Shared
  BY DEF HandInv
<1>5. {m \in 1..made[s] : m > made[s] - local[s]} = {} /\ {m \in 1..made[s] : m > made[s] - local[s]}' = {}
  <2>1. local[s] = 0
    BY <1>4, ProcessNames DEF TypeSources
  <2> QED
    BY <2>1, LocalChunks DEF ModelSide
<1>6. Held(s) = {}
  BY InHand
<1>7. Held(s)' = {n}
  <2>1. h \in Records("chunk", "complete") /\ "chunk" \in BodyKinds /\ "complete" \in EndKinds
    BY <1>2, FifoOfRecords, QueuesOfRecords
  <2>2. {m \in 0..Chunks : h = Item("chunk", s, m)} = {n}
    BY <2>1, ChunkOf
  <2> QED
    BY <2>2 DEF Held
<1> HIDE DEF h, n
<1>8. n \notin Body(inq', s, "chunk")
  <2>1. n \in Nat
    BY <1>1, <1>2, RowNumbers DEF Waiting
  <2> QED
    BY <1>2, <2>1
<1>9. n \in Waiting(s) /\ (\A m \in Waiting(s) : m = n \/ n < m) /\ Waiting(s)' = Waiting(s) \ {n}
  BY <1>2, <1>5, <1>8 DEF Waiting
<1>10. /\ Sent(s)' = Sent(s) /\ Due(s)' = Due(s)
       /\ (Over(s)' <=> Over(s)) /\ (Answering(s)' <=> Answering(s))
  BY <1>3 DEF ModelSide, Sent, Due, Over, Answering
<1>11. RowInv(s)'
  BY <1>1, <1>3, <1>6, <1>7, <1>9, <1>10, RowOfTake
<1>12. LineInv(s)'
  BY <1>1, <1>2 DEF LineInv, ModelSide
<1>13. ~HasEnd(modelEv, s)
  BY <1>1, <1>2 DEF EndInv
<1>14. EndInv(s)'
  BY <1>1, <1>2, <1>3, <1>10, <1>13 DEF EndInv, ModelSide
<1>15. KeptInv(s)'
  BY <1>1, <1>3, <1>6, <1>7, <1>9, <1>10 DEF KeptInv
<1> QED
  BY <1>11, <1>12, <1>14, <1>15 DEF FlowInv

(* It passes on the end of a source that has not retired.                   *)
LEMMA FlowOfPassOn ==
  ASSUME TypeSources, TypeModel, HandInv, NEW s \in Sources, FlowInv(s), ModelSide(s),
         inq # <<>>, inq' = Tail(inq), Head(inq).source = s, Head(inq).kind = "complete",
         working = NoItem, working' = working, s \notin retired,
         NEW x \in ModelEvents, x.source = s, x.kind = "stopped", modelEv' = Append(modelEv, x)
  PROVE  FlowInv(s)'
<1>1. RowInv(s) /\ LineInv(s) /\ EndInv(s) /\ KeptInv(s)
  BY DEF FlowInv
<1>2. /\ Body(inq', s, "chunk") = Body(inq, s, "chunk")
      /\ Gone(inq', s) /\ HasEnd(inq, s) /\ Lined(inq', s)
  BY <1>1, TailFifo DEF LineInv
<1>3. Over(s) /\ ~HasEnd(modelEv, s)
  BY <1>1, <1>2 DEF EndInv
<1>4. ~HasEnd(inq', s)
  BY <1>2 DEF Gone, HasEnd
<1>5. /\ Body(modelEv', s, "answer") = Body(modelEv, s, "answer") /\ HasEnd(modelEv', s)
      /\ Lined(modelEv', s)
  <2>1. {n \in 0..Chunks : x = Item("answer", s, n)} = {}
    BY DEF Item
  <2>2. Body(modelEv', s, "answer") = Body(modelEv, s, "answer") \union {n \in 0..Chunks : x = Item("answer", s, n)}
    BY AppendEvents
  <2>3. HasEnd(modelEv', s) /\ (Lined(modelEv, s) => Lined(modelEv', s))
    BY <1>3, AppendEvents
  <2> QED
    BY <1>1, <2>1, <2>2, <2>3 DEF LineInv
<1>6. /\ (Terminal(s)' <=> Terminal(s)) /\ LastKind(s)' = LastKind(s)
      /\ Told(s)' = Told(s) /\ (Shared' <=> Shared)
  BY SessionStays DEF ModelSide
<1>7. /\ Held(s) = {} /\ Held(s)' = {} /\ Sent(s)' = Sent(s) /\ Waiting(s)' = Waiting(s)
      /\ Due(s)' = Due(s) /\ Over(s)'
  BY <1>2, <1>3, <1>5, InHand DEF ModelSide, Held, Sent, Waiting, Due, Over
<1>8. RowInv(s)'
  BY <1>1, <1>6, <1>7, RowShrinks
<1>9. LineInv(s)'
  BY <1>1, <1>2, <1>5 DEF LineInv, ModelSide
<1>10. EndInv(s)'
  BY <1>1, <1>2, <1>4, <1>6, <1>7 DEF EndInv, ModelSide
<1>11. Shared
  BY DEF HandInv
<1>12. KeptInv(s)'
  BY <1>1, <1>6, <1>7, <1>11 DEF KeptInv, Answering
<1> QED
  BY <1>8, <1>9, <1>10, <1>12 DEF FlowInv

(* The end of one that has goes nowhere.                                    *)
LEMMA FlowOfRefusedEnd ==
  ASSUME TypeSources, TypeModel, HandInv, NEW s \in Sources, FlowInv(s), ModelSide(s),
         inq # <<>>, inq' = Tail(inq), Head(inq).source = s, Head(inq).kind = "complete",
         UNCHANGED <<working, modelEv, retired>>
  PROVE  FlowInv(s)'
<1>1. /\ Body(inq', s, "chunk") = Body(inq, s, "chunk") /\ (Lined(inq, s) => Lined(inq', s))
      /\ (HasEnd(inq', s) => HasEnd(inq, s)) /\ (Gone(inq, s) => Gone(inq', s))
  BY TailFifo
<1>2. FifoKeeps(s)
  BY <1>1 DEF FifoKeeps, Held
<1>3. Untouched(s) /\ Lasts(s)
  BY DEF ModelSide, Untouched, Lasts, Over
<1> QED
  BY <1>2, <1>3, FlowOfOther

(* It publishes an answer for a source that has not retired.                *)
LEMMA FlowOfPublish ==
  ASSUME TypeSources, TypeModel, HandInv, NEW s \in Sources, FlowInv(s), ModelSide(s),
         working # NoItem, working.source = s, working' = NoItem, inq' = inq, retired' = retired,
         NEW x \in ModelEvents, x.source = s, x.kind = "answer", x.chunk = working.chunk,
         modelEv' = Append(modelEv, x)
  PROVE  FlowInv(s)'
<1> DEFINE n == working.chunk
<1>1. RowInv(s) /\ LineInv(s) /\ EndInv(s) /\ KeptInv(s)
  BY DEF FlowInv
<1>2. Held(s) = {n} /\ Held(s)' = {}
  BY InHand DEF Held, NoItem, Item
<1>3. ~HasEnd(modelEv, s)
  BY <1>1, <1>2 DEF EndInv
<1>4. \A m \in Body(modelEv, s, "answer") : m < n
  BY <1>1, <1>2 DEF RowInv, Before, Sent
<1>5. /\ Body(modelEv', s, "answer") = Body(modelEv, s, "answer") \union {n} /\ ~HasEnd(modelEv', s)
      /\ Lined(modelEv', s)
  <2>1. {m \in 0..Chunks : x = Item("answer", s, m)} = {n}
    <3>1. /\ x \in Records("answer", "stopped") /\ "answer" \in BodyKinds /\ "stopped" \in EndKinds
      BY FifoOfRecords, QueuesOfRecords
    <3> QED
      BY <3>1, ChunkOf
  <2>2. Body(modelEv', s, "answer") = Body(modelEv, s, "answer") \union {m \in 0..Chunks : x = Item("answer", s, m)}
    BY AppendEvents
  <2>3. ~HasEnd(modelEv', s)
    BY <1>3, AppendEvents
  <2>4. Lined(modelEv, s) => Lined(modelEv', s)
    BY <1>3, <1>4, AppendEvents
  <2> QED
    BY <1>1, <2>1, <2>2, <2>3, <2>4 DEF LineInv
<1>6. /\ (Terminal(s)' <=> Terminal(s)) /\ LastKind(s)' = LastKind(s)
      /\ Told(s)' = Told(s) /\ (Shared' <=> Shared)
  BY SessionStays DEF ModelSide
<1> HIDE DEF n
<1>7. /\ Sent(s)' = Sent(s) \union {n} /\ Waiting(s)' = Waiting(s)
      /\ Due(s)' = Due(s) /\ (Over(s)' <=> Over(s)) /\ Shared
  BY <1>5 DEF ModelSide, Sent, Waiting, Due, Over, HandInv
<1>8. RowInv(s)'
  BY <1>1, <1>2, <1>6, <1>7, RowOfSend
<1>9. LineInv(s)'
  BY <1>1, <1>5 DEF LineInv, ModelSide
<1>10. EndInv(s)'
  BY <1>1, <1>5, <1>6, <1>7 DEF EndInv, ModelSide
<1>11. Answering(s)' => Answering(s)
  BY <1>5, <1>6, <1>7 DEF Answering
<1>12. KeptInv(s)'
  BY <1>1, <1>2, <1>6, <1>7, <1>11 DEF KeptInv
<1> QED
  BY <1>8, <1>9, <1>10, <1>12 DEF FlowInv

(* The answer for one that has is refused: nobody waits for it.             *)
LEMMA FlowOfRefusedAnswer ==
  ASSUME TypeSources, TypeModel, HandInv, NEW s \in Sources, FlowInv(s), ModelSide(s),
         working # NoItem, working.source = s, working' = NoItem,
         UNCHANGED <<inq, retired, modelEv>>, s \in retired
  PROVE  FlowInv(s)'
<1>1. RowInv(s) /\ LineInv(s) /\ EndInv(s) /\ KeptInv(s)
  BY DEF FlowInv
<1>2. Held(s) = {working.chunk} /\ Held(s)' = {}
  BY InHand DEF Held, NoItem, Item
<1>3. ~HasEnd(modelEv, s)
  BY <1>1, <1>2 DEF EndInv
<1>4. /\ (Terminal(s)' <=> Terminal(s)) /\ LastKind(s)' = LastKind(s)
      /\ Told(s)' = Told(s) /\ (Shared' <=> Shared)
  BY SessionStays DEF ModelSide
<1>5. /\ Sent(s)' = Sent(s) /\ Waiting(s)' = Waiting(s)
      /\ Due(s)' = Due(s) /\ (Over(s)' <=> Over(s)) /\ Shared
  BY DEF ModelSide, Sent, Waiting, Due, Over, HandInv
<1>6. RowInv(s)'
  BY <1>1, <1>2, <1>4, <1>5, RowShrinks
<1>7. LineInv(s)'
  BY <1>1 DEF LineInv, ModelSide
<1>8. EndInv(s)'
  BY <1>1, <1>2, <1>3, <1>4, <1>5 DEF EndInv, ModelSide
<1>9. ~Answering(s)'
  BY <1>3, <1>4, <1>5 DEF Answering
<1>10. KeptInv(s)'
  BY <1>1, <1>4, <1>5, <1>9 DEF KeptInv
<1> QED
  BY <1>6, <1>7, <1>8, <1>10 DEF FlowInv

\* What a delivery leaves of the session's source.
SourceSide(s) ==
  UNCHANGED <<topology, pc, made, dropped, local, inq, retired, working>>

(* A session that has its completed event misses nothing.                   *)
LEMMA FlowOfLate ==
  ASSUME NEW s \in Sources, FlowInv(s), SourceSide(s), Terminal(s), results'[s] = results[s],
         Answers(outq'[s]) \subseteq Answers(outq[s]), InOrder(outq'[s]),
         Shared => \A i \in 1..Len(outq'[s]) : outq'[s][i].kind \in {"drop", "fatal", "failed"},
         \A i \in 1..Len(outq'[s]) : outq'[s][i].kind = "stopped" =>
           i = Len(outq'[s]) /\ Over(s) /\ local[s] = 0,
         Body(modelEv', s, "answer") \subseteq Body(modelEv, s, "answer"), Lined(modelEv', s),
         HasEnd(modelEv', s) => HasEnd(modelEv, s)
  PROVE  FlowInv(s)'
<1>1. RowInv(s) /\ LineInv(s) /\ EndInv(s) /\ KeptInv(s)
  BY DEF FlowInv
<1>2. /\ (Terminal(s)' <=> Terminal(s)) /\ LastKind(s)' = LastKind(s)
      /\ Told(s)' = Told(s) /\ (Shared' <=> Shared)
  BY SessionStays DEF SourceSide
<1>3. /\ Sent(s)' \subseteq Sent(s) /\ Held(s)' = Held(s) /\ Waiting(s)' = Waiting(s)
      /\ Due(s)' = Due(s) /\ (Over(s)' <=> Over(s))
  BY DEF SourceSide, Sent, Held, Waiting, Due, Over
<1>4. RowInv(s)'
  BY <1>1, <1>2, <1>3, RowShrinks
<1>5. LineInv(s)'
  BY <1>1 DEF LineInv, SourceSide
<1>6. EndInv(s)'
  BY <1>1, <1>2, <1>3 DEF EndInv, SourceSide
<1>7. KeptInv(s)'
  BY <1>1, <1>2, <1>3 DEF KeptInv
<1> QED
  BY <1>4, <1>5, <1>6, <1>7 DEF FlowInv

(* Where the model is shared no answer is on the output queue, and where it *)
(* is not none is on the model's.                                           *)
LEMMA OneWay ==
  ASSUME TypeSources, TypeEvents, TypeModel, HandInv, NEW s \in Sources, FlowInv(s)
  PROVE  /\ Shared => Sent(s) = Body(modelEv, s, "answer") /\ Waiting(s) = Body(inq, s, "chunk")
                      /\ Answers(outq[s]) = {}
         /\ ~Shared => Sent(s) = Answers(outq[s]) /\ Held(s) = {}
                       /\ Waiting(s) = {n \in 1..made[s] : n > made[s] - local[s]}
                       /\ Body(modelEv, s, "answer") = {}
<1>1. ASSUME Shared
      PROVE  Sent(s) = Body(modelEv, s, "answer") /\ Waiting(s) = Body(inq, s, "chunk")
             /\ Answers(outq[s]) = {}
  <2>1. local[s] = 0
    BY <1>1, ProcessNames DEF TypeSources
  <2>2. {n \in 1..made[s] : n > made[s] - local[s]} = {}
    BY <2>1, LocalChunks
  <2>3. \A i \in 1..Len(outq[s]) : outq[s][i].kind # "answer"
    BY <1>1 DEF FlowInv, EndInv
  <2>4. Answers(outq[s]) = {}
    <3>1. outq[s] \in Seq(Events)
      BY DEF TypeEvents
    <3>2. \A n \in Answers(outq[s]) : \E i \in 1..Len(outq[s]) : outq[s][i].kind = "answer" /\ outq[s][i].chunk = n
      BY <3>1, AnswersAt
    <3> QED
      BY <2>3, <3>2
  <2> QED
    BY <2>2, <2>4 DEF Sent, Waiting
<1>2. ASSUME ~Shared
      PROVE  Sent(s) = Answers(outq[s]) /\ Held(s) = {} /\ Body(modelEv, s, "answer") = {}
             /\ Waiting(s) = {n \in 1..made[s] : n > made[s] - local[s]}
  <2>1. inq = <<>> /\ modelEv = <<>> /\ working = NoItem
    BY <1>2 DEF HandInv
  <2>2. Gone(inq, s) /\ Gone(modelEv, s) /\ inq \in Seq(Items) /\ modelEv \in Seq(Items)
    BY <2>1 DEF Gone
  <2>3. Body(inq, s, "chunk") = {} /\ Body(modelEv, s, "answer") = {}
    BY <2>2, GoneEmpty
  <2>4. Held(s) = {}
    BY <2>1, InHand
  <2> QED
    BY <2>3, <2>4 DEF Sent, Waiting
<1> QED
  BY <1>1, <1>2

(* An event of the model process reaches its session.                       *)
LEMMA FlowOfModelEvent ==
  ASSUME TypeSources, TypeEvents, TypeModel, HandInv, NEW s \in Sources, FlowInv(s), SourceSide(s),
         modelEv # <<>>, modelEv' = Tail(modelEv), Head(modelEv).source = s, outq' = outq,
         Deliver(<<Event(Head(modelEv).kind, Head(modelEv).chunk)>>, s)
  PROVE  FlowInv(s)'
<1> DEFINE h == Head(modelEv)
           n == h.chunk
           x == Event(h.kind, n)
<1>1. RowInv(s) /\ LineInv(s) /\ EndInv(s) /\ KeptInv(s)
  BY DEF FlowInv
<1>2. /\ h \in ModelEvents
      /\ h.kind = "answer" =>
           /\ Body(modelEv, s, "answer") = Body(modelEv', s, "answer") \union {n}
           /\ \A m \in Body(modelEv', s, "answer") : n < m
      /\ h.kind # "answer" => Body(modelEv', s, "answer") = Body(modelEv, s, "answer")
      /\ HasEnd(modelEv, s) <=> (HasEnd(modelEv', s) \/ h.kind = "stopped")
      /\ Lined(modelEv', s)
      /\ h.kind = "stopped" => Gone(modelEv', s)
  BY <1>1, TailEvents DEF LineInv
<1>3. /\ h.kind \in {"answer", "stopped"} /\ x \in Events /\ <<x>> \in Seq(Events)
      /\ x.kind = h.kind /\ x.chunk = n
  <2>1. h.kind \in {"answer", "stopped"} /\ n \in 0..Chunks
    BY <1>2 DEF ModelEvents
  <2> HIDE DEF h, n
  <2> QED
    BY <2>1, EventKinds
<1>4. /\ Terminal(s) => results'[s] = results[s]
      /\ ~Terminal(s) => results'[s] = results[s] \o <<x>>
  BY <1>3, DeliverMoves
<1>5. Shared
  BY DEF HandInv
<1>6. Sent(s) = Body(modelEv, s, "answer") /\ Answers(outq[s]) = {} /\ Waiting(s) = Body(inq, s, "chunk")
  BY <1>5, OneWay
<1>7. /\ Sent(s)' = Body(modelEv', s, "answer") /\ Held(s)' = Held(s) /\ Waiting(s)' = Waiting(s)
      /\ Due(s)' = Due(s) /\ (Over(s)' <=> Over(s)) /\ (Shared' <=> Shared)
  BY <1>6 DEF SourceSide, Sent, Held, Waiting, Due, Over, Shared
<1>8. results[s] \in Seq(Events)
  BY DEF TypeEvents
<1> HIDE DEF h, n, x
<1>9. CASE Terminal(s)
  <2>1. Body(modelEv', s, "answer") \subseteq Body(modelEv, s, "answer")
    BY <1>2, <1>3
  <2> QED
    BY <1>1, <1>2, <1>4, <1>9, <2>1, FlowOfLate DEF LineInv, EndInv
<1>10. CASE ~Terminal(s) /\ h.kind = "answer"
  <2>1. LastKind(s)' = "answer" /\ ~Terminal(s)'
    BY <1>3, <1>4, <1>10, Delivered DEF Terminal
  <2>2. Answers(results'[s]) = Answers(results[s]) \union {n}
    <3>1. Answers(results[s] \o <<x>>) = Answers(results[s]) \union {m \in 0..Chunks : x.kind = "answer" /\ x.chunk = m}
      BY <1>3, <1>8, EventsAppend
    <3>2. n \in 0..Chunks
      BY <1>2 DEF ModelEvents, n
    <3>3. {m \in 0..Chunks : x.kind = "answer" /\ x.chunk = m} = {n}
      BY <1>3, <1>10, <3>2
    <3> QED
      BY <1>4, <1>10, <3>1, <3>3
  <2>3. Told(s)' = Told(s) \union {n}
    BY <2>2 DEF Told
  <2>4. n \in Sent(s) /\ n \in Nat
    BY <1>1, <1>2, <1>6, <1>10, RowNumbers
  <2>5. n \notin Body(modelEv', s, "answer")
    BY <1>2, <1>10, <2>4
  <2>6. Sent(s)' = Sent(s) \ {n} /\ \A m \in Sent(s) : n <= m
    <3>1. Sent(s)' = Sent(s) \ {n}
      BY <1>2, <1>6, <1>7, <1>10, <2>5
    <3>2. ASSUME NEW m \in Sent(s) PROVE n <= m
      <4>1. m = n \/ m \in Body(modelEv', s, "answer")
        BY <1>2, <1>6, <1>10
      <4>2. m \in Nat
        BY <1>1, RowNumbers
      <4> QED
        BY <1>2, <1>10, <2>4, <4>1, <4>2
    <3> QED
      BY <3>1, <3>2
  <2>7. RowInv(s)'
    BY <1>1, <1>7, <2>3, <2>4, <2>6, RowOfTell
  <2>8. InOrder(results'[s])
    <3>1. \A m \in Answers(results[s]) : m < x.chunk
      BY <1>1, <1>3, <2>4 DEF RowInv, Before, Told
    <3>2. InOrder(results[s])
      BY <1>1 DEF LineInv
    <3>3. InOrder(results[s] \o <<x>>)
      BY <1>3, <1>8, <3>1, <3>2, EventsAppend
    <3> QED
      BY <1>4, <1>10, <3>3
  <2>9. LineInv(s)'
    BY <1>1, <1>2, <2>8 DEF LineInv, SourceSide
  <2>10. HasEnd(modelEv', s) <=> HasEnd(modelEv, s)
    BY <1>2, <1>10
  <2>11. EndInv(s)'
    BY <1>1, <1>7, <2>1, <2>10 DEF EndInv, SourceSide
  <2>12. Answering(s)' <=> Answering(s)
    BY <1>5, <1>7, <2>10 DEF Answering, SourceSide
  <2>13. KeptInv(s)'
    BY <1>1, <1>7, <1>10, <2>1, <2>3, <2>6, <2>12 DEF KeptInv
  <2> QED
    BY <2>7, <2>9, <2>11, <2>13 DEF FlowInv
<1>11. CASE ~Terminal(s) /\ h.kind = "stopped"
  <2>1. LastKind(s)' = "stopped" /\ Terminal(s)'
    BY <1>3, <1>4, <1>11, Delivered DEF Terminal
  <2>2. Told(s)' = Told(s) /\ (InOrder(results[s]) => InOrder(results'[s]))
    BY <1>3, <1>4, <1>8, <1>11, PutNoAnswer DEF Told
  <2>3. /\ HasEnd(modelEv, s) /\ Over(s) /\ Gone(inq, s) /\ Held(s) = {}
    BY <1>1, <1>2, <1>11 DEF EndInv
  <2>4. Body(modelEv', s, "answer") = {} /\ ~HasEnd(modelEv', s)
    <3>1. modelEv' \in Seq(ModelEvents)
      BY DEF TypeModel
    <3> QED
      BY <1>2, <1>11, <3>1, GoneEmpty
  <2>5. Sent(s) = {} /\ Waiting(s) = {}
    <3>1. inq \in Seq(Items)
      BY DEF TypeModel
    <3>2. Body(inq, s, "chunk") = {}
      BY <2>3, <3>1, GoneEmpty
    <3>3. Body(modelEv, s, "answer") = {}
      BY <1>2, <1>3, <1>11, <2>4
    <3> QED
      BY <1>6, <3>2, <3>3
  <2>6. RowInv(s)'
    BY <1>1, <1>7, <2>2, <2>4, RowShrinks
  <2>7. LineInv(s)'
    BY <1>1, <1>2, <2>2 DEF LineInv, SourceSide
  <2>8. EndInv(s)'
    BY <1>1, <1>7, <2>3, <2>4 DEF EndInv, SourceSide
  <2>9. \A m \in Due(s) : m \in Told(s)
    BY <1>1, <1>5, <1>11, <2>3, <2>5 DEF KeptInv, Answering
  <2>10. KeptInv(s)'
    BY <1>7, <2>1, <2>2, <2>9 DEF KeptInv
  <2> QED
    BY <2>6, <2>7, <2>8, <2>10 DEF FlowInv
<1> QED
  BY <1>3, <1>9, <1>10, <1>11

(* So does the first event of its source's process.                         *)
LEMMA FlowOfOutput ==
  ASSUME TypeSources, TypeEvents, TypeModel, HandInv, NEW s \in Sources, FlowInv(s), SourceSide(s),
         outq[s] # <<>>, outq'[s] = Tail(outq[s]), modelEv' = modelEv,
         Deliver(<<Head(outq[s])>>, s)
  PROVE  FlowInv(s)'
<1> DEFINE q == outq[s]
           w == outq'[s]
           h == Head(outq[s])
<1>1. RowInv(s) /\ LineInv(s) /\ EndInv(s) /\ KeptInv(s)
  BY DEF FlowInv
<1>2. q \in Seq(Events) /\ q # <<>> /\ w = Tail(q) /\ h = Head(q) /\ results[s] \in Seq(Events)
  BY DEF TypeEvents
<1>3. /\ w \in Seq(Events) /\ Len(w) = Len(q) - 1 /\ Len(q) \in Nat /\ Len(q) # 0
      /\ h \in Events /\ h = q[1] /\ 1 \in 1..Len(q)
      /\ \A i \in 1..Len(w) : w[i] = q[i + 1] /\ i + 1 \in 1..Len(q)
      /\ Answers(q) = Answers(w) \union {n \in 0..Chunks : h.kind = "answer" /\ h.chunk = n}
      /\ InOrder(q) => InOrder(w) /\ (h.kind = "answer" => \A n \in Answers(w) : h.chunk < n)
  <2> HIDE DEF q, w, h
  <2>1. /\ w \in Seq(Events) /\ Len(w) = Len(q) - 1 /\ Len(q) \in Nat \ {0}
        /\ h \in Events /\ h = q[1]
        /\ \A i \in 1..Len(w) : w[i] = q[i + 1] /\ i + 1 \in 1..Len(q)
        /\ Answers(q) = Answers(w) \union {n \in 0..Chunks : h.kind = "answer" /\ h.chunk = n}
        /\ InOrder(q) => InOrder(w) /\ (h.kind = "answer" => \A n \in Answers(w) : h.chunk < n)
    BY <1>2, EventsTail
  <2> QED
    BY <2>1
<1>4. /\ <<h>> \in Seq(Events)
      /\ Terminal(s) => results'[s] = results[s]
      /\ ~Terminal(s) => results'[s] = results[s] \o <<h>>
  <2>1. <<h>> \in Seq(Events)
    BY <1>3
  <2> QED
    BY <2>1, DeliverMoves
<1>5. /\ Shared => \A i \in 1..Len(q) : q[i].kind \in {"drop", "fatal", "failed"}
      /\ \A i \in 1..Len(q) : q[i].kind = "stopped" => i = Len(q) /\ Over(s) /\ local[s] = 0
      /\ InOrder(q)
  BY <1>1 DEF EndInv, LineInv
<1> HIDE DEF q, w, h
<1>6. /\ Shared => \A i \in 1..Len(w) : w[i].kind \in {"drop", "fatal", "failed"}
      /\ \A i \in 1..Len(w) : w[i].kind = "stopped" => i = Len(w) /\ Over(s) /\ local[s] = 0
  <2>1. Shared => \A i \in 1..Len(w) : w[i].kind \in {"drop", "fatal", "failed"}
    BY <1>3, <1>5
  <2>2. ASSUME NEW i \in 1..Len(w), w[i].kind = "stopped"
        PROVE  i = Len(w) /\ Over(s) /\ local[s] = 0
    <3>1. i + 1 = Len(q) /\ Over(s) /\ local[s] = 0
      BY <1>3, <1>5, <2>2
    <3> QED
      BY <1>3, <3>1
  <2> QED
    BY <2>1, <2>2
<1>7. /\ Held(s)' = Held(s) /\ Waiting(s)' = Waiting(s) /\ Due(s)' = Due(s)
      /\ (Over(s)' <=> Over(s)) /\ (Shared' <=> Shared)
  BY DEF SourceSide, Held, Waiting, Due, Over, Shared
<1>8. Sent(s)' = Answers(w) \union Body(modelEv, s, "answer") /\ Sent(s) = Answers(q) \union Body(modelEv, s, "answer")
  BY DEF Sent, w, q
<1>9. CASE Terminal(s)
  BY <1>1, <1>3, <1>4, <1>5, <1>6, <1>9, FlowOfLate DEF LineInv, w, q
<1>10. ASSUME ~Terminal(s), RowInv(s)', InOrder(results'[s]), LastKind(s)' = h.kind,
              h.kind = "stopped" => Over(s), KeptInv(s)'
       PROVE  FlowInv(s)'
  <2>1. LineInv(s)'
    BY <1>1, <1>3, <1>5, <1>10 DEF LineInv, SourceSide, w
  <2>2. EndInv(s)'
    BY <1>1, <1>6, <1>7, <1>10 DEF EndInv, SourceSide, w
  <2> QED
    BY <1>10, <2>1, <2>2 DEF FlowInv
<1>11. ASSUME ~Terminal(s)
       PROVE  LastKind(s)' = h.kind
  BY <1>3, <1>4, <1>11, Delivered
<1>12. ASSUME h.kind # "stopped"
       PROVE  Answering(s)' <=> Answering(s)
  <2>1. HasKind(w, {"stopped"}) <=> HasKind(q, {"stopped"})
    <3>1. ASSUME NEW i \in 1..Len(w), w[i].kind = "stopped" PROVE HasKind(q, {"stopped"})
      BY <1>3, <3>1 DEF HasKind
    <3>2. ASSUME NEW i \in 1..Len(q), q[i].kind = "stopped" PROVE HasKind(w, {"stopped"})
      <4>1. i # 1
        BY <1>3, <1>12, <3>2
      <4>2. i - 1 \in 1..Len(w) /\ (i - 1) + 1 = i
        BY <1>3, <4>1
      <4>3. w[i - 1] = q[i]
        BY <1>3, <4>2
      <4> QED
        BY <3>2, <4>2, <4>3 DEF HasKind
    <3> QED
      BY <3>1, <3>2 DEF HasKind
  <2> QED
    BY <1>7, <2>1 DEF Answering, SourceSide, w, q
<1>13. CASE ~Terminal(s) /\ h.kind = "answer"
  <2> DEFINE n == h.chunk
  <2>1. ~Shared
    BY <1>3, <1>5, <1>13
  <2>2. Sent(s) = Answers(q) /\ Body(modelEv, s, "answer") = {}
    BY <2>1, OneWay DEF q
  <2>3. n \in 0..Chunks
    BY <1>3 DEF Events
  <2> HIDE DEF n
  <2>4. {m \in 0..Chunks : h.kind = "answer" /\ h.chunk = m} = {n}
    BY <1>13, <2>3 DEF n
  <2>5. Answers(q) = Answers(w) \union {n} /\ \A m \in Answers(w) : n < m
    BY <1>3, <1>5, <1>13, <2>4 DEF n
  <2>6. n \in Sent(s) /\ n \in Nat
    BY <1>1, <2>2, <2>5, RowNumbers
  <2>7. Sent(s)' = Sent(s) \ {n}
    BY <1>8, <2>2, <2>5, <2>6
  <2>8. \A m \in Sent(s) : n <= m
    <3>1. \A m \in Sent(s) : m \in Nat /\ (m = n \/ n < m)
      BY <1>1, <2>2, <2>5, RowNumbers
    <3> QED
      BY <2>6, <3>1
  <2>9. Told(s)' = Told(s) \union {n}
    <3>1. Answers(results[s] \o <<h>>) = Answers(results[s]) \union {m \in 0..Chunks : h.kind = "answer" /\ h.chunk = m}
      BY <1>2, <1>3, EventsAppend
    <3> QED
      BY <1>4, <1>13, <2>4, <3>1 DEF Told
  <2>10. RowInv(s)'
    BY <1>1, <1>7, <2>6, <2>7, <2>8, <2>9, RowOfTell
  <2>11. InOrder(results'[s])
    <3>1. \A m \in Answers(results[s]) : m < h.chunk
      BY <1>1, <2>6 DEF RowInv, Before, Told, n
    <3>2. InOrder(results[s])
      BY <1>1 DEF LineInv
    <3>3. InOrder(results[s] \o <<h>>)
      BY <1>2, <1>3, <3>1, <3>2, EventsAppend
    <3> QED
      BY <1>4, <1>13, <3>3
  <2>12. LastKind(s)' = "answer"
    BY <1>11, <1>13
  <2>13. Answering(s)' <=> Answering(s)
    BY <1>12, <1>13
  <2>14. KeptInv(s)'
    BY <1>1, <1>7, <1>13, <2>7, <2>9, <2>12, <2>13 DEF KeptInv
  <2> QED
    BY <1>10, <1>13, <2>10, <2>11, <2>12, <2>14
<1>14. ASSUME ~Terminal(s), h.kind # "answer"
       PROVE  /\ Told(s)' = Told(s) /\ InOrder(results'[s]) /\ Sent(s)' = Sent(s) /\ RowInv(s)'
  <2>1. Told(s)' = Told(s) /\ (InOrder(results[s]) => InOrder(results'[s]))
    BY <1>2, <1>3, <1>4, <1>14, PutNoAnswer DEF Told
  <2>2. {m \in 0..Chunks : h.kind = "answer" /\ h.chunk = m} = {}
    BY <1>14
  <2>3. Sent(s)' = Sent(s)
    BY <1>3, <1>8, <2>2
  <2>4. RowInv(s)'
    BY <1>1, <1>7, <2>1, <2>3, RowShrinks
  <2> QED
    BY <1>1, <2>1, <2>3, <2>4 DEF LineInv
<1>15. CASE ~Terminal(s) /\ h.kind = "stopped"
  <2>1. ~Shared /\ Len(q) = 1 /\ Over(s) /\ local[s] = 0
    BY <1>3, <1>5, <1>15
  <2>2. w = <<>> /\ Answers(w) = {}
    <3>1. w = <<>>
      BY <1>3, <2>1
    <3>2. Answers(w) = {}
      BY <3>1 DEF Answers, Range
    <3> QED
      BY <3>1, <3>2
  <2>3. Sent(s) = {} /\ Held(s) = {} /\ Waiting(s) = {}
    <3>1. {n \in 1..made[s] : n > made[s] - local[s]} = {}
      BY <2>1, LocalChunks
    <3>2. Body(modelEv, s, "answer") = {} /\ Held(s) = {} /\ Waiting(s) = {}
      BY <2>1, <3>1, OneWay
    <3> QED
      BY <1>8, <1>14, <1>15, <2>2, <3>2
  <2>4. Answering(s)
    <3>1. HasKind(q, {"stopped"})
      BY <1>3, <1>15 DEF HasKind
    <3> QED
      BY <2>1, <3>1 DEF Answering, q
  <2>5. \A n \in Due(s) : n \in Told(s)
    BY <1>1, <1>15, <2>3, <2>4 DEF KeptInv
  <2>6. LastKind(s)' = "stopped" /\ Terminal(s)'
    BY <1>11, <1>15 DEF Terminal
  <2>7. KeptInv(s)'
    BY <1>7, <1>14, <1>15, <2>5, <2>6 DEF KeptInv
  <2> QED
    BY <1>10, <1>14, <1>15, <2>1, <2>6, <2>7
<1>16. CASE ~Terminal(s) /\ h.kind \notin {"answer", "stopped"}
  <2>1. LastKind(s)' = h.kind
    BY <1>11, <1>16
  <2>2. Answering(s)' <=> Answering(s)
    BY <1>12, <1>16
  <2>3. KeptInv(s)'
    BY <1>1, <1>7, <1>14, <1>16, <2>1, <2>2 DEF KeptInv
  <2> QED
    BY <1>10, <1>14, <1>16, <2>1, <2>3
<1> QED
  BY <1>9, <1>13, <1>15, <1>16

(* The dispatcher fails a session whose process has died.                   *)
LEMMA FlowOfExit ==
  ASSUME TypeEvents, NEW s \in Sources, FlowInv(s), DispatchExited(s)
  PROVE  FlowInv(s)'
<1> DEFINE x == Event("exited", 0)
           y == Event("failed", 0)
           q == results[s]
           w == results'[s]
<1>1. x \in Events /\ y \in Events /\ x.kind = "exited" /\ y.kind = "failed" /\ <<x, y>> \in Seq(Events)
  BY ProcessNames, EventKinds
<1>2. /\ Deliver(<<x, y>>, s) /\ ~Terminal(s)
      /\ SourceSide(s) /\ UNCHANGED <<outq, modelEv>>
  BY DEF DispatchExited, ExitCounts, SourceSide, fifo, worker
<1> HIDE DEF x, y
<1>3. w = q \o <<x, y>> /\ q \in Seq(Events)
  BY <1>1, <1>2, DeliverMoves DEF TypeEvents
<1>4. /\ w # <<>> /\ w[Len(w)] = y /\ Answers(w) = Answers(q) /\ (InOrder(q) => InOrder(w))
  BY <1>1, <1>3, EventsAppendTwo
<1>5. LastKind(s)' = "failed" /\ Terminal(s)' /\ Told(s)' = Told(s) /\ (Shared' <=> Shared)
  BY <1>1, <1>2, <1>4 DEF LastKind, Terminal, Told, SourceSide, Shared
<1>6. RowInv(s) /\ LineInv(s) /\ EndInv(s) /\ KeptInv(s)
  BY DEF FlowInv
<1>7. /\ Sent(s)' = Sent(s) /\ Held(s)' = Held(s) /\ Waiting(s)' = Waiting(s)
      /\ Due(s)' = Due(s) /\ (Over(s)' <=> Over(s))
  BY <1>2 DEF SourceSide, Sent, Held, Waiting, Due, Over
<1>8. RowInv(s)'
  BY <1>5, <1>6, <1>7, RowShrinks
<1>9. LineInv(s)'
  BY <1>2, <1>4, <1>6 DEF LineInv, SourceSide
<1>10. EndInv(s)'
  BY <1>2, <1>5, <1>6, <1>7 DEF EndInv, SourceSide
<1>11. KeptInv(s)'
  BY <1>5 DEF KeptInv
<1> QED
  BY <1>8, <1>9, <1>10, <1>11 DEF FlowInv

(* What one source does to the queues of the model leaves the others theirs: *)
(* an item put into the FIFO,                                               *)
LEMMA OthersOfPut ==
  ASSUME TypeModel, NEW x \in Items, inq' = Append(inq, x), UNCHANGED <<modelEv, retired, working>>,
         NEW t \in Sources, x.source # t
  PROVE  FifoKeeps(t)
<1>1. /\ HasEnd(inq', t) <=> HasEnd(inq, t)
      /\ (Gone(inq, t) => Gone(inq', t)) /\ (Lined(inq, t) => Lined(inq', t))
      /\ Body(inq', t, "chunk") = Body(inq, t, "chunk")
  BY AppendFifo
<1> QED
  BY <1>1 DEF FifoKeeps, Held

(* a source that retires,                                                   *)
LEMMA OthersOfRetire ==
  ASSUME TypeModel, NEW s \in Sources, RetireSource(s), working' = working, NEW t \in Sources, t # s
  PROVE  FifoKeeps(t)
<1>1. /\ inq' = Without(inq, s) /\ modelEv' = Without(modelEv, s) /\ retired' = retired \union {s}
      /\ inq \in Seq(Items) /\ modelEv \in Seq(ModelEvents)
  BY RetireMoves DEF TypeModel
<1>2. /\ Gone(inq, t) => Gone(inq', t)
      /\ Lined(inq, t) => Lined(inq', t)
      /\ HasEnd(inq', t) => HasEnd(inq, t)
      /\ Body(inq', t, "chunk") = Body(inq, t, "chunk")
  BY <1>1, WithoutKeeps
<1>3. /\ Lined(modelEv, t) => Lined(modelEv', t)
      /\ HasEnd(modelEv', t) => HasEnd(modelEv, t)
      /\ Body(modelEv', t, "answer") = Body(modelEv, t, "answer")
  BY <1>1, WithoutKeeps
<1> QED
  BY <1>1, <1>2, <1>3 DEF FifoKeeps, Held

(* an item taken from it,                                                   *)
LEMMA OthersOfTail ==
  ASSUME TypeModel, inq # <<>>, inq' = Tail(inq), NEW t \in Sources, Head(inq).source # t
  PROVE  /\ Body(inq', t, "chunk") = Body(inq, t, "chunk")
         /\ HasEnd(inq', t) <=> HasEnd(inq, t)
         /\ (Gone(inq, t) => Gone(inq', t)) /\ (Lined(inq, t) => Lined(inq', t))
BY TailFifo

(* an event published,                                                      *)
LEMMA OthersOfPublish ==
  ASSUME TypeModel, NEW x \in ModelEvents, PublishModelEvent(x), NEW t \in Sources, x.source # t
  PROVE  /\ Body(modelEv', t, "answer") = Body(modelEv, t, "answer")
         /\ HasEnd(modelEv', t) <=> HasEnd(modelEv, t)
         /\ Lined(modelEv, t) => Lined(modelEv', t)
         /\ t \in retired => t \in retired'
<1>1. CASE x.source \in retired
  BY <1>1, PublishMoves
<1>2. CASE x.source \notin retired
  <2>1. /\ modelEv' = Append(modelEv, x)
        /\ retired' = IF x.kind = "stopped" THEN retired \union {x.source} ELSE retired
    BY <1>2, PublishMoves
  <2> QED
    BY <2>1, AppendEvents
<1> QED
  BY <1>1, <1>2

(* or an event read.                                                        *)
LEMMA OthersOfRead ==
  ASSUME TypeModel, modelEv # <<>>, modelEv' = Tail(modelEv), UNCHANGED <<inq, retired, working>>,
         NEW t \in Sources, Head(modelEv).source # t
  PROVE  FifoKeeps(t)
<1>1. /\ Body(modelEv', t, "answer") = Body(modelEv, t, "answer")
      /\ HasEnd(modelEv', t) <=> HasEnd(modelEv, t)
      /\ Lined(modelEv, t) => Lined(modelEv', t)
  BY TailEvents
<1> QED
  BY <1>1 DEF FifoKeeps, Held

(* The model process takes an item.                                         *)
LEMMA FlowOfGetItem ==
  ASSUME TypeSources, TypePc, TypeModel, HandInv, NEW t \in Sources, FlowInv(t), GetItem
  PROVE  FlowInv(t)'
<1> DEFINE h == Head(inq)
           x == [h EXCEPT !.kind = "stopped"]
<1>1. /\ pc[Model] = "loop" /\ inq # <<>> /\ inq' = Tail(inq)
      /\ UNCHANGED <<topology, made, dropped, local, outq, results>>
      /\ h.kind = "complete" => PublishModelEvent(x) /\ UNCHANGED <<pc, working>>
      /\ h.kind # "complete" => /\ working' = h /\ Goto(Model, "answer")
                                /\ UNCHANGED <<modelEv, retired>>
  BY DEF GetItem, dispatch
<1>2. ModelSide(t) /\ working = NoItem
  <2>1. pc'[t] = pc[t]
    BY <1>1, ProcessNames DEF TypePc, Goto
  <2> QED
    BY <1>1, <2>1 DEF ModelSide, HandInv
<1>3. h \in Items /\ h.kind \in {"chunk", "complete"}
  <2>1. h \in Items
    BY <1>1 DEF TypeModel
  <2> QED
    BY <2>1 DEF Items
<1>4. x \in ModelEvents /\ x.source = h.source /\ x.kind = "stopped"
  BY <1>3, PassedOn
<1> HIDE DEF x, h
<1>5. CASE h.source = t /\ h.kind = "chunk"
  BY <1>1, <1>2, <1>5, FlowOfTake DEF h
<1>6. CASE h.source = t /\ h.kind = "complete"
  <2>1. CASE t \in retired
    <3>1. modelEv' = modelEv /\ retired' = retired
      BY <1>1, <1>4, <1>6, <2>1, PublishMoves
    <3> QED
      BY <1>1, <1>2, <1>6, <3>1, FlowOfRefusedEnd DEF h
  <2>2. CASE t \notin retired
    <3>1. modelEv' = Append(modelEv, x)
      BY <1>1, <1>4, <1>6, <2>2, PublishMoves
    <3> QED
      BY <1>1, <1>2, <1>4, <1>6, <2>2, <3>1, FlowOfPassOn DEF h
  <2> QED
    BY <2>1, <2>2
<1>7. CASE h.source # t
  <2>1. /\ Body(inq', t, "chunk") = Body(inq, t, "chunk")
        /\ HasEnd(inq', t) <=> HasEnd(inq, t)
        /\ (Gone(inq, t) => Gone(inq', t)) /\ (Lined(inq, t) => Lined(inq', t))
    BY <1>1, <1>7, OthersOfTail DEF h
  <2>2. /\ Body(modelEv', t, "answer") = Body(modelEv, t, "answer")
        /\ HasEnd(modelEv', t) <=> HasEnd(modelEv, t)
        /\ Lined(modelEv, t) => Lined(modelEv', t)
        /\ t \in retired => t \in retired'
    <3>1. CASE h.kind = "complete"
      BY <1>1, <1>4, <1>7, <3>1, OthersOfPublish
    <3>2. CASE h.kind # "complete"
      BY <1>1, <3>2
    <3> QED
      BY <3>1, <3>2
  <2>3. Held(t)' = Held(t)
    <3>1. \A n \in 0..Chunks : h # Item("chunk", t, n) /\ working # Item("chunk", t, n)
      BY <1>2, <1>7 DEF Item, NoItem
    <3> QED
      BY <1>1, <3>1 DEF Held
  <2>4. FifoKeeps(t)
    BY <2>1, <2>2, <2>3 DEF FifoKeeps
  <2>5. Untouched(t) /\ Lasts(t)
    BY <1>2 DEF ModelSide, Untouched, Lasts, Over
  <2> QED
    BY <2>4, <2>5, FlowOfOther
<1> QED
  BY <1>3, <1>5, <1>6, <1>7

(* It publishes an answer.                                                  *)
LEMMA FlowOfPublishAnswer ==
  ASSUME TypeSources, TypePc, TypeModel, HandInv, NEW t \in Sources, FlowInv(t), PublishAnswer
  PROVE  FlowInv(t)'
<1> DEFINE x == [working EXCEPT !.kind = "answer"]
           s == working.source
<1>1. /\ pc[Model] = "answer" /\ working' = NoItem /\ inq' = inq
      /\ UNCHANGED <<topology, made, dropped, local, outq, results>>
      /\ PublishModelEvent(x) /\ Goto(Model, "loop")
  BY DEF PublishAnswer, dispatch
<1>2. ModelSide(t) /\ working # NoItem
  <2>1. pc'[t] = pc[t]
    BY <1>1, ProcessNames DEF TypePc, Goto
  <2> QED
    BY <1>1, <2>1 DEF ModelSide, HandInv
<1>3. working \in Items /\ working.kind = "chunk" /\ s \in Sources
      /\ Held(t) = IF s = t THEN {working.chunk} ELSE {}
  BY <1>2, InHand
<1>4. x \in ModelEvents /\ x.source = s /\ x.kind = "answer" /\ x.chunk = working.chunk
  BY <1>3, PassedOn
<1> HIDE DEF x
<1>5. CASE s = t
  <2>1. CASE t \in retired
    <3>1. modelEv' = modelEv /\ retired' = retired
      BY <1>1, <1>4, <1>5, <2>1, PublishMoves
    <3> QED
      BY <1>1, <1>2, <1>5, <2>1, <3>1, FlowOfRefusedAnswer
  <2>2. CASE t \notin retired
    <3>1. modelEv' = Append(modelEv, x) /\ retired' = retired
      BY <1>1, <1>4, <1>5, <2>2, PublishMoves
    <3> QED
      BY <1>1, <1>2, <1>4, <1>5, <3>1, FlowOfPublish
  <2> QED
    BY <2>1, <2>2
<1>6. CASE s # t
  <2>1. /\ Body(modelEv', t, "answer") = Body(modelEv, t, "answer")
        /\ HasEnd(modelEv', t) <=> HasEnd(modelEv, t)
        /\ Lined(modelEv, t) => Lined(modelEv', t)
        /\ t \in retired => t \in retired'
    BY <1>1, <1>4, <1>6, OthersOfPublish
  <2>2. Held(t)' = Held(t)
    <3>1. \A n \in 0..Chunks : NoItem # Item("chunk", t, n)
      BY DEF Item, NoItem
    <3> QED
      BY <1>1, <1>3, <1>6, <3>1 DEF Held
  <2>3. FifoKeeps(t)
    BY <1>1, <2>1, <2>2 DEF FifoKeeps
  <2>4. Untouched(t) /\ Lasts(t)
    BY <1>2 DEF ModelSide, Untouched, Lasts, Over
  <2> QED
    BY <2>3, <2>4, FlowOfOther
<1> QED
  BY <1>5, <1>6

(* Every step keeps the flow of the chunks.                                 *)
LEMMA FlowStep ==
  ASSUME BaseInv, ControlInv, \A s \in Sources : FlowInv(s), Next
  PROVE  \A s \in Sources : FlowInv(s)'
<1> SUFFICES ASSUME NEW s \in Sources PROVE FlowInv(s)'
  OBVIOUS
<1>1. /\ TypePhase /\ TypePc /\ TypeReady /\ TypeSources /\ TypeEvents
      /\ TypeModel /\ TypeRest /\ HandInv
  BY TypeParts DEF BaseInv
<1>2. FlowInv(s) /\ s \in Procs /\ s # Model /\ \A t \in Sources : t \in Procs /\ t # Model
  BY ProcessNames
<1>3. ASSUME UNCHANGED <<topology, made, dropped, local, outq, results, inq, modelEv, retired, working>>, Lasts(s) PROVE FlowInv(s)'
  BY <1>2, <1>3, FlowOfSame DEF Untouched
<1>4. ASSUME NEW t \in Sources, CaptureReady(t) PROVE FlowInv(s)'
  <2>1. UNCHANGED <<topology, made, dropped, local, outq, results, inq, modelEv, retired, working>>
    BY <1>4 DEF CaptureReady, fifo, worker, dispatch
  <2>2. Lasts(s)
    BY <1>1, <1>2, <1>4 DEF CaptureReady, Goto, TypePc, Lasts, Over
  <2> QED
    BY <1>3, <2>1, <2>2
<1>5. ASSUME NEW t \in Sources, CaptureFailsToStart(t) PROVE FlowInv(s)'
  <2>1. UNCHANGED <<topology, made, dropped, local, outq, results, inq, modelEv, retired, working>>
    BY <1>5 DEF CaptureFailsToStart, fifo, worker, dispatch
  <2>2. Lasts(s)
    BY <1>1, <1>2, <1>5 DEF CaptureFailsToStart, Goto, TypePc, Lasts, Over
  <2> QED
    BY <1>3, <2>1, <2>2
<1>6. ASSUME NEW t \in Sources, TakeCommand(t) PROVE FlowInv(s)'
  <2>1. UNCHANGED <<topology, made, dropped, local, outq, results, inq, modelEv, retired, working>>
    BY <1>6 DEF TakeCommand, fifo, worker, dispatch
  <2>2. Lasts(s)
    BY <1>1, <1>2, <1>6 DEF TakeCommand, Goto, TypePc, Lasts, Over
  <2> QED
    BY <1>3, <2>1, <2>2
<1>7. ASSUME NEW t \in Sources, SourceEnds(t) PROVE FlowInv(s)'
  <2>1. UNCHANGED <<topology, made, dropped, local, outq, results, inq, modelEv, retired, working>>
    BY <1>7 DEF SourceEnds, fifo, worker, dispatch
  <2>2. (Goto(t, "drain") \/ Goto(t, "drainErr")) /\ pc[t] = "capture"
    BY <1>7 DEF SourceEnds
  <2>3. Lasts(s)
    BY <1>1, <1>2, <2>2 DEF Goto, TypePc, Lasts, Over
  <2> QED
    BY <1>3, <2>1, <2>3
<1>8. ASSUME NEW p \in Procs, Exit(p) PROVE FlowInv(s)'
  <2>1. UNCHANGED <<topology, made, dropped, local, outq, results, inq, modelEv, retired, working>>
    BY <1>8 DEF Exit, fifo, worker, dispatch
  <2>2. Lasts(s)
    BY <1>1, <1>2, <1>8 DEF Exit, Goto, TypePc, Lasts, Over
  <2> QED
    BY <1>3, <2>1, <2>2
<1>9. ASSUME NEW loaded \in BOOLEAN, ModelLoads(loaded) PROVE FlowInv(s)'
  <2>1. UNCHANGED <<topology, made, dropped, local, outq, results, inq, modelEv, retired, working>>
    BY <1>9 DEF ModelLoads, fifo, worker, dispatch
  <2>2. Lasts(s)
    BY <1>1, <1>2, <1>9 DEF ModelLoads, Goto, TypePc, Lasts, Over
  <2> QED
    BY <1>3, <2>1, <2>2
<1>10. ASSUME ApplyShutdown PROVE FlowInv(s)'
  <2>1. UNCHANGED <<topology, made, dropped, local, outq, results, inq, modelEv, retired, working>>
    BY <1>10 DEF ApplyShutdown, fifo, worker, dispatch
  <2>2. Lasts(s)
    BY <1>1, <1>2, <1>10 DEF ApplyShutdown, Goto, TypePc, Lasts, Over
  <2> QED
    BY <1>3, <2>1, <2>2
<1>11. ASSUME StopSession PROVE FlowInv(s)'
  <2>1. UNCHANGED <<topology, made, dropped, local, outq, results, inq, modelEv, retired, working>>
    BY <1>11 DEF StopSession, fifo, worker, dispatch
  <2>2. Lasts(s)
    BY <1>11 DEF StopSession, Lasts, Over
  <2> QED
    BY <1>3, <2>1, <2>2
<1>12. ASSUME ShutdownModel PROVE FlowInv(s)'
  <2>1. UNCHANGED <<topology, made, dropped, local, outq, results, inq, modelEv, retired, working>>
    BY <1>12 DEF ShutdownModel, fifo, worker, dispatch
  <2>2. Lasts(s)
    BY <1>12 DEF ShutdownModel, Lasts, Over
  <2> QED
    BY <1>3, <2>1, <2>2
<1>13. ASSUME StopReturns PROVE FlowInv(s)'
  <2>1. UNCHANGED <<topology, made, dropped, local, outq, results, inq, modelEv, retired, working>>
    BY <1>13 DEF StopReturns, fifo, worker, dispatch
  <2>2. Lasts(s)
    BY <1>13 DEF StopReturns, Lasts, Over
  <2> QED
    BY <1>3, <2>1, <2>2
<1>14. ASSUME DispatchIdle PROVE FlowInv(s)'
  <2>1. UNCHANGED <<topology, made, dropped, local, outq, results, inq, modelEv, retired, working>>
    BY <1>14 DEF DispatchIdle, fifo, worker, dispatch
  <2>2. Lasts(s)
    BY <1>14 DEF DispatchIdle, Lasts, Over
  <2> QED
    BY <1>3, <2>1, <2>2
<1>15. ASSUME Terminated PROVE FlowInv(s)'
  <2>1. UNCHANGED <<topology, made, dropped, local, outq, results, inq, modelEv, retired, working>>
    BY <1>15 DEF Terminated, vars, fifo, worker, dispatch
  <2>2. Lasts(s)
    BY <1>15 DEF Terminated, vars, Lasts, Over
  <2> QED
    BY <1>3, <2>1, <2>2
<1>16. ASSUME NEW t \in Sources, CollectReady(t) PROVE FlowInv(s)'
  <2>1. UNCHANGED <<topology, made, dropped, local, outq, results, inq, modelEv, retired, working>>
    BY <1>16 DEF CollectReady, fifo, worker, dispatch
  <2>2. Lasts(s)
    BY <1>16 DEF CollectReady, Lasts, Over
  <2> QED
    BY <1>3, <2>1, <2>2
<1>17. ASSUME ModelReady PROVE FlowInv(s)'
  <2>1. UNCHANGED <<topology, made, dropped, local, outq, results, inq, modelEv, retired, working>>
    BY <1>17 DEF ModelReady, fifo, worker, dispatch
  <2>2. pc[s] = "none"
    BY <1>2, <1>17 DEF ModelReady, ControlInv, StartInv
  <2> QED
    BY <1>3, <2>1, <2>2 DEF Lasts, Over
<1>18. ASSUME TerminateAll, UNCHANGED <<topology, made, dropped, local, outq, results, inq, modelEv, retired, working>> PROVE FlowInv(s)'
  <2>1. Lasts(s)
    BY <1>1, <1>2, <1>18, TerminateMoves DEF Lasts, Over, Alive
  <2> QED
    BY <1>3, <1>18, <2>1
<1>19. ASSUME StartFails PROVE FlowInv(s)'
  BY <1>19, <1>18 DEF StartFails, fifo, worker, dispatch
<1>20. ASSUME Abort PROVE FlowInv(s)'
  BY <1>20, <1>18 DEF Abort, fifo, worker, dispatch
<1>21. ASSUME NEW t \in Sources, Submit(t) PROVE FlowInv(s)'
  <2>1. CASE s = t
    BY <1>1, <1>2, <1>21, <2>1, FlowOfSubmit
  <2>2. CASE s # t
    <3>1. /\ UNCHANGED <<topology, pc, dropped, outq, results, modelEv, retired, working>>
          /\ made' = [made EXCEPT ![t] = @ + 1] /\ made[t] < Chunks
          /\ inq' = inq \/ FifoPut(Item("chunk", t, made[t] + 1))
          /\ local' = local \/ local' = [local EXCEPT ![t] = @ + 1]
      BY <1>21 DEF Submit, MakeChunk, dispatch, worker
    <3>2. Untouched(s) /\ Lasts(s)
      BY <1>1, <2>2, <3>1 DEF TypeSources, Untouched, Lasts, Over
    <3>3. FifoKeeps(s)
      <4>1. CASE inq' = inq
        BY <3>1, <4>1, FifoStays
      <4>2. CASE FifoPut(Item("chunk", t, made[t] + 1))
        <5> DEFINE x == Item("chunk", t, made[t] + 1)
        <5>1. x \in Items /\ x.source = t
          <6>1. made[t] + 1 \in 0..Chunks
            BY <1>1, <3>1, ProcessNames DEF TypeSources
          <6> QED
            BY <6>1 DEF Items, Item
        <5> HIDE DEF x
        <5>2. inq' = Append(inq, x)
          BY <1>1, <4>2, <5>1, FifoMoves DEF x
        <5> QED
          BY <1>1, <2>2, <3>1, <5>1, <5>2, OthersOfPut
      <4> QED
        BY <3>1, <4>1, <4>2
    <3> QED
      BY <1>2, <3>2, <3>3, FlowOfOther
  <2> QED
    BY <2>1, <2>2
<1>22. ASSUME NEW t \in Sources, SubmitDropped(t) PROVE FlowInv(s)'
  <2>1. CASE s = t
    BY <1>1, <1>2, <1>22, <2>1, FlowOfDrop
  <2>2. CASE s # t
    <3>1. /\ UNCHANGED <<topology, pc, local, results, inq, modelEv, retired, working>>
          /\ made' = [made EXCEPT ![t] = @ + 1]
          /\ dropped' = [dropped EXCEPT ![t] = @ \union {made[t] + 1}]
          /\ outq' = [outq EXCEPT ![t] = @ \o <<Event("drop", made[t] + 1)>>]
      BY <1>22 DEF SubmitDropped, MakeChunk, Put, dispatch, worker, fifo
    <3>2. Untouched(s) /\ Lasts(s)
      BY <1>1, <2>2, <3>1 DEF TypeSources, TypeEvents, Untouched, Lasts, Over
    <3> QED
      BY <1>2, <3>1, <3>2, FlowOfSame
  <2> QED
    BY <2>1, <2>2
<1>23. ASSUME NEW t \in Sources, Fail(t), Shared, ~Over(t), pc[t] # "crashed",
             made' = made \/ made' = [made EXCEPT ![t] = @ + 1],
             UNCHANGED <<topology, dropped, local, working, results>> PROVE FlowInv(s)'
  <2>1. /\ RetireSource(t) /\ Put(t, <<Event("fatal", 0), Event("failed", made[t])>>)
        /\ Goto(t, "exit")
    BY <1>23 DEF Fail
  <2>2. made[t] \in 0..Chunks /\ <<Event("fatal", 0), Event("failed", made[t])>> \in Seq(Events)
    <3>1. made[t] \in 0..Chunks
      BY <1>1 DEF TypeSources
    <3>2. Event("fatal", 0) \in Events /\ Event("failed", made[t]) \in Events
      BY <3>1, ProcessNames, EventKinds
    <3> QED
      BY <3>1, <3>2
  <2>3. /\ outq'[t] = outq[t] \o <<Event("fatal", 0), Event("failed", made[t])>>
        /\ \A o \in Sources : o # t => outq'[o] = outq[o]
    BY <1>1, <2>1, <2>2, PutMoves
  <2>4. pc'[t] = "exit" /\ \A o \in Sources : o # t => pc'[o] = pc[o]
    BY <1>1, <1>2, <2>1 DEF TypePc, Goto
  <2>5. CASE s = t
    <3>1. Failing(s)
      BY <1>23, <2>2, <2>3, <2>4, <2>5 DEF Failing
    <3>2. made'[s] = made[s] \/ made'[s] = made[s] + 1
      BY <1>1, <1>23, <2>5 DEF TypeSources
    <3>3. /\ retired' = retired \union {s}
          /\ inq' = Without(inq, s) /\ modelEv' = Without(modelEv, s)
          /\ inq \in Seq(Items \union ModelEvents) /\ modelEv \in Seq(Items \union ModelEvents)
      BY <1>1, <2>1, <2>5, RetireMoves DEF TypeModel
    <3> DEFINE R == Items \union ModelEvents
    <3> HIDE DEF R
    <3>4. inq' \in Seq(R) /\ Gone(inq', s) /\ modelEv' \in Seq(R) /\ Gone(modelEv', s)
      BY <3>3, WithoutKeeps DEF R
    <3> QED
      BY <1>1, <1>2, <1>23, <3>1, <3>2, <3>3, <3>4, FlowOfRetire
  <2>6. CASE s # t
    <3>1. Untouched(s) /\ Lasts(s)
      BY <1>1, <1>23, <2>3, <2>4, <2>6 DEF TypeSources, Untouched, Lasts, Over
    <3>2. FifoKeeps(s)
      BY <1>1, <1>23, <2>1, <2>6, OthersOfRetire
    <3> QED
      BY <1>2, <3>1, <3>2, FlowOfOther
  <2> QED
    BY <2>5, <2>6
<1>24. ASSUME NEW t \in Sources, SubmitFails(t) PROVE FlowInv(s)'
  BY <1>24, <1>23 DEF SubmitFails, MakeChunk, Over, worker, dispatch
<1>25. ASSUME NEW t \in Sources, CompleteFails(t) PROVE FlowInv(s)'
  BY <1>25, <1>23 DEF CompleteFails, Over, worker, dispatch
<1>26. ASSUME NEW t \in Sources, Complete(t) PROVE FlowInv(s)'
  <2>1. CASE s = t
    BY <1>1, <1>2, <1>26, <2>1, FlowOfComplete
  <2>2. CASE s # t
    <3> DEFINE x == Item("complete", t, made[t])
               y == Event("stopped", made[t])
    <3>1. /\ UNCHANGED <<topology, made, dropped, local, results, modelEv, retired, working>>
          /\ Goto(t, "exit")
          /\ inq' = inq \/ FifoPut(x)
          /\ outq' = outq \/ outq' = [outq EXCEPT ![t] = @ \o <<y>>]
      BY <1>26 DEF Complete, Put, dispatch, worker
    <3>2. pc'[s] = pc[s]
      BY <1>1, <1>2, <2>2, <3>1 DEF TypePc, Goto
    <3>3. Untouched(s) /\ Lasts(s)
      BY <1>1, <2>2, <3>1, <3>2 DEF TypeEvents, Untouched, Lasts, Over
    <3>4. FifoKeeps(s)
      <4>1. CASE inq' = inq
        BY <3>1, <4>1, FifoStays
      <4>2. CASE FifoPut(x)
        <5>1. x \in Items /\ x.source = t
          BY <1>1 DEF Items, Item, TypeSources
        <5> HIDE DEF x
        <5>2. inq' = Append(inq, x)
          BY <1>1, <4>2, <5>1, FifoMoves
        <5> QED
          BY <1>1, <2>2, <3>1, <5>1, <5>2, OthersOfPut
      <4> QED
        BY <3>1, <4>1, <4>2
    <3> QED
      BY <1>2, <3>3, <3>4, FlowOfOther
  <2> QED
    BY <2>1, <2>2
<1>27. ASSUME NEW t \in Sources, AnswerLocal(t) PROVE FlowInv(s)'
  <2>1. CASE s = t
    BY <1>1, <1>2, <1>27, <2>1, FlowOfLocalAnswer
  <2>2. CASE s # t
    <3>1. /\ UNCHANGED <<topology, pc, made, dropped, results, inq, modelEv, retired, working>>
          /\ local' = [local EXCEPT ![t] = @ - 1]
          /\ outq' = [outq EXCEPT ![t] = @ \o <<Event("answer", made[t] - local[t] + 1)>>]
      BY <1>27 DEF AnswerLocal, Put, dispatch, worker, fifo
    <3>2. Untouched(s) /\ Lasts(s)
      BY <1>1, <2>2, <3>1 DEF TypeSources, TypeEvents, Untouched, Lasts, Over
    <3> QED
      BY <1>2, <3>1, <3>2, FlowOfSame
  <2> QED
    BY <2>1, <2>2
<1>28. ASSUME NEW t \in Sources, CaptureRaises(t) PROVE FlowInv(s)'
  <2>1. /\ UNCHANGED <<topology, made, dropped, local, results, inq, modelEv, retired, working>>
        /\ Goto(t, "exit") /\ pc[t] \in {"capture", "drain"}
        /\ outq' = [outq EXCEPT ![t] = @ \o <<Event("fatal", 0), Event("failed", 0)>>]
    BY <1>28 DEF CaptureRaises, Put, dispatch, worker, fifo
  <2>2. pc'[t] = "exit" /\ \A o \in Sources : o # t => pc'[o] = pc[o]
    BY <1>1, <1>2, <2>1 DEF TypePc, Goto
  <2>3. /\ outq'[t] = outq[t] \o <<Event("fatal", 0), Event("failed", 0)>>
        /\ \A o \in Sources : o # t => outq'[o] = outq[o]
    BY <1>1, <2>1 DEF TypeEvents
  <2>4. CASE s = t
    <3>1. 0 \in 0..Chunks
      BY ProcessNames
    <3>2. Failing(s) /\ pc[s] # "crashed"
      BY <2>1, <2>2, <2>3, <2>4, <3>1 DEF Failing, Over
    <3> QED
      BY <1>1, <1>2, <2>1, <3>2, FlowOfRaise
  <2>5. CASE s # t
    <3>1. Untouched(s) /\ Lasts(s)
      BY <2>1, <2>2, <2>3, <2>5 DEF Untouched, Lasts, Over
    <3> QED
      BY <1>2, <2>1, <3>1, FlowOfSame
  <2> QED
    BY <2>4, <2>5
<1>29. ASSUME NEW p \in Procs, Crash(p) PROVE FlowInv(s)'
  <2>1. /\ UNCHANGED <<topology, made, dropped, local, results, inq, modelEv, retired, working>>
        /\ Goto(p, "crashed")
        /\ IF p = Model THEN outq' = outq
           ELSE \E n \in 0..Len(outq[p]) : outq' = [outq EXCEPT ![p] = SubSeq(@, 1, n)]
    BY <1>29 DEF Crash, dispatch, worker, fifo
  <2>2. pc'[p] = "crashed" /\ \A o \in Procs : o # p => pc'[o] = pc[o]
    BY <1>1, <2>1 DEF TypePc, Goto
  <2>3. CASE s = p
    <3>1. PICK n \in 0..Len(outq[s]) : outq' = [outq EXCEPT ![s] = SubSeq(@, 1, n)]
      BY <1>2, <2>1, <2>3
    <3>2. outq'[s] = SubSeq(outq[s], 1, n)
      BY <1>1, <3>1 DEF TypeEvents
    <3> QED
      BY <1>1, <1>2, <2>1, <2>2, <2>3, <3>2, FlowOfCrash
  <2>4. CASE s # p
    <3>1. outq'[s] = outq[s]
      BY <1>1, <2>1, <2>4 DEF TypeEvents
    <3>2. Untouched(s) /\ Lasts(s)
      BY <1>2, <2>1, <2>2, <2>4, <3>1 DEF Untouched, Lasts, Over
    <3> QED
      BY <1>2, <2>1, <3>2, FlowOfSame
  <2> QED
    BY <2>3, <2>4
<1>30. ASSUME GetItem PROVE FlowInv(s)'
  BY <1>1, <1>2, <1>30, FlowOfGetItem
<1>31. ASSUME PublishAnswer PROVE FlowInv(s)'
  BY <1>1, <1>2, <1>31, FlowOfPublishAnswer
<1>32. ASSUME DispatchEvent PROVE FlowInv(s)'
  <2>0. SourceSide(s)
    BY <1>32 DEF DispatchEvent, SourceSide, worker
  <2>1. CASE modelEv # <<>>
    <3> DEFINE x == Event(Head(modelEv).kind, Head(modelEv).chunk)
               t == Head(modelEv).source
    <3>1. Deliver(<<x>>, t) /\ outq' = outq /\ modelEv' = Tail(modelEv)
      BY <1>32, <2>1 DEF DispatchEvent
    <3>2. <<x>> \in Seq(Events) /\ t \in Sources
      BY <1>1, <2>1, HeadsAreEvents
    <3>3. CASE s = t
      BY <1>1, <1>2, <2>0, <2>1, <3>1, <3>3, FlowOfModelEvent
    <3>4. CASE s # t
      <4> HIDE DEF x
      <4>1. results'[s] = results[s]
        BY <1>1, <3>1, <3>2, <3>4, DeliverMoves
      <4>2. Untouched(s) /\ Lasts(s)
        BY <2>0, <3>1, <4>1 DEF SourceSide, Untouched, Lasts, Over
      <4>3. FifoKeeps(s)
        BY <1>1, <2>0, <2>1, <3>1, <3>4, OthersOfRead DEF SourceSide
      <4> QED
        BY <1>2, <4>2, <4>3, FlowOfOther
    <3> QED
      BY <3>3, <3>4
  <2>2. CASE modelEv = <<>>
    <3>1. PICK t \in Sources : /\ outq[t] # <<>> /\ Deliver(<<Head(outq[t])>>, t)
                               /\ outq' = [outq EXCEPT ![t] = Tail(@)] /\ modelEv' = modelEv
      BY <1>32, <2>2 DEF DispatchEvent
    <3>2. outq'[t] = Tail(outq[t]) /\ (s # t => outq'[s] = outq[s])
      BY <1>1, <3>1 DEF TypeEvents
    <3>3. CASE s = t
      BY <1>1, <1>2, <2>0, <3>1, <3>2, <3>3, FlowOfOutput
    <3>4. CASE s # t
      <4>1. <<Head(outq[t])>> \in Seq(Events)
        BY <1>1, <3>1, HeadsAreEvents
      <4>2. results'[s] = results[s]
        BY <1>1, <3>1, <3>4, <4>1, DeliverMoves
      <4>3. Untouched(s) /\ Lasts(s)
        BY <2>0, <3>2, <3>4, <4>2 DEF SourceSide, Untouched, Lasts, Over
      <4> QED
        BY <1>2, <2>0, <3>1, <4>3, FlowOfSame DEF SourceSide
    <3> QED
      BY <3>3, <3>4
  <2> QED
    BY <2>1, <2>2
<1>33. ASSUME NEW t \in Sources, DispatchExited(t) PROVE FlowInv(s)'
  <2>1. CASE s = t
    BY <1>1, <1>2, <1>33, <2>1, FlowOfExit
  <2>2. CASE s # t
    <3>1. /\ Deliver(<<Event("exited", 0), Event("failed", 0)>>, t)
          /\ SourceSide(s) /\ UNCHANGED <<outq, modelEv>>
      BY <1>33 DEF DispatchExited, SourceSide, worker, fifo
    <3>2. <<Event("exited", 0), Event("failed", 0)>> \in Seq(Events)
      BY ProcessNames, EventKinds
    <3>3. results'[s] = results[s]
      BY <1>1, <2>2, <3>1, <3>2, DeliverMoves
    <3>4. Untouched(s) /\ Lasts(s)
      BY <3>1, <3>3 DEF SourceSide, Untouched, Lasts, Over
    <3> QED
      BY <1>2, <3>1, <3>4, FlowOfSame DEF SourceSide
  <2> QED
    BY <2>1, <2>2
<1> QED
  BY <1>4, <1>5, <1>6, <1>7, <1>8, <1>9, <1>10, <1>11, <1>12, <1>13, <1>14, <1>15, <1>16,
     <1>17, <1>19, <1>20, <1>21, <1>22, <1>24, <1>25, <1>26, <1>27, <1>28, <1>29, <1>30,
     <1>31, <1>32, <1>33
     DEF Next, CaptureWork, ModelWork, Dispatch, Procs

(* At the start no chunk is anywhere.                                       *)
LEMMA FlowStart == Init => \A s \in Sources : FlowInv(s)
<1> SUFFICES ASSUME Init, NEW s \in Sources PROVE FlowInv(s)
  OBVIOUS
<1>1. /\ results[s] = <<>> /\ outq[s] = <<>> /\ inq = <<>> /\ modelEv = <<>> /\ working = NoItem
      /\ made[s] = 0 /\ local[s] = 0
  BY DEF Init
<1>2. Told(s) = {} /\ Sent(s) = {} /\ Held(s) = {} /\ Waiting(s) = {} /\ Due(s) = {}
  <2>1. Answers(<<>>) = {} /\ \A kind : Body(<<>>, s, kind) = {}
    BY DEF Answers, Body, Range
  <2>2. \A n \in 0..Chunks : NoItem # Item("chunk", s, n)
    BY DEF NoItem, Item
  <2>3. 1..0 = {}
    OBVIOUS
  <2> QED
    BY <1>1, <2>1, <2>2, <2>3 DEF Told, Sent, Held, Waiting, Due
<1>3. RowInv(s) /\ KeptInv(s)
  <2>1. LastKind(s) = "none"
    BY <1>1 DEF LastKind
  <2> QED
    BY <1>2, <2>1 DEF RowInv, Before, KeptInv
<1>4. LineInv(s)
  BY <1>1 DEF LineInv, InOrder, Lined
<1>5. EndInv(s)
  BY <1>1 DEF EndInv, HasEnd, LastKind
<1> QED
  BY <1>3, <1>4, <1>5 DEF FlowInv

(* In every reachable state no chunk is lost sight of.                      *)
LEMMA FlowInvariant == Spec => [](\A s \in Sources : FlowInv(s))
<1> DEFINE Inv == \A s \in Sources : FlowInv(s)
<1>1. BaseInv /\ ControlInv /\ Inv /\ [Next]_vars => Inv'
  <2> SUFFICES ASSUME BaseInv, ControlInv, Inv, [Next]_vars PROVE Inv'
    OBVIOUS
  <2>1. CASE Next
    BY <2>1, FlowStep
  <2>2. CASE UNCHANGED vars
    <3> SUFFICES ASSUME NEW s \in Sources PROVE FlowInv(s)'
      OBVIOUS
    <3>1. UNCHANGED <<topology, pc, made, dropped, local, outq, results, inq, modelEv, retired, working>>
      BY <2>2 DEF vars, fifo, worker, dispatch
    <3>2. Untouched(s) /\ Lasts(s)
      BY <3>1 DEF Untouched, Lasts, Over
    <3> QED
      BY <3>1, <3>2, FlowOfSame
  <2> QED
    BY <2>1, <2>2
<1>2. Init => Inv
  BY FlowStart
<1> HIDE DEF Inv
<1>3. Spec => []Inv
  BY <1>1, <1>2, BaseInvariant, ControlInvariant, PTL DEF Spec
<1> QED
  BY <1>3 DEF Inv

(* A consumer sees its chunks in order and none twice, and a session that   *)
(* says "stopped" has answered each chunk its source made and did not drop, *)
(* whatever the topology, the number of sources and the capacity, and though*)
(* any of the processes may die.                                            *)
THEOREM StoppedMeansAnsweredAlways == Spec => []StoppedMeansAnswered
<1>1. (\A s \in Sources : FlowInv(s)) => StoppedMeansAnswered
  <2> SUFFICES ASSUME \A s \in Sources : FlowInv(s), NEW s \in Sources
               PROVE  /\ InOrder(results[s])
                      /\ LastKind(s) = "stopped" => Answers(results[s]) = (1..made[s]) \ dropped[s]
    BY DEF StoppedMeansAnswered
  <2>1. Told(s) \subseteq Due(s) /\ InOrder(results[s])
        /\ (LastKind(s) = "stopped" => \A n \in Due(s) : n \in Told(s))
    BY DEF FlowInv, RowInv, LineInv, KeptInv
  <2>2. LastKind(s) = "stopped" => Told(s) = Due(s)
    BY <2>1
  <2> QED
    BY <2>1, <2>2 DEF Told, Due
<1> QED
  BY <1>1, FlowInvariant, PTL
===============================================================================
