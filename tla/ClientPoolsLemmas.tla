-------------------------- MODULE ClientPoolsLemmas --------------------------
(***************************************************************************)
(* Facts the proofs about the client pools rest on: what the lists do when *)
(* something is put in or taken out, how many sockets a pipe holds and how *)
(* many slots are taken.                                                   *)
(***************************************************************************)
EXTENDS ClientPools, FiniteSetTheorems, SequenceTheorems, TLAPS

\* No socket is in the pipe twice.
Uniq(q) == \A i, j \in DOMAIN q : q[i] = q[j] /\ q[i] # NewBlock => i = j

\* The sockets in a pipe, and the clients in slots.
Queue(q) == Cardinality({i \in DOMAIN q : q[i] # NewBlock})
Taken(I, f) == Cardinality({k \in I : f[k] # None})

LEMMA EmptySeqs ==
    /\ \A x : ~InSeq(x, << >>)
    /\ Uniq(<< >>) /\ Distinct(<< >>) /\ Queue(<< >>) = 0
<1>1. {i \in DOMAIN << >> : << >>[i] # NewBlock} = {}
  OBVIOUS
<1>2. QED
  BY <1>1, FS_EmptySet DEF InSeq, Uniq, Distinct, Queue

LEMMA Appended ==
    ASSUME NEW S, NEW q \in Seq(S), NEW y \in S
    PROVE  /\ Append(q, y) \in Seq(S) /\ Append(q, y) # << >>
           /\ \A x : InSeq(x, Append(q, y)) <=> InSeq(x, q) \/ x = y
           /\ (~InSeq(y, q) => (Distinct(q) => Distinct(Append(q, y))))
           /\ (y = NewBlock \/ ~InSeq(y, q) => (Uniq(q) => Uniq(Append(q, y))))
<1> DEFINE new == Append(q, y)
<1>1. /\ new \in Seq(S) /\ new # << >>
      /\ DOMAIN new = DOMAIN q \cup {Len(q) + 1} /\ Len(q) + 1 \notin DOMAIN q
      /\ new[Len(q) + 1] = y /\ \A i \in DOMAIN q : new[i] = q[i]
  OBVIOUS
<1> HIDE DEF new
<1>2. \A x : InSeq(x, new) <=> InSeq(x, q) \/ x = y
  BY <1>1 DEF InSeq
<1>3. ASSUME ~InSeq(y, q), Distinct(q)
      PROVE  Distinct(new)
  BY <1>1, <1>3 DEF InSeq, Distinct
<1>4. ASSUME y = NewBlock \/ ~InSeq(y, q), Uniq(q)
      PROVE  Uniq(new)
  BY <1>1, <1>4 DEF InSeq, Uniq
<1>5. QED
  BY <1>1, <1>2, <1>3, <1>4 DEF new

LEMMA Tailed ==
    ASSUME NEW S, NEW q \in Seq(S), q # << >>
    PROVE  /\ Tail(q) \in Seq(S) /\ Head(q) \in S /\ InSeq(Head(q), q)
           /\ \A x : InSeq(x, q) <=> InSeq(x, Tail(q)) \/ x = Head(q)
           /\ (Uniq(q) => Uniq(Tail(q)))
           /\ (Uniq(q) /\ Head(q) # NewBlock => ~InSeq(Head(q), Tail(q)))
<1> DEFINE new == Tail(q)
<1>1. /\ new \in Seq(S) /\ Head(q) \in S /\ Head(q) = q[1] /\ 1 \in DOMAIN q
      /\ \A i \in DOMAIN new : i + 1 \in DOMAIN q /\ i + 1 # 1 /\ new[i] = q[i + 1]
      /\ \A i \in DOMAIN q : i # 1 => i - 1 \in DOMAIN new /\ q[i] = new[i - 1]
  OBVIOUS
<1>2. \A i, j \in DOMAIN new : i \in Int /\ j \in Int /\ (i + 1 = j + 1 => i = j)
  OBVIOUS
<1> HIDE DEF new
<1>3. \A x : InSeq(x, q) <=> InSeq(x, new) \/ x = Head(q)
  BY <1>1 DEF InSeq
<1>4. ASSUME Uniq(q)
      PROVE  Uniq(new) /\ (Head(q) # NewBlock => ~InSeq(Head(q), new))
  BY <1>1, <1>2, <1>4 DEF InSeq, Uniq
<1>5. QED
  BY <1>1, <1>3, <1>4 DEF new, InSeq

\* What comes before the n-th entry stays, what comes after it moves up.
LEMMA Removed ==
    ASSUME NEW S, NEW q \in Seq(S), Distinct(q), NEW n \in DOMAIN q
    PROVE  /\ Without(q, q[n]) \in Seq(S)
           /\ \A x : InSeq(x, Without(q, q[n])) <=> InSeq(x, q) /\ x # q[n]
           /\ Distinct(Without(q, q[n]))
           /\ \A i \in DOMAIN q : i > n => /\ i - 1 \in DOMAIN Without(q, q[n])
                                          /\ Without(q, q[n])[i - 1] = q[i]
<1> DEFINE new == SubSeq(q, 1, n - 1) \o SubSeq(q, n + 1, Len(q))
<1>1. Without(q, q[n]) = new
  <2>1. InSeq(q[n], q)
    BY DEF InSeq
  <2>2. (CHOOSE i \in DOMAIN q : q[i] = q[n]) = n
    BY DEF Distinct
  <2>3. QED
    BY <2>1, <2>2 DEF Without
<1>2. n \in Nat /\ Len(q) \in Nat /\ n >= 1 /\ n <= Len(q) /\ DOMAIN q = 1..Len(q)
  OBVIOUS
<1>3. /\ new \in Seq(S) /\ Len(new) = Len(q) - 1 /\ DOMAIN new = 1..(Len(q) - 1)
      /\ \A i \in 1..(Len(q) - 1) : new[i] = IF i < n THEN q[i] ELSE q[i + 1]
  <2> DEFINE a == SubSeq(q, 1, n - 1)
             b == SubSeq(q, n + 1, Len(q))
  <2>1. /\ a \in Seq(S) /\ Len(a) = n - 1
        /\ \A i \in 1..(n - 1) : a[i] = q[i]
    BY <1>2
  <2>2. /\ b \in Seq(S) /\ Len(b) = Len(q) - n
        /\ \A i \in 1..(Len(q) - n) : b[i] = q[i + n]
    BY <1>2
  <2> HIDE DEF a, b
  <2>3. /\ a \o b \in Seq(S) /\ Len(a \o b) = Len(a) + Len(b)
        /\ \A i \in 1..(Len(a) + Len(b)) :
              (a \o b)[i] = IF i <= Len(a) THEN a[i] ELSE b[i - Len(a)]
    BY <2>1, <2>2, ConcatProperties
  <2>a. Len(a \o b) = Len(q) - 1 /\ DOMAIN (a \o b) = 1..(Len(q) - 1)
    <3>1. Len(a \o b) = Len(q) - 1
      BY <1>2, <2>1, <2>2, <2>3
    <3>2. QED
      BY <2>3, <3>1
  <2>4. ASSUME NEW i \in 1..(Len(q) - 1)
        PROVE  (a \o b)[i] = IF i < n THEN q[i] ELSE q[i + 1]
    <3>0. /\ i \in 1..(Len(a) + Len(b)) /\ Len(a) = n - 1
          /\ (a \o b)[i] = IF i <= Len(a) THEN a[i] ELSE b[i - Len(a)]
      <4>1. Len(a) + Len(b) = Len(q) - 1
        BY <1>2, <2>1, <2>2
      <4>2. QED
        BY <2>1, <2>3, <4>1
    <3>1. CASE i < n
      <4>1. i <= Len(a) /\ i \in 1..(n - 1)
        BY <1>2, <3>0, <3>1
      <4>2. QED
        BY <2>1, <3>0, <3>1, <4>1
    <3>2. CASE ~(i < n)
      <4>1. ~(i <= Len(a)) /\ i - Len(a) \in 1..(Len(q) - n) /\ (i - Len(a)) + n = i + 1
        BY <1>2, <3>0, <3>2
      <4>2. (a \o b)[i] = b[i - Len(a)]
        BY <3>0, <4>1
      <4>3. b[i - Len(a)] = q[i + 1]
        BY <2>2, <4>1
      <4>4. QED
        BY <3>2, <4>2, <4>3
    <3>3. QED
      BY <3>1, <3>2
  <2>5. QED
    BY <2>3, <2>a, <2>4 DEF a, b
<1> HIDE DEF new
<1>4. \A i \in DOMAIN q : i < n => i \in DOMAIN new /\ new[i] = q[i]
  BY <1>2, <1>3
<1>5. \A i \in DOMAIN q : i > n => i - 1 \in DOMAIN new /\ new[i - 1] = q[i]
  BY <1>2, <1>3
<1>6. \A i \in DOMAIN new : \/ i < n /\ i \in DOMAIN q /\ new[i] = q[i]
                            \/ i >= n /\ i + 1 \in DOMAIN q /\ new[i] = q[i + 1]
  BY <1>2, <1>3
<1>7. \A i, j \in DOMAIN new : i \in Int /\ j \in Int
  BY <1>3
<1>8. \A x : InSeq(x, new) <=> InSeq(x, q) /\ x # q[n]
  <2>1. ASSUME NEW x, InSeq(x, new)
        PROVE  InSeq(x, q) /\ x # q[n]
    <3>1. PICK i \in DOMAIN new : new[i] = x
      BY <2>1 DEF InSeq
    <3>2. QED
      BY <1>2, <1>6, <1>7, <3>1 DEF InSeq, Distinct
  <2>2. ASSUME NEW x, InSeq(x, q), x # q[n]
        PROVE  InSeq(x, new)
    <3>1. PICK i \in DOMAIN q : q[i] = x
      BY <2>2 DEF InSeq
    <3>2. i < n \/ i > n
      BY <1>2, <2>2, <3>1
    <3>3. QED
      BY <1>4, <1>5, <3>1, <3>2 DEF InSeq
  <2>3. QED
    BY <2>1, <2>2
<1>9. Distinct(new)
  <2>1. SUFFICES ASSUME NEW i \in DOMAIN new, NEW j \in DOMAIN new, new[i] = new[j]
                 PROVE  i = j
    BY DEF Distinct
  <2>2. CASE i < n /\ j < n
    BY <1>2, <1>6, <1>7, <2>1, <2>2 DEF Distinct
  <2>3. CASE i >= n /\ j >= n
    <3>1. i + 1 \in DOMAIN q /\ j + 1 \in DOMAIN q /\ q[i + 1] = q[j + 1]
      BY <1>2, <1>6, <1>7, <2>1, <2>3
    <3>2. i + 1 = j + 1
      BY <3>1 DEF Distinct
    <3>3. QED
      BY <1>7, <3>2
  <2>4. ASSUME NEW a \in DOMAIN new, NEW b \in DOMAIN new, a < n, b >= n
        PROVE  new[a] # new[b]
    <3>1. /\ a \in DOMAIN q /\ new[a] = q[a] /\ b + 1 \in DOMAIN q /\ new[b] = q[b + 1]
          /\ a # b + 1
      BY <1>2, <1>6, <1>7, <2>4
    <3>2. QED
      BY <3>1 DEF Distinct
  <2>5. QED
    BY <1>2, <1>7, <2>1, <2>2, <2>3, <2>4
<1>10. QED
  BY <1>1, <1>3, <1>5, <1>8, <1>9

LEMMA WithoutSeq ==
    ASSUME NEW S, NEW q \in Seq(S), Distinct(q), NEW x
    PROVE  /\ Without(q, x) \in Seq(S) /\ Distinct(Without(q, x))
           /\ \A y : InSeq(y, Without(q, x)) <=> InSeq(y, q) /\ y # x
<1>1. CASE InSeq(x, q)
  <2>1. PICK n \in DOMAIN q : q[n] = x
    BY <1>1 DEF InSeq
  <2>2. QED
    BY <2>1, Removed
<1>2. CASE ~InSeq(x, q)
  <2>1. Without(q, x) = q
    BY <1>2 DEF Without
  <2>2. QED
    BY <1>2, <2>1
<1>3. QED
  BY <1>1, <1>2

\* What follows the n-th entry.
LEMMA Suffix ==
    ASSUME NEW S, NEW q \in Seq(S), Distinct(q), NEW n \in DOMAIN q
    PROVE  /\ SubSeq(q, n + 1, Len(q)) \in Seq(S)
           /\ Distinct(SubSeq(q, n + 1, Len(q)))
           /\ \A i \in DOMAIN q : i > n => InSeq(q[i], SubSeq(q, n + 1, Len(q)))
<1> DEFINE new == SubSeq(q, n + 1, Len(q))
<1>1. n \in Nat /\ Len(q) \in Nat /\ n >= 1 /\ n <= Len(q) /\ DOMAIN q = 1..Len(q)
  OBVIOUS
<1>2. /\ new \in Seq(S) /\ DOMAIN new = 1..(Len(q) - n)
      /\ \A i \in 1..(Len(q) - n) : new[i] = q[i + n]
  BY <1>1
<1> HIDE DEF new
<1>3. \A i \in DOMAIN new : i \in Int /\ i + n \in DOMAIN q /\ new[i] = q[i + n]
  BY <1>1, <1>2
<1>4. \A i \in DOMAIN q : i > n => i - n \in DOMAIN new /\ new[i - n] = q[i]
  BY <1>1, <1>2
<1>5. \A i, j \in DOMAIN new : i + n = j + n => i = j
  BY <1>1, <1>3
<1>6. Distinct(new)
  BY <1>3, <1>5 DEF Distinct
<1>7. \A i \in DOMAIN q : i > n => InSeq(q[i], new)
  BY <1>4 DEF InSeq
<1>8. QED
  BY <1>2, <1>6, <1>7 DEF new

\* Numbering some of the first n entries in their order leaves no number out.
LEMMA Ranks ==
    ASSUME NEW n \in Nat, NEW live \in SUBSET (1..n)
    PROVE  /\ Cardinality(live) \in Nat
           /\ \A i \in live : Cardinality({j \in live : j <= i}) \in 1..Cardinality(live)
           /\ \A m \in 1..Cardinality(live) :
                  \E i \in live : Cardinality({j \in live : j <= i}) = m
<1> DEFINE low(i) == {j \in live : j <= i}
           M == Cardinality(live)
           rank == [i \in live |-> Cardinality(low(i))]
<1>1. IsFiniteSet(live) /\ M \in Nat
  <2>1. IsFiniteSet(1..n)
    BY FS_Interval
  <2>2. IsFiniteSet(live)
    BY <2>1, FS_Subset
  <2>3. QED
    BY <2>2, FS_CardinalityType
<1>2. ASSUME NEW i \in live
      PROVE  /\ i \in Nat /\ i \in low(i) /\ low(i) \in SUBSET live /\ IsFiniteSet(low(i))
             /\ Cardinality(low(i)) \in 1..M
  <2>1. i \in Nat /\ i \in low(i) /\ low(i) \in SUBSET live
    OBVIOUS
  <2>2. IsFiniteSet(low(i)) /\ Cardinality(low(i)) <= M
    <3> HIDE DEF low
    <3>1. QED
      BY <1>1, <2>1, FS_Subset
  <2>3. Cardinality(low(i)) \in Nat /\ Cardinality(low(i)) # 0
    <3> HIDE DEF low
    <3>1. QED
      BY <2>1, <2>2, FS_CardinalityType, FS_EmptySet
  <2> HIDE DEF low, M
  <2>4. QED
    BY <1>1, <2>1, <2>2, <2>3
<1>3. ASSUME NEW i \in live, NEW k \in live, i < k
      PROVE  Cardinality(low(i)) # Cardinality(low(k))
  <2>0. \A j \in live : j \in Nat
    OBVIOUS
  <2>1. low(i) \in SUBSET low(k) /\ k \in low(k) /\ k \notin low(i)
    <3>1. \A j \in live : j <= i => j <= k
      BY <1>3, <2>0
    <3>2. ~(k <= i) /\ k <= k
      BY <1>3, <2>0
    <3>3. QED
      BY <3>1, <3>2
  <2> HIDE DEF low
  <2>2. QED
    BY <1>2, <2>1, FS_Subset
<1>4. rank \in [live -> 1..M]
  <2> HIDE DEF low, M
  <2>1. QED
    BY <1>2
<1>5. rank \in Injection(live, 1..M)
  <2>1. ASSUME NEW i \in live, NEW k \in live, rank[i] = rank[k]
        PROVE  i = k
    <3>1. Cardinality(low(i)) = Cardinality(low(k))
      BY <2>1
    <3>2. i \in Nat /\ k \in Nat
      BY <1>2
    <3> HIDE DEF low, rank
    <3>3. QED
      BY <1>3, <3>1, <3>2
  <2> HIDE DEF rank, M
  <2>2. QED
    BY <1>4, <2>1 DEF Injection, IsInjective
<1>6. IsFiniteSet(1..M) /\ Cardinality(1..M) = M
  <2> HIDE DEF M
  <2>1. QED
    BY <1>1, FS_Interval
<1>7. rank \in Surjection(live, 1..M)
  <2>1. Cardinality(live) = Cardinality(1..M)
    BY <1>6
  <2> HIDE DEF rank, M
  <2>2. QED
    BY <1>5, <1>6, <2>1, FS_Injection
<1>8. ASSUME NEW m \in 1..M
      PROVE  \E i \in live : rank[i] = m
  <2> HIDE DEF rank, M
  <2>1. QED
    BY <1>7 DEF Surjection
<1>9. \A i \in live : rank[i] = Cardinality(low(i))
  OBVIOUS
<1>10. QED
  <2> HIDE DEF rank
  <2>1. QED
    BY <1>1, <1>2, <1>8, <1>9

-----------------------------------------------------------------------------

LEMMA QueueAppended ==
    ASSUME NEW S, NEW q \in Seq(S), NEW y \in S
    PROVE  /\ Queue(q) \in Nat
           /\ Queue(Append(q, y)) = Queue(q) + (IF y # NewBlock THEN 1 ELSE 0)
<1> DEFINE A == {i \in DOMAIN q : q[i] # NewBlock}
           B == {i \in DOMAIN Append(q, y) : Append(q, y)[i] # NewBlock}
<1>1. IsFiniteSet(A) /\ Cardinality(A) \in Nat
  <2>1. IsFiniteSet(1..Len(q)) /\ A \in SUBSET (1..Len(q))
    BY FS_Interval
  <2>2. QED
    BY <2>1, FS_Subset, FS_CardinalityType
<1>2. CASE y # NewBlock
  <2>1. B = A \cup {Len(q) + 1} /\ Len(q) + 1 \notin A
    BY <1>2
  <2>2. Cardinality(B) = Cardinality(A) + 1
    BY <1>1, <2>1, FS_AddElement
  <2>3. QED
    BY <1>1, <1>2, <2>2 DEF Queue
<1>3. CASE y = NewBlock
  <2>1. B = A
    BY <1>3
  <2>2. Queue(q) = Cardinality(A) /\ Queue(Append(q, y)) = Cardinality(A)
    BY <2>1 DEF Queue
  <2> HIDE DEF A, B
  <2>3. QED
    BY <1>1, <1>3, <2>2
<1>4. QED
  BY <1>2, <1>3

LEMMA QueueTailed ==
    ASSUME NEW S, NEW q \in Seq(S), q # << >>
    PROVE  /\ Queue(Tail(q)) \in Nat
           /\ Queue(q) = Queue(Tail(q)) + (IF Head(q) # NewBlock THEN 1 ELSE 0)
<1> DEFINE A == {i \in DOMAIN q : q[i] # NewBlock}
           B == {i \in DOMAIN Tail(q) : Tail(q)[i] # NewBlock}
           C == A \ {1}
           f == [i \in B |-> i + 1]
<1>1. Tail(q) \in Seq(S) /\ Len(q) \in Nat /\ Head(q) = q[1] /\ 1 \in DOMAIN q
  OBVIOUS
<1>2. IsFiniteSet(A) /\ Cardinality(A) \in Nat
  <2>1. IsFiniteSet(1..Len(q)) /\ A \in SUBSET (1..Len(q))
    BY FS_Interval
  <2>2. QED
    BY <2>1, FS_Subset, FS_CardinalityType
<1>3. IsFiniteSet(B) /\ Cardinality(B) \in Nat
  <2>1. IsFiniteSet(1..Len(Tail(q))) /\ B \in SUBSET (1..Len(Tail(q)))
    <3>1. Len(Tail(q)) \in Int /\ DOMAIN Tail(q) = 1..Len(Tail(q))
      BY <1>1
    <3>2. QED
      BY <3>1, FS_Interval
  <2>2. QED
    BY <2>1, FS_Subset, FS_CardinalityType
<1>4. f \in Bijection(B, C)
  <2>1. f \in [B -> C]
    OBVIOUS
  <2>2. \A i, j \in B : f[i] = f[j] => i = j
    OBVIOUS
  <2>3. \A c \in C : c - 1 \in B /\ f[c - 1] = c
    OBVIOUS
  <2> HIDE DEF B, C, f
  <2>4. QED
    BY <2>1, <2>2, <2>3 DEF Bijection, Injection, Surjection, IsInjective
<1>5. Cardinality(C) = Cardinality(B)
  BY <1>3, <1>4, FS_Bijection DEF ExistsBijection
<1>6. Cardinality(C) = IF 1 \in A THEN Cardinality(A) - 1 ELSE Cardinality(A)
  BY <1>2, FS_RemoveElement
<1>7. 1 \in A <=> Head(q) # NewBlock
  BY <1>1
<1>8. Queue(q) = Cardinality(A) /\ Queue(Tail(q)) = Cardinality(B)
  BY DEF Queue
<1> HIDE DEF A, B, C, f
<1>9. QED
  BY <1>2, <1>3, <1>5, <1>6, <1>7, <1>8

\* A slot is taken or freed.
LEMMA TakenChanges ==
    ASSUME NEW n \in Nat, NEW S, NEW f \in [1..n -> S]
    PROVE  /\ Taken(1..n, f) \in 0..n
           /\ (Taken(1..n, f) = 0 <=> \A k \in 1..n : f[k] = None)
           /\ ((\E k \in 1..n : f[k] = None) => Taken(1..n, f) < n)
           /\ \A k \in 1..n : f[k] # None =>
                  Taken(1..n, [f EXCEPT ![k] = None]) = Taken(1..n, f) - 1
           /\ \A k \in 1..n : \A s : f[k] = None /\ s # None =>
                  Taken(1..n, [f EXCEPT ![k] = s]) = Taken(1..n, f) + 1
<1> DEFINE A(g) == {k \in 1..n : g[k] # None}
<1>1. IsFiniteSet(1..n) /\ Cardinality(1..n) = n
  BY FS_Interval
<1>2. ASSUME NEW g
      PROVE  /\ IsFiniteSet(A(g)) /\ Cardinality(A(g)) \in 0..n
             /\ (Cardinality(A(g)) = n => A(g) = 1..n)
  <2>1. A(g) \in SUBSET (1..n)
    OBVIOUS
  <2> HIDE DEF A
  <2>2. IsFiniteSet(A(g)) /\ Cardinality(A(g)) <= n /\ (Cardinality(A(g)) = n => A(g) = 1..n)
    BY <1>1, <2>1, FS_Subset
  <2>3. QED
    BY <2>2, FS_CardinalityType
<1>3. \A g : Taken(1..n, g) = Cardinality(A(g))
  BY DEF Taken
<1>4. Taken(1..n, f) = 0 <=> A(f) = {}
  <2> HIDE DEF A
  <2>1. QED
    BY <1>2, <1>3, FS_EmptySet
<1>5. ASSUME NEW k \in 1..n, f[k] # None
      PROVE  Taken(1..n, [f EXCEPT ![k] = None]) = Taken(1..n, f) - 1
  <2>1. A([f EXCEPT ![k] = None]) = A(f) \ {k} /\ k \in A(f)
    BY <1>5
  <2> HIDE DEF A
  <2>2. Cardinality(A(f) \ {k}) = Cardinality(A(f)) - 1
    BY <1>2, <2>1, FS_RemoveElement
  <2>3. QED
    BY <1>3, <2>1, <2>2
<1>6. ASSUME NEW k \in 1..n, NEW s, f[k] = None, s # None
      PROVE  Taken(1..n, [f EXCEPT ![k] = s]) = Taken(1..n, f) + 1
  <2>1. A([f EXCEPT ![k] = s]) = A(f) \cup {k} /\ k \notin A(f)
    BY <1>6
  <2> HIDE DEF A
  <2>2. Cardinality(A(f) \cup {k}) = Cardinality(A(f)) + 1
    BY <1>2, <2>1, FS_AddElement
  <2>3. QED
    BY <1>3, <2>1, <2>2
<1>7. (\E k \in 1..n : f[k] = None) => A(f) # 1..n
  OBVIOUS
<1>8. A(f) = {} <=> \A k \in 1..n : f[k] = None
  OBVIOUS
<1> HIDE DEF A
<1>9. Taken(1..n, f) \in 0..n /\ (Taken(1..n, f) = n => A(f) = 1..n)
  BY <1>2, <1>3
<1>10. QED
  BY <1>4, <1>5, <1>6, <1>7, <1>8, <1>9
=============================================================================
