---------------------------- MODULE RouterProofs ----------------------------
(***************************************************************************)
(* Proofs about Router, for every list of rules, every set of tunnels and  *)
(* every destination: the cache and the label map are what the registered  *)
(* tunnels and their rules make them, matching yields the labels of the    *)
(* rules that apply, in the order of their priorities, and selection takes *)
(* the tunnel these rules ask for.                                         *)
(*                                                                         *)
(* What a recursive function or a flattening computes is shown by the      *)
(* lemmas of the first section, over lists of any length.                  *)
(***************************************************************************)
EXTENDS Router, SequenceTheorems, FiniteSetTheorems, WellFoundedInduction, TLAPS

-----------------------------------------------------------------------------
(* Counting up, and functions defined by it. *)

(* Any set of natural numbers has a least one. *)
LEMMA LeastNumber ==
  ASSUME NEW T \in SUBSET Nat, T # {}
  PROVE  \E m \in T : \A n \in T : m <= n
<1>1. PICK m \in T : \A n \in T : <<n, m>> \notin OpToRel(<, Nat)
  BY NatLessThanWellFounded, WFMin, Zenon
<1>2. \A n \in T : ~ n < m
  BY <1>1 DEF OpToRel
<1> QED  BY <1>2

(* A set that has 0 and with each number the next has all up to N. *)
LEMMA CountUp ==
  ASSUME NEW N \in Nat, NEW T,
         0 \in T, \A n \in 1 .. N : n - 1 \in T => n \in T
  PROVE  \A n \in 0 .. N : n \in T
<1> DEFINE Rest == {n \in Nat : n \in 0 .. N /\ n \notin T}
<1> SUFFICES ASSUME Rest # {} PROVE FALSE
  OBVIOUS
<1>1. PICK n \in Rest : \A m \in Rest : n <= m
  BY LeastNumber
<1>2. n \in 1 .. N /\ n - 1 \in Nat /\ n - 1 \in 0 .. N /\ ~ n <= n - 1
  OBVIOUS
<1>3. n - 1 \in T
  BY <1>1, <1>2
<1> QED  BY <1>1, <1>2, <1>3

(* f starts with base and continues by step. *)
Continues(f, N, base, step) ==
  f[0] = base /\ \A n \in 1 .. N : f[n] = step[n][f[n - 1]]

(* There is a function that continues so, *)
LEMMA RecursionExists ==
  ASSUME NEW V, NEW base \in V, NEW N \in Nat,
         NEW step \in [1 .. N -> [V -> V]]
  PROVE  \E f \in [0 .. N -> V] : Continues(f, N, base, step)
<1> DEFINE T == {n \in 0 .. N :
                   \E f \in [0 .. n -> V] : Continues(f, n, base, step)}
<1>1. 0 \in T
  <2>1. [n \in 0 .. 0 |-> base] \in [0 .. 0 -> V]
    OBVIOUS
  <2>2. Continues([n \in 0 .. 0 |-> base], 0, base, step)
    BY DEF Continues
  <2> QED  BY <2>1, <2>2
<1>2. ASSUME NEW n \in 1 .. N, n - 1 \in T
      PROVE  n \in T
  <2>1. PICK f \in [0 .. n - 1 -> V] : Continues(f, n - 1, base, step)
    BY <1>2
  <2> DEFINE g == [m \in 0 .. n |-> IF m = n THEN step[n][f[n - 1]] ELSE f[m]]
  <2>2. n \in 0 .. n /\ n - 1 \in 0 .. n - 1 /\ n \in 0 .. N /\ n # 0 /\ 0 \in 0 .. n
    OBVIOUS
  <2>3. step[n][f[n - 1]] \in V
    BY <2>1, <2>2
  <2>4. g \in [0 .. n -> V]
    <3>1. \A m \in 0 .. n : m # n => m \in 0 .. n - 1
      OBVIOUS
    <3> QED  BY <2>1, <2>3, <3>1
  <2>5. g[0] = base
    BY <2>1, <2>2 DEF Continues
  <2>6. ASSUME NEW m \in 1 .. n PROVE g[m] = step[m][g[m - 1]]
    <3>1. m \in 0 .. n /\ m - 1 \in 0 .. n /\ m - 1 # n
      OBVIOUS
    <3>2. g[m - 1] = f[m - 1]
      BY <3>1
    <3>3. CASE m = n
      BY <3>1, <3>2, <3>3
    <3>4. CASE m # n
      <4>1. m \in 1 .. n - 1
        BY <3>4
      <4>2. f[m] = step[m][f[m - 1]]
        BY <2>1, <4>1 DEF Continues
      <4>3. g[m] = f[m]
        BY <3>1, <3>4
      <4> QED  BY <3>2, <4>2, <4>3
    <3> QED  BY <3>3, <3>4
  <2>7. Continues(g, n, base, step)
    BY <2>5, <2>6 DEF Continues
  <2> QED  BY <2>2, <2>4, <2>7
<1>3. N \in T
  <2> HIDE DEF T
  <2>1. \A n \in 0 .. N : n \in T
    BY <1>1, <1>2, CountUp
  <2> QED  BY <2>1
<1> QED  BY <1>3

(* and any such function has its values in V. *)
LEMMA RecursionTyped ==
  ASSUME NEW V, NEW base \in V, NEW N \in Nat,
         NEW step \in [1 .. N -> [V -> V]],
         NEW f, Continues(f, N, base, step)
  PROVE  \A n \in 0 .. N : f[n] \in V
<1> DEFINE T == {n \in 0 .. N : f[n] \in V}
<1>1. 0 \in T
  BY DEF Continues
<1>2. \A n \in 1 .. N : n - 1 \in T => n \in T
  BY DEF Continues
<1> HIDE DEF T
<1>3. \A n \in 0 .. N : n \in T
  BY <1>1, <1>2, CountUp
<1> QED  BY <1>3 DEF T

-----------------------------------------------------------------------------
(* Flattening. *)

(* The elements before each sequence of q, and before the end. *)
Grown(f, q) ==
  /\ f[0] = <<>>
  /\ \A n \in 1 .. Len(q) : f[n] = f[n - 1] \o q[n]

(* FlattenSeq is reached by appending one sequence after the other. *)
LEMMA FlattenPrefixes ==
  ASSUME NEW S, NEW q \in Seq(Seq(S))
  PROVE  \E f \in [0 .. Len(q) -> Seq(S)] :
           Grown(f, q) /\ f[Len(q)] = FlattenSeq(q)
<1> DEFINE N == Len(q)
           step == [n \in 1 .. N |-> [v \in Seq(S) |-> v \o q[n]]]
<1>0. N \in Nat
  OBVIOUS
<1>1. <<>> \in Seq(S) /\ step \in [1 .. N -> [Seq(S) -> Seq(S)]]
  BY ConcatProperties, EmptySeq
<1>2. PICK f \in [0 .. N -> Seq(S)] : Continues(f, N, <<>>, step)
  <2> HIDE DEF step, N
  <2> QED  BY <1>0, <1>1, RecursionExists
<1>3. Grown(f, q)
  <2>1. ASSUME NEW n \in 1 .. N PROVE f[n] = f[n - 1] \o q[n]
    <3>1. f[n - 1] \in Seq(S)
      OBVIOUS
    <3>2. step[n][f[n - 1]] = f[n - 1] \o q[n]
      BY <3>1
    <3> QED  BY <1>2, <3>2 DEF Continues
  <2> QED  BY <1>2, <2>1 DEF Grown, Continues
<1>4. f[N] = FlattenSeq(q)
  <2>1. CASE N = 0
    BY <1>3, <2>1 DEF FlattenSeq, Grown
  <2>2. CASE N # 0
    <3> DEFINE Join(g) ==
                 g = [i \in 1 .. N |-> IF i = 1 THEN q[i] ELSE g[i - 1] \o q[i]]
               h == [i \in 1 .. N |-> f[i]]
               flatten == CHOOSE g : Join(g)
    <3>1. Join(h)
      <4>1. ASSUME NEW i \in 1 .. N
            PROVE  f[i] = IF i = 1 THEN q[i] ELSE h[i - 1] \o q[i]
        <5>1. CASE i = 1
          <6>1. f[1] = <<>> \o q[1]
            <7>1. 1 \in 1 .. Len(q) /\ 1 - 1 = 0
              BY <5>1
            <7>2. f[0] = <<>> /\ f[1] = f[1 - 1] \o q[1]
              BY <1>3, <7>1 DEF Grown
            <7> QED  BY <7>1, <7>2
          <6>2. q[1] \in Seq(S)
            BY <5>1
          <6> QED  BY <5>1, <6>1, <6>2, ConcatEmptySeq
        <5>2. CASE i # 1
          <6>1. i - 1 \in 1 .. N
            BY <5>2
          <6> QED  BY <1>3, <5>2, <6>1 DEF Grown
        <5> QED  BY <5>1, <5>2
      <4> QED  BY <4>1
    <3>2. Join(flatten)
      <4> HIDE DEF h, Join
      <4> QED  BY <3>1
    <3>3. FlattenSeq(q) = flatten[N]
      BY <2>2 DEF FlattenSeq
    <3> HIDE DEF flatten
    <3> DEFINE T == {n \in 0 .. N : n = 0 \/ flatten[n] = f[n]}
    <3>4. 0 \in T
      OBVIOUS
    <3>5. ASSUME NEW n \in 1 .. N, n - 1 \in T
          PROVE  n \in T
      <4>1. flatten[n] = IF n = 1 THEN q[n] ELSE flatten[n - 1] \o q[n]
        BY <3>2, Zenon
      <4>2. h[n] = IF n = 1 THEN q[n] ELSE h[n - 1] \o q[n]
        BY <3>1, Zenon
      <4>3. n # 1 => flatten[n - 1] = f[n - 1] /\ h[n - 1] = f[n - 1]
        BY <3>5
      <4> QED  BY <4>1, <4>2, <4>3
    <3>6. \A n \in 0 .. N : n \in T
      <4> HIDE DEF T
      <4> QED  BY <1>0, <3>4, <3>5, CountUp
    <3> QED  BY <2>2, <3>3, <3>6
  <2> QED  BY <2>1, <2>2
<1> QED  BY <1>2, <1>3, <1>4

(* A flattening has the elements of the sequences, and no other. *)
LEMMA FlattenRange ==
  ASSUME NEW S, NEW q \in Seq(Seq(S))
  PROVE  /\ FlattenSeq(q) \in Seq(S)
         /\ Range(FlattenSeq(q)) = UNION {Range(q[n]) : n \in DOMAIN q}
<1>0. Len(q) \in Nat /\ DOMAIN q = 1 .. Len(q)
  OBVIOUS
<1>1. PICK f \in [0 .. Len(q) -> Seq(S)] : Grown(f, q) /\ f[Len(q)] = FlattenSeq(q)
  BY FlattenPrefixes
<1> DEFINE T == {n \in 0 .. Len(q) : Range(f[n]) = UNION {Range(q[m]) : m \in 1 .. n}}
<1>2. 0 \in T
  <2>1. Range(<<>>) = {}
    BY DEF Range
  <2> QED  BY <1>1, <2>1 DEF Grown
<1>3. ASSUME NEW n \in 1 .. Len(q), n - 1 \in T
      PROVE  n \in T
  <2>1. f[n] = f[n - 1] \o q[n]
    BY <1>1 DEF Grown
  <2>2. f[n - 1] \in Seq(S) /\ q[n] \in Seq(S) /\ n \in 0 .. Len(q)
    <3>1. n - 1 \in 0 .. Len(q) /\ n \in 0 .. Len(q) /\ n \in DOMAIN q
      BY <1>0
    <3> HIDE DEF T
    <3> QED  BY <3>1
  <2>3. Range(f[n]) = Range(f[n - 1]) \cup Range(q[n])
    BY <2>1, <2>2, RangeConcatenation
  <2>4. 1 .. n = (1 .. n - 1) \cup {n}
    OBVIOUS
  <2>5. {Range(q[m]) : m \in 1 .. n} =
          {Range(q[m]) : m \in 1 .. n - 1} \cup {Range(q[n])}
    BY <2>4
  <2> QED  BY <1>3, <2>2, <2>3, <2>5
<1>4. Len(q) \in T
  <2>1. \A n \in 0 .. Len(q) : n \in T
    <3> HIDE DEF T
    <3> QED  BY <1>0, <1>2, <1>3, CountUp
  <2>2. Len(q) \in 0 .. Len(q)
    BY <1>0
  <2> HIDE DEF T
  <2> QED  BY <2>1, <2>2
<1> QED  BY <1>0, <1>1, <1>4

(* Where the elements of k are in s. *)
Picks(k, place, s, P) ==
  /\ \A j \in 1 .. Len(k) : place[j] \in P /\ k[j] = s[place[j]]
  /\ \A i, j \in 1 .. Len(k) : i < j => place[i] < place[j]
  /\ \A p \in P : \E j \in 1 .. Len(k) : place[j] = p

(* Keep has the elements at the positions in P, in their order. *)
LEMMA KeepPlaces ==
  ASSUME NEW S, NEW s \in Seq(S), NEW P
  PROVE  /\ Keep(s, P) \in Seq(S)
         /\ \E place \in [1 .. Len(Keep(s, P)) -> DOMAIN s \cap P] :
              Picks(Keep(s, P), place, s, DOMAIN s \cap P)
<1> DEFINE q == [n \in DOMAIN s |-> IF n \in P THEN <<s[n]>> ELSE <<>>]
<1>0. Len(s) \in Nat /\ DOMAIN s = 1 .. Len(s)
  OBVIOUS
<1>1. q \in Seq(Seq(S)) /\ Len(q) = Len(s)
  <2>1. ASSUME NEW n \in 1 .. Len(s)
        PROVE  (IF n \in P THEN <<s[n]>> ELSE <<>>) \in Seq(S)
    OBVIOUS
  <2>2. q \in [1 .. Len(s) -> Seq(S)]
    BY <1>0, <2>1
  <2> QED  BY <1>0, <2>2
<1>2. PICK f \in [0 .. Len(s) -> Seq(S)] : Grown(f, q) /\ f[Len(s)] = FlattenSeq(q)
  <2> HIDE DEF q
  <2> QED  BY <1>1, FlattenPrefixes
<1> DEFINE Placed(n) == \E place \in [1 .. Len(f[n]) -> (1 .. n) \cap P] :
                          Picks(f[n], place, s, (1 .. n) \cap P)
           T == {n \in 0 .. Len(s) : Placed(n)}
<1>3. 0 \in T
  <2>1. f[0] = <<>> /\ Len(f[0]) = 0 /\ 0 \in 0 .. Len(s)
    BY <1>2 DEF Grown
  <2>2. [j \in 1 .. 0 |-> 0] \in [1 .. Len(f[0]) -> (1 .. 0) \cap P]
    BY <2>1
  <2>3. Picks(f[0], [j \in 1 .. 0 |-> 0], s, (1 .. 0) \cap P)
    BY <2>1 DEF Picks
  <2> QED  BY <2>1, <2>2, <2>3
<1>4. ASSUME NEW n \in 1 .. Len(s), n - 1 \in T
      PROVE  n \in T
  <2>0. PICK b \in Seq(S), k \in Seq(S), x \in S :
          b = f[n - 1] /\ k = f[n] /\ x = s[n]
    BY <1>0
  <2>1. k = b \o q[n]
    BY <1>1, <1>2, <2>0 DEF Grown
  <2>2. PICK place \in [1 .. Len(b) -> (1 .. n - 1) \cap P] :
          Picks(b, place, s, (1 .. n - 1) \cap P)
    BY <1>4, <2>0
  <2>3. CASE n \notin P
    <3>1. q[n] = <<>> /\ k = b
      BY <1>0, <2>0, <2>1, <2>3, ConcatEmptySeq
    <3>2. (1 .. n) \cap P = (1 .. n - 1) \cap P
      BY <2>3
    <3>3. /\ place \in [1 .. Len(k) -> (1 .. n) \cap P]
          /\ Picks(k, place, s, (1 .. n) \cap P)
      BY <2>2, <3>1, <3>2
    <3>4. Placed(n)
      BY <2>0, <3>3
    <3> QED  BY <3>4
  <2>4. CASE n \in P
    <3>1. q[n] = <<x>>
      BY <1>0, <2>0, <2>4
    <3>2. /\ Len(k) = Len(b) + 1
          /\ k[Len(k)] = x
          /\ \A j \in 1 .. Len(b) : k[j] = b[j]
      <4>1. <<x>> \in Seq(S) /\ Len(<<x>>) = 1 /\ <<x>>[1] = x
        OBVIOUS
      <4> HIDE DEF q, T
      <4> QED  BY <2>1, <3>1, <4>1, ConcatProperties
    <3> DEFINE more == [j \in 1 .. Len(k) |-> IF j = Len(k) THEN n ELSE place[j]]
    <3>3. ASSUME NEW j \in 1 .. Len(k)
          PROVE  \/ j = Len(k) /\ more[j] = n /\ k[j] = s[n]
                 \/ /\ j \in 1 .. Len(b) /\ more[j] = place[j] /\ k[j] = b[j]
                    /\ place[j] \in (1 .. n - 1) \cap P /\ b[j] = s[place[j]]
      <4>1. CASE j = Len(k)
        BY <2>0, <3>2, <4>1
      <4>2. CASE j # Len(k)
        <5>1. j \in 1 .. Len(b)
          BY <3>2, <4>2
        <5> QED  BY <2>2, <3>2, <4>2, <5>1 DEF Picks
      <4> QED  BY <4>1, <4>2
    <3>4. more \in [1 .. Len(k) -> (1 .. n) \cap P]
      BY <2>4, <3>3
    <3> HIDE DEF more
    <3>5. ASSUME NEW i \in 1 .. Len(k), NEW j \in 1 .. Len(k), i < j
          PROVE  more[i] < more[j]
      <4>1. i # Len(k)
        BY <3>2, <3>5
      <4>2. i \in 1 .. Len(b) /\ more[i] = place[i] /\ place[i] \in 1 .. n - 1
        BY <3>3, <4>1
      <4> QED  BY <2>2, <3>3, <3>5, <4>2 DEF Picks
    <3>6. ASSUME NEW p \in (1 .. n) \cap P
          PROVE  \E j \in 1 .. Len(k) : more[j] = p
      <4>1. CASE p = n
        <5>1. Len(k) \in 1 .. Len(k) /\ Len(k) # Len(b)
          BY <3>2
        <5>2. Len(k) \notin 1 .. Len(b)
          BY <3>2
        <5> QED  BY <3>3, <4>1, <5>1, <5>2
      <4>2. CASE p # n
        <5>1. p \in (1 .. n - 1) \cap P
          BY <4>2
        <5>2. PICK j \in 1 .. Len(b) : place[j] = p
          BY <2>2, <5>1 DEF Picks
        <5>3. j \in 1 .. Len(k) /\ j # Len(k)
          BY <3>2
        <5> QED  BY <3>3, <5>2, <5>3
      <4> QED  BY <4>1, <4>2
    <3>7. \A j \in 1 .. Len(k) : more[j] \in (1 .. n) \cap P /\ k[j] = s[more[j]]
      BY <3>3, <3>4
    <3>8. Picks(k, more, s, (1 .. n) \cap P)
      BY <3>5, <3>6, <3>7 DEF Picks
    <3> QED  BY <2>0, <3>4, <3>8
  <2> QED  BY <2>3, <2>4
<1>5. Len(s) \in T
  <2>1. \A n \in 0 .. Len(s) : n \in T
    <3> HIDE DEF T
    <3> QED  BY <1>0, <1>3, <1>4, CountUp
  <2> QED  BY <1>0, <2>1
<1>6. Keep(s, P) = f[Len(s)]
  BY <1>2 DEF Keep
<1> QED  BY <1>0, <1>5, <1>6

(* Hence those elements and no other. *)
LEMMA KeepRange ==
  ASSUME NEW S, NEW s \in Seq(S), NEW P
  PROVE  /\ Keep(s, P) \in Seq(S)
         /\ Range(Keep(s, P)) = {s[n] : n \in DOMAIN s \cap P}
<1>1. PICK k \in Seq(S) : k = Keep(s, P)
  BY KeepPlaces
<1>2. PICK place \in [1 .. Len(k) -> DOMAIN s \cap P] :
        Picks(k, place, s, DOMAIN s \cap P)
  BY <1>1, KeepPlaces
<1>3. Range(k) = {k[j] : j \in 1 .. Len(k)}
  BY DEF Range
<1> QED  BY <1>1, <1>2, <1>3 DEF Picks

(* Within has the elements of s that are in U. *)
LEMMA WithinRange ==
  ASSUME NEW S, NEW s \in Seq(S), NEW U
  PROVE  /\ Within(s, U) \in Seq(S)
         /\ Range(Within(s, U)) = Range(s) \cap U
<1>1. {s[n] : n \in DOMAIN s \cap {n \in DOMAIN s : s[n] \in U}} = Range(s) \cap U
  BY DEF Range
<1> QED  BY <1>1, KeepRange DEF Within

-----------------------------------------------------------------------------
(* Sets of numbers, and sequences of the elements of a set. *)

(* Any finite set of integers has a largest one. *)
LEMMA LargestNumber ==
  ASSUME NEW P \in SUBSET Int, IsFiniteSet(P), P # {}
  PROVE  \E m \in P : \A n \in P : n <= m
<1> DEFINE Bounded(Q) == \E m \in Q : \A n \in Q : n <= m
           T == {k \in Nat : \A Q \in SUBSET Int :
                   IsFiniteSet(Q) /\ Cardinality(Q) = k /\ Q # {} => Bounded(Q)}
           N == Cardinality(P)
<1>0. N \in Nat
  BY FS_CardinalityType
<1>1. 0 \in T
  BY FS_EmptySet
<1>2. ASSUME NEW k \in 1 .. N, k - 1 \in T
      PROVE  k \in T
  <2> SUFFICES ASSUME NEW Q \in SUBSET Int,
                      IsFiniteSet(Q), Cardinality(Q) = k, Q # {}
               PROVE  Bounded(Q)
    BY <1>0
  <2>1. PICK x \in Q : TRUE
    OBVIOUS
  <2>2. IsFiniteSet(Q \ {x}) /\ Cardinality(Q \ {x}) = k - 1
    BY <2>1, FS_RemoveElement
  <2>3. CASE Q \ {x} = {}
    BY <2>1, <2>3
  <2>4. CASE Q \ {x} # {}
    <3>1. PICK m \in Q \ {x} : \A n \in Q \ {x} : n <= m
      BY <1>2, <2>2, <2>4
    <3>2. CASE m <= x
      <4>1. \A n \in Q : n <= x
        BY <2>1, <3>1, <3>2
      <4> QED  BY <2>1, <4>1
    <3>3. CASE x <= m
      BY <3>1, <3>3
    <3> QED  BY <2>1, <3>1, <3>2, <3>3
  <2> QED  BY <2>3, <2>4
<1>3. N \in T
  <2>1. \A k \in 0 .. N : k \in T
    <3> HIDE DEF T, N
    <3> QED  BY <1>0, <1>1, <1>2, CountUp
  <2> QED  BY <1>0, <2>1
<1> QED  BY <1>3

(* Max and Min are what their names say. *)
LEMMA MaxOf ==
  ASSUME NEW P \in SUBSET Int, IsFiniteSet(P), P # {}
  PROVE  Max(P) \in P /\ \A n \in P : n <= Max(P)
<1>1. \E m \in P : \A n \in P : m >= n
  BY LargestNumber
<1> QED  BY <1>1 DEF Max

LEMMA MinOf ==
  ASSUME NEW P \in SUBSET Nat, P # {}
  PROVE  Min(P) \in P /\ \A n \in P : Min(P) <= n
<1>1. \E m \in P : \A n \in P : m <= n
  BY LeastNumber
<1> QED  BY <1>1 DEF Min

(* SetToSeqs(P) are the sequences that have each element of P once. *)
LEMMA SeqOfSet ==
  ASSUME NEW P, IsFiniteSet(P), NEW s \in SetToSeqs(P)
  PROVE  /\ s \in Seq(P)
         /\ Len(s) = Cardinality(P)
         /\ Range(s) = P
         /\ \A m, n \in DOMAIN s : m # n => s[m] # s[n]
<1> DEFINE N == Cardinality(P)
<1>1. N \in Nat
  BY FS_CardinalityType
<1>2. s \in [1 .. N -> P] /\ \A i, j \in 1 .. N : i # j => s[i] # s[j]
  BY DEF SetToSeqs
<1>3. s \in Injection(1 .. N, P)
  BY <1>2 DEF Injection, IsInjective
<1>4. Cardinality(1 .. N) = N
  BY <1>1, FS_Interval
<1>5. s \in Surjection(1 .. N, P)
  BY <1>3, <1>4, FS_Injection
<1>6. Range(s) = P
  BY <1>2, <1>5 DEF Range, Surjection
<1> QED  BY <1>1, <1>2, <1>6

(* A finite set of integers can be listed in order. *)
LEMMA AscendingExists ==
  ASSUME NEW P \in SUBSET Int, IsFiniteSet(P)
  PROVE  \E s \in SetToSeqs(P) : \A m, n \in DOMAIN s : m < n => s[m] < s[n]
<1> DEFINE Sorted(s) == \A m, n \in DOMAIN s : m < n => s[m] < s[n]
           T == {k \in Nat : \A Q \in SUBSET Int :
                   IsFiniteSet(Q) /\ Cardinality(Q) = k
                     => \E s \in SetToSeqs(Q) : Sorted(s)}
           N == Cardinality(P)
<1>0. N \in Nat
  BY FS_CardinalityType
<1>1. 0 \in T
  <2> SUFFICES ASSUME NEW Q \in SUBSET Int, IsFiniteSet(Q), Cardinality(Q) = 0
               PROVE  \E s \in SetToSeqs(Q) : Sorted(s)
    OBVIOUS
  <2>1. Q = {}
    BY FS_EmptySet
  <2>2. [i \in 1 .. 0 |-> 0] \in SetToSeqs(Q)
    BY <2>1 DEF SetToSeqs
  <2> QED  BY <2>2
<1>2. ASSUME NEW k \in 1 .. N, k - 1 \in T
      PROVE  k \in T
  <2> SUFFICES ASSUME NEW Q \in SUBSET Int, IsFiniteSet(Q), Cardinality(Q) = k
               PROVE  \E s \in SetToSeqs(Q) : Sorted(s)
    BY <1>0
  <2>1. Q # {}
    BY <1>0, FS_EmptySet
  <2>2. PICK x \in Q : \A n \in Q : n <= x
    BY <2>1, LargestNumber
  <2>3. IsFiniteSet(Q \ {x}) /\ Cardinality(Q \ {x}) = k - 1
    BY <2>2, FS_RemoveElement
  <2>4. PICK s \in SetToSeqs(Q \ {x}) : Sorted(s)
    BY <1>2, <2>3
  <2>5. /\ s \in [1 .. k - 1 -> Q \ {x}]
        /\ \A i, j \in 1 .. k - 1 : i # j => s[i] # s[j]
        /\ DOMAIN s = 1 .. k - 1
    BY <2>3 DEF SetToSeqs
  <2> DEFINE t == [i \in 1 .. k |-> IF i = k THEN x ELSE s[i]]
  <2>6. ASSUME NEW i \in 1 .. k
        PROVE  \/ i = k /\ t[i] = x
               \/ i \in 1 .. k - 1 /\ t[i] = s[i] /\ t[i] \in Q \ {x} /\ t[i] < x
    <3>1. CASE i = k
      BY <3>1
    <3>2. CASE i # k
      <4>1. i \in 1 .. k - 1
        BY <3>2
      <4>2. s[i] \in Q /\ s[i] # x
        BY <2>5, <4>1
      <4>3. s[i] < x
        <5>1. PICK y \in Q : y = s[i] /\ y # x
          BY <4>2
        <5>2. y \in Int /\ x \in Int /\ y <= x
          BY <2>2, <5>1
        <5>3. y < x
          BY <5>1, <5>2
        <5> QED  BY <5>1, <5>3
      <4>4. t[i] = s[i]
        BY <3>2
      <4> HIDE DEF t
      <4> QED  BY <4>1, <4>2, <4>3, <4>4
    <3> QED  BY <3>1, <3>2
  <2>7. t \in [1 .. k -> Q] /\ DOMAIN t = 1 .. k
    BY <2>2, <2>6
  <2> HIDE DEF t
  <2>8. \A i, j \in 1 .. k : i # j => t[i] # t[j]
    BY <2>2, <2>5, <2>6
  <2>9. ASSUME NEW i \in 1 .. k, NEW j \in 1 .. k, i < j
        PROVE  t[i] < t[j]
    <3>1. i \in 1 .. k - 1 /\ t[i] = s[i] /\ t[i] < x
      BY <2>6, <2>9
    <3>2. CASE j = k
      BY <2>6, <3>1, <3>2
    <3>3. CASE j # k
      <4>1. j \in 1 .. k - 1 /\ t[j] = s[j]
        BY <2>6, <3>3
      <4> QED  BY <2>4, <2>5, <2>9, <3>1, <4>1
    <3> QED  BY <3>2, <3>3
  <2>10. t \in SetToSeqs(Q)
    BY <2>7, <2>8 DEF SetToSeqs
  <2> QED  BY <2>7, <2>9, <2>10
<1>3. N \in T
  <2>1. \A k \in 0 .. N : k \in T
    <3> HIDE DEF T, N
    <3> QED  BY <1>0, <1>1, <1>2, CountUp
  <2> QED  BY <1>0, <2>1
<1> QED  BY <1>3

(* Ascending lists the elements of a finite set of numbers in order. *)
LEMMA AscendingOrder ==
  ASSUME NEW P \in SUBSET Int, IsFiniteSet(P)
  PROVE  /\ Ascending(P) \in Seq(P)
         /\ Range(Ascending(P)) = P
         /\ \A m, n \in DOMAIN Ascending(P) :
              m < n => Ascending(P)[m] < Ascending(P)[n]
<1>1. /\ Ascending(P) \in SetToSeqs(P)
      /\ \A m, n \in DOMAIN Ascending(P) :
           m < n => Ascending(P)[m] < Ascending(P)[n]
  BY AscendingExists DEF Ascending
<1> QED  BY <1>1, SeqOfSet

-----------------------------------------------------------------------------
(* The inductive invariant: the router's rules never change, and both maps *)
(* are what a rebuild makes of the tunnels that are registered.            *)

RulesOK == \E configs \in InRuleConfigs : in_rules = InRules(configs)

LabelMapOK ==
  \E s \in SetToSeqs(tunnel_map) :
    /\ SortedByPriority(s)
    /\ label_to_tunnels_map =
         [l \in Labels |-> Within(s, {t \in tunnel_map : l \in LabelsOf(t)})]

CacheOK ==
  IF rebuilt
  THEN \E outs \in SetToSeqs(RegisteredOuts(tunnel_map)) :
         rules_groups_cache = Groups(RulesInForce(outs))
  ELSE tunnel_map = {} /\ rules_groups_cache = <<in_rules>>

IInv ==
  /\ tunnel_map \in SUBSET Tunnels /\ IsFiniteSet(tunnel_map)
  /\ rebuilt \in BOOLEAN
  /\ RulesOK /\ LabelMapOK /\ CacheOK

(* The invariant holds at first, after a rebuild, and thus always. *)
LEMMA InitInv == Init => IInv
<1> SUFFICES ASSUME Init PROVE IInv
  OBVIOUS
<1>1. tunnel_map = {} /\ IsFiniteSet(tunnel_map)
  BY FS_EmptySet DEF Init
<1>2. LabelMapOK
  <2> DEFINE s == [n \in 1 .. 0 |-> 0]
  <2>1. s \in SetToSeqs(tunnel_map) /\ SortedByPriority(s)
    BY <1>1, FS_EmptySet DEF SetToSeqs, SortedByPriority
  <2>2. \A l \in Labels :
          Within(s, {t \in tunnel_map : l \in LabelsOf(t)}) = <<>>
    BY DEF Within, Keep, FlattenSeq
  <2> QED  BY <2>1, <2>2 DEF Init, LabelMapOK
<1>3. RulesOK /\ CacheOK /\ rebuilt \in BOOLEAN
  BY DEF Init, RulesOK, CacheOK
<1> QED  BY <1>1, <1>2, <1>3 DEF IInv

LEMMA RebuildInv ==
  ASSUME IInv, NEW tunnels \in SUBSET Tunnels, IsFiniteSet(tunnels),
         Rebuild(tunnels)
  PROVE  IInv'
<1>1. tunnel_map' = tunnels /\ rebuilt' = TRUE /\ in_rules' = in_rules
  BY DEF Rebuild
<1>2. LabelMapOK'
  BY <1>1 DEF Rebuild, LabelMapOK, SortedByPriority
<1>3. CacheOK'
  BY <1>1 DEF Rebuild, CacheOK, RulesInForce
<1>4. RulesOK'
  BY <1>1 DEF IInv, RulesOK
<1> QED  BY <1>1, <1>2, <1>3, <1>4 DEF IInv

LEMMA StepInv == IInv /\ [Next]_vars => IInv'
<1> SUFFICES ASSUME IInv, [Next]_vars PROVE IInv'
  OBVIOUS
<1>0. tunnel_map \in SUBSET Tunnels /\ IsFiniteSet(tunnel_map)
  BY DEF IInv
<1>1. ASSUME NEW t \in Tunnels, RegisterTunnel(t) PROVE IInv'
  BY <1>0, <1>1, RebuildInv, FS_AddElement DEF RegisterTunnel
<1>2. ASSUME NEW t \in Tunnels, UnregisterTunnel(t) PROVE IInv'
  BY <1>0, <1>2, RebuildInv, FS_RemoveElement DEF UnregisterTunnel
<1>3. CASE UNCHANGED vars
  BY <1>3 DEF vars, IInv, RulesOK, LabelMapOK, CacheOK, RulesInForce
<1> QED  BY <1>1, <1>2, <1>3 DEF Next

(* The rules are those of the configuration, the label map lists the       *)
(* tunnels of each label by priority, and the cache has the groups of the  *)
(* IN's rules and of every registered OUT's, from the first update on.     *)
THEOREM Invariance == Spec => []IInv
BY InitInv, StepInv, PTL DEF Spec

-----------------------------------------------------------------------------
(* The rules in force and their groups. *)

(* What every rule has; a fallback has the last priority. *)
RuleOK(r) ==
  /\ {"kind", "labels", "priority", "tag"} \subseteq DOMAIN r
  /\ r.labels \in Seq(Range(r.labels))
  /\ r.priority \in Int /\ r.priority <= MaxPriority
  /\ IsFallback(r) => r.priority = MaxPriority

(* A configured rule becomes one that is fit to be sorted and matched. *)
LEMMA InRuleOK ==
  ASSUME NEW config, IsRuleConfig(config)
  PROVE  RuleOK(InRule(config))
<1>1. MinPriority \in Int /\ MaxPriority \in Int /\ MinPriority < MaxPriority
  BY RouterAssumption
<1>2. config.priority # None => config.priority \in MinPriority .. MaxPriority
  BY DEF IsRuleConfig, Priorities
<1>3. /\ PriorityIn(config, MinPriority) \in Int
      /\ PriorityIn(config, MinPriority) <= MaxPriority
      /\ config.kind = "fallback" =>
           PriorityIn(config, MinPriority) = MaxPriority
  BY <1>1, <1>2 DEF PriorityIn
<1>4. PICK r : r = InRule(config)
  OBVIOUS
<1>5. /\ DOMAIN r = DOMAIN config
      /\ r.kind = config.kind /\ r.labels = config.labels
      /\ r.priority = PriorityIn(config, MinPriority)
  BY <1>4 DEF InRule, IsRuleConfig
<1> QED  BY <1>3, <1>4, <1>5 DEF RuleOK, IsRuleConfig, IsFallback

LEMMA OutRuleOK ==
  ASSUME NEW config, IsRuleConfig(config), NEW o \in Outs
  PROVE  RuleOK(OutRule(config, o))
<1>1. MinPriority \in Int /\ MaxPriority \in Int /\ MinPriority < MaxPriority
  BY RouterAssumption
<1>2. /\ config.priority # None => config.priority \in MinPriority .. MaxPriority
      /\ OutRoutingPriority[o] \in MinPriority .. MaxPriority
  BY RouterAssumption DEF IsRuleConfig, Priorities
<1>3. PICK p : p = PriorityIn(config, OutRoutingPriority[o])
  OBVIOUS
<1>4. /\ p \in Int /\ p <= MaxPriority
      /\ config.kind = "fallback" => p = MaxPriority
  BY <1>1, <1>2, <1>3 DEF PriorityIn
<1>5. PICK r : r = OutRule(config, o)
  OBVIOUS
<1>6. /\ DOMAIN r = DOMAIN config
      /\ r.kind = config.kind /\ r.labels = <<o>> /\ r.priority = p
  BY <1>3, <1>5 DEF OutRule, IsRuleConfig
<1>7. <<o>> \in Seq(Range(<<o>>))
  <2>1. <<o>> \in Seq({o})
    OBVIOUS
  <2> QED  BY <2>1, SeqOfRange
<1> QED  BY <1>4, <1>5, <1>6, <1>7 DEF RuleOK, IsRuleConfig, IsFallback

LEMMA OutRulesSeq ==
  ASSUME NEW o \in Outs
  PROVE  /\ OutRules(o) \in Seq(Range(OutRules(o)))
         /\ \A r \in Range(OutRules(o)) : RuleOK(r)
<1>1. PICK configs : configs = OutRuleConfigs[o]
  OBVIOUS
<1>2. /\ configs \in Seq(Range(configs))
      /\ \A n \in DOMAIN configs : IsRuleConfig(configs[n])
  BY <1>1, RouterAssumption DEF IsRuleConfigs
<1>3. PICK rules : rules = [n \in DOMAIN configs |-> OutRule(configs[n], o)]
  OBVIOUS
<1>4. \A n \in DOMAIN rules : RuleOK(rules[n])
  BY <1>2, <1>3, OutRuleOK
<1>5. Len(configs) \in Nat /\ DOMAIN rules = 1 .. Len(configs)
  BY <1>2, <1>3
<1>6. rules \in [1 .. Len(configs) -> Range(rules)]
  BY <1>3, <1>5 DEF Range
<1>7. rules \in Seq(Range(rules)) /\ \A r \in Range(rules) : RuleOK(r)
  BY <1>4, <1>5, <1>6 DEF Range
<1>8. rules = OutRules(o)
  BY <1>1, <1>3 DEF OutRules
<1> QED  BY <1>7, <1>8

LEMMA InRulesSeq ==
  ASSUME RulesOK
  PROVE  /\ in_rules \in Seq(Range(in_rules))
         /\ \A r \in Range(in_rules) : RuleOK(r)
<1>1. PICK configs \in InRuleConfigs : in_rules = InRules(configs)
  BY DEF RulesOK
<1>2. /\ configs \in Seq(Range(configs))
      /\ \A n \in DOMAIN configs : IsRuleConfig(configs[n])
  BY <1>1, RouterAssumption DEF IsRuleConfigs
<1>3. in_rules = [n \in DOMAIN configs |-> InRule(configs[n])]
  BY <1>1 DEF InRules
<1>4. \A n \in DOMAIN in_rules : RuleOK(in_rules[n])
  BY <1>2, <1>3, InRuleOK
<1>5. Len(configs) \in Nat /\ DOMAIN in_rules = 1 .. Len(configs)
  BY <1>2, <1>3
<1>6. in_rules \in [1 .. Len(configs) -> Range(in_rules)]
  BY <1>3, <1>5 DEF Range
<1> QED  BY <1>4, <1>5, <1>6 DEF Range

(* The rules in force. *)
LEMMA RuleSetIs ==
  RuleSet = Range(in_rules) \cup
            UNION {Range(OutRules(o)) : o \in RegisteredOuts(tunnel_map)}
BY DEF RuleSet, Range

LEMMA RuleSetOK ==
  ASSUME IInv
  PROVE  \A r \in RuleSet : RuleOK(r)
<1>1. RegisteredOuts(tunnel_map) \subseteq Outs
  BY RouterAssumption DEF RegisteredOuts, IInv
<1> QED  BY <1>1, RuleSetIs, InRulesSeq, OutRulesSeq DEF IInv

LEMMA RegisteredFinite ==
  ASSUME IInv
  PROVE  IsFiniteSet(RegisteredOuts(tunnel_map))
<1> DEFINE f == [t \in tunnel_map |-> OutOf[t]]
<1>1. f \in Surjection(tunnel_map, RegisteredOuts(tunnel_map))
  BY DEF Surjection, RegisteredOuts
<1> QED  BY <1>1, FS_Surjection DEF IInv

LEMMA RulesInForceSeq ==
  ASSUME IInv, NEW outs \in SetToSeqs(RegisteredOuts(tunnel_map))
  PROVE  RulesInForce(outs) \in Seq(RuleSet) /\ Range(RulesInForce(outs)) = RuleSet
<1> DEFINE O == RegisteredOuts(tunnel_map)
           S == UNION {Range(OutRules(o)) : o \in O}
           q == [n \in DOMAIN outs |-> OutRules(outs[n])]
<1>1. outs \in Seq(O) /\ Range(outs) = O
  BY RegisteredFinite, SeqOfSet
<1>2. O \subseteq Outs
  BY RouterAssumption DEF RegisteredOuts, IInv
<1>3. \A o \in O : OutRules(o) \in Seq(S)
  <2> SUFFICES ASSUME NEW o \in O PROVE OutRules(o) \in Seq(S)
    OBVIOUS
  <2>1. Range(OutRules(o)) \subseteq S
    OBVIOUS
  <2>2. OutRules(o) \in Seq(Range(OutRules(o)))
    BY <1>2, OutRulesSeq
  <2> HIDE DEF S
  <2> QED  BY <2>1, <2>2, SeqMonotonic
<1>4. q \in Seq(Seq(S)) /\ DOMAIN q = DOMAIN outs
  <2>1. Len(outs) \in Nat /\ DOMAIN outs = 1 .. Len(outs)
    BY <1>1
  <2>2. \A n \in DOMAIN outs : outs[n] \in O
    BY <1>1
  <2>3. q \in [1 .. Len(outs) -> Seq(S)]
    <3> HIDE DEF O, S
    <3> QED  BY <1>3, <2>1, <2>2
  <2> HIDE DEF S
  <2> QED  BY <2>1, <2>3
<1>5. UNION {Range(q[n]) : n \in DOMAIN q} = S
  <2>1. \A n \in DOMAIN q : q[n] = OutRules(outs[n])
    BY <1>4
  <2>2. O = {outs[n] : n \in DOMAIN q}
    BY <1>1, <1>4 DEF Range
  <2> HIDE DEF O, q
  <2> QED  BY <2>1, <2>2
<1>6. FlattenSeq(q) \in Seq(S) /\ Range(FlattenSeq(q)) = S
  <2> HIDE DEF q, S
  <2> QED  BY <1>4, <1>5, FlattenRange
<1>7. RuleSet = Range(in_rules) \cup S
  BY RuleSetIs
<1>8. in_rules \in Seq(RuleSet) /\ FlattenSeq(q) \in Seq(RuleSet)
  <2>1. in_rules \in Seq(Range(in_rules))
    BY InRulesSeq DEF IInv
  <2> HIDE DEF S, q
  <2> QED  BY <1>6, <1>7, <2>1, SeqMonotonic
<1>9. RulesInForce(outs) = in_rules \o FlattenSeq(q)
  BY DEF RulesInForce
<1> HIDE DEF S, q
<1> QED  BY <1>6, <1>7, <1>8, <1>9, ConcatProperties, RangeConcatenation

(* A group has the rules of its priority; the priorities ascend. *)
Grouped(gs, order, rules) ==
  /\ DOMAIN gs = DOMAIN order
  /\ \A m, n \in DOMAIN order : m < n => order[m] < order[n]
  /\ Range(order) = {r.priority : r \in Range(rules)}
  /\ \A g \in DOMAIN gs :
       Range(gs[g]) = {r \in Range(rules) : r.priority = order[g]}

(* Groups gives such groups. *)
LEMMA GroupsOrdered ==
  ASSUME NEW R, \A r \in R : r.priority \in Int, NEW rules \in Seq(R)
  PROVE  /\ Groups(rules) \in Seq(Seq(R))
         /\ \E order \in Seq(Int) : Grouped(Groups(rules), order, rules)
<1> DEFINE P == {rules[n].priority : n \in DOMAIN rules}
           order == Ascending(P)
           At(g) == {n \in DOMAIN rules : rules[n].priority = order[g]}
<1>1. Len(rules) \in Nat /\ DOMAIN rules = 1 .. Len(rules)
  OBVIOUS
<1>2. P \in SUBSET Int
  OBVIOUS
<1>3. IsFiniteSet(P)
  <2> DEFINE f == [n \in 1 .. Len(rules) |-> rules[n].priority]
  <2>1. f \in Surjection(1 .. Len(rules), P)
    BY <1>1 DEF Surjection
  <2> HIDE DEF f, P
  <2> QED  BY <1>1, <2>1, FS_Interval, FS_Surjection
<1>4. /\ order \in Seq(P) /\ Range(order) = P
      /\ \A m, n \in DOMAIN order : m < n => order[m] < order[n]
  <2> HIDE DEF P
  <2> QED  BY <1>2, <1>3, AscendingOrder
<1>5. order \in Seq(Int)
  <2> HIDE DEF P, order
  <2> QED  BY <1>2, <1>4, SeqMonotonic
<1>6. Groups(rules) = [g \in DOMAIN order |-> Keep(rules, At(g))]
  BY DEF Groups
<1>7. ASSUME NEW g \in DOMAIN order
      PROVE  /\ Keep(rules, At(g)) \in Seq(R)
             /\ Range(Keep(rules, At(g))) =
                  {r \in Range(rules) : r.priority = order[g]}
  <2> HIDE DEF order
  <2>1. /\ Keep(rules, At(g)) \in Seq(R)
        /\ Range(Keep(rules, At(g))) = {rules[n] : n \in DOMAIN rules \cap At(g)}
    <3> HIDE DEF At
    <3> QED  BY KeepRange
  <2>2. {rules[n] : n \in DOMAIN rules \cap At(g)} =
          {r \in Range(rules) : r.priority = order[g]}
    BY DEF Range
  <2> QED  BY <2>1, <2>2
<1> HIDE DEF order, At
<1>8. Groups(rules) \in Seq(Seq(R))
  <2>1. Len(order) \in Nat /\ DOMAIN order = 1 .. Len(order)
    BY <1>4
  <2>2. Groups(rules) \in [1 .. Len(order) -> Seq(R)]
    BY <1>6, <1>7, <2>1
  <2> QED  BY <2>1, <2>2
<1>9. P = {r.priority : r \in Range(rules)}
  BY DEF Range
<1>10. Grouped(Groups(rules), order, rules)
  <2> HIDE DEF P
  <2> QED  BY <1>4, <1>6, <1>7, <1>9 DEF Grouped
<1> QED  BY <1>5, <1>8, <1>10

(* The cache, before and after the first update. *)
LEMMA CacheKinds ==
  ASSUME IInv
  PROVE  /\ rules_groups_cache \in Seq(Seq(RuleSet))
         /\ rebuilt => \E rules \in Seq(RuleSet), order \in Seq(Int) :
              /\ Range(rules) = RuleSet
              /\ Grouped(rules_groups_cache, order, rules)
         /\ ~ rebuilt => /\ tunnel_map = {}
                         /\ rules_groups_cache = <<in_rules>>
                         /\ Range(in_rules) = RuleSet
<1>1. CASE rebuilt
  <2>1. PICK outs \in SetToSeqs(RegisteredOuts(tunnel_map)) :
          rules_groups_cache = Groups(RulesInForce(outs))
    BY <1>1 DEF IInv, CacheOK
  <2>2. PICK rules : rules = RulesInForce(outs)
    OBVIOUS
  <2>3. rules \in Seq(RuleSet) /\ Range(rules) = RuleSet
    BY <2>2, RulesInForceSeq
  <2>4. \A r \in RuleSet : r.priority \in Int
    BY RuleSetOK DEF RuleOK
  <2>5. /\ Groups(rules) \in Seq(Seq(RuleSet))
        /\ \E order \in Seq(Int) : Grouped(Groups(rules), order, rules)
    BY <2>3, <2>4, GroupsOrdered
  <2> QED  BY <1>1, <2>1, <2>2, <2>3, <2>5
<1>2. CASE ~ rebuilt
  <2>1. tunnel_map = {} /\ rules_groups_cache = <<in_rules>>
    BY <1>2 DEF IInv, CacheOK
  <2>2. RuleSet = Range(in_rules)
    BY <2>1, RuleSetIs DEF RegisteredOuts
  <2>3. in_rules \in Seq(RuleSet)
    BY <2>2, InRulesSeq DEF IInv
  <2> QED  BY <1>2, <2>1, <2>2, <2>3
<1> QED  BY <1>1, <1>2

LEMMA InvTyped == IInv => TypeOK
<1> SUFFICES ASSUME IInv PROVE TypeOK
  OBVIOUS
<1>1. label_to_tunnels_map \in [Labels -> Seq(Tunnels)]
  <2>1. PICK s \in SetToSeqs(tunnel_map) :
          label_to_tunnels_map =
            [l \in Labels |-> Within(s, {t \in tunnel_map : l \in LabelsOf(t)})]
    BY DEF IInv, LabelMapOK
  <2>2. s \in Seq(tunnel_map)
    BY SeqOfSet DEF IInv
  <2>3. s \in Seq(Tunnels)
    BY <2>2, SeqMonotonic DEF IInv
  <2>4. \A l \in Labels :
          Within(s, {t \in tunnel_map : l \in LabelsOf(t)}) \in Seq(Tunnels)
    BY <2>3, WithinRange
  <2> QED  BY <2>1, <2>4
<1>2. \A g \in DOMAIN rules_groups_cache :
        \A n \in DOMAIN rules_groups_cache[g] :
          rules_groups_cache[g][n] \in RuleSet
  BY CacheKinds
<1> QED  BY <1>1, <1>2 DEF IInv, TypeOK

(* TypeOK: in every state the label map has sequences of tunnels and every *)
(* rule in the cache is one of the IN or of a registered OUT, for any      *)
(* tunnels and any configured rules.                                       *)
THEOREM TypeCorrect == Spec => []TypeOK
BY Invariance, InvTyped, PTL

-----------------------------------------------------------------------------
(* Selecting among the tunnels of a label. *)

(* The best of some tunnels. *)
Best(T) == {t \in T : \A s \in T : Priority[t] <= Priority[s]}

LEMMA PriorityInt == \A t \in Tunnels : Priority[t] \in Int
BY RouterAssumption

(* Filtering keeps the order of priorities. *)
LEMMA KeepSorted ==
  ASSUME NEW s \in Seq(Tunnels), SortedByPriority(s), NEW P
  PROVE  SortedByPriority(Keep(s, P))
<1>1. PICK k \in Seq(Tunnels) : k = Keep(s, P)
  BY KeepPlaces
<1>2. PICK place \in [1 .. Len(k) -> DOMAIN s \cap P] :
        Picks(k, place, s, DOMAIN s \cap P)
  BY <1>1, KeepPlaces
<1>3. ASSUME NEW i \in DOMAIN k, NEW j \in DOMAIN k, i < j
      PROVE  Priority[k[i]] <= Priority[k[j]]
  <2>1. i \in 1 .. Len(k) /\ j \in 1 .. Len(k)
    BY <1>1
  <2>2. /\ place[i] \in DOMAIN s /\ place[j] \in DOMAIN s
        /\ place[i] < place[j]
        /\ k[i] = s[place[i]] /\ k[j] = s[place[j]]
    BY <1>2, <1>3, <2>1 DEF Picks
  <2> QED  BY <2>2 DEF SortedByPriority
<1> QED  BY <1>1, <1>3 DEF SortedByPriority

(* In a sorted sequence the tunnels up to the first of another priority    *)
(* are the best ones.                                                      *)
LEMMA TopIsBest ==
  ASSUME NEW s \in Seq(Tunnels), SortedByPriority(s), s # <<>>
  PROVE  /\ TopOf(s) \in Seq(Tunnels)
         /\ Range(TopOf(s)) = Best(Range(s))
         /\ Len(TopOf(s)) # 0
<1> DEFINE P == {n \in DOMAIN s : \A m \in 1 .. n : Priority[s[m]] = Priority[s[1]]}
<1>1. Len(s) \in Nat /\ DOMAIN s = 1 .. Len(s) /\ 1 \in DOMAIN s
  OBVIOUS
<1>2. \A n \in DOMAIN s : s[n] \in Tunnels /\ Priority[s[n]] \in Int
  BY PriorityInt
<1>3. \A n \in DOMAIN s : Priority[s[1]] <= Priority[s[n]]
  BY <1>1, <1>2 DEF SortedByPriority
<1>4. \A n \in DOMAIN s : n \in P <=> Priority[s[n]] = Priority[s[1]]
  <2> SUFFICES ASSUME NEW n \in DOMAIN s, Priority[s[n]] = Priority[s[1]]
               PROVE  n \in P
    BY <1>1
  <2>1. ASSUME NEW m \in 1 .. n PROVE Priority[s[m]] = Priority[s[1]]
    <3>1. m \in DOMAIN s /\ (m = n \/ m < n)
      BY <1>1
    <3>2. Priority[s[m]] <= Priority[s[n]]
      BY <1>1, <1>2, <3>1 DEF SortedByPriority
    <3> QED  BY <1>2, <1>3, <3>1, <3>2
  <2> QED  BY <2>1
<1>5. {s[n] : n \in DOMAIN s \cap P} = Best(Range(s))
  <2>1. ASSUME NEW n \in DOMAIN s
        PROVE  n \in P <=> s[n] \in Best(Range(s))
    <3>1. s[n] \in Best(Range(s)) <=>
            \A m \in DOMAIN s : Priority[s[n]] <= Priority[s[m]]
      BY DEF Best, Range
    <3>2. Priority[s[1]] \in Int /\ Priority[s[n]] \in Int
      BY <1>1, <1>2
    <3>3. (\A m \in DOMAIN s : Priority[s[n]] <= Priority[s[m]])
            <=> Priority[s[n]] = Priority[s[1]]
      BY <1>1, <1>3, <3>2
    <3> QED  BY <1>4, <3>1, <3>3
  <2>2. Best(Range(s)) \subseteq Range(s)
    BY DEF Best
  <2> HIDE DEF P
  <2> QED  BY <2>1, <2>2 DEF Range
<1>6. TopOf(s) \in Seq(Tunnels) /\ Range(TopOf(s)) = Best(Range(s))
  <2>1. TopOf(s) = Keep(s, P)
    BY DEF TopOf
  <2> HIDE DEF P
  <2> QED  BY <1>5, <2>1, KeepRange
<1>7. s[1] \in Best(Range(s))
  BY <1>1, <1>3 DEF Best, Range
<1>8. Len(TopOf(s)) # 0
  BY <1>6, <1>7 DEF Range
<1> QED  BY <1>6, <1>8

(* The remainder is an index, and every index is a remainder. *)
LEMMA ModRange ==
  ASSUME NEW n \in Nat, NEW L \in Nat \ {0}
  PROVE  n % L \in 0 .. L - 1
OBVIOUS

LEMMA ModSmall ==
  ASSUME NEW L \in Nat \ {0}, NEW n \in 0 .. L - 1
  PROVE  n % L = n
OBVIOUS

(* Successive indices give the best tunnels of a sorted sequence, each in  *)
(* its turn, and nothing else.                                             *)
LEMMA Turns ==
  ASSUME NEW s \in Seq(Tunnels), SortedByPriority(s), s # <<>>
  PROVE  /\ \A n \in Nat : InTurn(s, n) \in Best(Range(s))
         /\ \A t \in Best(Range(s)) :
              \E n \in 0 .. Len(TopOf(s)) - 1 : InTurn(s, n) = t
<1>1. PICK top : top = TopOf(s)
  OBVIOUS
<1>2. /\ top \in Seq(Tunnels) /\ Len(top) \in Nat \ {0}
      /\ Range(top) = Best(Range(s)) /\ DOMAIN top = 1 .. Len(top)
  BY <1>1, TopIsBest
<1>3. \A n : InTurn(s, n) = top[(n % Len(top)) + 1]
  BY <1>1 DEF InTurn
<1>4. ASSUME NEW n \in Nat PROVE InTurn(s, n) \in Best(Range(s))
  <2>1. (n % Len(top)) + 1 \in DOMAIN top
    <3>1. PICK k \in 0 .. Len(top) - 1 : k = n % Len(top)
      BY <1>2, ModRange
    <3>2. k + 1 \in DOMAIN top
      BY <1>2
    <3> QED  BY <3>1, <3>2
  <2> QED  BY <1>2, <1>3, <2>1 DEF Range
<1>5. ASSUME NEW t \in Best(Range(s))
      PROVE  \E n \in 0 .. Len(top) - 1 : InTurn(s, n) = t
  <2>1. PICK j \in 1 .. Len(top) : top[j] = t
    BY <1>2 DEF Range
  <2>2. j - 1 \in 0 .. Len(top) - 1 /\ (j - 1) + 1 = j
    OBVIOUS
  <2>3. (j - 1) % Len(top) = j - 1
    BY <1>2, <2>2, ModSmall
  <2>4. InTurn(s, j - 1) = t
    BY <1>3, <2>1, <2>2, <2>3
  <2> QED  BY <2>2, <2>4
<1> QED  BY <1>1, <1>4, <1>5

(* Nothing is repeated. *)
Distinct(s) == \A m, n \in DOMAIN s : m # n => s[m] # s[n]

(* Filtering repeats nothing. *)
LEMMA KeepDistinct ==
  ASSUME NEW S, NEW s \in Seq(S), Distinct(s), NEW P
  PROVE  Distinct(Keep(s, P))
<1>1. PICK k \in Seq(S) : k = Keep(s, P)
  BY KeepPlaces
<1>2. PICK place \in [1 .. Len(k) -> DOMAIN s \cap P] :
        Picks(k, place, s, DOMAIN s \cap P)
  BY <1>1, KeepPlaces
<1>3. ASSUME NEW i \in 1 .. Len(k), NEW j \in 1 .. Len(k), i # j
      PROVE  k[i] # k[j]
  <2>1. place[i] # place[j] /\ place[i] \in DOMAIN s /\ place[j] \in DOMAIN s
    BY <1>2, <1>3 DEF Picks
  <2> QED  BY <1>2, <2>1 DEF Picks, Distinct
<1> QED  BY <1>1, <1>3 DEF Distinct

(* Without repetitions a sequence is no longer than its set. *)
LEMMA DistinctLen ==
  ASSUME NEW S, IsFiniteSet(S), NEW s \in Seq(S), Distinct(s)
  PROVE  Len(s) <= Cardinality(S)
<1>1. s \in Injection(1 .. Len(s), S)
  BY DEF Injection, IsInjective, Distinct
<1>2. Len(s) \in Nat /\ Cardinality(1 .. Len(s)) = Len(s)
  <2>1. PICK L \in Nat : L = Len(s)
    OBVIOUS
  <2>2. Cardinality(1 .. L) = IF 1 > L THEN 0 ELSE L - 1 + 1
    BY FS_Interval
  <2>3. Cardinality(1 .. L) = L
    BY <2>2
  <2> QED  BY <2>1, <2>3
<1> QED  BY <1>1, <1>2, FS_Injection

LEMMA EmptyRange ==
  ASSUME NEW S, NEW s \in Seq(S)
  PROVE  s = <<>> <=> Range(s) = {}
<1>1. s = <<>> => Range(s) = {}
  BY DEF Range
<1>2. s # <<>> => s[1] \in Range(s)
  BY DEF Range
<1> QED  BY <1>1, <1>2

(* The tunnels of a label that can be used, by priority. *)
LEMMA UsableTunnels ==
  ASSUME IInv, NEW label \in Labels, NEW active \in SUBSET tunnel_map
  PROVE  \E s \in Seq(tunnel_map) :
           /\ s = Within(label_to_tunnels_map[label], active)
           /\ SortedByPriority(s) /\ Distinct(s)
           /\ Range(s) = {t \in active : label \in LabelsOf(t)}
<1>1. PICK s \in SetToSeqs(tunnel_map) :
        /\ SortedByPriority(s)
        /\ label_to_tunnels_map =
             [l \in Labels |-> Within(s, {t \in tunnel_map : l \in LabelsOf(t)})]
  BY DEF IInv, LabelMapOK
<1>2. s \in Seq(tunnel_map) /\ Range(s) = tunnel_map /\ Distinct(s)
  BY SeqOfSet DEF IInv, Distinct
<1>3. PICK m : m = label_to_tunnels_map[label]
  OBVIOUS
<1>4. m = Within(s, {t \in tunnel_map : label \in LabelsOf(t)})
  BY <1>1, <1>3
<1>5. /\ m \in Seq(tunnel_map)
      /\ Range(m) = {t \in tunnel_map : label \in LabelsOf(t)}
  BY <1>2, <1>4, WithinRange
<1>6. SortedByPriority(m) /\ Distinct(m)
  <2>1. s \in Seq(Tunnels)
    BY <1>2, SeqMonotonic DEF IInv
  <2> QED  BY <1>1, <1>2, <1>4, <2>1, KeepSorted, KeepDistinct DEF Within
<1>7. PICK u : u = Within(m, active)
  OBVIOUS
<1>8. u \in Seq(tunnel_map) /\ Range(u) = Range(m) \cap active
  BY <1>5, <1>7, WithinRange
<1>9. SortedByPriority(u) /\ Distinct(u)
  <2>1. m \in Seq(Tunnels)
    BY <1>5, SeqMonotonic DEF IInv
  <2> QED  BY <1>5, <1>6, <1>7, <2>1, KeepSorted, KeepDistinct DEF Within
<1> QED  BY <1>3, <1>5, <1>7, <1>8, <1>9

(* What select_from_tunnels answers, whatever the index. *)
LEMMA SelectedTunnel ==
  ASSUME IInv, NEW label \in Labels, NEW active \in SUBSET tunnel_map,
         NEW n \in Nat
  PROVE  LET carrying == {t \in active : label \in LabelsOf(t)} IN
         IF carrying = {} THEN SelectFromTunnels(label, active, n) = None
         ELSE SelectFromTunnels(label, active, n) \in Best(carrying)
<1> DEFINE carrying == {t \in active : label \in LabelsOf(t)}
<1>1. PICK s \in Seq(tunnel_map) :
        /\ s = Within(label_to_tunnels_map[label], active)
        /\ SortedByPriority(s) /\ Distinct(s)
        /\ Range(s) = carrying
  BY UsableTunnels
<1>2. SelectFromTunnels(label, active, n) = InTurn(s, n)
  BY <1>1 DEF SelectFromTunnels
<1>3. s = <<>> <=> carrying = {}
  <2> HIDE DEF carrying
  <2> QED  BY <1>1, EmptyRange
<1>4. s \in Seq(Tunnels)
  BY <1>1, SeqMonotonic DEF IInv
<1>5. CASE s = <<>>
  BY <1>2, <1>3, <1>5 DEF InTurn
<1>6. CASE s # <<>>
  BY <1>1, <1>2, <1>3, <1>4, <1>6, Turns
<1> QED  BY <1>5, <1>6

LEMMA InvTakesTurns == IInv => TopTunnelsTakeTurns
<1> SUFFICES ASSUME IInv, NEW label \in Labels, NEW active \in SUBSET tunnel_map
             PROVE  LET carrying == {t \in active : label \in LabelsOf(t)}
                    IN {SelectFromTunnels(label, active, n) :
                          n \in 0 .. Cardinality(tunnel_map)}
                         = IF carrying = {} THEN {None} ELSE Best(carrying)
  BY DEF TopTunnelsTakeTurns, Best
<1> DEFINE carrying == {t \in active : label \in LabelsOf(t)}
           C == Cardinality(tunnel_map)
<1>0. C \in Nat
  BY FS_CardinalityType DEF IInv
<1>1. CASE carrying = {}
  <2>1. \A n \in 0 .. C : SelectFromTunnels(label, active, n) = None
    <3>1. \A n \in Nat : SelectFromTunnels(label, active, n) = None
      BY <1>1, SelectedTunnel
    <3> HIDE DEF C
    <3> QED  BY <1>0, <3>1
  <2>2. 0 \in 0 .. C
    BY <1>0
  <2> QED  BY <1>1, <2>1, <2>2
<1>2. CASE carrying # {}
  <2>1. \A n \in 0 .. C : SelectFromTunnels(label, active, n) \in Best(carrying)
    <3>1. \A n \in Nat :
            SelectFromTunnels(label, active, n) \in Best(carrying)
      BY <1>2, SelectedTunnel
    <3> HIDE DEF C, carrying
    <3> QED  BY <1>0, <3>1
  <2>2. ASSUME NEW t \in Best(carrying)
        PROVE  \E n \in 0 .. C : SelectFromTunnels(label, active, n) = t
    <3>1. PICK s \in Seq(tunnel_map) :
            /\ s = Within(label_to_tunnels_map[label], active)
            /\ SortedByPriority(s) /\ Distinct(s)
            /\ Range(s) = carrying
      BY UsableTunnels
    <3>2. s # <<>> /\ s \in Seq(Tunnels)
      BY <1>2, <3>1, SeqMonotonic DEF Range, IInv
    <3>3. PICK n \in 0 .. Len(TopOf(s)) - 1 : InTurn(s, n) = t
      BY <2>2, <3>1, <3>2, Turns
    <3>4. /\ TopOf(s) \in Seq(tunnel_map) /\ Distinct(TopOf(s))
      BY <3>1, KeepRange, KeepDistinct DEF TopOf
    <3>5. Len(TopOf(s)) <= C /\ Len(TopOf(s)) \in Nat
      BY <3>4, DistinctLen DEF IInv
    <3>6. n \in 0 .. C
      <4> HIDE DEF C
      <4> QED  BY <1>0, <3>5
    <3> QED  BY <3>1, <3>3, <3>6 DEF SelectFromTunnels
  <2>3. {SelectFromTunnels(label, active, n) : n \in 0 .. C} = Best(carrying)
    <3> HIDE DEF C, carrying
    <3> QED  BY <2>1, <2>2
  <2> QED  BY <1>2, <2>3
<1> QED  BY <1>1, <1>2

(* TopTunnelsTakeTurns: whatever tunnels are registered and active, the    *)
(* values of select_index reach every active tunnel of a label's best      *)
(* priority, and no other.                                                 *)
THEOREM TakeTurns == Spec => []TopTunnelsTakeTurns
BY Invariance, InvTakesTurns, PTL

-----------------------------------------------------------------------------
(* The labels of one group. *)

(* The plain rules that match, and the fallbacks, with any labels. *)
PlainOf(rules, request) ==
  {r \in rules : /\ ~ IsFallback(r) /\ r.labels # <<>>
                 /\ PlainMatches(r, request)}
FallbacksOf(rules) == {r \in rules : IsFallback(r) /\ r.labels # <<>>}

(* The labels of one rule. *)
LEMMA TaggedSeq ==
  ASSUME NEW r, RuleOK(r)
  PROVE  /\ Tagged(r) \in Seq(Pairs({r}))
         /\ Range(Tagged(r)) = Pairs({r})
         /\ Tagged(r) = <<>> <=> r.labels = <<>>
<1>1. PICK labels : labels = r.labels
  OBVIOUS
<1>2. Len(labels) \in Nat /\ DOMAIN labels = 1 .. Len(labels)
  BY <1>1 DEF RuleOK
<1>3. PICK t : t = [n \in DOMAIN labels |-> [label |-> labels[n], tag |-> r.tag]]
  OBVIOUS
<1>4. Pairs({r}) = {[label |-> l, tag |-> r.tag] : l \in LabelSet(r)}
  BY DEF Pairs
<1>5. LabelSet(r) = {labels[n] : n \in DOMAIN labels}
  BY <1>1 DEF LabelSet
<1>6. Range(t) = Pairs({r})
  BY <1>3, <1>4, <1>5 DEF Range
<1>7. PICK S : S = Pairs({r})
  OBVIOUS
<1>8. t \in Seq(S) /\ Len(t) = Len(labels)
  <2>1. PICK L \in Nat : L = Len(labels)
    BY <1>2
  <2>2. t \in [1 .. L -> S]
    BY <1>2, <1>3, <1>6, <1>7, <2>1 DEF Range
  <2> QED  BY <2>1, <2>2
<1>9. t = <<>> <=> labels = <<>>
  BY <1>1, <1>2, <1>8 DEF RuleOK
<1>10. t = Tagged(r)
  BY <1>1, <1>3 DEF Tagged
<1> QED  BY <1>1, <1>6, <1>7, <1>8, <1>9, <1>10

(* Pairs of more rules are more pairs; rules with labels have some. *)
LEMMA PairsUnion ==
  ASSUME NEW A, NEW B
  PROVE  Pairs(A \cup B) = Pairs(A) \cup Pairs(B)
BY DEF Pairs

LEMMA PairsMonotonic ==
  ASSUME NEW A, NEW B, A \subseteq B
  PROVE  Pairs(A) \subseteq Pairs(B)
BY DEF Pairs

LEMMA PairsSome ==
  ASSUME NEW A, \A r \in A : RuleOK(r) /\ r.labels # <<>>
  PROVE  Pairs(A) = {} <=> A = {}
<1>1. ASSUME NEW r \in A PROVE Pairs(A) # {}
  <2>1. r.labels[1] \in LabelSet(r)
    <3>1. Len(r.labels) \in Nat /\ DOMAIN r.labels = 1 .. Len(r.labels)
      BY DEF RuleOK
    <3>2. 1 \in DOMAIN r.labels
      <4>1. Len(r.labels) # 0
        BY DEF RuleOK
      <4> QED  BY <3>1, <4>1
    <3> QED  BY <3>2 DEF LabelSet
  <2>2. [label |-> r.labels[1], tag |-> r.tag] \in Pairs({r})
    BY <2>1 DEF Pairs
  <2> QED  BY <2>2, PairsMonotonic
<1>2. Pairs({}) = {}
  BY DEF Pairs
<1> QED  BY <1>1, <1>2

(* The labels gathered from the first n rules of a group. *)
Gathers(f, rules, request, already_matched) ==
  /\ f[0] = <<>>
  /\ \A n \in 1 .. Len(rules) :
       f[n] = IF RuleMatches(rules[n], request,
                             already_matched \/ f[n - 1] # <<>>)
              THEN f[n - 1] \o Tagged(rules[n]) ELSE f[n - 1]
  /\ GroupLabels(rules, request, already_matched) = f[Len(rules)]

(* GroupLabels gathers so. *)
LEMMA GroupLabelsGathered ==
  ASSUME NEW R, \A r \in R : RuleOK(r), NEW rules \in Seq(R),
         NEW request, NEW already
  PROVE  \E f \in [0 .. Len(rules) -> Seq(Pairs(R))] :
           Gathers(f, rules, request, already)
<1> DEFINE N == Len(rules)
           V == Seq(Pairs(R))
           After(n, v) == IF RuleMatches(rules[n], request, already \/ v # <<>>)
                         THEN v \o Tagged(rules[n]) ELSE v
           step == [n \in 1 .. N |-> [v \in V |-> After(n, v)]]
           Computed(f) == f = [n \in 0 .. N |->
                               IF n = 0 THEN <<>> ELSE After(n, f[n - 1])]
           labels == CHOOSE f : Computed(f)
<1>0. N \in Nat /\ <<>> \in V
  BY EmptySeq
<1>1. ASSUME NEW n \in 1 .. N, NEW v \in V PROVE After(n, v) \in V
  <2>1. rules[n] \in R
    OBVIOUS
  <2>2. Tagged(rules[n]) \in Seq(Pairs({rules[n]}))
    BY <2>1, TaggedSeq
  <2>3. Pairs({rules[n]}) \subseteq Pairs(R)
    BY <2>1, PairsMonotonic
  <2>4. Tagged(rules[n]) \in V
    BY <2>2, <2>3, SeqMonotonic
  <2>5. v \o Tagged(rules[n]) \in V
    BY <2>4, ConcatProperties
  <2> HIDE DEF V
  <2> QED  BY <2>5
<1>2. step \in [1 .. N -> [V -> V]]
  <2> HIDE DEF V, After
  <2> QED  BY <1>1
<1>3. PICK f \in [0 .. N -> V] : Continues(f, N, <<>>, step)
  <2> HIDE DEF V, step, N
  <2> QED  BY <1>0, <1>2, RecursionExists
<1>4. f[0] = <<>> /\ \A n \in 1 .. N : f[n] = After(n, f[n - 1])
  <2> HIDE DEF After, V
  <2>1. ASSUME NEW n \in 1 .. N PROVE f[n] = After(n, f[n - 1])
    <3>1. n - 1 \in 0 .. N
      BY <1>0
    <3>2. f[n - 1] \in V
      BY <1>3, <3>1
    <3> QED  BY <1>3, <3>2 DEF Continues
  <2> QED  BY <1>3, <2>1 DEF Continues
<1>5. Computed(f)
  <2> HIDE DEF After, V
  <2>1. \A n \in 0 .. N : f[n] = IF n = 0 THEN <<>> ELSE After(n, f[n - 1])
    BY <1>0, <1>4
  <2> QED  BY <1>3, <2>1
<1>6. Computed(labels)
  <2> HIDE DEF Computed
  <2> QED  BY <1>5
<1>7. GroupLabels(rules, request, already) = labels[N]
  BY DEF GroupLabels
<1> HIDE DEF labels
<1>8. \A n \in 0 .. N : labels[n] = f[n]
  <2> DEFINE T == {n \in 0 .. N : labels[n] = f[n]}
  <2> HIDE DEF After, V
  <2>1. 0 \in T
    BY <1>0, <1>4, <1>6
  <2>2. ASSUME NEW n \in 1 .. N, n - 1 \in T PROVE n \in T
    <3>1. n \in 0 .. N /\ n # 0
      BY <1>0
    <3>2. labels[n] = After(n, labels[n - 1])
      BY <1>6, <3>1
    <3> QED  BY <1>4, <2>2, <3>1, <3>2
  <2> HIDE DEF T
  <2>3. \A n \in 0 .. N : n \in T
    BY <1>0, <2>1, <2>2, CountUp
  <2> QED  BY <2>3 DEF T
<1>9. GroupLabels(rules, request, already) = f[N]
  <2>1. N \in 0 .. N
    BY <1>0
  <2> HIDE DEF N
  <2> QED  BY <1>7, <1>8, <2>1
<1>10. Gathers(f, rules, request, already)
  BY <1>4, <1>9 DEF Gathers
<1> QED  BY <1>3, <1>10


(* Fallback rules are the last of the list. *)
FallbacksLast(rules) ==
  \A m, n \in DOMAIN rules :
    m < n /\ IsFallback(rules[m]) => IsFallback(rules[n])

(* The labels of a group are those of the plain rules that match, or, when *)
(* nothing has matched, of the first fallback that has any.                *)
LEMMA GroupLabelsAre ==
  ASSUME NEW R, \A r \in R : RuleOK(r), NEW rules \in Seq(R),
         NEW request, NEW already,
         already \/ FallbacksLast(rules)
  PROVE  LET labels == GroupLabels(rules, request, already)
             plain == PlainOf(Range(rules), request)
             fallbacks == FallbacksOf(Range(rules))
         IN /\ labels \in Seq(Pairs(R))
            /\ already \/ plain # {} => Range(labels) = Pairs(plain)
            /\ ~ already /\ plain = {} =>
                 IF fallbacks = {} THEN labels = <<>>
                 ELSE \E r \in fallbacks : labels = Tagged(r)
<1> DEFINE N == Len(rules)
           First(n) == {rules[m] : m \in 1 .. n}
           V == Seq(Pairs(R))
<1>0. N \in Nat /\ DOMAIN rules = 1 .. N /\ Range(rules) = First(N)
  BY DEF Range
<1>1. PICK f \in [0 .. N -> V] : Gathers(f, rules, request, already)
  BY GroupLabelsGathered
<1> DEFINE Right(n) ==
             /\ already \/ PlainOf(First(n), request) # {} =>
                  Range(f[n]) = Pairs(PlainOf(First(n), request))
             /\ ~ already /\ PlainOf(First(n), request) = {} =>
                  IF FallbacksOf(First(n)) = {} THEN f[n] = <<>>
                  ELSE \E r \in FallbacksOf(First(n)) : f[n] = Tagged(r)
           T == {n \in 0 .. N : Right(n)}
<1>2. 0 \in T
  <2>1. First(0) = {} /\ f[0] = <<>> /\ 0 \in 0 .. N
    BY <1>0, <1>1 DEF Gathers
  <2>2. PlainOf({}, request) = {} /\ FallbacksOf({}) = {} /\ Pairs({}) = {}
    BY DEF PlainOf, FallbacksOf, Pairs
  <2>3. Range(<<>>) = {}
    BY DEF Range
  <2> QED  BY <2>1, <2>2, <2>3
<1>3. ASSUME NEW n \in 1 .. N, n - 1 \in T
      PROVE  n \in T
  <2>0. PICK r \in R : r = rules[n]
    OBVIOUS
  <2>1. PICK b \in V : b = f[n - 1]
    <3>1. n - 1 \in 0 .. N
      BY <1>0
    <3> HIDE DEF V
    <3> QED  BY <3>1
  <2>2. PICK A : A = First(n - 1)
    OBVIOUS
  <2>3. First(n) = A \cup {r}
    <3>1. 1 .. n = (1 .. n - 1) \cup {n}
      OBVIOUS
    <3> QED  BY <2>0, <2>2, <3>1
  <2>4. A \subseteq R
    <3>1. 1 .. n - 1 \subseteq 1 .. N
      BY <1>0
    <3> QED  BY <2>2, <3>1
  <2>5. Right(n - 1)
    BY <1>3
  <2>6. f[n] = IF RuleMatches(r, request, already \/ b # <<>>)
               THEN b \o Tagged(r) ELSE b
    BY <1>1, <2>0, <2>1 DEF Gathers
  <2>7. b \in Seq(Pairs(R)) /\ (b = <<>> <=> Range(b) = {})
    BY EmptyRange
  <2>8. PICK t \in Seq(Pairs(R)) :
          /\ t = Tagged(r) /\ Range(t) = Pairs({r})
          /\ t = <<>> <=> r.labels = <<>>
    <3>1. Pairs({r}) \subseteq Pairs(R)
      BY PairsMonotonic
    <3> QED  BY <3>1, TaggedSeq, SeqMonotonic
  <2>9. Range(b \o t) = Range(b) \cup Pairs({r})
    BY <2>7, <2>8, RangeConcatenation
  <2>10. PlainOf(A \cup {r}, request) = PlainOf(A, request) \cup PlainOf({r}, request)
    BY DEF PlainOf
  <2>11. FallbacksOf(A \cup {r}) = FallbacksOf(A) \cup FallbacksOf({r})
    BY DEF FallbacksOf
  <2>12. Pairs(PlainOf(A \cup {r}, request)) =
           Pairs(PlainOf(A, request)) \cup Pairs(PlainOf({r}, request))
    BY <2>10, PairsUnion
  <2>13. Pairs({}) = {}
    BY DEF Pairs
  <2>14. r.labels = <<>> => t = <<>> /\ b \o t = b
    BY <2>7, <2>8, ConcatEmptySeq
  <2>15. PlainOf(A, request) # {} => Pairs(PlainOf(A, request)) # {}
    <3>1. \A s \in PlainOf(A, request) : RuleOK(s) /\ s.labels # <<>>
      BY <2>4 DEF PlainOf
    <3> QED  BY <3>1, PairsSome
  <2>16. ~ already /\ FallbacksOf(A) # {} => IsFallback(r)
    <3> SUFFICES ASSUME ~ already, NEW s \in A, IsFallback(s)
                 PROVE  IsFallback(r)
      BY DEF FallbacksOf
    <3>1. PICK m \in 1 .. n - 1 : s = rules[m]
      BY <2>2
    <3>2. m \in DOMAIN rules /\ n \in DOMAIN rules /\ m < n
      BY <1>0, <3>1
    <3>3. IsFallback(rules[m])
      BY <3>1
    <3> QED  BY <2>0, <3>2, <3>3 DEF FallbacksLast
  <2> HIDE DEF First, V
  <2>17. CASE IsFallback(r)
    <3>1. PlainOf({r}, request) = {}
      BY <2>17 DEF PlainOf
    <3>2. FallbacksOf({r}) = IF r.labels = <<>> THEN {} ELSE {r}
      BY <2>17 DEF FallbacksOf
    <3>3. f[n] = IF already \/ b # <<>> THEN b ELSE b \o t
      BY <2>6, <2>8, <2>17 DEF RuleMatches, IsFallback
    <3>4. CASE already \/ b # <<>>
      <4>1. f[n] = b
        BY <3>3, <3>4
      <4>2. CASE already \/ PlainOf(A, request) # {}
        BY <2>1, <2>2, <2>3, <2>5, <2>10, <3>1, <4>1, <4>2
      <4>3. CASE ~ already /\ PlainOf(A, request) = {}
        <5>1. PICK s \in FallbacksOf(A) : b = Tagged(s)
          BY <2>1, <2>2, <2>5, <3>4, <4>3
        <5> QED  BY <2>3, <2>10, <2>11, <3>1, <4>1, <4>3, <5>1
      <4> QED  BY <4>2, <4>3
    <3>5. CASE ~ (already \/ b # <<>>)
      <4>1. PlainOf(A, request) = {}
        <5>1. Range(b) = {}
          BY <2>7, <3>5
        <5> QED  BY <2>1, <2>2, <2>5, <2>15, <5>1
      <4>2. f[n] = t
        BY <2>8, <3>3, <3>5, ConcatEmptySeq
      <4>3. CASE r.labels = <<>>
        <5>1. f[n] = b
          BY <2>14, <3>3, <3>5, <4>3
        <5> QED  BY <2>1, <2>2, <2>3, <2>5, <2>10, <2>11, <3>1, <3>2, <3>5, <4>1, <4>3, <5>1
      <4>4. CASE r.labels # <<>>
        BY <2>3, <2>8, <2>10, <2>11, <3>1, <3>2, <3>5, <4>1, <4>2, <4>4
      <4> QED  BY <4>3, <4>4
    <3>6. Right(n)
      BY <3>4, <3>5
    <3> QED  BY <1>0, <3>6
  <2>18. CASE ~ IsFallback(r)
    <3>1. FallbacksOf({r}) = {}
      BY <2>18 DEF FallbacksOf
    <3>2. PlainOf({r}, request) =
            IF PlainMatches(r, request) /\ r.labels # <<>> THEN {r} ELSE {}
      BY <2>18 DEF PlainOf
    <3>3. f[n] = IF PlainMatches(r, request) THEN b \o t ELSE b
      BY <2>6, <2>8, <2>18 DEF RuleMatches, IsFallback
    <3>4. ~ already => FallbacksOf(A) = {}
      BY <2>16, <2>18
    <3>5. Range(b) = Pairs(PlainOf(A, request))
      <4>1. CASE already \/ PlainOf(A, request) # {}
        BY <2>1, <2>2, <2>5, <4>1
      <4>2. CASE ~ already /\ PlainOf(A, request) = {}
        BY <2>1, <2>2, <2>5, <2>7, <2>13, <3>4, <4>2
      <4> QED  BY <4>1, <4>2
    <3>6. Range(f[n]) = Pairs(PlainOf(A \cup {r}, request))
      <4>1. CASE ~ PlainMatches(r, request)
        BY <2>12, <2>13, <3>2, <3>3, <3>5, <4>1
      <4>2. CASE PlainMatches(r, request) /\ r.labels = <<>>
        BY <2>12, <2>13, <2>14, <3>2, <3>3, <3>5, <4>2
      <4>3. CASE PlainMatches(r, request) /\ r.labels # <<>>
        BY <2>9, <2>12, <3>2, <3>3, <3>5, <4>3
      <4> QED  BY <4>1, <4>2, <4>3
    <3>7. ~ already /\ PlainOf(A \cup {r}, request) = {} =>
            f[n] = <<>> /\ FallbacksOf(A \cup {r}) = {}
      <4> SUFFICES ASSUME ~ already, PlainOf(A \cup {r}, request) = {}
                   PROVE  f[n] = <<>> /\ FallbacksOf(A \cup {r}) = {}
        OBVIOUS
      <4>1. Range(f[n]) = {}
        BY <2>13, <3>6
      <4>2. n \in 0 .. N
        BY <1>0
      <4>3. f[n] \in Seq(Pairs(R))
        BY <4>2 DEF V
      <4> QED  BY <2>11, <3>1, <3>4, <4>1, <4>3, EmptyRange
    <3>8. Right(n)
      BY <2>3, <3>6, <3>7
    <3> QED  BY <1>0, <3>8
  <2> QED  BY <2>17, <2>18
<1>4. Right(N) /\ f[N] \in V /\ f[N] = GroupLabels(rules, request, already)
  <2>1. N \in 0 .. N
    BY <1>0
  <2>2. N \in T
    <3> HIDE DEF T, Right, N
    <3>1. \A n \in 0 .. N : n \in T
      BY <1>0, <1>2, <1>3, CountUp
    <3> QED  BY <2>1, <3>1
  <2>3. f[N] = GroupLabels(rules, request, already)
    BY <1>1 DEF Gathers
  <2> HIDE DEF Right, V, N
  <2> QED  BY <2>1, <2>2, <2>3
<1> QED  BY <1>0, <1>4

-----------------------------------------------------------------------------
(* The groups of labels of a match. *)

(* The groups of labels after the first n groups of rules. *)
Accumulates(f, request) ==
  /\ f[0] = <<>>
  /\ \A n \in 1 .. Len(rules_groups_cache) :
       LET labels == GroupLabels(rules_groups_cache[n], request, f[n - 1] # <<>>)
       IN f[n] = IF labels = <<>> THEN f[n - 1] ELSE Append(f[n - 1], labels)
  /\ Match(request) = Unique(f[Len(rules_groups_cache)])

(* Match accumulates so. *)
LEMMA MatchAccumulates ==
  ASSUME NEW R, \A r \in R : RuleOK(r), rules_groups_cache \in Seq(Seq(R)),
         NEW request
  PROVE  \E f \in [0 .. Len(rules_groups_cache) -> Seq(Seq(Pairs(R)))] :
           Accumulates(f, request)
<1> DEFINE N == Len(rules_groups_cache)
           V == Seq(Seq(Pairs(R)))
           After(n, v) ==
             LET labels == GroupLabels(rules_groups_cache[n], request, v # <<>>)
             IN IF labels = <<>> THEN v ELSE Append(v, labels)
           step == [n \in 1 .. N |-> [v \in V |-> After(n, v)]]
           Computed(f) == f = [n \in 0 .. N |->
                                 IF n = 0 THEN <<>> ELSE After(n, f[n - 1])]
           groups == CHOOSE f : Computed(f)
<1>0. N \in Nat /\ <<>> \in V
  BY EmptySeq
<1>1. ASSUME NEW n \in 1 .. N, NEW v \in V PROVE After(n, v) \in V
  <2>1. PICK rules \in Seq(R) : rules = rules_groups_cache[n]
    OBVIOUS
  <2>2. PICK labels : labels = GroupLabels(rules, request, v # <<>>)
    OBVIOUS
  <2>3. labels \in Seq(Pairs(R))
    <3>1. PICK f \in [0 .. Len(rules) -> Seq(Pairs(R))] :
            Gathers(f, rules, request, v # <<>>)
      BY GroupLabelsGathered
    <3>2. Len(rules) \in 0 .. Len(rules) /\ labels = f[Len(rules)]
      BY <2>2, <3>1 DEF Gathers
    <3> QED  BY <3>1, <3>2
  <2>4. After(n, v) = IF labels = <<>> THEN v ELSE Append(v, labels)
    BY <2>1, <2>2
  <2> HIDE DEF After
  <2> QED  BY <2>3, <2>4
<1>2. step \in [1 .. N -> [V -> V]]
  <2> HIDE DEF V, After
  <2> QED  BY <1>1
<1>3. PICK f \in [0 .. N -> V] : Continues(f, N, <<>>, step)
  <2> HIDE DEF V, step, N
  <2> QED  BY <1>0, <1>2, RecursionExists
<1>4. f[0] = <<>> /\ \A n \in 1 .. N : f[n] = After(n, f[n - 1])
  <2> HIDE DEF After, V
  <2>1. ASSUME NEW n \in 1 .. N PROVE f[n] = After(n, f[n - 1])
    <3>1. n - 1 \in 0 .. N
      BY <1>0
    <3>2. f[n - 1] \in V
      BY <1>3, <3>1
    <3> QED  BY <1>3, <3>2 DEF Continues
  <2> QED  BY <1>3, <2>1 DEF Continues
<1>5. Computed(f)
  <2> HIDE DEF After, V
  <2>1. \A n \in 0 .. N : f[n] = IF n = 0 THEN <<>> ELSE After(n, f[n - 1])
    BY <1>0, <1>4
  <2> QED  BY <1>3, <2>1
<1>6. Computed(groups)
  <2> HIDE DEF Computed
  <2> QED  BY <1>5
<1>7. Match(request) = Unique(groups[N])
  BY DEF Match
<1> HIDE DEF groups
<1>8. \A n \in 0 .. N : groups[n] = f[n]
  <2> DEFINE T == {n \in 0 .. N : groups[n] = f[n]}
  <2> HIDE DEF After, V
  <2>1. 0 \in T
    BY <1>0, <1>4, <1>6
  <2>2. ASSUME NEW n \in 1 .. N, n - 1 \in T PROVE n \in T
    <3>1. n \in 0 .. N /\ n # 0
      BY <1>0
    <3>2. groups[n] = After(n, groups[n - 1])
      BY <1>6, <3>1
    <3> QED  BY <1>4, <2>2, <3>1, <3>2
  <2> HIDE DEF T
  <2>3. \A n \in 0 .. N : n \in T
    BY <1>0, <2>1, <2>2, CountUp
  <2> QED  BY <2>3 DEF T
<1>9. Match(request) = Unique(f[N])
  <2>1. N \in 0 .. N
    BY <1>0
  <2> HIDE DEF N
  <2> QED  BY <1>7, <1>8, <2>1
<1>10. Accumulates(f, request)
  BY <1>4, <1>9 DEF Accumulates
<1> QED  BY <1>3, <1>10

(* The plain rules of a group that match. *)
PlainAt(g, request) == PlainOf(Range(rules_groups_cache[g]), request)

(* Groups of labels, one for each of the first n groups that has a match. *)
Placed(gs, place, request, n) ==
  /\ \A j \in 1 .. Len(gs) :
       /\ PlainAt(place[j], request) # {}
       /\ Range(gs[j]) = Pairs(PlainAt(place[j], request))
  /\ \A i, j \in 1 .. Len(gs) : i < j => place[i] < place[j]
  /\ \A g \in 1 .. n : PlainAt(g, request) # {} =>
       \E j \in 1 .. Len(gs) : place[j] = g

Levels(gs, request, n) ==
  \E place \in [1 .. Len(gs) -> 1 .. n] : Placed(gs, place, request, n)

(* A group of rules without a match adds nothing, *)
LEMMA LevelsSame ==
  ASSUME NEW S, NEW gs \in Seq(S), NEW request, NEW n \in Nat \ {0},
         Levels(gs, request, n - 1), PlainAt(n, request) = {}
  PROVE  Levels(gs, request, n)
<1>1. PICK place \in [1 .. Len(gs) -> 1 .. n - 1] : Placed(gs, place, request, n - 1)
  BY DEF Levels
<1>2. PICK L \in Nat : L = Len(gs)
  OBVIOUS
<1>3. place \in [1 .. L -> 1 .. n]
  BY <1>1, <1>2
<1>4. ASSUME NEW g \in 1 .. n, PlainAt(g, request) # {}
      PROVE  \E j \in 1 .. L : place[j] = g
  <2>1. g \in 1 .. n - 1
    BY <1>4
  <2> QED  BY <1>1, <1>2, <1>4, <2>1 DEF Placed
<1> QED  BY <1>1, <1>2, <1>3, <1>4 DEF Levels, Placed

(* one with a match adds its labels, *)
LEMMA LevelsMore ==
  ASSUME NEW S, NEW gs \in Seq(S), NEW request, NEW n \in Nat \ {0},
         Levels(gs, request, n - 1), PlainAt(n, request) # {},
         NEW labels \in S, Range(labels) = Pairs(PlainAt(n, request))
  PROVE  Levels(Append(gs, labels), request, n)
<1>1. PICK place \in [1 .. Len(gs) -> 1 .. n - 1] : Placed(gs, place, request, n - 1)
  BY DEF Levels
<1>2. PICK L \in Nat : L = Len(gs)
  OBVIOUS
<1>3. PICK more \in Seq(S) : more = Append(gs, labels)
  BY AppendProperties
<1>4. /\ Len(more) = L + 1 /\ more[L + 1] = labels
      /\ \A j \in 1 .. L : more[j] = gs[j]
  BY <1>2, <1>3
<1> DEFINE longer == [j \in 1 .. L + 1 |-> IF j = L + 1 THEN n ELSE place[j]]
<1>5. ASSUME NEW j \in 1 .. L + 1
      PROVE  \/ j = L + 1 /\ longer[j] = n /\ more[j] = labels
             \/ /\ j \in 1 .. L /\ longer[j] = place[j] /\ more[j] = gs[j]
                /\ place[j] \in 1 .. n - 1
  <2>1. CASE j = L + 1
    BY <1>4, <2>1
  <2>2. CASE j # L + 1
    <3>1. j \in 1 .. L
      BY <2>2
    <3> QED  BY <1>1, <1>2, <1>4, <2>2, <3>1
  <2> QED  BY <2>1, <2>2
<1>6. longer \in [1 .. L + 1 -> 1 .. n]
  BY <1>5
<1> HIDE DEF longer
<1>7. ASSUME NEW j \in 1 .. L + 1
      PROVE  /\ PlainAt(longer[j], request) # {}
             /\ Range(more[j]) = Pairs(PlainAt(longer[j], request))
  BY <1>1, <1>2, <1>5 DEF Placed
<1>8. ASSUME NEW i \in 1 .. L + 1, NEW j \in 1 .. L + 1, i < j
      PROVE  longer[i] < longer[j]
  <2>1. i \in 1 .. L /\ longer[i] = place[i] /\ place[i] \in 1 .. n - 1
    <3>1. i # L + 1
      BY <1>8
    <3> QED  BY <1>5, <3>1
  <2> QED  BY <1>1, <1>2, <1>5, <1>8, <2>1 DEF Placed
<1>9. ASSUME NEW g \in 1 .. n, PlainAt(g, request) # {}
      PROVE  \E j \in 1 .. L + 1 : longer[j] = g
  <2>1. CASE g = n
    <3>1. L + 1 \in 1 .. L + 1 /\ L + 1 \notin 1 .. L
      OBVIOUS
    <3> QED  BY <1>5, <2>1, <3>1
  <2>2. CASE g # n
    <3>1. g \in 1 .. n - 1
      BY <2>2
    <3>2. PICK j \in 1 .. L : place[j] = g
      BY <1>1, <1>2, <1>9, <3>1 DEF Placed
    <3>3. j \in 1 .. L + 1 /\ j # L + 1
      OBVIOUS
    <3> QED  BY <1>5, <3>2, <3>3
  <2> QED  BY <2>1, <2>2
<1>10. Placed(more, longer, request, n)
  BY <1>4, <1>7, <1>8, <1>9 DEF Placed
<1>11. longer \in [1 .. Len(more) -> 1 .. n]
  BY <1>4, <1>6
<1> QED  BY <1>3, <1>10, <1>11 DEF Levels

(* and there are none if no group has a match. *)
LEMMA LevelsEmpty ==
  ASSUME NEW S, NEW gs \in Seq(S), NEW request, NEW n \in Nat,
         Levels(gs, request, n)
  PROVE  gs = <<>> <=> \A g \in 1 .. n : PlainAt(g, request) = {}
<1>1. PICK place \in [1 .. Len(gs) -> 1 .. n] : Placed(gs, place, request, n)
  BY DEF Levels
<1>2. PICK L \in Nat : L = Len(gs)
  OBVIOUS
<1>3. gs = <<>> <=> L = 0
  BY <1>2
<1>4. CASE L = 0
  <2>1. 1 .. L = {}
    BY <1>4
  <2> QED  BY <1>1, <1>2, <1>3, <1>4, <2>1 DEF Placed
<1>5. CASE L # 0
  <2>1. 1 \in 1 .. L
    BY <1>5
  <2>2. PlainAt(place[1], request) # {} /\ place[1] \in 1 .. n
    BY <1>1, <1>2, <2>1 DEF Placed
  <2> QED  BY <1>3, <1>5, <2>2
<1> QED  BY <1>4, <1>5

(* No fallback rule is before another rule in the cache. *)
CacheInOrder ==
  /\ \A g \in DOMAIN rules_groups_cache : FallbacksLast(rules_groups_cache[g])
  /\ \A g, h \in DOMAIN rules_groups_cache : g < h =>
       \A r \in Range(rules_groups_cache[g]) : ~ IsFallback(r)

(* Before repetitions are dropped, the groups of labels are those of the   *)
(* groups that have a match; without any, that of the first fallback.      *)
LEMMA MatchShape ==
  ASSUME NEW R, \A r \in R : RuleOK(r), rules_groups_cache \in Seq(Seq(R)),
         CacheInOrder, NEW request
  PROVE  \E gs \in Seq(Seq(Pairs(R))) :
           /\ Match(request) = Unique(gs)
           /\ LET N == Len(rules_groups_cache) IN
              IF \/ \E g \in 1 .. N : PlainAt(g, request) # {}
                 \/ \A g \in 1 .. N : FallbacksOf(Range(rules_groups_cache[g])) = {}
              THEN Levels(gs, request, N)
              ELSE \E g \in 1 .. N :
                     \E r \in FallbacksOf(Range(rules_groups_cache[g])) :
                       gs = <<Tagged(r)>>
<1> DEFINE N == Len(rules_groups_cache)
           F(g) == FallbacksOf(Range(rules_groups_cache[g]))
           V == Seq(Seq(Pairs(R)))
<1>0. N \in Nat /\ DOMAIN rules_groups_cache = 1 .. N
  OBVIOUS
<1>1. PICK f \in [0 .. N -> V] : Accumulates(f, request)
  BY MatchAccumulates
<1> DEFINE Right(n) ==
             IF \/ \E g \in 1 .. n : PlainAt(g, request) # {}
                \/ \A g \in 1 .. n : F(g) = {}
             THEN Levels(f[n], request, n)
             ELSE \E g \in 1 .. n : \E r \in F(g) : f[n] = <<Tagged(r)>>
           T == {n \in 0 .. N : Right(n)}
<1>2. 0 \in T
  <2>1. f[0] = <<>> /\ 0 \in 0 .. N
    BY <1>0, <1>1 DEF Accumulates
  <2>2. [j \in 1 .. 0 |-> 0] \in [1 .. Len(<<>>) -> 1 .. 0]
    OBVIOUS
  <2>3. Placed(<<>>, [j \in 1 .. 0 |-> 0], request, 0)
    BY DEF Placed
  <2>4. Levels(<<>>, request, 0)
    BY <2>2, <2>3 DEF Levels
  <2> HIDE DEF F
  <2> QED  BY <2>1, <2>4
<1>3. ASSUME NEW n \in 1 .. N, n - 1 \in T
      PROVE  n \in T
  <2>0. PICK rules \in Seq(R) : rules = rules_groups_cache[n]
    OBVIOUS
  <2>1. PICK b \in V : b = f[n - 1]
    <3>1. n - 1 \in 0 .. N
      BY <1>0
    <3> HIDE DEF V
    <3> QED  BY <3>1
  <2>2. ASSUME NEW g \in 1 .. n - 1 PROVE F(g) = {}
    <3>1. g \in DOMAIN rules_groups_cache /\ n \in DOMAIN rules_groups_cache /\ g < n
      BY <1>0
    <3> QED  BY <3>1 DEF FallbacksOf, CacheInOrder
  <2>3. Levels(b, request, n - 1)
    <3> HIDE DEF F
    <3> QED  BY <1>3, <2>1, <2>2
  <2>4. n \in Nat \ {0} /\ n - 1 \in Nat /\ n \in 0 .. N
    BY <1>0
  <2>5. b = <<>> <=> \A g \in 1 .. n - 1 : PlainAt(g, request) = {}
    <3> HIDE DEF F
    <3> QED  BY <2>3, <2>4, LevelsEmpty
  <2>6. PICK labels : labels = GroupLabels(rules, request, b # <<>>)
    OBVIOUS
  <2>7. f[n] = IF labels = <<>> THEN b ELSE Append(b, labels)
    BY <1>1, <2>0, <2>1, <2>6 DEF Accumulates
  <2>8. /\ labels \in Seq(Pairs(R))
        /\ b # <<>> \/ PlainAt(n, request) # {} =>
             Range(labels) = Pairs(PlainAt(n, request))
        /\ b = <<>> /\ PlainAt(n, request) = {} =>
             IF F(n) = {} THEN labels = <<>>
             ELSE \E r \in F(n) : labels = Tagged(r)
    <3>1. FallbacksLast(rules)
      BY <1>0, <2>0 DEF CacheInOrder
    <3>2. PICK already : already = (b # <<>>)
      OBVIOUS
    <3>3. labels = GroupLabels(rules, request, already)
      BY <2>6, <3>2
    <3>4. /\ labels \in Seq(Pairs(R))
          /\ already \/ PlainOf(Range(rules), request) # {} =>
               Range(labels) = Pairs(PlainOf(Range(rules), request))
          /\ ~ already /\ PlainOf(Range(rules), request) = {} =>
               IF FallbacksOf(Range(rules)) = {} THEN labels = <<>>
               ELSE \E r \in FallbacksOf(Range(rules)) : labels = Tagged(r)
      <4> HIDE DEF F, V
      <4> QED  BY <3>1, <3>3, GroupLabelsAre
    <3> QED  BY <2>0, <3>2, <3>4 DEF PlainAt
  <2>9. PlainAt(n, request) # {} => Pairs(PlainAt(n, request)) # {}
    <3>1. \A r \in PlainAt(n, request) : RuleOK(r) /\ r.labels # <<>>
      BY <2>0 DEF PlainAt, PlainOf, Range
    <3> QED  BY <3>1, PairsSome
  <2>10. labels = <<>> <=> Range(labels) = {}
    BY <2>8, EmptyRange
  <2>11. \A r \in F(n) : Tagged(r) # <<>>
    <3>1. \A r \in F(n) : RuleOK(r) /\ r.labels # <<>>
      BY <2>0 DEF FallbacksOf, Range
    <3> QED  BY <3>1, TaggedSeq
  <2>12. 1 .. n = (1 .. n - 1) \cup {n}
    BY <2>4
  <2> HIDE DEF F, V
  <2>13. CASE PlainAt(n, request) # {}
    <3>1. labels # <<>>
      BY <2>8, <2>9, <2>10, <2>13
    <3>2. Levels(Append(b, labels), request, n)
      BY <2>3, <2>4, <2>8, <2>13, LevelsMore DEF V
    <3>3. Right(n)
      BY <2>7, <2>12, <2>13, <3>1, <3>2
    <3> QED  BY <2>4, <3>3
  <2>14. CASE PlainAt(n, request) = {} /\ (b # <<>> \/ F(n) = {})
    <3>1. labels = <<>>
      <4>1. Pairs({}) = {}
        BY DEF Pairs
      <4> QED  BY <2>8, <2>10, <2>14, <4>1
    <3>2. Levels(b, request, n)
      BY <2>3, <2>4, <2>14, LevelsSame DEF V
    <3>3. \/ \E g \in 1 .. n : PlainAt(g, request) # {}
          \/ \A g \in 1 .. n : F(g) = {}
      BY <2>2, <2>5, <2>12, <2>14
    <3>4. Right(n)
      BY <2>7, <3>1, <3>2, <3>3
    <3> QED  BY <2>4, <3>4
  <2>15. CASE PlainAt(n, request) = {} /\ b = <<>> /\ F(n) # {}
    <3>1. PICK r \in F(n) : labels = Tagged(r)
      BY <2>8, <2>15
    <3>2. f[n] = <<Tagged(r)>>
      BY <2>7, <2>11, <2>15, <3>1
    <3>3. ~ \/ \E g \in 1 .. n : PlainAt(g, request) # {}
            \/ \A g \in 1 .. n : F(g) = {}
      BY <2>5, <2>12, <2>15
    <3>4. n \in 1 .. n
      BY <2>4
    <3>5. Right(n)
      BY <3>1, <3>2, <3>3, <3>4
    <3> QED  BY <2>4, <3>5
  <2> QED  BY <2>13, <2>14, <2>15
<1>4. N \in 0 .. N /\ N \in T
  <2>1. N \in 0 .. N
    BY <1>0
  <2> HIDE DEF T, N
  <2>2. \A n \in 0 .. N : n \in T
    BY <1>0, <1>2, <1>3, CountUp
  <2> QED  BY <2>1, <2>2
<1>5. Right(N) /\ f[N] \in V /\ Match(request) = Unique(f[N])
  BY <1>1, <1>4 DEF Accumulates
<1> QED  BY <1>5

-----------------------------------------------------------------------------
(* Repetitions dropped. *)

(* Unique keeps the first of each element, in their order. *)
Firsts(k, place, s) ==
  /\ \A j \in 1 .. Len(k) : k[j] = s[place[j]]
  /\ \A i, j \in 1 .. Len(k) : i < j => place[i] < place[j]
  /\ \A n \in 1 .. Len(s) : \E j \in 1 .. Len(k) : place[j] <= n /\ k[j] = s[n]

LEMMA UniqueFirsts ==
  ASSUME NEW S, NEW s \in Seq(S)
  PROVE  /\ Unique(s) \in Seq(S)
         /\ \E place \in [1 .. Len(Unique(s)) -> 1 .. Len(s)] :
              Firsts(Unique(s), place, s)
<1>0. PICK N \in Nat : N = Len(s) /\ DOMAIN s = 1 .. N
  OBVIOUS
<1>1. PICK P : P = {n \in DOMAIN s : \A m \in 1 .. n - 1 : s[m] # s[n]}
  OBVIOUS
<1>2. Unique(s) = Keep(s, P)
  BY <1>1 DEF Unique
<1>3. PICK k \in Seq(S) : k = Keep(s, P)
  BY KeepPlaces
<1>4. PICK place \in [1 .. Len(k) -> DOMAIN s \cap P] :
        Picks(k, place, s, DOMAIN s \cap P)
  BY <1>3, KeepPlaces
<1>5. PICK L \in Nat : L = Len(k)
  OBVIOUS
<1>6. place \in [1 .. L -> 1 .. N]
  BY <1>0, <1>4, <1>5
<1>7. ASSUME NEW n \in 1 .. N
      PROVE  \E j \in 1 .. L : place[j] <= n /\ k[j] = s[n]
  <2> DEFINE T == {m \in Nat : m \in 1 .. n /\ s[m] = s[n]}
  <2>1. n \in T
    OBVIOUS
  <2>2. PICK p \in T : \A m \in T : p <= m
    <3> HIDE DEF T
    <3>1. T \in SUBSET Nat
      BY DEF T
    <3> QED  BY <2>1, <3>1, LeastNumber
  <2>3. p \in 1 .. n /\ s[p] = s[n] /\ p \in DOMAIN s
    BY <1>0, <2>2
  <2>4. ASSUME NEW m \in 1 .. p - 1 PROVE s[m] # s[p]
    <3>1. m \in 1 .. n /\ m \in Nat /\ ~ p <= m
      BY <2>3
    <3> QED  BY <2>2, <2>3, <3>1
  <2>5. p \in DOMAIN s \cap P
    BY <1>1, <2>3, <2>4
  <2> HIDE DEF T
  <2>6. PICK j \in 1 .. L : place[j] = p
    BY <1>4, <1>5, <2>5 DEF Picks
  <2>7. k[j] = s[p]
    BY <1>4, <1>5, <2>6 DEF Picks
  <2> QED  BY <2>3, <2>6, <2>7
<1>8. Firsts(k, place, s)
  BY <1>0, <1>4, <1>5, <1>7 DEF Firsts, Picks
<1>9. place \in [1 .. Len(k) -> 1 .. Len(s)]
  BY <1>0, <1>5, <1>6
<1> QED  BY <1>2, <1>3, <1>8, <1>9

LEMMA UniqueOne ==
  ASSUME NEW S, NEW x \in S
  PROVE  Unique(<<x>>) = <<x>>
<1>0. <<x>> \in Seq(S) /\ Len(<<x>>) = 1 /\ <<x>>[1] = x
  OBVIOUS
<1>1. PICK s \in Seq(S) : s = <<x>> /\ Len(s) = 1 /\ s[1] = x
  BY <1>0
<1>2. PICK k \in Seq(S) : k = Unique(s)
  BY UniqueFirsts
<1>3. PICK place \in [1 .. Len(k) -> 1 .. 1] : Firsts(k, place, s)
  BY <1>1, <1>2, UniqueFirsts
<1>4. PICK L \in Nat : L = Len(k)
  OBVIOUS
<1>5. PICK j \in 1 .. L : k[j] = x
  BY <1>1, <1>3, <1>4 DEF Firsts
<1>6. L = 1
  <2> SUFFICES ASSUME L # 1 PROVE FALSE
    OBVIOUS
  <2>1. 1 \in 1 .. L /\ 2 \in 1 .. L
    BY <1>5
  <2>2. place[1] < place[2]
    BY <1>3, <1>4, <2>1 DEF Firsts
  <2>3. place[1] = 1 /\ place[2] = 1
    BY <1>3, <1>4, <2>1
  <2> QED  BY <2>2, <2>3
<1>7. k[1] = x
  BY <1>5, <1>6
<1>8. k = s
  <2>1. \A i \in 1 .. Len(k) : k[i] = s[i]
    BY <1>1, <1>4, <1>6, <1>7
  <2> QED  BY <1>1, <1>4, <1>6, <2>1, SeqEqual
<1> QED  BY <1>1, <1>2, <1>8

(* The groups that are left, each where its first one was. *)
Ranked(groups, place, request) ==
  /\ \A j \in 1 .. Len(groups) :
       /\ PlainAt(place[j], request) # {}
       /\ Range(groups[j]) = Pairs(PlainAt(place[j], request))
  /\ \A i, j \in 1 .. Len(groups) : i < j => place[i] < place[j]
  /\ \A g \in 1 .. Len(rules_groups_cache) : PlainAt(g, request) # {} =>
       \E j \in 1 .. Len(groups) :
         place[j] <= g /\ Range(groups[j]) = Pairs(PlainAt(g, request))

(* Dropping repetitions leaves groups ranked so. *)
LEMMA LevelsRanked ==
  ASSUME NEW S, NEW gs \in Seq(S), NEW request, NEW N \in Nat,
         N = Len(rules_groups_cache), Levels(gs, request, N)
  PROVE  \E place \in [1 .. Len(Unique(gs)) -> 1 .. N] :
           Ranked(Unique(gs), place, request)
<1>1. PICK at \in [1 .. Len(gs) -> 1 .. N] : Placed(gs, at, request, N)
  BY DEF Levels
<1>2. PICK k \in Seq(S) : k = Unique(gs)
  BY UniqueFirsts
<1>3. PICK first \in [1 .. Len(k) -> 1 .. Len(gs)] : Firsts(k, first, gs)
  BY <1>2, UniqueFirsts
<1>4. PICK L \in Nat, M \in Nat : L = Len(k) /\ M = Len(gs)
  OBVIOUS
<1>5. PICK place : place = [j \in 1 .. L |-> at[first[j]]]
  OBVIOUS
<1>6. \A j \in 1 .. L : first[j] \in 1 .. M /\ place[j] = at[first[j]] /\ place[j] \in 1 .. N
  BY <1>1, <1>3, <1>4, <1>5
<1>7. place \in [1 .. L -> 1 .. N]
  BY <1>5, <1>6
<1>8. \A j \in 1 .. L : /\ PlainAt(place[j], request) # {}
                        /\ Range(k[j]) = Pairs(PlainAt(place[j], request))
  BY <1>1, <1>3, <1>4, <1>6 DEF Placed, Firsts
<1>9. ASSUME NEW i \in 1 .. L, NEW j \in 1 .. L, i < j
      PROVE  place[i] < place[j]
  <2>1. first[i] < first[j]
    BY <1>3, <1>4, <1>9 DEF Firsts
  <2> QED  BY <1>1, <1>4, <1>6, <2>1 DEF Placed
<1>10. ASSUME NEW g \in 1 .. N, PlainAt(g, request) # {}
       PROVE  \E j \in 1 .. L :
                place[j] <= g /\ Range(k[j]) = Pairs(PlainAt(g, request))
  <2>1. PICK i \in 1 .. M : at[i] = g
    BY <1>1, <1>4, <1>10 DEF Placed
  <2>2. PICK j \in 1 .. L : first[j] <= i /\ k[j] = gs[i]
    BY <1>3, <1>4 DEF Firsts
  <2>3. Range(k[j]) = Pairs(PlainAt(g, request))
    BY <1>1, <1>4, <2>1, <2>2 DEF Placed
  <2>4. place[j] <= g
    <3>1. CASE first[j] = i
      BY <1>6, <2>1, <3>1
    <3>2. CASE first[j] # i
      <4>1. first[j] \in 1 .. M /\ first[j] < i
        BY <1>6, <2>2, <3>2
      <4>2. at[first[j]] < at[i]
        BY <1>1, <1>4, <4>1 DEF Placed
      <4>3. at[first[j]] \in 1 .. N /\ at[i] \in 1 .. N
        BY <1>6, <2>1
      <4> QED  BY <1>6, <2>1, <4>2, <4>3
    <3> QED  BY <3>1, <3>2
  <2> QED  BY <2>3, <2>4
<1>11. Ranked(k, place, request)
  BY <1>4, <1>8, <1>9, <1>10 DEF Ranked
<1> QED  BY <1>2, <1>4, <1>7, <1>11

-----------------------------------------------------------------------------
(* A match, by the rules that apply. *)

(* With InOrder, the fallbacks are last in the cache. *)
LEMMA InvCacheInOrder ==
  ASSUME IInv, InOrder
  PROVE  CacheInOrder
<1> DEFINE c == rules_groups_cache
<1>0. c \in Seq(Seq(RuleSet)) /\ \A r \in RuleSet : RuleOK(r)
  BY CacheKinds, RuleSetOK
<1>1. CASE ~ rebuilt
  <2>1. c = <<in_rules>> /\ FallbacksLast(in_rules)
    BY <1>1, CacheKinds DEF InOrder, FallbacksLast
  <2>2. DOMAIN c = {1} /\ c[1] = in_rules
    BY <2>1
  <2> QED  BY <2>1, <2>2 DEF CacheInOrder
<1>2. CASE rebuilt
  <2>1. PICK rules \in Seq(RuleSet), order \in Seq(Int) :
          Range(rules) = RuleSet /\ Grouped(c, order, rules)
    BY <1>2, CacheKinds
  <2>2. ASSUME NEW g \in DOMAIN c
        PROVE  /\ g \in DOMAIN order
               /\ \A r \in Range(c[g]) :
                    r \in RuleSet /\ r.priority = order[g] /\ RuleOK(r)
    BY <1>0, <2>1 DEF Grouped
  <2>3. \A r, f \in RuleSet :
          IsFallback(f) /\ r.priority = f.priority => IsFallback(r)
    BY <1>2 DEF InOrder
  <2>4. ASSUME NEW g \in DOMAIN c PROVE FallbacksLast(c[g])
    <3>1. \A n \in DOMAIN c[g] : c[g][n] \in Range(c[g])
      BY DEF Range
    <3> QED  BY <2>2, <2>3, <3>1 DEF FallbacksLast
  <2>5. ASSUME NEW g \in DOMAIN c, NEW h \in DOMAIN c, g < h,
               NEW r \in Range(c[g])
        PROVE  ~ IsFallback(r)
    <3>1. order[g] < order[h] /\ order[g] \in Int /\ order[h] \in Int
      BY <2>1, <2>2, <2>5 DEF Grouped
    <3>2. PICK s \in RuleSet : s.priority = order[h]
      <4>1. order[h] \in Range(order)
        BY <2>2 DEF Range
      <4> QED  BY <2>1, <4>1 DEF Grouped
    <3>3. order[h] <= MaxPriority /\ MaxPriority \in Int
      BY <1>0, <3>2, RouterAssumption DEF RuleOK
    <3>4. order[g] # MaxPriority
      BY <3>1, <3>3
    <3> QED  BY <2>2, <3>4 DEF RuleOK
  <2> QED  BY <2>4, <2>5 DEF CacheInOrder
<1> QED  BY <1>1, <1>2

LEMMA PlainIs == \A request : Plain(request) = PlainOf(RuleSet, request)
BY DEF Plain, PlainOf

(* Every rule is in a group. *)
LEMMA CacheParts ==
  ASSUME IInv, NEW request
  PROVE  LET N == Len(rules_groups_cache) IN
         /\ RuleSet = UNION {Range(rules_groups_cache[g]) : g \in 1 .. N}
         /\ Plain(request) = UNION {PlainAt(g, request) : g \in 1 .. N}
         /\ FallbacksOf(RuleSet) =
              UNION {FallbacksOf(Range(rules_groups_cache[g])) : g \in 1 .. N}
<1> DEFINE c == rules_groups_cache
           N == Len(c)
<1>0. c \in Seq(Seq(RuleSet)) /\ DOMAIN c = 1 .. N
  BY CacheKinds
<1>1. RuleSet = UNION {Range(c[g]) : g \in 1 .. N}
  <2>1. CASE ~ rebuilt
    <3>1. c = <<in_rules>> /\ Range(in_rules) = RuleSet
      BY <2>1, CacheKinds
    <3>2. 1 .. N = {1} /\ c[1] = in_rules
      BY <3>1
    <3> QED  BY <3>1, <3>2
  <2>2. CASE rebuilt
    <3>1. PICK rules \in Seq(RuleSet), order \in Seq(Int) :
            Range(rules) = RuleSet /\ Grouped(c, order, rules)
      BY <2>2, CacheKinds
    <3>2. ASSUME NEW r \in RuleSet PROVE \E g \in 1 .. N : r \in Range(c[g])
      <4>1. r.priority \in Range(order)
        BY <3>1 DEF Grouped
      <4>2. PICK g \in DOMAIN order : order[g] = r.priority
        BY <4>1 DEF Range
      <4> QED  BY <1>0, <3>1, <4>2 DEF Grouped
    <3>3. \A g \in 1 .. N : Range(c[g]) \subseteq RuleSet
      BY <1>0, <3>1 DEF Grouped
    <3> QED  BY <3>2, <3>3
  <2> QED  BY <2>1, <2>2
<1>2. Plain(request) = UNION {PlainAt(g, request) : g \in 1 .. N}
  BY <1>1, PlainIs DEF PlainAt, PlainOf
<1>3. FallbacksOf(RuleSet) = UNION {FallbacksOf(Range(c[g])) : g \in 1 .. N}
  BY <1>1 DEF FallbacksOf
<1> QED  BY <1>1, <1>2, <1>3

(* Once built, in the group of its priority. *)
Prioritized(order, request) ==
  LET N == Len(rules_groups_cache) IN
  /\ \A g \in 1 .. N : order[g] \in Int
  /\ \A g, h \in 1 .. N : g < h => order[g] < order[h]
  /\ \A g \in 1 .. N :
       PlainAt(g, request) = {r \in Plain(request) : r.priority = order[g]}

(* Groups are in the order of their priorities. *)
LEMMA CachePriorities ==
  ASSUME IInv, rebuilt, NEW request
  PROVE  \E order : Prioritized(order, request)
<1> DEFINE c == rules_groups_cache
           N == Len(c)
<1>0. c \in Seq(Seq(RuleSet)) /\ DOMAIN c = 1 .. N
  BY CacheKinds
<1>1. PICK rules \in Seq(RuleSet), order \in Seq(Int) :
        Range(rules) = RuleSet /\ Grouped(c, order, rules)
  BY CacheKinds
<1>2. DOMAIN order = 1 .. N /\ \A g \in 1 .. N : order[g] \in Int
  BY <1>0, <1>1 DEF Grouped
<1>3. \A g, h \in 1 .. N : g < h => order[g] < order[h]
  BY <1>1, <1>2 DEF Grouped
<1>4. ASSUME NEW g \in 1 .. N
      PROVE  PlainAt(g, request) = {r \in Plain(request) : r.priority = order[g]}
  <2>1. Range(c[g]) = {r \in RuleSet : r.priority = order[g]}
    BY <1>0, <1>1 DEF Grouped
  <2> QED  BY <2>1, PlainIs DEF PlainAt, PlainOf
<1> QED  BY <1>2, <1>3, <1>4 DEF Prioritized

(* A match has a group for each group of rules that applies, less the      *)
(* repetitions; when only a fallback applies, its labels.                  *)
LEMMA MatchIs ==
  ASSUME IInv, InOrder, NEW request
  PROVE  /\ Match(request) \in Seq(Seq(Pairs(RuleSet)))
         /\ IF Plain(request) = {} /\ FallbacksOf(RuleSet) # {}
            THEN \E r \in FallbacksOf(RuleSet) : Match(request) = <<Tagged(r)>>
            ELSE \E place \in [1 .. Len(Match(request)) ->
                               1 .. Len(rules_groups_cache)] :
                   Ranked(Match(request), place, request)
<1>0. /\ rules_groups_cache \in Seq(Seq(RuleSet)) /\ CacheInOrder
      /\ \A r \in RuleSet : RuleOK(r)
  BY CacheKinds, RuleSetOK, InvCacheInOrder
<1>1. PICK N \in Nat : N = Len(rules_groups_cache)
  BY <1>0
<1>2. PICK gs \in Seq(Seq(Pairs(RuleSet))) :
        /\ Match(request) = Unique(gs)
        /\ IF \/ \E g \in 1 .. N : PlainAt(g, request) # {}
              \/ \A g \in 1 .. N : FallbacksOf(Range(rules_groups_cache[g])) = {}
           THEN Levels(gs, request, N)
           ELSE \E g \in 1 .. N :
                  \E r \in FallbacksOf(Range(rules_groups_cache[g])) :
                    gs = <<Tagged(r)>>
  BY <1>0, <1>1, MatchShape
<1>3. /\ Plain(request) = UNION {PlainAt(g, request) : g \in 1 .. N}
      /\ FallbacksOf(RuleSet) =
           UNION {FallbacksOf(Range(rules_groups_cache[g])) : g \in 1 .. N}
  BY <1>1, CacheParts
<1>4. Match(request) \in Seq(Seq(Pairs(RuleSet)))
  BY <1>2, UniqueFirsts
<1>5. CASE Plain(request) = {} /\ FallbacksOf(RuleSet) # {}
  <2>1. PICK r \in FallbacksOf(RuleSet) : gs = <<Tagged(r)>>
    <3>1. \A g \in 1 .. N : PlainAt(g, request) = {}
      <4> SUFFICES ASSUME NEW g \in 1 .. N, NEW r \in PlainAt(g, request)
                   PROVE  FALSE
        OBVIOUS
      <4>1. r \in Plain(request)
        BY <1>3
      <4> QED  BY <1>5, <4>1
    <3>2. PICK r \in FallbacksOf(RuleSet) : TRUE
      BY <1>5
    <3>3. PICK g \in 1 .. N : r \in FallbacksOf(Range(rules_groups_cache[g]))
      BY <1>3, <3>2
    <3>4. ~ \A h \in 1 .. N : FallbacksOf(Range(rules_groups_cache[h])) = {}
      BY <3>3
    <3>5. PICK h \in 1 .. N :
            \E s \in FallbacksOf(Range(rules_groups_cache[h])) : gs = <<Tagged(s)>>
      BY <1>2, <3>1, <3>4
    <3> QED  BY <1>3, <3>5
  <2>2. Unique(gs) = <<Tagged(r)>>
    BY <2>1, UniqueOne
  <2> QED  BY <1>2, <1>4, <1>5, <2>1, <2>2
<1>6. CASE ~ (Plain(request) = {} /\ FallbacksOf(RuleSet) # {})
  <2>1. Levels(gs, request, N)
    BY <1>2, <1>3, <1>6
  <2>2. \E place \in [1 .. Len(Unique(gs)) -> 1 .. N] :
          Ranked(Unique(gs), place, request)
    BY <1>1, <2>1, LevelsRanked
  <2> QED  BY <1>1, <1>2, <1>4, <1>6, <2>2
<1> QED  BY <1>5, <1>6

(* The rules that apply. *)
LEMMA EffectiveIs ==
  \A request :
    Effective(request) = IF Plain(request) # {} THEN Plain(request)
                         ELSE FallbacksOf(RuleSet)
BY DEF Effective, FallbacksOf

(* All the labels of a match. *)
LEMMA MatchPairs ==
  ASSUME IInv, InOrder, NEW request,
         ~ (Plain(request) = {} /\ FallbacksOf(RuleSet) # {})
  PROVE  UNION {Range(Match(request)[g]) : g \in DOMAIN Match(request)}
           = Pairs(Plain(request))
<1> DEFINE groups == Match(request)
           N == Len(rules_groups_cache)
<1>1. PICK place \in [1 .. Len(groups) -> 1 .. N] : Ranked(groups, place, request)
  BY MatchIs
<1>2. groups \in Seq(Seq(Pairs(RuleSet)))
  BY MatchIs
<1>3. PICK L \in Nat : L = Len(groups) /\ DOMAIN groups = 1 .. L
  BY <1>2
<1>4. Plain(request) = UNION {PlainAt(g, request) : g \in 1 .. N}
  BY CacheParts
<1>5. ASSUME NEW j \in 1 .. L
      PROVE  Range(groups[j]) \subseteq Pairs(Plain(request))
  <2>1. PlainAt(place[j], request) \subseteq Plain(request)
    BY <1>1, <1>3, <1>4
  <2>2. Range(groups[j]) = Pairs(PlainAt(place[j], request))
    BY <1>1, <1>3 DEF Ranked
  <2> QED  BY <2>1, <2>2, PairsMonotonic
<1>6. ASSUME NEW x \in Pairs(Plain(request))
      PROVE  \E j \in 1 .. L : x \in Range(groups[j])
  <2>1. PICK r \in Plain(request) : x \in Pairs({r})
    BY DEF Pairs
  <2>2. PICK g \in 1 .. N : r \in PlainAt(g, request)
    BY <1>4
  <2>3. PICK j \in 1 .. L : Range(groups[j]) = Pairs(PlainAt(g, request))
    BY <1>1, <1>3, <2>2 DEF Ranked
  <2>4. x \in Pairs(PlainAt(g, request))
    BY <2>1, <2>2, PairsMonotonic
  <2> QED  BY <2>3, <2>4
<1> QED  BY <1>3, <1>5, <1>6

(* Hence matching follows the rules. *)
LEMMA InvMatchFollowsRules == IInv => MatchFollowsRules
<1> SUFFICES ASSUME IInv, InOrder, NEW request \in Requests
             PROVE  LET groups == Match(request)
                        levels == {r.priority : r \in Effective(request)}
                        AtLevel(p) == Pairs({r \in Effective(request) : r.priority = p})
                        First(p) == \A q \in levels : q < p => AtLevel(q) # AtLevel(p)
                        Position(p) ==
                          Min({g \in DOMAIN groups : GroupSet(groups[g]) = AtLevel(p)})
                    IN IF \E r \in Effective(request) : IsFallback(r)
                       THEN \E r \in Effective(request) : groups = <<Tagged(r)>>
                       ELSE /\ UNION {GroupSet(groups[g]) : g \in DOMAIN groups} =
                                 Pairs(Effective(request))
                            /\ rebuilt => \A p, q \in {l \in levels : First(l)} :
                                            p < q => Position(p) < Position(q)
  BY DEF MatchFollowsRules
<1> DEFINE groups == Match(request)
           levels == {r.priority : r \in Effective(request)}
           AtLevel(p) == Pairs({r \in Effective(request) : r.priority = p})
           Places(p) == {g \in DOMAIN groups : GroupSet(groups[g]) = AtLevel(p)}
           Earliest(p) == \A q \in levels : q < p => AtLevel(q) # AtLevel(p)
<1>1. /\ groups \in Seq(Seq(Pairs(RuleSet)))
      /\ IF Plain(request) = {} /\ FallbacksOf(RuleSet) # {}
         THEN \E r \in FallbacksOf(RuleSet) : groups = <<Tagged(r)>>
         ELSE \E place \in [1 .. Len(groups) -> 1 .. Len(rules_groups_cache)] :
                Ranked(groups, place, request)
  BY MatchIs
<1>2. PICK L \in Nat : L = Len(groups) /\ DOMAIN groups = 1 .. L
  BY <1>1
<1>3. PICK N : N = Len(rules_groups_cache)
  OBVIOUS
<1>4. (\E r \in Effective(request) : IsFallback(r)) <=>
         Plain(request) = {} /\ FallbacksOf(RuleSet) # {}
  BY EffectiveIs DEF Plain, FallbacksOf
<1>5. CASE Plain(request) = {} /\ FallbacksOf(RuleSet) # {}
  <2>1. \E r \in Effective(request) : groups = <<Tagged(r)>>
    BY <1>1, <1>5, EffectiveIs
  <2> QED  BY <1>1, <1>4, <1>5, <2>1
<1>6. CASE ~ (Plain(request) = {} /\ FallbacksOf(RuleSet) # {})
  <2>1. Effective(request) = Plain(request)
    BY <1>6, EffectiveIs
  <2>2. PICK place \in [1 .. L -> 1 .. N] : Ranked(groups, place, request)
    BY <1>1, <1>2, <1>3, <1>6
  <2>3. N \in Nat
    BY <1>3, CacheKinds
  <2>4. \A j \in 1 .. L : GroupSet(groups[j]) = Pairs(PlainAt(place[j], request))
    BY <1>2, <2>2 DEF Ranked, GroupSet, Range
  <2>5. UNION {GroupSet(groups[g]) : g \in 1 .. L} = Pairs(Plain(request))
    <3>1. UNION {Range(groups[g]) : g \in DOMAIN groups} = Pairs(Plain(request))
      BY <1>6, MatchPairs
    <3> QED  BY <1>2, <3>1 DEF Range, GroupSet
  <2>6. ASSUME rebuilt, NEW p \in levels, NEW q \in levels,
               Earliest(p), Earliest(q), p < q
        PROVE  Min(Places(p)) < Min(Places(q))
    <3>0. PICK order : Prioritized(order, request)
      BY <2>6, CachePriorities
    <3>1. /\ \A g \in 1 .. N : order[g] \in Int
          /\ \A g, h \in 1 .. N : g < h => order[g] < order[h]
          /\ \A g \in 1 .. N : PlainAt(g, request) =
               {r \in Plain(request) : r.priority = order[g]}
      BY <1>3, <3>0 DEF Prioritized
    <3>2. \A g \in 1 .. N : Pairs(PlainAt(g, request)) = AtLevel(order[g])
      BY <2>1, <3>1
    <3>3. ASSUME NEW l \in levels
          PROVE  \E g \in 1 .. N : order[g] = l /\ PlainAt(g, request) # {}
      <4>1. PICK r \in Plain(request) : r.priority = l
        BY <2>1
      <4>2. PICK g \in 1 .. N : r \in PlainAt(g, request)
        BY <1>3, CacheParts
      <4> QED  BY <3>1, <4>1, <4>2
    <3>4. \A g \in 1 .. N : PlainAt(g, request) # {} => order[g] \in levels
      BY <2>1, <3>1
    <3>5. ASSUME NEW l \in levels, Earliest(l), NEW g \in 1 .. N, order[g] = l,
                 NEW j \in Places(l)
          PROVE  place[j] >= g
      <4>1. j \in 1 .. L /\ place[j] \in 1 .. N
        BY <1>2, <2>2
      <4>2. AtLevel(order[place[j]]) = AtLevel(l) /\ PlainAt(place[j], request) # {}
        BY <1>2, <2>2, <2>4, <3>2, <4>1 DEF Ranked
      <4>3. ~ order[place[j]] < order[g]
        BY <3>4, <3>5, <4>1, <4>2
      <4> HIDE DEF Places, AtLevel
      <4> QED  BY <2>3, <3>1, <4>1, <4>3
    <3>6. ASSUME NEW l \in levels, Earliest(l), NEW g \in 1 .. N, order[g] = l,
                 PlainAt(g, request) # {}
          PROVE  \E j \in Places(l) : place[j] = g
      <4>1. PICK j \in 1 .. L :
              place[j] <= g /\ Range(groups[j]) = Pairs(PlainAt(g, request))
        BY <1>2, <1>3, <2>2, <3>6 DEF Ranked
      <4>2. j \in Places(l)
        BY <1>2, <3>2, <3>6, <4>1 DEF Range, GroupSet
      <4>3. place[j] >= g
        <5> HIDE DEF Places, Earliest
        <5> QED  BY <3>5, <3>6, <4>2
      <4>4. place[j] = g
        <5> HIDE DEF Places, AtLevel
        <5> QED  BY <2>2, <2>3, <4>1, <4>3
      <4> QED  BY <4>2, <4>4
    <3> HIDE DEF Places, Earliest, AtLevel, levels
    <3>7. PICK a \in 1 .. N : order[a] = p /\ PlainAt(a, request) # {}
      BY <3>3
    <3>8. PICK b \in 1 .. N : order[b] = q /\ PlainAt(b, request) # {}
      BY <3>3
    <3>9. a < b
      BY <2>3, <2>6, <3>1, <3>7, <3>8
    <3>10. PICK i \in Places(p) : place[i] = a
      BY <2>6, <3>6, <3>7
    <3>11. PICK j \in Places(q) : j = Min(Places(q))
      <4>1. Places(q) # {}
        BY <2>6, <3>6, <3>8
      <4>2. Places(q) \in SUBSET Nat
        BY <1>2 DEF Places
      <4> QED  BY <4>1, <4>2, MinOf
    <3>12. Min(Places(p)) <= i /\ Min(Places(p)) \in Nat
      <4>1. Places(p) \in SUBSET Nat
        BY <1>2 DEF Places
      <4> QED  BY <3>10, <4>1, MinOf
    <3>13. i \in 1 .. L /\ j \in 1 .. L
      BY <1>2 DEF Places
    <3>14. place[j] >= b
      BY <2>6, <3>5, <3>8
    <3>15. i < j
      <4>1. CASE j < i
        <5>1. place[j] < place[i]
          BY <1>2, <2>2, <3>13, <4>1 DEF Ranked
        <5> QED  BY <2>2, <3>9, <3>10, <3>13, <3>14, <5>1
      <4>2. CASE i = j
        BY <3>9, <3>10, <3>14, <4>2
      <4> QED  BY <3>13, <4>1, <4>2
    <3> QED  BY <3>11, <3>12, <3>13, <3>15
  <2>7. /\ UNION {GroupSet(groups[g]) : g \in DOMAIN groups} = Pairs(Effective(request))
        /\ rebuilt => \A p, q \in {l \in levels : Earliest(l)} :
                        p < q => Min(Places(p)) < Min(Places(q))
    <3> HIDE DEF Places, Earliest, levels
    <3> QED  BY <1>2, <2>1, <2>5, <2>6
  <2> QED  BY <1>1, <1>4, <1>6, <2>7
<1> QED  BY <1>5, <1>6

(* Matching a destination yields the labels of the rules that apply to it, *)
(* a fallback's only when no other rule does, in the order of the          *)
(* priorities once the cache has been built (Router::match).               *)
THEOREM MatchingFollowsRules == Spec => []MatchFollowsRules
BY Invariance, InvMatchFollowsRules, PTL

-----------------------------------------------------------------------------
(* Selection: one group of labels. *)

(* The labels and tags of X that name a tunnel that can be had, or DIRECT, *)
(* and those that any tunnel will do for.                                  *)
NamedIn(X, active) ==
  {p \in X : p.label \notin {PROXY, ANY} /\ Serves(p.label, active)}
AnyoneIn(X) == {p \in X : p.label \in {PROXY, ANY}}
Answers(X, active) == \E p \in X : Serves(p.label, active)

(* What X asks for. *)
Named(selected, p, active) ==
  /\ selected.tag = p.tag
  /\ IF p.label = DIRECT THEN selected.tunnel = DIRECT
     ELSE /\ selected.tunnel \in active
          /\ p.label \in LabelsOf(selected.tunnel)
Anyone(selected, p, active) ==
  selected.tag = p.tag /\ selected.tunnel \in active

Chosen(selected, X, active) ==
  IF NamedIn(X, active) # {}
  THEN \E p \in NamedIn(X, active) : Named(selected, p, active)
  ELSE IF AnyoneIn(X) # {} /\ active # {}
  THEN \E p \in AnyoneIn(X) : Anyone(selected, p, active)
  ELSE selected = Nothing

(* A tunnel can be had for a label if an active one carries it. *)
LEMMA Carries ==
  ASSUME IInv, NEW active \in SUBSET tunnel_map, NEW label
  PROVE  /\ HasTunnel(label, active) <=> \E t \in active : label \in LabelsOf(t)
         /\ HasTunnel(PROXY, active) <=> active # {}
         /\ HasTunnel(label, active) => \A n \in Nat :
              /\ SelectFromTunnels(label, active, n) \in active
              /\ label \in LabelsOf(SelectFromTunnels(label, active, n))
<1>1. active \subseteq Tunnels /\ None \notin active
  BY NamesAssumption DEF IInv
<1>2. ASSUME NEW l, NEW t \in active, l \in LabelsOf(t) PROVE l \in Labels
  <2>1. OutOf[t] \in Outs /\ t \in Tunnels
    BY <1>1, RouterAssumption
  <2> QED  BY <1>2, <2>1 DEF LabelsOf, Labels
<1>3. ASSUME NEW l \in Labels, NEW n \in Nat
      PROVE  IF {t \in active : l \in LabelsOf(t)} = {}
             THEN SelectFromTunnels(l, active, n) = None
             ELSE SelectFromTunnels(l, active, n) \in {t \in active : l \in LabelsOf(t)}
  BY SelectedTunnel DEF Best
<1>4. ASSUME NEW l
      PROVE  HasTunnel(l, active) <=> \E t \in active : l \in LabelsOf(t)
  <2>1. CASE l \notin Labels
    BY <1>2, <2>1 DEF HasTunnel
  <2>2. CASE l \in Labels
    <3>1. 0 \in Nat
      OBVIOUS
    <3> QED  BY <1>1, <1>3, <2>2, <3>1 DEF HasTunnel
  <2> QED  BY <2>1, <2>2
<1>5. HasTunnel(PROXY, active) <=> active # {}
  BY <1>4 DEF LabelsOf
<1>6. ASSUME HasTunnel(label, active), NEW n \in Nat
      PROVE  /\ SelectFromTunnels(label, active, n) \in active
             /\ label \in LabelsOf(SelectFromTunnels(label, active, n))
  <2>1. label \in Labels /\ {t \in active : label \in LabelsOf(t)} # {}
    BY <1>4, <1>6 DEF HasTunnel
  <2> QED  BY <1>3, <2>1
<1> QED  BY <1>4, <1>5, <1>6

(* select_tunnel's choice within one group. *)
LEMMA SelectedInGroup ==
  ASSUME IInv, NEW active \in SUBSET tunnel_map, NEW index \in Nat,
         NEW S, NEW labels \in Seq(S)
  PROVE  Chosen(SelectInGroup(labels, active, index), Range(labels), active)
<1> DEFINE X == Range(labels)
           selected == SelectInGroup(labels, active, index)
<1>0. PICK L \in Nat : L = Len(labels) /\ DOMAIN labels = 1 .. L
  OBVIOUS
<1>1. X = {labels[n] : n \in 1 .. L}
  BY <1>0 DEF Range
<1>2. PICK deciding :
        deciding = {n \in DOMAIN labels :
                      \/ labels[n].label = DIRECT
                      \/ /\ IsCustom(labels[n].label)
                         /\ HasTunnel(labels[n].label, active)}
  OBVIOUS
<1>3. PICK proxying :
        proxying = {n \in DOMAIN labels : labels[n].label \in {PROXY, ANY}}
  OBVIOUS
<1>4. selected =
        IF deciding # {}
        THEN Selected(IF labels[Min(deciding)].label = DIRECT THEN DIRECT
                      ELSE SelectFromTunnels(labels[Min(deciding)].label,
                                             active, index),
                      labels[Min(deciding)].tag)
        ELSE IF proxying # {} /\ HasTunnel(PROXY, active)
        THEN Selected(SelectFromTunnels(PROXY, active, index),
                      labels[Min(proxying)].tag)
        ELSE Nothing
  BY <1>2, <1>3 DEF SelectInGroup
<1>5. ASSUME NEW n \in 1 .. L
      PROVE  n \in deciding <=> labels[n] \in NamedIn(X, active)
  <2>1. HasTunnel(labels[n].label, active) <=>
          \E t \in active : labels[n].label \in LabelsOf(t)
    BY Carries
  <2> QED  BY <1>0, <1>1, <1>2, <2>1, NamesAssumption
           DEF NamedIn, Serves, IsCustom
<1>6. deciding \in SUBSET Nat /\ deciding \subseteq 1 .. L
  BY <1>0, <1>2
<1>7. proxying \in SUBSET Nat /\ proxying \subseteq 1 .. L
  BY <1>0, <1>3
<1>8. \A n \in 1 .. L : n \in proxying <=> labels[n] \in AnyoneIn(X)
  BY <1>0, <1>1, <1>3 DEF AnyoneIn
<1>9. deciding = {} <=> NamedIn(X, active) = {}
  BY <1>1, <1>5, <1>6 DEF NamedIn
<1>10. proxying = {} <=> AnyoneIn(X) = {}
  BY <1>1, <1>7, <1>8 DEF AnyoneIn
<1> HIDE DEF Chosen, X, selected
<1>11. CASE deciding # {}
  <2>1. PICK m \in deciding : m = Min(deciding)
    BY <1>6, <1>11, MinOf
  <2>2. PICK p : p = labels[m]
    OBVIOUS
  <2>3. p \in NamedIn(X, active) /\ m \in 1 .. L
    BY <1>5, <1>6, <2>1, <2>2
  <2>4. selected = Selected(IF p.label = DIRECT THEN DIRECT
                            ELSE SelectFromTunnels(p.label, active, index), p.tag)
    BY <1>4, <1>11, <2>1, <2>2
  <2>5. p.label # DIRECT => HasTunnel(p.label, active)
    BY <1>2, <2>1, <2>2
  <2>6. p.label # DIRECT =>
          /\ SelectFromTunnels(p.label, active, index) \in active
          /\ p.label \in LabelsOf(SelectFromTunnels(p.label, active, index))
    BY <2>5, Carries
  <2>7. Named(selected, p, active)
    BY <2>4, <2>6 DEF Named, Selected
  <2> QED  BY <1>9, <1>11, <2>3, <2>7 DEF Chosen, X, selected
<1>12. CASE deciding = {} /\ proxying # {} /\ active # {}
  <2>1. PICK m \in proxying : m = Min(proxying)
    BY <1>7, <1>12, MinOf
  <2>2. PICK p : p = labels[m]
    OBVIOUS
  <2>3. p \in AnyoneIn(X)
    BY <1>7, <1>8, <2>1, <2>2
  <2>4. HasTunnel(PROXY, active)
    BY <1>12, Carries
  <2>5. selected = Selected(SelectFromTunnels(PROXY, active, index), p.tag)
    BY <1>4, <1>12, <2>1, <2>2, <2>4
  <2>6. SelectFromTunnels(PROXY, active, index) \in active
    BY <2>4, Carries
  <2>7. Anyone(selected, p, active)
    BY <2>5, <2>6 DEF Anyone, Selected
  <2> QED  BY <1>9, <1>10, <1>12, <2>3, <2>7 DEF Chosen, X, selected
<1>13. CASE deciding = {} /\ (proxying = {} \/ active = {})
  <2>1. ~ (proxying # {} /\ HasTunnel(PROXY, active))
    BY <1>13, Carries
  <2>2. selected = Nothing
    BY <1>4, <1>13, <2>1
  <2> QED  BY <1>9, <1>10, <1>13, <2>2 DEF Chosen, X, selected
<1> QED  BY <1>11, <1>12, <1>13

(* A group gives a tunnel if one of its labels can be served. *)
LEMMA GroupAnswers ==
  ASSUME IInv, NEW active \in SUBSET tunnel_map, NEW index \in Nat,
         NEW S, NEW labels \in Seq(S)
  PROVE  SelectInGroup(labels, active, index).tunnel # None
           <=> Answers(Range(labels), active)
<1>1. PICK X, selected : X = Range(labels) /\ selected = SelectInGroup(labels, active, index)
  OBVIOUS
<1>2. Chosen(selected, X, active)
  BY <1>1, SelectedInGroup
<1>3. None \notin active /\ DIRECT # None
  BY NamesAssumption DEF IInv
<1>4. Nothing.tunnel = None
  BY DEF Nothing, Selected
<1>5. Answers(X, active) <=> NamedIn(X, active) # {} \/ (AnyoneIn(X) # {} /\ active # {})
  BY NamesAssumption DEF Answers, NamedIn, AnyoneIn, Serves, IsCustom
<1>6. selected.tunnel # None <=> Answers(X, active)
  BY <1>2, <1>3, <1>4, <1>5 DEF Chosen, Named, Anyone
<1> QED  BY <1>1, <1>6

(* All groups: the first that answers decides. *)
FirstAnswering(groups, m, active) ==
  /\ m \in DOMAIN groups /\ Answers(Range(groups[m]), active)
  /\ \A g \in DOMAIN groups : Answers(Range(groups[g]), active) => m <= g

Unanswered(selected, X) ==
  IF {p \in X : p.label = ANY} # {}
  THEN \E p \in {p \in X : p.label = ANY} : selected = Selected(DIRECT, p.tag)
  ELSE selected = Nothing

(* Its choice among all groups. *)
LEMMA SelectedTunnelOfGroups ==
  ASSUME IInv, NEW active \in SUBSET tunnel_map, NEW index \in Nat,
         NEW S, NEW groups \in Seq(Seq(S))
  PROVE  IF \E g \in DOMAIN groups : Answers(Range(groups[g]), active)
         THEN \E m : /\ FirstAnswering(groups, m, active)
                     /\ Chosen(SelectTunnel(groups, active, index),
                               Range(groups[m]), active)
         ELSE Unanswered(SelectTunnel(groups, active, index),
                         UNION {Range(groups[g]) : g \in DOMAIN groups})
<1>0. PICK L \in Nat : L = Len(groups) /\ DOMAIN groups = 1 .. L
  OBVIOUS
<1>1. PICK answering :
        answering =
          {g \in DOMAIN groups :
             SelectInGroup(groups[g], active, index).tunnel # None}
  OBVIOUS
<1>2. PICK all : all = FlattenSeq(groups)
  OBVIOUS
<1>3. PICK any : any = {n \in DOMAIN all : all[n].label = ANY}
  OBVIOUS
<1>4. SelectTunnel(groups, active, index) =
        IF answering # {}
        THEN SelectInGroup(groups[Min(answering)], active, index)
        ELSE IF any # {} THEN Selected(DIRECT, all[Max(any)].tag)
        ELSE Nothing
  BY <1>1, <1>2, <1>3 DEF SelectTunnel
<1>5. ASSUME NEW g \in 1 .. L
      PROVE  g \in answering <=> Answers(Range(groups[g]), active)
  <2>1. groups[g] \in Seq(S)
    BY <1>0
  <2>2. SelectInGroup(groups[g], active, index).tunnel # None
          <=> Answers(Range(groups[g]), active)
    BY <2>1, GroupAnswers
  <2> QED  BY <1>0, <1>1, <2>2
<1>6. answering \in SUBSET Nat /\ answering \subseteq 1 .. L
  BY <1>0, <1>1
<1>7. CASE answering # {}
  <2>1. PICK m \in answering : m = Min(answering) /\ \A g \in answering : m <= g
    BY <1>6, <1>7, MinOf
  <2>2. m \in 1 .. L
    BY <1>6
  <2>3. FirstAnswering(groups, m, active)
    BY <1>0, <1>5, <2>1, <2>2 DEF FirstAnswering
  <2>4. SelectTunnel(groups, active, index) = SelectInGroup(groups[m], active, index)
    BY <1>4, <1>7, <2>1
  <2>5. Chosen(SelectInGroup(groups[m], active, index), Range(groups[m]), active)
    <3>1. groups[m] \in Seq(S)
      BY <1>0, <2>2
    <3> QED  BY <3>1, SelectedInGroup
  <2> QED  BY <2>3, <2>4, <2>5 DEF FirstAnswering
<1>8. CASE answering = {}
  <2>1. ~ \E g \in DOMAIN groups : Answers(Range(groups[g]), active)
    BY <1>0, <1>5, <1>8
  <2>2. PICK X : X = UNION {Range(groups[g]) : g \in DOMAIN groups}
    OBVIOUS
  <2>3. all \in Seq(S) /\ Range(all) = X
    BY <1>2, <2>2, FlattenRange
  <2>4. PICK N \in Nat : N = Len(all) /\ DOMAIN all = 1 .. N
    BY <2>3
  <2>5. X = {all[n] : n \in 1 .. N}
    BY <2>3, <2>4 DEF Range
  <2>6. CASE any # {}
    <3>1. any \in SUBSET Int /\ IsFiniteSet(any)
      <4>1. IsFiniteSet(1 .. N)
        BY FS_Interval
      <4>2. any \in SUBSET (1 .. N) /\ any \in SUBSET Int
        BY <1>3, <2>4
      <4> QED  BY <4>1, <4>2, FS_Subset
    <3>2. PICK n \in any : n = Max(any)
      BY <2>6, <3>1, MaxOf
    <3>3. all[n] \in {p \in X : p.label = ANY}
      BY <1>3, <2>4, <2>5, <3>2
    <3>4. SelectTunnel(groups, active, index) = Selected(DIRECT, all[n].tag)
      BY <1>4, <1>8, <2>6, <3>2
    <3>5. Unanswered(SelectTunnel(groups, active, index), X)
      BY <3>3, <3>4 DEF Unanswered
    <3> QED  BY <2>1, <2>2, <3>5
  <2>7. CASE any = {}
    <3>1. {p \in X : p.label = ANY} = {}
      BY <1>3, <2>4, <2>5, <2>7
    <3>2. Unanswered(SelectTunnel(groups, active, index), X)
      BY <1>4, <1>8, <2>7, <3>1 DEF Unanswered
    <3> QED  BY <2>1, <2>2, <3>2
  <2> QED  BY <2>6, <2>7
<1> QED  BY <1>7, <1>8

(* The rules that can be served, and the selection that is right for them. *)
Served(rules, active) ==
  {r \in rules : \E l \in LabelSet(r) : Serves(l, active)}

(* A pair comes from a rule; pairs can be served if some rule can. *)
LEMMA PairsOf ==
  ASSUME NEW A, NEW p \in Pairs(A)
  PROVE  \E r \in A : p \in Pairs({r}) /\ p.label \in LabelSet(r)
<1>1. PICK r \in A : p \in {[label |-> l, tag |-> r.tag] : l \in LabelSet(r)}
  BY DEF Pairs
<1>2. p \in Pairs({r})
  BY <1>1 DEF Pairs
<1>3. PICK l \in LabelSet(r) : p = [label |-> l, tag |-> r.tag]
  BY <1>1
<1>4. p.label \in LabelSet(r)
  BY <1>3
<1> QED  BY <1>2, <1>4

LEMMA ServedAnswers ==
  ASSUME NEW A, NEW active
  PROVE  Answers(Pairs(A), active) <=> Served(A, active) # {}
<1>1. ASSUME NEW r \in Served(A, active) PROVE Answers(Pairs(A), active)
  <2>1. PICK l \in LabelSet(r) : Serves(l, active)
    BY DEF Served
  <2>2. PICK p : p = [label |-> l, tag |-> r.tag]
    OBVIOUS
  <2>3. p \in Pairs(A) /\ p.label = l
    BY <2>2 DEF Pairs, Served
  <2> QED  BY <2>1, <2>3 DEF Answers
<1>2. ASSUME NEW p \in Pairs(A), Serves(p.label, active)
      PROVE  Served(A, active) # {}
  BY <1>2, PairsOf DEF Served
<1> QED  BY <1>1, <1>2 DEF Answers

RightChoice(selected, rules, best, active) ==
  IF NamedIn(Pairs(best), active) # {}
  THEN \E p \in NamedIn(Pairs(best), active) : Named(selected, p, active)
  ELSE IF Served(rules, active) # {}
  THEN \E p \in AnyoneIn(Pairs(best)) : Anyone(selected, p, active)
  ELSE Unanswered(selected, Pairs(rules))

(* The first group that answers has the labels of the best rules, and      *)
(* besides them only labels that cannot be served.                         *)
LEMMA SelectionIs ==
  ASSUME IInv, NEW active \in SUBSET tunnel_map, NEW index \in Nat,
         NEW S, NEW groups \in Seq(Seq(S)), NEW rules, NEW best,
         UNION {Range(groups[g]) : g \in DOMAIN groups} = Pairs(rules),
         best \subseteq Served(rules, active),
         \A m : FirstAnswering(groups, m, active) =>
           \E A : Range(groups[m]) = Pairs(A) /\ best = Served(A, active)
  PROVE  RightChoice(SelectTunnel(groups, active, index), rules, best, active)
<1>0. PICK selected : selected = SelectTunnel(groups, active, index)
  OBVIOUS
<1>1. (\E g \in DOMAIN groups : Answers(Range(groups[g]), active))
        <=> Served(rules, active) # {}
  <2>1. (\E g \in DOMAIN groups : Answers(Range(groups[g]), active))
          <=> Answers(Pairs(rules), active)
    BY DEF Answers
  <2> QED  BY <2>1, ServedAnswers
<1>2. CASE Served(rules, active) = {}
  <2>1. Unanswered(selected, Pairs(rules))
    <3>1. ~ \E g \in DOMAIN groups : Answers(Range(groups[g]), active)
      BY <1>1, <1>2
    <3>2. Unanswered(SelectTunnel(groups, active, index),
                     UNION {Range(groups[g]) : g \in DOMAIN groups})
      BY <3>1, SelectedTunnelOfGroups
    <3> QED  BY <1>0, <3>2
  <2>2. NamedIn(Pairs(best), active) = {}
    BY <1>2 DEF NamedIn, Pairs
  <2> QED  BY <1>0, <1>2, <2>1, <2>2 DEF RightChoice
<1>3. CASE Served(rules, active) # {}
  <2>1. PICK m : /\ FirstAnswering(groups, m, active)
                 /\ Chosen(selected, Range(groups[m]), active)
    BY <1>0, <1>1, <1>3, SelectedTunnelOfGroups
  <2>2. PICK A : Range(groups[m]) = Pairs(A) /\ best = Served(A, active)
    BY <2>1
  <2>3. ASSUME NEW p \in Pairs(A), Serves(p.label, active)
        PROVE  p \in Pairs(best)
    <3>1. PICK r \in A : p \in Pairs({r}) /\ p.label \in LabelSet(r)
      BY PairsOf
    <3>2. r \in best
      BY <2>2, <2>3, <3>1 DEF Served
    <3> QED  BY <3>1, <3>2, PairsMonotonic
  <2>4. Pairs(best) \subseteq Pairs(A)
    BY <2>2, PairsMonotonic DEF Served
  <2>5. NamedIn(Pairs(A), active) = NamedIn(Pairs(best), active)
    BY <2>3, <2>4 DEF NamedIn
  <2>6. CASE NamedIn(Pairs(A), active) # {}
    BY <1>0, <2>1, <2>2, <2>5, <2>6 DEF Chosen, RightChoice
  <2>7. CASE NamedIn(Pairs(A), active) = {}
    <3>1. PICK p \in Pairs(A) : Serves(p.label, active)
      BY <2>1, <2>2 DEF FirstAnswering, Answers
    <3>2. p.label \in {PROXY, ANY}
      BY <2>7, <3>1 DEF NamedIn
    <3>3. active # {} /\ p \in AnyoneIn(Pairs(A))
      BY <3>1, <3>2, NamesAssumption DEF Serves, IsCustom, AnyoneIn
    <3>4. PICK q \in AnyoneIn(Pairs(A)) : Anyone(selected, q, active)
      BY <2>1, <2>2, <2>7, <3>3 DEF Chosen
    <3>5. q \in AnyoneIn(Pairs(best))
      BY <2>3, <3>3, <3>4 DEF AnyoneIn, Serves
    <3> QED  BY <1>0, <1>3, <2>5, <2>7, <3>4, <3>5 DEF RightChoice
  <2> QED  BY <2>6, <2>7
<1> QED  BY <1>2, <1>3

(* The rules that a match stands for, and the best of those served. *)
RulesOf(request) ==
  {r \in Effective(request) :
     IsFallback(r) => Match(request) = <<Tagged(r)>>}

BestOf(rules, active) ==
  {r \in Served(rules, active) :
     rebuilt => \A s \in Served(rules, active) : r.priority <= s.priority}

(* The choice is right when a fallback applies, *)
LEMMA FallbackChoice ==
  ASSUME IInv, InOrder, NEW request,
         Plain(request) = {}, FallbacksOf(RuleSet) # {},
         NEW active \in SUBSET tunnel_map, NEW index \in Nat
  PROVE  RightChoice(SelectTunnel(Match(request), active, index),
                     RulesOf(request), BestOf(RulesOf(request), active), active)
<1>1. PICK groups \in Seq(Seq(Pairs(RuleSet))) : groups = Match(request)
  BY MatchIs
<1>2. PICK r \in FallbacksOf(RuleSet) : groups = <<Tagged(r)>>
  BY <1>1, MatchIs
<1>3. Effective(request) = FallbacksOf(RuleSet)
  BY EffectiveIs
<1>4. PICK rules : rules = RulesOf(request)
  OBVIOUS
<1>5. ASSUME NEW s \in rules
      PROVE  /\ RuleOK(s) /\ s.priority = MaxPriority
             /\ Tagged(s) = Tagged(r) /\ Range(Tagged(s)) = Pairs({s})
  <2>1. s \in RuleSet /\ IsFallback(s) /\ groups = <<Tagged(s)>>
    BY <1>1, <1>3, <1>4 DEF RulesOf, FallbacksOf
  <2>2. RuleOK(s)
    BY <2>1, RuleSetOK
  <2> QED  BY <1>2, <2>1, <2>2, TaggedSeq DEF RuleOK
<1>6. r \in rules
  BY <1>1, <1>2, <1>3, <1>4 DEF RulesOf
<1>7. Range(Tagged(r)) = Pairs(rules)
  <2>1. Range(Tagged(r)) \subseteq Pairs(rules)
    <3>1. Range(Tagged(r)) = Pairs({r}) /\ {r} \subseteq rules
      BY <1>5, <1>6
    <3> QED  BY <3>1, PairsMonotonic
  <2>2. ASSUME NEW p \in Pairs(rules) PROVE p \in Range(Tagged(r))
    <3>1. PICK s \in rules : p \in Pairs({s})
      BY PairsOf
    <3> QED  BY <1>5, <3>1
  <2> QED  BY <2>1, <2>2
<1>8. DOMAIN groups = {1} /\ groups[1] = Tagged(r)
  BY <1>2
<1>9. UNION {Range(groups[g]) : g \in DOMAIN groups} = Pairs(rules)
  BY <1>7, <1>8
<1>10. PICK best : best = BestOf(rules, active)
  OBVIOUS
<1>11. best = Served(rules, active)
  <2>1. MaxPriority \in Int
    BY RouterAssumption
  <2>2. \A s \in Served(rules, active) : s.priority = MaxPriority
    BY <1>5 DEF Served
  <2>3. \A s, t \in Served(rules, active) : s.priority <= t.priority
    BY <2>1, <2>2
  <2> QED  BY <1>10, <2>3 DEF BestOf
<1>12. ASSUME NEW m, FirstAnswering(groups, m, active)
       PROVE  Range(groups[m]) = Pairs(rules)
  BY <1>7, <1>8, <1>12 DEF FirstAnswering
<1>13. RightChoice(SelectTunnel(groups, active, index), rules, best, active)
  BY <1>9, <1>11, <1>12, SelectionIs
<1> QED  BY <1>1, <1>4, <1>10, <1>13

(* and when others do: no better rule could have been served. *)
LEMMA PlainChoice ==
  ASSUME IInv, InOrder, NEW request,
         ~ (Plain(request) = {} /\ FallbacksOf(RuleSet) # {}),
         NEW active \in SUBSET tunnel_map, NEW index \in Nat
  PROVE  RightChoice(SelectTunnel(Match(request), active, index),
                     RulesOf(request), BestOf(RulesOf(request), active), active)
<1>1. PICK groups \in Seq(Seq(Pairs(RuleSet))) : groups = Match(request)
  BY MatchIs
<1>2. PICK N \in Nat, L \in Nat :
        /\ N = Len(rules_groups_cache)
        /\ L = Len(groups) /\ DOMAIN groups = 1 .. L
  BY CacheKinds
<1>3. PICK place \in [1 .. L -> 1 .. N] : Ranked(groups, place, request)
  BY <1>1, <1>2, MatchIs
<1>4. PICK rules : rules = RulesOf(request)
  OBVIOUS
<1>5. rules = Plain(request)
  BY <1>4, EffectiveIs DEF RulesOf, Plain
<1>6. UNION {Range(groups[g]) : g \in DOMAIN groups} = Pairs(rules)
  BY <1>1, <1>5, MatchPairs
<1>7. PICK best : best = BestOf(rules, active)
  OBVIOUS
<1>8. rules = UNION {PlainAt(g, request) : g \in 1 .. N}
  BY <1>2, <1>5, CacheParts
<1>9. ASSUME NEW m, FirstAnswering(groups, m, active)
      PROVE  /\ Range(groups[m]) = Pairs(PlainAt(place[m], request))
             /\ best = Served(PlainAt(place[m], request), active)
  <2>1. m \in 1 .. L /\ place[m] \in 1 .. N
    BY <1>2, <1>3, <1>9 DEF FirstAnswering
  <2>2. Range(groups[m]) = Pairs(PlainAt(place[m], request))
    BY <1>2, <1>3, <2>1 DEF Ranked
  <2>3. PICK A : A = PlainAt(place[m], request)
    OBVIOUS
  <2>4. PICK r0 \in Served(A, active) : TRUE
    BY <1>9, <2>2, <2>3, ServedAnswers DEF FirstAnswering
  <2>5. A \subseteq rules
    BY <1>8, <2>1, <2>3
  <2>6. ASSUME NEW s \in Served(rules, active)
        PROVE  \E g \in 1 .. N : s \in PlainAt(g, request) /\ place[m] <= g
    <3>1. PICK g \in 1 .. N : s \in PlainAt(g, request)
      BY <1>8 DEF Served
    <3>2. Answers(Pairs(PlainAt(g, request)), active)
      BY <3>1, ServedAnswers DEF Served
    <3>3. PICK j \in 1 .. L :
            place[j] <= g /\ Range(groups[j]) = Pairs(PlainAt(g, request))
      BY <1>2, <1>3, <3>1 DEF Ranked
    <3>4. m <= j
      BY <1>2, <1>9, <3>2, <3>3 DEF FirstAnswering
    <3>5. place[m] <= place[j]
      <4>1. CASE m = j
        BY <2>1, <4>1
      <4>2. CASE m # j
        <5>1. m < j
          BY <2>1, <3>4, <4>2
        <5>2. place[m] < place[j]
          BY <1>2, <1>3, <2>1, <5>1 DEF Ranked
        <5>3. place[j] \in 1 .. N
          OBVIOUS
        <5> QED  BY <2>1, <5>2, <5>3
      <4> QED  BY <4>1, <4>2
    <3>6. place[j] \in 1 .. N
      OBVIOUS
    <3> QED  BY <2>1, <3>1, <3>3, <3>5, <3>6
  <2>7. CASE ~ rebuilt
    <3>1. N = 1
      <4>1. rules_groups_cache = <<in_rules>>
        BY <2>7, CacheKinds
      <4> QED  BY <1>2, <4>1
    <3>2. A = rules
      <4>1. place[m] = 1 /\ 1 .. N = {1}
        BY <2>1, <3>1
      <4> QED  BY <1>8, <2>3, <4>1
    <3>3. best = Served(rules, active)
      BY <1>7, <2>7 DEF BestOf
    <3> QED  BY <2>2, <2>3, <3>2, <3>3
  <2>8. CASE rebuilt
    <3>1. PICK order : Prioritized(order, request)
      BY <2>8, CachePriorities
    <3>2. /\ \A g \in 1 .. N : order[g] \in Int
          /\ \A g, h \in 1 .. N : g < h => order[g] < order[h]
          /\ \A g \in 1 .. N :
               PlainAt(g, request) = {r \in rules : r.priority = order[g]}
      BY <1>2, <1>5, <3>1 DEF Prioritized
    <3>3. PICK p \in Int : p = order[place[m]]
      BY <2>1, <3>2
    <3>4. A = {r \in rules : r.priority = p}
      BY <2>1, <2>3, <3>2, <3>3
    <3>5. ASSUME NEW s \in Served(rules, active)
          PROVE  p <= s.priority /\ s.priority \in Int
      <4>1. PICK g \in 1 .. N : s \in PlainAt(g, request) /\ place[m] <= g
        BY <2>6
      <4>2. s.priority = order[g] /\ order[g] \in Int
        BY <3>2, <4>1
      <4>3. CASE place[m] = g
        BY <3>3, <4>2, <4>3
      <4>4. CASE place[m] # g
        <5>1. place[m] < g
          BY <2>1, <4>1, <4>4
        <5> QED  BY <2>1, <3>2, <3>3, <4>2, <5>1
      <4> QED  BY <4>3, <4>4
    <3>6. r0 \in Served(rules, active) /\ r0.priority = p
      BY <2>4, <2>5, <3>4 DEF Served
    <3>7. best = {r \in Served(rules, active) : r.priority = p}
      <4>1. ASSUME NEW r \in best PROVE r.priority = p /\ r \in Served(rules, active)
        <5>1. r \in Served(rules, active) /\ r.priority <= p
          BY <1>7, <2>8, <3>6 DEF BestOf
        <5> QED  BY <3>5, <5>1
      <4>2. ASSUME NEW r \in Served(rules, active), r.priority = p PROVE r \in best
        BY <1>7, <3>5, <4>2 DEF BestOf
      <4> QED  BY <4>1, <4>2
    <3>8. best = Served(A, active)
      BY <3>4, <3>7 DEF Served
    <3> QED  BY <2>2, <2>3, <3>8
  <2> QED  BY <2>7, <2>8
<1>10. best \subseteq Served(rules, active)
  BY <1>7 DEF BestOf
<1>11. \A m : FirstAnswering(groups, m, active) =>
          \E A : Range(groups[m]) = Pairs(A) /\ best = Served(A, active)
  BY <1>9
<1>12. RightChoice(SelectTunnel(groups, active, index), rules, best, active)
  BY <1>6, <1>10, <1>11, SelectionIs
<1> QED  BY <1>1, <1>4, <1>7, <1>12

LEMMA InvSelectionFollowsRules == IInv => SelectionFollowsRules
<1>1. ASSUME IInv, InOrder, NEW request \in Requests,
             NEW active \in SUBSET tunnel_map, NEW index \in 0 .. 1
      PROVE  RightChoice(SelectTunnel(Match(request), active, index),
                         RulesOf(request), BestOf(RulesOf(request), active), active)
  <2>1. index \in Nat
    OBVIOUS
  <2> QED  BY <1>1, <2>1, FallbackChoice, PlainChoice
<1> QED  BY <1>1 DEF SelectionFollowsRules, RightChoice, RulesOf, BestOf, Served,
                     NamedIn, AnyoneIn, Named, Anyone, Unanswered

(* What select_tunnel makes of a match is what the rules ask for: of the   *)
(* rules that apply and can be served, one of the most urgent; directly    *)
(* for want of tunnels only where ANY allows it.                           *)
THEOREM SelectingFollowsRules == Spec => []SelectionFollowsRules
BY Invariance, InvSelectionFollowsRules, PTL
=============================================================================
