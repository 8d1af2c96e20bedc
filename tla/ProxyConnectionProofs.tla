------------------------ MODULE ProxyConnectionProofs ------------------------
EXTENDS ProxyConnection, SequenceTheorems, WellFoundedInduction, TLAPS

-----------------------------------------------------------------------------
(* The inductive invariant. *)

(* The relays of a direction: the one its sender, and the one its receiver *)
(* talks to.  DIRECT has the IN for both.                                  *)
Origin(d) == IF d = "up" THEN "client" ELSE "server"
Sink(d) == Origin(Opposite(d))
FirstRelay(d) == IF kind = "direct" \/ d = "up" THEN "in" ELSE "out"
LastRelay(d) == IF kind = "direct" \/ d = "down" THEN "in" ELSE "out"
Working(d) == {FirstRelay(d), LastRelay(d)}

(* What has got past the last relay, and what relay r has in reach and not *)
(* written yet: its buffer, the rest of a frame, and what it may read.     *)
Arrived(d) == received[Sink(d)] \o Contents(pipe[Sink(d)][d])
Kept(r, d) == IF From(r, d) = "tunnel" THEN pending[r] ELSE <<>>
Held(r, d) == (buffer[r][d] \o Kept(r, d)) \o Contents(Source(r, d))

(* The number of bytes that have got past relay r. *)
Passed(r, d) == IF r = LastRelay(d) THEN Len(Arrived(d))
                ELSE Len(Arrived(d)) + Len(Held(LastRelay(d), d))
InReach(r, d) == Passed(r, d) + Len(Held(r, d))

(* Nothing between relay r and the receiver has failed or ended; nothing   *)
(* between the sender and the receiver has.                                *)
Beyond(r, d) == CanWrite(Target(r, d)) /\ CanWrite(pipe[Sink(d)][d])
PathOpen(d) == Beyond(FirstRelay(d), d) /\ CanWrite(pipe[Origin(d)][d])

(* The bytes of q come right after the first n that were sent. *)
Follows(n, q) == \A i \in 1 .. Len(q) : q[i] = n + i

(* In order and without a gap: what has arrived, and what may yet be       *)
(* written; and nothing is lost between them unless something failed.      *)
ArrivedOK(d) == Follows(0, Arrived(d)) /\ Len(Arrived(d)) <= sent[Origin(d)]
HeldOK(r, d) == Beyond(r, d) => /\ Follows(Passed(r, d), Held(r, d))
                                /\ InReach(r, d) <= sent[Origin(d)]
WholeOK(d) == faults = 0 \/ PathOpen(d) =>
                InReach(FirstRelay(d), d) = sent[Origin(d)]
FlowOK(d) == ArrivedOK(d) /\ (\A r \in Working(d) : HeldOK(r, d)) /\ WholeOK(d)

(* A relay holds nothing before it copies, but for what the IN has sniffed.*)
(* Only h2 keeps more than one chunk.                                      *)
StagesOK ==
  /\ pc["in"] \in {"sniff", "select"} => pc["out"] = "none"
  /\ kind = "direct" => pc["out"] = "none"
  /\ \A r \in Relays : pc[r] \notin {"copy", "done"} =>
       /\ pending[r] = <<>>
       /\ \A d \in Directions : /\ copy[r][d] = "copying"
                                /\ buffer[r][d] # <<>> => r = "in" /\ d = "up"
  /\ \A s \in Segments, d \in Directions :
       ~ Framed(s) => Len(pipe[s][d].data) <= 1

(* Without a failure a pipe ends when its writer has ended, its writer     *)
(* when the pipe it reads has, and a relay when both its directions have.  *)
EndsOK(r, d) ==
  /\ Target(r, d).end = "fin" <=> copy[r][d] = "ended"
  /\ Source(r, d).deaf \/ pc[r] = "done" => copy[r][d] = "ended"
  /\ copy[r][d] # "copying" => AllRead(r, d) /\ Source(r, d).end = "fin"
  /\ copy[r][d] = "ended" => buffer[r][d] = <<>>
CalmOK ==
  faults = 0 =>
    /\ \A s \in Segments, d \in Directions : pipe[s][d].end # "reset"
    /\ \A d \in Directions : /\ ~ pipe[Sink(d)][d].deaf
                             /\ \A r \in Working(d) : EndsOK(r, d)
    /\ end => /\ pc["in"] \in {"select", "connect"}
              /\ Source("in", "up").end = "fin" /\ AllRead("in", "up")

IInv == TypeOK /\ StagesOK /\ CalmOK /\ \A d \in Directions : FlowOK(d)

-----------------------------------------------------------------------------
(* Sequences of sequences. *)

LEMMA LeastNumber ==
  ASSUME NEW T \in SUBSET Nat, T # {}
  PROVE  \E m \in T : \A n \in T : m <= n
<1>1. PICK m \in T : \A n \in T : <<n, m>> \notin OpToRel(<, Nat)
  BY NatLessThanWellFounded, WFMin, Zenon
<1>2. \A n \in T : ~ n < m
  BY <1>1 DEF OpToRel
<1> QED  BY <1>2

(* The first n frames of q one behind the other, as FlattenSeq has them.   *)
IsJoin(f, q, n) ==
  f = [i \in 1 .. n |-> IF i = 1 THEN q[i] ELSE f[i - 1] \o q[i]]

LEMMA JoinAt ==
  ASSUME NEW f, NEW q, NEW n \in Nat, NEW i \in 1 .. n, IsJoin(f, q, n)
  PROVE  f[i] = IF i = 1 THEN q[i] ELSE f[i - 1] \o q[i]
BY Zenon DEF IsJoin

LEMMA JoinExists ==
  ASSUME NEW q, NEW n \in Nat
  PROVE  \E f : IsJoin(f, q, n)
<1> DEFINE T == {m \in Nat : ~ \E f : IsJoin(f, q, m)}
<1> SUFFICES ASSUME T # {} PROVE FALSE
  OBVIOUS
<1>1. PICK m \in T : \A k \in T : m <= k
  BY LeastNumber
<1>2. CASE m = 0
  <2> DEFINE f == [i \in 1 .. 0 |-> 0]
  <2>1. IsJoin(f, q, 0)
    BY DEF IsJoin
  <2> QED  BY <1>2, <2>1
<1>3. CASE m # 0
  <2>0. m \in Nat
    OBVIOUS
  <2>1. PICK k \in Nat : k = m - 1 /\ k \notin T
    BY <1>1, <1>3
  <2>2. PICK f : IsJoin(f, q, k)
    BY <2>1
  <2> DEFINE g == [i \in 1 .. m |->
                     IF i = 1 THEN q[i]
                     ELSE IF i < m THEN f[i] ELSE f[i - 1] \o q[i]]
  <2>3. ASSUME NEW i \in 1 .. m, i # 1
        PROVE  g[i] = g[i - 1] \o q[i]
    <3>1. g[i] = f[i - 1] \o q[i]
      <4>1. CASE i = m
        <5>1. ~ i < m
          BY <2>0, <4>1
        <5> QED  BY <2>3, <4>1, <5>1, Zenon
      <4>2. CASE i < m
        <5>1. i \in 1 .. k
          BY <2>0, <2>1, <4>2
        <5>2. f[i] = f[i - 1] \o q[i]
          BY <2>2, <2>3, <5>1, JoinAt
        <5> QED  BY <2>3, <4>2, <5>2, Zenon
      <4>3. i = m \/ i < m
        BY <2>0
      <4> QED  BY <4>1, <4>2, <4>3
    <3>2. g[i - 1] = f[i - 1]
      <4>1. i - 1 \in 1 .. k /\ i - 1 \in 1 .. m /\ i - 1 < m
        BY <2>0, <2>1, <2>3
      <4>2. i - 1 = 1 => f[i - 1] = q[i - 1]
        BY <2>2, <4>1 DEF IsJoin
      <4> QED  BY <4>1, <4>2
    <3> QED  BY <3>1, <3>2
  <2>4. IsJoin(g, q, m)
    BY <2>3 DEF IsJoin
  <2> QED  BY <2>4
<1> QED  BY <1>2, <1>3

LEMMA Flattened ==
  ASSUME NEW q, NEW n \in Nat \ {0}, Len(q) = n
  PROVE  \E f : IsJoin(f, q, n) /\ FlattenSeq(q) = f[n]
<1> DEFINE f == CHOOSE f : IsJoin(f, q, Len(q))
<1>1. IsJoin(f, q, Len(q))
  BY JoinExists
<1>2. FlattenSeq(q) = f[Len(q)]
  BY DEF FlattenSeq, IsJoin
<1> QED  BY <1>1, <1>2

Agree(f, g, n) == \A i \in 1 .. n : f[i] = g[i]

LEMMA JoinUnique ==
  ASSUME NEW p, NEW q, NEW m \in Nat, NEW n \in Nat, NEW k \in Nat,
         NEW f, NEW g, IsJoin(f, p, m), IsJoin(g, q, n),
         k <= m, k <= n, Agree(p, q, k)
  PROVE  Agree(f, g, k)
<1> USE DEF Agree
<1> DEFINE T == {i \in Nat : i \in 1 .. k /\ f[i] # g[i]}
<1> SUFFICES ASSUME T # {} PROVE FALSE
  OBVIOUS
<1>1. PICK i \in T : \A j \in T : i <= j
  BY LeastNumber
<1>2. i \in 1 .. k /\ f[i] # g[i] /\ i \in 1 .. m /\ i \in 1 .. n
  OBVIOUS
<1>3. CASE i = 1
  BY <1>2, <1>3 DEF IsJoin
<1>4. CASE i # 1
  <2>1. i - 1 \in 1 .. k /\ i - 1 \in Nat /\ ~ i <= i - 1
    BY <1>2, <1>4
  <2>2. f[i - 1] = g[i - 1]
    BY <1>1, <2>1
  <2> QED  BY <1>2, <1>4, <2>2, JoinAt
<1> QED  BY <1>3, <1>4

LEMMA JoinInSeq ==
  ASSUME NEW S, NEW q \in Seq(Seq(S)), NEW n \in Nat, n <= Len(q),
         NEW f, IsJoin(f, q, n)
  PROVE  \A i \in 1 .. n : f[i] \in Seq(S)
<1> DEFINE T == {i \in Nat : i \in 1 .. n /\ f[i] \notin Seq(S)}
<1> SUFFICES ASSUME T # {} PROVE FALSE
  OBVIOUS
<1>1. PICK i \in T : \A j \in T : i <= j
  BY LeastNumber
<1>2. i \in 1 .. n /\ f[i] \notin Seq(S) /\ q[i] \in Seq(S)
  OBVIOUS
<1>3. CASE i = 1
  BY <1>2, <1>3 DEF IsJoin
<1>4. CASE i # 1
  <2>1. i - 1 \in 1 .. n /\ i - 1 \in Nat /\ ~ i <= i - 1
    BY <1>2, <1>4
  <2>2. f[i - 1] \in Seq(S)
    BY <1>1, <2>1
  <2>3. f[i] = f[i - 1] \o q[i]
    BY <1>2, <1>4 DEF IsJoin
  <2> QED  BY <1>2, <2>2, <2>3, ConcatProperties
<1> QED  BY <1>3, <1>4

LEMMA FlattenEmpty == FlattenSeq(<<>>) = <<>>
BY DEF FlattenSeq

LEMMA FlattenOne ==
  ASSUME NEW S, NEW b \in Seq(S)
  PROVE  FlattenSeq(<<b>>) = b
<1>1. Len(<<b>>) = 1 /\ <<b>>[1] = b
  OBVIOUS
<1>2. PICK f : IsJoin(f, <<b>>, 1) /\ FlattenSeq(<<b>>) = f[1]
  <2> 1 \in Nat \ {0}
    OBVIOUS
  <2> QED  BY <1>1, Flattened, Zenon
<1> QED  BY <1>1, <1>2, JoinAt

LEMMA FlattenInSeq ==
  ASSUME NEW S, NEW q \in Seq(Seq(S))
  PROVE  FlattenSeq(q) \in Seq(S)
<1>1. CASE Len(q) = 0
  <2>1. q = <<>>
    BY <1>1
  <2> QED  BY <2>1, FlattenEmpty, EmptySeq
<1>2. CASE Len(q) # 0
  <2>1. PICK f : IsJoin(f, q, Len(q)) /\ FlattenSeq(q) = f[Len(q)]
    BY <1>2, Flattened
  <2> QED  BY <1>2, <2>1, JoinInSeq
<1> QED  BY <1>1, <1>2

LEMMA FlattenAppend ==
  ASSUME NEW S, NEW q \in Seq(Seq(S)), NEW b \in Seq(S)
  PROVE  FlattenSeq(Append(q, b)) = FlattenSeq(q) \o b
<1>1. PICK r : r = Append(q, b)
  OBVIOUS
<1>2. PICK n \in Nat, m \in Nat : n = Len(q) /\ m = n + 1
  OBVIOUS
<1>3. /\ r \in Seq(Seq(S)) /\ Len(r) = m
      /\ r[m] = b /\ \A i \in 1 .. n : q[i] = r[i]
  BY <1>1, <1>2, AppendProperties
<1>4. m \in Nat \ {0} /\ m \in 1 .. m /\ m - 1 = n
  BY <1>2
<1>5. PICK g : IsJoin(g, r, m) /\ FlattenSeq(r) = g[m]
  BY <1>3, <1>4, Flattened
<1>6. g[m] = IF m = 1 THEN r[m] ELSE g[m - 1] \o r[m]
  BY <1>4, <1>5, JoinAt
<1>7. CASE n = 0
  <2>1. q = <<>>
    BY <1>2, <1>7, EmptySeq
  <2> QED
    BY <1>1, <1>2, <1>3, <1>5, <1>6, <1>7, <2>1, FlattenEmpty, ConcatEmptySeq
<1>8. CASE n # 0
  <2>1. PICK f : IsJoin(f, q, n) /\ FlattenSeq(q) = f[n]
    BY <1>2, <1>8, Flattened
  <2>2. n <= n /\ n <= m /\ n \in 1 .. n
    BY <1>2, <1>8
  <2>3. f[n] = g[n]
    <3>1. Agree(q, r, n)
      BY <1>3 DEF Agree
    <3>2. Agree(f, g, n)
      BY <1>5, <2>1, <2>2, <3>1, JoinUnique
    <3> QED  BY <2>2, <3>2 DEF Agree
  <2> QED  BY <1>1, <1>2, <1>3, <1>4, <1>5, <1>6, <1>8, <2>1, <2>3
<1> QED  BY <1>7, <1>8

LEMMA Assoc ==
  ASSUME NEW S, NEW a \in Seq(S), NEW b \in Seq(S), NEW c \in Seq(S)
  PROVE  (a \o b) \o c = a \o (b \o c)
OBVIOUS

(* The frames from the second on: what Head and Tail make of a flattening. *)
LEMMA FlattenHead ==
  ASSUME NEW S, NEW q \in Seq(Seq(S)), Len(q) # 0
  PROVE  FlattenSeq(q) = Head(q) \o FlattenSeq(Tail(q))
<1> DEFINE P(n) == FlattenSeq(SubSeq(q, 1, n)) =
                     Head(q) \o FlattenSeq(SubSeq(Tail(q), 1, n - 1))
           T == {n \in Nat : n \in 1 .. Len(q) /\ ~ P(n)}
<1>1. /\ Len(q) \in Nat \ {0} /\ Head(q) = q[1] /\ q[1] \in Seq(S)
      /\ Tail(q) \in Seq(Seq(S)) /\ Len(Tail(q)) = Len(q) - 1
      /\ \A i \in 1 .. Len(q) - 1 : Tail(q)[i] = q[i + 1]
  BY EmptySeq, HeadTailProperties
<1>2. P(1)
  <2>1. SubSeq(q, 1, 1) = <<q[1]>>
    <3>1. PICK x, u : u = SubSeq(q, 1, 1) /\ x = q[1] /\ x \in Seq(S)
      BY <1>1
    <3>2. u \in Seq(Seq(S)) /\ Len(u) = 1 /\ u[1] = x
      BY <1>1, <3>1, SubSeqProperties
    <3>3. u = <<x>>
      <4> HIDE DEF P, T
      <4> QED  BY <3>2
    <3> QED  BY <3>1, <3>3
  <2>2. SubSeq(Tail(q), 1, 0) = <<>>
    BY SubSeqEmpty
  <2>3. /\ FlattenSeq(<<q[1]>>) = q[1]
        /\ q[1] \o <<>> = q[1]
    BY <1>1, FlattenOne, ConcatEmptySeq
  <2>4. 1 - 1 = 0
    OBVIOUS
  <2> QED  BY <1>1, <2>1, <2>2, <2>3, <2>4, FlattenEmpty
<1>3. ASSUME NEW n \in 1 .. Len(q), n # 1, P(n - 1)
      PROVE  P(n)
  <2>1. PICK u, w : u = SubSeq(q, 1, n - 1) /\ w = SubSeq(Tail(q), 1, n - 2)
    OBVIOUS
  <2>2. /\ u \in Seq(Seq(S)) /\ w \in Seq(Seq(S)) /\ q[n] \in Seq(S)
    <3>1. \A i \in 1 .. n - 1 : q[i] \in Seq(S)
      BY <1>1
    <3>2. \A i \in 1 .. n - 2 : Tail(q)[i] \in Seq(S)
      BY <1>1
    <3> QED  BY <1>1, <2>1, <3>1, <3>2, SubSeqProperties
  <2>3. SubSeq(q, 1, n) = Append(u, q[n])
    <3>1. SubSeq(q, 1, n) = u \o <<q[n]>>
      BY <1>1, <1>3, <2>1, SubSeqRecursiveSecond
    <3> QED  BY <2>2, <3>1, AppendIsConcat
  <2>4. SubSeq(Tail(q), 1, n - 1) = Append(w, q[n])
    <3>1. /\ 1 \in 1 .. Len(Tail(q)) /\ n - 1 \in 1 .. Len(Tail(q))
          /\ Tail(q)[n - 1] = q[n] /\ n - 1 - 1 = n - 2
      BY <1>1, <1>3
    <3>2. SubSeq(Tail(q), 1, n - 1) = w \o <<q[n]>>
      BY <1>1, <2>1, <3>1, SubSeqRecursiveSecond
    <3> QED  BY <2>2, <3>2, AppendIsConcat
  <2>5. FlattenSeq(u) = Head(q) \o FlattenSeq(w)
    <3>1. n - 1 - 1 = n - 2
      OBVIOUS
    <3> QED  BY <1>3, <2>1, <3>1
  <2>6. /\ FlattenSeq(Append(u, q[n])) = FlattenSeq(u) \o q[n]
        /\ FlattenSeq(Append(w, q[n])) = FlattenSeq(w) \o q[n]
        /\ FlattenSeq(w) \in Seq(S)
    BY <2>2, FlattenAppend, FlattenInSeq
  <2>7. (Head(q) \o FlattenSeq(w)) \o q[n] = Head(q) \o (FlattenSeq(w) \o q[n])
    <3>1. PICK a \in Seq(S), b \in Seq(S), c \in Seq(S) :
            a = Head(q) /\ b = FlattenSeq(w) /\ c = q[n]
      BY <1>1, <2>2, <2>6
    <3>2. (a \o b) \o c = a \o (b \o c)
      BY ONLY Assoc
    <3> QED  BY <3>1, <3>2
  <2> QED  BY <2>3, <2>4, <2>5, <2>6, <2>7
<1>4. P(Len(q))
  <2> HIDE DEF P
  <2> SUFFICES ASSUME ~ P(Len(q)) PROVE FALSE
    OBVIOUS
  <2>1. T # {}
    BY <1>1
  <2>2. PICK m \in T : \A k \in T : m <= k
    BY <2>1, LeastNumber
  <2>3. m # 1 /\ m \in 1 .. Len(q) /\ ~ P(m)
    BY <1>2, <2>2
  <2>4. m - 1 \in Nat /\ m - 1 \in 1 .. Len(q) /\ ~ m <= m - 1
    BY <1>1, <2>3
  <2>5. P(m - 1)
    BY <2>2, <2>4
  <2> QED  BY <1>3, <2>3, <2>5
<1>5. SubSeq(q, 1, Len(q)) = q /\ SubSeq(Tail(q), 1, Len(q) - 1) = Tail(q)
  BY <1>1, SubSeqFull
<1> QED  BY <1>4, <1>5

(* Without its last frames, what is left is the beginning. *)
LEMMA FlattenPart ==
  ASSUME NEW S, NEW q \in Seq(Seq(S)), NEW n \in 0 .. Len(q)
  PROVE  \E rest \in Seq(S) : FlattenSeq(q) = FlattenSeq(SubSeq(q, 1, n)) \o rest
<1> DEFINE P(k) == \E rest \in Seq(S) :
                     FlattenSeq(q) = FlattenSeq(SubSeq(q, 1, k)) \o rest
           T == {j \in Nat : j \in 0 .. Len(q) /\ ~ P(Len(q) - j)}
<1>1. P(Len(q))
  <2>1. SubSeq(q, 1, Len(q)) = q /\ <<>> \in Seq(S)
    BY SubSeqFull, EmptySeq
  <2>2. FlattenSeq(q) = FlattenSeq(q) \o <<>>
    BY FlattenInSeq, ConcatEmptySeq
  <2> QED  BY <2>1, <2>2
<1>2. ASSUME NEW k \in 1 .. Len(q), P(k)
      PROVE  P(k - 1)
  <2>1. PICK rest \in Seq(S) :
          FlattenSeq(q) = FlattenSeq(SubSeq(q, 1, k)) \o rest
    BY <1>2
  <2>2. PICK u : u = SubSeq(q, 1, k - 1)
    OBVIOUS
  <2>3. u \in Seq(Seq(S)) /\ q[k] \in Seq(S)
    <3>1. \A i \in 1 .. k - 1 : q[i] \in Seq(S)
      OBVIOUS
    <3> QED  BY <2>2, <3>1, SubSeqProperties
  <2>4. SubSeq(q, 1, k) = Append(u, q[k])
    <3>1. SubSeq(q, 1, k) = u \o <<q[k]>>
      BY <2>2, SubSeqRecursiveSecond
    <3> QED  BY <2>3, <3>1, AppendIsConcat
  <2>5. /\ FlattenSeq(SubSeq(q, 1, k)) = FlattenSeq(u) \o q[k]
        /\ FlattenSeq(u) \in Seq(S)
    BY <2>3, <2>4, FlattenAppend, FlattenInSeq
  <2>6. FlattenSeq(q) = FlattenSeq(u) \o (q[k] \o rest)
    <3>1. (FlattenSeq(u) \o q[k]) \o rest = FlattenSeq(u) \o (q[k] \o rest)
      <4>1. PICK a \in Seq(S), b \in Seq(S) : a = FlattenSeq(u) /\ b = q[k]
        BY <2>3, <2>5
      <4>2. (a \o b) \o rest = a \o (b \o rest)
        BY Assoc
      <4> QED  BY <4>1, <4>2
    <3> QED  BY <2>1, <2>5, <3>1, Zenon
  <2>7. q[k] \o rest \in Seq(S)
    BY <2>3, ConcatProperties
  <2> QED  BY <2>2, <2>6, <2>7
<1> HIDE DEF P
<1> SUFFICES ASSUME ~ P(n) PROVE FALSE
  BY DEF P
<1>3. Len(q) - n \in T
  <2>1. Len(q) - n \in Nat /\ Len(q) - n \in 0 .. Len(q) /\ Len(q) - (Len(q) - n) = n
    OBVIOUS
  <2> QED  BY <2>1
<1>4. PICK m \in T : \A k \in T : m <= k
  BY <1>3, LeastNumber
<1>5. m \in Nat /\ m \in 0 .. Len(q) /\ ~ P(Len(q) - m)
  BY <1>4
<1>6. m # 0
  <2>1. m = 0 => Len(q) - m = Len(q)
    OBVIOUS
  <2> QED  BY <1>1, <1>5, <2>1
<1>7. /\ m - 1 \in Nat /\ m - 1 \in 0 .. Len(q) /\ ~ m <= m - 1
      /\ Len(q) - (m - 1) \in 1 .. Len(q)
      /\ Len(q) - (m - 1) - 1 = Len(q) - m
  BY <1>5, <1>6
<1>8. P(Len(q) - (m - 1))
  BY <1>4, <1>7
<1> QED  BY <1>2, <1>5, <1>7, <1>8

-----------------------------------------------------------------------------
(* What the model does with bytes, and with the data of a pipe. *)

Data == Seq(Seq(Bytes) \ {<<>>})

LEMMA DataIsSeq ==
  ASSUME NEW q \in Data
  PROVE  q \in Seq(Seq(Bytes))
BY SeqMonotonic DEF Data

LEMMA FlattenInBytes ==
  ASSUME NEW q \in Data
  PROVE  FlattenSeq(q) \in Seq(Bytes)
BY DataIsSeq, FlattenInSeq

LEMMA Associative ==
  ASSUME NEW a \in Seq(Bytes), NEW b \in Seq(Bytes), NEW c \in Seq(Bytes)
  PROVE  (a \o b) \o c = a \o (b \o c)
BY ONLY Assoc

LEMMA Concatenated ==
  ASSUME NEW a \in Seq(Bytes), NEW b \in Seq(Bytes)
  PROVE  /\ a \o b \in Seq(Bytes)
         /\ Len(a \o b) = Len(a) + Len(b)
         /\ Len(a) \in Nat /\ Len(b) \in Nat
BY ConcatProperties, LenProperties

LEMMA Empty ==
  /\ <<>> \in Seq(Bytes) /\ <<>> \in Data /\ Len(<<>>) = 0
  /\ \A a \in Seq(Bytes) : /\ a \o <<>> = a /\ <<>> \o a = a
                           /\ Len(a) = 0 <=> a = <<>>
BY DEF Data

LEMMA StreamData ==
  ASSUME NEW b \in Seq(Bytes)
  PROVE  /\ Stream(b) \in Data /\ FlattenSeq(Stream(b)) = b
         /\ Len(Stream(b)) <= 1
<1>1. CASE b = <<>>
  BY <1>1, FlattenEmpty, Empty DEF Stream
<1>2. CASE b # <<>>
  <2>1. Stream(b) = <<b>>
    BY <1>2 DEF Stream
  <2>2. FlattenSeq(<<b>>) = b
    BY FlattenOne
  <2>3. <<b>> \in Data /\ Len(<<b>>) = 1
    BY <1>2 DEF Data
  <2> QED  BY <2>1, <2>2, <2>3
<1> QED  BY <1>1, <1>2

LEMMA AppendData ==
  ASSUME NEW q \in Data, NEW b \in Seq(Bytes), b # <<>>
  PROVE  /\ Append(q, b) \in Data
         /\ FlattenSeq(Append(q, b)) = FlattenSeq(q) \o b
<1>1. Append(q, b) \in Data
  BY AppendProperties DEF Data
<1>2. FlattenSeq(Append(q, b)) = FlattenSeq(q) \o b
  BY DataIsSeq, FlattenAppend
<1> QED  BY <1>1, <1>2

LEMMA HeadData ==
  ASSUME NEW q \in Data, q # <<>>
  PROVE  /\ Head(q) \in Seq(Bytes) /\ Head(q) # <<>>
         /\ Tail(q) \in Data
         /\ FlattenSeq(q) = Head(q) \o FlattenSeq(Tail(q))
         /\ Len(q) <= 1 => FlattenSeq(q) = Head(q)
<1>1. Len(q) \in Nat /\ Len(q) # 0
  BY EmptySeq DEF Data
<1>2. /\ Head(q) \in Seq(Bytes) /\ Head(q) # <<>>
      /\ Tail(q) \in Data /\ Len(Tail(q)) = Len(q) - 1
  BY HeadTailProperties DEF Data
<1>3. FlattenSeq(q) = Head(q) \o FlattenSeq(Tail(q))
  BY <1>1, DataIsSeq, FlattenHead
<1>4. ASSUME Len(q) <= 1
      PROVE  FlattenSeq(q) = Head(q)
  <2>1. Len(Tail(q)) = 0
    BY <1>1, <1>2, <1>4
  <2>2. Tail(q) = <<>>
    BY <1>2, <2>1, EmptySeq DEF Data
  <2> QED  BY <1>2, <1>3, <2>2, FlattenEmpty, Empty
<1> QED  BY <1>2, <1>3, <1>4

LEMMA EmptyData ==
  ASSUME NEW q \in Data
  PROVE  FlattenSeq(q) = <<>> <=> q = <<>>
<1>1. ASSUME q # <<>>
      PROVE  FlattenSeq(q) # <<>>
  <2>1. PICK a \in Seq(Bytes), b \in Seq(Bytes) :
          a # <<>> /\ FlattenSeq(q) = a \o b
    BY <1>1, HeadData, FlattenInBytes
  <2>2. Len(a) # 0 /\ Len(a) \in Nat /\ Len(b) \in Nat
    BY <2>1, Empty, Concatenated
  <2>3. Len(a \o b) # 0
    BY <2>2, Concatenated
  <2> QED  BY <2>1, <2>3, Empty
<1> QED  BY <1>1, FlattenEmpty

LEMMA PartData ==
  ASSUME NEW q \in Data, NEW n \in 0 .. Len(q)
  PROVE  /\ SubSeq(q, 1, n) \in Data
         /\ Len(SubSeq(q, 1, n)) = n
         /\ \E rest \in Seq(Bytes) :
              FlattenSeq(q) = FlattenSeq(SubSeq(q, 1, n)) \o rest
<1>1. SubSeq(q, 1, n) \in Data /\ Len(SubSeq(q, 1, n)) = n
  BY SubSeqProperties DEF Data
<1> QED  BY <1>1, DataIsSeq, FlattenPart

LEMMA FirstAndRest ==
  ASSUME NEW b \in Seq(Bytes), NEW n \in Nat
  PROVE  /\ First(b, n) \in Seq(Bytes) /\ Rest(b, n) \in Seq(Bytes)
         /\ First(b, n) \o Rest(b, n) = b
         /\ Len(First(b, n)) = Smaller(n, Len(b))
         /\ n # 0 /\ b # <<>> => First(b, n) # <<>>
<1>1. CASE n <= Len(b)
  <2>1. First(b, n) = SubSeq(b, 1, n) /\ Rest(b, n) = SubSeq(b, n + 1, Len(b))
    <3>1. Smaller(n, Len(b)) = n
      BY <1>1 DEF Smaller
    <3> QED  BY <3>1 DEF First, Rest
  <2>2. /\ SubSeq(b, 1, n) \in Seq(Bytes) /\ Len(SubSeq(b, 1, n)) = n
        /\ SubSeq(b, n + 1, Len(b)) \in Seq(Bytes)
    BY <1>1, SubSeqProperties
  <2>3. SubSeq(b, 1, n) \o SubSeq(b, n + 1, Len(b)) = b
    <3>1. SubSeq(b, 1, n) \o SubSeq(b, n + 1, Len(b)) = SubSeq(b, 1, Len(b))
      <4>1. PICK m, l : m = 1 /\ l = Len(b)
        OBVIOUS
      <4>2. m \in 1 .. Len(b) + 1 /\ n \in m - 1 .. Len(b) /\ l \in n .. Len(b)
        BY <1>1, <4>1
      <4>3. SubSeq(b, m, n) \o SubSeq(b, n + 1, l) = SubSeq(b, m, l)
        BY <4>2, ConcatAdjacentSubSeq
      <4> QED  BY <4>1, <4>3
    <3> QED  BY <3>1, SubSeqFull
  <2>4. Smaller(n, Len(b)) = n
    BY <1>1 DEF Smaller
  <2> QED  BY <2>1, <2>2, <2>3, <2>4, Empty
<1>2. CASE ~ n <= Len(b)
  <2>1. Smaller(n, Len(b)) = Len(b)
    BY <1>2 DEF Smaller
  <2>2. First(b, n) = b
    BY <2>1, SubSeqFull DEF First
  <2>3. Rest(b, n) = <<>>
    BY <1>2, SubSeqEmpty DEF Rest
  <2> QED  BY <2>1, <2>2, <2>3, Empty
<1> QED  BY <1>1, <1>2

(* Counting on over a concatenation. *)
LEMMA FollowsBoth ==
  ASSUME NEW n \in Nat, NEW a \in Seq(Bytes), NEW b \in Seq(Bytes)
  PROVE  Follows(n, a \o b) <=> Follows(n, a) /\ Follows(n + Len(a), b)
<1>1. /\ Len(a) \in Nat /\ Len(b) \in Nat /\ Len(a \o b) = Len(a) + Len(b)
      /\ \A i \in 1 .. Len(a) + Len(b) :
           (a \o b)[i] = IF i <= Len(a) THEN a[i] ELSE b[i - Len(a)]
  BY ConcatProperties
<1>2. ASSUME Follows(n, a \o b)
      PROVE  Follows(n, a)
  BY <1>1, <1>2 DEF Follows
<1>3. ASSUME Follows(n, a \o b)
      PROVE  Follows(n + Len(a), b)
  <2> SUFFICES ASSUME NEW i \in 1 .. Len(b)
               PROVE  b[i] = n + Len(a) + i
    BY DEF Follows
  <2>1. /\ Len(a) + i \in 1 .. Len(a) + Len(b) /\ ~ Len(a) + i <= Len(a)
        /\ Len(a) + i - Len(a) = i
    BY <1>1
  <2>2. (a \o b)[Len(a) + i] = b[i]
    BY <1>1, <2>1
  <2>3. (a \o b)[Len(a) + i] = n + (Len(a) + i)
    BY <1>1, <1>3, <2>1 DEF Follows
  <2> QED  BY <1>1, <2>2, <2>3
<1>4. ASSUME Follows(n, a), Follows(n + Len(a), b)
      PROVE  Follows(n, a \o b)
  <2> SUFFICES ASSUME NEW i \in 1 .. Len(a) + Len(b)
               PROVE  (a \o b)[i] = n + i
    BY <1>1 DEF Follows
  <2>1. CASE i <= Len(a)
    BY <1>1, <1>4, <2>1 DEF Follows
  <2>2. CASE ~ i <= Len(a)
    <3>1. i - Len(a) \in 1 .. Len(b)
      BY <1>1, <2>2
    <3>2. b[i - Len(a)] = n + Len(a) + (i - Len(a))
      BY <1>4, <3>1 DEF Follows
    <3> QED  BY <1>1, <2>2, <3>2
  <2> QED  BY <2>1, <2>2
<1> QED  BY <1>2, <1>3, <1>4

-----------------------------------------------------------------------------
(* The way of a direction through the relays. *)

USE ProxyAssumption
    DEF Ends, Relays, Directions, Segments, InStages, OutStages

LEMMA Places ==
  ASSUME NEW d \in Directions
  PROVE  /\ Opposite(d) \in Directions /\ Opposite(d) # d
         /\ Opposite(Opposite(d)) = d
         /\ \A e \in Directions : e = d \/ e = Opposite(d)
         /\ Origin(d) \in Ends /\ Sink(d) \in Ends /\ Origin(d) # Sink(d)
         /\ Origin(d) \in Segments /\ Sink(d) \in Segments
         /\ Origin(d) # "tunnel" /\ Sink(d) # "tunnel"
         /\ Origin(Opposite(d)) = Sink(d) /\ Sink(Opposite(d)) = Origin(d)
         /\ FirstRelay(d) \in Relays /\ LastRelay(d) \in Relays
         /\ From(FirstRelay(d), d) = Origin(d) /\ To(LastRelay(d), d) = Sink(d)
         /\ FirstRelay(d) # LastRelay(d) =>
              To(FirstRelay(d), d) = "tunnel" /\ From(LastRelay(d), d) = "tunnel"
BY DEF Opposite, Origin, Sink, FirstRelay, LastRelay, From, To, Near, Far, Forth

LEMMA Sides ==
  ASSUME NEW r \in Relays, NEW d \in Directions
  PROVE  /\ From(r, d) \in Segments /\ To(r, d) \in Segments
         /\ r \in Working(d) => From(r, d) # To(r, d)
         /\ From(r, Opposite(d)) = To(r, d) /\ To(r, Opposite(d)) = From(r, d)
         /\ r \in Working(d) <=> r = "in" \/ kind # "direct"
         /\ r \in Working(d) => r = FirstRelay(d) \/ r = LastRelay(d)
         /\ r = LastRelay(d) \/ To(r, d) # Sink(d) \/ r \notin Working(d)
BY DEF Opposite, Origin, Sink, FirstRelay, LastRelay, From, To, Near, Far, Forth,
       Working

(* The kind of the tunnel stays, and with it all these. *)
LEMMA SamePlaces ==
  ASSUME kind' = kind, NEW d \in Directions
  PROVE  /\ FirstRelay(d)' = FirstRelay(d) /\ LastRelay(d)' = LastRelay(d)
         /\ Working(d)' = Working(d)
         /\ \A r \in Relays : From(r, d)' = From(r, d) /\ To(r, d)' = To(r, d)
BY DEF FirstRelay, LastRelay, Working, From, To, Far

LEMMA PipeTypes ==
  ASSUME TypeOK, NEW s \in Segments, NEW d \in Directions
  PROVE  /\ pipe[s][d] \in Pipe
         /\ pipe[s][d].data \in Data
         /\ pipe[s][d].end \in {"open", "fin", "reset"}
         /\ pipe[s][d].deaf \in BOOLEAN
         /\ Contents(pipe[s][d]) \in Seq(Bytes)
         /\ Contents(pipe[s][d]) = <<>> <=> pipe[s][d].data = <<>>
<1>1. pipe[s][d] \in Pipe
  BY DEF TypeOK
<1>2. /\ pipe[s][d].data \in Data
      /\ pipe[s][d].end \in {"open", "fin", "reset"}
      /\ pipe[s][d].deaf \in BOOLEAN
  BY <1>1 DEF Pipe, Data
<1> QED  BY <1>1, <1>2, FlattenInBytes, EmptyData DEF Contents

(* What TypeOK says of the bytes on their way, now and after a step. *)
FlowTyped(d) ==
  /\ Arrived(d) \in Seq(Bytes) /\ Len(Arrived(d)) \in Nat
  /\ \A r \in Relays : /\ Held(r, d) \in Seq(Bytes) /\ Len(Held(r, d)) \in Nat
                       /\ buffer[r][d] \in Seq(Bytes)
                       /\ Kept(r, d) \in Seq(Bytes)
                       /\ Passed(r, d) \in Nat /\ InReach(r, d) \in Nat
  /\ sent[Origin(d)] \in Nat

AllTyped == TypeOK => \A d \in Directions : FlowTyped(d)

LEMMA FlowTypes == AllTyped
<1> SUFFICES ASSUME TypeOK, NEW d \in Directions PROVE FlowTyped(d)
  BY DEF AllTyped
<1>1. received[Sink(d)] \in Seq(Bytes) /\ sent[Origin(d)] \in Nat
  BY Places DEF TypeOK
<1>2. Arrived(d) \in Seq(Bytes) /\ Len(Arrived(d)) \in Nat
  BY <1>1, Places, PipeTypes, Concatenated, LenProperties DEF Arrived
<1>3. ASSUME NEW r \in Relays
      PROVE  /\ Held(r, d) \in Seq(Bytes) /\ Len(Held(r, d)) \in Nat
             /\ buffer[r][d] \in Seq(Bytes) /\ Kept(r, d) \in Seq(Bytes)
  <2>1. buffer[r][d] \in Seq(Bytes) /\ Kept(r, d) \in Seq(Bytes)
    BY Empty DEF Kept, TypeOK
  <2>2. Contents(Source(r, d)) \in Seq(Bytes)
    BY Sides, PipeTypes DEF Source
  <2>3. buffer[r][d] \o Kept(r, d) \in Seq(Bytes)
    BY <2>1, Concatenated
  <2>4. Held(r, d) \in Seq(Bytes)
    BY <2>2, <2>3, Concatenated DEF Held
  <2> QED  BY <2>1, <2>4, LenProperties
<1>4. \A r \in Relays : Passed(r, d) \in Nat /\ InReach(r, d) \in Nat
  BY <1>2, <1>3, Places DEF Passed, InReach
<1> QED  BY <1>1, <1>2, <1>3, <1>4 DEF FlowTyped

LEMMA FlowTypesNext ==
  ASSUME TypeOK', NEW d \in Directions
  PROVE  FlowTyped(d)'
<1>1. AllTyped'
  BY FlowTypes, PTL
<1> QED  BY <1>1 DEF AllTyped

(* FlowOK in one line for each relay, f the first and l the last. *)
Ordered(d, f, l) == f = FirstRelay(d) /\ l = LastRelay(d)
FlowParted(d, f, l) ==
  /\ FlowOK(d) <=> ArrivedOK(d) /\ WholeOK(d) /\ HeldOK(l, d) /\ HeldOK(f, d)
  /\ WholeOK(d) <=> (faults = 0 \/ PathOpen(d) => InReach(f, d) = sent[Origin(d)])
  /\ Passed(l, d) = Len(Arrived(d))
  /\ f # l => Passed(f, d) = Len(Arrived(d)) + Len(Held(l, d))
  /\ Beyond(f, d) => Beyond(l, d)
  /\ Beyond(l, d) <=> CanWrite(pipe[Sink(d)][d])
  /\ Beyond(f, d) <=> CanWrite(Target(f, d)) /\ CanWrite(pipe[Sink(d)][d])
  /\ PathOpen(d) <=> Beyond(f, d) /\ CanWrite(pipe[Origin(d)][d])

AllParted ==
  \A d \in Directions, f, l \in Relays : Ordered(d, f, l) => FlowParted(d, f, l)

LEMMA FlowParts == AllParted
BY Places DEF AllParted, FlowParted, Ordered, FlowOK, Working, Passed, Beyond, Target, WholeOK,
              PathOpen

LEMMA FlowPartsNext ==
  ASSUME NEW d \in Directions, NEW f \in Relays, NEW l \in Relays, Ordered(d, f, l)'
  PROVE  FlowParted(d, f, l)'
<1>1. AllParted'
  BY FlowParts, PTL
<1> QED  BY <1>1 DEF AllParted

LEMMA OrderStays ==
  ASSUME kind' = kind, NEW d \in Directions, NEW f, NEW l, Ordered(d, f, l)
  PROVE  Ordered(d, f, l)'
BY SamePlaces DEF Ordered

(* Nothing comes in; what arrives is as before, unless the receiver has    *)
(* gone; and what a relay may still write may have lost its last bytes, if *)
(* nothing from behind may follow.                                         *)
FlowKept(d, f, l) ==
  /\ kind' = kind /\ sent'[Origin(d)] = sent[Origin(d)]
  /\ \E rest \in Seq(Bytes) : Arrived(d) = Arrived(d)' \o rest
  /\ Beyond(l, d)' => /\ Beyond(l, d) /\ Arrived(d)' = Arrived(d)
                      /\ \E rest \in Seq(Bytes) : Held(l, d) = Held(l, d)' \o rest
  /\ Beyond(f, d)' => /\ Beyond(f, d)
                      /\ Held(l, d)' = Held(l, d) \/ f = l
                      /\ \E rest \in Seq(Bytes) : Held(f, d) = Held(f, d)' \o rest
  /\ PathOpen(d)' => PathOpen(d) /\ Held(f, d)' = Held(f, d)
  /\ faults' = 0 =>
       /\ faults = 0 /\ Arrived(d)' = Arrived(d)
       /\ Held(f, d)' = Held(f, d) /\ Held(l, d)' = Held(l, d)

LEMMA FlowKeeps ==
  ASSUME TypeOK, TypeOK', NEW d \in Directions, FlowOK(d),
         NEW f \in Relays, NEW l \in Relays, Ordered(d, f, l), FlowKept(d, f, l)
  PROVE  FlowOK(d)'
<1>1. FlowTyped(d) /\ FlowTyped(d)' /\ FlowParted(d, f, l) /\ FlowParted(d, f, l)'
  BY FlowTypes, FlowTypesNext, FlowParts, FlowPartsNext, OrderStays
     DEF AllTyped, AllParted, FlowKept
<1>2. ASSUME NEW a \in Seq(Bytes), NEW rest \in Seq(Bytes), NEW n \in Nat,
             Follows(n, a \o rest)
      PROVE  Follows(n, a) /\ Len(a) <= Len(a \o rest)
  BY <1>2, FollowsBoth, Concatenated
<1>3. ArrivedOK(d)'
  <2>1. PICK rest \in Seq(Bytes), a \in Seq(Bytes) :
          a = Arrived(d)' /\ Arrived(d) = a \o rest
    BY <1>1 DEF FlowKept, FlowTyped
  <2>2. Follows(0, a \o rest) /\ Len(a \o rest) <= sent[Origin(d)]
    BY <1>1, <2>1 DEF FlowParted, ArrivedOK
  <2>3. Follows(0, a) /\ Len(a) <= Len(a \o rest)
    BY <1>2, <2>2
  <2>4. Len(a) <= sent[Origin(d)]
    <3>1. Len(a) \in Nat /\ Len(a \o rest) \in Nat /\ sent[Origin(d)] \in Nat
      BY <1>1, Concatenated, LenProperties DEF FlowTyped
    <3> QED  BY <2>2, <2>3, <3>1
  <2> QED  BY <2>1, <2>3, <2>4 DEF ArrivedOK, Follows, FlowKept
<1>4. ASSUME NEW r \in Relays, HeldOK(r, d), Beyond(r, d),
             Passed(r, d)' = Passed(r, d),
             \E rest \in Seq(Bytes) : Held(r, d) = Held(r, d)' \o rest
      PROVE  HeldOK(r, d)'
  <2>1. PICK rest \in Seq(Bytes), h \in Seq(Bytes) :
          h = Held(r, d)' /\ Held(r, d) = h \o rest
    BY <1>1, <1>4 DEF FlowTyped
  <2>2. Passed(r, d) \in Nat /\ sent[Origin(d)] \in Nat
    BY <1>1 DEF FlowTyped
  <2>3. /\ Follows(Passed(r, d), h \o rest)
        /\ Passed(r, d) + Len(h \o rest) <= sent[Origin(d)]
    BY <1>4, <2>1 DEF HeldOK, InReach
  <2>4. Follows(Passed(r, d), h) /\ Len(h) <= Len(h \o rest)
    BY <1>2, <2>2, <2>3
  <2>5. Passed(r, d) + Len(h) <= sent[Origin(d)]
    BY <2>2, <2>3, <2>4, Concatenated
  <2> QED  BY <1>4, <2>1, <2>4, <2>5 DEF HeldOK, InReach, Follows, FlowKept
<1>5. HeldOK(l, d)'
  <2>1. CASE Beyond(l, d)'
    BY <1>1, <1>4, <2>1 DEF FlowParted, FlowKept
  <2>2. CASE ~ Beyond(l, d)'
    BY <2>2 DEF HeldOK
  <2> QED  BY <2>1, <2>2
<1>6. HeldOK(f, d)'
  <2>1. CASE Beyond(f, d)' /\ f # l
    <3>1. Passed(f, d)' = Passed(f, d)
      BY <1>1, <2>1 DEF FlowParted, FlowKept
    <3> QED  BY <1>1, <1>4, <2>1, <3>1 DEF FlowParted, FlowKept
  <2>2. CASE ~ Beyond(f, d)'
    BY <2>2 DEF HeldOK
  <2> QED  BY <1>5, <2>1, <2>2
<1>7. WholeOK(d)'
  <2> SUFFICES ASSUME faults' = 0 \/ PathOpen(d)'
               PROVE  InReach(f, d)' = sent[Origin(d)]
    BY <1>1 DEF FlowParted, FlowKept
  <2>1. InReach(f, d) = sent[Origin(d)]
    BY <1>1 DEF FlowKept, FlowParted
  <2>2. /\ Held(f, d)' = Held(f, d) /\ Arrived(d)' = Arrived(d)
        /\ f # l => Held(l, d)' = Held(l, d)
    BY <1>1 DEF FlowKept, FlowParted
  <2>3. Passed(f, d)' = Passed(f, d)
    BY <1>1, <2>2 DEF FlowParted
  <2> QED  BY <2>1, <2>2, <2>3 DEF InReach
<1> QED  BY <1>1, <1>3, <1>5, <1>6, <1>7 DEF FlowParted

(* Bytes w go from one relay to the next, or past the last one. *)
FlowMoved(d, f, l, r, w) ==
  /\ kind' = kind /\ sent'[Origin(d)] = sent[Origin(d)] /\ faults' = faults
  /\ CanWrite(Target(r, d))
  /\ Held(r, d) = w \o Held(r, d)'
  /\ r = l => /\ Arrived(d)' = Arrived(d) \o w
              /\ f # l => Held(f, d)' = Held(f, d)
  /\ r # l => /\ Arrived(d)' = Arrived(d)
              /\ Held(l, d)' = Held(l, d) \o w
  /\ \A s \in Segments : CanWrite(pipe[s][d])' <=> CanWrite(pipe[s][d])

LEMMA FlowMoves ==
  ASSUME TypeOK, TypeOK', NEW d \in Directions, FlowOK(d),
         NEW f \in Relays, NEW l \in Relays, Ordered(d, f, l),
         NEW r \in {f, l}, NEW w \in Seq(Bytes), FlowMoved(d, f, l, r, w)
  PROVE  FlowOK(d)'
<1>1. FlowParted(d, f, l) /\ FlowParted(d, f, l)'
  BY FlowParts, FlowPartsNext, OrderStays DEF AllParted, FlowMoved
<1>2. /\ Beyond(f, d)' <=> Beyond(f, d)
      /\ Beyond(l, d)' <=> Beyond(l, d)
      /\ PathOpen(d)' <=> PathOpen(d)
      /\ CanWrite(pipe[Sink(d)][d]) => Beyond(r, d)
      /\ Beyond(l, d) <=> CanWrite(pipe[Sink(d)][d])
  <2>1. To(f, d) \in Segments /\ To(f, d)' = To(f, d)
        /\ Origin(d) \in Segments /\ Sink(d) \in Segments
    BY Sides, Places, SamePlaces DEF FlowMoved
  <2>2. CanWrite(Target(f, d))' <=> CanWrite(Target(f, d))
    BY <2>1 DEF FlowMoved, Target
  <2> QED  BY <1>1, <2>1, <2>2 DEF FlowParted, FlowMoved, Beyond
<1>3. FlowTyped(d) /\ FlowTyped(d)'
  BY FlowTypes, FlowTypesNext DEF AllTyped
<1>4. /\ Arrived(d) \in Seq(Bytes) /\ Arrived(d)' \in Seq(Bytes)
      /\ Held(f, d) \in Seq(Bytes) /\ Held(f, d)' \in Seq(Bytes)
      /\ Held(l, d) \in Seq(Bytes) /\ Held(l, d)' \in Seq(Bytes)
      /\ sent[Origin(d)] \in Nat /\ Len(w) \in Nat
      /\ Len(Arrived(d)) \in Nat /\ Len(Held(f, d)) \in Nat /\ Len(Held(l, d)) \in Nat
      /\ Len(Arrived(d)') \in Nat /\ Len(Held(f, d)') \in Nat
      /\ Len(Held(l, d)') \in Nat
  BY <1>3, LenProperties DEF FlowTyped
<1>5. /\ ArrivedOK(d) /\ HeldOK(l, d) /\ HeldOK(f, d)
      /\ faults' = 0 \/ PathOpen(d)' => InReach(f, d) = sent[Origin(d)]
      /\ faults' = faults /\ sent'[Origin(d)] = sent[Origin(d)]
  BY <1>1, <1>2 DEF FlowParted, FlowMoved
<1>6. /\ Passed(l, d) = Len(Arrived(d)) /\ Passed(l, d)' = Len(Arrived(d)')
      /\ f # l => /\ Passed(f, d) = Len(Arrived(d)) + Len(Held(l, d))
                  /\ Passed(f, d)' = Len(Arrived(d)') + Len(Held(l, d)')
  BY <1>1 DEF FlowParted
<1>7. ASSUME InReach(f, d)' = InReach(f, d)
      PROVE  WholeOK(d)'
  BY <1>1, <1>5, <1>7 DEF FlowParted
<1>8. CASE r = l
  <2>1. /\ Arrived(d)' = Arrived(d) \o w /\ Held(l, d) = w \o Held(l, d)'
        /\ f # l => Held(f, d)' = Held(f, d)
        /\ Beyond(l, d)
    <3>1. To(l, d) = Sink(d)
      BY Places DEF Ordered
    <3> QED  BY <1>2, <1>8, <3>1 DEF FlowMoved, Target
  <2>2. /\ Follows(0, Arrived(d)) /\ Follows(Len(Arrived(d)), w \o Held(l, d)')
        /\ Len(Arrived(d)) + Len(Held(l, d)) <= sent[Origin(d)]
    BY <1>5, <1>6, <2>1 DEF ArrivedOK, HeldOK, InReach
  <2>3. /\ Len(Arrived(d)') = Len(Arrived(d)) + Len(w)
        /\ Len(Held(l, d)) = Len(w) + Len(Held(l, d)')
    BY <1>4, <2>1, Concatenated
  <2>4. /\ Follows(Len(Arrived(d)), w)
        /\ Follows(Len(Arrived(d)) + Len(w), Held(l, d)')
    BY <1>4, <2>2, FollowsBoth
  <2>5. Follows(0, Arrived(d)')
    <3>1. Follows(0 + Len(Arrived(d)), w)
      BY <1>4, <2>4
    <3> QED  BY <1>4, <2>1, <2>2, <3>1, FollowsBoth
  <2>6. ArrivedOK(d)'
    BY <1>4, <1>5, <2>2, <2>3, <2>5 DEF ArrivedOK, Follows
  <2>7. HeldOK(l, d)'
    <3>1. /\ Passed(l, d)' = Len(Arrived(d)) + Len(w)
          /\ Passed(l, d)' + Len(Held(l, d)') <= sent[Origin(d)]
      BY <1>4, <1>6, <2>2, <2>3
    <3> QED  BY <1>5, <2>4, <3>1 DEF HeldOK, InReach, Follows
  <2>8. CASE f = l
    <3>1. InReach(l, d)' = InReach(l, d)
      BY <1>4, <1>6, <2>3 DEF InReach
    <3> QED  BY <1>1, <1>7, <2>6, <2>7, <2>8, <3>1 DEF FlowParted
  <2>9. CASE f # l
    <3>1. Passed(f, d)' = Passed(f, d)
      BY <1>4, <1>6, <2>3, <2>9
    <3>2. InReach(f, d)' = InReach(f, d)
      BY <2>1, <2>9, <3>1 DEF InReach
    <3>3. HeldOK(f, d)'
      BY <1>2, <1>5, <2>1, <2>9, <3>1, <3>2 DEF HeldOK, Follows
    <3> QED  BY <1>1, <1>7, <2>6, <2>7, <3>2, <3>3 DEF FlowParted
  <2> QED  BY <2>8, <2>9
<1>9. CASE r # l
  <2>1. /\ r = f /\ f # l
        /\ Arrived(d)' = Arrived(d) /\ Held(l, d)' = Held(l, d) \o w
        /\ Held(f, d) = w \o Held(f, d)'
    BY <1>9 DEF FlowMoved
  <2>2. /\ Len(Held(l, d)') = Len(Held(l, d)) + Len(w)
        /\ Len(Held(f, d)) = Len(w) + Len(Held(f, d)')
    BY <1>4, <2>1, Concatenated
  <2>3. ArrivedOK(d)'
    BY <1>5, <2>1 DEF ArrivedOK, Follows
  <2>4. InReach(f, d)' = InReach(f, d)
    BY <1>4, <1>6, <2>1, <2>2 DEF InReach
  <2>5. ASSUME Beyond(l, d)
        PROVE  /\ Follows(Len(Arrived(d)), Held(l, d)')
               /\ Follows(Len(Arrived(d)) + Len(Held(l, d)'), Held(f, d)')
               /\ InReach(f, d) <= sent[Origin(d)]
    <3>1. Beyond(f, d)
      BY <1>2, <2>1, <2>5
    <3>2. PICK n \in Nat : n = Len(Arrived(d)) + Len(Held(l, d))
      BY <1>4
    <3>3. /\ Follows(Len(Arrived(d)), Held(l, d))
          /\ Follows(n, w \o Held(f, d)')
          /\ InReach(f, d) <= sent[Origin(d)]
      BY <1>5, <1>6, <2>1, <2>5, <3>1, <3>2 DEF HeldOK
    <3>4. Follows(n, w) /\ Follows(n + Len(w), Held(f, d)')
      BY <1>4, <3>3, FollowsBoth
    <3>5. Follows(Len(Arrived(d)), Held(l, d) \o w)
      BY <1>4, <3>2, <3>3, <3>4, FollowsBoth
    <3>6. n + Len(w) = Len(Arrived(d)) + Len(Held(l, d)')
      BY <1>4, <2>2, <3>2
    <3> QED  BY <2>1, <3>3, <3>4, <3>5, <3>6
  <2>6. HeldOK(f, d)'
    <3>1. Beyond(f, d) => Beyond(l, d)
      BY <1>1 DEF FlowParted
    <3>2. Passed(f, d)' = Len(Arrived(d)) + Len(Held(l, d)')
      BY <1>6, <2>1
    <3> QED  BY <1>2, <1>5, <2>4, <2>5, <3>1, <3>2 DEF HeldOK, Follows
  <2>7. HeldOK(l, d)'
    <3>1. InReach(l, d)' = Len(Arrived(d)) + Len(Held(l, d)')
      BY <1>6, <2>1 DEF InReach
    <3>2. InReach(f, d) = Len(Arrived(d)) + Len(Held(l, d)') + Len(Held(f, d)')
      BY <1>4, <1>6, <2>1, <2>2 DEF InReach
    <3>3. Beyond(l, d) => InReach(l, d)' <= sent[Origin(d)]
      BY <1>4, <2>5, <3>1, <3>2
    <3>4. Passed(l, d)' = Len(Arrived(d))
      BY <1>6, <2>1
    <3> QED  BY <1>2, <1>5, <2>5, <3>3, <3>4 DEF HeldOK, Follows
  <2> QED  BY <1>1, <1>7, <2>3, <2>4, <2>6, <2>7 DEF FlowParted
<1> QED  BY <1>8, <1>9

(* The sender sends another byte. *)
FlowSent(d, f, l) ==
  /\ kind' = kind /\ sent'[Origin(d)] = sent[Origin(d)] + 1 /\ faults' = faults
  /\ CanWrite(pipe[Origin(d)][d])
  /\ Arrived(d)' = Arrived(d)
  /\ Held(f, d)' = Held(f, d) \o <<sent[Origin(d)] + 1>>
  /\ <<sent[Origin(d)] + 1>> \in Seq(Bytes)
  /\ f # l => Held(l, d)' = Held(l, d)
  /\ \A s \in Segments : CanWrite(pipe[s][d])' <=> CanWrite(pipe[s][d])

LEMMA FlowSends ==
  ASSUME TypeOK, TypeOK', NEW d \in Directions, FlowOK(d),
         NEW f \in Relays, NEW l \in Relays, Ordered(d, f, l), FlowSent(d, f, l)
  PROVE  FlowOK(d)'
<1>1. FlowParted(d, f, l) /\ FlowParted(d, f, l)'
  BY FlowParts, FlowPartsNext, OrderStays DEF AllParted, FlowSent
<1>2. /\ Beyond(f, d)' <=> Beyond(f, d)
      /\ Beyond(l, d)' <=> Beyond(l, d)
      /\ PathOpen(d)' <=> PathOpen(d)
      /\ Beyond(f, d) => PathOpen(d)
  <2>1. To(f, d) \in Segments /\ To(f, d)' = To(f, d)
        /\ Origin(d) \in Segments /\ Sink(d) \in Segments
    BY Sides, Places, SamePlaces DEF FlowSent
  <2>2. CanWrite(Target(f, d))' <=> CanWrite(Target(f, d))
    BY <2>1 DEF FlowSent, Target
  <2> QED  BY <1>1, <2>1, <2>2 DEF FlowParted, FlowSent
<1>3. /\ Held(f, d) \in Seq(Bytes) /\ Held(l, d) \in Seq(Bytes)
      /\ sent[Origin(d)] \in Nat
      /\ Len(Arrived(d)) \in Nat /\ Len(Held(f, d)) \in Nat /\ Len(Held(l, d)) \in Nat
      /\ Passed(f, d) \in Nat /\ InReach(l, d) \in Nat
  BY FlowTypes DEF AllTyped, FlowTyped
<1>4. /\ ArrivedOK(d) /\ HeldOK(l, d) /\ HeldOK(f, d)
      /\ faults = 0 \/ PathOpen(d) => InReach(f, d) = sent[Origin(d)]
      /\ Passed(l, d) = Len(Arrived(d)) /\ Passed(l, d)' = Len(Arrived(d)')
      /\ f # l => /\ Passed(f, d) = Len(Arrived(d)) + Len(Held(l, d))
                  /\ Passed(f, d)' = Len(Arrived(d)') + Len(Held(l, d)')
  BY <1>1 DEF FlowParted
<1>5. PICK n \in Nat, b \in Seq(Bytes) : n = sent[Origin(d)] /\ b = <<n + 1>>
  BY <1>3 DEF FlowSent
<1>6. /\ sent'[Origin(d)] = n + 1 /\ faults' = faults
      /\ Arrived(d)' = Arrived(d)
      /\ Held(f, d)' = Held(f, d) \o b
      /\ f # l => Held(l, d)' = Held(l, d)
  BY <1>5 DEF FlowSent
<1>7. Len(Held(f, d)') = Len(Held(f, d)) + 1
  <2>1. Len(b) = 1
    BY <1>5
  <2> QED  BY <1>3, <1>6, <2>1, Concatenated
<1>8. Passed(f, d)' = Passed(f, d)
  BY <1>4, <1>6
<1>9. InReach(f, d)' = InReach(f, d) + 1 /\ InReach(f, d) \in Nat
  <2>1. PICK m \in Nat, k \in Nat, i \in Nat :
          m = Passed(f, d) /\ k = Len(Held(f, d)) /\ i = Len(Held(f, d)')
    BY <1>3, <1>7
  <2>2. Passed(f, d)' = m /\ i = k + 1
    BY <1>7, <1>8, <2>1
  <2>3. InReach(f, d)' = m + i /\ InReach(f, d) = m + k
    BY <2>1, <2>2 DEF InReach
  <2> QED  BY <2>2, <2>3
<1>10. ArrivedOK(d)'
  BY <1>3, <1>4, <1>5, <1>6 DEF ArrivedOK, Follows
<1>11. WholeOK(d)'
  BY <1>1, <1>2, <1>4, <1>5, <1>6, <1>9 DEF FlowParted
<1>12. HeldOK(f, d)'
  <2> SUFFICES ASSUME Beyond(f, d)
               PROVE  Follows(Passed(f, d), Held(f, d) \o b)
    BY <1>2, <1>4, <1>5, <1>6, <1>8, <1>9 DEF HeldOK, Follows
  <2>1. Follows(Passed(f, d), Held(f, d)) /\ Passed(f, d) + Len(Held(f, d)) = n
    BY <1>2, <1>4, <1>5 DEF HeldOK, InReach
  <2>2. Follows(n, b)
    BY <1>5 DEF Follows
  <2> QED  BY <1>3, <2>1, <2>2, FollowsBoth
<1>13. HeldOK(l, d)'
  <2>1. CASE f = l
    BY <1>12, <2>1
  <2>2. CASE f # l
    <3>1. Passed(l, d)' = Passed(l, d) /\ InReach(l, d)' = InReach(l, d)
      BY <1>4, <1>6, <2>2 DEF InReach
    <3> QED
      BY <1>2, <1>3, <1>4, <1>5, <1>6, <2>2, <3>1 DEF HeldOK, Follows
  <2> QED  BY <2>1, <2>2
<1> QED  BY <1>1, <1>10, <1>11, <1>12, <1>13 DEF FlowParted

-----------------------------------------------------------------------------
(* What the steps do to the pipes, field by field. *)

SamePipe(s, d) == pipe'[s][d] = pipe[s][d]
SameData(s, d) == pipe'[s][d].data = pipe[s][d].data
Within(s, p) == Len(Contents(p)) <= Capacity(s)

LEMMA SetPipe ==
  ASSUME TypeOK, NEW s \in Segments, NEW d \in Directions, NEW q \in Pipe,
         pipe' = [pipe EXCEPT ![s][d] = q], Within(s, q)
  PROVE  /\ pipe' \in [Segments -> [Directions -> Pipe]]
         /\ \A t \in Segments, e \in Directions : Within(t, pipe'[t][e])
         /\ pipe'[s][d] = q
         /\ \A t \in Segments, e \in Directions :
              t # s \/ e # d => pipe'[t][e] = pipe[t][e]
<1>1. pipe \in [Segments -> [Directions -> Pipe]]
  BY DEF TypeOK
<1>2. /\ pipe' \in [Segments -> [Directions -> Pipe]]
      /\ pipe'[s][d] = q
      /\ \A t \in Segments, e \in Directions :
           t # s \/ e # d => pipe'[t][e] = pipe[t][e]
  BY <1>1
<1>3. ASSUME NEW t \in Segments, NEW e \in Directions
      PROVE  Within(t, pipe'[t][e])
  <2>1. Within(t, pipe[t][e])
    BY DEF TypeOK, Within
  <2> QED  BY <1>2, <2>1
<1> QED  BY <1>2, <1>3

LEMMA Capacities ==
  ASSUME NEW s \in Segments
  PROVE  Capacity(s) \in Nat \ {0}
BY DEF Capacity

LEMMA PutData ==
  ASSUME NEW s, NEW p \in Pipe, NEW b \in Seq(Bytes), b # <<>>
  PROVE  /\ Put(s, p, b) \in Pipe
         /\ Contents(Put(s, p, b)) = Contents(p) \o b
         /\ Put(s, p, b).end = p.end /\ Put(s, p, b).deaf = p.deaf
         /\ ~ Framed(s) => Len(Put(s, p, b).data) <= 1
<1>1. p.data \in Data /\ Contents(p) \in Seq(Bytes)
  BY FlattenInBytes DEF Pipe, Data, Contents
<1>2. CASE Framed(s)
  <2>1. Put(s, p, b) = [p EXCEPT !.data = Append(p.data, b)]
    BY <1>2 DEF Put
  <2>2. Append(p.data, b) \in Data
    BY <1>1, AppendData
  <2>3. /\ Put(s, p, b) \in Pipe /\ Put(s, p, b).data = Append(p.data, b)
        /\ Put(s, p, b).end = p.end /\ Put(s, p, b).deaf = p.deaf
    BY <2>1, <2>2 DEF Pipe, Data
  <2> QED  BY <1>1, <1>2, <2>3, AppendData DEF Contents
<1>3. CASE ~ Framed(s)
  <2>1. PICK c \in Seq(Bytes) : c = Contents(p) \o b
    BY <1>1, Concatenated
  <2>2. Put(s, p, b) = [p EXCEPT !.data = Stream(c)]
    BY <1>3, <2>1 DEF Put
  <2>3. Stream(c) \in Data /\ FlattenSeq(Stream(c)) = c /\ Len(Stream(c)) <= 1
    BY StreamData
  <2>4. /\ Put(s, p, b) \in Pipe /\ Put(s, p, b).data = Stream(c)
        /\ Put(s, p, b).end = p.end /\ Put(s, p, b).deaf = p.deaf
    BY <2>2, <2>3 DEF Pipe, Data
  <2> QED  BY <2>1, <2>3, <2>4 DEF Contents
<1> QED  BY <1>2, <1>3

LEMMA SetData ==
  ASSUME NEW p \in Pipe, NEW q \in Data
  PROVE  /\ [p EXCEPT !.data = q] \in Pipe
         /\ [p EXCEPT !.data = q].data = q
         /\ [p EXCEPT !.data = q].end = p.end
         /\ [p EXCEPT !.data = q].deaf = p.deaf
BY DEF Pipe, Data

LEMMA FinishedPipe ==
  ASSUME NEW p \in Pipe
  PROVE  /\ Finished(p) \in Pipe
         /\ Finished(p).data = p.data /\ Finished(p).deaf = p.deaf
         /\ Finished(p).end = IF p.end = "open" THEN "fin" ELSE p.end
BY DEF Pipe, Finished

LEMMA EmptyContents ==
  ASSUME NEW p, p.data = <<>>
  PROVE  Contents(p) = <<>>
BY FlattenEmpty DEF Contents

(* q is what segment p may be after the side that wrote d has dropped it. *)
DropsTo(p, d, q) ==
  /\ q \in [Directions -> Pipe]
  /\ q[d].data = p[d].data /\ q[d].deaf = p[d].deaf
  /\ q[d].end \in {"fin", "reset"}
  /\ p[d].end = "fin" /\ p[Opposite(d)].end # "open" => q[d].end = "fin"
  /\ q[Opposite(d)].data = <<>> /\ q[Opposite(d)].deaf = TRUE
  /\ q[Opposite(d)].end = p[Opposite(d)].end

LEMMA Drops ==
  ASSUME NEW s, NEW d \in Directions, NEW p \in [Directions -> Pipe],
         NEW q \in Dropped(s, d, p)
  PROVE  DropsTo(p, d, q)
<1>1. Opposite(d) \in Directions /\ Opposite(d) # d
  BY Places
<1>2. PICK found \in EndsFound(s, p[d], p[Opposite(d)]) :
        q = [p EXCEPT ![d].end = found, ![Opposite(d)] = Unread(p[Opposite(d)])]
  BY DEF Dropped
<1>3. p[d] \in Pipe /\ p[Opposite(d)] \in Pipe
  BY <1>1
<1>4. /\ found \in {"fin", "reset"}
      /\ p[d].end = "fin" /\ p[Opposite(d)].end # "open" => found = "fin"
  BY <1>3 DEF EndsFound, Pipe
<1>5. PICK a \in Pipe, b \in Pipe :
        a = [p[d] EXCEPT !.end = found] /\ b = Unread(p[Opposite(d)])
  BY <1>3, <1>4, Empty DEF Pipe, Unread, Data
<1>6. /\ a.data = p[d].data /\ a.deaf = p[d].deaf /\ a.end = found
      /\ b.data = <<>> /\ b.deaf = TRUE /\ b.end = p[Opposite(d)].end
  BY <1>3, <1>5 DEF Pipe, Unread
<1>7. q = [p EXCEPT ![d] = a, ![Opposite(d)] = b]
  BY <1>1, <1>2, <1>5
<1>8. q \in [Directions -> Pipe] /\ q[d] = a /\ q[Opposite(d)] = b
  BY <1>1, <1>7
<1> QED  BY <1>4, <1>6, <1>8 DEF DropsTo

(* What the end of relay r's task makes of the pipes p. *)
TaskOver(r, p) ==
  /\ pipe' \in [Segments -> [Directions -> Pipe]]
  /\ \A d \in Directions :
       /\ pipe'[From(r, d)][d].data = <<>> /\ pipe'[From(r, d)][d].deaf = TRUE
       /\ pipe'[From(r, d)][d].end = p[From(r, d)][d].end
       /\ pipe'[To(r, d)][d].data = p[To(r, d)][d].data
       /\ pipe'[To(r, d)][d].deaf = p[To(r, d)][d].deaf
       /\ pipe'[To(r, d)][d].end \in {"fin", "reset"}
       /\ p[To(r, d)][d].end = "fin" /\ p[To(r, d)][Opposite(d)].end # "open"
            => pipe'[To(r, d)][d].end = "fin"
       /\ \A s \in Segments : s # From(r, d) /\ s # To(r, d) =>
            pipe'[s][d] = p[s][d]
  /\ buffer' = [buffer EXCEPT ![r] = Both(<<>>)]
  /\ pending' = [pending EXCEPT ![r] = <<>>]
  /\ copy' = [copy EXCEPT ![r] = Both("ended")]

LEMMA TasksOver ==
  ASSUME NEW r \in Relays, r = "in" \/ kind # "direct",
         NEW p \in [Segments -> [Directions -> Pipe]], TaskEnds(r, p)
  PROVE  TaskOver(r, p)
<1>1. /\ Near(r) \in Segments /\ Far(r) \in Segments /\ Near(r) # Far(r)
      /\ Forth(r) \in Directions
  BY DEF Near, Far, Forth
<1>2. PICK d \in Directions, e \in Directions : d = Forth(r) /\ e = Opposite(d)
  BY <1>1, Places
<1>3. d # e /\ Opposite(e) = d /\ \A c \in Directions : c = d \/ c = e
  BY <1>2, Places
<1>4. PICK near \in Dropped(Near(r), e, p[Near(r)]),
           far \in Dropped(Far(r), d, p[Far(r)]) :
        pipe' = [p EXCEPT ![Near(r)] = near, ![Far(r)] = far]
  BY <1>2 DEF TaskEnds
<1>5. DropsTo(p[Near(r)], e, near) /\ DropsTo(p[Far(r)], d, far)
  BY <1>1, <1>4, Drops
<1>6. /\ pipe' \in [Segments -> [Directions -> Pipe]]
      /\ pipe'[Near(r)] = near /\ pipe'[Far(r)] = far
      /\ \A s \in Segments : s # Near(r) /\ s # Far(r) => pipe'[s] = p[s]
  BY <1>1, <1>4, <1>5 DEF DropsTo
<1>7. /\ From(r, d) = Near(r) /\ To(r, d) = Far(r)
      /\ From(r, e) = Far(r) /\ To(r, e) = Near(r)
  BY <1>2, <1>3 DEF From, To
<1>8. /\ buffer' = [buffer EXCEPT ![r] = Both(<<>>)]
      /\ pending' = [pending EXCEPT ![r] = <<>>]
      /\ copy' = [copy EXCEPT ![r] = Both("ended")]
  BY DEF TaskEnds
<1> QED  BY <1>2, <1>3, <1>5, <1>6, <1>7, <1>8 DEF DropsTo, TaskOver

-----------------------------------------------------------------------------
(* How a direction reads after a step that leaves the kind of the tunnel.  *)

FlowNext(d, f, l) ==
  /\ Ordered(d, f, l)
  /\ Arrived(d)' = received'[Sink(d)] \o Contents(pipe'[Sink(d)][d])
  /\ \A r \in {f, l} :
       Held(r, d)' =
         (buffer'[r][d] \o (IF From(r, d) = "tunnel" THEN pending'[r] ELSE <<>>))
           \o Contents(pipe'[From(r, d)][d])
  /\ Beyond(l, d)' <=> CanWrite(pipe'[Sink(d)][d])
  /\ Beyond(f, d)' <=> /\ CanWrite(pipe'[To(f, d)][d])
                       /\ CanWrite(pipe'[Sink(d)][d])
  /\ PathOpen(d)' <=> Beyond(f, d)' /\ CanWrite(pipe'[Origin(d)][d])

LEMMA FlowAfter ==
  ASSUME TypeOK, kind' = kind, NEW d \in Directions
  PROVE  \E f, l \in Relays : /\ f \in Working(d) /\ l \in Working(d)
                              /\ \A r \in Working(d) : r = f \/ r = l
                              /\ FlowNext(d, f, l)
<1>1. PICK f \in Relays, l \in Relays : Ordered(d, f, l)
  BY Places DEF Ordered
<1>2. FlowParted(d, f, l)'
  BY <1>1, FlowPartsNext, OrderStays
<1>3. \A r \in Relays : From(r, d)' = From(r, d) /\ To(r, d)' = To(r, d)
  BY SamePlaces
<1>4. \A r \in {f, l} :
        Held(r, d)' =
          (buffer'[r][d] \o (IF From(r, d) = "tunnel" THEN pending'[r] ELSE <<>>))
            \o Contents(pipe'[From(r, d)][d])
  BY <1>3 DEF Held, Kept, Source, Contents
<1>5. Arrived(d)' = received'[Sink(d)] \o Contents(pipe'[Sink(d)][d])
  BY DEF Arrived, Contents
<1>6. /\ Beyond(l, d)' <=> CanWrite(pipe'[Sink(d)][d])
      /\ Beyond(f, d)' <=> /\ CanWrite(pipe'[To(f, d)][d])
                           /\ CanWrite(pipe'[Sink(d)][d])
      /\ PathOpen(d)' <=> Beyond(f, d)' /\ CanWrite(pipe'[Origin(d)][d])
  BY <1>2, <1>3 DEF FlowParted, CanWrite, Target
<1> QED  BY <1>1, <1>4, <1>5, <1>6 DEF FlowNext, Ordered, Working

(* A step that touches none of a direction's bytes and opens nothing.      *)
QuietFlow(d) ==
  /\ kind' = kind
  /\ sent'[Origin(d)] = sent[Origin(d)] /\ received'[Sink(d)] = received[Sink(d)]
  /\ \A r \in Working(d) :
       /\ buffer'[r][d] = buffer[r][d]
       /\ From(r, d) = "tunnel" => pending'[r] = pending[r]
  /\ \A s \in Segments : /\ SameData(s, d)
                         /\ CanWrite(pipe'[s][d]) => CanWrite(pipe[s][d])
  /\ faults' = 0 => faults = 0

LEMMA FlowQuiet ==
  ASSUME TypeOK, TypeOK', NEW d \in Directions, FlowOK(d), QuietFlow(d)
  PROVE  FlowOK(d)'
<1>1. PICK f \in Relays, l \in Relays : FlowNext(d, f, l)
           /\ f \in Working(d) /\ l \in Working(d)
  BY FlowAfter DEF QuietFlow
<1>2. Ordered(d, f, l) /\ FlowParted(d, f, l) /\ FlowTyped(d)
  BY <1>1, FlowParts, FlowTypes DEF AllParted, AllTyped, FlowNext
<1>3. /\ Sink(d) \in Segments /\ Origin(d) \in Segments
      /\ \A r \in {f, l} : From(r, d) \in Segments /\ To(r, d) \in Segments
  BY Places, Sides
<1>4. Arrived(d)' = Arrived(d)
  BY <1>1, <1>3 DEF FlowNext, QuietFlow, Arrived, SameData, Contents
<1>5. ASSUME NEW r \in {f, l}
      PROVE  Held(r, d)' = Held(r, d)
  <2>1. /\ buffer'[r][d] = buffer[r][d]
        /\ From(r, d) = "tunnel" => pending'[r] = pending[r]
        /\ pipe'[From(r, d)][d].data = pipe[From(r, d)][d].data
    BY <1>1, <1>3 DEF QuietFlow, SameData
  <2>2. Held(r, d)' =
          (buffer'[r][d] \o (IF From(r, d) = "tunnel" THEN pending'[r] ELSE <<>>))
            \o Contents(pipe'[From(r, d)][d])
    BY <1>1 DEF FlowNext
  <2> QED  BY <2>1, <2>2 DEF Held, Kept, Source, Contents
<1>6. /\ Beyond(l, d)' => Beyond(l, d)
      /\ Beyond(f, d)' => Beyond(f, d)
      /\ PathOpen(d)' => PathOpen(d)
  BY <1>1, <1>2, <1>3 DEF FlowNext, QuietFlow, FlowParted, Target
<1>7. Arrived(d) = Arrived(d) \o <<>> /\ \A r \in {f, l} : Held(r, d) = Held(r, d) \o <<>>
  BY <1>2, Empty DEF FlowTyped
<1>8. FlowKept(d, f, l)
  BY <1>4, <1>5, <1>6, <1>7, Empty DEF FlowKept, QuietFlow
<1> QED  BY <1>2, <1>8, FlowKeeps

(* What relay r has for d has been written, read up, and nothing is kept.  *)
NothingHeld(r, d) == buffer[r][d] = <<>> /\ AllRead(r, d)

LEMMA HeldNothing ==
  ASSUME NEW r, NEW d, NothingHeld(r, d)
  PROVE  Held(r, d) = <<>>
<1>1. Contents(Source(r, d)) = <<>>
  BY EmptyContents DEF NothingHeld, AllRead
<1>2. Kept(r, d) = <<>>
  BY DEF Kept, NothingHeld, AllRead
<1>3. buffer[r][d] = <<>>
  BY DEF NothingHeld
<1> QED  BY <1>1, <1>2, <1>3, Empty DEF Held

(* The task of relay r is over, after it has perhaps shut down a writer.   *)
FlowIsOver(r, p, d) ==
  /\ kind' = kind /\ sent' = sent /\ received' = received
  /\ TaskOver(r, p)
  /\ \A s \in Segments : /\ p[s][d].data = pipe[s][d].data
                         /\ CanWrite(p[s][d]) => CanWrite(pipe[s][d])
  /\ faults' = 0 => faults = 0 /\ NothingHeld(r, d)

LEMMA FlowOver ==
  ASSUME TypeOK, TypeOK', NEW d \in Directions, FlowOK(d),
         NEW r \in Working(d), NEW p, FlowIsOver(r, p, d)
  PROVE  FlowOK(d)'
<1>1. PICK f \in Relays, l \in Relays : /\ FlowNext(d, f, l) /\ (r = f \/ r = l)
                                        /\ f \in Working(d) /\ l \in Working(d)
  BY FlowAfter DEF FlowIsOver
<1>2. Ordered(d, f, l) /\ FlowParted(d, f, l) /\ FlowTyped(d)
  BY <1>1, FlowParts, FlowTypes DEF AllParted, AllTyped, FlowNext
<1>3. /\ Sink(d) \in Segments /\ Origin(d) \in Segments
      /\ \A c \in {f, l} : From(c, d) \in Segments /\ To(c, d) \in Segments
      /\ From(f, d) = Origin(d) /\ To(l, d) = Sink(d) /\ Origin(d) # Sink(d)
      /\ Origin(d) # "tunnel" /\ Sink(d) # "tunnel"
      /\ f # l => To(f, d) = "tunnel" /\ From(l, d) = "tunnel"
      /\ From(r, d) # To(r, d)
  <2>1. r \in Relays
    BY <1>1
  <2>2. /\ From(r, d) # To(r, d)
        /\ \A c \in {f, l} : From(c, d) \in Segments /\ To(c, d) \in Segments
    BY <2>1, Sides
  <2> QED  BY <1>2, <2>2, Places DEF Ordered
<1>4. Arrived(d)' = Arrived(d)
  <2>1. Sink(d) # From(r, d)
    BY <1>1, <1>3
  <2>2. SameData(Sink(d), d)
    BY <1>3, <2>1 DEF FlowIsOver, TaskOver, SameData
  <2> QED  BY <1>1, <2>2 DEF FlowNext, FlowIsOver, Arrived, SameData, Contents
<1>5. Held(r, d)' = <<>>
  <2>1. /\ Contents(pipe'[From(r, d)][d]) = <<>>
        /\ buffer'[r][d] = <<>> /\ pending'[r] = <<>>
    <3>1. pipe'[From(r, d)][d].data = <<>>
      BY DEF FlowIsOver, TaskOver
    <3> QED  BY <1>1, <3>1, EmptyContents DEF FlowIsOver, TaskOver, TypeOK, Both
  <2> QED  BY <1>1, <2>1, Empty DEF FlowNext
<1>6. faults' = 0 => Held(r, d)' = Held(r, d) /\ faults = 0
  BY <1>5, HeldNothing DEF FlowIsOver
<1>7. ~ CanWrite(pipe'[To(r, d)][d])
  BY DEF FlowIsOver, TaskOver, CanWrite
<1>8. /\ Arrived(d) = Arrived(d) \o <<>> /\ <<>> \in Seq(Bytes)
      /\ \A c \in {f, l} : Held(c, d) = Held(c, d) \o <<>> /\ Held(c, d) = <<>> \o Held(c, d)
  BY <1>2, Empty DEF FlowTyped
<1>9. CASE r = l
  <2>1. ~ Beyond(l, d)' /\ ~ Beyond(f, d)' /\ ~ PathOpen(d)'
    BY <1>1, <1>3, <1>7, <1>9 DEF FlowNext
  <2>2. f # l => Held(f, d)' = Held(f, d)
    <3> SUFFICES ASSUME f # l PROVE Held(f, d)' = Held(f, d)
      OBVIOUS
    <3>1. SameData(From(f, d), d)
      <4>1. From(f, d) # From(r, d) /\ From(f, d) # To(r, d)
        BY <1>3, <1>9
      <4> QED  BY <1>3, <4>1 DEF FlowIsOver, TaskOver, SameData
    <3>2. buffer'[f][d] = buffer[f][d]
      <4>1. buffer'[f] = buffer[f]
        BY <1>9 DEF FlowIsOver, TaskOver, TypeOK
      <4> QED  BY <4>1
    <3> QED  BY <1>1, <1>3, <3>1, <3>2 DEF FlowNext, Held, Kept, Source, SameData, Contents
  <2>3. FlowKept(d, f, l)
    BY <1>4, <1>6, <1>8, <1>9, <2>1, <2>2 DEF FlowKept, FlowIsOver
  <2> QED  BY <1>2, <2>3, FlowKeeps
<1>10. CASE r # l
  <2>1. r = f
    BY <1>1, <1>10
  <2>2. /\ ~ Beyond(f, d)' /\ ~ PathOpen(d)'
        /\ Beyond(l, d)' => Beyond(l, d)
    <3>1. Sink(d) # From(f, d) /\ Sink(d) # To(f, d)
      BY <1>3, <1>10, <2>1
    <3>2. CanWrite(pipe'[Sink(d)][d]) => CanWrite(pipe[Sink(d)][d])
      BY <1>3, <2>1, <3>1 DEF FlowIsOver, TaskOver
    <3> QED  BY <1>1, <1>2, <1>7, <2>1, <3>2 DEF FlowNext, FlowParted
  <2>3. Held(l, d)' = Held(l, d)
    <3>1. SameData(From(l, d), d)
      <4>1. From(l, d) = To(r, d)
        BY <1>3, <1>10, <2>1
      <4> QED  BY <1>3, <4>1 DEF FlowIsOver, TaskOver, SameData
    <3>2. buffer'[l] = buffer[l] /\ pending'[l] = pending[l]
      BY <1>10 DEF FlowIsOver, TaskOver, TypeOK
    <3> QED  BY <1>1, <3>1, <3>2 DEF FlowNext, Held, Kept, Source, SameData, Contents
  <2>4. FlowKept(d, f, l)
    BY <1>4, <1>6, <1>8, <2>1, <2>2, <2>3 DEF FlowKept, FlowIsOver
  <2> QED  BY <1>2, <2>4, FlowKeeps
<1> QED  BY <1>9, <1>10

-----------------------------------------------------------------------------
(* How CalmOK reads after a step that leaves the kind of the tunnel.       *)

EndsNext(r, d) ==
  /\ pipe'[To(r, d)][d].end = "fin" <=> copy'[r][d] = "ended"
  /\ pipe'[From(r, d)][d].deaf \/ pc'[r] = "done" => copy'[r][d] = "ended"
  /\ copy'[r][d] # "copying" =>
       /\ pipe'[From(r, d)][d].data = <<>>
       /\ From(r, d) = "tunnel" => pending'[r] = <<>>
       /\ pipe'[From(r, d)][d].end = "fin"
  /\ copy'[r][d] = "ended" => buffer'[r][d] = <<>>

SniffedEndNext ==
  end' => /\ pc'["in"] \in {"select", "connect"}
          /\ pipe'["client"]["up"].end = "fin"
          /\ pipe'["client"]["up"].data = <<>>

CalmNext ==
  faults' = 0 =>
    /\ \A s \in Segments, d \in Directions : pipe'[s][d].end # "reset"
    /\ \A d \in Directions : /\ ~ pipe'[Sink(d)][d].deaf
                             /\ \A r \in Working(d) : EndsNext(r, d)
    /\ SniffedEndNext

LEMMA ClientSide == From("in", "up") = "client"
BY DEF From, Near, Forth

LEMMA CalmAfter ==
  ASSUME TypeOK, kind' = kind, CalmNext
  PROVE  CalmOK'
<1> SUFFICES ASSUME faults' = 0
             PROVE  CalmOK'
  BY DEF CalmOK
<1>1. ASSUME NEW d \in Directions, NEW r \in Working(d)'
      PROVE  EndsOK(r, d)'
  <2>1. r \in Working(d) /\ r \in Relays
    BY <1>1, SamePlaces, Places DEF Working
  <2>2. From(r, d)' = From(r, d) /\ To(r, d)' = To(r, d)
    BY <2>1, SamePlaces
  <2>3. EndsNext(r, d)
    BY <2>1 DEF CalmNext
  <2> QED  BY <2>2, <2>3 DEF EndsNext, EndsOK, AllRead, Source, Target
<1>2. end' => /\ pc'["in"] \in {"select", "connect"}
              /\ Source("in", "up").end' = "fin" /\ AllRead("in", "up")'
  <2>1. From("in", "up")' = "client"
    BY DEF From, Near, Forth
  <2> QED  BY <2>1 DEF CalmNext, SniffedEndNext, Source, AllRead
<1> QED  BY <1>1, <1>2 DEF CalmOK, CalmNext

LEMMA CalmNow ==
  ASSUME TypeOK, CalmOK, faults = 0
  PROVE  /\ \A s \in Segments, d \in Directions : pipe[s][d].end \in {"open", "fin"}
         /\ \A d \in Directions : /\ ~ pipe[Sink(d)][d].deaf
                                  /\ \A r \in Working(d) : EndsOK(r, d)
         /\ end => /\ pc["in"] \in {"select", "connect"}
                   /\ pipe["client"]["up"].end = "fin"
                   /\ pipe["client"]["up"].data = <<>>
BY PipeTypes, ClientSide DEF CalmOK, Source, AllRead

(* A step that leaves the bytes alone and opens nothing.                   *)
QuietStep ==
  /\ kind' = kind /\ UNCHANGED <<sent, received, buffer, pending>>
  /\ \A s \in Segments, d \in Directions :
       SameData(s, d) /\ (CanWrite(pipe'[s][d]) => CanWrite(pipe[s][d]))
  /\ faults' = 0 => faults = 0

LEMMA QuietSteps ==
  ASSUME TypeOK, TypeOK', QuietStep, \A d \in Directions : FlowOK(d)
  PROVE  \A d \in Directions : FlowOK(d)'
<1> SUFFICES ASSUME NEW d \in Directions PROVE FlowOK(d)'
  OBVIOUS
<1>1. QuietFlow(d)
  BY DEF QuietFlow, QuietStep
<1> QED  BY <1>1, FlowQuiet

(* A step of the tasks that leaves the pipes alone.                        *)
LEMMA OpenStreamStep ==
  ASSUME IInv, OpenStream
  PROVE  IInv'
<1> USE DEF OpenStream, inVars, copyVars, endVars, NoFault
<1>1. TypeOK /\ StagesOK /\ CalmOK /\ \A d \in Directions : FlowOK(d)
  BY DEF IInv
<1>2. TypeOK'
  BY <1>1 DEF TypeOK, Contents
<1>3. StagesOK'
  BY <1>1 DEF StagesOK, Framed, TypeOK
<1>4. CalmOK'
  <2>1. ASSUME faults' = 0, NEW d \in Directions, NEW r \in Working(d)
        PROVE  EndsNext(r, d)
    <3>1. EndsOK(r, d) /\ r \in Relays
      BY <1>1, <2>1, CalmNow, Places DEF Working
    <3> QED  BY <1>1, <3>1 DEF EndsNext, EndsOK, Source, Target, AllRead, TypeOK
  <2>2. faults' = 0 => SniffedEndNext
    BY <1>1, CalmNow DEF SniffedEndNext, TypeOK
  <2>3. CalmNext
    BY <1>1, <2>1, <2>2, CalmNow DEF CalmNext
  <2> QED  BY <1>1, <2>3, CalmAfter
<1>5. QuietStep
  BY DEF QuietStep, SameData
<1> QED  BY <1>1, <1>2, <1>3, <1>4, <1>5, QuietSteps DEF IInv

LEMMA ConnectDirectStep ==
  ASSUME IInv, ConnectDirect
  PROVE  IInv'
<1> USE DEF ConnectDirect, inVars, copyVars, endVars, NoFault
<1>1. TypeOK /\ StagesOK /\ CalmOK /\ \A d \in Directions : FlowOK(d)
  BY DEF IInv
<1>2. TypeOK'
  BY <1>1 DEF TypeOK, Contents
<1>3. StagesOK'
  BY <1>1 DEF StagesOK, Framed, TypeOK
<1>4. CalmOK'
  <2>1. ASSUME faults' = 0, NEW d \in Directions, NEW r \in Working(d)
        PROVE  EndsNext(r, d)
    <3>1. EndsOK(r, d) /\ r \in Relays
      BY <1>1, <2>1, CalmNow, Places DEF Working
    <3> QED  BY <1>1, <3>1 DEF EndsNext, EndsOK, Source, Target, AllRead, TypeOK
  <2>2. faults' = 0 => SniffedEndNext
    BY <1>1, CalmNow DEF SniffedEndNext, TypeOK
  <2>3. CalmNext
    BY <1>1, <2>1, <2>2, CalmNow DEF CalmNext
  <2> QED  BY <1>1, <2>3, CalmAfter
<1>5. QuietStep
  BY DEF QuietStep, SameData
<1> QED  BY <1>1, <1>2, <1>3, <1>4, <1>5, QuietSteps DEF IInv

LEMMA OutConnectedStep ==
  ASSUME IInv, OutConnected
  PROVE  IInv'
<1> USE DEF OutConnected, inVars, copyVars, endVars, NoFault
<1>1. TypeOK /\ StagesOK /\ CalmOK /\ \A d \in Directions : FlowOK(d)
  BY DEF IInv
<1>2. TypeOK'
  <2>1. ASSUME NEW r \in Relays, NEW d \in Directions, pc'[r] = "copy"
        PROVE  Len(buffer[r][d]) <= BufferSize
    <3>1. pc[r] = "copy" \/ buffer[r][d] = <<>>
      BY <1>1, <2>1 DEF TypeOK, StagesOK
    <3> QED  BY <1>1, <3>1, Empty DEF TypeOK
  <2> QED  BY <1>1, <2>1 DEF TypeOK, Contents
<1>3. StagesOK'
  BY <1>1 DEF StagesOK, Framed, TypeOK
<1>4. CalmOK'
  <2>1. ASSUME faults' = 0, NEW d \in Directions, NEW r \in Working(d)
        PROVE  EndsNext(r, d)
    <3>1. EndsOK(r, d) /\ r \in Relays
      BY <1>1, <2>1, CalmNow, Places DEF Working
    <3> QED  BY <1>1, <3>1 DEF EndsNext, EndsOK, Source, Target, AllRead, TypeOK
  <2>2. faults' = 0 => SniffedEndNext
    BY <1>1, CalmNow DEF SniffedEndNext, TypeOK
  <2>3. CalmNext
    BY <1>1, <2>1, <2>2, CalmNow DEF CalmNext
  <2> QED  BY <1>1, <2>3, CalmAfter
<1>5. QuietStep
  BY DEF QuietStep, SameData
<1> QED  BY <1>1, <1>2, <1>3, <1>4, <1>5, QuietSteps DEF IInv

LEMMA InConnectedStep ==
  ASSUME IInv, InConnected
  PROVE  IInv'
<1> USE DEF InConnected, inVars, copyVars, endVars, NoFault
<1>1. TypeOK /\ StagesOK /\ CalmOK /\ \A d \in Directions : FlowOK(d)
  BY DEF IInv
<1>2. TypeOK'
  <2>1. ASSUME NEW r \in Relays, NEW d \in Directions, pc'[r] = "copy"
        PROVE  Len(buffer[r][d]) <= BufferSize
    <3>1. pc[r] = "copy" \/ buffer[r][d] = <<>>
      BY <1>1, <2>1 DEF TypeOK, StagesOK
    <3> QED  BY <1>1, <3>1, Empty DEF TypeOK
  <2> QED  BY <1>1, <2>1 DEF TypeOK, Contents
<1>3. StagesOK'
  BY <1>1 DEF StagesOK, Framed, TypeOK
<1>4. CalmOK'
  <2>1. ASSUME faults' = 0, NEW d \in Directions, NEW r \in Working(d)
        PROVE  EndsNext(r, d)
    <3>1. EndsOK(r, d) /\ r \in Relays
      BY <1>1, <2>1, CalmNow, Places DEF Working
    <3>2. CASE r = "in" /\ d = "up"
      <4>1. /\ copy[r][d] = "copying" /\ copy'[r][d] \in {"copying", "flushing"}
            /\ copy'[r][d] = "flushing" => end
            /\ pc'[r] # "done" /\ From(r, d) = "client"
        BY <1>1, <3>2, ClientSide DEF StagesOK, TypeOK
      <4>2. end => /\ pipe[From(r, d)][d].end = "fin"
                   /\ pipe[From(r, d)][d].data = <<>>
        BY <1>1, <2>1, <3>2, <4>1, CalmNow
      <4> QED  BY <3>1, <4>1, <4>2 DEF EndsNext, EndsOK, Source, Target, AllRead
    <3>3. CASE ~ (r = "in" /\ d = "up")
      <4>1. /\ copy'[r][d] = copy[r][d]
            /\ pc'[r] = "done" => pc[r] = "done"
        BY <1>1, <3>1, <3>3 DEF TypeOK
      <4> QED  BY <3>1, <4>1 DEF EndsNext, EndsOK, Source, Target, AllRead
    <3> QED  BY <3>2, <3>3
  <2>2. faults' = 0 => SniffedEndNext
    BY <1>1, CalmNow DEF SniffedEndNext, TypeOK
  <2>3. CalmNext
    BY <1>1, <2>1, <2>2, CalmNow DEF CalmNext
  <2> QED  BY <1>1, <2>3, CalmAfter
<1>5. QuietStep
  BY DEF QuietStep, SameData
<1> QED  BY <1>1, <1>2, <1>3, <1>4, <1>5, QuietSteps DEF IInv

-----------------------------------------------------------------------------
(* Steps that end a pipe. *)

LEMMA Ways ==
  ASSUME NEW e \in Ends
  PROVE  /\ Outwards(e) \in Directions /\ Inwards(e) \in Directions
         /\ Inwards(e) = Opposite(Outwards(e)) /\ Outwards(e) = Opposite(Inwards(e))
         /\ Origin(Outwards(e)) = e /\ Sink(Inwards(e)) = e
         /\ e \in Segments /\ e # "tunnel"
BY DEF Outwards, Inwards, Opposite, Origin, Sink

LEMMA Paths ==
  ASSUME NEW d \in Directions, NEW r \in Working(d)
  PROVE  /\ r \in Relays
         /\ r = "in" \/ kind # "direct"
         /\ From(r, d) \in Segments /\ To(r, d) \in Segments
         /\ To(r, d) # Origin(d) /\ From(r, d) # Sink(d) /\ To(r, d) # From(r, d)
         /\ \A q \in Working(d) :
              q # r => From(q, d) # From(r, d) /\ To(q, d) # To(r, d)
BY DEF Opposite, Origin, Sink, FirstRelay, LastRelay, From, To, Near, Far, Forth,
       Working

LEMMA IsWorking ==
  ASSUME NEW r \in Relays, NEW d \in Directions, r = "in" \/ kind # "direct"
  PROVE  r \in Working(d)
BY DEF FirstRelay, LastRelay, Working

LEMMA EndPipe ==
  ASSUME TypeOK, NEW s \in Segments, NEW d \in Directions,
         pipe' = [pipe EXCEPT ![s][d] = Finished(@)]
  PROVE  /\ pipe' \in [Segments -> [Directions -> Pipe]]
         /\ \A t \in Segments, e \in Directions :
              /\ Within(t, pipe'[t][e]) /\ SameData(t, e)
              /\ CanWrite(pipe'[t][e]) => CanWrite(pipe[t][e])
              /\ pipe'[t][e].deaf = pipe[t][e].deaf
              /\ t # s \/ e # d => pipe'[t][e] = pipe[t][e]
         /\ pipe'[s][d].end = IF pipe[s][d].end = "open" THEN "fin"
                              ELSE pipe[s][d].end
<1>1. PICK q \in Pipe : q = Finished(pipe[s][d])
  BY PipeTypes, FinishedPipe
<1>2. /\ q.data = pipe[s][d].data /\ q.deaf = pipe[s][d].deaf
      /\ q.end = IF pipe[s][d].end = "open" THEN "fin" ELSE pipe[s][d].end
  BY <1>1, PipeTypes, FinishedPipe
<1>3. pipe' = [pipe EXCEPT ![s][d] = q]
  BY <1>1 DEF TypeOK
<1>4. Within(s, q)
  BY <1>2 DEF TypeOK, Within, Contents
<1>5. /\ pipe' \in [Segments -> [Directions -> Pipe]]
      /\ \A t \in Segments, e \in Directions : Within(t, pipe'[t][e])
      /\ pipe'[s][d] = q
      /\ \A t \in Segments, e \in Directions :
           t # s \/ e # d => pipe'[t][e] = pipe[t][e]
  BY <1>3, <1>4, SetPipe
<1> QED  BY <1>2, <1>5 DEF SameData, CanWrite

LEMMA ShortFrames ==
  ASSUME StagesOK, kind' = kind,
         \A s \in Segments, d \in Directions :
           ~ Framed(s) => SameData(s, d) \/ Len(pipe'[s][d].data) <= 1
  PROVE  \A s \in Segments, d \in Directions :
           ~ Framed(s)' => Len(pipe'[s][d].data) <= 1
<1> SUFFICES ASSUME NEW s \in Segments, NEW d \in Directions, ~ Framed(s)'
             PROVE  Len(pipe'[s][d].data) <= 1
  OBVIOUS
<1>1. ~ Framed(s)
  BY DEF Framed
<1>2. Len(pipe[s][d].data) <= 1
  BY <1>1 DEF StagesOK
<1> QED  BY <1>1, <1>2 DEF SameData

LEMMA FinishStep ==
  ASSUME IInv, NEW e \in Ends, Finish(e)
  PROVE  IInv'
<1> USE DEF inVars, copyVars, endVars, NoFault
<1>1. TypeOK /\ StagesOK /\ CalmOK /\ \A d \in Directions : FlowOK(d)
  BY DEF IInv
<1>2. PICK c \in Directions :
        /\ Origin(c) = e
        /\ pipe[e][c].end = "open" /\ pipe' = [pipe EXCEPT ![e][c] = Finished(@)]
  BY Ways DEF Finish
<1>3. e \in Segments
  OBVIOUS
<1>4. /\ pipe' \in [Segments -> [Directions -> Pipe]]
      /\ \A t \in Segments, d \in Directions :
           /\ Within(t, pipe'[t][d]) /\ SameData(t, d)
           /\ CanWrite(pipe'[t][d]) => CanWrite(pipe[t][d])
           /\ pipe'[t][d].deaf = pipe[t][d].deaf
           /\ t # e \/ d # c => pipe'[t][d] = pipe[t][d]
      /\ pipe'[e][c].end = "fin"
  <2>1. /\ pipe' \in [Segments -> [Directions -> Pipe]]
        /\ \A t \in Segments, d \in Directions :
             /\ Within(t, pipe'[t][d]) /\ SameData(t, d)
             /\ CanWrite(pipe'[t][d]) => CanWrite(pipe[t][d])
             /\ pipe'[t][d].deaf = pipe[t][d].deaf
             /\ t # e \/ d # c => pipe'[t][d] = pipe[t][d]
    BY <1>1, <1>2, <1>3, EndPipe
  <2>2. pipe'[e][c].end = IF pipe[e][c].end = "open" THEN "fin"
                          ELSE pipe[e][c].end
    BY <1>1, <1>2, <1>3, EndPipe
  <2> QED  BY <1>2, <2>1, <2>2
<1>5. TypeOK'
  BY <1>1, <1>4 DEF Finish, TypeOK, Within, Contents
<1>6. StagesOK'
  BY <1>1, <1>4, ShortFrames DEF Finish, StagesOK
<1>7. CalmOK'
  <2>1. ASSUME faults' = 0, NEW d \in Directions, NEW r \in Working(d)
        PROVE  EndsNext(r, d)
    <3>1. EndsOK(r, d)
      BY <1>1, <2>1, CalmNow DEF Finish
    <3>2. /\ From(r, d) \in Segments /\ To(r, d) \in Segments
          /\ To(r, d) # e \/ d # c
      BY <1>2, Paths
    <3>3. /\ pipe'[To(r, d)][d].end = pipe[To(r, d)][d].end
          /\ pipe'[From(r, d)][d].data = pipe[From(r, d)][d].data
          /\ pipe'[From(r, d)][d].deaf = pipe[From(r, d)][d].deaf
          /\ pipe[From(r, d)][d].end = "fin" => pipe'[From(r, d)][d].end = "fin"
      BY <1>2, <1>4, <3>2 DEF SameData
    <3> QED  BY <3>1, <3>3 DEF Finish, EndsNext, EndsOK, Source, Target, AllRead
  <2>2. faults' = 0 => SniffedEndNext
    BY <1>1, <1>2, <1>4, CalmNow DEF Finish, SniffedEndNext, SameData
  <2>3. ASSUME faults' = 0, NEW s \in Segments, NEW d \in Directions
        PROVE  pipe'[s][d].end # "reset"
    BY <1>1, <1>2, <1>4, <2>3, CalmNow DEF Finish
  <2>4. ASSUME faults' = 0, NEW d \in Directions
        PROVE  ~ pipe'[Sink(d)][d].deaf
    BY <1>1, <1>4, <2>4, CalmNow, Places DEF Finish
  <2>5. CalmNext
    BY <2>1, <2>2, <2>3, <2>4 DEF CalmNext
  <2> QED  BY <1>1, <2>5, CalmAfter DEF Finish
<1>8. QuietStep
  BY <1>4 DEF Finish, QuietStep
<1> QED  BY <1>1, <1>5, <1>6, <1>7, <1>8, QuietSteps DEF IInv

LEMMA ReadEndStep ==
  ASSUME IInv, NEW r \in Relays, NEW d \in Directions, ReadEnd(r, d)
  PROVE  IInv'
<1> USE DEF inVars, copyVars, endVars, NoFault
<1>1. TypeOK /\ StagesOK /\ CalmOK /\ \A c \in Directions : FlowOK(c)
  BY DEF IInv
<1>2. TypeOK'
  BY <1>1 DEF ReadEnd, TypeOK, Contents
<1>3. StagesOK'
  BY <1>1 DEF ReadEnd, Reading, StagesOK, Framed, TypeOK
<1>4. CalmOK'
  <2>1. ASSUME faults' = 0, NEW c \in Directions, NEW q \in Working(c)
        PROVE  EndsNext(q, c)
    <3>1. EndsOK(q, c) /\ q \in Relays
      BY <1>1, <2>1, CalmNow, Places DEF ReadEnd, Working
    <3>2. CASE q = r /\ c = d
      <4>1. /\ copy[q][c] = "copying" /\ copy'[q][c] = "flushing"
            /\ AllRead(q, c) /\ Source(q, c).end = "fin"
        BY <1>1, <3>2 DEF ReadEnd, Reading, TypeOK
      <4> QED
        BY <3>1, <4>1 DEF ReadEnd, EndsNext, EndsOK, Source, Target, AllRead
    <3>3. CASE ~ (q = r /\ c = d)
      <4>1. copy'[q][c] = copy[q][c]
        BY <1>1, <3>1, <3>3 DEF ReadEnd, TypeOK
      <4> QED
        BY <3>1, <4>1 DEF ReadEnd, EndsNext, EndsOK, Source, Target, AllRead
    <3> QED  BY <3>2, <3>3
  <2>2. faults' = 0 => SniffedEndNext
    BY <1>1, CalmNow DEF ReadEnd, SniffedEndNext, TypeOK
  <2>3. CalmNext
    BY <1>1, <2>1, <2>2, CalmNow DEF ReadEnd, CalmNext
  <2> QED  BY <1>1, <2>3, CalmAfter DEF ReadEnd
<1>5. QuietStep
  BY DEF ReadEnd, QuietStep, SameData
<1> QED  BY <1>1, <1>2, <1>3, <1>4, <1>5, QuietSteps DEF IInv

LEMMA ShutdownStep ==
  ASSUME IInv, NEW r \in Relays, NEW d \in Directions, Shutdown(r, d)
  PROVE  IInv'
<1> USE DEF inVars, copyVars, endVars, NoFault
<1>1. TypeOK /\ StagesOK /\ CalmOK /\ \A c \in Directions : FlowOK(c)
  BY DEF IInv
<1>2. /\ pc[r] = "copy" /\ copy[r][d] = "flushing" /\ buffer[r][d] = <<>>
      /\ copy' = [copy EXCEPT ![r][d] = "ended"]
      /\ To(r, d) \in Segments
      /\ r \in Working(d)
  BY <1>1, Sides, IsWorking DEF Shutdown, Copying, StagesOK
<1>3. /\ pipe' \in [Segments -> [Directions -> Pipe]]
      /\ \A t \in Segments, c \in Directions :
           /\ Within(t, pipe'[t][c]) /\ SameData(t, c)
           /\ CanWrite(pipe'[t][c]) => CanWrite(pipe[t][c])
           /\ pipe'[t][c].deaf = pipe[t][c].deaf
           /\ t # To(r, d) \/ c # d => pipe'[t][c] = pipe[t][c]
      /\ pipe'[To(r, d)][d].end =
           IF pipe[To(r, d)][d].end = "open" THEN "fin" ELSE pipe[To(r, d)][d].end
  BY <1>1, <1>2, EndPipe DEF Shutdown
<1>4. TypeOK'
  <2>1. copy' \in [Relays -> [Directions -> {"copying", "flushing", "ended"}]]
    BY <1>1, <1>2 DEF TypeOK
  <2> QED  BY <1>1, <1>3, <2>1 DEF Shutdown, TypeOK, Within, Contents
<1>5. StagesOK'
  <2>1. \A q \in Relays, c \in Directions : pc[q] # "copy" => copy'[q] = copy[q]
    BY <1>1, <1>2 DEF TypeOK
  <2>2. \A s \in Segments, c \in Directions :
          ~ Framed(s)' => Len(pipe'[s][c].data) <= 1
    BY <1>1, <1>3, ShortFrames DEF Shutdown
  <2> QED  BY <1>1, <2>1, <2>2 DEF Shutdown, StagesOK
<1>6. CalmOK'
  <2>1. ASSUME faults' = 0, NEW c \in Directions, NEW q \in Working(c)
        PROVE  EndsNext(q, c)
    <3>1. /\ EndsOK(q, c) /\ EndsOK(r, d) /\ q \in Relays
          /\ From(q, c) \in Segments /\ To(q, c) \in Segments
          /\ pipe[To(r, d)][d].end \in {"open", "fin"}
      <4>1. faults = 0
        BY <2>1 DEF Shutdown
      <4>2. q \in Relays /\ From(q, c) \in Segments /\ To(q, c) \in Segments
        BY Paths
      <4> QED  BY <1>1, <1>2, <4>1, <4>2, CalmNow
    <3>2. /\ pipe'[From(q, c)][c].data = pipe[From(q, c)][c].data
          /\ pipe'[From(q, c)][c].deaf = pipe[From(q, c)][c].deaf
          /\ pipe[From(q, c)][c].end = "fin" => pipe'[From(q, c)][c].end = "fin"
      BY <1>3, <3>1 DEF SameData
    <3>3. CASE q = r /\ c = d
      <4>1. copy[q][c] = "flushing" /\ copy'[q][c] = "ended"
        BY <1>1, <1>2, <3>3 DEF TypeOK
      <4>2. pipe'[To(q, c)][c].end = "fin"
        BY <1>3, <3>1, <3>3
      <4> QED  BY <1>2, <3>1, <3>2, <3>3, <4>1, <4>2
               DEF Shutdown, EndsNext, EndsOK, Source, Target, AllRead
    <3>4. CASE ~ (q = r /\ c = d)
      <4>1. copy'[q][c] = copy[q][c]
        BY <1>1, <1>2, <3>1, <3>4 DEF TypeOK
      <4>2. pipe'[To(q, c)][c] = pipe[To(q, c)][c]
        BY <1>2, <1>3, <3>1, <3>4, Paths
      <4> QED  BY <3>1, <3>2, <4>1, <4>2
               DEF Shutdown, EndsNext, EndsOK, Source, Target, AllRead
    <3> QED  BY <3>3, <3>4
  <2>2. faults' = 0 => SniffedEndNext
    BY <1>1, <1>3, CalmNow DEF Shutdown, SniffedEndNext, SameData
  <2>3. ASSUME faults' = 0, NEW s \in Segments, NEW c \in Directions
        PROVE  pipe'[s][c].end # "reset"
    BY <1>1, <1>2, <1>3, <2>3, CalmNow DEF Shutdown
  <2>4. ASSUME faults' = 0, NEW c \in Directions
        PROVE  ~ pipe'[Sink(c)][c].deaf
    BY <1>1, <1>3, <2>4, CalmNow, Places DEF Shutdown
  <2>5. CalmNext
    BY <2>1, <2>2, <2>3, <2>4 DEF CalmNext
  <2> QED  BY <1>1, <2>5, CalmAfter DEF Shutdown
<1>7. QuietStep
  BY <1>3 DEF Shutdown, QuietStep
<1> QED  BY <1>1, <1>4, <1>5, <1>6, <1>7, QuietSteps DEF IInv

-----------------------------------------------------------------------------
(* Steps that end a task. *)

(* The task of relay r is over, at the pipes p: those it found, with       *)
(* perhaps the writer of a direction that has failed shut down.            *)
OverStep(r, p) ==
  /\ TaskOver(r, p)
  /\ pc' = [pc EXCEPT ![r] = "done"]
  /\ kind' = kind /\ UNCHANGED <<inVars, endVars, reached>>
  /\ faults' \in 0 .. MaxFaults
  /\ r = "out" \/ pc["in"] \notin {"sniff", "select"}
  /\ pc[r] # "none" /\ (r = "in" \/ kind # "direct")
  /\ \A s \in Segments, d \in Directions :
       /\ p[s][d].data = pipe[s][d].data
       /\ CanWrite(p[s][d]) => CanWrite(pipe[s][d])
  /\ faults' = 0 => faults = 0 /\ p = pipe /\ copy[r] = Both("ended")

LEMMA OverPipes ==
  ASSUME TypeOK, NEW r \in Relays, NEW p, OverStep(r, p)
  PROVE  \A s \in Segments, d \in Directions :
           \/ s = From(r, d) /\ pipe'[s][d].data = <<>>
           \/ s # From(r, d) /\ SameData(s, d)
<1> SUFFICES ASSUME NEW s \in Segments, NEW d \in Directions, s # From(r, d)
             PROVE  SameData(s, d)
  BY DEF OverStep, TaskOver
<1>1. CASE s = To(r, d)
  BY <1>1 DEF OverStep, TaskOver, SameData
<1>2. CASE s # To(r, d)
  BY <1>2 DEF OverStep, TaskOver, SameData
<1> QED  BY <1>1, <1>2

LEMMA OverTypes ==
  ASSUME TypeOK, NEW r \in Relays, NEW p, OverStep(r, p)
  PROVE  TypeOK'
<1> USE DEF inVars, endVars
<1>1. ASSUME NEW s \in Segments, NEW d \in Directions
      PROVE  Within(s, pipe'[s][d])
  <2>1. CASE pipe'[s][d].data = <<>>
    BY <2>1, EmptyContents, Empty, Capacities DEF Within
  <2>2. CASE SameData(s, d)
    BY <2>2 DEF TypeOK, Within, Contents, SameData
  <2> QED  BY <2>1, <2>2, OverPipes
<1>2. Both(<<>>) \in [Directions -> Seq(Bytes)]
  BY Empty DEF Both
<1>3. \A q \in Relays : buffer'[q] = IF q = r THEN Both(<<>>) ELSE buffer[q]
  BY DEF OverStep, TaskOver, TypeOK
<1>4. buffer' \in [Relays -> [Directions -> Seq(Bytes)]]
  BY <1>2 DEF OverStep, TaskOver, TypeOK
<1>5. ASSUME NEW q \in Relays, NEW d \in Directions, pc'[q] = "copy"
      PROVE  Len(buffer'[q][d]) <= BufferSize
  <2>1. q # r /\ pc[q] = "copy"
    BY <1>5 DEF OverStep, TypeOK
  <2> QED  BY <1>3, <2>1 DEF TypeOK
<1>6. pending' \in [Relays -> Seq(Bytes)]
  BY Empty DEF OverStep, TaskOver, TypeOK
<1>7. copy' \in [Relays -> [Directions -> {"copying", "flushing", "ended"}]]
  BY DEF OverStep, TaskOver, TypeOK, Both
<1>8. /\ pc' \in [Relays -> InStages \union OutStages]
      /\ pc'["in"] \in InStages /\ pc'["out"] \in OutStages
  BY DEF OverStep, TypeOK
<1>9. pipe' \in [Segments -> [Directions -> Pipe]]
  BY DEF OverStep, TaskOver
<1> QED
  BY <1>1, <1>4, <1>5, <1>6, <1>7, <1>8, <1>9
     DEF OverStep, TypeOK, Within, Contents

LEMMA OverStages ==
  ASSUME TypeOK, StagesOK, NEW r \in Relays, NEW p, OverStep(r, p)
  PROVE  StagesOK'
<1>1. ASSUME NEW s \in Segments, NEW d \in Directions
      PROVE  SameData(s, d) \/ Len(pipe'[s][d].data) <= 1
  BY OverPipes, Empty
<1>2. \A s \in Segments, d \in Directions : ~ Framed(s)' => Len(pipe'[s][d].data) <= 1
  BY <1>1, ShortFrames DEF OverStep
<1>3. /\ pc'["in"] \in {"sniff", "select"} => pc'["out"] = "none"
      /\ kind' = "direct" => pc'["out"] = "none"
  BY DEF OverStep, StagesOK, TypeOK
<1>4. ASSUME NEW q \in Relays, pc'[q] \notin {"copy", "done"}
      PROVE  /\ pending'[q] = <<>>
             /\ \A d \in Directions :
                  /\ copy'[q][d] = "copying"
                  /\ buffer'[q][d] # <<>> => q = "in" /\ d = "up"
  <2>1. q # r /\ pc[q] \notin {"copy", "done"}
    BY <1>4 DEF OverStep, TypeOK
  <2>2. pending'[q] = pending[q] /\ copy'[q] = copy[q] /\ buffer'[q] = buffer[q]
    BY <2>1 DEF OverStep, TaskOver, TypeOK
  <2> QED  BY <2>1, <2>2 DEF StagesOK
<1> QED  BY <1>2, <1>3, <1>4 DEF StagesOK

LEMMA OverCalm ==
  ASSUME TypeOK, StagesOK, CalmOK, NEW r \in Relays, NEW p, OverStep(r, p)
  PROVE  CalmOK'
<1> SUFFICES ASSUME faults' = 0
             PROVE  CalmNext
  BY CalmAfter DEF OverStep, CalmNext
<1>1. /\ faults = 0 /\ p = pipe /\ \A d \in Directions : copy[r][d] = "ended"
      /\ \A d \in Directions : r \in Working(d)
  BY IsWorking DEF OverStep, Both
<1>2. /\ \A s \in Segments, d \in Directions : pipe[s][d].end \in {"open", "fin"}
      /\ \A d \in Directions : /\ ~ pipe[Sink(d)][d].deaf
                               /\ \A q \in Working(d) : EndsOK(q, d)
  BY <1>1, CalmNow
<1>3. ASSUME NEW d \in Directions
      PROVE  /\ pipe[From(r, d)][d].end = "fin" /\ pipe'[From(r, d)][d].end = "fin"
             /\ pipe[To(r, d)][d].end = "fin" /\ pipe'[To(r, d)][d].end = "fin"
             /\ pipe'[From(r, d)][d].data = <<>>
             /\ buffer'[r][d] = <<>> /\ pending'[r] = <<>> /\ copy'[r][d] = "ended"
  <2>1. Opposite(d) \in Directions /\ From(r, Opposite(d)) = To(r, d)
    BY Places, Sides
  <2>2. EndsOK(r, d) /\ EndsOK(r, Opposite(d))
    BY <1>1, <1>2, <2>1
  <2>3. /\ pipe[From(r, d)][d].end = "fin" /\ pipe[To(r, d)][d].end = "fin"
        /\ pipe[To(r, d)][Opposite(d)].end = "fin"
    BY <1>1, <2>1, <2>2 DEF EndsOK, Source, Target
  <2>4. /\ pipe'[From(r, d)][d].end = pipe[From(r, d)][d].end
        /\ pipe'[To(r, d)][d].end = "fin"
        /\ pipe'[From(r, d)][d].data = <<>>
    BY <1>1, <2>3 DEF OverStep, TaskOver
  <2>5. buffer'[r][d] = <<>> /\ pending'[r] = <<>> /\ copy'[r][d] = "ended"
    BY DEF OverStep, TaskOver, TypeOK, Both
  <2> QED  BY <2>3, <2>4, <2>5
<1>4. ASSUME NEW d \in Directions, NEW q \in Working(d)
      PROVE  EndsNext(q, d)
  <2>1. CASE q = r
    BY <1>3, <2>1 DEF EndsNext
  <2>2. CASE q # r
    <3>1. /\ q \in Relays /\ From(q, d) \in Segments /\ To(q, d) \in Segments
          /\ From(q, d) # From(r, d) /\ To(q, d) # To(r, d)
      BY <1>1, <2>2, Paths
    <3>2. /\ copy'[q] = copy[q] /\ buffer'[q] = buffer[q]
          /\ pending'[q] = pending[q] /\ pc'[q] = pc[q]
      BY <2>2, <3>1 DEF OverStep, TaskOver, TypeOK
    <3>3. pipe'[To(q, d)][d].end = pipe[To(q, d)][d].end
      <4>1. CASE To(q, d) = From(r, d)
        BY <1>3, <4>1
      <4>2. CASE To(q, d) # From(r, d)
        BY <1>1, <3>1, <4>2 DEF OverStep, TaskOver
      <4> QED  BY <4>1, <4>2
    <3>4. /\ pipe'[From(q, d)][d].end = pipe[From(q, d)][d].end
          /\ pipe'[From(q, d)][d].data = pipe[From(q, d)][d].data
          /\ pipe'[From(q, d)][d].deaf = pipe[From(q, d)][d].deaf
      <4>1. CASE From(q, d) = To(r, d)
        BY <1>1, <1>3, <4>1 DEF OverStep, TaskOver
      <4>2. CASE From(q, d) # To(r, d)
        BY <1>1, <3>1, <4>2 DEF OverStep, TaskOver
      <4> QED  BY <4>1, <4>2
    <3>5. EndsOK(q, d)
      BY <1>2
    <3> QED
      BY <3>2, <3>3, <3>4, <3>5 DEF EndsNext, EndsOK, Source, Target, AllRead
  <2> QED  BY <2>1, <2>2
<1>5. ASSUME NEW s \in Segments, NEW d \in Directions
      PROVE  pipe'[s][d].end # "reset"
  <2>1. CASE s = From(r, d) \/ s = To(r, d)
    BY <1>3, <2>1
  <2>2. CASE s # From(r, d) /\ s # To(r, d)
    BY <1>1, <1>2, <2>2 DEF OverStep, TaskOver
  <2> QED  BY <2>1, <2>2
<1>6. ASSUME NEW d \in Directions
      PROVE  ~ pipe'[Sink(d)][d].deaf
  <2>1. Sink(d) \in Segments /\ Sink(d) # From(r, d)
    BY <1>1, Places, Paths
  <2>2. pipe'[Sink(d)][d].deaf = pipe[Sink(d)][d].deaf
    <3>1. CASE Sink(d) = To(r, d)
      BY <1>1, <3>1 DEF OverStep, TaskOver
    <3>2. CASE Sink(d) # To(r, d)
      BY <1>1, <2>1, <3>2 DEF OverStep, TaskOver
    <3> QED  BY <3>1, <3>2
  <2> QED  BY <1>2, <2>2
<1>7. SniffedEndNext
  <2>1. CASE r = "in"
    <3>1. pc["in"] \in {"copy", "done"}
      BY <1>1, <2>1 DEF StagesOK
    <3>2. ~ end
      BY <1>1, <3>1, CalmNow
    <3> QED  BY <3>2 DEF SniffedEndNext, OverStep, inVars
  <2>2. CASE r = "out"
    <3>1. From(r, "up") # "client" /\ To(r, "up") # "client" /\ "up" \in Directions
      BY <2>2 DEF From, To, Near, Far, Forth
    <3>2. pipe'["client"]["up"] = pipe["client"]["up"] /\ pc'["in"] = pc["in"]
      BY <1>1, <2>2, <3>1 DEF OverStep, TaskOver, TypeOK
    <3> QED  BY <1>1, <3>2, CalmNow DEF SniffedEndNext, OverStep, inVars
  <2> QED  BY <2>1, <2>2
<1> QED  BY <1>4, <1>5, <1>6, <1>7 DEF CalmNext

LEMMA OverSteps ==
  ASSUME IInv, NEW r \in Relays, NEW p, OverStep(r, p)
  PROVE  IInv'
<1>1. TypeOK /\ StagesOK /\ CalmOK /\ \A d \in Directions : FlowOK(d)
  BY DEF IInv
<1>2. TypeOK' /\ StagesOK' /\ CalmOK'
  BY <1>1, OverTypes, OverStages, OverCalm
<1>3. ASSUME NEW d \in Directions
      PROVE  FlowOK(d)'
  <2>1. r \in Working(d)
    BY IsWorking DEF OverStep
  <2>2. ASSUME faults' = 0
        PROVE  faults = 0 /\ NothingHeld(r, d)
    <3>1. faults = 0 /\ copy[r][d] = "ended"
      BY <2>2 DEF OverStep, Both
    <3>2. EndsOK(r, d)
      BY <1>1, <2>1, <3>1, CalmNow
    <3> QED  BY <3>1, <3>2 DEF EndsOK, NothingHeld
  <2>3. FlowIsOver(r, p, d)
    BY <2>2 DEF OverStep, FlowIsOver, endVars
  <2> QED  BY <1>1, <1>2, <2>1, <2>3, FlowOver
<1> QED  BY <1>1, <1>2, <1>3 DEF IInv

LEMMA DoneStep ==
  ASSUME IInv, NEW r \in Relays, Done(r)
  PROVE  IInv'
<1>1. TypeOK /\ StagesOK
  BY DEF IInv
<1>2. pc[r] = "copy" /\ (r = "in" \/ kind # "direct")
  BY <1>1 DEF Done, StagesOK
<1>3. TaskOver(r, pipe)
  BY <1>1, <1>2, TasksOver DEF Done, TypeOK
<1>4. copy[r] = Both("ended")
  BY <1>1 DEF Done, Both, TypeOK
<1>5. OverStep(r, pipe)
  BY <1>1, <1>2, <1>3, <1>4 DEF Done, OverStep, NoFault, TypeOK
<1> QED  BY <1>5, OverSteps

(* Without a failure or an end that left no direction fails.               *)
LEMMA NothingFails ==
  ASSUME IInv, NEW r \in Relays, NEW d \in Directions, Fail(r, d)
  PROVE  faults # 0 /\ (r = "in" \/ kind # "direct") /\ pc[r] \in {"connect", "copy"}
<1>1. TypeOK /\ StagesOK /\ CalmOK
  BY DEF IInv
<1>2. (r = "in" \/ kind # "direct") /\ pc[r] \in {"connect", "copy"}
  BY <1>1 DEF Fail, ReadFails, WriteFails, Reading, Writing, Copying, StagesOK
<1>3. ASSUME faults = 0
      PROVE  FALSE
  <2>1. r \in Working(d) /\ From(r, d) \in Segments /\ To(r, d) \in Segments
    BY <1>2, IsWorking, Sides
  <2>2. EndsOK(r, d) /\ \A s \in Segments : pipe[s][d].end \in {"open", "fin"}
    BY <1>1, <1>3, <2>1, CalmNow
  <2>3. WriteFails(r, d)
    BY <2>1, <2>2 DEF Fail, ReadFails, Source
  <2>4. copy[r][d] # "ended"
    BY <1>1, <2>3 DEF WriteFails, Writing, Copying, StagesOK
  <2>5. Target(r, d).end = "open" /\ Target(r, d).deaf
    <3>1. Target(r, d).end \in {"open", "fin"} /\ Target(r, d).end # "fin"
      BY <2>1, <2>2, <2>4 DEF EndsOK, Target
    <3>2. Target(r, d).deaf \in BOOLEAN
      BY <1>1, <2>1, PipeTypes DEF Target
    <3> QED  BY <2>3, <3>1, <3>2 DEF WriteFails, CanWrite
  <2>6. CASE r = LastRelay(d)
    <3>1. ~ Target(r, d).deaf
      BY <1>1, <1>3, <2>6, CalmNow, Places DEF Target
    <3> QED  BY <2>5, <3>1
  <2>7. CASE r # LastRelay(d)
    <3>1. PICK l \in Working(d) : Source(l, d) = Target(r, d)
      <4>1. r = FirstRelay(d) /\ LastRelay(d) \in Working(d)
        BY <2>1, <2>7 DEF Working
      <4>2. From(LastRelay(d), d) = To(r, d)
        BY <2>7, <4>1, Places
      <4> QED  BY <4>1, <4>2 DEF Source, Target
    <3>2. EndsOK(l, d)
      BY <1>1, <1>3, CalmNow
    <3>3. Source(l, d).end = "fin"
      BY <2>5, <3>1, <3>2 DEF EndsOK
    <3> QED  BY <2>5, <3>1, <3>3
  <2> QED  BY <2>6, <2>7
<1> QED  BY <1>2, <1>3

LEMMA FailStep ==
  ASSUME IInv, NEW r \in Relays, NEW d \in Directions, Fail(r, d)
  PROVE  IInv'
<1>1. TypeOK /\ StagesOK
  BY DEF IInv
<1>2. faults # 0 /\ (r = "in" \/ kind # "direct") /\ pc[r] \in {"connect", "copy"}
  BY NothingFails
<1>3. PICK p : /\ p = IF pc[r] = "connect" THEN pipe
                      ELSE [pipe EXCEPT ![To(r, d)][d] = Finished(@)]
               /\ TaskEnds(r, p)
  BY DEF Fail
<1>4. PICK q \in Pipe : q = Finished(pipe[To(r, d)][d])
  BY <1>1, Sides, PipeTypes, FinishedPipe
<1>5. /\ q.data = pipe[To(r, d)][d].data
      /\ CanWrite(q) => CanWrite(pipe[To(r, d)][d])
  BY <1>1, <1>4, Sides, PipeTypes, FinishedPipe DEF CanWrite
<1>6. p = pipe \/ p = [pipe EXCEPT ![To(r, d)][d] = q]
  BY <1>1, <1>3, <1>4, Sides DEF TypeOK
<1>7. p \in [Segments -> [Directions -> Pipe]]
  BY <1>1, <1>6 DEF TypeOK
<1>8. ASSUME NEW s \in Segments, NEW c \in Directions
      PROVE  /\ p[s][c].data = pipe[s][c].data
             /\ CanWrite(p[s][c]) => CanWrite(pipe[s][c])
  <2>1. p[s][c] = pipe[s][c] \/ (s = To(r, d) /\ c = d /\ p[s][c] = q)
    <3>1. PICK t \in Segments : t = To(r, d)
      BY Sides
    <3>2. p = pipe \/ p = [pipe EXCEPT ![t][d] = q]
      BY <1>6, <3>1
    <3>3. p[s][c] = pipe[s][c] \/ (s = t /\ c = d /\ p[s][c] = q)
      BY <1>1, <3>2 DEF TypeOK
    <3> QED  BY <3>1, <3>3
  <2> QED  BY <1>5, <2>1
<1>9. TaskOver(r, p)
  BY <1>2, <1>3, <1>7, TasksOver
<1>10. OverStep(r, p)
  BY <1>1, <1>2, <1>8, <1>9 DEF Fail, OverStep, NoFault, TypeOK
<1> QED  BY <1>10, OverSteps

LEMMA OutConnectFailsStep ==
  ASSUME IInv, OutConnectFails
  PROVE  IInv'
<1>1. TypeOK /\ StagesOK
  BY DEF IInv
<1>2. pc["out"] = "connect" /\ kind # "direct"
  BY <1>1 DEF OutConnectFails, StagesOK
<1>3. TaskOver("out", pipe)
  BY <1>1, <1>2, TasksOver DEF OutConnectFails, TypeOK
<1>4. faults' \in 0 .. MaxFaults /\ faults' # 0
  BY <1>1 DEF OutConnectFails, Fault, TypeOK
<1>5. OverStep("out", pipe)
  BY <1>1, <1>2, <1>3, <1>4 DEF OutConnectFails, OverStep
<1> QED  BY <1>5, OverSteps

LEMMA OutAcceptStep ==
  ASSUME IInv, OutAccept
  PROVE  IInv'
<1> USE DEF OutAccept, inVars, copyVars, endVars, NoFault
<1>1. TypeOK /\ StagesOK /\ CalmOK /\ \A d \in Directions : FlowOK(d)
  BY DEF IInv
<1>2. pc["out"] = "accept" /\ kind # "direct"
  BY <1>1 DEF StagesOK
<1>3. CASE pipe["tunnel"]["up"].end = "reset"
  <2>1. TaskOver("out", pipe)
    BY <1>1, <1>2, <1>3, TasksOver DEF TypeOK
  <2>2. faults # 0
    BY <1>1, <1>3 DEF CalmOK
  <2>3. OverStep("out", pipe)
    BY <1>1, <1>2, <1>3, <2>1, <2>2 DEF OverStep, TypeOK
  <2> QED  BY <2>3, OverSteps
<1>4. CASE pipe["tunnel"]["up"].end # "reset"
  <2>1. TypeOK'
    BY <1>1, <1>4 DEF TypeOK, Contents
  <2>2. StagesOK'
    BY <1>1, <1>4 DEF StagesOK, Framed, TypeOK
  <2>3. ASSUME faults' = 0, NEW d \in Directions, NEW r \in Working(d)
        PROVE  EndsNext(r, d)
    <3>1. EndsOK(r, d) /\ r \in Relays
      BY <1>1, <2>3, CalmNow, Paths
    <3> QED  BY <1>1, <1>4, <3>1
             DEF EndsNext, EndsOK, Source, Target, AllRead, TypeOK
  <2>4. faults' = 0 => SniffedEndNext
    BY <1>1, <1>4, CalmNow DEF SniffedEndNext, TypeOK
  <2>5. CalmNext
    BY <1>1, <1>4, <2>3, <2>4, CalmNow DEF CalmNext
  <2>6. CalmOK'
    BY <1>1, <2>5, CalmAfter
  <2>7. QuietStep
    BY <1>4 DEF QuietStep, SameData
  <2> QED  BY <1>1, <2>1, <2>2, <2>6, <2>7, QuietSteps DEF IInv
<1> QED  BY <1>3, <1>4

-----------------------------------------------------------------------------
(* Steps that move bytes, or lose them. *)

LEMMA HeldAfter ==
  ASSUME kind' = kind, NEW r \in Relays, NEW d \in Directions
  PROVE  Held(r, d)' =
           (buffer'[r][d] \o (IF From(r, d) = "tunnel" THEN pending'[r] ELSE <<>>))
             \o Contents(pipe'[From(r, d)][d])
BY SamePlaces DEF Held, Kept, Source, Contents

LEMMA HeldUnchanged ==
  ASSUME kind' = kind, NEW r \in Relays, NEW d \in Directions,
         buffer'[r][d] = buffer[r][d], SameData(From(r, d), d),
         From(r, d) = "tunnel" => pending'[r] = pending[r]
  PROVE  Held(r, d)' = Held(r, d)
<1>1. Contents(pipe'[From(r, d)][d]) = Contents(pipe[From(r, d)][d])
  BY DEF SameData, Contents
<1> QED  BY <1>1, HeldAfter DEF Held, Kept, Source

LEMMA ArrivedUnchanged ==
  ASSUME NEW d \in Directions, received'[Sink(d)] = received[Sink(d)],
         SameData(Sink(d), d)
  PROVE  Arrived(d)' = Arrived(d)
BY DEF SameData, Contents, Arrived

LEMMA FlowSame ==
  ASSUME TypeOK, TypeOK', NEW d \in Directions, FlowOK(d), kind' = kind,
         sent'[Origin(d)] = sent[Origin(d)], faults' = 0 => faults = 0,
         Arrived(d)' = Arrived(d),
         \A r \in Working(d) : Held(r, d)' = Held(r, d),
         \A s \in Segments : CanWrite(pipe'[s][d]) => CanWrite(pipe[s][d])
  PROVE  FlowOK(d)'
<1>1. PICK f \in Relays, l \in Relays : FlowNext(d, f, l)
           /\ f \in Working(d) /\ l \in Working(d)
  BY FlowAfter
<1>2. Ordered(d, f, l) /\ FlowParted(d, f, l) /\ FlowTyped(d)
  BY <1>1, FlowParts, FlowTypes DEF AllParted, AllTyped, FlowNext
<1>3. /\ Sink(d) \in Segments /\ Origin(d) \in Segments
      /\ To(f, d) \in Segments
  BY Places, Sides
<1>4. /\ Beyond(l, d)' => Beyond(l, d)
      /\ Beyond(f, d)' => Beyond(f, d)
      /\ PathOpen(d)' => PathOpen(d)
  BY <1>1, <1>2, <1>3 DEF FlowNext, FlowParted, Target
<1>5. /\ Arrived(d) = Arrived(d) \o <<>>
      /\ Held(f, d) = Held(f, d) \o <<>> /\ Held(l, d) = Held(l, d) \o <<>>
  BY <1>2, Empty DEF FlowTyped
<1>6. Held(f, d)' = Held(f, d) /\ Held(l, d)' = Held(l, d)
  BY <1>1
<1>7. FlowKept(d, f, l)
  BY <1>4, <1>5, <1>6, Empty DEF FlowKept
<1> QED  BY <1>2, <1>7, FlowKeeps

(* The end e has left: what arrived at it and was not read is lost.        *)
LEMMA FlowAbandoned ==
  ASSUME TypeOK, TypeOK', NEW d \in Directions, FlowOK(d), kind' = kind,
         sent'[Origin(d)] = sent[Origin(d)], received'[Sink(d)] = received[Sink(d)],
         faults' # 0, pipe'[Sink(d)][d].data = <<>>, pipe'[Sink(d)][d].deaf = TRUE
  PROVE  FlowOK(d)'
<1>1. PICK f \in Relays, l \in Relays : FlowNext(d, f, l)
  BY FlowAfter
<1>2. Ordered(d, f, l) /\ FlowTyped(d)
  BY <1>1, FlowTypes DEF AllTyped, FlowNext
<1>3. ~ Beyond(l, d)' /\ ~ Beyond(f, d)' /\ ~ PathOpen(d)'
  BY <1>1 DEF FlowNext, CanWrite
<1>4. /\ received[Sink(d)] \in Seq(Bytes)
      /\ Contents(pipe[Sink(d)][d]) \in Seq(Bytes)
  BY Places, PipeTypes DEF TypeOK
<1>5. Arrived(d)' = received[Sink(d)]
  BY <1>1, <1>4, EmptyContents, Empty DEF FlowNext
<1>6. Arrived(d) = Arrived(d)' \o Contents(pipe[Sink(d)][d])
  BY <1>5 DEF Arrived
<1>7. FlowKept(d, f, l)
  BY <1>3, <1>4, <1>6 DEF FlowKept
<1> QED  BY <1>2, <1>7, FlowKeeps

(* No step in which somebody fails or leaves has to say what is left.      *)
LEMMA NotCalm ==
  ASSUME faults' # 0
  PROVE  CalmOK'
BY DEF CalmOK

LEMMA FaultTypes ==
  ASSUME TypeOK, Fault
  PROVE  faults' \in 0 .. MaxFaults /\ faults' # 0
BY DEF TypeOK, Fault

LEMMA EmptyWithin ==
  ASSUME NEW s \in Segments, NEW p, p.data = <<>>
  PROVE  Within(s, p)
BY EmptyContents, Empty, Capacities DEF Within

LEMMA LeaveStep ==
  ASSUME IInv, NEW e \in Ends, Leave(e)
  PROVE  IInv'
<1> USE DEF Leave, inVars, copyVars, endVars
<1>1. TypeOK /\ StagesOK /\ \A d \in Directions : FlowOK(d)
  BY DEF IInv
<1>2. faults' \in 0 .. MaxFaults /\ faults' # 0
  BY <1>1, FaultTypes
<1>3. PICK c \in Directions, i \in Directions :
        /\ c = Outwards(e) /\ i = Opposite(c) /\ i # c
        /\ Origin(c) = e /\ Sink(i) = e /\ c = Opposite(i)
        /\ \A d \in Directions : d = c \/ d = i
  BY Ways, Places
<1>4. PICK segment \in Dropped(e, c, pipe[e]), how \in {"closed", "reset"} :
        pipe' = [pipe EXCEPT ![e] =
                   IF how = "reset" /\ pipe[e][c].end = "open"
                   THEN [segment EXCEPT ![c].end = "reset"] ELSE segment]
  BY <1>3
<1>5. DropsTo(pipe[e], c, segment)
  <2>1. pipe[e] \in [Directions -> Pipe]
    BY <1>1 DEF TypeOK
  <2> QED  BY <2>1, Drops
<1>6. PICK q : /\ q = IF how = "reset" /\ pipe[e][c].end = "open"
                      THEN [segment EXCEPT ![c].end = "reset"] ELSE segment
               /\ q \in [Directions -> Pipe]
               /\ q[c].data = pipe[e][c].data /\ q[c].end \in {"fin", "reset"}
               /\ q[i] = segment[i]
  <2>1. CASE how = "reset" /\ pipe[e][c].end = "open"
    <3>1. PICK a \in Pipe : a = [segment[c] EXCEPT !.end = "reset"]
      BY <1>5 DEF DropsTo, Pipe
    <3>2. a.data = segment[c].data /\ a.end = "reset"
      BY <1>5, <3>1 DEF DropsTo, Pipe
    <3>3. [segment EXCEPT ![c].end = "reset"] = [segment EXCEPT ![c] = a]
      BY <1>5, <3>1 DEF DropsTo
    <3>4. PICK x : x = [segment EXCEPT ![c] = a]
      OBVIOUS
    <3>5. x \in [Directions -> Pipe] /\ x[c] = a /\ x[i] = segment[i]
      BY <1>3, <1>5, <3>4 DEF DropsTo
    <3>6. x[c].data = pipe[e][c].data /\ x[c].end \in {"fin", "reset"}
      BY <1>5, <3>2, <3>5 DEF DropsTo
    <3> QED  BY <2>1, <3>3, <3>4, <3>5, <3>6
  <2>2. CASE ~ (how = "reset" /\ pipe[e][c].end = "open")
    BY <1>5, <2>2 DEF DropsTo
  <2> QED  BY <2>1, <2>2
<1>7. /\ pipe' \in [Segments -> [Directions -> Pipe]]
      /\ pipe'[e] = q
      /\ \A s \in Segments : s # e => pipe'[s] = pipe[s]
  BY <1>1, <1>4, <1>6 DEF TypeOK
<1>8. pipe'[e][i].data = <<>> /\ pipe'[e][i].deaf = TRUE
  BY <1>3, <1>5, <1>6, <1>7 DEF DropsTo
<1>9. ASSUME NEW s \in Segments, NEW d \in Directions
      PROVE  \/ s = e /\ d = i
             \/ SameData(s, d) /\ (CanWrite(pipe'[s][d]) => CanWrite(pipe[s][d]))
  BY <1>3, <1>6, <1>7 DEF SameData, CanWrite
<1>10. ASSUME NEW s \in Segments, NEW d \in Directions
       PROVE  Within(s, pipe'[s][d])
  <2>1. CASE s = e /\ d = i
    <3>1. pipe'[s][d].data = <<>>
      BY <1>8, <2>1
    <3> QED  BY <3>1, EmptyWithin
  <2>2. CASE SameData(s, d)
    BY <1>1, <2>2 DEF TypeOK, Within, Contents, SameData
  <2> QED  BY <1>9, <2>1, <2>2
<1>11. TypeOK'
  BY <1>1, <1>2, <1>7, <1>10 DEF TypeOK, Within, Contents
<1>12. StagesOK'
  <2>1. \A s \in Segments, d \in Directions :
          ~ Framed(s)' => Len(pipe'[s][d].data) <= 1
    BY <1>1, <1>8, <1>9, Empty, ShortFrames
  <2> QED  BY <1>1, <2>1 DEF StagesOK
<1>13. FlowOK(c)'
  <2>1. QuietFlow(c)
    BY <1>2, <1>3, <1>9 DEF QuietFlow
  <2> QED  BY <1>1, <1>11, <2>1, FlowQuiet
<1>14. FlowOK(i)'
  BY <1>1, <1>2, <1>3, <1>8, <1>11, FlowAbandoned
<1>15. \A d \in Directions : FlowOK(d)'
  BY <1>3, <1>13, <1>14
<1> QED  BY <1>2, <1>11, <1>12, <1>15, NotCalm DEF IInv

LEMMA RejectStep ==
  ASSUME IInv, Reject
  PROVE  IInv'
<1> USE DEF inVars, copyVars, endVars
<1>1. TypeOK /\ StagesOK /\ \A d \in Directions : FlowOK(d)
  BY DEF IInv
<1>2. faults' \in 0 .. MaxFaults /\ faults' # 0
  BY <1>1, FaultTypes DEF Reject
<1>3. /\ pc["in"] = "select" /\ kind' = kind
      /\ pc' = [pc EXCEPT !["in"] = "done"]
      /\ buffer' = [buffer EXCEPT !["in"] = Both(<<>>)]
      /\ end' = FALSE
      /\ UNCHANGED <<read_attempts, copy, pending, sent, received, saw, reached>>
  BY DEF Reject
<1>4. PICK client \in Dropped("client", "down", pipe["client"]),
           how \in {"shutdown", "dropped"} :
        pipe' = [pipe EXCEPT !["client"] =
                   IF how = "dropped" THEN client
                   ELSE [client EXCEPT !["down"].end = "fin"]]
  BY DEF Reject
<1>5. DropsTo(pipe["client"], "down", client)
  <2>1. pipe["client"] \in [Directions -> Pipe]
    BY <1>1 DEF TypeOK
  <2> QED  BY <2>1, Drops
<1>6. PICK q : /\ q = IF how = "dropped" THEN client
                      ELSE [client EXCEPT !["down"].end = "fin"]
               /\ q \in [Directions -> Pipe]
               /\ q["down"].data = pipe["client"]["down"].data
               /\ q["down"].end \in {"fin", "reset"}
               /\ q["up"] = client["up"]
  <2>1. CASE how # "dropped"
    <3>1. PICK a \in Pipe : a = [client["down"] EXCEPT !.end = "fin"]
      BY <1>5 DEF DropsTo, Pipe
    <3>2. a.data = client["down"].data /\ a.end = "fin"
      BY <1>5, <3>1 DEF DropsTo, Pipe
    <3>3. [client EXCEPT !["down"].end = "fin"] = [client EXCEPT !["down"] = a]
      BY <1>5, <3>1 DEF DropsTo
    <3>4. PICK x : x = [client EXCEPT !["down"] = a]
      OBVIOUS
    <3>5. x \in [Directions -> Pipe] /\ x["down"] = a /\ x["up"] = client["up"]
      BY <1>5, <3>4 DEF DropsTo
    <3>6. /\ x["down"].data = pipe["client"]["down"].data
          /\ x["down"].end \in {"fin", "reset"}
      BY <1>5, <3>2, <3>5 DEF DropsTo
    <3> QED  BY <2>1, <3>3, <3>4, <3>5, <3>6
  <2>2. CASE how = "dropped"
    BY <1>5, <2>2 DEF DropsTo
  <2> QED  BY <2>1, <2>2
<1>7. /\ pipe' \in [Segments -> [Directions -> Pipe]]
      /\ pipe'["client"] = q
      /\ \A s \in Segments : s # "client" => pipe'[s] = pipe[s]
  BY <1>1, <1>4, <1>6 DEF TypeOK
<1>8. pipe'["client"]["up"].data = <<>> /\ pipe'["client"]["up"].deaf = TRUE
  <2>1. Opposite("down") = "up"
    BY DEF Opposite
  <2> QED  BY <1>5, <1>6, <1>7, <2>1 DEF DropsTo
<1>9. ASSUME NEW s \in Segments, NEW d \in Directions
      PROVE  \/ s = "client" /\ d = "up"
             \/ SameData(s, d) /\ (CanWrite(pipe'[s][d]) => CanWrite(pipe[s][d]))
  BY <1>6, <1>7 DEF SameData, CanWrite
<1>10. ASSUME NEW s \in Segments, NEW d \in Directions
       PROVE  Within(s, pipe'[s][d])
  <2>1. CASE s = "client" /\ d = "up"
    <3>1. pipe'[s][d].data = <<>>
      BY <1>8, <2>1
    <3> QED  BY <3>1, EmptyWithin
  <2>2. CASE SameData(s, d)
    BY <1>1, <2>2 DEF TypeOK, Within, Contents, SameData
  <2> QED  BY <1>9, <2>1, <2>2
<1>11. /\ buffer'["in"] = Both(<<>>) /\ buffer'["out"] = buffer["out"]
       /\ buffer' \in [Relays -> [Directions -> Seq(Bytes)]]
       /\ buffer["in"]["down"] = <<>>
  <2>1. Both(<<>>) \in [Directions -> Seq(Bytes)]
    BY Empty DEF Both
  <2>2. buffer["in"]["down"] = <<>>
    BY <1>1, <1>3 DEF StagesOK
  <2> QED  BY <1>1, <1>3, <2>1, <2>2 DEF TypeOK
<1>12. pc'["in"] = "done" /\ pc'["out"] = "none"
  BY <1>1, <1>3 DEF TypeOK, StagesOK
<1>13. TypeOK'
  <2>1. pc' \in [Relays -> InStages \union OutStages]
    BY <1>1, <1>3 DEF TypeOK
  <2>2. ASSUME NEW r \in Relays, NEW d \in Directions, pc'[r] = "copy"
        PROVE  Len(buffer'[r][d]) <= BufferSize
    BY <1>12, <2>2
  <2> QED  BY <1>1, <1>2, <1>3, <1>7, <1>10, <1>11, <1>12, <2>1, <2>2
           DEF TypeOK, Within, Contents
<1>14. StagesOK'
  <2>1. \A s \in Segments, d \in Directions :
          ~ Framed(s)' => Len(pipe'[s][d].data) <= 1
    BY <1>1, <1>3, <1>8, <1>9, Empty, ShortFrames
  <2> QED  BY <1>1, <1>3, <1>11, <1>12, <2>1 DEF StagesOK, TypeOK
<1>15. FlowOK("down")'
  <2>1. buffer'["in"]["down"] = <<>>
    BY <1>11 DEF Both
  <2>2. \A r \in Relays : buffer'[r]["down"] = buffer[r]["down"]
    BY <1>11, <2>1
  <2>3. QuietFlow("down")
    BY <1>2, <1>3, <1>9, <2>2, Paths DEF QuietFlow
  <2> QED  BY <1>1, <1>13, <2>3, FlowQuiet
<1>16. FlowOK("up")'
  <2>1. PICK f \in Relays, l \in Relays : FlowNext("up", f, l)
             /\ f \in Working("up") /\ l \in Working("up")
    BY <1>1, <1>3, FlowAfter
  <2>2. /\ Ordered("up", f, l) /\ FlowParted("up", f, l) /\ FlowTyped("up")
        /\ f = "in" /\ Origin("up") = "client" /\ Sink("up") = "server"
        /\ From("in", "up") = "client" /\ To(f, "up") \in Segments
        /\ To(f, "up") # "client"
        /\ l # f => From(l, "up") = "tunnel"
    BY <1>1, <2>1, FlowParts, FlowTypes, Places, Sides, Paths
       DEF AllParted, AllTyped, FlowNext, Ordered, FirstRelay, Origin, Sink,
           Opposite
  <2>3. Arrived("up")' = Arrived("up")
    BY <1>3, <1>9, <2>2, ArrivedUnchanged
  <2>4. Held(f, "up")' = <<>>
    <3>1. Contents(pipe'["client"]["up"]) = <<>> /\ buffer'["in"]["up"] = <<>>
      BY <1>8, <1>11, EmptyContents DEF Both
    <3> QED  BY <2>1, <2>2, <3>1, Empty DEF FlowNext
  <2>5. l # f => Held(l, "up")' = Held(l, "up")
    BY <1>3, <1>9, <1>11, <2>2, HeldUnchanged
  <2>6. /\ Arrived("up") = Arrived("up") \o <<>>
        /\ \A r \in {f, l} : /\ Held(r, "up") = Held(r, "up") \o <<>>
                             /\ Held(r, "up") = <<>> \o Held(r, "up")
                             /\ Held(r, "up") \in Seq(Bytes)
    BY <2>2, Empty DEF FlowTyped
  <2>7. /\ Beyond(l, "up")' => Beyond(l, "up")
        /\ Beyond(f, "up")' => Beyond(f, "up")
        /\ ~ PathOpen("up")'
    BY <1>8, <1>9, <2>1, <2>2 DEF FlowNext, FlowParted, Target, CanWrite
  <2>8. FlowKept("up", f, l)
    BY <1>2, <1>3, <2>3, <2>4, <2>5, <2>6, <2>7, Empty DEF FlowKept
  <2> QED  BY <1>1, <1>13, <2>2, <2>8, FlowKeeps
<1>17. \A d \in Directions : FlowOK(d)'
  BY <1>15, <1>16
<1> QED  BY <1>2, <1>13, <1>14, <1>17, NotCalm DEF IInv

(* What the tunnel loses on the way is the last that was written to it.    *)
LEMMA LostParts ==
  ASSUME NEW p \in Pipe, NEW q \in Lost(p)
  PROVE  /\ q \in Pipe /\ q.deaf = p.deaf
         /\ q = p \/ q.end = "reset"
         /\ p.end = "reset" => q.end = "reset"
         /\ Len(q.data) <= Len(p.data) /\ Len(q.data) \in Nat
         /\ Len(Contents(q)) <= Len(Contents(p))
         /\ \E rest \in Seq(Bytes) : Contents(p) = Contents(q) \o rest
<1>1. p.data \in Data /\ Contents(p) \in Seq(Bytes)
  BY FlattenInBytes DEF Pipe, Data, Contents
<1>2. CASE q = p
  <2>1. Contents(p) = Contents(p) \o <<>>
    BY <1>1, Empty
  <2>2. Len(p.data) \in Nat /\ Len(Contents(p)) \in Nat
    BY <1>1, LenProperties DEF Data
  <2>3. \E rest \in Seq(Bytes) : Contents(p) = Contents(p) \o rest
    BY <2>1, Empty
  <2>4. Len(p.data) <= Len(p.data) /\ Len(Contents(p)) <= Len(Contents(p))
    BY <2>2
  <2> QED  BY <1>2, <2>2, <2>3, <2>4
<1>3. CASE q # p
  <2>1. PICK n \in 0 .. Len(p.data) :
          q = [p EXCEPT !.data = SubSeq(p.data, 1, n), !.end = "reset"]
    BY <1>3 DEF Lost
  <2>2. PICK part \in Data : /\ part = SubSeq(p.data, 1, n)
                             /\ Len(part) = n
    BY <1>1, PartData
  <2>3. PICK rest \in Seq(Bytes) :
          FlattenSeq(p.data) = FlattenSeq(part) \o rest
    BY <1>1, <2>2, PartData
  <2>4. /\ q \in Pipe /\ q.data = part /\ q.deaf = p.deaf /\ q.end = "reset"
    BY <2>1, <2>2 DEF Pipe, Data
  <2>5. Contents(p) = Contents(q) \o rest /\ Contents(q) \in Seq(Bytes)
    BY <2>3, <2>4, FlattenInBytes DEF Contents
  <2>6. Len(Contents(q)) <= Len(Contents(p))
    BY <2>5, Concatenated
  <2>7. Len(q.data) <= Len(p.data) /\ Len(q.data) \in Nat
    BY <1>1, <2>2, <2>4, LenProperties DEF Data
  <2> QED  BY <2>4, <2>5, <2>6, <2>7
<1> QED  BY <1>2, <1>3

LEMMA TunnelLostStep ==
  ASSUME IInv, TunnelLost
  PROVE  IInv'
<1> USE DEF inVars, copyVars, endVars
<1>1. TypeOK /\ StagesOK /\ \A d \in Directions : FlowOK(d)
  BY DEF IInv
<1>2. faults' \in 0 .. MaxFaults /\ faults' # 0
  BY <1>1, FaultTypes DEF TunnelLost
<1>3. /\ kind # "direct" /\ kind' = kind
      /\ UNCHANGED <<pc, read_attempts, end, copy, buffer, pending, sent,
                     received, saw, reached>>
  BY <1>1 DEF TunnelLost, StagesOK
<1>4. PICK up \in Lost(pipe["tunnel"]["up"]), down \in Lost(pipe["tunnel"]["down"]) :
        pipe' = [pipe EXCEPT !["tunnel"]["up"] = up, !["tunnel"]["down"] = down]
  BY DEF TunnelLost
<1>5. \A d \in Directions : pipe["tunnel"][d] \in Pipe
  BY <1>1 DEF TypeOK
<1>6. up \in Pipe /\ down \in Pipe
  BY <1>5, LostParts
<1>7. /\ pipe' \in [Segments -> [Directions -> Pipe]]
      /\ pipe'["tunnel"]["up"] = up /\ pipe'["tunnel"]["down"] = down
      /\ \A s \in Segments, d \in Directions :
           s # "tunnel" => pipe'[s][d] = pipe[s][d]
  <2>1. PICK q : q = [pipe["tunnel"] EXCEPT !["up"] = up, !["down"] = down]
    OBVIOUS
  <2>2. q \in [Directions -> Pipe] /\ q["up"] = up /\ q["down"] = down
    BY <1>1, <1>6, <2>1 DEF TypeOK
  <2>3. pipe' = [pipe EXCEPT !["tunnel"] = q]
    BY <1>1, <1>4, <2>1 DEF TypeOK
  <2> QED  BY <1>1, <2>2, <2>3 DEF TypeOK
<1>8. ASSUME NEW d \in Directions
      PROVE  pipe'["tunnel"][d] \in Lost(pipe["tunnel"][d])
  BY <1>7
<1>9. ASSUME NEW s \in Segments, NEW d \in Directions
      PROVE  /\ Within(s, pipe'[s][d])
             /\ Len(pipe'[s][d].data) <= Len(pipe[s][d].data)
             /\ Len(pipe'[s][d].data) \in Nat
  <2>0. Len(pipe[s][d].data) \in Nat /\ Within(s, pipe[s][d])
        /\ Len(Contents(pipe[s][d])) \in Nat
    BY <1>1, PipeTypes, LenProperties DEF Data, TypeOK, Within
  <2>1. CASE s = "tunnel"
    <3>1. PICK n \in Nat, m \in Nat :
            n = Len(Contents(pipe'[s][d])) /\ m = Len(Contents(pipe[s][d]))
      BY <1>5, <1>8, <2>0, <2>1, LostParts, FlattenInBytes, LenProperties
         DEF Contents, Pipe, Data
    <3>2. n <= m
      BY <1>5, <1>8, <2>1, <3>1, LostParts
    <3>3. Within(s, pipe'[s][d])
      BY <2>0, <3>1, <3>2, Capacities DEF Within
    <3> QED  BY <1>5, <1>8, <2>1, <3>3, LostParts
  <2>2. CASE s # "tunnel"
    BY <1>7, <2>0, <2>2
  <2> QED  BY <2>1, <2>2
<1>10. TypeOK'
  BY <1>1, <1>2, <1>3, <1>7, <1>9 DEF TypeOK, Within, Contents
<1>11. StagesOK'
  <2>1. ASSUME NEW s \in Segments, NEW d \in Directions, ~ Framed(s)'
        PROVE  Len(pipe'[s][d].data) <= 1
    <3>1. Len(pipe[s][d].data) <= 1
      BY <1>1, <1>3, <2>1 DEF StagesOK, Framed
    <3>2. PICK n \in Nat, m \in Nat :
            n = Len(pipe[s][d].data) /\ m = Len(pipe'[s][d].data)
      BY <1>1, <1>9, PipeTypes, LenProperties DEF Data
    <3>3. m <= n
      BY <1>9, <3>2
    <3> QED  BY <3>1, <3>2, <3>3
  <2> QED  BY <1>1, <1>3, <2>1 DEF StagesOK
<1>12. ASSUME NEW d \in Directions
       PROVE  FlowOK(d)'
  <2>1. PICK f \in Relays, l \in Relays : FlowNext(d, f, l)
             /\ f \in Working(d) /\ l \in Working(d)
    BY <1>1, <1>3, FlowAfter
  <2>2. Ordered(d, f, l) /\ FlowParted(d, f, l) /\ FlowTyped(d)
    BY <1>1, <2>1, FlowParts, FlowTypes DEF AllParted, AllTyped, FlowNext
  <2>3. /\ f # l /\ To(f, d) = "tunnel" /\ From(l, d) = "tunnel"
        /\ Sink(d) \in Segments /\ Sink(d) # "tunnel"
        /\ Origin(d) \in Segments /\ Origin(d) # "tunnel"
        /\ From(f, d) = Origin(d)
    BY <1>3, <2>2, Places DEF Ordered, FirstRelay, LastRelay
  <2>4. Arrived(d)' = Arrived(d) /\ Held(f, d)' = Held(f, d)
    BY <1>3, <1>7, <2>3, ArrivedUnchanged, HeldUnchanged DEF SameData
  <2>5. PICK rest \in Seq(Bytes) :
          Contents(pipe["tunnel"][d]) = Contents(pipe'["tunnel"][d]) \o rest
    <3>1. PICK p \in Pipe : p = pipe["tunnel"][d]
      BY <1>5
    <3>2. PICK q \in Lost(p) : q = pipe'["tunnel"][d]
      BY <1>8, <3>1
    <3>3. \E rest \in Seq(Bytes) : Contents(p) = Contents(q) \o rest
      BY LostParts
    <3> QED  BY <3>1, <3>2, <3>3
  <2>6. Held(l, d) = Held(l, d)' \o rest
    <3>1. /\ Held(l, d) = (buffer[l][d] \o pending[l]) \o Contents(pipe["tunnel"][d])
          /\ Held(l, d)' = (buffer[l][d] \o pending[l]) \o Contents(pipe'["tunnel"][d])
      BY <1>3, <2>1, <2>3 DEF Held, Kept, Source, FlowNext
    <3>2. PICK a \in Seq(Bytes), b \in Seq(Bytes) :
            a = buffer[l][d] \o pending[l] /\ b = Contents(pipe'["tunnel"][d])
      <4>1. buffer[l][d] \in Seq(Bytes) /\ pending[l] \in Seq(Bytes)
        BY <1>1 DEF TypeOK
      <4>2. Contents(pipe'["tunnel"][d]) \in Seq(Bytes)
        BY <1>7, FlattenInBytes DEF Contents, Pipe, Data
      <4> QED  BY <4>1, <4>2, Concatenated
    <3>3. a \o (b \o rest) = (a \o b) \o rest
      BY Associative
    <3> QED  BY <2>5, <3>1, <3>2, <3>3
  <2>7. /\ pipe'["tunnel"][d] = pipe["tunnel"][d] \/ ~ CanWrite(pipe'["tunnel"][d])
        /\ CanWrite(pipe'[Sink(d)][d]) <=> CanWrite(pipe[Sink(d)][d])
        /\ CanWrite(pipe'[Origin(d)][d]) <=> CanWrite(pipe[Origin(d)][d])
    BY <1>5, <1>7, <1>8, <2>3, LostParts DEF CanWrite
  <2>8. /\ Beyond(l, d)' => Beyond(l, d)
        /\ Beyond(f, d)' => Beyond(f, d) /\ pipe'["tunnel"][d] = pipe["tunnel"][d]
        /\ PathOpen(d)' => PathOpen(d)
    BY <2>1, <2>2, <2>3, <2>7 DEF FlowNext, FlowParted, Target
  <2>9. pipe'["tunnel"][d] = pipe["tunnel"][d] => Held(l, d)' = Held(l, d)
    BY <1>3, <2>3, HeldUnchanged DEF SameData
  <2>10. Arrived(d) = Arrived(d) \o <<>> /\ Held(f, d) = Held(f, d) \o <<>>
    BY <2>2, Empty DEF FlowTyped
  <2>11. FlowKept(d, f, l)
    BY <1>2, <1>3, <2>4, <2>6, <2>8, <2>9, <2>10, Empty DEF FlowKept
  <2> QED  BY <1>1, <1>10, <2>2, <2>11, FlowKeeps
<1> QED  BY <1>2, <1>10, <1>11, <1>12, NotCalm DEF IInv

-----------------------------------------------------------------------------
(* Steps that move bytes. *)

(* Only the data of one pipe have changed, to q. *)
OnlyData(s, d, q) ==
  /\ pipe' \in [Segments -> [Directions -> Pipe]]
  /\ pipe'[s][d].data = q
  /\ \A t \in Segments, e \in Directions :
       /\ Within(t, pipe'[t][e])
       /\ pipe'[t][e].end = pipe[t][e].end
       /\ pipe'[t][e].deaf = pipe[t][e].deaf
       /\ t # s \/ e # d => pipe'[t][e] = pipe[t][e]

LEMMA SetPipeData ==
  ASSUME TypeOK, NEW s \in Segments, NEW d \in Directions, NEW q \in Data,
         Len(FlattenSeq(q)) <= Len(Contents(pipe[s][d])),
         pipe' = [pipe EXCEPT ![s][d].data = q]
  PROVE  OnlyData(s, d, q)
<1>1. pipe[s][d] \in Pipe /\ Contents(pipe[s][d]) \in Seq(Bytes)
  BY PipeTypes
<1>2. PICK p \in Pipe : /\ p = [pipe[s][d] EXCEPT !.data = q] /\ p.data = q
                        /\ p.end = pipe[s][d].end /\ p.deaf = pipe[s][d].deaf
  BY <1>1, SetData
<1>3. pipe' = [pipe EXCEPT ![s][d] = p]
  BY <1>2 DEF TypeOK
<1>4. Within(s, p)
  <2>1. PICK m \in Nat, n \in Nat, k \in Nat :
          /\ m = Len(FlattenSeq(q)) /\ n = Len(Contents(pipe[s][d]))
          /\ k = Capacity(s)
    BY <1>1, FlattenInBytes, LenProperties, Capacities
  <2>2. n <= k
    BY <2>1 DEF TypeOK
  <2>3. m <= k
    BY <2>1, <2>2
  <2> QED  BY <1>2, <2>1, <2>3 DEF Within, Contents
<1>5. /\ pipe' \in [Segments -> [Directions -> Pipe]]
      /\ \A t \in Segments, e \in Directions : Within(t, pipe'[t][e])
      /\ pipe'[s][d] = p
      /\ \A t \in Segments, e \in Directions :
           t # s \/ e # d => pipe'[t][e] = pipe[t][e]
  BY <1>3, <1>4, SetPipe
<1> QED  BY <1>2, <1>5 DEF OnlyData

(* What CalmOK says of a direction does not depend on the bytes that its   *)
(* relays still read.                                                      *)
CalmBytes ==
  /\ kind' = kind /\ copy' = copy /\ faults' = faults /\ end' = end
  /\ \A s \in Segments, d \in Directions :
       /\ pipe'[s][d].end = pipe[s][d].end
       /\ pipe'[s][d].deaf = pipe[s][d].deaf
  /\ \A r \in Relays : pc'[r] = "done" => pc[r] = "done"
  /\ \A d \in Directions : \A r \in Working(d) :
       \/ copy[r][d] = "copying"
       \/ Source(r, d).end # "fin"
       \/ /\ SameData(From(r, d), d)
          /\ From(r, d) = "tunnel" => pending'[r] = pending[r]
          /\ copy[r][d] = "ended" => buffer'[r][d] = buffer[r][d]
  /\ end => /\ pc["in"] \in {"select", "connect"} => pc'["in"] = pc["in"]
            /\ pipe["client"]["up"].end # "fin" \/ SameData("client", "up")

LEMMA CalmKeeps ==
  ASSUME TypeOK, CalmOK, CalmBytes
  PROVE  CalmOK'
<1> SUFFICES ASSUME faults' = 0
             PROVE  CalmNext
  BY CalmAfter DEF CalmBytes, CalmNext
<1>1. /\ \A s \in Segments, d \in Directions : pipe[s][d].end \in {"open", "fin"}
      /\ \A d \in Directions : /\ ~ pipe[Sink(d)][d].deaf
                               /\ \A r \in Working(d) : EndsOK(r, d)
      /\ end => /\ pc["in"] \in {"select", "connect"}
                /\ pipe["client"]["up"].end = "fin"
                /\ pipe["client"]["up"].data = <<>>
  BY CalmNow DEF CalmBytes
<1>2. ASSUME NEW d \in Directions, NEW r \in Working(d)
      PROVE  EndsNext(r, d)
  <2>1. EndsOK(r, d)
    BY <1>1
  <2>2. r \in Relays /\ From(r, d) \in Segments /\ To(r, d) \in Segments
    BY Paths
  <2>3. /\ pipe'[To(r, d)][d].end = pipe[To(r, d)][d].end
        /\ pipe'[From(r, d)][d].end = pipe[From(r, d)][d].end
        /\ pipe'[From(r, d)][d].deaf = pipe[From(r, d)][d].deaf
        /\ pc'[r] = "done" => pc[r] = "done"
        /\ copy' = copy
    BY <2>2 DEF CalmBytes
  <2>4. CASE copy[r][d] = "copying"
    BY <2>1, <2>3, <2>4 DEF EndsNext, EndsOK, Source, Target
  <2>5. CASE copy[r][d] # "copying"
    <3>1. Source(r, d).end = "fin" /\ AllRead(r, d)
      BY <2>1, <2>5 DEF EndsOK
    <3>2. /\ SameData(From(r, d), d)
          /\ From(r, d) = "tunnel" => pending'[r] = pending[r]
          /\ copy[r][d] = "ended" => buffer'[r][d] = buffer[r][d]
      BY <2>5, <3>1 DEF CalmBytes
    <3> QED  BY <2>1, <2>3, <3>1, <3>2
             DEF EndsNext, EndsOK, Source, Target, AllRead, SameData
  <2> QED  BY <2>4, <2>5
<1>3. SniffedEndNext
  BY <1>1 DEF CalmBytes, SniffedEndNext, SameData
<1>4. \A d \in Directions : ~ pipe'[Sink(d)][d].deaf
  BY <1>1, Places DEF CalmBytes
<1>5. \A s \in Segments, d \in Directions : pipe'[s][d].end # "reset"
  BY <1>1 DEF CalmBytes
<1> QED  BY <1>2, <1>3, <1>4, <1>5 DEF CalmNext

LEMMA ReceiveStep ==
  ASSUME IInv, NEW e \in Ends, Receive(e)
  PROVE  IInv'
<1> USE DEF inVars, copyVars, endVars, NoFault
<1>1. TypeOK /\ StagesOK /\ CalmOK /\ \A d \in Directions : FlowOK(d)
  BY DEF IInv
<1>2. PICK i \in Directions, c \in Directions :
        /\ i = Inwards(e) /\ Sink(i) = e /\ c = Opposite(i) /\ Sink(c) # e
        /\ e \in Segments /\ \A d \in Directions : d = i \/ d = c
  BY Ways, Places
<1>3. PICK p \in Pipe : /\ p = pipe[e][i] /\ p.data \in Data
                        /\ Contents(p) \in Seq(Bytes)
  BY <1>1, <1>2, PipeTypes
<1>4. /\ faults' = faults
      /\ UNCHANGED <<kind, pc, read_attempts, end, copy, buffer, pending, sent, reached>>
  BY DEF Receive
<1>5. CASE /\ p.data # <<>>
           /\ received' = [received EXCEPT ![e] = @ \o Contents(p)]
           /\ pipe' = [pipe EXCEPT ![e][i].data = <<>>]
           /\ UNCHANGED saw
  <2>1. Len(FlattenSeq(<<>>)) <= Len(Contents(pipe[e][i]))
    BY <1>3, FlattenEmpty, Empty, LenProperties
  <2>2. OnlyData(e, i, <<>>)
    BY <1>1, <1>2, <1>5, <2>1, Empty, SetPipeData
  <2>3. /\ received' \in [Ends -> Seq(Bytes)]
        /\ received'[e] = received[e] \o Contents(p)
        /\ \A x \in Ends : x # e => received'[x] = received[x]
    <3>1. received[e] \o Contents(p) \in Seq(Bytes)
      BY <1>1, <1>3, Concatenated DEF TypeOK
    <3> QED  BY <1>1, <1>5, <3>1 DEF TypeOK
  <2>4. TypeOK'
    BY <1>1, <1>4, <1>5, <2>2, <2>3 DEF OnlyData, TypeOK, Within, Contents
  <2>5. StagesOK'
    <3>1. \A t \in Segments, d \in Directions :
            ~ Framed(t)' => Len(pipe'[t][d].data) <= 1
      BY <1>1, <1>4, <2>2, Empty, ShortFrames DEF OnlyData, SameData
    <3> QED  BY <1>1, <1>4, <3>1 DEF StagesOK
  <2>6. CalmOK'
    <3>1. ASSUME NEW d \in Directions, NEW r \in Working(d)
          PROVE  SameData(From(r, d), d)
      BY <1>2, <2>2, Paths DEF OnlyData, SameData
    <3>2. SameData("client", "up")
      <4>1. ~ (e = "client" /\ i = "up")
        BY <1>2 DEF Sink, Origin, Opposite
      <4> QED  BY <2>2, <4>1 DEF OnlyData, SameData
    <3>3. CalmBytes
      BY <1>4, <2>2, <3>1, <3>2 DEF OnlyData, CalmBytes
    <3> QED  BY <1>1, <3>3, CalmKeeps
  <2>7. \A d \in Directions, s \in Segments :
          CanWrite(pipe'[s][d]) => CanWrite(pipe[s][d])
    BY <2>2 DEF OnlyData, CanWrite
  <2>8. FlowOK(i)'
    <3>1. Arrived(i)' = Arrived(i)
      <4>1. PICK a \in Seq(Bytes), b \in Seq(Bytes) :
              a = received[e] /\ b = Contents(p)
        BY <1>1, <1>3 DEF TypeOK
      <4>2. Contents(pipe'[e][i]) = <<>>
        BY <2>2, EmptyContents DEF OnlyData
      <4>3. (a \o b) \o <<>> = a \o b
        BY <4>1, Concatenated, Empty
      <4>4. Arrived(i) = a \o b
        BY <1>2, <1>3, <4>1 DEF Arrived
      <4>5. Arrived(i)' = (a \o b) \o <<>>
        BY <1>2, <2>3, <4>1, <4>2 DEF Arrived, Contents
      <4> QED  BY <4>3, <4>4, <4>5
    <3>2. ASSUME NEW r \in Working(i)
          PROVE  Held(r, i)' = Held(r, i)
      BY <1>2, <1>4, <2>2, <3>2, Paths, HeldUnchanged DEF OnlyData, SameData
    <3> QED  BY <1>1, <1>4, <2>4, <2>7, <3>1, <3>2, FlowSame
  <2>9. FlowOK(c)'
    <3>1. QuietFlow(c)
      BY <1>2, <1>4, <2>2, <2>3, <2>7, Places DEF OnlyData, QuietFlow, SameData
    <3> QED  BY <1>1, <2>4, <3>1, FlowQuiet
  <2> QED  BY <1>2, <2>4, <2>5, <2>6, <2>8, <2>9 DEF IInv
<1>6. CASE /\ saw' = [saw EXCEPT ![e] = IF p.end = "fin" THEN "eof" ELSE "reset"]
           /\ UNCHANGED <<received, pipe>>
  <2>1. TypeOK'
    BY <1>1, <1>4, <1>6 DEF TypeOK, Contents
  <2>2. StagesOK'
    BY <1>1, <1>4, <1>6 DEF StagesOK, Framed
  <2>3. CalmOK'
    <3>1. CalmBytes
      BY <1>4, <1>6 DEF CalmBytes, SameData
    <3> QED  BY <1>1, <3>1, CalmKeeps
  <2>4. QuietStep
    BY <1>4, <1>6 DEF QuietStep, SameData
  <2> QED  BY <1>1, <2>1, <2>2, <2>3, <2>4, QuietSteps DEF IInv
<1> QED  BY <1>2, <1>3, <1>5, <1>6 DEF Receive

(* The three ways to go on of a try_read that has taken what there was.    *)
SniffFrame ==
  /\ pc["in"] = "sniff" /\ faults' = faults
  /\ UNCHANGED <<kind, copy, pending, sent, received, saw, reached>>
  /\ pc' = pc \/ pc' = [pc EXCEPT !["in"] = "select"]
  /\ read_attempts' \in 0 .. ReadAttemptsLimit

LEMMA Sniffing ==
  ASSUME TypeOK, Sniff
  PROVE  SniffFrame
<1>1. pc["in"] = "sniff" /\ faults' = faults
      /\ UNCHANGED <<kind, copy, pending, sent, received, saw, reached>>
  BY DEF Sniff, NoFault, endVars
<1>2. pc' = pc \/ pc' = [pc EXCEPT !["in"] = "select"]
  BY DEF Sniff
<1>3. read_attempts' \in 0 .. ReadAttemptsLimit
  <2>1. \/ read_attempts' = 0 \/ read_attempts' = read_attempts
        \/ read_attempts < ReadAttemptsLimit /\ read_attempts' = read_attempts + 1
    BY DEF Sniff
  <2>2. read_attempts \in 0 .. ReadAttemptsLimit /\ ReadAttemptsLimit \in Nat
    BY DEF TypeOK
  <2> QED  BY <2>1, <2>2
<1> QED  BY <1>1, <1>2, <1>3 DEF SniffFrame

LEMMA SniffStages ==
  ASSUME TypeOK, StagesOK, SniffFrame
  PROVE  /\ pc' \in [Relays -> InStages \union OutStages]
         /\ pc'["in"] \in {"sniff", "select"} /\ pc'["out"] = "none"
         /\ pc["out"] = "none" /\ buffer["in"]["down"] = <<>>
         /\ pending["in"] = <<>> /\ \A d \in Directions : copy["in"][d] = "copying"
BY DEF TypeOK, StagesOK, SniffFrame

(* It finds nothing, or the end. *)
LEMMA SniffNothing ==
  ASSUME IInv, SniffFrame, UNCHANGED <<pipe, buffer>>, end' \in BOOLEAN,
         end' => \/ pc'["in"] = "sniff" /\ end
                 \/ /\ pc'["in"] = "select"
                    /\ end \/ (pipe["client"]["up"].end = "fin"
                               /\ pipe["client"]["up"].data = <<>>)
  PROVE  IInv'
<1> USE DEF SniffFrame
<1>1. TypeOK /\ StagesOK /\ CalmOK /\ \A d \in Directions : FlowOK(d)
  BY DEF IInv
<1>2. /\ pc' \in [Relays -> InStages \union OutStages]
      /\ pc'["in"] \in {"sniff", "select"} /\ pc'["out"] = "none"
      /\ pc["out"] = "none"
  BY <1>1, SniffStages
<1>3. TypeOK'
  BY <1>1, <1>2 DEF TypeOK, Contents
<1>4. StagesOK'
  BY <1>1, <1>2 DEF StagesOK, Framed
<1>5. CalmOK'
  <2>1. ASSUME faults' = 0, NEW d \in Directions, NEW r \in Working(d)
        PROVE  EndsNext(r, d)
    <3>1. EndsOK(r, d) /\ r \in Relays
      BY <1>1, <2>1, CalmNow, Paths
    <3>2. pc'[r] # "done"
      BY <1>2, <3>1
    <3> QED  BY <3>1, <3>2
             DEF EndsNext, EndsOK, Source, Target, AllRead
  <2>2. faults' = 0 => SniffedEndNext
    BY <1>1, <1>2, CalmNow DEF SniffedEndNext
  <2>3. CalmNext
    BY <1>1, <2>1, <2>2, CalmNow DEF CalmNext
  <2> QED  BY <1>1, <2>3, CalmAfter
<1>6. QuietStep
  BY DEF QuietStep, SameData
<1> QED  BY <1>1, <1>3, <1>4, <1>5, <1>6, QuietSteps DEF IInv

(* It finds bytes, or the error of a socket. *)
SniffTakes ==
  /\ SniffFrame /\ end' = end
  /\ pipe["client"]["up"].data # <<>>
  /\ buffer' = [buffer EXCEPT !["in"]["up"] = @ \o Contents(pipe["client"]["up"])]
  /\ pipe' = [pipe EXCEPT !["client"]["up"].data = <<>>]

LEMMA SniffTakesStep ==
  ASSUME IInv, SniffTakes
  PROVE  IInv'
<1> USE DEF SniffFrame
<1>1. TypeOK /\ StagesOK /\ CalmOK /\ \A d \in Directions : FlowOK(d)
  BY DEF IInv
<1>2. /\ SniffFrame /\ end' = end
      /\ buffer' = [buffer EXCEPT !["in"]["up"] = @ \o Contents(pipe["client"]["up"])]
      /\ pipe' = [pipe EXCEPT !["client"]["up"].data = <<>>]
  BY DEF SniffTakes
<1>3. /\ pc' \in [Relays -> InStages \union OutStages]
      /\ pc'["in"] \in {"sniff", "select"} /\ pc'["out"] = "none"
      /\ pc["out"] = "none" /\ buffer["in"]["down"] = <<>>
      /\ pending["in"] = <<>> /\ \A d \in Directions : copy["in"][d] = "copying"
  BY <1>1, <1>2, SniffStages
<1>4. PICK b \in Seq(Bytes), c \in Seq(Bytes) :
        b = buffer["in"]["up"] /\ c = Contents(pipe["client"]["up"])
  BY <1>1, PipeTypes DEF TypeOK
<1>5. OnlyData("client", "up", <<>>)
  <2>1. Len(FlattenSeq(<<>>)) <= Len(Contents(pipe["client"]["up"]))
    BY <1>4, FlattenEmpty, Empty, LenProperties
  <2> QED  BY <1>1, <1>2, <2>1, Empty, SetPipeData
<1>6. /\ buffer' \in [Relays -> [Directions -> Seq(Bytes)]]
      /\ buffer'["in"]["up"] = b \o c
      /\ \A r \in Relays, d \in Directions :
           r # "in" \/ d # "up" => buffer'[r][d] = buffer[r][d]
  <2>1. b \o c \in Seq(Bytes)
    BY Concatenated
  <2> QED  BY <1>1, <1>2, <1>4, <2>1 DEF TypeOK
<1>7. TypeOK'
  <2>1. ASSUME NEW r \in Relays, NEW d \in Directions, pc'[r] = "copy"
        PROVE  Len(buffer'[r][d]) <= BufferSize
    BY <1>3, <2>1
  <2> QED  BY <1>1, <1>2, <1>3, <1>5, <1>6, <2>1
           DEF OnlyData, TypeOK, Within, Contents
<1>8. StagesOK'
  <2>1. \A t \in Segments, d \in Directions :
          ~ Framed(t)' => Len(pipe'[t][d].data) <= 1
    BY <1>1, <1>2, <1>5, Empty, ShortFrames DEF OnlyData, SameData
  <2> QED  BY <1>1, <1>2, <1>3, <1>6, <2>1 DEF StagesOK
<1>9. CalmOK'
  <2>1. ASSUME NEW d \in Directions, NEW r \in Working(d)
        PROVE  \/ copy[r][d] = "copying"
               \/ /\ SameData(From(r, d), d)
                  /\ pending'[r] = pending[r]
                  /\ buffer'[r][d] = buffer[r][d]
    <3>1. r \in Relays /\ From(r, d) \in Segments
      BY Paths
    <3>2. CASE r # "in"
      <4>1. From(r, d) # "client"
        BY <3>1, <3>2 DEF From, Near, Far
      <4> QED  BY <1>2, <1>5, <1>6, <3>1, <3>2, <4>1 DEF OnlyData, SameData
    <3> QED  BY <1>3, <3>2
  <2>2. ~ end \/ faults # 0
    BY <1>1, <1>2, CalmNow
  <2>3. CASE faults = 0
    <3>1. CalmBytes
      BY <1>2, <1>3, <1>5, <2>1, <2>2, <2>3 DEF CalmBytes, OnlyData
    <3> QED  BY <1>1, <3>1, CalmKeeps
  <2>4. CASE faults # 0
    BY <1>2, <2>4, NotCalm
  <2> QED  BY <2>3, <2>4
<1>10. \A d \in Directions, s \in Segments :
         CanWrite(pipe'[s][d]) => CanWrite(pipe[s][d])
  BY <1>5 DEF OnlyData, CanWrite
<1>11. FlowOK("up")'
  <2>1. Arrived("up")' = Arrived("up")
    <3>1. Sink("up") # "client" /\ Sink("up") \in Segments
      BY DEF Sink, Origin, Opposite
    <3> QED  BY <1>2, <1>5, <3>1, ArrivedUnchanged DEF OnlyData, SameData
  <2>2. ASSUME NEW r \in Working("up")
        PROVE  Held(r, "up")' = Held(r, "up")
    <3>1. r \in Relays /\ From(r, "up") \in Segments
      BY Paths
    <3>2. CASE r = "in"
      <4>1. /\ From(r, "up") = "client"
            /\ pipe'["client"]["up"].data = <<>>
        BY <1>5, <3>2, ClientSide DEF OnlyData
      <4>2. Contents(pipe'["client"]["up"]) = <<>>
        BY <4>1, EmptyContents
      <4>3. Held(r, "up")' = ((b \o c) \o <<>>) \o <<>>
        BY <1>2, <1>6, <3>1, <3>2, <4>1, <4>2, HeldAfter
      <4>4. Held(r, "up") = (b \o <<>>) \o c
        BY <1>4, <3>2, <4>1 DEF Held, Kept, Source
      <4>5. b \o c \in Seq(Bytes) /\ b \o <<>> = b
        BY Concatenated, Empty
      <4>6. (b \o c) \o <<>> = b \o c
        BY <4>5, Empty
      <4> QED  BY <4>3, <4>4, <4>5, <4>6
    <3>3. CASE r # "in"
      <4>1. From(r, "up") # "client"
        BY <3>1, <3>3 DEF From, Near, Far
      <4> QED
        BY <1>2, <1>5, <1>6, <3>1, <3>3, <4>1, HeldUnchanged DEF OnlyData, SameData
    <3> QED  BY <3>2, <3>3
  <2> QED  BY <1>1, <1>2, <1>7, <1>10, <2>1, <2>2, FlowSame
<1>12. FlowOK("down")'
  <2>1. QuietFlow("down")
    BY <1>2, <1>5, <1>6, <1>10, Paths DEF OnlyData, QuietFlow, SameData
  <2> QED  BY <1>1, <1>7, <2>1, FlowQuiet
<1>13. \A d \in Directions : FlowOK(d)'
  BY <1>11, <1>12
<1> QED  BY <1>7, <1>8, <1>9, <1>13 DEF IInv

SniffError ==
  /\ SniffFrame /\ end' = end /\ buffer' = buffer
  /\ pipe["client"]["up"].end = "reset"
  /\ pipe' = [pipe EXCEPT !["client"]["up"] =
                 [@ EXCEPT !.data = <<>>, !.end = "fin"]]

LEMMA SniffErrorStep ==
  ASSUME IInv, SniffError
  PROVE  IInv'
<1> USE DEF SniffFrame
<1>1. TypeOK /\ StagesOK /\ CalmOK /\ \A d \in Directions : FlowOK(d)
  BY DEF IInv
<1>2. /\ SniffFrame /\ end' = end /\ buffer' = buffer
      /\ pipe["client"]["up"].end = "reset"
      /\ pipe' = [pipe EXCEPT !["client"]["up"] =
                     [@ EXCEPT !.data = <<>>, !.end = "fin"]]
  BY DEF SniffError
<1>3. /\ pc' \in [Relays -> InStages \union OutStages]
      /\ pc'["in"] \in {"sniff", "select"} /\ pc'["out"] = "none"
      /\ pc["out"] = "none"
  BY <1>1, <1>2, SniffStages
<1>4. faults' # 0
  BY <1>1, <1>2 DEF CalmOK
<1>5. PICK p \in Pipe : /\ p = [pipe["client"]["up"] EXCEPT !.data = <<>>, !.end = "fin"]
                        /\ p.data = <<>> /\ p.end = "fin"
  <2>1. PICK x \in Pipe : x = pipe["client"]["up"]
    BY <1>1, PipeTypes
  <2>2. PICK y \in Pipe : y = [x EXCEPT !.data = <<>>] /\ y.data = <<>>
    BY Empty, SetData
  <2>3. [x EXCEPT !.data = <<>>, !.end = "fin"] = [y EXCEPT !.end = "fin"]
    BY <2>2
  <2> QED  BY <2>1, <2>2, <2>3 DEF Pipe
<1>6. pipe' = [pipe EXCEPT !["client"]["up"] = p]
  BY <1>1, <1>2, <1>5 DEF TypeOK
<1>7. /\ pipe' \in [Segments -> [Directions -> Pipe]]
      /\ \A t \in Segments, e \in Directions : Within(t, pipe'[t][e])
      /\ pipe'["client"]["up"] = p
      /\ \A t \in Segments, e \in Directions :
           t # "client" \/ e # "up" => pipe'[t][e] = pipe[t][e]
  <2>1. Within("client", p)
    BY <1>5, EmptyWithin
  <2> QED  BY <1>1, <1>6, <2>1, SetPipe
<1>8. TypeOK'
  BY <1>1, <1>2, <1>3, <1>7 DEF TypeOK, Within, Contents
<1>9. StagesOK'
  <2>1. \A t \in Segments, d \in Directions :
          ~ Framed(t)' => Len(pipe'[t][d].data) <= 1
    BY <1>1, <1>2, <1>5, <1>7, Empty, ShortFrames DEF SameData
  <2> QED  BY <1>1, <1>2, <1>3, <2>1 DEF StagesOK
<1>10. FlowOK("down")'
  <2>1. QuietFlow("down")
    BY <1>2, <1>7 DEF QuietFlow, SameData
  <2> QED  BY <1>1, <1>8, <2>1, FlowQuiet
<1>11. FlowOK("up")'
  <2>1. PICK f \in Relays, l \in Relays : FlowNext("up", f, l)
             /\ f \in Working("up") /\ l \in Working("up")
    BY <1>1, <1>2, FlowAfter
  <2>2. /\ Ordered("up", f, l) /\ FlowParted("up", f, l) /\ FlowTyped("up")
        /\ f = "in" /\ Origin("up") = "client" /\ Sink("up") = "server"
        /\ From("in", "up") = "client"
        /\ To(f, "up") \in Segments /\ To(f, "up") # "client"
        /\ l # f => From(l, "up") = "tunnel"
    BY <1>1, <2>1, FlowParts, FlowTypes, Places, Sides, Paths
       DEF AllParted, AllTyped, FlowNext, Ordered, FirstRelay, Origin, Sink,
           Opposite
  <2>3. Arrived("up")' = Arrived("up")
    BY <1>2, <1>7, <2>2, ArrivedUnchanged DEF SameData
  <2>4. PICK h \in Seq(Bytes), c \in Seq(Bytes) :
          /\ h = buffer["in"]["up"] \o <<>> /\ c = Contents(pipe["client"]["up"])
    <3>1. buffer["in"]["up"] \in Seq(Bytes)
      BY <1>1 DEF TypeOK
    <3> QED  BY <1>1, <3>1, Empty, PipeTypes
  <2>5. Held(f, "up")' = h /\ Held(f, "up") = h \o c
    <3>1. Contents(pipe'["client"]["up"]) = <<>>
      BY <1>5, <1>7, EmptyContents
    <3>2. Held(f, "up")' = h \o <<>>
      BY <1>2, <2>1, <2>2, <2>4, <3>1 DEF FlowNext
    <3> QED  BY <2>2, <2>4, <3>2, Empty DEF Held, Kept, Source
  <2>6. l # f => Held(l, "up")' = Held(l, "up")
    BY <1>2, <1>7, <2>2, HeldUnchanged DEF SameData
  <2>7. /\ Arrived("up") = Arrived("up") \o <<>>
        /\ \A r \in {f, l} : Held(r, "up") = Held(r, "up") \o <<>>
    BY <2>2, Empty DEF FlowTyped
  <2>8. /\ Beyond(l, "up")' => Beyond(l, "up")
        /\ Beyond(f, "up")' => Beyond(f, "up")
        /\ ~ PathOpen("up")'
    BY <1>5, <1>7, <2>1, <2>2 DEF FlowNext, FlowParted, Target, CanWrite
  <2>9. FlowKept("up", f, l)
    BY <1>2, <1>4, <2>3, <2>5, <2>6, <2>7, <2>8, Empty DEF FlowKept
  <2> QED  BY <1>1, <1>8, <2>2, <2>9, FlowKeeps
<1>12. \A d \in Directions : FlowOK(d)'
  BY <1>10, <1>11
<1> QED  BY <1>4, <1>8, <1>9, <1>12, NotCalm DEF IInv

LEMMA SniffStep ==
  ASSUME IInv, Sniff
  PROVE  IInv'
<1>1. TypeOK /\ SniffFrame
  BY Sniffing DEF IInv
<1>2. CASE SniffTakes
  BY <1>2, SniffTakesStep
<1>3. CASE SniffError
  BY <1>3, SniffErrorStep
<1>4. CASE ~ SniffTakes /\ ~ SniffError
  <2>1. UNCHANGED <<pipe, buffer>> /\ (end' = end \/ end' = TRUE)
    BY <1>1, <1>4 DEF Sniff, SniffTakes, SniffError
  <2>2. end' => \/ pc'["in"] = "sniff" /\ end
                \/ /\ pc'["in"] = "select"
                   /\ end \/ (pipe["client"]["up"].end = "fin"
                              /\ pipe["client"]["up"].data = <<>>)
    BY <1>1, <1>4 DEF Sniff, SniffTakes, SniffError, TypeOK
  <2>3. end' \in BOOLEAN
    BY <1>1, <2>1 DEF TypeOK
  <2> QED  BY <1>1, <2>1, <2>2, <2>3, SniffNothing
<1> QED  BY <1>2, <1>3, <1>4

(* Bytes b are put behind what is in a pipe that has room for them.        *)
LEMMA PutPipe ==
  ASSUME TypeOK, NEW s \in Segments, NEW d \in Directions,
         NEW b \in Seq(Bytes), b # <<>>, Len(b) <= Room(s, pipe[s][d]),
         pipe' = [pipe EXCEPT ![s][d] = Put(s, pipe[s][d], b)]
  PROVE  /\ OnlyData(s, d, pipe'[s][d].data)
         /\ Contents(pipe'[s][d]) = Contents(pipe[s][d]) \o b
         /\ ~ Framed(s) => Len(pipe'[s][d].data) <= 1
<1>1. /\ pipe[s][d] \in Pipe /\ Contents(pipe[s][d]) \in Seq(Bytes)
      /\ pipe[s][d].end \in {"open", "fin", "reset"}
  BY PipeTypes
<1>2. PICK x \in Pipe, p \in Pipe : x = pipe[s][d] /\ p = Put(s, x, b)
  BY <1>1, PutData
<1>3. /\ Contents(p) = Contents(pipe[s][d]) \o b
      /\ p.end = pipe[s][d].end /\ p.deaf = pipe[s][d].deaf
      /\ ~ Framed(s) => Len(p.data) <= 1
  <2>1. /\ Contents(Put(s, x, b)) = Contents(x) \o b
        /\ Put(s, x, b).end = x.end /\ Put(s, x, b).deaf = x.deaf
        /\ ~ Framed(s) => Len(Put(s, x, b).data) <= 1
    BY PutData
  <2> QED  BY <1>2, <2>1
<1>4. Within(s, p)
  <2>1. PICK n \in Nat, m \in Nat, k \in Nat :
          n = Len(Contents(pipe[s][d])) /\ m = Len(b) /\ k = Capacity(s)
    BY <1>1, LenProperties, Capacities
  <2>2. m <= k - n
    BY <2>1 DEF Room
  <2>3. Len(Contents(p)) = n + m
    BY <1>1, <1>3, <2>1, Concatenated
  <2> QED  BY <2>1, <2>2, <2>3 DEF Within
<1>5. /\ pipe' \in [Segments -> [Directions -> Pipe]]
      /\ \A t \in Segments, e \in Directions : Within(t, pipe'[t][e])
      /\ pipe'[s][d] = p
      /\ \A t \in Segments, e \in Directions :
           t # s \/ e # d => pipe'[t][e] = pipe[t][e]
  BY <1>2, <1>4, SetPipe
<1> QED  BY <1>3, <1>5 DEF OnlyData

LEMMA SendStep ==
  ASSUME IInv, NEW e \in Ends, Send(e)
  PROVE  IInv'
<1> USE DEF inVars, copyVars, endVars, NoFault
<1>1. TypeOK /\ StagesOK /\ CalmOK /\ \A d \in Directions : FlowOK(d)
  BY DEF IInv
<1>2. PICK c \in Directions, i \in Directions :
        /\ c = Outwards(e) /\ Origin(c) = e /\ i = Opposite(c) /\ i # c
        /\ Origin(i) # e /\ Origin(i) \in Ends
        /\ e \in Segments /\ e # "tunnel" /\ \A d \in Directions : d = i \/ d = c
  BY Ways, Places
<1>3. /\ faults' = faults /\ sent[e] < MaxBytes[e]
      /\ pipe[e][c].end = "open" /\ ~ pipe[e][c].deaf /\ Room(e, pipe[e][c]) > 0
      /\ pipe' = [pipe EXCEPT ![e][c] = Put(e, pipe[e][c], <<sent[e] + 1>>)]
      /\ sent' = [sent EXCEPT ![e] = @ + 1]
      /\ UNCHANGED <<kind, pc, read_attempts, end, copy, buffer, pending,
                     received, saw, reached>>
  BY <1>2 DEF Send
<1>4. PICK n \in Nat, b \in Seq(Bytes) :
        /\ n = sent[e] /\ b = <<n + 1>> /\ Len(b) = 1 /\ b # <<>>
  <2>1. sent[e] \in Nat /\ sent[e] + 1 \in Bytes
    <3>1. PICK n \in Nat, k \in Nat, m \in Nat :
            n = sent[e] /\ k = MaxBytes["client"] /\ m = MaxBytes["server"]
      BY <1>1 DEF TypeOK
    <3>2. n < k \/ n < m
      BY <1>3, <3>1
    <3> QED  BY <3>1, <3>2 DEF Bytes
  <2>2. PICK n \in Nat, k \in Bytes : n = sent[e] /\ k = n + 1
    BY <2>1
  <2>3. <<k>> \in Seq(Bytes) /\ Len(<<k>>) = 1 /\ <<k>> # <<>>
    OBVIOUS
  <2> QED  BY <2>2, <2>3
<1>5. /\ OnlyData(e, c, pipe'[e][c].data)
      /\ Contents(pipe'[e][c]) = Contents(pipe[e][c]) \o b
      /\ ~ Framed(e) => Len(pipe'[e][c].data) <= 1
  <2>1. Len(b) <= Room(e, pipe[e][c])
    <3>1. PICK k \in Nat, m \in Nat :
            k = Capacity(e) /\ m = Len(Contents(pipe[e][c]))
      BY <1>1, <1>2, PipeTypes, Capacities, LenProperties
    <3> QED  BY <1>3, <1>4, <3>1 DEF Room
  <2> QED  BY <1>1, <1>2, <1>3, <1>4, <2>1, PutPipe
<1>6. TypeOK'
  <2>1. sent' \in [Ends -> Nat] /\ \A x \in Ends : sent'[x] <= MaxBytes[x]
    <3>1. PICK m \in Nat : m = MaxBytes[e]
      OBVIOUS
    <3>2. sent \in [Ends -> Nat] /\ \A x \in Ends : sent[x] <= MaxBytes[x]
      BY <1>1 DEF TypeOK
    <3>3. n + 1 \in Nat /\ n + 1 <= m
      BY <1>3, <1>4, <3>1
    <3>4. sent' = [sent EXCEPT ![e] = n + 1]
      BY <1>3, <1>4
    <3>5. sent' \in [Ends -> Nat] /\ sent'[e] = n + 1
      BY <3>2, <3>3, <3>4
    <3>6. \A x \in Ends : x # e => sent'[x] = sent[x]
      BY <3>2, <3>4
    <3> QED  BY <3>1, <3>2, <3>3, <3>5, <3>6
  <2> QED  BY <1>1, <1>3, <1>5, <2>1 DEF OnlyData, TypeOK, Within, Contents
<1>7. StagesOK'
  <2>1. \A t \in Segments, d \in Directions :
          ~ Framed(t)' => Len(pipe'[t][d].data) <= 1
    BY <1>1, <1>3, <1>5, ShortFrames DEF OnlyData, SameData
  <2> QED  BY <1>1, <1>3, <2>1 DEF StagesOK
<1>8. CalmOK'
  <2>1. ASSUME NEW d \in Directions, NEW r \in Working(d)
        PROVE  Source(r, d).end # "fin" \/ SameData(From(r, d), d)
    <3>1. From(r, d) \in Segments
      BY Paths
    <3>2. CASE From(r, d) = e /\ d = c
      BY <1>3, <3>2 DEF Source
    <3>3. CASE ~ (From(r, d) = e /\ d = c)
      BY <1>5, <3>1, <3>3 DEF OnlyData, SameData
    <3> QED  BY <3>2, <3>3
  <2>2. pipe["client"]["up"].end # "fin" \/ SameData("client", "up")
    <3>1. CASE e = "client" /\ c = "up"
      BY <1>3, <3>1
    <3>2. CASE ~ (e = "client" /\ c = "up")
      BY <1>5, <3>2 DEF OnlyData, SameData
    <3> QED  BY <3>1, <3>2
  <2>3. CalmBytes
    BY <1>3, <1>5, <2>1, <2>2 DEF CalmBytes, OnlyData
  <2> QED  BY <1>1, <2>3, CalmKeeps
<1>9. \A d \in Directions, s \in Segments :
        CanWrite(pipe'[s][d]) <=> CanWrite(pipe[s][d])
  BY <1>5 DEF OnlyData, CanWrite
<1>10. FlowOK(c)'
  <2>1. PICK f \in Relays, l \in Relays : FlowNext(c, f, l)
             /\ f \in Working(c) /\ l \in Working(c)
    BY <1>1, <1>3, FlowAfter
  <2>2. /\ Ordered(c, f, l) /\ From(f, c) = e
        /\ f # l => From(l, c) = "tunnel"
        /\ Sink(c) \in Segments /\ Sink(c) # e
    BY <1>2, <2>1, Places DEF FlowNext, Ordered
  <2>3. Arrived(c)' = Arrived(c)
    BY <1>3, <1>5, <2>2, ArrivedUnchanged DEF OnlyData, SameData
  <2>4. f # l => Held(l, c)' = Held(l, c)
    BY <1>2, <1>3, <1>5, <2>2, HeldUnchanged DEF OnlyData, SameData
  <2>5. Held(f, c)' = Held(f, c) \o b
    <3>1. PICK h \in Seq(Bytes), t \in Seq(Bytes) :
            h = buffer[f][c] \o <<>> /\ t = Contents(pipe[e][c])
      <4>1. buffer[f][c] \in Seq(Bytes)
        BY <1>1 DEF TypeOK
      <4> QED  BY <1>1, <1>2, <4>1, Empty, PipeTypes
    <3>2. Held(f, c) = h \o t
      BY <1>2, <2>2, <3>1 DEF Held, Kept, Source
    <3>3. Held(f, c)' = h \o (t \o b)
      <4>1. Held(f, c)' = (buffer'[f][c] \o <<>>) \o Contents(pipe'[e][c])
        BY <1>2, <1>3, <2>2, HeldAfter
      <4>2. Contents(pipe'[e][c]) = t \o b
        BY <1>5, <3>1
      <4>3. buffer'[f][c] \o <<>> = h
        BY <1>3, <3>1
      <4> QED  BY <4>1, <4>2, <4>3
    <3>4. (h \o t) \o b = h \o (t \o b)
      BY Associative
    <3> QED  BY <3>2, <3>3, <3>4
  <2>6. FlowSent(c, f, l)
    <3>1. CanWrite(pipe[Origin(c)][c])
      BY <1>2, <1>3 DEF CanWrite
    <3>2. sent'[Origin(c)] = sent[Origin(c)] + 1
      BY <1>1, <1>2, <1>3 DEF TypeOK
    <3>3. b = <<sent[Origin(c)] + 1>>
      BY <1>2, <1>4
    <3> QED  BY <1>3, <1>9, <2>3, <2>4, <2>5, <3>1, <3>2, <3>3 DEF FlowSent
  <2> QED  BY <1>1, <1>6, <2>2, <2>6, FlowSends
<1>11. FlowOK(i)'
  <2>1. QuietFlow(i)
    <3>1. sent'[Origin(i)] = sent[Origin(i)]
      BY <1>1, <1>2, <1>3 DEF TypeOK
    <3>2. \A s \in Segments : SameData(s, i)
      BY <1>2, <1>5 DEF OnlyData, SameData
    <3> QED  BY <1>3, <1>9, <3>1, <3>2 DEF QuietFlow
  <2> QED  BY <1>1, <1>6, <2>1, FlowQuiet
<1>12. \A d \in Directions : FlowOK(d)'
  BY <1>2, <1>10, <1>11
<1> QED  BY <1>6, <1>7, <1>8, <1>12 DEF IInv

(* Bytes x have been read out of what was kept and what had arrived: k is  *)
(* what is kept now, and q the data of the pipe.                           *)
ReadMoves(r, d, x, k, q) ==
  /\ Reading(r, d) /\ faults' = faults
  /\ UNCHANGED <<kind, pc, read_attempts, end, copy, sent, received, saw, reached>>
  /\ buffer' = [buffer EXCEPT ![r][d] = @ \o x]
  /\ Len(buffer[r][d]) + Len(x) <= BufferSize
  /\ OnlyData(From(r, d), d, q)
  /\ ~ Framed(From(r, d)) => Len(q) <= 1
  /\ pending' \in [Relays -> Seq(Bytes)]
  /\ \A z \in Relays : z # r \/ From(r, d) # "tunnel" => pending'[z] = pending[z]
  /\ k = IF From(r, d) = "tunnel" THEN pending'[r] ELSE <<>>
  /\ Kept(r, d) \o Contents(Source(r, d)) = x \o (k \o FlattenSeq(q))

LEMMA ReadMovesHeld ==
  ASSUME TypeOK, NEW r \in Relays, NEW d \in Directions,
         NEW x \in Seq(Bytes), NEW k \in Seq(Bytes), NEW q \in Data,
         ReadMoves(r, d, x, k, q)
  PROVE  Held(r, d)' = Held(r, d)
<1>1. PICK b \in Seq(Bytes), h \in Seq(Bytes), c \in Seq(Bytes), c2 \in Seq(Bytes) :
        /\ b = buffer[r][d] /\ h = Kept(r, d) /\ c = Contents(Source(r, d))
        /\ c2 = FlattenSeq(q)
  <2>1. From(r, d) \in Segments
    BY Sides
  <2>2. Contents(Source(r, d)) \in Seq(Bytes)
    BY <2>1, PipeTypes DEF Source
  <2>3. Kept(r, d) \in Seq(Bytes) /\ buffer[r][d] \in Seq(Bytes)
    BY Empty DEF TypeOK, Kept
  <2>4. FlattenSeq(q) \in Seq(Bytes)
    BY FlattenInBytes
  <2> QED  BY <2>2, <2>3, <2>4
<1>2. Held(r, d) = (b \o h) \o c
  BY <1>1 DEF Held
<1>3. Held(r, d)' = ((b \o x) \o k) \o c2
  <2>1. buffer'[r][d] = b \o x
    BY <1>1 DEF ReadMoves, TypeOK
  <2>2. Contents(pipe'[From(r, d)][d]) = c2
    BY <1>1 DEF ReadMoves, OnlyData, Contents
  <2>3. Held(r, d)' =
          (buffer'[r][d] \o (IF From(r, d) = "tunnel" THEN pending'[r] ELSE <<>>))
            \o Contents(pipe'[From(r, d)][d])
    BY HeldAfter DEF ReadMoves
  <2>4. k = IF From(r, d) = "tunnel" THEN pending'[r] ELSE <<>>
    BY DEF ReadMoves
  <2> QED  BY <2>1, <2>2, <2>3, <2>4
<1>4. h \o c = x \o (k \o c2)
  BY <1>1 DEF ReadMoves
<1>5. ((b \o x) \o k) \o c2 = b \o (x \o (k \o c2))
  <2>1. PICK y \in Seq(Bytes), z \in Seq(Bytes) : y = b \o x /\ z = k \o c2
    BY Concatenated
  <2>2. (y \o k) \o c2 = y \o (k \o c2)
    BY Associative, SMTT(60)
  <2>3. (b \o x) \o z = b \o (x \o z)
    BY Associative, SMTT(60)
  <2> QED  BY <2>1, <2>2, <2>3
<1>6. (b \o h) \o c = b \o (h \o c)
  BY Associative, SMTT(60)
<1> QED  BY <1>2, <1>3, <1>4, <1>5, <1>6

LEMMA ReadMovesStep ==
  ASSUME IInv, NEW r \in Relays, NEW d \in Directions,
         NEW x \in Seq(Bytes), NEW k \in Seq(Bytes), NEW q \in Data,
         ReadMoves(r, d, x, k, q)
  PROVE  IInv'
<1>1. TypeOK /\ StagesOK /\ CalmOK /\ \A c \in Directions : FlowOK(c)
  BY DEF IInv
<1>2. /\ pc[r] = "copy" /\ copy[r][d] = "copying" /\ faults' = faults
      /\ UNCHANGED <<kind, pc, read_attempts, end, copy, sent, received, saw, reached>>
  BY DEF ReadMoves, Reading
<1>3. r \in Working(d)
  BY <1>1, <1>2, IsWorking DEF StagesOK
<1>4. PICK s \in Segments, i \in Directions :
        /\ s = From(r, d) /\ s # Sink(d) /\ To(r, d) # s
        /\ i = Opposite(d) /\ i # d /\ From(r, i) = To(r, d)
        /\ \A c \in Directions : c = i \/ c = d
  BY <1>3, Paths, Places, Sides
<1>5. OnlyData(s, d, q)
  BY <1>4 DEF ReadMoves
<1>6. /\ buffer' \in [Relays -> [Directions -> Seq(Bytes)]]
      /\ Len(buffer'[r][d]) <= BufferSize
      /\ \A z \in Relays, c \in Directions :
           z # r \/ c # d => buffer'[z][c] = buffer[z][c]
  <2>1. PICK y \in Seq(Bytes) : y = buffer[r][d] \o x
    BY <1>1, Concatenated DEF TypeOK
  <2>2. buffer' = [buffer EXCEPT ![r][d] = y]
    BY <2>1 DEF ReadMoves
  <2>3. /\ buffer' \in [Relays -> [Directions -> Seq(Bytes)]] /\ buffer'[r][d] = y
        /\ \A z \in Relays, c \in Directions :
             z # r \/ c # d => buffer'[z][c] = buffer[z][c]
    BY <1>1, <2>2 DEF TypeOK
  <2>4. Len(y) <= BufferSize
    <3>1. buffer[r][d] \in Seq(Bytes)
      BY <1>1 DEF TypeOK
    <3>2. Len(y) = Len(buffer[r][d]) + Len(x)
      BY <2>1, <3>1, Concatenated
    <3> QED  BY <3>2 DEF ReadMoves
  <2> QED  BY <2>3, <2>4
<1>7. /\ pending' \in [Relays -> Seq(Bytes)]
      /\ \A z \in Relays : z # r \/ s # "tunnel" => pending'[z] = pending[z]
  BY <1>4 DEF ReadMoves
<1>8. TypeOK'
  <2>1. \A z \in Relays, c \in Directions :
          pc'[z] = "copy" => Len(buffer'[z][c]) <= BufferSize
    BY <1>1, <1>2, <1>6 DEF TypeOK
  <2> QED  BY <1>1, <1>2, <1>5, <1>6, <1>7, <2>1 DEF OnlyData, TypeOK, Within, Contents
<1>9. StagesOK'
  <2>1. \A t \in Segments, c \in Directions :
          ~ Framed(t)' => Len(pipe'[t][c].data) <= 1
    <3>1. ~ Framed(s) => Len(q) <= 1
      BY <1>4 DEF ReadMoves
    <3> QED  BY <1>1, <1>2, <1>5, <3>1, ShortFrames DEF OnlyData, SameData
  <2> QED  BY <1>1, <1>2, <1>6, <1>7, <2>1 DEF StagesOK
<1>10. ASSUME NEW c \in Directions, NEW z \in Working(c), z # r \/ c # d
       PROVE  /\ z \in Relays /\ SameData(From(z, c), c)
              /\ buffer'[z][c] = buffer[z][c]
              /\ From(z, c) = "tunnel" => pending'[z] = pending[z]
  <2>1. z \in Relays /\ From(z, c) \in Segments
    BY Paths
  <2>2. CASE c = d
    <3>1. From(z, c) # s
      BY <1>3, <1>4, <1>10, <2>2, Paths
    <3> QED  BY <1>5, <1>6, <1>7, <1>10, <2>1, <2>2, <3>1 DEF OnlyData, SameData
  <2>3. CASE c # d
    <3>1. z = r => From(z, c) # s
      BY <1>4, <2>3
    <3> QED  BY <1>5, <1>6, <1>7, <2>1, <2>3, <3>1 DEF OnlyData, SameData
  <2> QED  BY <2>2, <2>3
<1>11. CalmOK'
  <2>1. CASE faults # 0
    BY <1>2, <2>1, NotCalm
  <2>2. CASE faults = 0
    <3>1. end => /\ pc["in"] \in {"select", "connect"}
                 /\ SameData("client", "up")
      <4>1. end => pc["in"] \in {"select", "connect"}
        BY <1>1, <2>2, CalmNow
      <4>2. r = "out" => s # "client"
        BY <1>4 DEF From, Near, Far
      <4>3. end => s # "client"
        BY <1>2, <4>1, <4>2
      <4> QED  BY <1>5, <4>1, <4>3 DEF OnlyData, SameData
    <3>2. CalmBytes
      BY <1>2, <1>5, <1>10, <3>1 DEF CalmBytes, OnlyData
    <3> QED  BY <1>1, <3>2, CalmKeeps
  <2> QED  BY <2>1, <2>2
<1>12. \A c \in Directions, t \in Segments :
         CanWrite(pipe'[t][c]) => CanWrite(pipe[t][c])
  BY <1>5 DEF OnlyData, CanWrite
<1>13. FlowOK(d)'
  <2>1. Arrived(d)' = Arrived(d)
    <3>1. SameData(Sink(d), d)
      BY <1>4, <1>5, Places DEF OnlyData, SameData
    <3> QED  BY <1>2, <3>1, ArrivedUnchanged
  <2>2. ASSUME NEW z \in Working(d)
        PROVE  Held(z, d)' = Held(z, d)
    <3>1. CASE z = r
      BY <1>1, <3>1, ReadMovesHeld
    <3>2. CASE z # r
      BY <1>2, <1>10, <3>2, HeldUnchanged
    <3> QED  BY <3>1, <3>2
  <2> QED  BY <1>1, <1>2, <1>8, <1>12, <2>1, <2>2, FlowSame
<1>14. FlowOK(i)'
  <2>1. \A t \in Segments : SameData(t, i)
    BY <1>4, <1>5 DEF OnlyData, SameData
  <2>2. QuietFlow(i)
    BY <1>2, <1>4, <1>10, <1>12, <2>1 DEF QuietFlow
  <2> QED  BY <1>1, <1>8, <2>2, FlowQuiet
<1>15. \A c \in Directions : FlowOK(c)'
  BY <1>4, <1>13, <1>14
<1> QED  BY <1>8, <1>9, <1>11, <1>15 DEF IInv

(* What is read fits into the buffer. *)
LEMMA ReadFits ==
  ASSUME TypeOK, NEW r \in Relays, NEW d \in Directions, Reading(r, d),
         NEW room \in 1 .. BufferSize - Len(buffer[r][d]), NEW b \in Seq(Bytes)
  PROVE  /\ First(b, room) \in Seq(Bytes) /\ Rest(b, room) \in Seq(Bytes)
         /\ First(b, room) \o Rest(b, room) = b
         /\ Len(buffer[r][d]) + Len(First(b, room)) <= BufferSize
<1>1. buffer[r][d] \in Seq(Bytes)
  BY DEF TypeOK
<1>2. PICK m \in Nat, l \in Nat : m = Len(buffer[r][d]) /\ l = Len(b)
  BY <1>1, LenProperties
<1>3. PICK n \in Nat, k \in Nat : n = BufferSize /\ k = room /\ k <= n - m
  BY <1>2
<1>4. /\ First(b, k) \in Seq(Bytes) /\ Rest(b, k) \in Seq(Bytes)
      /\ First(b, k) \o Rest(b, k) = b /\ Len(First(b, k)) = Smaller(k, l)
  BY <1>2, FirstAndRest
<1>5. Smaller(k, l) \in Nat /\ Smaller(k, l) <= k
  BY DEF Smaller
<1> QED  BY <1>2, <1>3, <1>4, <1>5

LEMMA ReadStep ==
  ASSUME IInv, NEW r \in Relays, NEW d \in Directions, Read(r, d)
  PROVE  IInv'
<1> USE DEF inVars, copyVars, endVars, NoFault
<1>1. TypeOK /\ StagesOK
  BY DEF IInv
<1>2. PICK s \in Segments, p \in Pipe :
        /\ s = From(r, d) /\ p = Source(r, d) /\ p = pipe[s][d] /\ p.data \in Data
        /\ Contents(p) \in Seq(Bytes)
  BY <1>1, Sides, PipeTypes DEF Source
<1>3. /\ Reading(r, d) /\ faults' = faults
      /\ UNCHANGED <<kind, pc, read_attempts, end, copy, sent, received, saw, reached>>
  BY DEF Read
<1>4. PICK room \in 1 .. BufferSize - Len(buffer[r][d]) :
       \/ /\ s = "tunnel" /\ pending[r] # <<>>
          /\ buffer' = [buffer EXCEPT ![r][d] = @ \o First(pending[r], room)]
          /\ pending' = [pending EXCEPT ![r] = Rest(@, room)]
          /\ UNCHANGED pipe
       \/ /\ s = "tunnel" => pending[r] = <<>>
          /\ p.data # <<>>
          /\ buffer' = [buffer EXCEPT ![r][d] = @ \o First(Head(p.data), room)]
          /\ IF Framed(s)
             THEN /\ pending' = [pending EXCEPT ![r] = Rest(Head(p.data), room)]
                  /\ pipe' = [pipe EXCEPT ![s][d].data = Tail(@)]
             ELSE /\ pipe' = [pipe EXCEPT ![s][d].data =
                                Stream(Rest(Head(p.data), room))]
                  /\ UNCHANGED pending
  BY <1>2 DEF Read
<1>5. pending \in [Relays -> Seq(Bytes)]
  BY <1>1 DEF TypeOK
<1>6. CASE /\ s = "tunnel" /\ pending[r] # <<>>
           /\ buffer' = [buffer EXCEPT ![r][d] = @ \o First(pending[r], room)]
           /\ pending' = [pending EXCEPT ![r] = Rest(@, room)]
           /\ UNCHANGED pipe
  <2>1. PICK x \in Seq(Bytes), k \in Seq(Bytes) :
          /\ x = First(pending[r], room) /\ k = Rest(pending[r], room)
          /\ x \o k = pending[r]
          /\ Len(buffer[r][d]) + Len(x) <= BufferSize
    <3>1. PICK b \in Seq(Bytes) : b = pending[r]
      BY <1>5
    <3>2. /\ First(b, room) \in Seq(Bytes) /\ Rest(b, room) \in Seq(Bytes)
          /\ First(b, room) \o Rest(b, room) = b
          /\ Len(buffer[r][d]) + Len(First(b, room)) <= BufferSize
      BY <1>1, <1>3, ReadFits, Zenon
    <3> QED  BY <3>1, <3>2
  <2>2. OnlyData(s, d, p.data)
    BY <1>1, <1>2, <1>6 DEF OnlyData, TypeOK, Within
  <2>3. /\ pending' \in [Relays -> Seq(Bytes)] /\ pending'[r] = k
        /\ \A z \in Relays : z # r => pending'[z] = pending[z]
    BY <1>5, <1>6, <2>1
  <2>4. Kept(r, d) \o Contents(Source(r, d)) = x \o (k \o FlattenSeq(p.data))
    <3>1. (x \o k) \o Contents(p) = x \o (k \o Contents(p))
      BY <1>2, Associative
    <3> QED  BY <1>2, <1>6, <2>1, <3>1 DEF Kept, Contents
  <2>5. ~ Framed(s) => Len(p.data) <= 1
    BY <1>1, <1>2 DEF StagesOK
  <2>6. ReadMoves(r, d, x, k, p.data)
    BY <1>2, <1>3, <1>6, <2>1, <2>2, <2>3, <2>4, <2>5 DEF ReadMoves
  <2> QED  BY <1>2, <2>6, ReadMovesStep
<1>7. CASE /\ s = "tunnel" => pending[r] = <<>>
           /\ p.data # <<>>
           /\ buffer' = [buffer EXCEPT ![r][d] = @ \o First(Head(p.data), room)]
           /\ IF Framed(s)
              THEN /\ pending' = [pending EXCEPT ![r] = Rest(Head(p.data), room)]
                   /\ pipe' = [pipe EXCEPT ![s][d].data = Tail(@)]
              ELSE /\ pipe' = [pipe EXCEPT ![s][d].data =
                                 Stream(Rest(Head(p.data), room))]
                   /\ UNCHANGED pending
  <2>1. PICK h \in Seq(Bytes), t \in Data :
          /\ h = Head(p.data) /\ t = Tail(p.data) /\ FlattenSeq(t) \in Seq(Bytes)
          /\ Contents(p) = h \o FlattenSeq(t)
          /\ Len(p.data) <= 1 => Contents(p) = h
    BY <1>2, <1>7, HeadData, FlattenInBytes DEF Contents
  <2>2. PICK x \in Seq(Bytes), y \in Seq(Bytes) :
          /\ x = First(h, room) /\ y = Rest(h, room) /\ x \o y = h
          /\ Len(buffer[r][d]) + Len(x) <= BufferSize
    <3>1. /\ First(h, room) \in Seq(Bytes) /\ Rest(h, room) \in Seq(Bytes)
          /\ First(h, room) \o Rest(h, room) = h
          /\ Len(buffer[r][d]) + Len(First(h, room)) <= BufferSize
      BY <1>1, <1>3, ReadFits, Zenon
    <3> QED  BY <3>1
  <2>3. Kept(r, d) \o Contents(Source(r, d)) = Contents(p)
    BY <1>2, <1>7, Empty DEF Kept
  <2>4. CASE Framed(s)
    <3>1. Contents(p) = x \o (y \o FlattenSeq(t))
      <4>1. PICK f \in Seq(Bytes) : f = FlattenSeq(t)
        BY <2>1
      <4>2. (x \o y) \o f = x \o (y \o f)
        BY Associative
      <4> QED  BY <2>1, <2>2, <4>1, <4>2
    <3>2. s = "tunnel" /\ pipe' = [pipe EXCEPT ![s][d].data = t]
          /\ pending' = [pending EXCEPT ![r] = y]
      BY <1>2, <1>7, <2>1, <2>2, <2>4 DEF Framed
    <3>3. OnlyData(s, d, t)
      <4>1. Len(FlattenSeq(t)) <= Len(h \o FlattenSeq(t))
        <5>1. PICK f \in Seq(Bytes) : f = FlattenSeq(t)
          BY <2>1
        <5>2. /\ Len(h \o f) = Len(h) + Len(f)
              /\ Len(h) \in Nat /\ Len(f) \in Nat
          BY Concatenated
        <5>3. PICK m \in Nat, n \in Nat : m = Len(h) /\ n = Len(f)
          BY <5>2
        <5> QED  BY <5>1, <5>2, <5>3
      <4> QED  BY <1>1, <1>2, <2>1, <3>2, <4>1, SetPipeData
    <3>4. /\ pending' \in [Relays -> Seq(Bytes)] /\ pending'[r] = y
          /\ \A z \in Relays : z # r => pending'[z] = pending[z]
      BY <1>5, <3>2
    <3>5. ReadMoves(r, d, x, y, t)
      BY <1>2, <1>3, <1>7, <2>1, <2>2, <2>3, <2>4, <3>1, <3>2, <3>3, <3>4 DEF ReadMoves
    <3> QED  BY <3>5, ReadMovesStep
  <2>5. CASE ~ Framed(s)
    <3>1. PICK q \in Data : /\ q = Stream(y) /\ FlattenSeq(q) = y /\ Len(q) <= 1
      BY StreamData
    <3>2. Contents(p) = x \o (<<>> \o FlattenSeq(q))
      <4>1. Contents(p) = h
        BY <1>1, <1>2, <2>1, <2>5 DEF StagesOK
      <4> QED  BY <2>2, <3>1, <4>1, Empty
    <3>3. pipe' = [pipe EXCEPT ![s][d].data = q] /\ pending' = pending
      BY <1>7, <2>1, <2>2, <2>5, <3>1
    <3>4. OnlyData(s, d, q)
      <4>1. Len(y) <= Len(x \o y)
        BY <2>2, Concatenated
      <4>2. x \o y = Contents(p)
        BY <3>1, <3>2, Empty
      <4> QED  BY <1>1, <1>2, <3>1, <3>3, <4>1, <4>2, SetPipeData
    <3>5. <<>> = IF From(r, d) = "tunnel" THEN pending'[r] ELSE <<>>
      BY <1>2, <1>7, <3>3
    <3>6. ReadMoves(r, d, x, <<>>, q)
      BY <1>2, <1>3, <1>5, <1>7, <2>1, <2>2, <2>3, <3>1, <3>2, <3>3, <3>4, <3>5
      DEF ReadMoves
    <3> QED  BY <3>6, ReadMovesStep, Empty
  <2> QED  BY <2>4, <2>5
<1> QED  BY <1>4, <1>6, <1>7

LEMMA Written ==
  ASSUME NEW b \in Seq(Bytes), NEW n \in Nat, n > 0, b # <<>>
  PROVE  \E w \in Seq(Bytes), y \in Seq(Bytes) :
           /\ w = First(b, n) /\ y = Rest(b, n) /\ w \o y = b
           /\ w # <<>> /\ Len(w) <= n /\ Len(y) <= Len(b)
<1>1. PICK w \in Seq(Bytes), y \in Seq(Bytes) :
        /\ w = First(b, n) /\ y = Rest(b, n) /\ w \o y = b /\ w # <<>>
        /\ Len(w) = Smaller(n, Len(b))
  BY FirstAndRest
<1>2. PICK k \in Nat, l \in Nat, m \in Nat :
        k = Len(w) /\ l = Len(y) /\ m = Len(b) /\ m = k + l
  BY <1>1, Concatenated
<1>3. k = Smaller(n, m) /\ k <= n
  BY <1>1, <1>2 DEF Smaller
<1> QED  BY <1>1, <1>2, <1>3

LEMMA WriteStep ==
  ASSUME IInv, NEW r \in Relays, NEW d \in Directions, Write(r, d)
  PROVE  IInv'
<1> USE DEF inVars, copyVars, endVars, NoFault
<1>1. TypeOK /\ StagesOK /\ CalmOK /\ \A c \in Directions : FlowOK(c)
  BY DEF IInv
<1>2. /\ faults' = faults
      /\ UNCHANGED <<kind, pc, read_attempts, end, copy, pending, sent, received,
                     saw, reached>>
      /\ buffer[r][d] # <<>> /\ CanWrite(Target(r, d))
      /\ \/ pc[r] = "copy" /\ copy[r][d] # "ended"
         \/ pc[r] = "connect" /\ r = "in"
  BY DEF Write, Writing, Copying
<1>3. copy[r][d] # "ended"
  BY <1>1, <1>2 DEF StagesOK
<1>4. r \in Working(d)
  BY <1>1, <1>2, IsWorking DEF StagesOK
<1>5. PICK t \in Segments, i \in Directions :
        /\ t = To(r, d) /\ t # From(r, d) /\ t # Origin(d)
        /\ i = Opposite(d) /\ i # d /\ \A c \in Directions : c = i \/ c = d
  BY <1>4, Paths, Places
<1>6. PICK b \in Seq(Bytes), n \in Nat :
        /\ b = buffer[r][d] /\ n = Room(t, pipe[t][d]) /\ n > 0 /\ b # <<>>
        /\ CanWrite(pipe[t][d])
        /\ pipe' = [pipe EXCEPT ![t][d] = Put(t, pipe[t][d], First(b, n))]
        /\ buffer' = [buffer EXCEPT ![r][d] = Rest(b, n)]
  <2>1. PICK b \in Seq(Bytes) : b = buffer[r][d]
    BY <1>1 DEF TypeOK
  <2>2. PICK k \in Nat, m \in Nat : k = Capacity(t) /\ m = Len(Contents(pipe[t][d]))
    BY <1>1, PipeTypes, Capacities, LenProperties
  <2>3. Room(t, pipe[t][d]) = k - m
    BY <2>2 DEF Room
  <2>4. /\ Room(t, pipe[t][d]) > 0
        /\ pipe' = [pipe EXCEPT ![t][d] =
                      Put(t, pipe[t][d], First(b, Room(t, pipe[t][d])))]
        /\ buffer' = [buffer EXCEPT ![r][d] = Rest(b, Room(t, pipe[t][d]))]
    BY <1>5, <2>1 DEF Write, Target
  <2>5. PICK n \in Nat : n = Room(t, pipe[t][d])
    BY <2>3, <2>4
  <2> QED  BY <1>2, <1>5, <2>1, <2>4, <2>5 DEF Target
<1>7. PICK w \in Seq(Bytes), y \in Seq(Bytes) :
        /\ w = First(b, n) /\ y = Rest(b, n) /\ w \o y = b
        /\ w # <<>> /\ Len(w) <= n /\ Len(y) <= Len(b)
  BY <1>6, Written
<1>8. /\ OnlyData(t, d, pipe'[t][d].data)
      /\ Contents(pipe'[t][d]) = Contents(pipe[t][d]) \o w
      /\ ~ Framed(t) => Len(pipe'[t][d].data) <= 1
  <2>1. /\ Len(w) <= Room(t, pipe[t][d])
        /\ pipe' = [pipe EXCEPT ![t][d] = Put(t, pipe[t][d], w)]
    BY <1>6, <1>7
  <2> QED  BY <1>1, <1>7, <2>1, PutPipe
<1>9. /\ buffer' \in [Relays -> [Directions -> Seq(Bytes)]]
      /\ buffer'[r][d] = y
      /\ \A z \in Relays, c \in Directions :
           z # r \/ c # d => buffer'[z][c] = buffer[z][c]
  <2>1. buffer' = [buffer EXCEPT ![r][d] = y]
    BY <1>6, <1>7
  <2> QED  BY <1>1, <2>1 DEF TypeOK
<1>10. TypeOK'
  <2>1. \A z \in Relays, c \in Directions :
          pc'[z] = "copy" => Len(buffer'[z][c]) <= BufferSize
    <3>1. pc[r] = "copy" => Len(y) <= BufferSize
      <4>1. PICK m \in Nat, l \in Nat : m = Len(b) /\ l = Len(y) /\ l <= m
        BY <1>7, LenProperties
      <4>2. pc[r] = "copy" => m <= BufferSize
        BY <1>1, <1>6, <4>1 DEF TypeOK
      <4> QED  BY <4>1, <4>2
    <3> QED  BY <1>1, <1>2, <1>9, <3>1 DEF TypeOK
  <2> QED  BY <1>1, <1>2, <1>8, <1>9, <2>1 DEF OnlyData, TypeOK, Within, Contents
<1>11. StagesOK'
  <2>1. \A s \in Segments, c \in Directions :
          ~ Framed(s)' => Len(pipe'[s][c].data) <= 1
    BY <1>1, <1>2, <1>8, ShortFrames DEF OnlyData, SameData
  <2>2. \A z \in Relays, c \in Directions :
          pc[z] \notin {"copy", "done"} /\ buffer'[z][c] # <<>> => z = "in" /\ c = "up"
    BY <1>1, <1>2, <1>9 DEF StagesOK
  <2> QED  BY <1>1, <1>2, <2>1, <2>2 DEF StagesOK
<1>12. CalmOK'
  <2>1. ASSUME NEW c \in Directions, NEW z \in Working(c)
        PROVE  \/ Source(z, c).end # "fin"
               \/ /\ SameData(From(z, c), c)
                  /\ copy[z][c] = "ended" => buffer'[z][c] = buffer[z][c]
    <3>1. z \in Relays /\ From(z, c) \in Segments
      BY Paths
    <3>2. CASE From(z, c) = t /\ c = d
      BY <1>6, <3>2 DEF Source, CanWrite
    <3>3. CASE ~ (From(z, c) = t /\ c = d)
      <4>1. SameData(From(z, c), c)
        BY <1>8, <3>1, <3>3 DEF OnlyData, SameData
      <4> QED  BY <1>3, <1>9, <3>1, <4>1
    <3> QED  BY <3>2, <3>3
  <2>2. SameData("client", "up")
    <3>1. ~ (t = "client" /\ d = "up")
      BY <1>5 DEF Origin
    <3> QED  BY <1>8, <3>1 DEF OnlyData, SameData
  <2>3. CalmBytes
    BY <1>2, <1>8, <2>1, <2>2 DEF CalmBytes, OnlyData
  <2> QED  BY <1>1, <2>3, CalmKeeps
<1>13. \A c \in Directions, s \in Segments :
         CanWrite(pipe'[s][c]) <=> CanWrite(pipe[s][c])
  BY <1>8 DEF OnlyData, CanWrite
<1>14. FlowOK(d)'
  <2>1. PICK f \in Relays, l \in Relays :
          /\ Ordered(d, f, l) /\ f \in Working(d) /\ l \in Working(d)
          /\ r = f \/ r = l
    BY <1>1, <1>2, <1>4, FlowAfter DEF FlowNext
  <2>2. /\ From(f, d) = Origin(d) /\ To(l, d) = Sink(d)
        /\ f # l => From(l, d) = "tunnel" /\ To(f, d) = "tunnel"
        /\ Sink(d) # "tunnel" /\ Origin(d) # "tunnel" /\ Sink(d) \in Segments
    BY <2>1, Places DEF Ordered
  <2>3. Held(r, d) = w \o Held(r, d)'
    <3>1. PICK k \in Seq(Bytes), c \in Seq(Bytes) :
            k = Kept(r, d) /\ c = Contents(Source(r, d))
      <4>1. Kept(r, d) \in Seq(Bytes)
        BY <1>1, Empty DEF TypeOK, Kept
      <4>2. Contents(Source(r, d)) \in Seq(Bytes)
        BY <1>1, Sides, PipeTypes DEF Source
      <4> QED  BY <4>1, <4>2
    <3>2. Held(r, d) = (b \o k) \o c
      BY <1>6, <3>1 DEF Held
    <3>3. Held(r, d)' = (y \o k) \o c
      <4>1. Contents(pipe'[From(r, d)][d]) = c
        BY <1>5, <1>8, <3>1, Sides DEF OnlyData, Source, Contents
      <4>2. k = IF From(r, d) = "tunnel" THEN pending'[r] ELSE <<>>
        BY <1>2, <3>1 DEF Kept
      <4> QED  BY <1>2, <1>9, <4>1, <4>2, HeldAfter
    <3>4. ((w \o y) \o k) \o c = w \o ((y \o k) \o c)
      <4>1. PICK yk \in Seq(Bytes) : yk = y \o k
        BY Concatenated
      <4>2. (w \o y) \o k = w \o (y \o k)
        BY Associative, SMTT(60)
      <4>3. (w \o yk) \o c = w \o (yk \o c)
        BY Associative, SMTT(60)
      <4> QED  BY <4>1, <4>2, <4>3
    <3> QED  BY <1>7, <3>2, <3>3, <3>4
  <2>4. CASE r = l
    <3>1. Arrived(d)' = Arrived(d) \o w
      <4>1. PICK a \in Seq(Bytes), c \in Seq(Bytes) :
              a = received[t] /\ c = Contents(pipe[t][d])
        <5>1. t \in Ends
          BY <1>5, <2>2, <2>4, Places
        <5> QED  BY <1>1, <5>1, PipeTypes DEF TypeOK
      <4>2. Arrived(d) = a \o c
        BY <1>5, <2>2, <2>4, <4>1 DEF Arrived
      <4>3. Arrived(d)' = a \o (c \o w)
        BY <1>2, <1>5, <1>8, <2>2, <2>4, <4>1 DEF Arrived, Contents
      <4>4. (a \o c) \o w = a \o (c \o w)
        BY Associative, SMTT(60)
      <4> QED  BY <4>2, <4>3, <4>4
    <3>2. f # l => Held(f, d)' = Held(f, d)
      <4>1. SameData(Origin(d), d)
        BY <1>5, <1>8, Places DEF OnlyData, SameData
      <4> QED  BY <1>2, <1>9, <2>2, <2>4, <4>1, HeldUnchanged
    <3>3. FlowMoved(d, f, l, r, w)
      BY <1>2, <1>13, <2>3, <2>4, <3>1, <3>2 DEF FlowMoved
    <3> QED  BY <1>1, <1>10, <2>1, <3>3, FlowMoves
  <2>5. CASE r = f /\ f # l
    <3>1. t = "tunnel"
      BY <1>5, <2>2, <2>5
    <3>2. Arrived(d)' = Arrived(d)
      <4>1. SameData(Sink(d), d)
        BY <1>8, <2>2, <3>1 DEF OnlyData, SameData
      <4> QED  BY <1>2, <4>1, ArrivedUnchanged
    <3>3. Held(l, d)' = Held(l, d) \o w
      <4>1. PICK h \in Seq(Bytes), c \in Seq(Bytes) :
              /\ h = buffer[l][d] \o pending[l] /\ c = Contents(pipe[t][d])
        <5>1. buffer[l][d] \in Seq(Bytes) /\ pending[l] \in Seq(Bytes)
          BY <1>1 DEF TypeOK
        <5> QED  BY <1>1, <5>1, Concatenated, PipeTypes
      <4>2. Held(l, d) = h \o c
        BY <2>2, <2>5, <3>1, <4>1 DEF Held, Kept, Source
      <4>3. Held(l, d)' = h \o (c \o w)
        <5>1. Held(l, d)' = (buffer'[l][d] \o pending'[l]) \o Contents(pipe'[t][d])
          BY <1>2, <2>2, <2>5, <3>1, HeldAfter
        <5>2. buffer'[l][d] \o pending'[l] = h
          BY <1>2, <1>9, <2>5, <4>1
        <5>3. Contents(pipe'[t][d]) = c \o w
          BY <1>8, <4>1
        <5> QED  BY <5>1, <5>2, <5>3
      <4>4. (h \o c) \o w = h \o (c \o w)
        BY Associative, SMTT(60)
      <4> QED  BY <4>2, <4>3, <4>4
    <3>4. FlowMoved(d, f, l, r, w)
      BY <1>2, <1>13, <2>3, <2>5, <3>2, <3>3 DEF FlowMoved
    <3> QED  BY <1>1, <1>10, <2>1, <3>4, FlowMoves
  <2> QED  BY <2>1, <2>4, <2>5
<1>15. FlowOK(i)'
  <2>1. \A s \in Segments : SameData(s, i)
    BY <1>5, <1>8 DEF OnlyData, SameData
  <2>2. \A z \in Working(i) : buffer'[z][i] = buffer[z][i]
    BY <1>5, <1>9, Paths
  <2>3. QuietFlow(i)
    BY <1>2, <1>13, <2>1, <2>2 DEF QuietFlow
  <2> QED  BY <1>1, <1>10, <2>3, FlowQuiet
<1>16. \A c \in Directions : FlowOK(c)'
  BY <1>5, <1>14, <1>15
<1> QED  BY <1>10, <1>11, <1>12, <1>16 DEF IInv

-----------------------------------------------------------------------------
(* The invariant. *)

LEMMA InitOK ==
  ASSUME Init
  PROVE  IInv
<1>1. /\ kind \in {"http2", "quic", "direct"}
      /\ pipe = [s \in Segments |-> Both(NewPipe)]
      /\ pc["in"] \in {"sniff", "select"} /\ pc["out"] = "none"
      /\ pc \in [Relays -> InStages \union OutStages]
      /\ read_attempts = 0 /\ end = FALSE
      /\ copy = Relay(Both("copying")) /\ buffer = Relay(Both(<<>>))
      /\ pending = Relay(<<>>)
      /\ sent = [e \in Ends |-> 0] /\ received = [e \in Ends |-> <<>>]
      /\ saw = [e \in Ends |-> "nothing"]
      /\ reached = FALSE /\ faults = 0
  BY DEF Init, Relay
<1>2. NewPipe \in Pipe /\ Contents(NewPipe) = <<>> /\ NewPipe.data = <<>>
      /\ NewPipe.end = "open" /\ NewPipe.deaf = FALSE
  BY EmptyContents, Empty DEF NewPipe, Pipe, Data
<1>3. \A s \in Segments, d \in Directions : pipe[s][d] = NewPipe
  BY <1>1 DEF Both
<1>4. \A r \in Relays, d \in Directions :
        /\ buffer[r][d] = <<>> /\ pending[r] = <<>> /\ copy[r][d] = "copying"
  BY <1>1 DEF Both, Relay
<1>5. TypeOK
  <2>1. pipe \in [Segments -> [Directions -> Pipe]]
    BY <1>1, <1>2 DEF Both
  <2>2. \A s \in Segments, d \in Directions :
          Len(Contents(pipe[s][d])) <= Capacity(s)
    BY <1>2, <1>3, EmptyWithin DEF Within
  <2>3. /\ buffer \in [Relays -> [Directions -> Seq(Bytes)]]
        /\ pending \in [Relays -> Seq(Bytes)]
        /\ copy \in [Relays -> [Directions -> {"copying", "flushing", "ended"}]]
    BY <1>1, Empty DEF Both, Relay
  <2>4. sent \in [Ends -> Nat] /\ \A e \in Ends : sent[e] <= MaxBytes[e]
    BY <1>1
  <2>5. /\ received \in [Ends -> Seq(Bytes)]
        /\ saw \in [Ends -> {"nothing", "eof", "reset"}]
    BY <1>1, Empty
  <2>6. read_attempts \in 0 .. ReadAttemptsLimit /\ faults \in 0 .. MaxFaults
    BY <1>1
  <2> QED  BY <1>1, <2>1, <2>2, <2>3, <2>4, <2>5, <2>6 DEF TypeOK
<1>6. StagesOK
  <2>1. Len(<<>>) <= 1
    BY Empty
  <2> QED  BY <1>1, <1>2, <1>3, <1>4, <2>1 DEF StagesOK
<1>7. CalmOK
  <2>1. ASSUME NEW d \in Directions, NEW r \in Working(d)
        PROVE  EndsOK(r, d)
    <3>1. r \in Relays /\ From(r, d) \in Segments /\ To(r, d) \in Segments
      BY Paths
    <3>2. pc[r] # "done"
      BY <1>1, <3>1
    <3> QED  BY <1>2, <1>3, <1>4, <3>1, <3>2 DEF EndsOK, Source, Target
  <2>2. \A d \in Directions : ~ pipe[Sink(d)][d].deaf
    BY <1>2, <1>3, Places
  <2> QED  BY <1>1, <1>2, <1>3, <2>1, <2>2 DEF CalmOK
<1>8. ASSUME NEW d \in Directions
      PROVE  FlowOK(d)
  <2>1. Arrived(d) = <<>>
    <3>1. received[Sink(d)] = <<>> /\ Contents(pipe[Sink(d)][d]) = <<>>
      BY <1>1, <1>2, <1>3, Places
    <3> QED  BY <3>1, Empty DEF Arrived
  <2>2. \A r \in Relays : Held(r, d) = <<>>
    <3>1. \A r \in Relays : NothingHeld(r, d)
      BY <1>2, <1>3, <1>4, Sides DEF NothingHeld, AllRead, Source
    <3> QED  BY <3>1, HeldNothing
  <2>3. \A r \in Relays : Passed(r, d) = 0 /\ InReach(r, d) = 0
    BY <2>1, <2>2, Empty, Places DEF Passed, InReach
  <2>4. sent[Origin(d)] = 0
    BY <1>1, Places
  <2>5. Follows(0, <<>>)
    BY Empty DEF Follows
  <2>6. ArrivedOK(d)
    BY <2>1, <2>4, <2>5, Empty DEF ArrivedOK
  <2>7. \A r \in Working(d) : HeldOK(r, d)
    BY <2>2, <2>3, <2>4, <2>5, Paths DEF HeldOK
  <2>8. WholeOK(d)
    BY <2>3, <2>4, Places DEF WholeOK
  <2> QED  BY <2>6, <2>7, <2>8 DEF FlowOK
<1> QED  BY <1>5, <1>6, <1>7, <1>8 DEF IInv

LEMMA StutterStep ==
  ASSUME IInv, UNCHANGED vars
  PROVE  IInv'
<1> USE DEF vars, inVars, copyVars, endVars
<1>1. TypeOK /\ StagesOK /\ CalmOK /\ \A c \in Directions : FlowOK(c)
  BY DEF IInv
<1>2. TypeOK'
  BY <1>1 DEF TypeOK, Contents
<1>3. StagesOK'
  BY <1>1 DEF StagesOK, Framed
<1>4. CalmOK'
  <2>1. CalmBytes
    BY DEF CalmBytes, SameData
  <2> QED  BY <1>1, <2>1, CalmKeeps
<1>5. QuietStep
  BY DEF QuietStep, SameData
<1> QED  BY <1>1, <1>2, <1>3, <1>4, <1>5, QuietSteps DEF IInv

LEMMA Inductive ==
  ASSUME IInv, [Next]_vars
  PROVE  IInv'
<1>1. ASSUME NEW e \in Ends, Send(e) \/ Finish(e) \/ Receive(e) \/ Leave(e)
      PROVE  IInv'
  BY <1>1, SendStep, FinishStep, ReceiveStep, LeaveStep
<1>2. CASE InTask \/ Reject
  BY <1>2, SniffStep, OpenStreamStep, ConnectDirectStep, InConnectedStep, RejectStep
  DEF InTask
<1>3. CASE OutTask \/ OutConnectFails
  BY <1>3, OutAcceptStep, OutConnectedStep, OutConnectFailsStep DEF OutTask
<1>4. ASSUME NEW r \in Relays, Done(r)
      PROVE  IInv'
  BY <1>4, DoneStep
<1>5. ASSUME NEW r \in Relays, NEW d \in Directions, Copy(r, d)
      PROVE  IInv'
  BY <1>5, ReadStep, ReadEndStep, WriteStep, ShutdownStep, FailStep DEF Copy
<1>6. CASE TunnelLost
  BY <1>6, TunnelLostStep
<1>7. CASE UNCHANGED vars
  BY <1>7, StutterStep
<1> QED  BY <1>1, <1>2, <1>3, <1>4, <1>5, <1>6, <1>7 DEF Next

(* The bytes on their way are always those sent and not arrived, in order, *)
(* whatever has been sniffed, framed, kept or buffered by copy.            *)
THEOREM Invariance == Spec => []IInv
<1>1. Init => IInv
  BY InitOK
<1>2. IInv /\ [Next]_vars => IInv'
  BY Inductive
<1> QED  BY <1>1, <1>2, PTL DEF Spec

(* No buffer and no pipe overflows, in any state of the two relays.        *)
THEOREM TypeCorrect == Spec => []TypeOK
<1>1. IInv => TypeOK
  BY DEF IInv
<1> QED  BY <1>1, Invariance, PTL

-----------------------------------------------------------------------------
(* The two directions are byte pipes. *)

(* A pipe whose writer has ended is never written again. *)
StayOver == \A s \in Segments, d \in Directions :
              pipe[s][d].end # "open" => pipe'[s][d].end # "open"

LEMMA OnePipe ==
  ASSUME TypeOK, NEW s \in Segments, NEW d \in Directions, NEW q,
         pipe' = [pipe EXCEPT ![s][d] = q],
         pipe[s][d].end # "open" => q.end # "open"
  PROVE  StayOver
<1>1. pipe \in [Segments -> [Directions -> Pipe]]
  BY DEF TypeOK
<1>2. /\ pipe'[s][d] = q
      /\ \A t \in Segments, e \in Directions :
           t # s \/ e # d => pipe'[t][e] = pipe[t][e]
  BY <1>1
<1> QED  BY <1>2 DEF StayOver

LEMMA DataOver ==
  ASSUME TypeOK, NEW s \in Segments, NEW d \in Directions, NEW q,
         pipe' = [pipe EXCEPT ![s][d].data = q]
  PROVE  StayOver
<1>1. PICK p \in Pipe : p = pipe[s][d]
  BY PipeTypes
<1>2. PICK x : x = [p EXCEPT !.data = q]
  OBVIOUS
<1>3. x.end = p.end
  BY <1>2 DEF Pipe
<1>4. pipe' = [pipe EXCEPT ![s][d] = x]
  BY <1>1, <1>2 DEF TypeOK
<1> QED  BY <1>1, <1>3, <1>4, OnePipe

LEMMA PutOver ==
  ASSUME TypeOK, NEW s \in Segments, NEW d \in Directions, NEW b,
         pipe' = [pipe EXCEPT ![s][d] = Put(s, pipe[s][d], b)]
  PROVE  StayOver
<1>1. PICK p \in Pipe : p = pipe[s][d]
  BY PipeTypes
<1>2. Put(s, p, b).end = p.end
  BY DEF Put, Pipe
<1> QED  BY <1>1, <1>2, OnePipe

LEMMA EndOver ==
  ASSUME TypeOK, NEW s \in Segments, NEW d \in Directions,
         pipe' = [pipe EXCEPT ![s][d] = Finished(@)]
  PROVE  StayOver
<1>1. PICK p \in Pipe : p = pipe[s][d]
  BY PipeTypes
<1>2. Finished(p).end # "open"
  BY FinishedPipe DEF Pipe
<1>3. pipe' = [pipe EXCEPT ![s][d] = Finished(p)]
  BY <1>1
<1> QED  BY <1>2, <1>3, OnePipe

LEMMA OneSegment ==
  ASSUME TypeOK, NEW s \in Segments, NEW q, pipe' = [pipe EXCEPT ![s] = q],
         \A d \in Directions : pipe[s][d].end # "open" => q[d].end # "open"
  PROVE  StayOver
<1>1. /\ pipe'[s] = q
      /\ \A t \in Segments : t # s => pipe'[t] = pipe[t]
  BY DEF TypeOK
<1> QED  BY <1>1 DEF StayOver

LEMMA DropOver ==
  ASSUME NEW s, NEW d \in Directions, NEW p \in [Directions -> Pipe],
         NEW q \in Dropped(s, d, p)
  PROVE  \A c \in Directions : p[c].end # "open" => q[c].end # "open"
<1>1. DropsTo(p, d, q) /\ \A c \in Directions : c = d \/ c = Opposite(d)
  BY Drops, Places
<1> QED  BY <1>1 DEF DropsTo

LEMMA TaskStaysOver ==
  ASSUME TypeOK, NEW r \in Relays, r = "in" \/ kind # "direct",
         NEW p \in [Segments -> [Directions -> Pipe]], TaskEnds(r, p),
         \A s \in Segments, d \in Directions :
           pipe[s][d].end # "open" => p[s][d].end # "open"
  PROVE  StayOver
<1>1. TaskOver(r, p)
  BY TasksOver
<1>2. ASSUME NEW s \in Segments, NEW d \in Directions, p[s][d].end # "open"
      PROVE  pipe'[s][d].end # "open"
  BY <1>1, <1>2 DEF TaskOver
<1> QED  BY <1>2 DEF StayOver

LEMMA NothingReopens ==
  ASSUME IInv, [Next]_vars
  PROVE  StayOver
<1> USE DEF inVars, copyVars, endVars, NoFault
<1>1. TypeOK /\ StagesOK /\ pipe \in [Segments -> [Directions -> Pipe]]
  BY DEF IInv, TypeOK
<1>2. ASSUME UNCHANGED pipe
      PROVE  StayOver
  BY <1>2 DEF StayOver
<1>3. ASSUME NEW e \in Ends, Send(e) \/ Finish(e) \/ Receive(e) \/ Leave(e)
      PROVE  StayOver
  <2>1. PICK o \in Directions, i \in Directions :
          o = Outwards(e) /\ i = Inwards(e) /\ e \in Segments
    BY Ways
  <2>2. CASE Send(e)
    <3>1. pipe' = [pipe EXCEPT ![e][o] = Put(e, pipe[e][o], <<sent[e] + 1>>)]
      BY <2>1, <2>2 DEF Send
    <3> QED  BY <1>1, <2>1, <3>1, PutOver
  <2>3. CASE Finish(e)
    <3>1. pipe' = [pipe EXCEPT ![e][o] = Finished(@)]
      BY <2>1, <2>3 DEF Finish
    <3> QED  BY <1>1, <2>1, <3>1, EndOver
  <2>4. CASE Receive(e)
    <3>1. pipe' = [pipe EXCEPT ![e][i].data = <<>>] \/ UNCHANGED pipe
      BY <2>1, <2>4 DEF Receive
    <3> QED  BY <1>1, <1>2, <2>1, <3>1, DataOver
  <2>5. CASE Leave(e)
    <3>1. PICK segment \in Dropped(e, o, pipe[e]), how \in {"closed", "reset"} :
            pipe' = [pipe EXCEPT ![e] =
                       IF how = "reset" /\ pipe[e][o].end = "open"
                       THEN [segment EXCEPT ![o].end = "reset"] ELSE segment]
      BY <2>1, <2>5 DEF Leave
    <3>2. pipe[e] \in [Directions -> Pipe]
      BY <1>1, <2>1
    <3>3. /\ \A c \in Directions : pipe[e][c].end # "open" => segment[c].end # "open"
          /\ segment \in [Directions -> Pipe]
      <4>1. DropsTo(pipe[e], o, segment)
        BY <3>2, Drops
      <4>2. \A c \in Directions : pipe[e][c].end # "open" => segment[c].end # "open"
        BY <3>2, DropOver
      <4> QED  BY <4>1, <4>2 DEF DropsTo
    <3>4. PICK q : q = [segment EXCEPT ![o].end = "reset"]
      OBVIOUS
    <3>5. \A c \in Directions : pipe[e][c].end # "open" => q[c].end # "open"
      BY <2>1, <3>3, <3>4 DEF Pipe
    <3>6. CASE pipe' = [pipe EXCEPT ![e] = segment]
      BY <1>1, <2>1, <3>3, <3>6, OneSegment
    <3>7. CASE pipe' = [pipe EXCEPT ![e] = q]
      BY <1>1, <2>1, <3>5, <3>7, OneSegment
    <3> QED  BY <3>1, <3>4, <3>6, <3>7
  <2> QED  BY <1>3, <2>2, <2>3, <2>4, <2>5
<1>4. CASE InTask
  <2>1. CASE Sniff
    <3>1. \/ UNCHANGED pipe
          \/ pipe' = [pipe EXCEPT !["client"]["up"].data = <<>>]
          \/ pipe' = [pipe EXCEPT !["client"]["up"] =
                        [@ EXCEPT !.data = <<>>, !.end = "fin"]]
      BY <2>1 DEF Sniff
    <3>2. CASE pipe' = [pipe EXCEPT !["client"]["up"] =
                         [@ EXCEPT !.data = <<>>, !.end = "fin"]]
      <4>1. PICK p \in Pipe : p = pipe["client"]["up"]
        BY <1>1
      <4>2. PICK q : q = [p EXCEPT !.data = <<>>, !.end = "fin"]
        OBVIOUS
      <4>3. q.end = "fin"
        BY <4>2 DEF Pipe
      <4>4. pipe' = [pipe EXCEPT !["client"]["up"] = q]
        BY <3>2, <4>1, <4>2
      <4> QED  BY <1>1, <4>3, <4>4, OnePipe
    <3> QED  BY <1>1, <1>2, <3>1, <3>2, DataOver
  <2> QED  BY <1>2, <1>4, <2>1 DEF InTask, OpenStream, ConnectDirect, InConnected
<1>5. CASE Reject
  <2>1. PICK client \in Dropped("client", "down", pipe["client"]),
             how \in {"shutdown", "dropped"} :
          pipe' = [pipe EXCEPT !["client"] =
                     IF how = "dropped" THEN client
                     ELSE [client EXCEPT !["down"].end = "fin"]]
    BY <1>5 DEF Reject
  <2>2. pipe["client"] \in [Directions -> Pipe]
    BY <1>1
  <2>3. /\ \A c \in Directions :
             pipe["client"][c].end # "open" => client[c].end # "open"
        /\ client \in [Directions -> Pipe]
    <3>1. DropsTo(pipe["client"], "down", client)
      BY <2>2, Drops
    <3>2. \A c \in Directions :
            pipe["client"][c].end # "open" => client[c].end # "open"
      BY <2>2, DropOver
    <3> QED  BY <3>1, <3>2 DEF DropsTo
  <2>4. PICK q : q = [client EXCEPT !["down"].end = "fin"]
    OBVIOUS
  <2>5. \A c \in Directions :
          pipe["client"][c].end # "open" => q[c].end # "open"
    BY <2>3, <2>4 DEF Pipe
  <2>6. CASE pipe' = [pipe EXCEPT !["client"] = client]
    BY <1>1, <2>3, <2>6, OneSegment
  <2>7. CASE pipe' = [pipe EXCEPT !["client"] = q]
    BY <1>1, <2>5, <2>7, OneSegment
  <2> QED  BY <2>1, <2>4, <2>6, <2>7
<1>6. CASE OutTask \/ OutConnectFails
  <2>1. kind # "direct"
    BY <1>1, <1>6 DEF StagesOK, OutTask, OutAccept, OutConnected, OutConnectFails
  <2>2. UNCHANGED pipe \/ TaskEnds("out", pipe)
    BY <1>6 DEF OutTask, OutAccept, OutConnected, OutConnectFails
  <2> QED  BY <1>1, <1>2, <2>1, <2>2, TaskStaysOver
<1>7. ASSUME NEW r \in Relays, Done(r)
      PROVE  StayOver
  <2>1. r = "in" \/ kind # "direct"
    BY <1>1, <1>7 DEF StagesOK, Done
  <2>2. TaskEnds(r, pipe)
    BY <1>7 DEF Done
  <2> QED  BY <1>1, <2>1, <2>2, TaskStaysOver
<1>8. ASSUME NEW r \in Relays, NEW d \in Directions, Copy(r, d)
      PROVE  StayOver
  <2>1. PICK s \in Segments, t \in Segments : s = From(r, d) /\ t = To(r, d)
    BY Sides
  <2>2. CASE Read(r, d)
    <3>1. UNCHANGED pipe \/ \E q : pipe' = [pipe EXCEPT ![s][d].data = q]
      BY <2>1, <2>2 DEF Read
    <3> QED  BY <1>1, <1>2, <3>1, DataOver
  <2>3. CASE ReadEnd(r, d)
    BY <1>2, <2>3 DEF ReadEnd
  <2>4. CASE Write(r, d)
    <3>1. \E b : pipe' = [pipe EXCEPT ![t][d] = Put(t, pipe[t][d], b)]
      BY <2>1, <2>4 DEF Write, Target
    <3> QED  BY <1>1, <3>1, PutOver
  <2>5. CASE Shutdown(r, d)
    <3>1. pipe' = [pipe EXCEPT ![t][d] = Finished(@)]
      BY <2>1, <2>5 DEF Shutdown
    <3> QED  BY <1>1, <3>1, EndOver
  <2>6. CASE Fail(r, d)
    <3>1. r = "in" \/ kind # "direct"
      BY <2>6, NothingFails
    <3>2. PICK x \in Pipe, q \in Pipe :
            x = pipe[t][d] /\ q = Finished(x) /\ q.end # "open"
      <4>1. PICK x \in Pipe : x = pipe[t][d]
        BY <1>1, PipeTypes
      <4>2. Finished(x) \in Pipe /\ Finished(x).end # "open"
        BY FinishedPipe DEF Pipe
      <4> QED  BY <4>1, <4>2
    <3>3. PICK p : p = [pipe EXCEPT ![t][d] = q]
      OBVIOUS
    <3>4. /\ p \in [Segments -> [Directions -> Pipe]]
          /\ \A a \in Segments, c \in Directions :
               pipe[a][c].end # "open" => p[a][c].end # "open"
      BY <1>1, <3>2, <3>3
    <3>5. TaskEnds(r, pipe) \/ TaskEnds(r, p)
      <4>1. p = [pipe EXCEPT ![To(r, d)][d] = Finished(@)]
        BY <2>1, <3>2, <3>3
      <4>2. TaskEnds(r, IF pc[r] = "connect" THEN pipe ELSE p)
        BY <2>6, <4>1 DEF Fail
      <4> QED  BY <4>2
    <3> QED  BY <1>1, <3>1, <3>4, <3>5, TaskStaysOver
  <2> QED  BY <1>8, <2>2, <2>3, <2>4, <2>5, <2>6 DEF Copy
<1>9. CASE TunnelLost
  <2>1. PICK up \in Lost(pipe["tunnel"]["up"]), down \in Lost(pipe["tunnel"]["down"]) :
          pipe' = [pipe EXCEPT !["tunnel"]["up"] = up, !["tunnel"]["down"] = down]
    BY <1>9 DEF TunnelLost
  <2>2. /\ up = pipe["tunnel"]["up"] \/ up.end = "reset"
        /\ down = pipe["tunnel"]["down"] \/ down.end = "reset"
    BY <1>1, <2>1, LostParts
  <2>3. /\ pipe'["tunnel"]["up"] = up /\ pipe'["tunnel"]["down"] = down
        /\ \A s \in Segments : s # "tunnel" => pipe'[s] = pipe[s]
    BY <1>1, <2>1
  <2> QED  BY <2>2, <2>3 DEF StayOver
<1>10. CASE UNCHANGED vars
  BY <1>2, <1>10 DEF vars
<1> QED  BY <1>3, <1>4, <1>5, <1>6, <1>7, <1>8, <1>9, <1>10 DEF Next

(* What a step may do to direction d, seen from its two ends. *)
Closed(d) == pipe[Origin(d)][d].end # "open"
Numbered(n) == [i \in 1 .. n |-> i]
SameEnds(d) == /\ sent'[Origin(d)] = sent[Origin(d)]
               /\ received'[Sink(d)] = received[Sink(d)]
               /\ saw'[Sink(d)] = saw[Sink(d)]

(* A failure, an end that finishes or leaves, or nothing that can be seen. *)
EndsRest(d) ==
  /\ SameEnds(d) /\ (Closed(d) => Closed(d)')
  /\ faults > 0 => faults' > 0
Sends(d) ==
  /\ ~ Closed(d) /\ ~ Closed(d)' /\ sent[Origin(d)] < MaxBytes[Origin(d)]
  /\ sent'[Origin(d)] = sent[Origin(d)] + 1
  /\ received'[Sink(d)] = received[Sink(d)] /\ saw'[Sink(d)] = saw[Sink(d)]
  /\ faults' = faults
Delivers(d) ==
  /\ saw[Sink(d)] = "nothing" /\ saw'[Sink(d)] = "nothing"
  /\ \E n \in Len(received[Sink(d)]) + 1 .. sent[Origin(d)] :
       received'[Sink(d)] = Numbered(n)
  /\ sent'[Origin(d)] = sent[Origin(d)] /\ faults' = faults
  /\ Closed(d)' <=> Closed(d)
EndArrives(d) ==
  /\ saw[Sink(d)] = "nothing" /\ saw'[Sink(d)] # "nothing"
  /\ faults > 0 \/ (Closed(d) /\ Len(received[Sink(d)]) = sent[Origin(d)])
  /\ sent'[Origin(d)] = sent[Origin(d)] /\ faults' = faults
  /\ received'[Sink(d)] = received[Sink(d)] /\ (Closed(d)' <=> Closed(d))

PipeStep(d) == EndsRest(d) \/ Sends(d) \/ Delivers(d) \/ EndArrives(d)

LEMMA EndsSame ==
  ASSUME TypeOK, UNCHANGED endVars, faults' = faults \/ Fault, StayOver,
         NEW d \in Directions
  PROVE  PipeStep(d)
<1>1. SameEnds(d)
  BY DEF endVars, SameEnds
<1>2. Closed(d) => Closed(d)'
  BY Places DEF StayOver, Closed
<1>3. faults > 0 => faults' > 0
  BY DEF Fault, TypeOK
<1> QED  BY <1>1, <1>2, <1>3 DEF PipeStep, EndsRest

LEMMA SendIsSend ==
  ASSUME IInv, NEW e \in Ends, Send(e), NEW d \in Directions
  PROVE  PipeStep(d)
<1>1. TypeOK
  BY DEF IInv
<1>2. PICK o \in Directions : /\ o = Outwards(e) /\ Origin(o) = e /\ e \in Segments
                              /\ d # o => Origin(d) # e
  BY Ways, Places
<1>3. /\ sent[e] < MaxBytes[e] /\ pipe[e][o].end = "open"
      /\ pipe' = [pipe EXCEPT ![e][o] = Put(e, pipe[e][o], <<sent[e] + 1>>)]
      /\ sent' = [sent EXCEPT ![e] = @ + 1]
      /\ faults' = faults /\ received' = received /\ saw' = saw
  BY <1>2 DEF Send, NoFault
<1>4. sent'[e] = sent[e] + 1 /\ \A x \in Ends : x # e => sent'[x] = sent[x]
  BY <1>1, <1>3 DEF TypeOK
<1>5. CASE d = o
  <2>1. PICK p \in Pipe : p = pipe[e][o]
    BY <1>1, <1>2, PipeTypes
  <2>2. Put(e, p, <<sent[e] + 1>>).end = p.end
    BY DEF Put, Pipe
  <2>3. pipe'[e][o] = Put(e, p, <<sent[e] + 1>>)
    BY <1>1, <1>2, <1>3, <2>1 DEF TypeOK
  <2>4. ~ Closed(d) /\ ~ Closed(d)'
    BY <1>2, <1>3, <1>5, <2>1, <2>2, <2>3 DEF Closed
  <2> QED  BY <1>2, <1>3, <1>4, <1>5, <2>4 DEF PipeStep, Sends
<1>6. CASE d # o
  <2>1. SameEnds(d)
    BY <1>2, <1>3, <1>4, <1>6, Places DEF SameEnds
  <2>2. StayOver
    BY <1>1, <1>2, <1>3, PutOver
  <2>3. Closed(d) => Closed(d)'
    BY <2>2, Places DEF StayOver, Closed
  <2> QED  BY <1>3, <2>1, <2>3 DEF PipeStep, EndsRest
<1> QED  BY <1>5, <1>6

(* What has arrived is the beginning of what was sent. *)
LEMMA ArrivedNumbered ==
  ASSUME TypeOK, NEW d \in Directions, FlowOK(d)
  PROVE  /\ Arrived(d) = Numbered(Len(Arrived(d)))
         /\ Len(Arrived(d)) \in Nat /\ Len(Arrived(d)) <= sent[Origin(d)]
<1>1. PICK a \in Seq(Bytes), n \in Nat : a = Arrived(d) /\ n = Len(a)
  BY FlowTypes, LenProperties DEF AllTyped, FlowTyped
<1>2. \A i \in 1 .. n : a[i] = 0 + i
  BY <1>1 DEF FlowOK, ArrivedOK, Follows
<1>3. a = [i \in 1 .. n |-> a[i]]
  BY <1>1
<1>4. a = Numbered(n)
  BY <1>2, <1>3 DEF Numbered
<1> QED  BY <1>1, <1>4 DEF FlowOK, ArrivedOK

(* Without a failure the receiver finds the end when the sender has ended  *)
(* and nothing is left between them.                                       *)
LEMMA EndIsLast ==
  ASSUME IInv, faults = 0, NEW d \in Directions,
         pipe[Sink(d)][d].end = "fin", pipe[Sink(d)][d].data = <<>>
  PROVE  Closed(d) /\ Len(received[Sink(d)]) = sent[Origin(d)]
<1>1. TypeOK /\ CalmOK /\ FlowOK(d)
  BY DEF IInv
<1>2. PICK f \in Relays, l \in Relays :
        Ordered(d, f, l) /\ f \in Working(d) /\ l \in Working(d)
  BY Places DEF Ordered, Working
<1>3. /\ From(f, d) = Origin(d) /\ To(l, d) = Sink(d)
      /\ f # l => To(f, d) = "tunnel" /\ From(l, d) = "tunnel"
  BY <1>2, Places DEF Ordered
<1>4. EndsOK(l, d) /\ EndsOK(f, d)
  BY <1>1, <1>2, CalmNow
<1>5. copy[l][d] = "ended" /\ Source(l, d).end = "fin" /\ NothingHeld(l, d)
  BY <1>3, <1>4 DEF EndsOK, Target, NothingHeld
<1>6. copy[f][d] = "ended" /\ Source(f, d).end = "fin" /\ NothingHeld(f, d)
  <2>1. f # l => Target(f, d).end = "fin"
    BY <1>3, <1>5 DEF Target, Source
  <2> QED  BY <1>4, <1>5, <2>1 DEF EndsOK, NothingHeld
<1>7. Closed(d)
  BY <1>3, <1>6 DEF Closed, Source
<1>8. Len(Held(l, d)) = 0 /\ Len(Held(f, d)) = 0
  BY <1>5, <1>6, HeldNothing, Empty
<1>9. Len(Arrived(d)) = sent[Origin(d)]
  <2>1. FlowParted(d, f, l)
    BY <1>2, FlowParts DEF AllParted
  <2>2. InReach(f, d) = sent[Origin(d)]
    BY <1>1, <2>1 DEF FlowOK, FlowParted
  <2>3. PICK n \in Nat : n = Len(Arrived(d))
    BY <1>1, FlowTypes DEF AllTyped, FlowTyped
  <2>4. Passed(f, d) = n
    BY <1>8, <2>1, <2>3 DEF FlowParted
  <2>5. InReach(f, d) = n
    BY <1>8, <2>3, <2>4 DEF InReach
  <2> QED  BY <2>2, <2>3, <2>5
<1>10. Arrived(d) = received[Sink(d)]
  <2>1. received[Sink(d)] \in Seq(Bytes)
    BY <1>1, Places DEF TypeOK
  <2>2. Contents(pipe[Sink(d)][d]) = <<>>
    BY EmptyContents
  <2> QED  BY <2>1, <2>2, Empty DEF Arrived
<1> QED  BY <1>7, <1>9, <1>10

LEMMA ReceiveDelivers ==
  ASSUME IInv, NEW e \in Ends, Receive(e), NEW d \in Directions, StayOver
  PROVE  PipeStep(d)
<1>1. TypeOK /\ CalmOK /\ FlowOK(d)
  BY DEF IInv
<1>2. PICK i \in Directions : /\ i = Inwards(e) /\ Sink(i) = e /\ e \in Segments
                              /\ d # i => Sink(d) # e
  BY Ways, Places
<1>3. PICK p \in Pipe : /\ p = pipe[e][i] /\ p.data \in Data
                        /\ Contents(p) \in Seq(Bytes)
                        /\ Contents(p) = <<>> <=> p.data = <<>>
                        /\ p.end \in {"open", "fin", "reset"}
  BY <1>1, <1>2, PipeTypes
<1>4. /\ saw[e] = "nothing" /\ faults' = faults /\ sent' = sent
      /\ \/ /\ p.data # <<>>
            /\ received' = [received EXCEPT ![e] = @ \o Contents(p)]
            /\ pipe' = [pipe EXCEPT ![e][i].data = <<>>]
            /\ saw' = saw
         \/ /\ p.end = "reset" \/ (p.data = <<>> /\ p.end = "fin")
            /\ saw' = [saw EXCEPT ![e] = IF p.end = "fin" THEN "eof" ELSE "reset"]
            /\ received' = received /\ pipe' = pipe
  BY <1>2, <1>3 DEF Receive, NoFault
<1>5. CASE d # i
  <2>1. SameEnds(d)
    <3>1. Sink(d) \in Ends /\ Sink(d) # e
      BY <1>2, <1>5, Places
    <3>2. received'[Sink(d)] = received[Sink(d)]
      BY <1>1, <1>4, <3>1 DEF TypeOK
    <3>3. saw'[Sink(d)] = saw[Sink(d)]
      BY <1>1, <1>4, <3>1 DEF TypeOK
    <3> QED  BY <1>4, <3>2, <3>3 DEF SameEnds
  <2>2. Closed(d) => Closed(d)'
    BY Places DEF StayOver, Closed
  <2> QED  BY <1>4, <2>1, <2>2 DEF PipeStep, EndsRest
<1>6. CASE d = i /\ p.data # <<>> /\ saw' = saw
  <2>1. received' = [received EXCEPT ![e] = @ \o Contents(p)]
        /\ pipe' = [pipe EXCEPT ![e][i].data = <<>>]
    <3>1. saw' # [saw EXCEPT ![e] = IF p.end = "fin" THEN "eof" ELSE "reset"]
      BY <1>1, <1>4, <1>6 DEF TypeOK
    <3> QED  BY <1>4, <3>1
  <2>2. Closed(d)' <=> Closed(d)
    <3>1. Origin(d) # e
      BY <1>2, <1>6, Places
    <3>2. pipe'[Origin(d)] = pipe[Origin(d)]
      BY <1>1, <2>1, <3>1, Places DEF TypeOK
    <3> QED  BY <3>2 DEF Closed
  <2>3. PICK a \in Seq(Bytes), b \in Seq(Bytes) : a = received[e] /\ b = Contents(p)
    BY <1>1, <1>3 DEF TypeOK
  <2>4. Arrived(d) = a \o b /\ received'[e] = a \o b
    BY <1>1, <1>2, <1>3, <1>6, <2>1, <2>3 DEF Arrived, TypeOK
  <2>5. PICK n \in Nat, m \in Nat, k \in Nat :
          /\ n = Len(a \o b) /\ m = Len(a) /\ k = Len(b) /\ n = m + k /\ k # 0
    <3>1. b # <<>> /\ (Len(b) = 0 <=> b = <<>>)
      BY <1>3, <1>6, <2>3, Empty
    <3>2. PICK m \in Nat, k \in Nat : m = Len(a) /\ k = Len(b)
      BY LenProperties
    <3>3. PICK n \in Nat : n = m + k
      OBVIOUS
    <3>4. Len(a \o b) = n
      BY <3>2, <3>3, Concatenated
    <3>5. k # 0
      BY <3>1, <3>2
    <3> QED  BY <3>2, <3>3, <3>4, <3>5
  <2>6. a \o b = Numbered(n) /\ n <= sent[Origin(d)]
    BY <1>1, <2>4, <2>5, ArrivedNumbered
  <2>7. sent[Origin(d)] \in Nat
    BY <1>1, Places DEF TypeOK
  <2>8. n \in Len(received[e]) + 1 .. sent[Origin(d)]
    BY <2>3, <2>5, <2>6, <2>7
  <2>9. /\ saw[Sink(d)] = "nothing" /\ saw'[Sink(d)] = "nothing"
        /\ \E x \in Len(received[Sink(d)]) + 1 .. sent[Origin(d)] :
             received'[Sink(d)] = Numbered(x)
    BY <1>2, <1>4, <1>6, <2>4, <2>6, <2>8
  <2> QED  BY <1>4, <2>2, <2>9 DEF PipeStep, Delivers
<1>7. CASE d = i /\ ~ (p.data # <<>> /\ saw' = saw)
  <2>1. /\ p.end = "reset" \/ (p.data = <<>> /\ p.end = "fin")
        /\ saw' = [saw EXCEPT ![e] = IF p.end = "fin" THEN "eof" ELSE "reset"]
        /\ received' = received /\ pipe' = pipe
    BY <1>4, <1>7
  <2>2. saw[Sink(d)] = "nothing" /\ saw'[Sink(d)] # "nothing"
    BY <1>1, <1>2, <1>4, <1>7, <2>1 DEF TypeOK
  <2>3. Closed(d)' <=> Closed(d)
    BY <2>1 DEF Closed
  <2>4. faults > 0 \/ (Closed(d) /\ Len(received[Sink(d)]) = sent[Origin(d)])
    <3>1. faults > 0 \/ faults = 0
      BY <1>1 DEF TypeOK
    <3>2. CASE faults = 0
      <4>1. p.end # "reset"
        BY <1>1, <1>2, <1>3, <3>2, CalmNow
      <4> QED  BY <1>2, <1>3, <1>7, <2>1, <3>2, <4>1, EndIsLast
    <3> QED  BY <3>1, <3>2
  <2> QED  BY <1>4, <2>1, <2>2, <2>3, <2>4 DEF PipeStep, EndArrives
<1> QED  BY <1>4, <1>5, <1>6, <1>7

LEMMA StepIsPipeStep ==
  ASSUME IInv, [Next]_vars, NEW d \in Directions
  PROVE  PipeStep(d)
<1>1. TypeOK /\ StayOver
  BY NothingReopens DEF IInv
<1>2. CASE \E e \in Ends : Send(e)
  BY <1>2, SendIsSend
<1>3. CASE \E e \in Ends : Receive(e)
  BY <1>1, <1>3, ReceiveDelivers
<1>4. CASE UNCHANGED endVars /\ (faults' = faults \/ Fault)
  BY <1>1, <1>4, EndsSame
<1>5. ASSUME NEW e \in Ends, Finish(e) \/ Leave(e)
      PROVE  UNCHANGED endVars /\ (faults' = faults \/ Fault)
  BY <1>5 DEF Finish, Leave, NoFault
<1>6. ASSUME InTask \/ Reject
      PROVE  UNCHANGED endVars /\ (faults' = faults \/ Fault)
  BY <1>6 DEF InTask, Sniff, OpenStream, ConnectDirect, InConnected, Reject, NoFault
<1>7. ASSUME OutTask \/ OutConnectFails
      PROVE  UNCHANGED endVars /\ (faults' = faults \/ Fault)
  BY <1>7 DEF OutTask, OutAccept, OutConnected, OutConnectFails, NoFault
<1>8. ASSUME NEW r \in Relays, Done(r)
      PROVE  UNCHANGED endVars /\ (faults' = faults \/ Fault)
  BY <1>8 DEF Done, NoFault
<1>9. ASSUME NEW r \in Relays, NEW c \in Directions, Copy(r, c)
      PROVE  UNCHANGED endVars /\ (faults' = faults \/ Fault)
  BY <1>9 DEF Copy, Read, ReadEnd, Write, Shutdown, Fail, NoFault
<1>10. ASSUME TunnelLost
       PROVE  UNCHANGED endVars /\ (faults' = faults \/ Fault)
  BY <1>10 DEF TunnelLost
<1>11. ASSUME UNCHANGED vars
       PROVE  UNCHANGED endVars /\ (faults' = faults \/ Fault)
  BY <1>11 DEF vars
<1> QED
  BY <1>2, <1>3, <1>4, <1>5, <1>6, <1>7, <1>8, <1>9, <1>10, <1>11 DEF Next

LEMMA PipesInit ==
  ASSUME Init
  PROVE  Up!Init /\ Down!Init
BY DEF Init, Up!Init, Down!Init, Sending, Outwards, Both, NewPipe

LEMMA UpStep ==
  ASSUME PipeStep("up")
  PROVE  [Up!Next]_(Up!vars)
<1> USE DEF Origin, Sink, Opposite, Closed, Sending, Outwards, SameEnds
<1>1. CASE EndsRest("up")
  <2>1. CASE ~ faults > 0 /\ faults' > 0
    BY <1>1, <2>1 DEF EndsRest, Up!Break, Up!Next
  <2>2. CASE ((faults > 0)' <=> faults > 0) /\ (Closed("up")' <=> Closed("up"))
    BY <1>1, <2>2 DEF EndsRest, Up!vars
  <2>3. CASE ((faults > 0)' <=> faults > 0) /\ ~ Closed("up") /\ Closed("up")'
    BY <1>1, <2>3 DEF EndsRest, Up!Finish, Up!Next
  <2> QED  BY <1>1, <2>1, <2>2, <2>3 DEF EndsRest
<1>2. CASE Sends("up")
  BY <1>2 DEF Sends, Up!Send, Up!Next
<1>3. CASE Delivers("up")
  BY <1>3 DEF Delivers, Numbered, Up!FirstBytes, Up!Deliver, Up!Next
<1>4. CASE EndArrives("up")
  BY <1>4 DEF EndArrives, Up!End, Up!Next
<1> QED  BY <1>1, <1>2, <1>3, <1>4 DEF PipeStep

LEMMA DownStep ==
  ASSUME PipeStep("down")
  PROVE  [Down!Next]_(Down!vars)
<1> USE DEF Origin, Sink, Opposite, Closed, Sending, Outwards, SameEnds
<1>1. CASE EndsRest("down")
  <2>1. CASE ~ faults > 0 /\ faults' > 0
    BY <1>1, <2>1 DEF EndsRest, Down!Break, Down!Next
  <2>2. CASE ((faults > 0)' <=> faults > 0) /\ (Closed("down")' <=> Closed("down"))
    BY <1>1, <2>2 DEF EndsRest, Down!vars
  <2>3. CASE ((faults > 0)' <=> faults > 0) /\ ~ Closed("down") /\ Closed("down")'
    BY <1>1, <2>3 DEF EndsRest, Down!Finish, Down!Next
  <2> QED  BY <1>1, <2>1, <2>2, <2>3 DEF EndsRest
<1>2. CASE Sends("down")
  BY <1>2 DEF Sends, Down!Send, Down!Next
<1>3. CASE Delivers("down")
  BY <1>3 DEF Delivers, Numbered, Down!FirstBytes, Down!Deliver, Down!Next
<1>4. CASE EndArrives("down")
  BY <1>4 DEF EndArrives, Down!End, Down!Next
<1> QED  BY <1>1, <1>2, <1>3, <1>4 DEF PipeStep

(* From the client to the server the connection is a byte pipe, whatever   *)
(* was sniffed of it first: every step sends, finishes, delivers the next  *)
(* bytes, shows the end behind the last of them, or breaks it.             *)
THEOREM UpPipeSafe == Spec => Up!Init /\ [][Up!Next]_(Up!vars)
<1>1. Init => Up!Init
  BY PipesInit
<1>2. IInv /\ [Next]_vars => [Up!Next]_(Up!vars)
  BY StepIsPipeStep, UpStep
<1> QED  BY <1>1, <1>2, Invariance, PTL DEF Spec

(* And from the server to the client.                                      *)
THEOREM DownPipeSafe == Spec => Down!Init /\ [][Down!Next]_(Down!vars)
<1>1. Init => Down!Init
  BY PipesInit
<1>2. IInv /\ [Next]_vars => [Down!Next]_(Down!vars)
  BY StepIsPipeStep, DownStep
<1> QED  BY <1>1, <1>2, Invariance, PTL DEF Spec
=============================================================================
