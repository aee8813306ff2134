------------------------------ MODULE HistoryProofs ------------------------------
(***************************************************************************)
(* Proofs about ConversationHistory: what the provider of a turn is shown, *)
(* for every number of turns, messages, calls and every size of the        *)
(* window.                                                                 *)
(***************************************************************************)
EXTENDS ConversationHistory, ChatTurnLedger

-----------------------------------------------------------------------------
\* Lists joined to one

\* What starts with 0 and goes on one by one gets to n.
LEMMA Upwards ==
  ASSUME NEW n \in Nat, NEW P, 0 \in P,
         \A m \in Nat : m < n /\ m \in P => m + 1 \in P
  PROVE  n \in P
<1> DEFINE Bad == {m \in 0 .. n : m \notin P}
<1> SUFFICES ASSUME n \notin P PROVE FALSE
  OBVIOUS
<1>1. PICK k \in Bad : \A j \in Bad : <<j, k>> \notin OpToRel(<, Nat)
  <2>1. Bad \in SUBSET Nat /\ n \in Bad
    OBVIOUS
  <2> HIDE DEF Bad
  <2> QED
    BY <2>1, NatLessThanWellFounded, WFMin
<1>2. k \in Nat /\ k <= n /\ k \notin P
  <2>1. k \in Bad
    BY <1>1
  <2> QED
    BY <2>1
<1>3. k - 1 \in Nat /\ k - 1 < n
  <2>1. k # 0
    BY <1>2
  <2> QED
    BY <1>2, <2>1
<1>4. k - 1 \notin Bad
  <2>1. OpToRel(<, Nat) = {p \in Nat \X Nat : p[1] < p[2]}
    BY DEF OpToRel
  <2>2. k - 1 < k
    BY <1>2
  <2>3. <<k - 1, k>> \in OpToRel(<, Nat)
    BY <1>2, <1>3, <2>1, <2>2
  <2> QED
    BY <1>1, <2>3
<1>5. k - 1 \in P
  BY <1>3, <1>4
<1> QED
  BY <1>2, <1>3, <1>5

\* FlattenSeq joins the lists one after the other.
Joins(joined, seqs, n) ==
  /\ joined[0] = <<>>
  /\ \A k \in Nat : k < n => joined[k + 1] = joined[k] \o seqs[k + 1]

LEMMA Joined ==
  ASSUME NEW S, NEW seqs \in Seq(Seq(S))
  PROVE  \E joined \in [Nat -> Seq(S)] :
           Joins(joined, seqs, Len(seqs)) /\ FlattenSeq(seqs) = joined[Len(seqs)]
<1> DEFINE n == Len(seqs)
           Some(m) == \E j \in [Nat -> Seq(S)] : Joins(j, seqs, m)
           P == {m \in Nat : m <= n => Some(m)}
<1>1. n \in Nat
  OBVIOUS
<1> HIDE DEF n
<1>2. Some(0)
  <2> DEFINE j == [m \in Nat |-> <<>>]
  <2>1. <<>> \in Seq(S)
    OBVIOUS
  <2>2. j \in [Nat -> Seq(S)] /\ j[0] = <<>>
    BY <2>1
  <2>3. Joins(j, seqs, 0)
    BY <2>2 DEF Joins
  <2> HIDE DEF j
  <2> QED
    BY <2>2, <2>3
<1>3. ASSUME NEW m \in Nat, m < n, Some(m) PROVE Some(m + 1)
  <2>1. PICK j \in [Nat -> Seq(S)] : Joins(j, seqs, m)
    BY <1>3
  <2> DEFINE more == j[m] \o seqs[m + 1]
             i == [j EXCEPT ![m + 1] = more]
  <2>2. more \in Seq(S)
    <3>1. m + 1 \in 1 .. Len(seqs)
      BY <1>1, <1>3 DEF n
    <3>2. seqs[m + 1] \in Seq(S) /\ j[m] \in Seq(S)
      BY <3>1
    <3> QED
      BY <3>2
  <2> HIDE DEF more
  <2>3. i \in [Nat -> Seq(S)]
    BY <2>2
  <2>4. \A k \in Nat : i[k] = IF k = m + 1 THEN more ELSE j[k]
    OBVIOUS
  <2> HIDE DEF i
  <2>5. i[0] = <<>>
    BY <2>1, <2>4 DEF Joins
  <2>6. ASSUME NEW k \in Nat, k < m + 1
        PROVE  i[k + 1] = i[k] \o seqs[k + 1]
    <3>1. CASE k = m
      <4>1. m # m + 1 /\ m + 1 \in Nat
        OBVIOUS
      <4>2. i[m] = j[m] /\ i[m + 1] = more
        BY <2>4, <4>1
      <4> QED
        BY <3>1, <4>2 DEF more
    <3>2. CASE k # m
      <4>1. k < m /\ k # m + 1 /\ k + 1 # m + 1 /\ k + 1 \in Nat
        BY <2>6, <3>2
      <4>2. i[k] = j[k] /\ i[k + 1] = j[k + 1]
        BY <2>4, <4>1
      <4> QED
        BY <2>1, <4>1, <4>2 DEF Joins
    <3> QED
      BY <3>1, <3>2
  <2>7. Joins(i, seqs, m + 1)
    BY <2>5, <2>6 DEF Joins
  <2> QED
    BY <2>3, <2>7
<1>4. Some(n)
  <2>1. 0 \in P
    BY <1>2
  <2>2. \A m \in Nat : m < n /\ m \in P => m + 1 \in P
    <3> HIDE DEF Some
    <3> QED
      BY <1>1, <1>3
  <2> HIDE DEF P
  <2>3. n \in P
    BY <1>1, <2>1, <2>2, Upwards
  <2> HIDE DEF Some
  <2> QED
    BY <1>1, <2>3 DEF P
<1>5. PICK joined \in [Nat -> Seq(S)] : Joins(joined, seqs, n)
  BY <1>4
<1>6. CASE n = 0
  <2>1. seqs = <<>> /\ FlattenSeq(seqs) = seqs
    BY <1>6 DEF FlattenSeq, n
  <2> QED
    BY <1>5, <1>6, <2>1 DEF Joins, n
<1>7. CASE n # 0
  <2> DEFINE Flat(f) == f = [k \in 1 .. n |->
                               IF k = 1 THEN seqs[k] ELSE f[k - 1] \o seqs[k]]
             chosen == CHOOSE f : Flat(f)
             g == [k \in 1 .. n |-> joined[k]]
  <2>1. FlattenSeq(seqs) = chosen[n]
    BY <1>7, Zenon DEF FlattenSeq, n
  <2>2. joined[1] = seqs[1]
    <3>1. 0 < n /\ 0 + 1 = 1 /\ 0 \in Nat /\ 1 \in 1 .. n
      BY <1>1, <1>7
    <3>2. joined[1] = <<>> \o seqs[1]
      BY <1>5, <3>1 DEF Joins
    <3>3. seqs[1] \in Seq(S)
      BY <3>1 DEF n
    <3> QED
      BY <3>2, <3>3, ConcatEmptySeq
  <2>3. Flat(g)
    <3>1. \A k \in 1 .. n : g[k] = IF k = 1 THEN seqs[k] ELSE g[k - 1] \o seqs[k]
      <4> TAKE k \in 1 .. n
      <4>1. CASE k = 1
        BY <1>1, <2>2, <4>1
      <4>2. CASE k # 1
        <5>1. k - 1 \in Nat /\ k - 1 < n /\ k - 1 + 1 = k /\ k - 1 \in 1 .. n
          BY <1>1, <4>2
        <5>2. joined[k] = joined[k - 1] \o seqs[k]
          BY <1>5, <5>1 DEF Joins
        <5> QED
          BY <4>2, <5>1, <5>2
      <4> QED
        BY <4>1, <4>2
    <3>2. g = [k \in 1 .. n |-> g[k]]
      OBVIOUS
    <3> HIDE DEF g
    <3> QED
      BY <3>1, <3>2, Zenon
  <2>4. Flat(chosen)
    <3> HIDE DEF g, Flat
    <3> QED
      BY <2>3, Zenon DEF chosen
  <2> HIDE DEF chosen, g
  <2> DEFINE Q == {m \in Nat : 0 < m /\ m <= n => chosen[m] = joined[m]}
  <2>5. ASSUME NEW m \in Nat, m < n, m \in Q PROVE m + 1 \in Q
    <3>1. /\ m + 1 \in 1 .. n
          /\ m # 0 => m + 1 # 1 /\ m + 1 - 1 = m /\ 0 < m /\ m <= n
      <4> HIDE DEF Q
      <4> QED
        BY <1>1, <2>5
    <3>2. chosen[m + 1] = IF m + 1 = 1 THEN seqs[m + 1]
                                       ELSE chosen[m + 1 - 1] \o seqs[m + 1]
      <4>1. \A k \in 1 .. n :
              chosen[k] = IF k = 1 THEN seqs[k] ELSE chosen[k - 1] \o seqs[k]
        BY <2>4
      <4> QED
        BY <3>1, <4>1
    <3>3. joined[m + 1] = joined[m] \o seqs[m + 1]
      BY <1>5, <2>5 DEF Joins
    <3>4. chosen[m + 1] = joined[m + 1]
      <4>1. CASE m = 0
        BY <2>2, <3>2, <4>1
      <4>2. CASE m # 0
        <5>1. chosen[m] = joined[m]
          BY <2>5, <3>1, <4>2
        <5> QED
          BY <3>1, <3>2, <3>3, <4>2, <5>1
      <4> QED
        BY <4>1, <4>2
    <3> QED
      BY <3>4
  <2>6. n \in Q
    <3>1. 0 \in Q
      OBVIOUS
    <3> HIDE DEF Q, n
    <3> QED
      BY <1>1, <2>5, <3>1, Upwards
  <2>7. chosen[n] = joined[n]
    BY <1>1, <1>7, <2>6
  <2> QED
    BY <1>5, <2>1, <2>7 DEF n
<1> QED
  BY <1>6, <1>7

LEMMA FlattenType ==
  ASSUME NEW S, NEW seqs \in Seq(Seq(S))
  PROVE  FlattenSeq(seqs) \in Seq(S)
<1>1. PICK joined \in [Nat -> Seq(S)] : FlattenSeq(seqs) = joined[Len(seqs)]
  BY Joined
<1>2. Len(seqs) \in Nat
  OBVIOUS
<1> QED
  BY <1>1, <1>2

\* Each call has its answer behind it, and no text in between.
Answered(list) ==
  \A c \in 1 .. Len(list) : list[c].kind = "call" =>
    \E a \in c + 1 .. Len(list) :
      /\ list[a] = [list[c] EXCEPT !.kind = "answer"]
      /\ \A k \in c .. a : list[k].kind # "text"

LEMMA AnsweredBehind ==
  ASSUME NEW S, NEW a \in Seq(S), NEW b \in Seq(S), Answered(a), Answered(b)
  PROVE  Answered(a \o b)
<1> DEFINE n == Len(a)
           m == Len(b)
           h == a \o b
<1>1. n \in Nat /\ m \in Nat /\ Len(h) = n + m
  OBVIOUS
<1>2. \A k \in 1 .. n : h[k] = a[k]
  OBVIOUS
<1>3. \A k \in 1 .. m : h[n + k] = b[k]
  OBVIOUS
<1> HIDE DEF n, m, h
<1>4. ASSUME NEW c \in 1 .. n, h[c].kind = "call"
      PROVE  \E x \in c + 1 .. n + m :
               /\ h[x] = [h[c] EXCEPT !.kind = "answer"]
               /\ \A k \in c .. x : h[k].kind # "text"
  <2>1. h[c] = a[c]
    BY <1>2
  <2>2. PICK x \in c + 1 .. n :
          /\ a[x] = [a[c] EXCEPT !.kind = "answer"]
          /\ \A k \in c .. x : a[k].kind # "text"
    BY <1>4, <2>1 DEF Answered, n
  <2>3. x \in c + 1 .. n + m /\ x \in 1 .. n /\ \A k \in c .. x : k \in 1 .. n
    BY <1>1
  <2>4. h[x] = a[x] /\ \A k \in c .. x : h[k] = a[k]
    BY <1>2, <2>3
  <2>5. \A k \in c .. x : h[k].kind # "text"
    BY <2>2, <2>4
  <2> QED
    BY <2>1, <2>2, <2>3, <2>4, <2>5
<1>5. ASSUME NEW j \in 1 .. m, h[n + j].kind = "call"
      PROVE  \E x \in n + j + 1 .. n + m :
               /\ h[x] = [h[n + j] EXCEPT !.kind = "answer"]
               /\ \A k \in n + j .. x : h[k].kind # "text"
  <2>1. h[n + j] = b[j]
    BY <1>3
  <2>2. PICK x \in j + 1 .. m :
          /\ b[x] = [b[j] EXCEPT !.kind = "answer"]
          /\ \A k \in j .. x : b[k].kind # "text"
    BY <1>5, <2>1 DEF Answered, m
  <2>3. n + x \in n + j + 1 .. n + m /\ x \in 1 .. m
    BY <1>1
  <2>4. h[n + x] = b[x]
    BY <1>3, <2>3
  <2>5. ASSUME NEW k \in n + j .. n + x PROVE h[k].kind # "text"
    <3>1. k - n \in j .. x /\ k - n \in 1 .. m /\ n + (k - n) = k
      BY <1>1
    <3>2. h[k] = b[k - n]
      BY <1>3, <3>1
    <3> QED
      BY <2>2, <3>1, <3>2
  <2> QED
    BY <2>1, <2>2, <2>3, <2>4, <2>5
<1>6. ASSUME NEW c \in 1 .. n + m, c \notin 1 .. n
      PROVE  c - n \in 1 .. m /\ n + (c - n) = c
  BY <1>1, <1>6
<1>7. Answered(h)
  <2> SUFFICES ASSUME NEW c \in 1 .. n + m, h[c].kind = "call"
               PROVE  \E x \in c + 1 .. n + m :
                        /\ h[x] = [h[c] EXCEPT !.kind = "answer"]
                        /\ \A k \in c .. x : h[k].kind # "text"
    BY <1>1 DEF Answered
  <2>1. CASE c \in 1 .. n
    BY <1>4, <2>1
  <2>2. CASE c \notin 1 .. n
    <3>1. PICK j \in 1 .. m : c = n + j
      BY <1>6, <2>2
    <3> QED
      BY <1>5, <3>1
  <2> QED
    BY <2>1, <2>2
<1> QED
  BY <1>7 DEF h

LEMMA AnsweredJoined ==
  ASSUME NEW S, NEW seqs \in Seq(Seq(S)),
         \A k \in 1 .. Len(seqs) : Answered(seqs[k])
  PROVE  Answered(FlattenSeq(seqs))
<1>0. \A a, b \in Seq(S) : Answered(a) /\ Answered(b) => Answered(a \o b)
  <2> TAKE a, b \in Seq(S)
  <2> QED
    BY AnsweredBehind
<1>1. PICK joined \in [Nat -> Seq(S)] :
        /\ Joins(joined, seqs, Len(seqs))
        /\ FlattenSeq(seqs) = joined[Len(seqs)]
  BY Joined
<1> DEFINE n == Len(seqs)
           P == {m \in Nat : m <= n => Answered(joined[m])}
<1>2. n \in Nat
  OBVIOUS
<1>3. 0 \in P
  BY <1>1 DEF Joins, Answered
<1>4. ASSUME NEW m \in Nat, m < n, m \in P PROVE m + 1 \in P
  <2>1. m <= n /\ m + 1 \in 1 .. n
    <3> HIDE DEF P, n
    <3> QED
      BY <1>2, <1>4
  <2>2. seqs[m + 1] \in Seq(S) /\ joined[m] \in Seq(S)
    BY <2>1
  <2>3. joined[m + 1] = joined[m] \o seqs[m + 1]
    BY <1>1, <1>4 DEF Joins
  <2>4. Answered(joined[m]) /\ Answered(seqs[m + 1])
    BY <1>4, <2>1
  <2>5. Answered(joined[m + 1])
    BY <1>0, <2>2, <2>3, <2>4
  <2> QED
    BY <2>5
<1>5. n \in P
  <2> HIDE DEF P, n
  <2> QED
    BY <1>2, <1>3, <1>4, Upwards
<1> QED
  BY <1>1, <1>2, <1>5

-----------------------------------------------------------------------------
\* How many items of a list are in a set

Upto(list, c, T) == Cardinality({k \in 1 .. c : list[k] \in T})
Count(list, T) == Upto(list, Len(list), T)

LEMMA UptoNat ==
  ASSUME NEW list, NEW c \in Nat, NEW T
  PROVE  /\ Upto(list, c, T) \in Nat
         /\ IsFiniteSet({k \in 1 .. c : list[k] \in T})
<1>1. IsFiniteSet(1 .. c)
  BY FS_Interval
<1>2. IsFiniteSet({k \in 1 .. c : list[k] \in T})
  BY <1>1, FS_Subset
<1> QED
  BY <1>2, FS_CardinalityType DEF Upto

\* Behind a list of a items, those of another are counted as in it.
LEMMA UptoBehind ==
  ASSUME NEW S, NEW a \in Seq(S), NEW b \in Seq(S), NEW T
  PROVE  /\ \A c \in 0 .. Len(a) : Upto(a \o b, c, T) = Upto(a, c, T)
         /\ \A c \in 0 .. Len(b) :
              Upto(a \o b, Len(a) + c, T) = Count(a, T) + Upto(b, c, T)
<1> DEFINE n == Len(a)
           h == a \o b
<1>1. /\ n \in Nat /\ Len(b) \in Nat
      /\ \A k \in 1 .. n : h[k] = a[k]
  OBVIOUS
<1>2. \A k \in 1 .. Len(b) : h[n + k] = b[k]
  OBVIOUS
<1> HIDE DEF n, h
<1>3. ASSUME NEW c \in 0 .. n PROVE Upto(h, c, T) = Upto(a, c, T)
  <2>1. \A k \in 1 .. c : h[k] = a[k]
    BY <1>1
  <2>2. {k \in 1 .. c : h[k] \in T} = {k \in 1 .. c : a[k] \in T}
    BY <2>1
  <2> QED
    BY <2>2 DEF Upto
<1>4. ASSUME NEW c \in 0 .. Len(b)
      PROVE  Upto(h, n + c, T) = Count(a, T) + Upto(b, c, T)
  <2> DEFINE A == {k \in 1 .. n : a[k] \in T}
             B == {k \in 1 .. c : b[k] \in T}
             C == {k \in n + 1 .. n + c : h[k] \in T}
             f == [k \in B |-> n + k]
  <2>0. c \in Nat /\ c <= Len(b)
    BY <1>1
  <2>1. {k \in 1 .. n + c : h[k] \in T} = A \cup C
    <3>1. \A k : k \in 1 .. n + c <=> k \in 1 .. n \/ k \in n + 1 .. n + c
      BY <1>1, <2>0
    <3>2. A = {k \in 1 .. n : h[k] \in T}
      BY <1>1
    <3> QED
      BY <3>1, <3>2
  <2>2. A \cap C = {}
    <3>1. 1 .. n \cap (n + 1 .. n + c) = {}
      BY <1>1
    <3> QED
      BY <3>1
  <2>3. IsFiniteSet(A) /\ IsFiniteSet(B)
    BY <1>1, <2>0, UptoNat
  <2>4. f \in Surjection(B, C) /\ f \in Injection(B, C)
    <3>1. \A k \in 1 .. c : n + k \in n + 1 .. n + c /\ h[n + k] = b[k]
      <4> TAKE k \in 1 .. c
      <4>1. k \in 1 .. Len(b) /\ n + k \in n + 1 .. n + c
        BY <1>1, <2>0
      <4> QED
        BY <1>2, <4>1
    <3>2. \A k \in B : n + k \in C
      BY <3>1
    <3>3. \A k \in n + 1 .. n + c : k - n \in 1 .. c /\ n + (k - n) = k
      BY <1>1, <2>0
    <3>4. \A k \in C : \E j \in B : n + j = k
      <4> TAKE k \in C
      <4>1. k - n \in 1 .. c /\ n + (k - n) = k /\ h[k] \in T
        BY <3>3
      <4>2. k - n \in B
        BY <3>1, <4>1
      <4> QED
        BY <4>1, <4>2
    <3>5. \A j, k \in B : n + j = n + k => j = k
      BY <1>1
    <3> HIDE DEF B, C
    <3>6. f \in [B -> C] /\ \A k \in B : f[k] = n + k
      BY <3>2
    <3> HIDE DEF f
    <3>9. \A k \in C : \E j \in B : f[j] = k
      BY <3>4, <3>6
    <3>7. f \in Surjection(B, C)
      BY <3>6, <3>9 DEF Surjection
    <3>8. f \in Injection(B, C)
      BY <3>5, <3>6 DEF Injection, IsInjective
    <3> QED
      BY <3>7, <3>8
  <2>5. IsFiniteSet(C) /\ Cardinality(C) = Cardinality(B)
    <3> HIDE DEF f, B, C
    <3> QED
      BY <2>3, <2>4, FS_Surjection
  <2>6. Cardinality(A \cup C) = Cardinality(A) + Cardinality(B)
    <3> HIDE DEF A, B, C
    <3>1. Cardinality(A \cap C) = 0
      BY <2>2, FS_EmptySet
    <3>2. Cardinality(A) \in Nat /\ Cardinality(C) \in Nat
      BY <2>3, <2>5, FS_CardinalityType
    <3>3. Cardinality(A \cup C)
            = Cardinality(A) + Cardinality(C) - Cardinality(A \cap C)
      BY <2>3, <2>5, FS_Union
    <3> QED
      BY <2>5, <3>1, <3>2, <3>3
  <2> QED
    BY <2>1, <2>6 DEF Upto, Count, n
<1> QED
  BY <1>3, <1>4 DEF n, h

LEMMA CountBehind ==
  ASSUME NEW S, NEW a \in Seq(S), NEW b \in Seq(S), NEW T
  PROVE  /\ Count(a \o b, T) = Count(a, T) + Count(b, T)
         /\ Count(a, T) \in Nat /\ Count(b, T) \in Nat
<1>1. Len(a) \in Nat /\ Len(b) \in Nat /\ Len(a \o b) = Len(a) + Len(b)
  OBVIOUS
<1>2. Len(b) \in 0 .. Len(b)
  BY <1>1
<1>3. Upto(a \o b, Len(a) + Len(b), T) = Count(a, T) + Upto(b, Len(b), T)
  BY <1>2, UptoBehind
<1> QED
  BY <1>1, <1>3, UptoNat DEF Count

LEMMA CountJoined ==
  ASSUME NEW S, NEW seqs \in Seq(Seq(S)), NEW T, NEW g \in [Nat -> Nat],
         g[0] = 0,
         \A k \in Nat : k < Len(seqs) => g[k + 1] = g[k] + Count(seqs[k + 1], T)
  PROVE  Count(FlattenSeq(seqs), T) = g[Len(seqs)]
<1>0. \A a, b \in Seq(S) : Count(a \o b, T) = Count(a, T) + Count(b, T)
  <2> TAKE a, b \in Seq(S)
  <2> QED
    BY CountBehind
<1>1. PICK joined \in [Nat -> Seq(S)] :
        /\ Joins(joined, seqs, Len(seqs))
        /\ FlattenSeq(seqs) = joined[Len(seqs)]
  BY Joined
<1> DEFINE n == Len(seqs)
           P == {m \in Nat : m <= n => Count(joined[m], T) = g[m]}
<1>2. n \in Nat
  OBVIOUS
<1>3. 0 \in P
  <2>1. joined[0] = <<>> /\ {k \in 1 .. 0 : joined[0][k] \in T} = {}
    BY <1>1 DEF Joins
  <2>2. Count(joined[0], T) = 0
    BY <2>1, FS_EmptySet DEF Count, Upto
  <2> QED
    BY <2>2
<1>4. ASSUME NEW m \in Nat, m < n, m \in P PROVE m + 1 \in P
  <2>1. m <= n /\ m + 1 \in 1 .. n
    <3> HIDE DEF P, n
    <3> QED
      BY <1>2, <1>4
  <2>2. seqs[m + 1] \in Seq(S) /\ joined[m] \in Seq(S)
    BY <2>1
  <2>3. joined[m + 1] = joined[m] \o seqs[m + 1]
    BY <1>1, <1>4 DEF Joins
  <2>4. Count(joined[m + 1], T) = Count(joined[m], T) + Count(seqs[m + 1], T)
    <3>1. Count(joined[m] \o seqs[m + 1], T)
            = Count(joined[m], T) + Count(seqs[m + 1], T)
      BY <1>0, <2>2
    <3> QED
      BY <2>3, <3>1
  <2>5. Count(joined[m], T) = g[m]
    BY <1>4, <2>1
  <2>6. g[m + 1] = g[m] + Count(seqs[m + 1], T)
    BY <1>4
  <2>7. Count(joined[m + 1], T) = g[m + 1]
    BY <2>4, <2>5, <2>6
  <2> QED
    BY <2>7
<1>5. n \in P
  <2> HIDE DEF P, n
  <2> QED
    BY <1>2, <1>3, <1>4, Upwards
<1> QED
  BY <1>1, <1>2, <1>5

\* Where the first item of each list is the only one in the set, the k-th such
\* item of the joined list is the first of the k-th list.
Heads(seqs, T) ==
  \A k \in 1 .. Len(seqs) :
    /\ Len(seqs[k]) > 0
    /\ \A j \in 1 .. Len(seqs[k]) : seqs[k][j] \in T <=> j = 1
Numbered(list, seqs, T) ==
  /\ Count(list, T) = Len(seqs)
  /\ \A c \in 1 .. Len(list) : list[c] \in T =>
       LET nth == Upto(list, c, T) IN
       nth \in 1 .. Len(seqs) /\ list[c] = seqs[nth][1]

LEMMA Headed ==
  ASSUME NEW S, NEW seqs \in Seq(Seq(S)), NEW T, Heads(seqs, T)
  PROVE  Numbered(FlattenSeq(seqs), seqs, T)
<1>0. \A a, b \in Seq(S) : Count(a \o b, T) = Count(a, T) + Count(b, T)
  <2> TAKE a, b \in Seq(S)
  <2> QED
    BY CountBehind
<1>9. \A a, b \in Seq(S) :
        /\ \A i \in 0 .. Len(a) : Upto(a \o b, i, T) = Upto(a, i, T)
        /\ \A i \in 0 .. Len(b) :
             Upto(a \o b, Len(a) + i, T) = Count(a, T) + Upto(b, i, T)
  <2> TAKE a, b \in Seq(S)
  <2> QED
    BY UptoBehind
<1>1. PICK joined \in [Nat -> Seq(S)] :
        /\ Joins(joined, seqs, Len(seqs))
        /\ FlattenSeq(seqs) = joined[Len(seqs)]
  BY Joined
<1> DEFINE n == Len(seqs)
           Nth(m, c) == Upto(joined[m], c, T)
           In(m) == /\ Count(joined[m], T) = m
                    /\ \A c \in 1 .. Len(joined[m]) : joined[m][c] \in T =>
                         /\ Nth(m, c) \in 1 .. m
                         /\ joined[m][c] = seqs[Nth(m, c)][1]
           P == {m \in Nat : m <= n => In(m)}
<1>2. n \in Nat
  OBVIOUS
<1>3. 0 \in P
  <2>1. joined[0] = <<>> /\ {k \in 1 .. 0 : joined[0][k] \in T} = {}
    BY <1>1 DEF Joins
  <2>2. Count(joined[0], T) = 0
    BY <2>1, FS_EmptySet DEF Count, Upto
  <2> QED
    BY <2>1, <2>2
<1>4. ASSUME NEW m \in Nat, m < n, In(m) PROVE In(m + 1)
  <2> DEFINE list == seqs[m + 1]
             here == joined[m]
             all == joined[m + 1]
  <2>0. m < n
    BY <1>4
  <2>1. m + 1 \in 1 .. n
    <3> HIDE DEF In, n
    <3> QED
      BY <1>2, <2>0
  <2>2. list \in Seq(S) /\ here \in Seq(S)
    <3>1. seqs[m + 1] \in Seq(S)
      BY <2>1
    <3>2. joined[m] \in Seq(S)
      BY <1>4
    <3> QED
      BY <3>1, <3>2
  <2>3. all = here \o list
    BY <1>1, <1>4 DEF Joins
  <2>4. /\ Len(list) > 0
        /\ \A j \in 1 .. Len(list) : list[j] \in T <=> j = 1
    BY <2>1 DEF Heads
  <2>5. /\ Count(here, T) = m
        /\ \A c \in 1 .. Len(here) : here[c] \in T =>
             /\ Upto(here, c, T) \in 1 .. m
             /\ here[c] = seqs[Upto(here, c, T)][1]
    BY <1>4
  <2> HIDE DEF list, here, all, n
  <2>6. /\ Len(here) \in Nat /\ Len(list) \in Nat
        /\ Len(all) = Len(here) + Len(list)
        /\ \A c \in 1 .. Len(here) : all[c] = here[c]
    <3>1. /\ Len(here) \in Nat /\ Len(list) \in Nat
          /\ Len(here \o list) = Len(here) + Len(list)
      BY <2>2
    <3>2. \A c \in 1 .. Len(here) : (here \o list)[c] = here[c]
      BY <2>2
    <3> QED
      BY <2>3, <3>1, <3>2
  <2>7. \A c \in 1 .. Len(list) : all[Len(here) + c] = list[c]
    BY <2>2, <2>3
  <2>8. Upto(list, 1, T) = 1 /\ Count(list, T) = 1
    <3>1. 1 \in 1 .. Len(list)
      BY <2>4, <2>6
    <3>2. {k \in 1 .. 1 : list[k] \in T} = {1}
      BY <2>4, <3>1
    <3>3. {k \in 1 .. Len(list) : list[k] \in T} = {1}
      BY <2>4, <3>1
    <3> QED
      BY <3>2, <3>3, FS_Singleton DEF Upto, Count
  <2>9. Count(all, T) = m + 1
    <3>1. Count(here \o list, T) = Count(here, T) + Count(list, T)
      BY <1>0, <2>2
    <3> QED
      BY <2>3, <2>5, <2>8, <3>1
  <2>10. ASSUME NEW c \in 1 .. Len(all), all[c] \in T
         PROVE  /\ Upto(all, c, T) \in 1 .. m + 1
                /\ all[c] = seqs[Upto(all, c, T)][1]
    <3>1. CASE c \in 1 .. Len(here)
      <4>1. c \in 0 .. Len(here)
        BY <3>1
      <4>2. Upto(all, c, T) = Upto(here, c, T)
        <5>1. \A i \in 0 .. Len(here) :
                Upto(here \o list, i, T) = Upto(here, i, T)
          BY <1>9, <2>2
        <5> QED
          BY <2>3, <4>1, <5>1
      <4>3. here[c] \in T /\ all[c] = here[c]
        BY <2>6, <2>10, <3>1
      <4>4. Upto(here, c, T) \in 1 .. m /\ here[c] = seqs[Upto(here, c, T)][1]
        BY <2>5, <3>1, <4>3
      <4> QED
        BY <4>2, <4>3, <4>4
    <3>2. CASE c \notin 1 .. Len(here)
      <4>1. PICK j \in 1 .. Len(list) : c = Len(here) + j
        <5>1. c - Len(here) \in 1 .. Len(list) /\ c = Len(here) + (c - Len(here))
          BY <2>6, <3>2
        <5> QED
          BY <5>1
      <4>2. list[j] \in T
        BY <2>7, <2>10, <4>1
      <4>3. j = 1
        BY <2>4, <4>2
      <4>4. 1 \in 0 .. Len(list)
        BY <2>4, <2>6
      <4>5. Upto(all, Len(here) + 1, T) = Count(here, T) + Upto(list, 1, T)
        <5>1. \A i \in 0 .. Len(list) :
                Upto(here \o list, Len(here) + i, T)
                  = Count(here, T) + Upto(list, i, T)
          BY <1>9, <2>2
        <5> QED
          BY <2>3, <4>4, <5>1
      <4>6. Upto(all, c, T) = m + 1
        BY <2>5, <2>8, <4>1, <4>3, <4>5
      <4>7. all[c] = list[1]
        BY <2>7, <4>1, <4>3
      <4> QED
        BY <4>6, <4>7 DEF list
    <3> QED
      BY <3>1, <3>2
  <2> QED
    BY <2>9, <2>10 DEF all
<1>5. n \in P
  <2>1. ASSUME NEW m \in Nat, m < n, m \in P PROVE m + 1 \in P
    <3>1. m <= n
      <4> HIDE DEF P
      <4> QED
        BY <1>2, <2>1
    <3>2. In(m)
      <4> HIDE DEF In
      <4> QED
        BY <2>1, <3>1
    <3>3. In(m + 1)
      <4> HIDE DEF In
      <4> QED
        BY <1>4, <2>1, <3>2
    <3> HIDE DEF In
    <3> QED
      BY <3>3, SMT
  <2> HIDE DEF P, n
  <2> QED
    BY <1>2, <1>3, <2>1, Upwards
<1>6. In(n)
  <2> HIDE DEF In
  <2> QED
    BY <1>2, <1>5
<1> QED
  BY <1>1, <1>6 DEF Numbered

LEMMA NoneCounted ==
  ASSUME NEW S, NEW list \in Seq(S), NEW T, S \cap T = {}
  PROVE  Count(list, T) = 0
<1>1. {k \in 1 .. Len(list) : list[k] \in T} = {}
  OBVIOUS
<1> QED
  BY <1>1, FS_EmptySet DEF Count, Upto

LEMMA AllCounted ==
  ASSUME NEW S, NEW list \in Seq(S), NEW T, S \subseteq T
  PROVE  Count(list, T) = Len(list)
<1>1. {k \in 1 .. Len(list) : list[k] \in T} = 1 .. Len(list)
  OBVIOUS
<1>2. Len(list) \in Nat
  OBVIOUS
<1>3. Cardinality(1 .. Len(list)) = Len(list)
  <2> DEFINE n == Len(list)
  <2>1. n \in Nat
    BY <1>2
  <2> HIDE DEF n
  <2>2. Cardinality(1 .. n) = IF 1 > n THEN 0 ELSE n - 1 + 1
    BY <2>1, FS_Interval
  <2>3. Cardinality(1 .. n) = n
    BY <2>1, <2>2
  <2> QED
    BY <2>3 DEF n
<1> QED
  BY <1>1, <1>3 DEF Count, Upto

-----------------------------------------------------------------------------
\* Calls and behind them their answers

Items(kind, u, n, id) == [k \in 1 .. n |-> Item(kind, u, id[k])]
Exchange(u, n, id) == Items("call", u, n, id) \o Items("answer", u, n, id)

ItemSet(kinds, u, X) == [kind : kinds, turn : {u}, id : X]

-----------------------------------------------------------------------------
\* The items of the list a turn gives to stream()

Ids(t) == {<<ById(CallsOf(t, row))[k]>> : row \in Nat, k \in Nat}
            \cup {<<b, k>> : b \in Nat, k \in Nat}
TextItems == [kind : {"text"}, turn : Turn, role : {"user", "assistant"}]
CallItems(t, s) == ItemSet({"call"}, s, Ids(t))
AnItem(t) == TextItems \cup [kind : {"call", "answer"}, turn : Turn, id : Ids(t)]
ItemsOf(t, s) == {i \in AnItem(t) : i.turn = s}
TalkOf(t, s) == {i \in ItemsOf(t, s) : i.kind # "text"}

LEMMA Texting ==
  ASSUME NEW u \in Turn, NEW role \in {"user", "assistant"}, NEW t
  PROVE  /\ Text(u, role) \in TextItems /\ Text(u, role) \in ItemsOf(t, u)
         /\ <<Text(u, role)>> \in Seq(ItemsOf(t, u))
         /\ Answered(<<Text(u, role)>>)
         /\ \A s : Count(<<Text(u, role)>>, CallItems(t, s)) = 0
<1>1. Text(u, role) \in TextItems /\ Text(u, role).turn = u
      /\ Text(u, role).kind = "text"
  BY DEF Text, TextItems
<1>2. Text(u, role) \in ItemsOf(t, u)
  BY <1>1 DEF ItemsOf, AnItem
<1> DEFINE x == Text(u, role)
<1> HIDE DEF x
<1>3. Answered(<<x>>)
  <2>1. x.kind # "call"
    BY <1>1 DEF x
  <2>2. \A c \in 1 .. Len(<<x>>) : <<x>>[c].kind # "call"
    BY <2>1
  <2> QED
    BY <2>2 DEF Answered
<1>4. \A s : Count(<<x>>, CallItems(t, s)) = 0
  <2> TAKE s
  <2>1. {x} \cap CallItems(t, s) = {}
    BY <1>1 DEF CallItems, ItemSet, x
  <2>2. <<x>> \in Seq({x})
    OBVIOUS
  <2> QED
    BY <2>1, <2>2, NoneCounted
<1> QED
  BY <1>1, <1>2, <1>3, <1>4 DEF x

\* A list with n calls of turn u and no other, each answered.
Shows(list, t, u, n) ==
  /\ Answered(list)
  /\ \A s : Count(list, CallItems(t, s)) = IF s = u THEN n ELSE 0
\* A list with one text, which is the first item.
Begins(list, text) ==
  /\ Len(list) > 0
  /\ list[1] = text
  /\ \A j \in 1 .. Len(list) : list[j].kind = "text" <=> j = 1

\* The calls of one row or batch, and behind them their answers.
LEMMA Exchanging ==
  ASSUME NEW t, NEW u \in Turn, NEW n \in Nat, NEW id,
         \A k \in 1 .. n : id[k] \in Ids(t)
  PROVE  /\ Exchange(u, n, id) \in Seq(TalkOf(t, u))
         /\ Shows(Exchange(u, n, id), t, u, n)
<1> DEFINE X == Ids(t)
<1>0. \A k \in 1 .. n : id[k] \in X
  OBVIOUS
<1> HIDE DEF X
<1> DEFINE S == ItemSet({"call", "answer"}, u, X)
           C == ItemSet({"call"}, u, X)
           A == ItemSet({"answer"}, u, X)
           a == Items("call", u, n, id)
           b == Items("answer", u, n, id)
           h == a \o b
<1>1. a \in Seq(C) /\ b \in Seq(A) /\ Len(a) = n /\ Len(b) = n
  BY <1>0 DEF Items, Item, ItemSet
<1>2. \A k \in 1 .. n : /\ a[k] = Item("call", u, id[k])
                        /\ b[k] = Item("answer", u, id[k])
  BY DEF Items
<1>3. a \in Seq(S) /\ b \in Seq(S)
  <2>1. \A k \in 1 .. n : id[k] \in X
    BY <1>0
  <2>2. \A k \in 1 .. n : Item("call", u, id[k]) \in S
                          /\ Item("answer", u, id[k]) \in S
    BY <2>1 DEF Item, ItemSet
  <2> QED
    BY <2>2 DEF Items
<1> HIDE DEF a, b
<1>4. /\ h \in Seq(S) /\ Len(h) = n + n
      /\ \A k \in 1 .. n : h[k] = a[k]
  BY <1>1, <1>3
<1>5. \A k \in 1 .. n : h[n + k] = b[k]
  BY <1>1, <1>3
<1> HIDE DEF h
<1>6. \A k \in n + 1 .. n + n : h[k].kind = "answer"
  <2> TAKE k \in n + 1 .. n + n
  <2>1. k - n \in 1 .. n /\ n + (k - n) = k
    OBVIOUS
  <2>2. h[k] = b[k - n]
    BY <1>5, <2>1
  <2>3. \A j \in 1 .. n : b[j].kind = "answer"
    <3> TAKE j \in 1 .. n
    <3>1. b[j] = [kind |-> "answer", turn |-> u, id |-> id[j]]
      BY <1>2 DEF Item
    <3> QED
      BY <3>1
  <2> QED
    BY <2>1, <2>2, <2>3
<1>7. Answered(h)
  <2> SUFFICES ASSUME NEW c \in 1 .. n + n, h[c].kind = "call"
               PROVE  \E x \in c + 1 .. n + n :
                        /\ h[x] = [h[c] EXCEPT !.kind = "answer"]
                        /\ \A k \in c .. x : h[k].kind # "text"
    BY <1>4 DEF Answered
  <2>1. c \in 1 .. n
    <3>1. c \notin n + 1 .. n + n
      BY <1>6
    <3> QED
      BY <3>1
  <2>2. n + c \in c + 1 .. n + n
    BY <2>1
  <2>3. h[c] = Item("call", u, id[c]) /\ h[n + c] = Item("answer", u, id[c])
    BY <1>2, <1>4, <1>5, <2>1
  <2>4. h[n + c] = [h[c] EXCEPT !.kind = "answer"]
    BY <2>3 DEF Item
  <2>5. ASSUME NEW k \in c .. n + c PROVE h[k].kind # "text"
    <3>1. k \in 1 .. n + n
      BY <2>1
    <3>2. h[k] \in S
      <4> HIDE DEF S
      <4> QED
        BY <1>4, <3>1
    <3> QED
      BY <3>2 DEF ItemSet
  <2> QED
    BY <2>2, <2>4, <2>5
<1>8. Count(h, C) = n
  <2>1. Count(a, C) = n
    <3> HIDE DEF C
    <3> QED
      BY <1>1, AllCounted
  <2>2. Count(b, C) = 0
    <3>1. A \cap C = {}
      BY DEF ItemSet
    <3> HIDE DEF A, C
    <3> QED
      BY <1>1, <3>1, NoneCounted
  <2>3. Count(a \o b, C) = Count(a, C) + Count(b, C)
    BY <1>3, CountBehind
  <2> QED
    BY <2>1, <2>2, <2>3 DEF h
<1>9. ASSUME NEW s, s # u PROVE Count(h, CallItems(t, s)) = 0
  <2>1. S \cap CallItems(t, s) = {}
    BY <1>9 DEF CallItems, ItemSet
  <2> HIDE DEF S
  <2> QED
    BY <1>4, <2>1, NoneCounted
<1>10. h \in Seq(TalkOf(t, u))
  <2>1. S \subseteq TalkOf(t, u)
    BY DEF TalkOf, ItemsOf, AnItem, ItemSet, X
  <2> HIDE DEF S
  <2> QED
    BY <1>4, <2>1
<1>11. C = CallItems(t, u)
  BY DEF CallItems, X
<1> QED
  <2> HIDE DEF C
  <2> QED
    BY <1>7, <1>8, <1>9, <1>10, <1>11 DEF Exchange, Shows, a, b, h

LEMMA CallsFinite ==
  ASSUME NEW t, memory[t].calls \in Nat, NEW row
  PROVE  Cardinality(CallsOf(t, row)) \in Nat
<1>1. IsFiniteSet(1 .. memory[t].calls)
  BY FS_Interval
<1>2. IsFiniteSet(CallsOf(t, row))
  BY <1>1, FS_Subset DEF CallsOf
<1> QED
  BY <1>2, FS_CardinalityType

\* A row shown by a provider: items of the row's turn, with a call for each
\* that was read with the row, and, by OpenAI, the text before them.
LEMMA Renders ==
  ASSUME NEW t, memory[t].calls \in Nat, NEW row \in Nat,
         messages[row].turn \in Turn,
         messages[row].role \in {"user", "assistant"},
         NEW provider \in Providers
  PROVE  LET u == messages[row].turn
             n == Cardinality(CallsOf(t, row))
             list == Rendered(provider, MemoryMessage(t, row))
         IN  /\ list \in Seq(ItemsOf(t, u)) /\ Shows(list, t, u, n)
             /\ provider = "openai" => Begins(list, Text(u, messages[row].role))
<1> DEFINE u == messages[row].turn
           role == messages[row].role
           n == Cardinality(CallsOf(t, row))
           ids == ById(CallsOf(t, row))
           id == [k \in 1 .. n |-> <<ids[k]>>]
           m == MemoryMessage(t, row)
           list == Rendered(provider, m)
           I == TalkOf(t, u)
           head == <<Text(u, role)>>
           tail == Exchange(u, n, id)
<1>1. n \in Nat
  BY CallsFinite
<1>2. m.turn = u /\ m.role = role /\ m.tool_calls = ids
  BY DEF MemoryMessage
<1>3. DOMAIN ids = 1 .. n
  BY DEF ById
<1>4. Exchanged(m) = tail
  <2>1. \A k \in 1 .. n : id[k] = <<ids[k]>>
    OBVIOUS
  <2> HIDE DEF id, ids, n, u, m
  <2> QED
    BY <1>2, <1>3, <2>1 DEF Exchanged, Exchange, Items
<1>11. tail \in Seq(I) /\ Shows(tail, t, u, n)
  <2>1. \A k \in 1 .. n : id[k] \in Ids(t)
    <3>1. ASSUME NEW k \in 1 .. n PROVE <<ids[k]>> \in Ids(t)
      <4>1. k \in Nat
        BY <1>1
      <4> QED
        BY <4>1 DEF Ids
    <3> HIDE DEF ids, n
    <3> QED
      BY <3>1
  <2>2. u \in Turn
    OBVIOUS
  <2> HIDE DEF u, n, id
  <2> QED
    BY <1>1, <2>1, <2>2, Exchanging
<1>5. /\ tail \in Seq(I) /\ Answered(tail)
      /\ \A s : Count(tail, CallItems(t, s)) = IF s = u THEN n ELSE 0
  <2> HIDE DEF tail, I, n, u
  <2> QED
    BY <1>11 DEF Shows
<1>6. /\ Text(u, role) \in ItemsOf(t, u) /\ head \in Seq(ItemsOf(t, u))
      /\ Answered(head) /\ \A s : Count(head, CallItems(t, s)) = 0
  <2>1. u \in Turn /\ role \in {"user", "assistant"}
    OBVIOUS
  <2> HIDE DEF u, role
  <2> QED
    BY <2>1, Texting
<1>7. tail \in Seq(ItemsOf(t, u))
  <2>1. I \subseteq ItemsOf(t, u)
    BY DEF TalkOf
  <2> HIDE DEF tail, u, I
  <2> QED
    BY <1>5, <2>1
<1>8. CASE provider = "openai"
  <2>1. list = head \o tail
    BY <1>2, <1>4, <1>8 DEF Rendered, OpenAIMessage
  <2> DEFINE S == ItemsOf(t, u)
  <2> HIDE DEF head, tail, S
  <2>2. head \in Seq(S) /\ tail \in Seq(S)
    BY <1>6, <1>7 DEF S
  <2>3. head \o tail \in Seq(S) /\ Answered(head \o tail)
    BY <1>5, <1>6, <2>2, AnsweredBehind
  <2>4. ASSUME NEW s
        PROVE  Count(head \o tail, CallItems(t, s)) = IF s = u THEN n ELSE 0
    <3>1. Count(head \o tail, CallItems(t, s))
            = Count(head, CallItems(t, s)) + Count(tail, CallItems(t, s))
      BY <2>2, CountBehind
    <3> QED
      BY <1>1, <1>5, <1>6, <3>1
  <2>5. /\ Len(head) = 1 /\ Len(tail) \in Nat
        /\ Len(head \o tail) = 1 + Len(tail)
        /\ (head \o tail)[1] = Text(u, role)
    BY <2>2 DEF head
  <2>6. \A j \in 1 .. Len(tail) : tail[j].kind # "text"
    <3> TAKE j \in 1 .. Len(tail)
    <3> HIDE DEF I
    <3>1. tail[j] \in I
      BY <1>5
    <3> QED
      BY <3>1 DEF I, TalkOf
  <2>7. ASSUME NEW j \in 1 .. 1 + Len(tail)
        PROVE  (head \o tail)[j].kind = "text" <=> j = 1
    <3>1. CASE j = 1
      BY <2>5, <3>1 DEF Text
    <3>2. CASE j # 1
      <4>1. j - 1 \in 1 .. Len(tail)
        BY <2>5, <3>2
      <4>2. (head \o tail)[j] = tail[j - 1]
        BY <2>2, <2>5, <4>1
      <4> QED
        BY <2>6, <3>2, <4>1, <4>2
    <3> QED
      BY <3>1, <3>2
  <2> QED
    BY <2>1, <2>3, <2>4, <2>5, <2>7 DEF S, Shows, Begins
<1>9. CASE provider = "gemini" /\ ids = <<>>
  <2>1. list = head
    BY <1>2, <1>9 DEF Rendered, GeminiMessage
  <2>2. n = 0
    <3>1. 1 .. n = {}
      BY <1>3, <1>9
    <3> HIDE DEF n
    <3> QED
      BY <1>1, <3>1
  <2> HIDE DEF list, head, n
  <2> QED
    BY <1>6, <1>9, <2>1, <2>2 DEF list, n, Shows
<1>10. CASE provider = "gemini" /\ ids # <<>>
  <2>1. list = tail
    BY <1>2, <1>4, <1>10 DEF Rendered, GeminiMessage
  <2> HIDE DEF list, tail, n
  <2> QED
    BY <1>7, <1>10, <1>11, <2>1 DEF list, n
<1> QED
  BY <1>8, <1>9, <1>10 DEF Providers

\* A batch of which each call has its result.
LEMMA BatchShown ==
  ASSUME NEW t \in Turn, NEW b \in Nat, told[t][b].calls \in Nat,
         told[t][b].results = told[t][b].calls
  PROVE  /\ BatchItems(t, b) \in Seq(TalkOf(t, t))
         /\ Answered(BatchItems(t, b))
<1> DEFINE n == told[t][b].calls
           id == [k \in 1 .. n |-> <<b, k>>]
<1>1. BatchItems(t, b) = Exchange(t, n, id)
  <2>1. \A k \in 1 .. n : id[k] = <<b, k>>
    OBVIOUS
  <2>2. told[t][b].results = n
    OBVIOUS
  <2> HIDE DEF id
  <2> QED
    BY <2>1, <2>2 DEF BatchItems, Exchange, Items
<1>2. \A k \in 1 .. n : id[k] \in Ids(t)
  BY DEF Ids
<1>3. n \in Nat
  OBVIOUS
<1> HIDE DEF n, id
<1>4. /\ Exchange(t, n, id) \in Seq(TalkOf(t, t))
      /\ Shows(Exchange(t, n, id), t, t, n)
  BY <1>2, <1>3, Exchanging
<1> QED
  BY <1>1, <1>4 DEF Shows

-----------------------------------------------------------------------------
\* The three parts of the list: what was loaded, the question, the batches

Old(provider, t) ==
  [k \in DOMAIN Loaded(t) |-> Rendered(provider, Loaded(t)[k])]
New(t) == [b \in DOMAIN told[t] |-> BatchItems(t, b)]

LEMMA InputParts ==
  ASSUME NEW provider, NEW t
  PROVE  Input(provider, t) = FlattenSeq(Old(provider, t))
           \o <<Text(t, "user")>> \o FlattenSeq(New(t))
  BY DEF Input, Old, New

Batch == [calls : Nat, results : Nat]

\* What a turn has to go by.
Prepared(t) ==
  /\ messages \in Seq(Row)
  /\ memory[t].rows \in Nat /\ memory[t].calls \in Nat
  /\ memory[t].rows <= Len(messages)
  /\ \A i \in 1 .. memory[t].rows : messages[i].turn # t
  /\ told[t] \in Seq(Batch)
  /\ \A b \in 1 .. Len(told[t]) : told[t][b].results = told[t][b].calls

LEMMA Window ==
  ASSUME NEW t, Prepared(t)
  PROVE  /\ Cut(t) \in Nat /\ Cut(t) <= memory[t].rows
         /\ DOMAIN Loaded(t) = 1 .. memory[t].rows - Cut(t)
         /\ \A k \in 1 .. memory[t].rows - Cut(t) :
              /\ Cut(t) + k \in 1 .. memory[t].rows
              /\ Loaded(t)[k] = MemoryMessage(t, Cut(t) + k)
              /\ messages[Cut(t) + k].turn \in Turn \ {t}
              /\ messages[Cut(t) + k].role \in {"user", "assistant"}
<1>1. Cut(t) \in Nat /\ Cut(t) <= memory[t].rows
  BY WindowAssumption DEF Prepared, Cut
<1> DEFINE n == memory[t].rows - Cut(t)
<1>2. n \in Nat
  BY <1>1 DEF Prepared
<1>3. DOMAIN Loaded(t) = 1 .. n
      /\ \A k \in 1 .. n : Loaded(t)[k] = MemoryMessage(t, Cut(t) + k)
  BY DEF Loaded
<1>4. \A k \in 1 .. n : Cut(t) + k \in 1 .. memory[t].rows
  BY <1>1 DEF Prepared
<1>5. \A i \in 1 .. memory[t].rows :
        messages[i].turn \in Turn \ {t}
        /\ messages[i].role \in {"user", "assistant"}
  <2> TAKE i \in 1 .. memory[t].rows
  <2>1. i \in 1 .. Len(messages)
    BY DEF Prepared
  <2>2. messages[i] \in Row
    BY <2>1 DEF Prepared
  <2> QED
    BY <2>2 DEF Row, Prepared
<1> QED
  BY <1>1, <1>3, <1>4, <1>5

\* What was loaded, row by row.
LEMMA OldShown ==
  ASSUME NEW t, Prepared(t), NEW provider \in Providers
  PROVE  /\ Len(Old(provider, t)) = memory[t].rows - Cut(t)
         /\ Old(provider, t) \in Seq(Seq({i \in AnItem(t) : i.turn # t}))
         /\ \A k \in 1 .. Len(Old(provider, t)) :
              LET row == Cut(t) + k
                  list == Old(provider, t)[k]
              IN  /\ Shows(list, t, messages[row].turn, Cardinality(CallsOf(t, row)))
                  /\ provider = "openai" =>
                       Begins(list, Text(messages[row].turn, messages[row].role))
<1> DEFINE n == memory[t].rows - Cut(t)
           S == {i \in AnItem(t) : i.turn # t}
           old == Old(provider, t)
<1>1. n \in Nat /\ DOMAIN Loaded(t) = 1 .. n
  BY Window DEF Prepared
<1>2. old = [k \in 1 .. n |-> Rendered(provider, Loaded(t)[k])]
  BY <1>1 DEF Old
<1> HIDE DEF old
<1>3. ASSUME NEW k \in 1 .. n
      PROVE  LET row == Cut(t) + k
                 list == old[k]
             IN  /\ list \in Seq(S)
                 /\ Shows(list, t, messages[row].turn, Cardinality(CallsOf(t, row)))
                 /\ provider = "openai" =>
                      Begins(list, Text(messages[row].turn, messages[row].role))
  <2> DEFINE row == Cut(t) + k
             u == messages[row].turn
             list == Rendered(provider, MemoryMessage(t, row))
  <2>1. /\ row \in 1 .. memory[t].rows /\ Loaded(t)[k] = MemoryMessage(t, row)
        /\ u \in Turn \ {t} /\ messages[row].role \in {"user", "assistant"}
    BY Window
  <2>2. old[k] = list
    BY <1>2, <2>1
  <2>3. row \in Nat /\ memory[t].calls \in Nat
    BY <2>1 DEF Prepared
  <2> HIDE DEF row
  <2>4. /\ list \in Seq(ItemsOf(t, u))
        /\ Shows(list, t, u, Cardinality(CallsOf(t, row)))
        /\ provider = "openai" => Begins(list, Text(u, messages[row].role))
    BY <2>1, <2>3, Renders
  <2>5. ItemsOf(t, u) \subseteq S
    BY <2>1 DEF ItemsOf
  <2> HIDE DEF list, S
  <2>6. list \in Seq(S)
    BY <2>4, <2>5
  <2> QED
    BY <2>2, <2>4, <2>6 DEF row
<1>4. Len(old) = n /\ old \in Seq(Seq(S))
  <2>1. \A k \in 1 .. n : old[k] \in Seq(S)
    BY <1>3
  <2> HIDE DEF S, n
  <2> QED
    BY <1>1, <1>2, <2>1
<1> QED
  BY <1>3, <1>4 DEF old

LEMMA NewShown ==
  ASSUME NEW t \in Turn, Prepared(t)
  PROVE  /\ FlattenSeq(New(t)) \in Seq(TalkOf(t, t))
         /\ Answered(FlattenSeq(New(t)))
<1> DEFINE n == Len(told[t])
           S == TalkOf(t, t)
<1>1. n \in Nat /\ DOMAIN told[t] = 1 .. n
  BY DEF Prepared
<1>2. New(t) = [b \in 1 .. n |-> BatchItems(t, b)]
  BY <1>1 DEF New
<1>3. ASSUME NEW b \in 1 .. n
      PROVE  BatchItems(t, b) \in Seq(S) /\ Answered(BatchItems(t, b))
  <2>1. told[t][b] \in Batch /\ told[t][b].results = told[t][b].calls
    BY DEF Prepared
  <2>2. told[t][b].calls \in Nat /\ b \in Nat
    BY <1>1, <2>1 DEF Batch
  <2> QED
    BY <2>1, <2>2, BatchShown
<1> HIDE DEF n, S
<1>4. /\ New(t) \in Seq(Seq(S)) /\ Len(New(t)) = n
      /\ \A b \in 1 .. n : New(t)[b] = BatchItems(t, b)
  BY <1>1, <1>2, <1>3
<1>5. FlattenSeq(New(t)) \in Seq(S)
  BY <1>4, FlattenType
<1>6. \A b \in 1 .. Len(New(t)) : Answered(New(t)[b])
  BY <1>3, <1>4
<1>7. Answered(FlattenSeq(New(t)))
  BY <1>4, <1>6, AnsweredJoined
<1> QED
  BY <1>5, <1>7 DEF S

\* The list and its three parts, each with the items it is made of.
LEMMA Parts ==
  ASSUME NEW t \in Turn, Prepared(t), NEW provider \in Providers
  PROVE  \E a \in Seq({i \in AnItem(t) : i.turn # t}), b \in Seq(TalkOf(t, t)) :
           /\ a = FlattenSeq(Old(provider, t))
           /\ Input(provider, t) = a \o <<Text(t, "user")>> \o b
           /\ Answered(a) /\ Answered(b)
<1> DEFINE S == {i \in AnItem(t) : i.turn # t}
<1> HIDE DEF S
<1>1. /\ Old(provider, t) \in Seq(Seq(S))
      /\ \A k \in 1 .. Len(Old(provider, t)) : Answered(Old(provider, t)[k])
  BY OldShown DEF S, Shows
<1>2. FlattenSeq(Old(provider, t)) \in Seq(S)
  BY <1>1, FlattenType
<1>3. Answered(FlattenSeq(Old(provider, t)))
  BY <1>1, AnsweredJoined
<1> QED
  BY <1>2, <1>3, NewShown, InputParts DEF S

\* The item that is alone behind those of other turns, before those of t.
Alone(input, t, question) ==
  /\ \A k \in 1 .. question - 1 : input[k].turn # t
  /\ \A k \in question + 1 .. Len(input) :
       input[k].turn = t /\ input[k].kind # "text"

LEMMA QuestionOnce ==
  ASSUME NEW t \in Turn, Prepared(t), NEW provider \in Providers
  PROVE  \E question \in DOMAIN Input(provider, t) :
           /\ Input(provider, t)[question] = Text(t, "user")
           /\ Alone(Input(provider, t), t, question)
<1> DEFINE q == Text(t, "user")
<1>1. PICK a \in Seq({i \in AnItem(t) : i.turn # t}), b \in Seq(TalkOf(t, t)) :
        Input(provider, t) = a \o <<q>> \o b
  BY Parts
<1> DEFINE n == Len(a)
           m == Len(b)
           input == Input(provider, t)
           S == AnItem(t) \cup {q}
<1> HIDE DEF q
<1>2. a \in Seq(S) /\ b \in Seq(S) /\ <<q>> \in Seq(S)
  <2>1. {i \in AnItem(t) : i.turn # t} \subseteq S /\ TalkOf(t, t) \subseteq S
    BY DEF TalkOf, ItemsOf
  <2> QED
    BY <2>1
<1>3. \A k \in 1 .. n : a[k].turn # t
  <2> TAKE k \in 1 .. n
  <2>1. a[k] \in {i \in AnItem(t) : i.turn # t}
    OBVIOUS
  <2> QED
    BY <2>1
<1>4. \A k \in 1 .. m : b[k].turn = t /\ b[k].kind # "text"
  <2> TAKE k \in 1 .. m
  <2>1. b[k] \in TalkOf(t, t)
    OBVIOUS
  <2> QED
    BY <2>1 DEF TalkOf, ItemsOf
<1>5. n \in Nat /\ m \in Nat /\ Len(<<q>>) = 1 /\ <<q>>[1] = q
  BY <1>2
<1> HIDE DEF S, n, m, input
<1>6. Len(input) = n + 1 + m /\ DOMAIN input = 1 .. n + 1 + m
  BY <1>1, <1>2, <1>5 DEF n, m, input
<1>7. /\ \A k \in 1 .. n : input[k] = a[k]
      /\ input[n + 1] = q
  BY <1>1, <1>2, <1>5 DEF n, m, input
<1>8. \A k \in 1 .. m : input[n + 1 + k] = b[k]
  <2> DEFINE c == a \o <<q>>
  <2>1. c \in Seq(S) /\ Len(c) = n + 1
    BY <1>2, <1>5 DEF n
  <2> HIDE DEF c
  <2>2. \A k \in 1 .. Len(b) : (c \o b)[Len(c) + k] = b[k]
    BY <1>2, <2>1
  <2> QED
    BY <1>1, <2>1, <2>2 DEF c, m, input
<1>9. ASSUME NEW k \in n + 2 .. n + 1 + m
      PROVE  input[k].turn = t /\ input[k].kind # "text"
  <2>1. k - (n + 1) \in 1 .. m /\ n + 1 + (k - (n + 1)) = k
    BY <1>5
  <2>2. input[k] = b[k - (n + 1)]
    BY <1>8, <2>1
  <2> QED
    BY <1>4, <2>1, <2>2
<1>10. n + 1 \in DOMAIN input /\ Alone(input, t, n + 1)
  BY <1>3, <1>5, <1>6, <1>7, <1>9 DEF Alone
<1> QED
  BY <1>7, <1>10 DEF q, input

LEMMA AllAnswered ==
  ASSUME NEW t \in Turn, Prepared(t), NEW provider \in Providers
  PROVE  Answered(Input(provider, t)) /\ Input(provider, t) \in Seq(AnItem(t))
<1> DEFINE q == <<Text(t, "user")>>
           S == AnItem(t)
<1>1. PICK a \in Seq({i \in AnItem(t) : i.turn # t}), b \in Seq(TalkOf(t, t)) :
        /\ Input(provider, t) = a \o q \o b
        /\ Answered(a) /\ Answered(b)
  BY Parts
<1>2. a \in Seq(S) /\ b \in Seq(S)
  <2>1. {i \in AnItem(t) : i.turn # t} \subseteq S /\ TalkOf(t, t) \subseteq S
    BY DEF TalkOf, ItemsOf
  <2> QED
    BY <2>1
<1>3. q \in Seq(S) /\ Answered(q)
  <2>1. q \in Seq(ItemsOf(t, t)) /\ Answered(q)
    BY Texting
  <2>2. ItemsOf(t, t) \subseteq S
    BY DEF ItemsOf
  <2> HIDE DEF q, S
  <2> QED
    BY <2>1, <2>2
<1> HIDE DEF q, S
<1>4. a \o q \in Seq(S) /\ Answered(a \o q)
  BY <1>1, <1>2, <1>3, AnsweredBehind
<1>5. a \o q \o b \in Seq(S) /\ Answered(a \o q \o b)
  <2> DEFINE c == a \o q
  <2> HIDE DEF c
  <2>1. c \in Seq(S) /\ Answered(c)
    BY <1>4 DEF c
  <2>2. c \o b \in Seq(S) /\ Answered(c \o b)
    BY <1>1, <1>2, <2>1, AnsweredBehind
  <2> QED
    BY <2>2 DEF c
<1> QED
  BY <1>1, <1>5 DEF S

LEMMA TextKind ==
  ASSUME NEW t, NEW i \in AnItem(t)
  PROVE  i.kind = "text" <=> i \in TextItems
  BY DEF AnItem, TextItems

\* Lists of one set put together, as facts about all of them.
LEMMA Behind ==
  ASSUME NEW S, NEW T
  PROVE  \A x, y \in Seq(S) :
           /\ x \o y \in Seq(S) /\ Len(x \o y) = Len(x) + Len(y)
           /\ Len(x) \in Nat
           /\ \A i \in 1 .. Len(x) : (x \o y)[i] = x[i]
           /\ \A i \in 0 .. Len(x) : Upto(x \o y, i, T) = Upto(x, i, T)
<1> TAKE x, y \in Seq(S)
<1>1. /\ \A c \in 0 .. Len(x) : Upto(x \o y, c, T) = Upto(x, c, T)
      /\ \A c \in 0 .. Len(y) :
           Upto(x \o y, Len(x) + c, T) = Count(x, T) + Upto(y, c, T)
  BY UptoBehind
<1> QED
  BY <1>1

\* The window: its rows in their order are the texts of the history.
LEMMA WindowShown ==
  ASSUME NEW t \in Turn, Prepared(t)
  PROVE  LET input == Input("openai", t)
             n == memory[t].rows - Cut(t)
         IN  /\ Texts(input, Len(input)) = n + 1
             /\ \A k \in DOMAIN input :
                  LET nth == Texts(input, k) IN
                  input[k].kind = "text" /\ nth <= n =>
                    /\ nth \in 1 .. n
                    /\ input[k] = Text(messages[Cut(t) + nth].turn,
                                       messages[Cut(t) + nth].role)
<1> DEFINE n == memory[t].rows - Cut(t)
           S == AnItem(t)
           T == TextItems
           q == <<Text(t, "user")>>
           seqs == Old("openai", t)
           a == FlattenSeq(seqs)
           input == Input("openai", t)
           RowText(row) == Text(messages[row].turn, messages[row].role)
<1>19. \A x, y \in Seq(S) :
         /\ x \o y \in Seq(S) /\ Len(x \o y) = Len(x) + Len(y)
         /\ Len(x) \in Nat
         /\ \A i \in 1 .. Len(x) : (x \o y)[i] = x[i]
         /\ \A i \in 0 .. Len(x) : Upto(x \o y, i, T) = Upto(x, i, T)
  BY Behind, Zenon
<1>1. n \in Nat
  BY Window DEF Prepared
<1>2. "openai" \in Providers
  BY DEF Providers
<1>3. PICK b \in Seq(TalkOf(t, t)) : input = a \o q \o b
  BY <1>2, Parts
<1>4. /\ Len(seqs) = n /\ seqs \in Seq(Seq(S))
      /\ \A k \in 1 .. n :
           /\ Len(seqs[k]) > 0
           /\ seqs[k][1] = RowText(Cut(t) + k)
           /\ \A j \in 1 .. Len(seqs[k]) : seqs[k][j].kind = "text" <=> j = 1
  <2>1. Len(seqs) = n
    BY <1>2, OldShown
  <2>2. seqs \in Seq(Seq({i \in S : i.turn # t}))
    BY <1>2, OldShown
  <2>3. \A k \in 1 .. n :
           /\ Len(seqs[k]) > 0
           /\ seqs[k][1] = RowText(Cut(t) + k)
           /\ \A j \in 1 .. Len(seqs[k]) : seqs[k][j].kind = "text" <=> j = 1
    <3>1. \A k \in 1 .. Len(seqs) : Begins(seqs[k], RowText(Cut(t) + k))
      BY <1>2, OldShown
    <3> HIDE DEF seqs, RowText, n
    <3> QED
      BY <2>1, <3>1 DEF Begins
  <2>4. seqs \in Seq(Seq(S))
    <3>1. Seq({i \in S : i.turn # t}) \subseteq Seq(S)
      OBVIOUS
    <3> DEFINE X == Seq({i \in S : i.turn # t})
               Y == Seq(S)
    <3> HIDE DEF seqs, X, Y
    <3>2. seqs \in Seq(X) /\ X \subseteq Y
      BY <2>2, <3>1 DEF X, Y
    <3>3. seqs \in Seq(Y)
      BY <3>2
    <3> QED
      BY <3>3 DEF Y
  <2> QED
    BY <2>1, <2>3, <2>4
<1> HIDE DEF seqs, S, RowText, n
<1>5. \A k \in 1 .. n : \A j \in 1 .. Len(seqs[k]) : seqs[k][j] \in T <=> j = 1
  <2> TAKE k \in 1 .. n
  <2> TAKE j \in 1 .. Len(seqs[k])
  <2>1. seqs[k] \in Seq(S)
    BY <1>4
  <2>2. seqs[k][j] \in S
    BY <2>1
  <2>3. seqs[k][j].kind = "text" <=> seqs[k][j] \in TextItems
    BY <2>2, TextKind DEF S
  <2> QED
    BY <1>4, <2>3
<1>0. a \in Seq(S)
  BY <1>4, FlattenType
<1>6. /\ Count(a, T) = n
      /\ \A m \in 1 .. Len(a) : a[m] \in T =>
           /\ Upto(a, m, T) \in 1 .. n
           /\ a[m] = seqs[Upto(a, m, T)][1]
  <2> HIDE DEF T
  <2>1. Heads(seqs, T)
    BY <1>4, <1>5 DEF Heads
  <2>2. Len(seqs) = n /\ seqs \in Seq(Seq(S))
    BY <1>4
  <2>3. Numbered(a, seqs, T)
    BY <2>1, <2>2, Headed
  <2> HIDE DEF a
  <2> QED
    BY <2>2, <2>3 DEF Numbered
<1>7. /\ q \in Seq(S) /\ q \in Seq(T) /\ Len(q) = 1
  <2>1. Text(t, "user") \in ItemsOf(t, t) /\ Text(t, "user") \in T
    BY Texting
  <2>2. Text(t, "user") \in S
    BY <2>1 DEF ItemsOf, S
  <2> HIDE DEF T
  <2> QED
    BY <2>1, <2>2
<1>8. b \in Seq(S) /\ Count(b, T) = 0
  <2>1. TalkOf(t, t) \subseteq S /\ TalkOf(t, t) \cap T = {}
    BY DEF TalkOf, ItemsOf, S, TextItems
  <2> HIDE DEF T
  <2>2. b \in Seq(S)
    BY <2>1
  <2>3. Count(b, T) = 0
    BY <2>1, NoneCounted
  <2> QED
    BY <2>2, <2>3
<1> DEFINE c == a \o q
<1> HIDE DEF T, q, a
<1>9. Count(q, T) = 1
  BY <1>7, AllCounted
<1>10. c \in Seq(S) /\ Len(c) = Len(a) + 1 /\ Len(a) \in Nat /\ Len(b) \in Nat
  <2>1. b \in Seq(S) /\ q \in Seq(S) /\ Len(q) = 1
    BY <1>7, <1>8
  <2> QED
    BY <1>0, <1>19, <2>1 DEF c
<1>11. Count(c, T) = n + 1
  <2>1. Count(a \o q, T) = Count(a, T) + Count(q, T)
    BY <1>0, <1>7, CountBehind
  <2> QED
    BY <1>6, <1>9, <2>1
<1> HIDE DEF c
<1>12. input = c \o b
  BY <1>3 DEF c
<1> HIDE DEF input
<1>13. Count(input, T) = n + 1
  <2>1. Count(c \o b, T) = Count(c, T) + Count(b, T)
    BY <1>8, <1>10, CountBehind
  <2> QED
    BY <1>1, <1>8, <1>11, <1>12, <2>1
<1>14. input \in Seq(S) /\ Len(input) = Len(a) + 1 + Len(b)
  <2>1. b \in Seq(S)
    BY <1>8
  <2>2. c \o b \in Seq(S) /\ Len(c \o b) = Len(c) + Len(b)
    BY <1>10, <2>1
  <2> QED
    BY <1>10, <1>12, <2>2
<1>15. \A m \in 0 .. Len(input) : Texts(input, m) = Upto(input, m, T)
  <2> TAKE m \in 0 .. Len(input)
  <2>1. \A k \in 1 .. m : input[k].kind = "text" <=> input[k] \in T
    <3> TAKE k \in 1 .. m
    <3>1. k \in 1 .. Len(input)
      BY <1>10, <1>14
    <3>2. input[k] \in S
      BY <1>14, <3>1
    <3> QED
      BY <3>2, TextKind DEF S, T
  <2>2. {k \in 1 .. m : input[k].kind = "text"} = {k \in 1 .. m : input[k] \in T}
    BY <2>1
  <2> QED
    BY <2>2 DEF Texts, Upto
<1>16. Texts(input, Len(input)) = n + 1
  BY <1>10, <1>13, <1>14, <1>15 DEF Count
<1>17. ASSUME NEW k \in 1 .. Len(input), input[k].kind = "text",
              Texts(input, k) <= n
       PROVE  /\ Texts(input, k) \in 1 .. n
              /\ input[k] = RowText(Cut(t) + Texts(input, k))
  <2>1. Texts(input, k) = Upto(input, k, T)
    BY <1>10, <1>14, <1>15
  <2>2. \A m \in 0 .. Len(c) : Upto(input, m, T) = Upto(c, m, T)
    <3>1. \A m \in 0 .. Len(c) : Upto(c \o b, m, T) = Upto(c, m, T)
      BY <1>8, <1>10, <1>19
    <3> QED
      BY <1>12, <3>1
  <2>3. k \in 1 .. Len(c)
    <3>1. ASSUME k \notin 1 .. Len(c) PROVE FALSE
      <4>1. k - Len(c) \in 1 .. Len(b) /\ Len(c) + (k - Len(c)) = k
        BY <1>10, <1>14, <3>1
      <4>2. \A m \in 1 .. Len(b) : (c \o b)[Len(c) + m] = b[m]
        BY <1>8, <1>10
      <4>3. input[k] = b[k - Len(c)]
        BY <1>12, <4>1, <4>2
      <4>4. b[k - Len(c)] \in TalkOf(t, t)
        BY <4>1
      <4> QED
        BY <1>17, <4>3, <4>4 DEF TalkOf
    <3> QED
      BY <3>1
  <2>4. k # Len(a) + 1
    <3>1. ASSUME k = Len(a) + 1 PROVE FALSE
      <4>1. Upto(input, k, T) = Upto(c, Len(c), T)
        BY <1>10, <2>2, <3>1
      <4>2. Upto(input, k, T) = n + 1
        BY <1>11, <4>1 DEF Count
      <4> QED
        BY <1>1, <1>17, <2>1, <4>2
    <3> QED
      BY <3>1
  <2>5. k \in 1 .. Len(a)
    BY <1>10, <2>3, <2>4
  <2>6. Upto(input, k, T) = Upto(a, k, T)
    <3>1. \A m \in 0 .. Len(a) : Upto(c, m, T) = Upto(a, m, T)
      BY <1>0, <1>7, <1>19 DEF c
    <3>2. k \in 0 .. Len(a) /\ k \in 0 .. Len(c)
      BY <1>10, <2>3, <2>5
    <3> QED
      BY <2>2, <3>1, <3>2
  <2>7. input[k] = a[k]
    <3>1. input[k] = c[k]
      BY <1>8, <1>10, <1>12, <2>3
    <3>2. c[k] = a[k]
      BY <1>0, <1>7, <2>5 DEF c
    <3> QED
      BY <3>1, <3>2
  <2>8. a[k] \in T
    <3>1. a[k] \in S
      BY <1>0, <2>5
    <3> QED
      BY <1>17, <2>7, <3>1, TextKind DEF S, T
  <2>9. Upto(a, k, T) \in 1 .. n /\ a[k] = seqs[Upto(a, k, T)][1]
    BY <1>6, <2>5, <2>8
  <2> QED
    BY <1>4, <2>1, <2>6, <2>7, <2>9
<1>18. DOMAIN input = 1 .. Len(input)
  BY <1>14
<1> QED
  BY <1>16, <1>17, <1>18 DEF n, input, RowText

LEMMA CallKind ==
  ASSUME NEW t, NEW i \in AnItem(t), NEW s \in Turn
  PROVE  i.kind = "call" /\ i.turn = s <=> i \in CallItems(t, s)
<1>1. CASE i \in TextItems
  BY <1>1 DEF CallItems, ItemSet, TextItems
<1>2. CASE i \in [kind : {"call", "answer"}, turn : Turn, id : Ids(t)]
  BY <1>2 DEF CallItems, ItemSet
<1> QED
  BY <1>1, <1>2 DEF AnItem

\* The calls that came with the rows of a turn, and are linked to them.
Linked(t) ==
  \A c \in 1 .. memory[t].calls :
    /\ toolCalls[c].message \in 1 .. memory[t].rows
    /\ messages[toolCalls[c].message].turn = toolCalls[c].turn

\* The calls of turn s linked to one of the first rows.
CallsTo(t, s, row) ==
  {c \in 1 .. memory[t].calls :
     toolCalls[c].turn = s /\ toolCalls[c].message <= row}

LEMMA CallsToFinite ==
  ASSUME NEW t, memory[t].calls \in Nat, NEW s, NEW row
  PROVE  IsFiniteSet(CallsTo(t, s, row)) /\ Cardinality(CallsTo(t, s, row)) \in Nat
<1>1. IsFiniteSet(1 .. memory[t].calls)
  BY FS_Interval
<1>2. IsFiniteSet(CallsTo(t, s, row))
  BY <1>1, FS_Subset DEF CallsTo
<1> QED
  BY <1>2, FS_CardinalityType

\* One row more: with its calls if it is one of the turn.
LEMMA CallsToNext ==
  ASSUME NEW t, Prepared(t), Linked(t), NEW s, NEW row \in Nat
  PROVE  Cardinality(CallsTo(t, s, row + 1)) =
           Cardinality(CallsTo(t, s, row)) +
             (IF s = messages[row + 1].turn
              THEN Cardinality(CallsOf(t, row + 1)) ELSE 0)
<1> DEFINE C == 1 .. memory[t].calls
<1>1. /\ IsFiniteSet(CallsTo(t, s, row)) /\ Cardinality(CallsTo(t, s, row)) \in Nat
      /\ IsFiniteSet(CallsOf(t, row + 1)) /\ memory[t].calls \in Nat
  <2>1. memory[t].calls \in Nat
    BY DEF Prepared
  <2>2. IsFiniteSet(C)
    <3> DEFINE n == memory[t].calls
    <3>1. n \in Nat
      BY <2>1
    <3> HIDE DEF n
    <3>2. IsFiniteSet(1 .. n)
      BY <3>1, FS_Interval
    <3> QED
      BY <3>2 DEF n
  <2>3. IsFiniteSet(CallsOf(t, row + 1))
    <3>1. CallsOf(t, row + 1) \subseteq C
      BY DEF CallsOf
    <3> HIDE DEF C
    <3> QED
      BY <2>2, <3>1, FS_Subset
  <2> QED
    BY <2>1, <2>3, CallsToFinite
<1>2. \A c \in C : toolCalls[c].message \in Nat
  BY DEF Linked, Prepared
<1>3. \A c \in C : toolCalls[c].message <= row + 1
                     <=> toolCalls[c].message <= row \/ toolCalls[c].message = row + 1
  <2> TAKE c \in C
  <2>1. toolCalls[c].message \in Nat
    BY <1>2
  <2> QED
    BY <2>1
<1>4. CASE s = messages[row + 1].turn
  <2>1. \A c \in CallsOf(t, row + 1) : toolCalls[c].turn = s
    BY <1>4 DEF CallsOf, Linked
  <2>2. CallsTo(t, s, row + 1) = CallsTo(t, s, row) \cup CallsOf(t, row + 1)
    BY <1>3, <2>1 DEF CallsTo, CallsOf
  <2>3. CallsTo(t, s, row) \cap CallsOf(t, row + 1) = {}
    <3>1. ~ (row + 1 <= row)
      OBVIOUS
    <3> QED
      BY <3>1 DEF CallsTo, CallsOf
  <2> DEFINE A == CallsTo(t, s, row)
             B == CallsOf(t, row + 1)
  <2> HIDE DEF A, B
  <2>4. Cardinality(A \cup B) = Cardinality(A) + Cardinality(B)
    <3>1. IsFiniteSet(A) /\ IsFiniteSet(B) /\ A \cap B = {}
      BY <1>1, <2>3 DEF A, B
    <3>2. Cardinality(A \cap B) = 0
      BY <3>1, FS_EmptySet
    <3>3. Cardinality(A) \in Nat /\ Cardinality(B) \in Nat
      BY <3>1, FS_CardinalityType
    <3>4. Cardinality(A \cup B)
            = Cardinality(A) + Cardinality(B) - Cardinality(A \cap B)
      BY <3>1, FS_Union
    <3> QED
      BY <3>2, <3>3, <3>4
  <2> QED
    BY <1>4, <2>2, <2>4 DEF A, B
<1>5. CASE s # messages[row + 1].turn
  <2>1. \A c \in C : toolCalls[c].turn = s => toolCalls[c].message # row + 1
    BY <1>5 DEF Linked
  <2>2. CallsTo(t, s, row + 1) = CallsTo(t, s, row)
    BY <1>3, <2>1 DEF CallsTo
  <2> QED
    BY <1>1, <1>5, <2>2
<1> QED
  BY <1>4, <1>5

\* The calls shown of a turn whose rows are all in the window are those that
\* were read.
LEMMA CallsShown ==
  ASSUME NEW t \in Turn, Prepared(t), Linked(t), NEW provider \in Providers,
         NEW s \in Turn \ {t},
         \A row \in 1 .. Cut(t) : messages[row].turn # s
  PROVE  Number(Input(provider, t), "call", s) =
           Cardinality({c \in 1 .. memory[t].calls : toolCalls[c].turn = s})
<1> DEFINE rows == memory[t].rows
           cut == Cut(t)
           n == rows - cut
           T == CallItems(t, s)
           S == AnItem(t)
           seqs == Old(provider, t)
           a == FlattenSeq(seqs)
           q == <<Text(t, "user")>>
           g == [k \in Nat |-> Cardinality(CallsTo(t, s, cut + k))]
<1>1. cut \in Nat /\ rows \in Nat /\ cut <= rows /\ memory[t].calls \in Nat
  BY Window DEF Prepared
<1>2. n \in Nat
  BY <1>1
<1>3. g \in [Nat -> Nat]
  BY <1>1, CallsToFinite
<1>4. g[0] = 0
  <2>1. \A c \in 1 .. memory[t].calls : toolCalls[c].turn = s =>
          ~ (toolCalls[c].message <= cut)
    <3> TAKE c \in 1 .. memory[t].calls
    <3>1. /\ toolCalls[c].message \in 1 .. rows
          /\ messages[toolCalls[c].message].turn = toolCalls[c].turn
      BY DEF Linked
    <3>2. toolCalls[c].message <= cut => toolCalls[c].message \in 1 .. cut
      BY <1>1, <3>1
    <3> QED
      BY <3>1, <3>2
  <2>2. CallsTo(t, s, cut) = {}
    BY <2>1 DEF CallsTo
  <2>3. cut + 0 = cut
    BY <1>1
  <2> HIDE DEF cut
  <2> QED
    BY <2>2, <2>3, FS_EmptySet DEF cut
<1>5. /\ Len(seqs) = n /\ seqs \in Seq(Seq({i \in S : i.turn # t}))
      /\ \A k \in 1 .. n : Count(seqs[k], T) =
           IF s = messages[cut + k].turn
           THEN Cardinality(CallsOf(t, cut + k)) ELSE 0
  <2>1. Len(seqs) = n /\ seqs \in Seq(Seq({i \in S : i.turn # t}))
    BY OldShown
  <2>2. ASSUME NEW k \in 1 .. n
        PROVE  Count(seqs[k], T) = IF s = messages[cut + k].turn
                                   THEN Cardinality(CallsOf(t, cut + k)) ELSE 0
    <3> HIDE DEF n
    <3>1. k \in 1 .. Len(seqs)
      BY <2>1
    <3>2. Shows(seqs[k], t, messages[cut + k].turn,
                Cardinality(CallsOf(t, cut + k)))
      BY <3>1, OldShown
    <3> HIDE DEF seqs, cut
    <3> QED
      BY <3>2 DEF Shows
  <2> QED
    BY <2>1, <2>2
<1> HIDE DEF seqs, cut, n, T
<1>6. \A k \in Nat : k < Len(seqs) => g[k + 1] = g[k] + Count(seqs[k + 1], T)
  <2> SUFFICES ASSUME NEW k \in Nat, k < n
               PROVE  g[k + 1] = g[k] + Count(seqs[k + 1], T)
    BY <1>5
  <2>1. k + 1 \in 1 .. n /\ k + 1 \in Nat /\ cut + k \in Nat
        /\ cut + (k + 1) = cut + k + 1
    BY <1>1, <1>2
  <2>2. Cardinality(CallsTo(t, s, cut + k + 1)) =
          Cardinality(CallsTo(t, s, cut + k)) +
            (IF s = messages[cut + k + 1].turn
             THEN Cardinality(CallsOf(t, cut + k + 1)) ELSE 0)
    <3> DEFINE row == cut + k
    <3> HIDE DEF row
    <3>1. row \in Nat
      BY <2>1 DEF row
    <3>2. Cardinality(CallsTo(t, s, row + 1)) =
            Cardinality(CallsTo(t, s, row)) +
              (IF s = messages[row + 1].turn
               THEN Cardinality(CallsOf(t, row + 1)) ELSE 0)
      BY <3>1, CallsToNext
    <3> QED
      BY <3>2 DEF row
  <2>3. Count(seqs[k + 1], T) = IF s = messages[cut + k + 1].turn
                                THEN Cardinality(CallsOf(t, cut + k + 1)) ELSE 0
    <3>1. Count(seqs[k + 1], T) =
            IF s = messages[cut + (k + 1)].turn
            THEN Cardinality(CallsOf(t, cut + (k + 1))) ELSE 0
      BY <1>5, <2>1
    <3> QED
      BY <2>1, <3>1
  <2>4. g[k + 1] = Cardinality(CallsTo(t, s, cut + k + 1))
    BY <2>1
  <2>5. g[k] = Cardinality(CallsTo(t, s, cut + k))
    OBVIOUS
  <2> HIDE DEF g
  <2> QED
    BY <2>2, <2>3, <2>4, <2>5
<1>7. Count(a, T) = g[n]
  <2> DEFINE X == {i \in S : i.turn # t}
  <2> HIDE DEF g, X
  <2>1. seqs \in Seq(Seq(X))
    BY <1>5 DEF X
  <2>2. Count(FlattenSeq(seqs), T) = g[Len(seqs)]
    BY <1>3, <1>4, <1>6, <2>1, CountJoined
  <2> QED
    BY <1>5, <2>2
<1>8. g[n] = Cardinality({c \in 1 .. memory[t].calls : toolCalls[c].turn = s})
  <2>1. cut + n = rows
    BY <1>1 DEF n
  <2>2. \A c \in 1 .. memory[t].calls : toolCalls[c].message <= rows
    BY <1>1 DEF Linked
  <2>3. CallsTo(t, s, rows) = {c \in 1 .. memory[t].calls : toolCalls[c].turn = s}
    BY <2>2 DEF CallsTo
  <2>4. g[n] = Cardinality(CallsTo(t, s, cut + n))
    BY <1>2
  <2> QED
    BY <2>1, <2>3, <2>4
<1>9. PICK x \in Seq({i \in S : i.turn # t}), b \in Seq(TalkOf(t, t)) :
        x = a /\ Input(provider, t) = x \o q \o b
  BY Parts DEF seqs
<1>10. Count(Input(provider, t), T) = Count(a, T)
  <2> DEFINE c == x \o q
  <2>0. \A y, z \in Seq(S) :
          /\ Count(y \o z, T) = Count(y, T) + Count(z, T)
          /\ Count(y, T) \in Nat /\ y \o z \in Seq(S)
    <3> TAKE y, z \in Seq(S)
    <3>1. /\ Count(y \o z, T) = Count(y, T) + Count(z, T)
          /\ Count(y, T) \in Nat /\ Count(z, T) \in Nat
      BY CountBehind
    <3> QED
      BY <3>1
  <2>1. x \in Seq(S) /\ b \in Seq(S)
    <3>1. {i \in S : i.turn # t} \subseteq S /\ TalkOf(t, t) \subseteq S
      BY DEF TalkOf, ItemsOf
    <3> HIDE DEF S
    <3> QED
      BY <3>1
  <2>2. q \in Seq(S) /\ Count(q, T) = 0
    <3>1. q \in Seq(ItemsOf(t, t)) /\ Count(q, T) = 0
      BY Texting DEF T
    <3>2. ItemsOf(t, t) \subseteq S
      BY DEF ItemsOf
    <3> HIDE DEF q, S
    <3> QED
      BY <3>1, <3>2
  <2>3. Count(b, T) = 0
    <3>1. TalkOf(t, t) \cap T = {}
      BY DEF TalkOf, ItemsOf, T, CallItems, ItemSet
    <3> QED
      BY <3>1, NoneCounted
  <2> HIDE DEF q, c, S
  <2>4. c \in Seq(S) /\ Count(c, T) = Count(x, T) /\ Count(x, T) \in Nat
    BY <2>0, <2>1, <2>2 DEF c
  <2>5. Count(c \o b, T) = Count(c, T) + Count(b, T)
    BY <2>0, <2>1, <2>4
  <2> QED
    BY <1>9, <2>3, <2>4, <2>5 DEF c
<1>11. Number(Input(provider, t), "call", s) = Count(Input(provider, t), T)
  <2> DEFINE input == Input(provider, t)
  <2>1. input \in Seq(S)
    BY AllAnswered
  <2> HIDE DEF input
  <2>2. \A k \in 1 .. Len(input) : input[k].kind = "call" /\ input[k].turn = s
                                     <=> input[k] \in T
    <3> TAKE k \in 1 .. Len(input)
    <3>1. input[k] \in S
      <4> HIDE DEF S
      <4> QED
        BY <2>1
    <3> QED
      BY <3>1, CallKind DEF T
  <2>3. DOMAIN input = 1 .. Len(input)
    BY <2>1
  <2>4. {k \in DOMAIN input : input[k].kind = "call" /\ input[k].turn = s}
          = {k \in 1 .. Len(input) : input[k] \in T}
    BY <2>2, <2>3
  <2> QED
    BY <2>4 DEF Number, Count, Upto, input
<1> QED
  BY <1>7, <1>8, <1>10, <1>11

-----------------------------------------------------------------------------
\* What the turns have read and were told

\* Neither the question of the turn has been saved, nor anything else.
Unasked == Before \ {"provider"}
Calling == {"execute", "saveCall", "logFailure"}
Late == {"logTurn", "stats", "finish", "done", "cut"}

\* What a turn has read: rows none of which is its own, calls of these rows,
\* and all the calls of the turns that were done.
Read(t) ==
  /\ memory[t].rows <= Len(messages)
  /\ memory[t].calls <= Len(toolCalls)
  /\ \A i \in 1 .. memory[t].rows : messages[i].turn # t
  /\ \A c \in 1 .. memory[t].calls : toolCalls[c].message <= memory[t].rows
  /\ \A s \in memory[t].ended :
       pc[s] = "done" /\ \A c \in RowsOf(s) : c <= memory[t].calls

\* Each batch but the one at hand has a result for each of its calls.
Batched(t) ==
  /\ \A b \in 1 .. Len(told[t]) :
       pc[t] \notin Lost /\ (b < Len(told[t]) \/ pc[t] \notin Calling) =>
         told[t][b].results = told[t][b].calls
  /\ pc[t] \in Calling =>
       LET n == Len(told[t]) IN
       /\ n > 0
       /\ told[t][n].calls = loc[t].calls
       /\ told[t][n].results = loc[t].ran + (IF pc[t] = "execute" THEN 0 ELSE 1)

\* While no statement fails, each result the provider was told of has its row.
Results(batches) ==
  SumFunctionOnSet([b \in DOMAIN batches |-> batches[b].results],
                   1 .. Len(batches))
Listed(t) ==
  pc[t] \notin Lost =>
    Results(told[t]) =
      Cardinality(RowsOf(t)) + (IF pc[t] = "saveCall" THEN 1 ELSE 0)

HistoryTypes ==
  /\ memory \in [Turn -> [rows : Nat, calls : Nat, ended : SUBSET Turn]]
  /\ told \in [Turn -> Seq(Batch)]

Remembered(t) ==
  /\ pc[t] \in Unasked => \A i \in 1 .. Len(messages) : messages[i].turn # t
  /\ tasks[t] > 0 => pc[t] \in Late
  /\ Read(t)

HistoryInv ==
  /\ HistoryTypes
  /\ \A t \in Turn : Remembered(t) /\ Batched(t)
  /\ faults = 0 => \A t \in Turn : Listed(t)

\* Batches: one more, and one more result in the last one.
LEMMA BatchAdded ==
  ASSUME NEW q \in Seq(Batch), NEW n \in Nat
  PROVE  LET r == Append(q, [calls |-> n, results |-> 0])
         IN  /\ r \in Seq(Batch) /\ Len(r) = Len(q) + 1
             /\ \A b \in 1 .. Len(q) : r[b] = q[b]
             /\ r[Len(q) + 1] = [calls |-> n, results |-> 0]
             /\ Results(r) = Results(q)
<1> DEFINE x == [calls |-> n, results |-> 0]
           r == Append(q, x)
           m == Len(q)
           f == [b \in DOMAIN q |-> q[b].results]
           g == [b \in DOMAIN r |-> r[b].results]
<1>1. x \in Batch /\ x.results = 0
  BY DEF Batch
<1> HIDE DEF x
<1>2. /\ r \in Seq(Batch) /\ Len(r) = m + 1 /\ m \in Nat
      /\ r[m + 1] = x
      /\ \A b \in 1 .. m : r[b] = q[b]
      /\ DOMAIN r = 1 .. m + 1 /\ DOMAIN q = 1 .. m
  BY <1>1
<1>3. \A b \in 1 .. m : q[b].results \in Nat
  <2> TAKE b \in 1 .. m
  <2>1. q[b] \in Batch
    OBVIOUS
  <2> QED
    BY <2>1 DEF Batch
<1> HIDE DEF r, m
<1>4. /\ \A b \in 1 .. m : g[b] = f[b] /\ f[b] \in Nat
      /\ g[m + 1] = 0
  <2>1. m + 1 \in 1 .. m + 1 /\ \A b \in 1 .. m : b \in 1 .. m + 1
    BY <1>2
  <2>2. g[m + 1] = r[m + 1].results
    BY <1>2, <2>1
  <2>3. \A b \in 1 .. m : g[b] = r[b].results /\ f[b] = q[b].results
    BY <1>2, <2>1
  <2> QED
    BY <1>1, <1>2, <1>3, <2>2, <2>3
<1> HIDE DEF f, g
<1>5. IsFiniteSet(1 .. m) /\ m + 1 \notin 1 .. m
      /\ 1 .. m + 1 = (1 .. m) \cup {m + 1}
  <2>1. m \in Nat
    BY <1>2
  <2>2. m + 1 \notin 1 .. m /\ 1 .. m + 1 = (1 .. m) \cup {m + 1}
    BY <2>1
  <2> QED
    BY <2>1, <2>2, FS_Interval
<1>6. \A b \in (1 .. m) \cup {m + 1} : g[b] \in Nat
  BY <1>4
<1>7. SumFunctionOnSet(g, (1 .. m) \cup {m + 1})
        = g[m + 1] + SumFunctionOnSet(g, 1 .. m)
  <2> DEFINE D == 1 .. m
             y == m + 1
  <2>1. IsFiniteSet(D) /\ y \notin D /\ \A b \in D \cup {y} : g[b] \in Nat
    BY <1>5, <1>6
  <2> HIDE DEF D, y
  <2>2. SumFunctionOnSet(g, D \cup {y}) = g[y] + SumFunctionOnSet(g, D)
    BY <2>1, SumAdd
  <2> QED
    BY <2>2 DEF D, y
<1>8. /\ SumFunctionOnSet(g, 1 .. m) = SumFunctionOnSet(f, 1 .. m)
      /\ SumFunctionOnSet(g, 1 .. m) \in Nat
  <2> DEFINE D == 1 .. m
  <2>1. IsFiniteSet(D) /\ \A b \in D : g[b] = f[b] /\ g[b] \in Nat
    BY <1>4, <1>5
  <2> HIDE DEF D
  <2>2. SumFunctionOnSet(g, D) = SumFunctionOnSet(f, D)
    BY <2>1, SumEqual
  <2>3. SumFunctionOnSet(g, D) \in Nat
    BY <2>1, SumNat
  <2> QED
    BY <2>2, <2>3 DEF D
<1>9. SumFunctionOnSet(g, 1 .. m + 1) = SumFunctionOnSet(f, 1 .. m)
  <2> DEFINE D == 1 .. m
             E == 1 .. m + 1
             y == m + 1
  <2>1. E = D \cup {y} /\ g[y] = 0
    BY <1>4, <1>5
  <2>2. SumFunctionOnSet(g, D \cup {y}) = g[y] + SumFunctionOnSet(g, D)
    BY <1>7
  <2>3. /\ SumFunctionOnSet(g, D) = SumFunctionOnSet(f, D)
        /\ SumFunctionOnSet(g, D) \in Nat
    BY <1>8
  <2> HIDE DEF D, E, y
  <2>4. SumFunctionOnSet(g, E) = SumFunctionOnSet(f, D)
    BY <2>1, <2>2, <2>3
  <2> QED
    BY <2>4 DEF D, E
<1>10. Results(r) = Results(q)
  BY <1>2, <1>9 DEF Results, f, g, m
<1> QED
  BY <1>2, <1>10 DEF x, r, m

LEMMA ResultAdded ==
  ASSUME NEW q \in Seq(Batch), Len(q) > 0
  PROVE  LET n == Len(q)
             r == [q EXCEPT ![n].results = @ + 1]
         IN  /\ r \in Seq(Batch) /\ Len(r) = n
             /\ \A b \in 1 .. n : b < n => r[b] = q[b]
             /\ r[n].calls = q[n].calls /\ r[n].results = q[n].results + 1
             /\ Results(r) = Results(q) + 1
<1> DEFINE n == Len(q)
           x == [q[n] EXCEPT !.results = @ + 1]
           r == [q EXCEPT ![n] = x]
           f == [b \in DOMAIN q |-> q[b].results]
           g == [b \in DOMAIN r |-> r[b].results]
<1>1. n \in Nat /\ n \in 1 .. n /\ DOMAIN q = 1 .. n
  OBVIOUS
<1>2. q[n] \in Batch
  BY <1>1
<1>3. x \in Batch /\ x.calls = q[n].calls /\ x.results = q[n].results + 1
      /\ q[n].results \in Nat
  BY <1>2 DEF Batch
<1>4. \A b \in 1 .. n : q[b].results \in Nat
  <2> TAKE b \in 1 .. n
  <2>1. q[b] \in Batch
    OBVIOUS
  <2> QED
    BY <2>1 DEF Batch
<1> HIDE DEF x, n
<1>5. /\ r \in Seq(Batch) /\ Len(r) = n /\ DOMAIN r = 1 .. n
      /\ r[n] = x /\ \A b \in 1 .. n : b # n => r[b] = q[b]
  <2>1. x \in Batch /\ n = Len(q)
    BY <1>3 DEF n
  <2>2. q \in [1 .. n -> Batch]
    BY <2>1
  <2>3. r \in [1 .. n -> Batch]
    BY <2>1, <2>2
  <2>4. r \in Seq(Batch) /\ Len(r) = n
    BY <1>1, <2>3
  <2> QED
    BY <1>1, <2>2, <2>3, <2>4
<1> HIDE DEF r
<1>6. /\ \A b \in 1 .. n : f[b] \in Nat /\ g[b] \in Nat
      /\ \A b \in 1 .. n : b # n => g[b] = f[b]
      /\ g[n] = f[n] + 1
  BY <1>1, <1>3, <1>4, <1>5
<1> HIDE DEF f, g
<1>7. SumFunctionOnSet(g, 1 .. n) = SumFunctionOnSet(f, 1 .. n) + 1
  <2> DEFINE D == 1 .. n
  <2>1. IsFiniteSet(D) /\ n \in D
    BY <1>1, FS_Interval
  <2>2. /\ \A b \in D : f[b] \in Nat /\ g[b] \in Nat
        /\ \A b \in D \ {n} : g[b] = f[b]
    BY <1>6
  <2> HIDE DEF D
  <2>3. IsFiniteSet(D \ {n})
    BY <2>1, FS_RemoveElement
  <2>4. SumFunctionOnSet(g, D) = g[n] + SumFunctionOnSet(g, D \ {n})
    BY <2>1, <2>2, SumRemove
  <2>5. SumFunctionOnSet(f, D) = f[n] + SumFunctionOnSet(f, D \ {n})
    BY <2>1, <2>2, SumRemove
  <2>6. SumFunctionOnSet(g, D \ {n}) = SumFunctionOnSet(f, D \ {n})
    BY <2>2, <2>3, SumEqual
  <2>7. SumFunctionOnSet(f, D \ {n}) \in Nat
    BY <2>2, <2>3, SumNat
  <2>8. f[n] \in Nat
    BY <2>1, <2>2
  <2>9. SumFunctionOnSet(g, D) = SumFunctionOnSet(f, D) + 1
    BY <1>6, <2>4, <2>5, <2>6, <2>7, <2>8
  <2> QED
    BY <2>9 DEF D
<1>8. Results(r) = Results(q) + 1
  BY <1>5, <1>7 DEF Results, f, g, n
<1> QED
  BY <1>1, <1>3, <1>5, <1>8 DEF r, x, n

-----------------------------------------------------------------------------
\* The ways a turn goes

\* To, through and from its tool calls.
Onward(t) ==
  \/ pc[t] \notin Calling /\ pc'[t] \notin Calling
  \/ /\ pc[t] \notin Calling \cup Lost /\ pc'[t] = "execute"
     /\ loc'[t].calls = loc[t].calls /\ loc'[t].ran = 0
  \/ /\ pc[t] = "execute" /\ pc'[t] = "saveCall"
     /\ loc'[t].calls = loc[t].calls /\ loc'[t].ran = loc[t].ran
  \/ /\ pc[t] = "saveCall" /\ pc'[t] = "logFailure"
     /\ loc'[t].calls = loc[t].calls /\ loc'[t].ran = loc[t].ran
  \/ /\ pc[t] \in {"saveCall", "logFailure"} /\ pc'[t] = "execute"
     /\ loc'[t].calls = loc[t].calls /\ loc'[t].ran = loc[t].ran + 1
  \/ /\ pc[t] \in {"saveCall", "logFailure"} /\ pc'[t] \in {"stream", "limit"}
     /\ loc[t].ran + 1 = loc[t].calls
  \/ pc[t] \in Calling /\ pc'[t] \in {"failed", "cut"}

\* From the first await to the last.
Passes(t) ==
  /\ pc[t] \notin Ended
  /\ pc[t] \in Lost => pc'[t] \in Lost
  /\ pc'[t] \in Unasked => pc[t] \in Unasked /\ UNCHANGED messages
  /\ pc[t] \in Late => pc'[t] \in Late
  /\ pc'[t] = "saveCall" => pc[t] = "execute"
  /\ pc[t] = "saveCall" /\ pc'[t] # "cut" => SaveToolCall(t)
  /\ ~SaveToolCall(t) => UNCHANGED toolCalls
  /\ \/ UNCHANGED tasks
     \/ pc'[t] \in Late /\ \A s \in Turn \ {t} : tasks'[s] = tasks[s]

LEMMA Continues ==
  ASSUME RecordInv, NEW t \in Turn, NEW from \in {"saveCall", "logFailure"},
         NextCall(t, from)
  PROVE  /\ Onward(t) /\ pc[t] = from
         /\ pc'[t] \in {"execute", "stream", "limit"}
<1>1. /\ loc \in [Turn -> Locals] /\ loc[t] \in Locals
      /\ pc \in [Turn -> Stages \cup Ended \cup {"new"}]
  BY DEF RecordInv, Types, Pcs
<1> USE <1>1 DEF Goes, Onward, Calling, Lost
<1>2. CASE /\ Goes(t, from, "execute")
           /\ loc' = [loc EXCEPT ![t].ran = @ + 1]
  <2>1. loc'[t].calls = loc[t].calls /\ loc'[t].ran = loc[t].ran + 1
    BY <1>2 DEF Locals
  <2> QED
    BY <1>2, <2>1
<1>3. CASE Goes(t, from, "stream") /\ loc[t].ran + 1 = loc[t].calls
  BY <1>3
<1>4. CASE Goes(t, from, "limit") /\ loc[t].ran + 1 = loc[t].calls
  BY <1>4
<1> QED
  BY <1>2, <1>3, <1>4 DEF NextCall

LEMMA GoesOn ==
  ASSUME RecordInv, NEW t \in Turn, Request(t) \/ Advance(t) \/ Disconnect(t)
  PROVE  Onward(t) /\ Passes(t)
<1>1. /\ loc \in [Turn -> Locals] /\ loc[t] \in Locals
      /\ pc \in [Turn -> Stages \cup Ended \cup {"new"}]
      /\ Good(loc[t], pc[t]) /\ tasks \in [Turn -> Nat]
  BY DEF RecordInv, Types, Counts, Pcs
<1> USE <1>1 DEF Goes, Onward, Passes, Calling, Lost, Late, Unasked, Before,
        Stages, Waiting, Ended
<1>3. CASE Request(t)
  BY <1>3 DEF Request, dbVars, intentVars
<1>4. CASE Disconnect(t)
  BY <1>4 DEF Disconnect, dbVars, intentVars
<1>5. CASE GetOrCreateConversation(t) \/ StartStream(t) \/ LoadMemory(t)
           \/ Route(t)
  BY <1>5 DEF GetOrCreateConversation, StartStream, LoadMemory, Route,
     dbVars, intentVars
<1>6. CASE LogEvent(t)
  BY <1>6 DEF LogEvent, LogTo, dbVars, intentVars
<1>7. CASE LoadAgent(t)
  BY <1>7 DEF LoadAgent, dbVars, intentVars
<1>8. CASE LoadTools(t) \/ Retrieve(t)
  BY <1>8 DEF LoadTools, Retrieve, dbVars, intentVars
<1>9. CASE SaveUser(t)
  BY <1>9 DEF SaveUser, dbVars, intentVars
<1>10. CASE Provider(t)
  BY <1>10 DEF Provider, dbVars, intentVars
<1>11. CASE ContentDelta(t) \/ ToolCallComplete(t) \/ StreamRaises(t)
  BY <1>11 DEF ContentDelta, ToolCallComplete, StreamRaises, dbVars, intentVars
<1>12. CASE StreamEnds(t)
  <2>1. loc'[t].calls = loc[t].calls /\ loc'[t].ran = loc[t].ran
    BY <1>12 DEF StreamEnds, Locals
  <2>2. loc[t].ran = 0
    BY <1>12 DEF StreamEnds, Good
  <2>3. /\ pc[t] = "stream"
        /\ pc'[t] \in {"saveAssistant", "update", "execute", "logTurn", "reload"}
    BY <1>12 DEF StreamEnds, AfterMessage, AfterLoop
  <2> QED
    BY <1>12, <2>1, <2>2, <2>3 DEF StreamEnds, dbVars, intentVars
<1>13. CASE SaveAssistant(t)
  <2>1. loc'[t].calls = loc[t].calls /\ loc'[t].ran = loc[t].ran
    BY <1>13 DEF SaveAssistant, Locals
  <2>2. loc[t].ran = 0
    BY <1>13 DEF SaveAssistant, Good
  <2>3. /\ pc[t] = "saveAssistant"
        /\ pc'[t] \in {"update", "execute", "logTurn", "reload"}
    BY <1>13 DEF SaveAssistant, AfterMessage, AfterLoop
  <2> QED
    BY <1>13, <2>1, <2>2, <2>3 DEF SaveAssistant, dbVars, intentVars
<1>14. CASE UpdateMessage(t)
  <2>1. loc' = loc /\ loc[t].ran = 0
    BY <1>14 DEF UpdateMessage, Good
  <2>2. /\ pc[t] = "update" /\ pc'[t] \in {"execute", "logTurn", "reload"}
    BY <1>14 DEF UpdateMessage, AfterMessage, AfterLoop
  <2> QED
    BY <1>14, <2>1, <2>2 DEF UpdateMessage, dbVars, intentVars
<1>15. CASE Execute(t)
  <2>1. loc'[t].calls = loc[t].calls /\ loc'[t].ran = loc[t].ran
    BY <1>15 DEF Execute, Locals
  <2>2. pc[t] = "execute" /\ pc'[t] \in {"saveCall", "failed"}
    BY <1>15 DEF Execute
  <2> QED
    BY <1>15, <2>1, <2>2 DEF Execute, dbVars, intentVars
<1>16. CASE SaveToolCall(t)
  <2>1. CASE NextCall(t, "saveCall")
    <3>1. /\ Onward(t) /\ pc[t] = "saveCall"
          /\ pc'[t] \in {"execute", "stream", "limit"}
      BY <2>1, Continues
    <3> QED
      BY <1>16, <3>1 DEF SaveToolCall, intentVars
  <2>2. CASE Goes(t, "saveCall", "logFailure") /\ UNCHANGED loc
    BY <1>16, <2>2 DEF SaveToolCall, intentVars
  <2> QED
    BY <1>16, <2>1, <2>2 DEF SaveToolCall
<1>17. CASE LogToolFailure(t)
  <2>1. /\ Onward(t) /\ pc[t] = "logFailure"
        /\ pc'[t] \in {"execute", "stream", "limit"}
    BY <1>17, Continues DEF LogToolFailure
  <2> QED
    BY <1>17, <2>1 DEF LogToolFailure, dbVars, intentVars
<1>18. CASE Fallback(t) \/ UpdateStats(t) \/ SendDone(t) \/ SendError(t)
  BY <1>18 DEF Fallback, UpdateStats, SendDone, SendError, dbVars, intentVars
<1>19. CASE SaveFallback(t)
  BY <1>19 DEF SaveFallback, AfterLoop, dbVars, intentVars
<1>20. CASE ReloadMemory(t)
  BY <1>20 DEF ReloadMemory, dbVars, intentVars
<1> QED
  BY <1>3, <1>4, <1>5, <1>6, <1>7, <1>8, <1>9, <1>10, <1>11, <1>12, <1>13,
     <1>14, <1>15, <1>16, <1>17, <1>18, <1>19, <1>20
  DEF Advance, Prepare, Reply, CallTools, Conclude

-----------------------------------------------------------------------------
\* The batches

\* What a step of turn t makes of its batches.
LEMMA Telling ==
  ASSUME NEW t \in Turn, told \in [Turn -> Seq(Batch)], Tells(t)
  PROVE  /\ \A s \in Turn \ {t} : told'[s] = told[s]
         /\ pc'[t] = "execute" /\ pc[t] \notin {"saveCall", "logFailure"} =>
              told'[t] = Append(told[t], [calls |-> loc[t].calls, results |-> 0])
         /\ pc[t] = "execute" /\ pc'[t] = "saveCall" =>
              told'[t] = [told[t] EXCEPT ![Len(told[t])].results = @ + 1]
         /\ pc'[t] # "execute" /\ pc[t] # "execute" => told'[t] = told[t]
         /\ pc'[t] # "saveCall" /\ pc'[t] # "execute" => told'[t] = told[t]
         /\ pc[t] \in {"saveCall", "logFailure"} => told'[t] = told[t]
  BY DEF Tells

LEMMA BatchedNext ==
  ASSUME NEW t \in Turn, told \in [Turn -> Seq(Batch)], Batched(t),
         loc[t].calls \in Nat, loc[t].ran \in Nat, loc'[t].ran \in Nat,
         Onward(t), Passes(t), Tells(t)
  PROVE  told'[t] \in Seq(Batch) /\ Batched(t)'
<1>1. told[t] \in Seq(Batch) /\ Len(told[t]) \in Nat
  OBVIOUS
<1> DEFINE q == told[t]
           r == told'[t]
           n == Len(q)
<1>2. pc[t] \in Lost => pc'[t] \in Lost
  BY DEF Passes
<1>3. CASE /\ pc[t] \notin Calling \cup Lost /\ pc'[t] = "execute"
           /\ loc'[t].calls = loc[t].calls /\ loc'[t].ran = 0
  <2>1. r = Append(q, [calls |-> loc[t].calls, results |-> 0])
    BY <1>3, Telling DEF Calling
  <2>2. /\ r \in Seq(Batch) /\ Len(r) = n + 1
        /\ \A b \in 1 .. n : r[b] = q[b]
        /\ r[n + 1] = [calls |-> loc[t].calls, results |-> 0]
    BY <1>1, <2>1, BatchAdded
  <2>3. \A b \in 1 .. n : q[b].results = q[b].calls
    BY <1>3 DEF Batched
  <2>4. \A b \in 1 .. Len(r) : b < Len(r) => b \in 1 .. n
    BY <1>1, <2>2
  <2>5. \A b \in 1 .. Len(r) : b < Len(r) => r[b].results = r[b].calls
    BY <2>2, <2>3, <2>4
  <2>6. Len(r) > 0 /\ r[Len(r)].calls = loc'[t].calls
        /\ r[Len(r)].results = loc'[t].ran
    BY <1>1, <1>3, <2>2
  <2> HIDE DEF q, r, n
  <2>7. loc'[t].ran + 0 = loc'[t].ran
    OBVIOUS
  <2> QED
    BY <1>3, <2>2, <2>5, <2>6, <2>7 DEF Batched, Calling, r
<1>4. CASE /\ pc[t] = "execute" /\ pc'[t] = "saveCall"
           /\ loc'[t].calls = loc[t].calls /\ loc'[t].ran = loc[t].ran
  <2>1. r = [q EXCEPT ![n].results = @ + 1]
    BY <1>4, Telling
  <2>2. n > 0 /\ q[n].calls = loc[t].calls /\ q[n].results = loc[t].ran + 0
    BY <1>4 DEF Batched, Calling
  <2>3. /\ r \in Seq(Batch) /\ Len(r) = n
        /\ \A b \in 1 .. n : b < n => r[b] = q[b]
        /\ r[n].calls = q[n].calls /\ r[n].results = q[n].results + 1
    BY <1>1, <2>1, <2>2, ResultAdded
  <2>4. \A b \in 1 .. n : b < n => q[b].results = q[b].calls
    BY <1>4 DEF Batched, Lost
  <2>5. r[n].results = loc'[t].ran + 1
    <3>1. q[n].results = loc[t].ran
      BY <2>2
    <3> QED
      BY <1>4, <2>3, <3>1
  <2> HIDE DEF q, r, n
  <2> QED
    BY <1>4, <2>2, <2>3, <2>4, <2>5 DEF Batched, Calling, r
<1>5. CASE /\ pc[t] = "saveCall" /\ pc'[t] = "logFailure"
           /\ loc'[t].calls = loc[t].calls /\ loc'[t].ran = loc[t].ran
  <2>1. r = q
    BY <1>5, Telling
  <2> QED
    BY <1>1, <1>5, <2>1 DEF Batched, Calling, Lost
<1>6. CASE /\ pc[t] \in {"saveCall", "logFailure"} /\ pc'[t] = "execute"
           /\ loc'[t].calls = loc[t].calls /\ loc'[t].ran = loc[t].ran + 1
  <2>1. r = q
    BY <1>6, Telling
  <2>2. n > 0 /\ q[n].calls = loc[t].calls /\ q[n].results = loc[t].ran + 1
    BY <1>6 DEF Batched, Calling
  <2>3. \A b \in 1 .. n : b < n => q[b].results = q[b].calls
    BY <1>6 DEF Batched, Lost
  <2>4. q[n].results = loc'[t].ran + 0
    BY <1>6, <2>2
  <2> QED
    BY <1>1, <1>6, <2>1, <2>2, <2>3, <2>4 DEF Batched, Calling
<1>7. CASE /\ pc[t] \in {"saveCall", "logFailure"} /\ pc'[t] \in {"stream", "limit"}
           /\ loc[t].ran + 1 = loc[t].calls
  <2>1. r = q
    BY <1>7, Telling
  <2>2. n > 0 /\ q[n].calls = loc[t].calls /\ q[n].results = loc[t].ran + 1
    BY <1>7 DEF Batched, Calling
  <2>3. \A b \in 1 .. n : b < n => q[b].results = q[b].calls
    BY <1>7 DEF Batched, Lost
  <2>4. \A b \in 1 .. n : b < n \/ b = n
    BY <1>1
  <2>5. \A b \in 1 .. n : q[b].results = q[b].calls
    BY <1>7, <2>2, <2>3, <2>4
  <2>6. pc'[t] \notin Calling
    BY <1>7 DEF Calling
  <2> QED
    BY <1>1, <2>1, <2>5, <2>6 DEF Batched
<1>8. CASE pc[t] \in Calling /\ pc'[t] \in {"failed", "cut"}
  <2>1. r = q
    BY <1>8, Telling
  <2>2. pc'[t] \in Lost /\ pc'[t] \notin Calling
    BY <1>8 DEF Lost, Calling
  <2> QED
    BY <1>1, <2>1, <2>2 DEF Batched
<1>9. CASE pc[t] \notin Calling /\ pc'[t] \notin Calling
  <2>1. r = q
    BY <1>9, Telling DEF Calling
  <2> QED
    BY <1>1, <1>2, <1>9, <2>1 DEF Batched
<1> QED
  BY <1>3, <1>4, <1>5, <1>6, <1>7, <1>8, <1>9 DEF Onward


\* The rows of the calls: a step of t adds at most one, and that to its own.
LEMMA RowSaved ==
  ASSUME Inv, NEW t \in Turn, faults = 0, faults' = 0, SaveToolCall(t)
  PROVE  /\ toolCalls' = Append(toolCalls, [turn |-> t, message |-> loc[t].asst])
         /\ loc[t].asst \in Nat \ {0}
<1>1. /\ tx[t] # "aborted" /\ Known(t) /\ loc[t] \in Locals
  BY DEF Inv, CallsInv, RecordInv, Types
<1>2. pc[t] = "saveCall"
  BY DEF SaveToolCall, NextCall, Goes
<1>3. loc[t].asst \in Nat \ {0}
  BY <1>1, <1>2 DEF Known, Replied, Locals
<1> QED
  BY <1>1, <1>3 DEF SaveToolCall, ExecuteRollsBack, StatementFails

LEMMA ListedNext ==
  ASSUME Inv, NEW t \in Turn, Request(t) \/ Advance(t) \/ Disconnect(t),
         faults = 0, faults' = 0, told \in [Turn -> Seq(Batch)],
         Batched(t), Listed(t), Tells(t)
  PROVE  Listed(t)'
<1> SUFFICES ASSUME pc'[t] \notin Lost
             PROVE  Results(told'[t]) =
                      Cardinality(RowsOf(t))'
                        + (IF pc'[t] = "saveCall" THEN 1 ELSE 0)
  BY DEF Listed
<1>1. Onward(t) /\ Passes(t)
  BY GoesOn DEF Inv
<1>2. /\ Results(told[t]) =
           Cardinality(RowsOf(t)) + (IF pc[t] = "saveCall" THEN 1 ELSE 0)
      /\ Cardinality(RowsOf(t)) \in Nat
      /\ told[t] \in Seq(Batch)
  BY <1>1, RowsOfFinite DEF Listed, Passes
<1>3. pc[t] # "saveCall" => Cardinality(RowsOf(t))' = Cardinality(RowsOf(t))
  <2>1. pc[t] # "saveCall" => ~SaveToolCall(t)
    BY DEF SaveToolCall, NextCall, Goes
  <2> QED
    BY <1>1, <2>1 DEF Passes, RowsOf
<1>4. pc[t] = "saveCall" =>
        /\ Cardinality(RowsOf(t))' = Cardinality(RowsOf(t)) + 1
        /\ told'[t] = told[t]
  <2> SUFFICES ASSUME pc[t] = "saveCall"
               PROVE  /\ Cardinality(RowsOf(t))' = Cardinality(RowsOf(t)) + 1
                      /\ told'[t] = told[t]
    OBVIOUS
  <2>1. SaveToolCall(t)
    BY <1>1 DEF Passes, Lost
  <2>2. Cardinality(RowsOf(t))' = Cardinality(RowsOf(t)) + 1
    BY <2>1, RowSaved, RowAdded
  <2> QED
    BY <2>2, Telling
<1>5. CASE pc[t] = "saveCall"
  <2>1. pc'[t] # "saveCall"
    BY <1>1, <1>5 DEF Passes
  <2> QED
    BY <1>2, <1>4, <1>5, <2>1
<1>6. CASE pc[t] # "saveCall" /\ pc'[t] = "saveCall"
  <2>1. pc[t] = "execute"
    BY <1>1, <1>6 DEF Passes
  <2>2. told'[t] = [told[t] EXCEPT ![Len(told[t])].results = @ + 1]
    BY <1>6, <2>1, Telling
  <2>3. Len(told[t]) > 0
    BY <2>1 DEF Batched, Calling
  <2>4. Results(told'[t]) = Results(told[t]) + 1
    BY <1>2, <2>2, <2>3, ResultAdded
  <2> QED
    BY <1>2, <1>3, <1>6, <2>4
<1>7. CASE pc[t] # "saveCall" /\ pc'[t] # "saveCall"
  <2>1. Results(told'[t]) = Results(told[t])
    <3>1. CASE pc'[t] = "execute" /\ pc[t] # "logFailure"
      <4>1. told'[t] = Append(told[t], [calls |-> loc[t].calls, results |-> 0])
        BY <1>7, <3>1, Telling
      <4>2. loc[t].calls \in Nat
        BY BoundsAssumption DEF Inv, RecordInv, Types, Locals
      <4> QED
        BY <1>2, <4>1, <4>2, BatchAdded
    <3>2. CASE pc'[t] # "execute" \/ pc[t] = "logFailure"
      BY <1>7, <3>2, Telling
    <3> QED
      BY <3>1, <3>2
  <2> QED
    BY <1>2, <1>3, <1>7, <2>1
<1> QED
  BY <1>5, <1>6, <1>7


-----------------------------------------------------------------------------
\* What was read stays

\* A step of turn t adds messages and calls of t only, behind those there are.
LEMMA NewMessages ==
  ASSUME RecordInv, NEW t \in Turn, Steps(t)
  PROVE  \A i \in 1 .. Len(messages') :
           i \in 1 .. Len(messages) \/ messages'[i].turn = t
<1>1. messages \in Seq(Row)
  BY DEF RecordInv, Types
<1>2. CASE UNCHANGED messages
  BY <1>2
<1>3. ASSUME NEW row, row.turn = t, messages' = Append(messages, row)
      PROVE  \A i \in 1 .. Len(messages') :
               i \in 1 .. Len(messages) \/ messages'[i].turn = t
  <2>1. Len(messages') = Len(messages) + 1 /\ messages'[Len(messages) + 1] = row
    BY <1>1, <1>3
  <2> QED
    BY <1>1, <1>3, <2>1
<1>4. ASSUME NEW role, NEW size, NEW tokens, NEW id,
             SaveMessage(t, role, size, tokens, id)
      PROVE  \/ UNCHANGED messages
             \/ \E row : row.turn = t /\ messages' = Append(messages, row)
  BY <1>4 DEF SaveMessage
<1>5. CASE SaveUser(t)
  BY <1>2, <1>3, <1>4, <1>5 DEF SaveUser
<1>6. CASE SaveAssistant(t)
  BY <1>2, <1>3, <1>4, <1>6 DEF SaveAssistant
<1>7. CASE SaveFallback(t)
  BY <1>2, <1>3, <1>4, <1>7 DEF SaveFallback
<1>8. CASE UpdateMessage(t)
  <2>1. \/ UNCHANGED messages
        \/ messages' = [messages EXCEPT ![loc[t].asst].tokens = loc[t].used]
    BY <1>8 DEF UpdateMessage
  <2>2. Len(messages') = Len(messages)
    BY <1>1, <2>1
  <2> QED
    BY <2>2
<1> QED
  BY <1>2, <1>5, <1>6, <1>7, <1>8, QuietSteps

LEMMA NewCalls ==
  ASSUME Inv, NEW t \in Turn, Steps(t)
  PROVE  /\ Len(toolCalls') \in Nat /\ Len(toolCalls') >= Len(toolCalls)
         /\ \A c \in 1 .. Len(toolCalls) : toolCalls'[c] = toolCalls[c]
         /\ \A s \in Turn \ {t} : RowsOf(s)' = RowsOf(s)
<1>1. toolCalls \in Seq(Link) /\ loc[t].asst \in Nat
  BY DEF Inv, RecordInv, Types, Locals
<1>2. CASE UNCHANGED toolCalls
  BY <1>1, <1>2 DEF RowsOf
<1>3. CASE /\ loc[t].asst # 0
           /\ toolCalls' = Append(toolCalls, [turn |-> t, message |-> loc[t].asst])
  <2>1. \A s \in Turn \ {t} : RowsOf(s)' = RowsOf(s)
    BY <1>1, <1>3, RowAdded
  <2> QED
    BY <1>1, <1>3, <2>1
<1> QED
  BY <1>2, <1>3, QuietSteps DEF SaveToolCall

\* A turn that has read keeps what it has read: the rows, and that the turns
\* done by then are done.
LEMMA ReadKept ==
  ASSUME Inv, HistoryTypes, NEW t \in Turn, Steps(t), NEW s \in Turn, Read(s),
         memory'[s] = memory[s],
         \A u \in Turn : pc[u] = "done" => pc'[u] = "done" /\ RowsOf(u)' = RowsOf(u)
  PROVE  Read(s)'
<1>1. /\ memory[s].rows \in Nat /\ memory[s].calls \in Nat
      /\ memory[s].ended \subseteq Turn
      /\ Len(messages) \in Nat /\ Len(toolCalls) \in Nat
  BY DEF HistoryTypes, Inv, RecordInv, Types
<1>2. /\ Len(messages') \in Nat /\ Len(messages') >= Len(messages)
      /\ \A i \in 1 .. Len(messages) : messages'[i].turn = messages[i].turn
  BY RowsAreKept DEF Inv, Kept
<1>3. /\ Len(toolCalls') \in Nat /\ Len(toolCalls') >= Len(toolCalls)
      /\ \A c \in 1 .. Len(toolCalls) : toolCalls'[c] = toolCalls[c]
  BY NewCalls
<1>4. /\ memory[s].rows <= Len(messages')
      /\ memory[s].calls <= Len(toolCalls')
  BY <1>1, <1>2, <1>3 DEF Read
<1>5. \A i \in 1 .. memory[s].rows : messages'[i].turn # s
  BY <1>1, <1>2 DEF Read
<1>6. \A c \in 1 .. memory[s].calls : toolCalls'[c].message <= memory[s].rows
  BY <1>1, <1>3 DEF Read
<1>7. \A u \in memory[s].ended :
        pc'[u] = "done" /\ \A c \in RowsOf(u)' : c <= memory[s].calls
  BY <1>1 DEF Read
<1> QED
  BY <1>4, <1>5, <1>6, <1>7 DEF Read

LEMMA ReadNow ==
  ASSUME Inv, NEW t \in Turn, UNCHANGED <<messages, toolCalls>>,
         \A i \in 1 .. Len(messages) : messages[i].turn # t,
         memory'[t] = [rows |-> Len(messages), calls |-> Len(toolCalls),
                       ended |-> {u \in Turn : pc[u] = "done"}],
         \A u \in Turn : pc[u] = "done" => pc'[u] = "done"
  PROVE  Read(t)'
<1>1. \A c \in 1 .. Len(toolCalls) : toolCalls[c].message <= Len(messages)
  BY DEF Inv, RecordInv, Owned, Mine
<1>2. Len(toolCalls) \in Nat /\ Len(messages) \in Nat
  BY DEF Inv, RecordInv, Types
<1>3. \A u \in Turn : RowsOf(u)' \subseteq 1 .. Len(toolCalls)
  BY DEF RowsOf
<1>4. \A u \in {v \in Turn : pc[v] = "done"} :
        pc'[u] = "done" /\ \A c \in RowsOf(u)' : c <= Len(toolCalls)
  BY <1>2, <1>3
<1> QED
  BY <1>1, <1>2, <1>4 DEF Read


LEMMA Remembering ==
  ASSUME Inv, HistoryTypes, NEW t \in Turn, Remembers(t)
  PROVE  /\ memory' \in [Turn -> [rows : Nat, calls : Nat, ended : SUBSET Turn]]
         /\ \A s \in Turn \ {t} : memory'[s] = memory[s]
         /\ \/ memory'[t] = memory[t]
            \/ /\ pc[t] = "memory" /\ pc'[t] = "route"
               /\ memory'[t] = [rows |-> Len(messages), calls |-> Len(toolCalls),
                                ended |-> {u \in Turn : pc[u] = "done"}]
<1> DEFINE now == [rows |-> Len(messages), calls |-> Len(toolCalls),
                   ended |-> {u \in Turn : pc[u] = "done"}]
<1>1. Len(messages) \in Nat /\ Len(toolCalls) \in Nat
  BY DEF Inv, RecordInv, Types
<1>2. now \in [rows : Nat, calls : Nat, ended : SUBSET Turn]
  BY <1>1
<1>3. memory \in [Turn -> [rows : Nat, calls : Nat, ended : SUBSET Turn]]
  BY DEF HistoryTypes
<1>4. \/ memory' = memory
      \/ /\ pc[t] = "memory" /\ pc'[t] = "route"
         /\ memory' = [memory EXCEPT ![t] = now]
  BY DEF Remembers
<1> HIDE DEF now
<1>5. /\ memory' \in [Turn -> [rows : Nat, calls : Nat, ended : SUBSET Turn]]
      /\ \A s \in Turn \ {t} : memory'[s] = memory[s]
      /\ \/ memory'[t] = memory[t]
         \/ pc[t] = "memory" /\ pc'[t] = "route" /\ memory'[t] = now
  BY <1>2, <1>3, <1>4
<1> QED
  BY <1>5 DEF now

LEMMA RememberedNext ==
  ASSUME Inv, HistoryInv, NEW t \in Turn,
         Request(t) \/ Advance(t) \/ Disconnect(t), Remembers(t), NEW s \in Turn
  PROVE  Remembered(s)'
<1>1. Remembered(s) /\ Remembered(t) /\ HistoryTypes
  BY DEF HistoryInv
<1>2. Passes(t) /\ Steps(t)
  BY GoesOn DEF Inv, Steps
<1>3. \A u \in Turn \ {t} : pc'[u] = pc[u]
  <2>1. Touch(t)
    BY Locally DEF Inv
  <2> QED
    BY <2>1 DEF Touch, Inv, TxInv, Pcs
<1>4. Len(messages) \in Nat /\ Kept
  BY <1>2, RowsAreKept DEF Inv, RecordInv, Types
<1>5. pc'[s] \in Unasked => \A i \in 1 .. Len(messages') : messages'[i].turn # s
  <2> SUFFICES ASSUME pc'[s] \in Unasked, NEW i \in 1 .. Len(messages')
               PROVE  messages'[i].turn # s
    OBVIOUS
  <2>1. CASE s = t
    BY <1>1, <1>2, <2>1 DEF Passes, Remembered
  <2>2. CASE s # t
    <3>1. \A k \in 1 .. Len(messages) : messages[k].turn # s
      BY <1>1, <1>3, <2>2 DEF Remembered
    <3>2. i \in 1 .. Len(messages) \/ messages'[i].turn = t
      BY <1>2, NewMessages DEF Inv
    <3> QED
      BY <1>4, <2>2, <3>1, <3>2 DEF Kept
  <2> QED
    BY <2>1, <2>2
<1>6. tasks'[s] > 0 => pc'[s] \in Late
  <2>1. CASE s = t
    BY <1>1, <1>2, <2>1 DEF Passes, Remembered
  <2>2. CASE s # t
    BY <1>1, <1>2, <1>3, <2>2 DEF Passes, Remembered
  <2> QED
    BY <2>1, <2>2
<1>7. Read(s)'
  <2>1. \A u \in Turn : pc[u] = "done" => pc'[u] = "done" /\ RowsOf(u)' = RowsOf(u)
    <3> SUFFICES ASSUME NEW u \in Turn, pc[u] = "done"
                 PROVE  pc'[u] = "done" /\ RowsOf(u)' = RowsOf(u)
      OBVIOUS
    <3>1. u # t
      BY <1>2 DEF Passes, Ended
    <3> QED
      BY <1>2, <1>3, <3>1, NewCalls
  <2>2. CASE memory'[s] = memory[s]
    BY <1>1, <1>2, <2>1, <2>2, ReadKept DEF Remembered
  <2>3. CASE /\ s = t /\ pc[t] = "memory" /\ pc'[t] = "route"
             /\ memory'[t] = [rows |-> Len(messages), calls |-> Len(toolCalls),
                              ended |-> {u \in Turn : pc[u] = "done"}]
    <3>1. pc[t] \in Unasked /\ pc'[t] \in Unasked
      BY <2>3 DEF Unasked, Before
    <3>2. ~SaveToolCall(t)
      BY <2>3 DEF SaveToolCall, NextCall, Goes
    <3>3. UNCHANGED <<messages, toolCalls>>
      BY <1>2, <3>1, <3>2 DEF Passes
    <3>4. \A i \in 1 .. Len(messages) : messages[i].turn # t
      BY <1>1, <3>1 DEF Remembered
    <3> QED
      BY <2>1, <2>3, <3>3, <3>4, ReadNow
  <2> QED
    BY <1>1, <2>2, <2>3, Remembering
<1> QED
  BY <1>5, <1>6, <1>7 DEF Remembered

\* The task of a turn that nobody waits for: all is over by then but it.
LEMMA IntentAside ==
  ASSUME Inv, HistoryInv, NEW t \in Turn, UpdateIntent(t), Remembers(t), Tells(t)
  PROVE  UNCHANGED <<memory, told, messages, toolCalls, pc, loc>>
         /\ \A s \in Turn : tasks'[s] > 0 => tasks[s] > 0
<1>1. UNCHANGED <<messages, toolCalls, pc, loc>> /\ tasks[t] > 0
  BY DEF UpdateIntent, dbVars
<1>2. pc[t] \in Late
  BY <1>1 DEF HistoryInv, Remembered
<1>3. UNCHANGED <<memory, told>>
  BY <1>1, <1>2 DEF Remembers, Tells, Late
<1>4. \A s \in Turn : tasks'[s] > 0 => tasks[s] > 0
  BY DEF UpdateIntent, Inv, RecordInv, Types
<1> QED
  BY <1>1, <1>3, <1>4

LEMMA HistoryNextKeeps ==
  ASSUME Inv, HistoryInv, NEW t \in Turn, Steps(t), Remembers(t), Tells(t)
  PROVE  HistoryInv'
<1>1. HistoryTypes /\ \A s \in Turn : Remembered(s) /\ Batched(s)
  BY DEF HistoryInv
<1>2. told \in [Turn -> Seq(Batch)] /\ told[t] \in Seq(Batch)
  BY <1>1 DEF HistoryTypes
<1>3. faults' = 0 => faults = 0 /\ \A s \in Turn : Listed(s)
  BY Faultless DEF HistoryInv
<1>4. CASE UpdateIntent(t)
  <2>1. UNCHANGED <<memory, told, messages, toolCalls, pc, loc>>
        /\ \A s \in Turn : tasks'[s] > 0 => tasks[s] > 0
    BY <1>4, IntentAside
  <2>2. HistoryTypes'
    BY <1>1, <2>1 DEF HistoryTypes
  <2>3. \A s \in Turn : RowsOf(s)' = RowsOf(s)
    BY <2>1 DEF RowsOf
  <2>4. \A s \in Turn : Batched(s)'
    BY <1>1, <2>1 DEF Batched
  <2>5. ASSUME NEW s \in Turn PROVE Remembered(s)'
    <3>1. memory[s].ended \subseteq Turn
      BY <1>1 DEF HistoryTypes
    <3>2. Read(s)
      BY <1>1 DEF Remembered
    <3>3. Read(s)'
      BY <2>1, <2>3, <3>1, <3>2 DEF Read
    <3> QED
      BY <1>1, <2>1, <3>3 DEF Remembered
  <2>6. faults' = 0 => \A s \in Turn : Listed(s)'
    BY <1>3, <2>1, <2>3 DEF Listed
  <2> QED
    BY <2>2, <2>4, <2>5, <2>6 DEF HistoryInv
<1>5. CASE Request(t) \/ Advance(t) \/ Disconnect(t)
  <2>1. Onward(t) /\ Passes(t)
    BY <1>5, GoesOn DEF Inv
  <2>2. Touch(t) /\ loc \in [Turn -> Locals]
        /\ pc \in [Turn -> Stages \cup Ended \cup {"new"}]
    BY <1>5, Locally DEF Inv, RecordInv, Types, Pcs
  <2>3. \A s \in Turn \ {t} : pc'[s] = pc[s] /\ loc'[s] = loc[s]
    BY <2>2 DEF Touch
  <2>4. /\ loc[t].calls \in Nat /\ loc[t].ran \in Nat /\ loc'[t].ran \in Nat
    BY <2>2, BoundsAssumption DEF Touch, Locals
  <2>5. told'[t] \in Seq(Batch) /\ Batched(t)'
    BY <1>1, <1>2, <2>1, <2>4, BatchedNext
  <2>6. \A s \in Turn \ {t} : told'[s] = told[s]
    BY <1>2, Telling
  <2>7. told' \in [Turn -> Seq(Batch)]
    <3>1. \/ told' = told
          \/ told' = [told EXCEPT ![t] = told'[t]]
      BY <1>2 DEF Tells
    <3> QED
      BY <1>2, <2>5, <3>1
  <2>8. HistoryTypes'
    BY <1>1, <2>7, Remembering DEF HistoryTypes
  <2>9. ASSUME NEW s \in Turn PROVE Batched(s)'
    <3>1. CASE s = t
      BY <2>5, <3>1
    <3>2. CASE s # t
      BY <1>1, <2>3, <2>6, <3>2 DEF Batched
    <3> QED
      BY <3>1, <3>2
  <2>10. \A s \in Turn : Remembered(s)'
    BY <1>5, RememberedNext
  <2>11. ASSUME faults' = 0, NEW s \in Turn PROVE Listed(s)'
    <3>1. CASE s = t
      <4>1. Listed(t)'
        BY <1>1, <1>2, <1>3, <1>5, <2>11, ListedNext
      <4> QED
        BY <3>1, <4>1
    <3>2. CASE s # t
      <4>1. RowsOf(s)' = RowsOf(s)
        BY <3>2, NewCalls
      <4> QED
        BY <1>3, <2>3, <2>6, <2>11, <3>2, <4>1 DEF Listed
    <3> QED
      BY <3>1, <3>2
  <2> QED
    BY <2>8, <2>9, <2>10, <2>11 DEF HistoryInv
<1> QED
  BY <1>4, <1>5 DEF Steps


-----------------------------------------------------------------------------
\* The invariant of the history

LEMMA HistoryInitKeeps == HistoryInit => Inv /\ HistoryInv
<1> SUFFICES ASSUME HistoryInit PROVE Inv /\ HistoryInv
  OBVIOUS
<1>1. Init /\ Inv
  BY TxInit, RecordInit, CallsInit DEF HistoryInit, Inv
<1>2. /\ memory = [t \in Turn |-> NothingRead]
      /\ told = [t \in Turn |-> <<>>]
  BY DEF HistoryInit
<1>3. /\ pc = [t \in Turn |-> "new"] /\ messages = <<>> /\ toolCalls = <<>>
      /\ tasks = [t \in Turn |-> 0]
  BY <1>1 DEF Init
<1>4. HistoryTypes
  BY <1>2 DEF HistoryTypes, NothingRead
<1>5. ASSUME NEW t \in Turn PROVE Remembered(t) /\ Batched(t) /\ Listed(t)
  <2>1. Remembered(t)
    BY <1>2, <1>3 DEF Remembered, Read, NothingRead
  <2>2. Batched(t)
    BY <1>2, <1>3 DEF Batched, Calling
  <2>3. RowsOf(t) = {} /\ told[t] = <<>> /\ pc[t] = "new"
    BY <1>2, <1>3 DEF RowsOf
  <2>4. Results(told[t]) = 0
    <3>1. 1 .. Len(told[t]) = {}
      BY <2>3
    <3> QED
      BY <3>1, SumEmpty DEF Results
  <2>5. Cardinality(RowsOf(t)) = 0
    BY <2>3, FS_EmptySet
  <2> QED
    BY <2>1, <2>2, <2>3, <2>4, <2>5 DEF Listed
<1> QED
  BY <1>1, <1>4, <1>5 DEF HistoryInv

LEMMA HistoryNextInv ==
  Inv /\ HistoryInv /\ [HistoryNext]_historyVars => Inv' /\ HistoryInv'
<1> SUFFICES ASSUME Inv, HistoryInv, [HistoryNext]_historyVars
             PROVE  Inv' /\ HistoryInv'
  OBVIOUS
<1>1. [Next]_vars
  BY DEF HistoryNext, historyVars, Next
<1>2. TxInv'
  BY <1>1, TxNext DEF Inv
<1>3. Inv'
  BY <1>1, <1>2, RecordNext, CallsNext DEF Inv, TxInv
<1>4. CASE UNCHANGED historyVars
  <2>1. UNCHANGED <<pc, loc, faults, messages, toolCalls, tasks, memory, told>>
    BY <1>4 DEF historyVars, vars, dbVars, intentVars
  <2>2. \A t \in Turn : RowsOf(t)' = RowsOf(t)
    BY <2>1 DEF RowsOf
  <2>3. HistoryTypes' /\ \A t \in Turn : Batched(t)'
    BY <2>1 DEF HistoryInv, HistoryTypes, Batched
  <2>4. ASSUME NEW t \in Turn PROVE Remembered(t)'
    <3>1. memory[t].ended \subseteq Turn
      BY DEF HistoryInv, HistoryTypes
    <3>2. Read(t) /\ Remembered(t)
      BY DEF HistoryInv, Remembered
    <3>3. Read(t)'
      BY <2>1, <2>2, <3>1, <3>2 DEF Read
    <3> QED
      BY <2>1, <3>2, <3>3 DEF Remembered
  <2>5. faults' = 0 => \A t \in Turn : Listed(t)'
    BY <2>1, <2>2 DEF HistoryInv, Listed
  <2> QED
    BY <1>3, <2>3, <2>4, <2>5 DEF HistoryInv
<1>5. ASSUME NEW t \in Turn, Steps(t), Remembers(t), Tells(t) PROVE HistoryInv'
  BY <1>5, HistoryNextKeeps
<1> QED
  BY <1>3, <1>4, <1>5 DEF HistoryNext, Steps

LEMMA HistoryInvariant == HistorySpec => [](Inv /\ HistoryInv)
  BY HistoryInitKeeps, HistoryNextInv, PTL DEF HistorySpec

LEMMA AskingPrepared ==
  ASSUME Inv, HistoryInv, NEW t \in Asking
  PROVE  t \in Turn /\ Prepared(t) /\ Linked(t)
<1>1. t \in Turn /\ pc[t] \in {"stream", "limit"}
  BY DEF Asking
<1>2. /\ messages \in Seq(Row) /\ toolCalls \in Seq(Link)
      /\ memory[t].rows \in Nat /\ memory[t].calls \in Nat
      /\ told[t] \in Seq(Batch) /\ Read(t) /\ Batched(t)
  BY <1>1 DEF Inv, RecordInv, Types, HistoryInv, HistoryTypes, Remembered
<1>3. \A b \in 1 .. Len(told[t]) : told[t][b].results = told[t][b].calls
  BY <1>1, <1>2 DEF Batched, Lost, Calling
<1>4. Prepared(t)
  BY <1>2, <1>3 DEF Prepared, Read
<1>5. ASSUME NEW c \in 1 .. memory[t].calls
      PROVE  /\ toolCalls[c].message \in 1 .. memory[t].rows
             /\ messages[toolCalls[c].message].turn = toolCalls[c].turn
  <2>1. c \in 1 .. Len(toolCalls) /\ toolCalls[c].message <= memory[t].rows
    BY <1>2, <1>5 DEF Read
  <2>2. toolCalls[c] \in Link
    BY <1>2, <2>1
  <2>3. toolCalls[c].message \in Nat \ {0}
    BY <2>2 DEF Link
  <2>4. Mine(toolCalls[c].turn, toolCalls[c].message)
    BY <2>1 DEF Inv, RecordInv, Owned
  <2> QED
    BY <1>2, <2>1, <2>3, <2>4 DEF Mine
<1> QED
  BY <1>1, <1>4, <1>5 DEF Linked

\* The provider is shown the turn's question once, all of the history before
\* it and only the turn's own calls behind it: load_memory reads before the
\* question is saved, and no turn that runs beside it is taken for this one.
THEOREM QuestionsAreShownOnce == HistorySpec => []OwnQuestionOnce
<1>1. Inv /\ HistoryInv => OwnQuestionOnce
  <2> SUFFICES ASSUME Inv, HistoryInv, NEW t \in Asking, NEW provider \in Providers
               PROVE  \E question \in DOMAIN Input(provider, t) :
                        /\ Input(provider, t)[question] = Text(t, "user")
                        /\ Alone(Input(provider, t), t, question)
    BY DEF OwnQuestionOnce, Alone
  <2> QED
    BY AskingPrepared, QuestionOnce
<1> QED
  BY <1>1, HistoryInvariant, PTL

\* Whatever the history holds and however many batches the loop has run, with
\* whatever failures, each call in what stream() is given is followed by its
\* answer before the next text.
THEOREM CallsAreAnswered == HistorySpec => []CallsAnswered
<1>1. Inv /\ HistoryInv => CallsAnswered
  <2> SUFFICES ASSUME Inv, HistoryInv, NEW t \in Asking, NEW provider \in Providers
               PROVE  LET input == Input(provider, t) IN
                      \A c \in DOMAIN input : input[c].kind = "call" =>
                        \E a \in c + 1 .. Len(input) :
                          /\ input[a] = [input[c] EXCEPT !.kind = "answer"]
                          /\ \A k \in c .. a : input[k].kind # "text"
    BY DEF CallsAnswered
  <2> DEFINE input == Input(provider, t)
  <2>1. Answered(input) /\ input \in Seq(AnItem(t))
    BY AskingPrepared, AllAnswered
  <2> HIDE DEF input
  <2>2. DOMAIN input = 1 .. Len(input)
    BY <2>1
  <2> QED
    BY <2>1, <2>2 DEF Answered, input
<1> QED
  BY <1>1, HistoryInvariant, PTL


\* The window of the messages, row by row.
LEMMA KeptRows ==
  ASSUME NEW t \in Turn, Prepared(t)
  PROVE  LET kept == SubSeq(messages, Cut(t) + 1, memory[t].rows)
             n == memory[t].rows - Cut(t)
         IN  /\ Len(kept) = n /\ n \in Nat
             /\ \A k \in 1 .. n : kept[k] = messages[Cut(t) + k]
<1> DEFINE cut == Cut(t)
           rows == memory[t].rows
           kept == SubSeq(messages, cut + 1, rows)
<1>1. cut \in Nat /\ cut <= rows /\ rows \in Nat /\ rows <= Len(messages)
      /\ messages \in Seq(Row)
  BY Window DEF Prepared
<1> HIDE DEF cut, rows
<1>2. \A i \in cut + 1 .. rows : messages[i] \in Row
  BY <1>1
<1>3. /\ Len(kept) = IF cut + 1 <= rows THEN rows - (cut + 1) + 1 ELSE 0
      /\ \A i \in 1 .. rows - (cut + 1) + 1 : kept[i] = messages[cut + 1 + i - 1]
  <2> DEFINE m == cut + 1
  <2>1. m \in Int /\ rows \in Int /\ \A i \in m .. rows : messages[i] \in Row
    BY <1>1, <1>2
  <2> HIDE DEF m
  <2>2. /\ Len(SubSeq(messages, m, rows)) = IF m <= rows THEN rows - m + 1 ELSE 0
        /\ \A i \in 1 .. rows - m + 1 :
             SubSeq(messages, m, rows)[i] = messages[m + i - 1]
    BY <2>1, SubSeqProperties
  <2> QED
    BY <2>2 DEF m
<1>4. rows - (cut + 1) + 1 = rows - cut /\ rows - cut \in Nat
  BY <1>1
<1>5. Len(kept) = rows - cut
  BY <1>1, <1>3
<1>6. ASSUME NEW k \in 1 .. rows - cut PROVE kept[k] = messages[cut + k]
  <2>1. cut + 1 + k - 1 = cut + k
    BY <1>1, <1>4
  <2>2. kept[k] = messages[cut + 1 + k - 1]
    BY <1>3, <1>4
  <2> HIDE DEF kept
  <2> QED
    BY <2>1, <2>2
<1> QED
  BY <1>4, <1>5, <1>6 DEF cut, rows

\* The calls a turn's provider was told of, if it got to its end and no
\* statement failed, are its rows, and these were there.
LEMMA EndedTold ==
  ASSUME Inv, HistoryInv, faults = 0, NEW t \in Turn, NEW s \in memory[t].ended
  PROVE  /\ s \in Turn /\ pc[s] = "done"
         /\ Cardinality({c \in 1 .. memory[t].calls : toolCalls[c].turn = s})
              = SumFunction([b \in DOMAIN told[s] |-> told[s][b].calls])
<1>1. /\ memory[t].ended \subseteq Turn /\ memory[t].calls \in Nat
      /\ Read(t) /\ told \in [Turn -> Seq(Batch)]
      /\ Len(toolCalls) \in Nat
  BY DEF HistoryInv, HistoryTypes, Remembered, Inv, RecordInv, Types
<1>2. /\ s \in Turn /\ pc[s] = "done" /\ told[s] \in Seq(Batch)
      /\ \A c \in RowsOf(s) : c <= memory[t].calls
      /\ memory[t].calls <= Len(toolCalls)
  BY <1>1 DEF Read
<1>3. Batched(s) /\ Listed(s)
  BY <1>2 DEF HistoryInv
<1>4. {c \in 1 .. memory[t].calls : toolCalls[c].turn = s} = RowsOf(s)
  BY <1>1, <1>2 DEF RowsOf
<1>5. Results(told[s]) = Cardinality(RowsOf(s))
  <2>1. Cardinality(RowsOf(s)) \in Nat
    BY <1>2, RowsOfFinite
  <2> QED
    BY <1>2, <1>3, <2>1 DEF Listed, Lost
<1>6. \A b \in DOMAIN told[s] : told[s][b].results = told[s][b].calls
  BY <1>2, <1>3 DEF Batched, Lost, Calling
<1>7. [b \in DOMAIN told[s] |-> told[s][b].results]
        = [b \in DOMAIN told[s] |-> told[s][b].calls]
  BY <1>6
<1>8. DOMAIN told[s] = 1 .. Len(told[s])
  BY <1>2
<1>9. Results(told[s]) = SumFunction([b \in DOMAIN told[s] |-> told[s][b].calls])
  BY <1>7, <1>8 DEF Results, SumFunction
<1> QED
  BY <1>2, <1>4, <1>5, <1>9

\* The last max_messages rows are shown in their order, whosever they are, and
\* each turn that was done when they were read, and is in them, is shown with
\* as many calls as its own provider was told of.
THEOREM TurnsAreRecalled == HistorySpec => []EarlierTurnsRecalled
<1>1. Inv /\ HistoryInv => EarlierTurnsRecalled
  <2> SUFFICES ASSUME Inv, HistoryInv, NEW t \in Asking
               PROVE
      /\ LET input == Input("openai", t)
             kept  == SubSeq(messages, Cut(t) + 1, memory[t].rows)
         IN  /\ Texts(input, Len(input)) = Len(kept) + 1
             /\ \A k \in DOMAIN input :
                  LET nth == Texts(input, k) IN
                  input[k].kind = "text" /\ nth <= Len(kept) =>
                    input[k] = Text(kept[nth].turn, kept[nth].role)
      /\ faults = 0 =>
           \A s \in memory[t].ended, provider \in Providers :
             (\A row \in 1 .. Cut(t) : messages[row].turn # s) =>
               Number(Input(provider, t), "call", s) =
                 SumFunction([b \in DOMAIN told[s] |-> told[s][b].calls])
    BY DEF EarlierTurnsRecalled
  <2>1. t \in Turn /\ Prepared(t) /\ Linked(t) /\ pc[t] # "done"
    BY AskingPrepared DEF Asking
  <2>2. LET input == Input("openai", t)
            kept  == SubSeq(messages, Cut(t) + 1, memory[t].rows)
        IN  /\ Texts(input, Len(input)) = Len(kept) + 1
            /\ \A k \in DOMAIN input :
                 LET nth == Texts(input, k) IN
                 input[k].kind = "text" /\ nth <= Len(kept) =>
                   input[k] = Text(kept[nth].turn, kept[nth].role)
    <3> DEFINE input == Input("openai", t)
               kept == SubSeq(messages, Cut(t) + 1, memory[t].rows)
               n == memory[t].rows - Cut(t)
    <3>1. /\ Texts(input, Len(input)) = n + 1
          /\ \A k \in DOMAIN input :
               input[k].kind = "text" /\ Texts(input, k) <= n =>
                 /\ Texts(input, k) \in 1 .. n
                 /\ input[k] = Text(messages[Cut(t) + Texts(input, k)].turn,
                                    messages[Cut(t) + Texts(input, k)].role)
      BY <2>1, WindowShown
    <3>2. Len(kept) = n /\ \A k \in 1 .. n : kept[k] = messages[Cut(t) + k]
      BY <2>1, KeptRows
    <3> HIDE DEF input, kept, n
    <3>3. Texts(input, Len(input)) = Len(kept) + 1
      BY <3>1, <3>2
    <3>4. ASSUME NEW k \in DOMAIN input, input[k].kind = "text",
                 Texts(input, k) <= Len(kept)
          PROVE  input[k] = Text(kept[Texts(input, k)].turn,
                                 kept[Texts(input, k)].role)
      <4>1. Texts(input, k) \in 1 .. n
        BY <3>1, <3>2, <3>4
      <4> QED
        BY <3>1, <3>2, <3>4, <4>1
    <3> QED
      BY <3>3, <3>4 DEF input, kept
  <2>3. ASSUME faults = 0, NEW s \in memory[t].ended, NEW provider \in Providers,
               \A row \in 1 .. Cut(t) : messages[row].turn # s
        PROVE  Number(Input(provider, t), "call", s) =
                 SumFunction([b \in DOMAIN told[s] |-> told[s][b].calls])
    <3>1. /\ s \in Turn \ {t}
          /\ Cardinality({c \in 1 .. memory[t].calls : toolCalls[c].turn = s})
               = SumFunction([b \in DOMAIN told[s] |-> told[s][b].calls])
      BY <2>1, <2>3, EndedTold
    <3>2. Number(Input(provider, t), "call", s) =
            Cardinality({c \in 1 .. memory[t].calls : toolCalls[c].turn = s})
      BY <2>1, <2>3, <3>1, CallsShown
    <3> QED
      BY <3>1, <3>2
  <2> QED
    BY <2>2, <2>3
<1> QED
  BY <1>1, HistoryInvariant, PTL

\* Turns that run beside each other, and read each other's rows, still link
\* their calls to their own messages and add their own statistics once.
THEOREM TurnsDoNotMix == HistorySpec => [](LinkedInTurn /\ StatsOncePerTurn)
<1>1. HistoryInit => StatsInv
  BY StatsInit DEF HistoryInit
<1>2. Inv /\ StatsInv /\ [HistoryNext]_historyVars => StatsInv'
  <2>1. [HistoryNext]_historyVars => [Next]_vars
    BY DEF HistoryNext, historyVars, Next
  <2> QED
    BY <2>1, StatsNext
<1>3. Inv => LinkedInTurn
  BY OwnedIsLinked DEF Inv
<1> QED
  BY <1>1, <1>2, <1>3, CountedIsOnce, HistoryInvariant, PTL DEF HistorySpec
=============================================================================
