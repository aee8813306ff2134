------------------------------ MODULE IngestProofs ------------------------------
(***************************************************************************)
(* Proofs about the chunker and what becomes of its chunks, for every      *)
(* document, size of chunk and overlap, and batch size.                    *)
(***************************************************************************)
EXTENDS Ingest, Sums, SequenceTheorems

N == Len(sentences)

\* The collected sentences above the target were seeded: the last one is all
\* that the window did not bring.
Collected ==
  /\ ~HasCurrent => tokens = 0
  /\ HasCurrent /\ tokens > ChunkSize => chunks # <<>> /\ next - 2 <= Recorded

\* What is collected repeats of the last chunk no more than the budget allows,
\* and at least a last sentence that fits it.
Seeded ==
  ~done /\ chunks # <<>> =>
    /\ Total(from, Recorded) <= ChunkOverlap
    /\ Recorded < N /\ sentences[Recorded] <= ChunkOverlap
         /\ ChunkOverlap <= ChunkSize => from <= Recorded

Straddled ==
  \A s \in 1 .. Recorded - 1 :
    sentences[s] <= ChunkOverlap /\ ChunkOverlap <= ChunkSize =>
      \E c \in 1 .. Len(chunks) : chunks[c].first <= s /\ s + 1 <= chunks[c].last

Full ==
  \A c \in 1 .. Len(chunks) :
    /\ chunks[c].last <= N
    /\ chunks[c].last < N =>
         chunks[c].token_count + sentences[chunks[c].last + 1] + 1 > ChunkSize
    /\ chunks[c].token_count > ChunkSize =>
         IF c = 1 THEN chunks[c].first = chunks[c].last
                  ELSE chunks[c].last - 1 <= chunks[c - 1].last

ChunkInv ==
  TypeOK /\ NothingLost /\ OverlapBounded /\ Collected /\ Seeded /\ Straddled
         /\ Full

\* No more vectors than chunks were asked for, and with as many the right ones.
Vectors(n) ==
  /\ Len(all_vectors) <= n
  /\ Len(all_vectors) = n => \A k \in 1 .. n : all_vectors[k] = k

EmbedInv ==
  /\ all_vectors \in Seq(Range(all_vectors)) /\ i \in Nat
  /\ stage \in {"chunk", "embed", "insert", "stored", "failed"}
  /\ stage = "chunk" => all_vectors = <<>> /\ i = 0
  /\ stage = "embed" => i < Len(chunks) /\ Vectors(i)
  /\ stage = "insert" => Vectors(Len(chunks))
  /\ stage = "stored" =>
       Len(rows) = Len(chunks) /\ \A k \in 1 .. Len(rows) : rows[k] = <<chunks[k], k>>
  /\ stage # "stored" => rows = <<>>

-----------------------------------------------------------------------------
\* Totals and the overlap window

LEMMA TotalNat ==
  ASSUME TypeOK, NEW first \in Nat \ {0}, NEW last \in Int, last <= N
  PROVE  Total(first, last) \in Nat
<1>1. \A k \in first .. last : sentences[k] \in Nat
  BY SizesAssumption DEF TypeOK, N
<1>2. IsFiniteSet(first .. last)
  BY FS_Interval
<1> QED
  BY <1>1, <1>2, SumNat DEF Total

LEMMA TotalEmpty ==
  ASSUME NEW first \in Int, NEW last \in Int, last < first
  PROVE  Total(first, last) = 0
<1>1. first .. last = {}
  OBVIOUS
<1> QED
  BY <1>1, SumEmpty DEF Total

LEMMA TotalOne ==
  ASSUME TypeOK, NEW s \in 1 .. N
  PROVE  Total(s, s) = sentences[s]
<1>1. s .. s = {} \cup {s} /\ sentences[s] \in Nat
  BY SizesAssumption DEF TypeOK, N
<1>2. SumFunctionOnSet(sentences, {} \cup {s})
        = sentences[s] + SumFunctionOnSet(sentences, {})
  BY <1>1, FS_EmptySet, SumAdd
<1> QED
  BY <1>1, <1>2, SumEmpty DEF Total

\* A set of numbers from a range has a least one.
LEMMA Least ==
  ASSUME NEW K \in SUBSET Nat, K # {}
  PROVE  \E k \in K : \A j \in K : k <= j
<1>1. PICK k \in K : \A j \in K : <<j, k>> \notin OpToRel(<, Nat)
  BY NatLessThanWellFounded, WFMin
<1>2. \A j \in K : ~(j < k)
  BY <1>1 DEF OpToRel
<1> QED
  BY <1>2

\* There is always a place for the window to start.
LEMMA WindowStarts ==
  ASSUME TypeOK, InLoop
  PROVE  /\ WindowStart \in from .. next
         /\ Total(WindowStart, next - 1) <= ChunkOverlap
         /\ \A j \in from .. WindowStart - 1 : Total(j, next - 1) > ChunkOverlap
<1> DEFINE K == {k \in from .. next : Total(k, next - 1) <= ChunkOverlap}
<1>1. from \in Nat \ {0} /\ next \in Nat /\ from <= next /\ next - 1 <= N
  BY DEF TypeOK, N
<1>2. Total(next, next - 1) = 0
  BY <1>1, TotalEmpty
<1>3. next \in K /\ K \in SUBSET Nat
  BY <1>1, <1>2, SizesAssumption
<1>4. PICK k \in K : \A j \in K : k <= j
  <2> HIDE DEF K
  <2> QED
    BY <1>3, Least
<1>5. \A j \in from .. k - 1 : Total(j, next - 1) > ChunkOverlap
  <2> TAKE j \in from .. k - 1
  <2>1. j \notin K /\ j \in from .. next
    BY <1>1, <1>3, <1>4
  <2>2. Total(j, next - 1) \in Nat
    BY <1>1, TotalNat
  <2> QED
    BY <2>1, <2>2, SizesAssumption
<1>6. \E w \in from .. next :
        /\ Total(w, next - 1) <= ChunkOverlap
        /\ \A j \in from .. w - 1 : Total(j, next - 1) > ChunkOverlap
  BY <1>4, <1>5
<1> QED
  BY <1>6 DEF WindowStart

-----------------------------------------------------------------------------
\* The chunker

LEMMA ChunkInit == Init => ChunkInv
<1> SUFFICES ASSUME Init PROVE ChunkInv
  OBVIOUS
<1>1. PICK n \in 0 .. MaxSentences : sentences \in [1 .. n -> 1 .. MaxTokens]
  BY DEF Init
<1>2. sentences \in Seq(1 .. MaxTokens) /\ N \in Nat
  BY <1>1, SizesAssumption DEF N
<1>3. /\ chunks = <<>> /\ Recorded = 0 /\ done = FALSE
      /\ from = 1 /\ next = 1 /\ tokens = 0 /\ char_cursor = 0
  BY DEF Init, Recorded
<1>4. TypeOK
  <2>1. Len(sentences) \in Nat /\ <<>> \in Seq(Chunk)
    BY <1>2 DEF N
  <2>2. next \in 1 .. Len(sentences) + 1 /\ from \in 1 .. next
    BY <1>3, <2>1
  <2>3. tokens \in Nat /\ char_cursor \in Nat /\ done \in BOOLEAN
    BY <1>3
  <2>4. chunks \in Seq(Chunk)
    BY <1>3, <2>1
  <2> QED
    BY <1>2, <2>2, <2>3, <2>4 DEF TypeOK
<1>5. Len(chunks) = 0 /\ 1 .. Recorded - 1 = {} /\ ~HasCurrent
  BY <1>3 DEF HasCurrent
<1>6. NothingLost /\ OverlapBounded
  BY <1>3, <1>5 DEF NothingLost, OverlapBounded
<1>7. Collected /\ Seeded /\ Straddled /\ Full
  BY <1>3, <1>5 DEF Collected, Seeded, Straddled, Full
<1> QED
  BY <1>4, <1>6, <1>7 DEF ChunkInv

\* What a chunk more changes of the list.
LEMMA Emitted ==
  ASSUME TypeOK, NEW last \in Nat, NEW count \in Nat, Emit(last, count)
  PROVE  /\ chunks' \in Seq(Chunk) /\ Len(chunks') = Len(chunks) + 1
         /\ Len(chunks) \in Nat
         /\ \A c \in 1 .. Len(chunks) : chunks'[c] = chunks[c]
         /\ chunks'[Len(chunks')].first = from
         /\ chunks'[Len(chunks')].last = last
         /\ chunks'[Len(chunks')].token_count = count
         /\ Recorded' = last
<1> DEFINE new == [first |-> from, last |-> last, token_count |-> count,
                   char_start |-> char_cursor]
<1>1. chunks \in Seq(Chunk) /\ new \in Chunk
  BY DEF TypeOK, Chunk
<1>2. /\ chunks' \in Seq(Chunk) /\ Len(chunks') = Len(chunks) + 1
      /\ Len(chunks) \in Nat
      /\ \A c \in 1 .. Len(chunks) : chunks'[c] = chunks[c]
      /\ chunks'[Len(chunks')] = new
  BY <1>1 DEF Emit
<1>3. chunks' # <<>>
  BY <1>2
<1> QED
  BY <1>2, <1>3 DEF Recorded

\* The last sentence recorded is one of the document.
LEMMA RecordedIn ==
  ASSUME ChunkInv
  PROVE  /\ Recorded \in 0 .. N /\ N \in Nat /\ chunks \in Seq(Chunk)
         /\ chunks = <<>> <=> Recorded = 0
         /\ \A c \in 1 .. Len(chunks) :
              /\ chunks[c].first \in Nat /\ chunks[c].last \in 1 .. N
              /\ chunks[c].token_count \in Nat
<1>1. chunks \in Seq(Chunk) /\ N \in Nat
  BY DEF ChunkInv, TypeOK, N
<1>2. ASSUME NEW c \in 1 .. Len(chunks)
      PROVE  /\ chunks[c].first \in Nat /\ chunks[c].last \in Nat
             /\ chunks[c].token_count \in Nat
  <2>1. chunks[c] \in Chunk
    BY <1>1
  <2> QED
    BY <2>1 DEF Chunk
<1>3. ASSUME NEW c \in 1 .. Len(chunks)
      PROVE  chunks[c].last \in 1 .. N
  <2>1. chunks[c].last <= N /\ chunks[c].last > (IF c = 1 THEN 0 ELSE chunks[c - 1].last)
    BY DEF ChunkInv, Full, NothingLost
  <2>2. c # 1 => chunks[c - 1].last \in Nat
    BY <1>1, <1>2
  <2> QED
    BY <1>1, <1>2, <2>1, <2>2
<1>4. chunks # <<>> => Len(chunks) \in 1 .. Len(chunks)
  BY <1>1
<1>5. Recorded \in 0 .. N /\ (chunks = <<>> <=> Recorded = 0)
  BY <1>1, <1>3, <1>4 DEF Recorded
<1> QED
  BY <1>1, <1>2, <1>3, <1>5

\* The list of NothingLost: each chunk joins on to the one before.
Listed ==
  \A c \in 1 .. Len(chunks) :
    LET before == IF c = 1 THEN 0 ELSE chunks[c - 1].last IN
    /\ chunks[c].first <= before + 1
    /\ chunks[c].last > before
    /\ chunks[c].last >= chunks[c].first

\* A chunk that joins on to the last one, brings something new and is filled
\* keeps what is known of the list.
LEMMA EmitKeeps ==
  ASSUME ChunkInv, ~done, UNCHANGED sentences,
         NEW last \in 1 .. N, NEW count \in Nat, Emit(last, count),
         from <= last, Recorded < last,
         last < N => count + sentences[last + 1] + 1 > ChunkSize,
         count > ChunkSize =>
           IF chunks = <<>> THEN from = last ELSE last - 1 <= Recorded
  PROVE  Listed' /\ OverlapBounded' /\ Straddled' /\ Full'
<1> DEFINE n == Len(chunks)
<1>1. /\ chunks' \in Seq(Chunk) /\ Len(chunks') = n + 1 /\ n \in Nat
      /\ \A c \in 1 .. n : chunks'[c] = chunks[c]
      /\ chunks'[n + 1].first = from /\ chunks'[n + 1].last = last
      /\ chunks'[n + 1].token_count = count
      /\ Recorded' = last
  <2>1. TypeOK /\ last \in Nat
    BY DEF ChunkInv
  <2> QED
    BY <2>1, Emitted
<1>2. /\ Recorded \in 0 .. N /\ N \in Nat
      /\ n = 0 <=> Recorded = 0
      /\ n # 0 => Recorded = chunks[n].last
      /\ \A c \in 1 .. n : /\ chunks[c].first \in Nat /\ chunks[c].last \in 1 .. N
                           /\ chunks[c].token_count \in Nat
  BY RecordedIn DEF Recorded
<1>3. from \in Nat /\ from <= Recorded + 1 /\ N' = N /\ sentences' = sentences
  BY DEF ChunkInv, TypeOK, NothingLost, N
<1>4. Listed'
  <2>1. Listed
    BY DEF ChunkInv, NothingLost, Listed
  <2>2. ASSUME NEW c \in 1 .. n + 1
        PROVE  LET before == IF c = 1 THEN 0 ELSE chunks'[c - 1].last IN
               /\ chunks'[c].first <= before + 1
               /\ chunks'[c].last > before
               /\ chunks'[c].last >= chunks'[c].first
    <3>1. CASE c <= n
      BY <1>1, <2>1, <3>1 DEF Listed
    <3>2. CASE c = n + 1
      BY <1>1, <1>2, <1>3, <3>2
    <3> QED
      BY <1>1, <3>1, <3>2
  <2> QED
    BY <1>1, <2>2 DEF Listed
<1>5. OverlapBounded'
  <2>1. OverlapBounded /\ (n # 0 => Total(from, Recorded) <= ChunkOverlap)
    BY <1>2 DEF ChunkInv, Seeded
  <2>2. \A a, b : Total(a, b)' = Total(a, b)
    BY <1>3 DEF Total
  <2>3. ASSUME NEW c \in 2 .. n + 1
        PROVE  Total(chunks'[c].first, chunks'[c - 1].last) <= ChunkOverlap
    <3>1. CASE c <= n
      BY <1>1, <2>1, <3>1 DEF OverlapBounded
    <3>2. CASE c = n + 1
      BY <1>1, <1>2, <2>1, <3>2
    <3> QED
      BY <1>1, <3>1, <3>2
  <2> QED
    BY <1>1, <1>3, <2>3 DEF OverlapBounded, Total
<1>6. Straddled'
  <2>1. ASSUME NEW s \in 1 .. last - 1,
               sentences[s] <= ChunkOverlap /\ ChunkOverlap <= ChunkSize
        PROVE  \E c \in 1 .. n + 1 : chunks'[c].first <= s /\ s + 1 <= chunks'[c].last
    <3>1. CASE s < Recorded
      <4>1. PICK c \in 1 .. n : chunks[c].first <= s /\ s + 1 <= chunks[c].last
        BY <1>2, <2>1, <3>1 DEF ChunkInv, Straddled
      <4> QED
        BY <1>1, <4>1
    <3>2. CASE s >= Recorded
      <4>1. from <= s
        <5>1. CASE s = Recorded
          BY <1>2, <2>1, <5>1 DEF ChunkInv, Seeded
        <5>2. CASE s > Recorded
          BY <1>2, <1>3, <5>2
        <5> QED
          BY <1>2, <3>2, <5>1, <5>2
      <4> QED
        BY <1>1, <4>1
    <3> QED
      BY <1>2, <3>1, <3>2
  <2> QED
    BY <1>1, <1>3, <2>1 DEF Straddled
<1>7. Full'
  <2>1. Full
    BY DEF ChunkInv
  <2>2. ASSUME NEW c \in 1 .. n + 1
        PROVE  /\ chunks'[c].last <= N
               /\ chunks'[c].last < N =>
                    chunks'[c].token_count + sentences[chunks'[c].last + 1] + 1 > ChunkSize
               /\ chunks'[c].token_count > ChunkSize =>
                    IF c = 1 THEN chunks'[c].first = chunks'[c].last
                             ELSE chunks'[c].last - 1 <= chunks'[c - 1].last
    <3>1. CASE c <= n
      BY <1>1, <2>1, <3>1 DEF Full
    <3>2. CASE c = n + 1
      BY <1>1, <1>2, <3>2
    <3> QED
      BY <1>1, <3>1, <3>2
  <2> QED
    BY <1>1, <1>3, <2>2 DEF Full
<1> QED
  BY <1>4, <1>5, <1>6, <1>7

\* The loop is at a sentence of the document.
LEMMA Looping ==
  ASSUME ChunkInv, InLoop
  PROVE  /\ N \in Nat /\ next \in 1 .. N /\ from \in 1 .. next /\ ~done
         /\ tokens \in Nat /\ char_cursor \in Nat
         /\ \A k \in 1 .. N : sentences[k] \in Nat \ {0}
<1>1. TypeOK /\ InLoop
  BY DEF ChunkInv
<1>2. sentences \in Seq(1 .. MaxTokens) /\ N = Len(sentences)
  BY <1>1 DEF TypeOK, N
<1>3. \A k \in 1 .. Len(sentences) : sentences[k] \in 1 .. MaxTokens
  BY <1>2, ElementOfSeq
<1> QED
  BY <1>1, <1>2, <1>3, SizesAssumption DEF TypeOK, InLoop

LEMMA OversizedKeeps == ChunkInv /\ Oversized => ChunkInv'
<1> SUFFICES ASSUME ChunkInv, Oversized PROVE ChunkInv'
  OBVIOUS
<1>1. /\ from = next /\ next \in 1 .. N /\ next = Recorded + 1 /\ N \in Nat
      /\ tokens = 0 /\ ~done
      /\ sentences[next] \in Nat /\ sentences[next] > ChunkSize
  <2>1. InLoop /\ sentences[next] > ChunkSize /\ ~HasCurrent
    BY DEF Oversized
  <2>2. /\ N \in Nat /\ next \in 1 .. N /\ from \in 1 .. next /\ ~done
        /\ sentences[next] \in Nat
    BY <2>1, Looping
  <2>3. next = Recorded + 1 /\ tokens = 0
    BY <2>1, <2>2 DEF ChunkInv, NothingLost, Collected
  <2> QED
    BY <2>1, <2>2, <2>3 DEF HasCurrent
<1>2. /\ Emit(next, sentences[next])
      /\ next' = next + 1 /\ from' = next + 1 /\ char_cursor' = char_cursor + 1
      /\ UNCHANGED <<sentences, tokens, done>>
  BY DEF Oversized
<1>3. \A k \in 1 .. N : sentences[k] \in Nat
  BY Looping DEF Oversized
<1>4. Listed' /\ OverlapBounded' /\ Straddled' /\ Full'
  <2>1. next < N => sentences[next] + sentences[next + 1] + 1 > ChunkSize
    BY <1>1, <1>3, SizesAssumption
  <2>2. Recorded \in Nat
    BY RecordedIn
  <2>3. IF chunks = <<>> THEN from = next ELSE next - 1 <= Recorded
    BY <1>1, <2>2
  <2>4. from <= next /\ Recorded < next
    BY <1>1, <2>2
  <2> QED
    BY <1>1, <1>2, <2>1, <2>3, <2>4, EmitKeeps
<1>5. chunks' \in Seq(Chunk) /\ Recorded' = next /\ chunks' # <<>>
  <2>1. TypeOK
    BY DEF ChunkInv
  <2> QED
    BY <1>1, <1>2, <2>1, Emitted
<1>6. TypeOK'
  BY <1>1, <1>2, <1>5 DEF ChunkInv, TypeOK, N
<1>7. NothingLost' /\ Collected'
  BY <1>1, <1>2, <1>4, <1>5 DEF Listed, NothingLost, Collected, HasCurrent
<1>8. Seeded'
  <2>1. Total(next + 1, next) = 0
    BY <1>1, TotalEmpty
  <2>2. Total(from, Recorded)' <= ChunkOverlap
    BY <1>2, <1>5, <2>1, SizesAssumption DEF Total
  <2>3. ~(sentences[next] <= ChunkOverlap /\ ChunkOverlap <= ChunkSize)
    BY <1>1, SizesAssumption
  <2> QED
    BY <1>2, <1>5, <2>2, <2>3 DEF Seeded
<1> QED
  BY <1>4, <1>6, <1>7, <1>8 DEF ChunkInv

LEMMA CollectKeeps == ChunkInv /\ Collect => ChunkInv'
<1> SUFFICES ASSUME ChunkInv, Collect PROVE ChunkInv'
  OBVIOUS
<1>1. /\ next \in 1 .. N /\ from \in 1 .. next /\ N \in Nat /\ ~done
      /\ tokens \in Nat /\ sentences[next] \in Nat
      /\ UNCHANGED <<sentences, from, char_cursor, chunks, done>>
      /\ next' = next + 1
      /\ tokens' = tokens + sentences[next] + (IF HasCurrent THEN 1 ELSE 0)
  BY Looping DEF Collect
<1>2. Recorded' = Recorded /\ N' = N /\ Recorded \in 0 .. N
  BY <1>1, RecordedIn DEF Recorded, N
<1>3. TypeOK'
  BY <1>1 DEF ChunkInv, TypeOK, N
<1>4. NothingLost'
  BY <1>1, <1>2 DEF ChunkInv, NothingLost, HasCurrent
<1>5. OverlapBounded' /\ Seeded' /\ Straddled' /\ Full'
  <2>1. \A a, b : Total(a, b)' = Total(a, b)
    BY <1>1 DEF Total
  <2> QED
    BY <1>1, <1>2, <2>1 DEF ChunkInv, OverlapBounded, Seeded, Straddled, Full
<1>6. Collected'
  <2>1. HasCurrent'
    BY <1>1 DEF HasCurrent
  <2>2. tokens' <= ChunkSize
    BY <1>1, SizesAssumption DEF Collect, Overflows, HasCurrent, ChunkInv, Collected
  <2> QED
    BY <1>1, <2>1, <2>2, SizesAssumption DEF Collected
<1> QED
  BY <1>3, <1>4, <1>5, <1>6 DEF ChunkInv

\* What is collected when it is recorded: it joins on and brings something new.
LEMMA Current ==
  ASSUME ChunkInv, HasCurrent, ~done
  PROVE  /\ next - 1 \in 1 .. N /\ from \in 1 .. next - 1
         /\ Recorded \in Nat /\ Recorded < next - 1 /\ tokens \in Nat
         /\ tokens > ChunkSize =>
              IF chunks = <<>> THEN from = next - 1 ELSE next - 2 <= Recorded
  BY RecordedIn DEF ChunkInv, TypeOK, NothingLost, Collected, HasCurrent, N

LEMMA FlushKeeps == ChunkInv /\ Flush => ChunkInv'
<1> SUFFICES ASSUME ChunkInv, Flush PROVE ChunkInv'
  OBVIOUS
<1> DEFINE w == WindowStart
<1>1. /\ InLoop /\ HasCurrent /\ tokens + sentences[next] + 1 > ChunkSize
      /\ Emit(next - 1, tokens)
      /\ char_cursor' = char_cursor + (next - from)
      /\ from' = w /\ next' = next + 1
      /\ tokens' = Total(w, next - 1) + sentences[next] + (IF w < next THEN 1 ELSE 0)
      /\ UNCHANGED <<sentences, done>>
  BY DEF Flush, Overflows
<1>2. /\ N \in Nat /\ next \in 1 .. N /\ from \in 1 .. next /\ ~done
      /\ char_cursor \in Nat /\ \A k \in 1 .. N : sentences[k] \in Nat
  BY <1>1, Looping
<1>3. /\ next - 1 \in 1 .. N /\ from \in 1 .. next - 1
      /\ Recorded \in Nat /\ Recorded < next - 1 /\ tokens \in Nat
      /\ tokens > ChunkSize =>
           IF chunks = <<>> THEN from = next - 1 ELSE next - 2 <= Recorded
  BY <1>1, <1>2, Current
<1>4. /\ w \in from .. next /\ Total(w, next - 1) <= ChunkOverlap
      /\ \A j \in from .. w - 1 : Total(j, next - 1) > ChunkOverlap
  BY <1>1, WindowStarts DEF ChunkInv
<1> HIDE DEF w
<1>5. Listed' /\ OverlapBounded' /\ Straddled' /\ Full'
  <2>1. (next - 1) + 1 = next /\ (next - 1) - 1 = next - 2
    BY <1>2
  <2> DEFINE last == next - 1
  <2>2. /\ last \in 1 .. N /\ from <= last /\ Recorded < last
        /\ last < N => tokens + sentences[last + 1] + 1 > ChunkSize
        /\ tokens > ChunkSize =>
             IF chunks = <<>> THEN from = last ELSE last - 1 <= Recorded
        /\ Emit(last, tokens)
    BY <1>1, <1>3, <2>1
  <2> HIDE DEF last
  <2> QED
    BY <1>1, <1>2, <1>3, <2>2, EmitKeeps
<1>6. chunks' \in Seq(Chunk) /\ Recorded' = next - 1 /\ chunks' # <<>>
  <2>1. TypeOK /\ next - 1 \in Nat
    BY <1>3 DEF ChunkInv
  <2> QED
    BY <1>1, <1>3, <2>1, Emitted
<1>7. TypeOK'
  <2>1. Total(w, next - 1) \in Nat
    BY <1>2, <1>4, TotalNat DEF ChunkInv
  <2>2. tokens' \in Nat /\ char_cursor' \in Nat
    BY <1>1, <1>2, <2>1
  <2> QED
    BY <1>1, <1>2, <1>4, <1>6, <2>2 DEF ChunkInv, TypeOK, N
<1>8. NothingLost'
  BY <1>1, <1>2, <1>4, <1>5, <1>6 DEF Listed, NothingLost, HasCurrent
<1>9. Collected'
  BY <1>1, <1>2, <1>4, <1>6 DEF Collected, HasCurrent
<1>10. Seeded'
  <2>1. Total(from, Recorded)' <= ChunkOverlap
    BY <1>1, <1>4, <1>6 DEF Total
  <2>2. sentences[next - 1] <= ChunkOverlap => w <= next - 1
    <3>1. Total(next - 1, next - 1) = sentences[next - 1]
      BY <1>3, TotalOne DEF ChunkInv
    <3>2. w = next => Total(next - 1, next - 1) > ChunkOverlap
      BY <1>2, <1>3, <1>4
    <3> QED
      BY <1>2, <1>3, <1>4, <3>1, <3>2, SizesAssumption
  <2> QED
    BY <1>1, <1>6, <2>1, <2>2 DEF Seeded
<1> QED
  BY <1>5, <1>7, <1>8, <1>9, <1>10 DEF ChunkInv

LEMMA FinishKeeps == ChunkInv /\ Finish => ChunkInv'
<1> SUFFICES ASSUME ChunkInv, Finish PROVE ChunkInv'
  OBVIOUS
<1>1. /\ ~done /\ next > N /\ done'
      /\ UNCHANGED <<sentences, next, from, tokens, char_cursor>>
      /\ N \in Nat /\ next \in Nat /\ from \in Nat /\ next = N + 1 /\ N' = N
      /\ TypeOK
  BY DEF Finish, ChunkInv, TypeOK, N
<1>2. CASE HasCurrent
  <2> DEFINE last == next - 1
  <2>1. /\ last \in 1 .. N /\ from <= last /\ Recorded < last /\ tokens \in Nat
        /\ tokens > ChunkSize =>
             IF chunks = <<>> THEN from = last ELSE last - 1 <= Recorded
        /\ last = N /\ Emit(last, tokens)
    <3>1. /\ next - 1 \in 1 .. N /\ from \in 1 .. next - 1
          /\ Recorded \in Nat /\ Recorded < next - 1 /\ tokens \in Nat
          /\ tokens > ChunkSize =>
               IF chunks = <<>> THEN from = next - 1 ELSE next - 2 <= Recorded
      BY <1>1, <1>2, Current
    <3>2. Emit(next - 1, tokens)
      BY <1>2 DEF Finish
    <3> QED
      BY <1>1, <3>1, <3>2
  <2> HIDE DEF last
  <2>2. Listed' /\ OverlapBounded' /\ Straddled' /\ Full'
    BY <1>1, <2>1, EmitKeeps
  <2>3. chunks' \in Seq(Chunk) /\ Recorded' = N /\ chunks' # <<>>
    BY <1>1, <2>1, Emitted
  <2>4. TypeOK' /\ Seeded'
    BY <1>1, <2>3 DEF TypeOK, Seeded
  <2>5. NothingLost' /\ Collected'
    BY <1>1, <1>2, <2>1, <2>2, <2>3
    DEF Listed, NothingLost, N, ChunkInv, Collected, HasCurrent
  <2> QED
    BY <2>2, <2>4, <2>5 DEF ChunkInv
<1>3. CASE ~HasCurrent
  <2>1. UNCHANGED chunks /\ Recorded' = Recorded /\ Recorded = N
    BY <1>1, <1>3, RecordedIn DEF Finish, ChunkInv, NothingLost, Recorded
  <2>2. TypeOK' /\ Seeded'
    BY <1>1, <2>1 DEF TypeOK, Seeded
  <2>3. OverlapBounded' /\ Straddled' /\ Full'
    BY <1>1, <2>1 DEF ChunkInv, OverlapBounded, Straddled, Full, Total
  <2>4. NothingLost' /\ Collected'
    BY <1>1, <1>3, <2>1 DEF ChunkInv, NothingLost, N, Collected, HasCurrent
  <2> QED
    BY <2>2, <2>3, <2>4 DEF ChunkInv
<1> QED
  BY <1>2, <1>3

LEMMA ChunkNext == ChunkInv /\ [IngestNext]_ingestVars => ChunkInv'
<1> SUFFICES ASSUME ChunkInv, [IngestNext]_ingestVars PROVE ChunkInv'
  OBVIOUS
<1>1. CASE Next
  BY <1>1, OversizedKeeps, CollectKeeps, FlushKeeps, FinishKeeps DEF Next
<1>2. CASE UNCHANGED vars
  <2>1. UNCHANGED <<Recorded, N>> /\ \A a, b : Total(a, b)' = Total(a, b)
    BY <1>2 DEF vars, Recorded, N, Total
  <2> QED
    BY <1>2, <2>1 DEF vars, ChunkInv, TypeOK, NothingLost, OverlapBounded,
       Collected, Seeded, Straddled, Full, HasCurrent
<1>3. Next \/ UNCHANGED vars
  BY DEF IngestNext, Chunking, Chunked, BatchArrives, Retry, EmbedFails, Insert,
     ingestVars
<1> QED
  BY <1>1, <1>2, <1>3

LEMMA ChunkInvariant == IngestSpec => []ChunkInv
<1>1. IngestInit => ChunkInv
  BY ChunkInit DEF IngestInit
<1> QED
  BY <1>1, ChunkNext, PTL DEF IngestSpec

\* The loop's state has its types for every document.
THEOREM ChunkerTypes == IngestSpec => []TypeOK
<1>1. ChunkInv => TypeOK
  BY DEF ChunkInv
<1> QED
  BY <1>1, ChunkInvariant, PTL

\* Every sentence of every document is in a chunk, and each chunk joins on to
\* the one before and brings something new.
THEOREM NoSentenceIsLost == IngestSpec => []NothingLost
<1>1. ChunkInv => NothingLost
  BY DEF ChunkInv
<1> QED
  BY <1>1, ChunkInvariant, PTL

\* Two neighbours, of which the first fits the overlap, are together in some
\* chunk, for every size of chunk and overlap.
THEOREM NeighboursStayTogether == IngestSpec => []StraddlesKept
<1>1. ChunkInv => StraddlesKept
  <2> SUFFICES ASSUME ChunkInv, done, NEW s \in 1 .. Len(sentences) - 1,
                      sentences[s] <= ChunkOverlap /\ ChunkOverlap <= ChunkSize
               PROVE  \E c \in 1 .. Len(chunks) :
                        chunks[c].first <= s /\ s + 1 <= chunks[c].last
    BY DEF StraddlesKept
  <2>1. Recorded = Len(sentences) /\ Straddled
    BY DEF ChunkInv, NothingLost
  <2> QED
    BY <2>1 DEF Straddled
<1> QED
  BY <1>1, ChunkInvariant, PTL

\* A chunk never starts with more of the one before than the budget allows.
THEOREM OverlapsFit == IngestSpec => []OverlapBounded
<1>1. ChunkInv => OverlapBounded
  BY DEF ChunkInv
<1> QED
  BY <1>1, ChunkInvariant, PTL

\* No chunk but the last had room for the next sentence, and one above the
\* target holds a single sentence that the chunk before does not.
THEOREM ChunksAreFilled == IngestSpec => []GreedilyFilled
<1>1. ChunkInv => GreedilyFilled
  <2> SUFFICES ASSUME ChunkInv, NEW c \in 1 .. Len(chunks)
               PROVE  /\ c < Len(chunks) =>
                           chunks[c].token_count + sentences[chunks[c].last + 1] + 1
                             > ChunkSize
                      /\ chunks[c].token_count > ChunkSize =>
                           IF c = 1 THEN chunks[c].first = chunks[c].last
                                    ELSE chunks[c].last - 1 <= chunks[c - 1].last
    BY DEF GreedilyFilled
  <2>1. /\ N \in Nat /\ Len(chunks) \in Nat
        /\ \A k \in 1 .. Len(chunks) : chunks[k].last \in 1 .. N
    <3>1. chunks \in Seq(Chunk)
      BY RecordedIn
    <3> QED
      BY <3>1, RecordedIn
  <2>2. c < Len(chunks) => chunks[c + 1].last > chunks[c].last
    <3>1. ChunkInv /\ c + 1 # 1 /\ (c + 1) - 1 = c
      OBVIOUS
    <3> QED
      BY <2>1, <3>1 DEF ChunkInv, NothingLost
  <2>3. c < Len(chunks) => chunks[c].last < N
    BY <2>1, <2>2
  <2> QED
    BY <2>3 DEF ChunkInv, Full
<1> QED
  BY <1>1, ChunkInvariant, PTL

-----------------------------------------------------------------------------
\* The vectors

\* Where the batch under way ends.
End == IF i + BATCH_SIZE < Len(chunks) THEN i + BATCH_SIZE ELSE Len(chunks)

\* An answer has at most as many items as were asked for, and one that has as
\* many is, once sorted, the batch from its first chunk to its last.
LEMMA SortedBatch ==
  ASSUME i \in Nat, Len(chunks) \in Nat, i < Len(chunks), NEW r \in Responses
  PROVE  /\ Len(r) \in Nat /\ Len(r) <= End - i /\ End \in Nat /\ i < End
         /\ Sorted(r) \in [1 .. Len(r) -> Range(Sorted(r))]
         /\ Len(r) = End - i => \A j \in 1 .. Len(r) : Sorted(r)[j] = i + j
<1>1. End \in Nat /\ i < End /\ Batch = i + 1 .. End
  BY BatchAssumption DEF End, Batch
<1>2. IsFiniteSet(Batch) /\ Cardinality(Batch) = End - i
  <2>1. i + 1 \in Int /\ End \in Int /\ ~(i + 1 > End) /\ End - (i + 1) + 1 = End - i
    BY <1>1
  <2> QED
    BY <1>1, <2>1, FS_Interval
<1>3. PICK S \in SUBSET Batch : r \in SetToSeqs(S)
  BY DEF Responses
<1> DEFINE n == Cardinality(S)
<1>4. IsFiniteSet(S) /\ n \in Nat /\ n <= End - i
  BY <1>2, FS_Subset, FS_CardinalityType
<1>5. r \in [1 .. n -> S] /\ \A a, b \in 1 .. n : a # b => r[a] # r[b]
  BY <1>3 DEF SetToSeqs
<1> HIDE DEF n
<1>6. Len(r) = n /\ DOMAIN r = 1 .. n
  BY <1>4, <1>5
<1>7. Sorted(r) \in [1 .. Len(r) -> Range(Sorted(r))]
  BY <1>6 DEF Sorted, Range
<1>8. ASSUME n = End - i, NEW j \in 1 .. n
      PROVE  Sorted(r)[j] = i + j
  <2>1. r \in Injection(1 .. n, Batch)
    BY <1>5 DEF Injection, IsInjective
  <2>2. Cardinality(1 .. n) = n
    BY <1>4, FS_Interval
  <2>3. r \in Surjection(1 .. n, Batch)
    BY <1>2, <1>8, <2>1, <2>2, FS_Injection
  <2>4. ToSet(r) = Batch
    BY <1>6, <2>3 DEF Surjection, ToSet
  <2>5. \A item \in Batch :
          Cardinality({other \in ToSet(r) : other <= item}) = item - i
    <3> TAKE item \in Batch
    <3>1. {other \in ToSet(r) : other <= item} = i + 1 .. item
      BY <1>1, <2>4
    <3>2. i + 1 \in Int /\ item \in Int /\ ~(i + 1 > item)
          /\ item - (i + 1) + 1 = item - i
      BY <1>1
    <3> QED
      BY <3>1, <3>2, FS_Interval
  <2>6. /\ i + j \in Batch
        /\ \A item \in Batch : item - i = j <=> item = i + j
    BY <1>1, <1>8
  <2>7. (CHOOSE item \in ToSet(r) :
           Cardinality({other \in ToSet(r) : other <= item}) = j) = i + j
    BY <2>4, <2>5, <2>6
  <2> QED
    BY <1>6, <2>7 DEF Sorted
<1> QED
  BY <1>1, <1>4, <1>6, <1>7, <1>8

LEMMA EmbedInit == IngestInit => EmbedInv
  BY DEF IngestInit, EmbedInv

\* One more batch.
LEMMA BatchKeeps ==
  ASSUME ChunkInv, EmbedInv, BatchArrives
  PROVE  EmbedInv'
<1>1. /\ stage = "embed" /\ i < Len(chunks) /\ Vectors(i) /\ rows = <<>>
      /\ all_vectors \in Seq(Range(all_vectors)) /\ i \in Nat
      /\ Len(chunks) \in Nat
  BY RecordedIn DEF BatchArrives, EmbedInv
<1>2. PICK r \in Responses : all_vectors' = all_vectors \o Sorted(r)
  BY DEF BatchArrives
<1>3. /\ i' = i + BATCH_SIZE /\ UNCHANGED <<rows, chunks>>
      /\ stage' = IF i' < Len(chunks) THEN "embed" ELSE "insert"
  BY DEF BatchArrives, NextBatch, vars
<1>4. /\ Len(r) \in Nat /\ Len(r) <= End - i /\ End \in Nat /\ i < End
      /\ Sorted(r) \in [1 .. Len(r) -> Range(Sorted(r))]
      /\ Len(r) = End - i => \A j \in 1 .. Len(r) : Sorted(r)[j] = i + j
  BY <1>1, SortedBatch
<1> DEFINE m == Len(all_vectors)
           both == Range(all_vectors) \cup Range(Sorted(r))
<1>5. Sorted(r) \in Seq(Range(Sorted(r))) /\ Len(Sorted(r)) = Len(r)
  BY <1>4
<1>6. /\ m \in Nat /\ Len(all_vectors') = m + Len(r)
      /\ all_vectors' \in Seq(both)
      /\ \A k \in 1 .. m : all_vectors'[k] = all_vectors[k]
      /\ \A j \in 1 .. Len(r) : all_vectors'[m + j] = Sorted(r)[j]
  <2>1. all_vectors \in Seq(both) /\ Sorted(r) \in Seq(both)
    BY <1>1, <1>5
  <2> HIDE DEF both
  <2>2. /\ all_vectors' \in Seq(both) /\ m \in Nat
        /\ Len(all_vectors') = m + Len(r)
        /\ \A k \in 1 .. m + Len(r) :
             all_vectors'[k] = IF k <= m THEN all_vectors[k] ELSE Sorted(r)[k - m]
    <3> DEFINE joined == all_vectors \o Sorted(r)
    <3>1. /\ joined \in Seq(both)
          /\ Len(joined) = Len(all_vectors) + Len(Sorted(r))
          /\ \A k \in 1 .. Len(all_vectors) + Len(Sorted(r)) :
               joined[k] = IF k <= Len(all_vectors) THEN all_vectors[k]
                           ELSE Sorted(r)[k - Len(all_vectors)]
      BY <2>1, ConcatProperties
    <3>2. m \in Nat
      BY <2>1, LenProperties
    <3> HIDE DEF joined
    <3>3. all_vectors' = joined
      BY <1>2 DEF joined
    <3> QED
      BY <1>5, <3>1, <3>2, <3>3
  <2>3. \A j \in 1 .. Len(r) : /\ m + j \in 1 .. m + Len(r) /\ ~(m + j <= m)
                              /\ (m + j) - m = j
    BY <1>4, <2>2
  <2>4. \A k \in 1 .. m : k \in 1 .. m + Len(r) /\ k <= m
    BY <1>4, <2>2
  <2> QED
    BY <2>2, <2>3, <2>4
<1>7. all_vectors' \in Seq(Range(all_vectors'))
  <2> HIDE DEF both
  <2> QED
    BY <1>6 DEF Range
<1>8. Len(all_vectors') <= End
  BY <1>1, <1>4, <1>6 DEF Vectors
<1>9. ASSUME Len(all_vectors') = End, NEW k \in 1 .. End
      PROVE  all_vectors'[k] = k
  <2>1. m = i /\ Len(r) = End - i
    BY <1>1, <1>4, <1>6, <1>9 DEF Vectors
  <2>2. CASE k <= m
    BY <1>1, <1>6, <2>1, <2>2 DEF Vectors
  <2>3. CASE k > m
    <3>1. k - m \in 1 .. Len(r) /\ m + (k - m) = k
      BY <1>4, <1>6, <2>1, <2>3
    <3> QED
      BY <1>4, <1>6, <2>1, <3>1
  <2> QED
    BY <1>6, <2>2, <2>3
<1>10. PICK e \in Nat : /\ Vectors(e)'
                       /\ e = IF i' < Len(chunks) THEN i' ELSE Len(chunks)
  <2>1. End = IF i' < Len(chunks) THEN i' ELSE Len(chunks)
    BY <1>3 DEF End
  <2>2. PICK e \in Nat : e = End
    BY <1>4
  <2>3. Vectors(e)'
    BY <1>8, <1>9, <2>2 DEF Vectors
  <2> QED
    BY <2>1, <2>2, <2>3
<1>11. i' \in Nat
  BY <1>1, <1>3, BatchAssumption
<1>12. Vectors(i)' \/ ~(i' < Len(chunks))
  BY <1>10 DEF Vectors
<1>13. Vectors(Len(chunks))' \/ i' < Len(chunks)
  BY <1>3, <1>10 DEF Vectors
<1> QED
  BY <1>1, <1>3, <1>7, <1>11, <1>12, <1>13 DEF EmbedInv

\* One row for each chunk, if there is one vector for each.
LEMMA InsertKeeps ==
  ASSUME ChunkInv, EmbedInv, Insert
  PROVE  EmbedInv'
<1>1. /\ stage = "insert" /\ Vectors(Len(chunks)) /\ rows = <<>>
      /\ all_vectors \in Seq(Range(all_vectors)) /\ i \in Nat
      /\ Len(chunks) \in Nat
      /\ UNCHANGED <<chunks, all_vectors, i>>
  BY RecordedIn DEF Insert, EmbedInv, vars, embedding
<1>2. CASE Len(all_vectors) = Len(chunks)
  <2>1. rows' = [k \in 1 .. Len(chunks) |-> <<chunks[k], all_vectors[k]>>]
    BY <1>2 DEF Insert, Zip
  <2>2. Len(rows') = Len(chunks) /\ stage' = "stored"
    BY <1>1, <1>2, <2>1 DEF Insert
  <2>3. \A k \in 1 .. Len(chunks) : rows'[k] = <<chunks[k], k>>
    BY <1>1, <1>2, <2>1 DEF Vectors
  <2> QED
    BY <1>1, <2>2, <2>3 DEF EmbedInv
<1>3. CASE Len(all_vectors) # Len(chunks)
  BY <1>1, <1>3 DEF Insert, EmbedInv
<1> QED
  BY <1>2, <1>3

LEMMA EmbedNext ==
  ChunkInv /\ EmbedInv /\ [IngestNext]_ingestVars => EmbedInv'
<1> SUFFICES ASSUME ChunkInv, EmbedInv, [IngestNext]_ingestVars PROVE EmbedInv'
  OBVIOUS
<1> USE DEF embedding, vars
<1>1. CASE Chunking
  BY <1>1 DEF Chunking, EmbedInv
<1>2. CASE Chunked
  <2>1. /\ stage = "chunk" /\ UNCHANGED <<chunks, all_vectors, i, rows>>
        /\ stage' = IF chunks = <<>> THEN "failed" ELSE "embed"
        /\ chunks \in Seq(Chunk)
    BY <1>2, RecordedIn DEF Chunked
  <2>2. chunks # <<>> => Len(chunks) \in Nat \ {0}
    BY <2>1
  <2>3. all_vectors = <<>> /\ i = 0 /\ rows = <<>>
    BY <2>1 DEF EmbedInv
  <2>4. Vectors(0)
    BY <2>3 DEF Vectors
  <2> QED
    BY <2>1, <2>2, <2>3, <2>4 DEF EmbedInv, Vectors
<1>3. CASE BatchArrives
  BY <1>3, BatchKeeps
<1>4. CASE Retry \/ EmbedFails
  BY <1>4 DEF Retry, EmbedFails, EmbedInv, Vectors
<1>5. CASE Insert
  BY <1>5, InsertKeeps
<1>6. CASE UNCHANGED ingestVars
  BY <1>6 DEF ingestVars, EmbedInv, Vectors
<1> QED
  BY <1>1, <1>2, <1>3, <1>4, <1>5, <1>6 DEF IngestNext

\* Each row has the vector of its own chunk and a stored document has all of
\* its chunks, for every number of batches and however their items are sent.
THEOREM RowsHaveTheirVectors == IngestSpec => []OwnVectors
<1>1. ChunkInv /\ EmbedInv => OwnVectors
  <2> SUFFICES ASSUME ChunkInv, EmbedInv PROVE OwnVectors
    OBVIOUS
  <2>1. stage # "stored" => Len(rows) = 0
    BY DEF EmbedInv
  <2> QED
    BY <2>1 DEF EmbedInv, OwnVectors
<1> QED
  BY <1>1, ChunkInvariant, EmbedInit, EmbedNext, PTL DEF IngestSpec
=============================================================================
