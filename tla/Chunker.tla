-------------------------------- MODULE Chunker --------------------------------
(***************************************************************************)
(* chunk_text of app/rag/chunker.py: the loop that groups the sentences of *)
(* a document into chunks, each seeded with the end of the one before.     *)
(* A sentence is its number of tokens, a chunk the range of sentences it   *)
(* joins; the splitting of the text and the tokenizer are left out.        *)
(* char_cursor counts sentences passed, each with its separator.           *)
(***************************************************************************)
EXTENDS Integers, Sequences, Functions

CONSTANTS ChunkSize,      \* chunk_size: the target, in tokens
          ChunkOverlap,   \* chunk_overlap: the tokens repeated, at most
          MaxSentences,   \* bound: sentences of a document
          MaxTokens       \* bound: tokens of a sentence

ASSUME SizesAssumption ==
  /\ ChunkSize \in Nat \ {0} /\ ChunkOverlap \in Nat
  /\ MaxSentences \in Nat /\ MaxTokens \in Nat \ {0}

VARIABLES sentences,    \* the tokens of each sentence
          next,         \* the sentence the loop is at; past the last, the flush
          from,         \* current_sentences is from .. next - 1
          tokens,       \* current_token_count
          char_cursor,
          chunks,       \* the list returned
          done

vars == <<sentences, next, from, tokens, char_cursor, chunks, done>>

Chunk == [first : Nat, last : Nat, token_count : Nat, char_start : Nat]

\* The tokens of the sentences first .. last, without joining spaces.
Total(first, last) == SumFunctionOnSet(sentences, first .. last)

Init ==
  /\ sentences \in UNION {[1 .. n -> 1 .. MaxTokens] : n \in 0 .. MaxSentences}
  /\ next = 1 /\ from = 1 /\ tokens = 0 /\ char_cursor = 0
  /\ chunks = <<>>
  /\ done = FALSE

HasCurrent == from < next
InLoop == ~done /\ next <= Len(sentences)

\* Mutant: the offset of a chunk is taken one too low.
EmitOffByOne(last, count) ==
  chunks' = Append(chunks, [first |-> from, last |-> last, token_count |-> count,
                            char_start |-> char_cursor - 1])

\* The chunk of the sentences from .. last.
Emit(last, count) ==
  chunks' = Append(chunks, [first |-> from, last |-> last, token_count |-> count,
                            char_start |-> char_cursor])

\* A sentence larger than a chunk, with nothing collected: a chunk of its own.
Oversized ==
  /\ InLoop /\ sentences[next] > ChunkSize /\ ~HasCurrent
  /\ Emit(next, sentences[next])
  /\ char_cursor' = char_cursor + 1
  /\ next' = next + 1
  /\ from' = next + 1
  /\ UNCHANGED <<sentences, tokens, done>>

\* Mutant: the joining space is not counted.
OverflowsUnspaced == HasCurrent /\ tokens + sentences[next] > ChunkSize

\* Would the sentence, joined by a space, exceed the target?
Overflows == HasCurrent /\ tokens + sentences[next] + 1 > ChunkSize

\* The sentence is collected.
Collect ==
  /\ InLoop /\ ~Overflows
  /\ sentences[next] <= ChunkSize \/ HasCurrent
  /\ tokens' = tokens + sentences[next] + (IF HasCurrent THEN 1 ELSE 0)
  /\ next' = next + 1
  /\ UNCHANGED <<sentences, from, char_cursor, chunks, done>>

\* Mutant: the window may be one token short of a sentence too long.
WindowStartInclusive ==
  CHOOSE k \in from .. next :
    /\ Total(k, next - 1) <= ChunkOverlap + 1
    /\ \A j \in from .. k - 1 : Total(j, next - 1) > ChunkOverlap + 1

\* Mutant: a chunk starts with nothing of the one before.
NoWindow == next

\* The overlap window: walking back from the last sentence flushed, as many
\* as fit the budget.
WindowStart ==
  CHOOSE k \in from .. next :
    /\ Total(k, next - 1) <= ChunkOverlap
    /\ \A j \in from .. k - 1 : Total(j, next - 1) > ChunkOverlap

\* Mutant: the sentence that overflowed is not collected after the flush.
FlushDropsSentence ==
  /\ InLoop /\ Overflows
  /\ Emit(next - 1, tokens)
  /\ char_cursor' = char_cursor + (next - from)
  /\ from' = next + 1
  /\ next' = next + 1
  /\ tokens' = 0
  /\ UNCHANGED <<sentences, done>>

\* The chunk is full: it is recorded, the next one is seeded with the overlap
\* window, and the sentence is collected, whatever its size.
Flush ==
  /\ InLoop /\ Overflows
  /\ Emit(next - 1, tokens)
  /\ char_cursor' = char_cursor + (next - from)
  /\ from' = WindowStart
  /\ tokens' = Total(WindowStart, next - 1) + sentences[next]
                 + (IF WindowStart < next THEN 1 ELSE 0)
  /\ next' = next + 1
  /\ UNCHANGED <<sentences, done>>

\* The final chunk.
Finish ==
  /\ ~done /\ next > Len(sentences)
  /\ IF HasCurrent THEN Emit(next - 1, tokens) ELSE UNCHANGED chunks
  /\ done' = TRUE
  /\ UNCHANGED <<sentences, next, from, tokens, char_cursor>>

Next == Oversized \/ Collect \/ Flush \/ Finish

Spec == Init /\ [][Next]_vars

-----------------------------------------------------------------------------
\* What holds

TypeOK ==
  /\ sentences \in Seq(1 .. MaxTokens)
  /\ next \in 1 .. Len(sentences) + 1 /\ from \in 1 .. next
  /\ tokens \in Nat /\ char_cursor \in Nat
  /\ chunks \in Seq(Chunk)
  /\ done \in BOOLEAN

\* The last sentence recorded.
Recorded == IF chunks = <<>> THEN 0 ELSE chunks[Len(chunks)].last

\* No sentence is lost and no chunk repeats only what is recorded: each chunk
\* starts at the latest right after the one before and ends behind it, the
\* collected sentences join on, and the list returned ends with the document.
NothingLost ==
  /\ \A i \in 1 .. Len(chunks) :
       LET before == IF i = 1 THEN 0 ELSE chunks[i - 1].last IN
       /\ chunks[i].first <= before + 1
       /\ chunks[i].last > before
       /\ chunks[i].last >= chunks[i].first
  /\ ~done => from <= Recorded + 1 /\ (HasCurrent => next - 1 > Recorded)
  /\ ~done /\ ~HasCurrent => next = Recorded + 1
  /\ done => Recorded = Len(sentences)

\* chunker.py: "boundary-straddling context appears in at least one complete
\* chunk".  Two neighbours, of which the first fits the overlap, are together
\* in some chunk.
StraddlesKept ==
  done => \A s \in 1 .. Len(sentences) - 1 :
            sentences[s] <= ChunkOverlap /\ ChunkOverlap <= ChunkSize =>
              \E i \in 1 .. Len(chunks) :
                chunks[i].first <= s /\ s + 1 <= chunks[i].last

\* "Token overlap between consecutive chunks": never above the budget.
OverlapBounded ==
  \A i \in 2 .. Len(chunks) :
    Total(chunks[i].first, chunks[i - 1].last) <= ChunkOverlap

\* "Greedily add sentences ... until adding the next sentence would exceed
\* chunk_size": no chunk but the last had room for the next sentence, and one
\* above the target holds a single sentence the chunk before does not.
GreedilyFilled ==
  \A i \in 1 .. Len(chunks) :
    /\ i < Len(chunks) =>
         chunks[i].token_count + sentences[chunks[i].last + 1] + 1 > ChunkSize
    /\ chunks[i].token_count > ChunkSize =>
         IF i = 1 THEN chunks[i].first = chunks[i].last
                  ELSE chunks[i].last - 1 <= chunks[i - 1].last
=============================================================================
