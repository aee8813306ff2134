--------------------------------- MODULE Ingest ---------------------------------
(***************************************************************************)
(* From the chunks of a document to its rows: stages 4 to 6 of             *)
(* app/rag/indexer.py, with the batches, retries and reordering of         *)
(* app/ai/embeddings/providers/openai.py.  Extends the chunker, whose list *)
(* is what is embedded.  The vector of a chunk is the chunk's index: what  *)
(* matters is whose it is.                                                 *)
(***************************************************************************)
EXTENDS Chunker, SequencesExt

CONSTANTS BATCH_SIZE,
          MaxAttempts     \* stop_after_attempt

ASSUME BatchAssumption == BATCH_SIZE \in Nat \ {0} /\ MaxAttempts \in Nat \ {0}

VARIABLES stage,          \* chunk, embed, insert, stored, failed
          all_vectors,    \* what embed_chunks has so far
          i,              \* the start of the batch under way, from 0
          attempt,        \* tenacity's attempt at it
          rows            \* of document_chunks: a chunk and its vector

embedding == <<all_vectors, i, attempt>>
ingestVars == <<vars, stage, embedding, rows>>

IngestInit ==
  /\ Init
  /\ stage = "chunk"
  /\ all_vectors = <<>> /\ i = 0 /\ attempt = 1
  /\ rows = <<>>

Chunking ==
  /\ stage = "chunk" /\ Next
  /\ UNCHANGED <<stage, embedding, rows>>

\* A document without chunks is refused.
Chunked ==
  /\ stage = "chunk" /\ done
  /\ stage' = IF chunks = <<>> THEN "failed" ELSE "embed"
  /\ UNCHANGED <<vars, embedding, rows>>

-----------------------------------------------------------------------------
\* embed_chunks

\* texts[i : i + BATCH_SIZE], cut at the end of the list.
Batch == i + 1 .. (IF i + BATCH_SIZE < Len(chunks) THEN i + BATCH_SIZE
                   ELSE Len(chunks))

\* What the service may send: the items of the batch in any order, though it
\* promises theirs, and perhaps not all of them.
Responses == UNION {SetToSeqs(S) : S \in SUBSET Batch}

\* Mutant: the answer is taken as it comes.
AsSent(response) == response

\* sorted(response.data, key=item.index): at place j the item that has j items
\* up to and with itself.
Sorted(response) ==
  [j \in DOMAIN response |->
     CHOOSE item \in ToSet(response) :
       Cardinality({other \in ToSet(response) : other <= item}) = j]

NextBatch ==
  /\ i' = i + BATCH_SIZE
  /\ attempt' = 1
  /\ stage' = IF i' < Len(chunks) THEN "embed" ELSE "insert"

BatchArrives ==
  /\ stage = "embed"
  /\ \E response \in Responses :
       all_vectors' = all_vectors \o Sorted(response)
  /\ NextBatch
  /\ UNCHANGED <<vars, rows>>

\* Mutant: there is always another attempt.
RetryForever ==
  /\ stage = "embed"
  /\ attempt' = (attempt % MaxAttempts) + 1
  /\ UNCHANGED <<vars, stage, all_vectors, i, rows>>

\* RateLimitError or APITimeoutError: the same batch again.
Retry ==
  /\ stage = "embed" /\ attempt < MaxAttempts
  /\ attempt' = attempt + 1
  /\ UNCHANGED <<vars, stage, all_vectors, i, rows>>

\* The last attempt failed, or with any other error the first: it raises.
EmbedFails ==
  /\ stage = "embed"
  /\ stage' = "failed"
  /\ UNCHANGED <<vars, embedding, rows>>

-----------------------------------------------------------------------------
\* Mutant: the counts are not compared.
InsertUnchecked ==
  /\ stage = "insert"
  /\ stage' = "stored"
  /\ rows' = Zip(chunks, all_vectors)
  /\ UNCHANGED <<vars, embedding>>

\* "Embedding count mismatch", or one row for each pair of
\* zip(chunks, embeddings).
Insert ==
  /\ stage = "insert"
  /\ IF Len(all_vectors) = Len(chunks)
     THEN /\ stage' = "stored"
          /\ rows' = Zip(chunks, all_vectors)
     ELSE stage' = "failed" /\ UNCHANGED rows
  /\ UNCHANGED <<vars, embedding>>

IngestNext ==
  \/ Chunking \/ Chunked \/ BatchArrives \/ Retry \/ EmbedFails \/ Insert

\* The pipeline's task goes on: the service answers or times out.
IngestSpec == IngestInit /\ [][IngestNext]_ingestVars /\ WF_ingestVars(IngestNext)

-----------------------------------------------------------------------------
\* What holds

\* "silent misordering here would corrupt every chunk's embedding/content
\* pairing": each row has the vector of its own chunk, and a document that is
\* stored has all of its chunks, however batches are answered and retried.
OwnVectors ==
  /\ \A k \in 1 .. Len(rows) : rows[k] = <<chunks[k], k>>
  /\ stage = "stored" => Len(rows) = Len(chunks)

\* One document after the other gets through: stored or failed.
IngestEnds == <>(stage \in {"stored", "failed"})
=============================================================================
