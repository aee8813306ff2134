----------------------------- MODULE RouteDecision -----------------------------
(***************************************************************************)
(* The semantic router's decision for one message (route() of              *)
(* app/agent/query_router/router.py), with the LLM fallback                *)
(* (llm_route_fallback of fallback.py).  Of the message only what the      *)
(* classifier says of it is kept, of the embeddings only their cosine      *)
(* similarities in hundredths, of the agent its tools and whether it has   *)
(* documents.  What Redis, the embedding model and the fallback model do   *)
(* is the environment.                                                     *)
(***************************************************************************)
EXTENDS Naturals, FiniteSets

CONSTANTS ToolNames,   \* names a tool of the agent may have
          Invented,    \* names only the fallback model comes up with
          Scores       \* the similarities considered, in hundredths

ASSUME NamesAssumption ==
  /\ Scores \subseteq Nat
  /\ ToolNames \cap Invented = {}
  /\ {"meta", "docs"} \cap (ToolNames \cup Invented) = {}

VARIABLES at,       \* where route() is
          traits,   \* what the classifier says, and whether there is context
          tools,    \* the agent's tools, as cached
          docs,     \* has the agent documents?
          raw,      \* similarities of the message itself
          blended,  \* those of the message with its context and the intent
          result    \* the RouteResult

input == <<traits, tools, docs>>
vars == <<at, input, raw, blended, result>>

TOOL_SIMILARITY_THRESHOLD == 75
DOC_SIMILARITY_THRESHOLD == 70
DOC_INFORMATION_REQUEST_THRESHOLD == 55
INTENT_SIMILARITY_THRESHOLD == 75

Traits == {"smalltalk", "listing", "information", "followUp", "context", "intent"}
Routes == {"TOOL", "RAG", "BOTH", "META", "NONE"}
Results == [route : Routes, matched_tools : SUBSET ToolNames,
            query_text : BOOLEAN, meta_context : BOOLEAN]

\* What is scored: the meta utterances, each tool, the documents.
Resources == tools \cup (IF docs THEN {"docs"} ELSE {})
Result(route, matched, query_text) ==
  [route |-> route, matched_tools |-> matched, query_text |-> query_text,
   meta_context |-> route = "META"]
NoResult == Result("NONE", {}, FALSE)

Init ==
  /\ at = "start"
  /\ traits \in SUBSET Traits
  /\ tools \in SUBSET ToolNames
  /\ docs \in BOOLEAN
  /\ raw = [r \in {} |-> 0]
  /\ blended = [r \in {} |-> 0]
  /\ result = NoResult

Goes(from, to) == at = from /\ at' = to
Returns(from, answer) == Goes(from, "returned") /\ result' = answer
Raises(from) == Goes(from, "raised") /\ UNCHANGED <<input, raw, blended, result>>

\* The route of the two parts of a decision, in router.py and fallback.py.
Decision(useRag, matched) ==
  IF useRag THEN IF matched # {} THEN "BOTH" ELSE "RAG"
            ELSE IF matched # {} THEN "TOOL" ELSE "NONE"

\* 1. Acknowledgements and small talk.
SmallTalk ==
  /\ "smalltalk" \in traits
  /\ Returns("start", NoResult)
  /\ UNCHANGED <<input, raw, blended>>

\* 2. get_or_build_route_cache: Redis or the build may raise.
LoadCache ==
  /\ "smalltalk" \notin traits
  /\ \/ /\ Goes("start", "loaded")
        /\ UNCHANGED <<input, raw, blended, result>>
     \/ Raises("start")

\* 3. A resource listing query needs no embedding.
ListResources ==
  /\ "listing" \in traits
  /\ Returns("loaded", Result("META", {}, FALSE))
  /\ UNCHANGED <<input, raw, blended>>

\* The message is embedded, with its context when it is a follow-up; the
\* intent of the conversation is blended in when there is one, and a failing
\* blend is ignored.  Without context and intent the scores are the message's.
Embed ==
  /\ "listing" \notin traits
  /\ \/ /\ Goes("loaded", "embedded")
        /\ raw' \in [Resources \cup {"meta"} -> Scores]
        /\ \/ blended' = [r \in Resources |-> raw'[r]]
           \/ /\ {"followUp", "context"} \subseteq traits \/ "intent" \in traits
              /\ blended' \in [Resources -> Scores]
        /\ UNCHANGED <<input, result>>
     \/ Raises("loaded")

\* The documents are scored first, and whether there are any or not: an empty
\* list becomes a matrix of one empty row, whose product with the query raises.
Score ==
  \/ docs /\ Goes("embedded", "scored") /\ UNCHANGED <<input, raw, blended, result>>
  \/ ~docs /\ Raises("embedded")

\* 4. The meta intent: the best of the meta utterances, the tools and the
\* documents, against the message itself.
IsMeta == \E r \in DOMAIN raw : raw[r] >= INTENT_SIMILARITY_THRESHOLD
MetaIntent ==
  /\ at = "scored" /\ IsMeta
  /\ Returns("scored", Result("META", {}, FALSE))
  /\ UNCHANGED <<input, raw, blended>>

\* 5. The NONE of an agent with neither tools nor documents is no action: only
\* an agent with documents has been scored.

\* Mutant: the follow-up branch is under the lower threshold as well.
UseRagScored ==
  /\ docs
  /\ \/ blended["docs"] >= DOC_SIMILARITY_THRESHOLD
     \/ /\ {"information", "followUp"} \cap traits # {}
        /\ blended["docs"] >= DOC_INFORMATION_REQUEST_THRESHOLD

\* Mutant: without the lower threshold.
UseRagOneThreshold ==
  docs /\ (blended["docs"] >= DOC_SIMILARITY_THRESHOLD \/ "followUp" \in traits)

\* 6. Documents: two thresholds, and follow-ups whatever the score.
UseRag ==
  /\ docs
  /\ \/ blended["docs"] >= DOC_SIMILARITY_THRESHOLD
     \/ /\ "information" \in traits
        /\ blended["docs"] >= DOC_INFORMATION_REQUEST_THRESHOLD
     \/ "followUp" \in traits

\* Mutant: tools and documents are scored as one list, as for the meta intent.
MatchedResources == {r \in Resources : blended[r] >= TOOL_SIMILARITY_THRESHOLD}

\* 7. Tools.
MatchedTools == {t \in tools : blended[t] >= TOOL_SIMILARITY_THRESHOLD}

\* 8. The decision, or the LLM fallback when nothing was found.
Decide ==
  /\ at = "scored" /\ ~IsMeta
  /\ LET route == Decision(UseRag, MatchedTools) IN
     \/ /\ route # "NONE"
        /\ Returns("scored", Result(route, MatchedTools, TRUE))
     \/ /\ route = "NONE"
        /\ Goes("scored", "asking")
        /\ UNCHANGED result
  /\ UNCHANGED <<input, raw, blended>>

\* Mutant: the names of the model are passed on as they are.
FallbackAnswersUnchecked ==
  /\ \E useRag \in BOOLEAN, names \in SUBSET (tools \cup Invented) :
       Returns("asking",
               Result(Decision(useRag, names), names \cap tools, FALSE))
  /\ UNCHANGED <<input, raw, blended>>

\* The model's decision; names it invented are dropped.
FallbackAnswers ==
  /\ \E useRag \in BOOLEAN, names \in SUBSET (tools \cup Invented) :
       Returns("asking",
               Result(Decision(useRag, names \cap tools), names \cap tools, FALSE))
  /\ UNCHANGED <<input, raw, blended>>

\* The call failed, or its answer has no arguments that parse: NONE.
FallbackFails ==
  /\ Returns("asking", NoResult)
  /\ UNCHANGED <<input, raw, blended>>

\* Arguments that parse but are no object, or matched_tools that is no list:
\* outside the try, they raise.
FallbackMalformed == Raises("asking")

Next ==
  \/ SmallTalk \/ LoadCache \/ ListResources \/ Embed \/ Score \/ MetaIntent
  \/ Decide \/ FallbackAnswers \/ FallbackFails \/ FallbackMalformed

Spec == Init /\ [][Next]_vars

-----------------------------------------------------------------------------
\* What holds

Scored == [Resources \cup {"meta"} -> Scores]

TypeOK ==
  /\ at \in {"start", "loaded", "embedded", "scored", "asking", "returned", "raised"}
  /\ traits \subseteq Traits /\ tools \subseteq ToolNames /\ docs \in BOOLEAN
  /\ at \in {"embedded", "scored", "asking"} =>
       raw \in Scored /\ blended \in [Resources -> Scores]
  /\ result \in Results

\* Whoever decided, a route that uses tools names some, and each is a tool
\* of the agent: these names are what the turn's record says it was routed to.
ToolsExist ==
  LET r == result IN
  /\ r.matched_tools \subseteq tools
  /\ at = "returned" /\ r.route # "META" =>
       (r.route \in {"TOOL", "BOTH"} <=> r.matched_tools # {})

\* router.py: "Config exists but every embedding score missed the threshold
\* ... Hand off to the LLM".  NONE is the answer to small talk or the model's,
\* and the model is asked only where every score missed every threshold that
\* applies to the message.
NoneIsDeliberate ==
  [][at' = "returned" /\ result'.route = "NONE" =>
       \/ "smalltalk" \in traits
       \/ /\ at = "asking"
          /\ \A r \in Resources : raw[r] < INTENT_SIMILARITY_THRESHOLD
          /\ \A t \in tools : blended[t] < TOOL_SIMILARITY_THRESHOLD
          /\ docs => /\ "followUp" \notin traits
                     /\ blended["docs"] < IF "information" \in traits
                                            THEN DOC_INFORMATION_REQUEST_THRESHOLD
                                            ELSE DOC_SIMILARITY_THRESHOLD]_vars

\* A follow-up to an agent with documents is answered from them, whatever it
\* scores, unless it is taken for a question about the agent itself.
FollowUpRetrieves ==
  at = "returned" /\ docs /\ "followUp" \in traits
    /\ "smalltalk" \notin traits /\ result.route # "META" =>
       result.route \in {"RAG", "BOTH"} /\ result.query_text

-----------------------------------------------------------------------------
\* What the documentation says and the code does not do

\* router.py: "No tools or docs configured - legitimate empty agent -> NONE".
\* A message to such an agent that got as far as being embedded is answered.
EmptyAgentIsRouted ==
  Resources = {} /\ "meta" \in DOMAIN raw => at # "raised"
=============================================================================
