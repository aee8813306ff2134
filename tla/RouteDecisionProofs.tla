-------------------------- MODULE RouteDecisionProofs --------------------------
(***************************************************************************)
(* Theorems about RouteDecision, for every set of tools and of scores.     *)
(* The type invariant bounds the result; LastResort is what the decision   *)
(* leaves behind when it hands over to the model, and is what the          *)
(* properties of the answers rest on.                                      *)
(***************************************************************************)
EXTENDS RouteDecision, TLAPS

\* Only a scored agent gets past the scores, and a scored agent has documents.
ScoredHasDocs == at = "scored" => docs

\* Whatever asks the model has scored, and nothing it scored was enough.
LastResort ==
  at = "asking" => /\ docs
                   /\ ~IsMeta
                   /\ ~UseRag
                   /\ MatchedTools = {}

IInv == TypeOK /\ ToolsExist /\ ScoredHasDocs /\ LastResort /\ FollowUpRetrieves

\* The two parts of a decision fix its route.
LEMMA DecisionRoutes ==
  ASSUME NEW useRag \in BOOLEAN, NEW matched
  PROVE  /\ Decision(useRag, matched) \in {"TOOL", "RAG", "BOTH", "NONE"}
         /\ Decision(useRag, matched) \in {"TOOL", "BOTH"} <=> matched # {}
         /\ Decision(useRag, matched) \in {"RAG", "BOTH"} <=> useRag
  BY DEF Decision

LEMMA InitHolds == Init => IInv
  <1> SUFFICES ASSUME Init PROVE IInv
    OBVIOUS
  <1>1. NoResult \in Results
    BY DEF NoResult, Result, Results, Routes
  <1>2. TypeOK
    BY <1>1 DEF Init, TypeOK
  <1>3. ToolsExist /\ ScoredHasDocs /\ LastResort /\ FollowUpRetrieves
    BY DEF Init, ToolsExist, ScoredHasDocs, LastResort, FollowUpRetrieves, NoResult, Result
  <1> QED
    BY <1>2, <1>3 DEF IInv

LEMMA StepHolds == IInv /\ [Next]_vars => IInv'
  <1> SUFFICES ASSUME IInv, [Next]_vars PROVE IInv'
    OBVIOUS
  <1> USE DEF IInv, input, ScoredHasDocs
  <1>0. TypeOK /\ ToolsExist /\ ScoredHasDocs /\ LastResort /\ FollowUpRetrieves
    OBVIOUS
  <1>N. NoResult \in Results /\ NoResult.route = "NONE" /\ NoResult.matched_tools = {}
    BY DEF NoResult, Result, Results, Routes
  <1>M. /\ Result("META", {}, FALSE) \in Results
        /\ Result("META", {}, FALSE).route = "META"
        /\ Result("META", {}, FALSE).matched_tools = {}
    BY DEF Result, Results, Routes
  <1>1. CASE SmallTalk
    BY <1>0, <1>1, <1>N DEF SmallTalk, Returns, Goes, TypeOK, ToolsExist, LastResort,
      FollowUpRetrieves
  <1>2. CASE LoadCache
    BY <1>0, <1>2 DEF LoadCache, Raises, Goes, TypeOK, ToolsExist, LastResort,
      FollowUpRetrieves
  <1>3. CASE ListResources
    BY <1>0, <1>3, <1>M DEF ListResources, Returns, Goes, TypeOK, ToolsExist, LastResort,
      FollowUpRetrieves
  <1>4. CASE Embed
    <2>1. CASE Raises("loaded")
      BY <1>0, <2>1 DEF Raises, Goes, TypeOK, ToolsExist, LastResort, FollowUpRetrieves
    <2>2. CASE ~Raises("loaded")
      <3>1. at' = "embedded" /\ UNCHANGED <<input, result>>
            /\ raw' \in Scored /\ blended' \in [Resources -> Scores]
        BY <1>4, <2>2 DEF Embed, Goes, Scored, Resources
      <3>2. Resources' = Resources /\ Scored' = Scored
        BY <3>1 DEF Resources, Scored
      <3> QED
        BY <1>0, <3>1, <3>2 DEF TypeOK, ToolsExist, LastResort, FollowUpRetrieves
    <2> QED
      BY <2>1, <2>2
  <1>5. CASE MetaIntent
    BY <1>0, <1>5, <1>M DEF MetaIntent, Returns, Goes, TypeOK, ToolsExist, LastResort,
      FollowUpRetrieves
  <1>6. CASE Score
    <2>1. CASE docs /\ Goes("embedded", "scored") /\ UNCHANGED <<input, raw, blended, result>>
      BY <1>0, <2>1 DEF Goes, TypeOK, ToolsExist, LastResort, FollowUpRetrieves, Scored,
        Resources
    <2>2. CASE Raises("embedded")
      BY <1>0, <2>2 DEF Raises, Goes, TypeOK, ToolsExist, LastResort, FollowUpRetrieves
    <2> QED
      BY <1>6, <2>1, <2>2 DEF Score
  <1>7. CASE Decide
    <2> DEFINE route == Decision(UseRag, MatchedTools)
               answer == Result(route, MatchedTools, TRUE)
    <2>1. UseRag \in BOOLEAN /\ MatchedTools \subseteq tools
      BY DEF UseRag, MatchedTools
    <2>2. /\ route \in {"TOOL", "RAG", "BOTH", "NONE"}
          /\ route \in {"TOOL", "BOTH"} <=> MatchedTools # {}
          /\ route \in {"RAG", "BOTH"} <=> UseRag
      BY <2>1, DecisionRoutes
    <2>3. UNCHANGED <<input, raw, blended>> /\ at = "scored" /\ ~IsMeta /\ docs
      BY <1>0, <1>7 DEF Decide
    <2>4. CASE route # "NONE" /\ Returns("scored", answer)
      <3>1. /\ answer.route = route /\ answer.matched_tools = MatchedTools
            /\ answer.query_text
        BY DEF Result
      <3>2. answer \in Results
        BY <1>0, <2>1, <2>2 DEF Result, Results, Routes, TypeOK
      <3>3. docs /\ "followUp" \in traits => UseRag
        BY DEF UseRag
      <3>4. at' = "returned" /\ result' = answer
        BY <2>4 DEF Returns, Goes
      <3> HIDE DEF answer, route
      <3> QED
        BY <1>0, <2>1, <2>2, <2>3, <3>1, <3>2, <3>3, <3>4
          DEF TypeOK, ToolsExist, LastResort, FollowUpRetrieves
    <2>5. CASE route = "NONE" /\ Goes("scored", "asking") /\ UNCHANGED result
      <3>1. at' = "asking"
        BY <2>5 DEF Goes
      <3>2. ~UseRag /\ MatchedTools = {}
        BY <2>2, <2>5
      <3>3. LastResort'
        BY <2>3, <3>2 DEF LastResort, Resources, IsMeta, UseRag, MatchedTools
      <3>4. TypeOK'
        BY <1>0, <2>3, <2>5, <3>1 DEF TypeOK, Scored, Resources
      <3> QED
        BY <1>0, <2>3, <2>5, <3>1, <3>3, <3>4 DEF ToolsExist, FollowUpRetrieves
    <2> QED
      BY <1>7, <2>4, <2>5 DEF Decide
  <1>8. CASE FallbackAnswers
    <2>1. PICK useRag \in BOOLEAN, names \in SUBSET (tools \cup Invented) :
            Returns("asking",
                    Result(Decision(useRag, names \cap tools), names \cap tools, FALSE))
      BY <1>8 DEF FallbackAnswers
    <2> DEFINE matched == names \cap tools
               route == Decision(useRag, matched)
               answer == Result(route, matched, FALSE)
    <2>2. /\ route \in {"TOOL", "RAG", "BOTH", "NONE"}
          /\ route \in {"TOOL", "BOTH"} <=> matched # {}
      BY DecisionRoutes
    <2>3. answer.route = route /\ answer.matched_tools = matched
      BY DEF Result
    <2>4. answer \in Results
      BY <1>0, <2>2 DEF Result, Results, Routes, TypeOK
    <2>5. at = "asking" /\ at' = "returned" /\ result' = answer
          /\ UNCHANGED <<input, raw, blended>>
      BY <1>8, <2>1 DEF Returns, Goes, FallbackAnswers
    <2>6. TypeOK' /\ ToolsExist' /\ LastResort'
      <3> HIDE DEF answer, route
      <3> QED
        BY <1>0, <2>2, <2>3, <2>4, <2>5 DEF TypeOK, ToolsExist, LastResort
    <2>7. ~(docs /\ "followUp" \in traits)
      BY <1>0, <2>5 DEF LastResort, UseRag
    <2> QED
      BY <2>5, <2>6, <2>7 DEF FollowUpRetrieves
  <1>9. CASE FallbackFails
    <2>1. at = "asking" /\ at' = "returned" /\ result' = NoResult
          /\ UNCHANGED <<input, raw, blended>>
      BY <1>9 DEF FallbackFails, Returns, Goes
    <2>2. ~(docs /\ "followUp" \in traits)
      BY <1>0, <2>1 DEF LastResort, UseRag
    <2> QED
      BY <1>0, <1>N, <2>1, <2>2 DEF TypeOK, ToolsExist, LastResort, FollowUpRetrieves
  <1>10. CASE FallbackMalformed
    BY <1>0, <1>10 DEF FallbackMalformed, Raises, Goes, TypeOK, ToolsExist, LastResort,
      FollowUpRetrieves
  <1>11. CASE UNCHANGED vars
    BY <1>0, <1>11 DEF vars, TypeOK, ToolsExist, LastResort, FollowUpRetrieves, Scored,
      Resources, IsMeta, UseRag, MatchedTools
  <1> QED
    BY <1>1, <1>2, <1>3, <1>4, <1>5, <1>6, <1>7, <1>8, <1>9, <1>10, <1>11 DEF Next

\* What is asked, and what is answered, at every step.
THEOREM Decisions == Spec => []IInv
  <1> QED
    BY InitHolds, StepHolds, PTL DEF Spec

\* route() returns a RouteResult of the types types.py declares, and scores
\* exactly what the agent has.
THEOREM TypeCorrect == Spec => []TypeOK
  <1> QED
    BY Decisions, PTL DEF IInv

\* fallback.py: names the model invents are dropped before the route is
\* derived from them, so a route with tools always names tools of the agent.
THEOREM NoInventedTools == Spec => []ToolsExist
  <1> QED
    BY Decisions, PTL DEF IInv

\* router.py: the follow-up branch is no subject of any threshold.
THEOREM FollowUpsRetrieve == Spec => []FollowUpRetrieves
  <1> QED
    BY Decisions, PTL DEF IInv

\* A NONE is the answer to small talk or the model's, which is asked only where
\* every score that applies to the message was too low: there is no other way
\* to NONE, that of an agent without documents included.
THEOREM NoneNeedsTheModel == Spec => NoneIsDeliberate
  <1> DEFINE LowScores ==
        /\ \A r \in Resources : raw[r] < INTENT_SIMILARITY_THRESHOLD
        /\ \A t \in tools : blended[t] < TOOL_SIMILARITY_THRESHOLD
        /\ docs => /\ "followUp" \notin traits
                   /\ blended["docs"] < IF "information" \in traits
                                          THEN DOC_INFORMATION_REQUEST_THRESHOLD
                                          ELSE DOC_SIMILARITY_THRESHOLD
  <1>1. ASSUME IInv, at = "asking" PROVE LowScores
    <2>1. /\ TypeOK /\ ~IsMeta /\ ~UseRag /\ MatchedTools = {}
          /\ raw \in Scored /\ blended \in [Resources -> Scores]
      BY <1>1 DEF IInv, LastResort, TypeOK
    <2>2. \A r \in Resources : raw[r] \in Nat /\ blended[r] \in Nat /\ r \in DOMAIN raw
      BY <2>1, NamesAssumption DEF Scored
    <2>3. \A r \in Resources : raw[r] < INTENT_SIMILARITY_THRESHOLD
      BY <2>1, <2>2 DEF IsMeta, INTENT_SIMILARITY_THRESHOLD
    <2>4. \A t \in tools : blended[t] < TOOL_SIMILARITY_THRESHOLD
      BY <2>1, <2>2 DEF MatchedTools, TOOL_SIMILARITY_THRESHOLD, Resources
    <2>5. docs => "docs" \in Resources
      BY DEF Resources
    <2>6. docs => /\ "followUp" \notin traits
                  /\ blended["docs"] < IF "information" \in traits
                                         THEN DOC_INFORMATION_REQUEST_THRESHOLD
                                         ELSE DOC_SIMILARITY_THRESHOLD
      BY <2>1, <2>2, <2>5 DEF UseRag, DOC_SIMILARITY_THRESHOLD,
        DOC_INFORMATION_REQUEST_THRESHOLD
    <2> QED
      BY <2>3, <2>4, <2>6
  <1>2. ASSUME Next, at' = "returned", result'.route = "NONE",
               "smalltalk" \notin traits
        PROVE  at = "asking"
    <2>1. CASE Decide
      <3> DEFINE route == Decision(UseRag, MatchedTools)
                 answer == Result(route, MatchedTools, TRUE)
      <3>1. route # "NONE" /\ result' = answer
        BY <1>2, <2>1 DEF Decide, Returns, Goes
      <3>2. answer.route = route
        BY DEF Result
      <3> QED
        BY <1>2, <3>1, <3>2
    <2>2. CASE ListResources \/ MetaIntent
      BY <1>2, <2>2 DEF ListResources, MetaIntent, Returns, Result
    <2>3. CASE SmallTalk \/ Score \/ LoadCache \/ Embed \/ FallbackMalformed
      BY <1>2, <2>3 DEF SmallTalk, Score, LoadCache, Embed, FallbackMalformed,
        Raises, Goes
    <2>4. CASE FallbackAnswers \/ FallbackFails
      BY <2>4 DEF FallbackAnswers, FallbackFails, Returns, Goes
    <2> QED
      BY <1>2, <2>1, <2>2, <2>3, <2>4 DEF Next
  <1>3. IInv /\ [Next]_vars =>
          [at' = "returned" /\ result'.route = "NONE" =>
             \/ "smalltalk" \in traits
             \/ at = "asking" /\ LowScores]_vars
    <2> SUFFICES ASSUME IInv, Next, at' = "returned", result'.route = "NONE",
                        "smalltalk" \notin traits
                 PROVE  at = "asking" /\ LowScores
      OBVIOUS
    <2> HIDE DEF LowScores
    <2> QED
      BY <1>1, <1>2
  <1> QED
    BY Decisions, <1>3, PTL DEF Spec, NoneIsDeliberate
=============================================================================
