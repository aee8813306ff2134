-------------------------- MODULE ProviderStreamProofs --------------------------
(***************************************************************************)
(* What ProviderStream promises, for any number of calls and any bounds.   *)
(***************************************************************************)
EXTENDS ProviderStream, TLAPS

\* What the vendor owes, and how the locals of stream() follow what it sent:
\* the flag of OpenAI is up from the first sign of a call on, the last usage of
\* Gemini is what was reported, and calls are owed once each, of items that are
\* done.
Events == {Text} \cup {Call(i, a) : i \in Item, a \in 0 .. ArgLen}

Owed ==
  /\ due \in Seq(Events)
  /\ \A k \in DOMAIN due : due[k].type = "call" =>
       offered /\ vendor[due[k].item] = "done"

Follows ==
  /\ provider = "openai" => (has_tool_calls <=> Announced)
  /\ provider = "openai" /\ ~exhausted => reported = 0
  /\ provider = "gemini" => last_usage = reported

Closing ==
  /\ exhausted => reply = IF reported > 0 THEN Append(due, Usage(reported))
                          ELSE due
  /\ status = "ended" => exhausted

IInv == TypeOK /\ Owed /\ Follows /\ HandedOver /\ Closing

LEMMA InitIInv == Init => IInv
<1> SUFFICES ASSUME Init PROVE IInv
  OBVIOUS
<1> USE DEF Init
<1>1. TypeOK
  <2>1. /\ DOMAIN accumulated_tool_calls \subseteq Item
        /\ \A i \in DOMAIN accumulated_tool_calls :
             accumulated_tool_calls[i] \in Slot
    OBVIOUS
  <2>2. vendor \in [Item -> {"unsent", "added", "streamed", "done"}]
    OBVIOUS
  <2>3. /\ provider \in {"openai", "gemini"} /\ offered \in BOOLEAN
        /\ status \in {"open", "ended", "raised"} /\ exhausted \in BOOLEAN
        /\ has_tool_calls \in BOOLEAN
    OBVIOUS
  <2>4. /\ texts \in 0 .. MaxText
        /\ last_usage \in 0 .. MaxUsage /\ reported \in 0 .. MaxUsage
    BY ProviderAssumption
  <2> HIDE DEF Init
  <2> QED BY <2>1, <2>2, <2>3, <2>4 DEF TypeOK
<1>2. Owed
  <2>1. due \in Seq(Events) /\ DOMAIN due = {}
    OBVIOUS
  <2> QED BY <2>1 DEF Owed
<1>3. Follows
  BY DEF Follows, Announced
<1>4. HandedOver /\ Closing
  BY DEF HandedOver, Closing
<1> QED BY <1>1, <1>2, <1>3, <1>4 DEF IInv

\* TypeOK, one group of actions after the other.
LEMMA PutSlot ==
  ASSUME TypeOK, NEW i \in Item, NEW slot \in Slot,
         accumulated_tool_calls' = Put(i, slot)
  PROVE  /\ DOMAIN accumulated_tool_calls' \subseteq Item
         /\ \A k \in DOMAIN accumulated_tool_calls' :
              accumulated_tool_calls'[k] \in Slot
BY DEF TypeOK, Put

LEMMA SlotOfTyped ==
  ASSUME TypeOK, NEW i \in Item
  PROVE  SlotOf(i) \in Slot
BY ProviderAssumption DEF TypeOK, SlotOf, NoSlot, Slot

LEMMA NextTypeOK ==
  ASSUME TypeOK, Next
  PROVE  TypeOK'
<1> USE ProviderAssumption
<1>1. CASE TextDelta
  BY <1>1 DEF TextDelta, Emit, Reads, TypeOK, locals
<1>2. CASE Completed
  BY <1>2 DEF Completed, Emit, Reads, TypeOK
<1>3. CASE Truncated
  BY <1>3 DEF Truncated, Reads, TypeOK, vendorVars
<1>4. ASSUME NEW i \in Item, ItemAdded(i) PROVE TypeOK'
  <2>1. [id |-> TRUE, arguments |-> 0] \in Slot
    BY DEF Slot
  <2> QED BY <1>4, <2>1, PutSlot DEF ItemAdded, Reads, Sends, TypeOK
<1>5. ASSUME NEW i \in Item, ArgumentsDelta(i) PROVE TypeOK'
  <2>1. [id |-> TRUE, arguments |-> SlotOf(i).arguments + 1] \in Slot
    BY <1>5, SlotOfTyped DEF ArgumentsDelta, Slot
  <2> QED BY <1>5, <2>1, PutSlot DEF ArgumentsDelta, Reads, Sends, TypeOK
<1>6. ASSUME NEW i \in Item, ItemDone(i) PROVE TypeOK'
  <2>1. [SlotOf(i) EXCEPT !.arguments = ArgLen] \in Slot
    BY SlotOfTyped DEF Slot
  <2> QED BY <1>6, <2>1, PutSlot DEF ItemDone, Reads, Sends, Emit, TypeOK
<1>7. CASE ChunkUsage
  BY <1>7 DEF ChunkUsage, Reads, TypeOK
<1>8. CASE ChunkText
  BY <1>8 DEF ChunkText, Reads, Emit, TypeOK, locals
<1>9. ASSUME NEW i \in Item, ChunkCall(i) PROVE TypeOK'
  BY <1>9 DEF ChunkCall, Reads, Sends, Emit, TypeOK, locals
<1>10. CASE ChunksEnd
  BY <1>10 DEF ChunksEnd, Reads, Emit, TypeOK, vendorVars
<1>11. CASE Return \/ Raise
  BY <1>11 DEF Return, Raise, TypeOK, locals, vendorVars
<1> QED
  BY <1>1, <1>2, <1>3, <1>4, <1>5, <1>6, <1>7, <1>8, <1>9, <1>10, <1>11
  DEF Next, OpenAI, Gemini

-----------------------------------------------------------------------------
\* The other conjuncts, action by action.

LEMMA AppendOwed ==
  ASSUME Owed, TypeOK, NEW e \in Events,
         e.type = "call" => offered' /\ vendor'[e.item] = "done",
         \A i \in Item : vendor[i] = "done" => vendor'[i] = "done",
         offered' = offered, due' = Append(due, e)
  PROVE  Owed'
<1>1. due' \in Seq(Events) /\ Len(due') = Len(due) + 1
  BY DEF Owed
<1>2. ASSUME NEW k \in DOMAIN due', due'[k].type = "call"
      PROVE  offered' /\ vendor'[due'[k].item] = "done"
  <2>1. CASE k \in DOMAIN due
    <3>1. due'[k] = due[k] /\ due[k] \in Events
      BY <2>1 DEF Owed
    <3>2. due[k].item \in Item
      BY <3>1, <1>2 DEF Events, Text, Call
    <3> QED BY <2>1, <3>1, <3>2, <1>2 DEF Owed
  <2>2. CASE k \notin DOMAIN due
    <3>1. due'[k] = e
      BY <2>2, <1>1 DEF Owed
    <3> QED BY <3>1, <1>2
  <2> QED BY <2>1, <2>2
<1> QED BY <1>1, <1>2 DEF Owed

LEMMA KeepOwed ==
  ASSUME Owed, TypeOK,
         \A i \in Item : vendor[i] = "done" => vendor'[i] = "done",
         offered' = offered, due' = due
  PROVE  Owed'
<1>1. ASSUME NEW k \in DOMAIN due, due[k].type = "call"
      PROVE  due[k].item \in Item
  BY <1>1 DEF Owed, Events, Text, Call
<1> QED BY <1>1 DEF Owed

LEMMA NextOwed ==
  ASSUME TypeOK, Owed, Next
  PROVE  Owed'
<1>1. CASE TextDelta
  <2>1. Text \in Events /\ Text.type # "call"
    BY DEF Events, Text
  <2> QED BY <1>1, <2>1, AppendOwed, KeepOwed DEF TextDelta
<1>2. CASE ChunkText
  <2>1. Text \in Events /\ Text.type # "call"
    BY DEF Events, Text
  <2> QED BY <1>2, <2>1, AppendOwed DEF ChunkText
<1>3. ASSUME NEW i \in Item, ItemDone(i) \/ ChunkCall(i) PROVE Owed'
  <2>1. /\ Call(i, ArgLen) \in Events
        /\ Call(i, ArgLen).item = i
    BY ProviderAssumption DEF Events, Call
  <2>2. /\ offered /\ offered' = offered
        /\ vendor' = [vendor EXCEPT ![i] = "done"]
        /\ due' = Append(due, Call(i, ArgLen))
    BY <1>3 DEF ItemDone, ChunkCall, Sends
  <2> QED BY <2>1, <2>2, AppendOwed DEF TypeOK
<1>4. ASSUME NEW i \in Item, ItemAdded(i) \/ ArgumentsDelta(i) PROVE Owed'
  BY <1>4, KeepOwed DEF ItemAdded, ArgumentsDelta, Sends, TypeOK
<1>5. CASE Completed \/ Truncated \/ ChunkUsage \/ ChunksEnd \/ Return \/ Raise
  BY <1>5, KeepOwed
  DEF Completed, Truncated, ChunkUsage, ChunksEnd, Return, Raise, vendorVars
<1> QED
  BY <1>1, <1>2, <1>3, <1>4, <1>5 DEF Next, OpenAI, Gemini

LEMMA NextFollows ==
  ASSUME TypeOK, Follows, Next
  PROVE  Follows'
<1>1. ASSUME NEW i \in Item, Reads("openai"), has_tool_calls' = TRUE,
             vendor'[i] # "unsent",
             UNCHANGED <<provider, exhausted, reported>>
      PROVE  Follows'
  BY <1>1 DEF Follows, Announced, Reads
<1>2. ASSUME NEW i \in Item,
             ItemAdded(i) \/ ArgumentsDelta(i) \/ ItemDone(i)
      PROVE  Follows'
  <2>1. Reads("openai") /\ has_tool_calls' = TRUE /\ vendor'[i] # "unsent"
        /\ UNCHANGED <<provider, exhausted, reported>>
    BY <1>2 DEF ItemAdded, ArgumentsDelta, ItemDone, Sends, TypeOK
  <2> QED BY <2>1, <1>1
<1>3. CASE TextDelta
  BY <1>3 DEF TextDelta, Follows, Announced, locals
<1>4. CASE Completed \/ Truncated
  BY <1>4 DEF Completed, Truncated, Follows, Announced, Reads, vendorVars
<1>5. CASE ChunkUsage
  BY <1>5 DEF ChunkUsage, Follows, Announced, Reads
<1>6. CASE ChunkText \/ (\E i \in Item : ChunkCall(i))
  BY <1>6 DEF ChunkText, ChunkCall, Follows, Announced, Reads, locals
<1>7. CASE ChunksEnd
  BY <1>7 DEF ChunksEnd, Follows, Announced, Reads, vendorVars
<1>8. CASE Return \/ Raise
  BY <1>8 DEF Return, Raise, Follows, Announced, locals, vendorVars
<1> QED
  BY <1>2, <1>3, <1>4, <1>5, <1>6, <1>7, <1>8 DEF Next, OpenAI, Gemini

LEMMA NextHandedOver ==
  ASSUME TypeOK, Follows, HandedOver, Closing, Next
  PROVE  HandedOver' /\ Closing'
<1> USE DEF HandedOver, Closing
<1>1. CASE TextDelta
  BY <1>1 DEF TextDelta, Reads, Emit, Follows, locals
<1>2. CASE Completed
  BY <1>2, ProviderAssumption DEF Completed, Reads, Emit, TypeOK
<1>3. CASE Truncated
  BY <1>3 DEF Truncated, Reads, Follows, vendorVars
<1>4. ASSUME NEW i \in Item, ItemAdded(i) \/ ArgumentsDelta(i)
      PROVE  HandedOver' /\ Closing'
  BY <1>4 DEF ItemAdded, ArgumentsDelta, Reads
<1>5. ASSUME NEW i \in Item, ItemDone(i) PROVE HandedOver' /\ Closing'
  BY <1>5 DEF ItemDone, Reads, Emit
<1>6. CASE ChunkUsage
  BY <1>6 DEF ChunkUsage, Reads
<1>7. ASSUME ChunkText \/ (\E i \in Item : ChunkCall(i))
      PROVE  HandedOver' /\ Closing'
  BY <1>7 DEF ChunkText, ChunkCall, Reads, Emit, locals
<1>8. CASE ChunksEnd
  BY <1>8 DEF ChunksEnd, Reads, Emit, Follows, vendorVars
<1>9. CASE Return \/ Raise
  BY <1>9 DEF Return, Raise, locals, vendorVars
<1> QED
  BY <1>1, <1>2, <1>3, <1>4, <1>5, <1>6, <1>7, <1>8, <1>9
  DEF Next, OpenAI, Gemini

LEMMA StutterIInv ==
  ASSUME IInv, UNCHANGED vars
  PROVE  IInv'
<1>1. TypeOK'
  BY DEF IInv, TypeOK, vars, locals, vendorVars
<1>2. Owed'
  BY DEF IInv, Owed, vars, vendorVars
<1>3. Follows'
  BY DEF IInv, Follows, Announced, vars, locals, vendorVars
<1>4. HandedOver' /\ Closing'
  BY DEF IInv, HandedOver, Closing, vars, locals, vendorVars
<1> QED
  BY <1>1, <1>2, <1>3, <1>4 DEF IInv

LEMMA Inductive ==
  Spec => []IInv
<1>1. IInv /\ [Next]_vars => IInv'
  BY StutterIInv, NextTypeOK, NextOwed, NextFollows, NextHandedOver DEF IInv
<1> QED
  BY <1>1, InitIInv, PTL DEF Spec

\* Every variable keeps its type.
THEOREM TypeCorrect == Spec => []TypeOK
<1>1. IInv => TypeOK
  BY DEF IInv
<1> QED
  BY <1>1, Inductive, PTL

\* The planner gets what the vendor sent, in order, each finished call once and
\* whole: for any number of parallel calls in any interleaving of their pieces.
THEOREM HandsOver == Spec => []HandedOver
<1>1. IInv => HandedOver
  BY DEF IInv
<1> QED
  BY <1>1, Inductive, PTL

\* A reply that ends carries the vendor's last usage figure, once and last.
THEOREM UsageIsLast == Spec => []UsageIsLatest
<1>1. IInv => UsageIsLatest
  BY DEF IInv, Closing, UsageIsLatest
<1> QED
  BY <1>1, Inductive, PTL

-----------------------------------------------------------------------------
\* The refinement.  While the stream is open what was yielded is what is owed,
\* so there is no usage in it, and a call of an item that is not done is not
\* in it either.

LEMMA OpenReply ==
  ASSUME IInv, status = "open", ~exhausted
  PROVE  /\ ~Contract!Reported(reply)
         /\ \A i \in Item : vendor[i] # "done" =>
              \A k \in Contract!Calls(reply) : reply[k].item # i
<1>1. reply = due /\ due \in Seq(Events)
  BY DEF IInv, HandedOver, Owed
<1>2. ~Contract!Reported(reply)
  <2>1. \A e \in Events : e.type # "usage"
    BY DEF Events, Text, Call
  <2>2. \A k \in DOMAIN due : due[k] \in Events
    BY <1>1
  <2> QED BY <1>1, <2>1, <2>2 DEF Contract!Reported
<1>3. ASSUME NEW i \in Item, vendor[i] # "done", NEW k \in Contract!Calls(reply)
      PROVE  reply[k].item # i
  BY <1>1, <1>3 DEF IInv, Owed, Contract!Calls
<1> QED
  BY <1>2, <1>3

LEMMA RefinesInit == Init => Contract!Init
BY DEF Init, Contract!Init

LEMMA RefinesText ==
  ASSUME IInv, Reads("openai") \/ Reads("gemini"), Emit(Text),
         UNCHANGED offered
  PROVE  Contract!YieldsText
BY OpenReply
DEF Reads, Emit, Text, Contract!YieldsText, Contract!Yields, Contract!Text

LEMMA RefinesCall ==
  ASSUME IInv, Reads("openai") \/ Reads("gemini"), NEW i \in Item,
         offered, vendor[i] # "done", Emit(Call(i, ArgLen)), UNCHANGED offered
  PROVE  Contract!YieldsCall(i)
<1>1. ArgLen \in 0 .. ArgLen
  BY ProviderAssumption
<1>2. Contract!Yields(Contract!Call(i, ArgLen))
  BY OpenReply DEF Reads, Emit, Call, Contract!Yields, Contract!Call
<1> QED
  BY <1>1, <1>2, OpenReply DEF Reads, Contract!YieldsCall

LEMMA RefinesUsage ==
  ASSUME IInv, Reads("openai") \/ Reads("gemini"), NEW n \in 1 .. MaxUsage,
         Emit(Usage(n)), UNCHANGED offered
  PROVE  Contract!YieldsUsage
<1>1. Contract!Yields(Contract!Usage(n))
  BY OpenReply DEF Reads, Emit, Usage, Contract!Yields, Contract!Usage
<1> QED
  BY <1>1 DEF Contract!YieldsUsage

LEMMA RefinesNext ==
  ASSUME IInv, Next
  PROVE  Contract!Next \/ UNCHANGED <<offered, reply, status>>
<1> USE DEF Contract!Next
<1>1. CASE TextDelta
  BY <1>1, RefinesText DEF TextDelta
<1>2. CASE Completed
  BY <1>2, RefinesUsage, ProviderAssumption DEF Completed
<1>3. ASSUME NEW i \in Item, ItemDone(i)
      PROVE  Contract!Next \/ UNCHANGED <<offered, reply, status>>
  <2>1. offered /\ vendor[i] # "done" /\ Reads("openai") /\ UNCHANGED offered
    BY <1>3 DEF ItemDone, Sends
  <2>2. CASE SlotOf(i).id
    BY <1>3, <2>1, <2>2, RefinesCall DEF ItemDone
  <2>3. CASE ~SlotOf(i).id
    BY <1>3, <2>1, <2>3 DEF ItemDone, Reads, Contract!Raises
  <2> QED BY <2>2, <2>3
<1>4. CASE ChunkText
  BY <1>4, RefinesText DEF ChunkText
<1>5. ASSUME NEW i \in Item, ChunkCall(i) PROVE Contract!Next
  BY <1>5, RefinesCall DEF ChunkCall, Sends
<1>6. CASE ChunksEnd
  BY <1>6, RefinesUsage DEF ChunksEnd, IInv, TypeOK
<1>7. CASE Return \/ Raise
  BY <1>7 DEF Return, Raise, Contract!Ends, Contract!Raises
<1>8. ASSUME NEW i \in Item, ItemAdded(i) \/ ArgumentsDelta(i)
      PROVE  UNCHANGED <<offered, reply, status>>
  BY <1>8 DEF ItemAdded, ArgumentsDelta
<1>9. CASE Truncated \/ ChunkUsage
  BY <1>9 DEF Truncated, ChunkUsage
<1> QED
  BY <1>1, <1>2, <1>3, <1>4, <1>5, <1>6, <1>7, <1>8, <1>9
  DEF Next, OpenAI, Gemini

\* Whatever the vendor sends and however it is cut off, what stream() yields is a
\* reply the planner is written for: no call twice, none that was not offered, at
\* most one usage event and nothing behind it.
THEOREM RefinesContract == Spec => RefinesReply
<1>1. IInv /\ [Next]_vars => [Contract!Next]_<<offered, reply, status>>
  BY RefinesNext DEF vars
<1> QED
  BY <1>1, RefinesInit, Inductive, PTL DEF Spec, RefinesReply, Contract!Spec
=============================================================================
