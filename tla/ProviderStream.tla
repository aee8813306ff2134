----------------------------- MODULE ProviderStream -----------------------------
(***************************************************************************)
(* stream() of OpenAIProvider and GeminiProvider (app/ai/providers): how   *)
(* the events of the vendor become the events of one reply.  The vendor is *)
(* the environment.  OpenAI sends a function call in pieces, of several    *)
(* items in parallel, and may lose the first; Gemini sends it whole.       *)
(* Arguments are their length.                                             *)
(***************************************************************************)
EXTENDS Naturals, Sequences

CONSTANTS Item,           \* the function calls the vendor may make
          MaxText,        \* bound: text deltas of a reply
          ArgLen,         \* bound: pieces the arguments of a call come in
          MaxUsage        \* bound: usage reports of a reply

ASSUME ProviderAssumption ==
  MaxText \in Nat /\ ArgLen \in Nat /\ MaxUsage \in Nat

VARIABLES provider,                \* "openai" or "gemini"
          offered,                 \* were tools passed to stream()?
          reply,                   \* the events yielded so far
          status,                  \* of the generator: open, ended, raised
          accumulated_tool_calls,  \* slots by item id (openai)
          has_tool_calls,          \* a local of stream() (openai)
          last_usage,              \* a local of stream() (gemini), 0 for None
          exhausted,               \* is the vendor's stream at its end?
          vendor,                  \* how far the vendor is with each call
          due, texts, reported     \* history: what it sent so far

vendorVars == <<vendor, due, texts, reported>>
locals == <<accumulated_tool_calls, has_tool_calls, last_usage, exhausted>>
vars == <<provider, offered, reply, status, locals, vendorVars>>

\* What is yielded: ContentDelta, ToolCallComplete, UsageEvent.
Text == [type |-> "text"]
Call(i, args) == [type |-> "call", item |-> i, args |-> args]
Usage(n) == [type |-> "usage", total |-> n]

\* id: does the slot have its "id"?     arguments: how much of them
Slot == [id : BOOLEAN, arguments : 0 .. ArgLen]
NoSlot == [id |-> FALSE, arguments |-> 0]
SlotOf(i) == IF i \in DOMAIN accumulated_tool_calls
             THEN accumulated_tool_calls[i] ELSE NoSlot
Put(i, slot) == [k \in DOMAIN accumulated_tool_calls \cup {i} |->
                   IF k = i THEN slot ELSE accumulated_tool_calls[k]]

Init ==
  /\ offered \in BOOLEAN /\ reply = <<>> /\ status = "open"
  /\ provider \in {"openai", "gemini"}
  /\ accumulated_tool_calls = [i \in {} |-> NoSlot]
  /\ has_tool_calls = FALSE /\ last_usage = 0 /\ exhausted = FALSE
  /\ vendor = [i \in Item |-> "unsent"]
  /\ due = <<>> /\ texts = 0 /\ reported = 0

Reads(p) == status = "open" /\ ~exhausted /\ provider = p
Emit(event) == reply' = Append(reply, event) /\ UNCHANGED status
Announced == \E i \in Item : vendor[i] # "unsent"

\* The vendor gets on with a call.  It knows of the tools it was offered.
Sends(i, from, to) ==
  /\ offered /\ vendor[i] \in from
  /\ vendor' = [vendor EXCEPT ![i] = to]

-----------------------------------------------------------------------------
\* OpenAI: response.output_text.delta

\* Text that follows a call is dropped.
TextDelta ==
  /\ Reads("openai") /\ texts < MaxText
  /\ texts' = texts + 1
  /\ due' = IF Announced THEN due ELSE Append(due, Text)
  /\ IF has_tool_calls THEN UNCHANGED <<reply, status>> ELSE Emit(Text)
  /\ UNCHANGED <<provider, offered, locals, vendor, reported>>

\* Mutant: only a finished call counts.
ItemAddedSilently(i) ==
  /\ Reads("openai") /\ Sends(i, {"unsent", "streamed"}, "added")
  /\ accumulated_tool_calls' = Put(i, [id |-> TRUE, arguments |-> 0])
  /\ UNCHANGED <<provider, offered, reply, status, has_tool_calls, last_usage,
                 exhausted, due, texts, reported>>

\* response.output_item.added; late, it starts the slot anew.
ItemAdded(i) ==
  /\ Reads("openai") /\ Sends(i, {"unsent", "streamed"}, "added")
  /\ has_tool_calls' = TRUE
  /\ accumulated_tool_calls' = Put(i, [id |-> TRUE, arguments |-> 0])
  /\ UNCHANGED <<provider, offered, reply, status, last_usage, exhausted,
                 due, texts, reported>>

\* response.function_call_arguments.delta, also of an item not yet added.
ArgumentsDelta(i) ==
  /\ Reads("openai")
  /\ \/ Sends(i, {"unsent", "streamed"}, "streamed")
     \/ Sends(i, {"added"}, "added")
  /\ has_tool_calls' = TRUE
  /\ SlotOf(i).arguments < ArgLen
  /\ accumulated_tool_calls' =
       Put(i, [id |-> TRUE, arguments |-> SlotOf(i).arguments + 1])
  /\ UNCHANGED <<provider, offered, reply, status, last_usage, exhausted,
                 due, texts, reported>>

\* Mutant: the arguments are those that were streamed.
ItemDoneStreamed(i) ==
  /\ Reads("openai") /\ Sends(i, {"unsent", "added", "streamed"}, "done")
  /\ has_tool_calls' = TRUE
  /\ accumulated_tool_calls' = Put(i, SlotOf(i))
  /\ IF SlotOf(i).id THEN Emit(Call(i, SlotOf(i).arguments))
     ELSE status' = "raised" /\ UNCHANGED reply
  /\ due' = Append(due, Call(i, ArgLen))
  /\ UNCHANGED <<provider, offered, last_usage, exhausted, texts, reported>>

\* response.output_item.done: name and arguments are those of the event, but
\* the id is that of the slot, and a slot made here has none (KeyError).
ItemDone(i) ==
  /\ Reads("openai") /\ Sends(i, {"unsent", "added", "streamed"}, "done")
  /\ has_tool_calls' = TRUE
  /\ accumulated_tool_calls' = Put(i, [SlotOf(i) EXCEPT !.arguments = ArgLen])
  /\ IF SlotOf(i).id THEN Emit(Call(i, ArgLen))
     ELSE status' = "raised" /\ UNCHANGED reply
  /\ due' = Append(due, Call(i, ArgLen))
  /\ UNCHANGED <<provider, offered, last_usage, exhausted, texts, reported>>

\* response.completed, the last event, with or without usage.
Completed ==
  /\ Reads("openai")
  /\ exhausted' = TRUE
  /\ \E n \in 0 .. MaxUsage :
       /\ reported' = n
       /\ IF n > 0 THEN Emit(Usage(n)) ELSE UNCHANGED <<reply, status>>
  /\ UNCHANGED <<provider, offered, accumulated_tool_calls, has_tool_calls,
                 last_usage, vendor, due, texts>>

\* response.failed and response.incomplete are not looked at: the stream just
\* ends, and calls that were not finished are gone.
Truncated ==
  /\ Reads("openai")
  /\ exhausted' = TRUE
  /\ UNCHANGED <<provider, offered, reply, status, accumulated_tool_calls,
                 has_tool_calls, last_usage, vendorVars>>

-----------------------------------------------------------------------------
\* Gemini: the parts of its chunks

\* Mutant: each chunk's usage is yielded as it comes.
ChunkUsageYielded ==
  /\ Reads("gemini") /\ reported < MaxUsage
  /\ reported' = reported + 1
  /\ Emit(Usage(reported'))
  /\ UNCHANGED <<provider, offered, locals, vendor, due, texts>>

\* Mutant: the running totals are added up.
ChunkUsageSummed ==
  /\ Reads("gemini") /\ reported < MaxUsage
  /\ reported' = reported + 1
  /\ last_usage' = last_usage + reported'
  /\ UNCHANGED <<provider, offered, reply, status, accumulated_tool_calls,
                 has_tool_calls, exhausted, vendor, due, texts>>

\* Mutant: the first report stays.
ChunkUsageFirst ==
  /\ Reads("gemini") /\ reported < MaxUsage
  /\ reported' = reported + 1
  /\ last_usage' = IF last_usage = 0 THEN reported' ELSE last_usage
  /\ UNCHANGED <<provider, offered, reply, status, accumulated_tool_calls,
                 has_tool_calls, exhausted, vendor, due, texts>>

\* usage_metadata, a running total.
ChunkUsage ==
  /\ Reads("gemini") /\ reported < MaxUsage
  /\ reported' = reported + 1
  /\ last_usage' = reported'
  /\ UNCHANGED <<provider, offered, reply, status, accumulated_tool_calls,
                 has_tool_calls, exhausted, vendor, due, texts>>

\* A text part, also behind a call.
ChunkText ==
  /\ Reads("gemini") /\ texts < MaxText
  /\ texts' = texts + 1
  /\ due' = Append(due, Text)
  /\ Emit(Text)
  /\ UNCHANGED <<provider, offered, locals, vendor, reported>>

\* A function_call part is complete.
ChunkCall(i) ==
  /\ Reads("gemini") /\ Sends(i, {"unsent"}, "done")
  /\ due' = Append(due, Call(i, ArgLen))
  /\ Emit(Call(i, ArgLen))
  /\ UNCHANGED <<provider, offered, locals, texts, reported>>

\* After the loop over the chunks.
ChunksEnd ==
  /\ Reads("gemini")
  /\ exhausted' = TRUE
  /\ IF last_usage > 0 THEN Emit(Usage(last_usage))
     ELSE UNCHANGED <<reply, status>>
  /\ UNCHANGED <<provider, offered, accumulated_tool_calls, has_tool_calls,
                 last_usage, vendorVars>>

-----------------------------------------------------------------------------
Return ==
  /\ status = "open" /\ exhausted
  /\ status' = "ended"
  /\ UNCHANGED <<provider, offered, reply, locals, vendorVars>>

\* The SDK raises: refused, cut off, timed out.
Raise ==
  /\ status = "open" /\ ~exhausted
  /\ status' = "raised"
  /\ UNCHANGED <<provider, offered, reply, locals, vendorVars>>

OpenAI == \/ TextDelta \/ Completed \/ Truncated
          \/ \E i \in Item : ItemAdded(i) \/ ArgumentsDelta(i) \/ ItemDone(i)
Gemini == \/ ChunkUsage \/ ChunkText \/ ChunksEnd
          \/ \E i \in Item : ChunkCall(i)
Next == OpenAI \/ Gemini \/ Return \/ Raise

Spec == Init /\ [][Next]_vars

-----------------------------------------------------------------------------
\* What holds

TypeOK ==
  /\ provider \in {"openai", "gemini"} /\ offered \in BOOLEAN
  /\ status \in {"open", "ended", "raised"} /\ exhausted \in BOOLEAN
  /\ DOMAIN accumulated_tool_calls \subseteq Item
  /\ \A i \in DOMAIN accumulated_tool_calls : accumulated_tool_calls[i] \in Slot
  /\ has_tool_calls \in BOOLEAN
  /\ vendor \in [Item -> {"unsent", "added", "streamed", "done"}]
  /\ texts \in 0 .. MaxText
  /\ last_usage \in 0 .. MaxUsage /\ reported \in 0 .. MaxUsage

\* The planner gets what the vendor sent, in order: every call that was
\* finished, once and with all its arguments, however the pieces of parallel
\* calls interleave and whether their first piece came; all of the text, with
\* OpenAI that before the first sign of a call; and nothing of a call that was
\* not finished.  A call of which no piece at all came before it is done makes
\* stream() raise (KeyError), and a reply that raised is excluded.
HandedOver ==
  status # "raised" /\ ~exhausted => reply = due

\* A reply that ends has one usage event, with the vendor's last figure and
\* behind everything else, if the vendor reported any, and otherwise none.
UsageIsLatest ==
  status = "ended" =>
    reply = IF reported > 0 THEN Append(due, Usage(reported)) ELSE due

\* Both providers implement what the planner counts on.
Contract == INSTANCE AIReply WITH Arguments <- 0 .. ArgLen,
                                  Total <- 1 .. MaxUsage
RefinesReply == Contract!Spec
=============================================================================
