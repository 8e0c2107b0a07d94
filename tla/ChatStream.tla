------------------------------ MODULE ChatStream ------------------------------
(****************************************************************************)
(* The assembly of a Chat Completions stream (causa-protocol, streaming/    *)
(* chat.rs): chunks hold fragments of text, reasoning and calls; a finish   *)
(* reason ends the choice, [DONE] the stream.                               *)
(****************************************************************************)
EXTENDS StreamFrame

NewChat == [id |-> <<>>, text |-> <<>>, reasoning |-> <<>>, tools |-> <<>>, finish |-> <<>>]

NewTool == [id |-> <<>>, name |-> <<>>, arguments |-> <<>>]

Complete(tool) == JsonOf(tool.arguments) # "incomplete"

(* Mutant: every tool has to be whole, whatever stopped the stream.          *)
WholeToolsAll(asm) == asm.tools

(* The tools of the message: the last one is left out when the token limit   *)
(* stopped the stream inside it.                                             *)
WholeTools(asm) ==
    LET cutOff == ChatStop(asm.finish[1]) = "MaxTokens"
    IN  IF asm.tools # <<>> /\ cutOff /\ ~Complete(Last(asm.tools)) THEN Front(asm.tools) ELSE asm.tools

AssembledCall(tool) ==
    [id |-> tool.id[1], type |-> "function",
     function |-> [name |-> tool.name, arguments |-> RawArguments(tool.arguments)]]

AssembledMessage(asm, tools) ==
    LET called == [role |-> "assistant", tool_calls |-> [t \in 1..Len(tools) |-> AssembledCall(tools[t])]]
        said   == IF asm.text = <<>> THEN called ELSE WithField(called, "content", [str |-> asm.text])
    IN  IF asm.reasoning = <<>> THEN said ELSE WithField(said, "reasoning_content", asm.reasoning)

ChatDone(asm) ==
    IF asm.finish = <<>> THEN Broken
    ELSE LET tools == WholeTools(asm) IN
         IF \E t \in 1..Len(tools) : tools[t].id = <<>> \/ tools[t].name = <<>> \/ ~Complete(tools[t])
         THEN Broken
         ELSE Finished(asm, ParseChat([choices |-> <<[message |-> AssembledMessage(asm, tools),
                                                      finish_reason |-> asm.finish]>>]))

GrownTool(tool, call) ==
    [id |-> IF tool.id = <<>> THEN call.id ELSE tool.id,
     name |-> tool.name \o FlattenSeq(call.name),
     arguments |-> tool.arguments \o FlattenSeq(call.arguments)]

(* A fragment of a call: a new index declares it, an id is said once or the  *)
(* same again, name and arguments grow.                                      *)
ToolFragment(asm, call) ==
    LET i     == call.index + 1
        isNew == i > Len(asm.tools)
        tools == IF isNew THEN Append(asm.tools, NewTool) ELSE asm.tools
        grown == [tools EXCEPT ![i] = GrownTool(@, call)]
    IN  IF \/ isNew /\ (~OneMore(Len(asm.tools)) \/ call.index # Len(asm.tools))
           \/ call.id # <<>> /\ (\/ call.id = <<"">>
                                 \/ tools[i].id \notin {<<>>, call.id}
                                 \/ \E t \in 1..Len(tools) : t # i /\ tools[t].id = call.id)
        THEN Broken
        ELSE Accepted([asm EXCEPT !.tools = grown],
                 <<ToolCallDelta(call.index, call.id, call.name, call.arguments)>>)

ThenFragment(at, call) ==
    IF ~at.ok THEN at
    ELSE LET next == ToolFragment(at.asm, call)
         IN  IF next.ok THEN Accepted(next.asm, at.deltas \o next.deltas) ELSE next

Choice(asm, choice) ==
    LET said == [asm EXCEPT !.text = @ \o choice.content, !.reasoning = @ \o choice.reasoning]
        end  == FoldLeft(ThenFragment, Accepted(said, NonEmpty(choice.content, TextDelta(choice.content))),
                         choice.tool_calls)
    IN  IF asm.finish # <<>> THEN Broken
        ELSE IF ~end.ok \/ choice.finish_reason = <<>> THEN end
        ELSE Accepted([end.asm EXCEPT !.finish = choice.finish_reason], end.deltas)

ChatEvent(asm, event) ==
    CASE event.type = "[DONE]" -> ChatDone(asm)
      [] event.type = "error"  -> ProviderError
      [] event.type = "chunk"  ->
           IF asm.id \notin {<<>>, event.id} \/ Len(event.choices) > 1 THEN Broken
           ELSE LET named == [asm EXCEPT !.id = event.id]
                IN  IF event.choices = <<>> THEN Accepted(named, <<>>)
                    ELSE Choice(named, event.choices[1])
=============================================================================
