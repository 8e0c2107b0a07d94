--------------------------- MODULE ResponsesStream ---------------------------
(****************************************************************************)
(* The assembly of a Responses stream (causa-protocol, streaming/           *)
(* responses/): items and their parts are opened, filled and closed, and    *)
(* the terminal event holds the whole output, which is what counts.         *)
(*                                                                          *)
(* The arguments an open call has collected are never read and left out.    *)
(****************************************************************************)
EXTENDS StreamFrame

NewResponses == [id |-> <<>>, items |-> <<>>, tools |-> 0, parts |-> 0]

(* A part: closed once its text is said, completed once it was repeated as a *)
(* whole.                                                                    *)
Part(type) == [type |-> type, closed |-> FALSE, completed |-> FALSE]

NewItem(wire, tools) ==
    [id |-> wire.id, type |-> wire.type, call_id |-> "", name |-> <<>>, call |-> tools,
     arguments_done |-> FALSE, closed |-> FALSE, parts |-> <<>>, summaries |-> <<>>]

IsCallItem(item) == item.type = "function_call"

(* A response may name itself once.                                          *)
Renamed(asm, response) == asm.id \notin {<<>>, <<response.id>>}

Named(asm, response) == [asm EXCEPT !.id = <<response.id>>]

ResponseStarted(asm, event) ==
    IF Renamed(asm, event.response) \/ event.response.status \notin {"in_progress", "queued"}
    THEN Broken ELSE Accepted(Named(asm, event.response), <<>>)

ItemAdded(asm, event) ==
    LET wire == event.item
        item == NewItem(wire, asm.tools)
        call == [item EXCEPT !.call_id = wire.call_id, !.name = wire.name]
        with(new, tools) == [asm EXCEPT !.items = Append(@, new), !.tools = tools]
    IN  IF \/ ~OneMore(Len(asm.items)) \/ event.output_index # Len(asm.items) \/ wire.id = ""
           \/ \E i \in 1..Len(asm.items) : asm.items[i].id = wire.id
        THEN Broken
        ELSE IF ~IsCallItem(wire) THEN Accepted(with(item, asm.tools), <<>>)
        ELSE IF \/ wire.call_id = "" \/ wire.name = <<>>
                \/ \E i \in 1..Len(asm.items) : asm.items[i].call_id = wire.call_id
        THEN Broken
        ELSE Accepted(with(call, asm.tools + 1),
                 <<ToolCallDelta(asm.tools, <<wire.call_id>>, <<wire.name>>, wire.arguments)>>)

(* The item an event of an open item is about.                               *)
Addressed(asm, event) ==
    /\ event.output_index < Len(asm.items)
    /\ LET item == asm.items[event.output_index + 1] IN ~item.closed /\ item.id = event.item_id

FitsItem(item, event) ==
    IF event.list = "summaries" THEN item.type = "reasoning" /\ event.part = "summary_text"
    ELSE \/ item.type = "message" /\ event.part # "reasoning_text"
         \/ item.type = "reasoning" /\ event.part = "reasoning_text"

(* What the host hears of a text of some part.                               *)
PartDeltas(type, text) ==
    CASE type = "output_text"                         -> <<TextDelta(text)>>
      [] type \in {"summary_text", "reasoning_text"}  -> <<ReasoningDelta(text)>>
      [] OTHER                                        -> <<>>

(* content_part.* and output_text.*, refusal.*, reasoning_text.* events are  *)
(* about a list of parts, reasoning_summary_* about a list of summaries.     *)
ContentEvent(asm, event) ==
    LET i     == event.output_index + 1
        p     == event.part_index + 1
        item  == asm.items[i]
        parts == item[event.list]
        known == p <= Len(parts) /\ parts[p].type = event.part
        put(part) == [asm EXCEPT !.items[i][event.list] = [@ EXCEPT ![p] = part]]
    IN  CASE event.type = "part.added" ->
               IF ~OneMore(asm.parts) \/ ~FitsItem(item, event) \/ event.part_index # Len(parts)
               THEN Broken
               ELSE Accepted([asm EXCEPT !.items[i][event.list] = Append(@, Part(event.part)),
                                         !.parts = @ + 1],
                             IF event.text = <<>> THEN <<>> ELSE PartDeltas(event.part, event.text))
          [] event.type = "text.delta" ->
               IF ~known THEN Broken
               ELSE IF parts[p].closed THEN Broken
               ELSE Accepted(asm, PartDeltas(event.part, event.text))
          [] event.type = "text.done" ->
               IF ~known THEN Broken
               ELSE IF parts[p].closed THEN Broken
               ELSE Accepted(put([parts[p] EXCEPT !.closed = TRUE]), <<>>)
          [] event.type = "part.done" ->
               IF ~known THEN Broken
               ELSE IF parts[p].completed THEN Broken
               ELSE Accepted(put([parts[p] EXCEPT !.closed = TRUE, !.completed = TRUE]), <<>>)

ArgumentsEvent(asm, event) ==
    LET i == event.output_index + 1 IN
    IF ~IsCallItem(asm.items[i]) \/ asm.items[i].arguments_done THEN Broken
    ELSE IF event.type = "arguments.delta"
         THEN Accepted(asm, <<ToolCallDelta(asm.items[i].call, <<>>, <<>>, <<event.text>>)>>)
    ELSE IF event.name # asm.items[i].name THEN Broken
    ELSE Accepted([asm EXCEPT !.items[i].arguments_done = TRUE], <<>>)

SameIdentity(item, wire) ==
    /\ wire.id = item.id /\ wire.type = item.type
    /\ IsCallItem(item) => wire.call_id = item.call_id /\ wire.name = item.name

ItemDone(asm, event) ==
    LET i == event.output_index + 1 IN
    IF i > Len(asm.items) THEN Broken
    ELSE IF asm.items[i].closed \/ ~SameIdentity(asm.items[i], event.item) THEN Broken
    ELSE Accepted([asm EXCEPT !.items[i].closed = TRUE,
                              !.items[i].arguments_done = @ \/ IsCallItem(event.item)], <<>>)

(* The parts of a whole item: its content, or else its summary.              *)
PartsOf(wire) ==
    CASE "content" \in DOMAIN wire -> wire.content
      [] "content" \notin DOMAIN wire /\ "summary" \in DOMAIN wire -> wire.summary
      [] OTHER -> <<>>

(* Every item that was declared is in the output, under its identity, and    *)
(* none has too many parts, streamed or not.                                 *)
TerminalOutput(asm, response) ==
    LET output == response.output
        cutOff == ResponsesStop(response.status, response.reason) = "MaxTokens"
        callsBefore(i) == Cardinality({j \in 1..i - 1 : IsCallItem(output[j])})
    IN  /\ Len(output) <= MaxItems /\ Len(output) = Len(asm.items)
        /\ \A i \in 1..Len(output) :
              /\ SameIdentity(asm.items[i], output[i])
              /\ Len(PartsOf(output[i])) <= MaxItems
              /\ IsCallItem(output[i]) =>
                    /\ asm.items[i].call = callsBefore(i)
                    /\ output[i].arguments.value = "incomplete" => cutOff /\ i = Len(output)

Terminal(asm, event) ==
    LET response == event.response IN
    IF Renamed(asm, response) \/ response.status # event.status THEN Broken
    ELSE IF response.status = "failed" THEN ProviderError
    ELSE IF ~TerminalOutput(asm, response) THEN Broken
    ELSE Finished(Named(asm, response), ParseResponses(response))

ResponsesEvent(asm, event) ==
    CASE event.type = "error"             -> ProviderError
      [] event.type = "started"           -> ResponseStarted(asm, event)
      [] event.type = "output_item.added" -> ItemAdded(asm, event)
      [] event.type \in {"part.added", "text.delta", "text.done", "part.done"} ->
           IF ~Addressed(asm, event) THEN Broken ELSE ContentEvent(asm, event)
      [] event.type \in {"arguments.delta", "arguments.done"} ->
           IF ~Addressed(asm, event) THEN Broken ELSE ArgumentsEvent(asm, event)
      [] event.type = "output_item.done"  -> ItemDone(asm, event)
      [] event.type = "terminal"          -> Terminal(asm, event)
      [] OTHER                            -> Accepted(asm, <<>>)
=============================================================================
