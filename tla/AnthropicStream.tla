--------------------------- MODULE AnthropicStream ---------------------------
(****************************************************************************)
(* The assembly of an Anthropic Messages stream (causa-protocol, streaming/ *)
(* anthropic.rs): blocks are opened, filled and closed by index.            *)
(****************************************************************************)
EXTENDS StreamFrame

NewAnthropic ==
    [started |-> FALSE, stopped |-> FALSE, blocks |-> <<>>, tools |-> 0, reason |-> <<>>]

NewBlock(wire, call) ==
    [wire |-> wire, arguments |-> <<>>, saw_arguments |-> FALSE, incomplete |-> FALSE,
     closed |-> FALSE, call |-> call]

IsTool(wire) == wire.type = "tool_use"

(* Mutant: a call is numbered by its block, not among the calls.             *)
OpeningDeltasByBlock(asm, wire) ==
    IF IsTool(wire) THEN <<ToolCallDelta(Len(asm.blocks), <<wire.id>>, <<wire.name>>, <<>>)>>
    ELSE IF wire.type = "text" THEN NonEmpty(wire.text, TextDelta(wire.text)) ELSE <<>>

(* What the host hears when a block opens: calls are numbered in order.      *)
OpeningDeltas(asm, wire) ==
    CASE wire.type = "text"     -> NonEmpty(wire.text, TextDelta(wire.text))
      [] wire.type = "thinking" -> NonEmpty(wire.thinking, ReasoningDelta(wire.thinking))
      [] IsTool(wire)           -> <<ToolCallDelta(asm.tools, <<wire.id>>, <<wire.name>>, <<>>)>>
      [] OTHER                  -> <<>>

BlockStart(asm, event) ==
    LET wire == event.block
        taken(id) == \E b \in 1..Len(asm.blocks) :
                        "id" \in DOMAIN asm.blocks[b].wire /\ asm.blocks[b].wire.id = id
    IN  IF \/ asm.stopped \/ ~OneMore(Len(asm.blocks)) \/ event.index # Len(asm.blocks)
           \/ IsTool(wire) /\ (wire.id = "" \/ wire.name = <<>> \/ taken(wire.id) \/ ~IsObject(wire.input))
        THEN Broken
        ELSE Accepted([asm EXCEPT !.blocks = Append(@, NewBlock(wire, asm.tools)),
                                  !.tools = IF IsTool(wire) THEN @ + 1 ELSE @],
                      OpeningDeltas(asm, wire))

(* The block an event of an open message is about.                           *)
OpenBlock(asm, event) ==
    /\ ~asm.stopped
    /\ event.index < Len(asm.blocks) /\ ~asm.blocks[event.index + 1].closed

TakesInput(wire) ==
    IsTool(wire) \/ (wire.type \notin {"text", "thinking"} /\ "input" \in DOMAIN wire
                     /\ IsObject(wire.input))

FieldOf(delta) ==
    CASE delta.type = "text_delta"      -> "text"
      [] delta.type = "thinking_delta"  -> "thinking"
      [] delta.type = "signature_delta" -> "signature"
      [] delta.type = "citations_delta" -> "citations"
      [] OTHER                          -> "none"

DeltaFits(wire, delta) ==
    CASE FieldOf(delta) \in {"text", "citations"}     -> wire.type = "text"
      [] FieldOf(delta) \in {"thinking", "signature"} -> wire.type = "thinking"
      [] delta.type = "input_json_delta"              -> TakesInput(wire)
      [] OTHER                                        -> FALSE

(* A string field grows by a fragment, the list of citations by one.         *)
Grown(wire, field, fragment) ==
    WithField(wire, field, IF field \in DOMAIN wire THEN wire[field] \o fragment ELSE fragment)

BlockDelta(asm, event) ==
    LET b      == event.index + 1
        block  == asm.blocks[b]
        delta  == event.delta
        fields == [asm EXCEPT !.blocks[b].wire = Grown(@, FieldOf(delta), delta.text)]
        input  == [asm EXCEPT !.blocks[b].arguments = @ \o delta.text,
                              !.blocks[b].saw_arguments = TRUE]
    IN  IF ~OpenBlock(asm, event) THEN Broken
        ELSE IF ~DeltaFits(block.wire, delta) THEN Broken
        ELSE CASE delta.type = "input_json_delta" ->
                    Accepted(input, IF IsTool(block.wire)
                                    THEN <<ToolCallDelta(block.call, <<>>, <<>>, <<delta.text>>)>>
                                    ELSE <<>>)
               [] delta.type = "text_delta"     -> Accepted(fields, <<TextDelta(delta.text)>>)
               [] delta.type = "thinking_delta" -> Accepted(fields, <<ReasoningDelta(delta.text)>>)
               [] OTHER                         -> Accepted(fields, <<>>)

(* Arguments that are not JSON are judged when the message ends.             *)
BlockStop(asm, event) ==
    LET b      == event.index + 1
        input  == JsonOf(asm.blocks[b].arguments)
        closed == [asm EXCEPT !.blocks[b].closed = TRUE, !.blocks[b].arguments = <<>>]
    IN  IF ~OpenBlock(asm, event) THEN Broken
        ELSE CASE ~asm.blocks[b].saw_arguments -> Accepted(closed, <<>>)
               [] OTHER ->
                    CASE IsObject(input) -> Accepted([closed EXCEPT !.blocks[b].wire.input = input], <<>>)
                      [] input = "array" -> Broken
                      [] OTHER -> Accepted([closed EXCEPT !.blocks[b].incomplete = TRUE], <<>>)

(* Mutant: a message may end with a block still open.                        *)
AllClosedUnchecked(asm) == TRUE

AllClosed(asm) == \A b \in 1..Len(asm.blocks) : asm.blocks[b].closed

MessageDelta(asm, event) ==
    IF ~AllClosed(asm) THEN Broken
    ELSE IF event.stop_reason = <<>> THEN Accepted(asm, <<>>)
    ELSE IF asm.reason \notin {<<>>, event.stop_reason} THEN Broken
    ELSE Accepted([asm EXCEPT !.reason = event.stop_reason, !.stopped = TRUE], <<>>)

(* The token limit may stop the message inside its last block, which is then *)
(* left out.                                                                 *)
MessageStop(asm) ==
    LET cutOff == asm.reason # <<>> /\ AnthropicStop(asm.reason[1]) = "MaxTokens"
        kept   == IF cutOff /\ asm.blocks # <<>> /\ Last(asm.blocks).incomplete
                  THEN Front(asm.blocks) ELSE asm.blocks
    IN  IF \/ ~AllClosed(asm) \/ asm.reason = <<>>
           \/ \E b \in 1..Len(kept) : kept[b].incomplete
        THEN Broken
        ELSE Finished([asm EXCEPT !.blocks = <<>>],
                 ParseAnthropic([content |-> [b \in 1..Len(kept) |-> kept[b].wire],
                                 stop_reason |-> asm.reason]))

(* The events of a message that has started.                                 *)
MessageEvents ==
    {"content_block_start", "content_block_delta", "content_block_stop", "message_delta", "message_stop"}

MessageEvent(asm, event) ==
    CASE event.type = "content_block_start" -> BlockStart(asm, event)
      [] event.type = "content_block_delta" -> BlockDelta(asm, event)
      [] event.type = "content_block_stop"  -> BlockStop(asm, event)
      [] event.type = "message_delta"       -> MessageDelta(asm, event)
      [] event.type = "message_stop"        -> MessageStop(asm)

AnthropicEvent(asm, event) ==
    CASE event.type = "error" -> ProviderError
      [] event.type = "message_start" ->
           IF asm.started THEN Broken ELSE Accepted([asm EXCEPT !.started = TRUE], <<>>)
      [] event.type \in MessageEvents ->
           IF asm.started THEN MessageEvent(asm, event) ELSE Broken
      [] OTHER -> Accepted(asm, <<>>)
=============================================================================
