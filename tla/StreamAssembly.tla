---------------------------- MODULE StreamAssembly ----------------------------
(****************************************************************************)
(* An answer streamed by a provider and put together again (causa-protocol, *)
(* streaming/): the events arrive one by one, and up to MaxFaults of them   *)
(* are lost, repeated, swapped with their neighbour, replaced by an error,  *)
(* or are the last to arrive.  The host hears the deltas.                   *)
(****************************************************************************)
EXTENDS AnthropicStream, ChatStream, ResponsesStream

CONSTANTS Scripts,     \* [protocol, events, answer, fits]: a stream, the answer it streams,
                       \* and whether it keeps within the limits
          MaxFaults    \* bound: what goes wrong between provider and adapter

ASSUME MaxFaultsAssumption == MaxFaults \in Nat

(* What a provider sends: the fields of its events have their types.         *)
Text == Seq(STRING)

AnthropicEvents(event) ==
    /\ event.type \in {"content_block_start", "content_block_delta", "content_block_stop"} =>
           "index" \in DOMAIN event /\ event.index \in Nat
    /\ event.type = "content_block_start" =>
           LET wire == event.block
           IN  /\ "type" \in DOMAIN wire
               /\ wire.type = "text" => "text" \in DOMAIN wire /\ wire.text \in Text
               /\ wire.type = "thinking" => wire.thinking \in Text
               /\ IsTool(wire) => /\ {"id", "name", "input"} \subseteq DOMAIN wire
                                  /\ wire.id \in STRING /\ wire.name \in Text
    /\ event.type = "content_block_delta" => event.delta.text \in Text
    /\ event.type = "message_delta" => event.stop_reason \in Seq(STRING)

CallFragments ==
    {call \in [index : Nat, id : Seq(STRING), name : Seq(Text), arguments : Seq(Text)] : Len(call.id) <= 1}

ChatEvents(event) ==
    /\ event.type \in {"chunk", "[DONE]", "error"}
    /\ event.type = "chunk" =>
           /\ event.id \in Seq(STRING)
           /\ event.choices # <<>> =>
                  LET choice == event.choices[1]
                  IN  /\ choice.content \in Text /\ choice.reasoning \in Text
                      /\ choice.tool_calls \in Seq(CallFragments) /\ choice.finish_reason \in Seq(STRING)

PartEvents == {"part.added", "text.delta", "text.done", "part.done"}

ItemEvents == PartEvents \cup
    {"output_item.added", "arguments.delta", "arguments.done", "output_item.done"}

ResponsesEvents(event) ==
    /\ event.type \in ItemEvents => event.output_index \in Nat
    /\ event.type \in PartEvents =>
           event.list \in {"parts", "summaries"} /\ event.part_index \in Nat /\ event.text \in Text
    /\ event.type = "arguments.delta" => event.text \in Text
    /\ event.type = "output_item.added" /\ IsCallItem(event.item) =>
           event.item.call_id \in STRING /\ event.item.name \in Text /\ event.item.arguments \in Seq(Text)
    /\ event.type = "terminal" => IsSequence(event.response.output)

(* The block or item an event is about; a chunk is about the one message.    *)
Position(event) ==
    IF "index" \in DOMAIN event THEN event.index
    ELSE IF "output_index" \in DOMAIN event THEN event.output_index ELSE 0

WellFormed(protocol, event) ==
    /\ Position(event) \in Nat
    /\ protocol = AnthropicName => AnthropicEvents(event)
    /\ protocol = ChatName => ChatEvents(event)
    /\ protocol = ResponsesName => ResponsesEvents(event)

ASSUME EventsAssumption ==
    \A s \in Scripts :
        /\ s.protocol \in {AnthropicName, ChatName, ResponsesName} /\ IsSequence(s.events)
        /\ \A e \in DOMAIN s.events : WellFormed(s.protocol, s.events[e])

(* What ends a Responses stream holds the answer.                            *)
ASSUME TerminalAssumption ==
    \A s \in Scripts : s.protocol = ResponsesName =>
        \A e \in DOMAIN s.events : s.events[e].type = "terminal" => s.events[e].response = s.answer

VARIABLES script,      \* the script that is streamed
          events,      \* what is still to arrive of it
          asm,         \* the assembly's state
          heard,       \* what the host has heard: text, and the calls by index
          status,      \* "reading", "done", "failed" or "unknown_outcome"
          output,      \* the final output, once there is one
          faults,      \* how much has gone wrong
          disturbed,   \* whether a fragment was lost, repeated or moved before another of its own
          spoken,      \* the block or item whose text was heard last
          mixed        \* whether text of an earlier one was heard after it

vars == <<script, events, asm, heard, status, output, faults, disturbed, spoken, mixed>>

NewAssembly(protocol) ==
    CASE protocol = AnthropicName -> NewAnthropic
      [] protocol = ChatName      -> NewChat
      [] protocol = ResponsesName -> NewResponses

Assemble(event) ==
    CASE script.protocol = AnthropicName -> AnthropicEvent(asm, event)
      [] script.protocol = ChatName      -> ChatEvent(asm, event)
      [] script.protocol = ResponsesName -> ResponsesEvent(asm, event)

NothingHeard == [text |-> <<>>, calls |-> << >>]

Unheard == [id |-> <<>>, name |-> <<>>, arguments |-> <<>>]

(* A host puts the deltas of each call index one after the other.            *)
Hear(so_far, delta) ==
    LET call == IF delta.index \in DOMAIN so_far.calls THEN so_far.calls[delta.index] ELSE Unheard
    IN  CASE delta.delta = "text" -> [so_far EXCEPT !.text = @ \o delta.text]
          [] delta.delta = "call" ->
               [so_far EXCEPT !.calls = WithField(@, delta.index,
                   [id |-> IF call.id = <<>> THEN delta.id ELSE call.id,
                    name |-> call.name \o FlattenSeq(delta.name),
                    arguments |-> call.arguments \o FlattenSeq(delta.arguments)])]
          [] OTHER -> so_far

Init ==
    /\ script \in Scripts
    /\ events = script.events
    /\ asm = NewAssembly(script.protocol)
    /\ heard = NothingHeard
    /\ status = "reading" /\ output = <<>>
    /\ faults = 0 /\ disturbed = FALSE
    /\ spoken = 0 /\ mixed = FALSE

SaysText(deltas) == \E d \in 1..Len(deltas) : deltas[d].delta = "text" /\ deltas[d].text # <<>>

(* StreamDecoder::decode for one event; after a terminal or a failure the    *)
(* rest stays unread.                                                        *)
Decode ==
    /\ status = "reading" /\ events # <<>>
    /\ LET result == Assemble(events[1]) IN
       IF ~result.ok
       THEN status' = "failed" /\ UNCHANGED <<events, asm, heard, output, spoken, mixed>>
       ELSE LET ends == {delta \in ToSet(result.deltas) : delta.delta = "done"}
                at   == Position(events[1])
            IN  /\ asm' = result.asm /\ events' = Tail(events)
                /\ heard' = FoldLeft(Hear, heard, result.deltas)
                /\ IF SaysText(result.deltas) THEN spoken' = at /\ mixed' = (mixed \/ at < spoken)
                   ELSE UNCHANGED <<spoken, mixed>>
                /\ IF ends = {} THEN UNCHANGED <<status, output>>
                   ELSE status' = "done" /\ \E end \in ends : output' = <<end.output>>
    /\ UNCHANGED <<script, faults, disturbed>>

(* StreamDecoder::finish: the input ended before a terminal did.             *)
Finish ==
    /\ status = "reading" /\ events = <<>>
    /\ status' = "unknown_outcome"
    /\ UNCHANGED <<script, events, asm, heard, output, faults, disturbed, spoken, mixed>>

-----------------------------------------------------------------------------
(* What goes wrong.  A fragment is an event that continues a string; two     *)
(* fragments of one string have to stay in order.                            *)

ChatTargets(event) ==
    IF event.choices = <<>> THEN {}
    ELSE LET choice == event.choices[1] IN
         (IF choice.content = <<>> THEN {} ELSE {"content"})
         \cup (IF choice.reasoning = <<>> THEN {} ELSE {"reasoning"})
         \cup {ToString(choice.tool_calls[c].index) : c \in 1..Len(choice.tool_calls)}

(* The strings an event continues.                                           *)
Targets(event) ==
    CASE event.type = "chunk"               -> ChatTargets(event)
      [] event.type = "content_block_delta" -> {ToString(event.index)}
      [] OTHER                              -> {}

(* What an event is about: a block, an item or the strings of a chunk; the   *)
(* events that start or end a message are about all of it.                   *)
Owners(event) ==
    CASE event.type = "chunk" ->
           IF event.choices = <<>> THEN {}
           ELSE IF event.choices[1].finish_reason # <<>> THEN {} ELSE ChatTargets(event)
      [] "index" \in DOMAIN event        -> {ToString(event.index)}
      [] "output_index" \in DOMAIN event -> {ToString(event.output_index)}
      [] OTHER                           -> {}

Opening(event) ==
    \/ event.type \in {"content_block_start", "output_item.added"}
    \/ /\ event.type = "chunk" /\ event.choices # <<>>
       /\ \E c \in 1..Len(event.choices[1].tool_calls) : event.choices[1].tool_calls[c].id # <<>>

Swapped(p) == [events EXCEPT ![p] = events[p + 1], ![p + 1] = events[p]]

(* A provider may interleave what it says of several blocks, items or calls, *)
(* as long as it opens them in order.                                        *)
Mingle ==
    /\ status = "reading" /\ faults = 0
    /\ \E p \in 1..Len(events) - 1 :
          /\ Owners(events[p]) # {} /\ Owners(events[p + 1]) # {}
          /\ Owners(events[p]) \cap Owners(events[p + 1]) = {}
          /\ ~(Opening(events[p]) /\ Opening(events[p + 1]))
          /\ events' = Swapped(p)
    /\ UNCHANGED <<script, asm, heard, status, output, faults, disturbed, spoken, mixed>>

Fault == status = "reading" /\ events # <<>> /\ faults < MaxFaults /\ faults' = faults + 1

Disturb(sequence, targets) ==
    /\ events' = sequence /\ disturbed' = (disturbed \/ targets # {})
    /\ UNCHANGED <<script, asm, heard, status, output, spoken, mixed>>

Lose == Fault /\ Disturb(Tail(events), Targets(events[1]))

Repeat == Fault /\ Disturb(<<events[1]>> \o events, Targets(events[1]))

Swap ==
    /\ Fault /\ Len(events) > 1
    /\ Disturb(Swapped(1), Targets(events[1]) \cap Targets(events[2]))

(* The provider reports an error, or the connection ends.                    *)
Break == Fault /\ Disturb(<<[type |-> "error"]>>, {})

Cut == Fault /\ Disturb(<<>>, {})

Next == Decode \/ Finish \/ Mingle \/ Lose \/ Repeat \/ Swap \/ Break \/ Cut

Spec == Init /\ [][Next]_vars

-----------------------------------------------------------------------------
Parse(answer) ==
    CASE script.protocol = AnthropicName -> ParseAnthropic(answer)
      [] script.protocol = ChatName      -> ParseChat(answer)
      [] script.protocol = ResponsesName -> ParseResponses(answer)

(* A streamed answer is the answer (streaming/tests.rs): a final output is   *)
(* what the batch parser makes of the same answer, unknown fields, sealed    *)
(* blocks and a last call cut off by the token limit included, and no event  *)
(* that opens, closes or ends something can be lost, repeated or moved       *)
(* without the stream failing instead.  A Responses stream's final output    *)
(* does not depend on what arrived before it at all.                         *)
OutputIsTheAnswer ==
    status = "done" /\ ((disturbed \/ faults > 1) => script.protocol = ResponsesName) =>
        output[1] = Parse(script.answer)

(* The calls of an output, and the texts, in order.                          *)
CallPiece(item) == IF item.item = "call" THEN <<item>> ELSE <<>>

CallsOf(parsed) == FlattenSeq([i \in 1..Len(parsed.items) |-> CallPiece(parsed.items[i])])

PartText(part) == IF part.part = "text" THEN part.text ELSE <<>>

TextPiece(item) ==
    IF item.item = "call" THEN <<>>
    ELSE FlattenSeq([p \in 1..Len(item.parts) |-> PartText(item.parts[p])])

TextsOf(parsed) == FlattenSeq([i \in 1..Len(parsed.items) |-> TextPiece(parsed.items[i])])

(* Whether the last call heard may be one that was cut off: a Responses      *)
(* output that refuses does not say so.                                      *)
MayBeCutOff(stop) == stop = "MaxTokens" \/ (stop = "Refusal" /\ script.protocol = ResponsesName)

(* Whether the deltas were heard as they were sent.                          *)
Whole == script.protocol = ResponsesName => faults = 0

(* The calls a host has heard, by position, are those of the output, under   *)
(* their ids and names, and at most one more, which was cut off.             *)
CallsAgree(calls, stop) ==
    /\ \/ DOMAIN heard.calls = 0..Len(calls) - 1
       \/ MayBeCutOff(stop) /\ DOMAIN heard.calls = 0..Len(calls)
    /\ \A c \in 1..Len(calls) : heard.calls[c - 1].id = calls[c].pid /\ heard.calls[c - 1].name = calls[c].name

ArgumentsAgree(calls) ==
    \A c \in 1..Len(calls) :
        LET said == heard.calls[c - 1].arguments IN said # <<>> => JsonOf(said) = calls[c].args

(* What a host has shown from the deltas is what the final output says: the  *)
(* calls, by position, under their ids and names, and, unless a Responses    *)
(* stream lost some of it, all text and all arguments.  Only a last call     *)
(* that was cut off is heard and not in the output; and the host, which is   *)
(* not told which block a text is of, hears the texts of blocks that are     *)
(* open together as they come.  (A Responses output here has no item of the  *)
(* type refusal: no delta says its text.)                                    *)
DeltasAgree ==
    status = "done" =>
        LET calls == CallsOf(output[1])
        IN  /\ CallsAgree(calls, output[1].stop)
            /\ Whole => ArgumentsAgree(calls)
            /\ Whole /\ ~mixed => heard.text = TextsOf(output[1])

(* A stream a provider may send is never refused, however it cuts and        *)
(* interleaves what it sends, unless it is beyond the limits; and one that   *)
(* is beyond them never ends well.                                           *)
OnlyFaultsFail ==
    /\ status \in {"failed", "unknown_outcome"} => faults > 0 \/ ~script.fits
    /\ status = "done" => faults > 0 \/ script.fits
=============================================================================
