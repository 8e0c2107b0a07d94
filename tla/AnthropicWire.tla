---------------------------- MODULE AnthropicWire ----------------------------
(****************************************************************************)
(* The Anthropic Messages format (causa-protocol, anthropic.rs): a request  *)
(* rendered from a conversation, and a response parsed into what the kernel *)
(* keeps of it.                                                             *)
(****************************************************************************)
EXTENDS WireFrame

AnthropicName == "anthropic_messages"

AnthropicStop(raw) ==
    CASE raw \in {"end_turn", "stop_sequence"}      -> "EndTurn"
      [] raw = "tool_use"                           -> "ToolUse"
      [] raw = "max_tokens"                         -> "MaxTokens"
      [] raw = "refusal"                            -> "Refusal"
      [] raw = "model_context_window_exceeded"      -> "ContextWindowExceeded"
      [] OTHER                                      -> "Unrecognized"

-----------------------------------------------------------------------------
(* Content blocks.                                                           *)

TextBlock(text) == [type |-> "text", text |-> text]

MediaBlock(media) ==
    IF media.media = "placeholder" THEN TextBlock(PlaceholderText)
    ELSE [type |-> media.media, source |-> media.ref]

(* A block's fields describe the one wire block it was.                      *)
AssistantTextBlock(segment) ==
    Over([text |-> segment.text],
         Over(ResidueObject(IF segment.parts = 1 THEN segment.wire ELSE <<>>), [type |-> "text"]))

ToolUseBlock(segment) ==
    Over([id |-> segment.wireId, name |-> segment.name, input |-> segment.args],
         Over(ResidueObject(segment.wire), [type |-> "tool_use"]))

ToolResultBlock(segment) ==
    LET notes == [n \in 1..Len(segment.notes) |-> TextBlock(<<"-">> \o segment.notes[n])]
        media == [n \in 1..Len(segment.media) |-> MediaBlock(segment.media[n])]
        parts == <<TextBlock(segment.content)>>
                     \o (IF notes = <<>> THEN <<>> ELSE <<TextBlock(<<"Notes:">>)>> \o notes) \o media
        block == [type |-> "tool_result", tool_use_id |-> segment.wireId,
                  array |-> notes \o media # <<>>, content |-> parts]
    IN  IF segment.status = "Succeeded" THEN block ELSE Over([is_error |-> TRUE], block)

(* Mutant: a tool that is defined again is not taken away first.             *)
ToolChangeBlocksRemoving(change, offered) ==
    [i \in 1..Len(change.added) |-> [type |-> "tool_addition", tool |-> change.added[i]]]
        \o [i \in 1..Len(change.removed) |-> [type |-> "tool_removal", name |-> change.removed[i]]]

(* A withdrawn tool that is offered and not defined again, then what is new. *)
ToolChangeBlocks(change, offered) ==
    LET withdrawn == Only(change.removed, ToSet(Names(offered)) \ ToSet(Names(change.added)))
    IN  [i \in 1..Len(withdrawn) |-> [type |-> "tool_removal", name |-> withdrawn[i]]]
            \o [i \in 1..Len(change.added) |-> [type |-> "tool_addition", tool |-> change.added[i]]]

-----------------------------------------------------------------------------
(* Messages.  The rendering so far: messages, the positions of sealed and of *)
(* change blocks in them, the tools offered so far, and whether a change had *)
(* a place to go.                                                            *)

AppendMessage(messages, role, block) ==
    IF messages # <<>> /\ Last(messages).role = role
    THEN [messages EXCEPT ![Len(messages)].content = Append(@, block)]
    ELSE Append(messages, [role |-> role, content |-> <<block>>])

LastPosition(messages) == <<Len(messages), Len(Last(messages).content)>>

WithBlock(at, role, block) == [at EXCEPT !.messages = AppendMessage(@, role, block)]

(* A sealed item is written as it came.                                      *)
AppendSealed(at, item) ==
    LET messages == AppendMessage(at.messages, "assistant", item)
    IN  [at EXCEPT !.messages = messages, !.sealed = @ \cup {LastPosition(messages)}]

AppendChangeBlock(at, block) ==
    LET messages == AppendMessage(at.messages, "system", block)
    IN  [at EXCEPT !.messages = messages, !.changes = @ \cup {LastPosition(messages)}]

AppendChange(at, change) ==
    IF at.messages # <<>> /\ Last(at.messages).role \in {"user", "system"}
    THEN [FoldLeft(AppendChangeBlock, at, ToolChangeBlocks(change, at.offered))
             EXCEPT !.offered = ApplyTo(@, change)]
    ELSE [at EXCEPT !.ok = FALSE]

AppendSegment(at, segment) ==
    CASE segment.seg = "text" /\ segment.role # "assistant" ->
           WithBlock(at, segment.role, TextBlock(segment.text))
      [] segment.seg = "text" /\ segment.role = "assistant" ->
           IF IsBlankText(segment.text) THEN at
           ELSE WithBlock(at, "assistant", AssistantTextBlock(segment))
      [] segment.seg = "sealed" -> AppendSealed(at, segment.item)
      [] segment.seg = "media"  -> WithBlock(at, segment.role, MediaBlock(segment.media))
      [] segment.seg = "call"   -> WithBlock(at, "assistant", ToolUseBlock(segment))
      [] segment.seg = "result" -> WithBlock(at, "user", ToolResultBlock(segment))
      [] segment.seg = "change" -> AppendChange(at, segment)

(* The exchanges as the messages show them: results open the user message    *)
(* after the calls they answer.                                               *)
ValidateAnthropic(messages) ==
    LET content(at, message) ==
            FoldLeft(LAMBDA in, b :
                IF b.type = "tool_result"
                THEN [in EXCEPT !.ok = @ /\ message.role = "user" /\ ~in.other
                                         /\ b.tool_use_id \in in.pending,
                                !.pending = @ \ {b.tool_use_id}]
                ELSE [in EXCEPT !.ok = @ /\ (message.role = "user" => in.pending = {}),
                                !.other = TRUE,
                                !.pending = IF b.type = "tool_use" THEN @ \cup {b.id} ELSE @],
                [at EXCEPT !.other = FALSE, !.ok = @ /\ (message.role # "user" => at.pending = {})],
                message.content)
        step(at, message) ==
            LET after == content(at, message)
            IN  [after EXCEPT !.ok = @ /\ (message.role = "user" => after.pending = {})]
        end == FoldLeft(step, [ok |-> TRUE, other |-> FALSE, pending |-> {}], messages)
    IN  end.ok /\ end.pending = {}

(* Mutant: the marker goes on the last block, whatever it is.                *)
AnchorAnyBlock(messages, sealed, changes) ==
    {<<Len(messages), Len(messages[Len(messages)].content)>>}

(* Where the cache marker goes: the last block that is neither sealed nor a  *)
(* change, in or before the last message that holds more than changes.       *)
Anchor(messages, sealed, changes) ==
    LET positions(m) == {<<m, b>> : b \in 1..Len(messages[m].content)}
        stable == {m \in 1..Len(messages) : ~(positions(m) \subseteq changes)}
        fits == UNION {positions(m) : m \in {n \in 1..Len(messages) : stable # {} /\ n <= Max(stable)}}
                    \ (sealed \cup changes)
    IN  {p \in fits : \A q \in fits : q[1] < p[1] \/ (q[1] = p[1] /\ q[2] <= p[2])}

WithCacheControl(messages, anchor) ==
    [m \in 1..Len(messages) |->
       [messages[m] EXCEPT !.content =
          [b \in 1..Len(@) |-> IF <<m, b>> \in anchor THEN Over([cache_control |-> TRUE], @[b]) ELSE @[b]]]]

(* A system block before all conversation content is not a message.          *)
LeadingTexts(segments) ==
    [i \in 1..LeadingSystemLen(segments) |->
       IF segments[i].seg = "text" THEN segments[i].text ELSE PlaceholderText]

AnthropicConversation(segments, tools) ==
    FoldLeft(AppendSegment,
             [messages |-> <<>>, sealed |-> {}, changes |-> {}, offered |-> tools, ok |-> TRUE],
             SubSeq(segments, LeadingSystemLen(segments) + 1, Len(segments)))

Body(plan, system, messages) ==
    [ok |-> TRUE, in_place |-> plan.in_place, tools |-> plan.tools, system |-> system, messages |-> messages]

RenderAnthropic(blocks, nativeToolChanges, stablePrefix) ==
    LET plan     == PlanTools(blocks, IF nativeToolChanges THEN "AnthropicInPlace" ELSE "Fold")
        segments == Normalize(blocks, AnthropicName, plan.in_place)
        end      == AnthropicConversation(segments, plan.tools)
        anchor   == IF stablePrefix THEN Anchor(end.messages, end.sealed, end.changes) ELSE {}
        refused  == [ok |-> FALSE]
    IN  IF ~ValidateFrame(blocks) THEN refused
        ELSE IF ~end.ok \/ end.messages = <<>> \/ ~ValidateAnthropic(end.messages) THEN refused
        ELSE Body(plan, LeadingTexts(segments), WithCacheControl(end.messages, anchor))

-----------------------------------------------------------------------------
(* parse_anthropic_response: one item per block, or "Undecodable".           *)

SealedItem(format, item) ==
    [item |-> "parts", parts |-> <<[part |-> "sealed", format |-> format, item |-> item]>>, wire |-> <<>>]

TextItem(text, wire) ==
    [item |-> "parts", parts |-> <<[part |-> "text", text |-> text]>>, wire |-> wire]

CallItem(name, args, id, wire) ==
    [item |-> "call", name |-> name, args |-> args, pid |-> <<id>>, wire |-> wire]

WireMeta(format, fields) == <<[format |-> format, fields |-> fields]>>

Undecodable == [ok |-> FALSE, error |-> "Undecodable"]

AnthropicItem(block) ==
    CASE block.type = "text" ->
           TextItem(block.text, WireMeta(AnthropicName, Without(block, {"text"})))
      [] block.type = "tool_use" ->
           CallItem(block.name, IF "input" \in DOMAIN block THEN block.input ELSE "object", block.id,
                    WireMeta(AnthropicName, Without(block, {"id", "name", "input"})))
      [] OTHER -> SealedItem(AnthropicName, block)

Decodes(block) ==
    /\ block.type = "text" => "text" \in DOMAIN block
    /\ block.type = "tool_use" => {"id", "name"} \subseteq DOMAIN block
    /\ block.type = "thinking" => "thinking" \in DOMAIN block

ParseAnthropic(response) ==
    IF response.stop_reason = <<>> \/ \E i \in 1..Len(response.content) : ~Decodes(response.content[i])
    THEN Undecodable
    ELSE [ok |-> TRUE, stop |-> AnthropicStop(response.stop_reason[1]),
          items |-> [i \in 1..Len(response.content) |-> AnthropicItem(response.content[i])]]
=============================================================================
