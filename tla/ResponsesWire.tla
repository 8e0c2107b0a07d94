---------------------------- MODULE ResponsesWire ----------------------------
(****************************************************************************)
(* The Responses format (causa-protocol, openai_responses.rs): a request's  *)
(* input is a list of items.                                                *)
(****************************************************************************)
EXTENDS ChatWire

ResponsesName == "openai_responses"

ResponsesStop(status, reason) ==
    CASE status = "completed" -> "EndTurn"
      [] status # "completed" ->
           CASE reason \in {<<"max_output_tokens">>, <<"length">>} -> "MaxTokens"
             [] reason = <<"content_filter">>                      -> "Refusal"
             [] OTHER                                              -> "Unrecognized"

-----------------------------------------------------------------------------
(* Items.                                                                    *)

InputText(text) == [type |-> "input_text", text |-> text]

InputMedia(media) ==
    IF media.media = "image" THEN [type |-> "input_image", image_url |-> media.ref]
    ELSE InputText(PlaceholderText)

UserItem(parts) ==
    [role |-> "user",
     content |-> [i \in 1..Len(parts) |-> IF parts[i].seg = "text" THEN InputText(parts[i].text)
                                          ELSE InputMedia(parts[i].media)]]

SystemItem(text) == [role |-> "system", content |-> <<InputText(text)>>]

AssistantItem(text) ==
    [role |-> "assistant", content |-> <<[type |-> "output_text", text |-> text]>>]

(* The recorded message with each text back in its slot, or nothing if it    *)
(* does not have one slot for each.                                          *)
MessageFromWire(fields, texts) ==
    LET slots == IF "content" \in DOMAIN fields
                 THEN {s \in 1..Len(fields.content) : fields.content[s].type = "output_text"} ELSE {}
        position(s) == Cardinality({t \in slots : t <= s})
        part(s) == IF s \in slots THEN Over([text |-> texts[position(s)].text], fields.content[s])
                   ELSE fields.content[s]
    IN  IF Cardinality(slots) # Len(texts) THEN <<>>
        ELSE <<Over([role |-> "assistant", content |-> [s \in 1..Len(fields.content) |-> part(s)]], fields)>>

Rebuilt(segments, i) ==
    LET run == SameBlockRun(segments, i)
    IN  IF segments[i].wire = <<>> \/ Len(run) # segments[i].parts THEN <<>>
        ELSE MessageFromWire(segments[i].wire[1], run)

(* A text whose block was rebuilt at an earlier text.                        *)
InRebuilt(segments, i) ==
    \E j \in 1..i - 1 :
        /\ IsAssistantText(segments[j]) /\ segments[j].block = segments[i].block
        /\ i < j + Len(SameBlockRun(segments, j)) /\ Rebuilt(segments, j) # <<>>

FunctionCall(segment) ==
    LET residue == ResidueObject(segment.wire)
        raw == IF "arguments" \in DOMAIN residue THEN <<residue.arguments>> ELSE <<>>
    IN  Over([call_id |-> segment.wireId, name |-> segment.name,
              arguments |-> WireArguments(raw, segment.args)],
             Over(residue, [type |-> "function_call"]))

FunctionCallOutput(segment) ==
    [type |-> "function_call_output", call_id |-> segment.wireId, array |-> segment.media # <<>>,
     output |-> <<InputText(ResultTextWithNotes(segment.content, segment.notes))>>
                    \o [i \in 1..Len(segment.media) |-> InputMedia(segment.media[i])]]

AdditionalTools(segment) ==
    IF segment.added = <<>> THEN <<>>
    ELSE <<[type |-> "additional_tools", role |-> "developer", tools |-> segment.added]>>

SegmentText(segment) == IF segment.seg = "text" THEN segment.text ELSE PlaceholderText

(* The items one segment puts in the input.                                  *)
SegmentItems(segments, i) ==
    LET segment == segments[i] IN
    CASE segment.seg \in {"text", "media"} /\ segment.role = "system" ->
           IF i <= LeadingSystemLen(segments) THEN <<>> ELSE <<SystemItem(SegmentText(segment))>>
      [] IsUserPart(segment) ->
           IF StartsUserMessage(segments, i) THEN <<UserItem(UserBlockRun(segments, i))>> ELSE <<>>
      [] IsAssistantText(segment) ->
           IF InRebuilt(segments, i) THEN <<>>
           ELSE IF Rebuilt(segments, i) # <<>> THEN Rebuilt(segments, i)
           ELSE <<AssistantItem(segment.text)>>
      [] segment.seg = "media" /\ segment.role = "assistant" -> <<AssistantItem(PlaceholderText)>>
      [] segment.seg = "sealed" -> <<segment.item>>
      [] segment.seg = "call"   -> <<FunctionCall(segment)>>
      [] segment.seg = "result" -> <<FunctionCallOutput(segment)>>
      [] segment.seg = "change" -> AdditionalTools(segment)

ResponsesBody(plan, segments, items) == Body(plan, LeadingTexts(segments), items)

RenderResponses(blocks, additionalTools) ==
    LET plan     == PlanTools(blocks, IF additionalTools THEN "ResponsesAdditive" ELSE "Fold")
        segments == Normalize(blocks, ResponsesName, plan.in_place)
        items    == FlattenSeq([i \in 1..Len(segments) |-> SegmentItems(segments, i)])
    IN  IF ~ValidateFrame(blocks) THEN [ok |-> FALSE]
        ELSE IF items = <<>> THEN [ok |-> FALSE]
        ELSE ResponsesBody(plan, segments, items)

-----------------------------------------------------------------------------
(* parse_openai_responses_output.                                            *)

IsRefusal(part) == part.type = "refusal"

ContentOf(item) == IF "content" \in DOMAIN item THEN item.content ELSE <<>>

WithoutTexts(item) ==
    [item EXCEPT !.content = [s \in 1..Len(@) |-> IF @[s].type = "output_text"
                                                  THEN Without(@[s], {"text"}) ELSE @[s]]]

IsOutputText(part) == part.type = "output_text"

MessageItem(item) ==
    LET texts == Chosen(item.content, IsOutputText)
    IN  [item |-> "parts", wire |-> WireMeta(ResponsesName, WithoutTexts(item)),
         parts |-> [t \in 1..Len(texts) |-> [part |-> "text", text |-> texts[t].text]]]

(* What an output item adds: items, or ok = FALSE.  cutOff is the last item  *)
(* of a response the token limit stopped.                                    *)
OutputItem(item, cutOff) ==
    LET raw == IF "arguments" \in DOMAIN item THEN <<item.arguments>> ELSE <<>>
        decoded == DecodeWireArguments(raw, cutOff)
    IN  CASE item.type = "message" ->
               [ok |-> \A p \in 1..Len(ContentOf(item)) :
                          item.content[p].type = "output_text" => "text" \in DOMAIN item.content[p],
                items |-> IF "content" \in DOMAIN item THEN <<MessageItem(item)>> ELSE <<>>]
          [] item.type = "function_call" ->
               IF ~({"call_id", "name"} \subseteq DOMAIN item) THEN [ok |-> FALSE]
               ELSE [ok |-> decoded.ok,
                     items |-> IF decoded.args = <<>> THEN <<>>
                               ELSE <<CallItem(item.name, decoded.args[1], item.call_id,
                                        WireMeta(ResponsesName, Without(item, {"call_id", "name"})))>>]
          [] item.type = "refusal" ->
               [ok |-> TRUE, items |-> IF "refusal" \in DOMAIN item
                                       THEN <<TextItem(item.refusal, <<>>)>> ELSE <<>>]
          [] OTHER -> [ok |-> TRUE, items |-> <<SealedItem(ResponsesName, item)>>]

Refuses(item) ==
    \/ item.type = "refusal"
    \/ item.type = "message" /\ \E p \in 1..Len(ContentOf(item)) : IsRefusal(item.content[p])

ParseOutput(output, mapped) ==
    LET added == [i \in 1..Len(output) |->
                    OutputItem(output[i], mapped = "MaxTokens" /\ i = Len(output))]
        items == FlattenSeq([i \in 1..Len(output) |-> added[i].items])
        calls == \E i \in 1..Len(items) : items[i].item = "call"
    IN  IF \E i \in 1..Len(output) : ~added[i].ok THEN Undecodable
        ELSE [ok |-> TRUE, items |-> items,
              stop |-> CASE \E i \in 1..Len(output) : Refuses(output[i]) -> "Refusal"
                         [] OTHER -> IF mapped = "EndTurn" /\ calls THEN "ToolUse" ELSE mapped]

ParseResponses(response) ==
    CASE response.status = "failed" -> [ok |-> FALSE, error |-> "Provider"]
      [] response.status \notin {"completed", "incomplete", "failed"} ->
           [ok |-> FALSE, error |-> "UnknownOutcome"]
      [] OTHER -> ParseOutput(response.output, ResponsesStop(response.status, response.reason))
=============================================================================
