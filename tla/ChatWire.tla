------------------------------- MODULE ChatWire -------------------------------
(****************************************************************************)
(* The Chat Completions format (causa-protocol, openai_chat.rs).            *)
(*                                                                          *)
(* A message's content is a string [str], null [null] or an array [parts].  *)
(****************************************************************************)
EXTENDS AnthropicWire

ChatName == "openai_chat_completions"

ChatStop(raw) ==
    CASE raw \in {"stop", "end"}                 -> "EndTurn"
      [] raw \in {"tool_calls", "function_call"} -> "ToolUse"
      [] raw = "length"                          -> "MaxTokens"
      [] raw = "content_filter"                  -> "Refusal"
      [] OTHER                                   -> "Unrecognized"

-----------------------------------------------------------------------------
(* Messages.                                                                 *)

AttachmentPart(media) ==
    IF media.media = "image" THEN [type |-> "image_url", image_url |-> media.ref]
    ELSE TextBlock(PlaceholderText)

UserMessage(parts) ==
    LET items == [i \in 1..Len(parts) |-> IF parts[i].seg = "text" THEN TextBlock(parts[i].text)
                                          ELSE AttachmentPart(parts[i].media)]
    IN  [role |-> "user",
         content |-> IF Len(items) = 1 /\ items[1].type = "text" THEN [str |-> items[1].text]
                     ELSE [parts |-> items]]

ToolMessage(segment) ==
    [role |-> "tool", tool_call_id |-> segment.wireId,
     content |-> [str |-> ResultTextWithNotes(segment.content, segment.notes)]]

(* A tool message holds no images: they follow the results, in a message     *)
(* that names the call.                                                      *)
HoistedMedia(segment) ==
    IF segment.media = <<>> THEN <<>>
    ELSE <<[role |-> "user",
            content |-> [parts |-> <<[type |-> "text", text |-> <<"media of", segment.wireId>>]>>
                \o [i \in 1..Len(segment.media) |-> AttachmentPart(segment.media[i])]]]>>

WireCall(segment) ==
    LET residue  == ResidueObject(segment.wire)
        function == IF "function" \in DOMAIN residue THEN residue.function ELSE << >>
        raw      == IF "arguments" \in DOMAIN function THEN <<function.arguments>> ELSE <<>>
        facts    == [name |-> segment.name, arguments |-> WireArguments(raw, segment.args)]
    IN  Over([id |-> segment.wireId, function |-> Over(facts, function)],
             Over(residue, [type |-> "function"]))

(* Nothing when neither content nor calls are left to say.                   *)
AssistantMessage(run) ==
    LET sealed  == IF run.sealed = <<>> THEN << >> ELSE run.sealed[1]
        content == IF run.text = <<>> THEN << >> ELSE [content |-> [str |-> run.text]]
        calls   == IF run.calls = <<>> THEN << >> ELSE [tool_calls |-> run.calls]
        message == Over([role |-> "assistant"], Over(calls, Over(content, sealed)))
    IN  IF {"content", "tool_calls"} \cap DOMAIN message = {} THEN <<>> ELSE <<message>>

WithoutReasoningContent(item) ==
    LET rest == Without(item, {"reasoning_content"})
    IN  IF DOMAIN rest = {} THEN <<>> ELSE <<rest>>

-----------------------------------------------------------------------------
(* The rendering so far: messages, the assistant message being put together  *)
(* and the media that wait for the end of the results.                       *)
NoRun == [text |-> <<>>, calls |-> <<>>, sealed |-> <<>>]

CloseRun(at) == [at EXCEPT !.messages = @ \o AssistantMessage(at.run), !.run = NoRun]

PutMedia(at) == [at EXCEPT !.messages = @ \o at.media, !.media = <<>>]

Send(at, messages) == [CloseRun(at) EXCEPT !.messages = @ \o messages]

(* Mutant: the images of a result follow it at once.                         *)
AddResultAtOnce(at, segment) == Send(at, <<ToolMessage(segment)>> \o HoistedMedia(segment))

AddResult(at, segment) ==
    [Send(at, <<ToolMessage(segment)>>) EXCEPT !.media = @ \o HoistedMedia(segment)]

AddSealed(at, item, replay) ==
    LET kept == IF replay THEN <<item>> ELSE WithoutReasoningContent(item)
    IN  IF at.run.sealed = <<>> THEN [at EXCEPT !.run.sealed = kept] ELSE at

AddSegment(at, segments, i, replay) ==
    LET segment == segments[i] IN
    CASE segment.seg = "result" -> AddResult(at, segment)
      [] segment.seg = "text" /\ segment.role = "system" ->
           Send(PutMedia(at), <<[role |-> "system", content |-> [str |-> segment.text]]>>)
      [] IsUserPart(segment) ->
           IF StartsUserMessage(segments, i)
           THEN Send(PutMedia(at), <<UserMessage(UserBlockRun(segments, i))>>) ELSE at
      [] segment.seg = "media" /\ segment.role # "user" ->
           Send(PutMedia(at), <<[role |-> segment.role, content |-> [str |-> PlaceholderText]]>>)
      [] IsAssistantText(segment) ->
           IF IsBlankText(segment.text) THEN at
           ELSE [PutMedia(at) EXCEPT !.run.text = @ \o segment.text]
      [] segment.seg = "sealed" -> AddSealed(PutMedia(at), segment.item, replay)
      [] segment.seg = "call" -> [PutMedia(at) EXCEPT !.run.calls = Append(@, WireCall(segment))]

(* Every tool message answers a call of the assistant message before it.     *)
ValidateChat(messages) ==
    LET called(message) ==
            IF "tool_calls" \in DOMAIN message
            THEN {message.tool_calls[c].id : c \in 1..Len(message.tool_calls)} ELSE {}
        step(at, message) ==
            IF message.role = "tool"
            THEN [ok |-> at.ok /\ message.tool_call_id \in at.pending,
                  pending |-> at.pending \ {message.tool_call_id}]
            ELSE [ok |-> at.ok /\ at.pending = {}, pending |-> at.pending \cup called(message)]
        end == FoldLeft(step, [ok |-> TRUE, pending |-> {}], messages)
    IN  end.ok /\ end.pending = {}

ChatConversation(segments, replay) ==
    PutMedia(CloseRun(FoldLeftDomain(LAMBDA at, i : AddSegment(at, segments, i, replay),
                                     [messages |-> <<>>, run |-> NoRun, media |-> <<>>],
                                     segments))).messages

ChatBody(plan, messages) == Body(plan, <<>>, messages)

RenderChat(blocks, replay) ==
    LET plan     == PlanTools(blocks, "Fold")
        messages == ChatConversation(Normalize(blocks, ChatName, plan.in_place), replay)
    IN  IF ~ValidateFrame(blocks) THEN [ok |-> FALSE]
        ELSE IF messages = <<>> \/ ~ValidateChat(messages) THEN [ok |-> FALSE]
        ELSE ChatBody(plan, messages)

-----------------------------------------------------------------------------
(* parse_openai_chat_response.                                               *)

(* The keys of a message the facts do not hold, as one sealed item, first.   *)
MessageResidue(message, text) ==
    LET residue == Without(message, {"role", "tool_calls"} \cup (IF text = <<>> THEN {} ELSE {"content"}))
    IN  IF DOMAIN residue = {} THEN <<>> ELSE <<SealedItem(ChatName, residue)>>

CallResidue(call) ==
    LET residue == Without(call, {"id"})
    IN  [residue EXCEPT !.function = Without(@, {"name"})]

DecodedCall(call, cutOff) ==
    LET raw == IF "arguments" \in DOMAIN call.function THEN <<call.function.arguments>> ELSE <<>>
    IN  IF ~({"id", "function"} \subseteq DOMAIN call) THEN Undecodable
        ELSE IF "name" \notin DOMAIN call.function THEN Undecodable
        ELSE DecodeWireArguments(raw, cutOff)

ChatCallItem(call, args) ==
    CallItem(call.function.name, args, call.id, WireMeta(ChatName, CallResidue(call)))

ParseChatMessage(message, stop) ==
    LET text    == IF "content" \in DOMAIN message /\ "str" \in DOMAIN message.content
                   THEN message.content.str ELSE <<>>
        calls   == IF "tool_calls" \in DOMAIN message THEN message.tool_calls ELSE <<>>
        decoded == [c \in 1..Len(calls) |->
                      DecodedCall(calls[c], stop = "MaxTokens" /\ c = Len(calls))]
    IN  IF "content" \in DOMAIN message /\ "parts" \in DOMAIN message.content THEN Undecodable
        ELSE IF \E c \in 1..Len(calls) : ~decoded[c].ok THEN Undecodable
        ELSE [ok |-> TRUE, stop |-> stop,
              items |-> MessageResidue(message, text)
                            \o (IF text = <<>> THEN <<>> ELSE <<TextItem(text, <<>>)>>)
                            \o FlattenSeq([c \in 1..Len(calls) |->
                                   IF decoded[c].args = <<>> THEN <<>>
                                   ELSE <<ChatCallItem(calls[c], decoded[c].args[1])>>])]

ParseChat(response) ==
    IF Len(response.choices) # 1 THEN Undecodable
    ELSE IF response.choices[1].finish_reason = <<>> THEN Undecodable
    ELSE ParseChatMessage(response.choices[1].message, ChatStop(response.choices[1].finish_reason[1]))
=============================================================================
