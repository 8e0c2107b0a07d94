--------------------------- MODULE MCStreamAssembly ---------------------------
(* Small instances of StreamAssembly for TLC: streams of each format.        *)
EXTENDS StreamAssembly

Tool == <<"t", "1">>

Script(protocol, sent, answer, fits) ==
    [protocol |-> protocol, events |-> sent, answer |-> answer, fits |-> fits]

-----------------------------------------------------------------------------
(* Anthropic: a block's start, its deltas and its stop.                      *)
Block(index, opened, deltas) ==
    <<[type |-> "content_block_start", index |-> index, block |-> opened]>>
        \o [d \in 1..Len(deltas) |->
              [type |-> "content_block_delta", index |-> index,
               delta |-> [type |-> deltas[d][1], text |-> deltas[d][2]]]]
        \o <<[type |-> "content_block_stop", index |-> index]>>

AText(text) == [type |-> "text", text |-> text]
AUse(id, input) == [type |-> "tool_use", id |-> id, name |-> Tool, input |-> input]

AMessage(blocks, reason) ==
    <<[type |-> "message_start"]>> \o blocks
        \o <<[type |-> "message_delta", stop_reason |-> reason],
             [type |-> "message_delta", stop_reason |-> <<>>], [type |-> "message_stop"]>>

AAnswer(content, reason) == [content |-> content, stop_reason |-> reason]

ACalls ==
    Script(AnthropicName,
        AMessage(Block(0, AText(<<"on">>), <<<<"text_delta", <<"e">>>>, <<"citations_delta", <<"c">>>>>>)
                 \o <<[type |-> "ping"]>>
                 \o Block(1, AUse("u1", "object"), <<<<"input_json_delta", <<"o">>>>, <<"input_json_delta", <<"ld">>>>>>)
                 \o Block(2, AUse("u2", "object"), <<>>), <<"tool_use">>),
        AAnswer(<<AText(<<"on", "e">>) @@ [citations |-> <<"c">>], AUse("u1", "old"), AUse("u2", "object")>>,
                <<"tool_use">>), TRUE)

ServerUse(input) == [type |-> "server_tool_use", id |-> "s1", name |-> "search", input |-> input]

ASealed ==
    Script(AnthropicName,
        AMessage(Block(0, [type |-> "thinking", thinking |-> <<>>],
                       <<<<"thinking_delta", <<"hm">>>>, <<"signature_delta", <<"s">>>>>>)
                 \o Block(1, ServerUse("object"), <<<<"input_json_delta", <<"o">>>>, <<"input_json_delta", <<"ld">>>>>>),
                 <<"end_turn">>),
        AAnswer(<<[type |-> "thinking", thinking |-> <<"hm">>, signature |-> <<"s">>], ServerUse("old")>>,
                <<"end_turn">>), TRUE)

(* Two blocks open at once, the last one stopped by the token limit.         *)
ACutOff ==
    LET text == Block(0, AText(<<"on">>), <<<<"text_delta", <<"e">>>>>>)
        call == Block(1, AUse("u1", "object"), <<<<"input_json_delta", <<"o">>>>>>)
    IN  Script(AnthropicName,
            AMessage(<<text[1], call[1], text[2], call[2], text[3], call[3]>>, <<"max_tokens">>),
            AAnswer(<<AText(<<"on", "e">>)>>, <<"max_tokens">>), TRUE)

(* Two texts told in turns.                                                  *)
AMingled ==
    LET first  == Block(0, AText(<<>>), <<<<"text_delta", <<"on">>>>, <<"text_delta", <<"e">>>>>>)
        second == Block(1, AText(<<"on">>), <<>>)
    IN  Script(AnthropicName,
            AMessage(<<first[1], first[2], second[1], first[3], second[2], first[4]>>, <<"end_turn">>),
            AAnswer(<<AText(<<"on", "e">>), AText(<<"on">>)>>, <<"end_turn">>), TRUE)

ATooMany ==
    Script(AnthropicName,
        AMessage(Block(0, AText(<<"on">>), <<>>) \o Block(1, AUse("u1", "object"), <<>>)
                 \o Block(2, AUse("u2", "object"), <<>>) \o Block(3, AText(<<"e">>), <<>>), <<"tool_use">>),
        AAnswer(<<>>, <<"tool_use">>), FALSE)

-----------------------------------------------------------------------------
(* Chat: chunks of fragments.                                                *)
Chunk(content, reasoning, calls, finish) ==
    [type |-> "chunk", id |-> <<"c">>,
     choices |-> <<[content |-> content, reasoning |-> reasoning, tool_calls |-> calls, finish_reason |-> finish]>>]

Begins(index, id) == [index |-> index, id |-> <<id>>, name |-> <<<<"t">>>>, arguments |-> <<>>]
Goes(index, name, arguments) == [index |-> index, id |-> <<>>, name |-> name, arguments |-> <<arguments>>]

Usage == [type |-> "chunk", id |-> <<"c">>, choices |-> <<>>]
AllSaid == [type |-> "[DONE]"]

ChatUse(id) ==
    [id |-> id, type |-> "function", function |-> [name |-> Tool, arguments |-> RawArguments(<<"o", "ld">>)]]

ChatAnswer(message, finish) ==
    [choices |-> <<[message |-> [role |-> "assistant"] @@ message, finish_reason |-> <<finish>>]>>]

ChatCalls ==
    Script(ChatName,
        <<Chunk(<<>>, <<"hm">>, <<>>, <<>>), Chunk(<<"on">>, <<>>, <<>>, <<>>),
          Chunk(<<"e">>, <<>>, <<Begins(0, "u1")>>, <<>>),
          Chunk(<<>>, <<>>, <<Goes(0, <<<<"1">>>>, <<"o">>), Begins(1, "u2")>>, <<>>),
          Chunk(<<>>, <<>>, <<Goes(0, <<>>, <<"ld">>)>>, <<>>),
          Chunk(<<>>, <<>>, <<Goes(1, <<<<"1">>>>, <<"o", "ld">>)>>, <<>>),
          Chunk(<<>>, <<>>, <<>>, <<"tool_calls">>), Usage, AllSaid>>,
        ChatAnswer([content |-> [str |-> <<"on", "e">>], reasoning_content |-> <<"hm">>,
                    tool_calls |-> <<ChatUse("u1"), ChatUse("u2")>>], "tool_calls"), TRUE)

ChatCutOff ==
    Script(ChatName,
        <<Chunk(<<"on">>, <<>>, <<Begins(0, "u1")>>, <<>>),
          Chunk(<<>>, <<>>, <<Goes(0, <<<<"1">>>>, <<"o", "ld">>)>>, <<>>),
          Chunk(<<>>, <<>>, <<Begins(1, "u2")>>, <<>>),
          Chunk(<<>>, <<>>, <<Goes(1, <<<<"1">>>>, <<"o">>)>>, <<"length">>), Usage, AllSaid>>,
        ChatAnswer([content |-> [str |-> <<"on">>], tool_calls |-> <<ChatUse("u1")>>], "length"), TRUE)

ChatTooMany ==
    Script(ChatName,
        <<Chunk(<<>>, <<>>, [c \in 1..4 |-> Begins(c - 1, ToString(c))], <<>>),
          Chunk(<<>>, <<>>, [c \in 1..4 |-> Goes(c - 1, <<>>, <<"o", "ld">>)], <<"tool_calls">>), AllSaid>>,
        ChatAnswer(<< >>, "tool_calls"), FALSE)

-----------------------------------------------------------------------------
(* Responses: items of parts, and the whole output at the end.               *)
OnPart(type, item, list, p, part, text) ==
    [type |-> type, output_index |-> item, item_id |-> ToString(item), list |-> list,
     part_index |-> p, part |-> part, text |-> text]

APart(item, list, p, part, initial, fragments) ==
    <<OnPart("part.added", item, list, p, part, initial)>>
        \o [f \in 1..Len(fragments) |-> OnPart("text.delta", item, list, p, part, fragments[f])]
        \o <<OnPart("text.done", item, list, p, part, <<>>), OnPart("part.done", item, list, p, part, <<>>)>>

RCall(item, id, arguments) ==
    [type |-> "function_call", id |-> ToString(item), call_id |-> id, name |-> Tool,
     arguments |-> RawArguments(arguments)]

RMessage(item, parts) ==
    [type |-> "message", role |-> "assistant", id |-> ToString(item), content |-> parts]

RText(text) == [type |-> "output_text", text |-> text, annotations |-> "u"]

Item(index, opened, inner, whole) ==
    <<[type |-> "output_item.added", output_index |-> index, item |-> opened]>> \o inner
        \o <<[type |-> "output_item.done", output_index |-> index, item |-> whole]>>

CallItemEvents(index, id, first, rest) ==
    LET event == [output_index |-> index, item_id |-> ToString(index), name |-> Tool]
    IN  Item(index, [RCall(index, id, <<>>) EXCEPT !.arguments = first],
             <<event @@ [type |-> "arguments.delta", text |-> rest], event @@ [type |-> "arguments.done"]>>,
             RCall(index, id, FlattenSeq(first) \o rest))

Response(state) == [id |-> "r", status |-> state]

RStream(items, state, reason, whole) ==
    LET answer == Response(state) @@ [reason |-> reason, output |-> whole]
    IN  [events |-> <<[type |-> "started", response |-> Response("queued")],
                      [type |-> "started", response |-> Response("in_progress")]>>
                        \o items \o <<[type |-> "terminal", status |-> state, response |-> answer]>>,
         answer |-> answer]

RScript(items, state, reason, whole, fits) ==
    LET stream == RStream(items, state, reason, whole)
    IN  Script(ResponsesName, stream.events, stream.answer, fits)

Reasoning(summary) == [type |-> "reasoning", id |-> "0", summary |-> summary]

Reasons(part_list, part) ==
    Item(0, Reasoning(<<>>), APart(0, part_list, 0, part, <<>>, <<<<"hm">>>>), Reasoning(<<"hm">>))

RCalls ==
    RScript(CallItemEvents(0, "u1", <<>>, <<"o", "ld">>) \o CallItemEvents(1, "u2", <<<<"o">>>>, <<"ld">>),
            "completed", <<>>, <<RCall(0, "u1", <<"o", "ld">>), RCall(1, "u2", <<"o", "ld">>)>>, TRUE)

RTexts ==
    LET whole == RMessage(0, <<RText(<<"on", "e">>), [type |-> "refusal", refusal |-> <<"no">>]>>)
    IN  RScript(Item(0, RMessage(0, <<>>),
                     APart(0, "parts", 0, "output_text", <<"on">>, <<<<"e">>>>)
                         \o APart(0, "parts", 1, "refusal", <<>>, <<<<"no">>>>), whole)
                \o <<[type |-> "x_event"]>>, "completed", <<>>, <<whole>>, TRUE)

RCutOff ==
    RScript(Reasons("summaries", "summary_text") \o CallItemEvents(1, "u1", <<>>, <<"o">>),
            "incomplete", <<"max_output_tokens">>, <<Reasoning(<<"hm">>), RCall(1, "u1", <<"o">>)>>, TRUE)

(* A refusal, then a call that was cut off.                                  *)
RRefusedCutOff ==
    LET refusal == RMessage(0, <<[type |-> "refusal", refusal |-> <<"no">>]>>)
    IN  RScript(Item(0, RMessage(0, <<>>), APart(0, "parts", 0, "refusal", <<"no">>, <<>>), refusal)
                    \o CallItemEvents(1, "u1", <<>>, <<"o">>),
                "incomplete", <<"max_output_tokens">>, <<refusal, RCall(1, "u1", <<"o">>)>>, TRUE)

RReasoned ==
    RScript(Reasons("parts", "reasoning_text") \o Item(1, RMessage(1, <<>>), <<>>, RMessage(1, <<RText(<<>>)>>)),
            "completed", <<>>, <<Reasoning(<<"hm">>), RMessage(1, <<RText(<<>>)>>)>>, TRUE)

RTooMany ==
    RScript(FlattenSeq([i \in 1..4 |-> Item(i - 1, RMessage(i - 1, <<>>), <<>>, RMessage(i - 1, <<>>))]),
            "completed", <<>>, [i \in 1..4 |-> RMessage(i - 1, <<>>)], FALSE)

(* Messages of n parts: streamed, or empty and only there in the answer at   *)
(* the end, whose limit is each item's, not that of all streamed parts.      *)
Parts(items, n, streamed, fits) ==
    LET whole(i) == RMessage(i, [p \in 1..n |-> RText(IF streamed THEN <<"on">> ELSE <<>>)])
        Said(i, p) == <<OnPart("part.added", i, "parts", p - 1, "output_text", <<"on">>),
                        OnPart("part.done", i, "parts", p - 1, "output_text", <<>>)>>
        inner(i) == IF streamed THEN FlattenSeq([p \in 1..n |-> Said(i, p)]) ELSE <<>>
    IN  RScript(FlattenSeq([i \in 1..items |-> Item(i - 1, RMessage(i - 1, <<>>), inner(i - 1), whole(i - 1))]),
                "completed", <<>>, [i \in 1..items |-> whole(i - 1)], fits)

AtTheLimits == {Parts(1, 3, TRUE, TRUE), Parts(2, 3, FALSE, TRUE)}

BeyondThem == {Parts(2, 2, TRUE, FALSE), Parts(1, 4, FALSE, FALSE)}

(* Reasoning with one summary too many, at the end only.                     *)
RSummaries ==
    LET whole == Reasoning([p \in 1..4 |-> "hm"])
    IN  RScript(Item(0, Reasoning(<<>>), <<>>, whole), "completed", <<>>, <<whole>>, FALSE)

AllScripts ==
    {ACalls, ASealed, ACutOff, AMingled, ATooMany, ChatCalls, ChatCutOff, ChatTooMany, RCalls, RTexts,
     RCutOff, RRefusedCutOff, RReasoned, RTooMany, RSummaries}
        \cup AtTheLimits \cup BeyondThem
=============================================================================
