---------------------------- MODULE MCConversation ----------------------------
(* Small instances of Conversation for TLC.                                  *)
EXTENDS Conversation

Text(token) == [part |-> "text", text |-> <<token>>]
NoText == [part |-> "text", text |-> <<>>]
Media(kind, source) == [part |-> "media", ref |-> [kind |-> kind, source |-> source]]

(* Each format with its option: native tool changes, replay of reasoning,    *)
(* additional tools.  A conversation that folds its tool changes is one of   *)
(* Chat's, or one whose changes cannot go in place.                          *)
AllApis ==
    {[protocol |-> AnthropicName, option |-> TRUE], [protocol |-> ChatName, option |-> TRUE],
     [protocol |-> ChatName, option |-> FALSE], [protocol |-> ResponsesName, option |-> TRUE]}

Said(role, parts) == [role |-> role, parts |-> parts]

HostMessages ==
    {Said("system", <<Text("rules")>>),
     Said("user", <<Text("see"), Media("image", "inline"), NoText, Media("document", "http")>>),
     Said("assistant", <<Text("sp"), Text("host")>>)}

ResultsOfTools ==
    <<[status |-> "Failed", content |-> <<"lost">>, notes |-> <<<<"why">>>>,
       media |-> <<[kind |-> "image", source |-> "http"], [kind |-> "image", source |-> "large"]>>],
      [status |-> "Succeeded", content |-> <<"found">>, notes |-> <<>>, media |-> <<>>]>>

ToolsBound ==
    {<<>>, <<[name |-> "t1", body |-> 1]>>, <<[name |-> "t2", body |-> 1], [name |-> "t1", body |-> 2]>>}

-----------------------------------------------------------------------------
(* Answers with fields ("x") and items ("x_item") no adapter knows.          *)
Id(ids, n) == ids \o ToString(n)

AText(token) == [type |-> "text", text |-> <<token>>, x |-> "u"]
AUse(ids, n) == [type |-> "tool_use", id |-> Id(ids, n), name |-> "t1", input |-> "old", x |-> "u"]
Thinking == [type |-> "thinking", thinking |-> <<"hm">>, signature |-> "s"]
Unknown  == [type |-> "x_item", x |-> "u"]

AnthropicResponses(ids) ==
    {[content |-> <<AText("one"), AText("sp"), AText("two")>>, stop_reason |-> <<"end_turn">>],
     [content |-> <<Thinking>>, stop_reason |-> <<"end_turn">>],
     [content |-> <<Thinking, AText("one"), AUse(ids, 1), Unknown, AUse(ids, 2)>>,
      stop_reason |-> <<"tool_use">>]}

Spaced == [value |-> "old", spelling |-> "spaced"]

ChatUse(ids, n) ==
    [id |-> Id(ids, n), type |-> "function", x |-> "u", function |-> [name |-> "t1", arguments |-> Spaced]]

ChatMessage(fields, finish) ==
    [choices |-> <<[message |-> [role |-> "assistant"] @@ fields, finish_reason |-> <<finish>>]>>]

ChatResponses(ids) ==
    {ChatMessage([content |-> [str |-> <<"one">>], x |-> "u"], "stop"),
     ChatMessage([content |-> [str |-> <<"sp">>], reasoning_content |-> <<"hm">>], "stop"),
     ChatMessage([content |-> [null |-> TRUE], reasoning_content |-> <<"hm">>,
                  tool_calls |-> <<ChatUse(ids, 1), ChatUse(ids, 2)>>], "tool_calls"),
     ChatMessage([content |-> [str |-> <<"one">>], tool_calls |-> <<ChatUse(ids, 1)>>], "tool_calls")}

RText(text) == [type |-> "output_text", text |-> text, annotations |-> "u"]
RMessage(parts) == [type |-> "message", role |-> "assistant", id |-> "m", content |-> parts]
Reasoning == [type |-> "reasoning", id |-> "r", summary |-> <<"hm">>]
RCall(ids, n) ==
    [type |-> "function_call", call_id |-> Id(ids, n), name |-> "t1", arguments |-> Spaced, id |-> "f"]

Completed(output) == [status |-> "completed", reason |-> <<>>, output |-> output]

ResponsesResponses(ids) ==
    {Completed(<<Reasoning, RMessage(<<RText(<<"one">>), [type |-> "x_part", x |-> "u"], RText(<<"two">>)>>)>>),
     Completed(<<RMessage(<<RText(<<"one">>), RText(<<>>)>>), Unknown>>),
     Completed(<<Reasoning, RMessage(<<RText(<<"sp">>)>>), RCall(ids, 1), RCall(ids, 2)>>)}

Answers(protocol, ids) ==
    CASE protocol = AnthropicName -> AnthropicResponses(ids)
      [] protocol = ChatName      -> ChatResponses(ids)
      [] protocol = ResponsesName -> ResponsesResponses(ids)

ForeignAnswers ==
    {[protocol |-> AnthropicName, response |-> answer] : answer \in
         {a \in AnthropicResponses("first") : a.stop_reason = <<"tool_use">>}}
    \cup {[protocol |-> ChatName, response |-> ChatMessage(
              [content |-> [str |-> <<"one">>], x |-> "u", tool_calls |-> <<ChatUse("first", 1)>>], "tool_calls")]}
    \cup {[protocol |-> ResponsesName, response |-> Completed(
              <<Reasoning, RMessage(<<RText(<<"sp">>)>>), RCall("first", 1), RCall("first", 2)>>)]}
=============================================================================
