---------------------------- MODULE Conversation ----------------------------
(****************************************************************************)
(* A conversation over one wire format: the runtime records the tools it    *)
(* binds, commits what the model answers and the results of its calls; the  *)
(* host speaks in between, may have had another gateway answer, and may     *)
(* edit what was committed.  What matters is the request every such         *)
(* context renders to.                                                      *)
(*                                                                          *)
(* The steps of a round are those of TurnRunner and ToolChange; here their  *)
(* blocks have contents.                                                    *)
(****************************************************************************)
EXTENDS ResponsesWire

CONSTANTS
    Apis,             \* [protocol, option]: the formats a host may choose
    HostParts,        \* [role, parts]: what a host may say
    Responses(_, _),  \* what a provider may answer: by protocol and base of call ids
    Foreign,          \* [protocol, response]: what another gateway may have answered
    ResultFacts,      \* [status, content, notes, media] of the results, as they complete
    Surfaces,         \* tools a round may bind
    MaxActs           \* bound: messages of the host, rounds that bind, and answers

(* The wire formats there are.                                               *)
Protocols == {AnthropicName, ChatName, ResponsesName}

(* The ids a provider begins its calls' ids with.                            *)
CallIds == {"first", "again"}

(* Tools are added by requests only: no model answers with such an item.     *)
IsOutputItem(item) == "type" \in DOMAIN item => item.type # "additional_tools"

IsPart(part) ==
    /\ "part" \in DOMAIN part /\ part.part \in {"text", "media", "sealed"}
    /\ part.part = "sealed" /\ part.format = ResponsesName => IsOutputItem(part.item)

(* What is decoded as an array is one.                                       *)
IsAnswer(protocol, response) ==
    CASE protocol = AnthropicName -> IsSequence(response.content)
      [] protocol = ChatName      ->
           /\ IsSequence(response.choices)
           /\ \A c \in 1..Len(response.choices) :
                  LET message == response.choices[c].message
                  IN  "tool_calls" \in DOMAIN message => IsSequence(message.tool_calls)
      [] protocol = ResponsesName ->
           /\ IsSequence(response.output)
           /\ \A i \in 1..Len(response.output) :
                  /\ IsOutputItem(response.output[i])
                  /\ "content" \in DOMAIN response.output[i] => IsSequence(response.output[i].content)

(* What hosts, providers and bindings give has the types the code decodes it *)
(* to; nothing is assumed of what it says, but that no answer is an item of  *)
(* additional tools.                                                         *)
ASSUME ApisAssumption == \A choice \in Apis : choice.protocol \in Protocols

ASSUME HostPartsAssumption ==
    \A message \in HostParts :
        /\ message.role \in {"user", "system", "assistant"} /\ IsSequence(message.parts)
        /\ \A p \in 1..Len(message.parts) : IsPart(message.parts[p])

ASSUME ResponsesAssumption ==
    \A protocol \in Protocols, ids \in CallIds :
        \A response \in Responses(protocol, ids) : IsAnswer(protocol, response)

ASSUME ForeignAssumption ==
    \A answer \in Foreign :
        answer.protocol \in Protocols /\ IsAnswer(answer.protocol, answer.response)

(* A bound surface names each tool once (ToolCatalog, NamesRoute).           *)
ASSUME SurfacesAssumption == \A surface \in Surfaces : IsSequence(surface) /\ OneEach(surface)

VARIABLES
    api,      \* the format and its one option
    blocks,   \* the context
    turns,    \* history: the answers committed, as the provider sent them
    sent,     \* history: the requests that were sent in this format
    acts,     \* what was said, bound and answered so far
    bound,    \* the tools bound last, <<>> before that
    own,      \* every assistant block came from this format, unedited
    edited,   \* the host edited what was there
    request   \* what the context renders to

vars == <<api, blocks, turns, sent, acts, bound, own, edited, request>>

Render(bs) ==
    CASE api.protocol = AnthropicName -> RenderAnthropic(bs, api.option, TRUE)
      [] api.protocol = ChatName      -> RenderChat(bs, api.option)
      [] api.protocol = ResponsesName -> RenderResponses(bs, api.option)

Parse(protocol, response) ==
    CASE protocol = AnthropicName -> ParseAnthropic(response)
      [] protocol = ChatName      -> ParseChat(response)
      [] protocol = ResponsesName -> ParseResponses(response)

-----------------------------------------------------------------------------
(* ModelResponse::to_blocks.                                                 *)

KeepsPart(part) == part.part = "text" => part.text # <<>>

ItemBlock(item) ==
    IF item.item = "call"
    THEN [kind |-> "call", name |-> item.name, args |-> item.args, pid |-> item.pid, wire |-> item.wire]
    ELSE [kind |-> "message", role |-> "assistant", wire |-> item.wire,
          parts |-> Chosen(item.parts, KeepsPart)]

Calls(items) == {i \in 1..Len(items) : items[i].item = "call"}

(* What the runner commits: an answer that ends the turn or asks for tools,  *)
(* and can be taken as that.                                                 *)
Committable(output) ==
    /\ output.ok
    /\ \/ output.stop = "EndTurn" /\ Calls(output.items) = {}
       \/ output.stop = "ToolUse" /\ Calls(output.items) # {}
    /\ \A i \in Calls(output.items) :
           output.items[i].name \notin {"", " "} /\ output.items[i].args # "array"

WithIds(news) == [i \in 1..Len(news) |-> Over([id |-> Len(blocks) + i], news[i])]

SaysSomething(block) == block.kind = "message" => block.parts # <<>>

ToBlocks(items) ==
    WithIds(Chosen([i \in 1..Len(items) |-> ItemBlock(items[i])], SaysSomething))

-----------------------------------------------------------------------------
Init ==
    /\ api \in Apis
    /\ blocks = <<>> /\ turns = <<>> /\ sent = <<>>
    /\ acts = 0 /\ bound = <<>>
    /\ own = TRUE /\ edited = FALSE
    /\ request = [ok |-> FALSE]

Grows(news) ==
    /\ blocks' = blocks \o news
    /\ request' = Render(blocks')
    /\ ~edited
    /\ UNCHANGED <<api, edited>>

Acts == acts < MaxActs /\ acts' = acts + 1

Open == OpenAt(blocks, Len(blocks))

(* A host that speaks while a call is open breaks the exchange itself.       *)
HostSays(message) ==
    /\ Acts /\ Open = {}
    /\ own' = (own /\ message.role # "assistant")
    /\ Grows(WithIds(<<[kind |-> "message", role |-> message.role, parts |-> message.parts,
                        wire |-> <<>>]>>))
    /\ UNCHANGED <<turns, sent, bound>>

(* The start of a round.  Bound: no round fails between two that bind.       *)
RecordTools(surface) ==
    LET change == Between(CurrentTools(ChangesOf(blocks)), surface) IN
    /\ Acts /\ Open = {}
    /\ blocks # <<>> => ~IsChange(Last(blocks))
    /\ bound' = surface
    /\ Grows(IF IsEmpty(change) THEN <<>>
             ELSE WithIds(<<[kind |-> "change", added |-> change.added, removed |-> change.removed]>>))
    /\ UNCHANGED <<turns, sent, own>>

(* Something to answer was said since the last answer.                       *)
Asked(protocol) ==
    LET segments == Normalize(blocks, protocol, FALSE)
    IN  segments # <<>> /\ Last(segments).role # "assistant"

CommitModel(response) ==
    LET output == Parse(api.protocol, response) IN
    /\ Acts /\ request.ok /\ Asked(api.protocol) /\ Committable(output)
    /\ turns' = Append(turns, response) /\ sent' = Append(sent, request)
    /\ Grows(ToBlocks(output.items))
    /\ UNCHANGED <<bound, own>>

(* The host had another gateway answer first.                                *)
CommitForeign(protocol, response) ==
    LET output == Parse(protocol, response) IN
    /\ Acts /\ turns = <<>> /\ Open = {} /\ Asked(protocol) /\ Committable(output)
    /\ turns' = Append(turns, response) /\ own' = FALSE
    /\ Grows(ToBlocks(output.items))
    /\ UNCHANGED <<sent, bound>>

(* All results in one append, in the order of completion.                    *)
CommitTools(order) ==
    /\ Open # {}
    /\ Grows(WithIds([i \in 1..Len(order) |->
                        Over([kind |-> "result", call |-> blocks[order[i]].id], ResultFacts[i])]))
    /\ UNCHANGED <<turns, sent, acts, bound, own>>

-----------------------------------------------------------------------------
(* Host edits: a block is removed, or its content replaced under its         *)
(* metadata.  Bound: one edit in a conversation, at its end.                 *)
Edit(bs) ==
    /\ ~edited /\ edited' = TRUE /\ Open = {}
    /\ blocks' = bs
    /\ request' = Render(bs)
    /\ own' = FALSE /\ sent' = <<>>
    /\ UNCHANGED <<api, turns, acts, bound>>

HostRemoves(i) == ~IsChange(blocks[i]) /\ Edit(RemoveAt(blocks, i))

HostRewrites(i, part) ==
    /\ blocks[i].kind = "message" /\ blocks[i].role = "assistant" /\ part \in 1..Len(blocks[i].parts)
    /\ blocks[i].parts[part].part = "text"
    /\ \E text \in {<<"new">>, <<>>} : Edit([blocks EXCEPT ![i].parts[part].text = text])

HostChangesCall(i) == IsCall(blocks[i]) /\ Edit([blocks EXCEPT ![i].args = "new"])

Hosts ==
    \/ \E message \in HostParts : HostSays(message)
    \/ \E i \in 1..Len(blocks) : HostRemoves(i) \/ HostChangesCall(i)
                                 \/ \E part \in 1..2 : HostRewrites(i, part)

Next ==
    \/ Hosts
    \/ \E surface \in Surfaces : RecordTools(surface)
    \/ \E ids \in IF turns = <<>> THEN {"first"} ELSE CallIds :
         \E response \in Responses(api.protocol, ids) : CommitModel(response)
    \/ \E answer \in Foreign :
         answer.protocol # api.protocol /\ CommitForeign(answer.protocol, answer.response)
    \/ \E order \in SetToSeqs(Open) : CommitTools(order)

Spec == Init /\ [][Next]_vars

-----------------------------------------------------------------------------
(* What a provider may expect to get back of its own answers, in order.      *)

(* Without the marker the host asked for; a sealed item never carries it.    *)
Unmarked(block) ==
    IF block.type \in {"text", "tool_use"} THEN Without(block, {"cache_control"}) ELSE block

Shows(text) == ~IsBlankText(text)

(* Text that shows nothing is not sent.                                      *)
AnthropicReturned(response) ==
    SelectSeq(response.content, LAMBDA block : block.type = "text" => Shows(block.text))

(* Nor is it here, nor reasoning unless the host wants it replayed, an empty *)
(* list of calls, or a message that then says nothing.                       *)
ChatReturned(message) ==
    LET blank  == "content" \in DOMAIN message /\ "str" \in DOMAIN message.content
                      /\ message.content.str # <<>> /\ ~Shows(message.content.str)
        dropped == (IF blank THEN {"content"} ELSE {})
                       \cup (IF api.option THEN {} ELSE {"reasoning_content"})
                       \cup (IF "tool_calls" \in DOMAIN message /\ message.tool_calls = <<>>
                             THEN {"tool_calls"} ELSE {})
        rest   == Without(message, dropped)
    IN  IF {"content", "tool_calls"} \cap DOMAIN rest = {} THEN <<>> ELSE <<rest>>

(* A message with no text is not kept; one with an empty text beside others  *)
(* comes back as the texts it had.                                           *)
ResponsesReturned(item) ==
    LET texts == SelectSeq(ContentOf(item), LAMBDA part : part.type = "output_text")
        full  == SelectSeq(texts, LAMBDA part : part.text # <<>>)
    IN  CASE item.type # "message" -> <<item>>
          [] item.type = "message" ->
               IF full = <<>> THEN <<>>
               ELSE IF full = texts THEN <<item>>
               ELSE [t \in 1..Len(full) |-> AssistantItem(full[t].text)]

Returned ==
    FlattenSeq([t \in 1..Len(turns) |->
        CASE api.protocol = AnthropicName -> AnthropicReturned(turns[t])
          [] api.protocol = ChatName      -> ChatReturned(turns[t].choices[1].message)
          [] api.protocol = ResponsesName ->
               FlattenSeq([i \in 1..Len(turns[t].output) |-> ResponsesReturned(turns[t].output[i])])])

(* The assistant's part of a request, in the format's own terms.             *)
AssistantWire ==
    LET answers(role) == SelectSeq(request.messages, LAMBDA m : "role" \in DOMAIN m /\ m.role = role)
        content == FlattenSeq([m \in 1..Len(answers("assistant")) |-> answers("assistant")[m].content])
    IN  CASE api.protocol = AnthropicName -> [b \in 1..Len(content) |-> Unmarked(content[b])]
          [] api.protocol = ChatName      -> answers("assistant")
          [] api.protocol = ResponsesName ->
               SelectSeq(request.messages, LAMBDA item :
                   /\ "role" \in DOMAIN item => item.role = "assistant"
                   /\ "type" \in DOMAIN item =>
                          item.type \notin {"function_call_output", "additional_tools"})

(* Wire fidelity: model output the host has not edited is sent back value    *)
(* for value, in order, whatever fields and item kinds the provider adds and *)
(* whatever was said and bound around it (tests/wire_fidelity.rs).           *)
RoundTrip == own /\ request.ok => AssistantWire = Returned

-----------------------------------------------------------------------------
(* Prefix stability (tests/prefix_stability.rs): what was sent once is sent  *)
(* the same in every later request of the conversation, so that a provider's *)
(* cache of it stays valid.  Only the last message may be continued, and a   *)
(* tool withdrawn from a Responses conversation rewrites it.                 *)
Unmark(message) ==
    IF api.protocol # AnthropicName THEN message
    ELSE [message EXCEPT !.content =
            [b \in 1..Len(@) |-> Without(@[b], {"cache_control"})]]

Continues(later, earlier) ==
    \/ later = earlier
    \/ /\ api.protocol = AnthropicName /\ later.role = earlier.role
       /\ IsPrefix(earlier.content, later.content)

KeepsPrefix(earlier, later) ==
    LET n == Len(earlier.messages) IN
    /\ later.system = earlier.system
    /\ Len(later.messages) >= n
    /\ \A m \in 1..n - 1 : Unmark(later.messages[m]) = Unmark(earlier.messages[m])
    /\ Continues(Unmark(later.messages[n]), Unmark(earlier.messages[n]))
    /\ earlier.in_place => later.tools = earlier.tools

EarlierMessagesKept ==
    request.ok =>
        \A s \in 1..Len(sent) :
            (api.protocol = ResponsesName => sent[s].in_place = request.in_place) =>
                KeepsPrefix(sent[s], request)

-----------------------------------------------------------------------------
(* What a reader of the request makes of it: who said what, which calls were *)
(* made with what arguments, and what came of each.                          *)
NothingSaid == [user |-> <<>>, system |-> <<>>, assistant |-> <<>>, calls |-> <<>>, results |-> {}]

Says(reading, role, text) == [reading EXCEPT ![role] = @ \o text]

TextsIn(parts) ==
    FlattenSeq([p \in 1..Len(parts) |-> IF "text" \in DOMAIN parts[p] THEN parts[p].text ELSE <<>>])

ReadAnthropicBlock(reading, role, block) ==
    CASE block.type = "text" -> Says(reading, role, block.text)
      [] block.type = "tool_use" ->
           [reading EXCEPT !.calls = Append(@, <<block.id, block.name, block.input>>)]
      [] block.type = "tool_result" ->
           [reading EXCEPT !.results = @ \cup {<<block.tool_use_id, TextsIn(block.content)>>}]
      [] OTHER -> reading

ReadAnthropic(reading, message) ==
    FoldLeft(LAMBDA at, block : ReadAnthropicBlock(at, message.role, block), reading, message.content)

ReadChat(reading, message) ==
    LET content == IF "content" \in DOMAIN message THEN message.content ELSE [null |-> TRUE]
        text == IF "str" \in DOMAIN content THEN content.str
                ELSE IF "parts" \in DOMAIN content THEN TextsIn(content.parts) ELSE <<>>
        calls == IF "tool_calls" \in DOMAIN message THEN message.tool_calls ELSE <<>>
    IN  IF message.role = "tool"
        THEN [reading EXCEPT !.results = @ \cup {<<message.tool_call_id, text>>}]
        ELSE IF text # <<>> /\ text[1] = "media of" THEN reading
        ELSE [Says(reading, message.role, text) EXCEPT !.calls =
                @ \o [c \in 1..Len(calls) |-> <<calls[c].id, calls[c].function.name,
                                               calls[c].function.arguments.value>>]]

ReadResponses(reading, item) ==
    CASE "content" \in DOMAIN item /\ "role" \in DOMAIN item ->
           Says(reading, item.role, TextsIn(item.content))
      [] "call_id" \in DOMAIN item /\ item.type = "function_call" ->
           [reading EXCEPT !.calls = Append(@, <<item.call_id, item.name, item.arguments.value>>)]
      [] "call_id" \in DOMAIN item /\ item.type = "function_call_output" ->
           [reading EXCEPT !.results = @ \cup {<<item.call_id, TextsIn(<<item.output[1]>>)>>}]
      [] OTHER -> reading

Reading ==
    FoldLeft(LAMBDA at, message :
                 CASE api.protocol = AnthropicName -> ReadAnthropic(at, message)
                   [] api.protocol = ChatName      -> ReadChat(at, message)
                   [] api.protocol = ResponsesName -> ReadResponses(at, message),
             Says(NothingSaid, "system", FlattenSeq(request.system)), request.messages)

(* The same from the facts of the context.                                   *)
PartText(block, part) ==
    CASE part.part = "text" ->
           IF block.role = "assistant" /\ api.protocol # ResponsesName /\ ~Shows(part.text)
           THEN <<>> ELSE part.text
      [] part.part = "media" ->
           IF block.role = "user" /\ part.ref.source \in {"inline", "http"}
                 /\ (part.ref.kind = "image" \/ (part.ref.kind = "document"
                                                /\ api.protocol = AnthropicName))
           THEN <<>> ELSE PlaceholderText
      [] part.part = "sealed" -> <<>>

ResultFact(block) ==
    LET call == CHOOSE i \in 1..Len(blocks) : IsCall(blocks[i]) /\ blocks[i].id = block.call
        unshown == SelectSeq(block.media, LAMBDA ref :
                       PartText([role |-> "user"], [part |-> "media", ref |-> ref]) # <<>>)
        notes == FlattenSeq([n \in 1..Len(block.notes) |-> <<"-">> \o block.notes[n]])
    IN  <<WireId(blocks[call]),
          block.content \o (IF notes = <<>> THEN <<>> ELSE <<"Notes:">> \o notes)
              \o (IF api.protocol = AnthropicName
                  THEN FlattenSeq([n \in 1..Len(unshown) |-> PlaceholderText]) ELSE <<>>)>>

Fact(reading, block) ==
    CASE block.kind = "message" ->
           Says(reading, block.role, FlattenSeq([p \in 1..Len(block.parts) |->
                                                   PartText(block, block.parts[p])]))
      [] block.kind = "call" ->
           [reading EXCEPT !.calls = Append(@, <<WireId(block), block.name, block.args>>)]
      [] block.kind = "result" -> [reading EXCEPT !.results = @ \cup {ResultFact(block)}]
      [] block.kind = "change" -> reading

Facts == FoldLeft(Fact, NothingSaid, blocks)

(* The only reasons a context is refused: an exchange that is not complete   *)
(* or not unambiguous, nothing to say, or a change of an Anthropic           *)
(* conversation's tools that does not follow a user's turn.                  *)
IsShown(segment) ==
    CASE segment.seg = "sealed" -> (api.protocol = ChatName => "content" \in DOMAIN segment.item)
      [] IsAssistantText(segment) -> (api.protocol # ResponsesName => Shows(segment.text))
      [] OTHER -> TRUE

Spoken(bs) ==
    LET segments == Normalize(bs, api.protocol, FALSE)
        leading  == IF api.protocol = ChatName THEN 0 ELSE LeadingSystemLen(segments)
    IN  SelectSeq(SubSeq(segments, leading + 1, Len(segments)), IsShown)

Refusable ==
    \/ ~ValidateFrame(blocks)
    \/ Spoken(blocks) = <<>>
    \/ /\ api = [protocol |-> AnthropicName, option |-> TRUE]
       /\ \E i \in 1..Len(blocks) :
              /\ IsChange(blocks[i]) /\ \E j \in 1..i - 1 : IsChange(blocks[j])
              /\ LET before == Spoken(SubSeq(blocks, 1, i))
                 IN  before = <<>> \/ Last(before).role = "assistant"

(* The context is what the request says: no edit under old wire metadata, no *)
(* merging of messages, no hoisting and no fallback loses, repeats or makes  *)
(* up a text, an argument or a result, and a valid exchange is never refused.*)
SaysTheConversation ==
    IF request.ok THEN ValidateFrame(blocks) /\ Reading = Facts ELSE Refusable

(* The tools a request offers, its changes in place counted in, are the ones *)
(* the round bound, each once: the model is not offered what cannot be run.  *)
(* A change stands in a message of the system, or is an item that adds.      *)
ChangeIn(block) ==
    CASE block.type = "tool_removal"  -> <<[added |-> <<>>, removed |-> <<block.name>>]>>
      [] block.type = "tool_addition" -> <<[added |-> <<block.tool>>, removed |-> <<>>]>>
      [] OTHER -> <<>>

ChangesIn(message) ==
    IF message.role = "system"
    THEN FlattenSeq([b \in 1..Len(message.content) |-> ChangeIn(message.content[b])]) ELSE <<>>

ToolsIn(item) ==
    IF "type" \in DOMAIN item /\ item.type = "additional_tools" THEN item.tools ELSE <<>>

OfferedBy(body) ==
    LET n == Len(body.messages)
    IN  CASE api.protocol = AnthropicName ->
               ApplyAll(body.tools, FlattenSeq([m \in 1..n |-> ChangesIn(body.messages[m])]))
          [] api.protocol = ChatName      -> body.tools
          [] api.protocol = ResponsesName ->
               body.tools \o FlattenSeq([m \in 1..n |-> ToolsIn(body.messages[m])])

OffersBoundTools ==
    request.ok => OneEach(OfferedBy(request)) /\ ToSet(OfferedBy(request)) = ToSet(bound)
=============================================================================
