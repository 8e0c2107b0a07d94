------------------------------ MODULE WireFrame ------------------------------
(****************************************************************************)
(* From a conversation to what a request may carry of it (causa-protocol,   *)
(* context_frame.rs and tool_history.rs): the walk the three renderers      *)
(* share, and the check of tool exchanges before it.                        *)
(*                                                                          *)
(* A JSON object is a record, a JSON string a sequence of tokens of which   *)
(* "sp" is not visible; an optional value is a sequence of at most one.     *)
(* Blocks: messages [role, parts, wire], calls [name, args, pid, wire],     *)
(* results [call, status, content, notes, media], changes [added, removed], *)
(* each with its id and its kind.  Block ids are numbers.                   *)
(****************************************************************************)
EXTENDS ToolSet, TLC

(* The elements that pass, in their order.                                   *)
Chosen(seq, Passes(_)) ==
    FlattenSeq([i \in 1..Len(seq) |-> IF Passes(seq[i]) THEN <<seq[i]>> ELSE <<>>])

(* An encoded JSON value: what it decodes to and how it is spelled.          *)
Encoded(value) == [value |-> value, spelling |-> "plain"]

Without(object, keys) == Restrict(object, DOMAIN object \ keys)

(* A JSON array, whatever its values.                                        *)
IsSequence(s) == s \in Seq(ToSet(s))

(* These fields over the object's own.                                       *)
Over(fields, object) ==
    [key \in DOMAIN fields \cup DOMAIN object |->
       IF key \in DOMAIN fields THEN fields[key] ELSE object[key]]

ResidueObject(wire) == IF wire = <<>> THEN << >> ELSE wire[1]

IsBlankText(text) == \A i \in 1..Len(text) : text[i] = "sp"

WireArguments(raw, facts) ==
    IF raw # <<>> /\ raw[1].value = facts THEN raw[1] ELSE Encoded(facts)

(* The value, or nothing for a call the token limit may have cut off.        *)
DecodeWireArguments(raw, cutOff) ==
    CASE raw # <<>> /\ raw[1].value # "incomplete" -> [ok |-> TRUE, args |-> <<raw[1].value>>]
      [] OTHER -> [ok |-> cutOff, args |-> <<>>]

OwnWire(block, protocol) ==
    IF block.wire # <<>> /\ block.wire[1].format = protocol
    THEN <<block.wire[1].fields>> ELSE <<>>

(* The provider's id of a call, or else the declaration's own.               *)
WireId(call) == IF call.pid # <<>> THEN call.pid[1] ELSE ToString(call.id)

IsCall(block)   == block.kind = "call"
IsResult(block) == block.kind = "result"
IsChange(block) == block.kind = "change"

-----------------------------------------------------------------------------
(* Media: a reference has a kind, "" for a type no format can carry, and the *)
(* source the host's resolver has for it: "none", bytes within the ceiling   *)
(* or beyond it ("inline", "large"), or a URL ("http", "file").              *)

(* What the gateway puts in the table the renderers look into.               *)
InMediaSet(ref) ==
    /\ ref.source # "none"
    /\ ref.source \in {"inline", "large"} => ref.kind # "" /\ ref.source = "inline"

Emits(protocol, kind) == kind = "image" \/ (kind = "document" /\ protocol = "anthropic_messages")

Usable(source) == source \in {"inline", "http"}

ResolveMedia(ref, role, protocol) ==
    IF role = "user" /\ InMediaSet(ref) /\ Emits(protocol, ref.kind) /\ Usable(ref.source)
    THEN [media |-> ref.kind, ref |-> ref]
    ELSE [media |-> "placeholder", ref |-> ref]

PlaceholderText == <<"[media]">>

-----------------------------------------------------------------------------
(* The tool list of a request, and whether later changes go in place.        *)

ChangeAt(block) ==
    IF IsChange(block) THEN <<[added |-> block.added, removed |-> block.removed]>> ELSE <<>>

ChangesOf(blocks) == FlattenSeq([i \in 1..Len(blocks) |-> ChangeAt(blocks[i])])

AddsOnlyNew(declaration, changes) ==
    /\ \A i \in 1..Len(changes) : changes[i].removed = <<>>
    /\ OneEach(declaration \o FlattenSeq([i \in 1..Len(changes) |-> changes[i].added]))

(* Mutant: the list is the one in force, also where changes go in place.     *)
PlanToolsCurrent(blocks, placement) ==
    LET changes == ChangesOf(blocks)
    IN  [tools |-> CurrentTools(changes),
         in_place |-> changes # <<>> /\ placement = "AnthropicInPlace"]

PlanTools(blocks, placement) ==
    LET changes     == ChangesOf(blocks)
        declaration == ApplyTo(<<>>, changes[1])
        expressible == /\ changes # <<>>
                       /\ \/ placement = "AnthropicInPlace" /\ declaration # <<>>
                          \/ /\ placement = "ResponsesAdditive"
                             /\ AddsOnlyNew(declaration, Tail(changes))
    IN  IF expressible THEN [tools |-> declaration, in_place |-> TRUE]
        ELSE [tools |-> CurrentTools(changes), in_place |-> FALSE]

-----------------------------------------------------------------------------
(* The walk.  Every segment has a position: who speaks.                      *)

PartSegment(block, index, part, protocol) ==
    CASE part.part = "text" ->
           IF part.text = <<>> THEN <<>>
           ELSE <<[seg |-> "text", role |-> block.role, text |-> part.text, block |-> index,
                   parts |-> Len(block.parts),
                   wire |-> IF block.role = "assistant" THEN OwnWire(block, protocol) ELSE <<>>]>>
      [] part.part = "media" ->
           <<[seg |-> "media", role |-> block.role, block |-> index,
              media |-> ResolveMedia(part.ref, block.role, protocol)]>>
      [] part.part = "sealed" ->
           IF block.role = "assistant" /\ part.format = protocol
           THEN <<[seg |-> "sealed", role |-> "assistant", item |-> part.item]>> ELSE <<>>

Segments(blocks, index, protocol, inPlace) ==
    LET block == blocks[index]
        declaration(id) == CHOOSE i \in 1..Len(blocks) : IsCall(blocks[i]) /\ blocks[i].id = id
    IN  CASE block.kind = "message" ->
               FlattenSeq([p \in 1..Len(block.parts) |->
                             PartSegment(block, index, block.parts[p], protocol)])
          [] block.kind = "call" ->
               <<[seg |-> "call", role |-> "assistant", wireId |-> WireId(block),
                  name |-> block.name, args |-> block.args, wire |-> OwnWire(block, protocol)]>>
          [] block.kind = "result" ->
               <<[seg |-> "result", role |-> "tool", wireId |-> WireId(blocks[declaration(block.call)]),
                  status |-> block.status, content |-> block.content, notes |-> block.notes,
                  media |-> [m \in 1..Len(block.media) |->
                               ResolveMedia(block.media[m], "user", protocol)]]>>
          [] block.kind = "change" ->
               IF inPlace /\ \E i \in 1..index - 1 : IsChange(blocks[i])
               THEN <<[seg |-> "change", role |-> "system", added |-> block.added,
                       removed |-> block.removed]>>
               ELSE <<>>

Normalize(blocks, protocol, inPlace) ==
    FlattenSeq([i \in 1..Len(blocks) |-> Segments(blocks, i, protocol, inPlace)])

LeadingSystemLen(segments) ==
    LET ends == {i \in 1..Len(segments) : segments[i].role # "system" \/ segments[i].seg = "change"}
    IN  IF ends = {} THEN Len(segments) ELSE Min(ends) - 1

(* The segments from this one on, before the first of the others.           *)
RunBefore(segments, from, others) ==
    SubSeq(segments, from, IF others = {} THEN Len(segments) ELSE Min(others) - 1)

(* The segments a user message carries, if it starts at this one.            *)
IsUserPart(segment) == segment.seg \in {"text", "media"} /\ segment.role = "user"

SameUserBlock(segments, i, j) ==
    IsUserPart(segments[i]) /\ IsUserPart(segments[j]) /\ segments[i].block = segments[j].block

StartsUserMessage(segments, i) ==
    IsUserPart(segments[i]) /\ (i = 1 \/ ~SameUserBlock(segments, i - 1, i))

UserBlockRun(segments, from) ==
    RunBefore(segments, from, {j \in from..Len(segments) : ~SameUserBlock(segments, from, j)})

IsAssistantText(segment) == segment.seg = "text" /\ segment.role = "assistant"

SameBlockRun(segments, from) ==
    RunBefore(segments, from, {j \in from..Len(segments) : ~(IsAssistantText(segments[j])
                                                      /\ segments[j].block = segments[from].block)})

ResultTextWithNotes(content, notes) ==
    IF notes = <<>> THEN content
    ELSE content \o <<"Notes:">> \o FlattenSeq([n \in 1..Len(notes) |-> <<"-">> \o notes[n]])

-----------------------------------------------------------------------------
(* validate_frame: the exchanges of a frame are complete, each under an id   *)
(* of its own.                                                               *)
OpenAt(blocks, index) ==
    {i \in 1..index : IsCall(blocks[i]) /\
        ~\E j \in 1..index : IsResult(blocks[j]) /\ blocks[j].call = blocks[i].id}

ValidCall(blocks, i) ==
    /\ blocks[i].name \notin {"", " "} /\ blocks[i].args # "array"
    /\ WireId(blocks[i]) # ""
    /\ \A j \in 1..i - 1 : IsCall(blocks[j]) =>
           WireId(blocks[j]) # WireId(blocks[i]) /\ blocks[j].id # blocks[i].id

ValidResult(blocks, i) ==
    /\ \E j \in 1..i - 1 : IsCall(blocks[j]) /\ blocks[j].id = blocks[i].call
    /\ \A j \in 1..i - 1 : IsResult(blocks[j]) => blocks[j].call # blocks[i].call

ValidateFrame(blocks) ==
    /\ OpenAt(blocks, Len(blocks)) = {}
    /\ \A i \in 1..Len(blocks) :
           CASE IsCall(blocks[i])   -> ValidCall(blocks, i)
             [] IsResult(blocks[i]) -> ValidResult(blocks, i)
             [] IsChange(blocks[i]) -> OpenAt(blocks, i) = {} /\ OneEach(blocks[i].added)
             [] OTHER -> blocks[i].role # "assistant" =>
                           \A p \in 1..Len(blocks[i].parts) : blocks[i].parts[p].part # "sealed"
=============================================================================
