------------------------------- MODULE SseParser -------------------------------
(****************************************************************************)
(* SSE framing (causa-protocol, sse_parser/parser.rs): bytes in, one event  *)
(* at a time out, whatever the chunks are cut like.                         *)
(*                                                                          *)
(* A byte is a token: "cr" and "lf" end lines, "data:", "event:" and ":"    *)
(* start a field or a comment, "sp" is the space after a colon, "bom" the   *)
(* mark a stream may begin with; "u1" and "u2" are the halves of one        *)
(* character.                                                               *)
(****************************************************************************)
EXTENDS Integers, Sequences, SequencesExt

CONSTANTS MaxLineBytes, MaxEventBytes

ASSUME LineAssumption == MaxLineBytes \in Nat /\ MaxEventBytes \in Nat

NewParser ==
    [line |-> <<>>, event_name |-> <<>>, data |-> <<>>, has_data |-> FALSE, first_line |-> TRUE,
     after_cr |-> FALSE, event_bytes |-> 0]

IsUtf8(line) ==
    /\ \A i \in 1..Len(line) : line[i] = "u2" => i > 1 /\ line[i - 1] = "u1"
    /\ \A i \in 1..Len(line) : line[i] = "u1" => i < Len(line) /\ line[i + 1] = "u2"

(* The outcome of a line or of a call: the parser after it, the event it     *)
(* completed and the input it left, or a failure.                            *)
Parsed(parser, event, rest) == [ok |-> TRUE, parser |-> parser, event |-> event, rest |-> rest]

Failure(error) == [ok |-> FALSE, error |-> error]

Dispatched(parser, rest) ==
    Parsed([parser EXCEPT !.event_name = <<>>, !.data = <<>>, !.has_data = FALSE, !.event_bytes = 0],
           IF parser.has_data THEN <<[event |-> parser.event_name, data |-> parser.data]>> ELSE <<>>,
           rest)

WithoutSpace(value) == IF value # <<>> /\ value[1] = "sp" THEN Tail(value) ELSE value

Field(parser, line) ==
    LET value == WithoutSpace(Tail(line)) IN
    CASE line[1] = "data:" ->
           [parser EXCEPT !.data = IF parser.has_data THEN @ \o <<"nl">> \o value ELSE value,
                          !.has_data = TRUE]
      [] line[1] = "event:" -> [parser EXCEPT !.event_name = value]
      [] OTHER -> parser

CompleteLine(parser, rest) ==
    LET raw  == parser.line
        line == IF parser.first_line /\ raw # <<>> /\ raw[1] = "bom" THEN Tail(raw) ELSE raw
        next == [parser EXCEPT !.line = <<>>, !.first_line = FALSE]
    IN  IF ~IsUtf8(raw) THEN Failure("Undecodable")
        ELSE IF line = <<>> THEN Dispatched(next, rest)
        ELSE Parsed(Field(next, line), <<>>, rest)

EndsLine(byte) == byte \in {"cr", "lf"}

(* The bytes up to the next end of a line.                                   *)
Segment(input) ==
    LET ends == {i \in 1..Len(input) : EndsLine(input[i])}
    IN  IF ends = {} THEN input ELSE SubSeq(input, 1, Min(ends) - 1)

(* Mutant: the line feed after a carriage return ends a line of its own.     *)
SkipsLineFeedNever(parser, input) == FALSE

(* The line feed of a pair whose carriage return ended the line.             *)
SkipsLineFeed(parser, input) == parser.after_cr /\ input[1] = "lf"

(* One turn of the loop: a segment and, if it is there, what ends its line.  *)
TakeSegment(parser, input) ==
    LET segment == Segment(input)
        ended   == Len(segment) < Len(input)
        taken   == Len(segment) + IF ended THEN 1 ELSE 0
        longer  == [parser EXCEPT !.line = @ \o segment, !.event_bytes = @ + taken,
                                  !.after_cr = ended /\ input[taken] = "cr"]
        rest    == SubSeq(input, taken + 1, Len(input))
    IN  IF Len(longer.line) > MaxLineBytes \/ longer.event_bytes > MaxEventBytes
        THEN Failure("Undecodable")
        ELSE IF ended THEN CompleteLine(longer, rest) ELSE Parsed(longer, <<>>, rest)

Turn(at) ==
    IF ~at.ok THEN at
    ELSE IF at.event # <<>> \/ at.rest = <<>> THEN at
    ELSE IF SkipsLineFeed(at.parser, at.rest)
         THEN Parsed([at.parser EXCEPT !.after_cr = FALSE], <<>>, Tail(at.rest))
    ELSE TakeSegment(at.parser, at.rest)

(* SseParser::decode: through at most one event.                             *)
DecodeSse(parser, input) ==
    LET after[i \in 0..Len(input)] ==
            IF i = 0 THEN Parsed(parser, <<>>, input) ELSE Turn(after[i - 1])
    IN  after[Len(input)]

(* SseParser::finish: nothing, or what is wrong with the end.                *)
FinishSse(parser) ==
    CASE ~IsUtf8(parser.line) -> <<"Undecodable">>
      [] IsUtf8(parser.line) /\ (parser.line # <<>> \/ parser.has_data \/ parser.event_name # <<>>) ->
           <<"UnknownOutcome">>
      [] OTHER -> <<>>
=============================================================================
