----------------------------- MODULE StreamFrame -----------------------------
(****************************************************************************)
(* What the three stream assemblies share (causa-protocol, streaming/       *)
(* common.rs).  An assembly takes one event and gives its next state and    *)
(* the deltas to report, or fails.                                          *)
(*                                                                          *)
(* Events are records with the fields the assemblies read; a string that    *)
(* comes in fragments is a sequence of tokens; indexes start at 0, as on    *)
(* the wire.  Bytes, usage and events that lack a field or have one of      *)
(* another type, all Undecodable, are left out.                             *)
(****************************************************************************)
EXTENDS ResponsesWire

CONSTANT MaxItems      \* StreamLimits.max_items

ASSUME MaxItemsAssumption == MaxItems \in Nat \ {0}

(* What a string decodes to: "array" stands for the values that are not      *)
(* objects, "incomplete" for a string that is not JSON.                      *)
JsonOf(raw) ==
    CASE raw = <<"o", "ld">> -> "old"
      [] raw = <<"[", "]">>  -> "array"
      [] OTHER               -> "incomplete"

IsObject(value) == value \notin {"array", "incomplete"}

(* An object with one field set.                                             *)
WithField(object, key, value) ==
    [k \in DOMAIN object \cup {key} |-> IF k = key THEN value ELSE object[k]]

RawArguments(raw) == [value |-> JsonOf(raw), spelling |-> raw]

TextDelta(text) == [delta |-> "text", text |-> text]

ReasoningDelta(text) == [delta |-> "reasoning", text |-> text]

ToolCallDelta(index, id, name, arguments) ==
    [delta |-> "call", index |-> index, id |-> id, name |-> name, arguments |-> arguments]

Done(output) == [delta |-> "done", output |-> output]

Accepted(asm, deltas) == [ok |-> TRUE, asm |-> asm, deltas |-> deltas]

Rejected(error) == [ok |-> FALSE, error |-> error]

Broken == Rejected("Undecodable")

ProviderError == Rejected("Provider")

(* The last step of an assembly: what the batch parser makes of the whole.   *)
Finished(asm, parsed) ==
    IF parsed.ok THEN Accepted(asm, <<Done(parsed)>>) ELSE Rejected(parsed.error)

(* Budget::item.                                                             *)
OneMore(count) == count < MaxItems

NonEmpty(text, delta) == IF text = <<>> THEN <<>> ELSE <<delta>>
=============================================================================
