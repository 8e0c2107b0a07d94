----------------------------- MODULE StreamDecoder -----------------------------
(****************************************************************************)
(* The decoder of a provider's stream (causa-protocol, streaming/           *)
(* decoder.rs): bytes in, one delta at a time out.  What an event means is  *)
(* the assembly's business (StreamAssembly); here it is a table: the deltas *)
(* an event's data stands for, or that it cannot be used.                   *)
(****************************************************************************)
EXTENDS SseParser

CONSTANTS MaxTotalBytes, MaxPendingDeltas, Meaning

ASSUME LimitAssumption ==
    MaxTotalBytes \in Nat \ {0} /\ MaxPendingDeltas \in Nat \ {0}

ASSUME MeaningAssumption == \A data \in DOMAIN Meaning : Meaning[data] \in Seq(STRING)

NewDecoder == [parser |-> NewParser, pending |-> <<>>, total |-> 0, terminal |-> FALSE, failed |-> FALSE]

(* The deltas of an event: "broken" stands for an event that is refused.     *)
DeltasOf(event) == IF event.data \in DOMAIN Meaning THEN Meaning[event.data] ELSE <<>>

IsTerminal(deltas) == Contains(deltas, "done")

(* What a call gives: a delta, nothing yet, or a failure, which ends it.     *)
Delta(decoder, rest) ==
    [decoder |-> [decoder EXCEPT !.pending = Tail(@)], rest |-> rest, delta |-> <<Head(decoder.pending)>>,
     error |-> <<>>]

NoDelta(decoder, rest) == [decoder |-> decoder, rest |-> rest, delta |-> <<>>, error |-> <<>>]

Fused(decoder, rest, error) ==
    [decoder |-> [decoder EXCEPT !.failed = TRUE, !.pending = <<>>], rest |-> rest, delta |-> <<>>,
     error |-> <<error>>]

(* What the parser may see of the input before the total is reached.         *)
Bounded(decoder, input) ==
    SubSeq(input, 1, IF Len(input) < MaxTotalBytes - decoder.total THEN Len(input)
                     ELSE MaxTotalBytes - decoder.total)

(* One turn of the loop: at most one event.                                  *)
TakeEvent(at) ==
    LET input  == at.rest
        view   == Bounded(at.decoder, input)
        parsed == DecodeSse(at.decoder.parser, view)
        used   == IF parsed.ok THEN Len(view) - Len(parsed.rest) ELSE 0
        rest   == SubSeq(input, used + 1, Len(input))
        next   == [at.decoder EXCEPT !.parser = parsed.parser, !.total = @ + used]
        deltas == DeltasOf(parsed.event[1])
        queued == [next EXCEPT !.pending = @ \o deltas, !.terminal = IsTerminal(deltas)]
        broken == Fused(at.decoder, input, "Undecodable")
    IN  IF input # <<>> /\ view = <<>> THEN broken
        ELSE IF ~parsed.ok THEN broken
        ELSE IF parsed.event = <<>>
             THEN IF rest # <<>> /\ next.total = MaxTotalBytes THEN broken ELSE NoDelta(next, rest)
        ELSE IF deltas = <<"broken">> \/ Len(deltas) > MaxPendingDeltas THEN broken
        ELSE IF deltas # <<>> THEN Delta(queued, rest)
        ELSE NoDelta(queued, rest)

(* StreamDecoder::decode: through the input until there is a delta.          *)
Decoded(decoder, input) ==
    CASE decoder.failed -> NoDelta(decoder, input)
      [] ~decoder.failed /\ decoder.pending # <<>> -> Delta(decoder, input)
      [] ~decoder.failed /\ decoder.pending = <<>> /\ decoder.terminal -> NoDelta(decoder, input)
      [] OTHER ->
           LET after[i \in 0..Len(input)] ==
                   IF i = 0 THEN NoDelta(decoder, input)
                   ELSE LET at == after[i - 1]
                        IN  IF at.delta # <<>> \/ at.error # <<>> \/ at.rest = <<>> THEN at ELSE TakeEvent(at)
           IN  after[Len(input)]

(* StreamDecoder::finish: the error the end of the input is, if it is one.   *)
FinishDecoder(decoder) ==
    CASE decoder.failed -> <<"InvalidRequest">>
      [] ~decoder.failed /\ decoder.terminal -> <<>>
      [] OTHER -> IF FinishSse(decoder.parser) # <<>> THEN FinishSse(decoder.parser)
                  ELSE <<"UnknownOutcome">>
=============================================================================
