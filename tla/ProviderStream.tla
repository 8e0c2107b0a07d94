---------------------------- MODULE ProviderStream ----------------------------
(****************************************************************************)
(* One call of an HTTP gateway, with or without streaming (causa-provider,  *)
(* kernel_gateway/gateway.rs and kernel_gateway/stream.rs), against a       *)
(* server that answers in chunks of any length, late or never, a connection *)
(* that fails at any point, and a control that is cancelled or reaches its  *)
(* deadline at any point.                                                   *)
(*                                                                          *)
(* The body of a response is a sequence of the tokens of SseParser.  A body *)
(* that is not a stream is text when it has whole characters.  Yielding to  *)
(* the executor every 32 turns is left out: a step may come at any time.    *)
(****************************************************************************)
EXTENDS StreamDecoder, GatewayTransport

CONSTANTS
    Calls,        \* "stream", "invoke"
    Responses,    \* the responses a server may give
    DecodeWindow  \* DECODE_WINDOW: the bytes decoded between two looks at the control

ASSUME WindowAssumption == DecodeWindow \in Nat \ {0}

ASSUME CallAssumption == Calls \subseteq {"stream", "invoke"}

ASSUME ServerAssumption ==
    Responses \subseteq [status : Nat, retry : {"none", "true", "false"}, ms : Int, after : Int,
                         sse : BOOLEAN, declared : BOOLEAN, body : Seq(STRING)]

VARIABLES
    call, server,        \* the call, and the response it will be given
    cancelled, expired,  \* the control
    wire,                \* the exchange: "none" as long as nothing was sent, "open", "failed"
    unsent,              \* the part of the body that is still to arrive
    pc,                  \* where the call is
    decoder, chunk, open,  \* State: the decoder, what is unread of the chunk, the response
    decoded,             \* what the last decode gave
    buffer,              \* read_bounded: the body so far
    delivered, result    \* the deltas yielded, and the error or the end that was last

control == <<cancelled, expired>>
network == <<wire, unsent>>
state   == <<decoder, chunk, open, decoded, buffer>>
vars    == <<call, server, control, network, pc, state, delivered, result>>

Init ==
    /\ call \in Calls /\ server \in Responses
    /\ cancelled = FALSE /\ expired \in BOOLEAN
    /\ wire = "none" /\ unsent = server.body
    /\ pc = "start"
    /\ decoder = NewDecoder /\ chunk = <<>> /\ open = FALSE
    /\ decoded = NoDelta(NewDecoder, <<>>) /\ buffer = <<>>
    /\ delivered = <<>> /\ result = <<>>

Running == pc # "ended"

-----------------------------------------------------------------------------
(* The control, and what a stopped call ends with.                           *)
Stopped == cancelled \/ expired

Cancel == Running /\ ~cancelled /\ cancelled' = TRUE
          /\ UNCHANGED <<call, server, expired, network, pc, state, delivered, result>>

Expire == Running /\ ~expired /\ expired' = TRUE
          /\ UNCHANGED <<call, server, cancelled, network, pc, state, delivered, result>>

StopError == Error(IF cancelled THEN "Cancelled" ELSE "TimedOut")

EndsWith(error) == pc' = "ended" /\ result' = <<error>>

StopsHere == Stopped /\ EndsWith(StopError) /\ UNCHANGED <<call, server, control, network, state, delivered>>

Start ==
    /\ pc = "start"
    /\ \/ StopsHere
       \/ /\ ~Stopped /\ pc' = "render"
          /\ UNCHANGED <<call, server, control, network, state, delivered, result>>

(* StreamDecoder::new, render_request, configure_stream_request.             *)
Render ==
    /\ pc = "render"
    /\ pc' = "rendered" \/ EndsWith(Error("InvalidRequest"))
    /\ pc' = "rendered" => UNCHANGED result
    /\ UNCHANGED <<call, server, control, network, state, delivered>>

(* The check before the request, and the request.                            *)
SendRequest ==
    /\ pc = "rendered"
    /\ \/ StopsHere
       \/ /\ ~Stopped /\ pc' = "sending" /\ wire' = "open"
          /\ UNCHANGED <<call, server, control, unsent, state, delivered, result>>

-----------------------------------------------------------------------------
(* Waiting on the socket: a stop is seen while nothing arrives, and once     *)
(* more when something did.                                                  *)

(* Mutant: the wait for a stream's next chunk does not see a stop.           *)
StopWaitBeforeStream == pc \in {"sending", "buffering"} /\ StopsHere

StopWait == pc \in {"sending", "buffering", "waiting"} /\ StopsHere

Broken(kinds) ==
    /\ wire' = "failed"
    /\ \E kind \in kinds : EndsWith(Error(kind))
    /\ UNCHANGED <<call, server, control, unsent, state, delivered>>

FailTransport ==
    /\ ~Stopped
    /\ \/ pc = "sending" /\ Broken(SendFailures)
       \/ pc \in {"buffering", "waiting"} /\ Broken(BodyFailures)

IsStream == call = "stream" /\ IsSuccess(server) /\ server.sse

(* The response's head arrives: establish_stream, or read_bounded.           *)
Answer ==
    /\ pc = "sending" /\ ~Stopped
    /\ IF IsStream
       THEN pc' = "established" /\ UNCHANGED result
       ELSE IF server.declared /\ Len(server.body) > MaxResponseBytes
            THEN EndsWith(Error("Undecodable"))
            ELSE pc' = "buffering" /\ UNCHANGED result
    /\ UNCHANGED <<call, server, control, network, state, delivered>>

(* The last check of establish_stream; model_stream.                         *)
Establish ==
    /\ pc = "established"
    /\ \/ StopsHere
       \/ /\ ~Stopped /\ pc' = "idle" /\ open' = TRUE
          /\ UNCHANGED <<call, server, control, network, decoder, chunk, decoded, buffer, delivered, result>>

(* A chunk of any length.                                                    *)
Arrive(n) ==
    /\ n <= Len(unsent)
    /\ unsent' = SubSeq(unsent, n + 1, Len(unsent))
    /\ UNCHANGED <<call, server, control, wire, decoder, open, decoded, delivered>>

Buffer ==
    /\ pc = "buffering" /\ ~Stopped
    /\ \E n \in 1..Len(unsent) :
          /\ Arrive(n)
          /\ IF Len(buffer) + n > MaxResponseBytes
             THEN EndsWith(Error("Undecodable")) /\ UNCHANGED buffer
             ELSE buffer' = buffer \o SubSeq(unsent, 1, n) /\ UNCHANGED <<pc, result>>
    /\ UNCHANGED chunk

(* Mutant: a success that is not a stream is unusable, whatever it says.     *)
StreamErrorUnread(text) ==
    IF IsSuccess(server) THEN Error("Undecodable") ELSE MapStatusError(server, text)

(* establish_stream, for a response that is not a stream.                    *)
StreamError(text) ==
    CASE ~IsSuccess(server) -> MapStatusError(server, text)
      [] IsSuccess(server) /\ ReportedError(text) # <<>> -> ReportedError(text)[1]
      [] OTHER -> Error("Undecodable")

(* The end of the body that is buffered.                                     *)
Classify ==
    /\ pc = "buffering" /\ ~Stopped /\ unsent = <<>>
    /\ LET text == IF IsUtf8(buffer) THEN buffer ELSE <<>> IN
       IF ~IsUtf8(buffer) /\ IsSuccess(server) THEN EndsWith(Error("Undecodable"))
       ELSE EndsWith(IF call = "invoke" THEN FinishResponse(server, text) ELSE StreamError(text))
    /\ UNCHANGED <<call, server, control, network, state, delivered>>

-----------------------------------------------------------------------------
(* model_stream: one poll runs until there is a delta or nothing to read.    *)
Poll == pc = "idle" /\ pc' = "polling"
        /\ UNCHANGED <<call, server, control, network, state, delivered, result>>

(* The check at the top of the loop, and a window of the chunk decoded.      *)
Decode ==
    /\ pc = "polling"
    /\ \/ StopsHere
       \/ /\ ~Stopped /\ pc' = "decoded"
          /\ LET window == SubSeq(chunk, 1, IF Len(chunk) < DecodeWindow THEN Len(chunk) ELSE DecodeWindow)
                 given  == Decoded(decoder, window)
             IN  /\ decoded' = given /\ decoder' = given.decoder
                 /\ chunk' = SubSeq(chunk, Len(window) - Len(given.rest) + 1, Len(chunk))
          /\ UNCHANGED <<call, server, control, network, open, buffer, delivered, result>>

(* A delta is yielded; the last one ends the stream, the terminal event      *)
(* closes the response.                                                      *)
Yield ==
    LET delta == decoded.delta[1] IN
    /\ delivered' = Append(delivered, delta)
    /\ IF delta = "done"
       THEN EndsWith(Error("None")) /\ UNCHANGED <<open, chunk>>
       ELSE /\ pc' = "idle" /\ UNCHANGED result
            /\ open' = ~decoder.terminal
            /\ chunk' = IF decoder.terminal THEN <<>> ELSE chunk
    /\ UNCHANGED <<call, server, control, network, decoder, decoded, buffer>>

(* The check after it, and what was decoded.                                 *)
Settle ==
    /\ pc = "decoded"
    /\ \/ StopsHere
       \/ ~Stopped /\ decoded.delta # <<>> /\ Yield
       \/ /\ ~Stopped /\ decoded.error # <<>> /\ EndsWith(Error(decoded.error[1]))
          /\ UNCHANGED <<call, server, control, network, state, delivered>>
       \/ /\ ~Stopped /\ decoded.delta = <<>> /\ decoded.error = <<>>
          /\ CASE chunk # <<>> -> pc' = "polling" /\ UNCHANGED result
               [] chunk = <<>> /\ ~open -> EndsWith(Error("UnknownOutcome"))
               [] OTHER -> pc' = "waiting" /\ UNCHANGED result
          /\ UNCHANGED <<call, server, control, network, state, delivered>>

Receive ==
    /\ pc = "waiting" /\ ~Stopped
    /\ \E n \in 1..Len(unsent) : Arrive(n) /\ chunk' = SubSeq(unsent, 1, n)
    /\ pc' = "polling" /\ UNCHANGED <<buffer, result>>

(* The end of the body, with no terminal event before it.                    *)
ReceiveEnd ==
    /\ pc = "waiting" /\ ~Stopped /\ unsent = <<>>
    /\ EndsWith(Error(IF FinishDecoder(decoder) = <<>> THEN "UnknownOutcome" ELSE FinishDecoder(decoder)[1]))
    /\ UNCHANGED <<call, server, control, network, state, delivered>>

(* The steps that wait for nobody.                                           *)
Moves == /\ pc \in {"start", "render", "rendered", "established", "idle", "polling", "decoded"}
         /\ pc' \in {"render", "rendered", "sending", "idle", "polling", "decoded", "waiting", "ended"}

Next == \/ Cancel \/ Expire \/ Poll \/ Start \/ Render \/ SendRequest \/ Establish \/ Decode \/ Settle
        \/ StopWait \/ FailTransport \/ Answer \/ Buffer \/ Classify \/ Receive \/ ReceiveEnd

(* The executor runs a future that is ready and wakes one whose control      *)
(* stops; the host polls the stream to its end.  Nothing is assumed of the   *)
(* network.                                                                  *)
Spec == Init /\ [][Next]_vars /\ WF_pc(Moves) /\ WF_vars(StopWait)

-----------------------------------------------------------------------------
(* What a body says, however it is cut: the lines, by where they end, and    *)
(* the events, by the blank lines.                                           *)
PairedLineFeed(body, i) == body[i] = "lf" /\ i > 1 /\ body[i - 1] = "cr"

LineEnds(body) == {i \in 1..Len(body) : EndsLine(body[i]) /\ ~PairedLineFeed(body, i)}

(* Where the line that position i is in starts; i is no paired line feed.    *)
LineStart(body, i) ==
    Max({1} \cup {s \in 2..i : EndsLine(body[s - 1])})

RawLine(body, e) == SubSeq(body, LineStart(body, e), e - 1)

LineAt(body, e) ==
    LET raw == RawLine(body, e)
    IN  IF LineStart(body, e) = 1 /\ raw # <<>> /\ raw[1] = "bom" THEN Tail(raw) ELSE raw

EventEnds(body) == {e \in LineEnds(body) : LineAt(body, e) = <<>>}

(* Where the event that position i is in starts.                             *)
EventStart(body, i) == Max({1} \cup {e + 1 : e \in {e \in EventEnds(body) : e < i}})

EventBytes(body, i) == Cardinality({j \in EventStart(body, i)..i : ~PairedLineFeed(body, j)})

(* The lines that give data to the event position i is in, up to there.      *)
GivesData(body, l) ==
    l \in LineEnds(body) /\ LineAt(body, l) # <<>> /\ LineAt(body, l)[1] = "data:"

DataLines(body, i) == {l \in EventStart(body, i)..i : GivesData(body, l)}

(* The data of the event a blank line ends, and the deltas it stands for.    *)
EventData(body, e) ==
    FlattenSeq([l \in 1..e |->
        IF l \notin DataLines(body, e) THEN <<>>
        ELSE (IF \E k \in DataLines(body, e) : k < l THEN <<"nl">> ELSE <<>>)
                 \o WithoutSpace(Tail(LineAt(body, l)))])

Says(body, e) ==
    IF DataLines(body, e) = {} THEN <<>> ELSE DeltasOf([data |-> EventData(body, e)])

TooMuch(body, i) ==
    \/ ~EndsLine(body[i]) /\ i + 1 - LineStart(body, i) > MaxLineBytes
    \/ ~PairedLineFeed(body, i) /\ EventBytes(body, i) > MaxEventBytes
    \/ i > MaxTotalBytes

(* Where a body is unusable.                                                 *)
Wrong(body) ==
    {i \in 1..Len(body) :
        \/ TooMuch(body, i)
        \/ i \in LineEnds(body) /\ ~IsUtf8(RawLine(body, i))
        \/ i \in EventEnds(body) /\ (Says(body, i) = <<"broken">> \/ Len(Says(body, i)) > MaxPendingDeltas)}

Usable(body, e) == e \in EventEnds(body) /\ \A w \in Wrong(body) : e < w

ToDone(deltas) ==
    LET ends == {i \in 1..Len(deltas) : deltas[i] = "done"}
    IN  IF ends = {} THEN deltas ELSE SubSeq(deltas, 1, Min(ends))

DeltasSaid(body) ==
    ToDone(FlattenSeq([i \in 1..Len(body) |-> IF Usable(body, i) THEN Says(body, i) ELSE <<>>]))

EndSaid(body, deltas) ==
    CASE Contains(deltas, "done") -> "None"
      [] ~Contains(deltas, "done") /\ Wrong(body) # {} -> "Undecodable"
      [] OTHER -> IF IsUtf8(SubSeq(body, LineStart(body, Len(body) + 1), Len(body)))
                  THEN "UnknownOutcome" ELSE "Undecodable"

Said ==
    [body \in {response.body : response \in Responses} |->
        [deltas |-> DeltasSaid(body), end |-> EndSaid(body, DeltasSaid(body))]]

(* What may end a call before its answer is read; a request that cannot be   *)
(* rendered is not sent.                                                     *)
Interruptions ==
    (IF wire = "none" THEN {"InvalidRequest"} ELSE {}) \cup (IF cancelled THEN {"Cancelled"} ELSE {}) \cup (IF expired THEN {"TimedOut"} ELSE {})
        \cup (IF wire = "failed" THEN SendFailures ELSE {})

(* However a stream's bytes are cut into chunks and windows, the deltas      *)
(* yielded are those its events stand for, each once and in order; the call  *)
(* ends with its terminal event, with "undecodable" where it breaks a rule   *)
(* or a limit of the wire, and otherwise with an unknown outcome, unless it  *)
(* was stopped or the connection failed; and nothing follows the end.        *)
YieldsWhatWasSent ==
    IsStream =>
        /\ IsPrefix(delivered, Said[server.body].deltas)
        /\ pc = "ended" /\ result[1].kind \notin Interruptions =>
              delivered = Said[server.body].deltas /\ result = <<Error(Said[server.body].end)>>

(* What the whole of a response comes to without streaming.                  *)
InvokeResult ==
    IF Len(server.body) > MaxResponseBytes THEN Error("Undecodable")
    ELSE IF IsUtf8(server.body) THEN FinishResponse(server, server.body)
    ELSE IF IsSuccess(server) THEN Error("Undecodable") ELSE FinishResponse(server, <<>>)

(* A server's refusal is the same error, with the same status, code and      *)
(* delay, whether the call was to stream or not: an answer that is not a     *)
(* stream differs only in that a whole answer is no stream.  And a response  *)
(* that is not a success is never retryable when the server forbids it.      *)
OneClassification ==
    pc = "ended" /\ ~IsStream /\ result[1].kind \notin Interruptions =>
        /\ result = <<IF call = "stream" /\ InvokeResult = Error("None") THEN Error("Undecodable") ELSE InvokeResult>>
        /\ ~IsSuccess(server) /\ server.retry = "false" => result[1].kind # "Transient"

(* A stop ends the call, however silent the server is.                       *)
StoppedStreamEnds == Stopped ~> pc = "ended"
=============================================================================
