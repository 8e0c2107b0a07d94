------------------------- MODULE ProviderStreamProofs -------------------------
(****************************************************************************)
(* For any responses, cut in any way: what a response that is not a stream  *)
(* comes to is what its whole body says, streaming or not; and a stream     *)
(* yields the deltas its body stands for and ends as its body says.         *)
(*                                                                          *)
(* The first part follows a response that is buffered.  The second is about *)
(* data alone: what the parser and the decoder are when they have read a    *)
(* body up to some position, and that a window, wherever it is cut, takes   *)
(* them from one position to another.  The third follows a stream: its      *)
(* decoder is always the one of the position it has read its body up to.    *)
(****************************************************************************)
EXTENDS ProviderStream, SequenceTheorems, FiniteSetTheorems, WellFoundedInduction, TLAPS

Before  == {"start", "render", "rendered"}
Reading == {"established", "idle", "polling", "decoded", "waiting"}

TypeOK ==
    /\ call \in Calls /\ server \in Responses
    /\ cancelled \in BOOLEAN /\ expired \in BOOLEAN
    /\ wire \in {"none", "open", "failed"}
    /\ unsent \in Seq(STRING) /\ buffer \in Seq(STRING)
    /\ pc \in Before \cup {"sending", "buffering"} \cup Reading \cup {"ended"}

(* Where the bytes of a response are: none is lost or repeated before it is  *)
(* classified, and what is buffered is bounded.                              *)
BytesInv ==
    /\ pc \in Before => wire = "none"
    /\ pc \in Before \cup {"sending"} => unsent = server.body /\ buffer = <<>>
    /\ pc = "buffering" =>
           ~IsStream /\ buffer \o unsent = server.body /\ Len(buffer) <= MaxResponseBytes
    /\ pc \in Reading => IsStream

IInv == TypeOK /\ BytesInv /\ OneClassification

(* The length of a response's body, and that its parts are what it says.     *)
LEMMA ServerType ==
    ASSUME NEW r \in Responses
    PROVE  /\ r.body \in Seq(STRING) /\ r.declared \in BOOLEAN /\ r.status \in Nat
           /\ r.retry \in {"none", "true", "false"}
BY ServerAssumption

(* Three sequences, joined from either side.                                 *)
Grouped(u, v, w) == (u \o v) \o w = u \o (v \o w)

LEMMA Grouping ==
    ASSUME NEW V, NEW u \in Seq(V), NEW v \in Seq(V), NEW w \in Seq(V)
    PROVE  Grouped(u, v, w)
BY DEF Grouped

(* Before the call nothing of the body has arrived.                          *)
LEMMA InitInv == Init => IInv
<1> SUFFICES ASSUME Init PROVE IInv
    OBVIOUS
<1>1. /\ call \in Calls /\ server \in Responses /\ pc = "start" /\ wire = "none"
      /\ cancelled = FALSE /\ expired \in BOOLEAN /\ unsent = server.body /\ buffer = <<>>
    BY DEF Init
<1>2. <<>> \in Seq(STRING)
    OBVIOUS
<1>3. TypeOK
    BY <1>1, <1>2, ServerType DEF TypeOK, Before
<1>4. BytesInv
    BY <1>1 DEF BytesInv, Before, Reading
<1>5. OneClassification
    BY <1>1 DEF OneClassification
<1> QED BY <1>3, <1>4, <1>5 DEF IInv

(* Whatever else a step does, it leaves the call and the server alone.       *)
Fixed == call' = call /\ server' = server

(* An end that is one of the interruptions needs no other reason.            *)
LEMMA InterruptedEnd ==
    ASSUME NEW kind, pc' = "ended", result' = <<Error(kind)>>,
           kind \in Interruptions'
    PROVE  OneClassification'
BY DEF OneClassification, Error

(* A call that is not over owes nothing yet.                                 *)
LEMMA NotOver == ASSUME pc' # "ended" PROVE OneClassification'
BY DEF OneClassification

(* A stop ends a call with an interruption, wherever it is seen.             *)
LEMMA StopInv == ASSUME IInv, StopsHere PROVE IInv'
<1>1. /\ Stopped /\ pc' = "ended" /\ result' = <<StopError>>
      /\ UNCHANGED <<call, server, cancelled, expired, wire, unsent, buffer>>
    BY DEF StopsHere, EndsWith, control, network, state
<1>2. TypeOK'
    BY <1>1 DEF IInv, TypeOK
<1>3. BytesInv'
    BY <1>1 DEF BytesInv, Before, Reading
<1>4. OneClassification'
    <2>1. CASE cancelled
        <3>1. "Cancelled" \in Interruptions'
            BY <1>1, <2>1 DEF Interruptions
        <3> QED BY <1>1, <2>1, <3>1, InterruptedEnd DEF StopError
    <2>2. CASE ~cancelled
        <3>1. "TimedOut" \in Interruptions'
            BY <1>1, <2>2 DEF Interruptions, Stopped
        <3> QED BY <1>1, <2>2, <3>1, InterruptedEnd DEF StopError
    <2> QED BY <2>1, <2>2
<1> QED BY <1>2, <1>3, <1>4 DEF IInv

(* A stop that is requested while the call runs says nothing of its answer.  *)
LEMMA ControlInv == ASSUME IInv, Cancel \/ Expire PROVE IInv'
<1>1. /\ pc # "ended" /\ cancelled' \in BOOLEAN /\ expired' \in BOOLEAN
      /\ UNCHANGED <<call, server, wire, unsent, buffer, pc>>
    BY DEF Cancel, Expire, Running, network, state, IInv, TypeOK
<1>2. TypeOK'
    BY <1>1 DEF IInv, TypeOK
<1>3. BytesInv'
    BY <1>1 DEF IInv, BytesInv, IsStream
<1> QED BY <1>1, <1>2, <1>3, NotOver DEF IInv

(* Up to the request: nothing was sent, so a refusal to render is its own    *)
(* reason.                                                                   *)
LEMMA RequestInv == ASSUME IInv, Start \/ Render \/ SendRequest PROVE IInv'
<1>1. CASE StopsHere
    BY <1>1, StopInv
<1>2. CASE ~StopsHere
    <2>1. /\ pc \in Before
          /\ pc' \in Before \cup {"sending"} \/ (pc' = "ended" /\ result' = <<Error("InvalidRequest")>>)
          /\ wire' = IF pc' = "sending" THEN "open" ELSE wire
          /\ UNCHANGED <<call, server, cancelled, expired, unsent, buffer>>
        BY <1>2 DEF Start, Render, SendRequest, EndsWith, Before, control, network, state
    <2>2. wire = "none" /\ unsent = server.body /\ buffer = <<>>
        BY <2>1 DEF IInv, BytesInv
    <2>3. TypeOK'
        BY <2>1 DEF IInv, TypeOK, Before
    <2>4. BytesInv'
        BY <2>1, <2>2 DEF BytesInv, Before, Reading
    <2>5. OneClassification'
        <3>1. CASE pc' = "ended"
            <4>1. wire' = "none" /\ result' = <<Error("InvalidRequest")>>
                BY <2>1, <2>2, <3>1 DEF Before
            <4>2. "InvalidRequest" \in Interruptions'
                BY <4>1 DEF Interruptions
            <4> QED BY <3>1, <4>1, <4>2, InterruptedEnd
        <3> QED BY <3>1, NotOver
    <2> QED BY <2>3, <2>4, <2>5 DEF IInv
<1> QED BY <1>1, <1>2

(* A connection that fails is an interruption.                               *)
LEMMA FailInv == ASSUME IInv, FailTransport PROVE IInv'
<1>1. PICK kind \in SendFailures :
         /\ wire' = "failed" /\ pc' = "ended" /\ result' = <<Error(kind)>>
         /\ UNCHANGED <<call, server, cancelled, expired, unsent, buffer>>
    BY DEF FailTransport, Broken, EndsWith, SendFailures, BodyFailures, control, state
<1>2. TypeOK'
    BY <1>1 DEF IInv, TypeOK
<1>3. BytesInv'
    BY <1>1 DEF BytesInv, Before, Reading
<1>4. kind \in Interruptions'
    BY <1>1 DEF Interruptions
<1> QED BY <1>1, <1>2, <1>3, <1>4, InterruptedEnd DEF IInv

(* A status that is not a success has a kind of its own, and the server's    *)
(* word on retrying is the last.                                             *)
LEMMA StatusErrors ==
    ASSUME NEW response, NEW text, response.retry \in {"none", "true", "false"}
    PROVE  LET error == MapStatusError(response, text) IN
           /\ error.kind \in {"Transient", "InvalidRequest", "Permanent"}
           /\ response.retry = "false" => error.kind # "Transient"
BY DEF MapStatusError, StatusKind

(* So has an error a success reports about itself.                           *)
LEMMA ReportedErrors ==
    ASSUME NEW text, ErrorOf(text) # <<>>
    PROVE  /\ ReportedError(text) # <<>>
           /\ ReportedError(text)[1].kind \in {"Transient", "InvalidRequest", "Permanent"}
<1> DEFINE error == ErrorOf(text)[1]
           known == NamedKind(error.code) \o NamedKind(error.type)
<1>1. \A name : NamedKind(name) \in Seq({"Transient", "InvalidRequest"})
    <2>1. \A name : NamedKind(name) \in {<<"Transient">>, <<"InvalidRequest">>, <<>>}
        BY Zenon DEF NamedKind
    <2>2. {<<"Transient">>, <<"InvalidRequest">>, <<>>} \subseteq Seq({"Transient", "InvalidRequest"})
        OBVIOUS
    <2> QED BY <2>1, <2>2
<1>2. known \in Seq({"Transient", "InvalidRequest"})
    BY <1>1
<1> HIDE DEF known
<1>3. known # <<>> => known[1] \in {"Transient", "InvalidRequest"}
    BY <1>2
<1>4. ProviderKind(error) \in {"Transient", "InvalidRequest", "Permanent"}
    <2>1. ProviderKind(error) = IF known # <<>> THEN known[1] ELSE "Permanent"
        BY Zenon DEF ProviderKind, known
    <2> QED BY <1>3, <2>1
<1> HIDE DEF error
<1> DEFINE reported == [Error(ProviderKind(error)) EXCEPT !.code = CodeOf(error)]
<1>5. ReportedError(text) = <<reported>>
    BY Zenon DEF ReportedError, error
<1>6. reported.kind = ProviderKind(error)
    BY DEF Error
<1> HIDE DEF reported
<1> QED BY <1>4, <1>5, <1>6

(* What a call that streams makes of an answer that is no stream differs     *)
(* from the answer only where that is whole.                                 *)
LEMMA StreamingAnswers ==
    ASSUME NEW text, server \in Responses
    PROVE  StreamError(text) =
               IF FinishResponse(server, text) = Error("None") THEN Error("Undecodable")
               ELSE FinishResponse(server, text)
<1>e. Error("None").kind = "None"
    BY DEF Error
<1>1. CASE ~IsSuccess(server)
    <2>1. MapStatusError(server, text).kind # "None"
        BY StatusErrors, ServerType
    <2>2. StreamError(text) = MapStatusError(server, text)
        BY <1>1, Zenon DEF StreamError
    <2>3. FinishResponse(server, text) = MapStatusError(server, text)
        BY <1>1, Zenon DEF FinishResponse
    <2> QED BY <1>e, <2>1, <2>2, <2>3
<1>2. CASE IsSuccess(server) /\ ErrorOf(text) # <<>>
    <2>1. ReportedError(text) # <<>> /\ ReportedError(text)[1].kind # "None"
        BY <1>2, ReportedErrors
    <2>2. StreamError(text) = ReportedError(text)[1]
        BY <1>2, <2>1, Zenon DEF StreamError
    <2>3. FinishResponse(server, text) = ReportedError(text)[1]
        BY <1>2, Zenon DEF FinishResponse
    <2> QED BY <1>e, <2>1, <2>2, <2>3
<1>3. CASE IsSuccess(server) /\ ErrorOf(text) = <<>>
    <2>1. ReportedError(text) = <<>>
        BY <1>3 DEF ReportedError
    <2> QED BY <1>3, <2>1 DEF StreamError, FinishResponse
<1> QED BY <1>1, <1>2, <1>3

(* An end that is what the whole body says is the end the call promises.     *)
LEMMA AnsweredEnd ==
    ASSUME server \in Responses, Fixed, pc' = "ended",
           result' = <<IF call = "stream" /\ InvokeResult = Error("None")
                       THEN Error("Undecodable") ELSE InvokeResult>>
    PROVE  OneClassification'
<1>1. InvokeResult' = InvokeResult
    BY DEF Fixed, InvokeResult
<1>2. ~IsSuccess(server) /\ server.retry = "false" => InvokeResult.kind # "Transient"
    <2> SUFFICES ASSUME ~IsSuccess(server), server.retry = "false"
                 PROVE  InvokeResult.kind # "Transient"
        OBVIOUS
    <2>1. \A text : FinishResponse(server, text).kind # "Transient"
        BY StatusErrors, ServerType DEF FinishResponse
    <2> QED BY <2>1 DEF InvokeResult, Error
<1>3. ~IsSuccess(server) /\ server.retry = "false" => result'[1].kind # "Transient"
    BY <1>2 DEF Error
<1> QED BY <1>1, <1>3 DEF OneClassification, Fixed

(* The head of an answer decides whether it is read as a stream; one whose   *)
(* declared length is too much is not read at all.                           *)
LEMMA HeadInv == ASSUME IInv, Answer PROVE IInv'
<1>1. /\ pc = "sending" /\ Fixed
      /\ UNCHANGED <<cancelled, expired, wire, unsent, buffer>>
    BY DEF Answer, Fixed, control, network, state
<1>2. unsent = server.body /\ buffer = <<>> /\ server \in Responses
    BY <1>1 DEF IInv, TypeOK, BytesInv
<1>3. CASE IsStream
    <2>1. pc' = "established"
        BY <1>3 DEF Answer
    <2>2. TypeOK'
        BY <1>1, <2>1 DEF IInv, TypeOK, Reading, Fixed
    <2>3. BytesInv'
        BY <1>1, <1>3, <2>1 DEF BytesInv, Before, Reading, IsStream, Fixed
    <2> QED BY <2>1, <2>2, <2>3, NotOver DEF IInv
<1>4. CASE ~IsStream /\ server.declared /\ Len(server.body) > MaxResponseBytes
    <2>1. pc' = "ended" /\ result' = <<Error("Undecodable")>>
        BY <1>4 DEF Answer, EndsWith
    <2>2. InvokeResult = Error("Undecodable")
        BY <1>4 DEF InvokeResult
    <2>3. TypeOK'
        BY <1>1, <2>1 DEF IInv, TypeOK, Fixed
    <2>4. BytesInv'
        BY <2>1 DEF BytesInv, Before, Reading
    <2>5. OneClassification'
        BY <1>1, <1>2, <2>1, <2>2, AnsweredEnd
    <2> QED BY <2>3, <2>4, <2>5 DEF IInv
<1>5. CASE ~IsStream /\ ~(server.declared /\ Len(server.body) > MaxResponseBytes)
    <2>1. pc' = "buffering"
        BY <1>5 DEF Answer
    <2>2. TypeOK'
        BY <1>1, <2>1 DEF IInv, TypeOK, Fixed
    <2>3. buffer \o unsent = server.body /\ Len(buffer) <= MaxResponseBytes
        BY <1>2, ServerType, ResponseAssumption
    <2>4. ~IsStream'
        BY <1>1, <1>5 DEF IsStream, Fixed
    <2>5. BytesInv'
        BY <1>1, <2>1, <2>3, <2>4 DEF BytesInv, Before, Reading, Fixed
    <2> QED BY <2>1, <2>2, <2>5, NotOver DEF IInv
<1> QED BY <1>3, <1>4, <1>5

(* What arrives is moved from one side to the other, up to the limit.        *)
LEMMA BufferInv == ASSUME IInv, Buffer PROVE IInv'
<1>1. PICK n \in 1..Len(unsent) :
         /\ unsent' = SubSeq(unsent, n + 1, Len(unsent))
         /\ IF Len(buffer) + n > MaxResponseBytes
            THEN EndsWith(Error("Undecodable")) /\ UNCHANGED buffer
            ELSE buffer' = buffer \o SubSeq(unsent, 1, n) /\ UNCHANGED <<pc, result>>
    BY DEF Buffer, Arrive
<1>2. /\ pc = "buffering" /\ Fixed
      /\ UNCHANGED <<cancelled, expired, wire>>
    BY <1>1 DEF Buffer, Arrive, Fixed, control
<1>3. /\ unsent \in Seq(STRING) /\ buffer \in Seq(STRING) /\ server \in Responses
      /\ buffer \o unsent = server.body /\ Len(buffer) <= MaxResponseBytes /\ ~IsStream
    BY <1>2 DEF IInv, TypeOK, BytesInv
<1>4. SubSeq(unsent, 1, n) \in Seq(STRING) /\ Len(SubSeq(unsent, 1, n)) = n
    BY <1>3
<1>5. unsent' \in Seq(STRING)
    BY <1>1, <1>3
<1>6. CASE Len(buffer) + n > MaxResponseBytes
    <2>1. pc' = "ended" /\ result' = <<Error("Undecodable")>> /\ buffer' = buffer
        BY <1>1, <1>6 DEF EndsWith
    <2>2. Len(server.body) = Len(buffer) + Len(unsent)
        <3>1. buffer \in Seq(STRING) /\ unsent \in Seq(STRING)
            BY <1>3
        <3>2. Len(buffer \o unsent) = Len(buffer) + Len(unsent)
            BY <3>1
        <3> QED BY <1>3, <3>2
    <2>3. InvokeResult = Error("Undecodable")
        BY <1>3, <1>6, <2>2, ResponseAssumption DEF InvokeResult
    <2>4. TypeOK'
        BY <1>2, <1>5, <2>1 DEF IInv, TypeOK, Fixed
    <2>5. BytesInv'
        BY <2>1 DEF BytesInv, Before, Reading
    <2>6. OneClassification'
        BY <1>2, <1>3, <2>1, <2>3, AnsweredEnd
    <2> QED BY <2>4, <2>5, <2>6 DEF IInv
<1>7. CASE ~(Len(buffer) + n > MaxResponseBytes)
    <2>1. buffer' = buffer \o SubSeq(unsent, 1, n) /\ pc' = "buffering"
        BY <1>1, <1>2, <1>7
    <2>2. buffer' \in Seq(STRING) /\ Len(buffer') = Len(buffer) + n
        BY <1>3, <1>4, <2>1
    <2>3. Len(buffer') <= MaxResponseBytes
        BY <1>3, <1>7, <2>2, ResponseAssumption
    <2>4. buffer' \o unsent' = server.body
        <3>1. SubSeq(unsent, 1, n) \o unsent' = unsent
            BY <1>1, <1>3
        <3>2. (buffer \o SubSeq(unsent, 1, n)) \o unsent' = buffer \o (SubSeq(unsent, 1, n) \o unsent')
            <4> DEFINE part == SubSeq(unsent, 1, n)
            <4>1. buffer \in Seq(STRING) /\ part \in Seq(STRING) /\ unsent' \in Seq(STRING)
                BY <1>3, <1>4, <1>5
            <4> HIDE DEF part
            <4>2. Grouped(buffer, part, unsent')
                BY <4>1, Grouping
            <4> QED BY <4>2, Zenon DEF Grouped, part
        <3> QED BY <1>3, <2>1, <3>1, <3>2
    <2>5. TypeOK'
        BY <1>2, <1>5, <2>1, <2>2 DEF IInv, TypeOK, Fixed
    <2>6. ~IsStream'
        BY <1>2, <1>3 DEF IsStream, Fixed
    <2>7. BytesInv'
        BY <1>2, <2>1, <2>3, <2>4, <2>6 DEF BytesInv, Before, Reading, Fixed
    <2> QED BY <2>1, <2>5, <2>7, NotOver DEF IInv
<1> QED BY <1>6, <1>7

(* The end of the body: what was buffered is the body.                       *)
LEMMA ClassifyInv == ASSUME IInv, Classify PROVE IInv'
<1> DEFINE text == IF IsUtf8(buffer) THEN buffer ELSE <<>>
<1>1. /\ pc = "buffering" /\ unsent = <<>> /\ Fixed /\ pc' = "ended"
      /\ UNCHANGED <<cancelled, expired, wire, unsent, buffer>>
    BY DEF Classify, EndsWith, Fixed, control, network, state
<1>2. result' = <<IF ~IsUtf8(buffer) /\ IsSuccess(server) THEN Error("Undecodable")
                  ELSE IF call = "invoke" THEN FinishResponse(server, text) ELSE StreamError(text)>>
    BY DEF Classify, EndsWith
<1>3. /\ call \in Calls /\ server \in Responses /\ buffer \in Seq(STRING) /\ ~IsStream
      /\ buffer \o unsent = server.body /\ Len(buffer) <= MaxResponseBytes
    BY <1>1 DEF IInv, TypeOK, BytesInv
<1>4. buffer = server.body
    BY <1>1, <1>3
<1>5. InvokeResult = IF ~IsUtf8(buffer) /\ IsSuccess(server) THEN Error("Undecodable")
                     ELSE FinishResponse(server, text)
    <2>1. ~(Len(server.body) > MaxResponseBytes)
        BY <1>3, <1>4, ResponseAssumption
    <2> HIDE DEF text
    <2>2. IsUtf8(buffer) => text = buffer
        BY DEF text
    <2>3. ~IsUtf8(buffer) => text = <<>>
        BY DEF text
    <2> QED BY <1>4, <2>1, <2>2, <2>3 DEF InvokeResult
<1> HIDE DEF text
<1>6. Error("None") # Error("Undecodable")
    BY DEF Error
<1>7. call \in {"stream", "invoke"}
    BY <1>3, CallAssumption
<1>8. result' = <<IF call = "stream" /\ InvokeResult = Error("None")
                  THEN Error("Undecodable") ELSE InvokeResult>>
    BY <1>2, <1>3, <1>5, <1>6, <1>7, StreamingAnswers
<1>9. TypeOK'
    BY <1>1 DEF IInv, TypeOK, Fixed
<1>10. BytesInv'
    BY <1>1 DEF BytesInv, Before, Reading
<1>11. OneClassification'
    BY <1>1, <1>3, <1>8, AnsweredEnd
<1> QED BY <1>9, <1>10, <1>11 DEF IInv

(* While a stream is read, nothing is said of other answers.                 *)
LEMMA ReadInv ==
    ASSUME IInv, Establish \/ Poll \/ Decode \/ Settle \/ Receive \/ ReceiveEnd PROVE IInv'
<1>1. /\ pc \in Reading /\ pc' \in Reading \cup {"ended"} /\ Fixed
      /\ UNCHANGED <<cancelled, expired, wire, buffer>>
    <2>1. CASE Establish
        BY <2>1 DEF Establish, StopsHere, EndsWith, Fixed, Reading, control, network, state
    <2>2. CASE Poll
        BY <2>2 DEF Poll, Fixed, Reading, control, network, state
    <2>3. CASE Decode
        BY <2>3 DEF Decode, StopsHere, EndsWith, Fixed, Reading, control, network, state
    <2>4. CASE Settle
        BY <2>4 DEF Settle, Yield, StopsHere, EndsWith, Fixed, Reading, control, network, state
    <2>5. CASE Receive
        BY <2>5 DEF Receive, Arrive, Fixed, Reading, control
    <2>6. CASE ReceiveEnd
        BY <2>6 DEF ReceiveEnd, EndsWith, Fixed, Reading, control, network, state
    <2> QED BY <2>1, <2>2, <2>3, <2>4, <2>5, <2>6
<1>2. unsent' \in Seq(STRING)
    <2>1. CASE Receive
        <3>1. PICK n \in 1..Len(unsent) : unsent' = SubSeq(unsent, n + 1, Len(unsent))
            BY <2>1 DEF Receive, Arrive
        <3> QED BY <3>1 DEF IInv, TypeOK
    <2>2. CASE ~Receive
        BY <2>2 DEF Establish, Poll, Decode, Settle, Yield, StopsHere, ReceiveEnd, network, IInv, TypeOK
    <2> QED BY <2>1, <2>2
<1>3. IsStream /\ IsStream'
    BY <1>1 DEF IInv, BytesInv, IsStream, Fixed
<1>4. TypeOK'
    BY <1>1, <1>2 DEF IInv, TypeOK, Fixed
<1>5. BytesInv'
    BY <1>1, <1>3 DEF BytesInv, Before, Reading
<1>6. OneClassification'
    BY <1>3 DEF OneClassification
<1> QED BY <1>4, <1>5, <1>6 DEF IInv

(* Every step keeps the invariant.                                           *)
LEMMA NextInv == IInv /\ [Next]_vars => IInv'
<1> SUFFICES ASSUME IInv, [Next]_vars PROVE IInv'
    OBVIOUS
<1>1. CASE Cancel \/ Expire
    BY <1>1, ControlInv
<1>2. CASE Start \/ Render \/ SendRequest
    BY <1>2, RequestInv
<1>3. CASE StopWait
    BY <1>3, StopInv DEF StopWait
<1>4. CASE FailTransport
    BY <1>4, FailInv
<1>5. CASE Answer
    BY <1>5, HeadInv
<1>6. CASE Buffer
    BY <1>6, BufferInv
<1>7. CASE Classify
    BY <1>7, ClassifyInv
<1>8. CASE Establish \/ Poll \/ Decode \/ Settle \/ Receive \/ ReceiveEnd
    BY <1>8, ReadInv
<1>9. CASE UNCHANGED vars
    <2>1. UNCHANGED <<call, server, cancelled, expired, wire, unsent, buffer, pc, result>>
        BY <1>9 DEF vars, control, network, state
    <2>2. TypeOK'
        BY <2>1 DEF IInv, TypeOK
    <2>3. BytesInv'
        BY <2>1 DEF IInv, BytesInv, IsStream
    <2>4. OneClassification'
        BY <2>1 DEF IInv, OneClassification, IsStream, Interruptions, InvokeResult
    <2> QED BY <2>2, <2>3, <2>4 DEF IInv
<1> QED BY <1>1, <1>2, <1>3, <1>4, <1>5, <1>6, <1>7, <1>8, <1>9 DEF Next

(* The bytes of a response that is buffered are accounted for and bounded    *)
(* until it is classified (read_bounded).                                    *)
THEOREM Invariant == Spec => []IInv
BY InitInv, NextInv, PTL DEF Spec

(* A response that is not a stream comes to the same end for a call that     *)
(* streams and one that does not (establish_stream, finish_response).        *)
THEOREM SameEnd == Spec => []OneClassification
<1>1. IInv => OneClassification
    BY DEF IInv
<1> QED BY <1>1, Invariant, PTL

-----------------------------------------------------------------------------
(* Numbers, chains and the flattening of sequences.                          *)

(* The least number of a set of numbers.                                     *)
LEMMA LeastElement ==
    ASSUME NEW S \in SUBSET Nat, S # {}
    PROVE  \E m \in S : \A k \in S : m <= k
<1> DEFINE R == OpToRel(<, Nat)
<1>1. IsWellFoundedOn(R, Nat)
    BY NatLessThanWellFounded
<1>2. \A x, y \in Nat : <<x, y>> \in R <=> x < y
    BY DEF OpToRel
<1> HIDE DEF R
<1>3. PICK m \in S : \A k \in S : ~(<<k, m>> \in R)
    BY <1>1, WFMin
<1>4. \A k \in S : ~(k < m)
    BY <1>2, <1>3
<1> QED BY <1>4

(* What holds of zero and of each number after one it holds of.              *)
LEMMA Upward ==
    ASSUME NEW n \in Nat, NEW S, 0 \in S, \A k \in 1..n : k - 1 \in S => k \in S
    PROVE  \A k \in 0..n : k \in S
<1> DEFINE Missing == {k \in 0..n : k \notin S}
<1> SUFFICES ASSUME Missing # {} PROVE FALSE
    OBVIOUS
<1>1. Missing \in SUBSET Nat
    OBVIOUS
<1>2. PICK m \in Missing : \A k \in Missing : m <= k
    BY <1>1, LeastElement
<1>3. m \in 1..n /\ m - 1 \in 0..n
    BY <1>2
<1>4. m - 1 \in S
    BY <1>2, <1>3
<1> QED BY <1>2, <1>3, <1>4

(* The greatest of some numbers up to n.                                     *)
LEMMA MaxIn ==
    ASSUME NEW n \in Nat, NEW s \in SUBSET (1..n), s # {}
    PROVE  Max(s) \in s /\ \A y \in s : Max(s) >= y
<1> DEFINE Below == {n - x : x \in s}
<1>1. Below \in SUBSET Nat /\ Below # {}
    <2>1. \A x \in s : n - x \in Nat
        OBVIOUS
    <2>2. PICK x \in s : TRUE
        OBVIOUS
    <2>3. n - x \in Below
        OBVIOUS
    <2> QED BY <2>1, <2>3
<1>2. PICK b \in Below : \A k \in Below : b <= k
    BY <1>1, LeastElement
<1>3. PICK x \in s : b = n - x
    BY <1>2
<1>4. \A y \in s : n - x <= n - y
    BY <1>2, <1>3
<1>5. \A y \in s : x >= y
    BY <1>4
<1> QED BY <1>5, Zenon DEF Max

(* A chain: each link is what a step makes of the one before.                *)
IsChain(f, T, base, n, step) ==
    /\ f \in [0..n -> T]
    /\ f[0] = base
    /\ \A k \in 1..n : f[k] = step[k][f[k - 1]]

(* There is one, if the steps stay in the set T.                             *)
LEMMA ChainExists ==
    ASSUME NEW T, NEW base \in T, NEW n \in Nat, NEW step \in [1..n -> [T -> T]]
    PROVE  \E f : IsChain(f, T, base, n, step)
<1> DEFINE Chain(f, m) == IsChain(f, T, base, m, step)
           S == {m \in 0..n : \E f : Chain(f, m)}
<1>1. 0 \in S
    <2> DEFINE f == [k \in 0..0 |-> base]
    <2>1. f \in [0..0 -> T] /\ f[0] = base /\ 1..0 = {}
        OBVIOUS
    <2> HIDE DEF f
    <2>2. Chain(f, 0)
        BY <2>1 DEF IsChain
    <2> HIDE DEF Chain
    <2> QED BY <2>2
<1>2. ASSUME NEW m \in 1..n, m - 1 \in S PROVE m \in S
    <2>1. PICK f : Chain(f, m - 1)
        BY <1>2
    <2> DEFINE h == [k \in 0..m |-> IF k = m THEN step[m][f[m - 1]] ELSE f[k]]
    <2>2. f \in [0..(m - 1) -> T] /\ f[0] = base /\ \A k \in 1..(m - 1) : f[k] = step[k][f[k - 1]]
        BY <2>1 DEF IsChain
    <2>3. h \in [0..m -> T]
        BY <2>2
    <2>4. h[0] = base
        BY <2>2
    <2>5. \A k \in 1..m : h[k] = step[k][h[k - 1]]
        BY <2>2
    <2> HIDE DEF h
    <2>6. Chain(h, m)
        BY <2>3, <2>4, <2>5 DEF IsChain
    <2> HIDE DEF Chain
    <2> QED BY <2>6
<1>3. \A k \in 0..n : k \in S
    <2> HIDE DEF S
    <2> QED BY <1>1, <1>2, Upward
<1>4. n \in S
    <2> HIDE DEF S
    <2> QED BY <1>3
<1> QED BY <1>4

-----------------------------------------------------------------------------
(* Flattening the first pieces of a sequence.                                *)
Joined(F, p) == FlattenSeq([l \in 1..p |-> F[l]])

(* Flattening is a chain, whatever number of pieces is taken.                *)
LEMMA JoinedChain ==
    ASSUME NEW V, NEW n \in Nat, NEW F \in [1..n -> Seq(V)]
    PROVE  /\ Joined(F, 0) = <<>>
           /\ \A p \in 1..n : Joined(F, p) = Joined(F, p - 1) \o F[p]
           /\ \A p \in 0..n : Joined(F, p) \in Seq(V)
<1> DEFINE T == Seq(V)
           step == [i \in 1..n |-> [t \in T |-> t \o F[i]]]
<1>e. <<>> \in T
    OBVIOUS
<1>0. PICK m : IsChain(m, T, <<>>, n, step)
    <2>1. step \in [1..n -> [T -> T]]
        OBVIOUS
    <2> HIDE DEF step, T
    <2> QED BY <1>e, <2>1, ChainExists
<1>1. /\ m[0] = <<>> /\ \A k \in 0..n : m[k] \in T
      /\ \A k \in 1..n : m[k] = m[k - 1] \o F[k]
    <2>1. m \in [0..n -> T] /\ m[0] = <<>> /\ \A k \in 1..n : m[k] = step[k][m[k - 1]]
        <3> HIDE DEF step, T
        <3> QED BY <1>0 DEF IsChain
    <2>2. \A k \in 1..n : m[k - 1] \in T
        BY <2>1
    <2>3. \A k \in 1..n, t \in T : step[k][t] = t \o F[k]
        OBVIOUS
    <2> HIDE DEF step, T
    <2> QED BY <2>1, <2>2, <2>3
<1>2. ASSUME NEW p \in 0..n PROVE Joined(F, p) = m[p]
    <2> DEFINE pieces == [l \in 1..p |-> F[l]]
               IsFlat(f) == f = [i \in 1..Len(pieces) |-> IF i = 1 THEN pieces[i] ELSE f[i - 1] \o pieces[i]]
               flat == CHOOSE f : IsFlat(f)
    <2>0. \A i \in 1..p : i \in 1..n
        OBVIOUS
    <2>1. Len(pieces) = p /\ \A i \in 1..p : pieces[i] = F[i]
        <3>1. pieces \in [1..p -> Seq(V)]
            OBVIOUS
        <3> QED BY <3>1
    <2>2. CASE p = 0
        <3>1. pieces = <<>>
            BY <2>2
        <3>2. FlattenSeq(pieces) = pieces
            BY <2>1, <2>2, Zenon DEF FlattenSeq
        <3> QED BY <1>1, <2>2, <3>1, <3>2 DEF Joined
    <2>3. CASE p # 0
        <3>1. FlattenSeq(pieces) = flat[Len(pieces)]
            <4>1. Len(pieces) # 0
                BY <2>1, <2>3
            <4> QED BY <4>1, Zenon DEF FlattenSeq
        <3> HIDE DEF pieces
        <3>2. \E f : IsFlat(f)
            <4> DEFINE e == [i \in 1..p |-> m[i]]
            <4>1. \A i \in 1..p : e[i] = IF i = 1 THEN pieces[i] ELSE e[i - 1] \o pieces[i]
                <5>1. \A i \in 1..p : m[i] = m[i - 1] \o F[i]
                    BY <1>1, <2>0, Zenon
                <5>2. 1 \in 1..n /\ F[1] \in Seq(V)
                    BY <2>3
                <5>3. <<>> \o F[1] = F[1]
                    BY <5>2, ConcatEmptySeq
                <5>4. m[1] = F[1]
                    <6>1. m[1] = m[1 - 1] \o F[1]
                        BY <1>1, <5>2, Zenon
                    <6>2. 1 - 1 = 0
                        OBVIOUS
                    <6> QED BY <1>1, <5>3, <6>1, <6>2, Zenon
                <5>5. \A i \in 1..p : i # 1 => i - 1 \in 1..p
                    OBVIOUS
                <5> QED BY <2>1, <5>1, <5>4, <5>5
            <4>2. e = [i \in 1..p |-> e[i]]
                OBVIOUS
            <4> HIDE DEF e
            <4>3. IsFlat(e)
                BY <2>1, <4>1, <4>2
            <4> QED BY <4>3
        <3>3. IsFlat(flat)
            BY <3>2, Zenon
        <3> HIDE DEF flat
        <3>4. \A i \in 1..p : flat[i] = IF i = 1 THEN pieces[i] ELSE flat[i - 1] \o pieces[i]
            BY <2>1, <3>3
        <3> DEFINE S == {k \in 0..p : k # 0 => flat[k] = m[k]}
        <3>5. 0 \in S
            OBVIOUS
        <3>6. ASSUME NEW k \in 1..p, k - 1 \in S PROVE k \in S
            <4>0. k \in 1..n
                BY <2>0
            <4>1. m[k] = m[k - 1] \o F[k] /\ F[k] \in Seq(V)
                BY <1>1, <4>0, Zenon
            <4>2. CASE k = 1
                <5>0. k - 1 = 0
                    BY <4>2
                <5>1. m[k] = <<>> \o F[k]
                    BY <1>1, <4>1, <5>0, Zenon
                <5>2. <<>> \o F[k] = F[k]
                    BY <4>1, ConcatEmptySeq
                <5>3. flat[k] = F[k]
                    BY <2>1, <3>4, <4>2, Zenon
                <5> QED BY <5>1, <5>2, <5>3
            <4>3. CASE k # 1
                <5>1. flat[k] = flat[k - 1] \o F[k]
                    <6>1. flat[k] = flat[k - 1] \o pieces[k] /\ pieces[k] = F[k]
                        BY <2>1, <3>4, <4>3, Zenon
                    <6> QED BY <6>1, Zenon
                <5>2. k - 1 # 0 /\ flat[k - 1] = m[k - 1]
                    BY <3>6, <4>3
                <5>3. flat[k] = m[k]
                    BY <4>1, <5>1, <5>2, Zenon
                <5> QED BY <5>3
            <4> QED BY <4>2, <4>3
        <3>7. p \in S
            <4>1. p \in Nat
                OBVIOUS
            <4> HIDE DEF S
            <4>2. \A k \in 0..p : k \in S
                BY <3>5, <3>6, <4>1, Upward
            <4> QED BY <4>1, <4>2
        <3> QED BY <2>1, <2>3, <3>1, <3>7 DEF Joined, pieces
    <2> QED BY <2>2, <2>3
<1> HIDE DEF step
<1>3. 0 \in 0..n /\ \A p \in 1..n : p \in 0..n /\ p - 1 \in 0..n
    OBVIOUS
<1>4. \A p \in 1..n : Joined(F, p) = m[p] /\ Joined(F, p - 1) = m[p - 1]
    BY <1>2, <1>3
<1> QED BY <1>1, <1>2, <1>3, <1>4

(* Joining further pieces of the n changes nothing where they are empty.     *)
Skips(F, n) ==
    \A p \in 0..n : \A q \in p..n :
        (\A l \in (p + 1)..q : F[l] = <<>>) => Joined(F, q) = Joined(F, p)

(* Pieces that are empty add nothing.                                        *)
LEMMA JoinedSkip ==
    ASSUME NEW V, NEW n \in Nat, NEW F \in [1..n -> Seq(V)]
    PROVE  Skips(F, n)
<1> SUFFICES ASSUME NEW p \in 0..n, NEW q \in p..n, \A l \in (p + 1)..q : F[l] = <<>>
             PROVE  Joined(F, q) = Joined(F, p)
    BY DEF Skips
<1> DEFINE S == {d \in 0..(q - p) : Joined(F, p + d) = Joined(F, p)}
<1>0. /\ \A i \in 1..n : Joined(F, i) = Joined(F, i - 1) \o F[i]
      /\ \A i \in 0..n : Joined(F, i) \in Seq(V)
    BY JoinedChain
<1>1. 0 \in S
    OBVIOUS
<1>2. ASSUME NEW d \in 1..(q - p), d - 1 \in S PROVE d \in S
    <2>1. p + d \in 1..n /\ p + d \in (p + 1)..q /\ (p + d) - 1 = p + (d - 1)
        OBVIOUS
    <2>2. Joined(F, p + d) = Joined(F, p + (d - 1)) \o F[p + d]
        BY <1>0, <2>1, Zenon
    <2>3. F[p + d] = <<>> /\ Joined(F, p + (d - 1)) = Joined(F, p)
        BY <1>2, <2>1
    <2>4. Joined(F, p) \in Seq(V)
        BY <1>0
    <2>5. Joined(F, p) \o <<>> = Joined(F, p)
        BY <2>4, ConcatEmptySeq
    <2> QED BY <2>2, <2>3, <2>5
<1>3. \A d \in 0..(q - p) : d \in S
    <2>1. q - p \in Nat
        OBVIOUS
    <2> HIDE DEF S
    <2> QED BY <1>1, <1>2, <2>1, Upward
<1>4. q - p \in S /\ p + (q - p) = q
    <2> HIDE DEF S
    <2> QED BY <1>3
<1> QED BY <1>4

-----------------------------------------------------------------------------
(* The positions of a body: where lines and events start and what they hold. *)

(* The bytes of the event that the position after p is in, up to p.          *)
Bytes(b, p) == Cardinality({j \in EventStart(b, p + 1)..p : ~PairedLineFeed(b, j)})

(* No line ends after p, up to q.                                            *)
Plain(b, p, q) == \A i \in (p + 1)..q : ~EndsLine(b[i])

(* The line after an end of a line starts there; another byte goes on with   *)
(* the line it is in.                                                        *)
LEMMA LineStarts ==
    ASSUME NEW b \in Seq(STRING), NEW p \in 0..Len(b)
    PROVE  /\ LineStart(b, p + 1) \in 1..(p + 1)
           /\ p # 0 /\ EndsLine(b[p]) => LineStart(b, p + 1) = p + 1
           /\ \A q \in p..Len(b) : Plain(b, p, q) => LineStart(b, q + 1) = LineStart(b, p + 1)
<1> DEFINE A(i) == {1} \cup {s \in 2..i : EndsLine(b[s - 1])}
<1>0. Len(b) \in Nat
    OBVIOUS
<1> DEFINE n == Len(b)
<1> HIDE DEF n
<1>1. \A i : LineStart(b, i) = Max(A(i))
    BY DEF LineStart
<1>2. A(p + 1) \in SUBSET (1..(p + 1)) /\ A(p + 1) # {}
    BY <1>0
<1>3. Max(A(p + 1)) \in A(p + 1) /\ \A y \in A(p + 1) : Max(A(p + 1)) >= y
    <2> HIDE DEF A
    <2>1. p + 1 \in Nat
        BY <1>0
    <2> QED BY <1>2, <2>1, MaxIn
<1>4. p # 0 /\ EndsLine(b[p]) => p + 1 \in A(p + 1)
    BY <1>0
<1>5. p # 0 /\ EndsLine(b[p]) => Max(A(p + 1)) = p + 1
    <2> HIDE DEF A
    <2>1. Max(A(p + 1)) \in 1..(p + 1)
        BY <1>2, <1>3
    <2> QED BY <1>0, <1>3, <1>4, <2>1
<1>6. ASSUME NEW q \in p..Len(b), Plain(b, p, q) PROVE A(q + 1) = A(p + 1)
    <2>1. \A s \in 2..(q + 1) : EndsLine(b[s - 1]) => s \in 2..(p + 1)
        <3> SUFFICES ASSUME NEW s \in 2..(q + 1), s \notin 2..(p + 1) PROVE ~EndsLine(b[s - 1])
            OBVIOUS
        <3>1. s - 1 \in (p + 1)..q
            BY <1>0
        <3> QED BY <1>6, <3>1 DEF Plain
    <2>2. \A s \in 2..(p + 1) : s \in 2..(q + 1)
        BY <1>0
    <2> QED BY <2>1, <2>2
<1> HIDE DEF A
<1>7. Max(A(p + 1)) \in 1..(p + 1)
    BY <1>2, <1>3
<1> QED BY <1>1, <1>5, <1>6, <1>7

(* So with the events, which end where a line ends.                          *)
LEMMA EventStarts ==
    ASSUME NEW b \in Seq(STRING), NEW p \in 0..Len(b)
    PROVE  /\ EventStart(b, p + 1) \in 1..(p + 1)
           /\ p \in EventEnds(b) => EventStart(b, p + 1) = p + 1
           /\ \A q \in p..Len(b) : (\A i \in (p + 1)..q : i \notin EventEnds(b))
                  => EventStart(b, q + 1) = EventStart(b, p + 1)
<1> DEFINE A(i) == {1} \cup {e + 1 : e \in {e \in EventEnds(b) : e < i}}
<1>0. Len(b) \in Nat /\ EventEnds(b) \subseteq 1..Len(b)
    BY DEF EventEnds, LineEnds
<1>1. \A i : EventStart(b, i) = Max(A(i))
    BY DEF EventStart
<1>2. A(p + 1) \in SUBSET (1..(p + 1)) /\ A(p + 1) # {}
    BY <1>0
<1>3. Max(A(p + 1)) \in A(p + 1) /\ \A y \in A(p + 1) : Max(A(p + 1)) >= y
    <2> HIDE DEF A
    <2>1. p + 1 \in Nat
        BY <1>0
    <2> QED BY <1>2, <2>1, MaxIn
<1>4. p \in EventEnds(b) => p + 1 \in A(p + 1)
    BY <1>0
<1>5. p \in EventEnds(b) => Max(A(p + 1)) = p + 1
    <2> HIDE DEF A
    <2>1. Max(A(p + 1)) \in 1..(p + 1)
        BY <1>2, <1>3
    <2> QED BY <1>0, <1>3, <1>4, <2>1
<1>6. ASSUME NEW q \in p..Len(b), \A i \in (p + 1)..q : i \notin EventEnds(b)
      PROVE  A(q + 1) = A(p + 1)
    <2>1. \A e \in EventEnds(b) : e < q + 1 <=> e < p + 1
        <3> SUFFICES ASSUME NEW e \in EventEnds(b) PROVE e < q + 1 <=> e < p + 1
            OBVIOUS
        <3>1. e \in 1..Len(b) /\ e \notin (p + 1)..q
            BY <1>0, <1>6
        <3> QED BY <1>0, <3>1
    <2> QED BY <2>1
<1> HIDE DEF A
<1>7. Max(A(p + 1)) \in 1..(p + 1)
    BY <1>2, <1>3
<1> QED BY <1>1, <1>5, <1>6, <1>7

(* The bytes of an event are counted one by one, the line feed of a pair not *)
(* at all.                                                                   *)
LEMMA BytesCounted ==
    ASSUME NEW b \in Seq(STRING), NEW p \in 0..Len(b)
    PROVE  /\ Bytes(b, p) \in Nat
           /\ p \in EventEnds(b) => Bytes(b, p) = 0
           /\ \A q \in p..Len(b) : (\A i \in (p + 1)..q : i \notin EventEnds(b) /\ ~PairedLineFeed(b, i))
                  => Bytes(b, q) = Bytes(b, p) + (q - p)
           /\ p + 1 <= Len(b) =>
                  EventBytes(b, p + 1) = Bytes(b, p) + IF PairedLineFeed(b, p + 1) THEN 0 ELSE 1
<1> DEFINE s == EventStart(b, p + 1)
           U(t, q) == {j \in t..q : ~PairedLineFeed(b, j)}
<1>0. Len(b) \in Nat /\ s \in 1..(p + 1) /\ (p \in EventEnds(b) => s = p + 1)
    BY EventStarts
<1>1. \A q : Bytes(b, q) = Cardinality(U(EventStart(b, q + 1), q))
    BY DEF Bytes
<1>2. \A q : EventBytes(b, q) = Cardinality(U(EventStart(b, q), q))
    BY DEF EventBytes
<1> HIDE DEF s
<1>3. \A t \in Nat, q \in Nat : IsFiniteSet(U(t, q)) /\ Cardinality(U(t, q)) \in Nat
    <2> SUFFICES ASSUME NEW t \in Nat, NEW q \in Nat
                 PROVE  IsFiniteSet(U(t, q)) /\ Cardinality(U(t, q)) \in Nat
        OBVIOUS
    <2>1. IsFiniteSet(t..q) /\ U(t, q) \in SUBSET (t..q)
        BY FS_Interval
    <2>2. IsFiniteSet(U(t, q))
        <3> HIDE DEF U
        <3> QED BY <2>1, FS_Subset
    <2> HIDE DEF U
    <2> QED BY <2>2, FS_CardinalityType
<1>4. ASSUME NEW q \in p..Len(b), \A i \in (p + 1)..q : ~PairedLineFeed(b, i)
      PROVE  Cardinality(U(s, q)) = Cardinality(U(s, p)) + (q - p)
    <2>1. U(s, q) = U(s, p) \cup ((p + 1)..q)
        BY <1>0, <1>4
    <2>2. U(s, p) \cap ((p + 1)..q) = {}
        BY <1>0
    <2>3. IsFiniteSet((p + 1)..q) /\ Cardinality((p + 1)..q) = q - p
        <3>1. p + 1 \in Int /\ q \in Int
            BY <1>0
        <3>2. IsFiniteSet((p + 1)..q) /\ Cardinality((p + 1)..q) = IF p + 1 > q THEN 0 ELSE q - (p + 1) + 1
            BY <3>1, FS_Interval
        <3> QED BY <1>0, <3>2
    <2> HIDE DEF U
    <2>4. IsFiniteSet(U(s, p)) /\ Cardinality(U(s, p)) \in Nat
        <3>1. s \in Nat /\ p \in Nat
            BY <1>0
        <3> QED BY <1>3, <3>1
    <2>5. Cardinality(U(s, p) \cup ((p + 1)..q)) =
              Cardinality(U(s, p)) + Cardinality((p + 1)..q) - Cardinality(U(s, p) \cap ((p + 1)..q))
        BY <2>3, <2>4, FS_Union
    <2>6. Cardinality(U(s, p) \cap ((p + 1)..q)) = 0
        BY <2>2, FS_EmptySet
    <2> QED BY <1>0, <2>1, <2>3, <2>4, <2>5, <2>6
<1>5. Bytes(b, p) = Cardinality(U(s, p)) /\ Bytes(b, p) \in Nat
    <2>1. Bytes(b, p) = Cardinality(U(s, p))
        BY <1>1 DEF s
    <2>2. s \in Nat /\ p \in Nat
        BY <1>0
    <2> HIDE DEF U
    <2> QED BY <1>3, <2>1, <2>2
<1>6. p \in EventEnds(b) => Bytes(b, p) = 0
    <2> SUFFICES ASSUME p \in EventEnds(b) PROVE Bytes(b, p) = 0
        OBVIOUS
    <2>1. U(s, p) = {}
        BY <1>0
    <2> HIDE DEF U
    <2> QED BY <1>5, <2>1, FS_EmptySet
<1>7. ASSUME NEW q \in p..Len(b), \A i \in (p + 1)..q : i \notin EventEnds(b) /\ ~PairedLineFeed(b, i)
      PROVE  Bytes(b, q) = Bytes(b, p) + (q - p)
    <2>1. EventStart(b, q + 1) = s
        BY <1>7, EventStarts DEF s
    <2>2. Cardinality(U(s, q)) = Cardinality(U(s, p)) + (q - p)
        BY <1>4, <1>7
    <2> HIDE DEF U
    <2> QED BY <1>1, <1>5, <2>1, <2>2
<1>8. ASSUME p + 1 <= Len(b)
      PROVE  EventBytes(b, p + 1) = Bytes(b, p) + IF PairedLineFeed(b, p + 1) THEN 0 ELSE 1
    <2>0. EventBytes(b, p + 1) = Cardinality(U(s, p + 1))
        BY <1>2 DEF s
    <2>1. CASE PairedLineFeed(b, p + 1)
        <3>1. U(s, p + 1) = U(s, p)
            BY <1>0, <2>1
        <3> HIDE DEF U
        <3> QED BY <1>5, <2>0, <2>1, <3>1
    <2>2. CASE ~PairedLineFeed(b, p + 1)
        <3>1. p + 1 \in p..Len(b) /\ \A i \in (p + 1)..(p + 1) : ~PairedLineFeed(b, i)
            BY <1>0, <1>8, <2>2
        <3>2. Cardinality(U(s, p + 1)) = Cardinality(U(s, p)) + ((p + 1) - p)
            <4> HIDE DEF U
            <4> QED BY <1>4, <3>1
        <3> HIDE DEF U
        <3> QED BY <1>0, <1>5, <2>0, <2>2, <3>2
    <2> QED BY <2>1, <2>2
<1> QED BY <1>5, <1>6, <1>7, <1>8

(* What the data of an event is made of.                                     *)
Byte == STRING \cup {"nl"}

(* What a line gives to the data of the event that starts at s.              *)
Value(b, l) == WithoutSpace(Tail(LineAt(b, l)))

HasData(b, s, p) == \E k \in s..p : GivesData(b, k)

Piece(b, s, l) ==
    IF l >= s /\ GivesData(b, l)
    THEN (IF HasData(b, s, l - 1) THEN <<"nl">> ELSE <<>>) \o Value(b, l) ELSE <<>>

Pieces(b, s) == [l \in 1..Len(b) |-> Piece(b, s, l)]

(* The data of that event, as far as its lines up to p give it.              *)
DataUpTo(b, s, p) == Joined(Pieces(b, s), p)

(* A line is a part of the body.                                             *)
LEMMA LineType ==
    ASSUME NEW b \in Seq(STRING), NEW e \in LineEnds(b)
    PROVE  /\ e \in 1..Len(b) /\ RawLine(b, e) \in Seq(STRING) /\ LineAt(b, e) \in Seq(STRING)
           /\ GivesData(b, e) => Value(b, e) \in Seq(STRING)
<1>1. e \in 1..Len(b) /\ e - 1 \in 0..Len(b)
    BY DEF LineEnds
<1>2. LineStart(b, (e - 1) + 1) \in 1..((e - 1) + 1)
    BY <1>1, LineStarts
<1>3. RawLine(b, e) \in Seq(STRING)
    <2>1. LineStart(b, e) \in 1..Len(b) + 1 /\ e - 1 \in 0..Len(b)
        BY <1>1, <1>2
    <2>2. SubSeq(b, LineStart(b, e), e - 1) \in Seq(STRING)
        BY <2>1
    <2> QED BY <2>2 DEF RawLine
<1>4. \A line \in Seq(STRING) : line # <<>> => Tail(line) \in Seq(STRING)
    OBVIOUS
<1>5. LineAt(b, e) \in Seq(STRING)
    BY <1>3, <1>4 DEF LineAt
<1>6. GivesData(b, e) => Value(b, e) \in Seq(STRING)
    BY <1>4, <1>5 DEF GivesData, Value, WithoutSpace
<1> QED BY <1>1, <1>3, <1>5, <1>6

(* So the pieces are sequences of bytes, and the data is what they make.     *)
LEMMA DataSteps ==
    ASSUME NEW b \in Seq(STRING), NEW s \in Nat
    PROVE  /\ DataUpTo(b, s, 0) = <<>>
           /\ \A p \in 1..Len(b) : DataUpTo(b, s, p) = DataUpTo(b, s, p - 1) \o Piece(b, s, p)
           /\ \A p \in 0..Len(b) : DataUpTo(b, s, p) \in Seq(Byte)
           /\ \A p \in 0..Len(b), q \in 0..Len(b) :
                 p <= q /\ (\A l \in (p + 1)..q : Piece(b, s, l) = <<>>)
                     => DataUpTo(b, s, q) = DataUpTo(b, s, p)
<1>1. Len(b) \in Nat
    OBVIOUS
<1>2. \A l \in 1..Len(b) : Piece(b, s, l) \in Seq(Byte)
    <2> SUFFICES ASSUME NEW l \in 1..Len(b) PROVE Piece(b, s, l) \in Seq(Byte)
        OBVIOUS
    <2>e. <<>> \in Seq(Byte)
        OBVIOUS
    <2>n. <<"nl">> \in Seq(Byte)
        <3>1. "nl" \in Byte
            BY DEF Byte
        <3>2. \A x \in Byte : <<x>> \in Seq(Byte)
            OBVIOUS
        <3> QED BY <3>1, <3>2
    <2>1. <<>> \in Seq(Byte) /\ <<"nl">> \in Seq(Byte)
        BY <2>e, <2>n
    <2>2. CASE GivesData(b, l)
        <3>1. Value(b, l) \in Seq(Byte)
            <4>1. Value(b, l) \in Seq(STRING)
                BY <2>2, LineType DEF GivesData
            <4>2. Seq(STRING) \subseteq Seq(Byte)
                BY SeqMonotonic DEF Byte
            <4> QED BY <4>1, <4>2
        <3>2. (IF HasData(b, s, l - 1) THEN <<"nl">> ELSE <<>>) \in Seq(Byte)
            BY <2>1
        <3>3. (IF HasData(b, s, l - 1) THEN <<"nl">> ELSE <<>>) \o Value(b, l) \in Seq(Byte)
            BY <3>1, <3>2, ConcatProperties
        <3> QED BY <2>1, <3>3, Zenon DEF Piece
    <2>3. CASE ~GivesData(b, l)
        BY <2>1, <2>3, Zenon DEF Piece
    <2> QED BY <2>2, <2>3
<1>3. Pieces(b, s) \in [1..Len(b) -> Seq(Byte)] /\ \A l \in 1..Len(b) : Pieces(b, s)[l] = Piece(b, s, l)
    BY <1>2 DEF Pieces
<1>4. \A p \in 0..Len(b), q \in 0..Len(b) :
          p <= q /\ (\A l \in (p + 1)..q : Piece(b, s, l) = <<>>) => DataUpTo(b, s, q) = DataUpTo(b, s, p)
    <2> SUFFICES ASSUME NEW p \in 0..Len(b), NEW q \in 0..Len(b), p <= q,
                        \A l \in (p + 1)..q : Piece(b, s, l) = <<>>
                 PROVE  Joined(Pieces(b, s), q) = Joined(Pieces(b, s), p)
        BY DEF DataUpTo
    <2>1. \A l \in (p + 1)..q : l \in 1..Len(b)
        BY <1>1
    <2>2. q \in p..Len(b) /\ \A l \in (p + 1)..q : Pieces(b, s)[l] = <<>>
        BY <1>3, <2>1
    <2> DEFINE F == Pieces(b, s)
    <2>3. F \in [1..Len(b) -> Seq(Byte)] /\ \A l \in (p + 1)..q : F[l] = <<>>
        BY <1>3, <2>2
    <2> HIDE DEF F
    <2>4. Joined(F, q) = Joined(F, p)
        <3> DEFINE n == Len(b)
        <3>1. n \in Nat /\ F \in [1..n -> Seq(Byte)] /\ p \in 0..n /\ q \in p..n
            BY <1>1, <2>2, <2>3
        <3> HIDE DEF n
        <3>2. Skips(F, n)
            BY <3>1, JoinedSkip
        <3>3. \A j \in p..n : (\A l \in (p + 1)..j : F[l] = <<>>) => Joined(F, j) = Joined(F, p)
            BY <3>1, <3>2, Zenon DEF Skips
        <3>4. (\A l \in (p + 1)..q : F[l] = <<>>) => Joined(F, q) = Joined(F, p)
            BY <3>1, <3>3, Zenon
        <3> QED BY <2>3, <3>4, Zenon
    <2> QED BY <2>4 DEF F
<1>5. /\ Joined(Pieces(b, s), 0) = <<>>
      /\ \A p \in 1..Len(b) : Joined(Pieces(b, s), p) = Joined(Pieces(b, s), p - 1) \o Pieces(b, s)[p]
      /\ \A p \in 0..Len(b) : Joined(Pieces(b, s), p) \in Seq(Byte)
    <2> DEFINE F == Pieces(b, s)
    <2>1. F \in [1..Len(b) -> Seq(Byte)]
        BY <1>3
    <2> HIDE DEF F
    <2>2. /\ Joined(F, 0) = <<>>
          /\ \A p \in 1..Len(b) : Joined(F, p) = Joined(F, p - 1) \o F[p]
          /\ \A p \in 0..Len(b) : Joined(F, p) \in Seq(Byte)
        BY <1>1, <2>1, JoinedChain
    <2> QED BY <2>2 DEF F
<1>6. \A p \in 1..Len(b) : Joined(Pieces(b, s), p) = Joined(Pieces(b, s), p - 1) \o Piece(b, s, p)
    BY <1>3, <1>5, Zenon
<1> QED BY <1>4, <1>5, <1>6, Zenon DEF DataUpTo

(* Before the event starts there is none of its data.                        *)
LEMMA DataFromStart ==
    ASSUME NEW b \in Seq(STRING), NEW s \in Nat, NEW p \in 0..Len(b), ~HasData(b, s, p)
    PROVE  DataUpTo(b, s, p) = <<>>
<1>1. \A l \in 1..p : Piece(b, s, l) = <<>>
    <2> SUFFICES ASSUME NEW l \in 1..p, l >= s, GivesData(b, l) PROVE FALSE
        BY DEF Piece
    <2>1. l \in s..p
        OBVIOUS
    <2> QED BY <2>1 DEF HasData
<1>2. 0 \in 0..Len(b) /\ 0 <= p /\ \A l \in (0 + 1)..p : Piece(b, s, l) = <<>>
    BY <1>1
<1> QED BY <1>2, DataSteps

(* The data of an event is what its lines up to the blank one give.          *)
LEMMA DataOfEvent ==
    ASSUME NEW b \in Seq(STRING), NEW e \in EventEnds(b)
    PROVE  LET s == EventStart(b, e) IN
           /\ Says(b, e) = IF HasData(b, s, e - 1)
                           THEN DeltasOf([data |-> DataUpTo(b, s, e - 1)]) ELSE <<>>
<1> DEFINE s == EventStart(b, e)
           D == DataLines(b, e)
           one(l) == IF l \notin D THEN <<>>
                     ELSE (IF \E k \in D : k < l THEN <<"nl">> ELSE <<>>) \o Value(b, l)
<1>1. e \in 1..Len(b) /\ LineAt(b, e) = <<>> /\ Len(b) \in Nat
    BY DEF EventEnds, LineEnds
<1>2. s \in 1..e
    <2>1. e - 1 \in 0..Len(b) /\ (e - 1) + 1 = e
        BY <1>1
    <2>2. EventStart(b, (e - 1) + 1) \in 1..((e - 1) + 1)
        BY <2>1, EventStarts
    <2> QED BY <2>1, <2>2
<1> HIDE DEF s
<1>3. D = {l \in s..e : GivesData(b, l)}
    BY DEF DataLines, s
<1>4. ~GivesData(b, e)
    BY <1>1 DEF GivesData
<1>5. \A l : l \in D <=> l \in s..(e - 1) /\ GivesData(b, l)
    BY <1>1, <1>2, <1>3, <1>4
<1> HIDE DEF D
<1>6. D = {} <=> ~HasData(b, s, e - 1)
    BY <1>5 DEF HasData
<1>7. ASSUME NEW l \in 1..e PROVE one(l) = Piece(b, s, l)
    <2>1. l \in D <=> l >= s /\ GivesData(b, l)
        BY <1>1, <1>2, <1>4, <1>5
    <2>2. l \in D => ((\E k \in D : k < l) <=> HasData(b, s, l - 1))
        <3> SUFFICES ASSUME l \in D PROVE (\E k \in D : k < l) <=> HasData(b, s, l - 1)
            OBVIOUS
        <3>1. \A k : k \in s..(l - 1) /\ GivesData(b, k) <=> k \in D /\ k < l
            BY <1>1, <1>2, <1>5, <1>7
        <3> QED BY <3>1 DEF HasData
    <2>3. CASE l \in D
        BY <2>1, <2>2, <2>3, Zenon DEF Piece
    <2>4. CASE l \notin D
        BY <2>1, <2>4, Zenon DEF Piece
    <2> QED BY <2>3, <2>4
<1>8. EventData(b, e) = FlattenSeq([l \in 1..e |-> one(l)])
    BY Zenon DEF EventData, D, Value
<1>9. [l \in 1..e |-> one(l)] = [l \in 1..e |-> Pieces(b, s)[l]]
    <2> HIDE DEF one
    <2>1. \A l \in 1..e : Pieces(b, s)[l] = Piece(b, s, l)
        BY <1>1 DEF Pieces
    <2> QED BY <1>7, <2>1
<1>10. EventData(b, e) = DataUpTo(b, s, e)
    <2> HIDE DEF one
    <2> QED BY <1>8, <1>9, Zenon DEF DataUpTo, Joined
<1>11. DataUpTo(b, s, e) = DataUpTo(b, s, e - 1)
    <2>1. Piece(b, s, e) = <<>>
        BY <1>4, Zenon DEF Piece
    <2>2. e - 1 \in 0..Len(b) /\ e \in 0..Len(b) /\ e - 1 <= e /\ \A l \in ((e - 1) + 1)..e : l = e
        BY <1>1
    <2>3. s \in Nat
        BY <1>1, <1>2
    <2>4. \A l \in ((e - 1) + 1)..e : Piece(b, s, l) = <<>>
        BY <2>1, <2>2
    <2> QED BY <2>2, <2>3, <2>4, DataSteps
<1>12. Says(b, e) = IF D = {} THEN <<>> ELSE DeltasOf([data |-> EventData(b, e)])
    BY Zenon DEF Says, D
<1>13. EventData(b, e) = DataUpTo(b, s, e - 1)
    BY <1>10, <1>11
<1>14. Says(b, e) = IF HasData(b, s, e - 1) THEN DeltasOf([data |-> DataUpTo(b, s, e - 1)]) ELSE <<>>
    BY <1>6, <1>12, <1>13, Zenon
<1> QED BY <1>14, Zenon DEF s

-----------------------------------------------------------------------------
(* The parser, by what it has read.                                          *)

(* A parser, by its fields.                                                  *)
Parser(line, name, data, has, first, cr, bytes) ==
    [line |-> line, event_name |-> name, data |-> data, has_data |-> has, first_line |-> first,
     after_cr |-> cr, event_bytes |-> bytes]

Yes == TRUE
No  == FALSE

(* The parser that has read a body up to p.                                  *)
First(b, p)   == LineStart(b, p + 1) = 1
Returns(b, p) == p # 0 /\ b[p] = "cr"

ParserAt(b, p, name) ==
    Parser(SubSeq(b, LineStart(b, p + 1), p), name, DataUpTo(b, EventStart(b, p + 1), p),
           HasData(b, EventStart(b, p + 1), p), First(b, p), Returns(b, p), Bytes(b, p))

(* Where the parser gives up.                                                *)
Bad(b, i) ==
    \/ ~EndsLine(b[i]) /\ i + 1 - LineStart(b, i) > MaxLineBytes
    \/ ~PairedLineFeed(b, i) /\ EventBytes(b, i) > MaxEventBytes
    \/ i \in LineEnds(b) /\ ~IsUtf8(RawLine(b, i))

(* An event that has data ends at e.                                         *)
Speaks(b, e) == e \in EventEnds(b) /\ HasData(b, EventStart(b, e), e - 1)

Quiet(b, p, q) == \A i \in (p + 1)..q : ~Speaks(b, i)

Clean(b, p, q) == \A i \in (p + 1)..q : ~Bad(b, i)

(* The new parser has read nothing.                                          *)
LEMMA NewParserAt == ASSUME NEW b \in Seq(STRING) PROVE NewParser = ParserAt(b, 0, <<>>)
<1>1. 0 \in 0..Len(b)
    OBVIOUS
<1>2. LineStart(b, 0 + 1) = 1
    <2>1. LineStart(b, 0 + 1) \in 1..(0 + 1)
        BY <1>1, LineStarts
    <2> QED BY <2>1
<1>3. EventStart(b, 0 + 1) = 1
    <2>1. EventStart(b, 0 + 1) \in 1..(0 + 1)
        BY <1>1, EventStarts
    <2> QED BY <2>1
<1>4. SubSeq(b, 1, 0) = <<>>
    OBVIOUS
<1>5. DataUpTo(b, 1, 0) = <<>> /\ ~HasData(b, 1, 0)
    BY DataSteps DEF HasData
<1>6. Bytes(b, 0) = 0
    <2>1. {j \in 1..0 : ~PairedLineFeed(b, j)} = {}
        OBVIOUS
    <2>2. Bytes(b, 0) = Cardinality({j \in 1..0 : ~PairedLineFeed(b, j)})
        BY <1>3, Zenon DEF Bytes
    <2> QED BY <2>1, <2>2, FS_EmptySet
<1>7. HasData(b, 1, 0) = No /\ First(b, 0) = Yes /\ Returns(b, 0) = No
    BY <1>2, <1>5 DEF HasData, First, Returns, Yes, No
<1>8. ParserAt(b, 0, <<>>) = Parser(<<>>, <<>>, <<>>, No, Yes, No, 0)
    BY <1>2, <1>3, <1>4, <1>5, <1>6, <1>7 DEF ParserAt
<1> QED BY <1>8 DEF NewParser, Parser, Yes, No

(* A parser with other fields, as the code changes them.                     *)
WithName(r, v)            == [r EXCEPT !.event_name = v]
WithReturn(r, v)          == [r EXCEPT !.after_cr = v]
WithLine(r, v, w)         == [r EXCEPT !.line = v, !.first_line = w]
WithData(r, v, w)         == [r EXCEPT !.data = v, !.has_data = w]
WithBytes(r, v, w, x)     == [r EXCEPT !.line = v, !.event_bytes = w, !.after_cr = x]
WithEvent(r, v, w, x, y)  == [r EXCEPT !.event_name = v, !.data = w, !.has_data = x, !.event_bytes = y]

(* They are parsers by their fields again.                                   *)
LEMMA ParserChanges ==
    /\ \A line, name, data, has, first, cr, bytes, v :
          WithName(Parser(line, name, data, has, first, cr, bytes), v) =
              Parser(line, v, data, has, first, cr, bytes)
    /\ \A line, name, data, has, first, cr, bytes, v :
          WithReturn(Parser(line, name, data, has, first, cr, bytes), v) =
              Parser(line, name, data, has, first, v, bytes)
    /\ \A line, name, data, has, first, cr, bytes, v, w :
          WithLine(Parser(line, name, data, has, first, cr, bytes), v, w) =
              Parser(v, name, data, has, w, cr, bytes)
    /\ \A line, name, data, has, first, cr, bytes, v, w :
          WithData(Parser(line, name, data, has, first, cr, bytes), v, w) =
              Parser(line, name, v, w, first, cr, bytes)
    /\ \A line, name, data, has, first, cr, bytes, v, w, x :
          WithBytes(Parser(line, name, data, has, first, cr, bytes), v, w, x) =
              Parser(v, name, data, has, first, x, w)
    /\ \A line, name, data, has, first, cr, bytes, v, w, x, y :
          WithEvent(Parser(line, name, data, has, first, cr, bytes), v, w, x, y) =
              Parser(line, v, w, x, first, cr, y)
<1>1. \A line, name, data, has, first, cr, bytes, v :
          WithName(Parser(line, name, data, has, first, cr, bytes), v) =
              Parser(line, v, data, has, first, cr, bytes)
    BY DEF Parser, WithName
<1>2. \A line, name, data, has, first, cr, bytes, v :
          WithReturn(Parser(line, name, data, has, first, cr, bytes), v) =
              Parser(line, name, data, has, first, v, bytes)
    BY DEF Parser, WithReturn
<1>3. ASSUME NEW line, NEW name, NEW data, NEW has, NEW first, NEW cr, NEW bytes, NEW v, NEW w
      PROVE  WithLine(Parser(line, name, data, has, first, cr, bytes), v, w) =
                 Parser(v, name, data, has, w, cr, bytes)
    <2> DEFINE P == Parser(line, name, data, has, first, cr, bytes)
               p == [P EXCEPT !.line = v]
               q == WithLine(P, v, w)
    <2>1. p = Parser(v, name, data, has, first, cr, bytes) /\ q = [p EXCEPT !.first_line = w]
        BY DEF Parser, WithLine
    <2> HIDE DEF p, q
    <2>2. q = Parser(v, name, data, has, w, cr, bytes)
        BY <2>1 DEF Parser
    <2> QED BY <2>2 DEF q
<1>4. ASSUME NEW line, NEW name, NEW data, NEW has, NEW first, NEW cr, NEW bytes, NEW v, NEW w
      PROVE  WithData(Parser(line, name, data, has, first, cr, bytes), v, w) =
                 Parser(line, name, v, w, first, cr, bytes)
    <2> DEFINE P == Parser(line, name, data, has, first, cr, bytes)
               p == [P EXCEPT !.data = v]
               q == WithData(P, v, w)
    <2>1. p = Parser(line, name, v, has, first, cr, bytes) /\ q = [p EXCEPT !.has_data = w]
        BY DEF Parser, WithData
    <2> HIDE DEF p, q
    <2>2. q = Parser(line, name, v, w, first, cr, bytes)
        BY <2>1 DEF Parser
    <2> QED BY <2>2 DEF q
<1>5. ASSUME NEW line, NEW name, NEW data, NEW has, NEW first, NEW cr, NEW bytes, NEW v, NEW w, NEW x
      PROVE  WithBytes(Parser(line, name, data, has, first, cr, bytes), v, w, x) =
                 Parser(v, name, data, has, first, x, w)
    <2> DEFINE P == Parser(line, name, data, has, first, cr, bytes)
               p == [P EXCEPT !.line = v]
               q == [p EXCEPT !.event_bytes = w]
               r == WithBytes(P, v, w, x)
    <2>1. p = Parser(v, name, data, has, first, cr, bytes) /\ r = [q EXCEPT !.after_cr = x]
        BY DEF Parser, WithBytes
    <2> HIDE DEF p, r
    <2>2. q = Parser(v, name, data, has, first, cr, w)
        BY <2>1 DEF Parser
    <2> HIDE DEF q
    <2>3. r = Parser(v, name, data, has, first, x, w)
        BY <2>1, <2>2 DEF Parser
    <2> QED BY <2>3 DEF r
<1>6. ASSUME NEW line, NEW name, NEW data, NEW has, NEW first, NEW cr, NEW bytes, NEW v, NEW w, NEW x, NEW y
      PROVE  WithEvent(Parser(line, name, data, has, first, cr, bytes), v, w, x, y) =
                 Parser(line, v, w, x, first, cr, y)
    <2> DEFINE P == Parser(line, name, data, has, first, cr, bytes)
               p == [P EXCEPT !.event_name = v]
               q == [p EXCEPT !.data = w]
               r == [q EXCEPT !.has_data = x]
               t == WithEvent(P, v, w, x, y)
    <2>1. p = Parser(line, v, data, has, first, cr, bytes) /\ t = [r EXCEPT !.event_bytes = y]
        BY DEF Parser, WithEvent
    <2> HIDE DEF p, t
    <2>2. q = Parser(line, v, w, has, first, cr, bytes)
        BY <2>1 DEF Parser
    <2> HIDE DEF q
    <2>3. r = Parser(line, v, w, x, first, cr, bytes)
        BY <2>2 DEF Parser
    <2> HIDE DEF r
    <2>4. t = Parser(line, v, w, x, first, cr, y)
        BY <2>1, <2>3 DEF Parser
    <2> QED BY <2>4 DEF t
<1> QED BY <1>1, <1>2, <1>3, <1>4, <1>5, <1>6

(* What the end of a line makes of a parser.                                 *)
AfterLine(raw, line, name, data, has, cr, bytes, rest) ==
    IF ~IsUtf8(raw) THEN Failure("Undecodable")
    ELSE IF line = <<>>
    THEN Parsed(Parser(<<>>, <<>>, <<>>, No, No, cr, 0),
                IF has THEN <<[event |-> name, data |-> data]>> ELSE <<>>, rest)
    ELSE IF line[1] = "data:"
    THEN Parsed(Parser(<<>>, name,
                       IF has THEN data \o <<"nl">> \o WithoutSpace(Tail(line))
                       ELSE WithoutSpace(Tail(line)), Yes, No, cr, bytes), <<>>, rest)
    ELSE Parsed(Parser(<<>>, IF line[1] = "event:" THEN WithoutSpace(Tail(line)) ELSE name,
                       data, has, No, cr, bytes), <<>>, rest)

Content(raw, first) == IF first /\ raw # <<>> /\ raw[1] = "bom" THEN Tail(raw) ELSE raw

(* Completing a line does that to any parser.                                *)
LEMMA Completed ==
    \A raw, name, data, has, first, cr, bytes, rest :
        CompleteLine(Parser(raw, name, data, has, first, cr, bytes), rest) =
            AfterLine(raw, Content(raw, first), name, data, has, cr, bytes, rest)
<1> SUFFICES ASSUME NEW raw, NEW name, NEW data, NEW has, NEW first, NEW cr, NEW bytes, NEW rest
             PROVE  CompleteLine(Parser(raw, name, data, has, first, cr, bytes), rest) =
                        AfterLine(raw, Content(raw, first), name, data, has, cr, bytes, rest)
    OBVIOUS
<1> DEFINE line == Content(raw, first)
<1> DEFINE parser == Parser(raw, name, data, has, first, cr, bytes)
           value  == WithoutSpace(Tail(line))
           next   == Parser(<<>>, name, data, has, No, cr, bytes)
<1>1. parser.line = raw /\ parser.first_line = first
    BY DEF Parser
<1>2. WithLine(parser, <<>>, No) = next
    BY ParserChanges
<1>3. next.has_data = has /\ next.event_name = name /\ next.data = data
    BY DEF Parser
<1>4. WithEvent(next, <<>>, <<>>, No, 0) = Parser(<<>>, <<>>, <<>>, No, No, cr, 0)
    BY ParserChanges
<1>5. \A v : WithData(next, v, Yes) = Parser(<<>>, name, v, Yes, No, cr, bytes)
    BY ParserChanges
<1>6. \A v : WithName(next, v) = Parser(<<>>, v, data, has, No, cr, bytes)
    BY ParserChanges
<1>7. next = Parser(<<>>, name, data, has, No, cr, bytes)
    OBVIOUS
<1> HIDE DEF next, parser, value
<1>8. Dispatched(next, rest) =
          Parsed(Parser(<<>>, <<>>, <<>>, No, No, cr, 0),
                 IF has THEN <<[event |-> name, data |-> data]>> ELSE <<>>, rest)
    BY <1>3, <1>4, Zenon DEF Dispatched, WithEvent, No
<1>9. line[1] = "data:" =>
          Field(next, line) = Parser(<<>>, name, IF has THEN data \o <<"nl">> \o value ELSE value, Yes, No, cr, bytes)
    <2> SUFFICES ASSUME line[1] = "data:"
                 PROVE  Field(next, line) = Parser(<<>>, name, IF has THEN data \o <<"nl">> \o value ELSE value,
                                                   Yes, No, cr, bytes)
        OBVIOUS
    <2>1. Field(next, line) = WithData(next, IF next.has_data THEN next.data \o <<"nl">> \o value ELSE value, Yes)
        BY Zenon DEF Field, WithData, value, Yes
    <2> QED BY <1>3, <1>5, <2>1, Zenon
<1>10. line[1] # "data:" =>
          Field(next, line) = Parser(<<>>, IF line[1] = "event:" THEN value ELSE name, data, has, No, cr, bytes)
    <2>1. line[1] # "data:" /\ line[1] = "event:" => Field(next, line) = WithName(next, value)
        BY Zenon DEF Field, WithName, value
    <2>2. line[1] # "data:" /\ line[1] # "event:" => Field(next, line) = next
        BY Zenon DEF Field
    <2> QED BY <1>6, <1>7, <2>1, <2>2, Zenon
<1>11. CompleteLine(parser, rest) =
          IF ~IsUtf8(raw) THEN Failure("Undecodable")
          ELSE IF line = <<>> THEN Dispatched(next, rest) ELSE Parsed(Field(next, line), <<>>, rest)
    BY <1>1, <1>2, Zenon DEF CompleteLine, WithLine, No, Content
<1> HIDE DEF line
<1>12. CompleteLine(parser, rest) = AfterLine(raw, line, name, data, has, cr, bytes, rest)
    BY <1>8, <1>9, <1>10, <1>11, Zenon DEF value, AfterLine
<1> QED BY <1>12 DEF parser, line

-----------------------------------------------------------------------------
(* What a turn of the parser does with the bytes from one position on.       *)

(* The part of a body between two positions.                                 *)
LEMMA Part ==
    ASSUME NEW b \in Seq(STRING), NEW p \in 0..Len(b), NEW q \in p..Len(b)
    PROVE  LET part == SubSeq(b, p + 1, q) IN
           /\ part \in Seq(STRING) /\ Len(part) = q - p
           /\ \A i \in 1..(q - p) : part[i] = b[p + i]
           /\ \A c \in p..q : SubSeq(part, 1, c - p) = SubSeq(b, p + 1, c)
           /\ \A c \in p..q : SubSeq(part, (c - p) + 1, Len(part)) = SubSeq(b, c + 1, q)
<1> DEFINE part == SubSeq(b, p + 1, q)
<1>0. Len(b) \in Nat
    OBVIOUS
<1>1. part \in Seq(STRING) /\ Len(part) = q - p /\ \A i \in 1..(q - p) : part[i] = b[p + i]
    OBVIOUS
<1>2. ASSUME NEW c \in p..q PROVE SubSeq(part, 1, c - p) = SubSeq(b, p + 1, c)
    <2> DEFINE s == SubSeq(part, 1, c - p)
               t == SubSeq(b, p + 1, c)
    <2>1. t \in Seq(STRING) /\ Len(t) = c - p /\ \A i \in 1..(c - p) : t[i] = b[p + i]
        OBVIOUS
    <2> HIDE DEF part
    <2>2. s \in Seq(STRING) /\ Len(s) = c - p /\ \A i \in 1..(c - p) : s[i] = part[i]
        BY <1>0, <1>1
    <2> HIDE DEF s, t
    <2>3. \A i \in 1..(c - p) : i \in 1..(q - p)
        BY <1>0
    <2>4. s = t
        BY <1>1, <2>1, <2>2, <2>3, SeqEqual
    <2> QED BY <2>4 DEF s, t
<1>3. ASSUME NEW c \in p..q PROVE SubSeq(part, (c - p) + 1, Len(part)) = SubSeq(b, c + 1, q)
    <2> DEFINE s == SubSeq(part, (c - p) + 1, q - p)
               t == SubSeq(b, c + 1, q)
    <2>1. t \in Seq(STRING) /\ Len(t) = q - c /\ \A i \in 1..(q - c) : t[i] = b[c + i]
        OBVIOUS
    <2> HIDE DEF part
    <2>2. s \in Seq(STRING) /\ Len(s) = q - c /\ \A i \in 1..(q - c) : s[i] = part[(c - p) + i]
        <3> DEFINE lo == (c - p) + 1
                   hi == q - p
        <3>1. lo \in 1..(hi + 1) /\ hi = Len(part) /\ hi \in Nat /\ (hi - lo) + 1 = q - c
            BY <1>0, <1>1
        <3>2. \A i \in 1..(q - c) : (lo + i) - 1 = (c - p) + i
            BY <1>0
        <3> HIDE DEF lo, hi
        <3>3. SubSeq(part, lo, hi) \in Seq(STRING) /\ Len(SubSeq(part, lo, hi)) = (hi - lo) + 1
            BY <1>1, <3>1
        <3>4. \A i \in 1..((hi - lo) + 1) : SubSeq(part, lo, hi)[i] = part[(lo + i) - 1]
            BY <1>1, <3>1
        <3> QED BY <3>1, <3>2, <3>3, <3>4 DEF lo, hi
    <2> HIDE DEF s, t
    <2>3. \A i \in 1..(q - c) : (c - p) + i \in 1..(q - p) /\ p + ((c - p) + i) = c + i
        BY <1>0
    <2>4. s = t
        BY <1>1, <2>1, <2>2, <2>3, SeqEqual
    <2> QED BY <1>1, <2>4 DEF s, t
<1> QED BY <1>1, <1>2, <1>3

(* A segment goes up to the next end of a line.                              *)
LEMMA SegmentOf ==
    ASSUME NEW b \in Seq(STRING), NEW p \in 0..Len(b), NEW q \in p..Len(b)
    PROVE  \E c \in p..q : /\ Segment(SubSeq(b, p + 1, q)) = SubSeq(b, p + 1, c) /\ Plain(b, p, c)
                           /\ c < q => EndsLine(b[c + 1])
<1> DEFINE part == SubSeq(b, p + 1, q)
           ends == {i \in 1..Len(part) : EndsLine(part[i])}
<1>0. Len(b) \in Nat
    OBVIOUS
<1>1. /\ part \in Seq(STRING) /\ Len(part) = q - p /\ \A i \in 1..(q - p) : part[i] = b[p + i]
      /\ \A c \in p..q : SubSeq(part, 1, c - p) = SubSeq(b, p + 1, c)
    BY Part
<1>2. Segment(part) = IF ends = {} THEN part ELSE SubSeq(part, 1, Min(ends) - 1)
    BY DEF Segment
<1> HIDE DEF part
<1>3. \A i \in (p + 1)..q : i - p \in 1..(q - p) /\ part[i - p] = b[i]
    BY <1>0, <1>1
<1>4. CASE ends = {}
    <2>1. Plain(b, p, q)
        BY <1>1, <1>3, <1>4 DEF Plain
    <2>2. part = SubSeq(b, p + 1, q) /\ q \in p..q /\ ~(q < q)
        BY <1>0 DEF part
    <2> QED BY <1>2, <1>4, <2>1, <2>2 DEF part
<1>5. CASE ends # {}
    <2> DEFINE m == Min(ends)
               c == p + m - 1
    <2>1. m \in ends /\ \A y \in ends : m <= y
        <3>1. ends \in SUBSET Nat
            BY <1>1
        <3>2. \E x \in ends : \A y \in ends : x <= y
            <4> HIDE DEF ends
            <4> QED BY <1>5, <3>1, LeastElement
        <3> HIDE DEF ends
        <3> QED BY <3>2, Zenon DEF Min
    <2> HIDE DEF m
    <2>2. m \in 1..(q - p) /\ EndsLine(part[m])
        BY <1>1, <2>1
    <2>3. c \in p..q /\ c - p = m - 1 /\ c + 1 = p + m
        BY <1>0, <2>2
    <2>4. EndsLine(b[c + 1])
        BY <1>1, <2>2, <2>3
    <2>5. Plain(b, p, c)
        <3> SUFFICES ASSUME NEW i \in (p + 1)..c, EndsLine(b[i]) PROVE FALSE
            BY DEF Plain
        <3>1. i \in (p + 1)..q /\ i - p < m
            BY <1>0, <2>2, <2>3
        <3>2. i - p \in ends
            BY <1>1, <1>3, <3>1
        <3>3. m <= i - p
            BY <2>1, <3>2
        <3> QED BY <1>0, <2>2, <3>1, <3>3
    <2>6. Segment(part) = SubSeq(b, p + 1, c)
        <3>1. SubSeq(part, 1, c - p) = SubSeq(b, p + 1, c)
            BY <1>1, <2>3
        <3>2. Segment(part) = SubSeq(part, 1, m - 1)
            BY <1>2, <1>5 DEF m
        <3> QED BY <2>3, <3>1, <3>2
    <2> QED BY <2>3, <2>4, <2>5, <2>6 DEF part
<1> QED BY <1>4, <1>5

(* Bytes that end no line leave all but the line and the count as it is.     *)
LEMMA PlainRun ==
    ASSUME NEW b \in Seq(STRING), NEW p \in 0..Len(b), NEW c \in p..Len(b), Plain(b, p, c),
           p + 1 <= Len(b) => ~PairedLineFeed(b, p + 1)
    PROVE  /\ LineStart(b, c + 1) = LineStart(b, p + 1)
           /\ EventStart(b, c + 1) = EventStart(b, p + 1)
           /\ DataUpTo(b, EventStart(b, c + 1), c) = DataUpTo(b, EventStart(b, p + 1), p)
           /\ HasData(b, EventStart(b, c + 1), c) = HasData(b, EventStart(b, p + 1), p)
           /\ Bytes(b, c) = Bytes(b, p) + (c - p)
           /\ \A i \in (p + 1)..c : i \notin LineEnds(b) /\ ~Speaks(b, i) /\ ~PairedLineFeed(b, i)
           /\ c + 1 <= Len(b) => ~PairedLineFeed(b, c + 1)
<1> DEFINE s == EventStart(b, p + 1)
<1>0. Len(b) \in Nat
    OBVIOUS
<1>1. \A i \in (p + 1)..c : ~EndsLine(b[i]) /\ i \in 1..Len(b)
    BY <1>0 DEF Plain
<1>2. \A i \in (p + 1)..c : i \notin LineEnds(b) /\ i \notin EventEnds(b) /\ ~GivesData(b, i)
    BY <1>1 DEF LineEnds, EventEnds, GivesData
<1>3. \A i \in (p + 1)..c : ~PairedLineFeed(b, i)
    BY <1>1 DEF PairedLineFeed, EndsLine
<1>4. LineStart(b, c + 1) = LineStart(b, p + 1)
    BY LineStarts
<1>5. EventStart(b, c + 1) = s /\ s \in 1..(p + 1)
    BY <1>2, EventStarts
<1>6. Bytes(b, c) = Bytes(b, p) + (c - p)
    BY <1>2, <1>3, BytesCounted
<1> HIDE DEF s
<1>7. DataUpTo(b, s, c) = DataUpTo(b, s, p)
    <2>1. \A l \in (p + 1)..c : Piece(b, s, l) = <<>>
        BY <1>2, Zenon DEF Piece
    <2>2. s \in Nat /\ c \in 0..Len(b) /\ p <= c
        BY <1>0, <1>5
    <2> QED BY <2>1, <2>2, DataSteps
<1>8. HasData(b, s, c) = HasData(b, s, p)
    <2>1. \A k : GivesData(b, k) => (k \in s..c <=> k \in s..p)
        <3> SUFFICES ASSUME NEW k, GivesData(b, k) PROVE k \in s..c <=> k \in s..p
            OBVIOUS
        <3>1. k \in 1..Len(b) /\ k \notin (p + 1)..c
            BY <1>2 DEF GivesData, LineEnds
        <3> QED BY <1>0, <1>5, <3>1
    <2> QED BY <2>1 DEF HasData
<1>9. c + 1 <= Len(b) => ~PairedLineFeed(b, c + 1)
    <2>1. CASE c = p
        BY <2>1
    <2>2. CASE c # p
        <3>1. ~EndsLine(b[c]) /\ (c + 1) - 1 = c
            BY <1>0, <1>1, <2>2
        <3> QED BY <3>1 DEF PairedLineFeed, EndsLine
    <2> QED BY <2>1, <2>2
<1>10. \A i \in (p + 1)..c : ~Speaks(b, i)
    BY <1>2 DEF Speaks
<1> QED BY <1>2, <1>3, <1>4, <1>5, <1>6, <1>7, <1>8, <1>9, <1>10 DEF s

(* The line that is being read, and that it is within its limit.             *)
LEMMA LineLimit ==
    ASSUME NEW b \in Seq(STRING), NEW p \in 0..Len(b), NEW c \in p..Len(b),
           LineStart(b, c + 1) = LineStart(b, p + 1)
    PROVE  LET line == SubSeq(b, LineStart(b, p + 1), c) IN
           /\ line \in Seq(STRING) /\ Len(line) = c + 1 - LineStart(b, p + 1)
           /\ line = SubSeq(b, LineStart(b, p + 1), p) \o SubSeq(b, p + 1, c)
           /\ c = p /\ Clean(b, 0, p) => Len(line) <= MaxLineBytes
<1> DEFINE s == LineStart(b, p + 1)
<1>0. Len(b) \in Nat /\ s \in 1..(p + 1)
    BY LineStarts
<1>1. p # 0 /\ EndsLine(b[p]) => s = p + 1
    BY LineStarts
<1>3. p # 0 /\ ~EndsLine(b[p]) => LineStart(b, p) = s
    <2> SUFFICES ASSUME p # 0, ~EndsLine(b[p]) PROVE LineStart(b, p) = s
        OBVIOUS
    <2>1. p - 1 \in 0..Len(b) /\ p \in (p - 1)..Len(b) /\ (p - 1) + 1 = p
        BY <1>0
    <2>2. Plain(b, p - 1, p)
        BY <1>0 DEF Plain
    <2>3. LineStart(b, p + 1) = LineStart(b, (p - 1) + 1)
        BY <2>1, <2>2, LineStarts
    <2> QED BY <2>1, <2>3
<1> HIDE DEF s
<1> DEFINE line == SubSeq(b, s, c)
           head == SubSeq(b, s, p)
           tail == SubSeq(b, p + 1, c)
<1>4. line \in Seq(STRING) /\ Len(line) = c + 1 - s
    BY <1>0
<1>5. head \in Seq(STRING) /\ tail \in Seq(STRING) /\ line = head \o tail
    <2>1. SubSeq(b, s, p) \o SubSeq(b, p + 1, c) = SubSeq(b, s, c)
        BY <1>0, ConcatAdjacentSubSeq
    <2> QED BY <1>0, <2>1
<1>6. c = p /\ Clean(b, 0, p) => c + 1 - s <= MaxLineBytes
    <2> SUFFICES ASSUME c = p, Clean(b, 0, p) PROVE p + 1 - s <= MaxLineBytes
        OBVIOUS
    <2>1. CASE p = 0 \/ EndsLine(b[p])
        BY <1>0, <1>1, <2>1, LineAssumption
    <2>2. CASE p # 0 /\ ~EndsLine(b[p])
        <3>1. ~Bad(b, p)
            BY <1>0, <2>2 DEF Clean
        <3>2. ~(p + 1 - s > MaxLineBytes)
            BY <1>3, <2>2, <3>1 DEF Bad
        <3> QED BY <1>0, <3>2, LineAssumption
    <2> QED BY <2>1, <2>2
<1> QED BY <1>4, <1>5, <1>6 DEF s

(* The line feed of a pair changes nothing but the mark it was waited with.  *)
LEMMA SkipTurn ==
    ASSUME NEW b \in Seq(STRING), NEW p \in 0..Len(b), NEW q \in (p + 1)..Len(b), NEW name,
           PairedLineFeed(b, p + 1)
    PROVE  /\ Turn(Parsed(ParserAt(b, p, name), <<>>, SubSeq(b, p + 1, q))) =
                  Parsed(ParserAt(b, p + 1, name), <<>>, SubSeq(b, (p + 1) + 1, q))
           /\ ~Bad(b, p + 1) /\ ~Speaks(b, p + 1)
<1> DEFINE s == EventStart(b, p + 1)
           in == SubSeq(b, p + 1, q)
           P  == ParserAt(b, p, name)
<1>0. Len(b) \in Nat
    OBVIOUS
<1>1. b[p + 1] = "lf" /\ p # 0 /\ b[p] = "cr" /\ p + 1 \in 0..Len(b) /\ p + 1 \in p..Len(b)
    <2>1. (p + 1) - 1 = p
        BY <1>0
    <2> QED BY <1>0, <2>1 DEF PairedLineFeed
<1>2. p + 1 \notin LineEnds(b) /\ p + 1 \notin EventEnds(b) /\ ~GivesData(b, p + 1)
    BY DEF LineEnds, EventEnds, GivesData
<1>3. LineStart(b, p + 1) = p + 1 /\ LineStart(b, (p + 1) + 1) = (p + 1) + 1
    <2>1. EndsLine(b[p]) /\ EndsLine(b[p + 1])
        BY <1>1 DEF EndsLine
    <2> QED BY <1>1, <2>1, LineStarts
<1>4. EventStart(b, (p + 1) + 1) = s /\ s \in 1..(p + 1)
    <2>1. \A i \in (p + 1)..(p + 1) : i \notin EventEnds(b)
        BY <1>2
    <2> QED BY <1>1, <2>1, EventStarts
<1>5. Bytes(b, p + 1) = Bytes(b, p)
    <2>1. EventBytes(b, p + 1) = Bytes(b, p)
        BY <1>1, BytesCounted
    <2>2. EventBytes(b, p + 1) = Bytes(b, p + 1)
        BY <1>4 DEF EventBytes, Bytes
    <2> QED BY <2>1, <2>2
<1> HIDE DEF s
<1>6. DataUpTo(b, s, p + 1) = DataUpTo(b, s, p)
    <2>0. \A l \in (p + 1)..(p + 1) : l = p + 1
        BY <1>0
    <2>1. \A l \in (p + 1)..(p + 1) : Piece(b, s, l) = <<>>
        BY <1>2, <2>0, Zenon DEF Piece
    <2>2. s \in Nat /\ p <= p + 1
        BY <1>0, <1>4
    <2> QED BY <1>1, <2>1, <2>2, DataSteps
<1>7. HasData(b, s, p + 1) = HasData(b, s, p)
    <2>1. \A k : GivesData(b, k) => (k \in s..(p + 1) <=> k \in s..p)
        <3> SUFFICES ASSUME NEW k, GivesData(b, k) PROVE k \in s..(p + 1) <=> k \in s..p
            OBVIOUS
        <3>1. k \in 1..Len(b) /\ k # p + 1
            BY <1>2 DEF GivesData, LineEnds
        <3> QED BY <1>0, <1>4, <3>1
    <2> QED BY <2>1 DEF HasData
<1>8. SubSeq(b, LineStart(b, p + 1), p) = <<>> /\ SubSeq(b, LineStart(b, (p + 1) + 1), p + 1) = <<>>
    BY <1>1, <1>3
<1>9. First(b, p) = No /\ First(b, p + 1) = No /\ Returns(b, p) = Yes /\ Returns(b, p + 1) = No
    BY <1>0, <1>1, <1>3 DEF First, Returns, Yes, No
<1>10. P = Parser(<<>>, name, DataUpTo(b, s, p), HasData(b, s, p), No, Yes, Bytes(b, p))
    BY <1>8, <1>9, Zenon DEF ParserAt, s
<1>11. ParserAt(b, p + 1, name) = Parser(<<>>, name, DataUpTo(b, s, p), HasData(b, s, p), No, No, Bytes(b, p))
    BY <1>4, <1>5, <1>6, <1>7, <1>8, <1>9, Zenon DEF ParserAt
<1>12. in \in Seq(STRING) /\ Len(in) = q - p /\ in[1] = b[p + 1] /\ Tail(in) = SubSeq(b, (p + 1) + 1, q) /\ in # <<>>
    BY <1>0
<1>13. P.after_cr = Yes
    BY <1>10 DEF Parser
<1>14. WithReturn(P, No) = ParserAt(b, p + 1, name)
    BY <1>10, <1>11, ParserChanges
<1> HIDE DEF P, in
<1>15. SkipsLineFeed(P, in)
    BY <1>1, <1>12, <1>13 DEF SkipsLineFeed, Yes
<1> DEFINE at == Parsed(P, <<>>, in)
<1>16. at.ok = TRUE /\ at.event = <<>> /\ at.rest = in /\ at.parser = P
    BY DEF Parsed
<1> HIDE DEF at
<1>17. Turn(at) = Parsed(ParserAt(b, p + 1, name), <<>>, SubSeq(b, (p + 1) + 1, q))
    <2>1. Turn(at) = Parsed(WithReturn(P, No), <<>>, Tail(in))
        BY <1>12, <1>15, <1>16, Zenon DEF Turn, WithReturn, No
    <2> QED BY <1>12, <1>14, <2>1, Zenon
<1>18. ~Bad(b, p + 1)
    BY <1>1, <1>2 DEF Bad, EndsLine
<1> QED BY <1>2, <1>17, <1>18 DEF Speaks, at, P, in

(* The name of the event after a line.                                       *)
NameAfter(b, e, name) ==
    IF LineAt(b, e)[1] = "event:" THEN WithoutSpace(Tail(LineAt(b, e))) ELSE name

(* What the end of a line does to the positions' facts.                      *)
LEMMA LineEnded ==
    ASSUME NEW b \in Seq(STRING), NEW c \in 0..Len(b), NEW e \in LineEnds(b), e = c + 1
    PROVE  LET s == EventStart(b, e) IN
           /\ LineStart(b, e + 1) = e + 1 /\ First(b, e) = No /\ SubSeq(b, e + 1, e) = <<>>
           /\ s \in 1..e
           /\ e \in EventEnds(b) =>
                 /\ EventStart(b, e + 1) = e + 1 /\ Bytes(b, e) = 0
                 /\ DataUpTo(b, e + 1, e) = <<>> /\ HasData(b, e + 1, e) = No
           /\ e \notin EventEnds(b) => EventStart(b, e + 1) = s /\ Bytes(b, e) = Bytes(b, c) + 1
           /\ GivesData(b, e) =>
                 /\ HasData(b, s, e) = Yes
                 /\ DataUpTo(b, s, e) = IF HasData(b, s, c) THEN DataUpTo(b, s, c) \o <<"nl">> \o Value(b, e)
                                        ELSE Value(b, e)
           /\ ~GivesData(b, e) => HasData(b, s, e) = HasData(b, s, c) /\ DataUpTo(b, s, e) = DataUpTo(b, s, c)
<1> DEFINE s == EventStart(b, e)
<1>0. Len(b) \in Nat /\ e \in 1..Len(b) /\ EndsLine(b[e]) /\ ~PairedLineFeed(b, e) /\ e - 1 = c
    BY DEF LineEnds
<1>1. LineStart(b, e + 1) = e + 1 /\ SubSeq(b, e + 1, e) = <<>>
    <2>1. e \in 0..Len(b) /\ e # 0
        BY <1>0
    <2>2. LineStart(b, e + 1) = e + 1
        BY <1>0, <2>1, LineStarts
    <2> QED BY <1>0, <2>2
<1>2. First(b, e) = No
    BY <1>0, <1>1 DEF First, No
<1>3. s \in 1..e
    BY EventStarts
<1>4. e \in EventEnds(b) =>
          /\ EventStart(b, e + 1) = e + 1 /\ Bytes(b, e) = 0
          /\ DataUpTo(b, e + 1, e) = <<>> /\ HasData(b, e + 1, e) = No
    <2> SUFFICES ASSUME e \in EventEnds(b)
                 PROVE  /\ EventStart(b, e + 1) = e + 1 /\ Bytes(b, e) = 0
                        /\ DataUpTo(b, e + 1, e) = <<>> /\ HasData(b, e + 1, e) = No
        OBVIOUS
    <2>1. e \in 0..Len(b) /\ e + 1 \in Nat
        BY <1>0
    <2>2. EventStart(b, e + 1) = e + 1 /\ Bytes(b, e) = 0
        BY <2>1, EventStarts, BytesCounted
    <2>3. (e + 1)..e = {}
        BY <1>0
    <2>4. HasData(b, e + 1, e) = No
        BY <2>3 DEF HasData, No
    <2>5. ~HasData(b, e + 1, e)
        BY <2>3 DEF HasData
    <2>6. DataUpTo(b, e + 1, e) = <<>>
        BY <2>1, <2>5, DataFromStart
    <2> QED BY <2>2, <2>4, <2>6
<1>5. e \notin EventEnds(b) => EventStart(b, e + 1) = s /\ Bytes(b, e) = Bytes(b, c) + 1
    <2> SUFFICES ASSUME e \notin EventEnds(b)
                 PROVE  EventStart(b, e + 1) = s /\ Bytes(b, e) = Bytes(b, c) + 1
        OBVIOUS
    <2>1. e \in c..Len(b)
        BY <1>0
    <2>2. \A i \in (c + 1)..e : i = e
        BY <1>0
    <2>3. \A i \in (c + 1)..e : i \notin EventEnds(b) /\ ~PairedLineFeed(b, i)
        BY <1>0, <2>2, Zenon
    <2>4. EventStart(b, e + 1) = EventStart(b, c + 1)
        BY <2>1, <2>3, EventStarts
    <2>5. Bytes(b, e) = Bytes(b, c) + (e - c)
        BY <2>1, <2>3, BytesCounted
    <2> QED BY <1>0, <2>4, <2>5
<1> HIDE DEF s
<1>6. DataUpTo(b, s, e) = DataUpTo(b, s, c) \o Piece(b, s, e) /\ DataUpTo(b, s, c) \in Seq(Byte)
    <2>1. s \in Nat
        BY <1>3
    <2>2. /\ \A p \in 1..Len(b) : DataUpTo(b, s, p) = DataUpTo(b, s, p - 1) \o Piece(b, s, p)
          /\ \A p \in 0..Len(b) : DataUpTo(b, s, p) \in Seq(Byte)
        BY <2>1, DataSteps, Zenon
    <2>3. c \in 0..Len(b) /\ e \in 1..Len(b) /\ e - 1 = c
        BY <1>0
    <2> QED BY <2>2, <2>3, Zenon
<1>7. GivesData(b, e) =>
          /\ HasData(b, s, e) = Yes
          /\ DataUpTo(b, s, e) = IF HasData(b, s, c) THEN DataUpTo(b, s, c) \o <<"nl">> \o Value(b, e)
                                 ELSE Value(b, e)
    <2> SUFFICES ASSUME GivesData(b, e)
                 PROVE  /\ HasData(b, s, e) = Yes
                        /\ DataUpTo(b, s, e) = IF HasData(b, s, c)
                               THEN DataUpTo(b, s, c) \o <<"nl">> \o Value(b, e) ELSE Value(b, e)
        OBVIOUS
    <2>1. HasData(b, s, e) = Yes
        BY <1>3 DEF HasData, Yes
    <2>2. Value(b, e) \in Seq(Byte)
        <3>1. Value(b, e) \in Seq(STRING)
            BY LineType
        <3>2. Seq(STRING) \subseteq Seq(Byte)
            BY SeqMonotonic DEF Byte
        <3> QED BY <3>1, <3>2
    <2>3. <<"nl">> \in Seq(Byte)
        <3>1. "nl" \in Byte
            BY DEF Byte
        <3>2. \A x \in Byte : <<x>> \in Seq(Byte)
            OBVIOUS
        <3> QED BY <3>1, <3>2
    <2>4. Piece(b, s, e) = (IF HasData(b, s, c) THEN <<"nl">> ELSE <<>>) \o Value(b, e)
        <3>1. e >= s
            BY <1>0, <1>3
        <3> QED BY <1>0, <3>1, Zenon DEF Piece
    <2>5. CASE HasData(b, s, c)
        <3>1. DataUpTo(b, s, e) = DataUpTo(b, s, c) \o (<<"nl">> \o Value(b, e))
            BY <1>6, <2>4, <2>5, Zenon DEF AfterLine
        <3>2. (DataUpTo(b, s, c) \o <<"nl">>) \o Value(b, e) = DataUpTo(b, s, c) \o (<<"nl">> \o Value(b, e))
            <4> DEFINE D == DataUpTo(b, s, c)
                       v == Value(b, e)
                       x == <<"nl">>
            <4>1. D \in Seq(Byte) /\ v \in Seq(Byte) /\ x \in Seq(Byte)
                BY <1>6, <2>2, <2>3
            <4> HIDE DEF D, v, x
            <4>2. Grouped(D, x, v)
                BY <4>1, Grouping
            <4> QED BY <4>2, Zenon DEF Grouped, D, v, x
        <3> QED BY <2>1, <2>5, <3>1, <3>2, Zenon
    <2>6. CASE ~HasData(b, s, c)
        <3>1. DataUpTo(b, s, c) = <<>>
            <4>1. s \in Nat
                BY <1>3
            <4> QED BY <2>6, <4>1, DataFromStart
        <3>2. <<>> \o Value(b, e) = Value(b, e)
            BY <2>2, ConcatEmptySeq
        <3>3. DataUpTo(b, s, e) = <<>> \o (<<>> \o Value(b, e))
            BY <1>6, <2>4, <2>6, <3>1, Zenon DEF AfterLine
        <3> QED BY <2>1, <2>6, <3>2, <3>3, Zenon
    <2> QED BY <2>5, <2>6
<1>8. ~GivesData(b, e) => HasData(b, s, e) = HasData(b, s, c) /\ DataUpTo(b, s, e) = DataUpTo(b, s, c)
    <2> SUFFICES ASSUME ~GivesData(b, e)
                 PROVE  HasData(b, s, e) = HasData(b, s, c) /\ DataUpTo(b, s, e) = DataUpTo(b, s, c)
        OBVIOUS
    <2>1. \A k : GivesData(b, k) => (k \in s..e <=> k \in s..c)
        <3> SUFFICES ASSUME NEW k, GivesData(b, k) PROVE k \in s..e <=> k \in s..c
            OBVIOUS
        <3>1. k \in 1..Len(b) /\ k # e
            BY DEF GivesData, LineEnds
        <3> QED BY <1>0, <1>3, <3>1
    <2>2. HasData(b, s, e) = HasData(b, s, c)
        BY <2>1 DEF HasData
    <2>3. Piece(b, s, e) = <<>>
        BY Zenon DEF Piece
    <2>4. DataUpTo(b, s, c) \o <<>> = DataUpTo(b, s, c)
        BY <1>6, ConcatEmptySeq
    <2>5. DataUpTo(b, s, e) = DataUpTo(b, s, c)
        BY <1>6, <2>3, <2>4, Zenon DEF AfterLine
    <2> QED BY <2>2, <2>5
<1> QED BY <1>1, <1>2, <1>3, <1>4, <1>5, <1>7, <1>8, Zenon DEF s

(* What completing a line makes of the parser that has read up to its end.   *)
LEMMA LineTurn ==
    ASSUME NEW b \in Seq(STRING), NEW c \in 0..Len(b), NEW e \in LineEnds(b), e = c + 1, NEW name, NEW rest
    PROVE  LET s == EventStart(b, e) IN
           CompleteLine(Parser(RawLine(b, e), name, DataUpTo(b, s, c), HasData(b, s, c), First(b, c),
                               Returns(b, e), Bytes(b, c) + 1), rest) =
               IF ~IsUtf8(RawLine(b, e)) THEN Failure("Undecodable")
               ELSE IF e \in EventEnds(b)
               THEN Parsed(ParserAt(b, e, <<>>),
                           IF HasData(b, s, c) THEN <<[event |-> name, data |-> DataUpTo(b, s, c)]>> ELSE <<>>,
                           rest)
               ELSE Parsed(ParserAt(b, e, NameAfter(b, e, name)), <<>>, rest)
<1> DEFINE s == EventStart(b, e)
           raw == RawLine(b, e)
           line == LineAt(b, e)
           data == DataUpTo(b, s, c)
           bytes == Bytes(b, c) + 1
<1>1. /\ LineStart(b, e + 1) = e + 1 /\ First(b, e) = No /\ SubSeq(b, e + 1, e) = <<>>
      /\ s \in 1..e
      /\ e \in EventEnds(b) =>
            /\ EventStart(b, e + 1) = e + 1 /\ Bytes(b, e) = 0
            /\ DataUpTo(b, e + 1, e) = <<>> /\ HasData(b, e + 1, e) = No
      /\ e \notin EventEnds(b) => EventStart(b, e + 1) = s /\ Bytes(b, e) = bytes
      /\ GivesData(b, e) =>
            /\ HasData(b, s, e) = Yes
            /\ DataUpTo(b, s, e) = IF HasData(b, s, c) THEN data \o <<"nl">> \o Value(b, e) ELSE Value(b, e)
      /\ ~GivesData(b, e) => HasData(b, s, e) = HasData(b, s, c) /\ DataUpTo(b, s, e) = data
    BY LineEnded
<1>2. First(b, c) <=> LineStart(b, e) = 1
    BY DEF First
<1>3. line = Content(raw, First(b, c))
    BY <1>2, Zenon DEF LineAt, Content
<1>5. (e \in EventEnds(b) <=> line = <<>>) /\ (GivesData(b, e) <=> line # <<>> /\ line[1] = "data:")
    BY DEF EventEnds, GivesData
<1> HIDE DEF s, raw, line, data, bytes
<1> DEFINE R == Returns(b, e)
           H == HasData(b, s, c)
           F == First(b, c)
           done == CompleteLine(Parser(raw, name, data, H, F, R, bytes), rest)
<1>6. done = AfterLine(raw, line, name, data, H, R, bytes, rest)
    BY <1>3, Completed
<1> HIDE DEF R, H, F, done
<1>7. e \in EventEnds(b) => ParserAt(b, e, <<>>) = Parser(<<>>, <<>>, <<>>, No, No, R, 0)
    BY <1>1, Zenon DEF ParserAt, R
<1>8. ASSUME NEW nm, e \notin EventEnds(b)
      PROVE  ParserAt(b, e, nm) = Parser(<<>>, nm, DataUpTo(b, s, e), HasData(b, s, e), No, R, bytes)
    BY <1>1, <1>8, Zenon DEF ParserAt, R
<1>9. Value(b, e) = WithoutSpace(Tail(line))
    BY DEF Value, line
<1>10. NameAfter(b, e, name) = IF line[1] = "event:" THEN WithoutSpace(Tail(line)) ELSE name
    BY DEF NameAfter, line
<1>11. CASE ~IsUtf8(raw)
    <2>1. done = Failure("Undecodable")
        BY <1>6, <1>11, Zenon DEF AfterLine
    <2> QED BY <1>11, <2>1, Zenon DEF done, F, H, R, s, raw, data, bytes
<1>12. CASE IsUtf8(raw) /\ line = <<>>
    <2>1. done = Parsed(ParserAt(b, e, <<>>), IF H THEN <<[event |-> name, data |-> data]>> ELSE <<>>, rest)
        BY <1>5, <1>6, <1>7, <1>12, Zenon DEF AfterLine
    <2> QED BY <1>5, <1>12, <2>1, Zenon DEF done, F, H, R, s, raw, data, bytes
<1>13. CASE IsUtf8(raw) /\ line # <<>> /\ line[1] = "data:"
    <2>1. NameAfter(b, e, name) = name
        BY <1>10, <1>13
    <2>2. ParserAt(b, e, name) =
              Parser(<<>>, name, IF H THEN data \o <<"nl">> \o Value(b, e) ELSE Value(b, e), Yes, No, R, bytes)
        BY <1>1, <1>5, <1>8, <1>13, Zenon DEF H
    <2>3. done = Parsed(ParserAt(b, e, name), <<>>, rest)
        BY <1>6, <1>9, <1>13, <2>2, Zenon DEF AfterLine
    <2> QED BY <1>5, <1>13, <2>1, <2>3, Zenon DEF done, F, H, R, s, raw, data, bytes
<1>14. CASE IsUtf8(raw) /\ line # <<>> /\ line[1] # "data:"
    <2>1. ParserAt(b, e, NameAfter(b, e, name)) = Parser(<<>>, NameAfter(b, e, name), data, H, No, R, bytes)
        BY <1>1, <1>5, <1>8, <1>14, Zenon DEF H
    <2>2. done = Parsed(ParserAt(b, e, NameAfter(b, e, name)), <<>>, rest)
        BY <1>6, <1>10, <1>14, <2>1, Zenon DEF AfterLine
    <2> QED BY <1>5, <1>14, <2>2, Zenon DEF done, F, H, R, s, raw, data, bytes
<1> QED BY <1>11, <1>12, <1>13, <1>14

(* The limits along bytes that end no line.                                  *)
LEMMA RunLimits ==
    ASSUME NEW b \in Seq(STRING), NEW p \in 0..Len(b), NEW c \in p..Len(b), Plain(b, p, c),
           p + 1 <= Len(b) => ~PairedLineFeed(b, p + 1)
    PROVE  /\ \A i \in (p + 1)..c : /\ LineStart(b, i) = LineStart(b, p + 1)
                                    /\ EventBytes(b, i) = Bytes(b, p) + (i - p)
                                    /\ i \notin LineEnds(b) /\ ~Speaks(b, i)
                                    /\ ~EndsLine(b[i]) /\ ~PairedLineFeed(b, i)
           /\ c + 1 <= Len(b) => EventBytes(b, c + 1) = Bytes(b, p) + (c + 1 - p)
<1>0. Len(b) \in Nat /\ Bytes(b, p) \in Nat
    BY BytesCounted
<1>1. \A i \in (p + 1)..c : i \notin LineEnds(b) /\ ~Speaks(b, i) /\ ~PairedLineFeed(b, i) /\ ~EndsLine(b[i])
    BY PlainRun DEF Plain
<1>2. ASSUME NEW d \in p..c PROVE /\ LineStart(b, d + 1) = LineStart(b, p + 1)
                                  /\ d + 1 <= Len(b) => EventBytes(b, d + 1) = Bytes(b, p) + (d + 1 - p)
    <2>1. d \in 0..Len(b) /\ d \in p..Len(b)
        BY <1>0
    <2>2. Plain(b, p, d)
        BY <1>0, <1>1 DEF Plain
    <2>3. /\ LineStart(b, d + 1) = LineStart(b, p + 1) /\ Bytes(b, d) = Bytes(b, p) + (d - p)
          /\ d + 1 <= Len(b) => ~PairedLineFeed(b, d + 1)
        BY <2>1, <2>2, PlainRun
    <2>4. d + 1 <= Len(b) => EventBytes(b, d + 1) = Bytes(b, d) + 1
        BY <2>1, <2>3, BytesCounted
    <2> QED BY <1>0, <2>1, <2>3, <2>4
<1>3. ASSUME NEW i \in (p + 1)..c
      PROVE  LineStart(b, i) = LineStart(b, p + 1) /\ EventBytes(b, i) = Bytes(b, p) + (i - p)
    <2> DEFINE d == i - 1
    <2>1. d \in p..c /\ d + 1 = i /\ i <= Len(b)
        BY <1>0
    <2> HIDE DEF d
    <2>2. /\ LineStart(b, d + 1) = LineStart(b, p + 1)
          /\ d + 1 <= Len(b) => EventBytes(b, d + 1) = Bytes(b, p) + (d + 1 - p)
        BY <1>2, <2>1
    <2> QED BY <2>1, <2>2
<1>4. c \in p..c
    BY <1>0
<1> QED BY <1>1, <1>2, <1>3, <1>4

(* The mark of an end of a line that is a carriage return.                   *)
Ends(ended, byte) == ended /\ byte = "cr"

(* What a turn may come to, read from p on: the parser gives up where it     *)
(* must, it goes on, or it tells of an event.                                *)
Fails(b, p, q, out) ==
    out = Failure("Undecodable") /\ \E w \in (p + 1)..q : Bad(b, w) /\ Quiet(b, p, w - 1)

GoesTo(b, p, q, out, k, name) ==
    out = Parsed(ParserAt(b, k, name), <<>>, SubSeq(b, k + 1, q)) /\ Clean(b, p, k) /\ Quiet(b, p, k)

Goes(b, p, q, out) == \E k \in (p + 1)..q, name \in Seq(STRING) : GoesTo(b, p, q, out, k, name)

EventAt(b, k, name) == [event |-> name, data |-> DataUpTo(b, EventStart(b, k), k - 1)]

TellsAt(b, p, q, out, k, name) ==
    /\ out = Parsed(ParserAt(b, k, <<>>), <<EventAt(b, k, name)>>, SubSeq(b, k + 1, q))
    /\ Clean(b, p, k) /\ Quiet(b, p, k - 1) /\ Speaks(b, k)

Tells(b, p, q, out) == \E k \in (p + 1)..q, name \in Seq(STRING) : TellsAt(b, p, q, out, k, name)

(* The segment a turn takes and the parser that has it.                      *)
LEMMA SegmentTaken ==
    ASSUME NEW b \in Seq(STRING), NEW p \in 0..Len(b), NEW q \in (p + 1)..Len(b), NEW name, NEW c \in p..q,
           Segment(SubSeq(b, p + 1, q)) = SubSeq(b, p + 1, c), Plain(b, p, c), c < q => EndsLine(b[c + 1]),
           ~PairedLineFeed(b, p + 1)
    PROVE  LET k == IF c < q THEN c + 1 ELSE c
               s == EventStart(b, p + 1)
               longer == Parser(SubSeq(b, LineStart(b, p + 1), c), name, DataUpTo(b, s, p), HasData(b, s, p),
                                First(b, p), Returns(b, k), Bytes(b, p) + (k - p))
               rest == SubSeq(b, k + 1, q)
           IN  TakeSegment(ParserAt(b, p, name), SubSeq(b, p + 1, q)) =
                   IF Len(SubSeq(b, LineStart(b, p + 1), c)) > MaxLineBytes \/ Bytes(b, p) + (k - p) > MaxEventBytes
                   THEN Failure("Undecodable")
                   ELSE IF c < q THEN CompleteLine(longer, rest) ELSE Parsed(longer, <<>>, rest)
<1> DEFINE in == SubSeq(b, p + 1, q)
           seg == Segment(in)
           s == EventStart(b, p + 1)
           line == SubSeq(b, LineStart(b, p + 1), c)
           P == ParserAt(b, p, name)
           k == IF c < q THEN c + 1 ELSE c
           D == DataUpTo(b, s, p)
           H == HasData(b, s, p)
           F == First(b, p)
           R == Returns(b, k)
           n == Bytes(b, p)
           longer == Parser(line, name, D, H, F, R, n + (k - p))
<1>0. Len(b) \in Nat /\ n \in Nat /\ c \in p..Len(b) /\ q \in p..Len(b) /\ k \in (p + 1)..q /\ k \in p..q
    BY BytesCounted
<1>1. /\ in \in Seq(STRING) /\ Len(in) = q - p /\ \A i \in 1..(q - p) : in[i] = b[p + i]
      /\ \A d \in p..q : SubSeq(in, (d - p) + 1, Len(in)) = SubSeq(b, d + 1, q)
    BY <1>0, Part
<1>2. seg = SubSeq(b, p + 1, c) /\ seg \in Seq(STRING) /\ Len(seg) = c - p
    <2>1. SubSeq(b, p + 1, c) \in Seq(STRING) /\ Len(SubSeq(b, p + 1, c)) = c - p
        BY <1>0, Part
    <2>2. seg = SubSeq(b, p + 1, c)
        OBVIOUS
    <2> HIDE DEF seg
    <2> QED BY <2>1, <2>2
<1>3. LineStart(b, c + 1) = LineStart(b, p + 1)
    BY <1>0, LineStarts
<1>4. line = SubSeq(b, LineStart(b, p + 1), p) \o seg
    BY <1>0, <1>2, <1>3, LineLimit
<1>5. P.line = SubSeq(b, LineStart(b, p + 1), p) /\ P.event_bytes = n
    BY DEF ParserAt, Parser
<1>6. \A v, w, x : WithBytes(P, v, w, x) = Parser(v, name, D, H, F, x, w)
    <2>1. P = Parser(SubSeq(b, LineStart(b, p + 1), p), name, D, H, F, Returns(b, p), n)
        BY Zenon DEF ParserAt
    <2> HIDE DEF P, D, H, F, n
    <2> QED BY <2>1, ParserChanges
<1>7. longer.line = line /\ longer.event_bytes = n + (k - p)
    BY DEF Parser
<1> HIDE DEF P, in, D, H, F, R, n, longer, line
<1> HIDE DEF seg
<1> DEFINE ended == Len(seg) < Len(in)
           taken == Len(seg) + IF ended THEN 1 ELSE 0
           made  == WithBytes(P, P.line \o seg, P.event_bytes + taken, Ends(ended, in[taken]))
           tail  == SubSeq(in, taken + 1, Len(in))
<1>8. (ended <=> c < q) /\ taken = k - p
    <2>1. Len(seg) = c - p /\ Len(in) = q - p
        BY <1>1, <1>2
    <2>2. ended <=> c < q
        BY <1>0, <2>1
    <2>3. CASE c < q
        <3>1. k = c + 1
            BY <2>3
        <3>2. taken = Len(seg) + 1
            BY <2>2, <2>3
        <3> HIDE DEF taken, k, ended
        <3> QED BY <1>0, <2>1, <2>2, <3>1, <3>2
    <2>4. CASE ~(c < q)
        <3>1. k = c
            BY <2>4
        <3>2. taken = Len(seg) + 0
            BY <2>2, <2>4
        <3> HIDE DEF taken, k, ended
        <3> QED BY <1>0, <2>1, <2>2, <3>1, <3>2
    <2> QED BY <2>3, <2>4
<1>9. Ends(ended, in[taken]) = R
    <2>1. CASE c < q
        <3>1. taken \in 1..(q - p) /\ p + taken = c + 1 /\ k = c + 1
            BY <1>0, <1>8, <2>1
        <3> HIDE DEF taken, ended, k
        <3>2. in[taken] = b[c + 1]
            BY <1>1, <3>1
        <3>3. (ended /\ in[taken] = "cr") <=> (k # 0 /\ b[k] = "cr")
            BY <1>0, <1>8, <2>1, <3>1, <3>2
        <3> QED BY <3>3, Zenon DEF Ends, R, Returns
    <2>2. CASE ~(c < q)
        <3>1. c \in (p + 1)..c /\ k = c
            BY <1>0, <2>2
        <3>2. b[c] # "cr"
            BY <3>1 DEF Plain, EndsLine
        <3> HIDE DEF taken, ended, k
        <3> QED BY <1>8, <2>2, <3>1, <3>2 DEF Ends, R, Returns
    <2> QED BY <2>1, <2>2
<1>10. tail = SubSeq(b, k + 1, q)
    <2>1. (k - p) + 1 = taken + 1
        BY <1>8
    <2> HIDE DEF k, taken
    <2> QED BY <1>0, <1>1, <2>1
<1> HIDE DEF k
<1>12. TakeSegment(P, in) =
           IF Len(made.line) > MaxLineBytes \/ made.event_bytes > MaxEventBytes THEN Failure("Undecodable")
           ELSE IF ended THEN CompleteLine(made, tail) ELSE Parsed(made, <<>>, tail)
    BY Zenon DEF TakeSegment, WithBytes, Ends, seg
<1>13. made = longer
    <2>1. P.line \o seg = line
        BY <1>4, <1>5
    <2>2. P.event_bytes + taken = n + (k - p)
        BY <1>5, <1>8
    <2> HIDE DEF ended, taken
    <2>3. made = WithBytes(P, line, n + (k - p), R)
        BY <1>9, <2>1, <2>2
    <2> QED BY <1>6, <2>3, Zenon DEF longer
<1> HIDE DEF made, tail, ended, taken
<1>14. TakeSegment(P, in) =
           IF Len(line) > MaxLineBytes \/ n + (k - p) > MaxEventBytes THEN Failure("Undecodable")
           ELSE IF c < q THEN CompleteLine(longer, SubSeq(b, k + 1, q))
           ELSE Parsed(longer, <<>>, SubSeq(b, k + 1, q))
    BY <1>7, <1>8, <1>10, <1>12, <1>13, Zenon
<1> QED BY <1>14, Zenon DEF P, in, line, n, longer, k, D, H, F, R

(* A turn that takes a segment gives up, goes on, or tells of an event.      *)
LEMMA SegmentTurn ==
    ASSUME NEW b \in Seq(STRING), NEW p \in 0..Len(b), NEW q \in (p + 1)..Len(b), NEW name \in Seq(STRING),
           ~PairedLineFeed(b, p + 1), Clean(b, 0, p)
    PROVE  LET out == TakeSegment(ParserAt(b, p, name), SubSeq(b, p + 1, q)) IN
           Fails(b, p, q, out) \/ Goes(b, p, q, out) \/ Tells(b, p, q, out)
<1> DEFINE in == SubSeq(b, p + 1, q)
           out == TakeSegment(ParserAt(b, p, name), in)
           s == EventStart(b, p + 1)
           n == Bytes(b, p)
<1>0. Len(b) \in Nat /\ n \in Nat /\ q \in p..Len(b)
    BY BytesCounted
<1>1. PICK c \in p..q : /\ Segment(in) = SubSeq(b, p + 1, c) /\ Plain(b, p, c)
                        /\ c < q => EndsLine(b[c + 1])
    BY <1>0, SegmentOf
<1> DEFINE k == IF c < q THEN c + 1 ELSE c
           line == SubSeq(b, LineStart(b, p + 1), c)
           longer == Parser(line, name, DataUpTo(b, s, p), HasData(b, s, p), First(b, p), Returns(b, k), n + (k - p))
           rest == SubSeq(b, k + 1, q)
<1>2. out = IF Len(line) > MaxLineBytes \/ n + (k - p) > MaxEventBytes THEN Failure("Undecodable")
            ELSE IF c < q THEN CompleteLine(longer, rest) ELSE Parsed(longer, <<>>, rest)
    BY <1>1, SegmentTaken
<1>3. /\ c \in p..Len(b) /\ c \in 0..Len(b) /\ k \in (p + 1)..q /\ k \in 1..Len(b)
      /\ c < q => k = c + 1
      /\ ~(c < q) => k = c
    BY <1>0, <1>1
<1> HIDE DEF out, in, k
<1>4. /\ LineStart(b, c + 1) = LineStart(b, p + 1) /\ EventStart(b, c + 1) = s
      /\ DataUpTo(b, s, c) = DataUpTo(b, s, p) /\ HasData(b, s, c) = HasData(b, s, p)
      /\ Bytes(b, c) = n + (c - p)
      /\ c + 1 <= Len(b) => ~PairedLineFeed(b, c + 1)
    <2>1. /\ LineStart(b, c + 1) = LineStart(b, p + 1)
          /\ EventStart(b, c + 1) = EventStart(b, p + 1)
          /\ DataUpTo(b, EventStart(b, c + 1), c) = DataUpTo(b, EventStart(b, p + 1), p)
          /\ HasData(b, EventStart(b, c + 1), c) = HasData(b, EventStart(b, p + 1), p)
          /\ Bytes(b, c) = Bytes(b, p) + (c - p)
          /\ c + 1 <= Len(b) => ~PairedLineFeed(b, c + 1)
        BY <1>1, <1>3, PlainRun
    <2> QED BY <2>1, Zenon
<1>5. /\ \A i \in (p + 1)..c : /\ LineStart(b, i) = LineStart(b, p + 1)
                               /\ EventBytes(b, i) = n + (i - p)
                               /\ i \notin LineEnds(b) /\ ~Speaks(b, i)
                               /\ ~EndsLine(b[i]) /\ ~PairedLineFeed(b, i)
      /\ c + 1 <= Len(b) => EventBytes(b, c + 1) = n + (c + 1 - p)
    BY <1>1, <1>3, RunLimits
<1>6. /\ Len(line) = c + 1 - LineStart(b, p + 1)
      /\ Len(SubSeq(b, LineStart(b, p + 1), p)) <= MaxLineBytes
      /\ LineStart(b, p + 1) \in 1..(p + 1)
    <2>1. Len(line) = c + 1 - LineStart(b, p + 1)
        BY <1>3, <1>4, LineLimit
    <2>2. p \in p..Len(b)
        BY <1>0
    <2>3. Len(SubSeq(b, LineStart(b, p + 1), p)) <= MaxLineBytes
        BY <2>2, LineLimit
    <2> QED BY <2>1, <2>3, LineStarts
<1>7. Len(SubSeq(b, LineStart(b, p + 1), p)) = p + 1 - LineStart(b, p + 1)
    BY <1>0, <1>6
<1> HIDE DEF s, n, line
<1>8. \A i \in (p + 1)..c : ~Speaks(b, i)
    BY <1>5
<1>9. CASE Len(line) > MaxLineBytes
    <2>1. c \in (p + 1)..q /\ c \in (p + 1)..c
        BY <1>0, <1>3, <1>6, <1>7, <1>9, LineAssumption
    <2>2. Bad(b, c)
        <3>1. ~EndsLine(b[c]) /\ LineStart(b, c) = LineStart(b, p + 1)
            BY <1>5, <2>1
        <3>2. c + 1 - LineStart(b, c) > MaxLineBytes
            BY <1>6, <1>9, <3>1
        <3> QED BY <3>1, <3>2 DEF Bad
    <2>3. Quiet(b, p, c - 1)
        <3>1. \A i \in (p + 1)..(c - 1) : i \in (p + 1)..c
            BY <1>0, <2>1
        <3> QED BY <1>8, <3>1 DEF Quiet
    <2>4. out = Failure("Undecodable")
        BY <1>2, <1>9, Zenon
    <2> QED BY <2>1, <2>2, <2>3, <2>4, Zenon DEF Fails, out, in
<1>10. CASE n + (k - p) > MaxEventBytes
    <2>1. ~PairedLineFeed(b, k) /\ EventBytes(b, k) = n + (k - p)
        <3>1. CASE c < q
            BY <1>0, <1>3, <1>4, <1>5, <3>1
        <3>2. CASE ~(c < q)
            BY <1>0, <1>3, <1>5, <3>2
        <3> QED BY <3>1, <3>2
    <2>2. Bad(b, k)
        BY <1>10, <2>1 DEF Bad
    <2>3. Quiet(b, p, k - 1)
        <3>1. \A i \in (p + 1)..(k - 1) : i \in (p + 1)..c
            BY <1>0, <1>3
        <3> QED BY <1>8, <3>1 DEF Quiet
    <2>4. out = Failure("Undecodable")
        BY <1>2, <1>10, Zenon
    <2> QED BY <1>3, <2>2, <2>3, <2>4, Zenon DEF Fails, out, in
<1>11. CASE ~(Len(line) > MaxLineBytes) /\ ~(n + (k - p) > MaxEventBytes)
    <2>1. Clean(b, p, c)
        <3> SUFFICES ASSUME NEW i \in (p + 1)..c PROVE ~Bad(b, i)
            BY DEF Clean
        <3>1. /\ LineStart(b, i) = LineStart(b, p + 1) /\ EventBytes(b, i) = n + (i - p)
              /\ i \notin LineEnds(b)
            BY <1>5
        <3>2. Len(line) <= MaxLineBytes /\ n + (k - p) <= MaxEventBytes
            BY <1>0, <1>3, <1>6, <1>11, LineAssumption
        <3>3. i + 1 - LineStart(b, i) <= MaxLineBytes /\ EventBytes(b, i) <= MaxEventBytes
            BY <1>0, <1>3, <1>6, <3>1, <3>2, LineAssumption
        <3>4. i + 1 - LineStart(b, i) \in Int /\ EventBytes(b, i) \in Int
            BY <1>0, <1>3, <1>6, <3>1
        <3> QED BY <3>1, <3>3, <3>4, LineAssumption DEF Bad
    <2>2. CASE ~(c < q)
        <3>1. k = c /\ c = q
            BY <1>1, <1>3, <2>2
        <3>2. Returns(b, k) = Returns(b, c)
            BY <3>1
        <3>3. longer = ParserAt(b, k, name)
            <4>1. First(b, p) = First(b, k)
                BY <1>4, <3>1 DEF First
            <4>2. ParserAt(b, k, name) =
                      Parser(SubSeq(b, LineStart(b, k + 1), k), name, DataUpTo(b, EventStart(b, k + 1), k),
                             HasData(b, EventStart(b, k + 1), k), First(b, k), Returns(b, k), Bytes(b, k))
                BY Zenon DEF ParserAt
            <4>3. /\ SubSeq(b, LineStart(b, k + 1), k) = line
                  /\ EventStart(b, k + 1) = s
                  /\ DataUpTo(b, s, k) = DataUpTo(b, s, p) /\ HasData(b, s, k) = HasData(b, s, p)
                  /\ Bytes(b, k) = n + (k - p)
                BY <1>4, <3>1 DEF line
            <4> QED BY <4>1, <4>2, <4>3, Zenon
        <3>4. out = Parsed(ParserAt(b, k, name), <<>>, rest)
            BY <1>2, <1>11, <2>2, <3>3, Zenon
        <3>5. Clean(b, p, k) /\ Quiet(b, p, k)
            BY <1>8, <2>1, <3>1 DEF Quiet
        <3>6. GoesTo(b, p, q, out, k, name)
            BY <3>4, <3>5, Zenon DEF GoesTo
        <3> QED BY <1>3, <3>6, Zenon DEF Goes, out, in
    <2>3. CASE c < q
        <3>1. k = c + 1 /\ k \in LineEnds(b) /\ EndsLine(b[k]) /\ ~PairedLineFeed(b, k) /\ c + 1 <= Len(b)
            BY <1>0, <1>1, <1>3, <1>4, <2>3 DEF LineEnds
        <3>2. RawLine(b, k) = line
            <4>1. k - 1 = c /\ LineStart(b, k) = LineStart(b, p + 1)
                BY <1>0, <1>3, <1>4, <3>1
            <4> QED BY <4>1, Zenon DEF RawLine, line
        <3>3. EventStart(b, k) = s /\ n + (k - p) = Bytes(b, c) + 1 /\ First(b, p) = First(b, c)
            BY <1>0, <1>3, <1>4, <3>1 DEF First
        <3>4. longer = Parser(RawLine(b, k), name, DataUpTo(b, EventStart(b, k), c),
                              HasData(b, EventStart(b, k), c), First(b, c), Returns(b, k), Bytes(b, c) + 1)
            BY <1>4, <3>2, <3>3, Zenon
        <3> DEFINE H == HasData(b, EventStart(b, k), c)
                   told == <<[event |-> name, data |-> DataUpTo(b, EventStart(b, k), c)]>>
        <3>5. out = IF ~IsUtf8(RawLine(b, k)) THEN Failure("Undecodable")
                    ELSE IF k \in EventEnds(b)
                    THEN Parsed(ParserAt(b, k, <<>>), IF H THEN told ELSE <<>>, rest)
                    ELSE Parsed(ParserAt(b, k, NameAfter(b, k, name)), <<>>, rest)
            <4>1. out = CompleteLine(longer, rest)
                BY <1>2, <1>11, <2>3, Zenon
            <4>2. CompleteLine(Parser(RawLine(b, k), name, DataUpTo(b, EventStart(b, k), c), H, First(b, c),
                                      Returns(b, k), Bytes(b, c) + 1), rest) =
                      IF ~IsUtf8(RawLine(b, k)) THEN Failure("Undecodable")
                      ELSE IF k \in EventEnds(b)
                      THEN Parsed(ParserAt(b, k, <<>>), IF H THEN told ELSE <<>>, rest)
                      ELSE Parsed(ParserAt(b, k, NameAfter(b, k, name)), <<>>, rest)
                BY <1>3, <3>1, LineTurn
            <4> QED BY <3>4, <4>1, <4>2, Zenon
        <3>6. k - 1 = c
            BY <1>0, <1>3, <3>1
        <3>7. Quiet(b, p, k - 1)
            BY <1>8, <3>6 DEF Quiet
        <3>8. CASE ~IsUtf8(RawLine(b, k))
            <4>1. Bad(b, k)
                BY <3>1, <3>8 DEF Bad
            <4>2. out = Failure("Undecodable")
                BY <3>5, <3>8, Zenon
            <4> QED BY <1>3, <3>7, <4>1, <4>2, Zenon DEF Fails, out, in
        <3>9. CASE IsUtf8(RawLine(b, k))
            <4>1. ~Bad(b, k)
                <5>1. EventBytes(b, k) = n + (k - p) /\ n + (k - p) \in Int
                    BY <1>0, <1>3, <1>5, <3>1
                <5> QED BY <1>11, <3>1, <3>9, <5>1 DEF Bad
            <4>2. Clean(b, p, k)
                <5>1. \A i \in (p + 1)..k : i \in (p + 1)..c \/ i = k
                    BY <1>0, <1>3, <3>1
                <5> QED BY <2>1, <4>1, <5>1 DEF Clean
            <4>3. CASE Speaks(b, k)
                <5>1. k \in EventEnds(b) /\ H
                    BY <3>6, <4>3 DEF Speaks
                <5>2. told = <<EventAt(b, k, name)>>
                    BY <3>6, Zenon DEF EventAt
                <5>3. out = Parsed(ParserAt(b, k, <<>>), <<EventAt(b, k, name)>>, rest)
                    BY <3>5, <3>9, <5>1, <5>2, Zenon
                <5>4. TellsAt(b, p, q, out, k, name)
                    BY <3>7, <4>2, <4>3, <5>3, Zenon DEF TellsAt
                <5> QED BY <1>3, <5>4, Zenon DEF Tells, out, in
            <4>4. CASE ~Speaks(b, k)
                <5>0. Quiet(b, p, k)
                    <6>1. \A i \in (p + 1)..k : i \in (p + 1)..c \/ i = k
                        BY <1>0, <1>3, <3>1
                    <6> QED BY <1>8, <4>4, <6>1 DEF Quiet
                <5>1. CASE k \in EventEnds(b)
                    <6>1. ~H
                        BY <3>6, <4>4, <5>1 DEF Speaks
                    <6>2. out = Parsed(ParserAt(b, k, <<>>), <<>>, rest)
                        BY <3>5, <3>9, <5>1, <6>1, Zenon
                    <6>3. GoesTo(b, p, q, out, k, <<>>)
                        BY <4>2, <5>0, <6>2, Zenon DEF GoesTo
                    <6>4. <<>> \in Seq(STRING)
                        OBVIOUS
                    <6> QED BY <1>3, <6>3, <6>4, Zenon DEF Goes, out, in
                <5>2. CASE k \notin EventEnds(b)
                    <6>1. out = Parsed(ParserAt(b, k, NameAfter(b, k, name)), <<>>, rest)
                        BY <3>5, <3>9, <5>2, Zenon
                    <6>2. GoesTo(b, p, q, out, k, NameAfter(b, k, name))
                        BY <4>2, <5>0, <6>1, Zenon DEF GoesTo
                    <6>3. NameAfter(b, k, name) \in Seq(STRING)
                        <7>1. LineAt(b, k) \in Seq(STRING) /\ LineAt(b, k) # <<>>
                            BY <3>1, <5>2, LineType DEF EventEnds
                        <7>2. \A v \in Seq(STRING) : v # <<>> => Tail(v) \in Seq(STRING)
                            OBVIOUS
                        <7>3. Tail(LineAt(b, k)) \in Seq(STRING)
                            BY <7>1, <7>2
                        <7>4. WithoutSpace(Tail(LineAt(b, k))) \in Seq(STRING)
                            BY <7>2, <7>3 DEF WithoutSpace
                        <7> QED BY <7>4 DEF NameAfter
                    <6> QED BY <1>3, <6>2, <6>3, Zenon DEF Goes, out, in
                <5> QED BY <5>1, <5>2
            <4> QED BY <4>3, <4>4
        <3> QED BY <3>8, <3>9
    <2> QED BY <2>2, <2>3
<1> QED BY <1>9, <1>10, <1>11

-----------------------------------------------------------------------------
(* SseParser::decode, from one position to another.                          *)

(* Reading on from k what was read from p.                                   *)
LEMMA ReadOn ==
    ASSUME NEW b \in Seq(STRING), NEW p \in 0..Len(b), NEW k \in p..Len(b), NEW q \in k..Len(b), NEW out,
           Clean(b, p, k), Quiet(b, p, k)
    PROVE  /\ Fails(b, k, q, out) => Fails(b, p, q, out)
           /\ Tells(b, k, q, out) => Tells(b, p, q, out)
           /\ \A m \in k..q : \A name : GoesTo(b, k, q, out, m, name) => GoesTo(b, p, q, out, m, name)
<1>0. Len(b) \in Nat
    OBVIOUS
<1>1. \A m \in Int : Clean(b, k, m) => Clean(b, p, m)
    <2>1. \A m \in Int : \A i \in (p + 1)..m : i \in (p + 1)..k \/ i \in (k + 1)..m
        BY <1>0
    <2> QED BY <2>1 DEF Clean
<1>2. \A m \in Int : Quiet(b, k, m) => Quiet(b, p, m)
    <2>1. \A m \in Int : \A i \in (p + 1)..m : i \in (p + 1)..k \/ i \in (k + 1)..m
        BY <1>0
    <2> QED BY <2>1 DEF Quiet
<1>3. \A m \in (k + 1)..q : m \in (p + 1)..q /\ m \in Int /\ m - 1 \in Int
    BY <1>0
<1>4. \A m \in k..q : m \in Int
    BY <1>0
<1>5. Fails(b, k, q, out) => Fails(b, p, q, out)
    BY <1>2, <1>3, Zenon DEF Fails
<1>6. Tells(b, k, q, out) => Tells(b, p, q, out)
    BY <1>1, <1>2, <1>3, Zenon DEF Tells, TellsAt
<1>7. \A m \in k..q : \A name : GoesTo(b, k, q, out, m, name) => GoesTo(b, p, q, out, m, name)
    BY <1>1, <1>2, <1>4, Zenon DEF GoesTo
<1> QED BY <1>5, <1>6, <1>7

(* A turn of the loop: what has ended stays, and the rest goes on.           *)
LEMMA AnyTurn ==
    ASSUME NEW b \in Seq(STRING), NEW p \in 0..Len(b), NEW q \in p..Len(b), Clean(b, 0, p), NEW at
    PROVE  /\ Fails(b, p, q, at) \/ Tells(b, p, q, at) => Turn(at) = at
           /\ \A k \in p..q, name \in Seq(STRING) : GoesTo(b, p, q, at, k, name) =>
                 \/ Fails(b, p, q, Turn(at)) \/ Tells(b, p, q, Turn(at))
                 \/ k = q /\ Turn(at) = at
                 \/ \E m \in (k + 1)..q, n \in Seq(STRING) : GoesTo(b, p, q, Turn(at), m, n)
<1>0. Len(b) \in Nat
    OBVIOUS
<1>1. Fails(b, p, q, at) => Turn(at) = at
    BY DEF Fails, Failure, Turn
<1>2. Tells(b, p, q, at) => Turn(at) = at
    <2> SUFFICES ASSUME NEW k, NEW name, TellsAt(b, p, q, at, k, name) PROVE Turn(at) = at
        BY Zenon DEF Tells
    <2>1. at.ok /\ at.event = <<EventAt(b, k, name)>>
        BY DEF TellsAt, Parsed
    <2>2. \A x : <<x>> # <<>>
        OBVIOUS
    <2> QED BY <2>1, <2>2, Zenon DEF Turn
<1>3. ASSUME NEW k \in p..q, NEW name \in Seq(STRING), GoesTo(b, p, q, at, k, name)
      PROVE  \/ Fails(b, p, q, Turn(at)) \/ Tells(b, p, q, Turn(at))
             \/ k = q /\ Turn(at) = at
             \/ \E m \in (k + 1)..q, n \in Seq(STRING) : GoesTo(b, p, q, Turn(at), m, n)
    <2> DEFINE P == ParserAt(b, k, name)
               in == SubSeq(b, k + 1, q)
    <2>1. at = Parsed(P, <<>>, in) /\ Clean(b, p, k) /\ Quiet(b, p, k)
        BY <1>3 DEF GoesTo
    <2>2. k \in 0..Len(b) /\ k \in p..Len(b) /\ q \in k..Len(b)
        BY <1>0
    <2>3. at.ok = TRUE /\ at.event = <<>> /\ at.rest = in /\ at.parser = P
        BY <2>1 DEF Parsed
    <2>4. Len(in) = q - k /\ in \in Seq(STRING)
        BY <2>2, Part
    <2>5. CASE k = q
        <3>1. in = <<>>
            BY <1>0, <2>4, <2>5
        <3>2. Turn(at) = at
            BY <2>3, <3>1, Zenon DEF Turn
        <3> QED BY <2>5, <3>2
    <2>6. CASE k # q
        <3>1. q \in (k + 1)..Len(b) /\ in # <<>> /\ k + 1 \in (k + 1)..q /\ k + 1 \in k..q
            BY <1>0, <2>4, <2>6
        <3>2. Clean(b, 0, k)
            <4>1. \A i \in (0 + 1)..k : i \in (0 + 1)..p \/ i \in (p + 1)..k
                BY <1>0
            <4> QED BY <2>1, <4>1 DEF Clean
        <3>3. CASE PairedLineFeed(b, k + 1)
            <4>1. /\ Turn(at) = Parsed(ParserAt(b, k + 1, name), <<>>, SubSeq(b, (k + 1) + 1, q))
                  /\ ~Bad(b, k + 1) /\ ~Speaks(b, k + 1)
                BY <2>1, <2>2, <3>1, <3>3, SkipTurn
            <4>2. \A i \in (k + 1)..(k + 1) : i = k + 1
                BY <1>0
            <4>3. Clean(b, k, k + 1) /\ Quiet(b, k, k + 1)
                BY <4>1, <4>2, Zenon DEF Clean, Quiet
            <4>4. GoesTo(b, k, q, Turn(at), k + 1, name)
                BY <4>1, <4>3, Zenon DEF GoesTo
            <4>5. GoesTo(b, p, q, Turn(at), k + 1, name)
                BY <2>1, <2>2, <3>1, <4>4, ReadOn
            <4> QED BY <3>1, <4>5
        <3>4. CASE ~PairedLineFeed(b, k + 1)
            <4>1. ~SkipsLineFeed(P, in)
                <5>1. P.after_cr = Returns(b, k) /\ in[1] = b[k + 1]
                    BY <1>0, <2>4, <3>1 DEF ParserAt, Parser
                <5> HIDE DEF P, in
                <5>2. ~(Returns(b, k) /\ b[k + 1] = "lf")
                    <6>1. (k + 1) - 1 = k
                        BY <1>0
                    <6>2. k # 0 => k + 1 > 1
                        BY <1>0
                    <6> QED BY <3>4, <6>1, <6>2 DEF Returns, PairedLineFeed
                <5> QED BY <5>1, <5>2 DEF SkipsLineFeed
            <4>2. Turn(at) = TakeSegment(P, in)
                BY <2>3, <3>1, <4>1, Zenon DEF Turn
            <4>3. Fails(b, k, q, Turn(at)) \/ Goes(b, k, q, Turn(at)) \/ Tells(b, k, q, Turn(at))
                BY <2>2, <3>1, <3>2, <3>4, <4>2, SegmentTurn
            <4>4. CASE Fails(b, k, q, Turn(at)) \/ Tells(b, k, q, Turn(at))
                BY <2>1, <2>2, <4>4, ReadOn
            <4>5. CASE Goes(b, k, q, Turn(at))
                <5>1. PICK m \in (k + 1)..q, n \in Seq(STRING) : GoesTo(b, k, q, Turn(at), m, n)
                    BY <4>5, Zenon DEF Goes
                <5>2. m \in k..q
                    BY <1>0
                <5>3. GoesTo(b, p, q, Turn(at), m, n)
                    BY <2>1, <2>2, <5>1, <5>2, ReadOn
                <5> QED BY <5>3
            <4> QED BY <4>3, <4>4, <4>5
        <3> QED BY <3>3, <3>4
    <2> QED BY <2>5, <2>6
<1> QED BY <1>1, <1>2, <1>3

(* What the turns may come to, and the set of it.                            *)
Stands(b, p, q, out) ==
    \/ Fails(b, p, q, out) \/ Tells(b, p, q, out)
    \/ \E k \in p..q, name \in Seq(STRING) : GoesTo(b, p, q, out, k, name)

Outs(b, p, q) ==
    {x \in {Failure("Undecodable")}
           \cup {Parsed(ParserAt(b, k, name), <<>>, SubSeq(b, k + 1, q)) : k \in p..q, name \in Seq(STRING)}
           \cup {Parsed(ParserAt(b, k, <<>>), <<EventAt(b, k, name)>>, SubSeq(b, k + 1, q))
                    : k \in (p + 1)..q, name \in Seq(STRING)} : Stands(b, p, q, x)}

(* The set holds just what stands.                                           *)
LEMMA OutsAre ==
    ASSUME NEW b, NEW p, NEW q, NEW out
    PROVE  out \in Outs(b, p, q) <=> Stands(b, p, q, out)
<1> DEFINE G == {Parsed(ParserAt(b, k, name), <<>>, SubSeq(b, k + 1, q)) : k \in p..q, name \in Seq(STRING)}
           E == {Parsed(ParserAt(b, k, <<>>), <<EventAt(b, k, name)>>, SubSeq(b, k + 1, q))
                    : k \in (p + 1)..q, name \in Seq(STRING)}
           F == {Failure("Undecodable")}
<1>1. \A k \in p..q, name \in Seq(STRING) : GoesTo(b, p, q, out, k, name) => out \in G
    <2>1. \A k \in p..q, name \in Seq(STRING) : Parsed(ParserAt(b, k, name), <<>>, SubSeq(b, k + 1, q)) \in G
        OBVIOUS
    <2> HIDE DEF G
    <2> QED BY <2>1, Zenon DEF GoesTo
<1>2. Tells(b, p, q, out) => out \in E
    <2>1. \A k \in (p + 1)..q, name \in Seq(STRING) :
              Parsed(ParserAt(b, k, <<>>), <<EventAt(b, k, name)>>, SubSeq(b, k + 1, q)) \in E
        OBVIOUS
    <2> HIDE DEF E
    <2> QED BY <2>1, Zenon DEF Tells, TellsAt
<1>3. Fails(b, p, q, out) => out \in F
    BY Zenon DEF Fails
<1>4. out \in Outs(b, p, q) <=> out \in F \cup G \cup E /\ Stands(b, p, q, out)
    BY DEF Outs
<1> HIDE DEF F, G, E
<1> QED BY <1>1, <1>2, <1>3, <1>4, Zenon DEF Stands

(* SseParser::decode, wherever the body is cut: it gives up where it must,   *)
(* tells of the first event that has data, or has read it all.               *)
THEOREM DecodeSseAt ==
    ASSUME NEW b \in Seq(STRING), NEW p \in 0..Len(b), NEW q \in p..Len(b), NEW name \in Seq(STRING),
           Clean(b, 0, p)
    PROVE  LET out == DecodeSse(ParserAt(b, p, name), SubSeq(b, p + 1, q)) IN
           \/ Fails(b, p, q, out) \/ Tells(b, p, q, out)
           \/ \E n \in Seq(STRING) : GoesTo(b, p, q, out, q, n)
<1> DEFINE P == ParserAt(b, p, name)
           in == SubSeq(b, p + 1, q)
           base == Parsed(P, <<>>, in)
           T == Outs(b, p, q)
<1>0. Len(b) \in Nat /\ Len(in) = q - p /\ p \in p..q /\ q - p \in Nat
    BY Part
<1>1. GoesTo(b, p, q, base, p, name)
    <2>1. (p + 1)..p = {}
        BY <1>0
    <2>2. Clean(b, p, p) /\ Quiet(b, p, p)
        BY <2>1 DEF Clean, Quiet
    <2> QED BY <2>2, Zenon DEF GoesTo
<1>2. base \in T
    BY <1>0, <1>1, OutsAre, Zenon DEF Stands
<1> HIDE DEF P, in, base
<1> DEFINE n == q - p
           Is(f) == f = [i \in 0..Len(in) |-> IF i = 0 THEN Parsed(P, <<>>, in) ELSE Turn(f[i - 1])]
           after == CHOOSE f : Is(f)
<1>3. DecodeSse(P, in) = after[Len(in)]
    BY Zenon DEF DecodeSse
<1>4. ASSUME NEW t \in T PROVE Turn(t) \in T
    <2>1. Stands(b, p, q, t)
        BY OutsAre, Zenon
    <2>2. Stands(b, p, q, Turn(t))
        <3>1. CASE Fails(b, p, q, t) \/ Tells(b, p, q, t)
            <4>1. Turn(t) = t
                BY <3>1, AnyTurn
            <4> QED BY <2>1, <4>1
        <3>2. CASE \E k \in p..q, nm \in Seq(STRING) : GoesTo(b, p, q, t, k, nm)
            <4>1. PICK k \in p..q, nm \in Seq(STRING) : GoesTo(b, p, q, t, k, nm)
                BY <3>2
            <4>2. \/ Fails(b, p, q, Turn(t)) \/ Tells(b, p, q, Turn(t))
                  \/ k = q /\ Turn(t) = t
                  \/ \E m \in (k + 1)..q, nn \in Seq(STRING) : GoesTo(b, p, q, Turn(t), m, nn)
                BY <4>1, AnyTurn
            <4>3. \A m \in (k + 1)..q : m \in p..q
                BY <1>0
            <4> QED BY <2>1, <4>2, <4>3, Zenon DEF Stands
        <3> QED BY <2>1, <3>1, <3>2, Zenon DEF Stands
    <2> QED BY <2>2, OutsAre, Zenon
<1>5. \E f : Is(f)
    <2> DEFINE step == [i \in 1..n |-> [t \in T |-> Turn(t)]]
    <2>1. step \in [1..n -> [T -> T]]
        <3> HIDE DEF T
        <3> QED BY <1>4
    <2>2. \A i \in 1..n, t \in T : step[i][t] = Turn(t)
        <3> HIDE DEF T
        <3> QED OBVIOUS
    <2> HIDE DEF step, T
    <2>3. PICK f : IsChain(f, T, base, n, step)
        BY <1>0, <1>2, <2>1, ChainExists
    <2>4. f \in [0..n -> T] /\ f[0] = base /\ \A i \in 1..n : f[i] = step[i][f[i - 1]]
        BY <2>3, Zenon DEF IsChain
    <2>5. \A i \in 1..n : f[i] = Turn(f[i - 1])
        <3>1. \A i \in 1..n : i - 1 \in 0..n
            BY <1>0
        <3>2. \A i \in 1..n : f[i - 1] \in T
            BY <2>4, <3>1
        <3> QED BY <2>2, <2>4, <3>2
    <2>6. f = [i \in 0..n |-> f[i]]
        BY <2>4
    <2>7. \A i \in 0..n : i # 0 => i \in 1..n
        BY <1>0
    <2>8. \A i \in 0..n : f[i] = IF i = 0 THEN base ELSE Turn(f[i - 1])
        BY <2>4, <2>5, <2>7, Zenon
    <2>9. Len(in) = n
        BY <1>0
    <2> HIDE DEF n
    <2>10. f = [i \in 0..Len(in) |-> IF i = 0 THEN base ELSE Turn(f[i - 1])]
        BY <2>6, <2>8, <2>9
    <2>11. Is(f)
        BY <2>10 DEF base
    <2> HIDE DEF Is
    <2> QED BY <2>11
<1>6. Is(after)
    BY <1>5, Zenon
<1> HIDE DEF after
<1>7. after[0] = base /\ \A i \in 1..n : after[i] = Turn(after[i - 1])
    <2>1. after = [i \in 0..n |-> IF i = 0 THEN base ELSE Turn(after[i - 1])]
        BY <1>0, <1>6 DEF base
    <2>2. \A i \in 0..n : after[i] = IF i = 0 THEN base ELSE Turn(after[i - 1])
        BY <2>1
    <2>3. 0 \in 0..n /\ \A i \in 1..n : i \in 0..n /\ i # 0
        BY <1>0
    <2> QED BY <2>2, <2>3, Zenon
<1> HIDE DEF Is
<1> DEFINE Reached(i) == \/ Fails(b, p, q, after[i]) \/ Tells(b, p, q, after[i])
                         \/ \E k \in (p + i)..q, nm \in Seq(STRING) : GoesTo(b, p, q, after[i], k, nm)
           S == {i \in 0..n : Reached(i) \/ \E nm \in Seq(STRING) : GoesTo(b, p, q, after[i], q, nm)}
<1>8. 0 \in S
    <2>1. p \in (p + 0)..q /\ 0 \in 0..n
        BY <1>0
    <2> QED BY <1>1, <1>7, <2>1
<1>9. ASSUME NEW i \in 1..n, i - 1 \in S PROVE i \in S
    <2> DEFINE t == after[i - 1]
    <2>0. after[i] = Turn(t) /\ i \in 0..n
        BY <1>0, <1>7
    <2>1. Reached(i - 1) \/ \E nm \in Seq(STRING) : GoesTo(b, p, q, t, q, nm)
        BY <1>9
    <2> HIDE DEF t
    <2>2. CASE Fails(b, p, q, t) \/ Tells(b, p, q, t)
        <3>1. Turn(t) = t
            BY <2>2, AnyTurn
        <3> QED BY <2>0, <2>2, <3>1
    <2>3. CASE \E k \in (p + (i - 1))..q, nm \in Seq(STRING) : GoesTo(b, p, q, t, k, nm)
        <3>1. PICK k \in (p + (i - 1))..q, nm \in Seq(STRING) : GoesTo(b, p, q, t, k, nm)
            BY <2>3
        <3>2. k \in p..q /\ \A m \in (k + 1)..q : m \in (p + i)..q
            BY <1>0
        <3>3. \/ Fails(b, p, q, Turn(t)) \/ Tells(b, p, q, Turn(t))
              \/ k = q /\ Turn(t) = t
              \/ \E m \in (k + 1)..q, nn \in Seq(STRING) : GoesTo(b, p, q, Turn(t), m, nn)
            BY <3>1, <3>2, AnyTurn
        <3> QED BY <2>0, <3>1, <3>2, <3>3
    <2>4. CASE \E nm \in Seq(STRING) : GoesTo(b, p, q, t, q, nm)
        <3>1. PICK nm \in Seq(STRING) : GoesTo(b, p, q, t, q, nm)
            BY <2>4
        <3>2. q \in p..q /\ (q + 1)..q = {}
            BY <1>0
        <3>3. \/ Fails(b, p, q, Turn(t)) \/ Tells(b, p, q, Turn(t))
              \/ q = q /\ Turn(t) = t
              \/ \E m \in (q + 1)..q, nn \in Seq(STRING) : GoesTo(b, p, q, Turn(t), m, nn)
            BY <3>1, <3>2, AnyTurn
        <3> QED BY <2>0, <3>1, <3>2, <3>3
    <2> QED BY <2>1, <2>2, <2>3, <2>4 DEF t
<1>10. n \in S
    <2> HIDE DEF S
    <2>1. \A i \in 0..n : i \in S
        BY <1>0, <1>8, <1>9, Upward
    <2> QED BY <1>0, <2>1
<1>11. (p + n)..q = {q} /\ Len(in) = n
    BY <1>0
<1>12. \/ Fails(b, p, q, after[n]) \/ Tells(b, p, q, after[n])
       \/ \E nm \in Seq(STRING) : GoesTo(b, p, q, after[n], q, nm)
    BY <1>10, <1>11
<1>13. DecodeSse(P, in) = after[n]
    BY <1>3, <1>11
<1> QED BY <1>12, <1>13 DEF P, in

-----------------------------------------------------------------------------
(* The decoder, by what it has read.                                         *)

(* A decoder that has not failed, by its fields; the decoder that has read a *)
(* body up to p.                                                             *)
Decoder(parser, pending, total, terminal) ==
    [parser |-> parser, pending |-> pending, total |-> total, terminal |-> terminal, failed |-> No]

DecoderAt(b, p, name, pending, terminal) == Decoder(ParserAt(b, p, name), pending, p, terminal)

(* Nothing is wrong with a body after p, up to q.                            *)
Fine(b, p, q) == \A i \in (p + 1)..q : i \notin Wrong(b)

(* The deltas a body stands for, up to p.                                    *)
SaidAt(b) == [i \in 1..Len(b) |-> IF Usable(b, i) THEN Says(b, i) ELSE <<>>]

SaidUpTo(b, p) == Joined(SaidAt(b), p)

(* What an event says: a sequence of deltas, and none without data.          *)
LEMMA SaysType ==
    ASSUME NEW b \in Seq(STRING), NEW e \in EventEnds(b)
    PROVE  /\ Says(b, e) \in Seq(STRING)
           /\ ~Speaks(b, e) => Says(b, e) = <<>>
           /\ \A name : Speaks(b, e) => Says(b, e) = DeltasOf(EventAt(b, e, name))
<1> DEFINE s == EventStart(b, e)
           data == DataUpTo(b, s, e - 1)
<1>1. Says(b, e) = IF HasData(b, s, e - 1) THEN DeltasOf([data |-> data]) ELSE <<>>
    BY DataOfEvent
<1>2. \A d : DeltasOf([data |-> d]) = IF d \in DOMAIN Meaning THEN Meaning[d] ELSE <<>>
    BY DEF DeltasOf
<1>3. \A name : DeltasOf(EventAt(b, e, name)) = IF data \in DOMAIN Meaning THEN Meaning[data] ELSE <<>>
    BY DEF DeltasOf, EventAt
<1>4. Speaks(b, e) <=> HasData(b, s, e - 1)
    BY DEF Speaks
<1> HIDE DEF s, data
<1>5. <<>> \in Seq(STRING)
    OBVIOUS
<1>6. Says(b, e) \in Seq(STRING)
    BY <1>1, <1>2, <1>5, MeaningAssumption, Zenon
<1> QED BY <1>1, <1>2, <1>3, <1>4, <1>6, Zenon

(* Where the parser gives up, the body is wrong; where it does not, within   *)
(* the total, only an event can be.                                          *)
LEMMA WrongAt ==
    ASSUME NEW b \in Seq(STRING), NEW i \in 1..Len(b)
    PROVE  /\ Bad(b, i) => i \in Wrong(b)
           /\ i > MaxTotalBytes => i \in Wrong(b)
           /\ i \in EventEnds(b) /\ (Says(b, i) = <<"broken">> \/ Len(Says(b, i)) > MaxPendingDeltas)
                => i \in Wrong(b)
           /\ ~Bad(b, i) /\ ~(i > MaxTotalBytes) /\ ~Speaks(b, i) => i \notin Wrong(b)
           /\ ~Bad(b, i) /\ ~(i > MaxTotalBytes) /\ Says(b, i) # <<"broken">>
                /\ ~(Len(Says(b, i)) > MaxPendingDeltas) => i \notin Wrong(b)
<1>1. i \in Wrong(b) <=> \/ Bad(b, i) \/ i > MaxTotalBytes
                         \/ i \in EventEnds(b)
                            /\ (Says(b, i) = <<"broken">> \/ Len(Says(b, i)) > MaxPendingDeltas)
    BY Zenon DEF Wrong, Bad, TooMuch
<1>2. ~Speaks(b, i) /\ i \in EventEnds(b) => Says(b, i) = <<>>
    BY SaysType
<1>3. <<>> # <<"broken">> /\ ~(Len(<<>>) > MaxPendingDeltas)
    BY LimitAssumption
<1> QED BY <1>1, <1>2, <1>3, Zenon

(* The deltas a body stands for, event by event.                             *)
LEMMA SaidSteps ==
    ASSUME NEW b \in Seq(STRING)
    PROVE  /\ SaidUpTo(b, 0) = <<>>
           /\ \A p \in 0..Len(b) : SaidUpTo(b, p) \in Seq(STRING)
           /\ \A p \in 0..Len(b) : \A q \in p..Len(b) : Quiet(b, p, q) => SaidUpTo(b, q) = SaidUpTo(b, p)
           /\ \A p \in 1..Len(b) : Speaks(b, p) /\ Fine(b, 0, p)
                 => SaidUpTo(b, p) = SaidUpTo(b, p - 1) \o Says(b, p)
           /\ \A p \in 0..Len(b) : \A w \in (p + 1)..Len(b) : Quiet(b, p, w - 1) /\ w \in Wrong(b)
                 => SaidUpTo(b, Len(b)) = SaidUpTo(b, p)
<1> DEFINE F == SaidAt(b)
           n == Len(b)
<1>0. n \in Nat /\ Wrong(b) \subseteq 1..n
    BY DEF Wrong
<1>1. \A i \in 1..n : F[i] = IF Usable(b, i) THEN Says(b, i) ELSE <<>>
    BY DEF SaidAt
<1>2. \A i \in 1..n : Usable(b, i) => Says(b, i) \in Seq(STRING)
    BY SaysType DEF Usable
<1>3. F \in [1..n -> Seq(STRING)]
    <2>1. <<>> \in Seq(STRING)
        OBVIOUS
    <2> QED BY <1>2, <2>1 DEF SaidAt
<1>4. \A i \in 1..n : ~Speaks(b, i) => F[i] = <<>>
    <2>1. \A i \in 1..n : Usable(b, i) /\ ~Speaks(b, i) => Says(b, i) = <<>>
        BY SaysType DEF Usable
    <2> QED BY <1>1, <2>1, Zenon
<1> HIDE DEF F, n
<1>5. /\ Joined(F, 0) = <<>>
      /\ \A p \in 1..n : Joined(F, p) = Joined(F, p - 1) \o F[p]
      /\ \A p \in 0..n : Joined(F, p) \in Seq(STRING)
    BY <1>0, <1>3, JoinedChain
<1>6. \A p \in 0..n : \A q \in p..n : (\A l \in (p + 1)..q : F[l] = <<>>) => Joined(F, q) = Joined(F, p)
    <2>1. Skips(F, n)
        BY <1>0, <1>3, JoinedSkip
    <2> QED BY <2>1 DEF Skips
<1>7. \A p \in 0..n : \A q \in p..n : Quiet(b, p, q) => Joined(F, q) = Joined(F, p)
    <2> SUFFICES ASSUME NEW p \in 0..n, NEW q \in p..n, Quiet(b, p, q) PROVE Joined(F, q) = Joined(F, p)
        OBVIOUS
    <2>1. \A l \in (p + 1)..q : l \in 1..n /\ ~Speaks(b, l)
        BY <1>0 DEF Quiet
    <2>2. \A l \in (p + 1)..q : F[l] = <<>>
        BY <1>4, <2>1
    <2> QED BY <1>6, <2>2
<1>8. \A p \in 1..n : Speaks(b, p) /\ Fine(b, 0, p) => Joined(F, p) = Joined(F, p - 1) \o Says(b, p)
    <2> SUFFICES ASSUME NEW p \in 1..n, Speaks(b, p), Fine(b, 0, p)
                 PROVE  Joined(F, p) = Joined(F, p - 1) \o Says(b, p)
        OBVIOUS
    <2>1. \A w \in Wrong(b) : p < w
        BY <1>0 DEF Fine
    <2>2. Usable(b, p)
        BY <2>1 DEF Usable, Speaks
    <2> QED BY <1>1, <1>5, <2>2, Zenon
<1>9. \A p \in 0..n : \A w \in (p + 1)..n : Quiet(b, p, w - 1) /\ w \in Wrong(b) => Joined(F, n) = Joined(F, p)
    <2> SUFFICES ASSUME NEW p \in 0..n, NEW w \in (p + 1)..n, Quiet(b, p, w - 1), w \in Wrong(b)
                 PROVE  Joined(F, n) = Joined(F, p)
        OBVIOUS
    <2>1. \A l \in (p + 1)..n : F[l] = <<>>
        <3> SUFFICES ASSUME NEW l \in (p + 1)..n PROVE F[l] = <<>>
            OBVIOUS
        <3>0. l \in 1..n
            BY <1>0
        <3>1. CASE l < w
            <4>1. l \in (p + 1)..(w - 1)
                BY <1>0, <3>1
            <4> QED BY <1>4, <3>0, <4>1 DEF Quiet
        <3>2. CASE ~(l < w)
            BY <1>1, <3>0, <3>2 DEF Usable
        <3> QED BY <3>1, <3>2
    <2>2. n \in p..n
        BY <1>0
    <2> QED BY <1>6, <2>1, <2>2
<1> QED BY <1>5, <1>7, <1>8, <1>9, Zenon DEF F, n, SaidUpTo

(* A decoder with other fields, as the code changes them.                    *)
WithPending(r, v)   == [r EXCEPT !.pending = v]
WithParser(r, v, w) == [r EXCEPT !.parser = v, !.total = w]
WithQueue(r, v, w)  == [r EXCEPT !.pending = v, !.terminal = w]

(* They are decoders by their fields again.                                  *)
LEMMA DecoderChanges ==
    /\ \A parser, pending, total, terminal, v :
          WithPending(Decoder(parser, pending, total, terminal), v) = Decoder(parser, v, total, terminal)
    /\ \A parser, pending, total, terminal, v, w :
          WithParser(Decoder(parser, pending, total, terminal), v, w) = Decoder(v, pending, w, terminal)
    /\ \A parser, pending, total, terminal, v, w :
          WithQueue(Decoder(parser, pending, total, terminal), v, w) = Decoder(parser, v, total, w)
<1>1. \A parser, pending, total, terminal, v :
          WithPending(Decoder(parser, pending, total, terminal), v) = Decoder(parser, v, total, terminal)
    BY DEF Decoder, WithPending
<1>2. ASSUME NEW parser, NEW pending, NEW total, NEW terminal, NEW v, NEW w
      PROVE  WithParser(Decoder(parser, pending, total, terminal), v, w) = Decoder(v, pending, w, terminal)
    <2> DEFINE P == Decoder(parser, pending, total, terminal)
               p == [P EXCEPT !.parser = v]
               q == WithParser(P, v, w)
    <2>1. p = Decoder(v, pending, total, terminal) /\ q = [p EXCEPT !.total = w]
        BY DEF Decoder, WithParser
    <2> HIDE DEF p, q
    <2>2. q = Decoder(v, pending, w, terminal)
        BY <2>1 DEF Decoder
    <2> QED BY <2>2 DEF q
<1>3. ASSUME NEW parser, NEW pending, NEW total, NEW terminal, NEW v, NEW w
      PROVE  WithQueue(Decoder(parser, pending, total, terminal), v, w) = Decoder(parser, v, total, w)
    <2> DEFINE P == Decoder(parser, pending, total, terminal)
               p == [P EXCEPT !.pending = v]
               q == WithQueue(P, v, w)
    <2>1. p = Decoder(parser, v, total, terminal) /\ q = [p EXCEPT !.terminal = w]
        BY DEF Decoder, WithQueue
    <2> HIDE DEF p, q
    <2>2. q = Decoder(parser, v, total, w)
        BY <2>1 DEF Decoder
    <2> QED BY <2>2 DEF q
<1> QED BY <1>1, <1>2, <1>3

-----------------------------------------------------------------------------
(* StreamDecoder::decode, from one position to another.                      *)

(* What decoding may come to, read from p on: the body is wrong and the      *)
(* decoder says so, it reads on, or it gives the first delta of an event.    *)
Breaks(b, p, q, out) ==
    /\ \E k \in p..q, name \in Seq(STRING) :
          out = Fused(DecoderAt(b, k, name, <<>>, No), SubSeq(b, k + 1, q), "Undecodable")
    /\ Wrong(b) # {} /\ SaidUpTo(b, Len(b)) = SaidUpTo(b, p)

ReadsTo(b, p, q, out, k, name) ==
    /\ out = NoDelta(DecoderAt(b, k, name, <<>>, No), SubSeq(b, k + 1, q))
    /\ Fine(b, p, k) /\ SaidUpTo(b, k) = SaidUpTo(b, p)

GivesAt(b, p, q, out, k) ==
    /\ out = Delta(DecoderAt(b, k, <<>>, Says(b, k), IsTerminal(Says(b, k))), SubSeq(b, k + 1, q))
    /\ Fine(b, p, k) /\ SaidUpTo(b, k) = SaidUpTo(b, p) \o Says(b, k)
    /\ Says(b, k) \in Seq(STRING) /\ Says(b, k) # <<>>

Gives(b, p, q, out) == \E k \in (p + 1)..q : GivesAt(b, p, q, out, k)

(* What is fine is within the total, and the parser finds nothing bad in it. *)
LEMMA FineTotal ==
    ASSUME NEW b \in Seq(STRING), NEW p \in 0..Len(b), Fine(b, 0, p)
    PROVE  p <= MaxTotalBytes /\ Clean(b, 0, p)
<1>0. Len(b) \in Nat /\ MaxTotalBytes \in Nat
    BY LimitAssumption
<1>1. p <= MaxTotalBytes
    <2>1. p # 0 => ~(p > MaxTotalBytes)
        <3>1. p # 0 => p \in (0 + 1)..p /\ p \in 1..Len(b)
            BY <1>0
        <3> QED BY <3>1, WrongAt DEF Fine
    <2> QED BY <1>0, <2>1
<1>2. Clean(b, 0, p)
    <2>1. \A i \in (0 + 1)..p : i \in 1..Len(b)
        BY <1>0
    <2> QED BY <2>1, WrongAt, Zenon DEF Clean, Fine
<1> QED BY <1>1, <1>2

(* Within the total, what is clean and quiet is fine.                        *)
LEMMA QuietFine ==
    ASSUME NEW b \in Seq(STRING), NEW p \in 0..Len(b), NEW q \in p..Len(b), q <= MaxTotalBytes,
           Clean(b, p, q), Quiet(b, p, q)
    PROVE  Fine(b, p, q)
<1>0. Len(b) \in Nat /\ MaxTotalBytes \in Nat
    BY LimitAssumption
<1>1. \A i \in (p + 1)..q : i \in 1..Len(b) /\ ~(i > MaxTotalBytes)
    BY <1>0
<1> QED BY <1>1, WrongAt, Zenon DEF Clean, Quiet, Fine

(* The turn of the decoder's loop, by what it calls.                         *)
TakenAs(D0, in, event, rest, next, deltas) ==
    IF event = <<>>
    THEN IF rest # <<>> /\ next.total = MaxTotalBytes THEN Fused(D0, in, "Undecodable") ELSE NoDelta(next, rest)
    ELSE IF deltas = <<"broken">> \/ Len(deltas) > MaxPendingDeltas THEN Fused(D0, in, "Undecodable")
    ELSE IF deltas # <<>>
    THEN Delta(WithQueue(next, next.pending \o deltas, IsTerminal(deltas)), rest)
    ELSE NoDelta(WithQueue(next, next.pending \o deltas, IsTerminal(deltas)), rest)

Takes(at, D0, in, view, parsed) ==
    LET used == Len(view) - Len(parsed.rest) IN
    /\ (in # <<>> /\ view = <<>>) \/ ~parsed.ok => TakeEvent(at) = Fused(D0, in, "Undecodable")
    /\ ~(in # <<>> /\ view = <<>>) /\ parsed.ok =>
          TakeEvent(at) = TakenAs(D0, in, parsed.event, SubSeq(in, used + 1, Len(in)),
                                  WithParser(D0, parsed.parser, D0.total + used), DeltasOf(parsed.event[1]))

(* A turn takes an event, or what the parser left, that way.                 *)
LEMMA EventTaken ==
    \A at : Takes(at, at.decoder, at.rest, Bounded(at.decoder, at.rest),
                  DecodeSse(at.decoder.parser, Bounded(at.decoder, at.rest)))
<1> SUFFICES ASSUME NEW at
             PROVE  Takes(at, at.decoder, at.rest, Bounded(at.decoder, at.rest),
                          DecodeSse(at.decoder.parser, Bounded(at.decoder, at.rest)))
    OBVIOUS
<1> DEFINE D0 == at.decoder
           in == at.rest
           view == Bounded(D0, in)
           parsed == DecodeSse(D0.parser, view)
           used == IF parsed.ok THEN Len(view) - Len(parsed.rest) ELSE 0
           rest == SubSeq(in, used + 1, Len(in))
           next == WithParser(D0, parsed.parser, D0.total + used)
           deltas == DeltasOf(parsed.event[1])
<1>1. TakeEvent(at) =
          IF in # <<>> /\ view = <<>> THEN Fused(D0, in, "Undecodable")
          ELSE IF ~parsed.ok THEN Fused(D0, in, "Undecodable")
          ELSE TakenAs(D0, in, parsed.event, rest, next, deltas)
    BY Zenon DEF TakeEvent, WithParser, WithQueue, TakenAs
<1> HIDE DEF view, parsed
<1>5. parsed.ok => used = Len(view) - Len(parsed.rest)
    BY Zenon
<1> HIDE DEF deltas, used
<1>6. parsed.ok => /\ rest = SubSeq(in, (Len(view) - Len(parsed.rest)) + 1, Len(in))
                   /\ next = WithParser(D0, parsed.parser, D0.total + (Len(view) - Len(parsed.rest)))
    BY <1>5, Zenon
<1> HIDE DEF rest, next
<1>7. Takes(at, D0, in, view, parsed)
    BY <1>1, <1>6, Zenon DEF Takes, deltas
<1> QED BY <1>7 DEF view, parsed

(* A turn of the decoder's loop: the body is wrong, it is read on, or the    *)
(* deltas of its next event are there.                                       *)
LEMMA TakeEventAt ==
    ASSUME NEW b \in Seq(STRING), NEW p \in 0..Len(b), NEW q \in (p + 1)..Len(b), NEW name \in Seq(STRING),
           Fine(b, 0, p)
    PROVE  LET out == TakeEvent(NoDelta(DecoderAt(b, p, name, <<>>, No), SubSeq(b, p + 1, q))) IN
           \/ Breaks(b, p, q, out) \/ Gives(b, p, q, out)
           \/ \E k \in (p + 1)..q, n \in Seq(STRING) : ReadsTo(b, p, q, out, k, n)
<1> DEFINE D0 == DecoderAt(b, p, name, <<>>, No)
           in == SubSeq(b, p + 1, q)
           at == NoDelta(D0, in)
           out == TakeEvent(at)
           m == IF q < MaxTotalBytes THEN q ELSE MaxTotalBytes
           view == SubSeq(b, p + 1, m)
           P == ParserAt(b, p, name)
           parsed == DecodeSse(P, view)
           fused == Fused(D0, in, "Undecodable")
<1>0. /\ Len(b) \in Nat /\ q \in p..Len(b) /\ p < q /\ MaxTotalBytes \in Nat
      /\ p <= MaxTotalBytes /\ Clean(b, 0, p)
    BY FineTotal, LimitAssumption
<1>1. /\ m \in p..q /\ m \in p..Len(b) /\ m \in 0..Len(b) /\ m <= MaxTotalBytes
      /\ m # q => m = MaxTotalBytes
    BY <1>0
<1>2. D0.parser = P /\ D0.total = p /\ D0.pending = <<>>
    BY DEF DecoderAt, Decoder
<1>3. /\ in \in Seq(STRING) /\ Len(in) = q - p
      /\ \A c \in p..q : SubSeq(in, 1, c - p) = SubSeq(b, p + 1, c)
      /\ \A c \in p..q : SubSeq(in, (c - p) + 1, Len(in)) = SubSeq(b, c + 1, q)
    BY <1>0, Part
<1>4. \A c \in p..m : Len(SubSeq(b, c + 1, m)) = m - c
    <2> HIDE DEF m
    <2> SUFFICES ASSUME NEW c \in p..m PROVE Len(SubSeq(b, c + 1, m)) = m - c
        OBVIOUS
    <2>1. c \in 0..Len(b) /\ m \in c..Len(b)
        BY <1>0, <1>1
    <2> QED BY <2>1, Part
<1>5. at.decoder = D0 /\ at.rest = in
    BY DEF NoDelta
<1>6. Len(view) = m - p /\ in # <<>>
    <2>1. p \in p..m
        BY <1>1
    <2> QED BY <1>0, <1>3, <1>4, <2>1
<1>w. \A x : WithParser(D0, x, p) = Decoder(x, <<>>, p, No)
    BY DecoderChanges DEF DecoderAt
<1>x. \A x, y : WithParser(D0, x, y) = Decoder(x, <<>>, y, No)
    BY DecoderChanges DEF DecoderAt
<1>7. out = fused /\ Wrong(b) # {} /\ SaidUpTo(b, Len(b)) = SaidUpTo(b, p) => Breaks(b, p, q, out)
    <2>1. p \in p..q
        BY <1>0
    <2> HIDE DEF out
    <2> QED BY <2>1, Zenon DEF Breaks
<1> HIDE DEF D0, in, at, m, P
<1>8. view = Bounded(D0, in)
    <2>1. D0.total = p /\ Bounded(D0, in) =
              SubSeq(in, 1, IF Len(in) < MaxTotalBytes - D0.total THEN Len(in) ELSE MaxTotalBytes - D0.total)
        BY <1>2 DEF Bounded
    <2>2. (IF Len(in) < MaxTotalBytes - p THEN Len(in) ELSE MaxTotalBytes - p) = m - p
        BY <1>0, <1>3 DEF m
    <2>3. Bounded(D0, in) = SubSeq(in, 1, m - p)
        BY <2>1, <2>2
    <2> QED BY <1>1, <1>3, <2>3
<1> HIDE DEF view
<1>9. \/ Fails(b, p, m, parsed) \/ Tells(b, p, m, parsed)
      \/ \E n \in Seq(STRING) : GoesTo(b, p, m, parsed, m, n)
    BY <1>0, <1>1, DecodeSseAt DEF view, P
<1>10. parsed = DecodeSse(D0.parser, view)
    BY <1>2
<1> HIDE DEF parsed
<1>11. /\ (in # <<>> /\ view = <<>>) \/ ~parsed.ok => out = fused
       /\ ~(in # <<>> /\ view = <<>>) /\ parsed.ok =>
             LET used == Len(view) - Len(parsed.rest) IN
             out = TakenAs(D0, in, parsed.event, SubSeq(in, used + 1, Len(in)),
                           WithParser(D0, parsed.parser, D0.total + used), DeltasOf(parsed.event[1]))
    <2>1. Takes(at, D0, in, view, parsed)
        BY <1>5, <1>8, <1>10, EventTaken, Zenon
    <2> QED BY <2>1, Zenon DEF Takes, fused
<1> HIDE DEF out, fused
<1>s. SUFFICES \/ Breaks(b, p, q, out) \/ Gives(b, p, q, out)
               \/ \E k \in (p + 1)..q, n \in Seq(STRING) : ReadsTo(b, p, q, out, k, n)
    BY Zenon DEF out, at, D0, in
<1>12. ASSUME NEW w \in (p + 1)..Len(b), w \in Wrong(b), Quiet(b, p, w - 1), out = fused
       PROVE  Breaks(b, p, q, out)
    <2>1. SaidUpTo(b, Len(b)) = SaidUpTo(b, p)
        BY <1>12, SaidSteps
    <2> QED BY <1>7, <1>12, <2>1
<1>13. CASE view = <<>>
    <2>1. m = p /\ p + 1 \in (p + 1)..Len(b) /\ p + 1 \in 1..Len(b) /\ p + 1 > MaxTotalBytes
        <3>1. m = p
            BY <1>1, <1>6, <1>13
        <3> QED BY <1>0, <1>1, <3>1
    <2>2. p + 1 \in Wrong(b)
        BY <2>1, WrongAt
    <2>3. Quiet(b, p, (p + 1) - 1)
        <3>1. (p + 1)..((p + 1) - 1) = {}
            BY <1>0
        <3> QED BY <3>1 DEF Quiet
    <2>4. out = fused
        BY <1>6, <1>11, <1>13, Zenon
    <2> QED BY <1>12, <2>1, <2>2, <2>3, <2>4
<1>14. CASE view # <<>> /\ Fails(b, p, m, parsed)
    <2>1. PICK w \in (p + 1)..m : Bad(b, w) /\ Quiet(b, p, w - 1)
        BY <1>14, Zenon DEF Fails
    <2>2. ~parsed.ok
        BY <1>14 DEF Fails, Failure
    <2>3. w \in (p + 1)..Len(b) /\ w \in 1..Len(b)
        BY <1>0, <1>1
    <2>4. w \in Wrong(b)
        BY <2>1, <2>3, WrongAt
    <2>5. out = fused
        BY <1>11, <2>2, Zenon
    <2> QED BY <1>12, <2>1, <2>3, <2>4, <2>5
<1>15. CASE view # <<>> /\ \E n \in Seq(STRING) : GoesTo(b, p, m, parsed, m, n)
    <2>1. PICK n \in Seq(STRING) : GoesTo(b, p, m, parsed, m, n)
        BY <1>15
    <2>2. parsed = Parsed(ParserAt(b, m, n), <<>>, SubSeq(b, m + 1, m)) /\ Clean(b, p, m) /\ Quiet(b, p, m)
        BY <2>1, Zenon DEF GoesTo
    <2>3. parsed.ok = TRUE /\ parsed.event = <<>> /\ parsed.parser = ParserAt(b, m, n)
          /\ parsed.rest = SubSeq(b, m + 1, m)
        BY <2>2 DEF Parsed
    <2>4. Len(view) - Len(parsed.rest) = m - p
        <3>1. m \in p..m
            BY <1>1
        <3>2. Len(SubSeq(b, m + 1, m)) = m - m
            BY <1>4, <3>1
        <3> QED BY <1>1, <1>6, <2>3, <3>2
    <2> DEFINE rest == SubSeq(b, m + 1, q)
               next == DecoderAt(b, m, n, <<>>, No)
    <2>5. out = TakenAs(D0, in, <<>>, rest, next, DeltasOf(parsed.event[1]))
        <3>1. SubSeq(in, (m - p) + 1, Len(in)) = rest
            BY <1>1, <1>3
        <3>2. D0.total + (m - p) = m
            BY <1>1, <1>2
        <3>3. WithParser(D0, ParserAt(b, m, n), m) = next
            BY <1>x, Zenon DEF DecoderAt
        <3> HIDE DEF rest, next
        <3> QED BY <1>6, <1>11, <1>15, <2>3, <2>4, <3>1, <3>2, <3>3, Zenon
    <2>6. next.total = m
        BY DEF DecoderAt, Decoder
    <2>7. out = IF rest # <<>> /\ m = MaxTotalBytes THEN fused ELSE NoDelta(next, rest)
        BY <2>5, <2>6, Zenon DEF TakenAs, fused
    <2>8. CASE m # q
        <3>1. rest # <<>> /\ m = MaxTotalBytes /\ m + 1 \in (p + 1)..Len(b) /\ m + 1 \in 1..Len(b)
              /\ m + 1 > MaxTotalBytes
            <4>1. m \in 0..Len(b) /\ q \in m..Len(b)
                BY <1>0, <1>1
            <4>2. Len(rest) = q - m
                BY <4>1, Part
            <4> QED BY <1>0, <1>1, <2>8, <4>2
        <3>2. m + 1 \in Wrong(b)
            BY <3>1, WrongAt
        <3>3. (m + 1) - 1 = m
            BY <1>1
        <3>4. Quiet(b, p, (m + 1) - 1)
            BY <2>2, <3>3
        <3>5. out = fused
            BY <2>7, <3>1, Zenon
        <3> QED BY <1>12, <3>1, <3>2, <3>4, <3>5
    <2>9. CASE m = q
        <3>1. rest = <<>> /\ q \in (p + 1)..q
            <4>1. q \in 0..Len(b) /\ q \in q..Len(b)
                BY <1>0
            <4>2. Len(SubSeq(b, q + 1, q)) = q - q
                BY <4>1, Part
            <4>3. rest = SubSeq(b, q + 1, q)
                BY <2>9
            <4>4. SubSeq(b, q + 1, q) \in Seq(STRING)
                BY <4>1, Part
            <4> HIDE DEF rest
            <4> QED BY <1>0, <4>2, <4>3, <4>4
        <3>2. out = NoDelta(next, rest)
            BY <2>7, <3>1, Zenon
        <3>3. Fine(b, p, m)
            BY <1>1, <2>2, QuietFine
        <3>4. SaidUpTo(b, m) = SaidUpTo(b, p)
            BY <1>1, <2>2, SaidSteps
        <3>5. ReadsTo(b, p, q, out, q, n)
            BY <2>9, <3>2, <3>3, <3>4, Zenon DEF ReadsTo
        <3> QED BY <3>1, <3>5
    <2> QED BY <2>8, <2>9
<1>16. CASE view # <<>> /\ Tells(b, p, m, parsed)
    <2>1. PICK k \in (p + 1)..m, n \in Seq(STRING) : TellsAt(b, p, m, parsed, k, n)
        BY <1>16, Zenon DEF Tells
    <2>2. /\ parsed = Parsed(ParserAt(b, k, <<>>), <<EventAt(b, k, n)>>, SubSeq(b, k + 1, m))
          /\ Clean(b, p, k) /\ Quiet(b, p, k - 1) /\ Speaks(b, k)
        BY <2>1, Zenon DEF TellsAt
    <2>3. parsed.ok = TRUE /\ parsed.event = <<EventAt(b, k, n)>> /\ parsed.parser = ParserAt(b, k, <<>>)
          /\ parsed.rest = SubSeq(b, k + 1, m)
        BY <2>2 DEF Parsed
    <2>4. /\ k \in p..m /\ k \in p..q /\ k \in (p + 1)..q /\ k \in (p + 1)..Len(b) /\ k \in 1..Len(b)
          /\ k <= MaxTotalBytes /\ k \in EventEnds(b) /\ k - 1 \in p..Len(b)
        BY <1>0, <1>1, <2>2 DEF Speaks
    <2> DEFINE deltas == Says(b, k)
               rest == SubSeq(b, k + 1, q)
               next == DecoderAt(b, k, <<>>, <<>>, No)
               queued == DecoderAt(b, k, <<>>, deltas, IsTerminal(deltas))
    <2>5. Len(view) - Len(parsed.rest) = k - p
        <3>1. Len(SubSeq(b, k + 1, m)) = m - k
            BY <1>4, <2>4
        <3>2. Len(parsed.rest) = m - k
            BY <2>3, <3>1, Zenon
        <3>3. Len(view) = m - p
            BY <1>6
        <3>4. (m - p) - (m - k) = k - p
            BY <1>1, <2>4
        <3> QED BY <3>2, <3>3, <3>4, Zenon
    <2>6. deltas \in Seq(STRING) /\ deltas = DeltasOf(EventAt(b, k, n))
        BY <2>2, <2>4, SaysType
    <2>7. out = TakenAs(D0, in, <<EventAt(b, k, n)>>, rest, next, deltas)
        <3>1. SubSeq(in, (k - p) + 1, Len(in)) = rest
            BY <1>3, <2>4
        <3>2. D0.total + (k - p) = k
            BY <1>2, <2>4
        <3>3. WithParser(D0, ParserAt(b, k, <<>>), k) = next
            BY <1>x, Zenon DEF DecoderAt
        <3>4. DeltasOf(parsed.event[1]) = deltas
            <4>1. parsed.event[1] = EventAt(b, k, n)
                BY <2>3
            <4> QED BY <2>6, <4>1
        <3> HIDE DEF rest, next, deltas
        <3> QED BY <1>6, <1>11, <1>16, <2>3, <2>5, <3>1, <3>2, <3>3, <3>4, Zenon
    <2>8. WithQueue(next, next.pending \o deltas, IsTerminal(deltas)) = queued
        <3>1. next.pending = <<>>
            BY DEF DecoderAt, Decoder
        <3>2. <<>> \o deltas = deltas
            <4> HIDE DEF deltas
            <4> QED BY <2>6, ConcatEmptySeq
        <3>3. \A v, w : WithQueue(next, v, w) = DecoderAt(b, k, <<>>, v, w)
            BY DecoderChanges DEF DecoderAt
        <3> HIDE DEF next, deltas
        <3> QED BY <3>1, <3>2, <3>3, Zenon
    <2>9. <<EventAt(b, k, n)>> # <<>>
        OBVIOUS
    <2> HIDE DEF next, queued
    <2>10. out = IF deltas = <<"broken">> \/ Len(deltas) > MaxPendingDeltas THEN fused
                 ELSE IF deltas # <<>> THEN Delta(queued, rest) ELSE NoDelta(queued, rest)
        BY <2>7, <2>8, <2>9, Zenon DEF TakenAs, fused
    <2>11. CASE deltas = <<"broken">> \/ Len(deltas) > MaxPendingDeltas
        <3>1. k \in Wrong(b)
            BY <2>4, <2>11, WrongAt
        <3>2. out = fused
            BY <2>10, <2>11, Zenon
        <3> QED BY <1>12, <2>2, <2>4, <3>1, <3>2
    <2>12. CASE deltas # <<"broken">> /\ ~(Len(deltas) > MaxPendingDeltas)
        <3>0. Fine(b, p, k)
            <4>1. Fine(b, p, k - 1)
                <5>1. Clean(b, p, k - 1)
                    <6>1. \A i \in (p + 1)..(k - 1) : i \in (p + 1)..k
                        BY <1>0, <2>4
                    <6> QED BY <2>2, <6>1 DEF Clean
                <5>2. k - 1 <= MaxTotalBytes
                    BY <1>0, <2>4
                <5> QED BY <2>2, <2>4, <5>1, <5>2, QuietFine
            <4>2. k \notin Wrong(b)
                <5>1. ~Bad(b, k)
                    <6>1. k \in (p + 1)..k
                        BY <2>4
                    <6> QED BY <2>2, <6>1 DEF Clean
                <5>2. ~(k > MaxTotalBytes)
                    BY <1>0, <2>4
                <5> QED BY <2>4, <2>12, <5>1, <5>2, WrongAt
            <4>3. \A i \in (p + 1)..k : i \in (p + 1)..(k - 1) \/ i = k
                BY <1>0, <2>4
            <4> QED BY <4>1, <4>2, <4>3 DEF Fine
        <3>1. Fine(b, 0, k)
            <4>1. \A i \in (0 + 1)..k : i \in (0 + 1)..p \/ i \in (p + 1)..k
                BY <1>0, <2>4
            <4> QED BY <3>0, <4>1 DEF Fine
        <3>2. SaidUpTo(b, k) = SaidUpTo(b, p) \o deltas
            <4>1. SaidUpTo(b, k - 1) = SaidUpTo(b, p)
                BY <2>2, <2>4, SaidSteps
            <4>2. SaidUpTo(b, k) = SaidUpTo(b, k - 1) \o Says(b, k)
                BY <2>2, <2>4, <3>1, SaidSteps
            <4> QED BY <4>1, <4>2
        <3>3. CASE deltas # <<>>
            <4>1. out = Delta(queued, rest)
                BY <2>10, <2>12, <3>3, Zenon
            <4>2. GivesAt(b, p, q, out, k)
                BY <2>6, <3>0, <3>2, <3>3, <4>1, Zenon DEF GivesAt, queued
            <4> QED BY <2>4, <4>2, Zenon DEF Gives
        <3>4. CASE deltas = <<>>
            <4>1. out = NoDelta(queued, rest)
                BY <2>10, <2>12, <3>4, Zenon
            <4>2. queued = DecoderAt(b, k, <<>>, <<>>, No)
                <5>1. IsTerminal(<<>>) = No
                    BY DEF IsTerminal, Contains, No
                <5> QED BY <3>4, <5>1, Zenon DEF queued
            <4>3. SaidUpTo(b, k) = SaidUpTo(b, p)
                <5>1. SaidUpTo(b, p) \o <<>> = SaidUpTo(b, p)
                    <6>1. SaidUpTo(b, p) \in Seq(STRING)
                        BY SaidSteps
                    <6> QED BY <6>1, ConcatEmptySeq
                <5> QED BY <3>2, <3>4, <5>1, Zenon
            <4>4. ReadsTo(b, p, q, out, k, <<>>)
                BY <3>0, <4>1, <4>2, <4>3, Zenon DEF ReadsTo
            <4>5. <<>> \in Seq(STRING)
                OBVIOUS
            <4> QED BY <2>4, <4>4, <4>5
        <3> QED BY <3>3, <3>4
    <2> QED BY <2>11, <2>12
<1> QED BY <1>9, <1>13, <1>14, <1>15, <1>16

(* The loop of the decoder.                                                  *)
Again(at) == IF at.delta # <<>> \/ at.error # <<>> \/ at.rest = <<>> THEN at ELSE TakeEvent(at)

(* Decoding on from k what was decoded from p.                               *)
LEMMA DecodeOn ==
    ASSUME NEW b \in Seq(STRING), NEW p \in 0..Len(b), NEW k \in p..Len(b), NEW q \in k..Len(b), NEW out,
           Fine(b, p, k), SaidUpTo(b, k) = SaidUpTo(b, p)
    PROVE  /\ Breaks(b, k, q, out) => Breaks(b, p, q, out)
           /\ Gives(b, k, q, out) => Gives(b, p, q, out)
           /\ \A m \in k..q : \A name : ReadsTo(b, k, q, out, m, name) => ReadsTo(b, p, q, out, m, name)
<1>0. Len(b) \in Nat
    OBVIOUS
<1>1. \A m \in Int : Fine(b, k, m) => Fine(b, p, m)
    <2>1. \A m \in Int : \A i \in (p + 1)..m : i \in (p + 1)..k \/ i \in (k + 1)..m
        BY <1>0
    <2> QED BY <2>1 DEF Fine
<1>2. \A m \in (k + 1)..q : m \in (p + 1)..q /\ m \in Int
    BY <1>0
<1>3. \A m \in k..q : m \in Int /\ m \in p..q
    BY <1>0
<1>4. Breaks(b, k, q, out) => Breaks(b, p, q, out)
    BY <1>3, Zenon DEF Breaks
<1>5. Gives(b, k, q, out) => Gives(b, p, q, out)
    BY <1>1, <1>2, Zenon DEF Gives, GivesAt
<1>6. \A m \in k..q : \A name : ReadsTo(b, k, q, out, m, name) => ReadsTo(b, p, q, out, m, name)
    BY <1>1, <1>3, Zenon DEF ReadsTo
<1> QED BY <1>4, <1>5, <1>6

(* What has ended stays, and the rest goes on.                               *)
LEMMA AnyAgain ==
    ASSUME NEW b \in Seq(STRING), NEW p \in 0..Len(b), NEW q \in p..Len(b), Fine(b, 0, p), NEW at
    PROVE  /\ Breaks(b, p, q, at) \/ Gives(b, p, q, at) => Again(at) = at
           /\ \A k \in p..q, name \in Seq(STRING) : ReadsTo(b, p, q, at, k, name) =>
                 \/ Breaks(b, p, q, Again(at)) \/ Gives(b, p, q, Again(at))
                 \/ k = q /\ Again(at) = at
                 \/ \E m \in (k + 1)..q, n \in Seq(STRING) : ReadsTo(b, p, q, Again(at), m, n)
<1>0. Len(b) \in Nat /\ \A x : <<x>> # <<>>
    OBVIOUS
<1>1. Breaks(b, p, q, at) => Again(at) = at
    <2> SUFFICES ASSUME NEW d, NEW r, at = Fused(d, r, "Undecodable") PROVE Again(at) = at
        BY Zenon DEF Breaks
    <2>1. at.error = <<"Undecodable">>
        BY DEF Fused
    <2> QED BY <1>0, <2>1, Zenon DEF Again
<1>2. Gives(b, p, q, at) => Again(at) = at
    <2> SUFFICES ASSUME NEW d, NEW r, at = Delta(d, r) PROVE Again(at) = at
        BY Zenon DEF Gives, GivesAt
    <2>1. at.delta = <<Head(d.pending)>>
        BY DEF Delta
    <2> QED BY <1>0, <2>1, Zenon DEF Again
<1>3. ASSUME NEW k \in p..q, NEW name \in Seq(STRING), ReadsTo(b, p, q, at, k, name)
      PROVE  \/ Breaks(b, p, q, Again(at)) \/ Gives(b, p, q, Again(at))
             \/ k = q /\ Again(at) = at
             \/ \E m \in (k + 1)..q, n \in Seq(STRING) : ReadsTo(b, p, q, Again(at), m, n)
    <2> DEFINE D == DecoderAt(b, k, name, <<>>, No)
               in == SubSeq(b, k + 1, q)
    <2>1. at = NoDelta(D, in) /\ Fine(b, p, k) /\ SaidUpTo(b, k) = SaidUpTo(b, p)
        BY <1>3 DEF ReadsTo
    <2>2. k \in 0..Len(b) /\ k \in p..Len(b) /\ q \in k..Len(b)
        BY <1>0
    <2>3. at.delta = <<>> /\ at.error = <<>> /\ at.rest = in
        BY <2>1 DEF NoDelta
    <2>4. Len(in) = q - k /\ in \in Seq(STRING)
        BY <2>2, Part
    <2>5. CASE k = q
        <3>1. in = <<>>
            BY <1>0, <2>4, <2>5
        <3>2. Again(at) = at
            BY <2>3, <3>1, Zenon DEF Again
        <3> QED BY <2>5, <3>2
    <2>6. CASE k # q
        <3>1. q \in (k + 1)..Len(b) /\ in # <<>>
            BY <1>0, <2>4, <2>6
        <3>2. Fine(b, 0, k)
            <4>1. \A i \in (0 + 1)..k : i \in (0 + 1)..p \/ i \in (p + 1)..k
                BY <1>0
            <4> QED BY <2>1, <4>1 DEF Fine
        <3>3. Again(at) = TakeEvent(NoDelta(D, in))
            BY <2>1, <2>3, <3>1, Zenon DEF Again
        <3>4. \/ Breaks(b, k, q, Again(at)) \/ Gives(b, k, q, Again(at))
              \/ \E m \in (k + 1)..q, n \in Seq(STRING) : ReadsTo(b, k, q, Again(at), m, n)
            BY <2>2, <3>1, <3>2, <3>3, TakeEventAt
        <3>5. CASE Breaks(b, k, q, Again(at)) \/ Gives(b, k, q, Again(at))
            BY <2>1, <2>2, <3>5, DecodeOn
        <3>6. CASE \E m \in (k + 1)..q, n \in Seq(STRING) : ReadsTo(b, k, q, Again(at), m, n)
            <4>1. PICK m \in (k + 1)..q, n \in Seq(STRING) : ReadsTo(b, k, q, Again(at), m, n)
                BY <3>6
            <4>2. m \in k..q
                BY <1>0
            <4>3. ReadsTo(b, p, q, Again(at), m, n)
                BY <2>1, <2>2, <4>1, <4>2, DecodeOn
            <4> QED BY <4>3
        <3> QED BY <3>4, <3>5, <3>6
    <2> QED BY <2>5, <2>6
<1> QED BY <1>1, <1>2, <1>3

(* What the turns may come to, and the set of it.                            *)
Holds(b, p, q, out) ==
    \/ Breaks(b, p, q, out) \/ Gives(b, p, q, out)
    \/ \E k \in p..q, name \in Seq(STRING) : ReadsTo(b, p, q, out, k, name)

Givens(b, p, q) ==
    {x \in {Fused(DecoderAt(b, k, name, <<>>, No), SubSeq(b, k + 1, q), "Undecodable")
                : k \in p..q, name \in Seq(STRING)}
           \cup {NoDelta(DecoderAt(b, k, name, <<>>, No), SubSeq(b, k + 1, q)) : k \in p..q, name \in Seq(STRING)}
           \cup {Delta(DecoderAt(b, k, <<>>, Says(b, k), IsTerminal(Says(b, k))), SubSeq(b, k + 1, q))
                    : k \in (p + 1)..q} : Holds(b, p, q, x)}

(* The set holds just what may come.                                         *)
LEMMA GivensAre ==
    ASSUME NEW b, NEW p, NEW q, NEW out
    PROVE  out \in Givens(b, p, q) <=> Holds(b, p, q, out)
<1> DEFINE F == {Fused(DecoderAt(b, k, name, <<>>, No), SubSeq(b, k + 1, q), "Undecodable")
                   : k \in p..q, name \in Seq(STRING)}
           G == {NoDelta(DecoderAt(b, k, name, <<>>, No), SubSeq(b, k + 1, q)) : k \in p..q, name \in Seq(STRING)}
           E == {Delta(DecoderAt(b, k, <<>>, Says(b, k), IsTerminal(Says(b, k))), SubSeq(b, k + 1, q))
                   : k \in (p + 1)..q}
<1>1. \A k \in p..q, name \in Seq(STRING) : ReadsTo(b, p, q, out, k, name) => out \in G
    <2>1. \A k \in p..q, name \in Seq(STRING) :
              NoDelta(DecoderAt(b, k, name, <<>>, No), SubSeq(b, k + 1, q)) \in G
        OBVIOUS
    <2> HIDE DEF G
    <2> QED BY <2>1, Zenon DEF ReadsTo
<1>2. Breaks(b, p, q, out) => out \in F
    <2>1. \A k \in p..q, name \in Seq(STRING) :
              Fused(DecoderAt(b, k, name, <<>>, No), SubSeq(b, k + 1, q), "Undecodable") \in F
        OBVIOUS
    <2> HIDE DEF F
    <2> QED BY <2>1, Zenon DEF Breaks
<1>3. Gives(b, p, q, out) => out \in E
    BY Zenon DEF Gives, GivesAt
<1>4. out \in Givens(b, p, q) <=> out \in F \cup G \cup E /\ Holds(b, p, q, out)
    BY DEF Givens
<1> HIDE DEF F, G, E
<1> QED BY <1>1, <1>2, <1>3, <1>4, Zenon DEF Holds

(* StreamDecoder::decode of a decoder that has nothing left to give,         *)
(* wherever the body is cut: the body is wrong, there is a delta, or it has  *)
(* been read to the cut.                                                     *)
THEOREM DecodedAt ==
    ASSUME NEW b \in Seq(STRING), NEW p \in 0..Len(b), NEW q \in p..Len(b), NEW name \in Seq(STRING),
           Fine(b, 0, p)
    PROVE  LET out == Decoded(DecoderAt(b, p, name, <<>>, No), SubSeq(b, p + 1, q)) IN
           \/ Breaks(b, p, q, out) \/ Gives(b, p, q, out)
           \/ \E n \in Seq(STRING) : ReadsTo(b, p, q, out, q, n)
<1> DEFINE P == DecoderAt(b, p, name, <<>>, No)
           in == SubSeq(b, p + 1, q)
           base == NoDelta(P, in)
           T == Givens(b, p, q)
<1>0. Len(b) \in Nat /\ Len(in) = q - p /\ p \in p..q /\ q - p \in Nat
    BY Part
<1>1. ReadsTo(b, p, q, base, p, name)
    <2>1. (p + 1)..p = {}
        BY <1>0
    <2>2. Fine(b, p, p)
        BY <2>1 DEF Fine
    <2> QED BY <2>2, Zenon DEF ReadsTo
<1>2. base \in T
    BY <1>0, <1>1, GivensAre, Zenon DEF Holds
<1> HIDE DEF P, in, base
<1> DEFINE n == q - p
           Is(f) == f = [i \in 0..Len(in) |-> IF i = 0 THEN NoDelta(P, in) ELSE Again(f[i - 1])]
           after == CHOOSE f : Is(f)
<1>3. Decoded(P, in) = after[Len(in)]
    <2>1. ~P.failed /\ P.pending = <<>> /\ ~P.terminal
        BY DEF P, DecoderAt, Decoder, No
    <2> QED BY <2>1, Zenon DEF Decoded, Again
<1>4. ASSUME NEW t \in T PROVE Again(t) \in T
    <2>1. Holds(b, p, q, t)
        BY GivensAre, Zenon
    <2>2. Holds(b, p, q, Again(t))
        <3>1. CASE Breaks(b, p, q, t) \/ Gives(b, p, q, t)
            <4>1. Again(t) = t
                BY <3>1, AnyAgain
            <4> QED BY <2>1, <4>1
        <3>2. CASE \E k \in p..q, nm \in Seq(STRING) : ReadsTo(b, p, q, t, k, nm)
            <4>1. PICK k \in p..q, nm \in Seq(STRING) : ReadsTo(b, p, q, t, k, nm)
                BY <3>2
            <4>2. \/ Breaks(b, p, q, Again(t)) \/ Gives(b, p, q, Again(t))
                  \/ k = q /\ Again(t) = t
                  \/ \E m \in (k + 1)..q, nn \in Seq(STRING) : ReadsTo(b, p, q, Again(t), m, nn)
                BY <4>1, AnyAgain
            <4>3. \A m \in (k + 1)..q : m \in p..q
                BY <1>0
            <4> QED BY <2>1, <4>2, <4>3, Zenon DEF Holds
        <3> QED BY <2>1, <3>1, <3>2, Zenon DEF Holds
    <2> QED BY <2>2, GivensAre, Zenon
<1>5. \E f : Is(f)
    <2> DEFINE step == [i \in 1..n |-> [t \in T |-> Again(t)]]
    <2>1. step \in [1..n -> [T -> T]]
        <3> HIDE DEF T
        <3> QED BY <1>4
    <2>2. \A i \in 1..n, t \in T : step[i][t] = Again(t)
        <3> HIDE DEF T
        <3> QED OBVIOUS
    <2> HIDE DEF step, T
    <2>3. PICK f : IsChain(f, T, base, n, step)
        BY <1>0, <1>2, <2>1, ChainExists
    <2>4. f \in [0..n -> T] /\ f[0] = base /\ \A i \in 1..n : f[i] = step[i][f[i - 1]]
        BY <2>3, Zenon DEF IsChain
    <2>5. \A i \in 1..n : f[i] = Again(f[i - 1])
        <3>1. \A i \in 1..n : i - 1 \in 0..n
            BY <1>0
        <3>2. \A i \in 1..n : f[i - 1] \in T
            BY <2>4, <3>1
        <3> QED BY <2>2, <2>4, <3>2
    <2>6. f = [i \in 0..n |-> f[i]]
        BY <2>4
    <2>7. \A i \in 0..n : i # 0 => i \in 1..n
        BY <1>0
    <2>8. \A i \in 0..n : f[i] = IF i = 0 THEN base ELSE Again(f[i - 1])
        BY <2>4, <2>5, <2>7, Zenon
    <2>9. Len(in) = n
        BY <1>0
    <2> HIDE DEF n
    <2>10. f = [i \in 0..Len(in) |-> IF i = 0 THEN base ELSE Again(f[i - 1])]
        BY <2>6, <2>8, <2>9
    <2>11. Is(f)
        BY <2>10 DEF base
    <2> HIDE DEF Is
    <2> QED BY <2>11
<1>6. Is(after)
    BY <1>5, Zenon
<1> HIDE DEF after
<1>7. after[0] = base /\ \A i \in 1..n : after[i] = Again(after[i - 1])
    <2>1. after = [i \in 0..n |-> IF i = 0 THEN base ELSE Again(after[i - 1])]
        BY <1>0, <1>6 DEF base
    <2>2. \A i \in 0..n : after[i] = IF i = 0 THEN base ELSE Again(after[i - 1])
        BY <2>1
    <2>3. 0 \in 0..n /\ \A i \in 1..n : i \in 0..n /\ i # 0
        BY <1>0
    <2> QED BY <2>2, <2>3, Zenon
<1> HIDE DEF Is
<1> DEFINE Reached(i) == \/ Breaks(b, p, q, after[i]) \/ Gives(b, p, q, after[i])
                         \/ \E k \in (p + i)..q, nm \in Seq(STRING) : ReadsTo(b, p, q, after[i], k, nm)
           S == {i \in 0..n : Reached(i) \/ \E nm \in Seq(STRING) : ReadsTo(b, p, q, after[i], q, nm)}
<1>8. 0 \in S
    <2>1. p \in (p + 0)..q /\ 0 \in 0..n
        BY <1>0
    <2> QED BY <1>1, <1>7, <2>1
<1>9. ASSUME NEW i \in 1..n, i - 1 \in S PROVE i \in S
    <2> DEFINE t == after[i - 1]
    <2>0. after[i] = Again(t) /\ i \in 0..n
        BY <1>0, <1>7
    <2>1. Reached(i - 1) \/ \E nm \in Seq(STRING) : ReadsTo(b, p, q, t, q, nm)
        BY <1>9
    <2> HIDE DEF t
    <2>2. CASE Breaks(b, p, q, t) \/ Gives(b, p, q, t)
        <3>1. Again(t) = t
            BY <2>2, AnyAgain
        <3> QED BY <2>0, <2>2, <3>1
    <2>3. CASE \E k \in (p + (i - 1))..q, nm \in Seq(STRING) : ReadsTo(b, p, q, t, k, nm)
        <3>1. PICK k \in (p + (i - 1))..q, nm \in Seq(STRING) : ReadsTo(b, p, q, t, k, nm)
            BY <2>3
        <3>2. k \in p..q /\ \A m \in (k + 1)..q : m \in (p + i)..q
            BY <1>0
        <3>3. \/ Breaks(b, p, q, Again(t)) \/ Gives(b, p, q, Again(t))
              \/ k = q /\ Again(t) = t
              \/ \E m \in (k + 1)..q, nn \in Seq(STRING) : ReadsTo(b, p, q, Again(t), m, nn)
            BY <3>1, <3>2, AnyAgain
        <3> QED BY <2>0, <3>1, <3>2, <3>3
    <2>4. CASE \E nm \in Seq(STRING) : ReadsTo(b, p, q, t, q, nm)
        <3>1. PICK nm \in Seq(STRING) : ReadsTo(b, p, q, t, q, nm)
            BY <2>4
        <3>2. q \in p..q /\ (q + 1)..q = {}
            BY <1>0
        <3>3. \/ Breaks(b, p, q, Again(t)) \/ Gives(b, p, q, Again(t))
              \/ q = q /\ Again(t) = t
              \/ \E m \in (q + 1)..q, nn \in Seq(STRING) : ReadsTo(b, p, q, Again(t), m, nn)
            BY <3>1, <3>2, AnyAgain
        <3> QED BY <2>0, <3>1, <3>2, <3>3
    <2> QED BY <2>1, <2>2, <2>3, <2>4 DEF t
<1>10. n \in S
    <2> HIDE DEF S
    <2>1. \A i \in 0..n : i \in S
        BY <1>0, <1>8, <1>9, Upward
    <2> QED BY <1>0, <2>1
<1>11. (p + n)..q = {q} /\ Len(in) = n
    BY <1>0
<1>12. \/ Breaks(b, p, q, after[n]) \/ Gives(b, p, q, after[n])
       \/ \E nm \in Seq(STRING) : ReadsTo(b, p, q, after[n], q, nm)
    BY <1>10, <1>11
<1>13. Decoded(P, in) = after[n]
    BY <1>3, <1>11
<1> QED BY <1>12, <1>13 DEF P, in

-----------------------------------------------------------------------------
(* The deltas a body stands for.                                             *)

(* What comes first, up to the last delta of a call.                         *)
LEMMA UpToDone ==
    ASSUME NEW x \in Seq(STRING), NEW z \in Seq(STRING), ~Contains(x, "done")
    PROVE  LET s == x \o z IN
           /\ ToDone(s) \in Seq(STRING) /\ IsPrefix(x, ToDone(s))
           /\ z = <<>> => ToDone(s) = x
           /\ z # <<>> /\ z[1] = "done" => ToDone(s) = Append(x, "done")
           /\ z # <<>> /\ z[1] = "done" => Contains(ToDone(s), "done")
<1> DEFINE s == x \o z
           ends == {i \in 1..Len(s) : s[i] = "done"}
           m == Min(ends)
<1>0. /\ s \in Seq(STRING) /\ Len(x) \in Nat /\ Len(z) \in Nat /\ Len(s) = Len(x) + Len(z)
      /\ \A i \in 1..Len(x) : s[i] = x[i]
      /\ z # <<>> => Len(z) > 0 /\ s[Len(x) + 1] = z[1]
      /\ z = <<>> => s = x
    OBVIOUS
<1>1. SubSeq(s, 1, Len(x)) = x
    <2> HIDE DEF s
    <2>1. SubSeq(s, 1, Len(x)) \in Seq(STRING) /\ Len(SubSeq(s, 1, Len(x))) = Len(x)
        BY <1>0
    <2>2. \A i \in 1..Len(x) : SubSeq(s, 1, Len(x))[i] = x[i]
        BY <1>0
    <2> QED BY <2>1, <2>2, SeqEqual
<1>2. \A i \in ends : i > Len(x)
    BY <1>0 DEF Contains
<1>3. ToDone(s) = IF ends = {} THEN s ELSE SubSeq(s, 1, m)
    BY Zenon DEF ToDone
<1>4. ends # {} => m \in ends /\ \A y \in ends : m <= y
    <2>1. ends \in SUBSET Nat
        BY <1>0
    <2> HIDE DEF ends
    <2>2. ends # {} => \E k \in ends : \A y \in ends : k <= y
        BY <2>1, LeastElement
    <2>3. ends # {} => m \in ends /\ \A y \in ends : m <= y
        BY <2>2 DEF Min
    <2> QED BY <2>3
<1>5. CASE ends = {}
    <2>1. ToDone(s) = s
        BY <1>3, <1>5, Zenon
    <2>2. z # <<>> => z[1] # "done"
        BY <1>0, <1>5
    <2>3. SubSeq(x, 1, Len(x)) = x /\ Len(x) <= Len(s)
        BY <1>0
    <2> HIDE DEF s, ends
    <2>4. IsPrefix(x, s)
        BY <1>1, <2>3, Zenon DEF IsPrefix
    <2> QED BY <1>0, <2>1, <2>2, <2>4 DEF s
<1>6. CASE ends # {}
    <2>1. m \in 1..Len(s) /\ s[m] = "done" /\ m > Len(x)
        BY <1>2, <1>4, <1>6
    <2>2. ToDone(s) = SubSeq(s, 1, m)
        BY <1>3, <1>6, Zenon
    <2>3. z # <<>>
        <3> HIDE DEF s, m, ends
        <3> QED BY <1>0, <2>1
    <2> DEFINE t == SubSeq(s, 1, m)
    <2> HIDE DEF s
    <2>4. /\ t \in Seq(STRING) /\ Len(t) = m
          /\ \A i \in 1..m : t[i] = s[i]
          /\ SubSeq(t, 1, Len(x)) = SubSeq(s, 1, Len(x))
        <3> HIDE DEF m
        <3> QED BY <1>0, <2>1
    <2>5. IsPrefix(x, t)
        <3>1. SubSeq(x, 1, Len(x)) = x /\ Len(x) <= Len(t)
            BY <1>0, <2>1, <2>4
        <3> HIDE DEF t, m
        <3> QED BY <1>1, <2>4, <3>1, Zenon DEF IsPrefix
    <2>6. ASSUME z[1] = "done" PROVE t = Append(x, "done") /\ Contains(t, "done")
        <3>1. Len(x) + 1 \in ends
            BY <1>0, <2>3, <2>6
        <3>2. m = Len(x) + 1
            BY <1>0, <1>4, <1>6, <2>1, <3>1
        <3> DEFINE a == Append(x, "done")
                   V == STRING \cup {"done"}
        <3>9. x \in Seq(V) /\ t \in Seq(V) /\ "done" \in V
            BY <2>4, SeqMonotonic
        <3> HIDE DEF V
        <3>3. /\ a \in Seq(V) /\ Len(a) = Len(x) + 1 /\ a[Len(x) + 1] = "done"
              /\ \A i \in 1..Len(x) : a[i] = x[i]
            BY <3>9, AppendProperties
        <3> HIDE DEF t, a
        <3>6. t[Len(x) + 1] = "done" /\ Len(x) + 1 \in 1..Len(t)
            BY <1>0, <2>1, <2>4, <3>1, <3>2
        <3> HIDE DEF m
        <3>4. \A i \in 1..Len(t) : t[i] = a[i]
            <4>1. \A i \in 1..Len(t) : i \in 1..Len(x) \/ i = Len(x) + 1
                BY <1>0, <2>4, <3>2
            <4>2. \A i \in 1..Len(x) : t[i] = x[i]
                BY <1>0, <2>4, <3>2
            <4> QED BY <3>3, <3>6, <4>1, <4>2
        <3>5. t = a
            BY <2>4, <3>2, <3>3, <3>4, <3>9, SeqEqual
        <3>7. Contains(t, "done")
            BY <3>6, Zenon DEF Contains
        <3> QED BY <3>5, <3>7 DEF a
    <2> HIDE DEF t, m
    <2> QED BY <2>2, <2>3, <2>4, <2>5, <2>6 DEF s, t
<1> QED BY <1>5, <1>6

(* A delta of one of two sequences is a delta of both together.              *)
LEMMA ContainsEither ==
    ASSUME NEW x \in Seq(STRING), NEW z \in Seq(STRING), NEW d
    PROVE  Contains(x \o z, d) <=> Contains(x, d) \/ Contains(z, d)
<1> DEFINE s == x \o z
<1>0. /\ Len(x) \in Nat /\ Len(z) \in Nat /\ Len(s) = Len(x) + Len(z)
      /\ \A i \in 1..Len(x) : s[i] = x[i]
      /\ \A i \in 1..Len(z) : s[Len(x) + i] = z[i]
      /\ \A i \in 1..Len(s) : i > Len(x) => s[i] = z[i - Len(x)]
    OBVIOUS
<1> HIDE DEF s
<1>1. ASSUME Contains(s, d) PROVE Contains(x, d) \/ Contains(z, d)
    <2>1. PICK i \in 1..Len(s) : s[i] = d
        BY <1>1, Zenon DEF Contains
    <2>2. i > Len(x) => i - Len(x) \in 1..Len(z)
        BY <1>0
    <2>3. ~(i > Len(x)) => i \in 1..Len(x)
        BY <1>0
    <2> QED BY <1>0, <2>1, <2>2, <2>3 DEF Contains
<1>2. ASSUME Contains(x, d) \/ Contains(z, d) PROVE Contains(s, d)
    <2>1. \A i \in 1..Len(x) : i \in 1..Len(s)
        BY <1>0
    <2>2. \A i \in 1..Len(z) : Len(x) + i \in 1..Len(s)
        BY <1>0
    <2>3. CASE Contains(x, d)
        BY <1>0, <2>1, <2>3, Zenon DEF Contains
    <2>4. CASE Contains(z, d)
        BY <1>0, <2>2, <2>4, Zenon DEF Contains
    <2> QED BY <1>2, <2>3, <2>4
<1> QED BY <1>1, <1>2 DEF s

(* What a body stands for up to p is the beginning of all that it stands for.*)
LEMMA SaidWhole ==
    ASSUME NEW b \in Seq(STRING), NEW p \in 0..Len(b)
    PROVE  \E z \in Seq(STRING) : SaidUpTo(b, Len(b)) = SaidUpTo(b, p) \o z
<1> DEFINE F == SaidAt(b)
           n == Len(b)
           S == {k \in 0..n : k <= p \/ \E z \in Seq(STRING) : Joined(F, k) = Joined(F, p) \o z}
<1>0. n \in Nat
    OBVIOUS
<1>1. F \in [1..n -> Seq(STRING)]
    <2>1. <<>> \in Seq(STRING)
        OBVIOUS
    <2>2. \A i \in 1..n : Usable(b, i) => Says(b, i) \in Seq(STRING)
        BY SaysType DEF Usable
    <2> QED BY <2>1, <2>2 DEF SaidAt
<1> HIDE DEF F, n
<1>2. /\ \A k \in 1..n : Joined(F, k) = Joined(F, k - 1) \o F[k]
      /\ \A k \in 0..n : Joined(F, k) \in Seq(STRING)
    BY <1>0, <1>1, JoinedChain
<1>3. p \in 0..n
    BY DEF n
<1>4. Joined(F, p) \in Seq(STRING) /\ Joined(F, p) = Joined(F, p) \o <<>> /\ <<>> \in Seq(STRING)
    BY <1>2, <1>3, ConcatEmptySeq, EmptySeq
<1>5. 0 \in S
    BY <1>0, <1>3
<1>6. ASSUME NEW k \in 1..n, k - 1 \in S PROVE k \in S
    <2>0. k \in 0..n /\ k - 1 \in 0..n /\ (k - 1 <= p => k <= p \/ k - 1 = p)
        BY <1>0, <1>3
    <2>1. CASE k - 1 <= p /\ k <= p
        BY <2>0, <2>1
    <2>2. CASE k - 1 = p
        <3>1. Joined(F, k) = Joined(F, p) \o F[k] /\ F[k] \in Seq(STRING)
            BY <1>1, <1>2, <2>2
        <3> QED BY <2>0, <3>1
    <2>3. CASE \E z \in Seq(STRING) : Joined(F, k - 1) = Joined(F, p) \o z
        <3>1. PICK z \in Seq(STRING) : Joined(F, k - 1) = Joined(F, p) \o z
            BY <2>3
        <3>2. F[k] \in Seq(STRING)
            BY <1>1
        <3>3. Joined(F, k) = (Joined(F, p) \o z) \o F[k]
            BY <1>2, <3>1
        <3> DEFINE x == Joined(F, p)
                   y == F[k]
        <3>4. (x \o z) \o y = x \o (z \o y) /\ z \o y \in Seq(STRING)
            <4>1. x \in Seq(STRING) /\ y \in Seq(STRING)
                BY <1>4, <3>2
            <4> HIDE DEF x, y
            <4> QED BY <4>1
        <3> QED BY <2>0, <3>3, <3>4
    <2> QED BY <1>6, <2>0, <2>1, <2>2, <2>3
<1>7. n \in S
    <2> HIDE DEF S
    <2>1. \A k \in 0..n : k \in S
        BY <1>0, <1>5, <1>6, Upward
    <2> QED BY <1>0, <2>1
<1>8. \E z \in Seq(STRING) : Joined(F, n) = Joined(F, p) \o z
    <2>1. n <= p => n = p
        BY <1>0, <1>3
    <2> QED BY <1>4, <1>7, <2>1
<1> QED BY <1>8, Zenon DEF F, n, SaidUpTo

-----------------------------------------------------------------------------
(* What holds of a stream at every step.                                     *)

(* All the deltas of a body, and the end, as they are stated for a response. *)
LEMMA SaidByServer ==
    ASSUME server \in Responses
    PROVE  LET b == server.body  all == ToDone(SaidUpTo(b, Len(b))) IN
           Said[b].deltas = all /\ Said[b].end = EndSaid(b, all)
<1> DEFINE b == server.body
           all == ToDone(SaidUpTo(b, Len(b)))
           bodies == {response.body : response \in Responses}
<1>1. b \in bodies
    OBVIOUS
<1>2. Said[b] = [deltas |-> DeltasSaid(b), end |-> EndSaid(b, DeltasSaid(b))]
    <2> HIDE DEF b
    <2> QED BY <1>1 DEF Said
<1>3. DeltasSaid(b) = all
    <2> HIDE DEF b
    <2> DEFINE F == SaidAt(b)
               n == Len(b)
               G == [i \in 1..n |-> IF Usable(b, i) THEN Says(b, i) ELSE <<>>]
    <2>1. SaidUpTo(b, n) = FlattenSeq([l \in 1..n |-> F[l]])
        BY Zenon DEF SaidUpTo, Joined
    <2>2. F = G /\ [l \in 1..n |-> F[l]] = F
        BY DEF SaidAt
    <2>3. DeltasSaid(b) = ToDone(FlattenSeq(G))
        BY Zenon DEF DeltasSaid
    <2> HIDE DEF F, G, n
    <2>4. DeltasSaid(b) = ToDone(SaidUpTo(b, n))
        BY <2>1, <2>2, <2>3, Zenon
    <2> QED BY <2>4 DEF n
<1> HIDE DEF b, all
<1>4. Said[b].deltas = all /\ Said[b].end = EndSaid(b, all)
    BY <1>2, <1>3
<1> QED BY <1>4 DEF b, all

(* What has been taken from the decoder.                                     *)
Taken == IF pc = "decoded" THEN delivered \o decoded.delta ELSE delivered

(* The call has read its body b up to p and has it up to m, and what it has  *)
(* taken and what is pending are the deltas that b stands for up to p.       *)
Alive(b, p, m, name, pend, term) ==
    /\ decoder = DecoderAt(b, p, name, pend, term) /\ Fine(b, 0, p)
    /\ unsent = SubSeq(b, m + 1, Len(b))
    /\ ~term => chunk = SubSeq(b, p + 1, m)
    /\ Taken \o pend = SaidUpTo(b, p)
    /\ term <=> Contains(SaidUpTo(b, p), "done")
    /\ pc = "decoded" => /\ decoded.error = <<>> /\ decoded.delta \in Seq(STRING)
                         /\ decoded.delta = <<>> => pend = <<>>
                         /\ decoded.delta # <<>> => decoded.delta = <<decoded.delta[1]>>
    /\ pc = "waiting" => pend = <<>> /\ chunk = <<>> /\ ~term
    /\ pc \in {"idle", "polling", "decoded", "waiting"} /\ ~open => term

(* The call has found its body wrong, and has taken all that it stands for.  *)
Dead(b) ==
    /\ pc = "decoded" /\ decoded.delta = <<>> /\ decoded.error = <<"Undecodable">>
    /\ Wrong(b) # {} /\ delivered = SaidUpTo(b, Len(b))

Lives(b) ==
    \E p \in 0..Len(b) : \E m \in p..Len(b), name \in Seq(STRING), pend \in Seq(STRING), term \in BOOLEAN :
        Alive(b, p, m, name, pend, term)

StreamInv ==
    IsStream /\ pc # "ended" =>
        /\ delivered \in Seq(STRING) /\ ~Contains(delivered, "done")
        /\ \A b : b = server.body => Dead(b) \/ Lives(b)

EndsWell == pc = "ended" => YieldsWhatWasSent

Streams == IInv /\ StreamInv /\ EndsWell

(* The body of a response is a sequence.                                     *)
LEMMA BodyType == ASSUME IInv PROVE server \in Responses /\ server.body \in Seq(STRING)
BY ServerType DEF IInv, TypeOK

(* What has been taken, with what is pending, goes on from what was          *)
(* delivered.                                                                *)
LEMMA AliveSays ==
    ASSUME NEW b \in Seq(STRING), NEW p \in 0..Len(b), NEW m, NEW name, NEW pend \in Seq(STRING), NEW term,
           delivered \in Seq(STRING), Alive(b, p, m, name, pend, term)
    PROVE  /\ SaidUpTo(b, p) \in Seq(STRING)
           /\ pc # "decoded" => SaidUpTo(b, p) = delivered \o pend
           /\ pc = "decoded" => decoded.delta \in Seq(STRING)
           /\ pc = "decoded" => SaidUpTo(b, p) = delivered \o (decoded.delta \o pend)
           /\ \E y \in Seq(STRING) : SaidUpTo(b, p) = delivered \o y
<1>1. SaidUpTo(b, p) \in Seq(STRING)
    BY SaidSteps
<1>2. Taken \o pend = SaidUpTo(b, p) /\ (pc = "decoded" => decoded.delta \in Seq(STRING))
    BY Zenon DEF Alive
<1>3. ASSUME pc # "decoded" PROVE SaidUpTo(b, p) = delivered \o pend
    BY <1>2, <1>3, Zenon DEF Taken
<1>4. ASSUME pc = "decoded"
      PROVE  SaidUpTo(b, p) = delivered \o (decoded.delta \o pend) /\ decoded.delta \o pend \in Seq(STRING)
    <2> DEFINE d == decoded.delta
    <2>1. d \in Seq(STRING) /\ SaidUpTo(b, p) = (delivered \o d) \o pend
        BY <1>2, <1>4, Zenon DEF Taken
    <2> HIDE DEF d
    <2>2. (delivered \o d) \o pend = delivered \o (d \o pend) /\ d \o pend \in Seq(STRING)
        BY <2>1
    <2> QED BY <2>1, <2>2 DEF d
<1> QED BY <1>1, <1>2, <1>3, <1>4, Zenon

(* A call that has not ended has delivered what comes first.                 *)
LEMMA DeliveredPrefix ==
    ASSUME IInv, StreamInv, IsStream, pc # "ended"
    PROVE  IsPrefix(delivered, ToDone(SaidUpTo(server.body, Len(server.body))))
<1> DEFINE b == server.body
           S == SaidUpTo(b, Len(b))
<1>0. b \in Seq(STRING) /\ delivered \in Seq(STRING) /\ ~Contains(delivered, "done")
    BY BodyType DEF StreamInv
<1>1. Dead(b) \/ Lives(b)
    BY DEF StreamInv
<1> HIDE DEF b
<1>2. \E z \in Seq(STRING) : S = delivered \o z
    <2>1. CASE Dead(b)
        <3>1. S = delivered /\ S = delivered \o <<>> /\ <<>> \in Seq(STRING)
            BY <1>0, <2>1, ConcatEmptySeq, EmptySeq DEF Dead
        <3> QED BY <3>1
    <2>2. CASE Lives(b)
        <3>1. PICK p \in 0..Len(b) : \E m \in p..Len(b), name \in Seq(STRING), pend \in Seq(STRING), term \in BOOLEAN :
                 Alive(b, p, m, name, pend, term)
            BY <2>2, Zenon DEF Lives
        <3>2. PICK m \in p..Len(b), name \in Seq(STRING), pend \in Seq(STRING), term \in BOOLEAN :
                 Alive(b, p, m, name, pend, term)
            BY <3>1
        <3>3. PICK y \in Seq(STRING) : S = SaidUpTo(b, p) \o y
            BY <1>0, SaidWhole
        <3>4. PICK x \in Seq(STRING) : SaidUpTo(b, p) = delivered \o x
            BY <1>0, <3>2, AliveSays
        <3>5. (delivered \o x) \o y = delivered \o (x \o y) /\ x \o y \in Seq(STRING)
            <4>1. \A v \in Seq(STRING) : (v \o x) \o y = v \o (x \o y) /\ x \o y \in Seq(STRING)
                OBVIOUS
            <4> QED BY <1>0, <4>1
        <3>6. S = delivered \o (x \o y)
            BY <3>3, <3>4, <3>5, Zenon
        <3> QED BY <3>5, <3>6
    <2> QED BY <1>1, <2>1, <2>2
<1>3. PICK z \in Seq(STRING) : S = delivered \o z
    BY <1>2
<1>4. IsPrefix(delivered, ToDone(S))
    BY <1>0, <1>3, UpToDone
<1> QED BY <1>4 DEF b

-----------------------------------------------------------------------------
(* The steps that read nothing.                                              *)

(* What a decoder, and what is unread, is left as it was.                    *)
Unread == UNCHANGED <<decoder, chunk, unsent, decoded, delivered>>

(* Before a stream is read, nothing of its body was.                         *)
LEMMA StreamInit == Init => StreamInv /\ EndsWell
<1> SUFFICES ASSUME Init PROVE StreamInv /\ EndsWell
    OBVIOUS
<1> DEFINE b == server.body
<1>0. /\ server \in Responses /\ unsent = b /\ pc = "start" /\ decoder = NewDecoder
      /\ chunk = <<>> /\ delivered = <<>>
    BY DEF Init
<1>1. b \in Seq(STRING)
    BY <1>0, ServerType
<1>2. decoder = DecoderAt(b, 0, <<>>, <<>>, No)
    <2>1. NewParser = ParserAt(b, 0, <<>>)
        BY <1>1, NewParserAt
    <2> HIDE DEF b
    <2>2. NewDecoder = Decoder(NewParser, <<>>, 0, No)
        BY DEF NewDecoder, Decoder, No
    <2> QED BY <1>0, <2>1, <2>2 DEF DecoderAt
<1> HIDE DEF b
<1>3. 0 \in 0..Len(b) /\ (0 + 1)..0 = {} /\ <<>> \in Seq(STRING) /\ No \in BOOLEAN
    BY <1>1 DEF No
<1>4. SubSeq(b, 0 + 1, Len(b)) = b /\ SubSeq(b, 0 + 1, 0) = <<>> /\ <<>> \o <<>> = <<>>
    BY <1>1
<1>5. SaidUpTo(b, 0) = <<>> /\ ~Contains(<<>>, "done") /\ ~No
    BY <1>1, SaidSteps DEF Contains, No
<1>6. Alive(b, 0, 0, <<>>, <<>>, No)
    <2>1. Fine(b, 0, 0)
        BY <1>3, Zenon DEF Fine
    <2>2. Taken = <<>>
        BY <1>0 DEF Taken
    <2>3. No <=> Contains(SaidUpTo(b, 0), "done")
        BY <1>5, Zenon
    <2> QED BY <1>0, <1>2, <1>4, <1>5, <2>1, <2>2, <2>3 DEF Alive
<1>7. Lives(b)
    <2>1. 0 \in 0..Len(b) /\ No \in BOOLEAN /\ <<>> \in Seq(STRING)
        BY <1>3
    <2> QED BY <1>6, <2>1, Zenon DEF Lives
<1> QED BY <1>0, <1>3, <1>5, <1>7 DEF StreamInv, EndsWell, b

(* What is left as it was lives on, where nothing is asked of it.            *)
LEMMA LivesOn ==
    ASSUME NEW b, Lives(b), Unread,
           \/ pc' = pc /\ open' = open
           \/ /\ pc # "decoded" /\ pc' \notin {"decoded", "waiting"}
              /\ pc' \in {"idle", "polling"} => open' \/ (pc \in {"idle", "polling"} /\ open' = open)
    PROVE  Lives(b)'
<1>1. PICK p \in 0..Len(b) : \E m \in p..Len(b), name \in Seq(STRING), pend \in Seq(STRING), term \in BOOLEAN :
         Alive(b, p, m, name, pend, term)
    BY Zenon DEF Lives
<1>2. PICK m \in p..Len(b), name \in Seq(STRING), pend \in Seq(STRING), term \in BOOLEAN :
         Alive(b, p, m, name, pend, term)
    BY <1>1
<1>3. UNCHANGED <<decoder, chunk, unsent, decoded, delivered>>
    BY DEF Unread
<1>4. Taken' = Taken
    BY <1>3 DEF Taken
<1>5. Alive(b, p, m, name, pend, term)'
    <2>1. CASE pc' = pc /\ open' = open
        BY <1>2, <1>3, <1>4, <2>1 DEF Alive
    <2>2. CASE /\ pc # "decoded" /\ pc' \notin {"decoded", "waiting"}
               /\ pc' \in {"idle", "polling"} => open' \/ (pc \in {"idle", "polling"} /\ open' = open)
        <3>1. pc' \in {"idle", "polling", "decoded", "waiting"} /\ ~open' => term
            BY <1>2, <2>2 DEF Alive
        <3>2. /\ decoder' = DecoderAt(b, p, name, pend, term) /\ Fine(b, 0, p)
              /\ unsent' = SubSeq(b, m + 1, Len(b))
              /\ ~term => chunk' = SubSeq(b, p + 1, m)
              /\ Taken' \o pend = SaidUpTo(b, p)
              /\ term <=> Contains(SaidUpTo(b, p), "done")
            BY <1>2, <1>3, <1>4 DEF Alive
        <3> QED BY <2>2, <3>1, <3>2 DEF Alive
    <2> QED BY <2>1, <2>2
<1> QED BY <1>5, Zenon DEF Lives

(* A stream that is interrupted has delivered what comes first.              *)
LEMMA InterruptedStream ==
    ASSUME Streams, Fixed, NEW kind, pc # "ended", pc' = "ended", result' = <<Error(kind)>>,
           kind \in Interruptions', delivered' = delivered
    PROVE  StreamInv' /\ EndsWell'
<1> DEFINE b == server.body
<1>1. StreamInv'
    BY DEF StreamInv
<1>2. IsStream' = IsStream /\ Said' = Said /\ server' = server
    BY DEF Fixed, IsStream
<1>3. ASSUME IsStream PROVE IsPrefix(delivered, Said[b].deltas)
    <2>1. IInv /\ StreamInv /\ server \in Responses
        BY BodyType DEF Streams
    <2>2. IsPrefix(delivered, ToDone(SaidUpTo(b, Len(b))))
        BY <1>3, <2>1, DeliveredPrefix
    <2>3. Said[b].deltas = ToDone(SaidUpTo(b, Len(b)))
        BY <2>1, SaidByServer
    <2> QED BY <2>2, <2>3
<1>4. result'[1].kind = kind
    BY DEF Error
<1>5. IsStream' => IsPrefix(delivered', Said[server'.body].deltas)
    BY <1>2, <1>3
<1> QED BY <1>1, <1>2, <1>4, <1>5 DEF EndsWell, YieldsWhatWasSent

(* A stop is an interruption.                                                *)
LEMMA StoppedStream == ASSUME Streams, StopsHere, pc # "ended" PROVE StreamInv' /\ EndsWell'
<1>1. /\ Stopped /\ pc' = "ended" /\ result' = <<StopError>> /\ delivered' = delivered
      /\ UNCHANGED <<cancelled, expired>> /\ Fixed
    BY DEF StopsHere, EndsWith, control, Fixed
<1>2. CASE cancelled
    <2>1. "Cancelled" \in Interruptions'
        BY <1>1, <1>2 DEF Interruptions
    <2> QED BY <1>1, <1>2, <2>1, InterruptedStream DEF StopError
<1>3. CASE ~cancelled
    <2>1. "TimedOut" \in Interruptions'
        BY <1>1, <1>3 DEF Interruptions, Stopped
    <2> QED BY <1>1, <1>3, <2>1, InterruptedStream DEF StopError
<1> QED BY <1>2, <1>3

(* A step that reads nothing leaves a stream where it was.                   *)
LEMMA StreamKept ==
    ASSUME Streams, Fixed, Unread, pc # "ended", pc' # "ended",
           \/ pc' = pc /\ open' = open
           \/ /\ pc # "decoded" /\ pc' \notin {"decoded", "waiting"}
              /\ pc' \in {"idle", "polling"} => open' \/ (pc \in {"idle", "polling"} /\ open' = open)
    PROVE  StreamInv' /\ EndsWell'
<1>1. EndsWell'
    BY DEF EndsWell
<1>2. ASSUME IsStream PROVE StreamInv'
    <2>1. delivered' \in Seq(STRING) /\ ~Contains(delivered', "done") /\ server' = server
        BY <1>2 DEF Streams, StreamInv, Fixed, Unread
    <2>2. ASSUME NEW b, b = server.body PROVE Dead(b)' \/ Lives(b)'
        <3>1. Dead(b) \/ Lives(b)
            BY <1>2, <2>2, Zenon DEF Streams, StreamInv
        <3>2. Lives(b) => Lives(b)'
            BY LivesOn
        <3>3. Dead(b) => Dead(b)'
            BY DEF Dead, Unread
        <3> QED BY <3>1, <3>2, <3>3
    <2> QED BY <2>1, <2>2 DEF StreamInv
<1>3. ASSUME ~IsStream PROVE StreamInv'
    BY <1>3 DEF StreamInv, Fixed, IsStream
<1> QED BY <1>1, <1>2, <1>3

(* Another answer is no stream after a step either.                          *)
LEMMA NoStream == ASSUME Fixed, ~IsStream PROVE StreamInv' /\ EndsWell'
<1>1. ~IsStream'
    BY DEF Fixed, IsStream
<1> QED BY <1>1 DEF StreamInv, EndsWell, YieldsWhatWasSent

(* What is buffered is not a stream.                                         *)
LEMMA BufferedStream == ASSUME Streams, Buffer \/ Classify PROVE StreamInv' /\ EndsWell'
<1>1. pc = "buffering" /\ Fixed
    BY DEF Buffer, Classify, Arrive, Fixed
<1>2. ~IsStream
    BY <1>1 DEF Streams, IInv, BytesInv
<1> QED BY <1>1, <1>2, NoStream

(* A request, and a stop that is asked for, read nothing.                    *)
LEMMA AskedStream ==
    ASSUME Streams, Cancel \/ Expire \/ Start \/ Render \/ SendRequest PROVE StreamInv' /\ EndsWell'
<1>1. CASE Cancel \/ Expire
    <2>1. Fixed /\ Unread /\ pc # "ended" /\ pc' = pc /\ open' = open
        BY <1>1 DEF Cancel, Expire, Running, Fixed, Unread, network, state
    <2> QED BY <2>1, StreamKept
<1>2. CASE StopsHere /\ (Start \/ SendRequest)
    <2>1. pc # "ended"
        BY <1>2 DEF Start, SendRequest
    <2> QED BY <1>2, <2>1, StoppedStream
<1>3. CASE Render /\ pc' = "ended"
    <2>1. /\ pc = "render" /\ Fixed /\ result' = <<Error("InvalidRequest")>> /\ wire' = wire
          /\ delivered' = delivered
        BY <1>3 DEF Render, EndsWith, Fixed, network
    <2>2. wire = "none"
        BY <2>1 DEF Streams, IInv, BytesInv, Before
    <2>3. "InvalidRequest" \in Interruptions'
        BY <2>1, <2>2 DEF Interruptions
    <2> QED BY <1>3, <2>1, <2>3, InterruptedStream
<1>4. CASE (Render /\ pc' # "ended") \/ (Start /\ ~StopsHere) \/ (SendRequest /\ ~StopsHere)
    <2>1. /\ Fixed /\ Unread /\ pc \in {"start", "render", "rendered"}
          /\ pc' \in {"render", "rendered", "sending"}
        BY <1>4 DEF Render, Start, SendRequest, EndsWith, Fixed, Unread, network, state
    <2> QED BY <2>1, StreamKept
<1> QED BY <1>1, <1>2, <1>3, <1>4 DEF Start, SendRequest

(* While the call waits for an answer, and when it comes.                    *)
LEMMA AnsweredStream ==
    ASSUME Streams, StopWait \/ FailTransport \/ Answer \/ Establish \/ Poll PROVE StreamInv' /\ EndsWell'
<1>1. CASE StopsHere /\ (StopWait \/ Establish)
    <2>1. pc # "ended"
        BY <1>1 DEF StopWait, Establish
    <2> QED BY <1>1, <2>1, StoppedStream
<1>2. CASE FailTransport
    <2>1. PICK kind \in SendFailures :
             /\ wire' = "failed" /\ pc' = "ended" /\ result' = <<Error(kind)>> /\ Fixed
             /\ pc # "ended" /\ delivered' = delivered
        BY <1>2 DEF FailTransport, Broken, EndsWith, SendFailures, BodyFailures, Fixed
    <2>2. kind \in Interruptions'
        BY <2>1 DEF Interruptions
    <2> QED BY <2>1, <2>2, InterruptedStream
<1>3. CASE Answer
    <2>1. Fixed /\ Unread /\ pc = "sending" /\ (IsStream => pc' = "established")
        BY <1>3 DEF Answer, Fixed, Unread, network, state
    <2> QED BY <2>1, NoStream, StreamKept
<1>4. CASE Establish /\ ~StopsHere
    <2>1. Fixed /\ Unread /\ pc = "established" /\ pc' = "idle" /\ open' = TRUE
        BY <1>4 DEF Establish, Fixed, Unread, network
    <2> QED BY <2>1, StreamKept
<1>5. CASE Poll
    <2>1. Fixed /\ Unread /\ pc = "idle" /\ pc' = "polling" /\ open' = open
        BY <1>5 DEF Poll, Fixed, Unread, network, state
    <2> QED BY <2>1, StreamKept
<1> QED BY <1>1, <1>2, <1>3, <1>4, <1>5 DEF StopWait, Establish

-----------------------------------------------------------------------------
(* A window is decoded.                                                      *)

(* What a call of the decoder gives, by its fields.                          *)
LEMMA GivenFields ==
    ASSUME NEW b, NEW p, NEW name, NEW pend, NEW term, NEW rest
    PROVE  LET D == DecoderAt(b, p, name, pend, term) IN
           /\ Delta(D, rest).decoder = DecoderAt(b, p, name, Tail(pend), term)
           /\ Delta(D, rest).rest = rest /\ Delta(D, rest).delta = <<Head(pend)>>
           /\ Delta(D, rest).error = <<>>
           /\ NoDelta(D, rest).decoder = D /\ NoDelta(D, rest).rest = rest
           /\ NoDelta(D, rest).delta = <<>> /\ NoDelta(D, rest).error = <<>>
           /\ Fused(D, rest, "Undecodable").delta = <<>>
           /\ Fused(D, rest, "Undecodable").error = <<"Undecodable">>
<1> DEFINE P == ParserAt(b, p, name)
           D == Decoder(P, pend, p, term)
<1>1. WithPending(D, Tail(pend)) = Decoder(P, Tail(pend), p, term) /\ D.pending = pend
    <2>1. D.pending = pend
        BY DEF Decoder
    <2> QED BY <2>1, DecoderChanges
<1>2. D = DecoderAt(b, p, name, pend, term) /\ Decoder(P, Tail(pend), p, term) = DecoderAt(b, p, name, Tail(pend), term)
    BY Zenon DEF DecoderAt
<1> DEFINE out == Delta(D, rest)
<1>3. out.rest = rest /\ out.delta = <<Head(D.pending)>> /\ out.error = <<>>
    BY DEF Delta
<1>4. out.decoder = [D EXCEPT !.pending = Tail(D.pending)]
    BY DEF Delta
<1>5. [D EXCEPT !.pending = Tail(D.pending)] = WithPending(D, Tail(D.pending))
    BY Zenon DEF WithPending
<1>6. /\ NoDelta(D, rest).decoder = D /\ NoDelta(D, rest).rest = rest
      /\ NoDelta(D, rest).delta = <<>> /\ NoDelta(D, rest).error = <<>>
    BY DEF NoDelta
<1>7. Fused(D, rest, "Undecodable").delta = <<>> /\ Fused(D, rest, "Undecodable").error = <<"Undecodable">>
    BY DEF Fused
<1> HIDE DEF D, P
<1> QED BY <1>1, <1>2, <1>3, <1>4, <1>5, <1>6, <1>7, Zenon DEF D, P

(* A delta that waits in the decoder is given at once.                       *)
LEMMA PendingGiven ==
    ASSUME NEW b \in Seq(STRING), NEW p \in 0..Len(b), NEW m \in p..Len(b), NEW name, NEW pend \in Seq(STRING),
           NEW term, Alive(b, p, m, name, pend, term), pc = "polling", pend # <<>>,
           delivered \in Seq(STRING),
           pc' = "decoded", UNCHANGED <<open, unsent, delivered>>,
           NEW w, ~term => Len(w) \in Nat, decoded' = Delta(decoder, w), decoder' = Delta(decoder, w).decoder,
           chunk' = SubSeq(chunk, Len(w) - Len(Delta(decoder, w).rest) + 1, Len(chunk))
    PROVE  Alive(b, p, m, name, Tail(pend), term)' /\ Tail(pend) \in Seq(STRING)
<1> DEFINE d == Head(pend)
           t == Tail(pend)
<1>1. /\ decoder = DecoderAt(b, p, name, pend, term) /\ Fine(b, 0, p) /\ unsent = SubSeq(b, m + 1, Len(b))
      /\ ~term => chunk = SubSeq(b, p + 1, m)
      /\ term <=> Contains(SaidUpTo(b, p), "done")
      /\ ~open => term
    BY DEF Alive
<1>2. /\ decoder' = DecoderAt(b, p, name, t, term) /\ decoded'.rest = w /\ Delta(decoder, w).rest = w
      /\ decoded'.delta = <<d>> /\ decoded'.error = <<>>
    BY <1>1, GivenFields
<1>3. delivered \o pend = SaidUpTo(b, p)
    <2>1. pc # "decoded"
        OBVIOUS
    <2> QED BY <2>1, Zenon DEF Alive, Taken
<1>4. t \in Seq(STRING) /\ <<d>> \in Seq(STRING) /\ (delivered \o <<d>>) \o t = delivered \o pend
    <2>1. d \in STRING /\ t \in Seq(STRING) /\ pend = <<d>> \o t
        OBVIOUS
    <2>2. <<d>> \in Seq(STRING)
        BY <2>1
    <2> DEFINE x == <<d>>
    <2> HIDE DEF t, d, x
    <2>3. (delivered \o x) \o t = delivered \o (x \o t)
        BY <2>1, <2>2 DEF x
    <2> QED BY <2>1, <2>2, <2>3 DEF x
<1> HIDE DEF t, d
<1>5. ~term => chunk' = SubSeq(b, p + 1, m)
    <2> SUFFICES ASSUME ~term PROVE chunk' = SubSeq(b, p + 1, m)
        OBVIOUS
    <2> DEFINE c == SubSeq(b, p + 1, m)
    <2>1. c \in Seq(STRING)
        BY Part
    <2>2. Len(w) - Len(Delta(decoder, w).rest) + 1 = 1 /\ chunk = c
        BY <1>1, <1>2
    <2>3. chunk' = SubSeq(c, 1, Len(c))
        BY <2>2, Zenon
    <2> HIDE DEF c
    <2>4. SubSeq(c, 1, Len(c)) = c
        BY <2>1, SubSeqFull
    <2> QED BY <2>3, <2>4 DEF c
<1>6. Taken' \o t = SaidUpTo(b, p)
    <2>1. Taken' = delivered \o <<d>>
        BY <1>2 DEF Taken
    <2> QED BY <1>3, <1>4, <2>1
<1>7. decoded'.delta = <<decoded'.delta[1]>> /\ decoded'.delta # <<>>
    BY <1>2
<1>8. unsent' = SubSeq(b, m + 1, Len(b)) /\ (~open' => term) /\ decoded'.delta \in Seq(STRING)
    BY <1>1, <1>2, <1>4
<1>9. Alive(b, p, m, name, t, term)'
    BY <1>1, <1>2, <1>5, <1>6, <1>7, <1>8, Zenon DEF Alive
<1> QED BY <1>4, <1>9 DEF t

(* What is left of a chunk when a window of it was read up to k.             *)
Leaves(b, p, m, q, k) ==
    LET c == SubSeq(b, p + 1, m)
        w == SubSeq(b, p + 1, q)
        r == SubSeq(b, k + 1, q)
    IN  SubSeq(c, Len(w) - Len(r) + 1, Len(c)) = SubSeq(b, k + 1, m)

(* A chunk leaves just that.                                                 *)
LEMMA WindowLeft ==
    ASSUME NEW b \in Seq(STRING), NEW p \in 0..Len(b), NEW m \in p..Len(b), NEW q \in p..m, NEW k \in p..q
    PROVE  Leaves(b, p, m, q, k)
<1>0. Len(b) \in Nat /\ q \in 0..Len(b) /\ q \in p..Len(b) /\ k \in 0..Len(b) /\ q \in k..Len(b) /\ k \in p..m
    OBVIOUS
<1>1. Len(SubSeq(b, p + 1, q)) = q - p /\ Len(SubSeq(b, k + 1, q)) = q - k
    BY <1>0, Part
<1>2. \A c \in p..m : SubSeq(SubSeq(b, p + 1, m), (c - p) + 1, Len(SubSeq(b, p + 1, m))) = SubSeq(b, c + 1, m)
    BY Part
<1>3. (q - p) - (q - k) + 1 = (k - p) + 1
    BY <1>0
<1> QED BY <1>0, <1>1, <1>2, <1>3 DEF Leaves

(* The window of the chunk that is decoded.                                  *)
LEMMA WindowOf ==
    ASSUME NEW b \in Seq(STRING), NEW p \in 0..Len(b), NEW m \in p..Len(b)
    PROVE  LET c == SubSeq(b, p + 1, m) IN
           \E q \in p..m :
               SubSeq(c, 1, IF Len(c) < DecodeWindow THEN Len(c) ELSE DecodeWindow) = SubSeq(b, p + 1, q)
<1> DEFINE c == SubSeq(b, p + 1, m)
           l == IF Len(c) < DecodeWindow THEN Len(c) ELSE DecodeWindow
           q == p + l
<1>0. Len(b) \in Nat /\ DecodeWindow \in Nat /\ Len(c) = m - p
    BY WindowAssumption, Part
<1> HIDE DEF c
<1>1. l \in Nat /\ l <= m - p
    BY <1>0
<1> HIDE DEF l
<1>2. q \in p..m /\ q - p = l
    BY <1>0, <1>1
<1>3. \A e \in p..m : SubSeq(c, 1, e - p) = SubSeq(b, p + 1, e)
    BY Part DEF c
<1> QED BY <1>2, <1>3 DEF c, l

(* What is decoded of a window of the chunk, when nothing was pending: the   *)
(* body is wrong, or the call goes on behind the window or the event.        *)
LEMMA WindowDecoded ==
    ASSUME NEW b \in Seq(STRING), NEW p \in 0..Len(b), NEW m \in p..Len(b), NEW q \in p..m,
           NEW name \in Seq(STRING), Alive(b, p, m, name, <<>>, No), pc = "polling",
           delivered \in Seq(STRING), ~Contains(delivered, "done"),
           pc' = "decoded", UNCHANGED <<open, unsent, delivered>>,
           decoded' = Decoded(decoder, SubSeq(b, p + 1, q)), decoder' = decoded'.decoder,
           chunk' = SubSeq(chunk, Len(SubSeq(b, p + 1, q)) - Len(decoded'.rest) + 1, Len(chunk))
    PROVE  Dead(b)' \/ Lives(b)'
<1> DEFINE w == SubSeq(b, p + 1, q)
<1>0. /\ Len(b) \in Nat /\ q \in p..Len(b) /\ m \in 0..Len(b) /\ q \in 0..Len(b)
      /\ \A k \in p..q : k \in 0..Len(b) /\ m \in k..Len(b)
      /\ \A k \in (p + 1)..q : k \in p..q
      /\ <<>> \in Seq(STRING)
    OBVIOUS
<1>1. /\ decoder = DecoderAt(b, p, name, <<>>, No) /\ Fine(b, 0, p) /\ unsent = SubSeq(b, m + 1, Len(b))
      /\ chunk = SubSeq(b, p + 1, m) /\ open
    BY DEF Alive, No
<1>2. delivered = SaidUpTo(b, p)
    <2>1. pc # "decoded"
        OBVIOUS
    <2>2. delivered \o <<>> = SaidUpTo(b, p)
        BY <2>1, Zenon DEF Alive, Taken
    <2> QED BY <2>2, ConcatEmptySeq
<1>3. \/ Breaks(b, p, q, decoded') \/ Gives(b, p, q, decoded')
      \/ \E n \in Seq(STRING) : ReadsTo(b, p, q, decoded', q, n)
    BY <1>0, <1>1, DecodedAt
<1>4. \A k \in p..q : decoded'.rest = SubSeq(b, k + 1, q) => chunk' = SubSeq(b, k + 1, m)
    <2>1. \A k \in p..q : Leaves(b, p, m, q, k)
        BY WindowLeft
    <2> QED BY <1>1, <2>1, Zenon DEF Leaves
<1>5. \A k \in p..q : Fine(b, p, k) => Fine(b, 0, k)
    <2>1. \A k \in p..q : \A i \in (0 + 1)..k : i \in (0 + 1)..p \/ i \in (p + 1)..k
        BY <1>0
    <2> QED BY <1>1, <2>1 DEF Fine
<1>6. open' /\ unsent' = SubSeq(b, m + 1, Len(b)) /\ delivered' = delivered
    BY <1>1
<1>7. CASE Breaks(b, p, q, decoded')
    <2>1. PICK k \in p..q, nm \in Seq(STRING) :
             decoded' = Fused(DecoderAt(b, k, nm, <<>>, No), SubSeq(b, k + 1, q), "Undecodable")
        BY <1>7 DEF Breaks
    <2>2. decoded'.delta = <<>> /\ decoded'.error = <<"Undecodable">>
        BY <2>1, GivenFields
    <2>3. Wrong(b) # {} /\ delivered' = SaidUpTo(b, Len(b))
        BY <1>2, <1>6, <1>7, Zenon DEF Breaks
    <2> QED BY <2>2, <2>3 DEF Dead
<1>8. CASE Gives(b, p, q, decoded')
    <2>1. PICK k \in (p + 1)..q : GivesAt(b, p, q, decoded', k)
        BY <1>8 DEF Gives
    <2> DEFINE said == Says(b, k)
               t == Tail(said)
               d == Head(said)
               term == IsTerminal(said)
    <2>2. /\ decoded' = Delta(DecoderAt(b, k, <<>>, said, term), SubSeq(b, k + 1, q))
          /\ Fine(b, p, k) /\ SaidUpTo(b, k) = SaidUpTo(b, p) \o said
          /\ said \in Seq(STRING) /\ said # <<>>
        BY <2>1, Zenon DEF GivesAt
    <2>3. k \in p..q /\ k \in 0..Len(b) /\ m \in k..Len(b)
        BY <1>0
    <2>4. term \in BOOLEAN /\ (term <=> Contains(SaidUpTo(b, k), "done"))
        <3>1. term <=> Contains(said, "done")
            BY Zenon DEF IsTerminal
        <3>2. term \in BOOLEAN
            BY Zenon DEF IsTerminal, Contains
        <3> HIDE DEF said, term
        <3>3. Contains(SaidUpTo(b, k), "done") <=> Contains(said, "done")
            BY <1>2, <2>2, ContainsEither
        <3> QED BY <3>1, <3>2, <3>3
    <2> HIDE DEF term
    <2>5. /\ decoder' = DecoderAt(b, k, <<>>, t, term) /\ decoded'.rest = SubSeq(b, k + 1, q)
          /\ decoded'.delta = <<d>> /\ decoded'.error = <<>>
        <3> DEFINE r == SubSeq(b, k + 1, q)
                   D == DecoderAt(b, k, <<>>, said, term)
                   out == Delta(D, r)
        <3> HIDE DEF said, r
        <3>1. /\ out.decoder = DecoderAt(b, k, <<>>, t, term) /\ out.rest = r
              /\ out.delta = <<d>> /\ out.error = <<>>
            BY GivenFields
        <3>2. decoded' = out
            BY <2>2 DEF r
        <3> HIDE DEF out
        <3> QED BY <3>1, <3>2 DEF r
    <2> HIDE DEF said
    <2>6. t \in Seq(STRING) /\ <<d>> \in Seq(STRING) /\ (delivered \o <<d>>) \o t = delivered \o said
        <3>1. d \in STRING /\ t \in Seq(STRING) /\ said = <<d>> \o t
            BY <2>2
        <3>2. <<d>> \in Seq(STRING)
            BY <3>1
        <3> DEFINE x == <<d>>
        <3> HIDE DEF t, d, x
        <3>3. (delivered \o x) \o t = delivered \o (x \o t)
            <4>1. x \in Seq(STRING) /\ delivered \in Seq(STRING)
                BY <3>2 DEF x
            <4>2. Grouped(delivered, x, t)
                BY <3>1, <4>1, Grouping
            <4> QED BY <4>2, Zenon DEF Grouped
        <3> QED BY <3>1, <3>2, <3>3 DEF x
    <2> HIDE DEF t, d
    <2>7. Taken' \o t = SaidUpTo(b, k)
        <3>1. Taken' = delivered \o <<d>>
            BY <1>6, <2>5 DEF Taken
        <3> QED BY <1>2, <2>2, <2>6, <3>1
    <2>8. chunk' = SubSeq(b, k + 1, m) /\ Fine(b, 0, k)
        BY <1>4, <1>5, <2>2, <2>3, <2>5
    <2>9. decoded'.delta = <<decoded'.delta[1]>> /\ decoded'.delta # <<>> /\ decoded'.delta \in Seq(STRING)
        <3>1. \A v : v = <<d>> => v = <<v[1]>> /\ v # <<>>
            OBVIOUS
        <3> QED BY <2>5, <2>6, <3>1, Zenon
    <2>10. pc' # "waiting"
        OBVIOUS
    <2>11. Alive(b, k, m, <<>>, t, term)'
        BY <1>6, <2>4, <2>5, <2>7, <2>8, <2>9, <2>10, Zenon DEF Alive
    <2>12. Lives(b)'
        BY <1>0, <2>3, <2>4, <2>6, <2>11, Zenon DEF Lives
    <2> QED BY <2>12
<1>9. CASE \E n \in Seq(STRING) : ReadsTo(b, p, q, decoded', q, n)
    <2>1. PICK n \in Seq(STRING) : ReadsTo(b, p, q, decoded', q, n)
        BY <1>9
    <2>2. /\ decoded' = NoDelta(DecoderAt(b, q, n, <<>>, No), SubSeq(b, q + 1, q))
          /\ Fine(b, p, q) /\ SaidUpTo(b, q) = SaidUpTo(b, p)
        BY <2>1, Zenon DEF ReadsTo
    <2>3. /\ decoder' = DecoderAt(b, q, n, <<>>, No) /\ decoded'.rest = SubSeq(b, q + 1, q)
          /\ decoded'.delta = <<>> /\ decoded'.error = <<>>
        <3> DEFINE r == SubSeq(b, q + 1, q)
                   D == DecoderAt(b, q, n, <<>>, No)
                   out == NoDelta(D, r)
        <3> HIDE DEF r
        <3>1. out.decoder = D /\ out.rest = r /\ out.delta = <<>> /\ out.error = <<>>
            BY GivenFields
        <3>2. decoded' = out
            BY <2>2 DEF r
        <3> HIDE DEF out
        <3> QED BY <3>1, <3>2 DEF r
    <2>4. q \in p..q /\ m \in q..Len(b)
        BY <1>0
    <2>5. chunk' = SubSeq(b, q + 1, m) /\ Fine(b, 0, q)
        BY <1>4, <1>5, <2>2, <2>3, <2>4
    <2>6. Taken' \o <<>> = SaidUpTo(b, q)
        <3>1. Taken' = delivered \o <<>>
            BY <1>6, <2>3 DEF Taken
        <3>2. \A v \in Seq(STRING) : (v \o <<>>) \o <<>> = v
            OBVIOUS
        <3> QED BY <1>2, <2>2, <3>1, <3>2
    <2>7. No <=> Contains(SaidUpTo(b, q), "done")
        BY <1>2, <2>2, Zenon DEF No
    <2>8. pc' # "waiting" /\ decoded'.delta \in Seq(STRING)
        BY <1>0, <2>3
    <2>9. Alive(b, q, m, n, <<>>, No)'
        BY <1>6, <2>3, <2>5, <2>6, <2>7, <2>8, Zenon DEF Alive
    <2>10. Lives(b)'
        <3>1. No \in BOOLEAN
            BY DEF No
        <3> QED BY <1>0, <2>4, <2>9, <3>1, Zenon DEF Lives
    <2> QED BY <2>10
<1> QED BY <1>3, <1>7, <1>8, <1>9

(* A window of the chunk is decoded.                                         *)
LEMMA DecodeStream == ASSUME Streams, Decode PROVE StreamInv' /\ EndsWell'
<1>1. CASE StopsHere
    <2>1. pc # "ended"
        BY DEF Decode
    <2> QED BY <1>1, <2>1, StoppedStream
<1>2. CASE ~StopsHere
    <2> DEFINE window == SubSeq(chunk, 1, IF Len(chunk) < DecodeWindow THEN Len(chunk) ELSE DecodeWindow)
               given  == Decoded(decoder, window)
    <2>1. /\ pc = "polling" /\ pc' = "decoded" /\ Fixed /\ UNCHANGED <<open, unsent, delivered>>
          /\ decoded' = given /\ decoder' = given.decoder
          /\ chunk' = SubSeq(chunk, Len(window) - Len(given.rest) + 1, Len(chunk))
        BY <1>2, Zenon DEF Decode, Fixed, network
    <2>2. EndsWell' /\ pc # "ended"
        BY <2>1 DEF EndsWell
    <2>3. IsStream /\ IInv
        BY <2>1 DEF Streams, IInv, BytesInv, Reading
    <2>4. /\ delivered \in Seq(STRING) /\ ~Contains(delivered, "done")
          /\ \A b : b = server.body => Dead(b) \/ Lives(b)
        BY <2>2, <2>3, Zenon DEF Streams, StreamInv
    <2>5. ASSUME NEW b, b = server.body PROVE Dead(b)' \/ Lives(b)'
        <3>1. b \in Seq(STRING)
            BY <2>3, <2>5, BodyType
        <3>2. ~Dead(b)
            BY <2>1 DEF Dead
        <3>3. PICK p \in 0..Len(b) : \E m \in p..Len(b), name \in Seq(STRING), pend \in Seq(STRING), term \in BOOLEAN :
                 Alive(b, p, m, name, pend, term)
            BY <2>4, <2>5, <3>2, Zenon DEF Lives
        <3>4. PICK m \in p..Len(b), name \in Seq(STRING), pend \in Seq(STRING), term \in BOOLEAN :
                 Alive(b, p, m, name, pend, term)
            BY <3>3
        <3>5. decoder = DecoderAt(b, p, name, pend, term)
            BY <3>4, Zenon DEF Alive
        <3>6. CASE pend # <<>>
            <4>1. given = Delta(decoder, window)
                <5>1. ~decoder.failed /\ decoder.pending = pend
                    BY <3>5 DEF DecoderAt, Decoder, No
                <5> HIDE DEF window
                <5> QED BY <3>6, <5>1, Zenon DEF Decoded
            <4>2. ~term => Len(window) \in Nat
                <5>1. ASSUME ~term PROVE Len(window) \in Nat
                    <6>1. chunk = SubSeq(b, p + 1, m)
                        BY <3>4, <5>1, Zenon DEF Alive
                    <6>2. PICK q \in p..m : window = SubSeq(b, p + 1, q)
                        BY <3>1, <6>1, WindowOf, Zenon
                    <6>3. q \in p..Len(b)
                        OBVIOUS
                    <6>4. Len(SubSeq(b, p + 1, q)) = q - p /\ q - p \in Nat
                        BY <3>1, <6>3, Part
                    <6> QED BY <6>2, <6>4, Zenon
                <5> QED BY <5>1
            <4> HIDE DEF window
            <4>3. Alive(b, p, m, name, Tail(pend), term)' /\ Tail(pend) \in Seq(STRING)
                BY <2>1, <2>4, <3>1, <3>4, <3>6, <4>1, <4>2, PendingGiven
            <4> QED BY <4>3, Zenon DEF Lives
        <3>7. CASE pend = <<>>
            <4>1. ~term
                <5>1. delivered \o pend = SaidUpTo(b, p) /\ (term <=> Contains(SaidUpTo(b, p), "done"))
                    <6>1. pc # "decoded"
                        BY <2>1
                    <6> QED BY <3>4, <6>1, Zenon DEF Alive, Taken
                <5>2. delivered \o <<>> = delivered
                    BY <2>4
                <5> QED BY <2>4, <3>7, <5>1, <5>2, Zenon
            <4>2. term = No
                BY <4>1 DEF No
            <4>3. chunk = SubSeq(b, p + 1, m)
                BY <3>4, <4>1, Zenon DEF Alive
            <4>4. PICK q \in p..m : window = SubSeq(b, p + 1, q)
                BY <3>1, <4>3, WindowOf, Zenon
            <4>5. Alive(b, p, m, name, <<>>, No)
                BY <3>4, <3>7, <4>2
            <4>6. /\ decoded' = Decoded(decoder, SubSeq(b, p + 1, q)) /\ decoder' = decoded'.decoder
                  /\ chunk' = SubSeq(chunk, Len(SubSeq(b, p + 1, q)) - Len(decoded'.rest) + 1, Len(chunk))
                BY <2>1, <4>4, Zenon
            <4> HIDE DEF window, given
            <4> QED BY <2>1, <2>4, <3>1, <4>5, <4>6, WindowDecoded
        <3> QED BY <3>6, <3>7
    <2>6. StreamInv'
        <3>1. server' = server /\ delivered' = delivered
            BY <2>1 DEF Fixed
        <3> QED BY <2>4, <2>5, <3>1, Zenon DEF StreamInv
    <2> QED BY <2>2, <2>6
<1> QED BY <1>1, <1>2

-----------------------------------------------------------------------------
(* What arrives, and the end.                                                *)

(* A stream that has delivered all that its body stands for, and ends as the *)
(* body says, keeps the promise.                                             *)
LEMMA EndsAsSaid ==
    ASSUME IInv, Fixed, pc' = "ended", NEW b, b = server.body,
           delivered' = ToDone(SaidUpTo(b, Len(b))), delivered' \in Seq(STRING),
           result' = <<Error(EndSaid(b, delivered'))>>
    PROVE  StreamInv' /\ EndsWell'
<1>1. StreamInv'
    BY DEF StreamInv
<1>2. server' = server /\ Said' = Said /\ server \in Responses
    BY BodyType DEF Fixed
<1>3. Said[b].deltas = delivered' /\ Said[b].end = EndSaid(b, delivered')
    <2> DEFINE all == ToDone(SaidUpTo(b, Len(b)))
    <2>1. Said[b].deltas = all /\ Said[b].end = EndSaid(b, all)
        BY <1>2, SaidByServer
    <2>2. delivered' = all
        OBVIOUS
    <2> HIDE DEF all
    <2> QED BY <2>1, <2>2
<1>4. \A s \in Seq(STRING) : IsPrefix(s, s)
    BY DEF IsPrefix
<1>5. YieldsWhatWasSent'
    <2>1. server'.body = b /\ IsPrefix(delivered', delivered')
        BY <1>2, <1>4
    <2>2. Said'[server'.body].deltas = delivered' /\ Error(Said'[server'.body].end) = Error(EndSaid(b, delivered'))
        BY <1>2, <1>3, <2>1
    <2> QED BY <2>1, <2>2, Zenon DEF YieldsWhatWasSent
<1> QED BY <1>1, <1>5 DEF EndsWell

(* A stream that is read lives, or its body was wrong.                       *)
LEMMA ReadStream ==
    ASSUME Streams, pc \in Reading
    PROVE  /\ IsStream /\ IInv /\ delivered \in Seq(STRING) /\ ~Contains(delivered, "done")
           /\ \A b : b = server.body => b \in Seq(STRING) /\ (Dead(b) \/ Lives(b))
<1>1. IsStream /\ IInv /\ pc # "ended"
    BY DEF Streams, IInv, BytesInv, Reading
<1>2. /\ delivered \in Seq(STRING) /\ ~Contains(delivered, "done")
      /\ \A b : b = server.body => Dead(b) \/ Lives(b)
    BY <1>1, Zenon DEF Streams, StreamInv
<1> QED BY <1>1, <1>2, BodyType

(* A chunk of the body arrives.                                              *)
LEMMA ReceiveStream == ASSUME Streams, Receive PROVE StreamInv' /\ EndsWell'
<1>1. PICK n \in 1..Len(unsent) :
         unsent' = SubSeq(unsent, n + 1, Len(unsent)) /\ chunk' = SubSeq(unsent, 1, n)
    BY DEF Receive, Arrive
<1>2. pc = "waiting" /\ pc' = "polling" /\ Fixed /\ UNCHANGED <<decoder, open, decoded, delivered>>
    BY <1>1 DEF Receive, Arrive, Fixed
<1>3. EndsWell' /\ pc \in Reading
    BY <1>2 DEF EndsWell, Reading
<1>4. ASSUME NEW b, b = server.body PROVE Lives(b)'
    <2>1. b \in Seq(STRING) /\ Lives(b)
        BY <1>2, <1>3, <1>4, ReadStream DEF Dead
    <2>2. PICK p \in 0..Len(b) : \E m \in p..Len(b), name \in Seq(STRING), pend \in Seq(STRING), term \in BOOLEAN :
             Alive(b, p, m, name, pend, term)
        BY <2>1, Zenon DEF Lives
    <2>3. PICK m \in p..Len(b), name \in Seq(STRING), pend \in Seq(STRING), term \in BOOLEAN :
             Alive(b, p, m, name, pend, term)
        BY <2>2
    <2>4. /\ decoder = DecoderAt(b, p, name, pend, term) /\ Fine(b, 0, p) /\ unsent = SubSeq(b, m + 1, Len(b))
          /\ chunk = SubSeq(b, p + 1, m) /\ chunk = <<>> /\ ~term /\ (~open => term)
          /\ delivered \o pend = SaidUpTo(b, p) /\ (term <=> Contains(SaidUpTo(b, p), "done"))
        BY <1>2, <2>3 DEF Alive, Taken
    <2>0. Len(b) \in Nat /\ m \in 0..Len(b) /\ Len(b) \in m..Len(b)
        BY <2>1
    <2>5. p = m
        <3>1. Len(SubSeq(b, p + 1, m)) = m - p
            BY <2>1, Part
        <3>2. Len(SubSeq(b, p + 1, m)) = 0
            <4>1. SubSeq(b, p + 1, m) = <<>> /\ Len(<<>>) = 0
                BY <2>4, EmptySeq, Zenon
            <4> QED BY <4>1, Zenon
        <3> QED BY <2>0, <3>1, <3>2
    <2> DEFINE q == m + n
    <2>6. /\ Len(unsent) = Len(b) - m
          /\ \A c \in m..Len(b) : SubSeq(unsent, 1, c - m) = SubSeq(b, m + 1, c)
          /\ \A c \in m..Len(b) : SubSeq(unsent, (c - m) + 1, Len(unsent)) = SubSeq(b, c + 1, Len(b))
        <3> DEFINE part == SubSeq(b, m + 1, Len(b))
        <3>1. /\ Len(part) = Len(b) - m
              /\ \A c \in m..Len(b) : SubSeq(part, 1, c - m) = SubSeq(b, m + 1, c)
              /\ \A c \in m..Len(b) : SubSeq(part, (c - m) + 1, Len(part)) = SubSeq(b, c + 1, Len(b))
            BY <2>0, <2>1, Part, Zenon
        <3>2. unsent = part
            BY <2>4
        <3> HIDE DEF part
        <3> QED BY <3>1, <3>2
    <2>7. q \in m..Len(b) /\ q \in p..Len(b) /\ q - m = n
        BY <2>0, <2>5, <2>6
    <2> HIDE DEF q
    <2>8. unsent' = SubSeq(b, q + 1, Len(b)) /\ chunk' = SubSeq(b, p + 1, q)
        BY <1>1, <2>5, <2>6, <2>7
    <2>9. Taken' \o pend = SaidUpTo(b, p) /\ pc' # "decoded" /\ pc' # "waiting"
        BY <1>2, <2>4 DEF Taken
    <2>10. Alive(b, p, q, name, pend, term)'
        <3>1. decoder' = decoder /\ open' = open
            BY <1>2
        <3> QED BY <2>4, <2>8, <2>9, <3>1, Zenon DEF Alive
    <2> QED BY <2>7, <2>10, Zenon DEF Lives
<1>5. StreamInv'
    <2>1. server' = server /\ delivered' = delivered
        BY <1>2 DEF Fixed
    <2> QED BY <1>3, <1>4, <2>1, ReadStream, Zenon DEF Streams, StreamInv
<1> QED BY <1>3, <1>5

(* What the decoder says of the end of a body it has read to the end.        *)
LEMMA FinishedAt ==
    ASSUME NEW b \in Seq(STRING), NEW name
    PROVE  LET D == DecoderAt(b, Len(b), name, <<>>, No)
               line == SubSeq(b, LineStart(b, Len(b) + 1), Len(b)) IN
           (IF FinishDecoder(D) = <<>> THEN "UnknownOutcome" ELSE FinishDecoder(D)[1]) =
               IF IsUtf8(line) THEN "UnknownOutcome" ELSE "Undecodable"
<1> DEFINE P == ParserAt(b, Len(b), name)
           D == DecoderAt(b, Len(b), name, <<>>, No)
           line == SubSeq(b, LineStart(b, Len(b) + 1), Len(b))
<1>1. P.line = line
    BY DEF ParserAt, Parser
<1>2. D.parser = P /\ ~D.failed /\ ~D.terminal
    BY DEF DecoderAt, Decoder, No
<1> HIDE DEF P, D, line
<1>3. FinishDecoder(D) = IF FinishSse(P) # <<>> THEN FinishSse(P) ELSE <<"UnknownOutcome">>
    BY <1>2, Zenon DEF FinishDecoder
<1>4. ~IsUtf8(line) => FinishSse(P) = <<"Undecodable">>
    BY <1>1, Zenon DEF FinishSse
<1>5. IsUtf8(line) => FinishSse(P) = <<"UnknownOutcome">> \/ FinishSse(P) = <<>>
    BY <1>1, Zenon DEF FinishSse
<1>6. \A x : <<x>> # <<>> /\ <<x>>[1] = x
    OBVIOUS
<1>7. CASE ~IsUtf8(line)
    <2>1. FinishDecoder(D) = <<"Undecodable">>
        BY <1>3, <1>4, <1>6, <1>7, Zenon
    <2> QED BY <1>6, <1>7, <2>1, Zenon DEF D, line
<1>8. CASE IsUtf8(line)
    <2>1. FinishDecoder(D) = <<"UnknownOutcome">>
        BY <1>3, <1>5, <1>6, <1>8, Zenon
    <2> QED BY <1>6, <1>8, <2>1, Zenon DEF D, line
<1> QED BY <1>7, <1>8

(* The body ends, with no terminal event.                                    *)
LEMMA ReceiveEndStream == ASSUME Streams, ReceiveEnd PROVE StreamInv' /\ EndsWell'
<1>1. /\ pc = "waiting" /\ unsent = <<>> /\ Fixed /\ pc' = "ended" /\ delivered' = delivered
      /\ result' = <<Error(IF FinishDecoder(decoder) = <<>> THEN "UnknownOutcome" ELSE FinishDecoder(decoder)[1])>>
    BY Zenon DEF ReceiveEnd, EndsWith, Fixed
<1>2. pc \in Reading
    BY <1>1 DEF Reading
<1>3. PICK b : b = server.body
    OBVIOUS
<1>4. IInv /\ delivered \in Seq(STRING) /\ ~Contains(delivered, "done") /\ b \in Seq(STRING) /\ Lives(b)
    BY <1>1, <1>2, <1>3, ReadStream DEF Dead
<1>5. PICK p \in 0..Len(b) : \E m \in p..Len(b), name \in Seq(STRING), pend \in Seq(STRING), term \in BOOLEAN :
         Alive(b, p, m, name, pend, term)
    BY <1>4, Zenon DEF Lives
<1>6. PICK m \in p..Len(b), name \in Seq(STRING), pend \in Seq(STRING), term \in BOOLEAN :
         Alive(b, p, m, name, pend, term)
    BY <1>5
<1>7. /\ decoder = DecoderAt(b, p, name, pend, term) /\ Fine(b, 0, p) /\ unsent = SubSeq(b, m + 1, Len(b))
      /\ chunk = SubSeq(b, p + 1, m) /\ chunk = <<>> /\ ~term /\ pend = <<>>
      /\ delivered \o pend = SaidUpTo(b, p)
    BY <1>1, <1>6 DEF Alive, Taken
<1>8. p = Len(b)
    <2>0. Len(b) \in Nat /\ m \in 0..Len(b) /\ Len(b) \in m..Len(b)
        BY <1>4
    <2>1. Len(SubSeq(b, p + 1, m)) = m - p
        BY <1>4, Part
    <2>2. Len(SubSeq(b, m + 1, Len(b))) = Len(b) - m
        BY <1>4, <2>0, Part
    <2>3. Len(SubSeq(b, p + 1, m)) = 0 /\ Len(SubSeq(b, m + 1, Len(b))) = 0
        <3>1. SubSeq(b, p + 1, m) = <<>> /\ SubSeq(b, m + 1, Len(b)) = <<>> /\ Len(<<>>) = 0
            BY <1>1, <1>7, EmptySeq, Zenon
        <3> QED BY <3>1, Zenon
    <2> QED BY <2>0, <2>1, <2>2, <2>3
<1>9. Wrong(b) = {}
    <2>1. \A i \in Wrong(b) : i \in (0 + 1)..p
        BY <1>8 DEF Wrong
    <2> QED BY <1>7, <2>1 DEF Fine
<1>10. SaidUpTo(b, Len(b)) = delivered /\ ToDone(delivered) = delivered
    <2>1. delivered \o <<>> = delivered /\ <<>> \in Seq(STRING)
        BY <1>4
    <2>2. SaidUpTo(b, Len(b)) = delivered
        BY <1>7, <1>8, <2>1
    <2>3. ToDone(delivered \o <<>>) = delivered
        BY <1>4, <2>1, UpToDone, Zenon
    <2> QED BY <2>1, <2>2, <2>3
<1>11. decoder = DecoderAt(b, Len(b), name, <<>>, No)
    <2>1. term = No
        BY <1>7 DEF No
    <2> QED BY <1>7, <1>8, <2>1
<1>12. result' = <<Error(EndSaid(b, delivered))>>
    <2> DEFINE line == SubSeq(b, LineStart(b, Len(b) + 1), Len(b))
    <2>1. EndSaid(b, delivered) = IF IsUtf8(line) THEN "UnknownOutcome" ELSE "Undecodable"
        BY <1>4, <1>9, Zenon DEF EndSaid
    <2>2. (IF FinishDecoder(decoder) = <<>> THEN "UnknownOutcome" ELSE FinishDecoder(decoder)[1]) =
              IF IsUtf8(line) THEN "UnknownOutcome" ELSE "Undecodable"
        BY <1>4, <1>11, FinishedAt, Zenon
    <2> QED BY <1>1, <2>1, <2>2, Zenon
<1>13. /\ delivered' = ToDone(SaidUpTo(b, Len(b))) /\ delivered' \in Seq(STRING)
       /\ result' = <<Error(EndSaid(b, delivered'))>>
    BY <1>1, <1>4, <1>10, <1>12, Zenon
<1> QED BY <1>1, <1>3, <1>4, <1>13, EndsAsSaid

(* A body that is wrong ends the call.                                       *)
LEMMA WrongStream ==
    ASSUME Streams, pc = "decoded", decoded.error # <<>>, Fixed, pc' = "ended", delivered' = delivered,
           result' = <<Error(decoded.error[1])>>
    PROVE  StreamInv' /\ EndsWell'
<1>1. pc \in Reading
    BY DEF Reading
<1>2. PICK b : b = server.body
    OBVIOUS
<1>3. /\ IInv /\ delivered \in Seq(STRING) /\ ~Contains(delivered, "done") /\ b \in Seq(STRING)
      /\ Dead(b) \/ Lives(b)
    BY <1>1, <1>2, ReadStream
<1>4. ~Lives(b)
    BY DEF Lives, Alive
<1>5. Wrong(b) # {} /\ delivered = SaidUpTo(b, Len(b)) /\ decoded.error[1] = "Undecodable"
    <2>1. Dead(b)
        BY <1>3, <1>4
    <2>2. \A x : <<x>>[1] = x
        OBVIOUS
    <2> QED BY <2>1, <2>2, Zenon DEF Dead
<1>6. ToDone(delivered) = delivered
    <2>1. delivered \o <<>> = delivered /\ <<>> \in Seq(STRING)
        BY <1>3
    <2>2. ToDone(delivered \o <<>>) = delivered
        BY <1>3, <2>1, UpToDone, Zenon
    <2> QED BY <2>1, <2>2
<1>7. EndSaid(b, delivered) = "Undecodable"
    BY <1>3, <1>5, Zenon DEF EndSaid
<1>8. /\ delivered' = ToDone(SaidUpTo(b, Len(b))) /\ delivered' \in Seq(STRING)
      /\ result' = <<Error(EndSaid(b, delivered'))>>
    BY <1>3, <1>5, <1>6, <1>7, Zenon
<1> QED BY <1>2, <1>3, <1>8, EndsAsSaid

(* Nothing came of a window: the rest of the chunk is decoded, or the call   *)
(* waits for another; the response is still open then.                       *)
LEMMA NothingStream ==
    ASSUME Streams, pc = "decoded", decoded.delta = <<>>, decoded.error = <<>>, Fixed, Unread, open' = open,
           CASE chunk # <<>> -> pc' = "polling"
             [] chunk = <<>> /\ ~open -> pc' = "ended"
             [] OTHER -> pc' = "waiting"
    PROVE  StreamInv' /\ EndsWell'
<1>1. pc \in Reading
    BY DEF Reading
<1>2. /\ IsStream /\ IInv /\ delivered \in Seq(STRING) /\ ~Contains(delivered, "done")
      /\ UNCHANGED <<decoder, chunk, unsent, delivered, server>>
    BY <1>1, ReadStream DEF Unread, Fixed
<1>3. ASSUME NEW b, b = server.body PROVE Lives(b)' /\ pc' # "ended"
    <2>1. b \in Seq(STRING) /\ Lives(b)
        <3>1. ~Dead(b)
            <4>1. <<"Undecodable">> # <<>>
                OBVIOUS
            <4> QED BY <4>1, Zenon DEF Dead
        <3> QED BY <1>1, <1>3, <3>1, ReadStream
    <2>2. PICK p \in 0..Len(b) : \E m \in p..Len(b), name \in Seq(STRING), pend \in Seq(STRING), term \in BOOLEAN :
             Alive(b, p, m, name, pend, term)
        BY <2>1, Zenon DEF Lives
    <2>3. PICK m \in p..Len(b), name \in Seq(STRING), pend \in Seq(STRING), term \in BOOLEAN :
             Alive(b, p, m, name, pend, term)
        BY <2>2
    <2>4. /\ decoder = DecoderAt(b, p, name, pend, term) /\ Fine(b, 0, p) /\ unsent = SubSeq(b, m + 1, Len(b))
          /\ ~term => chunk = SubSeq(b, p + 1, m)
          /\ pend = <<>> /\ (~open => term) /\ (term <=> Contains(SaidUpTo(b, p), "done"))
          /\ (delivered \o decoded.delta) \o pend = SaidUpTo(b, p)
        BY <2>3 DEF Alive, Taken
    <2>5. delivered \o <<>> = delivered
        BY <1>2
    <2>6. delivered \o pend = SaidUpTo(b, p) /\ ~term
        <3>1. (delivered \o <<>>) \o <<>> = SaidUpTo(b, p)
            BY <2>4
        <3>2. delivered = SaidUpTo(b, p)
            BY <2>5, <3>1
        <3>3. ~Contains(SaidUpTo(b, p), "done")
            BY <1>2, <3>2, Zenon
        <3> QED BY <2>4, <2>5, <3>2, <3>3
    <2>7. pc' = "polling" \/ (chunk = <<>> /\ pc' = "waiting")
        BY <2>4, <2>6
    <2>8. pc' # "decoded" /\ pc' # "ended" /\ Taken' = delivered
        BY <1>2, <2>7 DEF Taken
    <2>9. pc' = "waiting" => chunk' = <<>>
        BY <1>2, <2>7
    <2>10. Alive(b, p, m, name, pend, term)'
        <3>1. decoder' = decoder /\ open' = open /\ unsent' = unsent /\ chunk' = chunk
            BY <1>2
        <3>2. ~term => chunk' = SubSeq(b, p + 1, m)
            BY <2>4, <3>1
        <3>3. unsent' = SubSeq(b, m + 1, Len(b)) /\ decoder' = DecoderAt(b, p, name, pend, term)
            BY <2>4, <3>1
        <3>4. Taken' \o pend = SaidUpTo(b, p) /\ (~open' => term)
            BY <2>4, <2>6, <2>8, <3>1
        <3> QED BY <2>4, <2>6, <2>8, <2>9, <3>2, <3>3, <3>4, Zenon DEF Alive
    <2> QED BY <2>8, <2>10, Zenon DEF Lives
<1>4. pc' # "ended"
    BY <1>3
<1> QED BY <1>2, <1>3, <1>4, Zenon DEF StreamInv, EndsWell

(* What was yielded, the delta, those that wait and the rest, regrouped.      *)
Regrouped(v, x, pend, y) == ((v \o x) \o pend) \o y = v \o ((x \o pend) \o y)

(* A sequence, one that is not empty, and two that follow it.                *)
LEMMA DeltaFirst ==
    ASSUME NEW v \in Seq(STRING), NEW x \in Seq(STRING), NEW pend \in Seq(STRING), NEW y \in Seq(STRING),
           Len(x) = 1
    PROVE  LET z == (x \o pend) \o y IN
           /\ z \in Seq(STRING) /\ z # <<>> /\ z[1] = x[1]
           /\ Regrouped(v, x, pend, y)
<1> DEFINE u == x \o pend
           z == u \o y
<1>1. \A s \in Seq(STRING), t \in Seq(STRING) :
          /\ s \o t \in Seq(STRING) /\ Len(s \o t) = Len(s) + Len(t) /\ Len(s) \in Nat /\ Len(t) \in Nat
          /\ \A i \in 1..Len(s) : (s \o t)[i] = s[i]
    OBVIOUS
<1>2. 1 \in 1..Len(x)
    OBVIOUS
<1>3. u \in Seq(STRING) /\ Len(u) = Len(x) + Len(pend) /\ u[1] = x[1]
    BY <1>1, <1>2, Zenon
<1>4. (v \o x) \o pend = v \o u
    OBVIOUS
<1> HIDE DEF u
<1>5. Len(pend) \in Nat /\ Len(y) \in Nat /\ 1 \in 1..Len(u)
    BY <1>3
<1>6. z \in Seq(STRING) /\ Len(z) = Len(u) + Len(y) /\ z[1] = u[1]
    BY <1>1, <1>3, <1>5, Zenon
<1>7. (v \o u) \o y = v \o z
    BY <1>3
<1> HIDE DEF z
<1>8. z # <<>>
    BY <1>3, <1>5, <1>6
<1>9. Regrouped(v, x, pend, y)
    BY <1>4, <1>7, Zenon DEF u, z, Regrouped
<1> QED BY <1>3, <1>6, <1>8, <1>9, Zenon DEF u, z

(* A delta is yielded: the next of those the body stands for.                *)
LEMMA YieldStream ==
    ASSUME Streams, pc = "decoded", decoded.delta # <<>>, Yield
    PROVE  StreamInv' /\ EndsWell'
<1> DEFINE d == decoded.delta[1]
<1>1. pc \in Reading
    BY DEF Reading
<1>2. PICK b : b = server.body
    OBVIOUS
<1>3. /\ IsStream /\ IInv /\ delivered \in Seq(STRING) /\ ~Contains(delivered, "done") /\ b \in Seq(STRING)
      /\ Dead(b) \/ Lives(b)
    BY <1>1, <1>2, ReadStream
<1>4. Lives(b)
    BY <1>3 DEF Dead
<1>5. PICK p \in 0..Len(b) : \E m \in p..Len(b), name \in Seq(STRING), pend \in Seq(STRING), term \in BOOLEAN :
         Alive(b, p, m, name, pend, term)
    BY <1>4, Zenon DEF Lives
<1>6. PICK m \in p..Len(b), name \in Seq(STRING), pend \in Seq(STRING), term \in BOOLEAN :
         Alive(b, p, m, name, pend, term)
    BY <1>5
<1>7. /\ decoder = DecoderAt(b, p, name, pend, term) /\ Fine(b, 0, p) /\ unsent = SubSeq(b, m + 1, Len(b))
      /\ ~term => chunk = SubSeq(b, p + 1, m)
      /\ (term <=> Contains(SaidUpTo(b, p), "done"))
      /\ decoded.delta \in Seq(STRING) /\ decoded.delta = <<d>>
      /\ (delivered \o decoded.delta) \o pend = SaidUpTo(b, p)
    BY <1>6 DEF Alive, Taken
<1>8. /\ delivered' = Append(delivered, d) /\ Fixed /\ UNCHANGED <<decoder, decoded, unsent>>
      /\ d = "done" => pc' = "ended" /\ result' = <<Error("None")>>
      /\ d # "done" => pc' = "idle" /\ open' = ~decoder.terminal
      /\ d # "done" => chunk' = IF decoder.terminal THEN <<>> ELSE chunk
    BY Zenon DEF Yield, EndsWith, Fixed, network
<1>9. decoder.terminal = term
    BY <1>7 DEF DecoderAt, Decoder
<1>10. /\ delivered' \in Seq(STRING) /\ delivered' = delivered \o <<d>>
       /\ delivered' \o pend = SaidUpTo(b, p) /\ <<d>> \in Seq(STRING) /\ d \in STRING
    <2>1. <<d>> \in Seq(STRING) /\ (delivered \o <<d>>) \o pend = SaidUpTo(b, p)
        BY <1>7
    <2> HIDE DEF d
    <2>2. d \in STRING
        <3>1. \A x : <<x>> \in Seq(STRING) => x \in STRING
            OBVIOUS
        <3> QED BY <2>1, <3>1
    <2>3. Append(delivered, d) = delivered \o <<d>> /\ Append(delivered, d) \in Seq(STRING)
        BY <1>3, <2>2
    <2> QED BY <1>8, <2>1, <2>2, <2>3, Zenon
<1> HIDE DEF d
<1>11. CASE d = "done"
    <2>1. PICK y \in Seq(STRING) : SaidUpTo(b, Len(b)) = SaidUpTo(b, p) \o y
        BY <1>3, SaidWhole
    <2> DEFINE z == (<<d>> \o pend) \o y
    <2>0. <<d>> \in Seq(STRING) /\ Len(<<d>>) = 1 /\ <<d>>[1] = d
        BY <1>10
    <2>2. z \in Seq(STRING) /\ z # <<>> /\ z[1] = d
        BY <1>3, <2>0, DeltaFirst
    <2>3. SaidUpTo(b, Len(b)) = delivered \o z
        <3>1. SaidUpTo(b, Len(b)) = ((delivered \o <<d>>) \o pend) \o y
            BY <1>10, <2>1, Zenon
        <3>2. ((delivered \o <<d>>) \o pend) \o y = delivered \o z
            <4>1. /\ delivered \in Seq(STRING) /\ pend \in Seq(STRING) /\ y \in Seq(STRING)
                  /\ <<d>> \in Seq(STRING) /\ Len(<<d>>) = 1
                BY <1>3, <2>0
            <4> DEFINE e == <<d>>
            <4>2. e \in Seq(STRING) /\ Len(e) = 1
                BY <4>1
            <4> HIDE DEF e
            <4>3. ((delivered \o e) \o pend) \o y = delivered \o ((e \o pend) \o y)
                <5>1. Regrouped(delivered, e, pend, y)
                    BY <4>1, <4>2, DeltaFirst
                <5> QED BY <5>1, Zenon DEF Regrouped
            <4> QED BY <4>3 DEF e
        <3> QED BY <3>1, <3>2, Zenon
    <2> HIDE DEF z
    <2>4. /\ ToDone(delivered \o z) = Append(delivered, "done")
          /\ Contains(ToDone(delivered \o z), "done")
        BY <1>3, <1>11, <2>2, UpToDone, Zenon
    <2>5. delivered' = ToDone(SaidUpTo(b, Len(b))) /\ Contains(delivered', "done")
        BY <1>8, <1>11, <2>3, <2>4, Zenon
    <2>6. EndSaid(b, delivered') = "None"
        BY <2>5, Zenon DEF EndSaid
    <2>7. pc' = "ended" /\ result' = <<Error(EndSaid(b, delivered'))>>
        BY <1>8, <1>11, <2>6, Zenon
    <2> QED BY <1>2, <1>3, <1>8, <1>10, <2>5, <2>7, EndsAsSaid
<1>12. CASE d # "done"
    <2>1. pc' = "idle" /\ (~open' => term) /\ (~term => chunk' = chunk)
        BY <1>8, <1>9, <1>12
    <2>2. ~Contains(delivered', "done")
        <3>1. ~Contains(<<d>>, "done")
            <4>1. Len(<<d>>) = 1 /\ <<d>>[1] = d
                OBVIOUS
            <4>2. \A i \in 1..1 : i = 1
                OBVIOUS
            <4> QED BY <1>12, <4>1, <4>2, Zenon DEF Contains
        <3> QED BY <1>3, <1>10, <3>1, ContainsEither, Zenon
    <2>3. Alive(b, p, m, name, pend, term)'
        <3>1. ~term => chunk' = SubSeq(b, p + 1, m)
            BY <1>7, <2>1
        <3>2. unsent' = SubSeq(b, m + 1, Len(b)) /\ decoder' = DecoderAt(b, p, name, pend, term)
            BY <1>7, <1>8
        <3>3. Taken' \o pend = SaidUpTo(b, p) /\ pc' # "decoded" /\ pc' # "waiting"
            BY <1>10, <2>1 DEF Taken
        <3> QED BY <1>7, <2>1, <3>1, <3>2, <3>3, Zenon DEF Alive
    <2>4. Lives(b)'
        BY <2>3, Zenon DEF Lives
    <2>5. EndsWell' /\ server'.body = b
        BY <1>2, <1>8, <2>1 DEF EndsWell, Fixed
    <2>6. StreamInv'
        BY <1>10, <2>2, <2>4, <2>5, Zenon DEF StreamInv
    <2> QED BY <2>5, <2>6
<1> QED BY <1>11, <1>12

(* What was decoded is yielded, ends the call, or lets it go on.             *)
LEMMA SettleStream == ASSUME Streams, Settle PROVE StreamInv' /\ EndsWell'
<1>0. pc = "decoded"
    BY DEF Settle
<1>1. CASE StopsHere
    BY <1>0, <1>1, StoppedStream
<1>2. CASE decoded.delta # <<>> /\ Yield
    BY <1>0, <1>2, YieldStream
<1>3. CASE /\ decoded.error # <<>> /\ EndsWith(Error(decoded.error[1]))
           /\ UNCHANGED <<call, server, control, network, state, delivered>>
    BY <1>0, <1>3, WrongStream DEF EndsWith, Fixed
<1>4. CASE /\ decoded.delta = <<>> /\ decoded.error = <<>>
           /\ CASE chunk # <<>> -> pc' = "polling" /\ UNCHANGED result
                [] chunk = <<>> /\ ~open -> EndsWith(Error("UnknownOutcome"))
                [] OTHER -> pc' = "waiting" /\ UNCHANGED result
           /\ UNCHANGED <<call, server, control, network, state, delivered>>
    <2>1. Fixed /\ Unread /\ open' = open
        BY <1>4 DEF Fixed, Unread, network, state
    <2>2. (CASE chunk # <<>> -> pc' = "polling"
             [] chunk = <<>> /\ ~open -> pc' = "ended"
             [] OTHER -> pc' = "waiting")
        BY <1>4 DEF EndsWith
    <2> QED BY <1>0, <1>4, <2>1, <2>2, NothingStream
<1> QED BY <1>1, <1>2, <1>3, <1>4 DEF Settle

(* Every step keeps what is said of a stream.                                *)
LEMMA StreamsNext == Streams /\ [Next]_vars => Streams'
<1> SUFFICES ASSUME Streams, [Next]_vars PROVE Streams'
    OBVIOUS
<1>0. IInv'
    BY NextInv DEF Streams
<1>1. CASE Cancel \/ Expire \/ Start \/ Render \/ SendRequest
    BY <1>0, <1>1, AskedStream DEF Streams
<1>2. CASE StopWait \/ FailTransport \/ Answer \/ Establish \/ Poll
    BY <1>0, <1>2, AnsweredStream DEF Streams
<1>3. CASE Buffer \/ Classify
    BY <1>0, <1>3, BufferedStream DEF Streams
<1>4. CASE Decode
    BY <1>0, <1>4, DecodeStream DEF Streams
<1>5. CASE Settle
    BY <1>0, <1>5, SettleStream DEF Streams
<1>6. CASE Receive
    BY <1>0, <1>6, ReceiveStream DEF Streams
<1>7. CASE ReceiveEnd
    BY <1>0, <1>7, ReceiveEndStream DEF Streams
<1>8. CASE UNCHANGED vars
    <2>1. /\ UNCHANGED <<call, server, cancelled, expired, wire, unsent, pc, decoder, chunk, open, decoded>>
          /\ UNCHANGED <<delivered, result>>
        BY <1>8 DEF vars, control, network, state
    <2>2. StreamInv'
        <3>1. CASE pc = "ended"
            BY <2>1, <3>1 DEF StreamInv
        <3>2. CASE pc # "ended"
            <4>1. Fixed /\ Unread /\ pc' # "ended" /\ pc' = pc /\ open' = open
                BY <2>1, <3>2 DEF Fixed, Unread
            <4> QED BY <3>2, <4>1, StreamKept
        <3> QED BY <3>1, <3>2
    <2>3. EndsWell'
        BY <2>1 DEF Streams, EndsWell, YieldsWhatWasSent, IsStream, Interruptions
    <2> QED BY <1>0, <2>2, <2>3 DEF Streams
<1> QED BY <1>1, <1>2, <1>3, <1>4, <1>5, <1>6, <1>7, <1>8 DEF Next

(* However the bytes of a stream are cut into chunks and windows, the call   *)
(* yields the deltas its events stand for and ends as its body says.         *)
THEOREM StreamYields == Spec => []YieldsWhatWasSent
<1>1. Init => Streams
    BY InitInv, StreamInit DEF Streams
<1>2. Streams => YieldsWhatWasSent
    <2> SUFFICES ASSUME Streams PROVE YieldsWhatWasSent
        OBVIOUS
    <2>1. CASE pc = "ended"
        BY <2>1 DEF Streams, EndsWell
    <2>2. CASE pc # "ended"
        <3>1. IInv /\ StreamInv /\ server \in Responses
            BY BodyType DEF Streams
        <3>2. IsStream => IsPrefix(delivered, Said[server.body].deltas)
            BY <2>2, <3>1, DeliveredPrefix, SaidByServer
        <3> QED BY <2>2, <3>2 DEF YieldsWhatWasSent
    <2> QED BY <2>1, <2>2
<1> QED BY <1>1, <1>2, StreamsNext, PTL DEF Spec
=============================================================================
