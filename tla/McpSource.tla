------------------------------- MODULE McpSource -------------------------------
(****************************************************************************)
(* One call of a tool of an MCP server (causa-extension, mcp.rs) and what   *)
(* the bridge records of it (causa-runtime, composition.rs), while the      *)
(* server runs it, the connection closes, the call is cancelled or its      *)
(* deadline passes, and the executor drops it.                              *)
(*                                                                          *)
(* rmcp, which carries the request, is external: it answers with what the   *)
(* server answered or with one of its errors.  A call is [own, arguments]:  *)
(* whether its name is in the namespace, and "object", "null" or "other".   *)
(* An answer is [is_error, content, structured], the content a sequence of  *)
(* "text", "image" and "broken" (an image whose base64 is malformed); an    *)
(* image stands for audio and binary resources too.  "structured" says      *)
(* whether the tool also returned a structured value.                       *)
(****************************************************************************)
EXTENDS Naturals, Sequences

CONSTANT
    Answers  \* what a server may answer: [is_error, content, structured]

ASSUME AnswersAssumption ==
    Answers \subseteq [is_error : BOOLEAN, content : Seq({"text", "image", "broken"}),
                       structured : BOOLEAN]

VARIABLES
    call, store,         \* the call, and whether it has a store
    cancelled, expired,  \* the control
    request,             \* "none", "sent", "running" at the server, "ran", or "refused"
    answer,              \* what the server answered: one, or none yet
    reported,            \* the error rmcp gave for an answer: one, or none
    artifacts,           \* what was persisted: the positions of their blocks
    stage,               \* "start", "calling", "translating", "done", "dropped"
    parts, media,        \* the lines and the references so far
    outcome              \* the status recorded, whether a payload says so, and
                         \* what its content says: lines, or the structured value

control == <<cancelled, expired>>
server  == <<request, answer, reported>>
callVars == <<call, store, control, server, artifacts, stage, parts, media, outcome>>

CallInit ==
    /\ call \in [own : BOOLEAN, arguments : {"object", "null", "other"}]
    /\ store \in BOOLEAN
    /\ cancelled \in BOOLEAN /\ expired \in BOOLEAN
    /\ request = "none" /\ answer = <<>> /\ reported = <<>> /\ artifacts = {}
    /\ stage = "start" /\ parts = <<>> /\ media = <<>> /\ outcome = <<>>

Cancel == ~cancelled /\ cancelled' = TRUE
          /\ UNCHANGED <<call, store, expired, server, artifacts, stage, parts, media, outcome>>

Expire == ~expired /\ expired' = TRUE
          /\ UNCHANGED <<call, store, cancelled, server, artifacts, stage, parts, media, outcome>>

-----------------------------------------------------------------------------
(* ToolBridge::execute: the status an error of the source becomes.           *)

(* Mutant: a deadline that passed is a failure like any other.               *)
BridgedTimedOut(error) ==
    CASE error = "Cancelled" -> "UnknownOutcome" [] error = "UnknownTool" -> "Rejected" [] OTHER -> "Failed"

Bridged(error) ==
    CASE error \in {"TimedOut", "Cancelled"} -> "UnknownOutcome"
      [] error = "UnknownTool" -> "Rejected"
      [] error \in {"Unavailable", "Protocol"} -> "Failed"

Ends(error) ==
    /\ stage' = "done" /\ outcome' = <<[status |-> Bridged(error), payload |-> FALSE, says |-> <<>>]>>
    /\ UNCHANGED <<call, store, control, request, answer, artifacts, parts, media>>

Fails(error) == Ends(error) /\ UNCHANGED reported

(* map_invoke_error: "McpError" is the server's own JSON-RPC error.          *)
MapInvokeError(e) ==
    CASE e = "Timeout" -> "TimedOut"
      [] e = "Cancelled" -> "Cancelled"
      [] e \in {"TransportSend", "TransportClosed"} -> "Unavailable"
      [] OTHER -> "Protocol"

-----------------------------------------------------------------------------
(* invoke_inner, up to the request.                                          *)
Invoke ==
    /\ stage = "start"
    /\ CASE ~call.own -> Fails("UnknownTool")
         [] call.own /\ call.arguments = "other" -> Fails("Protocol")
         [] OTHER -> /\ stage' = "calling"
                     /\ UNCHANGED <<call, store, control, server, artifacts, parts, media, outcome>>

(* The race: the token first, then the call and its deadline.                *)
SeeCancelled == stage = "calling" /\ cancelled /\ Fails("Cancelled")

SeeDeadline == stage = "calling" /\ ~cancelled /\ expired /\ Fails("TimedOut")

Reports(e) == Ends(MapInvokeError(e)) /\ reported' = <<e>>

(* The connection fails, or rmcp gives up.                                   *)
ServiceFails ==
    /\ stage = "calling" /\ ~cancelled
    /\ \E e \in {"Timeout", "Cancelled", "TransportSend", "TransportClosed", "UnexpectedResponse"} : Reports(e)

Send ==
    /\ stage = "calling" /\ ~cancelled /\ request = "none"
    /\ request' = "sent"
    /\ UNCHANGED <<call, store, control, answer, reported, artifacts, stage, parts, media, outcome>>

(* What was sent arrives and runs, whatever became of the call.              *)
ServerRuns ==
    /\ request = "sent" /\ request' = "running"
    /\ UNCHANGED <<call, store, control, answer, reported, artifacts, stage, parts, media, outcome>>

ServerAnswers ==
    /\ request = "running" /\ request' = "ran"
    /\ \E given \in Answers : answer' = <<given>>
    /\ UNCHANGED <<call, store, control, reported, artifacts, stage, parts, media, outcome>>

ServerRefuses ==
    /\ request = "sent" /\ request' = "refused"
    /\ UNCHANGED <<call, store, control, answer, reported, artifacts, stage, parts, media, outcome>>

Refused == stage = "calling" /\ ~cancelled /\ request = "refused" /\ Reports("McpError")

Answered ==
    /\ stage = "calling" /\ ~cancelled /\ answer # <<>>
    /\ stage' = "translating"
    /\ UNCHANGED <<call, store, control, server, artifacts, parts, media, outcome>>

-----------------------------------------------------------------------------
(* The answer, block by block; the store is asked for each image.            *)
Content == answer[1].content
Position == Len(parts) + 1

(* Ingest::run.                                                              *)
Ingested ==
    CASE ~store -> {"NoStore"}
      [] store /\ Content[Position] = "broken" -> {"Failed"}
      [] OTHER -> {"Stored", "Failed"}

(* Mutant: a reference is returned whether or not the store took the bytes.  *)
MediaAlways(ingest) == <<Position>>

(* Ingest::into_media.                                                       *)
MediaOf(ingest) == IF ingest = "Stored" THEN <<Position>> ELSE <<>>

TranslateText ==
    /\ stage = "translating" /\ Position <= Len(Content) /\ Content[Position] = "text"
    /\ parts' = Append(parts, "text")
    /\ UNCHANGED <<call, store, control, server, artifacts, stage, media, outcome>>

TranslateMedia ==
    /\ stage = "translating" /\ Position <= Len(Content) /\ Content[Position] # "text"
    /\ \E ingest \in Ingested :
          /\ parts' = Append(parts, ingest)
          /\ media' = media \o MediaOf(ingest)
          /\ artifacts' = artifacts \cup (IF ingest = "Stored" THEN {Position} ELSE {})
    /\ UNCHANGED <<call, store, control, server, stage, outcome>>

(* Mutant: the content is the text, a structured value notwithstanding.      *)
ObservationText == parts

(* The content of the result: the structured value in place of every line.   *)
Observation == IF answer[1].structured THEN <<"value">> ELSE parts

FinishAnswer ==
    /\ stage = "translating" /\ Position > Len(Content)
    /\ stage' = "done"
    /\ outcome' = <<[status |-> IF answer[1].is_error THEN "Failed" ELSE "Succeeded",
                     payload |-> TRUE, says |-> Observation]>>
    /\ UNCHANGED <<call, store, control, server, artifacts, parts, media>>

(* The executor drops the call when its control stops, and records that it   *)
(* knows no outcome.                                                         *)
Drop ==
    /\ stage \in {"calling", "translating"} /\ (cancelled \/ expired)
    /\ stage' = "dropped" /\ outcome' = <<[status |-> "UnknownOutcome", payload |-> FALSE, says |-> <<>>]>>
    /\ UNCHANGED <<call, store, control, server, artifacts, parts, media>>

CallNext ==
    \/ Cancel \/ Expire \/ Invoke \/ SeeCancelled \/ SeeDeadline \/ ServiceFails
    \/ Send \/ ServerRuns \/ ServerAnswers \/ ServerRefuses \/ Refused \/ Answered
    \/ TranslateText \/ TranslateMedia \/ FinishAnswer \/ Drop

CallSpec == CallInit /\ [][CallNext]_callVars

-----------------------------------------------------------------------------
Recorded(status) == outcome # <<>> /\ outcome[1].status = status

(* A result claims no more than is known: success only if the server ran the *)
(* tool and said so, a rejection only if no request left; and a call that    *)
(* was cut short once its request may have left is an unknown outcome, no    *)
(* failure, unless rmcp or the server reported one, while an answer the      *)
(* adapter took is what is recorded unless the executor drops it.            *)
ClaimsWhatIsKnown ==
    /\ Recorded("Succeeded") => answer # <<>> /\ ~answer[1].is_error
    /\ Recorded("Rejected") => request = "none" /\ ~call.own
    /\ outcome # <<>> /\ ~outcome[1].payload /\ request # "none" =>
           Recorded("UnknownOutcome") \/ reported \notin {<<>>, <<"Timeout">>, <<"Cancelled">>}

(* What a result says: the structured value when the tool returned one, and  *)
(* otherwise one line for every block of the answer, in order, which tells   *)
(* a stored image from one the store refused or was not there for, whatever  *)
(* it did with another block.  Either way its references are the artifacts   *)
(* that were persisted for it, and no other, in the order of their blocks.   *)
ContentAccountedFor ==
    stage = "done" /\ outcome[1].payload =>
        LET says == outcome[1].says IN
        /\ answer[1].structured => says = <<"value">>
        /\ ~answer[1].structured =>
              /\ Len(says) = Len(Content)
              /\ \A i \in 1..Len(Content) :
                    /\ says[i] = "text" <=> Content[i] = "text"
                    /\ says[i] = "Stored" <=> i \in artifacts
                    /\ says[i] = "NoStore" => ~store
        /\ {media[i] : i \in DOMAIN media} = artifacts
        /\ \A i, j \in DOMAIN media : i < j => media[i] < media[j]

(* The documented meaning of a failed result (causa-kernel, context/         *)
(* tool_data.rs, ToolResultStatus::Failed): "The tool ran and reported       *)
(* failure".                                                                 *)
FailedWasReported == Recorded("Failed") => answer # <<>> /\ answer[1].is_error
=============================================================================
