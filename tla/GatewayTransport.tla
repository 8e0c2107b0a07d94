--------------------------- MODULE GatewayTransport ---------------------------
(****************************************************************************)
(* What an HTTP exchange with a provider is reported as (causa-provider,    *)
(* gateway_transport.rs; causa-protocol, error_envelope.rs).                *)
(*                                                                          *)
(* A response is [status, retry, ms, after, sse, declared, body]: retry is  *)
(* what x-should-retry says ("true", "false", or "none" for anything else), *)
(* ms and after are the retry-after headers in their units, -1 when absent, *)
(* unusable or past; declared says whether a content length was sent.       *)
(* Document is what the JSON bodies say: the error object under "error", if *)
(* there is one, and whether the protocol's parser takes the value.         *)
(****************************************************************************)
EXTENDS Integers, Sequences

CONSTANTS
    Document,         \* a function from bodies to [error, parses]
    MaxResponseBytes  \* MAX_RESPONSE_BYTES

ASSUME ResponseAssumption == MaxResponseBytes \in Nat

Error(kind) == [kind |-> kind, status |-> 0, code |-> "", retry_delay |-> -1]

IsSuccess(response) == response.status \in 200..299

(* The error object of a body: nothing unless the body is JSON.              *)
ErrorOf(body) == IF body \in DOMAIN Document THEN Document[body].error ELSE <<>>

(* ErrorDetail::read: the code, or else the type.                            *)
CodeOf(error) == IF error.code # "" THEN error.code ELSE error.type

NamedKind(name) ==
    CASE name \in {"rate_limit_exceeded", "rate_limit_error", "overloaded_error", "server_error",
                   "api_error", "internal_server_error", "timeout_error"} -> <<"Transient">>
      [] name \in {"invalid_request_error", "invalid_request"} -> <<"InvalidRequest">>
      [] OTHER -> <<>>

ProviderKind(error) ==
    LET known == NamedKind(error.code) \o NamedKind(error.type)
    IN  IF known # <<>> THEN known[1] ELSE "Permanent"

(* The errors a 2xx body reports about itself: one, or none.                 *)
ReportedError(body) ==
    IF ErrorOf(body) = <<>> THEN <<>>
    ELSE <<[Error(ProviderKind(ErrorOf(body)[1])) EXCEPT !.code = CodeOf(ErrorOf(body)[1])]>>

StatusKind(status) ==
    CASE status \in {408, 409, 429} \cup 500..599 -> "Transient"
      [] status \in {400, 422} -> "InvalidRequest"
      [] OTHER -> "Permanent"

RetryAfter(response) ==
    IF response.ms >= 0 THEN response.ms
    ELSE IF response.after >= 0 THEN 1000 * response.after ELSE -1

MapStatusError(response, text) ==
    LET named == ErrorOf(text) IN
    [kind |-> CASE response.retry = "true"  -> "Transient"
                [] response.retry = "false" ->
                     IF response.status \in {400, 422} THEN "InvalidRequest" ELSE "Permanent"
                [] OTHER -> StatusKind(response.status),
     status |-> response.status,
     code |-> IF named = <<>> THEN "" ELSE CodeOf(named[1]),
     retry_delay |-> RetryAfter(response)]

(* finish_response, for a body that is text: what a call without streaming   *)
(* comes to.                                                                 *)
FinishResponse(response, text) ==
    CASE ~IsSuccess(response) -> MapStatusError(response, text)
      [] IsSuccess(response) /\ ErrorOf(text) # <<>> -> ReportedError(text)[1]
      [] OTHER -> IF text \in DOMAIN Document /\ Document[text].parses
                  THEN Error("None") ELSE Error("Undecodable")

(* map_transport_error: before an answer, and in the middle of a body.       *)
SendFailures == {"TimedOut", "Transient", "Permanent"}
BodyFailures == {"TimedOut", "Transient"}
=============================================================================
