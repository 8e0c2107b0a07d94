--------------------------- MODULE MCProviderStream ---------------------------
(* Small instances of ProviderStream for TLC: streams with every line end,   *)
(* and answers that are not streams.                                         *)
EXTENDS ProviderStream, TLC

Terminators == {<<"cr">>, <<"lf">>, <<"cr", "lf">>}

(* Lines, each ended in every way.                                           *)
Ended(lines) ==
    {FlattenSeq([i \in 1..Len(lines) |-> lines[i] \o ends[i]]) : ends \in [1..Len(lines) -> Terminators]}

Streams ==
    Ended(<<<<"bom", "data:", "a">>, <<>>, <<"data:", "z">>, <<>>>>)
        \cup Ended(<<<<"data:", "sp", "a">>, <<"data:", "sp", "sp">>, <<>>, <<":">>>>)
        \cup Ended(<<<<":", "bom">>, <<"event:", "u1", "u2">>, <<"data:", "a">>, <<>>>>)
        \cup {<<"data:", "z", "lf", "cr", "lf", "data:", "a", "lf", "lf">>,
              <<"data:", "a", "lf", "lf", "data:", "x", "lf", "lf", "data:", "z", "lf", "lf">>,
              <<"data:", "m", "lf", "lf">>, <<"data:", "u1", "lf", "lf">>, <<"data:", "a", "lf", "u1">>,
              <<"data:", "a", "a", "a", "a", "lf", "lf">>,
              <<"data:", "a", "lf", ":", "lf", ":", "a", "lf", ":", "lf", "lf">>,
              <<"data:", "a", "lf", "lf", ":", "lf", "lf", "data:", "a", "lf", "lf", "data:", "z", "cr", "cr", "lf">>,
              <<"data:", "a", "lf", "lf", ":", "lf", "lf", "data:", "a", "lf", "lf", ":", "a", "a", "a", "lf", ":">>}

Meanings ==
    (<<"a">> :> <<"a">>) @@ (<<"z">> :> <<"end", "done">>) @@ (<<"x">> :> <<"broken">>)
        @@ (<<"m">> :> <<"a", "a", "a">>) @@ (<<"a", "nl", "sp">> :> <<"spaced">>)

Says200 == {<<"ok">>, <<"odd">>, <<"no">>, <<"limit">>, <<"bad", "request">>, <<"html">>, <<"u2">>, <<>>,
            <<"ok", "sp", "sp">>}

Documents ==
    (<<"ok">> :> [error |-> <<>>, parses |-> TRUE]) @@ (<<"odd">> :> [error |-> <<>>, parses |-> FALSE])
        @@ (<<"no">> :> [error |-> <<[code |-> "odd", type |-> ""]>>, parses |-> TRUE])
        @@ (<<"limit">> :> [error |-> <<[code |-> "odd", type |-> "rate_limit_error"]>>, parses |-> FALSE])
        @@ (<<"bad", "request">> :> [error |-> <<[code |-> "", type |-> "invalid_request_error"]>>, parses |-> FALSE])

StreamResponse(body) ==
    [status |-> 200, retry |-> "none", ms |-> -1, after |-> -1, sse |-> TRUE, declared |-> FALSE, body |-> body]

AllResponses ==
    {StreamResponse(body) : body \in Streams}
        \cup [status : {200, 400, 404, 429, 503}, retry : {"none", "true", "false"}, ms : {-1, 20}, after : {-1, 3},
              sse : {FALSE}, declared : {FALSE}, body : Says200]
        \cup [status : {200, 503}, retry : {"none"}, ms : {-1}, after : {-1}, sse : BOOLEAN, declared : {TRUE},
              body : Says200]
=============================================================================
