------------------------------ MODULE MCMcpSource ------------------------------
(* A small instance of McpSource for TLC.                                    *)
EXTENDS McpSource

UpToThree ==
    [is_error : BOOLEAN,
     content : UNION {[1..n -> {"text", "image", "broken"}] : n \in 0..3},
     structured : BOOLEAN]
=============================================================================
