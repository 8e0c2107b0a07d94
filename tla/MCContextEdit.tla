---------------------------- MODULE MCContextEdit ----------------------------
(* A small instance of ContextEdit for TLC.                                  *)
EXTENDS ContextEdit, TLC

CONSTANTS b1, b2, b3, old, new

Blocks == [id : {b1, b2, b3}, content : {old, new}]

BlockOf(id, content) == [id |-> id, content |-> content]

UpToTwo == {SubSeq(<<BlockOf(b1, old), BlockOf(b2, old)>>, 1, n) : n \in 0..2}

(* Nothing, the first block as it is or changed, or a new one.               *)
OneBlock == {<<>>, <<BlockOf(b1, old)>>, <<BlockOf(b1, new)>>, <<BlockOf(b3, new)>>}
=============================================================================
