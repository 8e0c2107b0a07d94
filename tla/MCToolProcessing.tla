--------------------------- MODULE MCToolProcessing ---------------------------
(* A small instance of ToolProcessing for TLC.                               *)
EXTENDS ToolProcessing

CONSTANTS c1, c2, r1, r2, note

Calls2 == <<c1, c2>>

OneProcessor  == [p \in {"Before", "After"} |-> 1]

(* A tool answers well with a note, or without knowing what happened.        *)
Noted    == {[status |-> "Succeeded", notes |-> <<note>>],
             [status |-> "UnknownOutcome", notes |-> <<>>]}
=============================================================================
