------------------------------ MODULE TurnLedger ------------------------------
(****************************************************************************)
(* What a run promises a host that keeps its own record of a conversation:  *)
(* tool calls are declared a batch at a time, no new batch is declared      *)
(* while one is open, an open batch is answered as a whole, and when the    *)
(* run ends an open batch is handed back as a whole.  No call is ever lost, *)
(* answered twice, or both answered and handed back.                        *)
(****************************************************************************)
CONSTANT Call
VARIABLES fate, over

TypeOK == /\ fate \in [Call -> {"undeclared", "open", "answered", "returned"}]
          /\ over \in BOOLEAN

Open == {c \in Call : fate[c] = "open"}

Init == fate = [c \in Call |-> "undeclared"] /\ over = FALSE

Move(calls, f) == fate' = [c \in Call |-> IF c \in calls THEN f ELSE fate[c]]

Declare == /\ ~over /\ Open = {}
           /\ \E calls \in SUBSET {c \in Call : fate[c] = "undeclared"} :
                Move(calls, "open")
           /\ UNCHANGED over

Answer == ~over /\ Move(Open, "answered") /\ UNCHANGED over

End == ~over /\ over' = TRUE /\ Move(Open, "returned")

Next == Declare \/ Answer \/ End

Spec == Init /\ [][Next]_<<fate, over>>
=============================================================================
