------------------------------- MODULE ToolSet -------------------------------
(****************************************************************************)
(* Tool definitions by name: how changes add up and what one surface        *)
(* differs from another by (causa-kernel, context/tools.rs).                *)
(****************************************************************************)
EXTENDS Naturals, Sequences, FiniteSets, FiniteSetsExt, SequencesExt

OneEach(tools) == \A i, j \in 1..Len(tools) : tools[i].name = tools[j].name => i = j

(* Folding the changes.                                                      *)

Put(tools, definition) ==
    LET same == {i \in 1..Len(tools) : tools[i].name = definition.name}
    IN  IF same = {} THEN Append(tools, definition) ELSE [tools EXCEPT ![Min(same)] = definition]

(* The tools that are among those wanted, in their order.                    *)
Only(tools, wanted) ==
    FoldLeft(LAMBDA kept, definition : IF definition \in wanted THEN Append(kept, definition) ELSE kept,
             <<>>, tools)

Withdraw(tools, names) ==
    Only(tools, {definition \in ToSet(tools) : definition.name \notin ToSet(names)})

(* Mutant: names are withdrawn after the definitions are added.              *)
ApplyAddedFirst(tools, change) == Withdraw(FoldLeft(Put, tools, change.added), change.removed)

ApplyTo(tools, change) == FoldLeft(Put, Withdraw(tools, change.removed), change.added)

ApplyAll(tools, changes) == FoldLeft(ApplyTo, tools, changes)

CurrentTools(changes) == ApplyAll(<<>>, changes)

Names(tools) == [i \in 1..Len(tools) |-> tools[i].name]

(* The first tool of its name is this very definition.                       *)
Finds(tools, definition) ==
    \E i \in 1..Len(tools) :
        tools[i] = definition /\ \A j \in 1..i - 1 : tools[j].name # definition.name

(* Added is what is not offered like that, removed what is not bound so.     *)
Between(previous, current) ==
    [added   |-> Only(current, {definition \in ToSet(current) : ~Finds(previous, definition)}),
     removed |-> Names(Only(previous, {definition \in ToSet(previous) : ~Finds(current, definition)}))]

IsEmpty(change) == change.added = <<>> /\ change.removed = <<>>
=============================================================================
