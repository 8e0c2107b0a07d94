------------------------------ MODULE ToolBatch ------------------------------
(****************************************************************************)
(* The controlled tool batch of causa-kernel (ports/batch.rs): declarations *)
(* with their optional results, kept as one vector whose first `completed`  *)
(* entries have a result and whose remaining entries are pending.           *)
(*                                                                          *)
(* A batch is a record [entries, completed]; entries is a function from     *)
(* positions 1..n to entries (the source counts from 0).  Everything the    *)
(* properties cannot tell apart is left out of an entry: an input is the    *)
(* tool it names, a result is its block ID, the call it claims to answer,   *)
(* its status and its notes.                                                *)
(****************************************************************************)
EXTENDS Integers, Sequences

CONSTANTS
    BlockId,    \* identities of context blocks: declarations and results
    ToolName,   \* names a declaration's input may hold
    Note,       \* notes processors and tools attach
    NoResult    \* the absent result of a pending entry

ToolResultStatus ==
    {"Succeeded", "Failed", "Rejected", "Cancelled", "TimedOut", "UnknownOutcome"}

(* A result payload as a tool or the runtime produces it: it names the call  *)
(* it answers, which need not be the entry it is offered to.                 *)
ToolResultPayload ==
    [call : BlockId, status : ToolResultStatus, notes : Seq(Note)]

Result ==
    [id : BlockId, call : BlockId, status : ToolResultStatus, notes : Seq(Note)]

ToolCallEntry ==
    [call : BlockId, input : ToolName, notes : Seq(Note),
     result : Result \cup {NoResult}]

ASSUME NoResultAssumption == NoResult \notin Result

Batch(n) == [entries : [1..n -> ToolCallEntry], completed : 0..n]

-----------------------------------------------------------------------------
(* The two parts of the vector, and identities.                              *)

Completed(b) == {i \in DOMAIN b.entries : i <= b.completed}
Pending(b)   == {i \in DOMAIN b.entries : i > b.completed}

DeclarationIds(b) == {b.entries[i].call : i \in DOMAIN b.entries}
PendingCalls(b)   == {b.entries[i].call : i \in Pending(b)}
DecidedCalls(b)   == {b.entries[i].call : i \in Completed(b)}
ResultIds(b)      ==
    {b.entries[i].result.id : i \in {j \in DOMAIN b.entries :
                                         b.entries[j].result # NoResult}}

(* The entry holding declaration c (batches in use declare a call once).     *)
EntryOf(b, c) == b.entries[CHOOSE i \in DOMAIN b.entries : b.entries[i].call = c]

(* The notes of an entry, wherever push_note put them.                       *)
NotesOf(e) == IF e.result = NoResult THEN e.notes ELSE e.result.notes

-----------------------------------------------------------------------------
(* ToolBatch::new on declarations whose IDs are distinct.                    *)
NewBatch(n, decl, input) ==
    [entries   |-> [i \in 1..n |-> [call |-> decl[i], input |-> input[decl[i]],
                                    notes |-> <<>>, result |-> NoResult]],
     completed |-> 0]

UniqueDeclarations(b) ==
    \A i, j \in DOMAIN b.entries :
        b.entries[i].call = b.entries[j].call => i = j

(* Exactly the prefix has results, and each one answers its own declaration. *)
Partitioned(b) ==
    /\ \A i \in Pending(b) : b.entries[i].result = NoResult
    /\ \A i \in Completed(b) : /\ b.entries[i].result # NoResult
                               /\ b.entries[i].result.call = b.entries[i].call

UniqueResultIds(b) ==
    \A i \in Completed(b) :
        /\ \A j \in DOMAIN b.entries : b.entries[j].call # b.entries[i].result.id
        /\ \A j \in Completed(b) :
               b.entries[j].result.id = b.entries[i].result.id => i = j

(* validate(): the order of its checks only selects the error's wording.     *)
Validate(b) ==
    /\ UniqueDeclarations(b)
    /\ Partitioned(b)
    /\ UniqueResultIds(b)

ValidateComplete(b) == Validate(b) /\ Pending(b) = {}

-----------------------------------------------------------------------------
(* check_resolve(): whether a result may be installed at a position.         *)
CheckResolve(b, i, id, payload) ==
    /\ Validate(b)
    /\ i \in Pending(b)
    /\ payload.call = b.entries[i].call
    /\ id \notin DeclarationIds(b) \cup ResultIds(b)

(* resolve_at() without its swap, and a mutant of it that swaps the result   *)
(* to the head of the prefix.                                                *)
ResolveAtInPlace(b, i, id, payload) ==
    [entries   |-> [b.entries EXCEPT ![i].result =
                      [id |-> id, call |-> payload.call, status |-> payload.status,
                       notes |-> payload.notes]],
     completed |-> b.completed + 1]

ResolveAtHead(b, i, id, payload) ==
    [entries   |-> [b.entries EXCEPT ![i] = b.entries[1],
                      ![1] = ResolveAtInPlace(b, i, id, payload).entries[i]],
     completed |-> b.completed + 1]

(* resolve_at(), once accepted: the notes collected while pending come       *)
(* first, and the entry is swapped to the end of the completed prefix.       *)
ResolveAt(b, i, id, payload) ==
    LET c    == b.completed + 1
        done == [b.entries[i] EXCEPT
                   !.notes  = <<>>,
                   !.result = [id |-> id, call |-> payload.call,
                               status |-> payload.status,
                               notes  |-> b.entries[i].notes \o payload.notes]]
    IN  [entries   |-> [b.entries EXCEPT ![i] = b.entries[c], ![c] = done],
         completed |-> c]

=============================================================================
