----------------------------- MODULE ContextEdit -----------------------------
(****************************************************************************)
(* An edit of a Context (causa-kernel, context/material/state/edit.rs):     *)
(* replacements and appends are collected against the blocks as they were,  *)
(* then applied as a whole or not at all.                                   *)
(*                                                                          *)
(* A block is its id and its content, which stands for all that PartialEq   *)
(* compares.  Ranges are half-open and count from 0, as in the code; the    *)
(* block at position p is blocks[p + 1].                                    *)
(****************************************************************************)
EXTENDS Integers, Sequences, FiniteSets, SequencesExt

CONSTANTS
    Block,            \* blocks: an id and a content
    Contexts,         \* contexts edits start from
    Inserts,          \* block sequences an edit may insert
    Appends,          \* block sequences an edit may append
    MaxReplacements   \* bound: replacements in one edit

Distinct(bs) == \A i, j \in 1..Len(bs) : bs[i].id = bs[j].id => i = j

(* from_blocks, the only way to a context but editing, is such an edit.      *)
ASSUME ContextsAssumption == \A bs \in Contexts : Distinct(bs)

ASSUME BlocksAssumption == Contexts \cup Inserts \cup Appends \subseteq Seq(Block)

VARIABLES
    blocks,        \* Context.blocks
    replacements,  \* ContextEdit.replacements
    appended,      \* ContextEdit.appended
    outcome        \* "editing", or what commit came to

editVars == <<blocks, replacements, appended, outcome>>

EditInit ==
    /\ blocks \in Contexts
    /\ replacements = <<>> /\ appended = <<>> /\ outcome = "editing"

-----------------------------------------------------------------------------
(* The builder.                                                              *)
Replace ==
    /\ outcome = "editing" /\ Len(replacements) < MaxReplacements
    /\ \E start, end \in 0..Len(blocks) + 1, with \in Inserts :
           replacements' = Append(replacements, [start |-> start, end |-> end, with |-> with])
    /\ UNCHANGED <<blocks, appended, outcome>>

(* Bound: one append; several would add up to one.                           *)
AppendBlocks ==
    /\ outcome = "editing" /\ appended = <<>>
    /\ \E bs \in Appends : appended' = appended \o bs
    /\ UNCHANGED <<blocks, replacements, outcome>>

Drop ==
    /\ outcome = "editing"
    /\ outcome' = "dropped"
    /\ UNCHANGED <<blocks, replacements, appended>>

-----------------------------------------------------------------------------
(* validate_edit.                                                            *)
InvalidRange(r) == r.start > r.end \/ r.end > Len(blocks)

RangeIsEmpty(r) == r.start >= r.end

RangesConflict(l, r) ==
    CASE RangeIsEmpty(l) /\ RangeIsEmpty(r)   -> l.start = r.start
      [] RangeIsEmpty(l) /\ ~RangeIsEmpty(r)  -> r.start <= l.start /\ l.start < r.end
      [] ~RangeIsEmpty(l) /\ RangeIsEmpty(r)  -> l.start <= r.start /\ r.start < l.end
      [] ~RangeIsEmpty(l) /\ ~RangeIsEmpty(r) -> l.start < r.end /\ r.start < l.end

(* Mutant: a replacement that was ousted itself ousts no other.              *)
RetainedLatestFirst ==
    LET last == Len(replacements) + 1
        keep(kept, n) ==
            IF \E k \in kept : RangesConflict(replacements[last - n], replacements[k])
            THEN kept ELSE kept \cup {last - n}
    IN  FoldLeftDomain(keep, {}, replacements)

(* Each replacement ousts the earlier ones it conflicts with;                *)
Retained ==
    FoldLeftDomain(
        LAMBDA kept, i :
            {k \in kept : ~RangesConflict(replacements[i], replacements[k])} \cup {i},
        {}, replacements)

(* those left are taken in the order of their starts, no two of them equal.  *)
Effective ==
    LET left == Retained
    IN  CHOOSE s \in Bijection(1..Cardinality(left), left) :
            \A k, l \in DOMAIN s : k < l => replacements[s[k]].start <= replacements[s[l]].start

(* Mutant: only what the edit leaves of the originals is compared.           *)
MismatchesKept(block) ==
    \E p \in 1..Len(blocks) :
        /\ \A i \in 1..Len(replacements) : ~(replacements[i].start < p /\ p <= replacements[i].end)
        /\ blocks[p].id = block.id /\ blocks[p] # block

Mismatches(block) == \E p \in 1..Len(blocks) : blocks[p].id = block.id /\ blocks[p] # block

Incoming == ToSet(appended) \cup UNION {ToSet(replacements[i].with) : i \in Retained}

(* The walk both validation and the edit make: up to each range, what        *)
(* replaces it, then the rest and the tail.                                  *)
Walk ==
    LET step(at, i) ==
            [output |-> at.output \o SubSeq(blocks, at.source + 1, replacements[i].start)
                                  \o replacements[i].with,
             source |-> replacements[i].end]
        last == FoldLeft(step, [output |-> <<>>, source |-> 0], Effective)
    IN  last.output \o SubSeq(blocks, last.source + 1, Len(blocks)) \o appended

Duplicates(bs) == ~Distinct(bs)

ValidateEdit ==
    CASE \E i \in 1..Len(replacements) : InvalidRange(replacements[i]) -> "InvalidRange"
      [] OTHER ->
           CASE \E block \in Incoming : Mismatches(block) -> "BlockIdentityMismatch"
             [] OTHER -> IF Duplicates(Walk) THEN "DuplicateBlockId" ELSE "Ok"

Commit ==
    /\ outcome = "editing"
    /\ outcome' = ValidateEdit
    /\ blocks' = IF outcome' = "Ok" THEN Walk ELSE blocks
    /\ UNCHANGED <<replacements, appended>>

EditOver == outcome # "editing" /\ UNCHANGED editVars

EditNext == Replace \/ AppendBlocks \/ Drop \/ Commit \/ EditOver

EditSpec == EditInit /\ [][EditNext]_editVars

-----------------------------------------------------------------------------
(* What an edit means, position by position.  A range claims the positions   *)
(* it covers, or the one it inserts at; a replacement stands if no later one *)
(* claims a position of its.                                                 *)
Claims(r) == IF r.start = r.end THEN {r.start} ELSE r.start..r.end - 1
Covers(r) == r.start..r.end - 1

Stands(i) ==
    \A j \in i + 1..Len(replacements) : Claims(replacements[i]) \cap Claims(replacements[j]) = {}

Standing == {i \in 1..Len(replacements) : Stands(i)}

InsertedAt(p) ==
    LET here == {i \in Standing : replacements[i].start = p}
    IN  IF here = {} THEN <<>> ELSE replacements[CHOOSE i \in here : TRUE].with

KeptAt(p) ==
    IF p < Len(blocks) /\ \A i \in Standing : p \notin Covers(replacements[i])
    THEN <<blocks[p + 1]>> ELSE <<>>

Meant == FlattenSeq([n \in 1..Len(blocks) + 1 |-> InsertedAt(n - 1) \o KeptAt(n - 1)]) \o appended

AllRangesExist ==
    \A i \in 1..Len(replacements) :
        replacements[i].start <= replacements[i].end /\ replacements[i].end <= Len(blocks)

(* A committed edit puts every block where its replacements mean it to be;   *)
(* one that fails or is dropped leaves the context as it was; and an edit is *)
(* refused for an id it would repeat, or give other content to, or a range   *)
(* that is not there, and for nothing else.                                  *)
Refusable ==
    \/ ~AllRangesExist \/ ~Distinct(Meant)
    \/ \E i \in 1..Len(Meant), p \in 1..Len(blocks) :
           Meant[i].id = blocks[p].id /\ Meant[i] # blocks[p]

EditIsWhatWasMeant ==
    [][CASE outcome' = "Ok"      -> ~Refusable /\ blocks' = Meant
         [] outcome' = "dropped" -> blocks' = blocks
         [] OTHER                -> Refusable /\ blocks' = blocks]_outcome

(* No edit makes an id mean another block, not even one that removes the     *)
(* block the id stood for, and no id stands for two blocks.                  *)
IdentityKept ==
    [][/\ Distinct(blocks')
       /\ \A p \in 1..Len(blocks), q \in 1..Len(blocks') :
              blocks[p].id = blocks'[q].id => blocks[p] = blocks'[q]]_outcome
=============================================================================
