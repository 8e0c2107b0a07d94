------------------------------ MODULE ToolChange ------------------------------
(****************************************************************************)
(* The tools a conversation offers, kept as changes in its context          *)
(* (causa-kernel, context/tools.rs): each round records the difference to   *)
(* the tools it bound (causa-runtime, driver/commit.rs), and the host edits *)
(* the context as it likes between the rounds.                              *)
(*                                                                          *)
(* Only the change blocks of a context are modelled.                        *)
(****************************************************************************)
EXTENDS ToolSet

CONSTANTS
    Name,        \* names of tools
    Rest,        \* what else a definition says
    Unrecorded,  \* nothing was bound since the host's last edit
    MaxBlocks    \* bound: change blocks in the context

ToolDefinition == [name : Name, body : Rest]

ASSUME NameAssumption == IsFiniteSet(Name)

ASSUME UnrecordedAssumption == Unrecorded \notin Seq(ToolDefinition)

VARIABLES
    recorded,  \* the ToolChange blocks, in order: [added, removed]
    lastBound  \* history: the definitions bound last, or Unrecorded

toolVars == <<recorded, lastBound>>

(* A bound surface names each tool once (ToolCatalog, NamesRoute).           *)
BoundSurfaces ==
    {s \in UNION {[1..n -> ToolDefinition] : n \in 0..Cardinality(Name)} : OneEach(s)}

(* A change a host writes, with repeated and unknown names.                  *)
HostChanges ==
    [added : UNION {[1..n -> ToolDefinition] : n \in 0..2},
     removed : UNION {[1..n -> Name] : n \in 0..1}]

ToolsInit == recorded = <<>> /\ lastBound = <<>>

-----------------------------------------------------------------------------
RecordSurface(surface) ==
    LET change == Between(CurrentTools(recorded), surface) IN
    /\ Len(recorded) < MaxBlocks
    /\ recorded' = IF IsEmpty(change) THEN recorded ELSE Append(recorded, change)
    /\ lastBound' = surface

HostAppends(change) ==
    /\ Len(recorded) < MaxBlocks
    /\ recorded' = Append(recorded, change)
    /\ lastBound' = Unrecorded

HostDrops(i) ==
    /\ recorded' = RemoveAt(recorded, i)
    /\ lastBound' = Unrecorded

ToolsNext ==
    \/ \E surface \in BoundSurfaces : RecordSurface(surface)
    \/ \E change \in HostChanges : HostAppends(change)
    \/ \E i \in 1..Len(recorded) : HostDrops(i)

ToolsSpec == ToolsInit /\ [][ToolsNext]_toolVars

-----------------------------------------------------------------------------
(* The context offers what the round bound, each name once, whatever the     *)
(* host made of the changes before: a call of a bound tool is never called   *)
(* unoffered, and one name never stands for two definitions.                 *)
OfferedIsBound ==
    LET offered == CurrentTools(recorded)
    IN  OneEach(offered) /\ (lastBound # Unrecorded => ToSet(offered) = ToSet(lastBound))
=============================================================================
