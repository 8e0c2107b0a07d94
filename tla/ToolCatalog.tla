----------------------------- MODULE ToolCatalog -----------------------------
(****************************************************************************)
(* ToolExecutor::bind (causa-runtime, executor/catalog.rs) while the host   *)
(* registers and unregisters dynamic sources (executor/registry.rs).        *)
(*                                                                          *)
(* One bind is modelled: binds share only the registry, which they read.    *)
(* What a source's describe() answers is any listing; DynamicSource has its *)
(* cache.                                                                   *)
(****************************************************************************)
EXTENDS Naturals, Sequences, FiniteSets

CONSTANTS
    Id,                \* ids of dynamic sources
    Name,              \* names of tools
    StaticTools,       \* the names the executor was built with
    MaxRegistrations,  \* bound: calls of register_dynamic
    MaxListing         \* bound: tools one source lists

Unique(s) == \A i, j \in 1..Len(s) : s[i] = s[j] => i = j

(* ToolExecutor::new refuses a name that occurs twice.                       *)
ASSUME StaticAssumption == StaticTools \in Seq(Name) /\ Unique(StaticTools)
ASSUME BoundsAssumption == MaxRegistrations \in Nat /\ MaxListing \in Nat

VARIABLES
    registry,       \* ToolExecutor.dynamic, in registration order
    registrations,  \* how many there were: each is an entry of its own
    pc,             \* where the bind is
    snapshot,       \* the registrations it took
    index,          \* the next entry of the loop it is in
    tools,          \* the descriptions so far, as names
    targets,        \* the targets so far: who answers to a name
    stopped,        \* the bind's control
    during,         \* history: what the registry was while binding
    described       \* history: [entry, listing] of each source, in order

host == <<registry, registrations>>
bind == <<pc, snapshot, index, tools, targets>>
vars == <<host, bind, stopped, during, described>>

Entry == [id : Id, registration : 1..MaxRegistrations]
Static == "static"
Listings == UNION {[1..n -> Name] : n \in 0..MaxListing}

Init ==
    /\ registry = <<>> /\ registrations = 0
    /\ pc = "start" /\ snapshot = <<>> /\ index = 1 /\ tools = <<>>
    /\ targets = [name \in {} |-> Static]
    /\ stopped = FALSE /\ during = {} /\ described = <<>>

Binding == pc \in {"static", "dynamic", "listing"}

-----------------------------------------------------------------------------
(* The host.                                                                 *)
Changed(entries) ==
    /\ registry' = entries
    /\ during' = IF Binding THEN during \cup {entries} ELSE during
    /\ UNCHANGED <<bind, stopped, described>>

RegisterDynamic(id) ==
    /\ registrations < MaxRegistrations
    /\ \A i \in 1..Len(registry) : registry[i].id # id
    /\ registrations' = registrations + 1
    /\ Changed(Append(registry, [id |-> id, registration |-> registrations + 1]))

UnregisterDynamic(id) ==
    /\ \E i \in 1..Len(registry) :
           /\ registry[i].id = id
           /\ Changed(SubSeq(registry, 1, i - 1) \o SubSeq(registry, i + 1, Len(registry)))
    /\ UNCHANGED registrations

Stop ==
    /\ ~stopped
    /\ stopped' = TRUE
    /\ UNCHANGED <<host, bind, during, described>>

-----------------------------------------------------------------------------
(* bind().                                                                   *)
Fail ==
    /\ pc' = "failed"
    /\ UNCHANGED <<host, snapshot, index, tools, targets, stopped, during, described>>

(* The checks of the control, before the snapshot, each entry and the end.   *)
ControlStops ==
    /\ pc \in {"start", "static", "dynamic"}
    /\ stopped
    /\ Fail

TakeSnapshot ==
    /\ pc = "start" /\ ~stopped
    /\ snapshot' = registry
    /\ during' = {registry}
    /\ pc' = "static"
    /\ UNCHANGED <<host, index, tools, targets, stopped, described>>

StaticNameChanged ==
    /\ pc = "static" /\ ~stopped /\ index <= Len(StaticTools)
    /\ Fail

Routed(names, target) ==
    [name \in DOMAIN targets \cup names |-> IF name \in names THEN target ELSE targets[name]]

BindStatic ==
    /\ pc = "static" /\ ~stopped /\ index <= Len(StaticTools)
    /\ targets' = Routed({StaticTools[index]}, Static)
    /\ tools' = Append(tools, StaticTools[index])
    /\ index' = index + 1
    /\ UNCHANGED <<host, pc, snapshot, stopped, during, described>>

StaticBound ==
    /\ pc = "static" /\ index > Len(StaticTools)
    /\ pc' = "dynamic"
    /\ index' = 1
    /\ UNCHANGED <<host, snapshot, tools, targets, stopped, during, described>>

(* Mutants: the sources are read as the loop reaches them; only a source's   *)
(* own names are compared.                                                   *)
SourcesRead == registry
NewNamesLoosely(listing) == Unique(listing)

Sources == snapshot
NewNames(listing) == Unique(listing) /\ \A i \in 1..Len(listing) : listing[i] \notin DOMAIN targets

StartDescribe ==
    /\ pc = "dynamic" /\ ~stopped /\ index <= Len(Sources)
    /\ described' = Append(described, [entry |-> Sources[index], listing |-> <<>>])
    /\ pc' = "listing"
    /\ UNCHANGED <<host, snapshot, index, tools, targets, stopped, during>>

(* A description whose name is taken fails the bind; so does describe().     *)
DuplicateTool ==
    /\ pc = "listing"
    /\ \E listing \in Listings : ~NewNames(listing)
    /\ Fail

DescribeFails ==
    /\ pc = "listing"
    /\ Fail

Described ==
    /\ pc = "listing"
    /\ \E listing \in Listings :
           LET last == Len(described)
               entry == described[last].entry IN
           /\ NewNames(listing)
           /\ described' = [described EXCEPT ![last].listing = listing]
           /\ tools' = tools \o listing
           /\ targets' = Routed({listing[i] : i \in 1..Len(listing)}, entry)
    /\ index' = index + 1
    /\ pc' = "dynamic"
    /\ UNCHANGED <<host, snapshot, stopped, during>>

Finish ==
    /\ pc = "dynamic" /\ ~stopped /\ index > Len(Sources)
    /\ pc' = "bound"
    /\ UNCHANGED <<host, snapshot, index, tools, targets, stopped, during, described>>

Terminated == pc \in {"bound", "failed"} /\ UNCHANGED vars

Bind ==
    \/ ControlStops \/ TakeSnapshot \/ StaticNameChanged \/ BindStatic \/ StaticBound
    \/ StartDescribe \/ DuplicateTool \/ DescribeFails \/ Described \/ Finish

Host == \E id \in Id : RegisterDynamic(id) \/ UnregisterDynamic(id)

Next == Host \/ Stop \/ Bind \/ Terminated

Spec == Init /\ [][Next]_vars

-----------------------------------------------------------------------------
(* Unregistering by id and the runner's error messages rely on one source    *)
(* per id, whatever the order of calls.                                      *)
RegistryIdsUnique ==
    \A i, j \in 1..Len(registry) : registry[i].id = registry[j].id => i = j

(* The sources a binding comes from were registered together at one moment   *)
(* of the bind: none that was replaced meanwhile beside its replacement.     *)
OneMoment ==
    pc = "bound" =>
        \E entries \in during :
            /\ Len(described) = Len(entries)
            /\ \A i \in 1..Len(entries) : described[i].entry = entries[i]

(* A name in the catalog means one tool, the one dispatch will run: it was   *)
(* listed once, and its target is who listed it.                             *)
NamesRoute ==
    pc = "bound" =>
        /\ Unique(tools)
        /\ DOMAIN targets = {tools[i] : i \in 1..Len(tools)}
        /\ \A i \in 1..Len(StaticTools) : targets[StaticTools[i]] = Static
        /\ \A i \in 1..Len(described) :
               \A j \in 1..Len(described[i].listing) :
                   targets[described[i].listing[j]] = described[i].entry
=============================================================================
