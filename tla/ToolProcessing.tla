--------------------------- MODULE ToolProcessing ---------------------------
(****************************************************************************)
(* One call of BoundTools::process (causa-runtime, executor/processing.rs): *)
(* the fixed chain of before-processors, the concurrent dispatch of the     *)
(* calls still pending, the settlement of started calls when dispatch is    *)
(* cut short, and the after-processors.                                     *)
(*                                                                          *)
(* The runtime's own code is interleaved with what it does not control: the *)
(* host cancelling or the deadline passing on another thread, the tools     *)
(* that run, and the host's processors, which edit the batch in place and   *)
(* can be dropped at any await when a stop is seen.                         *)
(****************************************************************************)
EXTENDS ToolBatch

CONSTANTS
    N,             \* number of declarations in the batch
    Declared,      \* their block IDs, in declaration order
    Bound,         \* names in BoundTools.targets
    NumProcessors, \* configured processors of each phase
    CallTimeout,   \* TRUE when options.call_timeout is set
    HasDeadline,   \* TRUE when the caller's control has a deadline
    ToolReturns,   \* what tools may return: records [status, notes]
    MaxEdits       \* bound: edits all processors make together

ASSUME NAssumption == N \in Nat
ASSUME DeclaredAssumption ==
    /\ Declared \in [1..N -> BlockId]
    /\ \A i, j \in 1..N : Declared[i] = Declared[j] => i = j
ASSUME BoundAssumption == Bound \subseteq ToolName
ASSUME ProcessorsAssumption == NumProcessors \in [{"Before", "After"} -> Nat]
ASSUME ToolReturnsAssumption ==
    ToolReturns \subseteq [status : ToolResultStatus, notes : Seq(Note)]
ASSUME FlagsAssumption == /\ CallTimeout \in BOOLEAN
                          /\ HasDeadline \in BOOLEAN
                          /\ MaxEdits \in Nat

VARIABLES
    batch,      \* the batch the caller lent
    pc,         \* where the processing future is
    phase,      \* the processor phase being run, or last run
    index,      \* position of the current processor in its phase
    previous,   \* process_phase's Snapshot of the last accepted batch
    cancelled,  \* the caller's cancellation token has fired
    expired,    \* the caller's deadline has passed
    task,       \* per call: state of its future in the FuturesUnordered
    answer,     \* per call: the payload its future produced, else NoResult
    started,    \* dispatch's record of started calls
    ran,        \* history: calls whose tool was polled
    handoff,    \* history: the batch when dispatch began
    edits,      \* bound: processor edits so far
    outcome     \* what process() returned, "None" while it runs

control   == <<cancelled, expired>>
tasks     == <<task, answer, started, ran, handoff>>
processor == <<phase, index, previous, edits>>
vars == <<batch, pc, control, tasks, processor, outcome>>

Calls == {Declared[i] : i \in 1..N}

(* The payloads tools produce, answering their own call or another one.      *)
Payloads == {[call |-> c, status |-> r.status, notes |-> r.notes] :
                c \in Calls, r \in ToolReturns}

TypeOK ==
    /\ batch \in Batch(N)
    /\ pc \in {"entry", "reject1", "phase", "processor", "reject2",
               "dispatch", "settle", "done"}
    /\ phase \in {"Before", "After"}
    /\ index \in Nat
    /\ previous \in Batch(N)
    /\ cancelled \in BOOLEAN
    /\ expired \in BOOLEAN
    /\ task \in [Calls -> {"none", "new", "entered", "running", "ready", "collected"}]
    /\ answer \in [Calls -> ToolResultPayload \cup {NoResult}]
    /\ \A c \in Calls : task[c] = "ready" => answer[c] \in ToolResultPayload
    /\ started \subseteq Calls
    /\ ran \subseteq Calls
    /\ handoff \in Batch(N)
    /\ edits \in Nat
    /\ outcome \in {"None", "Ok", "InvalidBatch", "NotFreshBatch", "Cancelled",
                    "TimedOut", "Processor", "InvalidProcessorBatch", "Handoff",
                    "ResultRejected"}

(* A host hands over a new batch, or one an interrupted call left behind.    *)
Init ==
    /\ \E input \in [Calls -> ToolName] :
         LET fresh == NewBatch(N, Declared, input)
         IN  \/ batch = fresh
             \/ \E i \in 1..N, id \in BlockId, p \in Payloads :
                  CheckResolve(fresh, i, id, p) /\ batch = ResolveAt(fresh, i, id, p)
    /\ pc = "entry"
    /\ phase = "Before" /\ index = 1 /\ previous = batch /\ edits = 0
    /\ cancelled = FALSE /\ expired = FALSE
    /\ task = [c \in Calls |-> "none"]
    /\ answer = [c \in Calls |-> NoResult]
    /\ started = {} /\ ran = {} /\ handoff = batch
    /\ outcome = "None"

-----------------------------------------------------------------------------
(* Control: check() and wait_for_stop() prefer cancellation to the deadline. *)

Stopped == cancelled \/ expired
Cause   == IF cancelled THEN "Cancelled" ELSE "TimedOut"

Cancel == /\ pc # "done" /\ ~cancelled
          /\ cancelled' = TRUE
          /\ UNCHANGED <<batch, pc, expired, tasks, processor, outcome>>

Expire == /\ pc # "done" /\ HasDeadline /\ ~expired
          /\ expired' = TRUE
          /\ UNCHANGED <<batch, pc, cancelled, tasks, processor, outcome>>

Return(result) == pc' = "done" /\ outcome' = result

-----------------------------------------------------------------------------
(* resolve() of collection.rs: find the pending entry of a declaration and   *)
(* install a payload under a new block ID, retrying while the ID collides.   *)

Acceptable(c, payload) ==
    c \in PendingCalls(batch) /\ payload.call = c /\ Validate(batch)

Resolve(c, payload) ==
    \E i \in Pending(batch), id \in BlockId :
        /\ batch.entries[i].call = c
        /\ CheckResolve(batch, i, id, payload)
        /\ batch' = ResolveAt(batch, i, id, payload)

Synthesized(c, status) == [call |-> c, status |-> status, notes |-> <<>>]

-----------------------------------------------------------------------------
(* process(): entry checks, and reject_unbound before and after the before-  *)
(* processors.  reject_unbound walks the pending entries in order; the swap  *)
(* in resolve_at keeps the unvisited ones in place, so it always rejects the *)
(* first unbound entry that is still pending.                                *)

Unbound(b) == {i \in Pending(b) : b.entries[i].input \notin Bound}

Begin ==
    /\ pc = "entry"
    /\ IF ~Validate(batch) THEN Return("InvalidBatch")
       ELSE IF batch.completed # 0 THEN Return("NotFreshBatch")
       ELSE IF Stopped THEN Return(Cause)
       ELSE pc' = "reject1" /\ UNCHANGED outcome
    /\ UNCHANGED <<batch, control, tasks, processor>>

RejectUnbound ==
    /\ pc \in {"reject1", "reject2"}
    /\ \E i \in Unbound(batch) :
         /\ \A j \in Unbound(batch) : i <= j
         /\ Resolve(batch.entries[i].call,
                    Synthesized(batch.entries[i].call, "Rejected"))
    /\ UNCHANGED <<pc, control, tasks, processor, outcome>>

-----------------------------------------------------------------------------
(* process_phase() of processors.rs.                                         *)

EnterPhase(ph) ==
    /\ phase' = ph /\ index' = 1 /\ previous' = batch /\ UNCHANGED edits
    /\ IF Validate(batch)
       THEN pc' = "phase" /\ UNCHANGED outcome
       ELSE Return("InvalidBatch")

BeforePhase ==
    /\ pc = "reject1" /\ Unbound(batch) = {}
    /\ EnterPhase("Before")
    /\ UNCHANGED <<batch, control, tasks>>

(* The loop head: the entry check of the next processor, if there is one.    *)
NextProcessor ==
    /\ pc = "phase" /\ index <= NumProcessors[phase]
    /\ IF Stopped THEN Return(Cause) ELSE pc' = "processor" /\ UNCHANGED outcome
    /\ UNCHANGED <<batch, control, tasks, processor>>

(* What a processor can do through its &mut ToolBatch: the entry accessors,  *)
(* resolve_at, reordering within calls_mut() or results_mut(), and replacing *)
(* entries by ones built elsewhere, which only the handoff check can catch.  *)
WithEntry(b, i, e) == [b EXCEPT !.entries[i] = e]

Undecided(b) == {i \in DOMAIN b.entries : b.entries[i].result = NoResult}

WithInput(e, t) == [e EXCEPT !.input = t]

InputEdits(b) ==
    {WithEntry(b, i, WithInput(b.entries[i], t)) : i \in Undecided(b), t \in ToolName}

WithNote(e, n) == IF e.result = NoResult THEN [e EXCEPT !.notes = Append(@, n)]
                                         ELSE [e EXCEPT !.result.notes = Append(@, n)]

NoteEdits(b) ==
    {WithEntry(b, i, WithNote(b.entries[i], n)) : i \in DOMAIN b.entries, n \in Note}

Exchanged(b, i, j) == [b EXCEPT !.entries[i] = b.entries[j], !.entries[j] = b.entries[i]]

OrderEdits(b) ==
    {Exchanged(b, i, j) : i \in Completed(b), j \in Completed(b)}
    \cup {Exchanged(b, i, j) : i \in Pending(b), j \in Pending(b)}

ResolveEdits(b) ==
    {ResolveAt(b, a.at, a.id, a.payload) :
        a \in {x \in [at : Pending(b), id : BlockId, payload : Payloads] :
                 CheckResolve(b, x.at, x.id, x.payload)}}

Variants(e) ==
    {[e EXCEPT !.call = d] : d \in BlockId}
    \cup {[e EXCEPT !.input = t] : t \in ToolName}
    \cup {[e EXCEPT !.notes = <<>>], [e EXCEPT !.result = NoResult]}
    \cup (IF e.result = NoResult THEN {}
          ELSE {[e EXCEPT !.result.notes = <<>>]}
               \cup {[e EXCEPT !.result.status = r.status] : r \in ToolReturns})

EntryReplacements(b) ==
    UNION {{WithEntry(b, i, e) : e \in Variants(b.entries[i])} : i \in DOMAIN b.entries}

Reopenings(b) == {[b EXCEPT !.completed = m] : m \in 0..b.completed}

Edited(b) == InputEdits(b) \cup NoteEdits(b) \cup OrderEdits(b)
             \cup ResolveEdits(b) \cup EntryReplacements(b) \cup Reopenings(b)

ProcessorEdits ==
    /\ pc = "processor" /\ edits < MaxEdits
    /\ batch' \in Edited(batch)
    /\ edits' = edits + 1
    /\ UNCHANGED <<pc, control, tasks, phase, index, previous, outcome>>

ProcessorFails ==
    /\ pc = "processor"
    /\ Return("Processor")
    /\ UNCHANGED <<batch, control, tasks, processor>>

(* Mutant: the race watches the cancellation token alone.                    *)
ProcessorDroppedOnCancel ==
    /\ pc = "processor" /\ cancelled
    /\ Return(Cause)
    /\ UNCHANGED <<batch, control, tasks, processor>>

(* The biased select: the processor's future is dropped where it stands.     *)
ProcessorDropped ==
    /\ pc = "processor" /\ Stopped
    /\ Return(Cause)
    /\ UNCHANGED <<batch, control, tasks, processor>>

DecisionKept(before, after, ph) ==
    IF before.result = NoResult
    THEN after.result # NoResult => ph = "Before"
    ELSE /\ after.result # NoResult
         /\ after.result.id = before.result.id
         /\ after.result.status = before.result.status

(* Mutant: inputs of decided calls are not compared.                         *)
InputKeptWhilePending(before, after, ph) ==
    before.result = NoResult /\ ph = "After" => after.input = before.input

InputKept(before, after, ph) ==
    before.result # NoResult \/ ph = "After" => after.input = before.input

NotesKept(before, after) ==
    \E k \in 0..Len(NotesOf(after)) : SubSeq(NotesOf(after), 1, k) = NotesOf(before)

(* Snapshot::check_transition.                                               *)
CheckTransition(old, new, ph) ==
    /\ DeclarationIds(new) = DeclarationIds(old)
    /\ new.completed >= old.completed
    /\ \A c \in DeclarationIds(old) :
         LET before == EntryOf(old, c)
             after  == EntryOf(new, c)
         IN  /\ DecisionKept(before, after, ph)
             /\ InputKept(before, after, ph)
             /\ NotesKept(before, after)

(* Mutant: the batch is not validated when a processor returns.              *)
ProcessorReturnsUnvalidated ==
    /\ pc = "processor"
    /\ IF ~CheckTransition(previous, batch, phase)
       THEN Return("Handoff") /\ UNCHANGED <<index, previous>>
       ELSE /\ pc' = "phase" /\ UNCHANGED outcome
            /\ index' = index + 1 /\ previous' = batch
    /\ UNCHANGED <<batch, control, tasks, phase, edits>>

ProcessorReturns ==
    /\ pc = "processor"
    /\ IF ~Validate(batch)
       THEN Return("InvalidProcessorBatch") /\ UNCHANGED <<index, previous>>
       ELSE IF ~CheckTransition(previous, batch, phase)
       THEN Return("Handoff") /\ UNCHANGED <<index, previous>>
       ELSE /\ pc' = "phase" /\ UNCHANGED outcome
            /\ index' = index + 1 /\ previous' = batch
    /\ UNCHANGED <<batch, control, tasks, phase, edits>>

(* The before phase is over: one more check, then the second reject_unbound. *)
BeforePhaseEnds ==
    /\ pc = "phase" /\ phase = "Before" /\ index > NumProcessors[phase]
    /\ IF Stopped THEN Return(Cause) ELSE pc' = "reject2" /\ UNCHANGED outcome
    /\ UNCHANGED <<batch, control, tasks, processor>>

(* The after phase is over: no stop is looked at any more.                   *)
AfterPhaseEnds ==
    /\ pc = "phase" /\ phase = "After" /\ index > NumProcessors[phase]
    /\ Return(IF ValidateComplete(batch) THEN "Ok" ELSE "InvalidBatch")
    /\ UNCHANGED <<batch, control, tasks, processor>>

-----------------------------------------------------------------------------
(* dispatch() of collection.rs and execute() of dispatch.rs.  One poll of    *)
(* the FuturesUnordered runs a call from its entry check up to its first     *)
(* await, so a call is "entered" only inside a poll: no sibling is polled    *)
(* and the stop branch is not looked at meanwhile.                           *)

(* Mutant: the pending calls are not looked up again after the processors.   *)
StartDispatchUnchecked ==
    /\ pc = "reject2"
    /\ pc' = "dispatch"
    /\ task' = [c \in Calls |-> IF c \in PendingCalls(batch) THEN "new" ELSE "none"]
    /\ handoff' = batch
    /\ UNCHANGED <<batch, control, processor, outcome, answer, started, ran>>

StartDispatch ==
    /\ pc = "reject2" /\ Unbound(batch) = {}
    /\ pc' = "dispatch"
    /\ task' = [c \in Calls |-> IF c \in PendingCalls(batch) THEN "new" ELSE "none"]
    /\ handoff' = batch
    /\ UNCHANGED <<batch, control, processor, outcome, answer, started, ran>>

InPoll   == \E c \in Calls : task[c] = "entered"
Finished == \A c \in Calls : task[c] \in {"none", "collected"}

(* A break with an error: the remaining futures are dropped.                 *)
Break(result) == pc' = "settle" /\ outcome' = result

(* Mutant: a start is recorded without looking at the stop again.            *)
EnterCallUnchecked(c) ==
    /\ pc = "dispatch" /\ task[c] = "new" /\ ~InPoll
    /\ started' = started \cup {c}
    /\ task' = [task EXCEPT ![c] = "entered"]
    /\ UNCHANGED <<batch, control, processor, answer, ran, handoff, pc, outcome>>

(* The recheck before a start is recorded keeps later siblings pending.      *)
EnterCall(c) ==
    /\ pc = "dispatch" /\ task[c] = "new" /\ ~InPoll
    /\ IF Stopped
       THEN Break(Cause) /\ UNCHANGED <<task, started>>
       ELSE /\ started' = started \cup {c}
            /\ task' = [task EXCEPT ![c] = "entered"]
            /\ UNCHANGED <<pc, outcome>>
    /\ UNCHANGED <<batch, control, processor, answer, ran, handoff>>

(* execute_inner checks the call's own, possibly tighter, control and only   *)
(* then polls the tool.                                                      *)
RunTool(c) ==
    /\ pc = "dispatch" /\ task[c] = "entered" /\ ~Stopped
    /\ task' = [task EXCEPT ![c] = "running"]
    /\ ran' = ran \cup {c}
    /\ UNCHANGED <<batch, pc, control, processor, outcome, answer, started, handoff>>

(* Mutant: a stop seen on collection throws the result away.                 *)
CollectUnlessStopped(c, payload) ==
    /\ task' = [task EXCEPT ![c] = "collected"]
    /\ IF Stopped THEN Break(Cause) /\ UNCHANGED batch
       ELSE IF Acceptable(c, payload)
       THEN Resolve(c, payload) /\ UNCHANGED <<pc, outcome>>
       ELSE Break("ResultRejected") /\ UNCHANGED batch
    /\ UNCHANGED <<control, processor, started, ran, handoff>>

(* A ready future is collected in the poll that finds it.                    *)
Collect(c, payload) ==
    /\ task' = [task EXCEPT ![c] = "collected"]
    /\ IF Acceptable(c, payload)
       THEN Resolve(c, payload) /\ UNCHANGED <<pc, outcome>>
       ELSE Break("ResultRejected") /\ UNCHANGED batch
    /\ UNCHANGED <<control, processor, started, ran, handoff>>

(* The call's control stopped before the tool was polled, or its deadline    *)
(* (the narrower of call timeout and caller deadline) passed while it ran.   *)
Backstop(c) ==
    /\ pc = "dispatch"
    /\ \/ task[c] = "entered" /\ (Stopped \/ CallTimeout)
       \/ task[c] = "running" /\ (expired \/ CallTimeout) /\ ~InPoll
    /\ answer' = [answer EXCEPT ![c] = Synthesized(c, "UnknownOutcome")]
    /\ Collect(c, answer'[c])

(* The tool finishes, whenever it likes, perhaps answering another call; a   *)
(* panic is caught and answered Failed.                                      *)
ToolReturnsResult(c) ==
    /\ pc = "dispatch" /\ task[c] = "running"
    /\ task' = [task EXCEPT ![c] = "ready"]
    /\ \E payload \in Payloads \cup {Synthesized(c, "Failed")} :
         answer' = [answer EXCEPT ![c] = payload]
    /\ UNCHANGED <<batch, pc, control, processor, outcome, started, ran, handoff>>

CollectResult(c) ==
    /\ pc = "dispatch" /\ task[c] = "ready" /\ ~InPoll
    /\ Collect(c, answer[c])
    /\ UNCHANGED answer

(* The biased select sees the stop before it polls the tasks again; with no  *)
(* task left the loop ends before it looks.                                  *)
(* Mutant: dispatch returns without settling the calls it started.           *)
StopDispatchUnsettled ==
    /\ pc = "dispatch" /\ Stopped /\ ~InPoll /\ ~Finished
    /\ Return(Cause)
    /\ UNCHANGED <<batch, control, tasks, processor>>

StopDispatch ==
    /\ pc = "dispatch" /\ Stopped /\ ~InPoll /\ ~Finished
    /\ Break(Cause)
    /\ UNCHANGED <<batch, control, tasks, processor>>

AfterPhase ==
    /\ pc = "dispatch" /\ Finished
    /\ EnterPhase("After")
    /\ UNCHANGED <<batch, control, tasks>>

(* Settlement, in the unspecified order of the started set.                  *)
Settle(c) ==
    /\ pc = "settle" /\ c \in started \cap PendingCalls(batch)
    /\ Resolve(c, Synthesized(c, "UnknownOutcome"))
    /\ UNCHANGED <<pc, control, tasks, processor, outcome>>

SettlementEnds ==
    /\ pc = "settle" /\ started \cap PendingCalls(batch) = {}
    /\ pc' = "done"
    /\ UNCHANGED <<batch, control, tasks, processor, outcome>>

Terminated == pc = "done" /\ UNCHANGED vars

-----------------------------------------------------------------------------
(* What the processing future does when it is polled ...                     *)
Runtime ==
    \/ Begin \/ RejectUnbound \/ BeforePhase \/ NextProcessor \/ ProcessorDropped
    \/ BeforePhaseEnds \/ AfterPhaseEnds \/ StartDispatch \/ StopDispatch
    \/ AfterPhase \/ SettlementEnds
    \/ \E c \in Calls : EnterCall(c) \/ RunTool(c) \/ CollectResult(c) \/ Settle(c)

(* ... and what its surroundings do.                                         *)
Environment ==
    \/ Cancel \/ Expire \/ ProcessorEdits \/ ProcessorFails \/ ProcessorReturns
    \/ \E c \in Calls : ToolReturnsResult(c)

Next == Runtime \/ Environment \/ (\E c \in Calls : Backstop(c)) \/ Terminated

Spec == Init /\ [][Next]_vars

(* The future is polled whenever it can make progress, and timers fire.      *)
FairSpec == /\ Spec
            /\ WF_vars(Runtime)
            /\ \A c \in Calls : WF_vars(Backstop(c))

-----------------------------------------------------------------------------
(* Settlement's .expect and every other resolve() of the runtime rely on     *)
(* this: the batch is valid whenever the runtime itself is about to change   *)
(* it, whatever the processors before did to it.                             *)
ResolvesValidBatch ==
    pc \in {"reject1", "phase", "reject2", "dispatch", "settle"} => Validate(batch)

(* A processor may rename a call to a tool that is not bound: dispatch must  *)
(* still find every pending call's target (it indexes targets by name).      *)
DispatchesBoundTools ==
    pc = "dispatch" =>
        \A i \in Pending(batch) : batch.entries[i].input \in Bound

(* Documented on process(): on every way out of dispatch, a call whose tool  *)
(* was polled has a result, so a call returned pending is safe to run.       *)
PendingNeverRan ==
    pc = "done" /\ phase = "Before" => ran \cap PendingCalls(batch) = {}

(* A result that was collected is kept however the batch ends up: no stop,   *)
(* no settlement and no rejected sibling rewrites it.                        *)
CollectedResultsKept ==
    pc \in {"dispatch", "settle"} \/ (pc = "done" /\ phase = "Before") =>
        \A c \in Calls :
            task[c] = "collected" /\ answer[c].call = c =>
                /\ c \in DecidedCalls(batch)
                /\ EntryOf(batch, c).result.status = answer[c].status

(* Ok means: every declaration, and nothing else, has one result; a call     *)
(* that was dispatched has the status its future produced, a call decided    *)
(* earlier the status decided then, whatever the after-processors tried. The *)
(* input the host sees is the one the tool was given, and notes required     *)
(* before dispatch or added by the tool are there.                           *)
OkReportsWhatHappened ==
    outcome = "Ok" =>
        /\ ValidateComplete(batch)
        /\ DeclarationIds(batch) = Calls
        /\ \A c \in Calls :
             LET before == EntryOf(handoff, c)
                 after  == EntryOf(batch, c)
                 kept   == IF c \in started THEN before.notes \o answer[c].notes
                                            ELSE before.result.notes
             IN  /\ after.input = before.input
                 /\ after.result.status = IF c \in started THEN answer[c].status
                                                            ELSE before.result.status
                 /\ Len(kept) <= Len(after.result.notes)
                 /\ SubSeq(after.result.notes, 1, Len(kept)) = kept

(* While the runtime collects or settles, results only join the end of the   *)
(* completed prefix: the order a runner commits is the order of completion.  *)
(* And once there is a stop, the calls not started by then stay so, and      *)
(* pending: neither a sibling's poll nor settlement makes one an outcome     *)
(* nobody knows.                                                             *)
OnlyAppended ==
    /\ batch'.completed \in {batch.completed, batch.completed + 1}
    /\ \A i \in Completed(batch) : batch'.entries[i] = batch.entries[i]

Untouched == PendingCalls(batch) \ started

LateSiblingsKept == Stopped => Untouched' = Untouched

ResultsOnlyAppended ==
    [][phase = "Before" /\ pc \in {"dispatch", "settle"} => OnlyAppended /\ LateSiblingsKept]_vars

(* A stop ends the call even if every tool and every processor hangs.        *)
StopEnds == Stopped ~> pc = "done"
=============================================================================
