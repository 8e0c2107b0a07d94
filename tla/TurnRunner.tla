------------------------------ MODULE TurnRunner ------------------------------
(****************************************************************************)
(* One run of TurnRunner (causa-runtime, driver/): the loop over model      *)
(* rounds, its commit points, and the choice of the terminal result.        *)
(*                                                                          *)
(* A context is what the loop reads and writes of it: the tools its change  *)
(* blocks add up to, the tool calls declared in it and the results present. *)
(* Steps are cut where another thread's cancellation or the deadline can    *)
(* make a difference, that is at the control checks; an observer that       *)
(* cancels from within a notification is the same as one that cancels just  *)
(* before the step that notifies.                                           *)
(****************************************************************************)
EXTENDS Integers, FiniteSets

CONSTANTS
    ToolName,        \* tools an executor may bind
    MaxModelRounds,  \* TurnLimits.max_model_rounds
    MaxToolCalls,    \* TurnLimits.max_tool_calls
    U32Max,          \* largest value of the declaration counter
    MaxCalls,        \* bound: calls one model output declares
    HasPreparer,     \* TRUE when TurnRunOptions.preparer is set
    HasDeadline      \* TRUE when the control has a deadline

ASSUME LimitsAssumption ==
    /\ MaxModelRounds \in Nat /\ MaxToolCalls \in Nat /\ U32Max \in Nat
    /\ MaxToolCalls <= U32Max /\ MaxCalls \in Nat
ASSUME FlagsAssumption == HasPreparer \in BOOLEAN /\ HasDeadline \in BOOLEAN

VARIABLES
    pc,         \* where the loop is
    cancelled,  \* the cancellation token has fired
    expired,    \* the deadline has passed
    round,      \* rounds completed
    declaredBefore, \* tool declarations of earlier rounds
    surface,    \* tools bound for this round
    frameTools, \* tools the request's frame adds up to
    context,    \* [tools, declared, answers]
    batch,      \* the current batch: call -> status, "pending" or "running"
    processed,  \* what process() returned for it
    output,     \* the model output being handled
    seen,       \* what BlocksCommitted events told the observer
    invocations,\* history: model calls made
    result,     \* the selected TurnResult, "None" while running
    returned    \* uncommitted_tool_batch

control == <<cancelled, expired>>
vars == <<pc, control, round, declaredBefore, surface, frameTools, context, batch,
          processed, output, seen, invocations, result, returned>>

Status == {"Succeeded", "UnknownOutcome"}
Call   == (0..MaxModelRounds) \X (1..MaxCalls)

NoBatch == [c \in {} |-> "pending"]
Batch   == UNION {[calls -> Status \cup {"pending", "running"}] : calls \in SUBSET Call}

StopReason == {"EndTurn", "ToolUse", "MaxTokens", "Refusal",
               "ContextWindowExceeded", "Unrecognized"}

(* A complete output: its reason, the calls it declares, and whether some    *)
(* part of it cannot be converted (an empty tool name, arguments that are no *)
(* object).                                                                  *)
Output == [reason : StopReason, calls : 0..MaxCalls, malformed : BOOLEAN]

Committed == [tools : SUBSET ToolName, declared : SUBSET Call,
              answers : SUBSET (Call \X Status)]

Causes == {"Cancelled", "DeadlineExceeded", "MaxModelRounds", "MaxToolCalls",
           "ToolCatalogFailed", "PrepareFailed", "ModelCallFailed", "MaxTokens",
           "Refusal", "ContextWindowExceeded", "Unrecognized",
           "ModelConversionFailed", "ToolProcessingFailed",
           "ToolResultValidationFailed", "ToolCommitFailed", "UnknownToolOutcome"}

TypeOK ==
    /\ pc \in {"top", "bind", "bound", "toolsCommitted", "preparing", "prepare",
               "requestReady", "invoke", "output", "modelCommitted", "declared", "batchReady",
               "process", "processed", "resultsCommitted", "answered", "done"}
    /\ cancelled \in BOOLEAN /\ expired \in BOOLEAN
    /\ round \in 0..MaxModelRounds
    /\ declaredBefore \in 0..U32Max
    /\ surface \subseteq ToolName /\ frameTools \subseteq ToolName
    /\ context \in Committed /\ seen \in Committed
    /\ batch \in Batch /\ returned \in Batch
    /\ processed \in {"None", "Ok", "Clash", "Cancelled", "DeadlineExceeded", "Error"}
    /\ output \in Output
    /\ invocations \in Nat
    /\ result \in {"None", "Completed"} \cup Causes

Init ==
    /\ pc = "top" /\ cancelled = FALSE /\ expired = FALSE
    /\ round = 0 /\ declaredBefore = 0
    /\ surface = {} /\ frameTools = {}
    /\ \E tools \in SUBSET ToolName :
         context = [tools |-> tools, declared |-> {}, answers |-> {}]
    /\ seen = context
    /\ batch = NoBatch /\ processed = "None"
    /\ output = [reason |-> "EndTurn", calls |-> 0, malformed |-> FALSE]
    /\ invocations = 0 /\ result = "None" /\ returned = NoBatch

-----------------------------------------------------------------------------
Stopped == cancelled \/ expired
Cause   == IF cancelled THEN "Cancelled" ELSE "DeadlineExceeded"

Cancel == /\ pc # "done" /\ ~cancelled /\ cancelled' = TRUE
          /\ UNCHANGED <<pc, expired, round, declaredBefore, surface, frameTools, context,
                         batch, processed, output, seen, invocations, result, returned>>

Expire == /\ pc # "done" /\ HasDeadline /\ ~expired /\ expired' = TRUE
          /\ UNCHANGED <<pc, cancelled, round, declaredBefore, surface, frameTools, context,
                         batch, processed, output, seen, invocations, result, returned>>

(* interrupted(cause, batch), and completion.                                *)
Finish(r, b) == pc' = "done" /\ result' = r /\ returned' = b

(* The stop check before going on to the next place in the loop.             *)
CheckThen(next, b) ==
    IF Stopped THEN Finish(Cause, b)
    ELSE pc' = next /\ UNCHANGED <<result, returned>>

Calls(n) == {<<round, k>> : k \in 1..n}
Answered(c) == {a[1] : a \in c.answers}

-----------------------------------------------------------------------------
(* The head of the loop.                                                     *)
StartRound ==
    /\ pc = "top"
    /\ IF ~Stopped /\ round >= MaxModelRounds
       THEN Finish("MaxModelRounds", NoBatch)
       ELSE CheckThen("bind", NoBatch)
    /\ UNCHANGED <<control, round, declaredBefore, surface, frameTools, context, batch,
                   processed, output, seen, invocations>>

(* executor.bind: its last control check precedes its success.               *)
Bind ==
    /\ pc = "bind" /\ ~Stopped
    /\ surface' \in SUBSET ToolName
    /\ pc' = "bound"
    /\ UNCHANGED <<control, round, declaredBefore, frameTools, context, batch,
                   processed, output, seen, invocations, result, returned>>

BindFails ==
    /\ pc = "bind"
    /\ \/ Finish("ToolCatalogFailed", NoBatch)
       \/ Stopped /\ Finish(Cause, NoBatch)
    /\ UNCHANGED <<control, round, declaredBefore, surface, frameTools, context, batch,
                   processed, output, seen, invocations>>

(* commit::tool_change: a difference from the context's tools is appended.   *)
CommitToolChange ==
    /\ pc = "bound"
    /\ IF ~Stopped /\ context.tools # surface
       THEN /\ context' = [context EXCEPT !.tools = surface]
            /\ pc' = "toolsCommitted" /\ UNCHANGED <<result, returned>>
       ELSE /\ CheckThen("preparing", NoBatch)
            /\ UNCHANGED context
    /\ UNCHANGED <<control, round, declaredBefore, surface, frameTools, batch,
                   processed, output, seen, invocations>>

NotifyToolChange ==
    /\ pc = "toolsCommitted"
    /\ seen' = [seen EXCEPT !.tools = surface]
    /\ pc' = "preparing"
    /\ UNCHANGED <<control, round, declaredBefore, surface, frameTools, context, batch,
                   processed, output, invocations, result, returned>>

(* request::prepare without a preparer takes the context's own frame.        *)
Prepare ==
    /\ pc = "preparing"
    /\ CheckThen(IF HasPreparer THEN "prepare" ELSE "requestReady", NoBatch)
    /\ frameTools' = context.tools
    /\ UNCHANGED <<control, round, declaredBefore, surface, context, batch,
                   processed, output, seen, invocations>>

(* A preparer edits the context it is lent: it may drop tool changes, and    *)
(* compact calls away together with their results.                           *)
PreparerEdits ==
    /\ pc = "prepare"
    /\ \/ \E tools \in SUBSET ToolName : context' = [context EXCEPT !.tools = tools]
       \/ \E c \in Answered(context) :
            context' = [context EXCEPT !.declared = @ \ {c},
                                       !.answers = {a \in @ : a[1] # c}]
    /\ UNCHANGED <<pc, control, round, declaredBefore, surface, frameTools, batch,
                   processed, output, seen, invocations, result, returned>>

(* Mutant: the race watches the cancellation token alone.                    *)
PreparerDroppedOnCancel ==
    /\ pc = "prepare" /\ cancelled
    /\ Finish(Cause, NoBatch)
    /\ UNCHANGED <<control, round, declaredBefore, surface, frameTools, context, batch,
                   processed, output, seen, invocations>>

(* The race against the stop drops the preparer between two of its edits.    *)
PreparerDropped ==
    /\ pc = "prepare" /\ Stopped
    /\ Finish(Cause, NoBatch)
    /\ UNCHANGED <<control, round, declaredBefore, surface, frameTools, context, batch,
                   processed, output, seen, invocations>>

PreparerFails ==
    /\ pc = "prepare" /\ ~Stopped
    /\ Finish("PrepareFailed", NoBatch)
    /\ UNCHANGED <<control, round, declaredBefore, surface, frameTools, context, batch,
                   processed, output, seen, invocations>>

(* Mutants: the frame's tools are not compared; a bad frame is asked again.  *)
PreparerReturnsUnchecked ==
    /\ pc = "prepare" /\ ~Stopped
    /\ frameTools' \in SUBSET ToolName
    /\ pc' = "requestReady"
    /\ UNCHANGED <<control, round, declaredBefore, surface, context, batch,
                   processed, output, seen, invocations, result, returned>>

PreparerReturnsRetried ==
    /\ pc = "prepare" /\ ~Stopped
    /\ frameTools' \in SUBSET ToolName
    /\ pc' = IF frameTools' = surface THEN "requestReady" ELSE "preparing"
    /\ UNCHANGED <<control, round, declaredBefore, surface, context, batch,
                   processed, output, seen, invocations, result, returned>>

(* Its frame may be anything; its tools must add up to the bound ones.       *)
PreparerReturns ==
    /\ pc = "prepare" /\ ~Stopped
    /\ frameTools' \in SUBSET ToolName
    /\ IF frameTools' = surface
       THEN pc' = "requestReady" /\ UNCHANGED <<result, returned>>
       ELSE Finish("PrepareFailed", NoBatch)
    /\ UNCHANGED <<control, round, declaredBefore, surface, context, batch,
                   processed, output, seen, invocations>>

(* Notify ModelRequestReady, check, enter the gateway.                       *)
EnterGateway ==
    /\ pc = "requestReady"
    /\ CheckThen("invoke", NoBatch)
    /\ invocations' = IF Stopped THEN invocations ELSE invocations + 1
    /\ UNCHANGED <<control, round, declaredBefore, surface, frameTools, context, batch,
                   processed, output, seen>>

(* invoke(): a stop wins over whatever the gateway answers, streamed or not; *)
(* deltas commit nothing, and a stream that ends without Done is an error.   *)
InvokeStopped ==
    /\ pc = "invoke" /\ Stopped
    /\ Finish(Cause, NoBatch)
    /\ UNCHANGED <<control, round, declaredBefore, surface, frameTools, context, batch,
                   processed, output, seen, invocations>>

GatewayFails ==
    /\ pc = "invoke" /\ ~Stopped
    /\ Finish("ModelCallFailed", NoBatch)
    /\ UNCHANGED <<control, round, declaredBefore, surface, frameTools, context, batch,
                   processed, output, seen, invocations>>

GatewayAnswers ==
    /\ pc = "invoke" /\ ~Stopped
    /\ output' \in Output
    /\ pc' = "output"
    /\ UNCHANGED <<control, round, declaredBefore, surface, frameTools, context, batch,
                   processed, seen, invocations, result, returned>>

(* Notify ModelOutput, then the stop reasons that are never committed, and   *)
(* only then the stop check.                                                 *)
RefuseOutput ==
    /\ pc = "output" /\ output.reason \notin {"EndTurn", "ToolUse"}
    /\ Finish(output.reason, NoBatch)
    /\ UNCHANGED <<control, round, declaredBefore, surface, frameTools, context, batch,
                   processed, output, seen, invocations>>

(* to_blocks: EndTurn declares no call, ToolUse at least one.                *)
Convertible(o) == /\ ~o.malformed
                  /\ o.reason = "EndTurn" => o.calls = 0
                  /\ o.reason = "ToolUse" => o.calls > 0

(* commit::model, an atomic append of the output under new block IDs.        *)
CommitModel ==
    /\ pc = "output" /\ output.reason \in {"EndTurn", "ToolUse"}
    /\ IF Stopped THEN Finish(Cause, NoBatch) /\ UNCHANGED <<context, batch>>
       ELSE IF ~Convertible(output)
       THEN Finish("ModelConversionFailed", NoBatch) /\ UNCHANGED <<context, batch>>
       ELSE /\ context' = [context EXCEPT !.declared = @ \cup Calls(output.calls)]
            /\ batch' = [c \in Calls(output.calls) |-> "pending"]
            /\ pc' = "modelCommitted" /\ UNCHANGED <<result, returned>>
    /\ UNCHANGED <<control, round, declaredBefore, surface, frameTools,
                   processed, output, seen, invocations>>

-----------------------------------------------------------------------------
(* Mutant: the counter wraps.                                                *)
WrappingAdd(a, b) == (a + b) % (U32Max + 1)

(* checked_add of the declaration counter; U32Max + 1 stands for None.       *)
CheckedAdd(a, b) == IF a + b > U32Max THEN U32Max + 1 ELSE a + b

(* Mutant: a stop seen after the commit skips the notification.              *)
NotifyModelCommitUnlessStopped ==
    /\ pc = "modelCommitted"
    /\ seen' = IF Stopped THEN seen ELSE [seen EXCEPT !.declared = @ \cup DOMAIN batch]
    /\ pc' = "declared"
    /\ UNCHANGED <<control, round, declaredBefore, surface, frameTools, context, batch,
                   processed, output, invocations, result, returned>>

NotifyModelCommit ==
    /\ pc = "modelCommitted"
    /\ seen' = [seen EXCEPT !.declared = @ \cup DOMAIN batch]
    /\ pc' = "declared"
    /\ UNCHANGED <<control, round, declaredBefore, surface, frameTools, context, batch,
                   processed, output, invocations, result, returned>>

(* An EndTurn completes; the declaration limit is looked at before the stop. *)
AfterModelCommit ==
    /\ pc = "declared"
    /\ LET total == CheckedAdd(declaredBefore, output.calls)
       IN  IF output.reason = "EndTurn"
           THEN Finish("Completed", NoBatch) /\ UNCHANGED declaredBefore
           ELSE IF total > MaxToolCalls
           THEN Finish("MaxToolCalls", batch) /\ UNCHANGED declaredBefore
           ELSE declaredBefore' = total /\ CheckThen("batchReady", batch)
    /\ UNCHANGED <<control, round, surface, frameTools, context, batch,
                   processed, output, seen, invocations>>

(* Notify ToolBatchReady; the observer may have cancelled.                   *)
EnterProcessing ==
    /\ pc = "batchReady"
    /\ CheckThen("process", batch)
    /\ UNCHANGED <<control, round, declaredBefore, surface, frameTools, context, batch,
                   processed, output, seen, invocations>>

(* bound.process starts calls.  To the batch such a call is still pending:   *)
(* that it runs is known to the future of process() alone, which settles it. *)
ToolStarts ==
    /\ pc = "process" /\ ~Stopped
    /\ \E c \in DOMAIN batch : batch[c] = "pending" /\ batch' = [batch EXCEPT ![c] = "running"]
    /\ UNCHANGED <<pc, control, round, declaredBefore, surface, frameTools, context,
                   processed, output, seen, invocations, result, returned>>

(* It is complete when Ok (ToolProcessing); a processor may give a result a  *)
(* block ID the context already has, which only the commit notices.          *)
ProcessingSucceeds ==
    /\ pc = "process"
    /\ batch' \in [DOMAIN batch -> Status]
    /\ processed' \in {"Ok", "Clash"}
    /\ pc' = "processed"
    /\ UNCHANGED <<control, round, declaredBefore, surface, frameTools, context,
                   output, seen, invocations, result, returned>>

(* Otherwise some calls may be decided and some pending, none of which was   *)
(* started unless a host's after-processor reopened it (ToolProcessing).     *)
ProcessingFails ==
    /\ pc = "process"
    /\ batch' \in [DOMAIN batch -> Status \cup {"pending"}]
    /\ processed' = "Error"
    /\ pc' = "processed"
    /\ UNCHANGED <<control, round, declaredBefore, surface, frameTools, context,
                   output, seen, invocations, result, returned>>

(* Mutant: a stop drops the future of process() from outside.                *)
ProcessingAbandoned ==
    /\ pc = "process" /\ Stopped
    /\ processed' = Cause
    /\ pc' = "processed"
    /\ UNCHANGED <<control, round, declaredBefore, surface, frameTools, context, batch,
                   output, seen, invocations, result, returned>>

ProcessingStopped ==
    /\ pc = "process" /\ Stopped
    /\ batch' \in [DOMAIN batch -> Status \cup {"pending"}]
    /\ processed' = Cause
    /\ pc' = "processed"
    /\ UNCHANGED <<control, round, declaredBefore, surface, frameTools, context,
                   output, seen, invocations, result, returned>>

-----------------------------------------------------------------------------
(* Mutant: a controlled stop forgets the batch.                              *)
ReportFailureDroppingBatch ==
    /\ pc = "processed" /\ processed \in {"Cancelled", "DeadlineExceeded", "Error"}
    /\ IF processed = "Error" THEN Finish("ToolProcessingFailed", batch)
       ELSE Finish(processed, NoBatch)
    /\ UNCHANGED <<control, round, declaredBefore, surface, frameTools, context, batch,
                   processed, output, seen, invocations>>

(* Notify ToolBatchReturned; a failure returns the batch.                    *)
ReportProcessingFailure ==
    /\ pc = "processed" /\ processed \in {"Cancelled", "DeadlineExceeded", "Error"}
    /\ Finish(IF processed = "Error" THEN "ToolProcessingFailed" ELSE processed, batch)
    /\ UNCHANGED <<control, round, declaredBefore, surface, frameTools, context, batch,
                   processed, output, seen, invocations>>

(* validate_tool_result_append.                                              *)
Appendable(b) ==
    \A c \in DOMAIN b : c \in context.declared /\ c \notin Answered(context)

(* commit::tools: the whole batch in one append, before any stop is honored. *)
CommitTools ==
    /\ pc = "processed" /\ processed \in {"Ok", "Clash"}
    /\ IF ~Appendable(batch)
       THEN Finish("ToolResultValidationFailed", batch) /\ UNCHANGED context
       ELSE IF processed = "Clash"
       THEN Finish("ToolCommitFailed", batch) /\ UNCHANGED context
       ELSE /\ context' = [context EXCEPT !.answers =
                             @ \cup {<<c, batch[c]>> : c \in DOMAIN batch}]
            /\ pc' = "resultsCommitted" /\ UNCHANGED <<result, returned>>
    /\ UNCHANGED <<control, round, declaredBefore, surface, frameTools, batch,
                   processed, output, seen, invocations>>

(* Mutant: only the known outcomes are told.                                 *)
NotifyKnownResults ==
    /\ pc = "resultsCommitted"
    /\ seen' = [seen EXCEPT !.answers = @ \cup
                  {<<c, batch[c]>> : c \in {d \in DOMAIN batch : batch[d] # "UnknownOutcome"}}]
    /\ pc' = "answered"
    /\ UNCHANGED <<control, round, declaredBefore, surface, frameTools, context, batch,
                   processed, output, invocations, result, returned>>

NotifyToolCommit ==
    /\ pc = "resultsCommitted"
    /\ seen' = [seen EXCEPT !.answers = @ \cup {<<c, batch[c]>> : c \in DOMAIN batch}]
    /\ pc' = "answered"
    /\ UNCHANGED <<control, round, declaredBefore, surface, frameTools, context, batch,
                   processed, output, invocations, result, returned>>

(* Mutant: the stop is looked at first.                                      *)
EndRoundStopFirst ==
    /\ pc = "answered"
    /\ batch' = NoBatch /\ processed' = "None"
    /\ IF ~Stopped /\ \E c \in DOMAIN batch : batch[c] = "UnknownOutcome"
       THEN Finish("UnknownToolOutcome", NoBatch) /\ UNCHANGED round
       ELSE /\ CheckThen("top", NoBatch)
            /\ round' = IF Stopped THEN round ELSE round + 1
    /\ UNCHANGED <<control, declaredBefore, surface, frameTools, context,
                   output, seen, invocations>>

(* The batch is consumed; an unknown outcome is selected before a stop.      *)
EndRound ==
    /\ pc = "answered"
    /\ batch' = NoBatch /\ processed' = "None"
    /\ IF \E c \in DOMAIN batch : batch[c] = "UnknownOutcome"
       THEN Finish("UnknownToolOutcome", NoBatch) /\ UNCHANGED round
       ELSE /\ CheckThen("top", NoBatch)
            /\ round' = IF Stopped THEN round ELSE round + 1
    /\ UNCHANGED <<control, declaredBefore, surface, frameTools, context,
                   output, seen, invocations>>

Terminated == pc = "done" /\ UNCHANGED vars

-----------------------------------------------------------------------------
Runtime ==
    \/ StartRound \/ CommitToolChange \/ NotifyToolChange \/ Prepare
    \/ PreparerDropped \/ EnterGateway \/ InvokeStopped \/ RefuseOutput
    \/ CommitModel \/ NotifyModelCommit \/ AfterModelCommit \/ EnterProcessing
    \/ ReportProcessingFailure \/ CommitTools \/ NotifyToolCommit \/ EndRound

(* Answers the run waits for.  Bind and process end by themselves once       *)
(* stopped: they race their own control.                                     *)
Answers ==
    \/ Bind \/ BindFails \/ PreparerFails \/ PreparerReturns
    \/ GatewayFails \/ GatewayAnswers
    \/ ToolStarts \/ ProcessingSucceeds \/ ProcessingFails \/ ProcessingStopped

Next == Runtime \/ Answers \/ PreparerEdits \/ Cancel \/ Expire \/ Terminated

Spec == Init /\ [][Next]_vars

FairSpec == /\ Spec
            /\ WF_vars(Runtime)
            /\ WF_vars(Stopped /\ (BindFails \/ ProcessingStopped))

(* Every component the run waits for answers.                                *)
Answering == /\ WF_vars(Bind \/ BindFails) /\ WF_vars(PreparerReturns)
             /\ WF_vars(GatewayAnswers) /\ WF_vars(ProcessingSucceeds)

-----------------------------------------------------------------------------
(* The model is only asked to go on when every call this run declared has    *)
(* its result, and with exactly the tools this round can execute, whatever a *)
(* preparer did to the context.                                              *)
AsksWithNothingOpen ==
    pc = "invoke" => /\ frameTools = surface
                     /\ seen.declared = Answered(seen)

(* The documented meaning of uncommitted_tool_batch: its declarations are    *)
(* committed, its results are not, and with the answered calls it accounts   *)
(* for every call declared.  None of its calls is still running: the run     *)
(* waited for process() to settle what it started, stopped or not.           *)
BatchAccountedFor ==
    pc = "done" =>
        /\ DOMAIN returned \subseteq context.declared
        /\ DOMAIN returned \cap Answered(context) = {}
        /\ seen.declared = Answered(seen) \cup DOMAIN returned
        /\ \A c \in DOMAIN returned : returned[c] # "running"

(* A host that stored what BlocksCommitted showed it has stored every        *)
(* declaration and result in the context it gets back.                       *)
ObserverSawEverything ==
    pc = "done" => /\ context.declared \subseteq seen.declared
                   /\ context.answers \subseteq seen.answers

(* The cause a run ends with outranks what happened meanwhile: an unknown     *)
(* outcome is committed and ends the run with that cause, even when the run   *)
(* was stopped, so the model never sees it in this run; a stop leaves nothing *)
(* of a fully processed batch uncommitted; and it hides neither the limit on  *)
(* declared calls nor the reason of an output that cannot be committed, while *)
(* the limit on rounds hides no stop.                                         *)
CauseOutranks ==
    /\ result = "UnknownToolOutcome" =>
         \E a \in seen.answers : a[2] = "UnknownOutcome"
    /\ (\E a \in seen.answers : a[2] = "UnknownOutcome") =>
         pc = "answered" \/ result = "UnknownToolOutcome"
    /\ pc = "done" /\ result \in {"Cancelled", "DeadlineExceeded"} =>
         processed \notin {"Ok", "Clash"} /\ output.reason \in {"EndTurn", "ToolUse"}
    /\ pc = "done" => (result = "MaxToolCalls" <=> Cardinality(seen.declared) > MaxToolCalls)
    /\ result = "MaxModelRounds" => ~Stopped

(* max_model_rounds bounds the invocations, max_tool_calls the calls that    *)
(* are processed, whatever the counter's width.                              *)
LimitsHold ==
    /\ invocations <= MaxModelRounds
    /\ pc = "process" => Cardinality(seen.declared) <= MaxToolCalls

(* The run is a ledger in which the host's record is kept: see TurnLedger.   *)
Fate(c) == IF c \in Answered(seen) THEN "answered"
           ELSE IF c \in DOMAIN returned THEN "returned"
           ELSE IF c \in seen.declared THEN "open" ELSE "undeclared"

Ledger == INSTANCE TurnLedger WITH fate <- [c \in Call |-> Fate(c)],
                                   over <- pc = "done"

LedgerKept == Ledger!Spec

(* A stop ends the run even if gateway, preparer and tools never answer.     *)
StopEnds == Stopped ~> pc = "done"

(* If they answer, the run ends by itself: the round limit sees to it.       *)
RunEnds == Answering => <>(pc = "done")
=============================================================================
