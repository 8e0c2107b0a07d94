----------------------------- MODULE TurnProofs -----------------------------
(****************************************************************************)
(* The turn and the context it works on.                                    *)
(*                                                                          *)
(* For any limits, any number of calls an output declares, with or without  *)
(* a preparer and a deadline: what a run does with the calls it declares,   *)
(* what the observer knows of them, and that the run implements the ledger  *)
(* of TurnLedger.                                                           *)
(*                                                                          *)
(* For any blocks and edits: what an edit of the context does is what it    *)
(* means (ContextEdit).  The definitions are folds.  A fold is the end of a *)
(* chain whose every link is the operator applied to the one before; what a *)
(* fold gives is then shown link by link, from the least number a set lacks.*)
(****************************************************************************)
EXTENDS TurnRunner, ContextEdit, SequenceTheorems, FiniteSetTheorems, WellFoundedInduction, TLAPS

(* Places where no call of this round is declared;                           *)
Idle == {"top", "bind", "bound", "toolsCommitted", "preparing", "prepare",
         "requestReady", "invoke", "output"}

(* places where the batch is declared to the host and open.                  *)
BatchOpen == {"declared", "batchReady", "process", "processed", "resultsCommitted"}

(* A run has a result exactly when it is over, and hands nothing back before; *)
(* the batch is empty outside the part of the loop that handles it.          *)
ShapeInv ==
    /\ pc = "done" <=> result # "None"
    /\ pc # "done" => returned = NoBatch
    /\ pc \in Idle => batch = NoBatch
    /\ pc \in {"modelCommitted", "declared"} =>
         /\ DOMAIN batch = Calls(output.calls)
         /\ output.reason = "EndTurn" => batch = NoBatch
    /\ pc \in {"resultsCommitted", "answered"} \/ processed \in {"Ok", "Clash"} =>
         \A c \in DOMAIN batch : batch[c] \in Status

(* A call runs within process() and nowhere else.                            *)
RunningInv ==
    /\ pc # "process" => \A c \in DOMAIN batch : batch[c] # "running"
    /\ \A c \in DOMAIN returned : returned[c] # "running"

(* Every call declared is of a completed round, or of the current batch, so  *)
(* that a new batch's calls are new;                                         *)
FreshInv ==
    pc # "done" => /\ \A c \in DOMAIN batch : c[1] = round
                   /\ \A c \in context.declared \cup seen.declared :
                        c[1] < round \/ c \in DOMAIN batch

(* what the host was told is answered, but for the batch that is open;       *)
OpenInv ==
    /\ pc \in Idle \cup {"modelCommitted", "answered"} => seen.declared = Answered(seen)
    /\ pc = "modelCommitted" => DOMAIN batch \cap seen.declared = {}
    /\ pc \in BatchOpen => /\ seen.declared = Answered(seen) \cup DOMAIN batch
                           /\ DOMAIN batch \cap Answered(seen) = {}
    /\ pc = "done" => /\ seen.declared = Answered(seen) \cup DOMAIN returned
                      /\ DOMAIN returned \cap Answered(seen) = {}

(* and the host was told of what the context holds, but for a commit whose   *)
(* notification is the next step.  A batch not yet answered is in there.     *)
ToldInv ==
    /\ context.declared \subseteq
         seen.declared \cup (IF pc = "modelCommitted" THEN DOMAIN batch ELSE {})
    /\ context.answers \subseteq
         seen.answers \cup (IF pc = "resultsCommitted"
                            THEN {<<c, batch[c]>> : c \in DOMAIN batch} ELSE {})
    /\ pc \in BatchOpen \cup {"modelCommitted"} => DOMAIN batch \subseteq context.declared
    /\ pc = "done" => DOMAIN returned \subseteq context.declared

(* The context's tools are the bound ones until a preparer is let in, and    *)
(* the frame's are when the model is asked.                                  *)
SurfaceInv ==
    /\ pc \in {"toolsCommitted", "preparing"} => context.tools = surface
    /\ pc \in {"requestReady", "invoke"} => frameTools = surface

(* An unknown outcome told to the host is one of the batch just answered, or *)
(* is the run's result.                                                      *)
OutcomeInv ==
    /\ pc = "answered" => \A c \in DOMAIN batch : <<c, batch[c]>> \in seen.answers
    /\ \A a \in seen.answers : a[2] = "UnknownOutcome" =>
         \/ pc = "answered" /\ a[1] \in DOMAIN batch /\ batch[a[1]] = "UnknownOutcome"
         \/ result = "UnknownToolOutcome"
    /\ result = "UnknownToolOutcome" => \E a \in seen.answers : a[2] = "UnknownOutcome"
    /\ processed # "None" => pc \in {"processed", "resultsCommitted", "answered", "done"}
    /\ pc = "done" /\ processed \in {"Ok", "Clash"} =>
         result \in {"ToolResultValidationFailed", "ToolCommitFailed"}

(* An output that cannot be committed ends the run with its own reason, and  *)
(* the limit on rounds only a run that is not stopped.                       *)
CauseInv ==
    /\ pc \notin {"output", "done"} \/ result \in {"Cancelled", "DeadlineExceeded"} =>
         output.reason \in {"EndTurn", "ToolUse"}
    /\ result = "MaxModelRounds" => ~Stopped

(* A round in progress is below the limit and has invoked the model at most  *)
(* once; the calls told to the host are counted, the last batch's only once  *)
(* the limit was checked, and a run that ends beyond it ends because of it.  *)
CountInv ==
    /\ pc \notin {"top", "done"} => round < MaxModelRounds
    /\ invocations <= MaxModelRounds
    /\ pc \in Idle \ {"invoke", "output"} => invocations <= round
    /\ pc # "done" => invocations <= round + 1
    /\ declaredBefore <= MaxToolCalls
    /\ IsFiniteSet(seen.declared)
    /\ pc \notin {"declared", "done"} => Cardinality(seen.declared) = declaredBefore
    /\ pc = "declared" => Cardinality(seen.declared) = declaredBefore + output.calls
    /\ pc = "done" => (result = "MaxToolCalls" <=> Cardinality(seen.declared) > MaxToolCalls)

IInv == TypeOK /\ ShapeInv /\ RunningInv /\ CauseInv /\ FreshInv /\ OpenInv /\ ToldInv /\ SurfaceInv /\ OutcomeInv /\ CountInv

-----------------------------------------------------------------------------
(* A batch is a map from calls to what is known of them.                     *)
LEMMA BatchIsMap ==
  \A b : b \in Batch <=> /\ DOMAIN b \subseteq Call
                         /\ b \in [DOMAIN b -> Status \cup {"pending", "running"}]
BY DEF Batch

(* The empty batch is one.                                                    *)
LEMMA NoBatchIsEmpty == NoBatch \in Batch /\ DOMAIN NoBatch = {}
BY BatchIsMap DEF NoBatch

(* The calls of an output are calls of the current round.                     *)
LEMMA CallsOfRound ==
  ASSUME round \in 0..MaxModelRounds, NEW n \in 0..MaxCalls
  PROVE  /\ Calls(n) \subseteq Call
         /\ \A c \in Calls(n) : c[1] = round
BY LimitsAssumption DEF Calls, Call

(* There are n of them.                                                      *)
LEMMA CallsCounted ==
  ASSUME NEW n \in Nat
  PROVE  IsFiniteSet(Calls(n)) /\ Cardinality(Calls(n)) = n
<1> DEFINE f == [k \in 1..n |-> <<round, k>>]
<1>1. IsFiniteSet(1..n) /\ Cardinality(1..n) = n
  BY FS_Interval
<1>2. f \in Bijection(1..n, Calls(n))
  BY DEF Calls, Bijection, Injection, Surjection, IsInjective
<1>3. ExistsBijection(1..n, Calls(n))
  BY <1>2 DEF ExistsBijection
<1>4. IsFiniteSet(Calls(n)) /\ Cardinality(Calls(n)) = Cardinality(1..n)
  BY <1>1, <1>3, FS_Bijection
<1> QED BY <1>1, <1>4

(* Nothing is declared, told or returned at the start.                       *)
LEMMA InitInv == Init => IInv
<1> SUFFICES ASSUME Init PROVE IInv
  OBVIOUS
<1> USE LimitsAssumption, NoBatchIsEmpty DEF Init
<1>0. context \in Committed
  BY DEF Committed
<1>1. TypeOK
  <2>1. output \in Output
    BY DEF Output, StopReason
  <2>2. result \in {"None", "Completed"} \cup Causes
    OBVIOUS
  <2>3. cancelled \in BOOLEAN /\ expired \in BOOLEAN
    OBVIOUS
  <2>4. seen \in Committed /\ batch \in Batch /\ returned \in Batch
    BY <1>0
  <2>5. surface \subseteq ToolName /\ frameTools \subseteq ToolName
    OBVIOUS
  <2> QED BY <1>0, <2>1, <2>2, <2>3, <2>4, <2>5 DEF TypeOK
<1>2. ShapeInv /\ FreshInv /\ OpenInv /\ ToldInv /\ SurfaceInv /\ OutcomeInv
  BY DEF ShapeInv, FreshInv, OpenInv, ToldInv, SurfaceInv, OutcomeInv, Idle, BatchOpen,
         Answered
<1>r. RunningInv /\ CauseInv
  BY DEF RunningInv, CauseInv
<1>3. CountInv
  BY FS_EmptySet DEF CountInv, Idle
<1> QED BY <1>1, <1>2, <1>r, <1>3 DEF IInv

(* A run that ends hands its batch back, which is empty where none is open.  *)
LEMMA EndKeepsInv ==
  ASSUME IInv, pc \in (Idle \cup BatchOpen) \ {"process", "resultsCommitted"}, pc' = "done",
         UNCHANGED <<control, round, surface, context, batch, processed, output, seen,
                     invocations>>,
         frameTools' \subseteq ToolName, declaredBefore' \in 0..MaxToolCalls,
         returned' = batch,
         result' \in (Causes \cup {"Completed"}) \ {"UnknownToolOutcome"},
         processed \in {"Ok", "Clash"} =>
           result' \in {"ToolResultValidationFailed", "ToolCommitFailed"},
         result' \in {"Cancelled", "DeadlineExceeded"} => output.reason \in {"EndTurn", "ToolUse"},
         result' = "MaxModelRounds" => ~Stopped,
         IF pc = "declared" THEN result' = "MaxToolCalls" <=> Cardinality(seen.declared) > MaxToolCalls
                            ELSE result' # "MaxToolCalls"
  PROVE  IInv'
<1> USE LimitsAssumption, NoBatchIsEmpty DEF control
<1>1. TypeOK'
  BY DEF IInv, TypeOK, Committed
<1>2. ShapeInv'
  BY DEF IInv, ShapeInv, Idle, BatchOpen, Causes
<1>3. FreshInv' /\ SurfaceInv'
  BY DEF IInv, FreshInv, SurfaceInv
<1>4. OpenInv'
  BY DEF IInv, ShapeInv, OpenInv, Idle, BatchOpen, Answered
<1>5. ToldInv'
  BY DEF IInv, ShapeInv, ToldInv, Idle, BatchOpen
<1>6. OutcomeInv'
  BY DEF IInv, ShapeInv, OutcomeInv, Idle, BatchOpen
<1>7. CountInv'
  <2>1. pc # "declared" => Cardinality(seen.declared) <= MaxToolCalls
    BY DEF IInv, CountInv, Idle, BatchOpen
  <2>2. IsFiniteSet(seen.declared) /\ Cardinality(seen.declared) \in Nat
    BY FS_CardinalityType DEF IInv, CountInv
  <2> QED BY <2>1, <2>2 DEF IInv, CountInv, Idle
<1>8. RunningInv' /\ CauseInv'
  BY DEF IInv, RunningInv, CauseInv, ShapeInv, Stopped
<1> QED BY <1>1, <1>2, <1>3, <1>4, <1>5, <1>6, <1>7, <1>8 DEF IInv

(* Steps between places of the loop's head disturb only where it is, the     *)
(* tools and the context's tools.                                            *)
LEMMA HeadKeepsInv ==
  ASSUME IInv, pc \in Idle, pc' \in Idle,
         UNCHANGED <<control, round, declaredBefore, batch, processed, seen, output,
                     invocations, result, returned>>,
         context' \in Committed, surface' \subseteq ToolName, frameTools' \subseteq ToolName,
         context'.declared \subseteq context.declared,
         context'.answers \subseteq context.answers,
         SurfaceInv',
         pc = "top" => round < MaxModelRounds, pc' # "top",
         pc \notin {"invoke", "output"}, pc' \notin {"invoke", "output"}
  PROVE  IInv'
<1> USE LimitsAssumption DEF control
<1>1. TypeOK'
  BY DEF IInv, TypeOK, Idle
<1>2. ShapeInv'
  BY DEF IInv, ShapeInv, Idle
<1>3. FreshInv' /\ OpenInv' /\ ToldInv'
  BY DEF IInv, FreshInv, OpenInv, ToldInv, Idle, BatchOpen, Answered
<1>4. OutcomeInv'
  BY DEF IInv, ShapeInv, OutcomeInv, Idle
<1>5. CountInv'
  BY DEF IInv, CountInv, Idle
<1>6. RunningInv' /\ CauseInv'
  BY DEF IInv, RunningInv, CauseInv, Stopped, Idle
<1> QED BY <1>1, <1>2, <1>3, <1>4, <1>5, <1>6 DEF IInv

(* The head of the loop keeps the invariant.                                 *)
LEMMA HeadInv ==
  ASSUME IInv, \/ StartRound \/ Bind \/ BindFails \/ CommitToolChange
               \/ NotifyToolChange \/ Prepare
  PROVE  IInv'
<1>p. pc \in {"top", "bind", "bound", "toolsCommitted", "preparing"}
  BY DEF StartRound, Bind, BindFails, CommitToolChange, NotifyToolChange, Prepare
<1>t. /\ TypeOK /\ ShapeInv /\ SurfaceInv /\ CountInv
      /\ pc # "declared" /\ output.reason \in {"EndTurn", "ToolUse"}
      /\ pc \in Idle => batch = NoBatch
      /\ processed \in {"Ok", "Clash"} => pc \notin Idle
      /\ declaredBefore \in 0..MaxToolCalls
      /\ frameTools \subseteq ToolName /\ surface \subseteq ToolName
      /\ context.tools \subseteq ToolName
  BY <1>p, LimitsAssumption
     DEF IInv, ShapeInv, TypeOK, OutcomeInv, CauseInv, CountInv, Idle, Committed
<1> USE DEF control, Idle
<1>1. CASE StartRound
  <2>1. CASE pc' = "done"
    BY <2>1, <1>1, <1>t, EndKeepsInv DEF StartRound, Finish, CheckThen, Cause, Causes
  <2>2. CASE pc' # "done"
    <3>1. round < MaxModelRounds /\ pc' = "bind"
      BY <2>2, <1>1, <1>t, LimitsAssumption DEF StartRound, Finish, CheckThen, TypeOK
    <3>2. SurfaceInv'
      BY <3>1 DEF SurfaceInv
    <3> QED BY <3>1, <3>2, <2>2, <1>1, <1>t, HeadKeepsInv
            DEF StartRound, Finish, CheckThen, TypeOK
  <2> QED BY <2>1, <2>2
<1>2. CASE Bind
  <2>1. SurfaceInv'
    BY <1>2 DEF Bind, SurfaceInv
  <2> QED BY <1>2, <1>t, <2>1, HeadKeepsInv DEF Bind, TypeOK
<1>3. CASE BindFails
  BY <1>3, <1>t, EndKeepsInv DEF BindFails, Finish, Cause, Causes
<1>4. CASE CommitToolChange
  <2>1. CASE pc' = "done"
    BY <2>1, <1>4, <1>t, EndKeepsInv DEF CommitToolChange, Finish, CheckThen, Cause, Causes
  <2>2. CASE pc' # "done"
    <3>1. SurfaceInv'
      BY <2>2, <1>4, <1>t DEF CommitToolChange, Finish, CheckThen, SurfaceInv, TypeOK, Committed
    <3>2. context' \in Committed /\ context'.declared = context.declared
          /\ context'.answers = context.answers
      BY <1>4, <1>t DEF CommitToolChange, TypeOK, Committed
    <3> QED BY <3>1, <3>2, <2>2, <1>4, <1>t, HeadKeepsInv
            DEF CommitToolChange, Finish, CheckThen
  <2> QED BY <2>1, <2>2
<1>5. CASE NotifyToolChange
  <2>1. /\ seen' \in Committed /\ seen'.declared = seen.declared
        /\ seen'.answers = seen.answers
    BY <1>5, <1>t DEF NotifyToolChange, TypeOK, Committed
  <2>2. TypeOK'
    BY <1>5, <1>t, <2>1 DEF NotifyToolChange, TypeOK
  <2>3. ShapeInv' /\ FreshInv' /\ SurfaceInv'
    BY <1>5, <2>1 DEF IInv, NotifyToolChange, ShapeInv, FreshInv, SurfaceInv
  <2>4. OpenInv' /\ ToldInv' /\ OutcomeInv' /\ CountInv'
    BY <1>5, <2>1 DEF IInv, NotifyToolChange, OpenInv, ToldInv, OutcomeInv, CountInv,
                      BatchOpen, Answered
  <2>5. RunningInv' /\ CauseInv'
    BY <1>5 DEF IInv, NotifyToolChange, RunningInv, CauseInv, Stopped
  <2> QED BY <2>2, <2>3, <2>4, <2>5 DEF IInv
<1>6. CASE Prepare
  <2>1. CASE pc' = "done"
    BY <2>1, <1>6, <1>t, EndKeepsInv DEF Prepare, Finish, CheckThen, Cause, Causes
  <2>2. CASE pc' # "done"
    <3>1. SurfaceInv'
      BY <2>2, <1>6, <1>t DEF Prepare, Finish, CheckThen, SurfaceInv
    <3> QED BY <3>1, <2>2, <1>6, <1>t, HeadKeepsInv
            DEF Prepare, Finish, CheckThen, TypeOK
  <2> QED BY <2>1, <2>2
<1> QED BY <1>1, <1>2, <1>3, <1>4, <1>5, <1>6

(* While a preparer works on the context, and when it is done or dropped.    *)
LEMMA PreparerInv ==
  ASSUME IInv, PreparerEdits \/ PreparerDropped \/ PreparerFails \/ PreparerReturns
  PROVE  IInv'
<1>p. pc = "prepare"
  BY DEF PreparerEdits, PreparerDropped, PreparerFails, PreparerReturns
<1>t. /\ TypeOK /\ pc = "prepare" /\ batch = NoBatch
      /\ processed \notin {"Ok", "Clash"} /\ output.reason \in {"EndTurn", "ToolUse"}
      /\ declaredBefore \in 0..MaxToolCalls
      /\ frameTools \subseteq ToolName /\ surface \subseteq ToolName
  BY <1>p, LimitsAssumption DEF IInv, ShapeInv, TypeOK, OutcomeInv, CauseInv, CountInv, Idle
<1> USE DEF control, Idle
<1>1. CASE PreparerEdits
  <2>1. SurfaceInv'
    BY <1>1, <1>t DEF PreparerEdits, SurfaceInv
  <2>2. /\ context' \in Committed /\ context'.declared \subseteq context.declared
        /\ context'.answers \subseteq context.answers
    <3>1. CASE \E tools \in SUBSET ToolName : context' = [context EXCEPT !.tools = tools]
      BY <3>1, <1>t DEF TypeOK, Committed
    <3>2. CASE \E c \in Answered(context) :
                 context' = [context EXCEPT !.declared = @ \ {c},
                                            !.answers = {a \in @ : a[1] # c}]
      BY <3>2, <1>t DEF TypeOK, Committed
    <3> QED BY <3>1, <3>2, <1>1 DEF PreparerEdits
  <2> QED BY <1>1, <1>t, <2>1, <2>2, HeadKeepsInv DEF PreparerEdits, TypeOK
<1>2. CASE PreparerDropped
  BY <1>2, <1>t, EndKeepsInv DEF PreparerDropped, Finish, Cause, Causes
<1>3. CASE PreparerFails
  BY <1>3, <1>t, EndKeepsInv DEF PreparerFails, Finish, Causes
<1>4. CASE PreparerReturns
  <2>1. CASE frameTools' = surface
    <3>1. SurfaceInv'
      BY <2>1, <1>4, <1>t DEF PreparerReturns, SurfaceInv
    <3> QED BY <2>1, <3>1, <1>4, <1>t, HeadKeepsInv DEF PreparerReturns, TypeOK
  <2>2. CASE frameTools' # surface
    BY <2>2, <1>4, <1>t, EndKeepsInv DEF PreparerReturns, Finish, Causes
  <2> QED BY <2>1, <2>2
<1> QED BY <1>1, <1>2, <1>3, <1>4

(* The model call, and the commit of its output.                             *)
LEMMA ModelInv ==
  ASSUME IInv, \/ EnterGateway \/ InvokeStopped \/ GatewayFails \/ GatewayAnswers
               \/ RefuseOutput \/ CommitModel
  PROVE  IInv'
<1>p. pc \in {"requestReady", "invoke", "output"}
  BY DEF EnterGateway, InvokeStopped, GatewayFails, GatewayAnswers, RefuseOutput, CommitModel
<1>t. /\ TypeOK /\ pc \in {"requestReady", "invoke", "output"} /\ batch = NoBatch
      /\ processed \notin {"Ok", "Clash"}
      /\ declaredBefore \in 0..MaxToolCalls
      /\ frameTools \subseteq ToolName
      /\ output.reason \in StopReason /\ output.calls \in 0..MaxCalls
      /\ pc # "output" => output.reason \in {"EndTurn", "ToolUse"}
  BY <1>p, LimitsAssumption
     DEF IInv, ShapeInv, TypeOK, OutcomeInv, CauseInv, CountInv, Idle, Output
<1> USE DEF control, Idle
<1>1. CASE EnterGateway
  <2>1. CASE pc' = "done"
    BY <2>1, <1>1, <1>t, EndKeepsInv DEF EnterGateway, Finish, CheckThen, Cause, Causes
  <2>2. CASE pc' # "done"
    <3>1. /\ pc = "requestReady" /\ pc' = "invoke" /\ invocations' = invocations + 1
          /\ UNCHANGED <<control, round, declaredBefore, surface, frameTools, context,
                         batch, processed, output, seen, result, returned>>
      BY <2>2, <1>1 DEF EnterGateway, Finish, CheckThen
    <3>2. TypeOK'
      BY <3>1, <1>t DEF TypeOK
    <3>3. ShapeInv' /\ FreshInv' /\ OpenInv' /\ ToldInv' /\ SurfaceInv' /\ OutcomeInv'
      BY <3>1 DEF IInv, ShapeInv, FreshInv, OpenInv, ToldInv, SurfaceInv, OutcomeInv,
                  BatchOpen, Answered
    <3>4. CountInv'
      BY <3>1, <1>t, LimitsAssumption DEF IInv, TypeOK, CountInv
    <3>5. RunningInv' /\ CauseInv'
      BY <3>1 DEF IInv, RunningInv, CauseInv, Stopped
    <3> QED BY <3>2, <3>3, <3>4, <3>5 DEF IInv
  <2> QED BY <2>1, <2>2
<1>2. CASE InvokeStopped
  BY <1>2, <1>t, EndKeepsInv DEF InvokeStopped, Finish, Cause, Causes
<1>3. CASE GatewayFails
  BY <1>3, <1>t, EndKeepsInv DEF GatewayFails, Finish, Causes
<1>4. CASE GatewayAnswers
  <2>1. TypeOK'
    BY <1>4, <1>t DEF GatewayAnswers, TypeOK
  <2>2. ShapeInv' /\ FreshInv' /\ OpenInv' /\ ToldInv' /\ SurfaceInv' /\ OutcomeInv'
    BY <1>4 DEF IInv, GatewayAnswers, ShapeInv, FreshInv, OpenInv, ToldInv, SurfaceInv,
                OutcomeInv, BatchOpen, Answered
  <2>3. CountInv'
    BY <1>4 DEF IInv, GatewayAnswers, CountInv
  <2>4. RunningInv' /\ CauseInv'
    BY <1>4 DEF IInv, GatewayAnswers, RunningInv, CauseInv, ShapeInv, Stopped
  <2> QED BY <2>1, <2>2, <2>3, <2>4 DEF IInv
<1>5. CASE RefuseOutput
  BY <1>5, <1>t, EndKeepsInv DEF RefuseOutput, StopReason, Finish, Causes
<1>6. CASE CommitModel
  <2>1. CASE pc' = "done"
    BY <2>1, <1>6, <1>t, EndKeepsInv DEF CommitModel, Finish, Cause, Causes
  <2>2. CASE pc' # "done"
    <3> DEFINE new == Calls(output.calls)
    <3>1. /\ pc = "output" /\ pc' = "modelCommitted" /\ Convertible(output)
          /\ context' = [context EXCEPT !.declared = @ \cup new]
          /\ batch' = [c \in new |-> "pending"]
          /\ UNCHANGED <<control, round, declaredBefore, surface, frameTools, processed,
                         output, seen, invocations, result, returned>>
      BY <2>2, <1>6 DEF CommitModel, Finish
    <3>2. new \subseteq Call /\ \A c \in new : c[1] = round
      BY <1>t, CallsOfRound DEF TypeOK
    <3>3. output.reason = "EndTurn" => new = {}
      BY <3>1, <1>t DEF Convertible, Calls
    <3>e. output.calls' = output.calls /\ Calls(output.calls)' = new
      BY <3>1 DEF Calls
    <3> HIDE DEF new
    <3>4. batch' \in Batch /\ DOMAIN batch' = new
      BY <3>1, <3>2, BatchIsMap
    <3>5. /\ context' \in Committed /\ context'.declared = context.declared \cup new
          /\ context'.answers = context.answers
      BY <3>1, <3>2, <1>t DEF TypeOK, Committed
    <3>6. TypeOK'
      BY <3>1, <3>4, <3>5, <1>t DEF TypeOK
    <3>7. ShapeInv'
      BY <3>1, <3>3, <3>4, <3>e, <1>t DEF IInv, ShapeInv, NoBatch
    <3>8. FreshInv' /\ OpenInv'
      <4>1. \A c \in seen.declared : c[1] < round
        BY <3>1, <1>t, NoBatchIsEmpty DEF IInv, FreshInv
      <4>2. \A c \in seen.declared : c \in Call
        BY <1>t DEF TypeOK, Committed
      <4>3. DOMAIN batch' \cap seen.declared = {}
        BY <4>1, <4>2, <3>2, <3>4, <1>t, LimitsAssumption DEF TypeOK, Call
      <4>4. FreshInv'
        BY <3>1, <3>2, <3>4, <3>5, <1>t, NoBatchIsEmpty DEF IInv, FreshInv
      <4> QED BY <4>3, <4>4, <3>1 DEF IInv, OpenInv, BatchOpen, Answered
    <3>9. ToldInv' /\ SurfaceInv' /\ OutcomeInv'
      BY <3>1, <3>4, <3>5 DEF IInv, ToldInv, SurfaceInv, OutcomeInv, BatchOpen
    <3>10. CountInv'
      BY <3>1 DEF IInv, CountInv
    <3>11. RunningInv' /\ CauseInv'
      <4>1. output.reason \in {"EndTurn", "ToolUse"}
        BY <2>2, <1>6 DEF CommitModel
      <4>2. \A c \in DOMAIN batch' : batch'[c] # "running"
        BY <3>1, <3>4
      <4> QED BY <3>1, <4>1, <4>2 DEF IInv, RunningInv, CauseInv, Stopped
    <3> QED BY <3>6, <3>7, <3>8, <3>9, <3>10, <3>11 DEF IInv
  <2> QED BY <2>1, <2>2
<1> QED BY <1>1, <1>2, <1>3, <1>4, <1>5, <1>6

(* The batch, from its declaration to the end of its round.                  *)
LEMMA DeclareInv ==
  ASSUME IInv, NotifyModelCommit \/ AfterModelCommit \/ EnterProcessing
  PROVE  IInv'
<1>p. pc \in {"modelCommitted", "declared", "batchReady"}
  BY DEF NotifyModelCommit, AfterModelCommit, EnterProcessing
<1>t. /\ TypeOK /\ processed = "None" /\ output.reason \in {"EndTurn", "ToolUse"}
      /\ declaredBefore \in 0..MaxToolCalls /\ frameTools \subseteq ToolName
      /\ output.reason \in StopReason /\ output.calls \in 0..MaxCalls
      /\ DOMAIN batch \subseteq Call
  BY <1>p, LimitsAssumption, BatchIsMap DEF IInv, TypeOK, OutcomeInv, CauseInv, CountInv, Output
<1> USE DEF control, BatchOpen
<1>1. CASE NotifyModelCommit
  <2>1. /\ pc = "modelCommitted" /\ pc' = "declared"
        /\ seen' = [seen EXCEPT !.declared = @ \cup DOMAIN batch]
        /\ UNCHANGED <<control, round, declaredBefore, surface, frameTools, context, batch,
                       processed, output, invocations, result, returned>>
    BY <1>1 DEF NotifyModelCommit
  <2>2. /\ seen' \in Committed /\ seen'.declared = seen.declared \cup DOMAIN batch
        /\ seen'.answers = seen.answers /\ Answered(seen') = Answered(seen)
        /\ Answered(seen)' = Answered(seen)
    BY <2>1, <1>t DEF TypeOK, Committed, Answered
  <2>3. TypeOK'
    BY <2>1, <2>2, <1>t DEF TypeOK
  <2>4. ShapeInv'
    <3>1. Calls(output.calls)' = Calls(output.calls)
      BY <2>1 DEF Calls
    <3>2. output.reason = "EndTurn" => batch = NoBatch
      BY <2>1, <1>t DEF IInv, ShapeInv
    <3> QED BY <2>1, <3>1, <3>2 DEF IInv, ShapeInv, Idle
  <2>f. FreshInv'
    BY <2>1, <2>2 DEF IInv, FreshInv
  <2>5. OpenInv'
    <3>1. seen.declared = Answered(seen) /\ DOMAIN batch \cap seen.declared = {}
      BY <2>1 DEF IInv, OpenInv
    <3> QED BY <2>1, <2>2, <3>1 DEF OpenInv, Idle
  <2>6. ToldInv' /\ SurfaceInv' /\ OutcomeInv'
    BY <2>1, <2>2 DEF IInv, ToldInv, SurfaceInv, OutcomeInv
  <2>7. CountInv'
    <3>1. DOMAIN batch = Calls(output.calls)
      BY <2>1 DEF IInv, ShapeInv
    <3>2. IsFiniteSet(DOMAIN batch) /\ Cardinality(DOMAIN batch) = output.calls
      BY <3>1, <1>t, CallsCounted, LimitsAssumption
    <3>3. IsFiniteSet(seen.declared) /\ Cardinality(seen.declared) = declaredBefore
      BY <2>1 DEF IInv, CountInv
    <3>4. seen.declared \cap DOMAIN batch = {} /\ Cardinality({}) = 0
      BY <2>1, FS_EmptySet DEF IInv, OpenInv
    <3>5. /\ IsFiniteSet(seen'.declared)
          /\ Cardinality(seen'.declared) =
               Cardinality(seen.declared) + Cardinality(DOMAIN batch)
                 - Cardinality(seen.declared \cap DOMAIN batch)
      BY <3>2, <3>3, <2>2, FS_Union
    <3>6. Cardinality(seen'.declared) = declaredBefore + output.calls
      BY <3>2, <3>3, <3>4, <3>5, <1>t, LimitsAssumption
    <3> QED BY <2>1, <3>5, <3>6 DEF IInv, CountInv, Idle
  <2>8. RunningInv' /\ CauseInv'
    BY <2>1, <1>t DEF IInv, RunningInv, CauseInv, Stopped
  <2> QED BY <2>3, <2>4, <2>f, <2>5, <2>6, <2>7, <2>8 DEF IInv
<1>2. CASE AfterModelCommit
  <2> DEFINE total == CheckedAdd(declaredBefore, output.calls)
  <2>1. /\ total \in Nat
        /\ total <= MaxToolCalls =>
             total = declaredBefore + output.calls /\ total \in 0..MaxToolCalls
        /\ total > MaxToolCalls <=> declaredBefore + output.calls > MaxToolCalls
    BY <1>t, LimitsAssumption DEF CheckedAdd
  <2>2. CASE pc' = "done"
    <3>1. pc = "declared" /\ declaredBefore' \in 0..MaxToolCalls
      BY <2>1, <1>2, <1>t, LimitsAssumption DEF AfterModelCommit, Finish, CheckThen
    <3>2. output.reason = "EndTurn" => batch = NoBatch
      BY <3>1 DEF IInv, ShapeInv
    <3>3. returned' = batch /\ result' \in (Causes \cup {"Completed"}) \ {"UnknownToolOutcome"}
      BY <2>2, <3>2, <1>2 DEF AfterModelCommit, Finish, CheckThen, Cause, Causes
    <3>4. Cardinality(seen.declared) = declaredBefore + output.calls
      BY <3>1 DEF IInv, CountInv
    <3>5. output.reason = "EndTurn" => output.calls = 0
      <4>1. output.reason = "EndTurn" => Calls(output.calls) = {}
        BY <3>1, <3>2, NoBatchIsEmpty DEF IInv, ShapeInv
      <4>2. Cardinality(Calls(output.calls)) = output.calls
        BY <1>t, CallsCounted, LimitsAssumption
      <4> QED BY <4>1, <4>2, FS_EmptySet
    <3>6. result' = "MaxToolCalls" <=> Cardinality(seen.declared) > MaxToolCalls
      <4>1. CASE output.reason = "EndTurn"
        BY <4>1, <3>4, <3>5, <1>2, <1>t, LimitsAssumption DEF AfterModelCommit, Finish
      <4>2. CASE output.reason # "EndTurn" /\ total > MaxToolCalls
        BY <4>2, <2>1, <3>4, <1>2 DEF AfterModelCommit, Finish
      <4>3. CASE output.reason # "EndTurn" /\ ~(total > MaxToolCalls)
        BY <4>3, <2>1, <2>2, <3>4, <1>2 DEF AfterModelCommit, Finish, CheckThen, Cause
      <4> QED BY <4>1, <4>2, <4>3
    <3>7. result' # "MaxModelRounds"
      BY <2>2, <1>2 DEF AfterModelCommit, Finish, CheckThen, Cause
    <3> QED BY <2>2, <3>1, <3>3, <3>6, <3>7, <1>2, <1>t, EndKeepsInv DEF AfterModelCommit
  <2>3. CASE pc' # "done"
    <3>1. /\ pc = "declared" /\ pc' = "batchReady" /\ total <= MaxToolCalls
          /\ declaredBefore' = total
          /\ UNCHANGED <<control, round, surface, frameTools, context, batch, processed,
                         output, seen, invocations, result, returned>>
      BY <2>1, <2>3, <1>2, LimitsAssumption DEF AfterModelCommit, Finish, CheckThen
    <3>d. declaredBefore' \in 0..MaxToolCalls /\ declaredBefore' \in 0..U32Max
      BY <3>1, <2>1, LimitsAssumption
    <3>2. TypeOK'
      BY <3>1, <3>d, <1>t DEF TypeOK
    <3>3. ShapeInv' /\ FreshInv' /\ OpenInv' /\ ToldInv' /\ SurfaceInv' /\ OutcomeInv'
      BY <3>1 DEF IInv, ShapeInv, FreshInv, OpenInv, ToldInv, SurfaceInv, OutcomeInv,
                  Idle, Answered
    <3>4. CountInv'
      BY <3>1, <2>1 DEF IInv, CountInv, Idle
    <3>5. RunningInv' /\ CauseInv'
      BY <3>1, <1>t DEF IInv, RunningInv, CauseInv, Stopped
    <3> QED BY <3>2, <3>3, <3>4, <3>5 DEF IInv
  <2> QED BY <2>2, <2>3
<1>3. CASE EnterProcessing
  <2>1. CASE pc' = "done"
    BY <2>1, <1>3, <1>t, EndKeepsInv DEF EnterProcessing, Finish, CheckThen, Cause, Causes
  <2>2. CASE pc' # "done"
    <3>1. /\ pc = "batchReady" /\ pc' = "process"
          /\ UNCHANGED <<control, round, declaredBefore, surface, frameTools, context,
                         batch, processed, output, seen, invocations, result, returned>>
      BY <2>2, <1>3 DEF EnterProcessing, Finish, CheckThen
    <3>2. TypeOK'
      BY <3>1, <1>t DEF TypeOK
    <3>3. ShapeInv' /\ FreshInv' /\ OpenInv' /\ ToldInv' /\ SurfaceInv' /\ OutcomeInv'
          /\ CountInv'
      BY <3>1 DEF IInv, ShapeInv, FreshInv, OpenInv, ToldInv, SurfaceInv, OutcomeInv,
                  CountInv, Idle, Answered
    <3>4. RunningInv' /\ CauseInv'
      BY <3>1, <1>t DEF IInv, RunningInv, CauseInv, Stopped
    <3> QED BY <3>2, <3>3, <3>4 DEF IInv
  <2> QED BY <2>1, <2>2
<1> QED BY <1>1, <1>2, <1>3

(* Processing decides calls of the batch; a commit answers all of them, its  *)
(* notification tells the host, and the round ends.                          *)
LEMMA AnswerInv ==
  ASSUME IInv, \/ ToolStarts \/ ProcessingSucceeds \/ ProcessingFails \/ ProcessingStopped
               \/ ReportProcessingFailure \/ CommitTools \/ NotifyToolCommit \/ EndRound
  PROVE  IInv'
<1>p. pc \in {"process", "processed", "resultsCommitted", "answered"}
  BY DEF ToolStarts, ProcessingSucceeds, ProcessingFails, ProcessingStopped,
         ReportProcessingFailure, CommitTools, NotifyToolCommit, EndRound
<1>t. /\ TypeOK /\ DOMAIN batch \subseteq Call /\ frameTools \subseteq ToolName
      /\ declaredBefore \in 0..MaxToolCalls /\ output.reason \in {"EndTurn", "ToolUse"}
      /\ batch \in [DOMAIN batch -> Status \cup {"pending", "running"}]
  BY <1>p, LimitsAssumption, BatchIsMap DEF IInv, TypeOK, CauseInv, CountInv
<1> USE DEF control, BatchOpen
<1>0. CASE ToolStarts
  <2>1. /\ pc = "process" /\ DOMAIN batch' = DOMAIN batch
        /\ batch' \in [DOMAIN batch -> Status \cup {"pending", "running"}]
        /\ UNCHANGED <<pc, control, round, declaredBefore, surface, frameTools, context,
                       processed, output, seen, invocations, result, returned>>
    BY <1>0, <1>t DEF ToolStarts
  <2>2. batch' \in Batch /\ processed = "None"
    BY <2>1, <1>t, BatchIsMap DEF IInv, OutcomeInv
  <2>3. TypeOK'
    BY <2>1, <2>2, <1>t DEF TypeOK
  <2>4. ShapeInv' /\ FreshInv' /\ OpenInv' /\ ToldInv' /\ SurfaceInv'
    BY <2>1, <2>2 DEF IInv, ShapeInv, FreshInv, OpenInv, ToldInv, SurfaceInv, Idle, Answered
  <2>5. OutcomeInv' /\ CountInv' /\ RunningInv' /\ CauseInv'
    BY <2>1 DEF IInv, OutcomeInv, CountInv, RunningInv, CauseInv, Stopped, Idle
  <2> QED BY <2>3, <2>4, <2>5 DEF IInv
<1>1. CASE ProcessingSucceeds \/ ProcessingFails \/ ProcessingStopped
  <2>1. /\ pc = "process" /\ pc' = "processed"
        /\ DOMAIN batch' = DOMAIN batch
        /\ batch' \in [DOMAIN batch -> Status \cup {"pending"}]
        /\ processed' \in {"Ok", "Clash", "Error", "Cancelled", "DeadlineExceeded"}
        /\ processed' \in {"Ok", "Clash"} => \A c \in DOMAIN batch : batch'[c] \in Status
        /\ UNCHANGED <<control, round, declaredBefore, surface, frameTools, context,
                       output, seen, invocations, result, returned>>
    BY <1>1 DEF ProcessingSucceeds, ProcessingFails, ProcessingStopped, Cause
  <2>2. batch' \in Batch
    BY <2>1, <1>t, BatchIsMap
  <2>r. RunningInv' /\ CauseInv'
    <3>1. \A c \in DOMAIN batch' : batch'[c] # "running"
      BY <2>1 DEF Status
    <3> QED BY <2>1, <3>1, <1>t DEF IInv, RunningInv, CauseInv, Stopped
  <2>3. TypeOK'
    BY <2>1, <2>2, <1>t DEF TypeOK
  <2>4. ShapeInv'
    BY <2>1 DEF IInv, ShapeInv, Idle
  <2>5. FreshInv' /\ OpenInv' /\ ToldInv' /\ SurfaceInv'
    BY <2>1 DEF IInv, FreshInv, OpenInv, ToldInv, SurfaceInv, Idle, Answered
  <2>6. OutcomeInv' /\ CountInv'
    BY <2>1 DEF IInv, ShapeInv, OutcomeInv, CountInv, Idle
  <2> QED BY <2>3, <2>4, <2>5, <2>6, <2>r DEF IInv
<1>2. CASE ReportProcessingFailure
  BY <1>2, <1>t, EndKeepsInv DEF ReportProcessingFailure, Finish, Causes
<1>3. CASE CommitTools
  <2>1. CASE pc' = "done"
    BY <2>1, <1>3, <1>t, EndKeepsInv DEF CommitTools, Finish, Causes
  <2>2. CASE pc' # "done"
    <3> DEFINE results == {<<c, batch[c]>> : c \in DOMAIN batch}
    <3>1. /\ pc = "processed" /\ pc' = "resultsCommitted" /\ processed \in {"Ok", "Clash"}
          /\ context' = [context EXCEPT !.answers = @ \cup results]
          /\ UNCHANGED <<control, round, declaredBefore, surface, frameTools, batch,
                         processed, output, seen, invocations, result, returned>>
      BY <2>2, <1>3 DEF CommitTools, Finish
    <3>2. \A c \in DOMAIN batch : batch[c] \in Status
      BY <3>1 DEF IInv, ShapeInv
    <3>3. results \subseteq Call \X Status
      BY <3>2, <1>t
    <3>4. results' = results
      BY <3>1
    <3> HIDE DEF results
    <3>5. /\ context' \in Committed /\ context'.declared = context.declared
          /\ context'.answers = context.answers \cup results
      BY <3>1, <3>3, <1>t DEF TypeOK, Committed
    <3>6. TypeOK'
      BY <3>1, <3>5, <1>t DEF TypeOK
    <3>7. ShapeInv'
      BY <3>1, <3>2 DEF IInv, ShapeInv, Idle
    <3>8. FreshInv' /\ OpenInv' /\ SurfaceInv' /\ OutcomeInv' /\ CountInv'
      BY <3>1, <3>5 DEF IInv, FreshInv, OpenInv, SurfaceInv, OutcomeInv, CountInv, Idle,
                        Answered
    <3>9. ToldInv'
      <4>1. context.answers \subseteq seen.answers
        BY <3>1 DEF IInv, ToldInv
      <4>2. context.declared \subseteq seen.declared /\ DOMAIN batch \subseteq context.declared
        BY <3>1 DEF IInv, ToldInv
      <4> QED BY <3>1, <3>5, <4>1, <4>2 DEF ToldInv, results
    <3>10. RunningInv' /\ CauseInv'
      BY <3>1, <1>t DEF IInv, RunningInv, CauseInv, Stopped
    <3> QED BY <3>6, <3>7, <3>8, <3>9, <3>10 DEF IInv
  <2> QED BY <2>1, <2>2
<1>4. CASE NotifyToolCommit
  <2> DEFINE results == {<<c, batch[c]>> : c \in DOMAIN batch}
  <2>1. /\ pc = "resultsCommitted" /\ pc' = "answered"
        /\ seen' = [seen EXCEPT !.answers = @ \cup results]
        /\ UNCHANGED <<control, round, declaredBefore, surface, frameTools, context, batch,
                       processed, output, invocations, result, returned>>
    BY <1>4 DEF NotifyToolCommit
  <2>2. \A c \in DOMAIN batch : batch[c] \in Status
    BY <2>1 DEF IInv, ShapeInv
  <2>3. results \subseteq Call \X Status
    BY <2>2, <1>t
  <2>4. /\ seen' \in Committed /\ seen'.declared = seen.declared
        /\ seen'.answers = seen.answers \cup results
    BY <2>1, <2>3, <1>t DEF TypeOK, Committed
  <2>5. Answered(seen)' = Answered(seen) \cup DOMAIN batch
    <3>1. \A a \in results : a[1] \in DOMAIN batch
      OBVIOUS
    <3>2. \A c \in DOMAIN batch : <<c, batch[c]>> \in results /\ <<c, batch[c]>>[1] = c
      OBVIOUS
    <3> HIDE DEF results
    <3>3. Answered(seen)' = {a[1] : a \in seen.answers \cup results}
      BY <2>4 DEF Answered
    <3>4. Answered(seen)' \subseteq Answered(seen) \cup DOMAIN batch
      BY <3>1, <3>3 DEF Answered
    <3>5. Answered(seen) \subseteq Answered(seen)'
      BY <3>3 DEF Answered
    <3>6. DOMAIN batch \subseteq Answered(seen)'
      <4> SUFFICES ASSUME NEW c \in DOMAIN batch PROVE c \in Answered(seen)'
        OBVIOUS
      <4>1. <<c, batch[c]>> \in results /\ <<c, batch[c]>>[1] = c
        BY <3>2
      <4> QED BY <3>3, <4>1
    <3> QED BY <3>4, <3>5, <3>6
  <2>6. TypeOK'
    BY <2>1, <2>4, <1>t DEF TypeOK
  <2>7. ShapeInv' /\ FreshInv' /\ SurfaceInv' /\ CountInv'
    BY <2>1, <2>2, <2>4 DEF IInv, ShapeInv, FreshInv, SurfaceInv, CountInv, Idle
  <2>8. OpenInv'
    BY <2>1, <2>4, <2>5 DEF IInv, OpenInv, Idle
  <2>9. ToldInv'
    BY <2>1, <2>4 DEF IInv, ToldInv
  <2>10. OutcomeInv'
    <3>1. result # "UnknownToolOutcome" /\ result' # "UnknownToolOutcome"
      BY <2>1 DEF IInv, ShapeInv
    <3>2. \A a \in seen.answers : a[2] # "UnknownOutcome"
      BY <2>1, <3>1 DEF IInv, OutcomeInv
    <3> QED BY <2>1, <2>4, <3>1, <3>2 DEF OutcomeInv
  <2>11. RunningInv' /\ CauseInv'
    BY <2>1, <1>t DEF IInv, RunningInv, CauseInv, Stopped
  <2> QED BY <2>6, <2>7, <2>8, <2>9, <2>10, <2>11 DEF IInv
<1>5. CASE EndRound
  <2> DEFINE unknown == \E c \in DOMAIN batch : batch[c] = "UnknownOutcome"
  <2>1. /\ pc = "answered" /\ batch' = NoBatch /\ processed' = "None" /\ returned' = NoBatch
        /\ UNCHANGED <<control, declaredBefore, surface, frameTools, context, output, seen,
                       invocations>>
    <3>1. returned = NoBatch
      BY <1>5 DEF EndRound, IInv, ShapeInv
    <3> QED BY <3>1, <1>5 DEF EndRound, Finish, CheckThen
  <2>2. \/ /\ pc' = "done" /\ unknown /\ result' = "UnknownToolOutcome" /\ round' = round
        \/ /\ pc' = "done" /\ ~unknown /\ result' \in {"Cancelled", "DeadlineExceeded"}
           /\ round' = round
        \/ pc' = "top" /\ ~unknown /\ result' = result /\ round' = round + 1
    BY <1>5 DEF EndRound, Finish, CheckThen, Cause
  <2>3. unknown => \E a \in seen.answers : a[2] = "UnknownOutcome"
    BY <2>1 DEF IInv, OutcomeInv
  <2>4. result = "None" /\ round \in 0..MaxModelRounds /\ round < MaxModelRounds
    BY <2>1, <1>t DEF IInv, ShapeInv, CountInv, TypeOK, Causes
  <2>5. ~unknown => \A a \in seen.answers : a[2] # "UnknownOutcome"
    BY <2>1, <2>4 DEF IInv, OutcomeInv
  <2> HIDE DEF unknown
  <2>6. TypeOK'
    <3>1. round' \in 0..MaxModelRounds
      BY <2>2, <2>4, LimitsAssumption
    <3>2. result' \in {"None", "Completed"} \cup Causes
      BY <2>2, <2>4 DEF Causes
    <3> QED BY <2>1, <2>2, <3>1, <3>2, <1>t, NoBatchIsEmpty DEF TypeOK
  <2>7. ShapeInv'
    BY <2>1, <2>2, <2>4, NoBatchIsEmpty DEF ShapeInv, Idle
  <2>8. FreshInv'
    <3>1. \A c \in context.declared \cup seen.declared : c[1] < round \/ c \in DOMAIN batch
      BY <2>1 DEF IInv, FreshInv
    <3>2. \A c \in DOMAIN batch : c[1] = round
      BY <2>1 DEF IInv, FreshInv
    <3> QED BY <2>1, <2>2, <2>4, <3>1, <3>2, <1>t, NoBatchIsEmpty
            DEF FreshInv, TypeOK, Committed, Call
  <2>9. OpenInv' /\ ToldInv' /\ SurfaceInv'
    BY <2>1, <2>2, NoBatchIsEmpty DEF IInv, OpenInv, ToldInv, SurfaceInv, Idle, Answered
  <2>10. OutcomeInv'
    BY <2>1, <2>2, <2>3, <2>4, <2>5, NoBatchIsEmpty DEF OutcomeInv
  <2>11. CountInv'
    <3>1. Cardinality(seen.declared) = declaredBefore
      BY <2>1 DEF IInv, CountInv
    <3>2. pc' = "done" => result' # "MaxToolCalls"
      BY <2>2
    <3> QED BY <2>1, <2>2, <2>4, <3>1, <3>2, <1>t, LimitsAssumption DEF IInv, CountInv, TypeOK, Idle
  <2>12. RunningInv' /\ CauseInv'
    BY <2>1, <2>2, <2>4, <1>t, NoBatchIsEmpty DEF IInv, RunningInv, CauseInv, Stopped
  <2> QED BY <2>6, <2>7, <2>8, <2>9, <2>10, <2>11, <2>12 DEF IInv
<1> QED BY <1>0, <1>1, <1>2, <1>3, <1>4, <1>5

(* A stop may fire between any two steps, and a run that is over stays so.   *)
LEMMA StopInv ==
  ASSUME IInv, Cancel \/ Expire \/ UNCHANGED vars
  PROVE  IInv'
<1>1. /\ cancelled' \in BOOLEAN /\ expired' \in BOOLEAN
      /\ UNCHANGED <<pc, round, declaredBefore, surface, frameTools, context, batch,
                     processed, output, seen, invocations, result, returned>>
  BY DEF IInv, TypeOK, Cancel, Expire, vars, control
<1>2. TypeOK'
  BY <1>1 DEF IInv, TypeOK
<1>3. ShapeInv' /\ FreshInv' /\ OpenInv' /\ ToldInv'
  <2>1. Calls(output.calls)' = Calls(output.calls)
    BY <1>1 DEF Calls
  <2> QED BY <1>1, <2>1 DEF IInv, ShapeInv, FreshInv, OpenInv, ToldInv, Answered
<1>4. SurfaceInv' /\ OutcomeInv' /\ CountInv'
  BY <1>1 DEF IInv, SurfaceInv, OutcomeInv, CountInv
<1>5. RunningInv' /\ CauseInv'
  <2>1. pc = "done" => cancelled' = cancelled /\ expired' = expired
    BY DEF Cancel, Expire, vars, control
  <2>2. result = "MaxModelRounds" => pc = "done"
    BY DEF IInv, ShapeInv
  <2> QED BY <1>1, <2>1, <2>2 DEF IInv, RunningInv, CauseInv, Stopped
<1> QED BY <1>2, <1>3, <1>4, <1>5 DEF IInv

(* Every step keeps the invariant,                                           *)
LEMMA NextInv == IInv /\ [Next]_vars => IInv'
<1> SUFFICES ASSUME IInv, [Next]_vars PROVE IInv'
  OBVIOUS
<1>1. CASE Runtime
  BY <1>1, HeadInv, PreparerInv, ModelInv, DeclareInv, AnswerInv DEF Runtime
<1>2. CASE Answers
  BY <1>2, HeadInv, PreparerInv, ModelInv, AnswerInv DEF Answers
<1>3. CASE PreparerEdits
  BY <1>3, PreparerInv
<1>4. CASE Cancel \/ Expire \/ Terminated \/ UNCHANGED vars
  BY <1>4, StopInv DEF Terminated
<1> QED BY <1>1, <1>2, <1>3, <1>4 DEF Next

(* so that it holds of every reachable state.                                *)
THEOREM Invariant == Spec => []IInv
BY InitInv, NextInv, PTL DEF Spec

(* Every variable keeps its type; the counters stay within their limits.     *)
THEOREM Typing == Spec => []TypeOK
<1>1. IInv => TypeOK
  BY DEF IInv
<1> QED BY <1>1, Invariant, PTL

(* driver: the model is asked only with every declared call answered, and    *)
(* with exactly the tools this round can execute.                            *)
THEOREM NothingOpen == Spec => []AsksWithNothingOpen
<1>1. IInv => AsksWithNothingOpen
  BY DEF IInv, OpenInv, SurfaceInv, AsksWithNothingOpen, Idle
<1> QED BY <1>1, Invariant, PTL

(* uncommitted_tool_batch holds declared calls without results, none of them *)
(* running, and no call is neither answered nor in it.                       *)
THEOREM NoCallLost == Spec => []BatchAccountedFor
<1>1. IInv => BatchAccountedFor
  <2> SUFFICES ASSUME IInv, pc = "done" PROVE BatchAccountedFor
    BY DEF BatchAccountedFor
  <2>1. DOMAIN returned \subseteq context.declared /\ context.answers \subseteq seen.answers
    BY DEF IInv, ToldInv
  <2>2. /\ seen.declared = Answered(seen) \cup DOMAIN returned
        /\ DOMAIN returned \cap Answered(seen) = {}
    BY DEF IInv, OpenInv
  <2>3. Answered(context) \subseteq Answered(seen)
    BY <2>1 DEF Answered
  <2>4. \A c \in DOMAIN returned : returned[c] # "running"
    BY DEF IInv, RunningInv
  <2> QED BY <2>1, <2>2, <2>3, <2>4 DEF BatchAccountedFor
<1> QED BY <1>1, Invariant, PTL

(* BlocksCommitted told the observer of all the final context declares and   *)
(* answers.                                                                  *)
THEOREM ObserverComplete == Spec => []ObserverSawEverything
<1>1. IInv => ObserverSawEverything
  BY DEF IInv, ToldInv, ObserverSawEverything
<1> QED BY <1>1, Invariant, PTL

(* An unknown outcome is committed and ends the run as such even when it was *)
(* stopped; a stop leaves no fully processed batch behind, and hides neither *)
(* calls beyond the limit nor an output's own reason to end.                 *)
THEOREM Precedence == Spec => []CauseOutranks
<1>1. IInv => CauseOutranks
  BY DEF IInv, OutcomeInv, CauseInv, CountInv, CauseOutranks
<1> QED BY <1>1, Invariant, PTL

(* max_model_rounds and max_tool_calls bound invocations and processed calls *)
(* for every width of the counter.                                           *)
THEOREM Limits == Spec => []LimitsHold
<1>1. IInv => LimitsHold
  <2> SUFFICES ASSUME IInv PROVE LimitsHold
    OBVIOUS
  <2>1. invocations <= MaxModelRounds
    BY DEF IInv, CountInv
  <2>2. ASSUME pc = "process" PROVE Cardinality(seen.declared) <= MaxToolCalls
    <3>1. /\ IsFiniteSet(seen.declared) /\ Cardinality(seen.declared) = declaredBefore
          /\ declaredBefore <= MaxToolCalls /\ declaredBefore \in 0..U32Max
      BY <2>2 DEF IInv, CountInv, TypeOK
    <3>2. Cardinality(seen.declared) \in Nat
      BY <3>1, FS_CardinalityType
    <3> QED BY <3>1, <3>2, LimitsAssumption
  <2> QED BY <2>1, <2>2 DEF LimitsHold
<1> QED BY <1>1, Invariant, PTL

(* validate_tool_result_append never refuses a batch the run declared: its   *)
(* calls are still in the context, and unanswered, when it is committed.     *)
THEOREM BatchStaysAppendable == Spec => [](pc = "processed" => Appendable(batch))
<1>1. IInv => (pc = "processed" => Appendable(batch))
  <2> SUFFICES ASSUME IInv, pc = "processed" PROVE Appendable(batch)
    OBVIOUS
  <2>1. DOMAIN batch \cap Answered(seen) = {} /\ DOMAIN batch \subseteq context.declared
    BY DEF IInv, OpenInv, ToldInv, BatchOpen
  <2>2. Answered(context) \subseteq Answered(seen)
    BY DEF IInv, ToldInv, Answered
  <2> QED BY <2>1, <2>2 DEF Appendable
<1> QED BY <1>1, Invariant, PTL

-----------------------------------------------------------------------------
(* The refinement.  What the host reads off the run is its record of it.     *)
fates == [c \in Call |-> Fate(c)]

(* While a run goes on the calls open in the ledger are those the host was   *)
(* told of without a result.                                                 *)
LEMMA OpenCalls ==
  ASSUME IInv, pc # "done"
  PROVE  {c \in Call : fates[c] = "open"} = seen.declared \ Answered(seen)
<1>1. DOMAIN returned = {}
  BY NoBatchIsEmpty DEF IInv, ShapeInv
<1>2. seen.declared \subseteq Call
  BY DEF IInv, TypeOK, Committed
<1> QED BY <1>1, <1>2 DEF fates, Fate

(* A step the host cannot see leaves the ledger as it is.                    *)
LEMMA Unseen ==
  ASSUME seen'.declared = seen.declared, seen'.answers = seen.answers,
         returned' = returned, (pc' = "done") <=> (pc = "done")
  PROVE  UNCHANGED <<fates, pc = "done">>
BY DEF fates, Fate, Answered

(* A step that ends the run hands back what was open.                        *)
LEMMA EndIsEnd ==
  ASSUME IInv, IInv', pc # "done", pc' = "done",
         seen'.declared = seen.declared, seen'.answers = seen.answers
  PROVE  Ledger!End
<1> DEFINE open == seen.declared \ Answered(seen)
<1>1. Ledger!Open = open
  BY OpenCalls DEF Ledger!Open, fates
<1>2. Answered(seen)' = Answered(seen)
  BY DEF Answered
<1>3. DOMAIN returned' = open /\ seen.declared = Answered(seen) \cup open
  BY <1>2 DEF IInv, OpenInv
<1>4. DOMAIN returned = {}
  BY NoBatchIsEmpty DEF IInv, ShapeInv
<1>5. \A c \in Call : Fate(c)' = IF c \in open THEN "returned" ELSE Fate(c)
  BY <1>2, <1>3, <1>4 DEF Fate
<1>6. \A c \in Call : fates[c] = Fate(c)
  BY DEF fates
<1> HIDE DEF open
<1>7. fates' = [c \in Call |-> IF c \in open THEN "returned" ELSE fates[c]]
  BY <1>5, <1>6 DEF fates
<1> QED BY <1>1, <1>7 DEF Ledger!End, Ledger!Move, fates

(* The notification of a model commit declares its batch.                    *)
LEMMA NotifyIsDeclare ==
  ASSUME IInv, NotifyModelCommit
  PROVE  Ledger!Declare
<1>1. /\ pc = "modelCommitted" /\ pc' = "declared" /\ returned' = returned
      /\ seen' = [seen EXCEPT !.declared = @ \cup DOMAIN batch]
  BY DEF NotifyModelCommit
<1>2. /\ seen.declared = Answered(seen) /\ DOMAIN batch \cap seen.declared = {}
      /\ DOMAIN returned = {} /\ DOMAIN batch \subseteq Call
      /\ seen'.declared = seen.declared \cup DOMAIN batch /\ seen'.answers = seen.answers
  BY <1>1, NoBatchIsEmpty, BatchIsMap DEF IInv, ShapeInv, OpenInv, TypeOK, Committed
<1>3. Answered(seen)' = Answered(seen)
  BY <1>2 DEF Answered
<1>4. Ledger!Open = {}
  BY <1>1, <1>2, OpenCalls DEF Ledger!Open, fates
<1>5. \A c \in Call : Fate(c)' = IF c \in DOMAIN batch THEN "open" ELSE Fate(c)
  BY <1>1, <1>2, <1>3 DEF Fate
<1>6. \A c \in DOMAIN batch : Fate(c) = "undeclared"
  BY <1>2 DEF Fate
<1> DEFINE calls == DOMAIN batch
<1>7. calls \in SUBSET {c \in Call : fates[c] = "undeclared"}
  BY <1>2, <1>6 DEF fates
<1>8. \A c \in Call : fates[c] = Fate(c)
  BY DEF fates
<1> HIDE DEF calls
<1>9. fates' = [c \in Call |-> IF c \in calls THEN "open" ELSE fates[c]]
  BY <1>5, <1>8 DEF fates, calls
<1>10. pc # "done" /\ (pc' = "done") = (pc = "done")
  BY <1>1
<1> QED BY <1>4, <1>7, <1>9, <1>10 DEF Ledger!Declare, Ledger!Move, fates

(* The notification of the results answers the whole batch.                  *)
LEMMA NotifyIsAnswer ==
  ASSUME IInv, IInv', NotifyToolCommit
  PROVE  Ledger!Answer
<1>1. /\ pc = "resultsCommitted" /\ pc' = "answered" /\ returned' = returned
      /\ seen' = [seen EXCEPT !.answers = @ \cup {<<c, batch[c]>> : c \in DOMAIN batch}]
  BY DEF NotifyToolCommit
<1>2. /\ seen'.declared = seen.declared /\ DOMAIN returned = {}
      /\ seen.declared = Answered(seen) \cup DOMAIN batch
      /\ DOMAIN batch \cap Answered(seen) = {}
  BY <1>1, NoBatchIsEmpty DEF IInv, ShapeInv, OpenInv, BatchOpen, TypeOK, Committed
<1>3. Answered(seen)' = Answered(seen) \cup DOMAIN batch
  BY <1>1, <1>2 DEF IInv, OpenInv, Idle
<1>4. Ledger!Open = DOMAIN batch
  BY <1>1, <1>2, OpenCalls DEF Ledger!Open, fates
<1>5. \A c \in Call : Fate(c)' = IF c \in DOMAIN batch THEN "answered" ELSE Fate(c)
  BY <1>1, <1>2, <1>3 DEF Fate
<1>6. \A c \in Call : fates[c] = Fate(c)
  BY DEF fates
<1>7. fates' = [c \in Call |-> IF c \in DOMAIN batch THEN "answered" ELSE fates[c]]
  BY <1>5, <1>6 DEF fates
<1>8. pc # "done" /\ (pc' = "done") = (pc = "done")
  BY <1>1
<1> QED BY <1>4, <1>7, <1>8 DEF Ledger!Answer, Ledger!Move, fates

(* Every other step is unseen or ends the run,                               *)
LEMMA OtherSteps ==
  ASSUME [Next]_vars, ~NotifyModelCommit, ~NotifyToolCommit, IInv
  PROVE  /\ seen'.declared = seen.declared /\ seen'.answers = seen.answers
         /\ pc' # "done" => returned' = returned
         /\ pc = "done" => pc' = "done" /\ returned' = returned
<1> USE DEF Finish, CheckThen, control
<1>1. CASE StartRound \/ Bind \/ BindFails \/ CommitToolChange \/ Prepare
  BY <1>1 DEF StartRound, Bind, BindFails, CommitToolChange, Prepare
<1>2. CASE NotifyToolChange
  BY <1>2 DEF NotifyToolChange, IInv, TypeOK, Committed
<1>3. CASE PreparerEdits \/ PreparerDropped \/ PreparerFails \/ PreparerReturns
  BY <1>3 DEF PreparerEdits, PreparerDropped, PreparerFails, PreparerReturns
<1>4. CASE EnterGateway \/ InvokeStopped \/ GatewayFails \/ GatewayAnswers
  BY <1>4 DEF EnterGateway, InvokeStopped, GatewayFails, GatewayAnswers
<1>5. CASE RefuseOutput \/ CommitModel
  BY <1>5 DEF RefuseOutput, CommitModel
<1>6. CASE AfterModelCommit \/ EnterProcessing
  BY <1>6 DEF AfterModelCommit, EnterProcessing
<1>7. CASE ToolStarts \/ ProcessingSucceeds \/ ProcessingFails \/ ProcessingStopped
  BY <1>7 DEF ToolStarts, ProcessingSucceeds, ProcessingFails, ProcessingStopped
<1>8. CASE ReportProcessingFailure \/ CommitTools
  BY <1>8 DEF ReportProcessingFailure, CommitTools
<1>9. CASE EndRound
  BY <1>9 DEF EndRound
<1>10. CASE Cancel \/ Expire \/ UNCHANGED vars
  BY <1>10 DEF Cancel, Expire, vars
<1> QED BY <1>1, <1>2, <1>3, <1>4, <1>5, <1>6, <1>7, <1>8, <1>9, <1>10
        DEF Next, Runtime, Answers, Terminated

(* so that every step of the run is a step of the ledger or none.            *)
LEMMA StepRefines ==
  ASSUME IInv, IInv', [Next]_vars
  PROVE  [Ledger!Next]_<<fates, pc = "done">>
<1>1. CASE NotifyModelCommit
  BY <1>1, NotifyIsDeclare DEF Ledger!Next, fates
<1>2. CASE NotifyToolCommit
  BY <1>2, NotifyIsAnswer DEF Ledger!Next, fates
<1>3. CASE ~NotifyModelCommit /\ ~NotifyToolCommit
  <2>1. CASE pc # "done" /\ pc' = "done"
    BY <2>1, <1>3, OtherSteps, EndIsEnd DEF Ledger!Next, fates
  <2>2. CASE ~(pc # "done" /\ pc' = "done")
    BY <2>2, <1>3, OtherSteps, Unseen
  <2> QED BY <2>1, <2>2
<1> QED BY <1>1, <1>2, <1>3

(* The run implements the ledger: calls are declared a batch at a time, only *)
(* when none is open, answered as a whole, and handed back as a whole when   *)
(* the run ends.                                                             *)
THEOREM RunKeepsLedger == Spec => LedgerKept
<1>1. Init => Ledger!Init
  <2> SUFFICES ASSUME Init PROVE Ledger!Init
    OBVIOUS
  <2>1. seen.declared = {} /\ seen.answers = {} /\ DOMAIN returned = {} /\ pc = "top"
    BY NoBatchIsEmpty DEF Init
  <2>2. \A c \in Call : Fate(c) = "undeclared"
    BY <2>1 DEF Fate, Answered
  <2> QED BY <2>1, <2>2 DEF Ledger!Init
<1>2. IInv /\ IInv' /\ [Next]_vars => [Ledger!Next]_<<[c \in Call |-> Fate(c)], pc = "done">>
  BY StepRefines DEF fates
<1> QED BY <1>1, <1>2, Invariant, PTL DEF Spec, LedgerKept, Ledger!Spec

-----------------------------------------------------------------------------

(* The least number of a set of numbers.                                     *)
LEMMA LeastElement ==
    ASSUME NEW S \in SUBSET Nat, S # {}
    PROVE  \E m \in S : \A k \in S : m <= k
<1> DEFINE R == OpToRel(<, Nat)
<1>1. IsWellFoundedOn(R, Nat)
    BY NatLessThanWellFounded
<1>2. \A x, y \in Nat : <<x, y>> \in R <=> x < y
    BY DEF OpToRel
<1> HIDE DEF R
<1>3. PICK m \in S : \A k \in S : ~(<<k, m>> \in R)
    BY <1>1, WFMin
<1>4. \A k \in S : ~(k < m)
    BY <1>2, <1>3
<1> QED BY <1>4

(* What holds of zero and of each number after one it holds of.              *)
LEMMA Upward ==
    ASSUME NEW n \in Nat, NEW S, 0 \in S, \A k \in 1..n : k - 1 \in S => k \in S
    PROVE  \A k \in 0..n : k \in S
<1> DEFINE Missing == {k \in 0..n : k \notin S}
<1> SUFFICES ASSUME Missing # {} PROVE FALSE
    OBVIOUS
<1>1. Missing \in SUBSET Nat
    OBVIOUS
<1>2. PICK m \in Missing : \A k \in Missing : m <= k
    BY <1>1, LeastElement
<1>3. m \in 1..n /\ m - 1 \in 0..n
    BY <1>2
<1>4. m - 1 \in S
    BY <1>2, <1>3
<1> QED BY <1>2, <1>3, <1>4

(* The greatest of some numbers up to n.                                     *)
LEMMA MaxIn ==
    ASSUME NEW n \in Nat, NEW s \in SUBSET (1..n), s # {}
    PROVE  Max(s) \in s /\ \A y \in s : Max(s) >= y
<1> DEFINE Below == {n - x : x \in s}
<1>1. Below \in SUBSET Nat /\ Below # {}
    <2>1. \A x \in s : n - x \in Nat
        OBVIOUS
    <2>2. PICK x \in s : TRUE
        OBVIOUS
    <2>3. n - x \in Below
        OBVIOUS
    <2> QED BY <2>1, <2>3
<1>2. PICK b \in Below : \A k \in Below : b <= k
    BY <1>1, LeastElement
<1>3. PICK x \in s : b = n - x
    BY <1>2
<1>4. \A y \in s : n - x <= n - y
    BY <1>2, <1>3
<1>5. \A y \in s : x >= y
    BY <1>4
<1> QED BY <1>5, Zenon DEF Max

(* The greatest number of an interval.                                       *)
LEMMA MaxUpTo ==
    ASSUME NEW n \in Nat, NEW k \in 1..n
    PROVE  Max(1..k) = k /\ (1..k) \ {k} = 1..(k - 1)
<1>1. 1..k \in SUBSET (1..n) /\ 1..k # {}
    OBVIOUS
<1>2. Max(1..k) \in 1..k /\ \A y \in 1..k : Max(1..k) >= y
    BY <1>1, MaxIn
<1> QED BY <1>2

(* The function a fold is defined by, if its steps stay in the set T.        *)
IsFold(f, T, base, n, step) ==
    /\ f \in [SUBSET (1..n) -> T]
    /\ \A s \in SUBSET (1..n) :
          f[s] = IF s = {} THEN base ELSE step[Max(s)][f[s \ {Max(s)}]]

(* There is one.                                                             *)
LEMMA FoldExists ==
    ASSUME NEW T, NEW base \in T, NEW n \in Nat, NEW step \in [1..n -> [T -> T]]
    PROVE  \E f : IsFold(f, T, base, n, step)
<1> DEFINE Folds(f, m) == IsFold(f, T, base, m, step)
           S == {m \in 0..n : \E f : Folds(f, m)}
<1>1. 0 \in S
    <2> DEFINE f == [s \in SUBSET (1..0) |-> base]
    <2>1. f \in [SUBSET (1..0) -> T]
        OBVIOUS
    <2>2. \A s \in SUBSET (1..0) : s = {} /\ f[s] = base
        OBVIOUS
    <2> HIDE DEF f
    <2>3. Folds(f, 0)
        BY <2>1, <2>2 DEF IsFold
    <2>4. 0 \in 0..n
        OBVIOUS
    <2> HIDE DEF Folds
    <2> QED BY <2>3, <2>4
<1>2. ASSUME NEW m \in 1..n, m - 1 \in S PROVE m \in S
    <2>1. PICK f : Folds(f, m - 1)
        BY <1>2
    <2> DEFINE h == [s \in SUBSET (1..m) |-> IF m \in s THEN step[m][f[s \ {m}]] ELSE f[s]]
    <2>2. \A s \in SUBSET (1..m) : s \ {m} \in SUBSET (1..(m - 1))
        OBVIOUS
    <2>3. \A s \in SUBSET (1..m) : m \notin s => s \in SUBSET (1..(m - 1))
        OBVIOUS
    <2>4. \A s \in SUBSET (1..m) : h[s] \in T
        BY <2>1, <2>2, <2>3 DEF IsFold
    <2>5. \A s \in SUBSET (1..m) : m \notin s => h[s] = f[s]
        OBVIOUS
    <2>6. h \in [SUBSET (1..m) -> T]
        BY <2>4
    <2>7. ASSUME NEW s \in SUBSET (1..m)
          PROVE  h[s] = IF s = {} THEN base ELSE step[Max(s)][h[s \ {Max(s)}]]
        <3>1. CASE m \in s
            <4>1. Max(s) = m
                <5>1. m \in Nat /\ s # {}
                    BY <3>1
                <5>2. Max(s) \in s /\ \A y \in s : Max(s) >= y
                    BY <5>1, MaxIn
                <5>3. Max(s) \in 1..m /\ Max(s) >= m
                    BY <3>1, <5>2
                <5> QED BY <5>3
            <4>2. h[s \ {m}] = f[s \ {m}]
                BY <2>5
            <4> QED BY <3>1, <4>1, <4>2
        <3>2. CASE m \notin s
            <4>1. s \in SUBSET (1..(m - 1)) /\ h[s] = f[s]
                BY <2>3, <2>5, <3>2
            <4>2. h[s \ {Max(s)}] = f[s \ {Max(s)}]
                BY <2>5, <3>2
            <4>3. f[s] = IF s = {} THEN base ELSE step[Max(s)][f[s \ {Max(s)}]]
                BY <2>1, <4>1 DEF IsFold
            <4> QED BY <4>1, <4>2, <4>3
        <3> QED BY <3>1, <3>2
    <2> HIDE DEF h
    <2>8. Folds(h, m)
        BY <2>6, <2>7 DEF IsFold
    <2>9. m \in 0..n
        OBVIOUS
    <2> HIDE DEF Folds
    <2> QED BY <2>8, <2>9
<1>3. \E f : Folds(f, n)
    <2> HIDE DEF S
    <2>1. \A k \in 0..n : k \in S
        BY <1>1, <1>2, Upward
    <2>2. n \in S
        BY <2>1
    <2> QED BY <2>2 DEF S
<1> QED BY <1>3

-----------------------------------------------------------------------------
(* What an edit retains.                                                     *)

Replacement == [start : Nat, end : Nat, with : Seq(Block)]

EditType ==
    /\ blocks \in Seq(Block) /\ appended \in Seq(Block)
    /\ replacements \in Seq(Replacement)

RetainedChain(g) ==
    /\ g[0] = {}
    /\ \A k \in 1..Len(replacements) :
          g[k] = {j \in g[k - 1] : ~RangesConflict(replacements[k], replacements[j])} \cup {k}

(* Retaining, one replacement at a time.                                     *)
LEMMA RetainedFold ==
    ASSUME replacements \in Seq(Replacement)
    PROVE  \E g : RetainedChain(g) /\ Retained = g[Len(replacements)]
<1> DEFINE n == Len(replacements)
           T == SUBSET (1..n)
           seq == [i \in DOMAIN replacements |-> i]
           Keep(kept, i) ==
               {j \in kept : ~RangesConflict(replacements[i], replacements[j])} \cup {i}
           IsIter(f) == f = [s \in SUBSET DOMAIN seq |->
                                IF s = {} THEN {} ELSE Keep(f[s \ {Max(s)}], seq[Max(s)])]
           iter == CHOOSE f : IsIter(f)
           step == [i \in 1..n |-> [t \in T |-> Keep(t, i)]]
           g    == [k \in 0..n |-> iter[1..k]]
<1>1. n \in Nat /\ DOMAIN seq = 1..n /\ \A i \in 1..n : seq[i] = i
    OBVIOUS
<1>2. Retained = iter[DOMAIN seq]
    BY Zenon DEF Retained, FoldLeftDomain, FoldLeft, MapThenFoldSet
<1> HIDE DEF n, seq
<1>3. step \in [1..n -> [T -> T]]
    <2>1. \A t \in T, i \in 1..n : Keep(t, i) \in T
        OBVIOUS
    <2> HIDE DEF Keep
    <2> QED BY <2>1
<1> HIDE DEF Keep
<1>4. \E f : IsIter(f)
    <2>0. PICK f : IsFold(f, T, {}, n, step)
        <3>1. n \in Nat /\ {} \in T
            BY <1>1
        <3> HIDE DEF step, T
        <3> QED BY <1>3, <3>1, FoldExists
    <2>1. /\ f \in [SUBSET (1..n) -> T]
          /\ \A s \in SUBSET (1..n) :
                f[s] = IF s = {} THEN {} ELSE step[Max(s)][f[s \ {Max(s)}]]
        <3> HIDE DEF step
        <3> QED BY <2>0 DEF IsFold
    <2>2. ASSUME NEW s \in SUBSET (1..n)
          PROVE  f[s] = IF s = {} THEN {} ELSE Keep(f[s \ {Max(s)}], seq[Max(s)])
        <3>1. CASE s = {}
            BY <2>1, <3>1
        <3>2. CASE s # {}
            <4>1. Max(s) \in 1..n
                BY <1>1, <3>2, MaxIn
            <4>2. f[s \ {Max(s)}] \in T
                BY <2>1
            <4>3. f[s] = step[Max(s)][f[s \ {Max(s)}]]
                BY <2>1, <3>2
            <4>4. seq[Max(s)] = Max(s)
                BY <1>1, <4>1
            <4> QED BY <3>2, <4>1, <4>2, <4>3, <4>4
        <3> QED BY <3>1, <3>2
    <2>3. f = [s \in SUBSET (1..n) |-> f[s]]
        BY <2>1
    <2>4. f = [s \in SUBSET (1..n) |->
                  IF s = {} THEN {} ELSE Keep(f[s \ {Max(s)}], seq[Max(s)])]
        BY <2>2, <2>3
    <2> QED BY <1>1, <2>4
<1>5. IsIter(iter)
    BY <1>4, Zenon
<1> HIDE DEF iter
<1>6. \A s \in SUBSET (1..n) :
          iter[s] = IF s = {} THEN {} ELSE Keep(iter[s \ {Max(s)}], seq[Max(s)])
    BY <1>1, <1>5
<1>7. g[0] = {}
    <2>1. 1..0 = {} /\ 0 \in 0..n
        BY <1>1
    <2>2. iter[{}] = {}
        <3>1. {} \in SUBSET (1..n)
            OBVIOUS
        <3> HIDE DEF g
        <3> QED BY <1>6, <3>1
    <2> QED BY <2>1, <2>2
<1>8. ASSUME NEW k \in 1..n PROVE g[k] = Keep(g[k - 1], k)
    <2>1. Max(1..k) = k /\ (1..k) \ {k} = 1..(k - 1) /\ seq[k] = k
        BY <1>1, MaxUpTo
    <2>2. g[k] = iter[1..k] /\ g[k - 1] = iter[1..(k - 1)]
        BY <1>1
    <2>3. 1..k \in SUBSET (1..n) /\ 1..k # {}
        <3>1. k \in 1..k /\ \A j \in 1..k : j \in 1..n
            BY <1>1
        <3> QED BY <3>1
    <2> HIDE DEF g
    <2>4. iter[1..k] = Keep(iter[(1..k) \ {Max(1..k)}], seq[Max(1..k)])
        BY <1>6, <2>3
    <2>5. iter[1..k] = Keep(iter[1..(k - 1)], k)
        BY <2>1, <2>4
    <2> QED BY <2>2, <2>5
<1>9. g[n] = iter[1..n]
    BY <1>1
<1> HIDE DEF g
<1>10. \A k \in 1..n :
           g[k] = {j \in g[k - 1] : ~RangesConflict(replacements[k], replacements[j])} \cup {k}
    BY <1>8 DEF Keep
<1> QED BY <1>1, <1>2, <1>7, <1>9, <1>10 DEF RetainedChain, n

(* A range conflicts with another if they claim a position in common.        *)
LEMMA ConflictIsCommonClaim ==
    ASSUME NEW l \in Replacement, NEW r \in Replacement,
           l.start <= l.end, r.start <= r.end
    PROVE  RangesConflict(l, r) <=> Claims(l) \cap Claims(r) # {}
<1>1. /\ l.start \in Nat /\ l.end \in Nat /\ r.start \in Nat /\ r.end \in Nat
    BY DEF Replacement
<1>2. RangesConflict(l, r) <=>
          IF RangeIsEmpty(l)
          THEN IF RangeIsEmpty(r) THEN l.start = r.start
                                  ELSE r.start <= l.start /\ l.start < r.end
          ELSE IF RangeIsEmpty(r) THEN l.start <= r.start /\ r.start < l.end
                                  ELSE l.start < r.end /\ r.start < l.end
    BY Zenon DEF RangesConflict
<1>3. RangeIsEmpty(l) <=> l.start = l.end
    BY <1>1 DEF RangeIsEmpty
<1>4. RangeIsEmpty(r) <=> r.start = r.end
    BY <1>1 DEF RangeIsEmpty
<1>5. \A p : p \in Claims(l) <=> IF l.start = l.end THEN p = l.start
                                 ELSE p \in Int /\ l.start <= p /\ p < l.end
    BY <1>1 DEF Claims
<1>6. \A p : p \in Claims(r) <=> IF r.start = r.end THEN p = r.start
                                 ELSE p \in Int /\ r.start <= p /\ p < r.end
    BY <1>1 DEF Claims
<1>7. ASSUME RangesConflict(l, r) PROVE Claims(l) \cap Claims(r) # {}
    <2>1. l.start \in Claims(l) \cap Claims(r) \/ r.start \in Claims(l) \cap Claims(r)
        BY <1>1, <1>2, <1>3, <1>4, <1>5, <1>6, <1>7
    <2> QED BY <2>1
<1>8. ASSUME NEW p \in Claims(l) \cap Claims(r) PROVE RangesConflict(l, r)
    <2>1. p \in Claims(l) /\ p \in Claims(r)
        OBVIOUS
    <2> QED BY <1>1, <1>2, <1>3, <1>4, <1>5, <1>6, <2>1
<1> QED BY <1>7, <1>8

(* What is retained is what stands.                                          *)
LEMMA RetainedStands ==
    ASSUME EditType, AllRangesExist
    PROVE  Retained = Standing
<1> DEFINE n == Len(replacements)
           Clear(i, k) == \A j \in i + 1..k : ~RangesConflict(replacements[j], replacements[i])
<1>1. PICK g : RetainedChain(g) /\ Retained = g[n]
    BY RetainedFold DEF EditType
<1>2. n \in Nat /\ \A i \in 1..n : replacements[i] \in Replacement
    BY DEF EditType
<1> DEFINE S == {k \in 0..n : g[k] = {i \in 1..k : Clear(i, k)}}
<1>3. 0 \in S
    <2>1. g[0] = {} /\ 1..0 = {} /\ 0 \in 0..n
        BY <1>1, <1>2 DEF RetainedChain
    <2> QED BY <2>1
<1>4. ASSUME NEW k \in 1..n, k - 1 \in S PROVE k \in S
    <2>1. g[k - 1] = {i \in 1..(k - 1) : Clear(i, k - 1)}
        BY <1>4
    <2>2. g[k] = {j \in g[k - 1] : ~RangesConflict(replacements[k], replacements[j])} \cup {k}
        BY <1>1 DEF RetainedChain
    <2>3. \A i \in 1..(k - 1) :
              Clear(i, k) <=> Clear(i, k - 1) /\ ~RangesConflict(replacements[k], replacements[i])
        <3>1. \A i \in 1..(k - 1) : i + 1..k = (i + 1..(k - 1)) \cup {k}
            BY <1>2
        <3> QED BY <3>1
    <2>4. Clear(k, k)
        <3>1. k + 1..k = {}
            BY <1>2
        <3> QED BY <3>1
    <2>5. 1..k = (1..(k - 1)) \cup {k} /\ k \in 0..n /\ k \notin 1..(k - 1)
        BY <1>2
    <2> HIDE DEF Clear
    <2>6. g[k] = {i \in 1..k : Clear(i, k)}
        BY <2>1, <2>2, <2>3, <2>4, <2>5
    <2> QED BY <2>5, <2>6
<1>5. n \in S
    <2> HIDE DEF S
    <2>1. \A k \in 0..n : k \in S
        BY <1>2, <1>3, <1>4, Upward
    <2>2. n \in 0..n
        BY <1>2
    <2> QED BY <2>1, <2>2
<1>6. Retained = {i \in 1..n : Clear(i, n)}
    BY <1>1, <1>5
<1>7. \A i \in 1..n : Clear(i, n) <=> Stands(i)
    <2> SUFFICES ASSUME NEW i \in 1..n PROVE Clear(i, n) <=> Stands(i)
        OBVIOUS
    <2>1. \A j \in i + 1..n : j \in 1..n
        BY <1>2
    <2>2. \A j \in i + 1..n :
              RangesConflict(replacements[j], replacements[i])
                  <=> Claims(replacements[i]) \cap Claims(replacements[j]) # {}
        <3> SUFFICES ASSUME NEW j \in i + 1..n
                     PROVE  RangesConflict(replacements[j], replacements[i])
                              <=> Claims(replacements[i]) \cap Claims(replacements[j]) # {}
            OBVIOUS
        <3>1. /\ replacements[j] \in Replacement /\ replacements[i] \in Replacement
              /\ replacements[j].start <= replacements[j].end
              /\ replacements[i].start <= replacements[i].end
            BY <1>2, <2>1 DEF AllRangesExist
        <3>2. Claims(replacements[j]) \cap Claims(replacements[i])
                 = Claims(replacements[i]) \cap Claims(replacements[j])
            OBVIOUS
        <3> QED BY <3>1, <3>2, ConflictIsCommonClaim
    <2> QED BY <2>2 DEF Stands
<1> HIDE DEF Clear
<1> QED BY <1>6, <1>7 DEF Standing

(* Finitely many things can be put in the order of a natural number each     *)
(* has.                                                                      *)
LEMMA SortExists ==
    ASSUME NEW n \in Nat, NEW key \in [1..n -> Nat], NEW high \in Nat,
           \A i \in 1..n : key[i] <= high,
           NEW U \in SUBSET (1..n)
    PROVE  \E s \in Bijection(1..Cardinality(U), U) :
               \A k, l \in 1..Cardinality(U) : k < l => key[s[k]] <= key[s[l]]
<1> DEFINE Sorts(s, c, V) ==
               /\ s \in [1..c -> V]
               /\ \A k, l \in 1..c : s[k] = s[l] => k = l
               /\ \A v \in V : \E k \in 1..c : s[k] = v
               /\ \A k, l \in 1..c : k < l => key[s[k]] <= key[s[l]]
           Sorted(V) == \E s : Sorts(s, Cardinality(V), V)
           Done == {c \in 0..n : \A V \in SUBSET (1..n) : Cardinality(V) = c => Sorted(V)}
<1>1. \A V \in SUBSET (1..n) : IsFiniteSet(V) /\ Cardinality(V) \in 0..n
    <2>1. IsFiniteSet(1..n) /\ Cardinality(1..n) = n
        BY FS_Interval
    <2> SUFFICES ASSUME NEW V \in SUBSET (1..n)
                 PROVE  IsFiniteSet(V) /\ Cardinality(V) \in 0..n
        OBVIOUS
    <2>2. IsFiniteSet(V) /\ Cardinality(V) <= Cardinality(1..n)
        BY <2>1, FS_Subset, Zenon
    <2>3. Cardinality(V) \in Nat
        BY <2>2, FS_CardinalityType
    <2> QED BY <2>1, <2>2, <2>3
<1>2. 0 \in Done
    <2>1. ASSUME NEW V \in SUBSET (1..n), Cardinality(V) = 0 PROVE Sorted(V)
        <3>1. V = {}
            BY <1>1, <2>1, FS_EmptySet
        <3> DEFINE s == [k \in 1..0 |-> k]
        <3>2. 1..0 = {}
            OBVIOUS
        <3>3. s \in [1..0 -> V]
            BY <3>2
        <3>4. Sorts(s, 0, V)
            BY <3>1, <3>2, <3>3
        <3> HIDE DEF Sorts, s
        <3> QED BY <2>1, <3>4
    <2>2. 0 \in 0..n
        OBVIOUS
    <2> HIDE DEF Sorted
    <2> QED BY <2>1, <2>2
<1>3. ASSUME NEW c \in 1..n, c - 1 \in Done,
             NEW V \in SUBSET (1..n), Cardinality(V) = c
      PROVE  Sorted(V)
    <2>1. V # {}
        <3>1. Cardinality(V) = 0 <=> V = {}
            BY <1>1, FS_EmptySet, Zenon
        <3>2. Cardinality(V) # 0
            BY <1>3
        <3> QED BY <3>1, <3>2, Zenon
    <2>2. PICK v \in V : \A w \in V : key[w] <= key[v]
        <3> DEFINE Short == {high - key[w] : w \in V}
        <3>1. \A w \in V : high - key[w] \in Nat
            OBVIOUS
        <3>2. Short \in SUBSET Nat /\ Short # {}
            BY <2>1, <3>1
        <3>3. PICK b \in Short : \A x \in Short : b <= x
            <4> HIDE DEF Short
            <4> QED BY <3>2, LeastElement
        <3>4. PICK v \in V : b = high - key[v]
            BY <3>3
        <3>5. ASSUME NEW w \in V PROVE key[w] <= key[v]
            <4>1. high - key[v] <= high - key[w]
                BY <3>3, <3>4
            <4>2. key[w] \in Nat /\ key[v] \in Nat
                OBVIOUS
            <4> QED BY <4>1, <4>2
        <3> QED BY <3>5
    <2>3. V \ {v} \in SUBSET (1..n) /\ Cardinality(V \ {v}) = c - 1
        BY <1>1, <1>3, FS_RemoveElement
    <2>4. PICK s : Sorts(s, c - 1, V \ {v})
        <3> HIDE DEF Sorts
        <3> QED BY <1>3, <2>3
    <2> DEFINE t == [k \in 1..c |-> IF k = c THEN v ELSE s[k]]
    <2>5. \A k \in 1..(c - 1) : t[k] = s[k] /\ t[k] \in V /\ t[k] # v
        BY <2>4
    <2>6. t[c] = v /\ \A k \in 1..c : k = c \/ k \in 1..(c - 1)
        OBVIOUS
    <2>7. t \in [1..c -> V]
        BY <2>5, <2>6
    <2> HIDE DEF t
    <2>8. \A k, l \in 1..c : t[k] = t[l] => k = l
        <3>1. \A k, l \in 1..(c - 1) : t[k] = t[l] => k = l
            BY <2>4, <2>5
        <3> QED BY <2>5, <2>6, <3>1
    <2>9. \A w \in V : \E k \in 1..c : t[k] = w
        <3> SUFFICES ASSUME NEW w \in V PROVE \E k \in 1..c : t[k] = w
            OBVIOUS
        <3>1. CASE w = v
            BY <2>6, <3>1
        <3>2. CASE w # v
            <4>1. PICK k \in 1..(c - 1) : s[k] = w
                BY <2>4, <3>2
            <4> QED BY <2>5, <4>1
        <3> QED BY <3>1, <3>2
    <2>10. \A k, l \in 1..c : k < l => key[t[k]] <= key[t[l]]
        <3> SUFFICES ASSUME NEW k \in 1..c, NEW l \in 1..c, k < l
                     PROVE  key[t[k]] <= key[t[l]]
            OBVIOUS
        <3>1. k \in 1..(c - 1)
            OBVIOUS
        <3>2. CASE l = c
            BY <2>2, <2>5, <2>6, <3>1, <3>2
        <3>3. CASE l # c
            <4>1. l \in 1..(c - 1)
                BY <3>3
            <4>2. key[s[k]] <= key[s[l]]
                BY <2>4, <3>1, <4>1
            <4> QED BY <2>5, <3>1, <4>1, <4>2
        <3> QED BY <3>2, <3>3
    <2>11. Sorts(t, c, V)
        BY <2>7, <2>8, <2>9, <2>10
    <2> HIDE DEF Sorts
    <2> QED BY <1>3, <2>11
<1>4. Cardinality(U) \in Done
    <2>1. \A c \in 1..n : c - 1 \in Done => c \in Done
        <3> HIDE DEF Sorted
        <3> QED BY <1>3
    <2> HIDE DEF Done
    <2>2. \A c \in 0..n : c \in Done
        BY <1>2, <2>1, Upward
    <2> QED BY <1>1, <2>2
<1>5. PICK s : Sorts(s, Cardinality(U), U)
    <2>1. Sorted(U)
        <3> HIDE DEF Sorted
        <3> QED BY <1>4
    <2> HIDE DEF Sorts
    <2> QED BY <2>1
<1>6. s \in Bijection(1..Cardinality(U), U)
    BY <1>5 DEF Bijection, Injection, Surjection, IsInjective
<1> QED BY <1>5, <1>6

(* The standing replacements, each once, in the order of their starts.       *)
EffectiveIs(s) ==
    /\ s \in Seq(1..Len(replacements))
    /\ \A k \in 1..Len(s) : s[k] \in Standing
    /\ \A i \in Standing : \E k \in 1..Len(s) : s[k] = i
    /\ \A k, l \in 1..Len(s) : k < l => s[k] # s[l]
    /\ \A k, l \in 1..Len(s) : k < l => replacements[s[k]].start <= replacements[s[l]].start

(* The order the walk takes them in is one.                                  *)
LEMMA EffectiveSorted ==
    ASSUME EditType, AllRangesExist
    PROVE  EffectiveIs(Effective)
<1> DEFINE n == Len(replacements)
           c == Cardinality(Retained)
           InOrder(s) == \A k, l \in DOMAIN s :
                              k < l => replacements[s[k]].start <= replacements[s[l]].start
           key == [i \in 1..n |-> replacements[i].start]
<1>1. /\ n \in Nat /\ Retained \in SUBSET (1..n)
      /\ \A i \in 1..n : replacements[i].start \in 0..Len(blocks)
    <2>1. Retained = Standing /\ Standing \in SUBSET (1..n)
        BY RetainedStands DEF Standing
    <2>2. n \in Nat /\ Len(blocks) \in Nat
        BY DEF EditType
    <2>3. ASSUME NEW i \in 1..n PROVE replacements[i].start \in 0..Len(blocks)
        <3>1. replacements[i] \in Replacement
            BY <2>3 DEF EditType
        <3>2. replacements[i].start <= replacements[i].end /\ replacements[i].end <= Len(blocks)
            BY <2>3 DEF AllRangesExist
        <3>3. replacements[i].start \in Nat /\ replacements[i].end \in Nat
            BY <3>1 DEF Replacement
        <3> QED BY <2>2, <3>2, <3>3
    <2> QED BY <2>1, <2>2, <2>3
<1>2. Effective = CHOOSE s \in Bijection(1..c, Retained) : InOrder(s)
    BY Zenon DEF Effective
<1>3. \E s \in Bijection(1..c, Retained) : InOrder(s)
    <2>1. key \in [1..n -> Nat] /\ Len(blocks) \in Nat /\ \A i \in 1..n : key[i] <= Len(blocks)
        BY <1>1 DEF EditType
    <2>2. PICK s \in Bijection(1..c, Retained) :
              \A k, l \in 1..c : k < l => key[s[k]] <= key[s[l]]
        <3> HIDE DEF key
        <3> QED BY <1>1, <2>1, SortExists
    <2>3. DOMAIN s = 1..c /\ \A k \in 1..c : s[k] \in 1..n
        BY <1>1 DEF Bijection, Injection
    <2>4. InOrder(s)
        BY <2>2, <2>3
    <2> QED BY <2>4
<1>4. Effective \in Bijection(1..c, Retained) /\ InOrder(Effective)
    <2> HIDE DEF c, InOrder
    <2> QED BY <1>2, <1>3, Zenon
<1>5. c \in Nat
    <2>1. IsFiniteSet(1..n)
        BY <1>1, FS_Interval
    <2> QED BY <1>1, <2>1, FS_Subset, FS_CardinalityType
<1>6. /\ Effective \in [1..c -> Retained]
      /\ \A k, l \in 1..c : Effective[k] = Effective[l] => k = l
      /\ \A i \in Retained : \E k \in 1..c : Effective[k] = i
    BY <1>4 DEF Bijection, Injection, Surjection, IsInjective
<1>7. Retained = Standing
    BY RetainedStands
<1> HIDE DEF c, key
<1>8. Effective \in [1..c -> 1..n]
    BY <1>1, <1>6
<1>9. Effective \in Seq(1..n) /\ Len(Effective) = c
    BY <1>5, <1>8
<1>10. \A k, l \in 1..c : k < l => Effective[k] # Effective[l]
    BY <1>5, <1>6
<1>11. \A k, l \in 1..c : k < l => replacements[Effective[k]].start <= replacements[Effective[l]].start
    BY <1>4, <1>8
<1> QED BY <1>6, <1>7, <1>9, <1>10, <1>11 DEF EffectiveIs

WalkStep(at, i) ==
    [output |-> at.output \o SubSeq(blocks, at.source + 1, replacements[i].start)
                          \o replacements[i].with,
     source |-> replacements[i].end]

WalkChain(h, s) ==
    /\ h[0] = [output |-> <<>>, source |-> 0]
    /\ \A k \in 1..Len(s) : h[k] = WalkStep(h[k - 1], s[k])

Place == [output : Seq(Block), source : Nat]

(* The walk stays among blocks.                                              *)
LEMMA WalkStepType ==
    ASSUME EditType, AllRangesExist, NEW at \in Place, NEW i \in 1..Len(replacements)
    PROVE  WalkStep(at, i) \in Place
<1> DEFINE r == replacements[i]
           part == SubSeq(blocks, at.source + 1, r.start)
<1>1. r \in Replacement /\ r.start <= r.end /\ r.end <= Len(blocks)
    BY DEF EditType, AllRangesExist
<1>2. /\ r.start \in Nat /\ r.end \in Nat /\ r.with \in Seq(Block)
      /\ at.source \in Nat /\ at.output \in Seq(Block)
    BY <1>1 DEF Replacement, Place
<1>3. blocks \in Seq(Block)
    BY DEF EditType
<1> HIDE DEF r
<1>4. part \in Seq(Block)
    <2>1. \A j \in at.source + 1..r.start : j \in 1..Len(blocks)
        BY <1>1, <1>2, <1>3
    <2>2. \A j \in at.source + 1..r.start : blocks[j] \in Block
        BY <1>3, <2>1
    <2>3. at.source + 1 \in Int /\ r.start \in Int
        BY <1>2
    <2> QED BY <2>2, <2>3, SubSeqProperties
<1> HIDE DEF part
<1>5. at.output \o part \in Seq(Block)
    BY <1>2, <1>4
<1>6. at.output \o part \o r.with \in Seq(Block)
    BY <1>2, <1>5
<1> QED BY <1>2, <1>6 DEF WalkStep, Place, part, r

(* Walking, one range at a time.                                             *)
LEMMA WalkFold ==
    ASSUME EditType, AllRangesExist, NEW order \in Seq(1..Len(replacements)), order = Effective
    PROVE  \E h : /\ WalkChain(h, order)
                  /\ \A k \in 0..Len(order) : h[k] \in Place
                  /\ Walk = h[Len(order)].output
                              \o SubSeq(blocks, h[Len(order)].source + 1, Len(blocks)) \o appended
<1> DEFINE n == Len(order)
           base == [output |-> <<>>, source |-> 0]
           IsIter(f) == f = [s \in SUBSET DOMAIN order |->
                                IF s = {} THEN base ELSE WalkStep(f[s \ {Max(s)}], order[Max(s)])]
           iter == CHOOSE f : IsIter(f)
           step == [k \in 1..n |-> [at \in Place |-> WalkStep(at, order[k])]]
           h    == [k \in 0..n |-> iter[1..k]]
<1>1. n \in Nat /\ DOMAIN order = 1..n /\ \A k \in 1..n : order[k] \in 1..Len(replacements)
    OBVIOUS
<1>2. Walk = LET last == iter[DOMAIN order]
             IN  last.output \o SubSeq(blocks, last.source + 1, Len(blocks)) \o appended
    BY Zenon DEF Walk, WalkStep, FoldLeft, MapThenFoldSet
<1> HIDE DEF n
<1>b. base \in Place
    <2>1. <<>> \in Seq(Block)
        OBVIOUS
    <2> QED BY <2>1 DEF Place
<1> HIDE DEF base
<1>3. step \in [1..n -> [Place -> Place]]
    BY <1>1, WalkStepType
<1>4. \E f : IsIter(f) /\ f \in [SUBSET (1..n) -> Place]
    <2>0. PICK f : IsFold(f, Place, base, n, step)
        <3>1. n \in Nat
            BY <1>1
        <3> HIDE DEF step
        <3> QED BY <1>3, <1>b, <3>1, FoldExists
    <2>1. /\ f \in [SUBSET (1..n) -> Place]
          /\ \A s \in SUBSET (1..n) :
                f[s] = IF s = {} THEN base ELSE step[Max(s)][f[s \ {Max(s)}]]
        <3> HIDE DEF step
        <3> QED BY <2>0 DEF IsFold
    <2>2. ASSUME NEW s \in SUBSET (1..n)
          PROVE  f[s] = IF s = {} THEN base ELSE WalkStep(f[s \ {Max(s)}], order[Max(s)])
        <3>1. CASE s = {}
            BY <2>1, <3>1
        <3>2. CASE s # {}
            <4>1. Max(s) \in 1..n
                BY <1>1, <3>2, MaxIn
            <4>2. f[s \ {Max(s)}] \in Place
                BY <2>1
            <4>3. f[s] = step[Max(s)][f[s \ {Max(s)}]]
                BY <2>1, <3>2
            <4> QED BY <3>2, <4>1, <4>2, <4>3
        <3> QED BY <3>1, <3>2
    <2>3. f = [s \in SUBSET (1..n) |-> f[s]]
        BY <2>1
    <2>4. f = [s \in SUBSET (1..n) |->
                  IF s = {} THEN base ELSE WalkStep(f[s \ {Max(s)}], order[Max(s)])]
        BY <2>2, <2>3
    <2> QED BY <1>1, <2>1, <2>4
<1>5. IsIter(iter)
    BY <1>4, Zenon
<1> HIDE DEF iter
<1>6. \A s \in SUBSET (1..n) :
          iter[s] = IF s = {} THEN base ELSE WalkStep(iter[s \ {Max(s)}], order[Max(s)])
    BY <1>1, <1>5
<1>7. h[0] = base
    <2>1. 1..0 = {} /\ 0 \in 0..n
        BY <1>1
    <2>2. iter[{}] = base
        <3>1. {} \in SUBSET (1..n)
            OBVIOUS
        <3> HIDE DEF h
        <3> QED BY <1>6, <3>1
    <2> QED BY <2>1, <2>2
<1>8. ASSUME NEW k \in 1..n PROVE h[k] = WalkStep(h[k - 1], order[k])
    <2>1. Max(1..k) = k /\ (1..k) \ {k} = 1..(k - 1)
        BY <1>1, MaxUpTo
    <2>2. h[k] = iter[1..k] /\ h[k - 1] = iter[1..(k - 1)]
        BY <1>1
    <2>3. 1..k \in SUBSET (1..n) /\ 1..k # {}
        <3>1. k \in 1..k /\ \A j \in 1..k : j \in 1..n
            BY <1>1
        <3> QED BY <3>1
    <2> HIDE DEF h
    <2>4. iter[1..k] = WalkStep(iter[(1..k) \ {Max(1..k)}], order[Max(1..k)])
        BY <1>6, <2>3
    <2>5. iter[1..k] = WalkStep(iter[1..(k - 1)], order[k])
        BY <2>1, <2>4
    <2> QED BY <2>2, <2>5
<1>9. h[n] = iter[DOMAIN order]
    BY <1>1
<1> HIDE DEF h
<1>10. \A k \in 0..n : h[k] \in Place
    <2> DEFINE S == {k \in 0..n : h[k] \in Place}
    <2>1. 0 \in S
        BY <1>1, <1>7, <1>b
    <2>2. ASSUME NEW k \in 1..n, k - 1 \in S PROVE k \in S
        <3>1. WalkStep(h[k - 1], order[k]) \in Place
            BY <1>1, <2>2, WalkStepType
        <3> QED BY <1>1, <1>8, <3>1
    <2>3. \A k \in 0..n : k \in S
        <3> HIDE DEF S
        <3> QED BY <1>1, <2>1, <2>2, Upward
    <2> QED BY <2>3
<1>11. WalkChain(h, order)
    BY <1>7, <1>8 DEF WalkChain, base, n
<1> QED BY <1>2, <1>9, <1>10, <1>11 DEF n

-----------------------------------------------------------------------------
(* What an edit means, position by position.                                 *)

FlatChain(m, pieces) ==
    /\ m[0] = <<>>
    /\ \A k \in 1..Len(pieces) : m[k] = m[k - 1] \o pieces[k]
    /\ \A k \in 0..Len(pieces) : m[k] \in Seq(Block)

(* Flattening, one piece at a time.                                          *)
LEMMA FlattenIsChain ==
    ASSUME NEW pieces \in Seq(Seq(Block)), Len(pieces) # 0
    PROVE  \E m : FlatChain(m, pieces) /\ FlattenSeq(pieces) = m[Len(pieces)]
<1> DEFINE n == Len(pieces)
           T == Seq(Block)
           IsFlat(f) == f = [i \in 1..n |-> IF i = 1 THEN pieces[i] ELSE f[i - 1] \o pieces[i]]
           flat == CHOOSE f : IsFlat(f)
           step == [i \in 1..n |-> [t \in T |-> t \o pieces[i]]]
           m    == [k \in 0..n |-> IF k = 0 THEN <<>> ELSE flat[k]]
<1>1. n \in Nat /\ n # 0 /\ \A i \in 1..n : pieces[i] \in T
    OBVIOUS
<1>2. FlattenSeq(pieces) = flat[n]
    BY Zenon DEF FlattenSeq
<1> HIDE DEF n
<1>e. <<>> \in T
    OBVIOUS
<1>3. step \in [1..n -> [T -> T]]
    BY <1>1
<1>4. \E f : IsFlat(f)
    <2>0. PICK f : IsFold(f, T, <<>>, n, step)
        <3>1. n \in Nat
            BY <1>1
        <3> HIDE DEF step, T
        <3> QED BY <1>3, <1>e, <3>1, FoldExists
    <2>1. /\ f \in [SUBSET (1..n) -> T]
          /\ \A s \in SUBSET (1..n) :
                f[s] = IF s = {} THEN <<>> ELSE step[Max(s)][f[s \ {Max(s)}]]
        <3> HIDE DEF step
        <3> QED BY <2>0 DEF IsFold
    <2> DEFINE e == [i \in 1..n |-> f[1..i]]
    <2>2. ASSUME NEW i \in 1..n
          PROVE  f[1..i] = IF i = 1 THEN pieces[i] ELSE f[1..(i - 1)] \o pieces[i]
        <3>1. Max(1..i) = i /\ (1..i) \ {i} = 1..(i - 1)
            BY <1>1, MaxUpTo
        <3>2. 1..i \in SUBSET (1..n) /\ 1..i # {} /\ 1..(i - 1) \in SUBSET (1..n)
            <4>1. i \in 1..i /\ \A j \in 1..i : j \in 1..n
                BY <1>1
            <4>2. \A j \in 1..(i - 1) : j \in 1..n
                BY <1>1
            <4> QED BY <4>1, <4>2
        <3>3. f[1..i] = step[i][f[1..(i - 1)]]
            <4>1. f[1..i] = step[Max(1..i)][f[(1..i) \ {Max(1..i)}]]
                <5> HIDE DEF step
                <5> QED BY <2>1, <3>2
            <4> HIDE DEF step
            <4> QED BY <3>1, <4>1
        <3>4. f[1..(i - 1)] \in T
            BY <2>1, <3>2
        <3>5. f[1..i] = f[1..(i - 1)] \o pieces[i]
            BY <3>3, <3>4
        <3>6. CASE i = 1
            <4>1. 1..(i - 1) = {} /\ {} \in SUBSET (1..n)
                BY <3>6
            <4>2. f[{}] = <<>>
                <5> HIDE DEF step
                <5> QED BY <2>1, <4>1
            <4>3. f[1..i] = <<>> \o pieces[i]
                BY <3>5, <4>1, <4>2
            <4>4. <<>> \o pieces[i] = pieces[i]
                BY <1>1, ConcatEmptySeq
            <4> QED BY <3>6, <4>3, <4>4
        <3>7. CASE i # 1
            BY <3>5, <3>7
        <3> QED BY <3>6, <3>7
    <2>3. \A i \in 1..n : e[i] = f[1..i]
        OBVIOUS
    <2>4. \A i \in 1..n : i # 1 => i - 1 \in 1..n
        BY <1>1
    <2>5. \A i \in 1..n : e[i] = IF i = 1 THEN pieces[i] ELSE e[i - 1] \o pieces[i]
        <3> HIDE DEF e
        <3> QED BY <2>2, <2>3, <2>4
    <2>6. e = [i \in 1..n |-> e[i]]
        OBVIOUS
    <2>7. IsFlat(e)
        <3> HIDE DEF e
        <3> QED BY <2>5, <2>6
    <2> QED BY <2>7
<1>5. IsFlat(flat)
    BY <1>4, Zenon
<1> HIDE DEF flat
<1>6. \A i \in 1..n : flat[i] = IF i = 1 THEN pieces[i] ELSE flat[i - 1] \o pieces[i]
    BY <1>5
<1>7. m[0] = <<>> /\ m[n] = flat[n]
    BY <1>1
<1>8. ASSUME NEW k \in 1..n PROVE m[k] = m[k - 1] \o pieces[k]
    <2>1. CASE k = 1
        <3>1. m[k - 1] = <<>> /\ m[k] = flat[k] /\ flat[k] = pieces[k]
            BY <1>1, <1>6, <2>1
        <3>2. <<>> \o pieces[k] = pieces[k]
            BY <1>1, ConcatEmptySeq
        <3> QED BY <3>1, <3>2
    <2>2. CASE k # 1
        <3>1. k - 1 \in 0..n /\ k - 1 # 0 /\ k \in 0..n /\ k # 0
            BY <1>1, <2>2
        <3>2. m[k - 1] = flat[k - 1] /\ m[k] = flat[k]
            BY <3>1
        <3>3. flat[k] = flat[k - 1] \o pieces[k]
            BY <1>6, <2>2
        <3> QED BY <3>2, <3>3
    <2> QED BY <2>1, <2>2
<1> HIDE DEF m
<1>9. \A k \in 0..n : m[k] \in T
    <2> DEFINE S == {k \in 0..n : m[k] \in T}
    <2>1. 0 \in S
        <3>1. 0 \in 0..n
            BY <1>1
        <3> HIDE DEF T
        <3> QED BY <1>7, <1>e, <3>1
    <2>2. ASSUME NEW k \in 1..n, k - 1 \in S PROVE k \in S
        <3>1. m[k - 1] \in T /\ pieces[k] \in T /\ k \in 0..n
            BY <1>1, <2>2
        <3>2. m[k - 1] \o pieces[k] \in T
            BY <3>1
        <3> QED BY <1>8, <3>1, <3>2
    <2>3. \A k \in 0..n : k \in S
        <3> HIDE DEF S
        <3> QED BY <1>1, <2>1, <2>2, Upward
    <2> QED BY <2>3
<1> QED BY <1>2, <1>7, <1>8, <1>9 DEF FlatChain, n

PositionChain(m) ==
    /\ m[0] = <<>>
    /\ \A p \in 0..Len(blocks) : m[p + 1] = m[p] \o (InsertedAt(p) \o KeptAt(p))
    /\ \A p \in 0..Len(blocks) + 1 : m[p] \in Seq(Block)

(* Replacements that stand claim nothing in common, so they are in an order. *)
LEMMA StandingApart ==
    ASSUME EditType, AllRangesExist, NEW i \in Standing, NEW j \in Standing, i # j,
           replacements[i].start <= replacements[j].start
    PROVE  /\ replacements[i].start < replacements[j].start
           /\ replacements[i].end <= replacements[j].start
<1> DEFINE l == replacements[i]
           r == replacements[j]
<1>1. /\ i \in 1..Len(replacements) /\ j \in 1..Len(replacements)
      /\ Stands(i) /\ Stands(j) /\ Len(replacements) \in Nat
    BY DEF Standing, EditType
<1>2. /\ l.start \in Nat /\ l.end \in Nat /\ r.start \in Nat /\ r.end \in Nat
      /\ l.start <= l.end /\ r.start <= r.end
    <2>1. l \in Replacement /\ r \in Replacement
        BY <1>1 DEF EditType
    <2> QED BY <1>1, <2>1 DEF Replacement, AllRangesExist
<1>3. Claims(l) \cap Claims(r) = {}
    <2>1. CASE i < j
        <3>1. j \in i + 1..Len(replacements)
            BY <1>1, <2>1
        <3> QED BY <1>1, <3>1 DEF Stands
    <2>2. CASE j < i
        <3>1. i \in j + 1..Len(replacements)
            BY <1>1, <2>2
        <3>2. Claims(r) \cap Claims(l) = {}
            BY <1>1, <3>1 DEF Stands
        <3> QED BY <3>2
    <2>3. i < j \/ j < i
        BY <1>1
    <2> QED BY <2>1, <2>2, <2>3
<1> HIDE DEF l, r
<1>4. l.start \in Claims(l) /\ r.start \in Claims(r)
    BY <1>2 DEF Claims
<1>5. l.start # r.start /\ r.start \notin Claims(l)
    BY <1>3, <1>4
<1>6. l.start < r.start
    BY <1>2, <1>5 DEF l, r
<1>7. l.end <= r.start
    BY <1>2, <1>5, <1>6 DEF Claims
<1> QED BY <1>6, <1>7 DEF l, r

(* A replacement that stands is inserted where it starts,                    *)
LEMMA InsertedAtStart ==
    ASSUME EditType, AllRangesExist, NEW i \in Standing
    PROVE  InsertedAt(replacements[i].start) = replacements[i].with
<1> DEFINE p == replacements[i].start
           here == {j \in Standing : replacements[j].start = p}
           chosen == CHOOSE j \in here : TRUE
<1>1. i \in here
    OBVIOUS
<1>2. chosen \in here
    BY <1>1, Zenon
<1>3. InsertedAt(p) = IF here = {} THEN <<>> ELSE replacements[chosen].with
    BY Zenon DEF InsertedAt
<1>4. chosen = i
    <2>1. /\ chosen \in Standing
          /\ replacements[chosen].start = replacements[i].start
        BY <1>2
    <2>2. replacements[i].start \in Nat
        <3>1. replacements[i] \in Replacement
            BY DEF EditType, Standing
        <3> QED BY <3>1 DEF Replacement
    <2>3. ASSUME chosen # i PROVE FALSE
        <3>1. replacements[chosen].start <= replacements[i].start
            BY <2>1, <2>2
        <3> HIDE DEF chosen
        <3>2. replacements[chosen].start < replacements[i].start
            BY <2>1, <2>3, <3>1, StandingApart
        <3> QED BY <2>1, <2>2, <3>2
    <2> QED BY <2>3
<1> HIDE DEF chosen, here
<1> QED BY <1>1, <1>3, <1>4

(* and nothing is inserted elsewhere.                                        *)
LEMMA InsertedNowhereElse ==
    ASSUME NEW p, \A i \in Standing : replacements[i].start # p
    PROVE  InsertedAt(p) = <<>>
<1> DEFINE here == {i \in Standing : replacements[i].start = p}
<1>1. here = {}
    OBVIOUS
<1>2. InsertedAt(p) = IF here = {} THEN <<>> ELSE replacements[CHOOSE i \in here : TRUE].with
    BY Zenon DEF InsertedAt
<1> QED BY <1>1, <1>2, Zenon

(* Whatever is at a position are blocks.                                     *)
LEMMA PositionType ==
    ASSUME EditType, AllRangesExist, NEW p \in 0..Len(blocks)
    PROVE  InsertedAt(p) \in Seq(Block) /\ KeptAt(p) \in Seq(Block)
<1>e. <<>> \in Seq(Block)
    OBVIOUS
<1>1. InsertedAt(p) \in Seq(Block)
    <2>1. CASE \A i \in Standing : replacements[i].start # p
        BY <1>e, <2>1, InsertedNowhereElse
    <2>2. ASSUME NEW i \in Standing, replacements[i].start = p
          PROVE  InsertedAt(p) \in Seq(Block)
        <3>1. replacements[i] \in Replacement
            BY DEF EditType, Standing
        <3>2. InsertedAt(p) = replacements[i].with
            BY <2>2, InsertedAtStart
        <3>3. replacements[i].with \in Seq(Block)
            BY <3>1 DEF Replacement
        <3> QED BY <3>2, <3>3
    <2> QED BY <2>1, <2>2
<1>2. KeptAt(p) \in Seq(Block)
    <2>1. CASE p < Len(blocks)
        <3>1. p + 1 \in 1..Len(blocks) /\ blocks \in Seq(Block)
            BY <2>1 DEF EditType
        <3>2. blocks[p + 1] \in Block
            BY <3>1
        <3>3. <<blocks[p + 1]>> \in Seq(Block)
            BY <3>2
        <3>4. KeptAt(p) = <<blocks[p + 1]>> \/ KeptAt(p) = <<>>
            BY Zenon DEF KeptAt
        <3> QED BY <1>e, <3>3, <3>4
    <2>2. CASE ~(p < Len(blocks))
        <3>1. KeptAt(p) = <<>>
            BY <2>2, Zenon DEF KeptAt
        <3> QED BY <1>e, <3>1
    <2> QED BY <2>1, <2>2
<1> QED BY <1>1, <1>2

(* What is meant is a chain over the positions.                              *)
LEMMA MeantIsChain ==
    ASSUME EditType, AllRangesExist
    PROVE  \E m : PositionChain(m) /\ Meant = m[Len(blocks) + 1] \o appended
<1> DEFINE n == Len(blocks) + 1
           pieces == [k \in 1..n |-> InsertedAt(k - 1) \o KeptAt(k - 1)]
<1>1. n \in Nat /\ n # 0 /\ Len(blocks) \in Nat
    BY DEF EditType
<1>2. \A k \in 1..n : InsertedAt(k - 1) \o KeptAt(k - 1) \in Seq(Block)
    <2> SUFFICES ASSUME NEW k \in 1..n PROVE InsertedAt(k - 1) \o KeptAt(k - 1) \in Seq(Block)
        OBVIOUS
    <2>1. k - 1 \in 0..Len(blocks)
        BY <1>1
    <2>2. InsertedAt(k - 1) \in Seq(Block) /\ KeptAt(k - 1) \in Seq(Block)
        BY <2>1, PositionType
    <2> QED BY <2>2, ConcatProperties
<1>3. pieces \in Seq(Seq(Block)) /\ Len(pieces) = n
    <2>1. pieces \in [1..n -> Seq(Block)]
        BY <1>2
    <2> HIDE DEF n, pieces
    <2> QED BY <1>1, <2>1
<1>4. Meant = FlattenSeq(pieces) \o appended
    BY Zenon DEF Meant
<1>5. \A p \in 0..Len(blocks) : pieces[p + 1] = InsertedAt(p) \o KeptAt(p)
    BY <1>1
<1> HIDE DEF pieces
<1>6. PICK m : FlatChain(m, pieces) /\ FlattenSeq(pieces) = m[Len(pieces)]
    BY <1>1, <1>3, FlattenIsChain
<1>7. PositionChain(m)
    <2>1. \A p \in 0..Len(blocks) : p + 1 \in 1..n /\ p = (p + 1) - 1
        BY <1>1
    <2>2. \A k \in 1..n : m[k] = m[k - 1] \o pieces[k]
        BY <1>3, <1>6 DEF FlatChain
    <2>3. \A p \in 0..Len(blocks) : m[p + 1] = m[p] \o pieces[p + 1]
        BY <2>1, <2>2
    <2> QED BY <1>3, <1>5, <1>6, <2>3 DEF FlatChain, PositionChain
<1>8. Meant = m[Len(blocks) + 1] \o appended
    BY <1>3, <1>4, <1>6
<1> QED BY <1>7, <1>8

-----------------------------------------------------------------------------
(* The walk and the meaning side by side.                                    *)

EndOf(s, k)     == IF k = 0 THEN 0 ELSE replacements[s[k]].end
NextStart(s, k) == IF k = Len(s) THEN Len(blocks) ELSE replacements[s[k + 1]].start

(* What the walk has inserted where it stands.                               *)
InsertedHere(s, k) ==
    IF k # 0 /\ replacements[s[k]].start = replacements[s[k]].end
    THEN replacements[s[k]].with ELSE <<>>

(* The ranges of an order are ranges of the blocks.                          *)
LEMMA RangeOf ==
    ASSUME EditType, AllRangesExist, NEW s, EffectiveIs(s), NEW k \in 1..Len(s)
    PROVE  /\ s[k] \in Standing
           /\ replacements[s[k]].start \in Nat /\ replacements[s[k]].end \in Nat
           /\ replacements[s[k]].start <= replacements[s[k]].end
           /\ replacements[s[k]].end <= Len(blocks)
           /\ replacements[s[k]].with \in Seq(Block)
<1>1. s[k] \in Standing /\ s[k] \in 1..Len(replacements)
    BY DEF EffectiveIs, Standing
<1>2. replacements[s[k]] \in Replacement
    BY <1>1 DEF EditType
<1> QED BY <1>1, <1>2 DEF Replacement, AllRangesExist

(* The order is strict, and a range ends before the next starts.             *)
LEMMA OrderApart ==
    ASSUME EditType, AllRangesExist, NEW s, EffectiveIs(s),
           NEW k \in 1..Len(s), NEW l \in 1..Len(s), k < l
    PROVE  /\ replacements[s[k]].start < replacements[s[l]].start
           /\ replacements[s[k]].end <= replacements[s[l]].start
<1>1. /\ s[k] \in Standing /\ s[l] \in Standing /\ s[k] # s[l]
      /\ replacements[s[k]].start <= replacements[s[l]].start
    BY DEF EffectiveIs
<1> QED BY <1>1, StandingApart

(* What is at the positions between one range and the next.                  *)
LEMMA Gap ==
    ASSUME EditType, AllRangesExist, NEW s, EffectiveIs(s), NEW k \in 0..Len(s)
    PROVE  /\ EndOf(s, k) \in Nat /\ NextStart(s, k) \in Nat
           /\ EndOf(s, k) <= NextStart(s, k) /\ NextStart(s, k) <= Len(blocks)
           /\ \A p \in EndOf(s, k)..NextStart(s, k) - 1 : KeptAt(p) = <<blocks[p + 1]>>
           /\ \A p \in EndOf(s, k) + 1..NextStart(s, k) - 1 : InsertedAt(p) = <<>>
           /\ EndOf(s, k) < NextStart(s, k) \/ k = Len(s) =>
                 InsertedAt(EndOf(s, k)) = InsertedHere(s, k)
           /\ k # Len(s) /\ EndOf(s, k) = NextStart(s, k) => InsertedHere(s, k) = <<>>
           /\ k = Len(s) /\ EndOf(s, k) < NextStart(s, k) => InsertedAt(Len(blocks)) = <<>>
<1> DEFINE from == EndOf(s, k)
           next == NextStart(s, k)
           Start(l) == replacements[s[l]].start
           End(l) == replacements[s[l]].end
<1>0. Len(s) \in Nat /\ Len(blocks) \in Nat
    BY DEF EditType, EffectiveIs
<1>1. \A l \in 1..Len(s) : /\ Start(l) \in Nat /\ End(l) \in Nat
                           /\ Start(l) <= End(l) /\ End(l) <= Len(blocks)
    BY RangeOf
<1>2. \A i, l \in 1..Len(s) : i < l => Start(i) < Start(l) /\ End(i) <= Start(l)
    BY OrderApart
<1>3. from = IF k = 0 THEN 0 ELSE End(k)
    BY DEF EndOf
<1>4. next = IF k = Len(s) THEN Len(blocks) ELSE Start(k + 1)
    BY DEF NextStart
<1>5. InsertedHere(s, k) =
          IF k # 0 /\ Start(k) = End(k) THEN replacements[s[k]].with ELSE <<>>
    BY DEF InsertedHere
<1>6. \A i \in Standing : \E l \in 1..Len(s) : s[l] = i
    BY DEF EffectiveIs
<1>7. \A l \in 1..Len(s) : s[l] \in Standing
    BY DEF EffectiveIs
<1> HIDE DEF from, next
<1>8. from \in Nat /\ next \in Nat /\ from <= next /\ next <= Len(blocks)
    <2>1. CASE k = 0
        BY <1>0, <1>1, <1>3, <1>4, <2>1
    <2>2. CASE k # 0
        <3>1. k \in 1..Len(s) /\ (k # Len(s) => k + 1 \in 1..Len(s) /\ k < k + 1)
            BY <1>0, <2>2
        <3> QED BY <1>0, <1>1, <1>2, <1>3, <1>4, <2>2, <3>1
    <2> QED BY <2>1, <2>2
(* A range of the order is over where the walk stands, or begins later.      *)
<1>9. ASSUME NEW l \in 1..Len(s)
      PROVE  \/ l < k /\ Start(l) < from /\ End(l) <= from
             \/ l = k /\ End(l) = from
             \/ k # Len(s) /\ next <= Start(l)
    <2> HIDE DEF Start, End
    <2>1. CASE l < k
        <3>1. k \in 1..Len(s)
            BY <1>0, <2>1
        <3>2. Start(l) < Start(k) /\ End(l) <= Start(k) /\ Start(k) <= End(k)
            BY <1>1, <1>2, <2>1, <3>1
        <3>3. /\ Start(l) \in Nat /\ End(l) \in Nat /\ Start(k) \in Nat /\ End(k) \in Nat
            BY <1>1, <3>1
        <3>4. from = End(k)
            BY <1>3, <3>1
        <3> QED BY <2>1, <3>2, <3>3, <3>4
    <2>2. CASE l = k
        BY <1>3, <2>2
    <2>3. CASE k < l
        <3>1. k + 1 \in 1..Len(s) /\ k # Len(s)
            BY <1>0, <2>3
        <3>2. next = Start(k + 1)
            BY <1>4, <3>1
        <3>3. CASE l = k + 1
            BY <1>1, <3>1, <3>2, <3>3
        <3>4. CASE l # k + 1
            <4>1. k + 1 < l
                BY <1>0, <2>3, <3>4
            <4>2. Start(k + 1) < Start(l)
                BY <1>2, <3>1, <4>1
            <4> QED BY <1>1, <3>1, <3>2, <4>2
        <3> QED BY <3>3, <3>4
    <2> QED BY <1>0, <2>1, <2>2, <2>3
<1>10. ASSUME NEW p \in from..next - 1 PROVE KeptAt(p) = <<blocks[p + 1]>>
    <2>1. p \in Nat /\ p < Len(blocks) /\ from <= p /\ p < next
        BY <1>0, <1>8
    <2>2. ASSUME NEW i \in Standing PROVE p \notin Covers(replacements[i])
        <3>1. PICK l \in 1..Len(s) : s[l] = i
            BY <1>6
        <3>2. ~(Start(l) <= p /\ p < End(l))
            <4> HIDE DEF Start, End
            <4>1. Start(l) \in Nat /\ End(l) \in Nat
                BY <1>1
            <4> QED BY <1>8, <1>9, <2>1, <4>1
        <3>3. Start(l) \in Nat /\ End(l) \in Nat
            BY <1>1
        <3> QED BY <3>1, <3>2, <3>3 DEF Covers
    <2> QED BY <2>1, <2>2, Zenon DEF KeptAt
<1>11. ASSUME NEW p \in from + 1..next - 1 PROVE InsertedAt(p) = <<>>
    <2>1. ASSUME NEW i \in Standing PROVE replacements[i].start # p
        <3>1. PICK l \in 1..Len(s) : s[l] = i
            BY <1>6
        <3>2. Start(l) # p
            <4> HIDE DEF Start, End
            <4>1. Start(l) \in Nat /\ End(l) \in Nat /\ Start(l) <= End(l)
                BY <1>1
            <4> QED BY <1>8, <1>9, <4>1
        <3> QED BY <3>1, <3>2
    <2> QED BY <2>1, InsertedNowhereElse
<1>12. ASSUME from < next \/ k = Len(s) PROVE InsertedAt(from) = InsertedHere(s, k)
    <2>1. CASE k # 0 /\ Start(k) = End(k)
        <3>1. k \in 1..Len(s)
            BY <1>0, <2>1
        <3>2. from = Start(k) /\ s[k] \in Standing
            BY <1>3, <1>7, <2>1, <3>1
        <3>3. InsertedAt(from) = replacements[s[k]].with
            BY <3>2, InsertedAtStart
        <3> QED BY <1>5, <2>1, <3>3
    <2>2. CASE ~(k # 0 /\ Start(k) = End(k))
        <3>1. ASSUME NEW i \in Standing PROVE replacements[i].start # from
            <4>1. PICK l \in 1..Len(s) : s[l] = i
                BY <1>6
            <4>2. Start(l) # from
                <5> HIDE DEF Start, End
                <5>1. Start(l) \in Nat /\ End(l) \in Nat /\ Start(l) <= End(l)
                    BY <1>1
                <5>2. l = k => Start(l) # End(l)
                    BY <2>2
                <5> QED BY <1>0, <1>8, <1>9, <1>12, <5>1, <5>2
            <4> QED BY <4>1, <4>2
        <3>2. InsertedAt(from) = <<>>
            BY <3>1, InsertedNowhereElse
        <3> QED BY <1>5, <2>2, <3>2
    <2> QED BY <2>1, <2>2
<1>13. ASSUME k # Len(s), from = next PROVE InsertedHere(s, k) = <<>>
    <2>1. CASE k = 0
        BY <1>5, <2>1
    <2>2. CASE k # 0
        <3>1. k \in 1..Len(s) /\ k + 1 \in 1..Len(s) /\ k < k + 1
            BY <1>0, <1>13, <2>2
        <3>2. Start(k) < Start(k + 1) /\ Start(k) \in Nat /\ Start(k + 1) \in Nat
            BY <1>1, <1>2, <3>1
        <3>3. End(k) = Start(k + 1)
            BY <1>3, <1>4, <1>13, <2>2
        <3>4. Start(k) # End(k)
            <4> HIDE DEF Start, End
            <4> QED BY <3>2, <3>3
        <3> QED BY <1>5, <3>4
    <2> QED BY <2>1, <2>2
<1>14. ASSUME k = Len(s), from < next PROVE InsertedAt(Len(blocks)) = <<>>
    <2>1. ASSUME NEW i \in Standing PROVE replacements[i].start # Len(blocks)
        <3>1. PICK l \in 1..Len(s) : s[l] = i
            BY <1>6
        <3>2. Start(l) # Len(blocks)
            <4> HIDE DEF Start, End
            <4>1. Start(l) \in Nat /\ End(l) \in Nat /\ Start(l) <= End(l)
                BY <1>1
            <4> QED BY <1>0, <1>4, <1>8, <1>9, <1>14, <4>1
        <3> QED BY <3>1, <3>2
    <2> QED BY <2>1, InsertedNowhereElse
<1> QED BY <1>8, <1>10, <1>11, <1>12, <1>13, <1>14 DEF from, next

(* Joining three pieces, either way.                                         *)
LEMMA Joined == \A a, b, c \in Seq(Block) : a \o (b \o c) = (a \o b) \o c
BY ConcatAssociative

(* One position of the chain.                                                *)
LEMMA ChainAt ==
    ASSUME NEW m, PositionChain(m), Len(blocks) \in Nat
    PROVE  /\ \A p \in 0..Len(blocks) : m[p + 1] = m[p] \o (InsertedAt(p) \o KeptAt(p))
           /\ \A p \in 0..Len(blocks) : m[p] \in Seq(Block)
<1>1. \A p \in 0..Len(blocks) : p \in 0..Len(blocks) + 1
    OBVIOUS
<1>2. \A p \in 0..Len(blocks) + 1 : m[p] \in Seq(Block)
    BY Zenon DEF PositionChain
<1>3. \A p \in 0..Len(blocks) : m[p + 1] = m[p] \o (InsertedAt(p) \o KeptAt(p))
    BY Zenon DEF PositionChain
<1> QED BY <1>1, <1>2, <1>3, Zenon

(* Up to the next range the meaning is the blocks, as the walk takes them.   *)
LEMMA Ahead ==
    ASSUME EditType, AllRangesExist, NEW s, EffectiveIs(s), NEW k \in 0..Len(s),
           NEW m, PositionChain(m), EndOf(s, k) < NextStart(s, k)
    PROVE  m[NextStart(s, k)] =
               (m[EndOf(s, k)] \o InsertedHere(s, k))
                   \o SubSeq(blocks, EndOf(s, k) + 1, NextStart(s, k))
<1> DEFINE from == EndOf(s, k)
           next == NextStart(s, k)
           front == m[from] \o InsertedHere(s, k)
           Upto(b) == front \o SubSeq(blocks, from + 1, b)
           d == next - from - 1
<1>1. /\ from \in Nat /\ next \in Nat /\ from < next /\ next <= Len(blocks)
      /\ \A p \in from..next - 1 : KeptAt(p) = <<blocks[p + 1]>>
      /\ \A p \in from + 1..next - 1 : InsertedAt(p) = <<>>
      /\ InsertedAt(from) = InsertedHere(s, k)
    BY Gap
<1>2. blocks \in Seq(Block) /\ Len(blocks) \in Nat
    BY DEF EditType
<1>3. /\ \A p \in 0..Len(blocks) : m[p + 1] = m[p] \o (InsertedAt(p) \o KeptAt(p))
      /\ \A p \in 0..Len(blocks) : m[p] \in Seq(Block)
    BY <1>2, ChainAt, Zenon
<1> HIDE DEF from, next
<1>4. InsertedHere(s, k) \in Seq(Block) /\ m[from] \in Seq(Block) /\ front \in Seq(Block)
    <2>1. from \in 0..Len(blocks)
        BY <1>1, <1>2
    <2>2. InsertedHere(s, k) \in Seq(Block) /\ m[from] \in Seq(Block)
        BY <1>1, <1>3, <2>1, PositionType
    <2> QED BY <2>2, ConcatProperties
<1>5. \A b \in from + 1..next : SubSeq(blocks, from + 1, b) = SubSeq(blocks, from + 1, b - 1) \o <<blocks[b]>>
    <2> SUFFICES ASSUME NEW b \in from + 1..next
                 PROVE  SubSeq(blocks, from + 1, b) = SubSeq(blocks, from + 1, b - 1) \o <<blocks[b]>>
        OBVIOUS
    <2>1. from + 1 \in 1..Len(blocks) /\ b \in from + 1..Len(blocks)
        BY <1>1, <1>2
    <2> QED BY <1>2, <2>1, SubSeqRecursiveSecond
<1>6. \A b \in from + 1..next : <<blocks[b]>> \in Seq(Block) /\ SubSeq(blocks, from + 1, b - 1) \in Seq(Block)
    <2> SUFFICES ASSUME NEW b \in from + 1..next
                 PROVE  <<blocks[b]>> \in Seq(Block) /\ SubSeq(blocks, from + 1, b - 1) \in Seq(Block)
        OBVIOUS
    <2>1. b \in 1..Len(blocks)
        BY <1>1, <1>2
    <2>2. blocks[b] \in Block
        BY <1>2, <2>1
    <2>3. <<blocks[b]>> \in Seq(Block)
        BY <2>2
    <2>4. \A j \in from + 1..b - 1 : j \in 1..Len(blocks)
        BY <1>1, <1>2, <2>1
    <2>5. \A j \in from + 1..b - 1 : blocks[j] \in Block
        BY <1>2, <2>4
    <2>6. from + 1 \in Int /\ b - 1 \in Int
        BY <1>1, <2>1
    <2>7. SubSeq(blocks, from + 1, b - 1) \in Seq(Block)
        BY <2>5, <2>6, SubSeqProperties
    <2> QED BY <2>3, <2>7
<1> DEFINE S == {e \in 0..d : m[from + 1 + e] = Upto(from + 1 + e)}
<1>7. d \in Nat
    BY <1>1
<1>8. 0 \in S
    <2>1. from + 1 \in from + 1..next /\ (from + 1) - 1 = from /\ from \in 0..Len(blocks)
          /\ from \in from..next - 1
        BY <1>1, <1>2
    <2>2. SubSeq(blocks, from + 1, from) = <<>>
        BY <1>1, SubSeqEmpty
    <2>3. <<blocks[from + 1]>> \in Seq(Block)
        BY <1>6, <2>1
    <2>4. SubSeq(blocks, from + 1, from + 1) = <<blocks[from + 1]>>
        <3>1. SubSeq(blocks, from + 1, from + 1) = <<>> \o <<blocks[from + 1]>>
            BY <1>5, <2>1, <2>2
        <3>2. <<>> \o <<blocks[from + 1]>> = <<blocks[from + 1]>>
            BY <2>3, ConcatEmptySeq
        <3> QED BY <3>1, <3>2
    <2>5. m[from + 1] = m[from] \o (InsertedHere(s, k) \o <<blocks[from + 1]>>)
        BY <1>1, <1>3, <2>1
    <2>6. m[from] \o (InsertedHere(s, k) \o <<blocks[from + 1]>>) = front \o <<blocks[from + 1]>>
        BY <1>4, <2>3, Joined, Zenon
    <2>7. m[from + 1] = Upto(from + 1)
        BY <2>4, <2>5, <2>6
    <2>8. from + 1 + 0 = from + 1 /\ 0 \in 0..d
        BY <1>1, <1>7
    <2> HIDE DEF Upto, d
    <2> QED BY <2>7, <2>8
<1>9. ASSUME NEW e \in 1..d, e - 1 \in S PROVE e \in S
    <2> DEFINE b == from + 1 + e
    <2>1. /\ b \in from + 1..next /\ b - 1 \in from + 1..next - 1 /\ b - 1 \in from..next - 1
          /\ b - 1 \in 0..Len(blocks) /\ from + 1 + (e - 1) = b - 1 /\ (b - 1) + 1 = b
          /\ b - 1 \in from + 1..next
        BY <1>1, <1>2, <1>7
    <2> HIDE DEF b, d
    <2>2. m[b - 1] = Upto(b - 1)
        <3> HIDE DEF Upto
        <3> QED BY <1>9, <2>1
    <2>3. KeptAt(b - 1) = <<blocks[b]>> /\ InsertedAt(b - 1) = <<>>
        <3>1. KeptAt(b - 1) = <<blocks[(b - 1) + 1]>>
            BY <1>1, <2>1
        <3>2. InsertedAt(b - 1) = <<>>
            BY <1>1, <2>1
        <3> QED BY <2>1, <3>1, <3>2
    <2>4. <<blocks[b]>> \in Seq(Block) /\ SubSeq(blocks, from + 1, b - 1) \in Seq(Block)
        BY <1>6, <2>1
    <2>5. m[b] = m[b - 1] \o <<blocks[b]>>
        <3>1. m[b] = m[b - 1] \o (InsertedAt(b - 1) \o KeptAt(b - 1))
            <4>1. m[(b - 1) + 1] = m[b - 1] \o (InsertedAt(b - 1) \o KeptAt(b - 1))
                BY <1>3, <2>1
            <4> QED BY <2>1, <4>1
        <3>2. <<>> \o <<blocks[b]>> = <<blocks[b]>>
            BY <2>4, ConcatEmptySeq
        <3> QED BY <2>3, <3>1, <3>2
    <2>6. Upto(b) = Upto(b - 1) \o <<blocks[b]>>
        <3>1. SubSeq(blocks, from + 1, b) = SubSeq(blocks, from + 1, b - 1) \o <<blocks[b]>>
            BY <1>5, <2>1
        <3>2. front \o (SubSeq(blocks, from + 1, b - 1) \o <<blocks[b]>>)
                = (front \o SubSeq(blocks, from + 1, b - 1)) \o <<blocks[b]>>
            <4> HIDE DEF front
            <4> QED BY <1>4, <2>4, Joined, Zenon
        <3> HIDE DEF front
        <3> QED BY <3>1, <3>2
    <2>7. e \in 0..d
        OBVIOUS
    <2>8. m[b] = Upto(b)
        <3> HIDE DEF Upto
        <3> QED BY <2>2, <2>5, <2>6
    <2> HIDE DEF Upto
    <2> QED BY <2>7, <2>8 DEF b
<1>10. d \in S
    <2> HIDE DEF S
    <2>1. \A e \in 0..d : e \in S
        <3> HIDE DEF d
        <3> QED BY <1>7, <1>8, <1>9, Upward
    <2>2. d \in 0..d
        BY <1>7
    <2> QED BY <2>1, <2>2
<1>11. from + 1 + d = next
    BY <1>1
<1>12. m[next] = Upto(next)
    <2> HIDE DEF Upto, d
    <2> QED BY <1>10, <1>11
<1> QED BY <1>12 DEF from, next

(* A range that covers positions leaves only what replaces it there.         *)
LEMMA Replaced ==
    ASSUME EditType, AllRangesExist, NEW s, EffectiveIs(s), NEW k \in 1..Len(s),
           NEW m, PositionChain(m)
    PROVE  m[EndOf(s, k)] \o InsertedHere(s, k)
               = m[replacements[s[k]].start] \o replacements[s[k]].with
<1> DEFINE start == replacements[s[k]].start
           end == replacements[s[k]].end
           with == replacements[s[k]].with
<1>1. /\ s[k] \in Standing /\ start \in Nat /\ end \in Nat /\ start <= end /\ end <= Len(blocks)
      /\ with \in Seq(Block)
    BY RangeOf
<1>2. EndOf(s, k) = end /\ InsertedHere(s, k) = IF start = end THEN with ELSE <<>>
    <2>1. k # 0
        BY DEF EffectiveIs
    <2> QED BY <2>1 DEF EndOf, InsertedHere
<1>3. InsertedAt(start) = with
    BY <1>1, InsertedAtStart
<1>4. \A p \in start..end - 1 : KeptAt(p) = <<>>
    <2> SUFFICES ASSUME NEW p \in start..end - 1 PROVE KeptAt(p) = <<>>
        OBVIOUS
    <2>1. p \in Covers(replacements[s[k]])
        BY DEF Covers
    <2> QED BY <1>1, <2>1, Zenon DEF KeptAt
<1>5. \A p \in start + 1..end - 1 : InsertedAt(p) = <<>>
    <2> SUFFICES ASSUME NEW p \in start + 1..end - 1 PROVE InsertedAt(p) = <<>>
        OBVIOUS
    <2>1. ASSUME NEW i \in Standing PROVE replacements[i].start # p
        <3>1. PICK l \in 1..Len(s) : s[l] = i
            BY DEF EffectiveIs
        <3>2. replacements[s[l]].start \in Nat /\ replacements[s[l]].end \in Nat
              /\ replacements[s[l]].start <= replacements[s[l]].end
            BY RangeOf
        <3>3. CASE l < k
            <4>1. replacements[s[l]].start < start
                BY <3>3, OrderApart
            <4> QED BY <1>1, <3>1, <3>2, <4>1
        <3>4. CASE l = k
            BY <1>1, <3>1, <3>4
        <3>5. CASE k < l
            <4>1. end <= replacements[s[l]].start
                BY <3>5, OrderApart
            <4> QED BY <1>1, <3>1, <3>2, <4>1
        <3>6. Len(s) \in Nat
            BY DEF EffectiveIs
        <3> QED BY <3>3, <3>4, <3>5, <3>6
    <2> QED BY <2>1, InsertedNowhereElse
<1>6. Len(blocks) \in Nat
    BY DEF EditType
<1>7. /\ \A p \in 0..Len(blocks) : m[p + 1] = m[p] \o (InsertedAt(p) \o KeptAt(p))
      /\ \A p \in 0..Len(blocks) : m[p] \in Seq(Block)
    BY <1>6, ChainAt, Zenon
<1> HIDE DEF start, end, with
<1>8. ASSUME start = end
      PROVE  m[EndOf(s, k)] \o InsertedHere(s, k) = m[start] \o with
    BY <1>2, <1>8
<1>9. ASSUME start # end
      PROVE  m[EndOf(s, k)] \o InsertedHere(s, k) = m[start] \o with
    <2> DEFINE d == end - start - 1
               there == m[start] \o with
               S == {e \in 0..d : m[start + 1 + e] = there}
    <2>1. d \in Nat /\ m[start] \in Seq(Block)
        BY <1>1, <1>6, <1>7, <1>9
    <2>2. there \in Seq(Block) /\ <<>> \in Seq(Block)
        BY <1>1, <2>1, ConcatProperties, EmptySeq
    <2>3. 0 \in S
        <3>1. start \in start..end - 1 /\ start \in 0..Len(blocks) /\ start + 1 + 0 = start + 1 /\ 0 \in 0..d
            BY <1>1, <1>6, <1>9, <2>1
        <3>2. m[start + 1] = m[start] \o (with \o <<>>)
            BY <1>3, <1>4, <1>7, <3>1
        <3>3. with \o <<>> = with
            BY <1>1, ConcatEmptySeq
        <3> HIDE DEF d
        <3> QED BY <3>1, <3>2, <3>3
    <2>4. ASSUME NEW e \in 1..d, e - 1 \in S PROVE e \in S
        <3> DEFINE b == start + e
        <3>1. /\ b \in start..end - 1 /\ b \in start + 1..end - 1 /\ b \in 0..Len(blocks)
              /\ start + 1 + (e - 1) = b /\ start + 1 + e = b + 1 /\ e \in 0..d
            BY <1>1, <1>6, <2>1
        <3> HIDE DEF b, d, there
        <3>2. m[b] = there
            BY <2>4, <3>1
        <3>3. m[b + 1] = there \o (<<>> \o <<>>)
            BY <1>4, <1>5, <1>7, <3>1, <3>2
        <3>4. there \o (<<>> \o <<>>) = there
            <4>1. <<>> \o <<>> = <<>>
                BY <2>2, ConcatEmptySeq
            <4> QED BY <2>2, <4>1, ConcatEmptySeq
        <3> QED BY <3>1, <3>3, <3>4
    <2>5. d \in S
        <3> HIDE DEF S
        <3>1. \A e \in 0..d : e \in S
            <4> HIDE DEF d
            <4> QED BY <2>1, <2>3, <2>4, Upward
        <3>2. d \in 0..d
            BY <2>1
        <3> QED BY <3>1, <3>2
    <2>6. start + 1 + d = end
        BY <1>1
    <2>7. m[end] = there
        <3> HIDE DEF there, d
        <3> QED BY <2>5, <2>6
    <2>8. there \o <<>> = there
        <3> HIDE DEF there
        <3> QED BY <2>2, ConcatEmptySeq
    <2> HIDE DEF there
    <2>9. m[EndOf(s, k)] \o InsertedHere(s, k) = there
        BY <1>2, <1>9, <2>7, <2>8
    <2> QED BY <2>9 DEF there
<1>10. m[EndOf(s, k)] \o InsertedHere(s, k) = m[start] \o with
    BY <1>8, <1>9
<1> QED BY <1>10 DEF start, with

(* The walk puts every block where it is meant to be.                        *)
LEMMA WalkIsMeant ==
    ASSUME EditType, AllRangesExist
    PROVE  Walk = Meant
<1> DEFINE s == Effective
           n == Len(s)
           End == Len(blocks)
<1>1. EffectiveIs(s) /\ s \in Seq(1..Len(replacements)) /\ n \in Nat
    BY EffectiveSorted DEF EffectiveIs
<1>2. blocks \in Seq(Block) /\ appended \in Seq(Block) /\ End \in Nat
    BY DEF EditType
<1> HIDE DEF s
<1>3. PICK h : /\ WalkChain(h, s)
               /\ \A k \in 0..n : h[k] \in Place
               /\ Walk = h[n].output \o SubSeq(blocks, h[n].source + 1, End) \o appended
    BY <1>1, WalkFold DEF s
<1>4. PICK m : PositionChain(m) /\ Meant = m[End + 1] \o appended
    BY MeantIsChain
<1>5. /\ \A p \in 0..End : m[p + 1] = m[p] \o (InsertedAt(p) \o KeptAt(p))
      /\ \A p \in 0..End : m[p] \in Seq(Block)
    BY <1>2, <1>4, ChainAt
<1>e. <<>> \in Seq(Block) /\ <<>> \o <<>> = <<>>
    <2>1. <<>> \in Seq(Block)
        OBVIOUS
    <2> QED BY <2>1, ConcatEmptySeq
<1> DEFINE Here(k) == m[EndOf(s, k)] \o InsertedHere(s, k)
           S == {k \in 0..n : h[k].source = EndOf(s, k) /\ h[k].output = Here(k)}
<1>6. 0 \in S
    <2>1. EndOf(s, 0) = 0 /\ InsertedHere(s, 0) = <<>>
        BY Zenon DEF EndOf, InsertedHere
    <2>2. m[0] = <<>>
        BY <1>4, Zenon DEF PositionChain
    <2>3. h[0] = [output |-> <<>>, source |-> 0]
        BY <1>3, Zenon DEF WalkChain
    <2>4. h[0].output = <<>> /\ h[0].source = 0
        BY <2>3
    <2>5. 0 \in 0..n
        BY <1>1
    <2> QED BY <1>e, <2>1, <2>2, <2>4, <2>5
<1>7. ASSUME NEW k \in 1..n, k - 1 \in S PROVE k \in S
    <2> DEFINE start == replacements[s[k]].start
               with == replacements[s[k]].with
               part == SubSeq(blocks, EndOf(s, k - 1) + 1, start)
    <2>1. k \in 0..n /\ k - 1 \in 0..n /\ k - 1 # n /\ (k - 1) + 1 = k
        BY <1>1
    <2>2. NextStart(s, k - 1) = start
        BY <2>1, Zenon DEF NextStart
    <2>3. /\ EndOf(s, k - 1) \in Nat /\ start \in Nat /\ EndOf(s, k - 1) <= start /\ start <= End
          /\ EndOf(s, k - 1) = start => InsertedHere(s, k - 1) = <<>>
        BY <1>1, <2>1, <2>2, Gap
    <2>4. h[k].source = EndOf(s, k) /\ h[k].output = h[k - 1].output \o part \o with
        <3>1. h[k] = WalkStep(h[k - 1], s[k])
            BY <1>3, Zenon DEF WalkChain
        <3>2. h[k - 1].source = EndOf(s, k - 1)
            BY <1>7
        <3>3. h[k].source = replacements[s[k]].end /\ h[k].output = h[k - 1].output \o part \o with
            <4> DEFINE joined == h[k - 1].output \o part \o with
            <4>1. h[k] = [output |-> joined, source |-> replacements[s[k]].end]
                BY <3>1, <3>2, Zenon DEF WalkStep
            <4> HIDE DEF joined
            <4>2. h[k].source = replacements[s[k]].end /\ h[k].output = joined
                BY <4>1
            <4> QED BY <4>2 DEF joined
        <3>4. EndOf(s, k) = replacements[s[k]].end
            <4>1. k # 0
                BY <2>1
            <4> QED BY <4>1 DEF EndOf
        <3> QED BY <3>3, <3>4
    <2>5. h[k - 1].output \o part = m[start]
        <3>1. h[k - 1].output = m[EndOf(s, k - 1)] \o InsertedHere(s, k - 1)
            BY <1>7
        <3>2. CASE EndOf(s, k - 1) < start
            <4>1. m[start] = (m[EndOf(s, k - 1)] \o InsertedHere(s, k - 1)) \o part
                BY <1>1, <1>4, <2>1, <2>2, <3>2, Ahead
            <4> QED BY <3>1, <4>1
        <3>3. CASE EndOf(s, k - 1) = start
            <4>1. part = <<>>
                BY <2>3, <3>3, SubSeqEmpty
            <4>2. m[start] \in Seq(Block)
                BY <1>2, <1>5, <2>3
            <4>3. m[start] \o <<>> = m[start]
                BY <4>2, ConcatEmptySeq
            <4>4. h[k - 1].output = m[start]
                BY <2>3, <3>1, <3>3, <4>3
            <4>5. h[k - 1].output \o part = h[k - 1].output \o <<>>
                BY <4>1, Zenon
            <4>6. h[k - 1].output \o <<>> = m[start] \o <<>>
                BY <4>4, Zenon
            <4> QED BY <4>3, <4>5, <4>6, Zenon
        <3>4. EndOf(s, k - 1) < start \/ EndOf(s, k - 1) = start
            BY <2>3
        <3> QED BY <3>2, <3>3, <3>4, Zenon
    <2>6. Here(k) = m[start] \o with
        BY <1>1, <1>4, Replaced
    <2> HIDE DEF part, start, with, Here
    <2> QED BY <2>1, <2>4, <2>5, <2>6
<1>8. n \in S
    <2> HIDE DEF S
    <2>1. \A k \in 0..n : k \in S
        BY <1>1, <1>6, <1>7, Upward
    <2>2. n \in 0..n
        BY <1>1
    <2> QED BY <2>1, <2>2
<1> DEFINE from == EndOf(s, n)
           rest == SubSeq(blocks, from + 1, End)
<1>9. /\ from \in Nat /\ NextStart(s, n) = End /\ from <= End
      /\ InsertedAt(from) = InsertedHere(s, n)
      /\ from < End => InsertedAt(End) = <<>>
    <2>1. n \in 0..n
        BY <1>1
    <2>2. NextStart(s, n) = End
        BY Zenon DEF NextStart
    <2> QED BY <1>1, <2>1, <2>2, Gap
<1>10. m[End + 1] = m[End] \o (InsertedAt(End) \o <<>>) /\ m[End] \in Seq(Block)
    <2>1. End \in 0..End /\ ~(End < End)
        BY <1>2
    <2>2. KeptAt(End) = <<>>
        BY <2>1, Zenon DEF KeptAt
    <2> QED BY <1>5, <2>1, <2>2
<1>11. Here(n) \o rest = m[End + 1]
    <2>1. CASE from < End
        <3>1. n \in 0..n
            BY <1>1
        <3>2. m[End] = Here(n) \o rest
            BY <1>1, <1>4, <1>9, <2>1, <3>1, Ahead
        <3>3. m[End] \o (<<>> \o <<>>) = m[End]
            BY <1>10, <1>e, ConcatEmptySeq
        <3> HIDE DEF Here, rest
        <3> QED BY <1>9, <1>10, <2>1, <3>2, <3>3
    <2>2. CASE from = End
        <3>1. rest = <<>>
            BY <1>9, <2>2, SubSeqEmpty
        <3>2. InsertedAt(End) \in Seq(Block)
            BY <1>2, PositionType
        <3>3. InsertedAt(End) \o <<>> = InsertedAt(End)
            BY <3>2, ConcatEmptySeq
        <3>4. Here(n) = m[End] \o InsertedAt(End)
            BY <1>9, <2>2
        <3>5. Here(n) \in Seq(Block)
            BY <1>10, <3>2, <3>4, ConcatProperties
        <3>6. Here(n) \o <<>> = Here(n)
            <4> HIDE DEF Here
            <4> QED BY <3>5, ConcatEmptySeq
        <3> HIDE DEF Here, rest
        <3>7. m[End + 1] = m[End] \o InsertedAt(End)
            BY <1>10, <3>3, Zenon
        <3>8. Here(n) \o rest = Here(n)
            BY <3>1, <3>6, Zenon
        <3> QED BY <3>4, <3>7, <3>8, Zenon
    <2>3. from < End \/ from = End
        BY <1>2, <1>9
    <2> QED BY <2>1, <2>2, <2>3, Zenon
<1>12. h[n].output = Here(n) /\ h[n].source = from
    BY <1>8
<1> HIDE DEF Here
<1>13. Walk = (Here(n) \o rest) \o appended
    BY <1>3, <1>12
<1> HIDE DEF rest
<1> QED BY <1>4, <1>11, <1>13

(* The elements of sequences that are joined.                                *)
LEMMA ElementsJoined ==
    ASSUME NEW a \in Seq(Block), NEW b \in Seq(Block)
    PROVE  ToSet(a \o b) = ToSet(a) \cup ToSet(b)
<1>1. /\ Len(a) \in Nat /\ Len(b) \in Nat /\ DOMAIN a = 1..Len(a) /\ DOMAIN b = 1..Len(b)
      /\ DOMAIN (a \o b) = 1..Len(a) + Len(b)
      /\ \A i \in 1..Len(a) + Len(b) : (a \o b)[i] = IF i <= Len(a) THEN a[i] ELSE b[i - Len(a)]
    <2>1. /\ a \o b \in Seq(Block) /\ Len(a \o b) = Len(a) + Len(b)
          /\ \A i \in 1..Len(a) + Len(b) :
                (a \o b)[i] = IF i <= Len(a) THEN a[i] ELSE b[i - Len(a)]
        BY ConcatProperties
    <2>2. DOMAIN (a \o b) = 1..Len(a \o b)
        BY <2>1, LenProperties
    <2> QED BY <2>1, <2>2
<1> DEFINE c == a \o b
<1> HIDE DEF c
<1>2. ASSUME NEW x \in ToSet(c) PROVE x \in ToSet(a) \cup ToSet(b)
    <2>1. PICK i \in 1..Len(a) + Len(b) : x = IF i <= Len(a) THEN a[i] ELSE b[i - Len(a)]
        BY <1>1, <1>2 DEF ToSet, c
    <2>2. CASE i <= Len(a)
        BY <1>1, <2>1, <2>2 DEF ToSet
    <2>3. CASE ~(i <= Len(a))
        <3>1. i - Len(a) \in 1..Len(b) /\ x = b[i - Len(a)]
            BY <1>1, <2>1, <2>3
        <3> QED BY <1>1, <3>1 DEF ToSet
    <2> QED BY <2>2, <2>3
<1>3. ASSUME NEW x \in ToSet(a) PROVE x \in ToSet(c)
    <2>1. PICK i \in 1..Len(a) : x = a[i]
        BY <1>1, <1>3 DEF ToSet
    <2>2. i \in 1..Len(a) + Len(b) /\ c[i] = x
        BY <1>1, <2>1 DEF c
    <2> QED BY <1>1, <2>2 DEF ToSet, c
<1>4. ASSUME NEW x \in ToSet(b) PROVE x \in ToSet(c)
    <2>1. PICK i \in 1..Len(b) : x = b[i]
        BY <1>1, <1>4 DEF ToSet
    <2>2. Len(a) + i \in 1..Len(a) + Len(b) /\ ~(Len(a) + i <= Len(a)) /\ (Len(a) + i) - Len(a) = i
        BY <1>1
    <2>3. c[Len(a) + i] = x
        BY <1>1, <2>1, <2>2 DEF c
    <2> QED BY <1>1, <2>2, <2>3 DEF ToSet, c
<1> QED BY <1>2, <1>3, <1>4 DEF c

(* A part of the blocks holds blocks of it.                                  *)
LEMMA PartOfBlocks ==
    ASSUME blocks \in Seq(Block), NEW a \in Nat, NEW b \in Nat, b <= Len(blocks)
    PROVE  /\ SubSeq(blocks, a + 1, b) \in Seq(Block)
           /\ ToSet(SubSeq(blocks, a + 1, b)) \subseteq ToSet(blocks)
<1> DEFINE part == SubSeq(blocks, a + 1, b)
           There == ToSet(blocks)
<1>1. \A j \in a + 1..b : j \in 1..Len(blocks)
    OBVIOUS
<1>2. \A j \in a + 1..b : blocks[j] \in Block
    BY <1>1
<1>3. \A j \in a + 1..b : blocks[j] \in There
    BY <1>1 DEF ToSet
<1>4. a + 1 \in Int /\ b \in Int
    OBVIOUS
<1> HIDE DEF There
<1>5. part \in Seq(Block)
    BY <1>2, <1>4, SubSeqProperties
<1>6. part \in Seq(There)
    BY <1>3, <1>4, SubSeqProperties
<1> HIDE DEF part
<1>7. \A x \in ToSet(part) : x \in There
    <2>1. \A i \in DOMAIN part : part[i] \in There
        BY <1>6
    <2> QED BY <2>1 DEF ToSet
<1> QED BY <1>5, <1>7 DEF part, There

(* What a retained replacement brings comes in with the edit.                *)
LEMMA IncomingIs ==
    ASSUME EditType, AllRangesExist, NEW s, EffectiveIs(s)
    PROVE  /\ ToSet(appended) \subseteq Incoming
           /\ \A k \in 1..Len(s) : ToSet(replacements[s[k]].with) \subseteq Incoming
           /\ \A x \in Incoming :
                 \/ x \in ToSet(appended)
                 \/ \E k \in 1..Len(s) : x \in ToSet(replacements[s[k]].with)
<1>1. Retained = Standing
    BY RetainedStands
<1>2. \A k \in 1..Len(s) : s[k] \in Standing
    BY DEF EffectiveIs
<1>3. \A i \in Standing : \E k \in 1..Len(s) : s[k] = i
    BY DEF EffectiveIs
<1>4. \A x : x \in Incoming <=> \/ x \in ToSet(appended)
                                \/ \E i \in Standing : x \in ToSet(replacements[i].with)
    BY <1>1, Zenon DEF Incoming
<1> QED BY <1>2, <1>3, <1>4

(* The walk gathers all that comes in, and else only what was there.         *)
LEMMA WalkElements ==
    ASSUME EditType, AllRangesExist
    PROVE  /\ Incoming \subseteq ToSet(Walk)
           /\ ToSet(Walk) \subseteq ToSet(blocks) \cup Incoming
           /\ Walk \in Seq(Block)
<1> DEFINE s == Effective
           n == Len(s)
           End == Len(blocks)
           With(k) == replacements[s[k]].with
           All == ToSet(blocks) \cup Incoming
<1>1. EffectiveIs(s) /\ n \in Nat
    BY EffectiveSorted DEF EffectiveIs
<1>2. blocks \in Seq(Block) /\ appended \in Seq(Block) /\ End \in Nat
    BY DEF EditType
<1>3. PICK h : /\ WalkChain(h, s)
               /\ \A k \in 0..n : h[k] \in Place
               /\ Walk = h[n].output \o SubSeq(blocks, h[n].source + 1, End) \o appended
    BY <1>1, WalkFold DEF EffectiveIs
<1> HIDE DEF s
<1>4. /\ ToSet(appended) \subseteq Incoming
      /\ \A k \in 1..n : ToSet(With(k)) \subseteq Incoming
      /\ \A x \in Incoming : x \in ToSet(appended) \/ \E k \in 1..n : x \in ToSet(With(k))
    BY <1>1, IncomingIs
<1>5. \A k \in 0..n : h[k].output \in Seq(Block) /\ h[k].source \in Nat
    BY <1>3 DEF Place
<1> DEFINE Gathered(k) == /\ ToSet(h[k].output) \subseteq All
                          /\ \A l \in 1..k : ToSet(With(l)) \subseteq ToSet(h[k].output)
           S == {k \in 0..n : Gathered(k)}
<1>6. 0 \in S
    <2>1. h[0].output = <<>>
        <3>1. h[0] = [output |-> <<>>, source |-> 0]
            BY <1>3, Zenon DEF WalkChain
        <3> QED BY <3>1
    <2>2. ToSet(h[0].output) = {}
        BY <2>1 DEF ToSet
    <2>3. 1..0 = {} /\ 0 \in 0..n
        BY <1>1
    <2> QED BY <2>2, <2>3
<1>7. ASSUME NEW k \in 1..n, k - 1 \in S PROVE k \in S
    <2> DEFINE r == replacements[s[k]]
               before == h[k - 1].output
               part == SubSeq(blocks, h[k - 1].source + 1, r.start)
               joined == before \o part \o r.with
    <2>1. k \in 0..n /\ k - 1 \in 0..n
        BY <1>1
    <2>2. r.start \in Nat /\ r.start <= End /\ r.with \in Seq(Block)
        <3>1. /\ r.start \in Nat /\ r.end \in Nat /\ r.start <= r.end /\ r.end <= End
              /\ r.with \in Seq(Block)
            BY <1>1, RangeOf
        <3> QED BY <1>2, <3>1
    <2>3. before \in Seq(Block) /\ h[k - 1].source \in Nat
        BY <1>5, <2>1
    <2>4. part \in Seq(Block) /\ ToSet(part) \subseteq ToSet(blocks)
        BY <1>2, <2>2, <2>3, PartOfBlocks
    <2>5. h[k].output = joined
        <3>1. h[k] = WalkStep(h[k - 1], s[k])
            BY <1>3, Zenon DEF WalkChain
        <3>2. h[k] = [output |-> joined, source |-> r.end]
            BY <3>1, Zenon DEF WalkStep
        <3> HIDE DEF joined
        <3> QED BY <3>2
    <2>6. ToSet(joined) = ToSet(before) \cup ToSet(part) \cup ToSet(r.with)
        <3> HIDE DEF before, part, r
        <3>1. before \o part \in Seq(Block) /\ ToSet(before \o part) = ToSet(before) \cup ToSet(part)
            BY <2>3, <2>4, ElementsJoined, ConcatProperties
        <3> DEFINE upto == before \o part
        <3>2. joined = upto \o r.with
            BY Zenon
        <3> HIDE DEF upto
        <3>3. ToSet(upto \o r.with) = ToSet(upto) \cup ToSet(r.with)
            BY <2>2, <3>1, ElementsJoined DEF upto
        <3> HIDE DEF joined
        <3> QED BY <3>1, <3>2, <3>3 DEF upto
    <2>7. Gathered(k - 1)
        BY <1>7
    <2>8. ToSet(r.with) \subseteq Incoming
        BY <1>4
    <2>9. \A l \in 1..k : l \in 1..(k - 1) \/ l = k
        OBVIOUS
    <2>10. With(k) = r.with
        OBVIOUS
    <2> HIDE DEF joined, part, r, With
    <2>11. Gathered(k)
        BY <2>4, <2>5, <2>6, <2>7, <2>8, <2>9, <2>10
    <2> HIDE DEF Gathered
    <2> QED BY <2>1, <2>11
<1>8. Gathered(n)
    <2> HIDE DEF Gathered
    <2>1. 0 \in S /\ \A k \in 1..n : k - 1 \in S => k \in S
        BY <1>6, <1>7 DEF Gathered
    <2> HIDE DEF S
    <2>2. \A k \in 0..n : k \in S
        BY <1>1, <2>1, Upward
    <2>3. n \in 0..n
        BY <1>1
    <2> QED BY <2>2, <2>3 DEF S
<1> DEFINE out == h[n].output
           rest == SubSeq(blocks, h[n].source + 1, End)
<1>9. out \in Seq(Block) /\ rest \in Seq(Block) /\ ToSet(rest) \subseteq ToSet(blocks)
    <2>1. n \in 0..n /\ End <= Len(blocks)
        BY <1>1, <1>2
    <2> QED BY <1>2, <1>5, <2>1, PartOfBlocks
<1> HIDE DEF out, rest
<1>10. Walk = (out \o rest) \o appended
    BY <1>3, Zenon DEF out, rest
<1>11. out \o rest \in Seq(Block) /\ ToSet(out \o rest) = ToSet(out) \cup ToSet(rest)
    BY <1>9, ElementsJoined, ConcatProperties
<1> DEFINE upto == out \o rest
<1> HIDE DEF upto
<1>12. /\ upto \o appended \in Seq(Block)
       /\ ToSet(upto \o appended) = ToSet(upto) \cup ToSet(appended)
    BY <1>2, <1>11, ElementsJoined, ConcatProperties DEF upto
<1>13. Walk \in Seq(Block) /\ ToSet(Walk) = ToSet(out) \cup ToSet(rest) \cup ToSet(appended)
    <2>1. Walk = upto \o appended
        BY <1>10, Zenon DEF upto
    <2>2. ToSet(upto) = ToSet(out) \cup ToSet(rest)
        BY <1>11, Zenon DEF upto
    <2> QED BY <1>12, <2>1, <2>2
<1>14. ToSet(out) \subseteq All /\ \A k \in 1..n : ToSet(With(k)) \subseteq ToSet(out)
    BY <1>8 DEF out
<1> HIDE DEF With
<1>15. \A x \in Incoming : x \in ToSet(Walk)
    BY <1>4, <1>13, <1>14
<1>16. \A x \in ToSet(Walk) : x \in All
    BY <1>4, <1>9, <1>13, <1>14
<1> QED BY <1>13, <1>15, <1>16

(* Ranges exist unless one is refused as invalid.                            *)
LEMMA RangesChecked ==
    ASSUME EditType
    PROVE  (\E i \in 1..Len(replacements) : InvalidRange(replacements[i])) <=> ~AllRangesExist
<1>1. \A i \in 1..Len(replacements) :
          InvalidRange(replacements[i])
              <=> ~(replacements[i].start <= replacements[i].end /\ replacements[i].end <= Len(blocks))
    <2> SUFFICES ASSUME NEW i \in 1..Len(replacements)
                 PROVE  InvalidRange(replacements[i])
                            <=> ~(/\ replacements[i].start <= replacements[i].end
                                  /\ replacements[i].end <= Len(blocks))
        OBVIOUS
    <2>1. replacements[i] \in Replacement /\ Len(blocks) \in Nat
        BY DEF EditType
    <2>2. replacements[i].start \in Nat /\ replacements[i].end \in Nat
        BY <2>1 DEF Replacement
    <2> QED BY <2>1, <2>2 DEF InvalidRange
<1> QED BY <1>1, Zenon DEF AllRangesExist

(* Where the ranges exist, an edit is refusable for an id of what comes in   *)
(* or for an id the walk repeats.                                            *)
LEMMA RefusalsChecked ==
    ASSUME EditType, AllRangesExist, Distinct(blocks)
    PROVE  /\ Walk = Meant
           /\ Refusable <=> (\E block \in Incoming : Mismatches(block)) \/ Duplicates(Walk)
<1>1. Walk = Meant
    BY WalkIsMeant
<1>2. /\ Incoming \subseteq ToSet(Walk) /\ ToSet(Walk) \subseteq ToSet(blocks) \cup Incoming
      /\ Walk \in Seq(Block)
    BY WalkElements
<1>3. blocks \in Seq(Block) /\ DOMAIN blocks = 1..Len(blocks)
    BY DEF EditType
<1>4. \A x : x \in ToSet(Walk) <=> \E i \in 1..Len(Walk) : Walk[i] = x
    <2>1. DOMAIN Walk = 1..Len(Walk)
        BY <1>2
    <2> QED BY <2>1, Zenon DEF ToSet
<1>5. \A x : Mismatches(x) <=> \E p \in 1..Len(blocks) : blocks[p].id = x.id /\ blocks[p] # x
    BY Zenon DEF Mismatches
<1>6. ASSUME NEW x \in ToSet(blocks) PROVE ~Mismatches(x)
    <2>1. PICK q \in 1..Len(blocks) : x = blocks[q]
        BY <1>3, <1>6 DEF ToSet
    <2>2. \A p \in 1..Len(blocks) : blocks[p].id = blocks[q].id => p = q
        BY <2>1, Zenon DEF Distinct
    <2> QED BY <1>5, <2>1, <2>2, Zenon
<1>7. (\E i \in 1..Len(Meant), p \in 1..Len(blocks) :
           Meant[i].id = blocks[p].id /\ Meant[i] # blocks[p])
          <=> \E x \in ToSet(Walk) : Mismatches(x)
    <2>1. \A i \in 1..Len(Walk) :
              (\E p \in 1..Len(blocks) : Walk[i].id = blocks[p].id /\ Walk[i] # blocks[p])
                  <=> Mismatches(Walk[i])
        BY <1>5, Zenon
    <2>2. (\E i \in 1..Len(Walk) : Mismatches(Walk[i])) <=> \E x \in ToSet(Walk) : Mismatches(x)
        <3> HIDE DEF Mismatches
        <3> QED BY <1>4, Zenon
    <2> QED BY <1>1, <2>1, <2>2, Zenon
<1>8. (\E x \in ToSet(Walk) : Mismatches(x)) <=> \E x \in Incoming : Mismatches(x)
    <2> HIDE DEF Mismatches, Incoming
    <2> QED BY <1>2, <1>6
<1>9. Refusable <=> ~Distinct(Meant) \/ \E x \in ToSet(Walk) : Mismatches(x)
    BY <1>7, Zenon DEF Refusable
<1> QED BY <1>1, <1>8, <1>9, Zenon DEF Duplicates

(* An edit is refused when it is refusable, and what is committed is what    *)
(* was meant.                                                                *)
LEMMA Verdict ==
    ASSUME EditType, Distinct(blocks)
    PROVE  /\ ValidateEdit \in {"Ok", "InvalidRange", "BlockIdentityMismatch", "DuplicateBlockId"}
           /\ ValidateEdit = "Ok" <=> ~Refusable
           /\ ValidateEdit = "Ok" => Walk = Meant /\ Walk \in Seq(Block)
<1> DEFINE Bad == \E i \in 1..Len(replacements) : InvalidRange(replacements[i])
           Other == \E block \in Incoming : Mismatches(block)
<1>1. ValidateEdit = IF Bad THEN "InvalidRange"
                     ELSE IF Other THEN "BlockIdentityMismatch"
                     ELSE IF Duplicates(Walk) THEN "DuplicateBlockId" ELSE "Ok"
    BY Zenon DEF ValidateEdit
<1>2. Bad <=> ~AllRangesExist
    BY RangesChecked
<1> HIDE DEF Bad, Other
<1>3. CASE ~AllRangesExist
    <2>1. Refusable /\ ValidateEdit = "InvalidRange"
        BY <1>1, <1>2, <1>3 DEF Refusable
    <2> QED BY <2>1
<1>4. CASE AllRangesExist
    <2>1. Walk = Meant /\ (Refusable <=> Other \/ Duplicates(Walk))
        BY <1>4, RefusalsChecked, Zenon DEF Other
    <2>2. Walk \in Seq(Block)
        BY <1>4, WalkElements
    <2>3. ~Bad
        BY <1>2, <1>4
    <2> QED BY <1>1, <2>1, <2>2, <2>3
<1> QED BY <1>3, <1>4

-----------------------------------------------------------------------------
(* An edit is made of blocks, and no two of a context share an id.           *)
EditInv ==
    /\ EditType /\ Distinct(blocks)
    /\ outcome \in {"editing", "dropped", "Ok", "InvalidRange", "BlockIdentityMismatch",
                    "DuplicateBlockId"}

(* An edit starts from a context and brings nothing.                         *)
LEMMA EditInvInit == EditInit => EditInv
<1> SUFFICES ASSUME EditInit PROVE EditInv
    OBVIOUS
<1>1. blocks \in Seq(Block) /\ Distinct(blocks)
    BY ContextsAssumption, BlocksAssumption DEF EditInit
<1>2. appended \in Seq(Block) /\ replacements \in Seq(Replacement) /\ outcome = "editing"
    BY DEF EditInit
<1> QED BY <1>1, <1>2 DEF EditInv, EditType

(* What a step that ends an edit does.                                       *)
LEMMA EndOfEdit ==
    ASSUME EditInv, [EditNext]_editVars, outcome' # outcome
    PROVE  \/ outcome' = "dropped" /\ UNCHANGED blocks
           \/ /\ outcome' = ValidateEdit
              /\ blocks' = IF ValidateEdit = "Ok" THEN Walk ELSE blocks
<1>1. CASE Drop
    BY <1>1, Zenon DEF Drop
<1>2. CASE Commit
    BY <1>2, Zenon DEF Commit
<1>3. Drop \/ Commit
    BY Zenon DEF EditNext, Replace, AppendBlocks, EditOver, editVars
<1> QED BY <1>1, <1>2, <1>3, Zenon

(* Every step keeps the invariant.                                           *)
LEMMA EditInvNext == EditInv /\ [EditNext]_editVars => EditInv'
<1> SUFFICES ASSUME EditInv, [EditNext]_editVars PROVE EditInv'
    OBVIOUS
<1>1. EditType /\ Distinct(blocks) /\ blocks \in Seq(Block)
    BY DEF EditInv, EditType
<1>2. CASE Replace
    <2>1. PICK start \in 0..Len(blocks) + 1, end \in 0..Len(blocks) + 1, with \in Inserts :
              replacements' = Append(replacements, [start |-> start, end |-> end, with |-> with])
        BY <1>2, Zenon DEF Replace
    <2>2. [start |-> start, end |-> end, with |-> with] \in Replacement
        BY <1>1, BlocksAssumption DEF Replacement
    <2>3. replacements' \in Seq(Replacement)
        BY <1>1, <2>1, <2>2, AppendProperties DEF EditType
    <2>4. UNCHANGED <<blocks, appended, outcome>>
        BY <1>2, Zenon DEF Replace
    <2> QED BY <2>3, <2>4 DEF EditInv, EditType, Distinct
<1>3. CASE AppendBlocks
    <2>1. PICK bs \in Appends : appended' = appended \o bs
        BY <1>3, Zenon DEF AppendBlocks
    <2>2. appended' \in Seq(Block)
        <3>1. bs \in Seq(Block) /\ appended \in Seq(Block)
            BY <1>1, BlocksAssumption DEF EditType
        <3> QED BY <2>1, <3>1, ConcatProperties
    <2>3. UNCHANGED <<blocks, replacements, outcome>>
        BY <1>3, Zenon DEF AppendBlocks
    <2> QED BY <2>2, <2>3 DEF EditInv, EditType, Distinct
<1>4. CASE Drop
    BY <1>4 DEF EditInv, EditType, Distinct, Drop
<1>5. CASE Commit
    <2>1. /\ outcome' = ValidateEdit /\ UNCHANGED <<replacements, appended>>
          /\ blocks' = IF ValidateEdit = "Ok" THEN Walk ELSE blocks
        BY <1>5, Zenon DEF Commit
    <2>2. CASE ValidateEdit = "Ok"
        <3>1. blocks' = Meant /\ Meant \in Seq(Block) /\ ~Refusable
            BY <1>1, <2>1, <2>2, Verdict
        <3>2. Distinct(Meant)
            BY <3>1 DEF Refusable
        <3>3. outcome' = "Ok"
            BY <2>1, <2>2
        <3> QED BY <1>1, <2>1, <3>1, <3>2, <3>3 DEF EditInv, EditType, Distinct
    <2>3. CASE ValidateEdit # "Ok"
        <3>1. blocks' = blocks
            BY <2>1, <2>3
        <3>2. outcome' \in {"InvalidRange", "BlockIdentityMismatch", "DuplicateBlockId"}
            BY <1>1, <2>1, <2>3, Verdict
        <3> QED BY <1>1, <2>1, <3>1, <3>2 DEF EditInv, EditType, Distinct
    <2> QED BY <2>2, <2>3
<1>6. CASE EditOver \/ UNCHANGED editVars
    BY <1>6 DEF EditOver, editVars, EditInv, EditType, Distinct
<1> QED BY <1>2, <1>3, <1>4, <1>5, <1>6 DEF EditNext

(* A committed edit puts every block where its replacements mean it to be,   *)
(* and is refused for a reason or not at all (Context.commit, validate_edit, *)
(* commit_edit).                                                             *)
THEOREM MeantIsDone == EditSpec => EditIsWhatWasMeant
<1> DEFINE Done == CASE outcome' = "Ok"      -> ~Refusable /\ blocks' = Meant
                     [] outcome' = "dropped" -> blocks' = blocks
                     [] OTHER                -> Refusable /\ blocks' = blocks
<1>1. ASSUME EditInv, [EditNext]_editVars, outcome' # outcome PROVE Done
    <2>1. \/ outcome' = "dropped" /\ UNCHANGED blocks
          \/ /\ outcome' = ValidateEdit
             /\ blocks' = IF ValidateEdit = "Ok" THEN Walk ELSE blocks
        BY <1>1, EndOfEdit
    <2>2. /\ ValidateEdit # "dropped" /\ (ValidateEdit = "Ok" <=> ~Refusable)
          /\ ValidateEdit = "Ok" => Walk = Meant
        <3>1. ValidateEdit \in {"Ok", "InvalidRange", "BlockIdentityMismatch", "DuplicateBlockId"}
            BY <1>1, Verdict DEF EditInv
        <3>2. (ValidateEdit = "Ok" <=> ~Refusable) /\ (ValidateEdit = "Ok" => Walk = Meant)
            BY <1>1, Verdict DEF EditInv
        <3> QED BY <3>1, <3>2
    <2>3. CASE outcome' = "dropped"
        <3>1. blocks' = blocks
            BY <2>1, <2>2, <2>3
        <3>2. outcome' # "Ok"
            BY <2>3
        <3> QED BY <2>3, <3>1, <3>2
    <2>4. CASE outcome' = "Ok"
        <3>1. ~Refusable /\ blocks' = Meant
            BY <2>1, <2>2, <2>4
        <3>2. outcome' # "dropped"
            BY <2>4
        <3> QED BY <2>4, <3>1, <3>2
    <2>5. CASE outcome' # "dropped" /\ outcome' # "Ok"
        <3>1. Refusable /\ blocks' = blocks
            BY <2>1, <2>2, <2>5
        <3> QED BY <2>5, <3>1
    <2> QED BY <2>3, <2>4, <2>5
<1> HIDE DEF Done
<1>2. EditInv /\ [EditNext]_editVars => [Done]_outcome
    BY <1>1
<1> USE DEF Done
<1> QED BY <1>2, EditInvInit, EditInvNext, PTL DEF EditSpec, EditIsWhatWasMeant

(* An id keeps meaning the block it means (validate_edit,                    *)
(* ensure_unique_block_ids).                                                 *)
THEOREM IdentitiesKept == EditSpec => IdentityKept
<1> DEFINE Kept == /\ Distinct(blocks')
                   /\ \A p \in 1..Len(blocks), q \in 1..Len(blocks') :
                          blocks[p].id = blocks'[q].id => blocks[p] = blocks'[q]
<1>1. ASSUME EditInv, EditInv', [EditNext]_editVars, outcome' # outcome PROVE Kept
    <2>1. Distinct(blocks')
        BY <1>1 DEF EditInv, Distinct
    <2>2. CASE blocks' = blocks
        <3>1. \A p, q \in 1..Len(blocks) : blocks[p].id = blocks[q].id => p = q
            BY <1>1, Zenon DEF EditInv, Distinct
        <3> QED BY <2>1, <2>2, <3>1
    <2>3. CASE blocks' = Meant /\ ~Refusable
        <3>1. \A i \in 1..Len(Meant), p \in 1..Len(blocks) :
                  Meant[i].id = blocks[p].id => Meant[i] = blocks[p]
            BY <2>3, Zenon DEF Refusable
        <3>2. \A p \in 1..Len(blocks), q \in 1..Len(blocks') :
                  blocks[p].id = blocks'[q].id => blocks[p] = blocks'[q]
            <4> HIDE DEF Meant
            <4> QED BY <2>3, <3>1
        <3> QED BY <2>1, <3>2
    <2>4. blocks' = blocks \/ (blocks' = Meant /\ ~Refusable)
        <3>1. \/ outcome' = "dropped" /\ UNCHANGED blocks
              \/ /\ outcome' = ValidateEdit
                 /\ blocks' = IF ValidateEdit = "Ok" THEN Walk ELSE blocks
            BY <1>1, EndOfEdit
        <3>2. /\ ValidateEdit = "Ok" <=> ~Refusable
              /\ ValidateEdit = "Ok" => Walk = Meant
            BY <1>1, Verdict DEF EditInv
        <3> QED BY <3>1, <3>2
    <2> QED BY <2>2, <2>3, <2>4
<1> HIDE DEF Kept
<1>2. EditInv /\ EditInv' /\ [EditNext]_editVars => [Kept]_outcome
    BY <1>1
<1> USE DEF Kept
<1> QED BY <1>2, EditInvInit, EditInvNext, PTL DEF EditSpec, IdentityKept
=============================================================================
