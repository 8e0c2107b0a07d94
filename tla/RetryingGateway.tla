--------------------------- MODULE RetryingGateway ---------------------------
(****************************************************************************)
(* One logical call of RetryingGateway (causa-runtime, retry/gateway.rs and *)
(* retry/policy.rs) around an inner gateway that answers anything, late or  *)
(* never, while the caller's control may be cancelled or reach its          *)
(* deadline.                                                                *)
(*                                                                          *)
(* stream() and invoke() run the same loop; an attempt of invoke() never    *)
(* ends with a first delta that is an error, or with an empty stream.  Time *)
(* is counted in the unit of the durations.  Every step may come late.      *)
(****************************************************************************)
EXTENDS Integers, Sequences

CONSTANTS
    MaxAttempts,     \* RetryPolicy.max_attempts
    BaseDelay,       \* RetryPolicy.base_delay
    MaxDelay,        \* RetryPolicy.max_delay
    MaxServerDelay,  \* RetryPolicy.max_server_delay
    ServerDelay,     \* delays a provider may ask for
    Deadlines,       \* deadlines of a caller's control; None for no deadline
    None,            \* no deadline, no delay asked for, no error, no result
    MaxTime          \* bound: the clock ticks freely until then

ASSUME PolicyAssumption ==
    /\ MaxAttempts \in Nat \ {0}
    /\ BaseDelay \in Nat /\ MaxDelay \in Nat /\ MaxServerDelay \in Nat
    /\ ServerDelay \subseteq Nat
    /\ None \notin Nat
    /\ Deadlines \subseteq Nat \cup {None}
    /\ MaxTime \in Nat

ModelInvokeErrorKind ==
    {"Transient", "TimedOut", "Cancelled", "Permanent", "Undecodable",
     "InvalidRequest", "UnknownOutcome"}

ModelInvokeError == [kind : ModelInvokeErrorKind, retry_delay : ServerDelay \cup {None}]

ASSUME NoneIsNoError == None \notin ModelInvokeError

(* What an attempt, or the call, comes to: a value (an output, or a stream   *)
(* whose first item is no error), an Err, a stream whose first item is an    *)
(* error, or a stream without items.                                         *)
Outcome ==
    [type : {"value", "empty"}, error : {None}]
        \cup [type : {"error", "deltaError"}, error : ModelInvokeError]

ASSUME NoneIsNoOutcome == None \notin Outcome

Failure(error) == [type |-> "error", error |-> error]
Plain(kind) == [kind |-> kind, retry_delay |-> None]

VARIABLES
    pc,         \* where the call is
    attempt,    \* number of the current attempt
    delay,      \* the wait decided on
    wake,       \* when the sleep ends
    result,     \* what the caller got, or None
    now,        \* the clock
    deadline,   \* CallControl::deadline, or None
    cancelled,  \* the control's token
    begun,      \* history: when the current attempt began
    log         \* history: the attempts that ran: [begin, end, outcome]

call    == <<pc, attempt, delay, wake, result>>
control == <<now, deadline, cancelled>>
history == <<begun, log>>
vars    == <<call, control, history>>

TypeOK ==
    /\ pc \in {"check", "attempt", "ran", "arm", "sleep", "done"}
    /\ attempt \in 1..MaxAttempts
    /\ delay \in Nat /\ wake \in Nat /\ now \in Nat /\ begun \in Nat
    /\ result \in Outcome \cup {None}
    /\ deadline \in Nat \cup {None}
    /\ cancelled \in BOOLEAN
    /\ log \in Seq([begin : Nat, end : Nat, outcome : Outcome])

Init ==
    /\ pc = "check" /\ attempt = 1 /\ delay = 0 /\ wake = 0 /\ result = None
    /\ now = 0 /\ deadline \in Deadlines /\ cancelled = FALSE
    /\ begun = 0 /\ log = <<>>

-----------------------------------------------------------------------------
(* The control: any thread cancels, and the clock moves on.                  *)
Expired == deadline # None /\ now >= deadline
Stopped == cancelled \/ Expired
ControlFailure == Failure(Plain(IF cancelled THEN "Cancelled" ELSE "TimedOut"))

Cancel ==
    /\ ~cancelled /\ pc # "done"
    /\ cancelled' = TRUE
    /\ UNCHANGED <<call, now, deadline, history>>

Tick ==
    /\ now < MaxTime \/ (pc = "sleep" /\ now < wake)
    /\ pc # "done"
    /\ now' = now + 1
    /\ UNCHANGED <<call, deadline, cancelled, history>>

-----------------------------------------------------------------------------
(* The policy.                                                               *)

(* Mutant: an unknown outcome is retried.                                    *)
RetryableUnlessRefused(error) ==
    /\ attempt < MaxAttempts
    /\ error.kind \in {"Transient", "TimedOut", "UnknownOutcome"}

Retryable(error) ==
    /\ attempt < MaxAttempts
    /\ error.kind \in {"Transient", "TimedOut"}

Doubled(n) ==
    LET doubling == 2 ^ (IF n - 1 < 31 THEN n - 1 ELSE 31)
    IN  IF BaseDelay * doubling < MaxDelay THEN BaseDelay * doubling ELSE MaxDelay

(* The jitter takes up to a quarter off, rounding down.                      *)
Backoff(n) == {d \in 0..MaxDelay : 3 * Doubled(n) <= 4 * d + 3 /\ d <= Doubled(n)}

(* Mutant: the ceiling on the wrapper's own backoff cuts the server's delay. *)
DelaysCapped(error, n) ==
    IF error.retry_delay = None THEN Backoff(n)
    ELSE {IF d <= MaxDelay THEN d ELSE MaxDelay : d \in {error.retry_delay} \cap 0..MaxServerDelay}

(* The waits there may be after attempt n failed with error: none if the     *)
(* server asks for more than the host allows.                                *)
Delays(error, n) ==
    IF error.retry_delay = None THEN Backoff(n)
    ELSE {d \in {error.retry_delay} : d <= MaxServerDelay}

Reaches(d) == deadline # None /\ now + d >= deadline

-----------------------------------------------------------------------------
(* The loop.                                                                 *)
Return(outcome) ==
    /\ pc' = "done"
    /\ result' = outcome
    /\ UNCHANGED <<attempt, delay, wake, control, history>>

CheckStops ==
    /\ pc = "check" /\ Stopped
    /\ Return(ControlFailure)

StartAttempt ==
    /\ pc = "check" /\ ~Stopped
    /\ pc' = "attempt"
    /\ begun' = now
    /\ UNCHANGED <<attempt, delay, wake, result, control, log>>

(* Mutants: an attempt is raced against the token only; a stop is always     *)
(* reported as a cancellation.                                               *)
AttemptCancelled ==
    /\ pc = "attempt" /\ cancelled
    /\ Return(ControlFailure)

AttemptStoppedAsCancelled ==
    /\ pc = "attempt" /\ Stopped
    /\ Return(Failure(Plain("Cancelled")))

AttemptStopped ==
    /\ pc = "attempt" /\ Stopped
    /\ Return(ControlFailure)

(* The token is looked at before the answer; the deadline's timer may be     *)
(* late, so an answer may still win against it.                              *)
AttemptRuns ==
    /\ pc = "attempt" /\ ~cancelled
    /\ \E outcome \in Outcome :
           log' = Append(log, [begin |-> begun, end |-> now, outcome |-> outcome])
    /\ pc' = "ran"
    /\ UNCHANGED <<attempt, delay, wake, result, control, begun>>

Ran == log[Len(log)].outcome
Fails == Ran.type \in {"error", "deltaError"} /\ Retryable(Ran.error)

(* A first item is handed on, an error of any kind is returned as it is ...  *)
HandOn ==
    /\ pc = "ran" /\ Ran.type # "empty" /\ ~Fails
    /\ Return(Ran)

StreamWasEmpty ==
    /\ pc = "ran" /\ Ran.type = "empty"
    /\ Return(Failure(Plain("UnknownOutcome")))

(* ... unless the policy retries it: wait() gives up,                        *)
GiveUp ==
    /\ pc = "ran" /\ Fails
    /\ \/ Delays(Ran.error, attempt) = {}
       \/ \E d \in Delays(Ran.error, attempt) : Reaches(d)
    /\ Return(Failure(Ran.error))

(* or decides how long to sleep, and then starts to sleep.                   *)
DecideWait ==
    /\ pc = "ran" /\ Fails
    /\ \E d \in Delays(Ran.error, attempt) :
           /\ ~Reaches(d)
           /\ delay' = d
    /\ pc' = "arm"
    /\ UNCHANGED <<attempt, wake, result, control, history>>

StartSleep ==
    /\ pc = "arm"
    /\ wake' = now + delay
    /\ pc' = "sleep"
    /\ UNCHANGED <<attempt, delay, result, control, history>>

SleepCancelled ==
    /\ pc = "sleep" /\ cancelled
    /\ Return(Failure(Plain("Cancelled")))

SleepTooLong ==
    /\ pc = "sleep" /\ now >= wake /\ ~cancelled /\ Expired
    /\ Return(Failure(Ran.error))

SleepEnds ==
    /\ pc = "sleep" /\ now >= wake /\ ~Stopped
    /\ attempt' = attempt + 1
    /\ pc' = "check"
    /\ UNCHANGED <<delay, wake, result, control, history>>

Terminated == pc = "done" /\ UNCHANGED vars

Wrapper ==
    \/ CheckStops \/ StartAttempt \/ AttemptStopped
    \/ HandOn \/ StreamWasEmpty \/ GiveUp \/ DecideWait
    \/ StartSleep \/ SleepCancelled \/ SleepTooLong \/ SleepEnds

Next == Cancel \/ Tick \/ AttemptRuns \/ Wrapper \/ Terminated

Spec == Init /\ [][Next]_vars

(* The call is polled whenever it can go on, and time passes; the inner      *)
(* gateway owes nothing.                                                     *)
FairSpec == Spec /\ WF_vars(Wrapper) /\ WF_vars(Tick)

-----------------------------------------------------------------------------
Repeatable(outcome) ==
    /\ outcome.type \in {"error", "deltaError"}
    /\ outcome.error.kind \in {"Transient", "TimedOut"}

(* What must not be repeated (an answer, a refusal, an unknown outcome, or   *)
(* anything the caller was handed) is never followed by another attempt.     *)
NothingRepeated ==
    \A i \in 1..Len(log) :
        (i < Len(log) \/ pc = "attempt") => Repeatable(log[i].outcome)

Owed(error, n, span) ==
    IF error.retry_delay = None THEN \E d \in Backoff(n) : d <= span
    ELSE error.retry_delay <= MaxServerDelay /\ error.retry_delay <= span

NextBegin(i) == IF i < Len(log) THEN log[i + 1].begin ELSE begun

(* Attempts keep to the policy: no more than it allows, each begun before    *)
(* the deadline and after the whole wait the error before it asked for.      *)
PolicyHonoured ==
    /\ Len(log) <= MaxAttempts
    /\ \A i \in 1..Len(log) : deadline = None \/ log[i].begin < deadline
    /\ \A i \in 1..Len(log) :
           (i < Len(log) \/ pc = "attempt") =>
               Owed(log[i].outcome.error, i, NextBegin(i) - log[i].end)

(* The caller gets what the last attempt came to, and nothing else, unless   *)
(* the control really stopped the call or the stream was empty.              *)
ResultExplained ==
    pc = "done" =>
        \/ Len(log) > 0 /\ (result = Ran \/ result = Failure(Ran.error))
        \/ Len(log) > 0 /\ Ran.type = "empty" /\ result = Failure(Plain("UnknownOutcome"))
        \/ cancelled /\ result = Failure(Plain("Cancelled"))
        \/ Expired /\ result = Failure(Plain("TimedOut"))

(* A failure that could be retried is reported only when it cannot be: the   *)
(* attempts are used up, the server asks for too long, or the longest wait   *)
(* there might be would end after the deadline.                              *)
GivesUpForCause ==
    (pc = "done" /\ Len(log) > 0 /\ Repeatable(Ran) /\ result.error = Ran.error) =>
        \/ Len(log) = MaxAttempts
        \/ Delays(Ran.error, Len(log)) = {}
        \/ \E d \in Delays(Ran.error, Len(log)) : Reaches(d)

(* A cancellation or the deadline ends the call, though an attempt hangs.    *)
StopEnds == Stopped ~> pc = "done"
=============================================================================
