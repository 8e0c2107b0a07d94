------------------------ MODULE RetryingGatewayProofs ------------------------
(* Proofs about RetryingGateway, for every policy, every set of delays and   *)
(* deadlines, and every inner gateway.                                       *)
EXTENDS RetryingGateway, TLAPS

Record == [begin : Nat, end : Nat, outcome : Outcome]

(* How the counter follows the attempts that ran.                            *)
CountInv ==
    /\ pc \in {"check", "attempt"} => attempt = Len(log) + 1
    /\ pc \in {"ran", "arm", "sleep"} => attempt = Len(log)
    /\ pc \in {"arm", "sleep"} => attempt < MaxAttempts
    /\ Len(log) <= MaxAttempts

(* Which attempts have been, or will be, followed by another.                *)
Followed(i) == i < Len(log) \/ pc \in {"check", "attempt", "arm", "sleep"}

RepeatInv == \A i \in 1..Len(log) : Followed(i) => Repeatable(log[i].outcome)

(* The clock has seen everything, and the wait is one that was owed.         *)
ClockInv ==
    /\ begun <= now
    /\ \A i \in 1..Len(log) : log[i].end <= now

WaitInv ==
    /\ pc \in {"arm", "sleep"} => delay \in Delays(Ran.error, attempt)
    /\ pc = "sleep" => log[Len(log)].end + delay <= wake

InTime(moment) == deadline = None \/ moment < deadline

InTimeInv ==
    /\ \A i \in 1..Len(log) : InTime(log[i].begin)
    /\ pc = "attempt" => InTime(begun)

OwedBetween(i, moment) == Owed(log[i].outcome.error, i, moment - log[i].end)

OwedInv ==
    /\ \A i \in 1..Len(log) : i < Len(log) => OwedBetween(i, log[i + 1].begin)
    /\ pc = "attempt" /\ Len(log) > 0 => OwedBetween(Len(log), begun)
    /\ pc = "check" /\ Len(log) > 0 => OwedBetween(Len(log), now)

IInv ==
    /\ TypeOK /\ CountInv /\ RepeatInv /\ ClockInv /\ WaitInv /\ InTimeInv /\ OwedInv
    /\ ResultExplained /\ GivesUpForCause

Strengthening == TypeOK /\ CountInv /\ RepeatInv /\ ClockInv /\ WaitInv /\ InTimeInv /\ OwedInv
-----------------------------------------------------------------------------
(* Every delay of the policy is a natural number.                            *)
LEMMA DelaysAreNatural ==
    ASSUME NEW error \in ModelInvokeError, NEW n \in Nat
    PROVE  Delays(error, n) \subseteq Nat
<1>1. CASE error.retry_delay = None
  BY <1>1, PolicyAssumption DEF Delays, Backoff
<1>2. CASE error.retry_delay # None
  BY <1>2, PolicyAssumption DEF Delays, ModelInvokeError
<1> QED BY <1>1, <1>2

(* Sitting out a delay of Delays is what is owed, and more time does no harm.*)
LEMMA DelayIsOwed ==
    ASSUME NEW error \in ModelInvokeError, NEW n \in Nat, NEW span \in Int,
           NEW d \in Delays(error, n), d <= span
    PROVE  Owed(error, n, span)
BY PolicyAssumption DEF Delays, Owed, Backoff, ModelInvokeError

(* A wait that was owed stays owed when time goes on.                        *)
LEMMA OwedStays ==
    ASSUME NEW error \in ModelInvokeError, NEW n \in Nat, NEW span \in Int,
           NEW more \in Int, Owed(error, n, span), span <= more
    PROVE  Owed(error, n, more)
<1>1. CASE error.retry_delay = None
  BY <1>1, PolicyAssumption DEF Owed, Backoff
<1>2. CASE error.retry_delay # None
  <2>1. error.retry_delay \in Nat BY <1>2, PolicyAssumption DEF ModelInvokeError
  <2> QED BY <1>2, <2>1, PolicyAssumption DEF Owed
<1> QED BY <1>1, <1>2

(* What may be repeated ended in an error.                                   *)
LEMMA RepeatableHasError ==
    ASSUME NEW outcome \in Outcome, Repeatable(outcome)
    PROVE  outcome.error \in ModelInvokeError
BY DEF Repeatable, Outcome

(* The outcomes the gateway can have are well typed.                         *)
LEMMA OutcomesAreOutcomes ==
    /\ ControlFailure \in Outcome
    /\ Failure(Plain("UnknownOutcome")) \in Outcome
    /\ Failure(Plain("Cancelled")) \in Outcome
    /\ \A error \in ModelInvokeError : Failure(error) \in Outcome
BY DEF ControlFailure, Failure, Plain, Outcome, ModelInvokeError, ModelInvokeErrorKind

(* The entries of the log are well typed.                                    *)
LEMMA LogTyped ==
    ASSUME TypeOK
    PROVE  \A i \in 1..Len(log) :
               /\ log[i].begin \in Nat /\ log[i].end \in Nat /\ log[i].outcome \in Outcome
<1>1. log \in Seq(Record) BY DEF TypeOK, Record
<1>2. \A i \in 1..Len(log) : log[i] \in Record BY <1>1
<1> QED BY <1>2 DEF Record

(* So is the last of them.                                                   *)
LEMMA RanTyped == TypeOK /\ Len(log) > 0 => Ran \in Outcome
<1>1. TypeOK => Len(log) \in Nat BY DEF TypeOK
<1> QED BY <1>1, LogTyped DEF Ran

(* Returning disturbs nothing but the result.                                *)
LEMMA ReturnKeeps ==
    ASSUME Strengthening, NEW outcome \in Outcome, Return(outcome)
    PROVE  Strengthening'
<1> USE DEF Strengthening, Return, history, control
<1>1. TypeOK' BY DEF TypeOK
<1>2. CountInv' BY DEF CountInv
<1>3. RepeatInv' BY DEF RepeatInv, Followed
<1>4. ClockInv' BY DEF ClockInv
<1>5. WaitInv' BY DEF WaitInv
<1>6. InTimeInv' BY DEF InTimeInv, InTime
<1>7. OwedInv' BY DEF OwedInv, OwedBetween, Owed, Backoff, Doubled
<1> QED BY <1>1, <1>2, <1>3, <1>4, <1>5, <1>6, <1>7

(* Nothing was tried yet.                                                    *)
LEMMA InitInv == Init => IInv
<1> SUFFICES ASSUME Init PROVE IInv
  OBVIOUS
<1> USE PolicyAssumption DEF Init
<1>1. TypeOK
  <2>1. deadline \in Nat \cup {None} /\ attempt \in 1..MaxAttempts OBVIOUS
  <2>2. log \in Seq([begin : Nat, end : Nat, outcome : Outcome]) OBVIOUS
  <2> QED BY <2>1, <2>2 DEF TypeOK
<1>2. CountInv /\ RepeatInv /\ ClockInv BY DEF CountInv, RepeatInv, ClockInv
<1>3. WaitInv /\ InTimeInv /\ OwedInv BY DEF WaitInv, InTimeInv, OwedInv
<1>4. ResultExplained /\ GivesUpForCause BY DEF ResultExplained, GivesUpForCause
<1> QED BY <1>1, <1>2, <1>3, <1>4 DEF IInv

-----------------------------------------------------------------------------
(* The steps that do not return.                                             *)
LEMMA CancelInv == Strengthening /\ Cancel => Strengthening'
<1> SUFFICES ASSUME Strengthening, Cancel PROVE Strengthening'
  OBVIOUS
<1> USE DEF Strengthening, Cancel, call, history
<1>1. TypeOK' BY DEF TypeOK
<1>2. CountInv' BY DEF CountInv
<1>3. RepeatInv' BY DEF RepeatInv, Followed
<1>4. ClockInv' BY DEF ClockInv
<1>5. WaitInv' BY DEF WaitInv, Ran
<1>6. InTimeInv' BY DEF InTimeInv, InTime
<1>7. OwedInv' BY DEF OwedInv, OwedBetween
<1> QED BY <1>1, <1>2, <1>3, <1>4, <1>5, <1>6, <1>7

(* What the wrapper decided to repeat may be repeated.                       *)
LEMMA LastRepeatable ==
    ASSUME Strengthening, Len(log) > 0, pc \in {"check", "attempt", "arm", "sleep"}
    PROVE  /\ log[Len(log)].outcome.error \in ModelInvokeError
           /\ log[Len(log)].outcome = Ran /\ Ran.error \in ModelInvokeError
           /\ log[Len(log)].end \in Nat
           /\ Len(log) \in 1..Len(log)
<1>1. Len(log) \in 1..Len(log) BY DEF Strengthening, TypeOK
<1>2. Repeatable(log[Len(log)].outcome)
  BY <1>1 DEF Strengthening, RepeatInv, Followed
<1> QED BY <1>1, <1>2, LogTyped, RepeatableHasError DEF Strengthening, Ran

(* Time goes on.                                                             *)
LEMMA TickInv == Strengthening /\ Tick => Strengthening'
<1> SUFFICES ASSUME Strengthening, Tick PROVE Strengthening'
  OBVIOUS
<1> USE DEF Strengthening, Tick, call, history
<1>1. TypeOK' BY DEF TypeOK
<1>2. CountInv' BY DEF CountInv
<1>3. RepeatInv' BY DEF RepeatInv, Followed
<1>4. ClockInv' BY LogTyped DEF ClockInv, TypeOK
<1>5. WaitInv' BY DEF WaitInv, Ran
<1>6. InTimeInv' BY DEF InTimeInv, InTime
<1>7. OwedInv'
  <2>1. \A i \in 1..Len(log) : i < Len(log) => OwedBetween(i, log[i + 1].begin)'
    BY DEF OwedInv, OwedBetween
  <2>2. pc = "attempt" /\ Len(log) > 0 => OwedBetween(Len(log), begun)'
    BY DEF OwedInv, OwedBetween
  <2>3. ASSUME pc = "check", Len(log) > 0
        PROVE  OwedBetween(Len(log), now)'
    <3>1. Owed(log[Len(log)].outcome.error, Len(log), now - log[Len(log)].end)
      BY <2>3 DEF OwedInv, OwedBetween
    <3>2. Owed(log[Len(log)].outcome.error, Len(log), now' - log[Len(log)].end)
      BY <3>1, <2>3, LastRepeatable, OwedStays DEF TypeOK
    <3> QED BY <3>2 DEF OwedBetween
  <2> QED BY <2>1, <2>2, <2>3 DEF OwedInv
<1> QED BY <1>1, <1>2, <1>3, <1>4, <1>5, <1>6, <1>7

(* An attempt starts.                                                        *)
LEMMA StartAttemptInv == Strengthening /\ StartAttempt => Strengthening'
<1> SUFFICES ASSUME Strengthening, StartAttempt PROVE Strengthening'
  OBVIOUS
<1> USE DEF Strengthening, StartAttempt, control
<1>1. TypeOK' BY DEF TypeOK
<1>2. CountInv' BY DEF CountInv
<1>3. RepeatInv' BY DEF RepeatInv, Followed
<1>4. ClockInv' BY LogTyped DEF ClockInv, TypeOK
<1>5. WaitInv' BY DEF WaitInv
<1>6. InTimeInv' BY PolicyAssumption DEF InTimeInv, InTime, Stopped, Expired, TypeOK
<1>7. OwedInv' BY DEF OwedInv, OwedBetween
<1> QED BY <1>1, <1>2, <1>3, <1>4, <1>5, <1>6, <1>7

(* The gateway answers, or the stop reaches the attempt.                     *)
LEMMA AttemptRunsInv == Strengthening /\ AttemptRuns => Strengthening'
<1> SUFFICES ASSUME Strengthening, AttemptRuns PROVE Strengthening'
  OBVIOUS
<1> USE DEF Strengthening, AttemptRuns, control
<1>1. PICK outcome \in Outcome :
        log' = Append(log, [begin |-> begun, end |-> now, outcome |-> outcome])
  OBVIOUS
<1> DEFINE entry == [begin |-> begun, end |-> now, outcome |-> outcome]
<1>2. entry \in Record BY DEF Record, TypeOK
<1>3. /\ log \in Seq(Record) /\ Len(log) \in Nat /\ log' \in Seq(Record)
      /\ Len(log') = Len(log) + 1
      /\ log'[Len(log) + 1] = entry
      /\ \A i \in 1..Len(log) : log'[i] = log[i]
  BY <1>1, <1>2 DEF TypeOK, Record
<1> HIDE DEF entry
<1>4. TypeOK' BY <1>3 DEF TypeOK, Record
<1>5. CountInv' BY <1>3 DEF CountInv, TypeOK
<1>6. RepeatInv' BY <1>3 DEF RepeatInv, Followed
<1>7. ClockInv' BY <1>3, LogTyped DEF ClockInv, TypeOK, entry
<1>8. WaitInv' BY DEF WaitInv
<1>9. InTimeInv' BY <1>3 DEF InTimeInv, InTime, entry
<1>10. OwedInv'
  <2>1. ASSUME NEW i \in 1..Len(log'), i < Len(log')
        PROVE  OwedBetween(i, log[i + 1].begin)'
    <3>1. i \in 1..Len(log) /\ log'[i] = log[i] BY <2>1, <1>3
    <3>2. CASE i < Len(log)
      <4>1. log'[i + 1] = log[i + 1] BY <3>1, <3>2, <1>3
      <4> QED BY <3>1, <3>2, <4>1 DEF OwedInv, OwedBetween
    <3>3. CASE i = Len(log)
      <4>1. log'[i + 1].begin = begun BY <3>3, <1>3 DEF entry
      <4>2. OwedBetween(Len(log), begun) BY <3>1, <3>3, <1>3 DEF OwedInv
      <4> QED BY <3>1, <3>3, <4>1, <4>2 DEF OwedBetween
    <3> QED BY <3>1, <3>2, <3>3, <1>3
  <2> QED BY <2>1 DEF OwedInv
<1> QED BY <1>4, <1>5, <1>6, <1>7, <1>8, <1>9, <1>10

(* The wrapper decides to wait.                                              *)
LEMMA DecideWaitInv == Strengthening /\ DecideWait => Strengthening'
<1> SUFFICES ASSUME Strengthening, DecideWait PROVE Strengthening'
  OBVIOUS
<1> USE DEF Strengthening, DecideWait, control, history
<1>1. PICK d \in Delays(Ran.error, attempt) : ~Reaches(d) /\ delay' = d
  OBVIOUS
<1>2. attempt = Len(log) /\ Len(log) \in 1..Len(log) /\ Len(log) > 0
  BY DEF CountInv, TypeOK
<1>3. Repeatable(Ran) /\ attempt < MaxAttempts
  BY DEF Fails, Retryable, Repeatable
<1>4. Ran.error \in ModelInvokeError BY <1>2, <1>3, RanTyped, RepeatableHasError
<1>5. d \in Nat BY <1>1, <1>4, DelaysAreNatural DEF TypeOK
<1>6. TypeOK' BY <1>1, <1>5 DEF TypeOK
<1>7. CountInv' BY <1>3 DEF CountInv
<1>8. RepeatInv' BY <1>2, <1>3 DEF RepeatInv, Followed, Ran, TypeOK
<1>9. ClockInv' BY DEF ClockInv
<1>10. WaitInv' BY <1>1 DEF WaitInv, Ran
<1>11. InTimeInv' BY DEF InTimeInv, InTime
<1>12. OwedInv' BY DEF OwedInv, OwedBetween
<1> QED BY <1>6, <1>7, <1>8, <1>9, <1>10, <1>11, <1>12

(* The wait starts.                                                          *)
LEMMA StartSleepInv == Strengthening /\ StartSleep => Strengthening'
<1> SUFFICES ASSUME Strengthening, StartSleep PROVE Strengthening'
  OBVIOUS
<1> USE DEF Strengthening, StartSleep, control, history
<1>1. Len(log) \in 1..Len(log) BY DEF CountInv, TypeOK
<1>2. log[Len(log)].end \in Nat /\ log[Len(log)].end <= now
  BY <1>1, LogTyped DEF ClockInv
<1>3. TypeOK' BY DEF TypeOK
<1>4. CountInv' BY DEF CountInv
<1>5. RepeatInv' BY DEF RepeatInv, Followed
<1>6. ClockInv' BY DEF ClockInv
<1>7. WaitInv'
  <2>1. (delay \in Delays(Ran.error, attempt))' BY DEF WaitInv, Ran
  <2>2. log'[Len(log')].end + delay' <= wake' BY <1>2 DEF TypeOK
  <2> QED BY <2>1, <2>2 DEF WaitInv
<1>8. InTimeInv' BY DEF InTimeInv, InTime
<1>9. OwedInv' BY DEF OwedInv, OwedBetween
<1> QED BY <1>3, <1>4, <1>5, <1>6, <1>7, <1>8, <1>9

(* The wait that is over was owed, so the next attempt comes late enough.    *)
LEMMA SleepEndsInv == Strengthening /\ SleepEnds => Strengthening'
<1> SUFFICES ASSUME Strengthening, SleepEnds PROVE Strengthening'
  OBVIOUS
<1> USE DEF Strengthening, SleepEnds, control, history
<1>1. Len(log) \in 1..Len(log) /\ Len(log) > 0 /\ attempt = Len(log)
  BY DEF CountInv, TypeOK
<1>2. /\ log[Len(log)].outcome.error \in ModelInvokeError
      /\ log[Len(log)].outcome = Ran
      /\ log[Len(log)].end \in Nat
  BY <1>1, LastRepeatable
<1>3. TypeOK' BY <1>1, PolicyAssumption DEF TypeOK, CountInv
<1>4. CountInv' BY DEF CountInv
<1>5. RepeatInv' BY DEF RepeatInv, Followed
<1>6. ClockInv' BY DEF ClockInv
<1>7. WaitInv' BY DEF WaitInv
<1>8. InTimeInv' BY DEF InTimeInv, InTime
<1>9. OwedInv'
  <2>1. \A i \in 1..Len(log) : i < Len(log) => OwedBetween(i, log[i + 1].begin)'
    BY DEF OwedInv, OwedBetween
  <2>2. delay \in Delays(log[Len(log)].outcome.error, Len(log))
    BY <1>1, <1>2 DEF WaitInv
  <2>3. delay <= now - log[Len(log)].end BY <1>2 DEF WaitInv, TypeOK
  <2>4. Owed(log[Len(log)].outcome.error, Len(log), now - log[Len(log)].end)
    BY <1>1, <1>2, <2>2, <2>3, DelayIsOwed DEF TypeOK
  <2> QED BY <2>1, <2>4 DEF OwedInv, OwedBetween
<1> QED BY <1>3, <1>4, <1>5, <1>6, <1>7, <1>8, <1>9

-----------------------------------------------------------------------------
(* The steps that return.                                                    *)
Explained(outcome) ==
    \/ Len(log) > 0 /\ (outcome = Ran \/ outcome = Failure(Ran.error))
    \/ Len(log) > 0 /\ Ran.type = "empty" /\ outcome = Failure(Plain("UnknownOutcome"))
    \/ cancelled /\ outcome = Failure(Plain("Cancelled"))
    \/ Expired /\ outcome = Failure(Plain("TimedOut"))

Caused(outcome) ==
    (Len(log) > 0 /\ Repeatable(Ran) /\ outcome.error = Ran.error) =>
        \/ Len(log) = MaxAttempts
        \/ Delays(Ran.error, Len(log)) = {}
        \/ \E d \in Delays(Ran.error, Len(log)) : Reaches(d)

(* What every way to return has in common.                                   *)
LEMMA ReturnInv ==
    ASSUME Strengthening, NEW outcome \in Outcome, Return(outcome),
           Explained(outcome), Caused(outcome)
    PROVE  IInv'
<1>1. Strengthening' BY ReturnKeeps
<1>2. ResultExplained' BY DEF Return, control, history, Explained, ResultExplained, Ran, Expired
<1>3. GivesUpForCause'
  <2>1. pc' = "done" /\ result' = outcome /\ log' = log /\ now' = now /\ deadline' = deadline
    BY DEF Return, control, history
  <2>2. Ran' = Ran BY <2>1 DEF Ran
  <2>3. \A d : Reaches(d)' <=> Reaches(d) BY <2>1 DEF Reaches
  <2> QED BY <2>1, <2>2, <2>3 DEF Caused, GivesUpForCause, Repeatable, Delays, Backoff, Doubled
<1> QED BY <1>1, <1>2, <1>3 DEF IInv, Strengthening

(* Once the deadline is reached every wait would reach it.                   *)
LEMMA ExpiredIsACause ==
    ASSUME Strengthening, Expired, NEW outcome
    PROVE  Caused(outcome)
<1> SUFFICES ASSUME Len(log) > 0, Repeatable(Ran), Delays(Ran.error, Len(log)) # {}
             PROVE  \E d \in Delays(Ran.error, Len(log)) : Reaches(d)
  BY DEF Caused
<1>1. Ran.error \in ModelInvokeError /\ Len(log) \in Nat
  BY RanTyped, RepeatableHasError DEF Strengthening, TypeOK
<1>2. PICK d \in Delays(Ran.error, Len(log)) : TRUE OBVIOUS
<1>3. d \in Nat BY <1>1, <1>2, DelaysAreNatural
<1>4. Reaches(d) BY <1>3 DEF Expired, Reaches, Strengthening, TypeOK
<1> QED BY <1>2, <1>4

(* A call that was cancelled needs no other cause to end.                    *)
LEMMA CancellationNeedsNoCause ==
    ASSUME NEW outcome, outcome.error.kind \notin {"Transient", "TimedOut"}
    PROVE  Caused(outcome)
BY DEF Caused, Repeatable

(* The stop is seen between two steps.                                       *)
LEMMA ControlStopsInv ==
    ASSUME Strengthening, Stopped, Return(ControlFailure)
    PROVE  IInv'
<1>1. Explained(ControlFailure) BY DEF Explained, ControlFailure, Stopped
<1>2. Caused(ControlFailure)
  <2>1. CASE cancelled
    <3>1. ControlFailure.error.kind = "Cancelled" BY <2>1 DEF ControlFailure, Failure, Plain
    <3> QED BY <3>1, CancellationNeedsNoCause
  <2>2. CASE Expired BY <2>2, ExpiredIsACause
  <2> QED BY <2>1, <2>2 DEF Stopped
<1> QED BY <1>1, <1>2, OutcomesAreOutcomes, ReturnInv

(* The attempt that just ran is the last of the log.                         *)
LEMMA RanNow ==
    ASSUME Strengthening, pc \in {"ran", "arm", "sleep"}
    PROVE  Len(log) \in Nat /\ Len(log) > 0 /\ attempt = Len(log) /\ Ran \in Outcome
<1>1. Len(log) \in Nat /\ Len(log) > 0 /\ attempt = Len(log)
  BY DEF Strengthening, CountInv, TypeOK
<1> QED BY <1>1, RanTyped DEF Strengthening

(* The wrapper hands on what the gateway gave.                               *)
LEMMA HandOnInv == Strengthening /\ HandOn => IInv'
<1> SUFFICES ASSUME Strengthening, HandOn PROVE IInv'
  OBVIOUS
<1>1. Len(log) \in Nat /\ Len(log) > 0 /\ attempt = Len(log) /\ Ran \in Outcome
  BY RanNow DEF HandOn
<1>2. Explained(Ran) BY <1>1 DEF Explained
<1>3. Caused(Ran)
  <2> SUFFICES ASSUME Repeatable(Ran) PROVE Len(log) = MaxAttempts
    BY DEF Caused
  <2>1. ~(attempt < MaxAttempts) BY DEF HandOn, Fails, Retryable, Repeatable
  <2> QED BY <1>1, <2>1, PolicyAssumption DEF Strengthening, TypeOK
<1> QED BY <1>1, <1>2, <1>3, ReturnInv DEF HandOn

(* A stream that ended at once is an error of its own.                       *)
LEMMA StreamWasEmptyInv == Strengthening /\ StreamWasEmpty => IInv'
<1> SUFFICES ASSUME Strengthening, StreamWasEmpty PROVE IInv'
  OBVIOUS
<1> DEFINE unknown == Failure(Plain("UnknownOutcome"))
<1>1. Len(log) > 0 BY RanNow DEF StreamWasEmpty
<1>2. Explained(unknown) BY <1>1 DEF Explained, StreamWasEmpty
<1>3. Caused(unknown) BY DEF Caused, Repeatable, StreamWasEmpty
<1> QED BY <1>2, <1>3, OutcomesAreOutcomes, ReturnInv DEF StreamWasEmpty

(* The wrapper gives up.                                                     *)
LEMMA GiveUpInv == Strengthening /\ GiveUp => IInv'
<1> SUFFICES ASSUME Strengthening, GiveUp PROVE IInv'
  OBVIOUS
<1>1. Len(log) > 0 /\ attempt = Len(log) /\ Ran \in Outcome
  BY RanNow DEF GiveUp
<1>2. Failure(Ran.error) \in Outcome
  BY <1>1, RepeatableHasError, OutcomesAreOutcomes DEF GiveUp, Fails, Retryable, Repeatable
<1>3. Explained(Failure(Ran.error)) BY <1>1 DEF Explained
<1>4. Caused(Failure(Ran.error)) BY <1>1 DEF Caused, GiveUp
<1> QED BY <1>2, <1>3, <1>4, ReturnInv DEF GiveUp

(* The wait is stopped, or would outlast the deadline.                       *)
LEMMA SleepStopsInv == Strengthening /\ (SleepCancelled \/ SleepTooLong) => IInv'
<1> SUFFICES ASSUME Strengthening, SleepCancelled \/ SleepTooLong PROVE IInv'
  OBVIOUS
<1>1. CASE SleepCancelled
  <2> DEFINE stop == Failure(Plain("Cancelled"))
  <2>1. Explained(stop) BY <1>1 DEF Explained, SleepCancelled
  <2>2. stop.error.kind = "Cancelled" BY DEF Failure, Plain
  <2>3. Caused(stop) BY <2>2, CancellationNeedsNoCause
  <2> QED BY <1>1, <2>1, <2>3, OutcomesAreOutcomes, ReturnInv DEF SleepCancelled
<1>2. CASE SleepTooLong
  <2>1. Len(log) > 0 BY <1>2, RanNow DEF SleepTooLong
  <2>2. Failure(Ran.error) \in Outcome
    BY <1>2, <2>1, LastRepeatable, OutcomesAreOutcomes DEF SleepTooLong
  <2>3. Explained(Failure(Ran.error)) BY <2>1 DEF Explained
  <2>4. Caused(Failure(Ran.error)) BY <1>2, ExpiredIsACause DEF SleepTooLong
  <2> QED BY <1>2, <2>2, <2>3, <2>4, ReturnInv DEF SleepTooLong
<1> QED BY <1>1, <1>2

-----------------------------------------------------------------------------
(* The steps of the wrapper together.                                        *)
LEMMA WrapperInv == IInv /\ Wrapper => IInv'
<1> SUFFICES ASSUME Strengthening, Wrapper PROVE IInv'
  BY DEF IInv, Strengthening
<1>1. CASE CheckStops BY <1>1, ControlStopsInv DEF CheckStops
<1>2. CASE AttemptStopped BY <1>2, ControlStopsInv DEF AttemptStopped
<1>3. CASE StartAttempt
  BY <1>3, StartAttemptInv DEF StartAttempt, IInv, Strengthening,
     ResultExplained, GivesUpForCause
<1>4. CASE DecideWait
  BY <1>4, DecideWaitInv DEF DecideWait, IInv, Strengthening, ResultExplained, GivesUpForCause
<1>5. CASE StartSleep
  BY <1>5, StartSleepInv DEF StartSleep, IInv, Strengthening, ResultExplained, GivesUpForCause
<1>6. CASE SleepEnds
  BY <1>6, SleepEndsInv DEF SleepEnds, IInv, Strengthening, ResultExplained, GivesUpForCause
<1> QED
  BY <1>1, <1>2, <1>3, <1>4, <1>5, <1>6, HandOnInv, StreamWasEmptyInv, GiveUpInv,
     SleepStopsInv DEF Wrapper

(* A stutter keeps the invariant.                                            *)
LEMMA UnchangedInv == IInv /\ UNCHANGED vars => IInv'
<1> SUFFICES ASSUME Strengthening, ResultExplained, GivesUpForCause, UNCHANGED vars
             PROVE  IInv'
  BY DEF IInv, Strengthening
<1> USE DEF vars, call, control, history
<1>1. TypeOK' /\ CountInv' /\ ClockInv' BY DEF Strengthening, TypeOK, CountInv, ClockInv
<1>2. RepeatInv' BY DEF Strengthening, RepeatInv, Followed
<1>3. WaitInv' BY DEF Strengthening, WaitInv, Ran
<1>4. InTimeInv' BY DEF Strengthening, InTimeInv, InTime
<1>5. OwedInv' BY DEF Strengthening, OwedInv, OwedBetween
<1>6. ResultExplained' BY DEF ResultExplained, Ran, Expired
<1>7. GivesUpForCause' BY DEF GivesUpForCause, Ran, Reaches
<1> QED BY <1>1, <1>2, <1>3, <1>4, <1>5, <1>6, <1>7 DEF IInv

(* Every step keeps the invariant                                            *)
LEMMA NextInv == IInv /\ [Next]_vars => IInv'
<1> SUFFICES ASSUME IInv, [Next]_vars PROVE IInv'
  OBVIOUS
<1>1. Strengthening BY DEF IInv, Strengthening
<1>2. CASE Cancel
  BY <1>1, <1>2, CancelInv DEF Cancel, call, IInv, Strengthening, ResultExplained, GivesUpForCause
<1>3. CASE Tick
  BY <1>1, <1>3, TickInv DEF Tick, call, IInv, Strengthening, ResultExplained, GivesUpForCause
<1>4. CASE AttemptRuns
  BY <1>1, <1>4, AttemptRunsInv DEF AttemptRuns, IInv, Strengthening, ResultExplained, GivesUpForCause
<1>5. CASE Wrapper BY <1>5, WrapperInv
<1>6. CASE UNCHANGED vars BY <1>6, UnchangedInv
<1> QED BY <1>2, <1>3, <1>4, <1>5, <1>6 DEF Next, Terminated

(* so that it holds of every reachable state.                                *)
LEMMA InvariantHolds == Spec => []IInv
BY InitInv, NextInv, PTL DEF Spec

(* Whatever must not be repeated is not followed by another attempt.         *)
THEOREM NeverRepeats == Spec => []NothingRepeated
<1>1. IInv => NothingRepeated BY DEF IInv, RepeatInv, Followed, NothingRepeated
<1> QED BY <1>1, InvariantHolds, PTL

(* The attempts keep to the policy and to the server's delays.               *)
THEOREM KeepsToPolicy == Spec => []PolicyHonoured
<1>1. IInv => PolicyHonoured
  <2> SUFFICES ASSUME IInv PROVE PolicyHonoured
    OBVIOUS
  <2>1. Len(log) \in Nat BY DEF IInv, TypeOK
  <2>2. ASSUME NEW i \in 1..Len(log), i < Len(log) \/ pc = "attempt"
        PROVE  Owed(log[i].outcome.error, i, NextBegin(i) - log[i].end)
    <3>1. CASE i < Len(log) BY <3>1 DEF IInv, OwedInv, OwedBetween, NextBegin
    <3>2. CASE ~(i < Len(log))
      <4>1. i = Len(log) /\ Len(log) > 0 BY <2>1, <3>2
      <4> QED BY <2>2, <3>2, <4>1 DEF IInv, OwedInv, OwedBetween, NextBegin
    <3> QED BY <3>1, <3>2
  <2> QED BY <2>2 DEF IInv, CountInv, InTimeInv, InTime, PolicyHonoured
<1> QED BY <1>1, InvariantHolds, PTL

(* The caller is told what really happened.                                  *)
THEOREM ResultIsReal == Spec => []ResultExplained
<1>1. IInv => ResultExplained BY DEF IInv
<1> QED BY <1>1, InvariantHolds, PTL

(* The call never gives up while the policy allows another attempt in time.  *)
THEOREM GivesUpOnlyForCause == Spec => []GivesUpForCause
<1>1. IInv => GivesUpForCause BY DEF IInv
<1> QED BY <1>1, InvariantHolds, PTL
=============================================================================
