---------------------------- MODULE StepAttempts ----------------------------
(***************************************************************************)
(* The attempts of steps: one task row per step, leased to one dispatch     *)
(* after the other, the lambda with its timeout and the transaction it may  *)
(* register with zart::trx, and the one transaction that records how an     *)
(* attempt ended.                                                           *)
(*                                                                         *)
(* DurableExecution has the same dispatches without time, attempt rows and  *)
(* user transactions, and the body they belong to.  Time is relative here:  *)
(* each deadline is the number of ticks left.                               *)
(***************************************************************************)
EXTENDS Naturals, FiniteSets

CONSTANTS
  Step,          \* steps of one run
  Dispatch,      \* room for dispatches
  MaxAttempts,   \* the values of RetryConfig.max_attempts a step may have
  InitialDelay,  \* initial_delay of every RetryConfig
  MaxDelay,      \* max_delay of those that have one
  Timeout,       \* timeout() of every step that has one
  Lifetime,      \* the handler's timeout, if it has one
  MaxFaults      \* bound on crashes and lapsed leases

Nobody == "nobody"      \* worker_id IS NULL
Gone == "gone"          \* the lock of a dispatch that died

ASSUME AttemptsAssumption ==
  /\ IsFiniteSet(Step) /\ Step # {}
  /\ Nobody \notin Dispatch /\ Gone \notin Dispatch
  /\ MaxAttempts \subseteq Nat
  /\ InitialDelay \in Nat /\ MaxDelay \in Nat
  /\ Timeout \in Nat \ {0} /\ Lifetime \in Nat \ {0} /\ MaxFaults \in Nat
  /\ \A n \in MaxAttempts : InitialDelay * 2 ^ n <= Timeout + Lifetime

VARIABLES
  config,      \* config[s]: how step s is declared; does not change
  life,        \* ticks until the execution's deadline, or Unlimited
  left,        \* left[s]: ticks until the deadline in the task's metadata
  tasks,       \* tasks[s]: the task row of step s
  steps,       \* steps[s]: the row of step s
  attempts,    \* zart_step_attempts
  effects,     \* effects[s]: transactions of the step's lambda that committed
  run,         \* status of the run
  dispatches,  \* dispatches[d]
  faults       \* faults so far

attemptVars == <<config, life, left, tasks, steps, attempts, effects, run, dispatches, faults>>
times == <<config, life, left>>
rows == <<tasks, steps, attempts, effects, run>>

-----------------------------------------------------------------------------

Unlimited == Timeout + Lifetime + 1     \* more ticks than there are: no deadline
Scope == {"none", "per_attempt", "global"}
Config == [retries : MaxAttempts \cup {0}, doubles : BOOLEAN, capped : BOOLEAN,
           scope : Scope, child : BOOLEAN]

(* How a step is declared: by what follows its name in #[zart_step], or as a  *)
(* ZartStep of its own, whose RetryConfig may have a max_delay.              *)
Attributes == [retry : {"none", "fixed", "exponential", "capped"}, attempts : MaxAttempts,
               timeout : BOOLEAN, scope : Scope]

(* The constructors of RetryConfig; the multiplier is 2.0 or 1.0.            *)
RetryConfig(kind, n) ==
  [retries |-> IF kind = "none" THEN 0 ELSE n,
   doubles |-> kind # "fixed", capped |-> kind = "capped"]

(* The impl of ZartStep the macro generates: what is not given is left to the *)
(* trait, where a timeout has global scope.                                  *)
Implemented(a) ==
  LET scope == IF ~a.timeout THEN "none" ELSE IF a.scope = "none" THEN "global" ELSE a.scope
      retry == RetryConfig(a.retry, a.attempts)
  IN  [retries |-> retry.retries, doubles |-> retry.doubles, capped |-> retry.capped,
       scope |-> scope, child |-> FALSE]

(* A step that is scheduled for a wait has neither retries nor a timeout,     *)
(* whatever was declared.                                                    *)
AsChild(a) == [Implemented(a) EXCEPT !.retries = 0, !.doubles = TRUE, !.capped = FALSE,
                                     !.scope = "none", !.child = TRUE]

(* The timeout of #[zart_durable].                                           *)
LifeOf(timeout) == IF timeout THEN Lifetime ELSE Unlimited

TaskRow == [status : {"absent", "scheduled", "picked_up", "completed", "failed"},
            holder : Dispatch \cup {Nobody, Gone},
            attempt : Nat,
            wait : Nat,               \* ticks until execution_time
            retried : BOOLEAN]        \* whether it has the id retry_dead_step makes
StepRow == [status : {"scheduled", "completed", "dead"},
            result : {"none", "ok", "err", "rx", "timeout", "null"}]
AttemptRow == [step : Step, number : Nat, status : {"completed", "failed"}]

Dispatched == [phase : {"idle", "fetched", "checked", "running", "returned", "completing",
                        "hintless"},
               step : Step, retry : Nat,
               limit : 0..Unlimited,   \* ticks until tokio's timeout
               trx : BOOLEAN,                  \* whether zart::trx registered a transaction
               kind : {"none", "ok", "err", "rx", "timeout", "bad", "null"}]
AnyStep == CHOOSE s \in Step : TRUE
Idle == [phase |-> "idle", step |-> AnyStep, retry |-> 0, limit |-> Unlimited, trx |-> FALSE,
         kind |-> "none"]

AttemptsTypeOK ==
  /\ config \in [Step -> Config]
  /\ life \in 0..Lifetime \cup {Unlimited}
  /\ left \in [Step -> 0..Timeout \cup {Unlimited}]
  /\ tasks \in [Step -> TaskRow]
  /\ steps \in [Step -> StepRow]
  /\ attempts \subseteq AttemptRow
  /\ effects \in [Step -> Nat]
  /\ run \in {"scheduled", "running", "failed"}
  /\ dispatches \in [Dispatch -> Dispatched]
  /\ faults \in 0..MaxFaults

At(d, phase) == dispatches[d].phase = phase
StepOf(d) == dispatches[d].step
Become(d, e) == dispatches' = [dispatches EXCEPT ![d] = e]
Ends(d) == Become(d, Idle)

RowExists(d) == tasks[StepOf(d)].status # "absent"
HoldsLock(d) == tasks[StepOf(d)].holder = d

Settled(s, status) == [tasks EXCEPT ![s].status = status, ![s].holder = Nobody]

(* INSERT ... ON CONFLICT (attempt_id) DO NOTHING.                          *)
WithAttempt(s, n, status) ==
  IF \E a \in attempts : a.step = s /\ a.number = n THEN attempts
  ELSE attempts \cup {[step |-> s, number |-> n, status |-> status]}

-----------------------------------------------------------------------------
(* Time.                                                                    *)

Lower(t) == IF t = Unlimited \/ t = 0 THEN t ELSE t - 1
Sooner(t, u) == IF t < u THEN t ELSE u

Tick ==
  /\ life' = Lower(life)
  /\ left' = [s \in Step |-> Lower(left[s])]
  /\ tasks' = [s \in Step |-> [tasks[s] EXCEPT !.wait = Lower(@)]]
  /\ dispatches' = [d \in Dispatch |-> [dispatches[d] EXCEPT !.limit = Lower(@)]]
  /\ UNCHANGED <<config, steps, attempts, effects, run, faults>>

(* RetryConfig::delay_for, for a retry there is.                            *)
HasRetryFromZero(s, n) == n # 0 /\ n - 1 <= config[s].retries
HasRetry(s, n) == n # 0 /\ n <= config[s].retries
Delay(s, n) ==
  LET delay == IF config[s].doubles THEN InitialDelay * 2 ^ (n - 1) ELSE InitialDelay
  IN  IF config[s].capped THEN Sooner(delay, MaxDelay) ELSE delay

(* A step of global scope has what is left of its own deadline or of the     *)
(* execution's; nothing left of the latter is no timeout at all.             *)
AnewEachTime(s) == IF config[s].scope = "none" THEN Unlimited ELSE Timeout
EffectiveTimeout(s) ==
  IF config[s].scope = "global" THEN IF life = 0 THEN Unlimited ELSE Sooner(left[s], life)
  ELSE AnewEachTime(s)

-----------------------------------------------------------------------------
(* A dispatch, up to what the lambda returns.                               *)

(* Which room for a dispatch is taken makes no difference.                   *)
PickUp(d, s) ==
  /\ At(d, "idle") /\ d = CHOOSE e \in Dispatch : At(e, "idle")
  /\ tasks[s].status = "scheduled" /\ tasks[s].wait = 0
  /\ tasks' = [tasks EXCEPT ![s].status = "picked_up", ![s].holder = d, ![s].attempt = @ + 1]
  /\ Become(d, [Idle EXCEPT !.phase = "fetched", !.step = s, !.retry = tasks[s].attempt])
  /\ UNCHANGED <<times, steps, attempts, effects, run, faults>>

(* An error of the handler: the registered transaction is dropped, the run   *)
(* fails, and so does the task if this is its holder.                        *)
HandlerFails(d) ==
  /\ run' = "failed"
  /\ tasks' = IF HoldsLock(d) THEN Settled(StepOf(d), "failed") ELSE tasks
  /\ Ends(d)
  /\ UNCHANGED <<times, steps, attempts, effects, faults>>

CheckDeadline(d) ==
  /\ At(d, "fetched")
  /\ IF life = 0 THEN HandlerFails(d)
     ELSE /\ Become(d, [dispatches[d] EXCEPT !.phase = "checked"])
          /\ UNCHANGED <<times, rows, faults>>

Begin(d) ==
  /\ At(d, "checked")
  /\ LET s == StepOf(d) IN
     IF config[s].scope = "global" /\ left[s] = 0
     THEN Become(d, [dispatches[d] EXCEPT !.phase = "returned", !.kind = "timeout"])
     ELSE Become(d, [dispatches[d] EXCEPT !.phase = "running", !.limit = EffectiveTimeout(s)])
  /\ UNCHANGED <<times, rows, faults>>

(* zart::trx, at most once per attempt.                                     *)
RegisterTrx(d) ==
  /\ At(d, "running") /\ ~dispatches[d].trx
  /\ Become(d, [dispatches[d] EXCEPT !.trx = TRUE])
  /\ UNCHANGED <<times, rows, faults>>

Returned(d, kind) ==
  Become(d, [dispatches[d] EXCEPT !.phase = "returned", !.kind = kind, !.limit = Unlimited])

(* Ok, Err, or a value that cannot be serialized.                           *)
LambdaReturns(d) ==
  /\ At(d, "running")
  /\ \E kind \in {"ok", "err", "bad"} : Returned(d, kind)
  /\ UNCHANGED <<times, rows, faults>>

LambdaTimesOut(d) ==
  /\ At(d, "running") /\ dispatches[d].limit = 0
  /\ Returned(d, "timeout")
  /\ UNCHANGED <<times, rows, faults>>

-----------------------------------------------------------------------------
(* What execute_step makes of it, and the transaction that records it.       *)

Returning(d, kinds) ==
  /\ At(d, "returned") /\ ~config[StepOf(d)].child
  /\ dispatches[d].kind \in kinds

(* rollback_trx; without it the transaction would stay in its slot.          *)
TrxKept(d) == dispatches[d].trx
TrxAfterError(d) == FALSE

(* The number of the attempt's row.                                          *)
Number(d) == dispatches[d].retry + 1

(* reschedule_step_for_retry leaves no completion hint.  A holder's row goes  *)
(* back; to any other dispatch it is an error of the handler.                *)
RescheduleForRetry(d) ==
  LET s == StepOf(d) IN
  /\ Returning(d, {"err"}) /\ HasRetry(s, dispatches[d].retry + 1)
  /\ IF HoldsLock(d)
     THEN /\ attempts' = WithAttempt(s, Number(d), "failed")
          /\ tasks' = [Settled(s, "scheduled") EXCEPT ![s].wait = Delay(s, dispatches[d].retry + 1)]
          /\ Become(d, [dispatches[d] EXCEPT !.phase = "hintless", !.kind = "null", !.trx = FALSE])
          /\ UNCHANGED <<times, steps, effects, run, faults>>
     ELSE HandlerFails(d)

GiveUp(d) ==
  /\ Returning(d, {"err"}) /\ ~HasRetry(StepOf(d), dispatches[d].retry + 1)
  /\ Become(d, [dispatches[d] EXCEPT !.phase = "completing", !.trx = TrxAfterError(d),
                  !.kind = IF config[StepOf(d)].retries > 0 THEN "rx" ELSE "err"])
  /\ UNCHANGED <<times, rows, faults>>

HintCompletion(d) ==
  /\ Returning(d, {"ok", "timeout"})
  /\ Become(d, [dispatches[d] EXCEPT !.phase = "completing",
                  !.trx = IF dispatches[d].kind = "ok" THEN @ ELSE TrxAfterError(d)])
  /\ UNCHANGED <<times, rows, faults>>

Unserializable(d) ==
  /\ Returning(d, {"bad"})
  /\ HandlerFails(d)

(* The user's transaction, if there is one, or a new one: the attempt, the   *)
(* step, the task and the body's next task.  If the lock is not held all of   *)
(* it is rolled back, and the worker's mark_failed hits no row either.        *)
Committed(d, status, result) ==
  LET s == StepOf(d) IN
  /\ attempts' = WithAttempt(s, Number(d), "completed")
  /\ steps' = [steps EXCEPT ![s] = [status |-> status, result |-> result]]
  /\ tasks' = Settled(s, "completed")
  /\ effects' = [effects EXCEPT ![s] = IF dispatches[d].trx THEN @ + 1 ELSE @]

CompleteStep(d) ==
  /\ At(d, "completing") \/ At(d, "hintless")
  /\ IF HoldsLock(d) THEN Committed(d, "completed", dispatches[d].kind)
                     ELSE UNCHANGED <<tasks, steps, attempts, effects>>
  /\ Ends(d)
  /\ UNCHANGED <<times, run, faults>>

-----------------------------------------------------------------------------
(* Faults: a process dies, or a lease lapses while its dispatch goes on.     *)

Fault == faults < MaxFaults /\ faults' = faults + 1

Crash(d) ==
  /\ ~At(d, "idle") /\ Fault
  /\ tasks' = IF HoldsLock(d) THEN [tasks EXCEPT ![StepOf(d)].holder = Gone] ELSE tasks
  /\ Ends(d)
  /\ UNCHANGED <<times, steps, attempts, effects, run>>

Lapse(s) ==
  /\ tasks[s].holder \in Dispatch /\ Fault
  /\ tasks' = Settled(s, "scheduled")
  /\ UNCHANGED <<times, steps, attempts, effects, run, dispatches>>

(* recover_orphans: picked up and locked by nobody who lives.                *)
NotLocked(s) == tasks[s].status = "picked_up" /\ tasks[s].holder = Nobody
Orphaned(s) == tasks[s].status = "picked_up" /\ tasks[s].holder = Gone

Recover(s) ==
  /\ Orphaned(s)
  /\ tasks' = Settled(s, "scheduled")
  /\ UNCHANGED <<times, steps, attempts, effects, run, dispatches, faults>>

-----------------------------------------------------------------------------

(* schedule_step has run for the steps in S, and computed the deadline of    *)
(* those with global scope; the run has l ticks left.                        *)
Scheduled(S, l) ==
  /\ left = [s \in Step |-> IF config[s].scope = "global" THEN Timeout ELSE Unlimited]
  /\ tasks = [s \in Step |-> [status |-> IF s \in S THEN "scheduled" ELSE "absent",
                              holder |-> Nobody, attempt |-> 0, wait |-> 0, retried |-> FALSE]]
  /\ steps = [s \in Step |-> [status |-> "scheduled", result |-> "none"]]
  /\ life = l
  /\ attempts = {} /\ effects = [s \in Step |-> 0] /\ run = "scheduled"
  /\ dispatches = [d \in Dispatch |-> Idle] /\ faults = 0

Work(d) ==
  \/ CheckDeadline(d) \/ Begin(d) \/ LambdaReturns(d) \/ LambdaTimesOut(d)
  \/ RescheduleForRetry(d) \/ GiveUp(d) \/ HintCompletion(d) \/ Unserializable(d)
  \/ CompleteStep(d)

-----------------------------------------------------------------------------

(* What a lambda wrote through zart::trx is committed at most once, together  *)
(* with what it returned: with its Ok, or if the step is a wait's child with   *)
(* its Err too.  No attempt that was retried, timed out, crashed or lost its   *)
(* lease leaves writes behind, nor does the retry of a dead child.             *)
EffectsMatchResults ==
  \A s \in Step :
    effects[s] > 0 =>
      /\ effects[s] = 1
      /\ steps[s].result \in IF config[s].child THEN {"ok", "err"} ELSE {"ok"}

(* trx_impl.rs and the documentation of transactions promise more: whatever    *)
(* step returns Err, the framework rolls its transaction back.                 *)
ErrIsRolledBack ==
  \A s \in Step :
    steps[s].status = "completed" /\ steps[s].result = "err" => effects[s] = 0

(* The attempts of a step are its history: a step has a completed attempt     *)
(* exactly if it has completed, it has one, that is its last attempt, and no  *)
(* more failed ones than the step may be retried.                            *)
AttemptsTellTheStory ==
  \A s \in Step :
    LET of == {a \in attempts : a.step = s}
        completed == {a \in of : a.status = "completed"}
    IN  ~config[s].child =>
          /\ Cardinality(completed) = IF steps[s].status = "completed" THEN 1 ELSE 0
          /\ \A a \in completed, b \in of : b.number <= a.number
          /\ Cardinality(of \ completed) <= config[s].retries

(* A step only completes with what its lambda or its timeout gave, never as   *)
(* the dispatch of a retry would have it, and says that retries are exhausted *)
(* only when no attempt was left.                                            *)
ResultsAreEarned ==
  \A s \in Step :
    steps[s].status = "completed" =>
      /\ steps[s].result # "null"
      /\ steps[s].result = "timeout" => config[s].scope # "none"
      /\ steps[s].result = "err" => config[s].retries = 0
      /\ steps[s].result = "rx" =>
           config[s].retries > 0 /\ \E a \in attempts : a.step = s /\ a.number > config[s].retries

(* However often a step of global scope is retried or redelivered, its lambda *)
(* is stopped by the deadline the step was scheduled with.                   *)
DeadlineHolds ==
  \A d \in Dispatch :
    At(d, "running") /\ config[StepOf(d)].scope = "global" /\ life # 0 =>
      /\ dispatches[d].limit # Unlimited
      /\ dispatches[d].limit <= left[StepOf(d)]

=============================================================================
