----------------------------- MODULE WaitGroups -----------------------------
(***************************************************************************)
(* The children of zart::wait: steps that report to a wait group, whose     *)
(* last child resumes the body.  A child has no retries and no timeout, its *)
(* Err is a result like any other, and only a value that cannot be          *)
(* serialized fails it: then the step is dead, and an administrator may     *)
(* retry it.                                                                *)
(*                                                                         *)
(* A behaviour is about one group of all steps, of an execution without a   *)
(* deadline, or about one single step.                                      *)
(***************************************************************************)
EXTENDS StepAttempts

VARIABLES
  remaining,    \* wg_remaining of the group's row
  firstFailed,  \* wg_first_failed
  resumed       \* whether the task {run_id}:body:after:{group} is there

group == <<remaining, firstFailed, resumed>>
vars == <<attemptVars, group>>

IsGroup == \A s \in Step : config[s].child
Single == CHOOSE s \in Step : TRUE

TypeOK ==
  /\ AttemptsTypeOK
  /\ remaining \in 0..Cardinality(Step) /\ firstFailed \in BOOLEAN /\ resumed \in BOOLEAN

-----------------------------------------------------------------------------

ChildReturns(d, kinds) ==
  At(d, "returned") /\ config[StepOf(d)].child /\ dispatches[d].kind \in kinds

(* zart_step_attempts refers to a step by the task's id, which a retried task *)
(* does not have: the transaction fails, and the worker fails the task.       *)
StepIdHolds(d) == ~tasks[StepOf(d)].retried
Refused(d) ==
  /\ tasks' = IF HoldsLock(d) THEN Settled(StepOf(d), "failed") ELSE tasks
  /\ UNCHANGED <<steps, attempts, effects, group>>

(* A lambda's Err is stored as the child's value, with the hint of an Ok: no   *)
(* rollback_trx, and the transaction that was registered is the one that       *)
(* commits.  The decrement returns the count after it.                        *)
LastBefore == remaining = 0
Last == remaining = 1

CompleteWaitGroupChild(d) ==
  /\ ChildReturns(d, {"ok", "err"})
  /\ IF HoldsLock(d) /\ StepIdHolds(d)
     THEN /\ Committed(d, "completed", dispatches[d].kind)
          /\ remaining' = remaining - 1
          /\ resumed' = (resumed \/ Last)
          /\ UNCHANGED firstFailed
     ELSE Refused(d)
  /\ Ends(d)
  /\ UNCHANGED <<times, run, faults>>

(* The attempt is recorded as completed before it is as failed; nobody        *)
(* resumes the body.                                                        *)
FailWaitGroupChild(d) ==
  /\ ChildReturns(d, {"bad"})
  /\ IF HoldsLock(d) /\ StepIdHolds(d)
     THEN /\ Committed(d, "dead", "err")
          /\ firstFailed' = TRUE
          /\ UNCHANGED <<remaining, resumed>>
     ELSE Refused(d)
  /\ Ends(d)
  /\ UNCHANGED <<times, run, faults>>

(* do_retry_dead_step.                                                      *)
IsDead(s) == steps[s].status = "dead"

RetryDeadStep(s) ==
  /\ IsDead(s)
  /\ tasks' = [tasks EXCEPT ![s] = [status |-> "scheduled", holder |-> Nobody, attempt |-> 0,
                                    wait |-> 0, retried |-> TRUE]]
  /\ steps' = [steps EXCEPT ![s].status = "scheduled"]
  /\ run' = "running"
  /\ UNCHANGED <<times, attempts, effects, dispatches, faults, group>>

(* recover_wait_group_orphans, which an embedding program may call.          *)
RecoverWaitGroupOrphans ==
  /\ IsGroup /\ remaining = 0
  /\ resumed' = TRUE
  /\ UNCHANGED <<attemptVars, remaining, firstFailed>>

-----------------------------------------------------------------------------

Init ==
  /\ \E a \in Attributes :
       \/ config = [s \in Step |-> AsChild(a)] /\ Scheduled(Step, Unlimited)
       \/ /\ config = [s \in Step |-> Implemented(a)]
          /\ \E timeout \in BOOLEAN : Scheduled({Single}, LifeOf(timeout))
  /\ remaining = Cardinality(Step) /\ firstFailed = FALSE /\ resumed = FALSE

GroupWork(d) == CompleteWaitGroupChild(d) \/ FailWaitGroupChild(d)

Next ==
  \/ \E d \in Dispatch, s \in Step : PickUp(d, s) /\ UNCHANGED group
  \/ \E d \in Dispatch : CheckDeadline(d) /\ UNCHANGED group
  \/ \E d \in Dispatch : Begin(d) /\ UNCHANGED group
  \/ \E d \in Dispatch : RegisterTrx(d) /\ UNCHANGED group
  \/ \E d \in Dispatch : LambdaReturns(d) /\ UNCHANGED group
  \/ \E d \in Dispatch : LambdaTimesOut(d) /\ UNCHANGED group
  \/ \E d \in Dispatch : RescheduleForRetry(d) /\ UNCHANGED group
  \/ \E d \in Dispatch : GiveUp(d) /\ UNCHANGED group
  \/ \E d \in Dispatch : HintCompletion(d) /\ UNCHANGED group
  \/ \E d \in Dispatch : Unserializable(d) /\ UNCHANGED group
  \/ \E d \in Dispatch : CompleteStep(d) /\ UNCHANGED group
  \/ \E d \in Dispatch : CompleteWaitGroupChild(d)
  \/ \E d \in Dispatch : FailWaitGroupChild(d)
  \/ \E d \in Dispatch : Crash(d) /\ UNCHANGED group
  \/ \E s \in Step : Lapse(s) /\ UNCHANGED group
  \/ \E s \in Step : Recover(s) /\ UNCHANGED group
  \/ \E s \in Step : RetryDeadStep(s)
  \/ RecoverWaitGroupOrphans
  \/ Tick /\ UNCHANGED group

Spec == Init /\ [][Next]_vars

(* Workers poll and recover leases, handlers return, time passes.            *)
FairSpec ==
  /\ Spec
  /\ WF_vars(Tick /\ UNCHANGED group)
  /\ \A d \in Dispatch : WF_vars(Work(d) /\ UNCHANGED group) /\ WF_vars(GroupWork(d))
  /\ \A s \in Step : /\ WF_vars((\E d \in Dispatch : PickUp(d, s)) /\ UNCHANGED group)
                     /\ WF_vars(Recover(s) /\ UNCHANGED group)

-----------------------------------------------------------------------------

(* The count of a group is of the children that have not completed, whichever *)
(* fail, run twice or are retried, and the body is resumed exactly when it    *)
(* has come to zero.                                                        *)
GroupCounts ==
  IsGroup =>
    /\ remaining = Cardinality({s \in Step : steps[s].status # "completed"})
    /\ resumed <=> remaining = 0

(* Every step ends: it completes, or is dead, or fails the run, whatever      *)
(* attempts it takes; except a dead child that was retried, which never does. *)
StepsEnd ==
  \A s \in Step :
    tasks[s].status = "scheduled" ~>
      steps[s].status # "scheduled" \/ run = "failed" \/ tasks[s].retried

=============================================================================
