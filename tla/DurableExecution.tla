-------------------------- MODULE DurableExecution --------------------------
(***************************************************************************)
(* One durable execution of the zart crate on top of the task queue: the   *)
(* client calls on it (start, cancel, offer_event, restart), its rows in   *)
(* the runs, steps and tasks tables, and the dispatches of its tasks,      *)
(* which replay the handler's body.                                        *)
(*                                                                         *)
(* The body is a fixed sequence of items.  Task rows are leased as         *)
(* TaskQueue says: attempt counts the pick-ups of a row, one lock token    *)
(* each, so <<task, attempt>> names a dispatch and its token.              *)
(***************************************************************************)
EXTENDS Naturals, FiniteSets

CONSTANTS
  Length,          \* items 1..Length of the handler's body, in order
  Steps,           \* items that are zart::step: a lambda with retries
  Sleeps,          \* items that are zart::sleep
  Events,          \* items that are zart::wait_for_event
  Groups,          \* items that are zart::wait over scheduled steps
  Captures,        \* items that are zart::capture or zart::now
  Fanout,          \* handles of each wait
  Fallible,        \* steps whose lambda may fail, waits whose results may not decode
  Handled,         \* steps and waits whose error the handler catches
  MayDie,          \* children of waits whose output may not be serializable
  Decider,         \* item on whose result the handler branches, or 0
  IfOk,            \* items it only comes to if that is a value, or the one value
  IfErr,           \* items it only comes to if that is an error, or the other value
  Lookalikes,      \* steps whose error can be read as an output
  Deadlines,       \* events waited for with a timeout
  MaxRetries,      \* RetryConfig.max_attempts of every step
  CanRecover,      \* whether on_failure may return Ok
  HasTimeout,      \* whether the handler has an execution deadline
  Client,          \* callers of DurableScheduler
  MaxCancels,      \* bound on calls of cancel in a behaviour
  Preservable,     \* items of which a selective rerun may keep completed steps
  MaxRun,          \* bound: runs of the execution are 0..MaxRun
  Faults,          \* kinds of faults that happen: "crash", "lapse", "error"
  MaxFaults        \* bound on faults in a behaviour

Item == 1..Length
Run == 0..MaxRun

ASSUME BodyAssumption ==
  /\ Length \in Nat \ {0} /\ Fanout \in Nat \ {0}
  /\ Item = UNION {Steps, Sleeps, Events, Groups, Captures}
  /\ LET kinds == <<Steps, Sleeps, Events, Groups, Captures>>
     IN  \A j, k \in 1..5 : j # k => kinds[j] \cap kinds[k] = {}
  /\ Fallible \cup Handled \subseteq Steps \cup Groups
  /\ MayDie \subseteq Groups \X (1..Fanout) /\ Deadlines \subseteq Events
  /\ Preservable \subseteq Item
  /\ Decider \in (Handled \cap Steps) \cup Captures \cup {0}
  /\ IfOk \cup IfErr \subseteq {i \in Item : Decider # 0 /\ Decider < i}
  /\ Lookalikes \subseteq Steps
  /\ Decider \in Lookalikes => IfOk \cap Fallible = {}
ASSUME BoundAssumption ==
  /\ MaxRetries \in Nat /\ MaxRun \in Nat /\ MaxCancels \in Nat
  /\ Faults \subseteq {"crash", "lapse", "error"} /\ MaxFaults \in Nat

VARIABLES
  current,     \* current_run_id: a run, or NoRun before the execution exists
  runs,        \* runs[n]: status of run n
  steps,       \* steps[n][s]: status and result kind of step s of run n
  remaining,   \* remaining[n][g]: wg_remaining of wait group g of run n
  tasks,       \* tasks[t]: the row of t in the task queue
  dispatches,  \* the dispatches alive in some worker
  calls,       \* calls[c]: what client c is in the middle of
  cancels,     \* calls of cancel so far
  faults       \* faults so far

vars == <<current, runs, steps, remaining, tasks, dispatches, calls, cancels, faults>>
execution == <<current, runs, steps, remaining>>
counts == <<cancels, faults>>

-----------------------------------------------------------------------------
(* Names and rows.                                                          *)

NoRun == MaxRun + 1

(* Steps are called by item, and by handle within a wait.                   *)
Of(i) == <<i, 0>>
Children(g) == {<<g, c>> : c \in 1..Fanout}
Name == {Of(i) : i \in Item} \cup UNION {Children(g) : g \in Groups}
ItemOf(s) == s[1]
IsChild(s) == s[2] # 0

(* The task ids the code formats.  The one deliver_event formats names no   *)
(* run; the one do_retry_dead_step formats ends with the time.               *)
StartTask(n) == <<"start", n, Of(0)>>
StepTask(n, s) == <<"step", n, s>>
RetryTask(n, s) == <<"retry", n, s>>
AfterTask(n, i) == <<"after", n, Of(i)>>
DeliveredTask(i) == <<"delivered", 0, Of(i)>>

TaskId == {StartTask(n) : n \in Run}
            \cup {StepTask(n, s) : n \in Run, s \in Name}
            \cup {RetryTask(n, s) : n \in Run, s \in MayDie}
            \cup {AfterTask(n, i) : n \in Run, i \in Item}
            \cup {DeliveredTask(i) : i \in Events}

Ended == {"completed", "failed", "cancelled"}
Going == {"scheduled", "running"}
Completed == {"ok", "err"}
RunStatus == {"none"} \cup Going \cup Ended
StepStatus == {"none", "scheduled", "dead"} \cup Completed

MaxAttempt == 1 + MaxRetries + MaxFaults

Row == [status : {"absent", "scheduled", "picked_up"} \cup Ended,
        attempt : 0..MaxAttempt, run : Run]

Absent == [status |-> "absent", attempt |-> 0, run |-> 0]
NewRow(n) == [status |-> "scheduled", attempt |-> 0, run |-> n]

(* INSERT ... ON CONFLICT (task_id) DO NOTHING, and as it would be with DO   *)
(* UPDATE.                                                                  *)
Upserted(rows, t, n) == [rows EXCEPT ![t] = NewRow(n)]
Inserted(rows, t, n) == IF rows[t] = Absent THEN [rows EXCEPT ![t] = NewRow(n)] ELSE rows

Dispatch == [task : TaskId, attempt : 1..MaxAttempt,
             phase : {"fetched", "replaying", "capturing", "scheduling", "grouping",
                      "visiting", "running", "retrying", "stepping", "finishing", "failing",
                      "concluding", "marking"},
             own : {"null"} \cup Completed,  \* the value of Decider it has captured
             at : Name \cup {Of(0)},      \* the step it is at
             all : BOOLEAN,               \* wait: every child so far was completed
             result : {"null", "ok", "err", "dead"}]

Call == [phase : {"idle", "creating", "resetting", "scheduling", "cancelling"}, run : Run]
Idle == [phase |-> "idle", run |-> 0]

TypeOK ==
  /\ current \in Run \cup {NoRun}
  /\ runs \in [Run -> RunStatus]
  /\ steps \in [Run -> [Name -> StepStatus]]
  /\ remaining \in [Run -> [Groups -> 0..Fanout]]
  /\ tasks \in [TaskId -> Row]
  /\ dispatches \subseteq Dispatch
  /\ calls \in [Client -> Call]
  /\ cancels \in 0..MaxCancels
  /\ faults \in 0..MaxFaults

-----------------------------------------------------------------------------
(* What a dispatch is and what it sees.                                     *)

(* WHERE task_id = $1 AND worker_id = $2.                                   *)
RowExists(d) == tasks[d.task] # Absent
HoldsLock(d) == tasks[d.task].status = "picked_up" /\ tasks[d.task].attempt = d.attempt

RunOf(d) == tasks[d.task].run
IsRetry(t) == t[1] = "retry"
IsStepTask(d) == d.task[1] = "step" \/ IsRetry(d.task)
Target(d) == d.task[3]

Passed(n, i) == IF i \in Groups THEN \A s \in Children(i) : steps[n][s] \in Completed
                                ELSE steps[n][Of(i)] \in Completed

(* What an item comes to.  A wait has its result when its children have, and *)
(* it is an error if one of theirs does not decode as their type.            *)
ResultOf(n, i) ==
  IF ~Passed(n, i) THEN "none"
  ELSE IF i \notin Groups THEN steps[n][Of(i)]
  ELSE IF \E s \in Children(i) : steps[n][s] = "err" THEN "err" ELSE "ok"

(* A step that is awaited as such, as #[zart_step] makes it, is required;    *)
(* zart::step, step_or and step_or_else hand its outcome to the handler.     *)
(* The handler leaves the body at item i: `?` on an error it does not catch. *)
Required == (Steps \cup Groups) \ Handled
GivesUp(n, i) == i \in Required /\ ResultOf(n, i) = "err"

(* The branch.  A replay goes by what it has captured itself, or by the      *)
(* record; in step mode it reads every record as an output.                  *)
Decision(n) == steps[n][Of(Decider)]
Chosen(result, i) == (i \in IfOk => result = "ok") /\ (i \in IfErr => result = "err")
Seen(d) ==
  IF d.own # "null" THEN d.own
  ELSE IF IsStepTask(d) /\ Decider \in Lookalikes /\ Decision(RunOf(d)) = "err" THEN "ok"
  ELSE Decision(RunOf(d))
Reached(d) == {i \in Item : Chosen(Seen(d), i)}

(* The items that stop a replay of the body, and what would stop it if a row *)
(* were taken for a result.  A wait writes its row although a rerun has kept *)
(* all of its children; where the row is there its upsert is nothing.        *)
OpenWithoutRow(d) ==
  {i \in Reached(d) : steps[RunOf(d)][Of(i)] = "none" \/ GivesUp(RunOf(d), i)}
Open(d) ==
  {i \in Reached(d) : \/ ~Passed(RunOf(d), i) \/ GivesUp(RunOf(d), i)
                      \/ i \in Groups /\ steps[RunOf(d)][Of(i)] = "none"}
First(I) == CHOOSE i \in I : \A j \in I : i <= j

(* The child about to be counted is the group's last one; the first form    *)
(* compares the count before the decrement.                                 *)
LastChildBeforeCount(n, g) == steps[n][Of(g)] # "none" /\ remaining[n][g] = 0
LastChild(n, g) == steps[n][Of(g)] # "none" /\ remaining[n][g] = 1

Become(d, e) == dispatches' = (dispatches \ {d}) \cup {e}
Then(d, p) == [d EXCEPT !.phase = p, !.at = Target(d), !.all = TRUE, !.result = "null"]
To(d, p) == Become(d, Then(d, p))
Gone(d) == dispatches' = dispatches \ {d}

Fault(kind) ==
  /\ kind \in Faults /\ faults < MaxFaults
  /\ faults' = faults + 1
  /\ UNCHANGED cancels

-----------------------------------------------------------------------------
(* Client calls.                                                            *)

CallTo(c, p, n) == calls' = [calls EXCEPT ![c] = [phase |-> p, run |-> n]]
Return(c) == calls' = [calls EXCEPT ![c] = Idle]

(* start reads the status outside its transactions; an execution that is    *)
(* still scheduled is an error to the caller and changes nothing.           *)
Start(c) ==
  /\ calls[c] = Idle
  /\ \/ current = NoRun /\ CallTo(c, "creating", 0)
     \/ current # NoRun /\ runs[current] \in Ended /\ CallTo(c, "resetting", 0)
  /\ UNCHANGED <<execution, tasks, dispatches, counts>>

(* start_execution_sql and the root body task, in one transaction.          *)
CreateExecution(c) ==
  /\ calls[c].phase = "creating"
  /\ IF current = NoRun
     THEN current' = 0 /\ runs' = [runs EXCEPT ![0] = "scheduled"]
     ELSE UNCHANGED <<current, runs>>
  /\ tasks' = Inserted(tasks, StartTask(0), 0)
  /\ Return(c)
  /\ UNCHANGED <<steps, remaining, dispatches, counts>>

(* A run after the last one becomes the current run.                        *)
NewRun(n) ==
  /\ n \in Run /\ runs[n] = "none" /\ \A m \in Run : m < n => runs[m] # "none"
  /\ runs' = [runs EXCEPT ![n] = "scheduled"]
  /\ current' = n

(* reset_execution commits; the body task is inserted by a later statement. *)
ResetExecution(c) ==
  /\ calls[c].phase = "resetting"
  /\ \E n \in Run : NewRun(n) /\ CallTo(c, "scheduling", n)
  /\ UNCHANGED <<steps, remaining, tasks, dispatches, counts>>

ScheduleRoot(c) ==
  /\ calls[c].phase = "scheduling"
  /\ tasks' = Inserted(tasks, StartTask(calls[c].run), calls[c].run)
  /\ Return(c)
  /\ UNCHANGED <<execution, dispatches, counts>>

(* cancel_execution's two statements, each committed on its own; the second *)
(* is run whatever the first one found.                                     *)
CancelRun(c) ==
  /\ calls[c] = Idle /\ current # NoRun
  /\ runs' = [runs EXCEPT ![current] = IF @ \in Going THEN "cancelled" ELSE @]
  /\ cancels < MaxCancels /\ cancels' = cancels + 1
  /\ CallTo(c, "cancelling", 0)
  /\ UNCHANGED <<current, steps, remaining, tasks, dispatches, faults>>

CancelTasks(c) ==
  /\ calls[c].phase = "cancelling"
  /\ tasks' = [t \in TaskId |-> IF tasks[t].status = "scheduled"
                                THEN [tasks[t] EXCEPT !.status = "cancelled"] ELSE tasks[t]]
  /\ Return(c)
  /\ UNCHANGED <<execution, dispatches, counts>>

(* The caller's process dies in the middle of a call.                       *)
CallerDies(c) ==
  /\ calls[c] # Idle /\ Fault("crash")
  /\ Return(c)
  /\ UNCHANGED <<execution, tasks, dispatches>>

(* deliver_event.  Its first statement reads the current run, the others     *)
(* read and write the event of that run, which another call may have replaced*)
(* in between: so a delivery is to any run that was current at some time.    *)
(* AlreadyDelivered and NotRegistered change nothing.  The event's own task  *)
(* stays in the queue.                                                       *)
OfferEvent(n, i) ==
  /\ runs[n] # "none" /\ steps[n][Of(i)] = "scheduled"
  /\ steps' = [steps EXCEPT ![n][Of(i)] = "ok"]
  /\ tasks' = Inserted(tasks, DeliveredTask(i), n)
  /\ UNCHANGED <<current, runs, remaining, dispatches, calls, counts>>

(* do_retry_dead_step, of a run that the caller names: the run goes on,      *)
(* whatever its status is.  Its statements are one step here: that two       *)
(* operators who find the same step dead schedule a task each is left out.   *)
RetryDeadStep(n, s) ==
  /\ steps[n][s] = "dead"
  /\ tasks' = Inserted(tasks, RetryTask(n, s), n)
  /\ steps' = [steps EXCEPT ![n][s] = "scheduled"]
  /\ runs' = [runs EXCEPT ![n] = "running"]
  /\ UNCHANGED <<current, remaining, dispatches, calls, counts>>

(* The rows copy_steps_and_attempts_sql copies, and what it would copy        *)
(* without its test of the status.                                           *)
KeptUnfinished(n, P) == P
Kept(n, P) == {s \in P : steps[n][s] \in Completed}

(* do_restart_run: a new run that carries over the completed steps of P.    *)
Restart(P) ==
  /\ current # NoRun
  /\ \E n \in Run :
       /\ NewRun(n)
       /\ steps' = [steps EXCEPT ![n] = [s \in Name |->
            IF s \in Kept(current, P) THEN steps[current][s] ELSE "none"]]
       /\ tasks' = Inserted(tasks, StartTask(n), n)
  /\ UNCHANGED <<remaining, dispatches, calls, counts>>

(* restart keeps nothing; rerun_steps keeps what the caller does not name,  *)
(* which may be some of a wait's children.                                  *)
RerunSteps == \E P \in SUBSET {s \in Name : ItemOf(s) \in Preservable} : Restart(P)

-----------------------------------------------------------------------------
(* The queue, as TaskQueue has it.                                          *)

(* An event without a timeout is due at the end of time.                    *)
NeverDue(t) == t[1] = "step" /\ ItemOf(t[3]) \in Events \ Deadlines

PickUp(t) ==
  /\ tasks[t].status = "scheduled" /\ ~NeverDue(t)
  /\ LET a == tasks[t].attempt + 1 IN
     /\ tasks' = [tasks EXCEPT ![t].status = "picked_up", ![t].attempt = a]
     /\ dispatches' = dispatches \cup
          {[task |-> t, attempt |-> a, phase |-> "fetched", at |-> t[3],
            all |-> TRUE, result |-> "null", own |-> "null"]}
  /\ UNCHANGED <<execution, calls, counts>>

GivenBack(t) == tasks' = [tasks EXCEPT ![t].status = "scheduled"]

(* Orphan recovery, once no dispatch renews the lease.                      *)
RecoverOrphan(t) ==
  /\ tasks[t].status = "picked_up"
  /\ \A d \in dispatches : d.task = t => ~HoldsLock(d)
  /\ GivenBack(t)
  /\ UNCHANGED <<execution, dispatches, calls, counts>>

(* The lease of a dispatch that is still at work runs out.                  *)
Lapse(d) ==
  /\ HoldsLock(d) /\ Fault("lapse")
  /\ GivenBack(d.task)
  /\ UNCHANGED <<execution, dispatches, calls>>

Crash(d) ==
  /\ Fault("crash") /\ Gone(d)
  /\ UNCHANGED <<execution, tasks, calls>>

-----------------------------------------------------------------------------
(* ZartTask::execute: the handler replays the body.  Rows of a run's steps  *)
(* only move forward, so the reads of a replay up to the item that stops it *)
(* are one read at the time of the last of them.                            *)

(* The execution deadline has passed when the task is dispatched.           *)
DeadlinePassed(d) ==
  /\ HasTimeout /\ d.phase = "fetched"
  /\ To(d, "failing")
  /\ UNCHANGED <<execution, tasks, calls, counts>>

(* What the body does at an item without a row.                             *)
BodyBehavior(i) == CASE i \in Groups -> "grouping"
                     [] i \in Captures -> "capturing"
                     [] OTHER -> "scheduling"

(* Body mode: the first item that is not completed parks the body, after it *)
(* is scheduled if it has no row yet.                                       *)
ReplayBody(d) ==
  /\ d.phase \in {"fetched", "replaying"} /\ ~IsStepTask(d)
  /\ LET n == RunOf(d)
         i == First(Open(d))
     IN  IF Open(d) = {} THEN To(d, "finishing")
         ELSE IF GivesUp(n, i) /\ steps[n][Of(i)] # "none" THEN To(d, "failing")
         ELSE IF i \notin Groups /\ steps[n][Of(i)] # "none" THEN To(d, "concluding")
         ELSE Become(d, [d EXCEPT !.at = Of(i), !.phase = BodyBehavior(i)])
  /\ UNCHANGED <<execution, tasks, calls, counts>>

(* capture and now: the first replay to insert the row decides its value,   *)
(* but each goes on with its own.                                           *)
CaptureValue(d) ==
  /\ d.phase = "capturing"
  /\ LET n == RunOf(d)
         decides == ItemOf(d.at) = Decider
     IN  \E value \in IF decides THEN Completed ELSE {"ok"} :
           /\ steps' = IF steps[n][d.at] = "none"
                       THEN [steps EXCEPT ![n][d.at] = value] ELSE steps
           /\ Become(d, [Then(d, "replaying") EXCEPT !.own = IF decides THEN value ELSE @])
  /\ UNCHANGED <<current, runs, remaining, tasks, calls, counts>>

(* Step mode replays the items before the target too.  A wait finds no      *)
(* handle of the target's name and fails; an error is read as if it were the *)
(* step's output, which it mostly is not; a sleep is never looked up.        *)
Unreplayable(n, i) ==
  \/ i \in Groups
  \/ i \in Steps \ Lookalikes /\ steps[n][Of(i)] = "err"
  \/ i \in Events \cup Captures /\ ~Passed(n, i)

(* A step that has no result yet stops it as it would stop the body, and     *)
(* nothing may stop it, if another branch is seen than the target's.         *)
StopsStep(d) ==
  {i \in Reached(d) : \/ i = ItemOf(Target(d)) \/ Unreplayable(RunOf(d), i)
                      \/ i \in Steps /\ ~Passed(RunOf(d), i)}

(* The target: a lambda is run, a sleep is over, and an event is an error    *)
(* unless it has come before its deadline.                                  *)
StepBehavior(d, i) ==
  IF i \in Steps \cup Groups THEN Then(d, "running")
  ELSE IF i \in Events /\ ~Passed(RunOf(d), i) THEN Then(d, "failing")
  ELSE [d EXCEPT !.result = "ok", !.phase = "stepping"]

ReplayStep(d) ==
  /\ d.phase = "fetched" /\ IsStepTask(d)
  /\ LET n == RunOf(d)
         i == First(StopsStep(d))
     IN  IF StopsStep(d) = {} THEN To(d, "finishing")
         ELSE IF i # ItemOf(Target(d))
         THEN IF Unreplayable(n, i) THEN To(d, "failing")
              ELSE IF steps[n][Of(i)] # "none" THEN To(d, "concluding")
              ELSE Become(d, [d EXCEPT !.at = Of(i), !.phase = "scheduling"])
         ELSE Become(d, StepBehavior(d, i))
  /\ UNCHANGED <<execution, tasks, calls, counts>>

(* A wait visits child after child; after the last one it goes on with the   *)
(* body if every child was completed.                                       *)
Visited(d, done) ==
  IF d.at[2] < Fanout
  THEN [d EXCEPT !.phase = "visiting", !.at = <<@[1], @[2] + 1>>, !.all = done]
  ELSE Then(d, IF done THEN "replaying" ELSE "concluding")

(* The step's row and its task, in one transaction.                         *)
ScheduleStep(d) ==
  /\ d.phase = "scheduling"
  /\ LET n == RunOf(d) IN
     /\ tasks' = Inserted(tasks, StepTask(n, d.at), n)
     /\ steps' = IF steps[n][d.at] = "none"
                 THEN [steps EXCEPT ![n][d.at] = "scheduled"] ELSE steps
  /\ Become(d, IF IsChild(d.at) THEN Visited(d, FALSE) ELSE Then(d, "concluding"))
  /\ UNCHANGED <<current, runs, remaining, calls, counts>>

(* The wait-group barrier: the group's row before any child.  Without ON     *)
(* CONFLICT DO NOTHING every replay would write it anew.                    *)
GroupRowWritten(n, g) == TRUE
GroupRowAbsent(n, g) == steps[n][Of(g)] = "none"

UpsertGroup(d) ==
  /\ d.phase = "grouping"
  /\ LET n == RunOf(d) IN
     IF GroupRowAbsent(n, ItemOf(d.at))
     THEN /\ steps' = [steps EXCEPT ![n][d.at] = "scheduled"]
          /\ remaining' = [remaining EXCEPT ![n][ItemOf(d.at)] = Fanout]
     ELSE UNCHANGED <<steps, remaining>>
  /\ Become(d, [d EXCEPT !.phase = "visiting", !.at = <<ItemOf(d.at), 1>>])
  /\ UNCHANGED <<current, runs, tasks, calls, counts>>

VisitChild(d) ==
  /\ d.phase = "visiting"
  /\ LET s == steps[RunOf(d)][d.at] IN
     Become(d, IF s = "none" THEN [d EXCEPT !.phase = "scheduling"]
               ELSE Visited(d, d.all /\ s \in Completed))
  /\ UNCHANGED <<execution, tasks, calls, counts>>

-----------------------------------------------------------------------------
(* The target step's lambda.                                                *)

(* A child has no retries: its business error is serialised as if it were    *)
(* its output, and an output that cannot be serialised makes it dead.        *)
LambdaReturns(d) ==
  /\ d.phase = "running"
  /\ \/ Become(d, [d EXCEPT !.phase = "stepping", !.result = "ok"])
     \/ /\ ItemOf(Target(d)) \in Fallible
        /\ Become(d, IF ~IsChild(Target(d)) /\ d.attempt <= MaxRetries
                     THEN [d EXCEPT !.phase = "retrying"]
                     ELSE [d EXCEPT !.phase = "stepping", !.result = "err"])
     \/ /\ Target(d) \in MayDie
        /\ Become(d, [d EXCEPT !.phase = "stepping", !.result = "dead"])
  /\ UNCHANGED <<execution, tasks, calls, counts>>

(* A timeout is not retried.                                                *)
LambdaTimesOut(d) ==
  /\ d.phase = "running" /\ ItemOf(Target(d)) \in Fallible \cap Steps
  /\ Become(d, [d EXCEPT !.phase = "stepping", !.result = "err"])
  /\ UNCHANGED <<execution, tasks, calls, counts>>

(* reschedule_step_for_retry.  Its success goes on to a completion without  *)
(* result, which the lock test then refuses; its LockMismatch is a failure  *)
(* of the handler.                                                          *)
RescheduleForRetry(d) ==
  /\ d.phase = "retrying"
  /\ IF HoldsLock(d) THEN GivenBack(d.task) /\ To(d, "stepping")
                     ELSE To(d, "failing") /\ UNCHANGED tasks
  /\ UNCHANGED <<execution, calls, counts>>

-----------------------------------------------------------------------------
(* What a dispatch does last.                                               *)

Settled(d, status) == [tasks EXCEPT ![d.task].status = status]

(* write_step_completion_sql.                                               *)
Recorded(n, s, result) == [steps EXCEPT ![n][s] = IF result = "err" THEN "err" ELSE "ok"]

(* complete_wait_group_child_in_tx's UPDATE ... RETURNING.                  *)
Counted(n, s) ==
  IF IsChild(s) /\ steps[n][Of(ItemOf(s))] # "none"
  THEN [remaining EXCEPT ![n][ItemOf(s)] = @ - 1] ELSE remaining

(* The next body task, after the last child or after a step of its own.     *)
Resumed(rows, n, s) ==
  IF IsChild(s) /\ ~LastChild(n, ItemOf(s)) THEN rows
  ELSE Inserted(rows, AfterTask(n, ItemOf(s)), n)

(* The attempt's row refers to a step by the task's id, which is not that of *)
(* a retried step: the transaction of its completion fails.                  *)
MayRecord(d) == HoldsLock(d) /\ ~IsRetry(d.task)

(* ZartStepCompletion and ZartWaitGroupChildCompletion, one transaction.    *)
CompleteStep(d) ==
  /\ d.phase = "stepping" /\ MayRecord(d) /\ d.result # "dead"
  /\ steps' = Recorded(RunOf(d), Target(d), d.result)
  /\ remaining' = Counted(RunOf(d), Target(d))
  /\ tasks' = Resumed(Settled(d, "completed"), RunOf(d), Target(d))
  /\ Gone(d)
  /\ UNCHANGED <<current, runs, calls, counts>>

(* ZartWaitGroupChildFailureCompletion: the count is as it was, and nobody   *)
(* resumes the body.                                                        *)
FailChild(d) ==
  /\ d.phase = "stepping" /\ MayRecord(d) /\ d.result = "dead"
  /\ steps' = [steps EXCEPT ![RunOf(d)][Target(d)] = "dead"]
  /\ tasks' = Settled(d, "completed")
  /\ Gone(d)
  /\ UNCHANGED <<current, runs, remaining, calls, counts>>

(* complete_execution and fail_execution: whichever run is current now, but *)
(* not a cancelled one.                                                     *)
SetRunAnyway(status) == runs' = [runs EXCEPT ![current] = status]
SetRun(status) ==
  runs' = IF runs[current] = "cancelled" THEN runs ELSE [runs EXCEPT ![current] = status]

FinishRun(d) ==
  /\ d.phase = "finishing"
  /\ SetRun("completed")
  /\ To(d, "concluding")
  /\ UNCHANGED <<current, steps, remaining, tasks, calls, counts>>

(* on_failure turns the failure into a result.                              *)
OnFailureRecovers(d) ==
  /\ CanRecover /\ d.phase = "failing"
  /\ SetRun("completed")
  /\ To(d, "concluding")
  /\ UNCHANGED <<current, steps, remaining, tasks, calls, counts>>

FailRun(d) ==
  /\ d.phase = "failing"
  /\ SetRun("failed")
  /\ To(d, "marking")
  /\ UNCHANGED <<current, steps, remaining, tasks, calls, counts>>

(* OnComplete of a body task that parked or finished.                       *)
CompleteTask(d) ==
  /\ d.phase = "concluding" /\ HoldsLock(d)
  /\ tasks' = Settled(d, "completed")
  /\ Gone(d)
  /\ UNCHANGED <<execution, calls, counts>>

CompletionRefused(d) ==
  /\ \/ d.phase = "stepping" /\ ~MayRecord(d)
     \/ d.phase = "concluding" /\ ~HoldsLock(d)
  /\ To(d, "marking")
  /\ UNCHANGED <<execution, tasks, calls, counts>>

MarkFailed(d) ==
  /\ d.phase = "marking"
  /\ tasks' = IF HoldsLock(d) THEN Settled(d, "failed") ELSE tasks
  /\ Gone(d)
  /\ UNCHANGED <<execution, calls, counts>>

(* A statement of the dispatch fails and its transaction is rolled back.  In *)
(* the body that is an error of the handler; an error of get_execution, of   *)
(* a completion or of its begin() goes to mark_failed; those of              *)
(* complete_execution and fail_execution are ignored; one of mark_failed     *)
(* leaves the row to recovery.                                               *)
AfterError(phase) ==
  CASE phase = "fetched" -> {"failing", "marking"}
    [] phase = "finishing" -> {"concluding"}
    [] phase = "failing" -> IF CanRecover THEN {"concluding", "marking"} ELSE {"marking"}
    [] phase \in {"stepping", "concluding"} -> {"marking"}
    [] OTHER -> {"failing"}

DbError(d) ==
  /\ d.phase # "running" /\ Fault("error")
  /\ IF d.phase = "marking" THEN Gone(d) ELSE \E p \in AfterError(d.phase) : To(d, p)
  /\ UNCHANGED <<execution, tasks, calls>>

-----------------------------------------------------------------------------

Init ==
  /\ current = NoRun
  /\ runs = [n \in Run |-> "none"]
  /\ steps = [n \in Run |-> [s \in Name |-> "none"]]
  /\ remaining = [n \in Run |-> [g \in Groups |-> 0]]
  /\ tasks = [t \in TaskId |-> Absent]
  /\ dispatches = {}
  /\ calls = [c \in Client |-> Idle]
  /\ cancels = 0
  /\ faults = 0

Calling(c) ==
  \/ CreateExecution(c) \/ ResetExecution(c) \/ ScheduleRoot(c) \/ CancelTasks(c)

ClientStep ==
  \/ \E c \in Client : Start(c) \/ CancelRun(c) \/ Calling(c) \/ CallerDies(c)
  \/ \E n \in Run : \/ \E i \in Events : OfferEvent(n, i)
                    \/ \E s \in MayDie : RetryDeadStep(n, s)
  \/ RerunSteps

(* The steps of a dispatch, but for the faults.                             *)
Execute(d) ==
  \/ DeadlinePassed(d) \/ ReplayBody(d) \/ CaptureValue(d) \/ ReplayStep(d)
  \/ ScheduleStep(d) \/ UpsertGroup(d) \/ VisitChild(d)
  \/ LambdaReturns(d) \/ LambdaTimesOut(d) \/ RescheduleForRetry(d)
  \/ CompleteStep(d) \/ FailChild(d) \/ FinishRun(d) \/ OnFailureRecovers(d) \/ FailRun(d)
  \/ CompleteTask(d) \/ CompletionRefused(d) \/ MarkFailed(d)

Queue == \E t \in TaskId : PickUp(t) \/ RecoverOrphan(t)

Next ==
  \/ ClientStep
  \/ Queue
  \/ \E d \in dispatches : Execute(d) \/ Lapse(d) \/ Crash(d) \/ DbError(d)

Spec == Init /\ [][Next]_vars

(* Some worker polls (DueTaskIsTaken of TaskQueue), leases end (LeaseEnds),  *)
(* a dispatch that lives makes progress, and so does a call.  No client need *)
(* call, and no fault need happen.  Every dispatch takes finitely many steps *)
(* and attempts are bounded, so that fairness to all of them together is     *)
(* fairness to each.                                                         *)
Fairness ==
  /\ WF_vars(\E t \in TaskId : PickUp(t))
  /\ WF_vars(\E t \in TaskId : RecoverOrphan(t))
  /\ WF_vars(\E d \in dispatches : Execute(d))
  /\ WF_vars(\E c \in Client : Calling(c))

FairSpec == Spec /\ Fairness

-----------------------------------------------------------------------------
(* Safety.                                                                  *)

(* A step is only ever scheduled by a replay that has the results of all the *)
(* items before it, whatever stale or repeated replays run besides.          *)
InOrder ==
  \A n \in Run, s \in Name :
    steps[n][s] = "scheduled" =>
      \A j \in 1..(ItemOf(s) - 1) : Chosen(Decision(n), j) => Passed(n, j)

(* Only the branch of the handler that the recorded result selects leaves    *)
(* rows, though replays read that result at different times and in different *)
(* modes.  docs/api/free-functions.mdx:41 has step for a body that           *)
(* "genuinely needs to branch"; it holds unless an error of the step can be  *)
(* read as its output (Lookalikes).                                         *)
OneBranchRuns ==
  \A n \in Run, s \in Name : steps[n][s] # "none" => Chosen(Decision(n), ItemOf(s))

(* wg_remaining is the number of children without a result, from the moment  *)
(* the group's row exists, and no child exists before it: each child counts  *)
(* once, however often it is run and the group's row is upserted.            *)
GroupCountsChildren ==
  \A n \in Run, g \in Groups :
    IF steps[n][Of(g)] = "none"
    THEN \A s \in Children(g) : steps[n][s] = "none"
    ELSE remaining[n][g] = Cardinality({s \in Children(g) : steps[n][s] \notin Completed})

(* The task that task_id of a step's row names.                              *)
TaskOf(n, s) ==
  IF s \in MayDie /\ tasks[RetryTask(n, s)] # Absent THEN RetryTask(n, s) ELSE StepTask(n, s)

(* The steps table and the task queue, of two crates, never disagree: a step *)
(* without a result has a task that is not completed (unless on_failure made *)
(* a result of the run there), and the task of a step that is dead or has its*)
(* result is completed, so that it is never run again.  Events are completed *)
(* from outside, and steps a rerun keeps have no task.                       *)
StepsMatchTasks ==
  \A n \in Run, s \in Name :
    LET status == tasks[TaskOf(n, s)].status IN
    /\ steps[n][s] = "scheduled" /\ s \notin {Of(g) : g \in Groups}
         => status # "absent" /\ (status = "completed" => CanRecover)
    /\ steps[n][s] \in {"dead"} \cup Completed /\ ItemOf(s) \notin Events
         => status \in {"absent", "completed"}

(* A recorded result is final: no stale dispatch, no late event and no       *)
(* deadline task writes another one over it.                                 *)
ResultsAreFinal ==
  [][\A n \in Run, s \in Name :
       steps[n][s] \in Completed => steps'[n][s] = steps[n][s]]_vars

(* A cancelled run stays cancelled, though dispatches in flight go on to     *)
(* complete or fail the execution: only an operator who retries a dead child *)
(* of it opens it again (durable.rs:582 has the status set back to Running), *)
(* and then the step is scheduled in the same transaction.                   *)
CancelledUntilRetried ==
  [][\A n \in Run : runs[n] = "cancelled" =>
       \/ runs'[n] = "cancelled"
       \/ /\ runs'[n] = "running"
          /\ \E s \in MayDie : steps[n][s] = "dead" /\ steps'[n][s] = "scheduled"]_vars

(* An execution that was started ends, by itself, whatever crashes and lost  *)
(* leases there were: a parked body always has a task that will resume it.   *)
(* But a wait with a dead child is not resumed, and fails nothing.           *)
RunEnds ==
  \A n \in Run :
    runs[n] = "scheduled" ~> runs[n] # "scheduled" \/ \E s \in MayDie : steps[n][s] = "dead"

-----------------------------------------------------------------------------
(* What the documentation says and the code does not do.                    *)

(* A run fails for a reason: a step's error, an event's deadline, the        *)
(* execution's deadline, or a fault.  concepts/flow-control.mdx:142 has      *)
(* sequential and parallel steps compose freely.                             *)
FailureHasCause ==
  \A n \in Run : runs[n] = "failed" =>
    \/ \E i \in Steps : steps[n][Of(i)] = "err"
    \/ \E i \in Deadlines : steps[n][Of(i)] = "scheduled"
    \/ HasTimeout \/ faults > 0

(* A capture is evaluated once: what a replay goes on with is what is        *)
(* recorded.  rust-api/capture-variables.mdx:33 has the closure never        *)
(* re-evaluated.                                                             *)
CaptureIsOneValue ==
  \A d \in dispatches : d.own # "null" => d.own = Decision(RunOf(d))

(* The current run ends or another one becomes current, if workers are fair. *)
(* admin/index.mdx:97 has the replay of a rerun see kept steps as completed, *)
(* with no extra code.                                                       *)
CurrentRunEnds ==
  \A n \in Run :
    runs[n] = "scheduled" /\ current = n ~> runs[n] # "scheduled" \/ current # n

(* An event that was delivered to the current run wakes it: the run comes to *)
(* a later item or ends, or another one becomes current.                     *)
(* examples/approval-workflow/README.md:52: when offer_event is called, the  *)
(* task is woken up.                                                         *)
DeliveredEventsWake ==
  \A n \in Run, i \in Events :
    runs[n] = "scheduled" /\ current = n /\ steps[n][Of(i)] = "ok"
      ~> \/ runs[n] # "scheduled" \/ current # n
         \/ \E s \in Name : ItemOf(s) > i /\ steps[n][s] # "none"

(* A completed run has the results of its branch, unless on_failure made its *)
(* own.  admin/index.mdx:19: a restart archives the current run and starts a *)
(* fresh one from scratch, which is to run the entire workflow.              *)
CompletedRunsRan ==
  \A n \in Run : runs[n] = "completed" =>
    CanRecover \/ \A i \in Item : Chosen(Decision(n), i) => Passed(n, i)

(* concepts/durable-execution.mdx:100: once cancel has returned, steps that   *)
(* are running finish, but no new steps are scheduled.                       *)
NoNewStepsOnceCancelled ==
  [][\A n \in Run, s \in Name :
       runs[n] = "cancelled" /\ (\A c \in Client : calls[c] = Idle)
         /\ steps[n][s] = "none" => steps'[n][s] = "none"]_vars

=============================================================================
