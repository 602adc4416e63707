# Verification of zart

zart is a durable execution engine in Rust on PostgreSQL. An *execution* is a
handler (an async function) whose steps are recorded in the database; the
handler is replayed from the top whenever it has to go on, and recorded steps
return their results instead of running again. Everything that happens is
driven by rows of one task queue, `zart_tasks`, which any number of worker
processes poll.

This directory holds TLA+ models of the queue, of the execution engine on top
of it and of the calls that clients and operators make, the TLC configurations
that check them, and proofs about them. Paths below are relative to
`src/crates/` unless they start with `src/`.

## 1. The system

| part | state | operations | who calls it |
|---|---|---|---|
| task queue, `zart-scheduler/src/postgres` | `zart_tasks`: status, execution_time, lock token (`worker_id`), `locked_at`, attempt, metadata | schedule, poll_due, renew_lease, recover_orphans, mark_completed, mark_failed, update_task_state, cancel_task, delete_task | workers, clients, the engine |
| worker, `zart-scheduler/src/worker.rs` | per process: poll loop, poll counter, permits; per dispatch: task as fetched, heartbeat | `run`, `heartbeat_loop`, `dispatch_task`, `stop` | the process's main |
| completion handlers, `completion.rs`, `ops.rs` | a transaction | complete or reschedule the task, with follow-ups, atomically | `dispatch_task`, with what the handler returned |
| lifecycle, `zart/src/durable.rs` and `postgres/execution_storage_impl.rs` | `zart_executions.current_run_id`, `zart_execution_runs` | start, start_in_tx, wait, cancel, offer_event, complete_execution, fail_execution, reset_execution | clients; `ZartTask` |
| replay, `zart/src/task.rs`, `context/`, `step_types/` | in memory, per dispatch | body mode: look up or schedule each item; step mode: run the target's lambda | the worker, as the handler of every `__zart__` task |
| steps, `step_storage_impl.rs`, `step_completion.rs`, `retry.rs`, `timeout.rs`, `trx_impl.rs` | `zart_steps`, `zart_step_attempts`; the deadline in the task's metadata; the lambda's transaction | schedule_step, reschedule_step_for_retry, write_step_completion, `zart::trx` | replay |
| wait groups, `wait_group_storage_impl.rs` | `wg_remaining`, `wg_first_failed` of the group's step row | upsert, complete child, fail child, recover orphaned groups | replay and step completion |
| events, `event_storage_impl.rs` | the event's step row and its deadline task | deliver_event | clients |
| admin, `service/execution_service.rs`, `admin_storage_impl.rs` | runs and steps | restart, rerun_steps, retry_step, details | operators, over HTTP or the CLI |
| recurring executions, `recurring.rs` | occurrence counter in the task's metadata | seed, start the next occurrence by overlap policy, stop | the worker |
| pause rules, `service/pause_service.rs`, `pause_storage_impl.rs` | `zart_pause_rules` | pause, resume, delete, list | operators |
| macros, `zart-macros` | none | what `#[zart_step]` and `#[zart_durable]` declare | the handler's author |

Everything is shared through the database; there is no other channel between
processes. Inside a process the poll loop, the dispatches and their heartbeats
are tokio tasks.

What is hard about it:

* leases: a dispatch may lose its lease and not know it, and every statement it
  issues afterwards must notice;
* replays: several dispatches of one run (a stale one, a repeated one, the one
  after an event and the one after its deadline) may replay it side by side,
  and a handler that branches on a result must take the same branch in each;
* every way to *park* (end a body's dispatch before the body has ended) must
  leave behind a task that resumes it;
* counting of a wait's children, exactly once each;
* attempts: which dispatch may record the end of an attempt, with which number,
  before which deadline, and with what the lambda wrote in its transaction;
* clients that start, cancel, restart or deliver events while dispatches are in
  flight, and whose own calls are several statements or transactions: one reads
  which run is current, a later one writes to that run;
* crashes, database errors, panics, late heartbeats, tasks that queue for a
  permit.

What makes each part correct:

* queue: settled rows are final; a lease is taken from its holder only by age;
  a holder's memory agrees with its row; a due task is taken and a lease ends;
  no two handlers of a task at a time (while heartbeats are in time);
* engine: items get their results in order and once, on one branch; the steps
  table and the queue agree; a wait counts its children; a run ends unless a
  child of a wait is dead; a cancelled run stays so unless such a child is
  retried; a run fails only for a cause;
* attempts: the attempt rows are the history of the step; effects of a lambda
  commit at most once and with what it returned, an Ok or (in a wait's child) an
  Err; a deadline outlives retries and leases;
* calls: runs are numbered once and the current one is the last; an open run
  has a task; each answer says what was done; each call returns;
* recurrence: executions do not overlap, occurrences are not skipped, faults
  cost at most one run each;
* pause rules: each deleted rule is counted by one caller.

## 2. The modules

| module | what it is |
|---|---|
| `TaskQueue` | the queue's table, N workers with their poll loops, one dispatch per fetched task; clients, faults and time |
| `LeasedJobs` | the abstract promise of the queue: jobs, handles that hold them and may lose them unknowingly; what follows from it (`LostIsLost`) |
| `TaskQueueRefinement` | the mapping; `ImplementsLeasedJobs` |
| `DurableExecution` | one execution: clients, runs, steps, wait groups, its tasks in the queue, the dispatches that replay the body |
| `Workflow` | the abstract promise of one run: results in order, once, on one branch, but for those it begins with, and an end |
| `DurableRefinement` | the mapping, for any run, whatever runs are before and after it; for run 0 `ImplementsWorkflow` |
| `DurableQueue` | the engine's task rows as `LeasedJobs`; `KeepsToLeasedJobs`, `StaleStaysStale` |
| `StepAttempts` | the attempts of steps: retries, delays, timeouts and their scopes, user transactions, attempt rows, leases |
| `WaitGroups` | extends it with the children of a wait, their group, dead steps and their retry |
| `PauseRules` | the pause service, statement by statement |
| `ExecutionCalls` | extends it with the other calls of clients and operators, statement by statement, and what HTTP and the CLI answer |
| `RecurringExecutions` | the recurring task, its ticks and the executions they start |
| `MCTaskQueue`, `MCDurableExecution` | symmetry for TLC |
| `TaskQueue_proofs`, `TaskQueueRefinement_proofs`, `DurableSafety_proofs`, `DurableRefinement_proofs`, `WaitGroups_proofs`, `ExecutionCalls_proofs`, `RecurringExecutions_proofs` | the theorems |

Three modules look at one execution from three sides, each with the rest
abstracted: `DurableExecution` has the replay in detail and takes calls and
attempts as single steps; `ExecutionCalls` has the calls in detail and takes
the replay as one task per run; `StepAttempts` has the attempts of steps in
detail and no body. All of them take leases as `TaskQueue` shows them to be.

`LeasedJobs` is where queue and engine, which are two crates, meet. `TaskQueue`
implements it: whatever workers, clocks and transactions do, callers see jobs
that are taken, lost, concluded and withdrawn. `DurableExecution`, which has the
queue's rows in it without the workers, implements it as well, with its own
statements (schedule with ON CONFLICT DO NOTHING, cancel_execution's UPDATE, the
completions that insert the next task) as the steps: so it does to the rows no
more than the queue's promise admits.

### TaskQueue

A row is a record of status, execution_time, worker_id and `locked_for`, the
age of `locked_at`. A *dispatch* is named by the lock token (`Uuid::new_v4` in
`poll_due`) that the row was given when it was fetched; the record is what the
process remembers of the row and how far it is:

    queued -> executing -> returned -> (gone)       Spawn, HandlerReturns, Complete...
                   |            \-> failing         CompletionRefused
                   |-> rescheduled -> returned      HandlerReschedules
                   |-> failing -> (gone)            HandlerFails, MarkFailed
                   \-> panicked                     HandlerPanics

`poll_due` is two actions, since it is a SELECT ... FOR UPDATE SKIP LOCKED and
then UPDATEs: `PollSelect` locks rows (`held`), `PollCommit` hands out tokens.
`Spawn` is the loop's wait for a permit; the heartbeat starts there.
`Heartbeat`, `RecoverOrphans`, `Complete`, `CompleteOccurrence`, `OnReschedule`
and `MarkFailed` carry the WHERE clauses of their statements (`HoldsLock`,
`Orphaned`). `HandlerReschedules` is what the handler of a durable step does to
its own row when it retries: reschedule_step_for_retry clears the lock before
the handler has returned, so that its last instructions, its heartbeat and its
refused completion overlap whoever fetches the row next. `Commit` may report an
error although the database applied it.

Abstractions. Time is a counter up to `Horizon`, which also stands for all
later times. The age of a lease is compared with `OrphanTimeout` only and is
counted up to one more. A token may be drawn again when nothing mentions it any
more, which no part of the system can tell from a fresh one. `attempt`,
results, payloads and metadata are left out; the queue reads none of them.
A recurrence is a fixed `Period` that ends at `Horizon`, as a cron schedule may
end.

### DurableExecution

The handler's body is the constant sequence of items `1..Length`, each a step,
a sleep, an event, a capture or a wait over `Fanout` handles. It may branch on
the result of one item, `Decider`: the items of `IfOk` and `IfErr` are on the
two branches, the others on both. A dispatch sees the recorded result (`Seen`),
or the value of a capture it has just taken itself. What an item comes to is
`ResultOf`: a wait has a result when all its children have, and it is an error
if one of theirs does not decode as the type of the handles, since `wait_all`
then drops the others with it. `Lookalikes` are the steps
whose recorded error can be decoded as an output, which step mode does.

The queue is abstracted to what `TaskQueue` shows it to do: `PickUp`,
`RecoverOrphan` (only when no live dispatch holds the lease), `Lapse` (a lease
that runs out under a live dispatch, a fault here). `attempt` counts pick-ups,
so `<<task, attempt>>` stands for the lock token. Task ids are modelled as the
code formats them, including the one without a run in `deliver_event`.

A dispatch goes through the phases

    fetched                                        ZartTask::execute is entered
    replaying, capturing, scheduling, grouping, visiting
                                                   body mode, statement by statement
    running, retrying                              the target step's lambda
    stepping                                       ZartStepCompletion and its siblings:
                                                   CompleteStep, FailChild, or refused
    finishing, failing                             complete_execution, fail_execution
    concluding, marking                            OnComplete, mark_failed

one transaction of the code per action. The reads of a replay are one read at
the item that stops it; rows of a run's steps only move forward
(`ResultsAreFinal` is checked), so that reading earlier rows later gives what
reading them earlier gave, or a later stop.

Calls of a client that are several transactions are several actions: `start`
reads the status, creates or resets, and inserts the body task after a reset
(`Start`, `CreateExecution`, `ResetExecution`, `ScheduleRoot`); `cancel` is
`CancelRun` and `CancelTasks`. `CallerDies` may end a call between them.
`deliver_event` reads `current_run_id` first and writes the step and the
continuation of that run in one transaction later; since nothing else of it
depends on the time of the read, `OfferEvent(n, i)` is a delivery to any run
there has been, the current one or not.

The children of `MayDie` may die: what their lambda returns cannot be serialized,
which is an error of the attempt and, as children have no retries, its last
(`FailChild`: nothing is counted, nobody is resumed). An operator may
retry such a child, of any run and whatever its status (`RetryDeadStep`): the run
is `running` from then on, cancelled or not. The new task's id is not the step's
id, to which `zart_step_attempts` refers, so the completion of a retried child
fails on that foreign key (`MayRecord`) and its task ends failed. A retry is one
step in the model: that two operators find the same child dead and schedule
a task each is left out.
`RerunSteps` covers `restart` (which keeps nothing) and `rerun_steps`, which
keeps the completed steps the caller does not name: any of those of the items in
`Preservable`, some of a wait's children among them. A group's own row is never
completed and so never kept (`Kept`).

Abstractions. The execution deadline and an event's deadline may pass at any
time. A step's lambda returns a value or, if it is `Fallible`, an error or a
timeout; retry delays are in `StepAttempts`. A run's results are "ok" or "err".

### StepAttempts and WaitGroups

`config[s]` is how a step is declared, by way of what the macro makes of its
attributes (`Attributes`, `RetryConfig`, `Implemented`): number and kind of
retries, scope of the timeout. A step scheduled for a wait loses both
(`AsChild`). A dispatch goes

    fetched -> checked -> running -> returned -> completing -> (gone)
                                         |-> hintless -> (gone)      after RescheduleForRetry

`CheckDeadline` is the test of the execution's deadline, `Begin` the one of the
step's and the choice of `effective_timeout`, `LambdaReturns` and
`LambdaTimesOut` race. `RescheduleForRetry`, `CompleteStep`,
`CompleteWaitGroupChild` (which takes a child's Err as it takes its Ok) and
`FailWaitGroupChild` are one transaction each, with
the test of the lock in it; `trx` is whether the lambda's own transaction is
there to be committed with it. After a retry was rescheduled the code returns
without a hint, and the worker's completion of that dispatch finds that it no
longer holds the lock. `RetryDeadStep` makes the task `{run_id}:step:retry:{name}:...`, whose
id is not the step's.

Time is relative: each deadline is a number of ticks that are left, so that the
model has no clock to bound. `Delay` is `delay_for`. A behaviour is about one
step or about one group of all steps (`IsGroup`).

### PauseRules and ExecutionCalls

Each client makes one call of `Ops`, each operator one on pause rules. A call
is a sequence of statements, in the order of the code, under READ COMMITTED:
its `phase` is where it is, `seen` and `status` what it has read, `locked` the
row it has written and not committed, `index` the run it inserts. A statement
that needs a row another transaction has written waits for it; an insert of a
key that is there fails its transaction. `CallFails` is a database error or the
caller's death at any statement. `work[n]` is the task that carries run n on;
`Conclude...` is complete_execution or fail_execution, which read the current
run and write it in two statements. `lost` is a history variable: the open runs
whose task a failed or late call has taken away.

No step is dead in this module; `RetryStep` answers that there is no such step or
that it is not dead. The retry that succeeds is in `DurableExecution` (what it
does to the run, and that a cancelled run could then be cancelled again) and in
`WaitGroups` (what becomes of the step).

`Reply`, `Exit` and `AdminExit` are the status codes and exit codes the routes
and commands map answers to.

### RecurringExecutions

One recurring task row with the occurrence in its metadata, and ticks that are
dispatched from it: look at the last occurrence's execution by policy, cancel
or skip, start this one (a read, then a creation or a reset), then count it in
the completion. The lease of a tick may lapse, a tick may crash or fail at each
point, `Stop` deletes the row and `Seed` makes it anew.

## 3. The runs

| run | instance | distinct states | properties |
|---|---|---|---|
| `queue_safety` | 2 workers, 2 tasks (one recurring, one deletable), 3 tokens, 1 fault | 2.2 M | `TypeOK`, `LockMatchesStatus`, `HolderKnowsItsRow`, `SelectedRowsWait`, `SettledStaysSettled`, `LeaseRespected` |
| `queue_on_time` | the same without deletions, with heartbeats in time and as many permits as fetched tasks | 2.9 M | `HandlersExclusive` |
| `queue_live` | 2 workers, of which one may be stopped; fairness; 1 fault | 0.3 M | `DueTaskIsTaken`, `LeaseEnds`, `ImplementsLeasedJobs` |
| `execution` | a step with a retry whose outcome decides between a capture with a sleep and a wait of two, one of whose children may die; 1 crash or lapse; fairness | 0.2 M | `TypeOK`, `OneBranchRuns`, `GroupCountsChildren`, `RunEnds`, `KeepsToLeasedJobs` |
| `execution_faults` | a capture, a step with a retry and a handled error, a wait whose child may die or not decode, an event with a deadline; 1 cancel; 1 crash, lapse or database error | 1.1 M | `InOrder`, `ResultsAreFinal`, `ImplementsWorkflow`, `CancelledUntilRetried` |
| `execution_restart` | a step, a wait whose child may die, an event with a deadline; 2 runs, of which the second keeps any results of the first two; late deliveries and retries to the first; on_failure may recover, the execution deadline may pass | 2.3 M | `StepsMatchTasks` |
| `steps` | one step with every declaration, or two children of a wait; 2 dispatches; up to 2 retries; 2 crashes or lapses; fairness | 0.7 M | `TypeOK`, `EffectsMatchResults`, `AttemptsTellTheStory`, `ResultsAreEarned`, `DeadlineHolds`, `GroupCounts`, `StepsEnd` |
| `api` | any 2 of 11 calls on one execution of up to 3 runs, or any 2 on 2 pause rules; 1 failure; a clock of 2 ticks; fairness | 0.8 M | `TypeOK`, `LastRunIsCurrent`, `RunsInsertedOnce`, `CurrentRunHasWork`, `CancelledByOne`, `WaitSeesTheEnd`, `RefusedStartsNothing`, `ResumesAccountForRules`, `CallsReturn` |
| `recurring` | 3 occurrences under each policy, 2 ticks at a time, 2 faults, 1 stop | 0.5 M | `TypeOK`, `NoOverlap`, `CounterOneBehind`, `RunsAgainAfterFaults` |

and three runs in which the documentation says one thing and the code does
another (paths of documents are below `src/webpage/src/content/docs/docs/` or
`src/examples/`):

| run | the documentation | the code |
|---|---|---|
| `parallel_first` | "Sequential and parallel steps compose freely" (concepts/flow-control.mdx:142) | a step after a wait fails the run: its replay in step mode reaches the wait first and finds no handle of the target's name |
| `err_commits` | "If `run()` returns `Err`, the framework rolls back the transaction instead" (concepts/transactions.mdx:119, and its table at 184; trx_impl.rs:119 and 167) | the Err of a wait's child is stored with the hint of an Ok (task_context.rs:545): nothing rolls back, and what the child wrote through `zart::trx` commits with it |
| `event_again` | on `offer_event` "the task is woken up" (approval-workflow/README.md:52) | the continuation's id is without a run, so that in a second run it is taken: the event is recorded, and nothing is woken up |

Six more configurations are kept beside them, of which TLC finds the property
violated as well. They show what the code does to later runs, and why theorems
of section 5 have the hypotheses they have:

| configuration | property | the documentation | the code |
|---|---|---|---|
| `DurableBranch.cfg` | `OneBranchRuns` | step is for a handler that "genuinely needs to branch on a specific step's outcome" (api/free-functions.mdx:41) | in step mode an error that decodes as the output type is taken for one, so the replay takes the other branch |
| `DurableCapture.cfg` | `CaptureIsOneValue` | "the closure is never re-evaluated" (rust-api/capture-variables.mdx:33) | a replay that lost its lease and the one that took over both evaluate it, and one goes on with a value that is not recorded |
| `DurableRerun.cfg` | `CurrentRunEnds` | on a rerun the body "skips re-executing" the steps that are kept (admin/index.mdx:97) | the kept children of a wait are counted by its new group's row and never complete again, so that the run hangs |
| `DurableLateBody.cfg` | `CompletedRunsRan` | a restart "starts a fresh run from scratch" (admin/index.mdx:19) | a body of the first run that ends afterwards completes the second, none of whose steps has run |
| `DurableCancel.cfg` | `NoNewStepsOnceCancelled` | "no new steps will be scheduled" (concepts/durable-execution.mdx:100) | a step in flight when the execution is cancelled schedules its continuation, and that the next step |
| `TaskQueueShort.cfg` | `HandlersExclusive` | "each execution is processed by exactly one worker at a time" (features.mdx:189) | a fetched task that waits for a permit has no heartbeat, and may be run by two |

Each is about its cause alone: TLC finds no violation with nothing kept
(`Preservable = {}`, `DurableRerun`), in one run (`MaxRun = 0`,
`DurableLateBody`), without a fault (`DurableCapture`) or with as many permits
as fetched tasks (`queue_on_time`). The same holds of `event_again` in one run,
or with a deadline for the event.

What each passing run shows beyond its properties' comments:

* `queue_safety`: a stale dispatch never disturbs a row it no longer holds.
* `execution`: one branch is taken although stale and repeated replays read the
  deciding result at different times; with fair workers a run
  without a dead child ends in spite of a crash or a lost lease at any point; and of the tasks that these replays
  insert, retry, give back and settle, each has one holder, which alone settles
  it, and none that is settled comes back.
* `execution_faults`: every behaviour of run 0 is one of `Workflow`: an item
  gets a result only after all before it, and keeps it; a run that was cancelled
  leaves that status only by the retry of a dead child of its own. (The instances of
  `execution` and `execution_restart` satisfy `ImplementsWorkflow` too, TLC
  finds, with branches and a wait in one and a restart of a run in flight in the
  other; that it holds of every body is proved.)
* `steps`: two dispatches of one step, of which one has lost its lease, never
  record two ends, two effects, or an effect without a result that was
  returned (`err_commits` is the Err of a child).
* `api`: of two starts, restarts, reruns and cancels one always gives way, and
  no two transactions wait for each other for ever.

Bounds. Two workers and two tasks are enough for every pair of a stale and a
current holder, and for a poll against a poll, a cancel, a delete and a
recovery; with three tokens a row can be fetched a third time while both
earlier dispatches live. One fault per behaviour lets every action be
interrupted at every point; lapses in `TaskQueue` are not counted as faults and
are unbounded. In `DurableExecution` one lapse gives two live dispatches of a
task, from which replays, steps and completions interleave in every way.
Bodies of two to four items contain each kind of item before and after
another one where the code lets the run go on (`parallel_first` is where it
does not). In `steps`, two retries, an initial delay of 1 and a cap of 1 make
the exponential, the fixed and the capped delay differ, and a timeout and a
lifetime of 2 ticks let each expire before, during and after a retry's delay;
two faults let a step be lost twice, or a retry be lost. In `api`, two calls
are every pair, and three runs let both of them make one; the clock lets the
end of a run come before, between and after a wait's two polls. In `recurring`,
three occurrences are needed for an occurrence that overlaps one but the last.
The proofs below lift these bounds for every safety property of the passing
runs; the bounds remain for the five liveness properties.

Deadlock is checked in the runs of `TaskQueue` and `WaitGroups` (where time
goes on for ever). An execution does come to an end, calls are answered and the
schedule of a recurrence ends, so the other runs say `CHECK_DEADLOCK FALSE`.

Symmetry is used in safety runs only: tokens and workers where no worker is
singled out, and clients.

## 4. Fairness

`TaskQueue`: weak fairness of the clock, of each worker's loop steps and
restart, and of the steps of each dispatch (spawn once it can have a permit,
heartbeat, return of the handler, completion, mark_failed). This is what tokio
timers and spawned futures give, and a supervisor that restarts a process.
Handlers are taken to return. There is none for clients, for the handler's
failing, for faults, or for stop; liveness is checked with one worker that is
not stopped.

`DurableExecution`: weak fairness of picking up, of orphan recovery, of the
dispatches' steps and of calls that have begun. The first two rest on
`DueTaskIsTaken` and `LeaseEnds`, of which `queue_live` is the check. `RunEnds`
is checked with crashes and lost leases, but without database errors: an
ignored error of complete_execution (task.rs:197), or an error in a completion
(which leads to the terminal mark_failed), does leave a run scheduled for
ever. So does a dead child of a wait, which `RunEnds` names as its exception. See the hazards in PROJECT.json.

`WaitGroups`: weak fairness of time, of each dispatch's steps, and for each
step of picking up its task and recovering its lease. `StepsEnd` excepts a dead
child that was retried by hand: its task has an id that the attempt's row
cannot refer to, so it never ends (admin_storage_impl.rs:95).

`ExecutionCalls`: weak fairness of each call's next statement and of the clock
while a wait sleeps; none for calls to begin, for workers or for failures.

`RecurringExecutions`: none; its properties are invariants.

## 5. What is proved

All theorems hold for every value of the constants under the assumptions named
in the modules (`TokenAssumption`, `NumberAssumption`,
`BodyAssumption`, `BoundAssumption`, `AttemptsAssumption`, `CallsAssumption`,
`RecurringAssumption`), and so for any number of tasks, workers, callers, runs,
steps, dispatches, attempts, ticks and faults. All but four state a property that
a run checks; `LostHandlesStayLost` and `StaleStaysStaleCorrect` state what a lost
lease comes to, in the queue's promise and in the engine;
`RunImplementsWorkflow` and `DrainedRunImplementsWorkflow` have for any run what is
checked for the first. Where a theorem has a hypothesis of its own it is named
here, with what goes wrong without it.

`TaskQueue_proofs` (sets may be infinite):

* `TypeCorrect`: `Spec => []TypeOK`;
* `LocksCorrect`, `HolderCorrect`, `SelectionCorrect`: the three state
  invariants, by way of

      IInv == TypeOK /\ LockMatchesStatus /\ HolderKnowsItsRow /\ SelectedRowsWait

  None of the three is inductive alone. That a completion (whose WHERE clause
  tests worker_id alone) writes a row that is picked_up needs
  `LockMatchesStatus`; that `PollCommit`'s UPDATE (which tests nothing) does
  not steal a lock needs `SelectedRowsWait`; and for `HolderKnowsItsRow` the
  tokens it hands out must occur nowhere else;
* `SettledCorrect`, `LeaseCorrect`: the two action properties, from IInv;
* `ExclusiveWithPermitsInTime`:
  `Guarded => (Spec /\ []PermitsInTime => []HandlersExclusive)`, and
  `ExclusiveWithPermits`, that with at least as many permits as tokens, which is
  what `queue_on_time` checks, `PermitsInTime` holds of itself. The invariant
  (`LeaseInv`) is that a dispatch that waits for a permit or runs its handler
  (before it reschedules itself) has the row's lock, not older than the orphan timeout, and once it runs it a
  heartbeat. A row has one lock, so there is one such dispatch.
  `Guarded` is heartbeats in time and no deleted rows, `PermitsInTime` that a
  fetched task has its permit before its lease is over. Each of the three is
  needed: TLC finds two handlers of a task without any one of them (without
  permits in `TaskQueueShort.cfg`).

`TaskQueueRefinement_proofs`:

* `QueueImplementsLeasedJobs`: `Spec => ImplementsLeasedJobs`. The claims are the
  dispatches that have not ended, with the row each was given. Every step is
  mapped to the abstract step it stands for: schedule_at to `Submit`,
  cancel_task to `Withdraw`, delete_task to `Erase`, poll_due's commit to
  `Take`, recover_orphans and a handler's rescheduling of its own row to
  `Lapse`, each completion and mark_failed under its
  lock to `Conclude`. All others leave every row's lock alone (`LockKept`) and
  at most end dispatches (`DispatchKept`), and are `Forget` or a stutter. That
  a completion concludes the job it holds, and no other, is where `IInv` is
  needed.

`LeasedJobs` (about itself):

* `LostHandlesStayLost`: `JobSpec => LostIsLost`: a handle that has lost its job
  never finds itself the holder again, although others take the job, give it up
  and reopen it. It rests on handles being fresh when a job is taken under them
  (`Take`) and on a handle naming one job (`HandlesNameOneJob`). The lemmas before
  it (`SubmitIsNext` to `EraseIsNext`) say that each action is a step of `JobNext`,
  which finds what an action is about in the step itself so that TLC can
  evaluate it; both refinements use them.

`DurableSafety_proofs`, about the rows of runs, steps, tasks and groups:

* `CancelledCorrect`: `Spec => CancelledUntilRetried`: no completion, failure,
  restart or delivery moves a cancelled run to another status; only
  `RetryDeadStep` does, which schedules a dead child of that run in the same step
  (as durable.rs:582 documents it). The invariant (`RunsInv`) is that an
  execution that does not exist has no run: the statements that conclude a run
  test that it is not cancelled, but `CreateExecution` writes run 0 without a
  test;
* `TypesCorrect`, `ResultsAreFinalCorrect` and `GroupCountsCorrect` from

      IInv == TypeOK /\ RunsInv /\ RunsThere
                /\ (\A t : TaskOK(t) /\ LeaseOK(t)) /\ (\A n, s : StepOK(n, s))
                /\ (\A n, g : GroupOK(n, g)) /\ (\A d : DispatchOK(d))

  `LeaseOK` bounds `attempt`, which TypeOK needs: only retries and faults use
  attempts up, and the one dispatch that has the last of them is the row's
  holder. `StepOK` relates the row of a step to its task: they are written
  together, captures and groups have none, a result that is there has a task
  that is done. `GroupOK` is that the counter is at least the number of children
  without a result, and equal to it if no rerun may have kept some; that it
  starts so needs that no child has a row before its group (`AtChild`).
  `DispatchOK` says what row the step a dispatch is at must have in each phase.
  `GroupCountsCorrect` assumes `Preservable \cap Groups = {}`: otherwise the
  counter is too high, which is `DurableRerun.cfg`;
* `StepsMatchTasksCorrect` and `InOrderCorrect`, with `OrderInv` besides: where
  a row of a task or of a group is, the run `Came` there, that is, all items
  before it on the branch have a result that lets it go on. A dispatch that
  schedules, groups or finishes has come to the place at which it does, and
  stays there although the rows change in between, since results are final;
* `OneBranchRunsCorrect`, by way of `RowsReached`: a row of an item on a branch
  is there only when the record chose that branch. It assumes
  `Preservable \cap (IfOk \cup IfErr) = {}`: a rerun that keeps a step of one
  branch and takes the other has rows of both, as `rerun_steps` allows.

  These three assume `Determinate`: the item that decides the branch is a step
  whose recorded error cannot be decoded as an output. With a capture as
  decider (`DurableCapture.cfg`) or such a step (`DurableBranch.cfg`) the replay goes by
  another value than the record has, and TLC finds each of the properties
  violated, except `InOrder` in the latter.

`DurableRefinement_proofs`:

* `RunImplementsWorkflow`: for every run n, `Spec /\ []NoLateBody(n) => W(n)!Spec`,
  under `Determinate` (without which it is violated in both instances just
  named). Inserts of run n are `Begin`, which for a rerun takes over results of
  items in `Preservable`; whatever gives an item its result (a capture's insert, a
  step's completion, an event, the last child of a wait) is `Record`, and
  conclusions of the current run are `Complete`, `Fail` or `Cancel` if that run is
  run n. That a result comes only after those before it is `OrderInv`. The
  statement of complete_execution writes the current run whoever calls it.
  `NoLateBody(n)` is that no body of another run is at that statement while run n
  is current; without it the theorem is false (`DurableLateBody.cfg`). Bodies of
  other runs may be in flight otherwise, fail, or run their steps;
* `FirstRunImplementsWorkflow`: `Spec => ImplementsWorkflow`, the same for run 0
  without that hypothesis: nothing but run 0 can be current while run 0 is and no
  body of a later run is there (`RunsInOrder`);
* `DrainedRunImplementsWorkflow`: `Spec /\ BeginsDrained(n) => W(n)!Spec`, what a
  caller can do about it. `BeginsDrained(n)` is that when run n begins

  1. no dispatch is alive;
  2. no task is picked up or can be;
  3. no other call has reset the execution and not yet scheduled its body;
  4. no event is waited for, in any run: a delivery that has read
     `current_run_id` before run n began then finds nothing to deliver, while
     otherwise its continuation would be a body of an earlier run;
  5. no step is dead or has been, which an operator could still retry.

  From then on, while run n is current, all work is its own (`OwnWork`), since
  work comes of work of the same run, of a call for the current one, of an event
  that is waited for or of a dead step (`WorkComesFromWork`). Without any one of
  the first four TLC finds that a body of an earlier run completes run n: on the
  instance of `DurableLateBody.cfg` with a crash or lapse for the first two and a
  third run for the third, and with an event without a deadline before the step
  for the fourth (872 states). With all of them it finds none, and does find run
  n completed. The fifth keeps tasks of earlier runs away, so that all work is
  run n's own; a retried step alone completes no body;
* `EngineKeepsToLeasedJobs`: `Spec => KeepsToLeasedJobs`, for every body and without
  a hypothesis. Handles are pairs of a task and the number of its pick-up. The
  invariant (`QueueOK`) is that two dispatches of a task have different numbers,
  none above the row's `attempt`: so the next number is fresh, and a dispatch that
  finds its own number in a row that is picked up is the row's only holder.
  `CreateExecution`, `ScheduleRoot`, `OfferEvent`, `RetryDeadStep`, `Restart` and
  `ScheduleStep` are `Submit` or nothing, since ON CONFLICT DO NOTHING leaves a
  row alone; `CancelTasks` is `Withdraw`; `PickUp` is `Take`; `RecoverOrphan`, `Lapse`
  and the rescheduling of a retry by its holder are `Lapse`; `CompleteStep`,
  `FailChild`, `CompleteTask` and `MarkFailed` under their lock are `Conclude`, with the task
  they insert; `Crash` is `Forget`;
* `StaleStaysStaleCorrect`: `Spec => StaleStaysStale`, from `QueueOK`: the claim
  of a dispatch that has lost its lease stays lost while the task goes through
  retries and other workers, so that the lock tests of `CompleteStep`,
  `RescheduleForRetry`, `CompleteTask` and `MarkFailed` refuse it for good.

`WaitGroups_proofs` (all invariants of `steps`):

* `StepsTypeCorrect`, `GroupCountsCorrect`, `EffectsCorrect`,
  `AttemptsCorrect`, `ResultsCorrect`, `DeadlineCorrect`, from

      IInv == TypeOK /\ ConfigOK /\ LocksOK /\ GroupCounts
                /\ (\A s : StepOK(s)) /\ (\A d : DispatchOK(dispatches[d]))

  `LocksOK` is the core: a row's lock is that of the dispatch that fetched it
  last, whose remembered retry count is one less than the row's attempt, and
  which has not been through a retry already. With it `StepOK` shows that the
  number the dispatch gives its attempt is free (all rows of a task without a
  lock have numbers up to the counter, with a lock below it), so that ON
  CONFLICT DO NOTHING never hides an attempt; and that a row in the queue
  belongs to a step without a result, so that nothing is counted or written
  twice. `DispatchOK` carries from each phase to the completion what the result
  may be and whether the lambda's transaction may be there; for `EffectsCorrect`,
  that it is there only with an Ok, or with an Err that a child returned. `DeadlineHolds`
  needs that a limit and a deadline pass in step (`LowerFacts`);

`ExecutionCalls_proofs` (all invariants of `api`):

* `CallsTypeCorrect`, `LastRunCorrect`, `InsertedCorrect`, `WorkCorrect`,
  `CancelCorrect`, `WaitCorrect`, `RefusedCorrect`, from

      IInv == CallsTypeOK /\ AllCallsOK /\ NoClash /\ RunsOK /\ WorkOK

  `CallOK` says for each phase how what a call remembers relates to the rows
  now; `NoClash` that no two calls hold the same key, row or run: the same
  creation, the same uncommitted index, the same locked row, the same inserted
  or cancelled run. `RunsOK` is that a cancelled run was cancelled by a call and
  that the current run's end is noted, `WorkOK` that tasks exist for runs there
  are and that a body never concludes a run before its own;
* `RulesCorrect`: `ResumesAccountForRules`, by way of `RulesInv`: the rules a
  resume has tried are deleted, by whomever.

`RecurringExecutions_proofs`:

* `RecurringTypeCorrect`, `CounterCorrect`, `NoOverlapCorrect`, from

      IInv == TypeOK /\ HolderIsCurrent /\ StartedHasRun /\ CounterInv /\ OverlapInv

  While no lease has lapsed and the task was not stopped, a tick at work is the
  row's holder and has the row's occurrence (`HolderIsCurrent`), so that nothing
  beyond the counter was started (`CounterInv`); and of the executions only that
  of the counter or the one before it can run, and no other than the former
  once a tick has come to its start (`OverlapInv`), which is why it is enough
  that the policy looks at one of them;
* `RunsAgainCorrect`: `RunsAgainAfterFaults`, by way of `ChanceInv`. Whoever may
  still start an occurrence counts as a run of it already: a tick on its way to
  the start, and the row while it waits to be dispatched (`Chances`). A tick
  that starts turns its chance into the run, a tick that ends well takes the
  row's chance to the next occurrence; only a crash and a lapse leave an
  occurrence with one more. So all that is beyond one per occurrence (`Extra`)
  is at most the number of faults.

Each proof that a step preserves an invariant has one step, or one lemma, per
action. The invariants were checked by TLC on the runs' instances before they
were proved, and the attempts corrected the model twice: `BodyAssumption` let an
item be of two kinds at once, and the mapping's `ResultOf` was a CASE whose arms
overlapped, so that its value was not determined.

Only model-checked: the liveness properties (`DueTaskIsTaken`, `LeaseEnds`,
`RunEnds`, `StepsEnd`, `CallsReturn`), which rest on fairness that the prover
does not reason about. Every invariant, action property and refinement that a
passing run checks is also a theorem.

## 6. What is not modelled

* Payloads and their encoding. Among it: a payload of a wait's child that is no
  object is dropped (zart/src/step_ops.rs:138), and a child whose Ok serializes
  to null is handed to the handler as an error (task_context.rs:726).
* Waits for any and for the first n: `WaitGroupKind`'s thresholds have no
  caller. `complete_step_no_resume`, `check_wait_all_children`, `get_step` and
  `DurableExecution::max_retries` have none either.
* For TLC, a second run of a body with a wait of two handles and other items:
  with two runs of a wait alone (`DurableRerun.cfg`), or a wait of one handle
  (`execution_restart`) it is done in minutes, with more it is not in reasonable
  time. The proofs have every body.
* Two operators who retry the same dead child at once (admin_storage_impl.rs:32
  reads its status without a lock).
* Lambdas that panic, and a second `zart::trx` in one attempt after the handle
  of the first was dropped (it replaces the first, where trx_impl.rs:113
  promises an error).
* A shutdown timeout: `shutdown_timeout` is read nowhere, and `stop` lets
  dispatches run on.
* Enforcement of pause rules: `is_paused` has no caller in the program.
* Cron arithmetic, which is a library's; the next occurrence is any later time.
* Queries: lists of executions and rules, statistics, reports. Of the HTTP
  routes and commands only those on executions, with their answers.
* Token streams of the macros, the builder, logging, metrics, the user
  interface and the web page.

PROJECT.json gives the reason for each part under "components".

## 7. Observations and open ends

Met while modelling, beside the divergences of section 3; the hazards in
PROJECT.json have the lines.

* Retrying a dead child of a run that was cancelled, or is not the current one
  any more, sets that run to `running` (admin_storage_impl.rs:124;
  `CancelledUntilRetried` names it). The retried child cannot complete its
  wait, as its attempt's row would refer to a step that is not there: the step
  stays scheduled, its task ends failed, and the run goes on for ever.
* A dead child fails nothing: its run stays as it is until an operator looks.
* A panicking handler's heartbeat goes on (`CanPanic`), so its task is never
  recovered.
* A delivered event's continuation belongs to no run by its id
  (`DeliveredTask`, `event_again`); `execution_restart` has a deadline for its
  event, whose task then resumes the body.
* A recurring task's tick that returns an error is marked failed, and seeding
  does not insert a row that is there: the recurrence has ended for good. Start
  on an id whose execution has ended resets it, so a redelivered tick runs an
  occurrence again (`RunsAgainAfterFaults` counts these).
* Two first starts of one execution may both be answered with success; a start
  that waits may return the result of another caller's run; a cancel that
  comes too late may cancel the root task of the next run (`lost`).
* A restart's archive may write a stale status over a run that has failed.

Open ends. Not stated as refinements: that `ExecutionCalls` implements an
abstract numbering of runs, and that `StepAttempts` implements the step which
`DurableExecution` takes an attempt to be.
