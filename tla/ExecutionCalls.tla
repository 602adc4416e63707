--------------------------- MODULE ExecutionCalls ---------------------------
(***************************************************************************)
(* The calls of DurableScheduler on one execution, statement by statement, *)
(* as PostgreSQL runs them (READ COMMITTED): what a transaction writes is   *)
(* seen when it commits, each statement reads what is committed when it     *)
(* begins, a row that another transaction has written makes it wait, and a  *)
(* second row with the same key makes it fail.                              *)
(*                                                                         *)
(* DurableExecution has these calls as one or two steps each and the        *)
(* replay in detail; here the replay is only the task that carries a run    *)
(* on: it waits, is at work, or concludes the execution.                    *)
(*                                                                         *)
(* PauseRules has the scheduler's other calls.  No statement reads both     *)
(* executions and pause rules, so a behaviour has calls of one kind only.   *)
(***************************************************************************)
EXTENDS PauseRules

CONSTANTS
  Client,      \* callers; each makes one call
  Ops,         \* the calls they choose from
  MaxRun,      \* bound: runs are 0..MaxRun
  Step,        \* steps of the handler
  Timeout,     \* of a wait, in ticks of the clock
  Interval,    \* poll_interval of a wait
  MaxNow,      \* bound on the clock
  MaxFaults    \* bound on calls that fail or whose caller dies

ASSUME CallsAssumption ==
  /\ MaxRun \in Nat /\ MaxNow \in Nat /\ MaxFaults \in Nat
  /\ Timeout \in Nat /\ Interval \in Nat \ {0}
  /\ Ops \subseteq {"start", "start_in_tx", "start_and_wait", "wait", "cancel",
                    "restart", "rerun", "retry_step", "status", "runs", "detail"}

Run == 0..MaxRun
NoRun == MaxRun + 1

VARIABLES
  current,     \* current_run_id, or NoRun before the execution exists
  runs,        \* runs[n]: the row of run n
  done,        \* done[n]: the steps of run n that are completed
  work,        \* work[n]: the task that carries run n on
  calls,       \* calls[c]: the call of client c
  now,         \* the clock that waits read
  endedAt,     \* when the current run became terminal
  lost,        \* open runs whose task a call has cancelled or failed to insert
  faults       \* calls that failed so far

rows == <<current, runs, done, endedAt>>
counts == <<now, lost, faults, ruleVars>>
callVars == <<rows, work, calls, now, lost, faults>>
vars == <<callVars, ruleVars>>

-----------------------------------------------------------------------------
(* Rows.                                                                    *)

Terminal == {"completed", "failed", "cancelled"}
Status == {"none", "scheduled"} \cup Terminal

(* zart_execution_runs; closed is completed_at, result whether it has one.  A  *)
(* run that has a result has ended, whoever archives it.                     *)
RunRow == {row \in [status : Status, closed : BOOLEAN, result : BOOLEAN] :
             /\ row.status = "completed" => row.result
             /\ row.result => row.closed /\ row.status \in {"completed", "failed"}}
NoRow == [status |-> "none", closed |-> FALSE, result |-> FALSE]
FreshRow == [NoRow EXCEPT !.status = "scheduled"]

Exists(n) == runs[n].status # "none"
Open(n) == runs[n].status = "scheduled"
CurrentOpen == current # NoRun /\ Open(current)

(* The body's and the steps' tasks of a run follow each other; seen is the   *)
(* run that a concluding body takes for the current one.                     *)
Work == [state : {"absent", "scheduled", "active", "concluding", "over", "cancelled"},
         seen : Run \cup {NoRun},
         outcome : {"completed", "failed"}]
WorkIn(state) == [state |-> state, seen |-> NoRun, outcome |-> "completed"]

(* schedule_at of {run_id}:body:start, which does nothing if the task is     *)
(* there; the alternative would be an id that does not name the run.         *)
AnyRootTaken(n) == \E m \in Run : work[m].state # "absent"
RootTaken(n) == work[n].state # "absent"
WithRoot(n) == IF RootTaken(n) THEN work ELSE [work EXCEPT ![n] = WorkIn("scheduled")]

-----------------------------------------------------------------------------
(* Calls.                                                                   *)

Phase == {"idle", "creating", "open", "listing", "beginning", "bootstrapping", "archiving",
          "numbering", "inserting", "committing", "rooting", "cancelling", "sweeping",
          "polling", "answered"}
Answer == {"none", "ok", "false", "empty", "exists", "not_found", "unsupported", "mismatch",
           "timed_out", "no_result", "error"}

Call == [op : Ops \cup {"none"}, phase : Phase, answer : Answer,
         seen : Run \cup {NoRun},       \* the run it has read, or means to cancel
         status : Status,               \* the status it has read
         locked : BOOLEAN,              \* whether it has written that run's row
         index : Run \cup {NoRun},      \* the run it inserts
         effective : BOOLEAN,           \* whether its insert, or its cancelling, is committed
         keep : SUBSET Step,            \* the steps to carry over
         at : Nat,                      \* when it polls next
         deadline : Nat]
NoCall == [op |-> "none", phase |-> "idle", answer |-> "none", seen |-> NoRun,
           status |-> "none", locked |-> FALSE, index |-> NoRun, effective |-> FALSE,
           keep |-> {}, at |-> 0, deadline |-> 0]

Never == MaxNow + 1

(* Of the actions that change a run.                                         *)
NoteEnd ==
  endedAt' = IF CurrentOpen' THEN Never ELSE IF CurrentOpen THEN now ELSE endedAt

TypeOK ==
  /\ current \in Run \cup {NoRun}
  /\ runs \in [Run -> RunRow]
  /\ done \in [Run -> SUBSET Step]
  /\ work \in [Run -> Work]
  /\ calls \in [Client -> Call]
  /\ now \in 0..MaxNow
  /\ endedAt \in 0..Never
  /\ lost \subseteq Run
  /\ faults \in 0..MaxFaults
  /\ RulesTypeOK

In(c, phase) == calls[c].phase = phase
Set(c, call) == calls' = [calls EXCEPT ![c] = call]
Goto(c, phase) == Set(c, [calls[c] EXCEPT !.phase = phase])
Answered(call, answer) ==
  [call EXCEPT !.phase = "answered", !.answer = answer, !.locked = FALSE,
     !.status = "none", !.keep = {}, !.at = 0]
Return(c, answer) == Set(c, Answered(calls[c], answer))

(* What others wait for: the row of a run that a transaction has written, an *)
(* execution or a run that one has inserted.                                 *)
RunLocked(n) == \E c \in Client : calls[c].locked /\ calls[c].seen = n
CreationLocked == \E c \in Client : In(c, "open") /\ calls[c].index = 0
IndexLocked(n) == \E c \in Client : In(c, "committing") /\ calls[c].index = n

(* The first statement of a call, which reads the current run.               *)
Begin(c, op, phase) ==
  /\ In(c, "idle") /\ op \in Ops
  /\ Set(c, [NoCall EXCEPT !.op = op, !.phase = phase, !.seen = current])
BeginAnswered(c, op, answer) ==
  /\ In(c, "idle") /\ op \in Ops
  /\ Set(c, [NoCall EXCEPT !.op = op, !.phase = "answered", !.answer = answer])

-----------------------------------------------------------------------------
(* start, start_in_tx.                                                      *)

(* start: an open execution is refused, a terminal one is reset.             *)
Start(c, op) ==
  /\ op \in {"start", "start_and_wait"}
  /\ IF current = NoRun THEN Begin(c, op, "creating")
     ELSE IF Open(current) THEN BeginAnswered(c, op, "exists")
     ELSE Begin(c, op, "numbering")
  /\ UNCHANGED <<rows, work, counts>>

StartInTx(c) ==
  /\ IF current = NoRun THEN Begin(c, "start_in_tx", "creating")
                        ELSE BeginAnswered(c, "start_in_tx", "unsupported")
  /\ UNCHANGED <<rows, work, counts>>

(* start_and_wait_for goes on to wait_for.                                   *)
Waiting(call) ==
  [call EXCEPT !.phase = "polling", !.at = now, !.deadline = now + Timeout]
Started(c, call) ==
  Set(c, IF call.op = "start_and_wait" THEN Waiting(call) ELSE Answered(call, "ok"))

FirstRun ==
  /\ current' = 0
  /\ runs' = [runs EXCEPT ![0] = FreshRow]
  /\ work' = WithRoot(0)
  /\ NoteEnd
  /\ UNCHANGED done

(* start_execution_sql and the root task, in one transaction.  The insert of *)
(* the execution waits for another one's; if that commits, all of these      *)
(* statements do nothing, and the call has started nothing.                  *)
CreateExecution(c) ==
  /\ In(c, "creating") /\ ~CreationLocked
  /\ LET call == calls[c] IN
     IF call.op = "start_in_tx"
     THEN /\ Set(c, [call EXCEPT !.phase = "open",
                       !.index = IF current = NoRun THEN 0 ELSE NoRun])
          /\ UNCHANGED <<rows, work>>
     ELSE IF current = NoRun
     THEN FirstRun /\ Started(c, [call EXCEPT !.index = 0, !.effective = TRUE])
     ELSE Started(c, call) /\ UNCHANGED <<rows, work>>
  /\ UNCHANGED counts

(* The caller of start_in_tx ends the transaction that is its own.           *)
CallerCommits(c) ==
  /\ In(c, "open")
  /\ IF calls[c].index = 0 THEN FirstRun ELSE UNCHANGED <<rows, work>>
  /\ Set(c, Answered([calls[c] EXCEPT !.effective = calls[c].index = 0], "ok"))
  /\ UNCHANGED counts

CallerRollsBack(c) ==
  /\ In(c, "open")
  /\ Return(c, "error")
  /\ UNCHANGED <<rows, work, counts>>

-----------------------------------------------------------------------------
(* restart and rerun_steps.  reset_execution, of start, joins them where the *)
(* new run gets its number.                                                  *)

Restart(c) ==
  /\ Begin(c, "restart", "beginning")
  /\ UNCHANGED <<rows, work, counts>>

RerunSteps(c) ==
  /\ IF current = NoRun THEN BeginAnswered(c, "rerun", "not_found")
                        ELSE Begin(c, "rerun", "listing")
  /\ UNCHANGED <<rows, work, counts>>

(* What rerun_steps reruns.  No step here is dead, and what is preserved is   *)
(* not rerun though it be forced.                                            *)
EffectiveRerun(force, preserve, completed) == force \ (preserve \cap completed)
Preserved(force, preserve, completed) ==
  completed \ EffectiveRerun(force, preserve, completed)

ListSteps(c) ==
  /\ In(c, "listing")
  /\ \E force, preserve \in SUBSET Step :
       Set(c, [calls[c] EXCEPT !.phase = "beginning",
                 !.keep = Preserved(force, preserve, done[calls[c].seen])])
  /\ UNCHANGED <<rows, work, counts>>

(* do_restart_run: the current run, which need not be the one listed.        *)
ReadCurrentRun(c) ==
  /\ In(c, "beginning")
  /\ Set(c, IF current = NoRun THEN [calls[c] EXCEPT !.phase = "bootstrapping"]
            ELSE [calls[c] EXCEPT !.phase = "archiving", !.seen = current,
                    !.status = runs[current].status])
  /\ UNCHANGED <<rows, work, counts>>

(* An execution that does not exist is made, with a run for no handler.      *)
Bootstrap(c) ==
  /\ In(c, "bootstrapping") /\ ~CreationLocked
  /\ IF current = NoRun
     THEN /\ FirstRun
          /\ Set(c, Answered([calls[c] EXCEPT !.index = 0, !.effective = TRUE], "ok"))
     ELSE Return(c, "error") /\ UNCHANGED <<rows, work>>
  /\ UNCHANGED counts

(* WHERE completed_at IS NULL.                                              *)
EvenClosed(n) == TRUE
NotClosed(n) == ~runs[n].closed

(* A run without completed_at gets one, and the status read before.          *)
Archive(c) ==
  /\ In(c, "archiving") /\ ~RunLocked(calls[c].seen)
  /\ Set(c, [calls[c] EXCEPT !.phase = "numbering", !.locked = NotClosed(calls[c].seen)])
  /\ UNCHANGED <<rows, work, counts>>

NumberRun(c) ==
  /\ In(c, "numbering")
  /\ \E n \in Run :
       /\ ~Exists(n) /\ \A m \in 0..(n - 1) : Exists(m)
       /\ Set(c, [calls[c] EXCEPT !.phase = "inserting", !.index = n])
  /\ UNCHANGED <<rows, work, counts>>

(* run_id is the primary key; without it the row would be written again.     *)
NeverTaken(n) == FALSE
Taken(n) == Exists(n)

(* The INSERT of the run, the UPDATE of the execution, and the copy of steps.*)
InsertRun(c) ==
  /\ In(c, "inserting") /\ ~IndexLocked(calls[c].index)
  /\ IF Taken(calls[c].index) THEN Return(c, "error")
     ELSE Set(c, [calls[c] EXCEPT !.phase = "committing", !.keep = @ \cap done[calls[c].seen]])
  /\ UNCHANGED <<rows, work, counts>>

RootNeverInTx(op) == FALSE
RootInTx(op) == op \in {"restart", "rerun"}

RunAfterSeen(call) == call.seen + 1
NewCurrent(call) == call.index

CommitRun(c) ==
  /\ In(c, "committing")
  /\ LET call == calls[c]
         n == call.index
     IN  /\ runs' = [m \in Run |->
              CASE m = n -> FreshRow
                [] m = call.seen /\ call.locked ->
                     [runs[m] EXCEPT !.status = call.status, !.closed = TRUE]
                [] OTHER -> runs[m]]
         /\ current' = NewCurrent(call)
         /\ NoteEnd
         /\ done' = [done EXCEPT ![n] = call.keep]
         /\ work' = IF RootInTx(call.op) THEN WithRoot(n) ELSE work
         /\ LET committed == [call EXCEPT !.locked = FALSE, !.effective = TRUE]
            IN  Set(c, IF RootInTx(call.op) THEN Answered(committed, "ok")
                       ELSE [committed EXCEPT !.phase = "rooting"])
  /\ UNCHANGED counts

(* After reset_execution start schedules the root task by itself.            *)
ScheduleRoot(c) ==
  /\ In(c, "rooting")
  /\ work' = WithRoot(calls[c].index)
  /\ Started(c, calls[c])
  /\ UNCHANGED <<rows, counts>>

-----------------------------------------------------------------------------
(* cancel, wait, retry_step.                                                *)

(* cancel_execution's first statement finds the current run, and then waits  *)
(* for its row.                                                              *)
Cancel(c) ==
  /\ Begin(c, "cancel", "cancelling")
  /\ UNCHANGED <<rows, work, counts>>

CancellableEver(n) == Exists(n)
Cancellable(n) == Open(n)

CancelRun(c) ==
  /\ In(c, "cancelling")
  /\ LET n == calls[c].seen IN
     IF n # NoRun /\ Cancellable(n)
     THEN /\ ~RunLocked(n)
          /\ runs' = [runs EXCEPT ![n].status = "cancelled", ![n].closed = TRUE]
          /\ Set(c, [calls[c] EXCEPT !.phase = "sweeping", !.answer = "ok",
                       !.effective = TRUE])
     ELSE /\ n # NoRun => ~RunLocked(n)
          /\ Set(c, [calls[c] EXCEPT !.phase = "sweeping", !.answer = "false"])
          /\ UNCHANGED runs
  /\ UNCHANGED <<current, done, work, counts>>
  /\ NoteEnd

(* The second statement takes the tasks of all runs.                         *)
Swept == {n \in Run : work[n].state = "scheduled"}

SweepTasks(c) ==
  /\ In(c, "sweeping")
  /\ work' = [n \in Run |-> IF n \in Swept THEN WorkIn("cancelled") ELSE work[n]]
  /\ lost' = lost \cup {n \in Swept : Open(n)}
  /\ Goto(c, "answered")
  /\ UNCHANGED <<rows, now, faults, ruleVars>>

Wait(c) ==
  /\ In(c, "idle") /\ "wait" \in Ops
  /\ Set(c, Waiting([NoCall EXCEPT !.op = "wait"]))
  /\ UNCHANGED <<rows, work, counts>>

EndedInTime(call) == runs[current].status \in Terminal /\ now < call.deadline
Ended(call) == runs[current].status \in Terminal

ExpiredNever(call) == FALSE
Expired(call) == now >= call.deadline

(* One turn of wait's loop; wait_for needs a result besides.                 *)
Poll(c) ==
  /\ In(c, "polling") /\ calls[c].at <= now
  /\ LET call == calls[c] IN
     IF current = NoRun THEN Return(c, "not_found")
     ELSE IF Ended(call)
     THEN Return(c, IF call.op = "wait" \/ runs[current].result THEN "ok" ELSE "no_result")
     ELSE IF Expired(call) THEN Return(c, "timed_out")
     ELSE Set(c, [call EXCEPT !.at = now + Interval])
  /\ UNCHANGED <<rows, work, counts>>

(* retry_dead_step: the current run has no step of that name, or has one that *)
(* is scheduled or completed, once its body has been at work.  None is dead    *)
(* here: WaitGroups and DurableExecution have those that are, and their retry. *)
MayHaveStep(n) == done[n] # {} \/ work[n].state # "absent"

RetryStep(c) ==
  /\ \/ BeginAnswered(c, "retry_step", "not_found")
     \/ current # NoRun /\ MayHaveStep(current) /\ BeginAnswered(c, "retry_step", "mismatch")
  /\ UNCHANGED <<rows, work, counts>>

(* status, a single query; list_runs, which finds none; and execution_detail, *)
(* which goes on with four more if there is one (what they see of calls that  *)
(* commit in between is left out).                                           *)
GetStatus(c) ==
  /\ BeginAnswered(c, "status", IF current = NoRun THEN "not_found" ELSE "ok")
  /\ UNCHANGED <<rows, work, counts>>

ListRuns(c) ==
  /\ BeginAnswered(c, "runs", IF current = NoRun THEN "empty" ELSE "ok")
  /\ UNCHANGED <<rows, work, counts>>

ExecutionDetail(c) ==
  /\ BeginAnswered(c, "detail", IF current = NoRun THEN "not_found" ELSE "ok")
  /\ UNCHANGED <<rows, work, counts>>

(* A statement fails or the caller dies: what is not committed is undone.    *)
CallFails(c) ==
  /\ calls[c].phase \notin {"idle", "answered"} /\ faults < MaxFaults
  /\ faults' = faults + 1
  /\ lost' = IF In(c, "rooting") THEN lost \cup {calls[c].index} ELSE lost
  /\ Return(c, "error")
  /\ UNCHANGED <<rows, work, now, ruleVars>>

-----------------------------------------------------------------------------
(* The workers.                                                             *)

PickUp(n) ==
  /\ work[n].state = "scheduled"
  /\ work' = [work EXCEPT ![n] = WorkIn("active")]
  /\ UNCHANGED <<rows, calls, counts>>

StepCompletes(n) ==
  /\ work[n].state = "active"
  /\ \E s \in Step \ done[n] : done' = [done EXCEPT ![n] = @ \cup {s}]
  /\ work' = [work EXCEPT ![n] = WorkIn("scheduled")]
  /\ UNCHANGED <<current, runs, endedAt, calls, counts>>

(* complete_execution and fail_execution look for the current run first.     *)
BodyEnds(n) ==
  /\ work[n].state = "active"
  /\ \E outcome \in {"completed", "failed"} :
       work' = [work EXCEPT ![n] = [state |-> "concluding", seen |-> current,
                                    outcome |-> outcome]]
  /\ UNCHANGED <<rows, calls, counts>>

(* fail_execution sets no completed_at.                                      *)
Concluded(row, outcome) ==
  IF row.status = "cancelled" THEN row
  ELSE IF outcome = "failed" THEN [row EXCEPT !.status = "failed"]
  ELSE [status |-> "completed", closed |-> TRUE, result |-> TRUE]

ConcludeExecution(n) ==
  /\ work[n].state = "concluding" /\ ~RunLocked(work[n].seen)
  /\ runs' = [runs EXCEPT ![work[n].seen] = Concluded(@, work[n].outcome)]
  /\ work' = [work EXCEPT ![n] = WorkIn("over")]
  /\ UNCHANGED <<current, done, calls, counts>>
  /\ NoteEnd

(* Time passes while a wait sleeps.                                          *)
Tick ==
  /\ \E c \in Client : In(c, "polling") /\ now < calls[c].at
  /\ now < MaxNow /\ now' = now + 1
  /\ UNCHANGED <<rows, work, calls, lost, faults, ruleVars>>

-----------------------------------------------------------------------------

Init ==
  /\ current \in {NoRun, 0}
  /\ runs = [n \in Run |-> IF n = current THEN FreshRow ELSE NoRow]
  /\ done = [n \in Run |-> {}]
  /\ work = [n \in Run |-> WorkIn(IF n = current THEN "scheduled" ELSE "absent")]
  /\ \/ calls = [c \in Client |-> NoCall] /\ RulesUnused
     \/ calls = [c \in Client |-> [NoCall EXCEPT !.phase = "answered"]] /\ RulesInit
        /\ current = NoRun
  /\ now = 0
  /\ endedAt = Never
  /\ lost = {}
  /\ faults = 0

Calls(c) ==
  \/ Start(c, "start") \/ Start(c, "start_and_wait") \/ StartInTx(c)
  \/ Restart(c) \/ RerunSteps(c) \/ Cancel(c) \/ Wait(c) \/ RetryStep(c)
  \/ GetStatus(c) \/ ListRuns(c) \/ ExecutionDetail(c)

GoesOn(c) ==
  \/ CreateExecution(c) \/ CallerCommits(c) \/ CallerRollsBack(c)
  \/ ListSteps(c) \/ ReadCurrentRun(c) \/ Bootstrap(c) \/ Archive(c) \/ NumberRun(c)
  \/ InsertRun(c) \/ CommitRun(c) \/ ScheduleRoot(c)
  \/ CancelRun(c) \/ SweepTasks(c) \/ Poll(c)

Carry(n) == PickUp(n) \/ StepCompletes(n) \/ BodyEnds(n) \/ ConcludeExecution(n)

RuleCalls ==
  \/ \E o \in Operator : Pause(o) /\ UNCHANGED callVars
  \/ \E o \in Operator : PauseRefused(o) /\ UNCHANGED callVars
  \/ \E o \in Operator : Resume(o) /\ UNCHANGED callVars
  \/ \E o \in Operator : ResumeDeletes(o) /\ UNCHANGED callVars
  \/ \E o \in Operator : ResumeReturns(o) /\ UNCHANGED callVars
  \/ \E o \in Operator : ResumeFails(o) /\ UNCHANGED callVars
  \/ \E o \in Operator : ResumeRuleById(o) /\ UNCHANGED callVars
  \/ \E r \in Rule : Expire(r) /\ UNCHANGED callVars

Next ==
  \/ \E c \in Client : Calls(c) \/ GoesOn(c) \/ CallFails(c)
  \/ \E n \in Run : Carry(n)
  \/ Tick
  \/ RuleCalls

Spec == Init /\ [][Next]_vars
FairSpec == Spec /\ WF_vars(Tick) /\ \A c \in Client : WF_vars(GoesOn(c))

-----------------------------------------------------------------------------
(* What the callers are told.                                               *)

(* The HTTP status of an answer: what a handler does not name is a 500.      *)
Replied(answer, codes) == IF answer \in DOMAIN codes THEN codes[answer] ELSE 500

(* The query of the status after a start, which may fail too, is left out.   *)
StartReply(answer) == Replied(answer, [ok |-> 201])
StatusReply(answer) == Replied(answer, [ok |-> 200, not_found |-> 404])
WaitReply(answer) == Replied(answer, [ok |-> 200, not_found |-> 404, timed_out |-> 504])
CancelReply(answer) == Replied(answer, [ok |-> 204, false |-> 404])
RunsReply(answer) == Replied(answer, [ok |-> 200, empty |-> 200])
DetailReply(answer) == Replied(answer, [ok |-> 200, not_found |-> 404])
RestartReply(answer) == Replied(answer, [ok |-> 200, not_found |-> 404])
RerunReply(answer) == Replied(answer, [ok |-> 200, not_found |-> 404])
RetryStepReply(answer) == Replied(answer, [ok |-> 200, not_found |-> 404, mismatch |-> 404,
                                           error |-> 404])

Reply(op, answer) ==
  CASE op = "start" -> StartReply(answer)
    [] op = "status" -> StatusReply(answer)
    [] op = "wait" -> WaitReply(answer)
    [] op = "cancel" -> CancelReply(answer)
    [] op = "restart" -> RestartReply(answer)
    [] op = "rerun" -> RerunReply(answer)
    [] op = "retry_step" -> RetryStepReply(answer)
    [] op = "runs" -> RunsReply(answer)
    [] op = "detail" -> DetailReply(answer)

(* The exit status of a command; cancel and runs exit with 1 on an answer    *)
(* that is not an error.                                                     *)
Exit(answer) == IF answer = "ok" THEN 0 ELSE 1
AdminExit(answer) == IF answer = "ok" THEN 0 ELSE 1

Routes == {"start", "status", "wait", "cancel"}
AdminRoutes == {"restart", "rerun", "retry_step", "runs", "detail"}
Commands == Routes \cup AdminRoutes

(* A caller is refused if each front end that has the call tells it so.      *)
Refused(call) ==
  /\ call.phase = "answered" /\ call.answer # "ok"
  /\ call.op \in Routes \cup AdminRoutes => Reply(call.op, call.answer) \notin 200..299
  /\ call.op \in Commands =>
       (IF call.op \in AdminRoutes THEN AdminExit(call.answer) ELSE Exit(call.answer)) # 0

-----------------------------------------------------------------------------
(* Properties.                                                              *)

(* current_run_id is always the last run there is, though calls that make    *)
(* runs read it, number their run and commit in any order.                   *)
LastRunIsCurrent ==
  {n \in Run : Exists(n)} = IF current = NoRun THEN {} ELSE 0..current

(* No two calls have inserted the same run: each restart that is told it     *)
(* succeeded has a run of its own.                                           *)
RunsInsertedOnce ==
  \A c, d \in Client :
    c # d /\ calls[c].effective /\ calls[d].effective /\ calls[c].index # NoRun =>
      calls[c].index # calls[d].index

(* The run that a client waits for has a task that will end it, or a call    *)
(* that is about to schedule one, unless a call has failed in between or a   *)
(* cancel that came too late for its own run has taken it.                   *)
CurrentRunHasWork ==
  CurrentOpen /\ current \notin lost =>
    \/ work[current].state \in {"scheduled", "active"}
    \/ work[current].state = "concluding" /\ work[current].seen = current
    \/ \E c \in Client : In(c, "rooting") /\ calls[c].index = current

(* A run is cancelled exactly if one call of cancel did it, and no second   *)
(* one believes that it did, whoever concludes or archives the run meanwhile. *)
CancelledByOne ==
  \A n \in Run :
    Cardinality({c \in Client : calls[c].op = "cancel" /\ calls[c].seen = n
                                /\ calls[c].effective})
      = IF runs[n].status = "cancelled" THEN 1 ELSE 0

(* An execution that has ended before a wait's deadline is never reported as *)
(* timed out, however the polls fall.                                        *)
WaitSeesTheEnd ==
  \A c \in Client : calls[c].answer = "timed_out" => endedAt >= calls[c].deadline

(* A caller whose start, restart or rerun is refused, by any front end, has  *)
(* started nothing, unless schedule_at failed after reset_execution.  (A     *)
(* start that waits is also refused when only its wait failed, and the route *)
(* of start when its query of the status failed.)                            *)
RefusedStartsNothing ==
  \A c \in Client :
    Refused(calls[c]) /\ calls[c].effective /\ calls[c].index # NoRun =>
      \/ calls[c].op = "start" /\ calls[c].index \in lost
      \/ calls[c].op = "start_and_wait"

(* Every call returns: transactions that wait for each other's rows do not   *)
(* wait in a circle, and a wait ends at its deadline.                        *)
CallsReturn == \A c \in Client : ~In(c, "idle") ~> In(c, "answered")

=============================================================================
