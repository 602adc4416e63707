----------------------------- MODULE TaskQueue -----------------------------
(***************************************************************************)
(* The task queue of zart-scheduler: the zart_tasks table, the poll loop   *)
(* of every worker process that shares it, and one dispatch per fetched    *)
(* task, from the moment poll_due hands it out to the end of               *)
(* dispatch_task.                                                          *)
(*                                                                         *)
(* A dispatch is named by the lock token poll_due wrote in the row's       *)
(* worker_id.  The code draws a fresh UUID; here a token may be drawn      *)
(* again once neither a row nor a dispatch mentions it, which nothing can  *)
(* tell from a fresh one.                                                  *)
(***************************************************************************)
EXTENDS Naturals, FiniteSets

CONSTANTS
  Task,               \* task_ids, the primary key of zart_tasks
  Worker,             \* worker processes polling the table
  Token, NoToken,     \* lock tokens; NoToken is SQL's NULL
  Recurring,          \* tasks inserted with a recurrence
  Registered,         \* tasks whose task_name has a handler in the registry
  Deletable,          \* tasks a client may delete_task
  Stoppable,          \* workers on which stop() may be called
  CanPanic,           \* whether handlers may panic
  HeartbeatsOnTime,   \* whether no heartbeat is later than the orphan timeout
  MaxTasksPerPoll, MaxConcurrentTasks, OrphanTimeout,   \* WorkerConfig
  RecoveryPeriod,     \* orphan recovery runs every RecoveryPeriod-th poll
  Horizon,            \* bound: no task is due later
  Period,             \* distance between two occurrences of a recurring task
  MaxFaults           \* bound: crashes and database errors in a behaviour

ASSUME TokenAssumption == NoToken \notin Token
ASSUME TaskAssumption == Recurring \subseteq Task
ASSUME NumberAssumption ==
  /\ MaxTasksPerPoll \in Nat \ {0} /\ MaxConcurrentTasks \in Nat \ {0}
  /\ OrphanTimeout \in Nat /\ RecoveryPeriod \in Nat \ {0}
  /\ Horizon \in Nat /\ Period \in Nat /\ MaxFaults \in Nat

VARIABLES
  tasks,      \* tasks[t]: the row of t, or Absent
  dispatch,   \* dispatch[k]: what the process that drew k knows and does, or Free
  pc,         \* pc[w]: where w's poll loop is
  polls,      \* polls[w]: poll_count modulo RecoveryPeriod
  held,       \* held[w]: rows locked by w's open poll_due transaction
  now,        \* the clock; at Horizon it stands for every later time as well
  faults      \* crashes and database errors so far

vars == <<tasks, dispatch, pc, polls, held, now, faults>>
loop == <<pc, polls, held>>

-----------------------------------------------------------------------------
(* Rows, dispatches and their types.                                        *)

Time == 0..Horizon

(* How long a lease has been held is compared only with OrphanTimeout, so   *)
(* ages beyond it need not be told apart.                                   *)
Age == 0..(OrphanTimeout + 1)

Settled == {"completed", "failed", "cancelled"}

Row == [status : {"absent", "scheduled", "picked_up"} \cup Settled,
        execution_time : Time, worker_id : Token \cup {NoToken}, locked_for : Age]

Absent == [status |-> "absent", execution_time |-> 0,
           worker_id |-> NoToken, locked_for |-> 0]

(* A row waiting for its time: inserted, rescheduled, or given back.        *)
Scheduled(e) == [status |-> "scheduled", execution_time |-> e,
                 worker_id |-> NoToken, locked_for |-> 0]

(* A statement that forgets worker_id = NULL.                               *)
SettledWithLock(r, s) == [r EXCEPT !.status = s]

(* The row r after a statement that settles it with status s.               *)
SettledAs(r, s) == [r EXCEPT !.status = s, !.worker_id = NoToken, !.locked_for = 0]

Handling == {"executing", "rescheduled"}          \* phases in the handler
Working == Handling \cup {"returned", "failing"}   \* phases that own a permit

Dispatch == [phase : Working \cup {"queued", "panicked"}, task : Task, worker : Worker,
             execution_time : Time, heartbeat : BOOLEAN]

Free == [phase |-> "free"]

TypeOK ==
  /\ tasks \in [Task -> Row]
  /\ dispatch \in [Token -> Dispatch \cup {Free}]
  /\ pc \in [Worker -> {"sleeping", "recovering", "polling", "fetching",
                        "dispatching", "stopped", "crashed"}]
  /\ polls \in [Worker -> 0..(RecoveryPeriod - 1)]
  /\ held \in [Worker -> SUBSET Task]
  /\ now \in Time
  /\ faults \in 0..MaxFaults

-----------------------------------------------------------------------------
(* Predicates the statements' WHERE clauses and the worker test.            *)

RowLocked(t) == \E w \in Worker : t \in held[w]

Due(t) == tasks[t].status = "scheduled" /\ tasks[t].execution_time <= now

(* Variants of these tests a slip in the SQL would give: no FOR UPDATE SKIP *)
(* LOCKED; the comparison of locked_at reversed; no lock token in the WHERE.*)
DueEvenIfLocked == {t \in Task : Due(t)}
RecentlyLocked(t) == tasks[t].status = "picked_up" /\ tasks[t].locked_for <= OrphanTimeout
RowExists(k) == tasks[dispatch[k].task] # Absent

(* SKIP LOCKED leaves out the rows another poll has selected for update.    *)
Fetchable == {t \in Task : Due(t) /\ ~RowLocked(t)}

(* recover_orphans' WHERE clause: locked_at < now - orphan_timeout.         *)
Orphaned(t) == tasks[t].status = "picked_up" /\ tasks[t].locked_for > OrphanTimeout

(* WHERE task_id = $1 AND worker_id = $2 matches the row of k's task.       *)
HoldsLock(k) == tasks[dispatch[k].task].worker_id = k

Active(w) == {k \in Token : dispatch[k].phase \in Working /\ dispatch[k].worker = w}

Queued(w) == {k \in Token : dispatch[k].phase = "queued" /\ dispatch[k].worker = w}

PermitAvailable(w) == Cardinality(Active(w)) < MaxConcurrentTasks

(* A fresh token is nobody's.  The first form is what a process that numbers *)
(* its tokens from one again after a restart would hand out.                 *)
UnusedTokens == {k \in Token : dispatch[k] = Free}
FreshTokens == {k \in Token : dispatch[k] = Free /\ \A t \in Task : tasks[t].worker_id # k}

(* Recurrence::next_after(execution_time): no occurrence beyond Horizon.    *)
(* The first form takes a schedule that has ended for one that goes on.     *)
HasNextForever(k) == dispatch[k].task \in Recurring
HasNext(k) == /\ dispatch[k].task \in Recurring
              /\ dispatch[k].execution_time + Period <= Horizon
NextAfter(k) == dispatch[k].execution_time + Period

Fault == faults < MaxFaults /\ faults' = faults + 1

-----------------------------------------------------------------------------
(* Client calls on the table.                                               *)

(* schedule_at: INSERT ... ON CONFLICT (task_id) DO NOTHING.                *)
ScheduleAt(t, e) ==
  /\ tasks[t] = Absent
  /\ tasks' = [tasks EXCEPT ![t] = Scheduled(e)]
  /\ UNCHANGED <<dispatch, loop, now, faults>>

(* cancel_task: only a scheduled row; waits for a poll that has locked it.  *)
CancelTask(t) ==
  /\ tasks[t].status = "scheduled" /\ ~RowLocked(t)
  /\ tasks' = [tasks EXCEPT ![t] = SettledAs(@, "cancelled")]
  /\ UNCHANGED <<dispatch, loop, now, faults>>

DeleteTask(t) ==
  /\ t \in Deletable /\ tasks[t] # Absent /\ ~RowLocked(t)
  /\ tasks' = [tasks EXCEPT ![t] = Absent]
  /\ UNCHANGED <<dispatch, loop, now, faults>>

-----------------------------------------------------------------------------
(* The poll loop, Worker::run.                                              *)

Goto(w, l) == pc[w] # l /\ pc' = [pc EXCEPT ![w] = l]

Wake(w) ==
  /\ pc[w] = "sleeping"
  /\ polls' = [polls EXCEPT ![w] = (@ + 1) % RecoveryPeriod]
  /\ Goto(w, IF polls'[w] = 0 THEN "recovering" ELSE "polling")
  /\ UNCHANGED <<tasks, dispatch, held, now, faults>>

Stop(w) ==
  /\ w \in Stoppable /\ pc[w] = "sleeping"
  /\ Goto(w, "stopped")
  /\ UNCHANGED <<tasks, dispatch, polls, held, now, faults>>

RecoverOrphans(w) ==
  /\ pc[w] = "recovering"
  /\ tasks' = [t \in Task |-> IF Orphaned(t) THEN Scheduled(tasks[t].execution_time)
                                             ELSE tasks[t]]
  /\ Goto(w, "polling")
  /\ UNCHANGED <<dispatch, polls, held, now, faults>>

(* An error is logged and the cycle goes on with the poll.                  *)
RecoverOrphansFails(w) ==
  /\ pc[w] = "recovering" /\ Fault
  /\ Goto(w, "polling")
  /\ UNCHANGED <<tasks, dispatch, polls, held, now>>

(* poll_due's SELECT ... ORDER BY execution_time LIMIT FOR UPDATE SKIP      *)
(* LOCKED.                                                                  *)
PollSelect(w) ==
  /\ pc[w] = "polling"
  /\ \E S \in SUBSET Fetchable :
       /\ Cardinality(S) <= MaxTasksPerPoll
       /\ Cardinality(S) = MaxTasksPerPoll \/ S = Fetchable
       /\ \A t \in S, u \in Fetchable \ S :
            tasks[t].execution_time <= tasks[u].execution_time
       /\ held' = [held EXCEPT ![w] = S]
       /\ Goto(w, IF S = {} THEN "sleeping" ELSE "fetching")
  /\ UNCHANGED <<tasks, dispatch, polls, now, faults>>

(* poll_due's UPDATEs and its commit: every selected row gets a fresh token.*)
PollCommit(w) ==
  /\ pc[w] = "fetching"
  /\ \E tok \in [held[w] -> FreshTokens] :
       /\ \A t, u \in held[w] : tok[t] = tok[u] => t = u
       /\ tasks' = [t \in Task |->
            IF t \in held[w]
            THEN [tasks[t] EXCEPT !.status = "picked_up", !.worker_id = tok[t],
                                  !.locked_for = 0]
            ELSE tasks[t]]
       /\ dispatch' = [k \in Token |->
            IF \E t \in held[w] : tok[t] = k
            THEN LET t == CHOOSE t \in held[w] : tok[t] = k
                 IN  [phase |-> "queued", task |-> t, worker |-> w,
                      execution_time |-> tasks[t].execution_time, heartbeat |-> FALSE]
            ELSE dispatch[k]]
  /\ held' = [held EXCEPT ![w] = {}]
  /\ Goto(w, "dispatching")
  /\ UNCHANGED <<polls, now, faults>>

(* Where the loop goes after an error of poll_due: `continue`, not `break`. *)
BreakLoop == "stopped"
ContinueLoop == "sleeping"

(* A database error in poll_due rolls the transaction back.                 *)
PollFails(w) ==
  /\ pc[w] \in {"polling", "fetching"} /\ Fault
  /\ held' = [held EXCEPT ![w] = {}]
  /\ Goto(w, ContinueLoop)
  /\ UNCHANGED <<tasks, dispatch, polls, now>>

(* dispatch_task once it has its handler, without and with the heartbeat.   *)
ExecutingUnguarded(d) == [d EXCEPT !.phase = "executing"]
Executing(d) == [d EXCEPT !.phase = "executing", !.heartbeat = TRUE]

(* The loop waits for a permit for the next fetched task, in the order of   *)
(* the SELECT, and spawns dispatch_task; the heartbeat starts only there.   *)
(* After the last one it goes back to sleep.                                *)
Spawn(k) ==
  LET d == dispatch[k] IN
  /\ d.phase = "queued" /\ PermitAvailable(d.worker)
  /\ \A j \in Queued(d.worker) : d.execution_time <= dispatch[j].execution_time
  /\ dispatch' = [dispatch EXCEPT ![k] =
       IF d.task \in Registered THEN Executing(d) ELSE [d EXCEPT !.phase = "failing"]]
  /\ pc' = [pc EXCEPT ![d.worker] = IF Queued(d.worker) = {k} THEN "sleeping" ELSE @]
  /\ UNCHANGED <<tasks, polls, held, now, faults>>

(* The process dies: its transactions roll back, its dispatches are gone.   *)
Crash(w) ==
  /\ Fault
  /\ dispatch' = [k \in Token |-> IF dispatch[k] # Free /\ dispatch[k].worker = w
                                  THEN Free ELSE dispatch[k]]
  /\ held' = [held EXCEPT ![w] = {}]
  /\ Goto(w, "crashed")
  /\ UNCHANGED <<tasks, polls, now>>

Restart(w) ==
  /\ pc[w] = "crashed"
  /\ polls' = [polls EXCEPT ![w] = 0]
  /\ Goto(w, "sleeping")
  /\ UNCHANGED <<tasks, dispatch, held, now, faults>>

-----------------------------------------------------------------------------
(* A dispatch: heartbeat_loop, the handler and its completion.              *)

(* renew_lease: Ok(true) extends the lease; Ok(false) ends the heartbeat.   *)
Heartbeat(k) ==
  LET d == dispatch[k] IN
  /\ d.phase \in Handling \cup {"panicked"} /\ d.heartbeat
  /\ IF HoldsLock(k) /\ tasks[d.task].status = "picked_up"
     THEN tasks' = [tasks EXCEPT ![d.task].locked_for = 0] /\ UNCHANGED dispatch
     ELSE /\ dispatch' = [dispatch EXCEPT ![k] =
               IF d.phase = "panicked" THEN Free ELSE [d EXCEPT !.heartbeat = FALSE]]
          /\ UNCHANGED tasks
  /\ UNCHANGED <<loop, now, faults>>

(* A handler of a durable step gives its own row back before it returns:     *)
(* reschedule_step_for_retry; without the lock it is an error of the handler. *)
HandlerReschedules(k, e) ==
  /\ dispatch[k].phase = "executing" /\ HoldsLock(k)
  /\ tasks' = [tasks EXCEPT ![dispatch[k].task] = Scheduled(e)]
  /\ dispatch' = [dispatch EXCEPT ![k].phase = "rescheduled"]
  /\ UNCHANGED <<loop, now, faults>>

(* The handler returns Ok(completion): the heartbeat is stopped first.      *)
HandlerReturns(k) ==
  /\ dispatch[k].phase \in Handling
  /\ dispatch' = [dispatch EXCEPT ![k] = [@ EXCEPT !.phase = "returned", !.heartbeat = FALSE]]
  /\ UNCHANGED <<tasks, loop, now, faults>>

HandlerFails(k) ==
  /\ dispatch[k].phase \in Handling
  /\ dispatch' = [dispatch EXCEPT ![k] = [@ EXCEPT !.phase = "failing", !.heartbeat = FALSE]]
  /\ UNCHANGED <<tasks, loop, now, faults>>

(* A panic unwinds dispatch_task: the permit is dropped, and so are hb_handle *)
(* (which detaches the heartbeat) and hb_cancel (which cancels nothing).    *)
HandlerPanics(k) ==
  /\ CanPanic /\ dispatch[k].phase \in Handling
  /\ dispatch' = [dispatch EXCEPT ![k] =
                    IF @.heartbeat THEN [@ EXCEPT !.phase = "panicked"] ELSE Free]
  /\ UNCHANGED <<tasks, loop, now, faults>>

(* The completion's transaction commits newTasks.  Should the commit be     *)
(* applied and yet reported as an error, the worker goes on to mark_failed. *)
Commit(k, newTasks) ==
  /\ tasks' = newTasks
  /\ \/ /\ dispatch' = [dispatch EXCEPT ![k] = Free]
        /\ UNCHANGED faults
     \/ /\ Fault
        /\ dispatch' = [dispatch EXCEPT ![k].phase = "failing"]
  /\ UNCHANGED <<loop, now>>

(* OnComplete and WithTransaction with a result, with follow-up tasks F due *)
(* at e, or with no further occurrence: complete, schedule the follow-ups.  *)
Complete(k, F, e) ==
  /\ dispatch[k].phase = "returned" /\ HoldsLock(k)
  /\ Commit(k, [t \in Task |->
       IF t = dispatch[k].task THEN SettledAs(tasks[t], "completed")
       ELSE IF t \in F /\ tasks[t] = Absent THEN Scheduled(e)
       ELSE tasks[t]])

(* OnComplete of a recurring task without result and follow-ups.            *)
CompleteOccurrence(k) ==
  /\ dispatch[k].phase = "returned" /\ HoldsLock(k) /\ HasNext(k)
  /\ Commit(k, [tasks EXCEPT ![dispatch[k].task] = Scheduled(NextAfter(k))])

OnReschedule(k, e) ==
  /\ dispatch[k].phase = "returned" /\ HoldsLock(k)
  /\ Commit(k, [tasks EXCEPT ![dispatch[k].task] = Scheduled(e)])

(* LockMismatch, or a database error: rolled back, then mark_failed.        *)
CompletionRefused(k) ==
  /\ dispatch[k].phase = "returned"
  /\ IF HoldsLock(k) THEN Fault ELSE UNCHANGED faults
  /\ dispatch' = [dispatch EXCEPT ![k].phase = "failing"]
  /\ UNCHANGED <<tasks, loop, now>>

(* mark_failed(None); its own LockMismatch is ignored.                      *)
MarkFailed(k) ==
  /\ dispatch[k].phase = "failing"
  /\ tasks' = IF HoldsLock(k)
              THEN [tasks EXCEPT ![dispatch[k].task] = SettledAs(@, "failed")]
              ELSE tasks
  /\ dispatch' = [dispatch EXCEPT ![k] = Free]
  /\ UNCHANGED <<loop, now, faults>>

MarkFailedFails(k) ==
  /\ dispatch[k].phase = "failing" /\ Fault
  /\ dispatch' = [dispatch EXCEPT ![k] = Free]
  /\ UNCHANGED <<tasks, loop, now>>

-----------------------------------------------------------------------------
(* Time.  With HeartbeatsOnTime no lease of a live dispatch is let past     *)
(* OrphanTimeout by the scheduling of the heartbeat, or of a spawn that has *)
(* its permit: what is left is the time a handler or a permit may take.     *)

RenewalPending(k) ==
  LET d == dispatch[k] IN
  /\ d # Free /\ HoldsLock(k) /\ tasks[d.task].locked_for >= OrphanTimeout
  /\ \/ d.heartbeat
     \/ d.phase = "queued" /\ PermitAvailable(d.worker)

Tick ==
  /\ HeartbeatsOnTime => \A k \in Token : ~RenewalPending(k)
  /\ now' = IF now < Horizon THEN now + 1 ELSE now
  /\ tasks' = [t \in Task |->
       IF tasks[t].status = "picked_up" /\ tasks[t].locked_for <= OrphanTimeout
       THEN [tasks[t] EXCEPT !.locked_for = @ + 1] ELSE tasks[t]]
  /\ UNCHANGED <<dispatch, loop, faults>>

-----------------------------------------------------------------------------

Init ==
  /\ tasks = [t \in Task |-> Absent]
  /\ dispatch = [k \in Token |-> Free]
  /\ pc = [w \in Worker |-> "sleeping"]
  /\ polls = [w \in Worker |-> 0]
  /\ held = [w \in Worker |-> {}]
  /\ now = 0
  /\ faults = 0

Client(t) == (\E e \in Time : ScheduleAt(t, e)) \/ CancelTask(t) \/ DeleteTask(t)

PollLoop(w) ==
  \/ Wake(w) \/ Stop(w) \/ RecoverOrphans(w) \/ RecoverOrphansFails(w)
  \/ PollSelect(w) \/ PollCommit(w) \/ PollFails(w) \/ Crash(w) \/ Restart(w)

Completion(k) ==
  \/ \E F \in SUBSET Task, e \in Time : Complete(k, F, e)
  \/ CompleteOccurrence(k)
  \/ \E e \in Time : OnReschedule(k, e)
  \/ CompletionRefused(k)

DispatchTask(k) ==
  \/ Spawn(k) \/ Heartbeat(k)
  \/ (\E e \in Time : HandlerReschedules(k, e))
  \/ HandlerReturns(k) \/ HandlerFails(k) \/ HandlerPanics(k)
  \/ Completion(k) \/ MarkFailed(k) \/ MarkFailedFails(k)

Next ==
  \/ \E t \in Task : Client(t)
  \/ \E w \in Worker : PollLoop(w)
  \/ \E k \in Token : DispatchTask(k)
  \/ Tick

Spec == Init /\ [][Next]_vars

(* What tokio and PostgreSQL provide: timers fire, spawned futures and      *)
(* statements make progress, handlers return, and a supervisor restarts a   *)
(* crashed process.  Nothing obliges a client to act, a handler to succeed  *)
(* or a fault to happen.                                                    *)
Fairness ==
  /\ WF_vars(Tick)
  /\ \A w \in Worker :
       /\ WF_vars(Wake(w)) /\ WF_vars(RecoverOrphans(w))
       /\ WF_vars(PollSelect(w)) /\ WF_vars(PollCommit(w)) /\ WF_vars(Restart(w))
  /\ \A k \in Token :
       /\ WF_vars(Spawn(k)) /\ WF_vars(Heartbeat(k)) /\ WF_vars(HandlerReturns(k))
       /\ WF_vars(Completion(k)) /\ WF_vars(MarkFailed(k))

FairSpec == Spec /\ Fairness

-----------------------------------------------------------------------------
(* Safety.                                                                  *)

(* The lock column and the status column, written by eight statements, never *)
(* disagree: worker_id is set exactly while the row is picked_up, and no two *)
(* rows share a token.  mark_completed_sql, mark_failed_sql and              *)
(* update_task_state_sql test worker_id alone and rely on it.                *)
LockMatchesStatus ==
  /\ \A t \in Task : tasks[t].worker_id # NoToken <=> tasks[t].status = "picked_up"
  /\ \A t, u \in Task :
       tasks[t].worker_id = tasks[u].worker_id /\ tasks[t].worker_id # NoToken => t = u

(* A dispatch whose token is still in a row was fetched from that row, and   *)
(* the execution_time it carries in memory is still the row's: the next      *)
(* occurrence of a recurring task, computed from it after the handler, is    *)
(* never computed from an occurrence that is over.                           *)
HolderKnowsItsRow ==
  \A k \in Token, t \in Task :
    dispatch[k] # Free /\ tasks[t].worker_id = k =>
      dispatch[k].task = t /\ dispatch[k].execution_time = tasks[t].execution_time

(* Between poll_due's SELECT and its UPDATEs no one else takes, cancels or   *)
(* deletes a selected row: the UPDATE, which does not test the status again, *)
(* never revives a settled row or steals a lease.                            *)
SelectedRowsWait ==
  \A w \in Worker : \A t \in held[w] :
    /\ tasks[t].status = "scheduled"
    /\ \A v \in Worker : t \in held[v] => v = w

(* No two handlers execute the same task at the same time, up to where a     *)
(* handler gives its row back itself: what it does after that, which is to     *)
(* return, may overlap the next one.                                         *)
HandlersExclusive ==
  \A j, k \in Token :
    /\ dispatch[j].phase = "executing" /\ dispatch[k].phase = "executing"
    /\ dispatch[j].task = dispatch[k].task
    => j = k

(* A completed, failed or cancelled row is final until it is deleted: not    *)
(* even a stale dispatch that completes late, or fails late, reopens it.     *)
SettledStaysSettled ==
  [][\A t \in Task : tasks[t].status \in Settled => tasks'[t] \in {tasks[t], Absent}]_vars

(* A lease is taken from its holder only by age, or by the row's deletion;   *)
(* otherwise it ends with a step of the holder's own: its handler reschedules *)
(* the row, or its completion settles it.                                    *)
LeaseRespected ==
  [][\A t \in Task :
       LET k == tasks[t].worker_id IN
       k # NoToken /\ tasks'[t].worker_id # k =>
         \/ tasks[t].locked_for > OrphanTimeout
         \/ tasks'[t] = Absent
         \/ dispatch[k].phase = "executing" /\ dispatch'[k].phase = "rescheduled"
         \/ dispatch[k].phase \in {"returned", "failing"} /\ dispatch'[k] # dispatch[k]]_vars

(* Liveness, with a worker that nobody stops.                                *)

(* Every due row is eventually fetched (or cancelled or deleted).            *)
DueTaskIsTaken == \A t \in Task : Due(t) ~> ~Due(t)

(* Every lease eventually ends: its holder concludes it or orphan recovery   *)
(* takes it back, whatever became of the process that held it.               *)
LeaseEnds ==
  \A t \in Task, k \in Token : tasks[t].worker_id = k ~> tasks[t].worker_id # k

=============================================================================
