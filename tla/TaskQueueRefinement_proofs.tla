---------------------- MODULE TaskQueueRefinement_proofs ----------------------
(***************************************************************************)
(* Proof that TaskQueue implements LeasedJobs, from the invariant of       *)
(* TaskQueue_proofs.                                                       *)
(***************************************************************************)
EXTENDS TaskQueueRefinement, TaskQueue_proofs

(* The state of LeasedJobs, as the mapping of TaskQueueRefinement has it.    *)
jobs == [t \in Task |-> JobOf(tasks[t])]
claims == {<<k, dispatch[k].task>> : k \in {j \in Token : dispatch[j] # Free}}

JobStep == Jobs!JobNext \/ UNCHANGED <<jobs, claims>>

(* A row, and a dispatch, that a step leaves the same job and the same claim.*)
RowSame(t) == JobOf(tasks'[t]) = JobOf(tasks[t])
ClaimSame(k) ==
  (dispatch'[k] = Free <=> dispatch[k] = Free) /\ dispatch'[k].task = dispatch[k].task

(* What the rows the statements write are as jobs.                          *)
LEMMA JobsOfRows ==
  /\ JobOf(Absent) = Jobs!NoRecord
  /\ \A e \in Time : JobOf(Scheduled(e)) = Jobs!Opened(e)
  /\ \A r \in Row :
       /\ \A s \in Settled : JobOf(SettledAs(r, s)) = Jobs!Closed(JobOf(r))
       /\ JobOf(r).state = "open" <=> r.status = "scheduled"
       /\ JobOf(r).state = "taken" <=> r.status = "picked_up"
<1>1. StateOf("absent") = "none"
  BY DEF StateOf
<1>2. StateOf("scheduled") = "open"
  BY DEF StateOf
<1>3. StateOf("picked_up") = "taken"
  BY DEF StateOf
<1>4. \A x \in Settled : StateOf(x) = "closed"
  BY DEF StateOf, Settled
<1>5. JobOf(Absent) = Jobs!NoRecord
  BY <1>1 DEF JobOf, Absent, Jobs!NoRecord
<1>6. ASSUME NEW e \in Time PROVE JobOf(Scheduled(e)) = Jobs!Opened(e)
  BY <1>2 DEF JobOf, Scheduled, Jobs!Opened
<1>7. ASSUME NEW r \in Row, NEW s \in Settled
      PROVE  JobOf(SettledAs(r, s)) = Jobs!Closed(JobOf(r))
  <2>1. /\ SettledAs(r, s).status = s
        /\ SettledAs(r, s).worker_id = NoToken
        /\ SettledAs(r, s).execution_time = r.execution_time
    BY DEF SettledAs, Row
  <2>2. StateOf(s) = "closed"
    BY <1>4
  <2>3. JobOf(SettledAs(r, s)) =
          [state |-> "closed", due |-> r.execution_time, holder |-> NoToken]
    BY <2>1, <2>2 DEF JobOf
  <2>4. JobOf(r) \in [state : {StateOf(r.status)}, due : Time, holder : Token \cup {NoToken}]
    BY DEF JobOf, Row
  <2>5. JobOf(r).due = r.execution_time
    BY DEF JobOf
  <2>6. Jobs!Closed(JobOf(r)) \in
          [state : {"closed"}, due : {r.execution_time}, holder : {NoToken}]
    BY <2>4, <2>5 DEF Jobs!Closed
  <2>. QED  BY <2>3, <2>6
<1>8. ASSUME NEW r \in Row
      PROVE  /\ JobOf(r).state = "open" <=> r.status = "scheduled"
             /\ JobOf(r).state = "taken" <=> r.status = "picked_up"
  <2>1. r.status \in {"absent", "scheduled", "picked_up"} \cup Settled
    BY DEF Row
  <2>2. JobOf(r).state = StateOf(r.status)
    BY DEF JobOf
  <2>. QED  BY <1>1, <1>2, <1>3, <1>4, <2>1, <2>2 DEF Settled
<1>. QED  BY <1>5, <1>6, <1>7, <1>8

LEMMA ClaimIs ==
  /\ \A k \in Token : \A t : <<k, t>> \in claims <=> dispatch[k] # Free /\ dispatch[k].task = t
  /\ \A c \in claims : \E k \in Token : c = <<k, dispatch[k].task>> /\ dispatch[k] # Free
BY DEF claims

(* Dispatches end, and the jobs stay as they are.                           *)
LEMMA ForgetStep ==
  ASSUME \A t \in Task : RowSame(t),
         \A k \in Token : ClaimSame(k) \/ dispatch'[k] = Free
  PROVE  JobStep
<1>1. jobs' = jobs
  BY DEF jobs, RowSame
<1>2. claims' \subseteq claims
  BY DEF claims, ClaimSame
<1>3. CASE claims' = claims
  BY <1>1, <1>3 DEF JobStep
<1>4. CASE claims' # claims
  BY <1>1, <1>2, <1>4, Jobs!ForgetIsNext DEF JobStep, jobs, claims
<1>. QED  BY <1>3, <1>4

(* A poll that finds no row, a refused completion, a renewed lease, a crash: *)
(* the rows' locks are as they were.                                        *)
LEMMA QuietStep ==
  ASSUME \A t \in Task : LockKept(t), \A k \in Token : DispatchKept(k)
  PROVE  JobStep
<1>1. \A t \in Task : RowSame(t)
  BY DEF LockKept, RowSame, JobOf
<1>2. \A k \in Token : ClaimSame(k) \/ dispatch'[k] = Free
  BY DEF DispatchKept, ClaimSame
<1>. QED  BY <1>1, <1>2, ForgetStep

(* schedule_at submits, cancel_task withdraws and delete_task erases a job. *)
LEMMA ClientStep ==
  ASSUME IInv, NEW t \in Task, Client(t)
  PROVE  JobStep
<1>1. tasks \in [Task -> Row] /\ claims' = claims
  BY DEF Client, ScheduleAt, CancelTask, DeleteTask, IInv, TypeOK, claims
<1>2. ASSUME NEW r, tasks' = [tasks EXCEPT ![t] = r]
      PROVE  jobs' = [jobs EXCEPT ![t] = JobOf(r)]
  BY <1>1, <1>2 DEF jobs
<1>3. ASSUME NEW e \in Time, ScheduleAt(t, e) PROVE JobStep
  <2>1. jobs[t] = Jobs!NoRecord
    BY <1>1, <1>3, JobsOfRows DEF ScheduleAt, jobs
  <2>2. jobs' = [jobs EXCEPT ![t] = Jobs!Opened(e)]
    BY <1>2, <1>3, JobsOfRows DEF ScheduleAt
  <2>3. Jobs!Submit(t, e)
    BY <1>1, <2>1, <2>2 DEF Jobs!Submit, jobs, claims
  <2>. QED  BY <2>3, Jobs!SubmitIsNext DEF JobStep, jobs
<1>4. CASE CancelTask(t)
  <2>1. jobs[t].state = "open"
    BY <1>1, <1>4, JobsOfRows DEF CancelTask, jobs
  <2>2. jobs' = [jobs EXCEPT ![t] = JobOf(SettledAs(tasks[t], "cancelled"))]
    BY <1>2, <1>4 DEF CancelTask
  <2>3. JobOf(SettledAs(tasks[t], "cancelled")) = Jobs!Closed(jobs[t])
    BY <1>1, JobsOfRows DEF Settled, jobs
  <2>4. jobs' = [j \in Task |-> IF j \in {t} THEN Jobs!Closed(jobs[j]) ELSE jobs[j]]
    BY <2>2, <2>3 DEF jobs
  <2>5. Jobs!Withdraw({t})
    BY <1>1, <2>1, <2>4 DEF Jobs!Withdraw, jobs, claims
  <2>. QED  BY <2>5, Jobs!WithdrawIsNext DEF JobStep
<1>5. CASE DeleteTask(t)
  <2>1. jobs' = [jobs EXCEPT ![t] = Jobs!NoRecord]
    BY <1>2, <1>5, JobsOfRows DEF DeleteTask
  <2>2. CASE jobs[t] = Jobs!NoRecord
    BY <1>1, <2>1, <2>2 DEF JobStep, jobs
  <2>3. CASE jobs[t] # Jobs!NoRecord
    <3>1. Jobs!Erase(t)
      BY <1>1, <2>1, <2>3 DEF Jobs!Erase, jobs, claims
    <3>. QED  BY <3>1, Jobs!EraseIsNext DEF JobStep, jobs
  <2>. QED  BY <2>2, <2>3
<1>. QED  BY <1>3, <1>4, <1>5 DEF Client

(* recover_orphans lets the jobs of the rows it resets lapse.               *)
LEMMA RecoverStep ==
  ASSUME IInv, NEW w \in Worker, RecoverOrphans(w)
  PROVE  JobStep
<1>1. tasks \in [Task -> Row] /\ claims' = claims
  BY DEF RecoverOrphans, IInv, TypeOK, claims
<1>2. PICK S \in SUBSET Task : S = {t \in Task : Orphaned(t)}
  OBVIOUS
<1>3. ASSUME NEW t \in Task
      PROVE  jobs'[t] = IF t \in S THEN Jobs!Opened(jobs[t].due) ELSE jobs[t]
  <2>1. CASE t \in S
    <3>1. tasks'[t] = Scheduled(tasks[t].execution_time) /\ tasks[t].execution_time \in Time
      BY <1>1, <1>2, <2>1 DEF RecoverOrphans, Row
    <3>2. jobs[t].due = tasks[t].execution_time
      BY DEF jobs, JobOf
    <3>. QED  BY <1>1, <2>1, <3>1, <3>2, JobsOfRows DEF jobs
  <2>2. CASE t \notin S
    BY <1>2, <2>2 DEF RecoverOrphans, jobs
  <2>. QED  BY <2>1, <2>2
<1>4. jobs' = [t \in Task |-> IF t \in S THEN Jobs!Opened(jobs[t].due) ELSE jobs[t]]
  BY <1>3 DEF jobs
<1>5. CASE S = {}
  BY <1>1, <1>4, <1>5 DEF JobStep, jobs
<1>6. CASE S # {}
  <2>1. \A t \in S : jobs[t].state = "taken"
    BY <1>1, <1>2, JobsOfRows DEF Orphaned, jobs
  <2>2. Jobs!Lapse(S)
    BY <1>1, <1>4, <1>6, <2>1 DEF Jobs!Lapse, jobs, claims
  <2>. QED  BY <2>2, Jobs!LapseIsNext DEF JobStep
<1>. QED  BY <1>5, <1>6

(* The process that holds a row's lock settles or reschedules it.           *)
LEMMA ConcludeStep ==
  ASSUME IInv, NEW k \in Token, DispatchTask(k), HoldsLock(k),
         \/ \E F \in SUBSET Task, e \in Time : Complete(k, F, e)
         \/ CompleteOccurrence(k)
         \/ \E e \in Time : OnReschedule(k, e) \/ HandlerReschedules(k, e)
         \/ MarkFailed(k)
  PROVE  JobStep
<1>1. PICK own \in Task : own = dispatch[k].task
  BY DispatchGoesOn
<1>2. PICK F \in SUBSET Task, e \in Time :
        /\ \A t \in F : tasks[t] = Absent
        /\ \A t \in Task \ {own} : tasks'[t] = IF t \in F THEN Scheduled(e) ELSE tasks[t]
        /\ \/ \E s \in Settled : tasks'[own] = SettledAs(tasks[own], s)
           \/ \E d \in Time : tasks'[own] = Scheduled(d)
  BY <1>1, DispatchConcludes
<1>3. /\ tasks \in [Task -> Row] /\ dispatch[k] # Free
      /\ tasks[own].status = "picked_up" /\ tasks[own].worker_id = k
  BY <1>1, DispatchGoesOn, HeldRowIsPickedUp DEF IInv, TypeOK, HoldsLock
<1>4. Jobs!Holds(k, own)
  <2>1. <<k, own>> \in claims
    BY <1>1, <1>3, ClaimIs
  <2>2. jobs[own].holder = k /\ jobs[own].state = "taken"
    BY <1>3, JobsOfRows DEF jobs, JobOf
  <2>. QED  BY <2>1, <2>2 DEF Jobs!Holds, jobs, claims
<1>5. \A t \in F : jobs[t] = Jobs!NoRecord
  BY <1>2, JobsOfRows DEF jobs
<1>6. PICK r \in {Jobs!Closed(jobs[own])} \cup {Jobs!Opened(d) : d \in Time} : jobs'[own] = r
  <2>1. CASE \E s \in Settled : tasks'[own] = SettledAs(tasks[own], s)
    BY <1>3, <2>1, JobsOfRows DEF jobs
  <2>2. CASE \E d \in Time : tasks'[own] = Scheduled(d)
    BY <2>2, JobsOfRows DEF jobs
  <2>. QED  BY <1>2, <2>1, <2>2
<1>7. ASSUME NEW t \in Task, t # own
      PROVE  jobs'[t] = IF t \in F THEN Jobs!Opened(e) ELSE jobs[t]
  BY <1>2, <1>7, JobsOfRows DEF jobs
<1>8. jobs' = [t \in Task |-> IF t = own THEN r ELSE IF t \in F THEN Jobs!Opened(e) ELSE jobs[t]]
  BY <1>6, <1>7 DEF jobs
<1>9. claims' \in {claims, claims \ {<<k, own>>}}
  <2>1. \A j \in Token : j # k => dispatch'[j] = dispatch[j]
    BY DispatchGoesOn
  <2>2. \/ dispatch'[k] = Free
        \/ dispatch'[k] # Free /\ dispatch'[k].task = own
    BY <1>1, <1>3, DispatchGoesOn DEF DispatchKept
  <2>3. CASE dispatch'[k] = Free
    BY <1>1, <2>1, <2>3 DEF claims
  <2>4. CASE dispatch'[k] # Free /\ dispatch'[k].task = own
    BY <1>1, <1>3, <2>1, <2>4 DEF claims
  <2>. QED  BY <2>2, <2>3, <2>4
<1>10. Jobs!Conclude(k, own, F, e)
  BY <1>4, <1>5, <1>6, <1>8, <1>9 DEF Jobs!Conclude, jobs, claims
<1>. QED  BY <1>10, Jobs!ConcludeIsNext DEF JobStep

(* poll_due's commit takes the jobs of the rows it selected.                *)
LEMMA TakeStep ==
  ASSUME IInv, TypeOK', NEW w \in Worker, PollCommit(w)
  PROVE  JobStep
<1>1. PICK tok \in [held[w] -> FreshTokens] : PollCommit(w)!2!(tok)
  BY DEF PollCommit
<1>2. \A t, u \in held[w] : tok[t] = tok[u] => t = u
  BY <1>1
<1>3. tasks \in [Task -> Row] /\ held[w] \subseteq Task
  BY DEF IInv, TypeOK
<1>4. ASSUME NEW t \in held[w]
      PROVE  /\ tok[t] \in Token /\ dispatch[tok[t]] = Free
             /\ \A u \in Task : tasks[u].worker_id # tok[t]
  BY DEF FreshTokens
<1>5. PICK C : C = {<<tok[t], t>> : t \in held[w]} /\ C \subseteq Token \X Task
  <2>1. {<<tok[t], t>> : t \in held[w]} \subseteq Token \X Task
    BY <1>3, <1>4
  <2>. QED  BY <2>1
<1>6. ASSUME NEW t \in held[w]
      PROVE  /\ dispatch'[tok[t]] # Free /\ dispatch'[tok[t]].task = t
             /\ jobs[t].state = "open"
  <2>1. (CHOOSE u \in held[w] : tok[u] = tok[t]) = t
    BY <1>2
  <2>2. dispatch'[tok[t]] # Free /\ dispatch'[tok[t]].task = t
    BY <1>1, <1>4, <2>1 DEF Free
  <2>3. jobs[t].state = "open"
    BY <1>3, JobsOfRows DEF IInv, SelectedRowsWait, jobs
  <2>. QED  BY <2>2, <2>3
<1>7. ASSUME NEW t \in held[w]
      PROVE  jobs'[t] = Jobs!Taken(jobs[t], tok[t])
  <2>1. /\ tasks'[t].status = "picked_up" /\ tasks'[t].worker_id = tok[t]
        /\ tasks'[t].execution_time = tasks[t].execution_time
    <3>1. tasks[t] \in Row /\ t \in Task
      BY <1>3
    <3>2. tasks'[t] = [tasks[t] EXCEPT !.status = "picked_up", !.worker_id = tok[t],
                                      !.locked_for = 0]
      BY <1>1, <3>1
    <3>. QED  BY <3>1, <3>2 DEF Row
  <2>2. tasks'[t] \in Row
    BY <1>3 DEF TypeOK
  <2>3. JobOf(tasks'[t]).state = "taken"
    BY <2>1, <2>2, JobsOfRows
  <2>. QED  BY <1>3, <2>1, <2>3 DEF jobs, JobOf, Jobs!Taken
<1>8. ASSUME NEW t \in Task, t \notin held[w]
      PROVE  jobs'[t] = jobs[t]
  BY <1>1, <1>8 DEF jobs
<1>9. claims' = claims \cup C
  <2>1. \A t \in held[w] : <<tok[t], t>> \in claims'
    BY <1>4, <1>6 DEF claims
  <2>2. \A k \in Token : (\A t \in held[w] : tok[t] # k) => dispatch'[k] = dispatch[k]
    BY <1>1
  <2>3. \A k \in Token : dispatch[k] # Free => dispatch'[k] = dispatch[k]
    BY <1>4, <2>2
  <2>4. claims \subseteq claims'
    BY <2>3 DEF claims
  <2>5. ASSUME NEW k \in Token, dispatch'[k] # Free
        PROVE  <<k, dispatch'[k].task>> \in claims \cup C
    <3>1. CASE \E t \in held[w] : tok[t] = k
      BY <1>5, <1>6, <3>1
    <3>2. CASE \A t \in held[w] : tok[t] # k
      BY <2>2, <2>5, <3>2 DEF claims
    <3>. QED  BY <3>1, <3>2
  <2>6. claims' \subseteq claims \cup C
    BY <2>5 DEF claims
  <2>. QED  BY <1>5, <2>1, <2>4, <2>6
<1>10. CASE held[w] = {}
  <2>1. jobs' = jobs /\ claims' = claims
    BY <1>5, <1>8, <1>9, <1>10 DEF jobs
  <2>. QED  BY <2>1 DEF JobStep
<1>11. CASE held[w] # {}
  <2>1. ASSUME NEW t \in held[w]
        PROVE  Jobs!Fresh(tok[t]) /\ jobs[t].state = "open"
    <3>1. \A c \in claims : c[1] # tok[t]
      BY <1>4 DEF claims
    <3>2. \A j \in Task : jobs[j].holder # tok[t]
      BY <1>4 DEF jobs, JobOf
    <3>. QED  BY <1>6, <3>1, <3>2 DEF Jobs!Fresh, jobs, claims
  <2>2. \A b, c \in C : b[1] = c[1] \/ b[2] = c[2] => b = c
    BY <1>2, <1>5
  <2>3. ASSUME NEW t \in Task
        PROVE  jobs'[t] = IF \E h \in Token : <<h, t>> \in C
                          THEN Jobs!Taken(jobs[t], CHOOSE h \in Token : <<h, t>> \in C)
                          ELSE jobs[t]
    <3>1. \A h \in Token : <<h, t>> \in C <=> t \in held[w] /\ h = tok[t]
      BY <1>5
    <3>2. CASE t \in held[w]
      <4>1. (CHOOSE h \in Token : <<h, t>> \in C) = tok[t]
        BY <1>4, <3>1, <3>2
      <4>2. <<tok[t], t>> \in C /\ tok[t] \in Token
        BY <1>4, <1>5, <3>2
      <4>. QED  BY <1>7, <3>2, <4>1, <4>2
    <3>3. CASE t \notin held[w]
      BY <1>8, <3>1, <3>3
    <3>. QED  BY <3>2, <3>3
  <2>4. jobs' = [t \in Task |->
          IF \E h \in Token : <<h, t>> \in C
          THEN Jobs!Taken(jobs[t], CHOOSE h \in Token : <<h, t>> \in C)
          ELSE jobs[t]]
    BY <2>3 DEF jobs
  <2>5. C # {} /\ \A c \in C : Jobs!Fresh(c[1]) /\ jobs[c[2]].state = "open"
    <3>1. \A c \in C : \E t \in held[w] : c[1] = tok[t] /\ c[2] = t
      BY <1>5
    <3>. QED  BY <1>5, <1>11, <2>1, <3>1
  <2>6. Jobs!Take(C)
    BY <1>5, <1>9, <2>2, <2>4, <2>5 DEF Jobs!Take, jobs, claims
  <2>. QED  BY <2>6, Jobs!TakeIsNext DEF JobStep
<1>. QED  BY <1>10, <1>11

(* Time, and what a poll loop does besides committing a poll and recovering *)
(* orphans, leaves every lock as it is.                                     *)
LEMMA PollLoopStep ==
  ASSUME IInv, TypeOK', NEW w \in Worker, PollLoop(w)
  PROVE  JobStep
<1>1. CASE Wake(w) \/ Stop(w) \/ RecoverOrphansFails(w) \/ PollSelect(w) \/ PollFails(w)
           \/ Crash(w) \/ Restart(w)
  <2>1. tasks' = tasks /\ \A k \in Token : dispatch'[k] \in {dispatch[k], Free}
    BY <1>1 DEF Wake, Stop, RecoverOrphansFails, PollSelect, PollFails, Crash, Restart
  <2>2. \A t \in Task : LockKept(t)
    BY <2>1 DEF LockKept
  <2>3. \A k \in Token : DispatchKept(k)
    BY <2>1 DEF DispatchKept
  <2>. QED  BY <2>2, <2>3, QuietStep
<1>. QED  BY <1>1, RecoverStep, TakeStep DEF PollLoop

LEMMA DispatchStep ==
  ASSUME IInv, NEW k \in Token, DispatchTask(k)
  PROVE  JobStep
<1>1. CASE \/ Spawn(k) \/ Heartbeat(k) \/ HandlerReturns(k) \/ HandlerFails(k) \/ HandlerPanics(k)
           \/ CompletionRefused(k) \/ MarkFailedFails(k) \/ (MarkFailed(k) /\ ~HoldsLock(k))
  BY <1>1, DispatchGoesOn, DispatchQuiet, QuietStep
<1>2. CASE \E F \in SUBSET Task, e \in Time : Complete(k, F, e)
  <2>1. HoldsLock(k)
    BY <1>2 DEF Complete
  <2>. QED  BY <1>2, <2>1, ConcludeStep
<1>3. CASE CompleteOccurrence(k) \/ \E e \in Time : OnReschedule(k, e) \/ HandlerReschedules(k, e)
  <2>1. HoldsLock(k)
    BY <1>3 DEF CompleteOccurrence, OnReschedule, HandlerReschedules
  <2>. QED  BY <1>3, <2>1, ConcludeStep
<1>4. CASE MarkFailed(k) /\ HoldsLock(k)
  BY <1>4, ConcludeStep
<1>5. CASE Completion(k)
  BY <1>1, <1>2, <1>3, <1>5 DEF Completion
<1>. QED  BY <1>1, <1>3, <1>4, <1>5 DEF DispatchTask

LEMMA TickStep ==
  ASSUME IInv, Tick
  PROVE  JobStep
<1>1. ASSUME NEW t \in Task PROVE LockKept(t)
  <2>1. tasks[t] \in Row
    BY DEF IInv, TypeOK
  <2>. QED  BY <2>1 DEF Tick, LockKept, Row
<1>2. \A k \in Token : DispatchKept(k)
  BY DEF Tick, DispatchKept
<1>. QED  BY <1>1, <1>2, QuietStep

LEMMA JobsInit == Init => Jobs!JobInit
  BY JobsOfRows DEF Init, Jobs!JobInit

LEMMA JobsStep == IInv /\ [Next]_vars => [Jobs!JobNext]_(Jobs!jobVars)
<1>. SUFFICES ASSUME IInv, [Next]_vars PROVE JobStep
  BY DEF JobStep, jobs, claims, Jobs!jobVars
<1>1. CASE Next
  <2>1. TypeOK'
    BY TypeStep DEF IInv
  <2>. QED  BY <1>1, <2>1, ClientStep, PollLoopStep, DispatchStep, TickStep DEF Next
<1>2. CASE UNCHANGED vars
  BY <1>2 DEF vars, JobStep, jobs, claims
<1>. QED  BY <1>1, <1>2

(* The queue keeps LeasedJobs' promise for every number of tasks, workers    *)
(* and tokens: through polls, crashes, lost leases and late completions a   *)
(* job is never lost, never under two handles, and concluded only by the    *)
(* process that holds it.                                                   *)
THEOREM QueueImplementsLeasedJobs == Spec => ImplementsLeasedJobs
  BY JobsInit, JobsStep, Invariance, PTL DEF Spec, ImplementsLeasedJobs, Jobs!JobSpec

=============================================================================
