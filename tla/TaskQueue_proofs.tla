-------------------------- MODULE TaskQueue_proofs --------------------------
(***************************************************************************)
(* Proofs about TaskQueue for every number of tasks, workers and tokens    *)
(* and every value of the worker's parameters.                             *)
(***************************************************************************)
EXTENDS TaskQueue, TLAPS, FiniteSetTheorems

(* The step of a dispatch that only moves it on keeps it a dispatch.        *)
LEMMA DispatchMoves ==
  ASSUME TypeOK, NEW k \in Token, dispatch[k] # Free,
         NEW p \in Working \cup {"queued", "panicked"}, NEW b \in BOOLEAN
  PROVE  /\ dispatch[k] \in Dispatch
         /\ [dispatch[k] EXCEPT !.phase = p, !.heartbeat = b] \in Dispatch
         /\ [dispatch[k] EXCEPT !.phase = p] \in Dispatch
         /\ [dispatch[k] EXCEPT !.heartbeat = b] \in Dispatch
<1>1. dispatch[k] \in Dispatch
  BY DEF TypeOK
<1>. QED  BY <1>1 DEF Dispatch

(* The rows the statements write.                                           *)
LEMMA RowsWritten ==
  ASSUME NEW r \in Row, NEW e \in Time, NEW s \in Settled
  PROVE  /\ Absent \in Row
         /\ Scheduled(e) \in Row
         /\ SettledAs(r, s) \in Row
         /\ \A a \in Age : [r EXCEPT !.locked_for = a] \in Row
         /\ \A k \in Token :
              [r EXCEPT !.status = "picked_up", !.worker_id = k, !.locked_for = 0] \in Row
<1>1. 0 \in Age /\ 0 \in Time
  BY NumberAssumption DEF Age, Time, NumberAssumption
<1>2. Absent \in Row
  BY <1>1 DEF Row, Absent
<1>3. Scheduled(e) \in Row
  BY <1>1 DEF Row, Scheduled
<1>4. SettledAs(r, s) \in Row
  BY <1>1 DEF Row, SettledAs
<1>5. \A a \in Age : [r EXCEPT !.locked_for = a] \in Row
  BY DEF Row
<1>6. ASSUME NEW k \in Token
      PROVE  [r EXCEPT !.status = "picked_up", !.worker_id = k, !.locked_for = 0] \in Row
  BY <1>1 DEF Row
<1>. QED  BY <1>2, <1>3, <1>4, <1>5, <1>6

LEMMA TypeInit == Init => TypeOK
<1>. SUFFICES ASSUME Init PROVE TypeOK  OBVIOUS
<1>1. tasks \in [Task -> Row]
  BY NumberAssumption DEF Init, Row, Absent, Time, Age, NumberAssumption
<1>2. polls \in [Worker -> 0..(RecoveryPeriod - 1)]
  BY NumberAssumption DEF Init, NumberAssumption
<1>. QED  BY <1>1, <1>2, NumberAssumption DEF Init, TypeOK, Time, NumberAssumption

(* A completion's transaction, whichever rows it commits.                   *)
LEMMA CommitType ==
  ASSUME TypeOK, NEW k \in Token, dispatch[k] # Free,
         NEW newTasks \in [Task -> Row], Commit(k, newTasks)
  PROVE  TypeOK'
<1>1. tasks' \in [Task -> Row]
  BY DEF Commit
<1>2. dispatch' \in [Token -> Dispatch \cup {Free}]
  <2>1. [dispatch[k] EXCEPT !.phase = "failing"] \in Dispatch
    BY DispatchMoves DEF Working
  <2>2. dispatch \in [Token -> Dispatch \cup {Free}]
    BY DEF TypeOK
  <2>. QED  BY <2>1, <2>2 DEF Commit
<1>3. faults' \in 0..MaxFaults
  BY NumberAssumption DEF Commit, Fault, TypeOK, NumberAssumption
<1>. QED  BY <1>1, <1>2, <1>3 DEF Commit, TypeOK, loop

LEMMA ClientType ==
  ASSUME TypeOK, NEW t \in Task, Client(t)
  PROVE  TypeOK'
<1>1. tasks[t] \in Row
  BY DEF TypeOK
<1>2. CASE \E e \in Time : ScheduleAt(t, e)
  BY <1>1, <1>2, RowsWritten DEF ScheduleAt, TypeOK, loop, Settled
<1>3. CASE CancelTask(t)
  BY <1>1, <1>3, RowsWritten DEF CancelTask, TypeOK, loop, Settled
<1>4. CASE DeleteTask(t)
  BY <1>1, <1>4, RowsWritten DEF DeleteTask, TypeOK, loop, Settled
<1>. QED  BY <1>2, <1>3, <1>4 DEF Client

LEMMA PollLoopType ==
  ASSUME TypeOK, NEW w \in Worker, PollLoop(w)
  PROVE  TypeOK'
<1>1. CASE Wake(w)
  <2>1. polls' \in [Worker -> 0..(RecoveryPeriod - 1)]
    BY <1>1, NumberAssumption DEF Wake, TypeOK, NumberAssumption
  <2>. QED  BY <1>1, <2>1 DEF Wake, Goto, TypeOK
<1>2. CASE Stop(w)
  BY <1>2 DEF Stop, Goto, TypeOK
<1>3. CASE RecoverOrphans(w)
  <2>1. ASSUME NEW t \in Task
        PROVE  tasks[t] \in Row /\ Scheduled(tasks[t].execution_time) \in Row
    <3>1. tasks[t] \in Row /\ tasks[t].execution_time \in Time
      BY DEF TypeOK, Row
    <3>. QED  BY <3>1, RowsWritten DEF Settled
  <2>2. tasks' \in [Task -> Row]
    BY <1>3, <2>1 DEF RecoverOrphans
  <2>. QED  BY <1>3, <2>2 DEF RecoverOrphans, Goto, TypeOK
<1>4. CASE RecoverOrphansFails(w)
  BY <1>4, NumberAssumption DEF RecoverOrphansFails, Goto, Fault, TypeOK, NumberAssumption
<1>5. CASE PollSelect(w)
  BY <1>5 DEF PollSelect, Goto, TypeOK, Fetchable
<1>6. CASE PollCommit(w)
  <2>1. PICK tok \in [held[w] -> FreshTokens] : PollCommit(w)!2!(tok)
    BY <1>6 DEF PollCommit
  <2>2. ASSUME NEW t \in held[w]
        PROVE  t \in Task /\ tok[t] \in Token /\ tasks[t] \in Row
    BY DEF TypeOK, FreshTokens
  <2>3. tasks' \in [Task -> Row]
    <3>1. ASSUME NEW t \in Task PROVE tasks'[t] \in Row
      BY <2>1, <2>2, RowsWritten DEF TypeOK, Settled
    <3>. QED  BY <2>1, <3>1
  <2>4. dispatch' \in [Token -> Dispatch \cup {Free}]
    <3>1. ASSUME NEW t \in held[w]
          PROVE  [phase |-> "queued", task |-> t, worker |-> w,
                  execution_time |-> tasks[t].execution_time, heartbeat |-> FALSE] \in Dispatch
      BY <2>2 DEF Dispatch, Row
    <3>2. ASSUME NEW k \in Token PROVE dispatch'[k] \in Dispatch \cup {Free}
      <4>1. CASE \E t \in held[w] : tok[t] = k
        BY <2>1, <3>1, <4>1
      <4>2. CASE ~ \E t \in held[w] : tok[t] = k
        BY <2>1, <4>2 DEF TypeOK
      <4>. QED  BY <4>1, <4>2
    <3>. QED  BY <2>1, <3>2
  <2>. QED  BY <1>6, <2>3, <2>4 DEF PollCommit, Goto, TypeOK
<1>7. CASE PollFails(w)
  BY <1>7, NumberAssumption DEF PollFails, Goto, Fault, TypeOK, NumberAssumption, ContinueLoop
<1>8. CASE Crash(w)
  BY <1>8, NumberAssumption DEF Crash, Goto, Fault, TypeOK, NumberAssumption
<1>9. CASE Restart(w)
  BY <1>9, NumberAssumption DEF Restart, Goto, TypeOK, NumberAssumption
<1>. QED  BY <1>1, <1>2, <1>3, <1>4, <1>5, <1>6, <1>7, <1>8, <1>9 DEF PollLoop

LEMMA CompletionType ==
  ASSUME TypeOK, NEW k \in Token, Completion(k)
  PROVE  TypeOK'
<1>1. dispatch[k].phase = "returned"
  BY DEF Completion, Complete, CompleteOccurrence, OnReschedule, CompletionRefused
<1>2. dispatch[k] # Free /\ dispatch[k] \in Dispatch /\ dispatch[k].task \in Task
  BY <1>1 DEF TypeOK, Dispatch, Free
<1>3. \A t \in Task : tasks[t] \in Row
  BY DEF TypeOK
<1>4. ASSUME NEW F \in SUBSET Task, NEW e \in Time, Complete(k, F, e)
      PROVE  TypeOK'
  <2>. DEFINE new == [t \in Task |->
         IF t = dispatch[k].task THEN SettledAs(tasks[t], "completed")
         ELSE IF t \in F /\ tasks[t] = Absent THEN Scheduled(e)
         ELSE tasks[t]]
  <2>1. new \in [Task -> Row]
    BY <1>3, RowsWritten DEF Settled
  <2>2. Commit(k, new)
    BY <1>4 DEF Complete
  <2>. HIDE DEF new
  <2>. QED  BY <1>2, <2>1, <2>2, CommitType
<1>5. ASSUME NEW e \in Time, Commit(k, [tasks EXCEPT ![dispatch[k].task] = Scheduled(e)])
      PROVE  TypeOK'
  <2>. DEFINE new == [tasks EXCEPT ![dispatch[k].task] = Scheduled(e)]
  <2>1. Scheduled(e) \in Row
    BY <1>2, <1>3, RowsWritten DEF Settled
  <2>2. new \in [Task -> Row]
    BY <1>2, <2>1 DEF TypeOK
  <2>3. Commit(k, new)
    BY <1>5
  <2>. HIDE DEF new
  <2>. QED  BY <1>2, <2>2, <2>3, CommitType
<1>6. CASE CompleteOccurrence(k)
  <2>1. NextAfter(k) \in Time
    BY <1>2, <1>6, NumberAssumption
    DEF CompleteOccurrence, HasNext, NextAfter, Time, Dispatch, NumberAssumption
  <2>. QED  BY <1>5, <1>6, <2>1 DEF CompleteOccurrence
<1>7. CASE \E e \in Time : OnReschedule(k, e)
  BY <1>5, <1>7 DEF OnReschedule
<1>8. CASE CompletionRefused(k)
  <2>1. faults' \in 0..MaxFaults
    BY <1>8, NumberAssumption DEF CompletionRefused, Fault, TypeOK, NumberAssumption
  <2>. QED  BY <1>2, <1>8, <2>1, DispatchMoves DEF CompletionRefused, TypeOK, loop, Working
<1>. QED  BY <1>4, <1>6, <1>7, <1>8 DEF Completion

LEMMA DispatchType ==
  ASSUME TypeOK, NEW k \in Token, DispatchTask(k)
  PROVE  TypeOK'
<1>1. CASE Spawn(k)
  <2>1. dispatch[k] # Free /\ dispatch[k].worker \in Worker
    BY <1>1 DEF Spawn, TypeOK, Dispatch, Free
  <2>2. dispatch' \in [Token -> Dispatch \cup {Free}]
    BY <1>1, <2>1, DispatchMoves DEF Spawn, Executing, TypeOK, Working, Handling
  <2>3. pc' \in [Worker -> {"sleeping", "recovering", "polling", "fetching",
                            "dispatching", "stopped", "crashed"}]
    BY <1>1, <2>1 DEF Spawn, TypeOK
  <2>. QED  BY <1>1, <2>2, <2>3 DEF Spawn, TypeOK
<1>2. CASE Heartbeat(k)
  <2>1. dispatch[k] # Free /\ dispatch[k].task \in Task /\ 0 \in Age
    BY <1>2, NumberAssumption DEF Heartbeat, Handling, TypeOK, Dispatch, Free, Age, NumberAssumption
  <2>2. tasks' \in [Task -> Row]
    <3>1. [tasks[dispatch[k].task] EXCEPT !.locked_for = 0] \in Row
      BY <2>1 DEF TypeOK, Row
    <3>. QED  BY <1>2, <2>1, <3>1 DEF Heartbeat, TypeOK
  <2>3. dispatch' \in [Token -> Dispatch \cup {Free}]
    BY <1>2, <2>1, DispatchMoves DEF Heartbeat, TypeOK
  <2>. QED  BY <1>2, <2>2, <2>3 DEF Heartbeat, TypeOK, loop
<1>3. CASE HandlerReturns(k) \/ HandlerFails(k) \/ HandlerPanics(k)
  <2>1. dispatch[k] # Free
    BY <1>3 DEF HandlerReturns, HandlerFails, HandlerPanics, Handling, Free
  <2>2. dispatch' \in [Token -> Dispatch \cup {Free}]
    <3>1. \A p \in {"returned", "failing", "panicked"} :
            /\ [dispatch[k] EXCEPT !.phase = p, !.heartbeat = FALSE] \in Dispatch
            /\ [dispatch[k] EXCEPT !.phase = p] \in Dispatch
      BY <2>1, DispatchMoves DEF Working
    <3>2. dispatch \in [Token -> Dispatch \cup {Free}]
      BY DEF TypeOK
    <3>3. CASE HandlerReturns(k)
      BY <3>1, <3>2, <3>3 DEF HandlerReturns
    <3>4. CASE HandlerFails(k)
      BY <3>1, <3>2, <3>4 DEF HandlerFails
    <3>5. CASE HandlerPanics(k)
      BY <3>1, <3>2, <3>5 DEF HandlerPanics
    <3>. QED  BY <1>3, <3>3, <3>4, <3>5
  <2>. QED  BY <1>3, <2>2 DEF HandlerReturns, HandlerFails, HandlerPanics, TypeOK, loop
<1>4. CASE Completion(k)
  BY <1>4, CompletionType
<1>5. CASE MarkFailed(k)
  <2>1. dispatch[k] # Free /\ dispatch[k].task \in Task
    BY <1>5 DEF MarkFailed, TypeOK, Dispatch, Free
  <2>2. SettledAs(tasks[dispatch[k].task], "failed") \in Row
    <3>1. tasks[dispatch[k].task] \in Row /\ tasks[dispatch[k].task].execution_time \in Time
      BY <2>1 DEF TypeOK, Row
    <3>. QED  BY <3>1, RowsWritten DEF Settled
  <2>. QED  BY <1>5, <2>1, <2>2 DEF MarkFailed, TypeOK, loop
<1>6. CASE MarkFailedFails(k)
  BY <1>6, NumberAssumption DEF MarkFailedFails, Fault, TypeOK, loop, NumberAssumption
<1>7. ASSUME NEW e \in Time, HandlerReschedules(k, e) PROVE TypeOK'
  <2>1. dispatch[k] # Free /\ dispatch[k].task \in Task
    BY <1>7 DEF HandlerReschedules, TypeOK, Dispatch, Free
  <2>2. [dispatch[k] EXCEPT !.phase = "rescheduled"] \in Dispatch
    BY <2>1, DispatchMoves DEF Working, Handling
  <2>3. Scheduled(e) \in Row
    BY NumberAssumption DEF Scheduled, Row, Age, NumberAssumption
  <2>. QED  BY <1>7, <2>1, <2>2, <2>3 DEF HandlerReschedules, TypeOK, loop
<1>. QED  BY <1>1, <1>2, <1>3, <1>4, <1>5, <1>6, <1>7 DEF DispatchTask

LEMMA TickType ==
  ASSUME TypeOK, Tick
  PROVE  TypeOK'
<1>1. now' \in Time
  BY NumberAssumption DEF Tick, TypeOK, Time, NumberAssumption
<1>2. ASSUME NEW t \in Task PROVE tasks'[t] \in Row
  <2>1. tasks[t] \in Row
    BY DEF TypeOK
  <2>2. CASE tasks[t].locked_for <= OrphanTimeout
    <3>1. tasks[t].locked_for + 1 \in Age
      BY <2>1, <2>2, NumberAssumption DEF Row, Age, NumberAssumption
    <3>. QED  BY <2>1, <3>1 DEF Tick, Row
  <2>. QED  BY <2>1, <2>2 DEF Tick
<1>3. tasks' \in [Task -> Row]
  BY <1>2 DEF Tick
<1>. QED  BY <1>1, <1>3 DEF Tick, TypeOK, loop

LEMMA TypeStep == TypeOK /\ [Next]_vars => TypeOK'
<1>. SUFFICES ASSUME TypeOK, [Next]_vars PROVE TypeOK'  OBVIOUS
<1>1. CASE Next
  BY <1>1, ClientType, PollLoopType, DispatchType, TickType DEF Next
<1>2. CASE UNCHANGED vars
  BY <1>2 DEF vars, TypeOK
<1>. QED  BY <1>1, <1>2

(* Every variable keeps its type: a row is always one the schema allows, a  *)
(* dispatch never loses its task or worker, and no age leaves its bound.    *)
THEOREM TypeCorrect == Spec => []TypeOK
  BY TypeInit, TypeStep, PTL DEF Spec

-----------------------------------------------------------------------------
(* The lock protocol.  The three invariants are inductive only together:    *)
(* that poll_due's blind UPDATE makes no second holder rests on             *)
(* SelectedRowsWait, that a statement guarded by worker_id alone touches    *)
(* nothing but a picked_up row rests on LockMatchesStatus, and that this    *)
(* row is not selected by a poll rests on both.                             *)

IInv == TypeOK /\ LockMatchesStatus /\ HolderKnowsItsRow /\ SelectedRowsWait

(* A row whose lock a step does not touch, and one a step leaves unlocked.  *)
LockKept(t) ==
  /\ tasks'[t].status = tasks[t].status
  /\ tasks'[t].worker_id = tasks[t].worker_id
  /\ tasks'[t].execution_time = tasks[t].execution_time

LockFreed(t) ==
  /\ tasks'[t].status # "picked_up"
  /\ tasks'[t].worker_id = NoToken
  /\ \A w \in Worker : t \notin held[w]

(* A dispatch that is over, or goes on with the same row.                   *)
DispatchKept(k) ==
  \/ dispatch'[k] = Free
  \/ /\ dispatch[k] # Free
     /\ dispatch'[k].task = dispatch[k].task
     /\ dispatch'[k].execution_time = dispatch[k].execution_time

LEMMA NoNewLock ==
  ASSUME IInv, TypeOK',
         \A t \in Task : LockKept(t) \/ LockFreed(t),
         \A k \in Token : DispatchKept(k),
         \A w \in Worker : held'[w] = held[w] \/ held'[w] = {}
  PROVE  IInv'
<1>1. LockMatchesStatus'
  BY DEF IInv, LockMatchesStatus, LockKept, LockFreed
<1>2. HolderKnowsItsRow'
  BY TokenAssumption DEF IInv, HolderKnowsItsRow, LockKept, LockFreed, DispatchKept, TokenAssumption
<1>3. SelectedRowsWait'
  <2>1. ASSUME NEW w \in Worker, NEW t \in held'[w]
        PROVE  /\ tasks'[t].status = "scheduled"
               /\ \A v \in Worker : t \in held'[v] => v = w
    <3>1. t \in held[w] /\ t \in Task
      BY <2>1 DEF IInv, TypeOK
    <3>2. tasks[t].status = "scheduled" /\ \A v \in Worker : t \in held[v] => v = w
      BY <3>1 DEF IInv, SelectedRowsWait
    <3>3. LockKept(t)
      BY <3>1 DEF LockFreed
    <3>. QED  BY <3>2, <3>3 DEF LockKept
  <2>. QED  BY <2>1 DEF SelectedRowsWait
<1>. QED  BY <1>1, <1>2, <1>3 DEF IInv

(* The row a dispatch holds is picked_up, so no poll has selected it.       *)
LEMMA HeldRowIsPickedUp ==
  ASSUME IInv, NEW k \in Token, dispatch[k] # Free, HoldsLock(k)
  PROVE  /\ dispatch[k].task \in Task
         /\ tasks[dispatch[k].task].status = "picked_up"
         /\ \A w \in Worker : dispatch[k].task \notin held[w]
<1>1. dispatch[k].task \in Task
  BY DEF IInv, TypeOK, Dispatch
<1>2. tasks[dispatch[k].task].status = "picked_up"
  BY <1>1, TokenAssumption DEF HoldsLock, IInv, LockMatchesStatus, TokenAssumption
<1>. QED  BY <1>1, <1>2 DEF IInv, SelectedRowsWait

LEMMA ClientLock ==
  ASSUME IInv, TypeOK', NEW t \in Task, Client(t)
  PROVE  IInv'
<1>1. \A k \in Token : DispatchKept(k)
  BY DEF Client, ScheduleAt, CancelTask, DeleteTask, DispatchKept
<1>2. \A w \in Worker : held'[w] = held[w]
  BY DEF Client, ScheduleAt, CancelTask, DeleteTask, loop
<1>3. \A u \in Task : tasks'[u] = tasks[u] \/ u = t
  BY DEF Client, ScheduleAt, CancelTask, DeleteTask, IInv, TypeOK
<1>4. \A u \in Task : tasks'[u] = tasks[u] => LockKept(u)
  BY DEF LockKept
<1>5. LockFreed(t)
  <2>1. CASE \E e \in Time : ScheduleAt(t, e)
    <3>1. \A w \in Worker : t \notin held[w]
      BY <2>1 DEF ScheduleAt, Absent, IInv, SelectedRowsWait
    <3>. QED  BY <2>1, <3>1 DEF ScheduleAt, Scheduled, LockFreed, IInv, TypeOK
  <2>2. CASE CancelTask(t)
    <3>1. tasks[t] \in Row
      BY DEF IInv, TypeOK
    <3>. QED  BY <2>2, <3>1 DEF CancelTask, SettledAs, RowLocked, LockFreed, IInv, TypeOK, Row
  <2>3. CASE DeleteTask(t)
    BY <2>3 DEF DeleteTask, Absent, RowLocked, LockFreed, IInv, TypeOK
  <2>. QED  BY <2>1, <2>2, <2>3 DEF Client
<1>. QED  BY <1>1, <1>2, <1>3, <1>4, <1>5, NoNewLock

(* poll_due's SELECT: the rows it locks were locked by nobody else.         *)
LEMMA PollSelectLock ==
  ASSUME IInv, TypeOK', NEW w \in Worker, PollSelect(w)
  PROVE  IInv'
<1>1. UNCHANGED <<tasks, dispatch>>
  BY DEF PollSelect
<1>2. LockMatchesStatus' /\ HolderKnowsItsRow'
  BY <1>1 DEF IInv, LockMatchesStatus, HolderKnowsItsRow
<1>3. SelectedRowsWait'
  <2>1. PICK S \in SUBSET Fetchable : held' = [held EXCEPT ![w] = S]
    BY DEF PollSelect
  <2>2. ASSUME NEW v \in Worker, NEW t \in held'[v]
        PROVE  /\ tasks'[t].status = "scheduled"
               /\ \A x \in Worker : t \in held'[x] => x = v
    BY <1>1, <2>1, <2>2 DEF IInv, TypeOK, SelectedRowsWait, Fetchable, Due, RowLocked
  <2>. QED  BY <2>2 DEF SelectedRowsWait
<1>. QED  BY <1>2, <1>3 DEF IInv

(* poll_due's UPDATEs: fresh tokens on rows that still wait.                *)
LEMMA PollCommitLock ==
  ASSUME IInv, TypeOK', NEW w \in Worker, PollCommit(w)
  PROVE  IInv'
<1>1. PICK tok \in [held[w] -> FreshTokens] : PollCommit(w)!2!(tok)
  BY DEF PollCommit
<1>1a. \A t, u \in held[w] : tok[t] = tok[u] => t = u
  BY <1>1
<1>2. held' = [held EXCEPT ![w] = {}]
  BY DEF PollCommit
<1>3. ASSUME NEW t \in held[w]
      PROVE  /\ t \in Task /\ tok[t] \in Token
             /\ dispatch[tok[t]] = Free /\ \A u \in Task : tasks[u].worker_id # tok[t]
  BY DEF FreshTokens, IInv, TypeOK
<1>4. ASSUME NEW t \in held[w]
      PROVE  /\ tasks'[t].status = "picked_up"
             /\ tasks'[t].worker_id = tok[t]
             /\ tasks'[t].execution_time = tasks[t].execution_time
  <2>1. tasks[t] \in Row
    BY <1>3 DEF IInv, TypeOK
  <2>. QED  BY <1>1, <1>3, <2>1 DEF Row
<1>5. ASSUME NEW t \in Task, t \notin held[w]
      PROVE  tasks'[t] = tasks[t]
  BY <1>1, <1>5
<1>6. ASSUME NEW k \in Token, NEW t \in held[w], tok[t] = k
      PROVE  /\ dispatch'[k].task = t
             /\ dispatch'[k].execution_time = tasks[t].execution_time
  <2>1. (CHOOSE u \in held[w] : tok[u] = k) = t
    BY <1>1, <1>6
  <2>. QED  BY <1>1, <1>6, <2>1
<1>7. ASSUME NEW k \in Token, \A t \in held[w] : tok[t] # k
      PROVE  dispatch'[k] = dispatch[k]
  BY <1>1, <1>7
<1>8. LockMatchesStatus'
  <2>1. ASSUME NEW t \in Task
        PROVE  tasks'[t].worker_id # NoToken <=> tasks'[t].status = "picked_up"
    BY <1>3, <1>4, <1>5, TokenAssumption DEF IInv, LockMatchesStatus, TokenAssumption
  <2>2. ASSUME NEW t \in Task, NEW u \in Task,
               tasks'[t].worker_id = tasks'[u].worker_id, tasks'[t].worker_id # NoToken
        PROVE  t = u
    <3>1. CASE t \in held[w] /\ u \in held[w]
      <4>1. tok[t] = tok[u]
        BY <1>4, <2>2, <3>1
      <4>. QED  BY <1>1a, <3>1, <4>1
    <3>2. CASE t \in held[w] /\ u \notin held[w]
      BY <1>3, <1>4, <1>5, <2>2, <3>2
    <3>3. CASE t \notin held[w] /\ u \in held[w]
      BY <1>3, <1>4, <1>5, <2>2, <3>3
    <3>4. CASE t \notin held[w] /\ u \notin held[w]
      BY <1>5, <2>2, <3>4 DEF IInv, LockMatchesStatus
    <3>. QED  BY <3>1, <3>2, <3>3, <3>4
  <2>. QED  BY <2>1, <2>2 DEF LockMatchesStatus
<1>9. HolderKnowsItsRow'
  <2>1. ASSUME NEW k \in Token, NEW t \in Task,
               dispatch'[k] # Free, tasks'[t].worker_id = k
        PROVE  /\ dispatch'[k].task = t
               /\ dispatch'[k].execution_time = tasks'[t].execution_time
    <3>1. CASE t \in held[w]
      <4>1. tok[t] = k
        BY <1>4, <2>1, <3>1
      <4>2. dispatch'[k].task = t /\ dispatch'[k].execution_time = tasks[t].execution_time
        BY <1>6, <3>1, <4>1
      <4>3. tasks'[t].execution_time = tasks[t].execution_time
        BY <1>4, <3>1
      <4>. QED  BY <4>2, <4>3
    <3>2. CASE t \notin held[w]
      <4>1. tasks[t].worker_id = k /\ tasks'[t] = tasks[t]
        BY <1>5, <2>1, <3>2
      <4>2. \A u \in held[w] : tok[u] # k
        BY <1>3, <4>1
      <4>. QED  BY <1>7, <2>1, <4>1, <4>2 DEF IInv, HolderKnowsItsRow
    <3>. QED  BY <3>1, <3>2
  <2>. QED  BY <2>1 DEF HolderKnowsItsRow
<1>10. SelectedRowsWait'
  <2>1. ASSUME NEW v \in Worker, NEW t \in held'[v]
        PROVE  /\ tasks'[t].status = "scheduled"
               /\ \A x \in Worker : t \in held'[x] => x = v
    <3>1. v # w /\ t \in held[v] /\ t \in Task
      BY <1>2, <2>1 DEF IInv, TypeOK
    <3>2. t \notin held[w]
      BY <3>1 DEF IInv, SelectedRowsWait
    <3>. QED  BY <1>2, <1>5, <3>1, <3>2 DEF IInv, TypeOK, SelectedRowsWait
  <2>. QED  BY <2>1 DEF SelectedRowsWait
<1>. QED  BY <1>8, <1>9, <1>10 DEF IInv

LEMMA PollLoopLock ==
  ASSUME IInv, TypeOK', NEW w \in Worker, PollLoop(w)
  PROVE  IInv'
<1>1. CASE PollSelect(w)
  BY <1>1, PollSelectLock
<1>2. CASE PollCommit(w)
  BY <1>2, PollCommitLock
<1>3. CASE RecoverOrphans(w)
  <2>1. ASSUME NEW t \in Task PROVE LockKept(t) \/ LockFreed(t)
    <3>1. CASE Orphaned(t)
      <4>1. \A v \in Worker : t \notin held[v]
        BY <3>1 DEF Orphaned, IInv, SelectedRowsWait
      <4>2. tasks'[t] = Scheduled(tasks[t].execution_time)
        BY <1>3, <3>1 DEF RecoverOrphans
      <4>. QED  BY <4>1, <4>2 DEF LockFreed, Scheduled
    <3>2. CASE ~Orphaned(t)
      BY <1>3, <3>2 DEF RecoverOrphans, LockKept
    <3>. QED  BY <3>1, <3>2
  <2>2. \A k \in Token : DispatchKept(k)
    BY <1>3 DEF RecoverOrphans, DispatchKept
  <2>3. held' = held
    BY <1>3 DEF RecoverOrphans
  <2>. QED  BY <2>1, <2>2, <2>3, NoNewLock
<1>4. CASE Crash(w)
  <2>1. \A t \in Task : LockKept(t)
    BY <1>4 DEF Crash, LockKept
  <2>2. \A k \in Token : DispatchKept(k)
    BY <1>4 DEF Crash, DispatchKept
  <2>3. \A v \in Worker : held'[v] = held[v] \/ held'[v] = {}
    BY <1>4 DEF Crash, IInv, TypeOK
  <2>. QED  BY <2>1, <2>2, <2>3, NoNewLock
<1>5. CASE Wake(w) \/ Stop(w) \/ RecoverOrphansFails(w) \/ PollFails(w) \/ Restart(w)
  <2>1. UNCHANGED <<tasks, dispatch>>
    BY <1>5 DEF Wake, Stop, RecoverOrphansFails, PollFails, Restart
  <2>2. \A t \in Task : LockKept(t)
    BY <2>1 DEF LockKept
  <2>3. \A k \in Token : DispatchKept(k)
    BY <2>1 DEF DispatchKept
  <2>4. \A v \in Worker : held'[v] = held[v] \/ held'[v] = {}
    BY <1>5 DEF Wake, Stop, RecoverOrphansFails, PollFails, Restart, IInv, TypeOK
  <2>. QED  BY <2>2, <2>3, <2>4, NoNewLock
<1>. QED  BY <1>1, <1>2, <1>3, <1>4, <1>5 DEF PollLoop

(* A step of dispatch_task moves its own dispatch on, or ends it.           *)
LEMMA DispatchGoesOn ==
  ASSUME IInv, NEW k \in Token, DispatchTask(k)
  PROVE  /\ dispatch[k] # Free /\ dispatch[k].task \in Task
         /\ \A j \in Token : DispatchKept(j) /\ (j # k => dispatch'[j] = dispatch[j])
<1>. DEFINE own == dispatch[k].task
<1>1. dispatch[k] # Free /\ own \in Task
  <2>1. dispatch[k].phase # "free"
    BY DEF DispatchTask, Spawn, Heartbeat, HandlerReschedules, HandlerReturns, HandlerFails,
           HandlerPanics, Handling, Completion, Complete, CompleteOccurrence, OnReschedule,
           CompletionRefused, MarkFailed, MarkFailedFails
  <2>. QED  BY <2>1 DEF IInv, TypeOK, Dispatch, Free
<1>2. dispatch[k] \in Dispatch /\ dispatch \in [Token -> Dispatch \cup {Free}]
  BY <1>1 DEF IInv, TypeOK
<1>. DEFINE Moved(d) == /\ d.task = own
                        /\ d.execution_time = dispatch[k].execution_time
            Goal == \A j \in Token : DispatchKept(j) /\ (j # k => dispatch'[j] = dispatch[j])
<1>. SUFFICES Goal  BY <1>1
<1>3. /\ Moved(Executing(dispatch[k]))
      /\ Moved([dispatch[k] EXCEPT !.heartbeat = FALSE])
      /\ \A p \in Working \cup {"panicked"} :
           /\ Moved([dispatch[k] EXCEPT !.phase = p])
           /\ Moved([dispatch[k] EXCEPT !.phase = p, !.heartbeat = FALSE])
  BY <1>2 DEF Dispatch, Executing
<1>4. ASSUME NEW d, dispatch' = [dispatch EXCEPT ![k] = d], d = Free \/ Moved(d)
      PROVE  Goal
  <2>1. ASSUME NEW j \in Token, j # k PROVE DispatchKept(j) /\ dispatch'[j] = dispatch[j]
    BY <1>2, <1>4, <2>1 DEF DispatchKept
  <2>2. DispatchKept(k)
    BY <1>1, <1>2, <1>4 DEF DispatchKept
  <2>. QED  BY <2>1, <2>2
<1>5. ASSUME dispatch' = dispatch PROVE Goal
  BY <1>2, <1>5 DEF DispatchKept
<1>6. CASE Spawn(k)
  <2>. DEFINE d == IF own \in Registered THEN Executing(dispatch[k])
                   ELSE [dispatch[k] EXCEPT !.phase = "failing"]
  <2>1. dispatch' = [dispatch EXCEPT ![k] = d]
    BY <1>6 DEF Spawn
  <2>2. Moved(d)
    BY <1>3 DEF Working
  <2>. HIDE DEF d
  <2>. QED  BY <1>4, <2>1, <2>2
<1>7. CASE Heartbeat(k)
  <2>1. CASE dispatch' = [dispatch EXCEPT ![k] = Free]
    BY <1>4, <2>1
  <2>2. CASE dispatch' = [dispatch EXCEPT ![k] = [dispatch[k] EXCEPT !.heartbeat = FALSE]]
    BY <1>3, <1>4, <2>2
  <2>. QED  BY <1>5, <1>7, <2>1, <2>2 DEF Heartbeat
<1>8. CASE dispatch' = [dispatch EXCEPT ![k] = Free]
  BY <1>4, <1>8
<1>9. ASSUME NEW p \in {"rescheduled", "returned", "failing", "panicked"},
             \/ dispatch' = [dispatch EXCEPT ![k] = [dispatch[k] EXCEPT !.phase = p]]
             \/ dispatch' = [dispatch EXCEPT ![k] =
                               [dispatch[k] EXCEPT !.phase = p, !.heartbeat = FALSE]]
      PROVE  Goal
  BY <1>3, <1>4, <1>9 DEF Working, Handling
<1>10. CASE \/ \E e \in Time : HandlerReschedules(k, e)
            \/ HandlerReturns(k) \/ HandlerFails(k) \/ HandlerPanics(k)
  BY <1>8, <1>9, <1>10 DEF HandlerReschedules, HandlerReturns, HandlerFails, HandlerPanics
<1>11. ASSUME NEW new, Commit(k, new) PROVE Goal
  BY <1>8, <1>9, <1>11 DEF Commit
<1>12. CASE Completion(k)
  BY <1>9, <1>11, <1>12 DEF Completion, Complete, CompleteOccurrence, OnReschedule, CompletionRefused
<1>13. CASE MarkFailed(k) \/ MarkFailedFails(k)
  BY <1>8, <1>13 DEF MarkFailed, MarkFailedFails
<1>. QED  BY <1>6, <1>7, <1>10, <1>12, <1>13 DEF DispatchTask

(* The steps of a dispatch that conclude nothing leave every row's lock.    *)
LEMMA DispatchQuiet ==
  ASSUME IInv, NEW k \in Token, DispatchTask(k),
         \/ Spawn(k) \/ Heartbeat(k) \/ HandlerReturns(k) \/ HandlerFails(k) \/ HandlerPanics(k)
         \/ CompletionRefused(k) \/ MarkFailedFails(k) \/ (MarkFailed(k) /\ ~HoldsLock(k))
  PROVE  \A t \in Task : LockKept(t)
<1>1. CASE Heartbeat(k)
  <2>1. tasks \in [Task -> Row] /\ dispatch[k].task \in Task
    BY DispatchGoesOn DEF IInv, TypeOK
  <2>. QED  BY <1>1, <2>1 DEF Heartbeat, LockKept, Row
<1>2. CASE tasks' = tasks
  BY <1>2 DEF LockKept
<1>. QED  BY <1>1, <1>2 DEF Spawn, HandlerReturns, HandlerFails, HandlerPanics, CompletionRefused,
                            MarkFailedFails, MarkFailed

(* What completions and reschedules write: the row whose lock the dispatch holds, and rows  *)
(* of new tasks.                                                            *)
LEMMA DispatchConcludes ==
  ASSUME IInv, NEW k \in Token, DispatchTask(k), HoldsLock(k),
         \/ \E F \in SUBSET Task, e \in Time : Complete(k, F, e)
         \/ CompleteOccurrence(k)
         \/ \E e \in Time : OnReschedule(k, e) \/ HandlerReschedules(k, e)
         \/ MarkFailed(k)
  PROVE  \E F \in SUBSET Task, e \in Time :
           /\ \A t \in F : tasks[t] = Absent
           /\ \A t \in Task \ {dispatch[k].task} :
                tasks'[t] = IF t \in F THEN Scheduled(e) ELSE tasks[t]
           /\ \/ \E s \in Settled : tasks'[dispatch[k].task] = SettledAs(tasks[dispatch[k].task], s)
              \/ \E d \in Time : tasks'[dispatch[k].task] = Scheduled(d)
<1>. DEFINE own == dispatch[k].task
            Concludes(F, e) ==
              /\ \A t \in F : tasks[t] = Absent
              /\ \A t \in Task \ {own} : tasks'[t] = IF t \in F THEN Scheduled(e) ELSE tasks[t]
              /\ \/ \E s \in Settled : tasks'[own] = SettledAs(tasks[own], s)
                 \/ \E d \in Time : tasks'[own] = Scheduled(d)
<1>. SUFFICES \E F \in SUBSET Task, e \in Time : Concludes(F, e)  OBVIOUS
<1>1. own \in Task /\ tasks \in [Task -> Row] /\ dispatch[k] \in Dispatch
  BY DispatchGoesOn DEF IInv, TypeOK
<1>2. 0 \in Time
  BY NumberAssumption DEF Time, NumberAssumption
<1>3. ASSUME NEW F \in SUBSET Task, NEW e \in Time, Complete(k, F, e)
      PROVE  \E G \in SUBSET Task : Concludes(G, e)
  <2>1. PICK G \in SUBSET Task : G = {t \in F : tasks[t] = Absent}
    OBVIOUS
  <2>2. tasks' = [t \in Task |->
          IF t = own THEN SettledAs(tasks[t], "completed")
          ELSE IF t \in F /\ tasks[t] = Absent THEN Scheduled(e)
          ELSE tasks[t]]
    BY <1>3 DEF Complete, Commit
  <2>3. Concludes(G, e)
    BY <1>1, <2>1, <2>2 DEF Settled
  <2>. QED  BY <2>3
<1>4. ASSUME NEW d \in Time, tasks' = [tasks EXCEPT ![own] = Scheduled(d)]
      PROVE  Concludes({}, 0)
  BY <1>1, <1>4
<1>. HIDE DEF Concludes
<1>5. CASE CompleteOccurrence(k)
  <2>1. NextAfter(k) \in Time
    BY <1>1, <1>5, NumberAssumption
       DEF CompleteOccurrence, HasNext, NextAfter, Dispatch, Time, NumberAssumption
  <2>. QED  BY <1>2, <1>4, <1>5, <2>1 DEF CompleteOccurrence, Commit
<1>6. CASE \E e \in Time : OnReschedule(k, e) \/ HandlerReschedules(k, e)
  BY <1>2, <1>4, <1>6 DEF OnReschedule, HandlerReschedules, Commit
<1>7. CASE MarkFailed(k)
  <2>1. Concludes({}, 0)
    BY <1>1, <1>7 DEF MarkFailed, Settled, Concludes
  <2>. QED  BY <1>2, <2>1
<1>. QED  BY <1>3, <1>5, <1>6, <1>7

LEMMA DispatchLock ==
  ASSUME IInv, TypeOK', NEW k \in Token, DispatchTask(k)
  PROVE  IInv'
<1>. DEFINE own == dispatch[k].task
<1>1. /\ dispatch[k] # Free /\ own \in Task
      /\ \A j \in Token : DispatchKept(j)
  BY DispatchGoesOn
<1>2. held' = held
  BY DEF DispatchTask, Spawn, Heartbeat, HandlerReschedules, HandlerReturns, HandlerFails,
         HandlerPanics, Completion, Complete, CompleteOccurrence, OnReschedule, CompletionRefused,
         Commit, MarkFailed, MarkFailedFails, loop
<1>3. CASE \/ Spawn(k) \/ Heartbeat(k) \/ HandlerReturns(k) \/ HandlerFails(k) \/ HandlerPanics(k)
           \/ CompletionRefused(k) \/ MarkFailedFails(k) \/ (MarkFailed(k) /\ ~HoldsLock(k))
  <2>1. \A t \in Task : LockKept(t)
    BY <1>3, DispatchQuiet
  <2>. QED  BY <1>1, <1>2, <2>1, NoNewLock
<1>4. ASSUME HoldsLock(k),
             \/ \E F \in SUBSET Task, e \in Time : Complete(k, F, e)
             \/ CompleteOccurrence(k)
             \/ \E e \in Time : OnReschedule(k, e) \/ HandlerReschedules(k, e)
             \/ MarkFailed(k)
      PROVE  IInv'
  <2>1. PICK F \in SUBSET Task, e \in Time :
          /\ \A t \in F : tasks[t] = Absent
          /\ \A t \in Task \ {own} : tasks'[t] = IF t \in F THEN Scheduled(e) ELSE tasks[t]
          /\ \/ \E s \in Settled : tasks'[own] = SettledAs(tasks[own], s)
             \/ \E d \in Time : tasks'[own] = Scheduled(d)
    BY <1>4, DispatchConcludes
  <2>2. ASSUME NEW t \in Task \ {own} PROVE LockKept(t) \/ LockFreed(t)
    <3>1. CASE t \in F
      <4>1. \A w \in Worker : t \notin held[w]
        BY <2>1, <3>1 DEF Absent, IInv, SelectedRowsWait
      <4>2. tasks'[t] = Scheduled(e)
        BY <2>1, <3>1
      <4>. QED  BY <4>1, <4>2 DEF Scheduled, LockFreed
    <3>2. CASE t \notin F
      BY <2>1, <3>2 DEF LockKept
    <3>. QED  BY <3>1, <3>2
  <2>3. LockFreed(own)
    <3>1. tasks[own] \in Row /\ \A w \in Worker : own \notin held[w]
      BY <1>1, <1>4, HeldRowIsPickedUp DEF IInv, TypeOK
    <3>2. CASE \E s \in Settled : tasks'[own] = SettledAs(tasks[own], s)
      BY <3>1, <3>2 DEF SettledAs, Row, Settled, LockFreed
    <3>3. CASE \E d \in Time : tasks'[own] = Scheduled(d)
      BY <3>1, <3>3 DEF Scheduled, LockFreed
    <3>. QED  BY <2>1, <3>2, <3>3
  <2>4. \A t \in Task : LockKept(t) \/ LockFreed(t)
    BY <2>2, <2>3
  <2>. QED  BY <1>1, <1>2, <2>4, NoNewLock
<1>5. CASE \E F \in SUBSET Task, e \in Time : Complete(k, F, e)
  <2>1. HoldsLock(k)
    BY <1>5 DEF Complete
  <2>. QED  BY <1>4, <1>5, <2>1
<1>6. CASE CompleteOccurrence(k) \/ \E e \in Time : OnReschedule(k, e) \/ HandlerReschedules(k, e)
  <2>1. HoldsLock(k)
    BY <1>6 DEF CompleteOccurrence, OnReschedule, HandlerReschedules
  <2>. QED  BY <1>4, <1>6, <2>1
<1>7. CASE MarkFailed(k)
  BY <1>3, <1>4, <1>7
<1>8. CASE Completion(k)
  BY <1>3, <1>5, <1>6, <1>8 DEF Completion
<1>. QED  BY <1>3, <1>6, <1>7, <1>8 DEF DispatchTask

LEMMA TickLock ==
  ASSUME IInv, TypeOK', Tick
  PROVE  IInv'
<1>1. ASSUME NEW t \in Task PROVE LockKept(t)
  <2>1. tasks[t] \in Row
    BY DEF IInv, TypeOK
  <2>. QED  BY <2>1 DEF Tick, LockKept, Row
<1>2. \A k \in Token : DispatchKept(k)
  BY DEF Tick, DispatchKept
<1>3. held' = held
  BY DEF Tick, loop
<1>. QED  BY <1>1, <1>2, <1>3, NoNewLock

LEMMA LockInit == Init => IInv
<1>. SUFFICES ASSUME Init PROVE IInv  OBVIOUS
<1>1. LockMatchesStatus
  BY DEF Init, Absent, LockMatchesStatus
<1>2. HolderKnowsItsRow
  BY TokenAssumption DEF Init, Absent, HolderKnowsItsRow, TokenAssumption
<1>3. SelectedRowsWait
  BY DEF Init, SelectedRowsWait
<1>. QED  BY <1>1, <1>2, <1>3, TypeInit DEF IInv

LEMMA LockStep == IInv /\ [Next]_vars => IInv'
<1>. SUFFICES ASSUME IInv, [Next]_vars PROVE IInv'  OBVIOUS
<1>1. TypeOK'
  BY TypeStep DEF IInv
<1>2. CASE Next
  BY <1>1, <1>2, ClientLock, PollLoopLock, DispatchLock, TickLock DEF Next
<1>3. CASE UNCHANGED vars
  BY <1>3 DEF vars, IInv, TypeOK, LockMatchesStatus, HolderKnowsItsRow, SelectedRowsWait
<1>. QED  BY <1>2, <1>3

LEMMA Invariance == Spec => []IInv
  BY LockInit, LockStep, PTL DEF Spec

(* A row carries a lock token exactly while it is picked_up, and no token   *)
(* is in two rows.                                                          *)
THEOREM LocksCorrect == Spec => []LockMatchesStatus
<1>1. IInv => LockMatchesStatus
  BY DEF IInv
<1>. QED  BY <1>1, Invariance, PTL

(* Whoever holds a row's lock knows that row's task and execution_time.     *)
THEOREM HolderCorrect == Spec => []HolderKnowsItsRow
<1>1. IInv => HolderKnowsItsRow
  BY DEF IInv
<1>. QED  BY <1>1, Invariance, PTL

(* A row selected by a poll stays scheduled, and selected by it alone, until *)
(* that poll's transaction ends.                                            *)
THEOREM SelectionCorrect == Spec => []SelectedRowsWait
<1>1. IInv => SelectedRowsWait
  BY DEF IInv
<1>. QED  BY <1>1, Invariance, PTL

-----------------------------------------------------------------------------
(* How a row can change in one step, and what follows for settled rows and  *)
(* for leases.                                                              *)

EndsItself(k) ==
  \/ dispatch[k].phase = "executing" /\ dispatch'[k].phase = "rescheduled"
  \/ dispatch[k].phase \in {"returned", "failing"} /\ dispatch'[k] # dispatch[k]

RowChange(t) ==
  \/ tasks'[t] \in {tasks[t], Absent}
  \/ tasks[t].status \in {"absent", "scheduled"}
  \/ tasks[t].status = "picked_up" /\ tasks'[t].worker_id = tasks[t].worker_id
  \/ Orphaned(t)
  \/ /\ tasks[t].status = "picked_up" /\ tasks[t].worker_id \in Token
     /\ EndsItself(tasks[t].worker_id)

LEMMA PollLoopRows ==
  ASSUME IInv, NEW w \in Worker, PollLoop(w), NEW t \in Task
  PROVE  RowChange(t)
<1>1. CASE RecoverOrphans(w)
  BY <1>1 DEF RecoverOrphans, RowChange
<1>2. CASE PollCommit(w)
  <2>1. CASE t \in held[w]
    BY <2>1 DEF IInv, SelectedRowsWait, RowChange
  <2>2. CASE t \notin held[w]
    BY <1>2, <2>2 DEF PollCommit, RowChange
  <2>. QED  BY <2>1, <2>2
<1>. QED
  BY <1>1, <1>2 DEF PollLoop, Wake, Stop, RecoverOrphansFails, PollSelect, PollFails, Crash,
                    Restart, RowChange

LEMMA DispatchRows ==
  ASSUME IInv, NEW k \in Token, DispatchTask(k), NEW t \in Task
  PROVE  RowChange(t)
<1>. DEFINE own == dispatch[k].task
<1>1. tasks \in [Task -> Row] /\ dispatch \in [Token -> Dispatch \cup {Free}]
  BY DEF IInv, TypeOK
<1>2. CASE Spawn(k) \/ HandlerReturns(k) \/ HandlerFails(k) \/ HandlerPanics(k)
           \/ CompletionRefused(k) \/ MarkFailedFails(k)
  BY <1>2 DEF Spawn, HandlerReturns, HandlerFails, HandlerPanics, CompletionRefused,
              MarkFailedFails, RowChange
<1>3. CASE Heartbeat(k)
  <2>1. \/ tasks' = tasks
        \/ tasks' = [tasks EXCEPT ![own].locked_for = 0] /\ tasks[own].status = "picked_up"
    BY <1>3 DEF Heartbeat
  <2>2. CASE tasks' = tasks
    BY <2>2 DEF RowChange
  <2>3. CASE tasks' = [tasks EXCEPT ![own].locked_for = 0] /\ tasks[own].status = "picked_up"
    BY <1>1, <2>3 DEF RowChange, Row
  <2>. QED  BY <2>1, <2>2, <2>3
<1>4. ASSUME dispatch[k].phase \in {"returned", "failing"}, HoldsLock(k), t = own,
             \/ dispatch' = [dispatch EXCEPT ![k] = Free]
             \/ /\ dispatch[k].phase = "returned"
                /\ dispatch' = [dispatch EXCEPT ![k].phase = "failing"]
      PROVE  RowChange(t)
  <2>1. dispatch[k] # Free /\ dispatch[k] \in Dispatch
    BY <1>1, <1>4 DEF Free
  <2>2. tasks[t].status = "picked_up" /\ tasks[t].worker_id = k
    BY <1>4, <2>1, HeldRowIsPickedUp DEF HoldsLock
  <2>3. dispatch'[k] # dispatch[k]
    <3>1. CASE dispatch' = [dispatch EXCEPT ![k] = Free]
      BY <1>1, <2>1, <3>1
    <3>2. CASE dispatch[k].phase = "returned" /\ dispatch' = [dispatch EXCEPT ![k].phase = "failing"]
      <4>1. dispatch'[k].phase = "failing"
        BY <1>1, <2>1, <3>2 DEF Dispatch
      <4>. QED  BY <3>2, <4>1
    <3>. QED  BY <1>4, <3>1, <3>2
  <2>. QED  BY <1>4, <2>2, <2>3 DEF RowChange, EndsItself
<1>5. ASSUME NEW new, dispatch[k].phase = "returned", HoldsLock(k), Commit(k, new), t = own
      PROVE  RowChange(t)
  BY <1>4, <1>5 DEF Commit
<1>6. ASSUME NEW F \in SUBSET Task, NEW e \in Time, Complete(k, F, e)
      PROVE  RowChange(t)
  <2>1. CASE t = own
    BY <1>5, <1>6, <2>1 DEF Complete
  <2>2. CASE t # own
    <3>1. tasks'[t] = IF t \in F /\ tasks[t] = Absent THEN Scheduled(e) ELSE tasks[t]
      BY <1>6, <2>2 DEF Complete, Commit
    <3>. QED  BY <3>1 DEF RowChange, Absent
  <2>. QED  BY <2>1, <2>2
<1>7. ASSUME NEW e, dispatch[k].phase = "returned", HoldsLock(k),
             Commit(k, [tasks EXCEPT ![own] = Scheduled(e)])
      PROVE  RowChange(t)
  <2>1. CASE t = own
    BY <1>5, <1>7, <2>1
  <2>2. CASE t # own
    BY <1>1, <1>7, <2>2 DEF Commit, RowChange
  <2>. QED  BY <2>1, <2>2
<1>8. CASE CompleteOccurrence(k)
  BY <1>7, <1>8 DEF CompleteOccurrence
<1>9. CASE \E e \in Time : OnReschedule(k, e)
  BY <1>7, <1>9 DEF OnReschedule
<1>10. CASE MarkFailed(k)
  <2>1. CASE HoldsLock(k) /\ t = own
    BY <1>4, <1>10, <2>1 DEF MarkFailed
  <2>2. CASE ~(HoldsLock(k) /\ t = own)
    BY <1>1, <1>10, <2>2 DEF MarkFailed, RowChange
  <2>. QED  BY <2>1, <2>2
<1>11. ASSUME NEW e \in Time, HandlerReschedules(k, e) PROVE RowChange(t)
  <2>1. dispatch[k] # Free /\ dispatch[k] \in Dispatch /\ HoldsLock(k)
    BY <1>1, <1>11 DEF HandlerReschedules, Free
  <2>2. dispatch'[k].phase = "rescheduled" /\ dispatch[k].phase = "executing"
    BY <1>1, <1>11, <2>1 DEF HandlerReschedules, Dispatch
  <2>3. CASE t = own
    <3>1. tasks[t].status = "picked_up" /\ tasks[t].worker_id = k
      BY <2>1, <2>3, HeldRowIsPickedUp DEF HoldsLock
    <3>. QED  BY <2>2, <3>1 DEF RowChange, EndsItself
  <2>4. CASE t # own
    BY <1>1, <1>11, <2>4 DEF HandlerReschedules, RowChange
  <2>. QED  BY <2>3, <2>4
<1>. QED  BY <1>2, <1>3, <1>6, <1>8, <1>9, <1>10, <1>11 DEF DispatchTask, Completion

LEMMA RowsStep ==
  ASSUME IInv, [Next]_vars, NEW t \in Task
  PROVE  RowChange(t)
<1>0. tasks[t] \in Row
  BY DEF IInv, TypeOK
<1>1. CASE \E u \in Task : Client(u)
  BY <1>1 DEF Client, ScheduleAt, CancelTask, DeleteTask, RowChange, IInv, TypeOK, Absent
<1>2. CASE Tick
  BY <1>0, <1>2 DEF Tick, RowChange, Row
<1>3. CASE UNCHANGED vars
  BY <1>3 DEF vars, RowChange
<1>. QED  BY <1>1, <1>2, <1>3, PollLoopRows, DispatchRows DEF Next

(* No late completion, failure, recovery or poll touches a settled row:     *)
(* every statement finds its row by lock token, or by a status it is not in.*)
THEOREM SettledCorrect == Spec => SettledStaysSettled
<1>1. ASSUME IInv, [Next]_vars, NEW t \in Task, tasks[t].status \in Settled
      PROVE  tasks'[t] \in {tasks[t], Absent}
  BY <1>1, RowsStep DEF RowChange, Orphaned, Settled
<1>2. IInv /\ [Next]_vars =>
        [\A t \in Task : tasks[t].status \in Settled => tasks'[t] \in {tasks[t], Absent}]_vars
  BY <1>1
<1>. QED  BY <1>2, Invariance, PTL DEF Spec, SettledStaysSettled

(* Nobody but its holder ends a lease that is not past orphan_timeout, short *)
(* of deleting the row.                                                     *)
THEOREM LeaseCorrect == Spec => LeaseRespected
<1>1. ASSUME IInv, [Next]_vars, NEW t \in Task,
             tasks[t].worker_id # NoToken, tasks'[t].worker_id # tasks[t].worker_id
      PROVE  \/ tasks[t].locked_for > OrphanTimeout
             \/ tasks'[t] = Absent
             \/ EndsItself(tasks[t].worker_id)
  <2>1. tasks[t].status = "picked_up"
    BY <1>1 DEF IInv, LockMatchesStatus
  <2>. QED  BY <1>1, <2>1, RowsStep DEF RowChange, Orphaned
<1>2. IInv /\ [Next]_vars =>
        [\A t \in Task :
           LET k == tasks[t].worker_id IN
           k # NoToken /\ tasks'[t].worker_id # k =>
             \/ tasks[t].locked_for > OrphanTimeout
             \/ tasks'[t] = Absent
             \/ dispatch[k].phase = "executing" /\ dispatch'[k].phase = "rescheduled"
             \/ dispatch[k].phase \in {"returned", "failing"} /\ dispatch'[k] # dispatch[k]]_vars
  BY <1>1 DEF EndsItself
<1>. QED  BY <1>2, Invariance, PTL DEF Spec, LeaseRespected

-----------------------------------------------------------------------------
(* Exclusive handlers.  Nothing but time and a deletion takes a lease from   *)
(* its holder, and the holder does not test it again before it runs the      *)
(* handler: that no two handlers run on one task needs rows nobody deletes,  *)
(* heartbeats on time, and a permit for a fetched task before its lease is   *)
(* over.  Without any one of these two handlers do run on one task, as TLC   *)
(* shows for the last of them (TaskQueueShort.cfg).                          *)

Guarded == HeartbeatsOnTime /\ Deletable = {}

PermitsInTime ==
  \A k \in Token :
    dispatch[k].phase = "queued" /\ HoldsLock(k)
      /\ tasks[dispatch[k].task].locked_for >= OrphanTimeout
    => PermitAvailable(dispatch[k].worker)

Leased(k) ==
  dispatch[k].phase \in {"queued", "executing"} =>
    /\ HoldsLock(k) /\ tasks[dispatch[k].task].locked_for <= OrphanTimeout
    /\ dispatch[k].phase = "executing" => dispatch[k].heartbeat

LeaseInv == \A k \in Token : Leased(k)

(* A dispatch that goes on with its row, and a row that stays with it.       *)
Waits(k) ==
  dispatch'[k].phase \in {"queued", "executing"} =>
    /\ dispatch[k].phase \in {"queued", "executing"}
    /\ dispatch'[k].task = dispatch[k].task
    /\ dispatch'[k].phase = "executing" => dispatch'[k].heartbeat

RowWaits(k) ==
  LET t == dispatch[k].task IN
  /\ tasks'[t].worker_id = tasks[t].worker_id
  /\ tasks'[t].locked_for <= OrphanTimeout

LEMMA LeaseStays ==
  ASSUME LeaseInv, NEW k \in Token, Waits(k),
         dispatch[k].phase \in {"queued", "executing"} => RowWaits(k)
  PROVE  Leased(k)'
BY DEF LeaseInv, Leased, Waits, RowWaits, HoldsLock

LEMMA LeasedRow ==
  ASSUME IInv, LeaseInv, NEW k \in Token, dispatch[k].phase \in {"queued", "executing"}
  PROVE  /\ dispatch[k] # Free /\ dispatch[k] \in Dispatch /\ dispatch[k].task \in Task
         /\ tasks[dispatch[k].task] \in Row
         /\ tasks[dispatch[k].task].status = "picked_up"
         /\ tasks[dispatch[k].task].worker_id = k
         /\ tasks[dispatch[k].task].locked_for <= OrphanTimeout
         /\ dispatch[k].phase = "executing" => dispatch[k].heartbeat
<1>1. dispatch[k] # Free
  BY DEF Free
<1>2. dispatch[k] \in Dispatch /\ tasks \in [Task -> Row]
  BY <1>1 DEF IInv, TypeOK
<1>3. HoldsLock(k)
  BY DEF LeaseInv, Leased
<1>. QED  BY <1>1, <1>2, <1>3, HeldRowIsPickedUp DEF HoldsLock, LeaseInv, Leased, Dispatch

LEMMA ClientLease ==
  ASSUME IInv, LeaseInv, Guarded, NEW t \in Task, Client(t)
  PROVE  LeaseInv'
<1>. SUFFICES ASSUME NEW k \in Token PROVE Leased(k)'
  BY DEF LeaseInv
<1>1. ~DeleteTask(t)
  BY DEF Guarded, DeleteTask
<1>2. dispatch' = dispatch
  BY DEF Client, ScheduleAt, CancelTask, DeleteTask
<1>3. Waits(k)
  BY <1>2 DEF LeaseInv, Leased, Waits
<1>4. ASSUME dispatch[k].phase \in {"queued", "executing"} PROVE RowWaits(k)
  <2>1. tasks[t].status # "picked_up"
    BY <1>1 DEF Client, ScheduleAt, CancelTask, Absent
  <2>2. \A u \in Task : u # t => tasks'[u] = tasks[u]
    BY <1>1 DEF Client, ScheduleAt, CancelTask, IInv, TypeOK
  <2>. QED  BY <1>4, <2>1, <2>2, LeasedRow DEF RowWaits
<1>. QED  BY <1>3, <1>4, LeaseStays

LEMMA PollCommitLease ==
  ASSUME IInv, LeaseInv, NEW w \in Worker, PollCommit(w), NEW k \in Token
  PROVE  Leased(k)'
<1>1. PICK tok \in [held[w] -> FreshTokens] :
        /\ \A t, u \in held[w] : tok[t] = tok[u] => t = u
        /\ tasks' = [t \in Task |->
             IF t \in held[w]
             THEN [tasks[t] EXCEPT !.status = "picked_up", !.worker_id = tok[t],
                                   !.locked_for = 0]
             ELSE tasks[t]]
        /\ dispatch' = [j \in Token |->
             IF \E t \in held[w] : tok[t] = j
             THEN LET t == CHOOSE t \in held[w] : tok[t] = j
                  IN  [phase |-> "queued", task |-> t, worker |-> w,
                       execution_time |-> tasks[t].execution_time, heartbeat |-> FALSE]
             ELSE dispatch[j]]
  BY DEF PollCommit
<1>2. CASE \E t \in held[w] : tok[t] = k
  <2>1. PICK t \in held[w] : t = CHOOSE u \in held[w] : tok[u] = k
    BY <1>2
  <2>2. tok[t] = k /\ t \in Task /\ tasks[t] \in Row
    BY <1>2, <2>1 DEF IInv, TypeOK
  <2>3. dispatch'[k].phase = "queued" /\ dispatch'[k].task = t
    BY <1>1, <1>2, <2>1
  <2>4. tasks'[t].worker_id = k /\ tasks'[t].locked_for = 0
    BY <1>1, <2>2 DEF Row
  <2>. QED  BY <2>3, <2>4, NumberAssumption DEF Leased, HoldsLock, NumberAssumption
<1>3. CASE ~\E t \in held[w] : tok[t] = k
  <2>1. dispatch'[k] = dispatch[k]
    BY <1>1, <1>3
  <2>2. Waits(k)
    BY <2>1 DEF LeaseInv, Leased, Waits
  <2>3. ASSUME dispatch[k].phase \in {"queued", "executing"} PROVE RowWaits(k)
    <3>1. dispatch[k].task \notin held[w]
      BY <2>3, LeasedRow DEF IInv, SelectedRowsWait
    <3>. QED  BY <1>1, <2>3, <3>1, LeasedRow DEF RowWaits
  <2>. QED  BY <2>2, <2>3, LeaseStays
<1>. QED  BY <1>2, <1>3

LEMMA PollLoopLease ==
  ASSUME IInv, LeaseInv, NEW w \in Worker, PollLoop(w)
  PROVE  LeaseInv'
<1>. SUFFICES ASSUME NEW k \in Token, ~PollCommit(w) PROVE Leased(k)'
  BY PollCommitLease DEF LeaseInv
<1>1. Waits(k)
  <2>1. dispatch'[k] = dispatch[k] \/ dispatch'[k] = Free
    BY DEF PollLoop, Wake, Stop, RecoverOrphans, RecoverOrphansFails, PollSelect, PollFails,
           Crash, Restart
  <2>. QED  BY <2>1 DEF LeaseInv, Leased, Waits, Free
<1>2. ASSUME dispatch[k].phase \in {"queued", "executing"} PROVE RowWaits(k)
  <2>1. CASE RecoverOrphans(w)
    <3>1. ~Orphaned(dispatch[k].task)
      <4>1. tasks[dispatch[k].task].locked_for \in Nat /\ OrphanTimeout \in Nat
        BY <1>2, LeasedRow, NumberAssumption DEF Row, Age, NumberAssumption
      <4>. QED  BY <1>2, <4>1, LeasedRow DEF Orphaned
    <3>. QED  BY <1>2, <2>1, <3>1, LeasedRow DEF RecoverOrphans, RowWaits
  <2>2. CASE UNCHANGED tasks
    BY <1>2, <2>2, LeasedRow DEF RowWaits
  <2>. QED  BY <2>1, <2>2 DEF PollLoop, Wake, Stop, RecoverOrphansFails, PollSelect, PollFails,
                              Crash, Restart
<1>. QED  BY <1>1, <1>2, LeaseStays

(* What a dispatch writes in a row that another one holds: nothing.          *)
LEMMA OthersRow ==
  ASSUME IInv, LeaseInv, NEW k \in Token, DispatchTask(k), ~Heartbeat(k), NEW j \in Token, j # k,
         dispatch[j].phase \in {"queued", "executing"}, ~Spawn(k),
         ~HandlerReturns(k), ~HandlerFails(k), ~HandlerPanics(k)
  PROVE  RowWaits(j)
<1>2. CASE \A t \in Task : tasks'[t] = tasks[t]
  BY <1>2, LeasedRow DEF RowWaits
<1>3. ASSUME HoldsLock(k),
             \/ \E F \in SUBSET Task, e \in Time : Complete(k, F, e)
             \/ CompleteOccurrence(k)
             \/ \E e \in Time : OnReschedule(k, e) \/ HandlerReschedules(k, e)
             \/ MarkFailed(k)
      PROVE  RowWaits(j)
  <2>1. PICK t \in Task : t = dispatch[j].task
    BY LeasedRow
  <2>2. t # dispatch[k].task /\ tasks[t] # Absent
    BY <1>3, <2>1, LeasedRow DEF HoldsLock, Absent
  <2>3. tasks'[t] = tasks[t]
    BY <1>3, <2>2, DispatchConcludes
  <2>. QED  BY <2>1, <2>3, LeasedRow DEF RowWaits
<1>4. CASE Completion(k)
  BY <1>2, <1>3, <1>4 DEF Completion, Complete, CompleteOccurrence, OnReschedule, CompletionRefused
<1>5. CASE MarkFailed(k) \/ MarkFailedFails(k)
  BY <1>2, <1>3, <1>5 DEF MarkFailed, MarkFailedFails
<1>6. CASE \E e \in Time : HandlerReschedules(k, e)
  BY <1>3, <1>6 DEF HandlerReschedules
<1>. QED  BY <1>4, <1>5, <1>6 DEF DispatchTask

LEMMA DispatchLease ==
  ASSUME IInv, LeaseInv, NEW k \in Token, DispatchTask(k)
  PROVE  LeaseInv'
<1>. SUFFICES ASSUME NEW j \in Token PROVE Leased(j)'
  BY DEF LeaseInv
<1>1. dispatch \in [Token -> Dispatch \cup {Free}] /\ dispatch[k] \in Dispatch
  BY DispatchGoesOn DEF IInv, TypeOK
<1>2. ASSUME dispatch'[j] = dispatch[j] PROVE Waits(j)
  BY <1>2 DEF LeaseInv, Leased, Waits
<1>3. CASE Spawn(k) \/ HandlerReturns(k) \/ HandlerFails(k) \/ HandlerPanics(k)
  <2>1. UNCHANGED tasks
    BY <1>3 DEF Spawn, HandlerReturns, HandlerFails, HandlerPanics
  <2>2. dispatch[j].phase \in {"queued", "executing"} => RowWaits(j)
    BY <2>1, LeasedRow DEF RowWaits
  <2>3. j # k => dispatch'[j] = dispatch[j]
    BY <1>1, <1>3 DEF Spawn, HandlerReturns, HandlerFails, HandlerPanics
  <2>4. ASSUME j = k, Spawn(k) PROVE Waits(j)
    BY <1>1, <2>4 DEF Spawn, Executing, Dispatch, Waits
  <2>5. ASSUME j = k, ~Spawn(k) PROVE Waits(j)
    <3>1. dispatch'[k] = Free \/ dispatch'[k].phase \in {"returned", "failing", "panicked"}
      <4>0. \A p, b : [dispatch[k] EXCEPT !.phase = p, !.heartbeat = b].phase = p
                        /\ [dispatch[k] EXCEPT !.phase = p].phase = p
        BY <1>1 DEF Dispatch
      <4>1. CASE HandlerReturns(k) \/ HandlerFails(k)
        <5>1. PICK p \in {"returned", "failing"} :
                dispatch' = [dispatch EXCEPT ![k] = [@ EXCEPT !.phase = p, !.heartbeat = FALSE]]
          BY <4>1 DEF HandlerReturns, HandlerFails
        <5>2. dispatch'[k] = [dispatch[k] EXCEPT !.phase = p, !.heartbeat = FALSE]
          BY <1>1, <5>1
        <5>. QED  BY <4>0, <5>2
      <4>2. CASE HandlerPanics(k)
        <5>1. dispatch'[k] \in {[dispatch[k] EXCEPT !.phase = "panicked"], Free}
          BY <1>1, <4>2 DEF HandlerPanics
        <5>. QED  BY <4>0, <5>1
      <4>. QED  BY <1>3, <2>5, <4>1, <4>2
    <3>. QED  BY <2>5, <3>1 DEF Waits, Free
  <2>. QED  BY <1>2, <2>2, <2>3, <2>4, <2>5, LeaseStays
<1>4. CASE Heartbeat(k)
  <2>1. HoldsLock(k) /\ tasks[dispatch[k].task].status = "picked_up" => UNCHANGED dispatch
    BY <1>4 DEF Heartbeat
  <2>2. ASSUME ~(HoldsLock(k) /\ tasks[dispatch[k].task].status = "picked_up")
        PROVE  dispatch'[k].phase \in {"free", "rescheduled"}
    BY <1>1, <1>4, <2>2, LeasedRow DEF Heartbeat, Handling, HoldsLock, Dispatch, Free
  <2>3. Waits(j)
    <3>1. CASE j = k /\ dispatch'[k].phase \in {"free", "rescheduled"}
      BY <3>1 DEF Waits
    <3>2. j # k => dispatch'[j] = dispatch[j]
      BY <1>1, <1>4 DEF Heartbeat
    <3>. QED  BY <1>2, <2>1, <2>2, <3>1, <3>2
  <2>4. ASSUME dispatch[j].phase \in {"queued", "executing"} PROVE RowWaits(j)
    <3>1. PICK t \in Task : t = dispatch[j].task
      BY <2>4, LeasedRow
    <3>2. /\ tasks'[t].worker_id = tasks[t].worker_id
          /\ tasks'[t].locked_for \in {0, tasks[t].locked_for}
      BY <1>4, <2>4, <3>1, LeasedRow DEF Heartbeat, IInv, TypeOK, Row
    <3>. QED  BY <2>4, <3>1, <3>2, LeasedRow, NumberAssumption DEF RowWaits, NumberAssumption
  <2>. QED  BY <2>3, <2>4, LeaseStays
<1>5. CASE ~Spawn(k) /\ ~Heartbeat(k) /\ ~HandlerReturns(k) /\ ~HandlerFails(k) /\ ~HandlerPanics(k)
  <2>1. ASSUME j # k, dispatch[j].phase \in {"queued", "executing"} PROVE RowWaits(j)
    BY <1>5, <2>1, OthersRow
  <2>2. \/ Completion(k) \/ MarkFailed(k) \/ MarkFailedFails(k)
        \/ \E e \in Time : HandlerReschedules(k, e)
    BY <1>5 DEF DispatchTask
  <2>3. \/ dispatch' = [dispatch EXCEPT ![k] = Free]
        \/ dispatch' = [dispatch EXCEPT ![k].phase = "failing"]
        \/ dispatch' = [dispatch EXCEPT ![k].phase = "rescheduled"]
    BY <2>2 DEF Completion, Complete, CompleteOccurrence, OnReschedule, CompletionRefused, Commit,
                MarkFailed, MarkFailedFails, HandlerReschedules
  <2>4. CASE j = k
    <3>1. dispatch'[k].phase \in {"free", "failing", "rescheduled"}
      BY <1>1, <2>3 DEF Dispatch, Free
    <3>. QED  BY <2>4, <3>1 DEF Leased
  <2>5. CASE j # k
    <3>1. Waits(j)
      BY <1>1, <1>2, <2>3, <2>5
    <3>. QED  BY <2>1, <2>5, <3>1, LeaseStays
  <2>. QED  BY <2>4, <2>5
<1>. QED  BY <1>3, <1>4, <1>5

(* A lease that has its full age is renewed, or its permit taken, before the *)
(* clock goes on.                                                           *)
LEMMA TickLease ==
  ASSUME IInv, LeaseInv, Guarded, PermitsInTime, Tick
  PROVE  LeaseInv'
<1>. SUFFICES ASSUME NEW k \in Token PROVE Leased(k)'
  BY DEF LeaseInv
<1>1. Waits(k)
  BY DEF Tick, LeaseInv, Leased, Waits
<1>2. ASSUME dispatch[k].phase \in {"queued", "executing"} PROVE RowWaits(k)
  <2>1. PICK t \in Task : t = dispatch[k].task
    BY <1>2, LeasedRow
  <2>2. /\ tasks[t] \in Row /\ tasks[t].locked_for \in Nat /\ OrphanTimeout \in Nat
        /\ tasks[t].status = "picked_up" /\ tasks[t].locked_for <= OrphanTimeout
    BY <1>2, <2>1, LeasedRow, NumberAssumption DEF Row, Age, NumberAssumption
  <2>3. tasks[t].locked_for < OrphanTimeout
    <3>1. ~RenewalPending(k)
      BY DEF Tick, Guarded
    <3>2. HoldsLock(k) /\ dispatch[k] # Free
      BY <1>2, LeasedRow DEF HoldsLock
    <3>3. ASSUME tasks[t].locked_for >= OrphanTimeout
          PROVE  dispatch[k].heartbeat \/ (dispatch[k].phase = "queued" /\ PermitAvailable(dispatch[k].worker))
      BY <1>2, <2>1, <3>2, <3>3, LeasedRow DEF PermitsInTime
    <3>. QED  BY <2>1, <2>2, <3>1, <3>2, <3>3 DEF RenewalPending
  <2>4. tasks'[t] = [tasks[t] EXCEPT !.locked_for = @ + 1]
    BY <2>2 DEF Tick
  <2>. QED  BY <2>1, <2>2, <2>3, <2>4 DEF RowWaits, Row
<1>. QED  BY <1>1, <1>2, LeaseStays

LEMMA LeaseStep ==
  Guarded /\ IInv /\ LeaseInv /\ PermitsInTime /\ [Next]_vars => LeaseInv'
<1>. SUFFICES ASSUME Guarded, IInv, LeaseInv, PermitsInTime, [Next]_vars PROVE LeaseInv'  OBVIOUS
<1>1. CASE UNCHANGED vars
  BY <1>1 DEF vars, LeaseInv, Leased, HoldsLock
<1>. QED  BY <1>1, ClientLease, PollLoopLease, DispatchLease, TickLease DEF Next

(* Two handlers never execute one task at the same time, whatever orphan    *)
(* recovery, crashes, panics and late completions there are, if heartbeats   *)
(* are on time, no row is deleted, and no fetched task waits for its permit  *)
(* longer than the orphan timeout.                                          *)
THEOREM ExclusiveWithPermitsInTime ==
  ASSUME Guarded
  PROVE  Spec /\ []PermitsInTime => []HandlersExclusive
<1>1. Init => LeaseInv
  BY DEF Init, LeaseInv, Leased, Free
<1>2. IInv /\ LeaseInv => HandlersExclusive
  <2>. SUFFICES ASSUME IInv, LeaseInv, NEW j \in Token, NEW k \in Token,
                       dispatch[j].phase = "executing", dispatch[k].phase = "executing",
                       dispatch[j].task = dispatch[k].task
                PROVE  j = k
    BY DEF HandlersExclusive
  <2>. QED  BY LeasedRow
<1>. QED  BY <1>1, <1>2, LeaseStep, Invariance, PTL DEF Spec

(* So it is when workers have a permit for every dispatch there can be.      *)
THEOREM ExclusiveWithPermits ==
  ASSUME Guarded, IsFiniteSet(Token), Cardinality(Token) <= MaxConcurrentTasks
  PROVE  Spec => []HandlersExclusive
<1>1. TypeOK => PermitsInTime
  <2>. SUFFICES ASSUME NEW k \in Token, dispatch[k].phase = "queued"
                PROVE  PermitAvailable(dispatch[k].worker)
    BY DEF PermitsInTime
  <2>. DEFINE A == Active(dispatch[k].worker)
  <2>1. A \subseteq Token \ {k}
    BY DEF Active, Working, Handling
  <2>2. /\ IsFiniteSet(Token \ {k}) /\ Cardinality(Token \ {k}) = Cardinality(Token) - 1
        /\ Cardinality(Token) \in Nat
    BY FS_RemoveElement, FS_CardinalityType
  <2>3. Cardinality(A) <= Cardinality(Token \ {k}) /\ Cardinality(A) \in Nat
    BY <2>1, <2>2, FS_Subset, FS_CardinalityType
  <2>. QED  BY <2>2, <2>3, NumberAssumption DEF PermitAvailable, NumberAssumption
<1>. QED  BY <1>1, TypeCorrect, ExclusiveWithPermitsInTime, PTL

=============================================================================
