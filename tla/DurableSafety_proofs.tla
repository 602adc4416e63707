------------------------- MODULE DurableSafety_proofs -------------------------
(***************************************************************************)
(* Proofs about the rows of DurableExecution: the runs, the steps table,   *)
(* the group counters and the tasks, under every interleaving of replays,  *)
(* steps, client calls and faults, for every body and every bound.         *)
(*                                                                         *)
(* IInv is inductive by itself.  OrderInv is so when the handler's branch   *)
(* is the one the record selects (Determinate): a replay that goes by      *)
(* another value leaves rows that the record does not account for, as      *)
(* DurableBranch.cfg and DurableCapture.cfg show.                          *)
(***************************************************************************)
EXTENDS DurableExecution, TLAPS, FiniteSetTheorems, WellFoundedInduction

-----------------------------------------------------------------------------
(* The runs by themselves.                                                  *)

(* What the rows of the executions and runs tables have to do with each      *)
(* other: before the execution exists it has no run.                         *)
RunsInv ==
  /\ runs \in [Run -> RunStatus]
  /\ current = NoRun => \A n \in Run : runs[n] = "none"

(* A run with a dead child that is retried.                                  *)
Reopened(n) ==
  /\ runs'[n] = "running"
  /\ \E s \in MayDie : steps[n][s] = "dead" /\ steps'[n][s] = "scheduled"

(* What a step may do to the runs.                                          *)
RunsMove ==
  /\ RunsInv'
  /\ \A n \in Run : runs[n] = "cancelled" => runs'[n] = "cancelled" \/ Reopened(n)

LEMMA NoRunIsNoRun == NoRun \notin Run /\ 0 \in Run
  BY BoundAssumption DEF NoRun, Run, BoundAssumption

(* Steps that leave both tables alone.                                      *)
LEMMA RunsStay ==
  ASSUME RunsInv, UNCHANGED <<current, runs>>
  PROVE  RunsMove
  BY DEF RunsInv, RunsMove

(* complete_execution and fail_execution, on whichever run is current now.   *)
LEMMA SetRunMoves ==
  ASSUME RunsInv, NEW s \in {"completed", "failed"}, SetRun(s), UNCHANGED current
  PROVE  RunsMove
<1>1. runs' \in [Run -> RunStatus]
  BY DEF RunsInv, SetRun, RunStatus, Ended
<1>2. ASSUME NEW n \in Run, runs[n] = "cancelled" PROVE runs'[n] = "cancelled"
  BY <1>2 DEF RunsInv, SetRun
<1>3. current = NoRun => \A n \in Run : runs'[n] = "none"
  BY NoRunIsNoRun DEF RunsInv, SetRun
<1>. QED  BY <1>1, <1>2, <1>3 DEF RunsInv, RunsMove

(* reset_execution and do_restart_run only ever touch a run without row.     *)
LEMMA NewRunMoves ==
  ASSUME RunsInv, NEW n \in Run, NewRun(n)
  PROVE  RunsMove
<1>1. runs' \in [Run -> RunStatus]
  BY DEF RunsInv, NewRun, RunStatus, Going
<1>2. ASSUME NEW m \in Run, runs[m] = "cancelled" PROVE runs'[m] = "cancelled"
  BY <1>2 DEF RunsInv, NewRun
<1>3. current' # NoRun
  BY NoRunIsNoRun DEF NewRun
<1>. QED  BY <1>1, <1>2, <1>3 DEF RunsInv, RunsMove

LEMMA CreateMoves ==
  ASSUME RunsInv, NEW c \in Client, CreateExecution(c)
  PROVE  RunsMove
<1>1. CASE current = NoRun
  <2>1. current' = 0 /\ runs' = [runs EXCEPT ![0] = "scheduled"]
    BY <1>1 DEF CreateExecution
  <2>2. runs' \in [Run -> RunStatus]
    BY <2>1 DEF RunsInv, RunStatus, Going
  <2>3. \A n \in Run : runs[n] = "none"
    BY <1>1 DEF RunsInv
  <2>4. current' # NoRun
    BY <2>1, NoRunIsNoRun
  <2>. QED  BY <2>2, <2>3, <2>4 DEF RunsInv, RunsMove
<1>2. CASE current # NoRun
  BY <1>2, RunsStay DEF CreateExecution
<1>. QED  BY <1>1, <1>2

LEMMA CancelMoves ==
  ASSUME RunsInv, NEW c \in Client, CancelRun(c)
  PROVE  RunsMove
<1>1. runs' \in [Run -> RunStatus]
  BY DEF RunsInv, CancelRun, RunStatus, Ended
<1>2. ASSUME NEW n \in Run, runs[n] = "cancelled" PROVE runs'[n] = "cancelled"
  BY <1>2 DEF RunsInv, CancelRun
<1>3. current' # NoRun
  BY DEF CancelRun
<1>. QED  BY <1>1, <1>2, <1>3 DEF RunsInv, RunsMove

(* do_retry_dead_step opens a run that there is.                             *)
LEMMA RetryMoves ==
  ASSUME RunsInv, NEW n \in Run, NEW s \in MayDie, RetryDeadStep(n, s),
         runs[n] # "none", steps'[n][s] = "scheduled"
  PROVE  RunsMove
<1>1. runs' \in [Run -> RunStatus]
  BY DEF RunsInv, RetryDeadStep, RunStatus, Going
<1>2. ASSUME NEW m \in Run, runs[m] = "cancelled" PROVE runs'[m] = "cancelled" \/ Reopened(m)
  BY <1>2 DEF RunsInv, RetryDeadStep, Reopened
<1>3. current' # NoRun
  BY DEF RunsInv, RetryDeadStep
<1>. QED  BY <1>1, <1>2, <1>3 DEF RunsInv, RunsMove

-----------------------------------------------------------------------------
(* The parts of the inductive invariant.                                    *)

Exists(t) == tasks[t] # Absent
GroupRow == {Of(g) : g \in Groups}

(* Tasks belong to runs there are, and their names say to which.             *)
TaskOK(t) ==
  /\ tasks[t].status = "absent" => ~Exists(t)
  /\ Exists(t) => runs[tasks[t].run] # "none"
  /\ Exists(t) /\ t[1] # "delivered" => tasks[t].run = t[2]

(* So do the rows of steps, the execution, and what a call will schedule.    *)
RunsThere ==
  /\ current # NoRun => runs[current] # "none" /\ runs[0] # "none"
  /\ \A n \in Run : runs[n] = "none" => \A s \in Name : steps[n][s] = "none"
  /\ \A c \in Client : calls[c].phase = "scheduling" => runs[calls[c].run] # "none"

(* Attempts are used up by retries and by faults only: a row that can be     *)
(* picked up again has used no more than these, and so has one that is       *)
(* picked up but by the dispatch that holds it.                              *)
LeaseOK(t) ==
  LET used == MaxRetries + faults IN
  /\ tasks[t].attempt <= 1 + used
  /\ tasks[t].status = "scheduled" => tasks[t].attempt <= used
  /\ tasks[t].status = "picked_up" /\ tasks[t].attempt > used =>
       \E d \in dispatches : d.task = t /\ d.attempt = tasks[t].attempt

Retried(n, s) == s \in MayDie /\ Exists(RetryTask(n, s))

(* The row of a step and its tasks.  Captures and groups have no task, and a  *)
(* child that is retried has had its first one completed.                   *)
StepOK(n, s) ==
  LET status == tasks[StepTask(n, s)].status IN
  /\ Exists(StepTask(n, s)) =>
       steps[n][s] # "none" /\ ItemOf(s) \notin Captures /\ s \notin GroupRow
  /\ steps[n][s] \in {"scheduled", "dead"} /\ s \notin GroupRow => Exists(StepTask(n, s))
  /\ steps[n][s] \in Completed => s \notin GroupRow
  /\ steps[n][s] = "dead" => s \in MayDie
  /\ steps[n][s] = "dead" \/ Retried(n, s) => status = "completed"
  /\ Retried(n, s) => steps[n][s] = "scheduled"
  /\ steps[n][s] \in Completed /\ ItemOf(s) \notin Events => status \in {"absent", "completed"}
  /\ steps[n][s] = "err" => ItemOf(s) \in Fallible \cup ({Decider} \cap Captures)

(* A wait's counter.  A rerun may keep completed children without the row of *)
(* their group; that row then counts them as well.                           *)
Uncompleted(n, g) == {s \in Children(g) : steps[n][s] \notin Completed}
GroupOK(n, g) ==
  IF steps[n][Of(g)] = "none"
  THEN \A s \in Children(g) :
         steps[n][s] \notin {"scheduled", "dead"} /\ (g \notin Preservable => steps[n][s] = "none")
  ELSE /\ Cardinality(Uncompleted(n, g)) <= remaining[n][g]
       /\ g \notin Preservable => remaining[n][g] = Cardinality(Uncompleted(n, g))

(* Where a dispatch is.                                                      *)
AtChild(d) ==
  \E g \in Groups : d.at \in Children(g) /\ steps[RunOf(d)][Of(g)] # "none"
AtPlain(d) == \E i \in Item \ (Groups \cup Captures) : d.at = Of(i)

(* What a phase says of the step the dispatch is at.                         *)
PhaseOK(d) ==
  LET n == RunOf(d)
      i == ItemOf(Target(d))
  IN
  /\ d.phase = "capturing" => \E j \in Captures : d.at = Of(j)
  /\ d.phase = "grouping" => \E g \in Groups : d.at = Of(g)
  /\ d.phase = "visiting" => AtChild(d)
  /\ d.phase = "scheduling" =>
       /\ AtPlain(d) \/ (AtChild(d) /\ ~IsStepTask(d))
       /\ steps[n][d.at] = "none" \/ Exists(StepTask(n, d.at))
  /\ d.phase \in {"replaying", "capturing", "grouping", "visiting"} => ~IsStepTask(d)
  /\ d.phase \in {"running", "retrying", "stepping"} => IsStepTask(d)
  /\ d.phase \in {"running", "retrying"} => i \notin Events
  /\ d.phase = "retrying" => d.attempt <= MaxRetries
  /\ d.phase = "stepping" /\ i \in Events => d.result = "ok" /\ steps[n][Target(d)] = "ok"
  /\ d.phase = "stepping" /\ d.result = "err" => i \in Fallible
  /\ d.phase = "stepping" /\ d.result = "dead" => Target(d) \in MayDie

DispatchOK(d) == Exists(d.task) /\ PhaseOK(d)

IInv ==
  /\ TypeOK
  /\ RunsInv
  /\ RunsThere
  /\ \A t \in TaskId : TaskOK(t) /\ LeaseOK(t)
  /\ \A n \in Run, s \in Name : StepOK(n, s)
  /\ \A n \in Run, g \in Groups : GroupOK(n, g)
  /\ \A d \in dispatches : DispatchOK(d)

(* Bodies whose branch every replay sees as it is recorded.                  *)
Determinate == Decider \notin Lookalikes \cup Captures

(* The handler of run n is at item i or beyond it.                           *)
Behind(n, j) == Chosen(Decision(n), j) => Passed(n, j) /\ ~GivesUp(n, j)
Came(n, i) == i \in Item /\ Chosen(Decision(n), i) /\ \A j \in 1..(i - 1) : Behind(n, j)

StepPhases == {"fetched", "running", "retrying", "stepping", "failing", "marking"}

(* What a dispatch is at it has come to, and a step's own replay comes to    *)
(* nothing else.                                                             *)
OrderOK(d) ==
  /\ d.own = "null"
  /\ d.phase \in {"scheduling", "grouping", "visiting", "capturing"} =>
       Came(RunOf(d), ItemOf(d.at))
  /\ d.phase = "finishing" => \A j \in Item : Behind(RunOf(d), j)
  /\ IsStepTask(d) => d.phase \in StepPhases \/ (d.phase = "concluding" /\ CanRecover)

OrderInv ==
  /\ \A n \in Run, s \in Name : Exists(StepTask(n, s)) => Came(n, ItemOf(s))
  /\ \A n \in Run, g \in Groups : steps[n][Of(g)] # "none" => Came(n, g)
  /\ \A n \in Run, s \in Name :
       steps[n][s] = "scheduled" /\ tasks[TaskOf(n, s)].status = "completed" => CanRecover
  /\ \A d \in dispatches : OrderOK(d)

-----------------------------------------------------------------------------
(* Names, task ids and records.                                             *)

(* A set of items has a first one.                                          *)
LEMMA FirstItem ==
  ASSUME NEW I \in SUBSET Item, I # {}
  PROVE  First(I) \in I /\ \A j \in I : First(I) <= j
<1>. DEFINE R == OpToRel(<, Nat)
<1>1. IsWellFoundedOn(R, Nat)
  BY NatLessThanWellFounded, Zenon
<1>2. I \subseteq Nat
  BY BodyAssumption DEF Item, BodyAssumption
<1>. HIDE DEF R
<1>3. PICK i \in I : \A j \in I : ~(<<j, i>> \in R)
  BY <1>1, <1>2, WFMin
<1>4. \A j \in I : j < i => <<j, i>> \in R
  BY <1>2 DEF R, OpToRel
<1>5. \A j \in I : i <= j
  <2>1. \A j \in I : i \in Nat /\ j \in Nat
    BY <1>2
  <2>2. \A j \in I : ~(j < i)
    BY <1>3, <1>4
  <2>. QED  BY <2>1, <2>2
<1>. QED  BY <1>5 DEF First

LEMMA Kinds ==
  /\ Item \subseteq Nat \ {0} /\ Length \in Nat /\ Fanout \in Nat \ {0}
  /\ Steps \subseteq Item /\ Sleeps \subseteq Item /\ Events \subseteq Item
  /\ Groups \subseteq Item /\ Captures \subseteq Item
  /\ Steps \cap Sleeps = {} /\ Steps \cap Events = {} /\ Steps \cap Groups = {}
  /\ Steps \cap Captures = {} /\ Sleeps \cap Events = {} /\ Sleeps \cap Groups = {}
  /\ Sleeps \cap Captures = {} /\ Events \cap Groups = {} /\ Events \cap Captures = {}
  /\ Groups \cap Captures = {}
  /\ Fallible \subseteq Steps \cup Groups /\ MayDie \subseteq Groups \X (1..Fanout)
<1>1. /\ Item \subseteq Nat \ {0} /\ Length \in Nat /\ Fanout \in Nat \ {0}
      /\ Fallible \subseteq Steps \cup Groups /\ MayDie \subseteq Groups \X (1..Fanout)
  BY BodyAssumption DEF Item, BodyAssumption
<1>2. /\ Steps \subseteq Item /\ Sleeps \subseteq Item /\ Events \subseteq Item
      /\ Groups \subseteq Item /\ Captures \subseteq Item
  <2>1. \A K \in {Steps, Sleeps, Events, Groups, Captures} : K \subseteq Item
    BY BodyAssumption, Zenon DEF BodyAssumption
  <2>. QED  BY <2>1
<1>. DEFINE kinds == <<Steps, Sleeps, Events, Groups, Captures>>
<1>4. \A j, k \in 1..5 : j # k => kinds[j] \cap kinds[k] = {}
  BY BodyAssumption DEF BodyAssumption
<1>5. /\ kinds[1] \cap kinds[2] = {} /\ kinds[1] \cap kinds[3] = {} /\ kinds[1] \cap kinds[4] = {}
      /\ kinds[1] \cap kinds[5] = {} /\ kinds[2] \cap kinds[3] = {} /\ kinds[2] \cap kinds[4] = {}
      /\ kinds[2] \cap kinds[5] = {} /\ kinds[3] \cap kinds[4] = {} /\ kinds[3] \cap kinds[5] = {}
      /\ kinds[4] \cap kinds[5] = {}
  <2>. HIDE DEF kinds
  <2>. QED  BY <1>4
<1>. QED  BY <1>1, <1>2, <1>5

LEMMA Names ==
  /\ \A i \in Item : Of(i) \in Name /\ ItemOf(Of(i)) = i /\ ~IsChild(Of(i))
  /\ \A g \in Groups : \A s \in Children(g) : s \in Name /\ ItemOf(s) = g /\ IsChild(s)
  /\ \A g \in Groups, c \in 1..Fanout : <<g, c>> \in Children(g)
  /\ \A s \in Name : \/ \E i \in Item : s = Of(i)
                     \/ \E g \in Groups : s \in Children(g)
  /\ \A s \in Name : ItemOf(s) \in Item
  /\ GroupRow \subseteq Name
  /\ \A s \in MayDie : /\ ItemOf(s) \in Groups /\ s \in Children(ItemOf(s)) /\ s \in Name
                       /\ IsChild(s) /\ s \notin GroupRow
<1>1. ASSUME NEW s \in MayDie
      PROVE  /\ ItemOf(s) \in Groups /\ s \in Children(ItemOf(s)) /\ s \in Name
             /\ IsChild(s) /\ s \notin GroupRow
  <2>1. s \in Groups \X (1..Fanout)
    BY Kinds
  <2>. PICK g \in Groups, c \in 1..Fanout : s = <<g, c>>
    BY <2>1
  <2>2. ItemOf(s) = g /\ s \in Children(g) /\ c # 0
    BY <2>1, Kinds DEF ItemOf, Children
  <2>3. IsChild(s) /\ s \notin GroupRow
    BY <2>1, <2>2 DEF IsChild, GroupRow, Of
  <2>. QED  BY <2>2, <2>3 DEF Name
<1>. QED  BY <1>1, Kinds DEF Name, Of, Children, ItemOf, IsChild, GroupRow

LEMMA Ids ==
  /\ \A n \in Run : StartTask(n) \in TaskId /\ StartTask(n)[1] = "start" /\ StartTask(n)[2] = n
  /\ \A n \in Run, s \in Name :
       /\ StepTask(n, s) \in TaskId /\ StepTask(n, s)[1] = "step"
       /\ StepTask(n, s)[2] = n /\ StepTask(n, s)[3] = s
  /\ \A n \in Run, s \in MayDie :
       /\ RetryTask(n, s) \in TaskId /\ RetryTask(n, s)[1] = "retry"
       /\ RetryTask(n, s)[2] = n /\ RetryTask(n, s)[3] = s
  /\ \A n \in Run, i \in Item :
       AfterTask(n, i) \in TaskId /\ AfterTask(n, i)[1] = "after" /\ AfterTask(n, i)[2] = n
  /\ \A i \in Events : DeliveredTask(i) \in TaskId /\ DeliveredTask(i)[1] = "delivered"
  /\ \A t \in TaskId : t[1] = "step" => t[2] \in Run /\ t[3] \in Name /\ t = StepTask(t[2], t[3])
  /\ \A t \in TaskId : t[1] = "retry" => t[2] \in Run /\ t[3] \in MayDie /\ t = RetryTask(t[2], t[3])
  /\ \A t \in TaskId : t[3] \in Name \cup {Of(0)}
<1>1. \A i \in Item : Of(i) \in Name
  BY Names
<1>2. Events \subseteq Item /\ MayDie \subseteq Name
  BY Kinds, Names
<1>. HIDE DEF Name, Item
<1>. QED  BY <1>1, <1>2 DEF TaskId, StartTask, StepTask, RetryTask, AfterTask, DeliveredTask

Phases == {"fetched", "replaying", "capturing", "scheduling", "grouping",
           "visiting", "running", "retrying", "stepping", "finishing", "failing",
           "concluding", "marking"}

LEMMA Bounds ==
  /\ MaxRetries \in Nat /\ MaxRun \in Nat /\ MaxCancels \in Nat /\ MaxFaults \in Nat
  /\ MaxAttempt \in Nat /\ MaxAttempt = 1 + MaxRetries + MaxFaults
  /\ 0 \in Run /\ NoRun \notin Run /\ Run \subseteq Nat
BY BoundAssumption DEF BoundAssumption, MaxAttempt, Run, NoRun

LEMMA Rows ==
  /\ Absent \in Row /\ Absent.status = "absent" /\ Absent.attempt = 0
  /\ \A n \in Run : /\ NewRow(n) \in Row /\ NewRow(n).status = "scheduled"
                    /\ NewRow(n).attempt = 0 /\ NewRow(n).run = n
                    /\ NewRow(n) # Absent
<1>1. 0 \in Run /\ 0 \in 0..MaxAttempt
  BY Bounds
<1>. QED  BY <1>1 DEF Absent, NewRow, Row, Ended

LEMMA Insertion ==
  ASSUME NEW rows \in [TaskId -> Row], NEW t \in TaskId, NEW n \in Run
  PROVE  /\ Inserted(rows, t, n) \in [TaskId -> Row]
         /\ \A u \in TaskId :
              Inserted(rows, t, n)[u] = IF u = t /\ rows[t] = Absent THEN NewRow(n) ELSE rows[u]
BY Rows DEF Inserted

LEMMA Dispatches ==
  ASSUME NEW d \in Dispatch
  PROVE  /\ d.task \in TaskId /\ d.attempt \in 1..MaxAttempt /\ d.phase \in Phases
         /\ d.at \in Name \cup {Of(0)} /\ Target(d) \in Name \cup {Of(0)}
         /\ d.result \in {"null", "ok", "err", "dead"}
         /\ IsStepTask(d) =>
              /\ Target(d) \in Name /\ d.task[2] \in Run
              /\ \/ d.task = StepTask(d.task[2], Target(d))
                 \/ d.task = RetryTask(d.task[2], Target(d)) /\ Target(d) \in MayDie
BY Ids, Names DEF IsRetry, Dispatch, Phases, Target, IsStepTask

(* The next phase of a dispatch, with what it was at forgotten.              *)
LEMMA Thens ==
  ASSUME NEW d \in Dispatch, NEW p \in Phases
  PROVE  /\ Then(d, p) \in Dispatch
         /\ Then(d, p).task = d.task /\ Then(d, p).attempt = d.attempt
         /\ Then(d, p).phase = p /\ Then(d, p).at = Target(d)
         /\ Then(d, p).result = "null" /\ Then(d, p).own = d.own
<1>1. Target(d) \in Name \cup {Of(0)}
  BY Dispatches
<1>. HIDE DEF Name, TaskId
<1>. QED  BY <1>1 DEF Then, Dispatch, Phases

-----------------------------------------------------------------------------
(* What every step does to the rows: runs and tasks stay, and in a run there *)
(* is rows only move forward; a row that comes into being has a task, unless *)
(* it is a capture's or a group's.                                          *)

RowGrows(n, s) ==
  /\ steps[n][s] # "none" => steps'[n][s] # "none"
  /\ steps[n][s] \in Completed => steps'[n][s] = steps[n][s]
  /\ steps[n][s] = "none" /\ steps'[n][s] # "none" /\ ItemOf(s) \notin Captures /\ s \notin GroupRow
       => Exists(StepTask(n, s))'

Grow ==
  /\ \A n \in Run : runs[n] # "none" => runs'[n] # "none"
  /\ \A t \in TaskId : Exists(t) => Exists(t)' /\ tasks'[t].run = tasks[t].run
  /\ \A n \in Run, s \in Name : runs[n] # "none" => RowGrows(n, s)

LEMMA RunOfDispatch ==
  ASSUME IInv, NEW d \in dispatches
  PROVE  /\ d \in Dispatch /\ d.task \in TaskId
         /\ RunOf(d) \in Run /\ runs[RunOf(d)] # "none"
         /\ IsStepTask(d) =>
              /\ Target(d) \in Name /\ Exists(StepTask(RunOf(d), Target(d)))
              /\ \/ d.task = StepTask(RunOf(d), Target(d))
                 \/ IsRetry(d.task) /\ Target(d) \in MayDie /\ d.task = RetryTask(RunOf(d), Target(d))
<1>1. d \in Dispatch /\ d.task \in TaskId
  BY Dispatches DEF IInv, TypeOK
<1>2. tasks[d.task] \in Row /\ Exists(d.task) /\ TaskOK(d.task)
  BY <1>1 DEF IInv, TypeOK, DispatchOK
<1>3. RunOf(d) \in Run /\ runs[RunOf(d)] # "none"
  BY <1>2 DEF RunOf, Row, TaskOK
<1>4. ASSUME IsStepTask(d)
      PROVE  /\ Target(d) \in Name /\ Exists(StepTask(RunOf(d), Target(d)))
             /\ \/ d.task = StepTask(RunOf(d), Target(d))
                \/ IsRetry(d.task) /\ Target(d) \in MayDie /\ d.task = RetryTask(RunOf(d), Target(d))
  <2>1. Target(d) \in Name /\ d.task[2] = RunOf(d)
    BY <1>1, <1>2, <1>4, Dispatches DEF RunOf, TaskOK, IsStepTask, IsRetry
  <2>2. CASE d.task = StepTask(RunOf(d), Target(d))
    BY <1>2, <2>1, <2>2
  <2>3. CASE d.task = RetryTask(RunOf(d), Target(d)) /\ Target(d) \in MayDie
    <3>1. IsRetry(d.task) /\ Retried(RunOf(d), Target(d)) /\ StepOK(RunOf(d), Target(d))
      BY <1>2, <1>3, <2>1, <2>3 DEF Retried, IsRetry, RetryTask, IInv
    <3>2. Exists(StepTask(RunOf(d), Target(d)))
      BY <2>3, <3>1, Names DEF StepOK
    <3>. QED  BY <2>1, <2>3, <3>1, <3>2
  <2>. QED  BY <1>1, <1>4, <2>1, <2>2, <2>3, Dispatches
<1>. QED  BY <1>1, <1>3, <1>4

(* Where a dispatch is stays true as the rows grow.                          *)
LEMMA PhaseStays ==
  ASSUME IInv, Grow, NEW d \in Dispatch, Exists(d.task), PhaseOK(d),
         RunOf(d) \in Run, runs[RunOf(d)] # "none"
  PROVE  Exists(d.task)' /\ PhaseOK(d)'
<1>0. PICK n \in Run : n = RunOf(d) /\ runs[n] # "none"
  OBVIOUS
<1>1. Exists(d.task)' /\ RunOf(d)' = n
  BY <1>0, Dispatches DEF Grow, RunOf
<1>2. ASSUME AtChild(d) PROVE AtChild(d)'
  <2>1. PICK g \in Groups : d.at \in Children(g) /\ steps[n][Of(g)] # "none"
    BY <1>0, <1>2 DEF AtChild
  <2>2. Of(g) \in Name
    BY Kinds, Names
  <2>3. steps'[n][Of(g)] # "none"
    BY <1>0, <2>1, <2>2 DEF Grow, RowGrows
  <2>. QED  BY <1>1, <2>1, <2>3 DEF AtChild
<1>3. ASSUME d.phase = "scheduling"
      PROVE  steps'[n][d.at] = "none" \/ Exists(StepTask(n, d.at))'
  <2>1. AtPlain(d) \/ AtChild(d)
    BY <1>0, <1>3 DEF PhaseOK
  <2>2. d.at \in Name /\ ItemOf(d.at) \notin Captures /\ d.at \notin GroupRow
    <3>1. CASE AtPlain(d)
      BY <3>1, Names, Kinds DEF AtPlain, GroupRow, Of
    <3>2. CASE AtChild(d)
      BY <3>2, Names, Kinds DEF AtChild, GroupRow, IsChild
    <3>. QED  BY <2>1, <3>1, <3>2
  <2>3. steps[n][d.at] = "none" \/ Exists(StepTask(n, d.at))
    BY <1>0, <1>3 DEF PhaseOK
  <2>4. StepTask(n, d.at) \in TaskId
    BY <2>2, Ids
  <2>. QED  BY <1>0, <2>2, <2>3, <2>4 DEF Grow, RowGrows
<1>4. ASSUME d.phase = "stepping", ItemOf(Target(d)) \in Events
      PROVE  d.result = "ok" /\ steps'[n][Target(d)] = "ok"
  <2>1. IsStepTask(d) /\ d.result = "ok" /\ steps[n][Target(d)] = "ok"
    BY <1>0, <1>4 DEF PhaseOK
  <2>2. Target(d) \in Name
    BY <2>1, Dispatches
  <2>. QED  BY <1>0, <2>1, <2>2 DEF Grow, RowGrows, Completed
<1>. QED  BY <1>0, <1>1, <1>2, <1>3, <1>4 DEF PhaseOK, AtPlain, IsStepTask, Target

LEMMA DispatchStays ==
  ASSUME IInv, Grow, NEW d \in dispatches
  PROVE  DispatchOK(d)'
BY RunOfDispatch, PhaseStays DEF IInv, DispatchOK

(* A dispatch that moves on.                                                 *)
LEMMA DispatchesMove ==
  ASSUME IInv, Grow, NEW d \in dispatches, NEW e \in Dispatch,
         Become(d, e), e.task = d.task, PhaseOK(e)'
  PROVE  /\ dispatches' \subseteq Dispatch
         /\ \A x \in dispatches' : DispatchOK(x)'
<1>1. dispatches \subseteq Dispatch
  BY DEF IInv, TypeOK
<1>2. DispatchOK(e)'
  BY DispatchStays DEF DispatchOK
<1>. QED  BY <1>1, <1>2, DispatchStays DEF Become

LEMMA DispatchesGo ==
  ASSUME IInv, Grow, NEW d \in dispatches, Gone(d)
  PROVE  /\ dispatches' \subseteq Dispatch
         /\ \A x \in dispatches' : DispatchOK(x)'
BY DispatchStays DEF Gone, IInv, TypeOK

LEMMA DispatchesKept ==
  ASSUME IInv, Grow, UNCHANGED dispatches
  PROVE  /\ dispatches' \subseteq Dispatch
         /\ \A x \in dispatches' : DispatchOK(x)'
BY DispatchStays DEF IInv, TypeOK

-----------------------------------------------------------------------------
(* Steps of a dispatch that change no row but, perhaps, the run's.           *)

Step == IInv' /\ Grow

FaultCounted == faults' = faults \/ (faults' = faults + 1 /\ faults < MaxFaults)

LEMMA FaultsCounted ==
  ASSUME IInv, FaultCounted
  PROVE  faults' \in 0..MaxFaults /\ faults' \in Nat /\ faults \in Nat /\ faults <= faults'
BY Bounds DEF IInv, TypeOK, FaultCounted

(* A lease whose row and holder stay.                                        *)
LEMMA LeaseStays ==
  ASSUME IInv, FaultCounted, NEW t \in TaskId,
         tasks'[t].status = tasks[t].status, tasks'[t].attempt = tasks[t].attempt,
         \A d \in dispatches : d.task = t /\ HoldsLock(d) =>
           \E e \in dispatches' : e.task = t /\ e.attempt = tasks[t].attempt
  PROVE  LeaseOK(t)'
<1>1. tasks[t].attempt \in Nat /\ LeaseOK(t)
  BY Bounds DEF IInv, TypeOK, Row
<1>. QED  BY <1>1, FaultsCounted, Bounds DEF LeaseOK, HoldsLock

LEMMA HolderMoves ==
  ASSUME NEW d \in dispatches, NEW e, Become(d, e), e.task = d.task, e.attempt = d.attempt
  PROVE  \A t, a : (\E x \in dispatches : x.task = t /\ x.attempt = a) =>
                     \E x \in dispatches' : x.task = t /\ x.attempt = a
BY DEF Become

(* The runs change as complete_execution and fail_execution change them.     *)
RunsKeepOn ==
  /\ RunsMove
  /\ \A n \in Run : runs'[n] # "none" <=> runs[n] # "none"

LEMMA DispatchMoves ==
  ASSUME IInv, NEW d \in dispatches, NEW e \in Dispatch,
         Become(d, e), e.task = d.task, e.attempt = d.attempt, PhaseOK(e),
         UNCHANGED <<current, steps, remaining, tasks, calls, cancels>>,
         RunsKeepOn, FaultCounted
  PROVE  Step
<1>1. Grow
  BY DEF Grow, RowGrows, RunsKeepOn, Exists
<1>2. PhaseOK(e)'
  BY DEF PhaseOK, AtChild, AtPlain, RunOf, Exists, IsStepTask, Target
<1>3. dispatches' \subseteq Dispatch /\ \A x \in dispatches' : DispatchOK(x)'
  BY <1>1, <1>2, DispatchesMove
<1>4. TypeOK'
  BY <1>3, FaultsCounted DEF IInv, TypeOK, RunsKeepOn, RunsMove, RunsInv, RunStatus
<1>5. RunsInv' /\ RunsThere'
  <2>1. \A c \in Client : calls[c].run \in Run
    BY DEF IInv, TypeOK, Call
  <2>2. current # NoRun => current \in Run
    BY DEF IInv, TypeOK
  <2>. QED  BY <2>1, <2>2, Bounds DEF IInv, RunsThere, RunsKeepOn, RunsMove
<1>6. ASSUME NEW t \in TaskId PROVE TaskOK(t)' /\ LeaseOK(t)'
  <2>1. TaskOK(t)'
    <3>1. TaskOK(t) /\ tasks[t].run \in Run
      BY DEF IInv, TypeOK, Row
    <3>. QED  BY <3>1 DEF TaskOK, Exists, RunsKeepOn
  <2>2. LeaseOK(t)'
    BY HolderMoves, LeaseStays DEF HoldsLock
  <2>. QED  BY <2>1, <2>2
<1>7. \A n \in Run, s \in Name : StepOK(n, s)'
  BY DEF IInv, StepOK, Retried, Exists
<1>8. \A n \in Run, g \in Groups : GroupOK(n, g)'
  BY DEF IInv, GroupOK, Uncompleted
<1>. QED  BY <1>1, <1>3, <1>4, <1>5, <1>6, <1>7, <1>8 DEF Step, IInv

LEMMA RunsKept ==
  ASSUME IInv, UNCHANGED <<current, runs>>
  PROVE  RunsKeepOn
BY RunsStay DEF IInv, RunsKeepOn

LEMMA RunsSet ==
  ASSUME IInv, NEW s \in {"completed", "failed"}, SetRun(s), UNCHANGED current
  PROVE  RunsKeepOn
<1>1. RunsMove
  BY SetRunMoves DEF IInv
<1>2. ASSUME NEW n \in Run PROVE runs'[n] # "none" <=> runs[n] # "none"
  <2>1. CASE n = current
    <3>1. runs[n] # "none"
      BY <2>1, Bounds DEF IInv, RunsThere
    <3>2. runs'[n] # "none"
      BY <2>1, <3>1 DEF SetRun, IInv, TypeOK
    <3>. QED  BY <3>1, <3>2
  <2>2. CASE n # current
    BY <2>2 DEF SetRun, IInv, TypeOK
  <2>. QED  BY <2>1, <2>2
<1>. QED  BY <1>1, <1>2 DEF RunsKeepOn

(* Phases that say nothing of a step.                                        *)
LEMMA PhaseFree ==
  ASSUME NEW d \in Dispatch, NEW p \in {"failing", "finishing", "concluding", "marking"}
  PROVE  PhaseOK(Then(d, p)) /\ p \in Phases
<1>1. p \in Phases
  BY DEF Phases
<1>2. Then(d, p).phase = p
  BY <1>1, Thens
<1>. QED  BY <1>1, <1>2 DEF PhaseOK

LEMMA MovesOn ==
  ASSUME IInv, NEW d \in dispatches, NEW p \in {"failing", "finishing", "concluding", "marking"},
         To(d, p), UNCHANGED <<current, steps, remaining, tasks, calls, cancels>>,
         RunsKeepOn, FaultCounted
  PROVE  Step
<1>. DEFINE e == Then(d, p)
<1>1. d \in Dispatch
  BY RunOfDispatch
<1>2. e \in Dispatch /\ e.task = d.task /\ e.attempt = d.attempt /\ PhaseOK(e)
  BY <1>1, Thens, PhaseFree
<1>3. Become(d, e)
  BY DEF To
<1>. HIDE DEF e
<1>. QED  BY <1>2, <1>3, DispatchMoves

LEMMA DeadlinePassedStep ==
  ASSUME IInv, NEW d \in dispatches, DeadlinePassed(d)
  PROVE  Step
BY RunsKept, MovesOn DEF DeadlinePassed, execution, counts, FaultCounted

LEMMA CompletionRefusedStep ==
  ASSUME IInv, NEW d \in dispatches, CompletionRefused(d)
  PROVE  Step
BY RunsKept, MovesOn DEF CompletionRefused, execution, counts, FaultCounted

LEMMA FinishRunStep ==
  ASSUME IInv, NEW d \in dispatches, FinishRun(d)
  PROVE  Step
BY RunsSet, MovesOn DEF FinishRun, counts, FaultCounted

LEMMA OnFailureRecoversStep ==
  ASSUME IInv, NEW d \in dispatches, OnFailureRecovers(d)
  PROVE  Step
BY RunsSet, MovesOn DEF OnFailureRecovers, counts, FaultCounted

LEMMA FailRunStep ==
  ASSUME IInv, NEW d \in dispatches, FailRun(d)
  PROVE  Step
BY RunsSet, MovesOn DEF FailRun, counts, FaultCounted

LEMMA OpenItems ==
  ASSUME NEW d
  PROVE  Open(d) \in SUBSET Item /\ StopsStep(d) \in SUBSET Item
BY DEF Open, StopsStep, Reached

(* A replay of the body that stops at item i.                                *)
LEMMA BodyStops ==
  ASSUME NEW d \in Dispatch, ~IsStepTask(d), NEW i \in Item,
         i \in Groups \/ steps[RunOf(d)][Of(i)] = "none",
         NEW e, e = [d EXCEPT !.at = Of(i), !.phase = BodyBehavior(i)]
  PROVE  e \in Dispatch /\ e.task = d.task /\ e.attempt = d.attempt /\ PhaseOK(e)
<1>1. BodyBehavior(i) \in {"grouping", "capturing", "scheduling"}
  BY DEF BodyBehavior
<1>2. /\ e \in Dispatch /\ e.task = d.task /\ e.attempt = d.attempt
      /\ e.at = Of(i) /\ e.phase = BodyBehavior(i)
  <2>1. Of(i) \in Name
    BY Names
  <2>. HIDE DEF Name, TaskId
  <2>. QED  BY <1>1, <2>1 DEF Dispatch
<1>3. ~IsStepTask(e) /\ RunOf(e) = RunOf(d)
  BY <1>2 DEF IsStepTask, RunOf
<1>4. CASE i \in Groups
  BY <1>1, <1>2, <1>3, <1>4 DEF PhaseOK, BodyBehavior
<1>5. CASE i \in Captures
  <2>1. i \notin Groups
    BY <1>5, Kinds
  <2>. QED  BY <1>1, <1>2, <1>3, <1>5, <2>1 DEF PhaseOK, BodyBehavior
<1>6. CASE i \notin Groups \cup Captures
  <2>1. e.phase = "scheduling" /\ AtPlain(e)
    BY <1>2, <1>6 DEF BodyBehavior, AtPlain
  <2>. QED  BY <1>2, <1>3, <1>6, <2>1 DEF PhaseOK
<1>. QED  BY <1>2, <1>4, <1>5, <1>6

LEMMA ReplayBodyStep ==
  ASSUME IInv, NEW d \in dispatches, ReplayBody(d)
  PROVE  Step
<1>. DEFINE n == RunOf(d)
            i == First(Open(d))
            e == [d EXCEPT !.at = Of(i), !.phase = BodyBehavior(i)]
<1>1. /\ RunsKeepOn /\ FaultCounted
      /\ UNCHANGED <<current, steps, remaining, tasks, calls, cancels>>
  BY RunsKept DEF ReplayBody, execution, counts, FaultCounted
<1>2. CASE To(d, "finishing") \/ To(d, "failing") \/ To(d, "concluding")
  BY <1>1, <1>2, MovesOn
<1>3. CASE ~(To(d, "finishing") \/ To(d, "failing") \/ To(d, "concluding"))
  <2>1. /\ Open(d) # {} /\ ~IsStepTask(d) /\ Become(d, e)
        /\ i \in Groups \/ steps[n][Of(i)] = "none"
    BY <1>3 DEF ReplayBody
  <2>2. i \in Item
    BY <2>1, OpenItems, FirstItem
  <2>3. d \in Dispatch
    BY RunOfDispatch
  <2>. HIDE DEF i
  <2>4. e \in Dispatch /\ e.task = d.task /\ e.attempt = d.attempt /\ PhaseOK(e)
    BY <2>1, <2>2, <2>3, BodyStops
  <2>. HIDE DEF e
  <2>. QED  BY <1>1, <2>1, <2>4, DispatchMoves
<1>. QED  BY <1>2, <1>3

(* An event is at its own item, and no error is recorded for it.             *)
LEMMA EventNames ==
  ASSUME NEW s \in Name, ItemOf(s) \in Events
  PROVE  s = Of(ItemOf(s)) /\ ItemOf(s) \notin Fallible /\ ItemOf(s) \notin Captures
<1>1. ItemOf(s) \notin Groups
  BY Kinds
<1>. QED  BY <1>1, Names, Kinds

(* The target of a step's own replay.                                       *)
LEMMA StepBehaves ==
  ASSUME IInv, NEW d \in dispatches, IsStepTask(d),
         NEW e, e = StepBehavior(d, ItemOf(Target(d)))
  PROVE  e \in Dispatch /\ e.task = d.task /\ e.attempt = d.attempt /\ PhaseOK(e)
<1>. DEFINE i == ItemOf(Target(d))
            n == RunOf(d)
<1>1. d \in Dispatch /\ Target(d) \in Name /\ n \in Run
  BY RunOfDispatch
<1>2. CASE i \in Steps \cup Groups
  <2>1. e = Then(d, "running") /\ "running" \in Phases
    BY <1>2 DEF StepBehavior, Phases
  <2>2. /\ e \in Dispatch /\ e.task = d.task /\ e.attempt = d.attempt
        /\ e.phase = "running"
    BY <1>1, <2>1, Thens
  <2>3. IsStepTask(e) /\ Target(e) = Target(d)
    BY <2>2 DEF IsStepTask, Target
  <2>4. i \notin Events
    BY <1>2, Kinds
  <2>. QED  BY <2>2, <2>3, <2>4 DEF PhaseOK
<1>3. CASE i \in Events /\ ~Passed(n, i)
  <2>1. i \notin Steps \cup Groups
    BY <1>3, Kinds
  <2>2. e = Then(d, "failing") /\ "failing" \in Phases
    BY <1>3, <2>1 DEF StepBehavior, Phases
  <2>3. /\ Then(d, "failing") \in Dispatch /\ Then(d, "failing").task = d.task
        /\ Then(d, "failing").attempt = d.attempt
    BY <1>1, <2>2, Thens
  <2>4. PhaseOK(Then(d, "failing"))
    BY <1>1, PhaseFree
  <2>. QED  BY <2>2, <2>3, <2>4
<1>4. CASE i \notin Steps \cup Groups /\ ~(i \in Events /\ ~Passed(n, i))
  <2>1. e = [d EXCEPT !.result = "ok", !.phase = "stepping"]
    BY <1>4 DEF StepBehavior
  <2>2. /\ e \in Dispatch /\ e.task = d.task /\ e.attempt = d.attempt
        /\ e.phase = "stepping" /\ e.result = "ok"
    <3>. HIDE DEF Name, TaskId
    <3>. QED  BY <1>1, <2>1 DEF Dispatch
  <2>3. IsStepTask(e) /\ Target(e) = Target(d) /\ RunOf(e) = n
    BY <2>2 DEF IsStepTask, Target, RunOf
  <2>4. ASSUME i \in Events PROVE steps[n][Target(d)] = "ok"
    <3>1. Target(d) = Of(i) /\ i \notin Fallible /\ i \notin Captures /\ i \notin Groups
      BY <1>1, <2>4, EventNames, Kinds
    <3>2. steps[n][Of(i)] \in Completed
      BY <1>4, <2>4, <3>1 DEF Passed
    <3>3. StepOK(n, Target(d))
      BY <1>1 DEF IInv
    <3>. QED  BY <3>1, <3>2, <3>3 DEF StepOK, Completed
  <2>. QED  BY <2>2, <2>3, <2>4 DEF PhaseOK
<1>. QED  BY <1>2, <1>3, <1>4

LEMMA ReplayStepStep ==
  ASSUME IInv, NEW d \in dispatches, ReplayStep(d)
  PROVE  Step
<1>. DEFINE n == RunOf(d)
            i == First(StopsStep(d))
            e == [d EXCEPT !.at = Of(i), !.phase = "scheduling"]
<1>1. /\ RunsKeepOn /\ FaultCounted
      /\ UNCHANGED <<current, steps, remaining, tasks, calls, cancels>>
  BY RunsKept DEF ReplayStep, execution, counts, FaultCounted
<1>2. d \in Dispatch /\ IsStepTask(d) /\ n \in Run
  BY RunOfDispatch DEF ReplayStep
<1>3. CASE To(d, "finishing") \/ To(d, "failing") \/ To(d, "concluding")
  BY <1>1, <1>3, MovesOn
<1>4. CASE Become(d, StepBehavior(d, ItemOf(Target(d))))
  BY <1>1, <1>2, <1>4, StepBehaves, DispatchMoves
<1>5. CASE /\ ~(To(d, "finishing") \/ To(d, "failing") \/ To(d, "concluding"))
           /\ ~Become(d, StepBehavior(d, ItemOf(Target(d))))
  <2>1. /\ StopsStep(d) # {} /\ i # ItemOf(Target(d)) /\ ~Unreplayable(n, i)
        /\ steps[n][Of(i)] = "none" /\ Become(d, e)
    BY <1>5 DEF ReplayStep
  <2>2. i \in StopsStep(d) /\ i \in Item
    BY <2>1, OpenItems, FirstItem
  <2>. HIDE DEF i
  <2>3. i \in Steps
    BY <2>1, <2>2 DEF StopsStep
  <2>4. /\ e \in Dispatch /\ e.task = d.task /\ e.attempt = d.attempt
        /\ e.at = Of(i) /\ e.phase = "scheduling"
    <3>1. Of(i) \in Name
      BY <2>2, Names
    <3>. HIDE DEF Name, TaskId
    <3>. QED  BY <1>2, <3>1 DEF Dispatch
  <2>. HIDE DEF e
  <2>5. AtPlain(e) /\ RunOf(e) = n
    BY <2>2, <2>3, <2>4, Kinds DEF AtPlain, RunOf
  <2>6. PhaseOK(e)
    BY <2>1, <2>4, <2>5 DEF PhaseOK
  <2>. QED  BY <1>1, <2>1, <2>4, <2>6, DispatchMoves
<1>. QED  BY <1>3, <1>4, <1>5

(* The next child of a wait, or its end.                                     *)
LEMMA VisitedOK ==
  ASSUME NEW d \in Dispatch, AtChild(d), ~IsStepTask(d), NEW done \in BOOLEAN,
         NEW e, e = Visited(d, done)
  PROVE  e \in Dispatch /\ e.task = d.task /\ e.attempt = d.attempt /\ PhaseOK(e)
<1>1. PICK g \in Groups, c \in 1..Fanout :
        d.at = <<g, c>> /\ steps[RunOf(d)][Of(g)] # "none"
  BY DEF AtChild, Children
<1>2. CASE c < Fanout
  <2>1. e = [d EXCEPT !.phase = "visiting", !.at = <<g, c + 1>>, !.all = done]
    BY <1>1, <1>2 DEF Visited
  <2>2. <<g, c + 1>> \in Children(g) /\ <<g, c + 1>> \in Name
    BY <1>2, Names, Kinds
  <2>3. /\ e \in Dispatch /\ e.task = d.task /\ e.attempt = d.attempt
        /\ e.phase = "visiting" /\ e.at = <<g, c + 1>>
    <3>. HIDE DEF Name, TaskId
    <3>. QED  BY <2>1, <2>2 DEF Dispatch
  <2>4. AtChild(e) /\ ~IsStepTask(e)
    BY <1>1, <2>2, <2>3 DEF AtChild, RunOf, IsStepTask
  <2>. QED  BY <2>3, <2>4 DEF PhaseOK
<1>3. CASE ~(c < Fanout) /\ done
  <2>1. e = Then(d, "replaying") /\ "replaying" \in Phases
    BY <1>1, <1>3 DEF Visited, Phases
  <2>2. e \in Dispatch /\ e.task = d.task /\ e.attempt = d.attempt /\ e.phase = "replaying"
    BY <2>1, Thens
  <2>. QED  BY <2>2 DEF PhaseOK, IsStepTask
<1>4. CASE ~(c < Fanout) /\ ~done
  <2>1. e = Then(d, "concluding") /\ "concluding" \in Phases
    BY <1>1, <1>4 DEF Visited, Phases
  <2>2. e \in Dispatch /\ e.task = d.task /\ e.attempt = d.attempt
    BY <2>1, Thens
  <2>. QED  BY <2>1, <2>2, PhaseFree
<1>. QED  BY <1>2, <1>3, <1>4

LEMMA VisitChildStep ==
  ASSUME IInv, NEW d \in dispatches, VisitChild(d)
  PROVE  Step
<1>. DEFINE n == RunOf(d)
            s == steps[n][d.at]
            e1 == [d EXCEPT !.phase = "scheduling"]
            e2 == Visited(d, d.all /\ s \in Completed)
<1>1. /\ RunsKeepOn /\ FaultCounted
      /\ UNCHANGED <<current, steps, remaining, tasks, calls, cancels>>
  BY RunsKept DEF VisitChild, execution, counts, FaultCounted
<1>2. d \in Dispatch /\ AtChild(d) /\ ~IsStepTask(d)
  BY RunOfDispatch DEF VisitChild, IInv, DispatchOK, PhaseOK
<1>3. CASE s = "none"
  <2>1. Become(d, e1)
    BY <1>3 DEF VisitChild
  <2>2. /\ e1 \in Dispatch /\ e1.task = d.task /\ e1.attempt = d.attempt
        /\ e1.at = d.at /\ e1.phase = "scheduling"
    <3>. HIDE DEF Name, TaskId
    <3>. QED  BY <1>2 DEF Dispatch
  <2>. HIDE DEF e1
  <2>3. AtChild(e1) /\ ~IsStepTask(e1) /\ RunOf(e1) = n
    BY <1>2, <2>2 DEF AtChild, RunOf, IsStepTask
  <2>4. PhaseOK(e1)
    BY <1>3, <2>2, <2>3 DEF PhaseOK
  <2>. QED  BY <1>1, <2>1, <2>2, <2>4, DispatchMoves
<1>4. CASE s # "none"
  <2>1. Become(d, e2)
    BY <1>4 DEF VisitChild
  <2>2. (d.all /\ s \in Completed) \in BOOLEAN
    BY <1>2 DEF Dispatch
  <2>3. e2 \in Dispatch /\ e2.task = d.task /\ e2.attempt = d.attempt /\ PhaseOK(e2)
    BY <1>2, <2>2, VisitedOK
  <2>. HIDE DEF e2
  <2>. QED  BY <1>1, <2>1, <2>3, DispatchMoves
<1>. QED  BY <1>3, <1>4

LEMMA LambdaSteps ==
  ASSUME IInv, NEW d \in dispatches, LambdaReturns(d) \/ LambdaTimesOut(d)
  PROVE  Step
<1>. DEFINE i == ItemOf(Target(d))
            Result(r) == [d EXCEPT !.phase = "stepping", !.result = r]
            e2 == [d EXCEPT !.phase = "retrying"]
<1>1. /\ RunsKeepOn /\ FaultCounted
      /\ UNCHANGED <<current, steps, remaining, tasks, calls, cancels>>
  BY RunsKept DEF LambdaReturns, LambdaTimesOut, execution, counts, FaultCounted
<1>2. d \in Dispatch /\ IsStepTask(d) /\ i \notin Events
  BY RunOfDispatch DEF LambdaReturns, LambdaTimesOut, IInv, DispatchOK, PhaseOK
<1>3. \/ d.attempt <= MaxRetries /\ Become(d, e2)
      \/ \E r \in {"ok", "err", "dead"} :
           /\ Become(d, Result(r))
           /\ r = "err" => i \in Fallible
           /\ r = "dead" => Target(d) \in MayDie
  BY DEF LambdaReturns, LambdaTimesOut
<1>4. CASE d.attempt <= MaxRetries /\ Become(d, e2)
  <2>1. /\ e2 \in Dispatch /\ e2.task = d.task /\ e2.attempt = d.attempt
        /\ e2.phase = "retrying"
    <3>. HIDE DEF Name, TaskId
    <3>. QED  BY <1>2 DEF Dispatch
  <2>. HIDE DEF e2
  <2>2. IsStepTask(e2) /\ Target(e2) = Target(d)
    BY <1>2, <2>1 DEF IsStepTask, Target
  <2>3. PhaseOK(e2)
    BY <1>2, <1>4, <2>1, <2>2 DEF PhaseOK
  <2>. QED  BY <1>1, <1>4, <2>1, <2>3, DispatchMoves
<1>5. ASSUME NEW r \in {"ok", "err", "dead"}, Become(d, Result(r)),
             r = "err" => i \in Fallible, r = "dead" => Target(d) \in MayDie
      PROVE  Step
  <2>1. PICK e : e = Result(r)
    OBVIOUS
  <2>2. /\ e \in Dispatch /\ e.task = d.task /\ e.attempt = d.attempt
        /\ e.phase = "stepping" /\ e.result = r
    <3>. HIDE DEF Name, TaskId
    <3>. QED  BY <1>2, <2>1 DEF Dispatch
  <2>3. IsStepTask(e) /\ Target(e) = Target(d)
    BY <1>2, <2>2 DEF IsStepTask, Target
  <2>4. PhaseOK(e)
    BY <1>2, <1>5, <2>2, <2>3 DEF PhaseOK
  <2>. QED  BY <1>1, <1>5, <2>1, <2>2, <2>4, DispatchMoves
<1>. QED  BY <1>3, <1>4, <1>5

-----------------------------------------------------------------------------
(* What may become of the row of a task.                                     *)

LEMMA TaskFacts ==
  ASSUME IInv, NEW t \in TaskId
  PROVE  /\ tasks[t] \in Row /\ tasks[t].attempt \in Nat /\ tasks[t].run \in Run
         /\ TaskOK(t) /\ LeaseOK(t)
BY Bounds DEF IInv, TypeOK, Row

LEMMA TaskStays ==
  ASSUME IInv, NEW t \in TaskId, tasks'[t] = tasks[t],
         \A n \in Run : runs[n] # "none" => runs'[n] # "none"
  PROVE  TaskOK(t)'
BY TaskFacts DEF TaskOK, Exists

LEMMA TaskInserted ==
  ASSUME NEW t \in TaskId, NEW n \in Run, tasks'[t] = NewRow(n),
         t[1] = "delivered" \/ t[2] = n, runs'[n] # "none", faults' \in Nat
  PROVE  TaskOK(t)' /\ LeaseOK(t)'
BY Rows, Bounds DEF TaskOK, LeaseOK, Exists

(* A row that is settled, or cancelled.                                      *)
LEMMA TaskSettled ==
  ASSUME IInv, FaultCounted, NEW t \in TaskId, NEW s \in Ended, Exists(t),
         tasks'[t] = [tasks[t] EXCEPT !.status = s],
         \A n \in Run : runs[n] # "none" => runs'[n] # "none"
  PROVE  tasks'[t] \in Row /\ TaskOK(t)' /\ LeaseOK(t)'
<1>1. /\ tasks'[t] \in Row /\ tasks'[t].status = s /\ tasks'[t].attempt = tasks[t].attempt
      /\ tasks'[t].run = tasks[t].run
  BY TaskFacts DEF Row
<1>2. s \notin {"absent", "scheduled", "picked_up"} /\ tasks'[t] # Absent
  BY <1>1, Rows DEF Ended
<1>. QED  BY <1>1, <1>2, TaskFacts, FaultsCounted, Bounds DEF TaskOK, LeaseOK, Exists

(* A row that is given back.                                                 *)
LEMMA TaskGivenBack ==
  ASSUME IInv, FaultCounted, NEW t \in TaskId, Exists(t),
         tasks[t].attempt <= MaxRetries + faults',
         tasks'[t] = [tasks[t] EXCEPT !.status = "scheduled"],
         \A n \in Run : runs[n] # "none" => runs'[n] # "none"
  PROVE  tasks'[t] \in Row /\ TaskOK(t)' /\ LeaseOK(t)'
<1>1. /\ tasks'[t] \in Row /\ tasks'[t].status = "scheduled"
      /\ tasks'[t].attempt = tasks[t].attempt /\ tasks'[t].run = tasks[t].run
  BY TaskFacts DEF Row
<1>2. tasks'[t] # Absent
  BY <1>1, Rows
<1>. QED  BY <1>1, <1>2, TaskFacts, FaultsCounted, Bounds DEF TaskOK, LeaseOK, Exists

(* A step whose rows stay.                                                   *)
LEMMA StepStays ==
  ASSUME IInv, NEW n \in Run, NEW s \in Name,
         steps'[n][s] = steps[n][s],
         UNCHANGED tasks
  PROVE  StepOK(n, s)'
BY DEF IInv, StepOK, Retried, Exists

-----------------------------------------------------------------------------
(* Client calls.                                                            *)

LEMMA CallTypes ==
  ASSUME IInv, NEW c \in Client, NEW n \in Run,
         NEW p \in {"idle", "creating", "resetting", "scheduling", "cancelling"},
         calls' = [calls EXCEPT ![c] = [phase |-> p, run |-> n]]
  PROVE  /\ calls' \in [Client -> Call]
         /\ (p = "scheduling" => runs'[n] # "none")
              /\ (\A m \in Run : runs[m] # "none" => runs'[m] # "none") =>
            \A x \in Client : calls'[x].phase = "scheduling" => runs'[calls'[x].run] # "none"
<1>1. \A x \in Client : calls[x].run \in Run
  BY DEF IInv, TypeOK, Call
<1>2. calls' \in [Client -> Call]
  BY DEF IInv, TypeOK, Call
<1>. QED  BY <1>1, <1>2 DEF IInv, TypeOK, RunsThere

LEMMA RunsThereStays ==
  ASSUME IInv, UNCHANGED steps,
         \A n \in Run : runs[n] # "none" => runs'[n] # "none",
         current' # NoRun => runs'[current'] # "none" /\ runs'[0] # "none",
         \A c \in Client : calls'[c].phase = "scheduling" => runs'[calls'[c].run] # "none"
  PROVE  RunsThere'
BY DEF IInv, RunsThere

(* Calls that leave the tasks and the steps alone.                           *)
LEMMA CallsMove ==
  ASSUME IInv, FaultCounted, cancels' \in 0..MaxCancels, calls' \in [Client -> Call],
         RunsMove, \A n \in Run : runs[n] # "none" => runs'[n] # "none", RunsThere',
         current' \in Run \cup {NoRun},
         UNCHANGED <<steps, remaining, tasks, dispatches>>
  PROVE  Step
<1>1. Grow
  BY DEF Grow, RowGrows, Exists
<1>2. TypeOK'
  BY FaultsCounted DEF IInv, TypeOK, RunsMove, RunsInv, RunStatus
<1>3. ASSUME NEW t \in TaskId PROVE TaskOK(t)' /\ LeaseOK(t)'
  BY TaskStays, LeaseStays DEF HoldsLock
<1>4. \A n \in Run, s \in Name : StepOK(n, s)'
  BY StepStays DEF Exists
<1>5. \A n \in Run, g \in Groups : GroupOK(n, g)'
  BY DEF IInv, GroupOK, Uncompleted
<1>. QED  BY <1>1, <1>2, <1>3, <1>4, <1>5, DispatchesKept DEF Step, IInv, RunsMove

LEMMA NewRunStays ==
  ASSUME IInv, NEW n \in Run, NewRun(n)
  PROVE  /\ RunsMove /\ \A m \in Run : runs[m] # "none" => runs'[m] # "none"
         /\ runs'[n] # "none" /\ runs'[0] # "none" /\ current' = n
<1>1. RunsMove
  BY NewRunMoves DEF IInv
<1>2. n = 0 \/ runs[0] # "none"
  BY Bounds DEF NewRun
<1>. QED  BY <1>1, <1>2, Bounds DEF NewRun, IInv, TypeOK

LEMMA StartStep ==
  ASSUME IInv, NEW c \in Client, Start(c)
  PROVE  Step
<1>1. UNCHANGED <<current, runs, steps, remaining, tasks, dispatches, cancels, faults>>
  BY DEF Start, execution, counts
<1>2. PICK p \in {"creating", "resetting"} : CallTo(c, p, 0)
  BY DEF Start
<1>3. /\ calls' \in [Client -> Call]
      /\ \A x \in Client : calls'[x].phase = "scheduling" => runs'[calls'[x].run] # "none"
  BY <1>1, <1>2, Bounds, CallTypes DEF CallTo
<1>4. RunsMove /\ RunsThere'
  BY <1>1, <1>3, RunsStay, RunsThereStays DEF IInv, RunsThere
<1>. QED  BY <1>1, <1>3, <1>4, CallsMove DEF IInv, TypeOK, FaultCounted

LEMMA CallerDiesStep ==
  ASSUME IInv, NEW c \in Client, CallerDies(c)
  PROVE  Step
<1>1. UNCHANGED <<current, runs, steps, remaining, tasks, dispatches, cancels>> /\ FaultCounted
  BY DEF CallerDies, execution, Fault, FaultCounted
<1>2. /\ calls' \in [Client -> Call]
      /\ \A x \in Client : calls'[x].phase = "scheduling" => runs'[calls'[x].run] # "none"
  BY <1>1, Bounds, CallTypes DEF CallerDies, Return, Idle
<1>3. RunsMove /\ RunsThere'
  BY <1>1, <1>2, RunsStay, RunsThereStays DEF IInv, RunsThere
<1>. QED  BY <1>1, <1>2, <1>3, CallsMove DEF IInv, TypeOK

LEMMA CancelRunStep ==
  ASSUME IInv, NEW c \in Client, CancelRun(c)
  PROVE  Step
<1>1. UNCHANGED <<current, steps, remaining, tasks, dispatches, faults>> /\ current # NoRun
  BY DEF CancelRun
<1>2. \A n \in Run : runs[n] # "none" => runs'[n] # "none"
  BY DEF CancelRun, IInv, TypeOK
<1>3. cancels' \in 0..MaxCancels
  BY Bounds DEF CancelRun, IInv, TypeOK
<1>4. /\ calls' \in [Client -> Call]
      /\ \A x \in Client : calls'[x].phase = "scheduling" => runs'[calls'[x].run] # "none"
  BY <1>2, Bounds, CallTypes DEF CancelRun, CallTo
<1>5. RunsThere'
  BY <1>1, <1>2, <1>4, Bounds, RunsThereStays DEF IInv, RunsThere, TypeOK
<1>6. RunsMove
  BY CancelMoves DEF IInv
<1>. QED  BY <1>1, <1>2, <1>3, <1>4, <1>5, <1>6, CallsMove DEF IInv, TypeOK, FaultCounted

LEMMA ResetExecutionStep ==
  ASSUME IInv, NEW c \in Client, ResetExecution(c)
  PROVE  Step
<1>1. PICK n \in Run : NewRun(n) /\ CallTo(c, "scheduling", n)
  BY DEF ResetExecution
<1>2. UNCHANGED <<steps, remaining, tasks, dispatches, cancels, faults>>
  BY DEF ResetExecution, counts
<1>3. /\ RunsMove /\ \A m \in Run : runs[m] # "none" => runs'[m] # "none"
      /\ runs'[n] # "none" /\ runs'[0] # "none" /\ current' = n
  BY <1>1, NewRunStays
<1>4. /\ calls' \in [Client -> Call]
      /\ \A x \in Client : calls'[x].phase = "scheduling" => runs'[calls'[x].run] # "none"
  BY <1>1, <1>3, CallTypes DEF CallTo
<1>5. RunsThere'
  BY <1>2, <1>3, <1>4, RunsThereStays
<1>. QED  BY <1>2, <1>3, <1>4, <1>5, CallsMove DEF IInv, TypeOK, FaultCounted


-----------------------------------------------------------------------------
(* Steps that change tasks and no row of a step.                            *)

TaskMoves(t) ==
  /\ tasks'[t] \in Row /\ TaskOK(t)' /\ LeaseOK(t)'
  /\ Exists(t) => Exists(t)' /\ tasks'[t].run = tasks[t].run
  /\ t[1] \in {"step", "retry"} =>
       /\ Exists(t)' <=> Exists(t)
       /\ tasks'[t].status = tasks[t].status \/ tasks[t].status \in {"scheduled", "picked_up"}

LEMMA RowsMove ==
  ASSUME IInv, FaultCounted, RunsMove, \A n \in Run : runs[n] # "none" => runs'[n] # "none",
         RunsThere', UNCHANGED <<steps, remaining>>,
         current' \in Run \cup {NoRun}, calls' \in [Client -> Call], cancels' \in 0..MaxCancels,
         \E r : tasks' = [t \in TaskId |-> r[t]],
         \A t \in TaskId : TaskMoves(t)
  PROVE  /\ Grow
         /\ dispatches' \subseteq Dispatch /\ (\A x \in dispatches' : DispatchOK(x)') => Step
<1>1. Grow
  BY DEF Grow, RowGrows, TaskMoves
<1>2. ASSUME dispatches' \subseteq Dispatch PROVE TypeOK'
  BY <1>2, FaultsCounted DEF IInv, TypeOK, RunsMove, RunsInv, RunStatus, TaskMoves
<1>3. \A t \in TaskId : TaskOK(t)' /\ LeaseOK(t)'
  BY DEF TaskMoves
<1>4. ASSUME NEW n \in Run, NEW s \in Name PROVE StepOK(n, s)'
  <2>1. TaskMoves(StepTask(n, s)) /\ StepTask(n, s)[1] = "step"
    BY Ids
  <2>2. StepOK(n, s) /\ steps'[n][s] = steps[n][s]
    BY DEF IInv
  <2>3. Retried(n, s)' <=> Retried(n, s)
    BY Ids DEF TaskMoves, Retried
  <2>. QED  BY <2>1, <2>2, <2>3 DEF TaskMoves, StepOK
<1>5. \A n \in Run, g \in Groups : GroupOK(n, g)'
  BY DEF IInv, GroupOK, Uncompleted
<1>. QED  BY <1>1, <1>2, <1>3, <1>4, <1>5 DEF Step, IInv, RunsMove

LEMMA KeptMoves ==
  ASSUME IInv, FaultCounted, NEW t \in TaskId, tasks'[t] = tasks[t],
         \A n \in Run : runs[n] # "none" => runs'[n] # "none",
         \A d \in dispatches : d.task = t /\ HoldsLock(d) =>
           \E e \in dispatches' : e.task = t /\ e.attempt = tasks[t].attempt
  PROVE  TaskMoves(t)
<1>1. LeaseOK(t)'
  BY LeaseStays
<1>2. TaskOK(t)'
  BY TaskStays
<1>. QED  BY <1>1, <1>2, TaskFacts DEF TaskMoves, Exists

LEMMA InsertedMoves ==
  ASSUME IInv, FaultCounted, NEW t \in TaskId, t[1] \notin {"step", "retry"}, NEW n \in Run,
         t[1] = "delivered" \/ t[2] = n, runs'[n] # "none",
         UNCHANGED dispatches,
         tasks' = Inserted(tasks, t, n),
         \A m \in Run : runs[m] # "none" => runs'[m] # "none"
  PROVE  /\ tasks' \in [TaskId -> Row]
         /\ \A u \in TaskId : TaskMoves(u)
<1>1. tasks \in [TaskId -> Row] /\ faults' \in Nat
  BY FaultsCounted DEF IInv, TypeOK
<1>2. /\ tasks' \in [TaskId -> Row]
      /\ \A u \in TaskId : tasks'[u] = IF u = t /\ tasks[t] = Absent THEN NewRow(n) ELSE tasks[u]
  BY <1>1, Insertion
<1>3. ASSUME NEW u \in TaskId PROVE TaskMoves(u)
  <2>1. CASE u = t /\ tasks[t] = Absent
    <3>1. tasks'[t] = NewRow(n)
      BY <1>2, <2>1
    <3>2. TaskOK(t)' /\ LeaseOK(t)'
      BY <1>1, <3>1, TaskInserted
    <3>. QED  BY <2>1, <3>1, <3>2, Rows DEF TaskMoves, Exists
  <2>2. CASE ~(u = t /\ tasks[t] = Absent)
    <3>1. tasks'[u] = tasks[u]
      BY <1>2, <2>2
    <3>. QED  BY <3>1, KeptMoves DEF HoldsLock
  <2>. QED  BY <2>1, <2>2
<1>. QED  BY <1>2, <1>3

LEMMA SettledMoves ==
  ASSUME IInv, FaultCounted, NEW t \in TaskId, NEW s \in Ended,
         tasks[t].status \in {"scheduled", "picked_up"},
         tasks'[t] = [tasks[t] EXCEPT !.status = s],
         \A n \in Run : runs[n] # "none" => runs'[n] # "none"
  PROVE  TaskMoves(t)
<1>1. Exists(t)
  BY Rows DEF Exists
<1>2. tasks'[t] \in Row /\ TaskOK(t)' /\ LeaseOK(t)'
  BY <1>1, TaskSettled
<1>3. tasks'[t].run = tasks[t].run /\ tasks'[t].status = s
  BY TaskFacts DEF Row
<1>4. Exists(t)'
  BY <1>3, Rows DEF Exists, Ended
<1>. QED  BY <1>1, <1>2, <1>3, <1>4 DEF TaskMoves

LEMMA GivenBackMoves ==
  ASSUME IInv, FaultCounted, NEW t \in TaskId, tasks[t].status = "picked_up",
         tasks[t].attempt <= MaxRetries + faults',
         tasks'[t] = [tasks[t] EXCEPT !.status = "scheduled"],
         \A n \in Run : runs[n] # "none" => runs'[n] # "none"
  PROVE  TaskMoves(t)
<1>1. Exists(t)
  BY Rows DEF Exists
<1>2. tasks'[t] \in Row /\ TaskOK(t)' /\ LeaseOK(t)'
  BY <1>1, TaskGivenBack
<1>3. tasks'[t].run = tasks[t].run /\ tasks'[t].status = "scheduled"
  BY TaskFacts DEF Row
<1>4. Exists(t)'
  BY <1>3, Rows DEF Exists
<1>. QED  BY <1>1, <1>2, <1>3, <1>4 DEF TaskMoves

LEMMA CreateExecutionStep ==
  ASSUME IInv, NEW c \in Client, CreateExecution(c)
  PROVE  Step
<1>1. UNCHANGED <<steps, remaining, dispatches, cancels, faults>> /\ FaultCounted
  BY DEF CreateExecution, counts, FaultCounted
<1>2. RunsMove
  BY CreateMoves DEF IInv
<1>3. /\ \A n \in Run : runs[n] # "none" => runs'[n] # "none"
      /\ runs'[0] # "none" /\ current' \in Run /\ runs'[current'] # "none"
  BY Bounds DEF CreateExecution, IInv, TypeOK, RunsThere
<1>4. /\ calls' \in [Client -> Call]
      /\ \A x \in Client : calls'[x].phase = "scheduling" => runs'[calls'[x].run] # "none"
  BY <1>3, Bounds, CallTypes DEF CreateExecution, Return, Idle
<1>5. RunsThere'
  BY <1>1, <1>3, <1>4, RunsThereStays
<1>6. tasks' \in [TaskId -> Row] /\ \A u \in TaskId : TaskMoves(u)
  BY <1>1, <1>3, Bounds, Ids, InsertedMoves DEF CreateExecution
<1>. QED  BY <1>1, <1>2, <1>3, <1>4, <1>5, <1>6, RowsMove, DispatchesKept DEF IInv, TypeOK

LEMMA ScheduleRootStep ==
  ASSUME IInv, NEW c \in Client, ScheduleRoot(c)
  PROVE  Step
<1>1. UNCHANGED <<current, runs, steps, remaining, dispatches, cancels, faults>> /\ FaultCounted
  BY DEF ScheduleRoot, execution, counts, FaultCounted
<1>2. calls[c].run \in Run /\ runs[calls[c].run] # "none"
  BY DEF ScheduleRoot, IInv, TypeOK, Call, RunsThere
<1>3. /\ calls' \in [Client -> Call]
      /\ \A x \in Client : calls'[x].phase = "scheduling" => runs'[calls'[x].run] # "none"
  BY <1>1, Bounds, CallTypes DEF ScheduleRoot, Return, Idle
<1>4. RunsMove /\ RunsThere'
  BY <1>1, <1>3, RunsStay, RunsThereStays DEF IInv, RunsThere
<1>5. tasks' \in [TaskId -> Row] /\ \A u \in TaskId : TaskMoves(u)
  BY <1>1, <1>2, Ids, InsertedMoves DEF ScheduleRoot
<1>. QED  BY <1>1, <1>3, <1>4, <1>5, RowsMove, DispatchesKept DEF IInv, TypeOK

LEMMA CancelTasksStep ==
  ASSUME IInv, NEW c \in Client, CancelTasks(c)
  PROVE  Step
<1>1. UNCHANGED <<current, runs, steps, remaining, dispatches, cancels, faults>> /\ FaultCounted
  BY DEF CancelTasks, execution, counts, FaultCounted
<1>2. /\ calls' \in [Client -> Call]
      /\ \A x \in Client : calls'[x].phase = "scheduling" => runs'[calls'[x].run] # "none"
  BY <1>1, Bounds, CallTypes DEF CancelTasks, Return, Idle
<1>3. RunsMove /\ RunsThere'
  BY <1>1, <1>2, RunsStay, RunsThereStays DEF IInv, RunsThere
<1>4. tasks' = [t \in TaskId |-> IF tasks[t].status = "scheduled"
                                THEN [tasks[t] EXCEPT !.status = "cancelled"] ELSE tasks[t]]
  BY DEF CancelTasks
<1>5. ASSUME NEW t \in TaskId PROVE TaskMoves(t)
  <2>1. CASE tasks[t].status = "scheduled"
    <3>1. tasks'[t] = [tasks[t] EXCEPT !.status = "cancelled"] /\ "cancelled" \in Ended
      BY <1>4, <2>1 DEF Ended
    <3>. QED  BY <1>1, <2>1, <3>1, SettledMoves
  <2>2. CASE tasks[t].status # "scheduled"
    <3>1. tasks'[t] = tasks[t]
      BY <1>4, <2>2
    <3>. QED  BY <1>1, <3>1, KeptMoves DEF HoldsLock
  <2>. QED  BY <2>1, <2>2
<1>6. \E r : tasks' = [t \in TaskId |-> r[t]]
  <2>1. tasks' = [t \in TaskId |-> tasks'[t]]
    BY <1>4
  <2>. QED  BY <2>1
<1>. QED  BY <1>1, <1>2, <1>3, <1>5, <1>6, RowsMove, DispatchesKept DEF IInv, TypeOK

-----------------------------------------------------------------------------
(* The queue, the faults, and what settles or gives back a row.              *)

LEMMA DispatchesGoOrStay ==
  ASSUME IInv, Grow, NEW d \in dispatches, Gone(d) \/ UNCHANGED dispatches
  PROVE  dispatches' \subseteq Dispatch /\ \A x \in dispatches' : DispatchOK(x)'
BY DispatchesGo, DispatchesKept

PickedUp(t) ==
  [task |-> t, attempt |-> tasks[t].attempt + 1, phase |-> "fetched", at |-> t[3],
   all |-> TRUE, result |-> "null", own |-> "null"]

LEMMA PickUpStep ==
  ASSUME IInv, NEW t \in TaskId, PickUp(t)
  PROVE  Step
<1>0. PICK a, e : a = tasks[t].attempt + 1 /\ e = PickedUp(t)
  OBVIOUS
<1>1. /\ UNCHANGED <<current, runs, steps, remaining, calls, cancels, faults>>
      /\ dispatches' = dispatches \cup {e}
      /\ tasks' = [tasks EXCEPT ![t].status = "picked_up", ![t].attempt = a]
      /\ tasks[t].status = "scheduled"
  BY <1>0 DEF PickUp, execution, counts, PickedUp
<1>2. RunsMove /\ RunsThere' /\ FaultCounted
  BY <1>1, RunsStay, RunsThereStays DEF IInv, RunsThere, FaultCounted
<1>3. a \in 1..MaxAttempt /\ a <= 1 + MaxRetries + faults
  <2>1. tasks[t].attempt <= MaxRetries + faults /\ tasks[t].attempt \in Nat
    BY <1>1, TaskFacts DEF LeaseOK
  <2>2. faults \in 0..MaxFaults
    BY DEF IInv, TypeOK
  <2>. QED  BY <1>0, <2>1, <2>2, Bounds
<1>4. /\ e \in Dispatch /\ e.task = t /\ e.attempt = a /\ e.phase = "fetched"
  <2>1. t[3] \in Name \cup {Of(0)}
    BY Ids
  <2>. HIDE DEF Name, TaskId
  <2>. QED  BY <1>0, <1>3, <2>1 DEF Dispatch, PickedUp
<1>5. /\ tasks'[t] \in Row /\ tasks'[t].status = "picked_up" /\ tasks'[t].attempt = a
      /\ tasks'[t].run = tasks[t].run
  <2>1. tasks \in [TaskId -> Row] /\ tasks[t] \in Row /\ a \in 0..MaxAttempt
    BY <1>3, TaskFacts DEF IInv, TypeOK
  <2>2. tasks'[t] = [tasks[t] EXCEPT !.status = "picked_up", !.attempt = a]
    BY <1>1, <2>1
  <2>. HIDE DEF TaskId
  <2>. QED  BY <2>1, <2>2 DEF Row
<1>6. ASSUME NEW u \in TaskId PROVE TaskMoves(u)
  <2>1. CASE u = t
    <3>1. Exists(t) /\ Exists(t)'
      BY <1>1, <1>5, Rows DEF Exists
    <3>2. TaskOK(t)'
      BY <1>1, <1>5, <3>1, TaskFacts DEF TaskOK
    <3>3. LeaseOK(t)'
      <4>1. \E x \in dispatches' : x.task = t /\ x.attempt = tasks'[t].attempt
        BY <1>1, <1>4, <1>5
      <4>2. tasks'[t].attempt <= 1 + (MaxRetries + faults')
        BY <1>1, <1>3, <1>5, FaultsCounted, <1>2, Bounds
      <4>. QED  BY <1>5, <4>1, <4>2 DEF LeaseOK
    <3>. QED  BY <1>1, <1>5, <2>1, <3>1, <3>2, <3>3 DEF TaskMoves
  <2>2. CASE u # t
    <3>1. tasks'[u] = tasks[u]
      BY <1>1, <2>2 DEF IInv, TypeOK
    <3>. QED  BY <1>1, <1>2, <3>1, KeptMoves DEF HoldsLock
  <2>. QED  BY <2>1, <2>2
<1>7. tasks' = [u \in TaskId |-> tasks'[u]]
  BY <1>1 DEF IInv, TypeOK
<1>7a. /\ \A n \in Run : runs[n] # "none" => runs'[n] # "none"
       /\ current' \in Run \cup {NoRun} /\ calls' \in [Client -> Call]
       /\ cancels' \in 0..MaxCancels /\ UNCHANGED <<steps, remaining>>
       /\ \E r : tasks' = [u \in TaskId |-> r[u]]
  BY <1>1, <1>7 DEF IInv, TypeOK
<1>8. Grow
  BY <1>2, <1>6, <1>7a, RowsMove
<1>9. dispatches' \subseteq Dispatch /\ \A x \in dispatches' : DispatchOK(x)'
  <2>1. DispatchOK(e)'
    BY <1>4, <1>5, Rows DEF DispatchOK, PhaseOK, Exists
  <2>2. dispatches \subseteq Dispatch /\ \A x \in dispatches : DispatchOK(x)'
    BY <1>8, DispatchStays DEF IInv, TypeOK
  <2>. QED  BY <1>1, <1>4, <2>1, <2>2
<1>. QED  BY <1>2, <1>6, <1>7a, <1>9, RowsMove

(* One row changes, and at most the dispatch that held it goes.              *)
LEMMA RowChanges ==
  ASSUME IInv, FaultCounted, NEW t \in TaskId, TaskMoves(t),
         UNCHANGED <<current, runs, steps, remaining, calls, cancels>>,
         NEW row, tasks' = [tasks EXCEPT ![t] = row],
         \A d \in dispatches : d.task # t =>
           \E e \in dispatches' : e.task = d.task /\ e.attempt = d.attempt
  PROVE  /\ Grow
         /\ dispatches' \subseteq Dispatch /\ (\A x \in dispatches' : DispatchOK(x)') => Step
<1>1. RunsMove /\ RunsThere'
  BY RunsStay, RunsThereStays DEF IInv, RunsThere
<1>2. ASSUME NEW u \in TaskId, u # t PROVE TaskMoves(u)
  <2>1. tasks'[u] = tasks[u]
    BY <1>2 DEF IInv, TypeOK
  <2>. QED  BY <1>2, <2>1, KeptMoves DEF HoldsLock
<1>3. tasks' = [u \in TaskId |-> tasks'[u]]
  BY DEF IInv, TypeOK
<1>. QED  BY <1>1, <1>2, <1>3, RowsMove DEF IInv, TypeOK

LEMMA RecoverOrphanStep ==
  ASSUME IInv, NEW t \in TaskId, RecoverOrphan(t)
  PROVE  Step
<1>1. /\ UNCHANGED <<current, runs, steps, remaining, calls, cancels, faults, dispatches>>
      /\ tasks' = [tasks EXCEPT ![t] = [tasks[t] EXCEPT !.status = "scheduled"]]
      /\ tasks'[t] = [tasks[t] EXCEPT !.status = "scheduled"]
      /\ tasks[t].status = "picked_up" /\ FaultCounted
  BY DEF RecoverOrphan, GivenBack, execution, counts, FaultCounted, IInv, TypeOK
<1>2. tasks[t].attempt <= MaxRetries + faults'
  <2>1. ~ \E d \in dispatches : d.task = t /\ d.attempt = tasks[t].attempt
    BY DEF RecoverOrphan, HoldsLock
  <2>. QED  BY <1>1, <2>1, TaskFacts, FaultsCounted, Bounds DEF LeaseOK
<1>3. TaskMoves(t)
  BY <1>1, <1>2, GivenBackMoves
<1>. QED  BY <1>1, <1>3, RowChanges, DispatchesKept

LEMMA LapseStep ==
  ASSUME IInv, NEW d \in dispatches, Lapse(d)
  PROVE  Step
<1>1. d.task \in TaskId
  BY RunOfDispatch
<1>2. /\ UNCHANGED <<current, runs, steps, remaining, calls, cancels, dispatches>>
      /\ tasks' = [tasks EXCEPT ![d.task] = [tasks[d.task] EXCEPT !.status = "scheduled"]]
      /\ tasks'[d.task] = [tasks[d.task] EXCEPT !.status = "scheduled"]
      /\ tasks[d.task].status = "picked_up" /\ faults' = faults + 1 /\ FaultCounted
  BY <1>1 DEF Lapse, HoldsLock, GivenBack, execution, Fault, FaultCounted, IInv, TypeOK
<1>3. tasks[d.task].attempt <= MaxRetries + faults'
  BY <1>1, <1>2, TaskFacts, FaultsCounted, Bounds DEF LeaseOK
<1>4. TaskMoves(d.task)
  BY <1>1, <1>2, <1>3, GivenBackMoves
<1>. QED  BY <1>1, <1>2, <1>4, RowChanges, DispatchesKept

(* A dispatch is lost, and its row left as it is.                            *)
LEMMA DispatchLost ==
  ASSUME IInv, NEW d \in dispatches, Gone(d), faults' = faults + 1, faults < MaxFaults,
         UNCHANGED <<current, runs, steps, remaining, tasks, calls, cancels>>
  PROVE  Step
<1>1. FaultCounted
  BY DEF FaultCounted
<1>2. RunsMove /\ RunsThere'
  BY RunsStay, RunsThereStays DEF IInv, RunsThere
<1>3. ASSUME NEW u \in TaskId PROVE TaskMoves(u)
  <2>1. LeaseOK(u)'
    BY <1>1, TaskFacts, FaultsCounted, Bounds DEF LeaseOK
  <2>2. TaskOK(u)'
    BY TaskStays
  <2>. QED  BY <2>1, <2>2, TaskFacts DEF TaskMoves, Exists
<1>4. tasks' = [u \in TaskId |-> tasks'[u]]
  BY DEF IInv, TypeOK
<1>. QED  BY <1>1, <1>2, <1>3, <1>4, RowsMove, DispatchesGo DEF IInv, TypeOK

LEMMA CrashStep ==
  ASSUME IInv, NEW d \in dispatches, Crash(d)
  PROVE  Step
BY DispatchLost DEF Crash, execution, Fault

LEMMA DbErrorStep ==
  ASSUME IInv, NEW d \in dispatches, DbError(d)
  PROVE  Step
<1>1. /\ UNCHANGED <<current, runs, steps, remaining, tasks, calls, cancels>>
      /\ faults' = faults + 1 /\ faults < MaxFaults /\ FaultCounted
  BY DEF DbError, execution, Fault, FaultCounted
<1>2. CASE d.phase = "marking"
  BY <1>1, <1>2, DispatchLost DEF DbError
<1>3. CASE d.phase # "marking"
  <2>1. PICK p \in AfterError(d.phase) : To(d, p)
    BY <1>3 DEF DbError
  <2>2. p \in {"failing", "finishing", "concluding", "marking"}
    BY <2>1 DEF AfterError
  <2>. QED  BY <1>1, <2>1, <2>2, RunsKept, MovesOn
<1>. QED  BY <1>2, <1>3

LEMMA SettledStep ==
  ASSUME IInv, NEW d \in dispatches, NEW s \in Ended, HoldsLock(d), Gone(d),
         tasks' = Settled(d, s), UNCHANGED <<current, runs, steps, remaining, calls, cancels, faults>>
  PROVE  Step
<1>1. d.task \in TaskId
  BY RunOfDispatch
<1>2. /\ tasks' = [tasks EXCEPT ![d.task] = [tasks[d.task] EXCEPT !.status = s]]
      /\ tasks'[d.task] = [tasks[d.task] EXCEPT !.status = s]
      /\ tasks[d.task].status = "picked_up" /\ FaultCounted
  BY <1>1 DEF Settled, HoldsLock, FaultCounted, IInv, TypeOK
<1>3. TaskMoves(d.task)
  BY <1>1, <1>2, SettledMoves
<1>4. \A x \in dispatches : x.task # d.task => x \in dispatches'
  BY DEF Gone
<1>. QED  BY <1>1, <1>2, <1>3, <1>4, RowChanges, DispatchesGo

LEMMA CompleteTaskStep ==
  ASSUME IInv, NEW d \in dispatches, CompleteTask(d)
  PROVE  Step
BY SettledStep DEF CompleteTask, execution, counts, Ended

LEMMA MarkFailedStep ==
  ASSUME IInv, NEW d \in dispatches, MarkFailed(d)
  PROVE  Step
<1>1. UNCHANGED <<current, runs, steps, remaining, calls, cancels, faults>> /\ FaultCounted
  BY DEF MarkFailed, execution, counts, FaultCounted
<1>2. CASE HoldsLock(d)
  BY <1>1, <1>2, SettledStep DEF MarkFailed, Ended
<1>3. CASE ~HoldsLock(d)
  <2>1. UNCHANGED tasks /\ Gone(d)
    BY <1>3 DEF MarkFailed
  <2>2. RunsMove /\ RunsThere'
    BY <1>1, RunsStay, RunsThereStays DEF IInv, RunsThere
  <2>3. ASSUME NEW u \in TaskId PROVE TaskMoves(u)
    <3>1. \A x \in dispatches : x.task = u /\ HoldsLock(x) => x \in dispatches' /\ x.attempt = tasks[u].attempt
      BY <1>3, <2>1 DEF Gone, HoldsLock
    <3>. QED  BY <1>1, <2>1, <3>1, KeptMoves
  <2>4. tasks' = [u \in TaskId |-> tasks'[u]]
    BY <2>1 DEF IInv, TypeOK
  <2>. QED  BY <1>1, <2>1, <2>2, <2>3, <2>4, RowsMove, DispatchesGo DEF IInv, TypeOK
<1>. QED  BY <1>2, <1>3

LEMMA RescheduleForRetryStep ==
  ASSUME IInv, NEW d \in dispatches, RescheduleForRetry(d)
  PROVE  Step
<1>. DEFINE e == Then(d, "stepping")
<1>1. UNCHANGED <<current, runs, steps, remaining, calls, cancels, faults>> /\ FaultCounted
  BY DEF RescheduleForRetry, execution, counts, FaultCounted
<1>2. /\ d \in Dispatch /\ d.task \in TaskId /\ IsStepTask(d)
      /\ ItemOf(Target(d)) \notin Events /\ d.attempt <= MaxRetries
  BY RunOfDispatch DEF RescheduleForRetry, IInv, DispatchOK, PhaseOK
<1>3. CASE ~HoldsLock(d)
  <2>1. To(d, "failing") /\ UNCHANGED tasks
    BY <1>3 DEF RescheduleForRetry
  <2>. QED  BY <1>1, <2>1, RunsKept, MovesOn
<1>4. CASE HoldsLock(d)
  <2>1. /\ tasks' = [tasks EXCEPT ![d.task] = [tasks[d.task] EXCEPT !.status = "scheduled"]]
        /\ tasks'[d.task] = [tasks[d.task] EXCEPT !.status = "scheduled"]
        /\ tasks[d.task].status = "picked_up" /\ tasks[d.task].attempt = d.attempt
        /\ Become(d, e)
    BY <1>2, <1>4 DEF RescheduleForRetry, GivenBack, HoldsLock, To, IInv, TypeOK
  <2>2. tasks[d.task].attempt <= MaxRetries + faults'
    BY <1>1, <1>2, <2>1, TaskFacts, FaultsCounted, Bounds
  <2>3. TaskMoves(d.task)
    BY <1>1, <1>2, <2>1, <2>2, GivenBackMoves
  <2>4. e \in Dispatch /\ e.task = d.task /\ e.attempt = d.attempt /\ e.phase = "stepping"
        /\ e.result = "null"
    <3>1. "stepping" \in Phases
      BY DEF Phases
    <3>. QED  BY <1>2, <3>1, Thens
  <2>. HIDE DEF e
  <2>5. IsStepTask(e) /\ Target(e) = Target(d)
    BY <1>2, <2>4 DEF IsStepTask, Target
  <2>6. PhaseOK(e)'
    BY <1>2, <2>4, <2>5 DEF PhaseOK, IsStepTask, Target
  <2>7. \A x \in dispatches : x.task # d.task => x \in dispatches'
    BY <2>1 DEF Become
  <2>8. Grow
    BY <1>1, <1>2, <2>1, <2>3, <2>7, RowChanges
  <2>9. dispatches' \subseteq Dispatch /\ \A x \in dispatches' : DispatchOK(x)'
    BY <2>1, <2>4, <2>6, <2>8, DispatchesMove
  <2>. QED  BY <1>1, <1>2, <2>1, <2>3, <2>7, <2>9, RowChanges
<1>. QED  BY <1>3, <1>4

-----------------------------------------------------------------------------
(* Steps that change rows of steps.                                         *)

LEMMA Assembled ==
  ASSUME IInv, Grow, FaultCounted, RunsMove, RunsThere',
         current' \in Run \cup {NoRun}, calls' \in [Client -> Call], cancels' \in 0..MaxCancels,
         steps' \in [Run -> [Name -> StepStatus]],
         remaining' \in [Run -> [Groups -> 0..Fanout]],
         tasks' \in [TaskId -> Row], \A t \in TaskId : TaskOK(t)' /\ LeaseOK(t)',
         \A n \in Run, s \in Name : StepOK(n, s)',
         \A n \in Run, g \in Groups : GroupOK(n, g)',
         dispatches' \subseteq Dispatch, \A x \in dispatches' : DispatchOK(x)'
  PROVE  Step
<1>1. TypeOK'
  BY FaultsCounted DEF TypeOK, RunsMove, RunsInv, RunStatus
<1>. QED  BY <1>1 DEF Step, IInv, RunsMove

LEMMA StepMoves ==
  ASSUME IInv, NEW n \in Run, NEW s \in Name,
         steps'[n][s] = steps[n][s], TaskMoves(StepTask(n, s)),
         s \in MayDie => TaskMoves(RetryTask(n, s))
  PROVE  StepOK(n, s)'
<1>1. StepTask(n, s)[1] = "step" /\ StepOK(n, s)
  BY Ids DEF IInv
<1>2. Retried(n, s)' <=> Retried(n, s)
  BY Ids DEF TaskMoves, Retried
<1>. QED  BY <1>1, <1>2 DEF TaskMoves, StepOK

LEMMA GroupStays ==
  ASSUME IInv, NEW n \in Run, NEW g \in Groups,
         remaining'[n][g] = remaining[n][g], steps'[n][Of(g)] = steps[n][Of(g)],
         \A s \in Children(g) : steps'[n][s] = steps[n][s]
  PROVE  GroupOK(n, g)'
<1>1. Uncompleted(n, g)' = Uncompleted(n, g) /\ GroupOK(n, g)
  BY DEF Uncompleted, IInv
<1>. QED  BY <1>1 DEF GroupOK

(* One row of a run there is changes.                                       *)
OneRow(n, s, v) == steps' = [steps EXCEPT ![n][s] = v]

LEMMA RowChanged ==
  ASSUME IInv, NEW n \in Run, NEW s \in Name, NEW v \in StepStatus,
         OneRow(n, s, v)
  PROVE  /\ steps' \in [Run -> [Name -> StepStatus]]
         /\ steps'[n][s] = v
         /\ \A m \in Run, x \in Name : m # n \/ x # s => steps'[m][x] = steps[m][x]
BY DEF OneRow, IInv, TypeOK

LEMMA RunsThereOneRow ==
  ASSUME IInv, NEW n \in Run, NEW s \in Name, NEW v \in StepStatus,
         OneRow(n, s, v), runs[n] # "none", UNCHANGED <<current, runs, calls>>
  PROVE  RunsThere' /\ RunsMove
<1>1. RunsMove
  BY RunsStay DEF IInv
<1>2. \A m \in Run : runs[m] = "none" => \A x \in Name : steps'[m][x] = "none"
  BY RowChanged DEF IInv, RunsThere
<1>. QED  BY <1>1, <1>2 DEF IInv, RunsThere

(* Where the groups' counters look.                                         *)
LEMMA NotOfGroups ==
  /\ \A i \in Item \ Groups, g \in Groups : Of(i) # Of(g) /\ Of(i) \notin Children(g)
  /\ \A g, h \in Groups : g # h => Of(g) # Of(h) /\ Children(g) \cap Children(h) = {}
  /\ \A g, h \in Groups : Of(g) \notin Children(h)
  /\ \A i \in Item : Of(i) \in GroupRow <=> i \in Groups
  /\ \A g \in Groups : Children(g) \cap GroupRow = {}
<1>1. \A i, j : Of(i) = Of(j) => i = j
  BY DEF Of
<1>2. \A g \in Groups : \A s \in Children(g) : s[1] = g /\ s[2] # 0
  BY Kinds DEF Children
<1>3. \A i : Of(i)[1] = i /\ Of(i)[2] = 0
  BY DEF Of
<1>. QED  BY <1>1, <1>2, <1>3, Kinds DEF GroupRow

LEMMA OfferEventStep ==
  ASSUME IInv, NEW n \in Run, NEW i \in Events, OfferEvent(n, i)
  PROVE  Step
<1>. DEFINE s == Of(i)
<1>1. /\ runs[n] # "none" /\ steps[n][s] = "scheduled"
      /\ OneRow(n, s, "ok") /\ tasks' = Inserted(tasks, DeliveredTask(i), n)
      /\ UNCHANGED <<current, runs, remaining, dispatches, calls, cancels, faults>>
      /\ FaultCounted
  BY DEF OfferEvent, OneRow, counts, FaultCounted
<1>2. i \in Item /\ i \notin Groups \cup Captures /\ s \in Name /\ ItemOf(s) = i
      /\ s \notin GroupRow
  BY Kinds, Names, NotOfGroups
<1>3. /\ steps' \in [Run -> [Name -> StepStatus]]
      /\ steps'[n][s] = "ok"
      /\ \A m \in Run, x \in Name : m # n \/ x # s => steps'[m][x] = steps[m][x]
  BY <1>1, <1>2, RowChanged DEF Completed, StepStatus
<1>4. RunsThere' /\ RunsMove
  BY <1>1, <1>2, RunsThereOneRow DEF Completed, StepStatus
<1>. HIDE DEF s
<1>5. tasks' \in [TaskId -> Row] /\ \A u \in TaskId : TaskMoves(u)
  BY <1>1, Ids, InsertedMoves
<1>6. Grow
  <2>1. \A m \in Run, x \in Name : RowGrows(m, x)
    BY <1>1, <1>3 DEF RowGrows, Completed
  <2>. QED  BY <1>1, <1>5, <2>1 DEF Grow, TaskMoves
<1>7. ASSUME NEW m \in Run, NEW x \in Name PROVE StepOK(m, x)'
  <2>1. StepTask(m, x) \in TaskId /\ StepTask(m, x)[1] = "step" /\ StepOK(m, x)
        /\ (x \in MayDie => RetryTask(m, x) \in TaskId)
    BY Ids DEF IInv
  <2>2. CASE m = n /\ x = s
    <3>1. Exists(StepTask(m, x)) /\ TaskMoves(StepTask(m, x))
      BY <1>1, <1>2, <1>5, <2>1, <2>2 DEF StepOK
    <3>2. s \notin MayDie
      BY <1>2, Names
    <3>. QED  BY <1>2, <1>3, <2>1, <2>2, <3>1, <3>2 DEF StepOK, Retried, TaskMoves, Completed
  <2>3. CASE ~(m = n /\ x = s)
    BY <1>3, <1>5, <2>1, <2>3, StepMoves
  <2>. QED  BY <2>2, <2>3
<1>8. ASSUME NEW m \in Run, NEW g \in Groups PROVE GroupOK(m, g)'
  <2>1. s # Of(g) /\ s \notin Children(g)
    BY <1>2, NotOfGroups DEF s
  <2>2. steps'[m][Of(g)] = steps[m][Of(g)] /\ \A x \in Children(g) : steps'[m][x] = steps[m][x]
    BY <1>3, <2>1, Names, Kinds
  <2>. QED  BY <1>1, <2>2, GroupStays
<1>. QED  BY <1>1, <1>3, <1>4, <1>5, <1>6, <1>7, <1>8, DispatchesKept, Assembled
       DEF IInv, TypeOK, TaskMoves

(* A row of a child that stays without a result changes no count.            *)
LEMMA GroupsUncounted ==
  ASSUME IInv, NEW n \in Run, NEW s \in MayDie, NEW v \in {"scheduled", "dead"},
         steps[n][s] \in {"scheduled", "dead"}, OneRow(n, s, v), UNCHANGED remaining,
         NEW m \in Run, NEW g \in Groups
  PROVE  GroupOK(m, g)'
<1>1. /\ s \in Name /\ v \in StepStatus
      /\ \A x \in Children(g) : x \in Name
      /\ Of(g) \in Name /\ Of(g) # s
  BY Names, Kinds DEF StepStatus, GroupRow
<1>2. /\ steps'[n][s] = v
      /\ \A k \in Run, x \in Name : k # n \/ x # s => steps'[k][x] = steps[k][x]
  BY <1>1, RowChanged
<1>3. Uncompleted(m, g)' = Uncompleted(m, g)
  BY <1>1, <1>2 DEF Uncompleted, Completed
<1>4. GroupOK(m, g) /\ steps'[m][Of(g)] = steps[m][Of(g)]
  BY <1>1, <1>2 DEF IInv
<1>5. CASE steps[m][Of(g)] # "none"
  BY <1>3, <1>4, <1>5 DEF GroupOK
<1>6. CASE steps[m][Of(g)] = "none"
  <2>1. ASSUME NEW x \in Children(g) PROVE m # n \/ x # s
    BY <1>4, <1>6 DEF GroupOK
  <2>2. \A x \in Children(g) : steps'[m][x] = steps[m][x]
    BY <1>1, <1>2, <2>1
  <2>. QED  BY <1>4, <1>6, <2>2 DEF GroupOK
<1>. QED  BY <1>5, <1>6

LEMMA RetryDeadStepStep ==
  ASSUME IInv, NEW n \in Run, NEW s \in MayDie, RetryDeadStep(n, s)
  PROVE  Step
<1>. DEFINE t == RetryTask(n, s)
<1>1. /\ steps[n][s] = "dead" /\ OneRow(n, s, "scheduled") /\ tasks' = Inserted(tasks, t, n)
      /\ runs' = [runs EXCEPT ![n] = "running"]
      /\ UNCHANGED <<current, remaining, dispatches, calls, cancels, faults>>
      /\ FaultCounted
  BY DEF RetryDeadStep, OneRow, counts, FaultCounted
<1>2. s \in Name /\ s \notin GroupRow /\ "scheduled" \in StepStatus
  BY Names DEF StepStatus
<1>3. /\ steps' \in [Run -> [Name -> StepStatus]] /\ steps'[n][s] = "scheduled"
      /\ \A m \in Run, x \in Name : m # n \/ x # s => steps'[m][x] = steps[m][x]
  BY <1>1, <1>2, RowChanged
<1>4. /\ StepOK(n, s) /\ ~Exists(t) /\ runs[n] # "none"
      /\ t \in TaskId /\ t[1] = "retry" /\ t[2] = n
  BY <1>1, <1>2, Ids DEF IInv, StepOK, Retried, RunsThere
<1>5. RunsMove
  BY <1>3, <1>4, RetryMoves DEF IInv
<1>6. \A m \in Run : /\ runs[m] # "none" => runs'[m] # "none"
                     /\ runs'[m] = "none" => runs[m] = "none"
  BY <1>1, <1>4 DEF IInv, TypeOK
<1>7. RunsThere'
  <2>1. \A c \in Client : calls[c].run \in Run
    BY DEF IInv, TypeOK, Call
  <2>2. current # NoRun => current \in Run
    BY DEF IInv, TypeOK
  <2>3. \A m \in Run : runs'[m] = "none" => \A x \in Name : steps'[m][x] = "none"
    BY <1>3, <1>4, <1>6 DEF IInv, RunsThere
  <2>. QED  BY <1>1, <1>6, <2>1, <2>2, <2>3, Bounds DEF IInv, RunsThere
<1>8. /\ tasks' \in [TaskId -> Row] /\ tasks'[t] = NewRow(n)
      /\ \A u \in TaskId : u # t => tasks'[u] = tasks[u]
  <2>1. tasks \in [TaskId -> Row]
    BY DEF IInv, TypeOK
  <2>. HIDE DEF t
  <2>. QED  BY <1>1, <1>4, <2>1, Insertion DEF Exists
<1>. HIDE DEF t
<1>9. ASSUME NEW u \in TaskId, u # t PROVE TaskMoves(u)
  BY <1>1, <1>6, <1>8, <1>9, KeptMoves DEF HoldsLock
<1>10. TaskOK(t)' /\ LeaseOK(t)'
  BY <1>1, <1>4, <1>6, <1>8, FaultsCounted, TaskInserted
<1>11. Grow
  <2>1. \A m \in Run, x \in Name : RowGrows(m, x)
    BY <1>1, <1>3 DEF RowGrows, Completed
  <2>. QED  BY <1>4, <1>6, <1>8, <2>1 DEF Grow, Exists
<1>12. ASSUME NEW m \in Run, NEW x \in Name PROVE StepOK(m, x)'
  <2>1. StepTask(m, x) \in TaskId /\ StepTask(m, x) # t
    BY <1>4, Ids
  <2>2. CASE m = n /\ x = s
    <3>1. tasks'[StepTask(n, s)] = tasks[StepTask(n, s)]
      BY <1>8, <2>1, <2>2
    <3>. QED  BY <1>1, <1>2, <1>3, <1>4, <2>2, <3>1 DEF StepOK, Retried, Exists, Completed
  <2>3. CASE ~(m = n /\ x = s)
    <3>1. x \in MayDie => RetryTask(m, x) \in TaskId /\ RetryTask(m, x) # t
      BY <2>3, Ids DEF t
    <3>. QED  BY <1>3, <1>9, <2>1, <2>3, <3>1, StepMoves
  <2>. QED  BY <2>2, <2>3
<1>13. \A m \in Run, g \in Groups : GroupOK(m, g)'
  BY <1>1, GroupsUncounted
<1>14. \A u \in TaskId : TaskOK(u)' /\ LeaseOK(u)'
  BY <1>9, <1>10 DEF TaskMoves
<1>. QED  BY <1>1, <1>3, <1>5, <1>7, <1>8, <1>11, <1>12, <1>13, <1>14, DispatchesKept, Assembled
       DEF IInv, TypeOK

LEMMA RestartStep ==
  ASSUME IInv, NEW P \in SUBSET {s \in Name : ItemOf(s) \in Preservable}, Restart(P)
  PROVE  Step
<1>1. /\ current \in Run /\ runs[current] # "none" /\ FaultCounted
      /\ UNCHANGED <<remaining, dispatches, calls, cancels, faults>>
  BY DEF Restart, counts, FaultCounted, IInv, TypeOK, RunsThere
<1>2. PICK n \in Run :
        /\ NewRun(n) /\ tasks' = Inserted(tasks, StartTask(n), n)
        /\ steps' = [steps EXCEPT ![n] = [s \in Name |->
             IF s \in Kept(current, P) THEN steps[current][s] ELSE "none"]]
  BY DEF Restart
<1>3. runs[n] = "none" /\ n # current
  BY <1>1, <1>2 DEF NewRun
<1>4. /\ RunsMove /\ \A m \in Run : runs[m] # "none" => runs'[m] # "none"
      /\ runs'[n] # "none" /\ runs'[0] # "none" /\ current' = n
  BY <1>2, NewRunStays
<1>5. tasks' \in [TaskId -> Row] /\ \A u \in TaskId : TaskMoves(u)
  BY <1>1, <1>2, <1>4, Ids, InsertedMoves
<1>6. /\ steps' \in [Run -> [Name -> StepStatus]]
      /\ \A m \in Run : m # n => steps'[m] = steps[m]
      /\ \A s \in Name : \/ steps'[n][s] = "none"
                         \/ /\ steps'[n][s] = steps[current][s] /\ steps'[n][s] \in Completed
                            /\ ItemOf(s) \in Preservable
  <2>1. steps \in [Run -> [Name -> StepStatus]]
    BY DEF IInv, TypeOK
  <2>2. [s \in Name |-> IF s \in Kept(current, P) THEN steps[current][s] ELSE "none"]
          \in [Name -> StepStatus]
    BY <1>1, <2>1 DEF StepStatus
  <2>3. \A s \in Name : s \in Kept(current, P) =>
          steps[current][s] \in Completed /\ ItemOf(s) \in Preservable
    BY DEF Kept
  <2>. QED  BY <1>2, <2>1, <2>2, <2>3
<1>7. Grow
  BY <1>3, <1>4, <1>5, <1>6 DEF Grow, RowGrows, TaskMoves
<1>8. RunsThere'
  <2>1. \A m \in Run : runs'[m] = "none" => m # n /\ runs[m] = "none"
    BY <1>4
  <2>2. \A m \in Run : runs'[m] = "none" => \A s \in Name : steps'[m][s] = "none"
    BY <1>6, <2>1 DEF IInv, RunsThere
  <2>3. \A c \in Client : calls'[c].phase = "scheduling" => runs'[calls'[c].run] # "none"
    BY <1>1, <1>4 DEF IInv, RunsThere, TypeOK, Call
  <2>. QED  BY <1>4, <2>2, <2>3 DEF RunsThere
<1>9. ASSUME NEW m \in Run, NEW s \in Name PROVE StepOK(m, s)'
  <2>1. CASE m # n
    BY <1>5, <1>6, <2>1, Ids, StepMoves
  <2>2. CASE m = n
    <3>1. StepTask(n, s) \in TaskId /\ StepTask(n, s)[1] = "step"
      BY Ids
    <3>2. ~Exists(StepTask(n, s))
      BY <1>3 DEF IInv, StepOK, RunsThere
    <3>3. ~Exists(StepTask(n, s))' /\ ~Retried(n, s)'
      <4>1. ~Retried(n, s)
        BY <1>3 DEF IInv, StepOK, RunsThere
      <4>. QED  BY <1>5, <3>1, <3>2, <4>1, Ids DEF TaskMoves, Retried
    <3>4. tasks'[StepTask(n, s)].status = "absent"
      BY <3>3, Rows DEF Exists
    <3>5. steps'[n][s] \notin {"scheduled", "dead"}
      BY <1>6 DEF Completed
    <3>6. StepOK(current, s)
      BY <1>1 DEF IInv
    <3>7. CASE steps'[n][s] = "none"
      BY <2>2, <3>3, <3>7 DEF StepOK, Completed
    <3>8. CASE steps'[n][s] = steps[current][s]
      BY <2>2, <3>3, <3>4, <3>5, <3>6, <3>8 DEF StepOK
    <3>. QED  BY <1>6, <3>7, <3>8
  <2>. QED  BY <2>1, <2>2
<1>10. ASSUME NEW m \in Run, NEW g \in Groups PROVE GroupOK(m, g)'
  <2>1. CASE m # n
    BY <1>1, <1>6, <2>1, GroupStays
  <2>2. CASE m = n
    <3>1. /\ Of(g) \in Name /\ Of(g) \in GroupRow
          /\ \A s \in Children(g) : s \in Name /\ ItemOf(s) = g
      BY Names, Kinds DEF GroupRow
    <3>2. steps[current][Of(g)] \notin Completed
      BY <1>1, <3>1 DEF IInv, StepOK
    <3>3. steps'[n][Of(g)] = "none"
      BY <1>6, <3>1, <3>2
    <3>4. \A s \in Children(g) : /\ steps'[n][s] \notin {"scheduled", "dead"}
                                 /\ g \notin Preservable => steps'[n][s] = "none"
      BY <1>6, <3>1 DEF Completed
    <3>. QED  BY <2>2, <3>3, <3>4 DEF GroupOK
  <2>. QED  BY <2>1, <2>2
<1>. QED  BY <1>1, <1>4, <1>5, <1>6, <1>7, <1>8, <1>9, <1>10, DispatchesKept, Assembled
       DEF IInv, TypeOK, TaskMoves

LEMMA CaptureValueStep ==
  ASSUME IInv, NEW d \in dispatches, CaptureValue(d)
  PROVE  Step
<1>0. PICK n \in Run : n = RunOf(d) /\ runs[n] # "none"
  BY RunOfDispatch
<1>1. PICK j \in Captures : d.at = Of(j)
  BY DEF CaptureValue, IInv, DispatchOK, PhaseOK
<1>2. /\ d \in Dispatch /\ d.task \in TaskId /\ ~IsStepTask(d)
  BY RunOfDispatch DEF CaptureValue, IInv, DispatchOK, PhaseOK
<1>3. /\ UNCHANGED <<current, runs, remaining, tasks, calls, cancels, faults>> /\ FaultCounted
  BY DEF CaptureValue, counts, FaultCounted
<1>4. /\ Of(j) \in Name /\ ItemOf(Of(j)) = j /\ j \notin Groups \cup Events /\ Of(j) \notin GroupRow
      /\ j \in Item
  BY Kinds, Names, NotOfGroups
<1>5. PICK v \in Completed, w \in {"null"} \cup Completed :
        /\ steps' = IF steps[n][Of(j)] = "none" THEN [steps EXCEPT ![n][Of(j)] = v] ELSE steps
        /\ v = "err" => j = Decider
        /\ Become(d, [Then(d, "replaying") EXCEPT !.own = w])
  <2>1. PICK v \in IF ItemOf(d.at) = Decider THEN Completed ELSE {"ok"} :
          /\ steps' = IF steps[n][Of(j)] = "none" THEN [steps EXCEPT ![n][Of(j)] = v] ELSE steps
          /\ Become(d, [Then(d, "replaying") EXCEPT !.own = IF ItemOf(d.at) = Decider THEN v ELSE @])
    BY <1>0, <1>1 DEF CaptureValue
  <2>2. v \in Completed /\ (v = "err" => j = Decider)
    BY <1>1, <1>4 DEF Completed
  <2>3. Then(d, "replaying").own \in {"null"} \cup Completed
    <3>. HIDE DEF Name, TaskId
    <3>. QED  BY <1>2 DEF Then, Dispatch
  <2>. QED  BY <2>1, <2>2, <2>3
<1>6. PICK e : e = [Then(d, "replaying") EXCEPT !.own = w]
  OBVIOUS
<1>7. e \in Dispatch /\ e.task = d.task /\ e.attempt = d.attempt /\ e.phase = "replaying"
  <2>1. "replaying" \in Phases
    BY DEF Phases
  <2>2. /\ Then(d, "replaying") \in Dispatch /\ Then(d, "replaying").task = d.task
        /\ Then(d, "replaying").attempt = d.attempt /\ Then(d, "replaying").phase = "replaying"
    BY <1>2, <2>1, Thens
  <2>3. PICK f \in Dispatch : f = Then(d, "replaying")
    BY <2>2
  <2>. HIDE DEF Name, TaskId
  <2>. QED  BY <1>6, <2>2, <2>3 DEF Dispatch
<1>8. PhaseOK(e) /\ PhaseOK(e)' /\ Become(d, e)
  BY <1>2, <1>5, <1>6, <1>7 DEF PhaseOK, IsStepTask
<1>9. CASE steps[n][Of(j)] # "none"
  <2>1. UNCHANGED <<current, steps, remaining, tasks, calls, cancels>> /\ RunsKeepOn
    BY <1>3, <1>5, <1>9, RunsKept
  <2>. QED  BY <1>3, <1>7, <1>8, <2>1, DispatchMoves
<1>10. CASE steps[n][Of(j)] = "none"
  <2>1. OneRow(n, Of(j), v) /\ v \in StepStatus
    BY <1>5, <1>10 DEF OneRow, StepStatus
  <2>2. /\ steps' \in [Run -> [Name -> StepStatus]]
        /\ steps'[n][Of(j)] = v
        /\ \A m \in Run, x \in Name : m # n \/ x # Of(j) => steps'[m][x] = steps[m][x]
    BY <1>4, <2>1, RowChanged
  <2>3. RunsThere' /\ RunsMove
    BY <1>0, <1>3, <1>4, <2>1, RunsThereOneRow
  <2>4. \A u \in TaskId : TaskMoves(u)
    BY <1>3, <1>7, <1>8, HolderMoves, KeptMoves DEF HoldsLock
  <2>5. Grow
    <3>1. \A m \in Run, x \in Name : RowGrows(m, x)
      BY <1>4, <1>10, <2>2 DEF RowGrows, Completed
    <3>. QED  BY <1>3, <3>1 DEF Grow, Exists
  <2>6. ASSUME NEW m \in Run, NEW x \in Name PROVE StepOK(m, x)'
    <3>1. StepTask(m, x) \in TaskId /\ StepTask(m, x)[1] = "step" /\ StepOK(m, x)
      BY Ids DEF IInv
    <3>2. CASE m = n /\ x = Of(j)
      <4>1. ~Exists(StepTask(m, x))
        BY <1>10, <3>1, <3>2 DEF StepOK
      <4>2. ~Exists(StepTask(m, x))' /\ tasks'[StepTask(m, x)].status = "absent" /\ x \notin MayDie
        BY <1>3, <1>4, <3>2, <4>1, Rows, Names DEF Exists
      <4>3. j \in Captures /\ steps'[m][x] = v /\ v \notin {"scheduled", "dead"}
        BY <2>2, <3>2 DEF Completed
      <4>. QED  BY <1>4, <1>5, <3>2, <4>2, <4>3 DEF StepOK, Retried
    <3>3. CASE ~(m = n /\ x = Of(j))
      BY <2>2, <2>4, <3>1, <3>3, Ids, StepMoves
    <3>. QED  BY <3>2, <3>3
  <2>7. ASSUME NEW m \in Run, NEW g \in Groups PROVE GroupOK(m, g)'
    <3>1. Of(j) # Of(g) /\ Of(j) \notin Children(g)
      BY <1>4, NotOfGroups
    <3>2. steps'[m][Of(g)] = steps[m][Of(g)] /\ \A x \in Children(g) : steps'[m][x] = steps[m][x]
      BY <2>2, <3>1, Names, Kinds
    <3>. QED  BY <1>3, <3>2, GroupStays
  <2>8. dispatches' \subseteq Dispatch /\ \A x \in dispatches' : DispatchOK(x)'
    BY <1>7, <1>8, <2>5, DispatchesMove
  <2>. QED  BY <1>3, <2>2, <2>3, <2>4, <2>5, <2>6, <2>7, <2>8, Assembled
         DEF IInv, TypeOK, TaskMoves
<1>. QED  BY <1>9, <1>10

(* What a replay does after it has scheduled a step.                         *)
LEMMA ScheduledOK ==
  ASSUME IInv, NEW d \in dispatches, d.phase = "scheduling",
         NEW e, e = IF IsChild(d.at) THEN Visited(d, FALSE) ELSE Then(d, "concluding")
  PROVE  e \in Dispatch /\ e.task = d.task /\ e.attempt = d.attempt /\ PhaseOK(e)
<1>1. d \in Dispatch /\ (AtPlain(d) \/ (AtChild(d) /\ ~IsStepTask(d)))
  BY RunOfDispatch DEF IInv, DispatchOK, PhaseOK
<1>2. CASE AtPlain(d)
  <2>1. e = Then(d, "concluding") /\ "concluding" \in Phases
    BY <1>2, Names DEF AtPlain, Phases
  <2>2. /\ Then(d, "concluding") \in Dispatch /\ Then(d, "concluding").task = d.task
        /\ Then(d, "concluding").attempt = d.attempt
    BY <1>1, <2>1, Thens
  <2>. QED  BY <1>1, <2>1, <2>2, PhaseFree
<1>3. CASE AtChild(d) /\ ~IsStepTask(d)
  <2>1. e = Visited(d, FALSE)
    BY <1>3, Names DEF AtChild
  <2>. QED  BY <1>1, <1>3, <2>1, VisitedOK
<1>. QED  BY <1>1, <1>2, <1>3

LEMMA ScheduleStepStep ==
  ASSUME IInv, NEW d \in dispatches, ScheduleStep(d)
  PROVE  Step
<1>. DEFINE s == d.at
<1>0. PICK n \in Run : n = RunOf(d) /\ runs[n] # "none"
  BY RunOfDispatch
<1>1. /\ UNCHANGED <<current, runs, remaining, calls, cancels, faults>> /\ FaultCounted
      /\ tasks' = Inserted(tasks, StepTask(n, s), n)
      /\ steps' = IF steps[n][s] = "none" THEN [steps EXCEPT ![n][s] = "scheduled"] ELSE steps
  BY <1>0 DEF ScheduleStep, counts, FaultCounted
<1>2. PICK e : e = IF IsChild(d.at) THEN Visited(d, FALSE) ELSE Then(d, "concluding")
  OBVIOUS
<1>3. Become(d, e)
  BY <1>2 DEF ScheduleStep
<1>4. e \in Dispatch /\ e.task = d.task /\ e.attempt = d.attempt /\ PhaseOK(e) /\ d \in Dispatch
  BY <1>2, ScheduledOK, RunOfDispatch DEF ScheduleStep
<1>5. /\ steps[n][s] = "none" \/ Exists(StepTask(n, s))
      /\ \/ \E i \in Item \ (Groups \cup Captures) : s = Of(i)
         \/ \E g \in Groups : s \in Children(g) /\ steps[n][Of(g)] # "none"
  BY <1>0 DEF ScheduleStep, IInv, DispatchOK, PhaseOK, AtPlain, AtChild
<1>6. s \in Name /\ ItemOf(s) \notin Captures /\ s \notin GroupRow
  <2>1. \A i \in Item \ (Groups \cup Captures) :
          Of(i) \in Name /\ ItemOf(Of(i)) \notin Captures /\ Of(i) \notin GroupRow
    BY Names, NotOfGroups
  <2>2. \A g \in Groups : \A x \in Children(g) :
          x \in Name /\ ItemOf(x) \notin Captures /\ x \notin GroupRow
    BY Names, NotOfGroups, Kinds
  <2>. QED  BY <1>5, <2>1, <2>2
<1>7. StepTask(n, s) \in TaskId /\ StepTask(n, s)[1] = "step" /\ StepTask(n, s)[2] = n
      /\ StepOK(n, s)
  BY <1>6, Ids DEF IInv
<1>8. tasks \in [TaskId -> Row]
  BY DEF IInv, TypeOK
<1>9. CASE Exists(StepTask(n, s))
  <2>1. UNCHANGED <<tasks, steps>>
    BY <1>1, <1>7, <1>9 DEF Inserted, Exists, StepOK
  <2>2. RunsKeepOn
    BY <1>1, RunsKept
  <2>. QED  BY <1>1, <1>3, <1>4, <2>1, <2>2, DispatchMoves
<1>10. CASE ~Exists(StepTask(n, s))
  <2>1. OneRow(n, s, "scheduled") /\ steps[n][s] = "none"
    BY <1>1, <1>5, <1>10 DEF OneRow
  <2>2. /\ steps' \in [Run -> [Name -> StepStatus]]
        /\ steps'[n][s] = "scheduled"
        /\ \A m \in Run, x \in Name : m # n \/ x # s => steps'[m][x] = steps[m][x]
    BY <1>6, <2>1, RowChanged DEF StepStatus
  <2>3. RunsThere' /\ RunsMove
    BY <1>0, <1>1, <1>6, <2>1, RunsThereOneRow DEF StepStatus
  <2>4. /\ tasks' \in [TaskId -> Row] /\ tasks'[StepTask(n, s)] = NewRow(n)
        /\ \A u \in TaskId : u # StepTask(n, s) => tasks'[u] = tasks[u]
    BY <1>1, <1>7, <1>8, <1>10, Insertion DEF Exists
  <2>5. Exists(StepTask(n, s))'
    BY <2>4, Rows DEF Exists
  <2>6. ASSUME NEW u \in TaskId, u # StepTask(n, s) PROVE TaskMoves(u)
    <3>1. tasks'[u] = tasks[u] /\ \A m \in Run : runs[m] # "none" => runs'[m] # "none"
      BY <1>1, <2>4, <2>6
    <3>2. \A x \in dispatches : x.task = u /\ HoldsLock(x) =>
            \E y \in dispatches' : y.task = u /\ y.attempt = tasks[u].attempt
      BY <1>3, <1>4, HolderMoves DEF HoldsLock
    <3>. QED  BY <1>1, <3>1, <3>2, KeptMoves
  <2>7. TaskOK(StepTask(n, s))' /\ LeaseOK(StepTask(n, s))'
    BY <1>0, <1>1, <1>7, <2>4, FaultsCounted, TaskInserted
  <2>8. Grow
    <3>1. \A m \in Run, x \in Name : RowGrows(m, x)
      BY <2>1, <2>2, <2>5 DEF RowGrows, Completed
    <3>. QED  BY <1>1, <1>10, <2>4, <3>1 DEF Grow, Exists
  <2>9. ASSUME NEW m \in Run, NEW x \in Name PROVE StepOK(m, x)'
    <3>1. CASE m = n /\ x = s
      <4>1. ~Retried(n, s)
        BY <1>7, <2>1 DEF StepOK
      <4>2. ~Retried(n, s)'
        BY <1>7, <2>4, <4>1, Ids DEF Retried, Exists
      <4>. QED  BY <1>6, <2>2, <2>5, <3>1, <4>2 DEF StepOK, Completed
    <3>2. CASE ~(m = n /\ x = s)
      <4>1. /\ StepTask(m, x) \in TaskId /\ StepTask(m, x) # StepTask(n, s)
            /\ x \in MayDie => RetryTask(m, x) \in TaskId /\ RetryTask(m, x) # StepTask(n, s)
        BY <1>6, <3>2, Ids
      <4>. QED  BY <2>2, <2>6, <3>2, <4>1, StepMoves
    <3>. QED  BY <3>1, <3>2
  <2>10. ASSUME NEW m \in Run, NEW g \in Groups PROVE GroupOK(m, g)'
    <3>1. \A x \in Children(g) : x \in Name
      BY Names
    <3>2. Of(g) # s /\ steps'[m][Of(g)] = steps[m][Of(g)]
      BY <1>6, <2>2, Names, Kinds DEF GroupRow
    <3>3. Uncompleted(m, g)' = Uncompleted(m, g)
      BY <2>1, <2>2, <3>1 DEF Uncompleted, Completed
    <3>4. GroupOK(m, g) /\ UNCHANGED remaining
      BY <1>1 DEF IInv
    <3>5. CASE m = n /\ s \in Children(g)
      <4>1. steps[m][Of(g)] # "none"
        BY <1>5, <3>5, NotOfGroups
      <4>. QED  BY <3>2, <3>3, <3>4, <4>1 DEF GroupOK
    <3>6. CASE ~(m = n /\ s \in Children(g))
      <4>1. \A x \in Children(g) : steps'[m][x] = steps[m][x]
        BY <2>2, <3>1, <3>6
      <4>. QED  BY <3>2, <3>3, <3>4, <4>1 DEF GroupOK
    <3>. QED  BY <3>5, <3>6
  <2>11. PhaseOK(e)'
    <3>1. Exists(e.task)
      BY <1>4 DEF IInv, DispatchOK
    <3>2. RunOf(e) = RunOf(d)
      BY <1>4 DEF RunOf
    <3>. QED  BY <1>0, <1>4, <2>8, <3>1, <3>2, PhaseStays
  <2>12. dispatches' \subseteq Dispatch /\ \A x \in dispatches' : DispatchOK(x)'
    BY <1>3, <1>4, <2>8, <2>11, DispatchesMove
  <2>13. \A u \in TaskId : TaskOK(u)' /\ LeaseOK(u)'
    BY <2>6, <2>7 DEF TaskMoves
  <2>. QED  BY <1>1, <2>2, <2>3, <2>4, <2>8, <2>9, <2>10, <2>12, <2>13, Assembled
         DEF IInv, TypeOK
<1>. QED  BY <1>9, <1>10

LEMMA ChildrenCount ==
  ASSUME NEW g \in Groups
  PROVE  IsFiniteSet(Children(g)) /\ Cardinality(Children(g)) = Fanout
<1>1. Fanout \in Nat \ {0}
  BY Kinds
<1>2. IsFiniteSet(1..Fanout) /\ Cardinality(1..Fanout) = Fanout
  BY <1>1, FS_Interval
<1>. DEFINE f == [c \in 1..Fanout |-> <<g, c>>]
<1>3. f \in Bijection(1..Fanout, Children(g))
  BY DEF Children, Bijection, Injection, Surjection, IsInjective
<1>4. ExistsBijection(1..Fanout, Children(g))
  BY <1>3 DEF ExistsBijection
<1>. QED  BY <1>2, <1>4, FS_Bijection

LEMMA UpsertGroupStep ==
  ASSUME IInv, NEW d \in dispatches, UpsertGroup(d)
  PROVE  Step
<1>0. PICK n \in Run : n = RunOf(d) /\ runs[n] # "none"
  BY RunOfDispatch
<1>1. PICK g \in Groups : d.at = Of(g)
  BY DEF UpsertGroup, IInv, DispatchOK, PhaseOK
<1>2. d \in Dispatch /\ d.task \in TaskId /\ ~IsStepTask(d)
  BY RunOfDispatch DEF UpsertGroup, IInv, DispatchOK, PhaseOK
<1>3. /\ Of(g) \in Name /\ ItemOf(Of(g)) = g /\ g \notin Captures /\ Of(g) \in GroupRow
      /\ <<g, 1>> \in Name /\ <<g, 1>> \in Children(g)
  BY Kinds, Names DEF GroupRow
<1>4. PICK e : e = [d EXCEPT !.phase = "visiting", !.at = <<g, 1>>]
  OBVIOUS
<1>5. /\ UNCHANGED <<current, runs, tasks, calls, cancels, faults>> /\ FaultCounted
      /\ Become(d, e)
      /\ steps[n][Of(g)] = "none" =>
           /\ OneRow(n, Of(g), "scheduled")
           /\ remaining' = [remaining EXCEPT ![n][g] = Fanout]
      /\ steps[n][Of(g)] # "none" => UNCHANGED <<steps, remaining>>
  BY <1>0, <1>1, <1>3, <1>4 DEF UpsertGroup, GroupRowAbsent, OneRow, counts, FaultCounted
<1>6. /\ e \in Dispatch /\ e.task = d.task /\ e.attempt = d.attempt
      /\ e.phase = "visiting" /\ e.at = <<g, 1>>
  <2>. HIDE DEF Name, TaskId
  <2>. QED  BY <1>2, <1>3, <1>4 DEF Dispatch
<1>7. ~IsStepTask(e) /\ RunOf(e) = n
  BY <1>0, <1>2, <1>6 DEF IsStepTask, RunOf
<1>8. CASE steps[n][Of(g)] # "none"
  <2>1. PhaseOK(e)
    BY <1>3, <1>6, <1>7, <1>8 DEF PhaseOK, AtChild
  <2>. QED  BY <1>5, <1>6, <1>8, <2>1, RunsKept, DispatchMoves
<1>9. CASE steps[n][Of(g)] = "none"
  <2>1. OneRow(n, Of(g), "scheduled") /\ remaining' = [remaining EXCEPT ![n][g] = Fanout]
    BY <1>5, <1>9
  <2>2. /\ steps' \in [Run -> [Name -> StepStatus]]
        /\ steps'[n][Of(g)] = "scheduled"
        /\ \A m \in Run, x \in Name : m # n \/ x # Of(g) => steps'[m][x] = steps[m][x]
    BY <1>3, <2>1, RowChanged DEF StepStatus
  <2>3. /\ remaining' \in [Run -> [Groups -> 0..Fanout]] /\ remaining'[n][g] = Fanout
        /\ \A m \in Run, h \in Groups : m # n \/ h # g => remaining'[m][h] = remaining[m][h]
    BY <2>1, Kinds DEF IInv, TypeOK
  <2>4. RunsThere' /\ RunsMove
    BY <1>0, <1>3, <1>5, <2>1, RunsThereOneRow DEF StepStatus
  <2>5. \A u \in TaskId : TaskMoves(u)
    BY <1>5, <1>6, HolderMoves, KeptMoves DEF HoldsLock
  <2>6. Grow
    <3>1. \A m \in Run, x \in Name : RowGrows(m, x)
      BY <1>3, <1>9, <2>2 DEF RowGrows, Completed
    <3>. QED  BY <1>5, <3>1 DEF Grow, Exists
  <2>7. ASSUME NEW m \in Run, NEW x \in Name PROVE StepOK(m, x)'
    <3>1. StepTask(m, x) \in TaskId /\ StepOK(m, x)
      BY Ids DEF IInv
    <3>2. CASE m = n /\ x = Of(g)
      <4>1. ~Exists(StepTask(m, x)) /\ x \notin MayDie
        BY <1>3, <1>9, <3>1, <3>2, Names DEF StepOK
      <4>. QED  BY <1>3, <1>5, <2>2, <3>2, <4>1 DEF StepOK, Retried, Completed, Exists
    <3>3. CASE ~(m = n /\ x = Of(g))
      BY <2>2, <2>5, <3>1, <3>3, Ids, StepMoves
    <3>. QED  BY <3>2, <3>3
  <2>8. ASSUME NEW m \in Run, NEW h \in Groups PROVE GroupOK(m, h)'
    <3>1. \A x \in Children(h) : steps'[m][x] = steps[m][x]
      <4>1. Of(g) \notin Children(h)
        BY NotOfGroups
      <4>. QED  BY <2>2, <4>1, Names
    <3>2. CASE m = n /\ h = g
      <4>1. Uncompleted(n, g)' \in SUBSET Children(g)
        BY DEF Uncompleted
      <4>2. Cardinality(Uncompleted(n, g)') <= Fanout
        BY <4>1, ChildrenCount, FS_Subset
      <4>3. ASSUME g \notin Preservable PROVE Cardinality(Uncompleted(n, g)') = Fanout
        <5>1. GroupOK(n, g)
          BY DEF IInv
        <5>2. \A x \in Children(g) : steps'[n][x] = "none"
          BY <1>9, <3>1, <3>2, <4>3, <5>1 DEF GroupOK
        <5>3. Uncompleted(n, g)' = Children(g)
          BY <5>2 DEF Uncompleted, Completed
        <5>. QED  BY <5>3, ChildrenCount
      <4>. QED  BY <2>2, <2>3, <3>2, <4>2, <4>3 DEF GroupOK
    <3>3. CASE ~(m = n /\ h = g)
      <4>1. Of(h) \in Name /\ (m # n \/ Of(h) # Of(g))
        BY <3>3, Kinds, Names, NotOfGroups
      <4>. QED  BY <2>2, <2>3, <3>1, <3>3, <4>1, GroupStays
    <3>. QED  BY <3>2, <3>3
  <2>9. PhaseOK(e)'
    <3>1. AtChild(e)'
      BY <1>0, <1>3, <1>5, <1>6, <2>2 DEF AtChild, RunOf
    <3>. QED  BY <1>6, <1>7, <3>1 DEF PhaseOK, IsStepTask
  <2>10. dispatches' \subseteq Dispatch /\ \A x \in dispatches' : DispatchOK(x)'
    BY <1>5, <1>6, <2>6, <2>9, DispatchesMove
  <2>. QED  BY <1>5, <2>2, <2>3, <2>4, <2>5, <2>6, <2>7, <2>8, <2>10, Assembled
         DEF IInv, TypeOK, TaskMoves
<1>. QED  BY <1>8, <1>9

(* The step whose completion is written has no other result, and if it is a  *)
(* child, its group counts it.                                              *)
LEMMA CompletionFacts ==
  ASSUME IInv, NEW d \in dispatches, CompleteStep(d) \/ FailChild(d), NEW n, n = RunOf(d),
         NEW s, s = Target(d)
  PROVE  /\ n \in Run /\ runs[n] # "none" /\ s \in Name /\ d.task = StepTask(n, s)
         /\ d.task \in TaskId /\ tasks[d.task].status = "picked_up" /\ Exists(d.task)
         /\ steps[n][s] \notin {"none", "dead"} /\ ~Retried(n, s)
         /\ s \notin GroupRow /\ ItemOf(s) \notin Captures
         /\ steps[n][s] \in Completed =>
              ItemOf(s) \in Events /\ steps[n][s] = "ok" /\ d.result # "err"
         /\ d.result = "err" => ItemOf(s) \in Fallible
         /\ d.result = "dead" => s \in MayDie
<1>1. /\ IsStepTask(d) /\ d \in Dispatch /\ d.phase = "stepping" /\ HoldsLock(d)
      /\ ~IsRetry(d.task) /\ (d.result = "dead" => s \in MayDie)
      /\ d.result = "err" => ItemOf(s) \in Fallible
      /\ ItemOf(s) \in Events => d.result = "ok" /\ steps[n][s] = "ok"
  BY RunOfDispatch DEF CompleteStep, FailChild, MayRecord, IInv, DispatchOK, PhaseOK
<1>2. /\ n \in Run /\ runs[n] # "none" /\ s \in Name /\ d.task = StepTask(n, s)
      /\ d.task \in TaskId
  BY <1>1, RunOfDispatch
<1>3. tasks[d.task].status = "picked_up" /\ Exists(d.task)
  BY <1>1, Rows DEF HoldsLock, Exists
<1>4. StepOK(n, s)
  BY <1>2 DEF IInv
<1>. QED  BY <1>1, <1>2, <1>3, <1>4 DEF StepOK

LEMMA ChildCounted ==
  ASSUME IInv, NEW n \in Run, NEW g \in Groups, NEW s \in Children(g),
         steps[n][s] = "scheduled", NEW v \in Completed, OneRow(n, s, v),
         remaining' = [remaining EXCEPT ![n][g] = @ - 1]
  PROVE  /\ remaining' \in [Run -> [Groups -> 0..Fanout]]
         /\ \A m \in Run, h \in Groups : GroupOK(m, h)'
<1>1. s \in Name /\ ItemOf(s) = g /\ Of(g) \in Name /\ g \in Item
  BY Names, Kinds
<1>2. /\ steps'[n][s] = v
      /\ \A m \in Run, x \in Name : m # n \/ x # s => steps'[m][x] = steps[m][x]
  BY <1>1, RowChanged DEF StepStatus
<1>3. GroupOK(n, g) /\ steps[n][Of(g)] # "none"
  BY DEF IInv, GroupOK
<1>4. Uncompleted(n, g) \in SUBSET Children(g) /\ s \in Uncompleted(n, g)
  BY DEF Uncompleted, Completed
<1>5. Uncompleted(n, g)' = Uncompleted(n, g) \ {s}
  BY <1>2, Names DEF Uncompleted
<1>6. IsFiniteSet(Uncompleted(n, g))
  BY <1>4, ChildrenCount, FS_Subset
<1>7. Cardinality(Uncompleted(n, g)') = Cardinality(Uncompleted(n, g)) - 1
      /\ Cardinality(Uncompleted(n, g)) \in Nat /\ Cardinality(Uncompleted(n, g)) # 0
  <2>1. Cardinality(Uncompleted(n, g) \ {s}) = Cardinality(Uncompleted(n, g)) - 1
    BY <1>4, <1>6, FS_RemoveElement
  <2>2. Cardinality(Uncompleted(n, g)) \in Nat
    BY <1>6, FS_CardinalityType
  <2>3. Cardinality(Uncompleted(n, g)) # 0
    BY <1>4, <1>6, FS_EmptySet
  <2>. QED  BY <1>5, <2>1, <2>2, <2>3
<1>8. remaining[n][g] \in 0..Fanout /\ Cardinality(Uncompleted(n, g)) <= remaining[n][g]
  BY <1>3 DEF GroupOK, IInv, TypeOK
<1>9. remaining[n][g] - 1 \in 0..Fanout
  BY <1>7, <1>8, Kinds
<1>10. /\ remaining' \in [Run -> [Groups -> 0..Fanout]] /\ remaining'[n][g] = remaining[n][g] - 1
       /\ \A m \in Run, h \in Groups : m # n \/ h # g => remaining'[m][h] = remaining[m][h]
  BY <1>9 DEF IInv, TypeOK
<1>11. ASSUME NEW m \in Run, NEW h \in Groups PROVE GroupOK(m, h)'
  <2>1. Of(h) # s /\ Of(h) \in Name
    BY NotOfGroups, Kinds, Names
  <2>2. steps'[m][Of(h)] = steps[m][Of(h)]
    BY <1>2, <2>1
  <2>3. CASE m = n /\ h = g
    <3>1. Cardinality(Uncompleted(n, g)') <= remaining'[n][g]
      BY <1>7, <1>8, <1>10, Kinds
    <3>2. g \notin Preservable => remaining'[n][g] = Cardinality(Uncompleted(n, g)')
      BY <1>3, <1>7, <1>10 DEF GroupOK
    <3>. QED  BY <1>3, <2>2, <2>3, <3>1, <3>2 DEF GroupOK
  <2>4. CASE ~(m = n /\ h = g)
    <3>1. m # n \/ s \notin Children(h)
      BY <1>1, <2>4, NotOfGroups
    <3>2. \A x \in Children(h) : steps'[m][x] = steps[m][x]
      BY <1>2, <3>1, Names
    <3>. QED  BY <1>10, <2>2, <2>4, <3>2, GroupStays
  <2>. QED  BY <2>3, <2>4
<1>. QED  BY <1>10, <1>11

LEMMA ResumedRows ==
  ASSUME NEW d \in dispatches, NEW n \in Run, NEW s \in Name, d.task \in TaskId,
         d.task = StepTask(n, s), tasks \in [TaskId -> Row], tasks[d.task] # Absent,
         tasks' = Resumed(Settled(d, "completed"), n, s)
  PROVE  /\ tasks' \in [TaskId -> Row]
         /\ tasks'[d.task] = [tasks[d.task] EXCEPT !.status = "completed"]
         /\ \A u \in TaskId : u # d.task =>
              \/ tasks'[u] = tasks[u]
              \/ tasks[u] = Absent /\ tasks'[u] = NewRow(n) /\ u = AfterTask(n, ItemOf(s))
<1>. DEFINE rows == Settled(d, "completed")
            t == AfterTask(n, ItemOf(s))
<1>1. /\ rows \in [TaskId -> Row] /\ rows[d.task] = [tasks[d.task] EXCEPT !.status = "completed"]
      /\ \A u \in TaskId : u # d.task => rows[u] = tasks[u]
  <2>1. [tasks[d.task] EXCEPT !.status = "completed"] \in Row
    BY DEF Row, Ended
  <2>. QED  BY <2>1 DEF Settled
<1>2. t \in TaskId /\ t # d.task
  BY Ids, Names
<1>. HIDE DEF rows, t
<1>3. CASE tasks' = rows
  BY <1>1, <1>3
<1>4. CASE tasks' = Inserted(rows, t, n)
  <2>1. /\ tasks' \in [TaskId -> Row]
        /\ \A u \in TaskId : tasks'[u] = IF u = t /\ rows[t] = Absent THEN NewRow(n) ELSE rows[u]
    BY <1>1, <1>2, <1>4, Insertion
  <2>. QED  BY <1>1, <1>2, <2>1 DEF t
<1>. QED  BY <1>3, <1>4 DEF Resumed, rows, t

LEMMA CompleteStepStep ==
  ASSUME IInv, NEW d \in dispatches, CompleteStep(d)
  PROVE  Step
<1>. DEFINE s == Target(d)
            v == IF d.result = "err" THEN "err" ELSE "ok"
<1>0. PICK n \in Run : n = RunOf(d)
  BY RunOfDispatch
<1>1. /\ runs[n] # "none" /\ s \in Name /\ d.task = StepTask(n, s)
      /\ d.task \in TaskId /\ tasks[d.task].status = "picked_up" /\ Exists(d.task)
      /\ steps[n][s] \notin {"none", "dead"} /\ ~Retried(n, s)
      /\ s \notin GroupRow /\ ItemOf(s) \notin Captures
      /\ steps[n][s] \in Completed =>
           ItemOf(s) \in Events /\ steps[n][s] = "ok" /\ d.result # "err"
      /\ d.result = "err" => ItemOf(s) \in Fallible
  BY <1>0, CompletionFacts
<1>2. /\ UNCHANGED <<current, runs, calls, cancels, faults>> /\ FaultCounted
      /\ OneRow(n, s, v) /\ remaining' = Counted(n, s) /\ Gone(d)
      /\ tasks' = Resumed(Settled(d, "completed"), n, s)
  BY <1>0 DEF CompleteStep, Recorded, OneRow, counts, FaultCounted
<1>3. v \in Completed /\ v \in StepStatus
  BY DEF Completed, StepStatus
<1>4. /\ steps' \in [Run -> [Name -> StepStatus]]
      /\ steps'[n][s] = v
      /\ \A m \in Run, x \in Name : m # n \/ x # s => steps'[m][x] = steps[m][x]
  BY <1>1, <1>2, <1>3, RowChanged
<1>5. steps[n][s] = "scheduled" \/ steps[n][s] = v
  BY <1>1 DEF IInv, TypeOK, StepStatus
<1>6. RunsThere' /\ RunsMove
  BY <1>1, <1>2, <1>3, RunsThereOneRow
<1>7. /\ tasks' \in [TaskId -> Row]
      /\ tasks'[d.task] = [tasks[d.task] EXCEPT !.status = "completed"]
      /\ \A u \in TaskId : u # d.task =>
           \/ tasks'[u] = tasks[u]
           \/ tasks[u] = Absent /\ tasks'[u] = NewRow(n) /\ u = AfterTask(n, ItemOf(s))
  BY <1>1, <1>2, ResumedRows DEF IInv, TypeOK, Exists
<1>8. ASSUME NEW u \in TaskId PROVE TaskMoves(u)
  <2>1. CASE u = d.task
    BY <1>1, <1>2, <1>7, <2>1, SettledMoves DEF Ended
  <2>2. CASE u # d.task /\ tasks'[u] = tasks[u]
    <3>1. \A x \in dispatches : x.task = u /\ HoldsLock(x) => x \in dispatches' /\ x.attempt = tasks[u].attempt
      BY <1>2, <2>2 DEF Gone, HoldsLock
    <3>. QED  BY <1>2, <2>2, <3>1, KeptMoves
  <2>3. CASE tasks[u] = Absent /\ tasks'[u] = NewRow(n) /\ u = AfterTask(n, ItemOf(s))
    <3>1. u[1] = "after" /\ u[2] = n /\ faults' \in Nat
      BY <1>1, <1>2, <2>3, Ids, Names, FaultsCounted
    <3>2. TaskOK(u)' /\ LeaseOK(u)'
      BY <1>1, <1>2, <2>3, <3>1, TaskInserted
    <3>. QED  BY <2>3, <3>1, <3>2, Rows DEF TaskMoves, Exists
  <2>. QED  BY <1>7, <2>1, <2>2, <2>3
<1>9. Grow
  <2>1. \A m \in Run, x \in Name : RowGrows(m, x)
    BY <1>1, <1>3, <1>4, <1>5 DEF RowGrows, Completed
  <2>. QED  BY <1>2, <1>8, <2>1 DEF Grow, TaskMoves
<1>10. ASSUME NEW m \in Run, NEW x \in Name PROVE StepOK(m, x)'
  <2>1. CASE m = n /\ x = s
    <3>1. /\ tasks'[StepTask(m, x)].status = "completed"
          /\ TaskMoves(StepTask(m, x)) /\ Exists(StepTask(m, x))'
      BY <1>1, <1>7, <1>8, <2>1, TaskFacts DEF Row, TaskMoves
    <3>2. steps'[m][x] = v /\ v # "scheduled" /\ v # "none"
      BY <1>3, <1>4, <2>1 DEF Completed
    <3>3. v = "err" => ItemOf(x) \in Fallible
      BY <1>1, <2>1
    <3>4. ~Retried(n, s)'
      BY <1>1, <1>8, Ids DEF TaskMoves, Retried
    <3>5. v # "dead"
      BY <1>3 DEF Completed
    <3>. HIDE DEF v
    <3>. QED  BY <1>1, <2>1, <3>1, <3>2, <3>3, <3>4, <3>5 DEF StepOK
  <2>2. CASE ~(m = n /\ x = s)
    BY <1>4, <1>8, <2>2, Ids, StepMoves
  <2>. QED  BY <2>1, <2>2
<1>11. /\ remaining' \in [Run -> [Groups -> 0..Fanout]]
       /\ \A m \in Run, h \in Groups : GroupOK(m, h)'
  <2>1. CASE \E g \in Groups : s \in Children(g)
    <3>1. PICK g \in Groups : s \in Children(g)
      BY <2>1
    <3>2. ItemOf(s) = g /\ IsChild(s) /\ g \notin Events
      BY <3>1, Names, Kinds
    <3>3. steps[n][s] = "scheduled"
      BY <1>1, <1>5, <3>2 DEF Completed
    <3>4. steps[n][Of(g)] # "none"
      BY <3>1, <3>3 DEF IInv, GroupOK
    <3>5. remaining' = [remaining EXCEPT ![n][g] = @ - 1]
      BY <1>2, <3>2, <3>4 DEF Counted
    <3>. QED  BY <1>2, <1>3, <3>1, <3>3, <3>5, ChildCounted
  <2>2. CASE ~ \E g \in Groups : s \in Children(g)
    <3>1. ~IsChild(s)
      BY <1>1, <2>2, Names
    <3>2. UNCHANGED remaining
      BY <1>2, <3>1 DEF Counted
    <3>3. ASSUME NEW m \in Run, NEW h \in Groups PROVE GroupOK(m, h)'
      <4>1. Of(h) # s /\ Of(h) \in Name /\ \A x \in Children(h) : x # s /\ x \in Name
        BY <1>1, <2>2, Names, Kinds DEF GroupRow
      <4>. QED  BY <1>4, <3>2, <4>1, GroupStays
    <3>. QED  BY <3>2, <3>3 DEF IInv, TypeOK
  <2>. QED  BY <2>1, <2>2
<1>12. dispatches' \subseteq Dispatch /\ \A x \in dispatches' : DispatchOK(x)'
  BY <1>2, <1>9, DispatchesGo
<1>13. \A u \in TaskId : TaskOK(u)' /\ LeaseOK(u)'
  BY <1>8 DEF TaskMoves
<1>. HIDE DEF s, v
<1>. QED  BY <1>2, <1>4, <1>6, <1>7, <1>9, <1>10, <1>11, <1>12, <1>13, Assembled
       DEF IInv, TypeOK

LEMMA FailChildStep ==
  ASSUME IInv, NEW d \in dispatches, FailChild(d)
  PROVE  Step
<1>0. PICK n \in Run, s \in Name : n = RunOf(d) /\ s = Target(d)
  BY CompletionFacts
<1>1. /\ runs[n] # "none" /\ s \in Name /\ d.task = StepTask(n, s)
      /\ d.task \in TaskId /\ tasks[d.task].status = "picked_up" /\ Exists(d.task)
      /\ steps[n][s] \notin {"none", "dead"} /\ ~Retried(n, s)
      /\ steps[n][s] \in Completed => ItemOf(s) \in Events
      /\ s \in MayDie
  <2>1. d.result = "dead"
    BY DEF FailChild
  <2>. QED  BY <1>0, <2>1, CompletionFacts
<1>2. /\ UNCHANGED <<current, runs, remaining, calls, cancels, faults>> /\ FaultCounted
      /\ OneRow(n, s, "dead") /\ Gone(d) /\ tasks' = Settled(d, "completed")
  BY <1>0 DEF FailChild, OneRow, counts, FaultCounted
<1>3. s \notin GroupRow /\ ItemOf(s) \notin Events /\ ItemOf(s) \notin Captures
      /\ "dead" \in StepStatus /\ steps[n][s] = "scheduled"
  BY <1>1, Names, Kinds DEF StepStatus, IInv, TypeOK
<1>4. /\ steps' \in [Run -> [Name -> StepStatus]] /\ steps'[n][s] = "dead"
      /\ \A m \in Run, x \in Name : m # n \/ x # s => steps'[m][x] = steps[m][x]
  BY <1>1, <1>2, <1>3, RowChanged
<1>5. RunsThere' /\ RunsMove
  BY <1>1, <1>2, <1>3, RunsThereOneRow
<1>6. /\ tasks' \in [TaskId -> Row]
      /\ tasks'[d.task] = [tasks[d.task] EXCEPT !.status = "completed"]
      /\ \A u \in TaskId : u # d.task => tasks'[u] = tasks[u]
  <2>1. [tasks[d.task] EXCEPT !.status = "completed"] \in Row
    BY <1>1, TaskFacts DEF Row, Ended
  <2>. QED  BY <1>1, <1>2, <2>1 DEF Settled, IInv, TypeOK
<1>7. ASSUME NEW u \in TaskId PROVE TaskMoves(u)
  <2>1. CASE u = d.task
    BY <1>1, <1>2, <1>6, <2>1, SettledMoves DEF Ended
  <2>2. CASE u # d.task
    <3>1. \A x \in dispatches : x.task = u /\ HoldsLock(x) => x \in dispatches' /\ x.attempt = tasks[u].attempt
      BY <1>2, <2>2 DEF Gone, HoldsLock
    <3>. QED  BY <1>2, <1>6, <2>2, <3>1, KeptMoves
  <2>. QED  BY <2>1, <2>2
<1>8. Grow
  <2>1. \A m \in Run, x \in Name : RowGrows(m, x)
    BY <1>3, <1>4 DEF RowGrows, Completed
  <2>. QED  BY <1>2, <1>7, <2>1 DEF Grow, TaskMoves
<1>9. ASSUME NEW m \in Run, NEW x \in Name PROVE StepOK(m, x)'
  <2>1. CASE m = n /\ x = s
    <3>1. /\ tasks'[StepTask(m, x)].status = "completed"
          /\ TaskMoves(StepTask(m, x)) /\ Exists(StepTask(m, x))'
      BY <1>1, <1>6, <1>7, <2>1, TaskFacts DEF Row, TaskMoves
    <3>2. ~Retried(n, s)'
      BY <1>1, <1>7, Ids DEF TaskMoves, Retried
    <3>. QED  BY <1>1, <1>3, <1>4, <2>1, <3>1, <3>2 DEF StepOK, Completed
  <2>2. CASE ~(m = n /\ x = s)
    BY <1>4, <1>7, <2>2, Ids, StepMoves
  <2>. QED  BY <2>1, <2>2
<1>10. \A m \in Run, g \in Groups : GroupOK(m, g)'
  BY <1>1, <1>2, <1>3, GroupsUncounted
<1>11. dispatches' \subseteq Dispatch /\ \A x \in dispatches' : DispatchOK(x)'
  BY <1>2, <1>8, DispatchesGo
<1>12. \A u \in TaskId : TaskOK(u)' /\ LeaseOK(u)'
  BY <1>7 DEF TaskMoves
<1>. QED  BY <1>2, <1>4, <1>5, <1>6, <1>8, <1>9, <1>10, <1>11, <1>12, Assembled
       DEF IInv, TypeOK

-----------------------------------------------------------------------------
(* The invariant, and what follows from it.                                 *)

LEMMA StutterStep ==
  ASSUME IInv, UNCHANGED vars
  PROVE  Step
<1>1. RunsMove /\ RunsThere'
  BY RunsStay, RunsThereStays DEF vars, IInv, RunsThere
<1>2. UNCHANGED <<current, runs, steps, remaining, tasks, dispatches, calls, cancels>> /\ FaultCounted
  BY DEF vars, FaultCounted
<1>. QED  BY <1>1, <1>2, CallsMove DEF IInv, TypeOK

LEMMA ClientSteps ==
  ASSUME IInv, ClientStep
  PROVE  Step
<1>1. ASSUME NEW c \in Client, Calling(c) PROVE Step
  BY <1>1, CreateExecutionStep, ResetExecutionStep, ScheduleRootStep, CancelTasksStep DEF Calling
<1>2. ASSUME RerunSteps PROVE Step
  BY <1>2, RestartStep DEF RerunSteps
<1>. QED  BY <1>1, <1>2, StartStep, CancelRunStep, CallerDiesStep, OfferEventStep,
            RetryDeadStepStep DEF ClientStep

LEMMA ExecuteSteps ==
  ASSUME IInv, NEW d \in dispatches, Execute(d)
  PROVE  Step
<1>1. CASE DeadlinePassed(d) \/ ReplayBody(d) \/ CaptureValue(d) \/ ReplayStep(d)
  BY <1>1, DeadlinePassedStep, ReplayBodyStep, CaptureValueStep, ReplayStepStep
<1>2. CASE ScheduleStep(d) \/ UpsertGroup(d) \/ VisitChild(d)
  BY <1>2, ScheduleStepStep, UpsertGroupStep, VisitChildStep
<1>3. CASE LambdaReturns(d) \/ LambdaTimesOut(d) \/ RescheduleForRetry(d)
  BY <1>3, LambdaSteps, RescheduleForRetryStep
<1>4. CASE CompleteStep(d) \/ FailChild(d) \/ FinishRun(d) \/ OnFailureRecovers(d) \/ FailRun(d)
  BY <1>4, CompleteStepStep, FailChildStep, FinishRunStep, OnFailureRecoversStep, FailRunStep
<1>5. CASE CompleteTask(d) \/ CompletionRefused(d) \/ MarkFailed(d)
  BY <1>5, CompleteTaskStep, CompletionRefusedStep, MarkFailedStep
<1>. QED  BY <1>1, <1>2, <1>3, <1>4, <1>5 DEF Execute

LEMMA IInvStep == IInv /\ [Next]_vars => Step
<1>. SUFFICES ASSUME IInv, [Next]_vars PROVE Step  OBVIOUS
<1>1. CASE ClientStep  BY <1>1, ClientSteps
<1>2. CASE Queue       BY <1>2, PickUpStep, RecoverOrphanStep DEF Queue
<1>3. ASSUME NEW d \in dispatches, Execute(d) \/ Lapse(d) \/ Crash(d) \/ DbError(d)
      PROVE  Step
  BY <1>3, ExecuteSteps, LapseStep, CrashStep, DbErrorStep
<1>4. CASE UNCHANGED vars  BY <1>4, StutterStep
<1>. QED  BY <1>1, <1>2, <1>3, <1>4 DEF Next

LEMMA IInvInit == Init => IInv
<1>. SUFFICES ASSUME Init PROVE IInv  OBVIOUS
<1>1. /\ current = NoRun /\ runs \in [Run -> {"none"}]
      /\ steps \in [Run -> [Name -> {"none"}]]
      /\ remaining \in [Run -> [Groups -> {0}]] /\ tasks \in [TaskId -> {Absent}]
      /\ dispatches = {} /\ calls \in [Client -> {Idle}] /\ cancels = 0 /\ faults = 0
  BY DEF Init
<1>2. TypeOK
  BY <1>1, Rows, Bounds, Kinds DEF TypeOK, RunStatus, StepStatus, Idle, Call
<1>3. RunsInv /\ RunsThere
  BY <1>1 DEF RunsInv, RunStatus, RunsThere, Idle
<1>4. ASSUME NEW t \in TaskId PROVE TaskOK(t) /\ LeaseOK(t)
  BY <1>1, Rows, Bounds DEF TaskOK, LeaseOK, Exists
<1>5. ASSUME NEW n \in Run, NEW s \in Name PROVE StepOK(n, s)
  BY <1>1, Ids DEF StepOK, Retried, Exists, Completed
<1>6. ASSUME NEW n \in Run, NEW g \in Groups PROVE GroupOK(n, g)
  BY <1>1, Names, Kinds DEF GroupOK
<1>. QED  BY <1>1, <1>2, <1>3, <1>4, <1>5, <1>6 DEF IInv

LEMMA IInvariance == Spec => []IInv
<1>1. IInv /\ [Next]_vars => IInv'
  BY IInvStep DEF Step
<1>. QED  BY IInvInit, <1>1, PTL DEF Spec

LEMMA ClientMoves ==
  ASSUME IInv, ClientStep
  PROVE  RunsMove
<1>0. RunsInv
  BY DEF IInv
<1>1. ASSUME NEW c \in Client, Start(c) PROVE RunsMove
  BY <1>0, <1>1, RunsStay DEF Start, execution
<1>2. ASSUME NEW c \in Client, Calling(c) PROVE RunsMove
  <2>1. CASE CreateExecution(c)  BY <1>0, <2>1, CreateMoves
  <2>2. CASE ResetExecution(c)   BY <1>0, <2>2, NewRunMoves DEF ResetExecution
  <2>3. CASE ScheduleRoot(c)     BY <1>0, <2>3, RunsStay DEF ScheduleRoot, execution
  <2>4. CASE CancelTasks(c)      BY <1>0, <2>4, RunsStay DEF CancelTasks, execution
  <2>. QED  BY <1>2, <2>1, <2>2, <2>3, <2>4 DEF Calling
<1>3. ASSUME NEW c \in Client, CallerDies(c) PROVE RunsMove
  BY <1>0, <1>3, RunsStay DEF CallerDies, execution
<1>4. ASSUME NEW n \in Run, NEW i \in Events, OfferEvent(n, i) PROVE RunsMove
  BY <1>0, <1>4, RunsStay DEF OfferEvent
<1>4a. ASSUME NEW n \in Run, NEW s \in MayDie, RetryDeadStep(n, s) PROVE RunsMove
  <2>1. s \in Name
    BY Names
  <2>2. runs[n] # "none" /\ steps'[n][s] = "scheduled"
    BY <1>4a, <2>1 DEF RetryDeadStep, IInv, TypeOK, RunsThere
  <2>. QED  BY <1>0, <1>4a, <2>2, RetryMoves
<1>5. ASSUME RerunSteps PROVE RunsMove
  BY <1>0, <1>5, NewRunMoves DEF RerunSteps, Restart
<1>. QED  BY CancelMoves, <1>0, <1>1, <1>2, <1>3, <1>4, <1>4a, <1>5 DEF ClientStep

LEMMA ExecuteMoves ==
  ASSUME IInv, NEW d \in dispatches, Execute(d)
  PROVE  RunsMove
<1>0. RunsInv
  BY DEF IInv
<1>1. CASE FinishRun(d)          BY <1>0, <1>1, SetRunMoves DEF FinishRun
<1>2. CASE OnFailureRecovers(d)  BY <1>0, <1>2, SetRunMoves DEF OnFailureRecovers
<1>3. CASE FailRun(d)            BY <1>0, <1>3, SetRunMoves DEF FailRun
<1>4. CASE DeadlinePassed(d) \/ ReplayBody(d) \/ ReplayStep(d) \/ VisitChild(d)
  BY <1>0, <1>4, RunsStay DEF DeadlinePassed, ReplayBody, ReplayStep, VisitChild, execution
<1>5. CASE CaptureValue(d) \/ ScheduleStep(d) \/ UpsertGroup(d) \/ CompleteStep(d) \/ FailChild(d)
  BY <1>0, <1>5, RunsStay DEF CaptureValue, ScheduleStep, UpsertGroup, CompleteStep, FailChild
<1>6. CASE LambdaReturns(d) \/ LambdaTimesOut(d) \/ RescheduleForRetry(d)
  BY <1>0, <1>6, RunsStay DEF LambdaReturns, LambdaTimesOut, RescheduleForRetry, execution
<1>7. CASE CompleteTask(d) \/ CompletionRefused(d) \/ MarkFailed(d)
  BY <1>0, <1>7, RunsStay DEF CompleteTask, CompletionRefused, MarkFailed, execution
<1>. QED  BY <1>1, <1>2, <1>3, <1>4, <1>5, <1>6, <1>7 DEF Execute

LEMMA RunsStep == IInv /\ [Next]_vars => RunsMove
<1>. SUFFICES ASSUME IInv, [Next]_vars PROVE RunsMove  OBVIOUS
<1>0. RunsInv
  BY DEF IInv
<1>1. CASE ClientStep  BY <1>1, ClientMoves
<1>2. CASE Queue
  BY <1>0, <1>2, RunsStay DEF Queue, PickUp, RecoverOrphan, execution
<1>3. ASSUME NEW d \in dispatches, Execute(d) PROVE RunsMove
  BY <1>3, ExecuteMoves
<1>4. ASSUME NEW d \in dispatches, Lapse(d) \/ Crash(d) \/ DbError(d) PROVE RunsMove
  BY <1>0, <1>4, RunsStay DEF Lapse, Crash, DbError, execution
<1>5. CASE UNCHANGED vars
  BY <1>0, <1>5, RunsStay DEF vars
<1>. QED  BY <1>1, <1>2, <1>3, <1>4, <1>5 DEF Next

(* A cancelled run stays cancelled while no dead child of it is retried:     *)
(* bodies, failures and recoveries of dispatches in flight, restarts and     *)
(* further starts leave it as it is.                                        *)
THEOREM CancelledCorrect == Spec => CancelledUntilRetried
<1>. DEFINE Stays == \A n \in Run : runs[n] = "cancelled" =>
                       \/ runs'[n] = "cancelled"
                       \/ /\ runs'[n] = "running"
                          /\ \E s \in MayDie : steps[n][s] = "dead" /\ steps'[n][s] = "scheduled"
<1>1. IInv /\ [Next]_vars => [Stays]_vars
  BY RunsStep DEF RunsMove, Reopened
<1>. QED  BY IInvariance, <1>1, PTL DEF Spec, CancelledUntilRetried

(* Every variable keeps to its type; the bound on the attempts of a task is  *)
(* the one that retries and faults leave it.                                *)
THEOREM TypesCorrect == Spec => []TypeOK
<1>1. IInv => TypeOK
  BY DEF IInv
<1>. QED  BY <1>1, IInvariance, PTL

(* A recorded result is final, whatever replays, retries, late events, lost  *)
(* leases and reruns of other runs there are.                               *)
THEOREM ResultsAreFinalCorrect == Spec => ResultsAreFinal
<1>. DEFINE Final == \A n \in Run, s \in Name :
                       steps[n][s] \in Completed => steps'[n][s] = steps[n][s]
<1>1. IInv /\ [Next]_vars => [Final]_vars
  <2>. SUFFICES ASSUME IInv, [Next]_vars, NEW n \in Run, NEW s \in Name, steps[n][s] \in Completed
                PROVE  steps'[n][s] = steps[n][s]
    OBVIOUS
  <2>1. Grow
    BY IInvStep DEF Step
  <2>2. runs[n] # "none"
    BY DEF IInv, RunsThere, Completed
  <2>. QED  BY <2>1, <2>2 DEF Grow, RowGrows
<1>. QED  BY <1>1, IInvariance, PTL DEF Spec, ResultsAreFinal

(* A wait's counter is the number of its children without a result, if no   *)
(* rerun keeps results of a wait's children: those are counted again.        *)
THEOREM GroupCountsCorrect ==
  ASSUME Preservable \cap Groups = {}
  PROVE  Spec => []GroupCountsChildren
<1>1. IInv => GroupCountsChildren
  BY DEF IInv, GroupOK, GroupCountsChildren, Uncompleted
<1>. QED  BY <1>1, IInvariance, PTL

-----------------------------------------------------------------------------
(* The order of a body whose branch every replay sees as it is recorded.     *)

LEMMA DeciderKind ==
  ASSUME Determinate
  PROVE  /\ Decider \in Steps \cup {0} /\ Decider \notin Groups /\ Decider \in Nat
         /\ Decider # 0 => Decider \in Item /\ Of(Decider) \in Name
         /\ \A i \in IfOk \cup IfErr : i \in Item /\ Decider # 0 /\ Decider < i
<1>1. Decider \in Steps \cup {0}
  BY BodyAssumption DEF BodyAssumption, Determinate
<1>2. \A i \in IfOk \cup IfErr : i \in Item /\ Decider # 0 /\ Decider < i
  BY BodyAssumption, Zenon DEF BodyAssumption
<1>. QED  BY <1>1, <1>2, Kinds, Names

LEMMA PassedStays ==
  ASSUME Grow, NEW n \in Run, runs[n] # "none", NEW j \in Item, Passed(n, j)
  PROVE  /\ Passed(n, j)' /\ ResultOf(n, j)' = ResultOf(n, j)
         /\ ~GivesUp(n, j) => ~GivesUp(n, j)'
<1>1. CASE j \in Groups
  <2>1. \A s \in Children(j) : s \in Name /\ steps[n][s] \in Completed
    BY <1>1, Names DEF Passed
  <2>2. \A s \in Children(j) : steps'[n][s] = steps[n][s]
    BY <2>1 DEF Grow, RowGrows
  <2>3. Passed(n, j)'
    BY <1>1, <2>1, <2>2 DEF Passed
  <2>4. ResultOf(n, j)' = ResultOf(n, j)
    BY <1>1, <2>2, <2>3 DEF ResultOf
  <2>. QED  BY <2>3, <2>4 DEF GivesUp
<1>2. CASE j \notin Groups
  <2>1. Of(j) \in Name /\ steps[n][Of(j)] \in Completed
    BY <1>2, Names DEF Passed
  <2>2. steps'[n][Of(j)] = steps[n][Of(j)]
    BY <2>1 DEF Grow, RowGrows
  <2>3. Passed(n, j)'
    BY <1>2, <2>1, <2>2 DEF Passed
  <2>4. ResultOf(n, j)' = ResultOf(n, j)
    BY <1>2, <2>2, <2>3 DEF ResultOf
  <2>. QED  BY <2>3, <2>4 DEF GivesUp
<1>. QED  BY <1>1, <1>2

(* Items up to the one that decides are on every branch; those after it are  *)
(* reached only when the decision is recorded, and then it is final.         *)
Settles(n, i) == Decider = 0 \/ Decision(n) \in Completed \/ i <= Decider

LEMMA BehindStays ==
  ASSUME Determinate, Grow, NEW n \in Run, runs[n] # "none", NEW j \in Item, Settles(n, j)
  PROVE  /\ Chosen(Decision(n), j) <=> Chosen(Decision(n), j)'
         /\ Behind(n, j) => Behind(n, j)'
<1>1. Chosen(Decision(n), j) <=> Chosen(Decision(n), j)'
  <2>1. CASE Decider = 0 \/ j <= Decider
    <3>1. j \notin IfOk \cup IfErr
      BY <2>1, DeciderKind, Kinds
    <3>. QED  BY <3>1 DEF Chosen
  <2>2. CASE Decider # 0 /\ Decision(n) \in Completed
    <3>1. Decision(n)' = Decision(n)
      BY <2>2, DeciderKind DEF Decision, Grow, RowGrows
    <3>. QED  BY <3>1 DEF Chosen
  <2>. QED  BY <2>1, <2>2 DEF Settles
<1>. QED  BY <1>1, PassedStays DEF Behind

LEMMA DeciderBehind ==
  ASSUME Determinate, Decider # 0, NEW n \in Run, Behind(n, Decider)
  PROVE  Decision(n) \in Completed
<1>1. Decider \notin IfOk \cup IfErr /\ Decider \notin Groups
  BY DeciderKind
<1>2. Chosen(Decision(n), Decider)
  BY <1>1 DEF Chosen
<1>. QED  BY <1>1, <1>2 DEF Behind, Passed, Decision

LEMMA CameStays ==
  ASSUME Determinate, Grow, NEW n \in Run, runs[n] # "none", NEW i, Came(n, i)
  PROVE  Came(n, i)'
<1>1. i \in Nat /\ Length \in Nat /\ Decider \in Nat /\ i \in 1..Length
  BY Kinds, DeciderKind DEF Item, Came
<1>2. Settles(n, i)
  <2>. SUFFICES ASSUME Decider # 0, ~(i <= Decider) PROVE Decision(n) \in Completed
    BY DEF Settles
  <2>1. Decider \in Item
    BY DeciderKind
  <2>2. Decider \in 1..(i - 1)
    BY <1>1, <2>1 DEF Item
  <2>. QED  BY <2>2, DeciderBehind DEF Came
<1>3. ASSUME NEW j \in 1..(i - 1) PROVE Behind(n, j)'
  <2>1. j \in Item
    BY <1>1 DEF Item
  <2>2. Settles(n, j)
    BY <1>1, <1>2 DEF Settles
  <2>. QED  BY <2>1, <2>2, BehindStays DEF Came
<1>. QED  BY <1>2, <1>3, BehindStays DEF Came

LEMMA AllBehindStays ==
  ASSUME Determinate, Grow, NEW n \in Run, runs[n] # "none", \A j \in Item : Behind(n, j)
  PROVE  \A j \in Item : Behind(n, j)'
<1>1. ASSUME NEW j \in Item PROVE Settles(n, j)
  BY DeciderBehind, DeciderKind DEF Settles
<1>. QED  BY <1>1, BehindStays

LEMMA OrderStays ==
  ASSUME Determinate, Grow, NEW d \in Dispatch, Exists(d.task), OrderOK(d),
         RunOf(d) \in Run, runs[RunOf(d)] # "none"
  PROVE  OrderOK(d)'
<1>0. PICK n \in Run : n = RunOf(d) /\ runs[n] # "none"
  OBVIOUS
<1>1. RunOf(d)' = n
  BY <1>0, Dispatches DEF Grow, RunOf
<1>. QED  BY <1>0, <1>1, CameStays, AllBehindStays DEF OrderOK, IsStepTask

(* Rows come into being only where the run has come to, and no step without  *)
(* a result loses its task.                                                  *)
OnlyReached ==
  /\ \A n \in Run, s \in Name : Exists(StepTask(n, s))' =>
       Exists(StepTask(n, s)) \/ (runs[n] # "none" /\ Came(n, ItemOf(s)))
  /\ \A n \in Run, g \in Groups : steps'[n][Of(g)] # "none" =>
       steps[n][Of(g)] # "none" \/ (runs[n] # "none" /\ Came(n, g))
  /\ \A n \in Run, s \in Name :
       steps'[n][s] = "scheduled" /\ tasks'[TaskOf(n, s)'].status = "completed" =>
         CanRecover \/ (steps[n][s] = "scheduled" /\ tasks[TaskOf(n, s)].status = "completed")

LEMMA StepTaskRuns ==
  ASSUME IInv
  PROVE  /\ \A n \in Run, s \in Name : Exists(StepTask(n, s)) => runs[n] # "none"
         /\ \A n \in Run, g \in Groups : steps[n][Of(g)] # "none" => runs[n] # "none"
<1>1. ASSUME NEW n \in Run, NEW s \in Name, Exists(StepTask(n, s)) PROVE runs[n] # "none"
  BY <1>1, Ids DEF IInv, TaskOK
<1>2. \A g \in Groups : Of(g) \in Name
  BY Kinds, Names
<1>. QED  BY <1>1, <1>2 DEF IInv, RunsThere

LEMMA OrderKept ==
  ASSUME IInv, OrderInv, Determinate, Step, OnlyReached,
         \A x \in dispatches' : x \in dispatches \/ OrderOK(x)'
  PROVE  OrderInv'
<1>1. Grow
  BY DEF Step
<1>2. ASSUME NEW n \in Run, NEW s \in Name, Exists(StepTask(n, s))' PROVE Came(n, ItemOf(s))'
  <2>1. runs[n] # "none" /\ Came(n, ItemOf(s))
    BY <1>2, StepTaskRuns DEF OnlyReached, OrderInv
  <2>. QED  BY <1>1, <2>1, CameStays
<1>3. ASSUME NEW n \in Run, NEW g \in Groups, steps'[n][Of(g)] # "none" PROVE Came(n, g)'
  <2>1. runs[n] # "none" /\ Came(n, g)
    BY <1>3, StepTaskRuns DEF OnlyReached, OrderInv
  <2>. QED  BY <1>1, <2>1, CameStays
<1>4. ASSUME NEW d \in dispatches PROVE OrderOK(d)'
  <2>1. d \in Dispatch /\ RunOf(d) \in Run /\ runs[RunOf(d)] # "none"
    BY RunOfDispatch
  <2>2. Exists(d.task) /\ OrderOK(d)
    BY DEF IInv, DispatchOK, OrderInv
  <2>. QED  BY <1>1, <2>1, <2>2, OrderStays
<1>5. \A n \in Run, s \in Name :
        steps'[n][s] = "scheduled" /\ tasks'[TaskOf(n, s)'].status = "completed" => CanRecover
  BY DEF OnlyReached, OrderInv
<1>. QED  BY <1>2, <1>3, <1>4, <1>5 DEF OrderInv

(* A dispatch that moves on, and schedules nothing.                          *)
LEMMA OrderMoves ==
  ASSUME IInv, OrderInv, Determinate, Step, NEW d \in dispatches, NEW e \in Dispatch,
         Become(d, e), e.task = d.task, OrderOK(e), OnlyReached
  PROVE  OrderInv'
<1>1. RunOf(e) \in Run /\ runs[RunOf(e)] # "none" /\ Exists(e.task)
  BY RunOfDispatch DEF RunOf, IInv, DispatchOK
<1>2. OrderOK(e)'
  BY <1>1, OrderStays DEF Step
<1>3. \A x \in dispatches' : x \in dispatches \/ x = e
  BY DEF Become
<1>. QED  BY <1>2, <1>3, OrderKept

LEMMA OrderGoes ==
  ASSUME IInv, OrderInv, Determinate, Step, dispatches' \subseteq dispatches, OnlyReached
  PROVE  OrderInv'
BY OrderKept

LEMMA NothingNew ==
  ASSUME UNCHANGED <<steps, tasks>>
  PROVE  OnlyReached
BY DEF OnlyReached, TaskOf, Exists

(* The rows of a step's tasks stay.                                          *)
LEMMA TaskOfStays ==
  ASSUME NEW n \in Run, NEW s \in Name,
         tasks'[StepTask(n, s)] = tasks[StepTask(n, s)],
         s \in MayDie => tasks'[RetryTask(n, s)] = tasks[RetryTask(n, s)]
  PROVE  TaskOf(n, s)' = TaskOf(n, s) /\ tasks'[TaskOf(n, s)'] = tasks[TaskOf(n, s)]
BY DEF TaskOf

(* A dispatch that comes to its end: only a body can finish the run.         *)
MayEnd(d, p) ==
  /\ p = "finishing" => ~IsStepTask(d) /\ \A j \in Item : Behind(RunOf(d), j)
  /\ p = "concluding" => ~IsStepTask(d) \/ CanRecover

LEMMA EndInOrder ==
  ASSUME IInv, OrderInv, Determinate, Step, NEW d \in dispatches,
         NEW p \in {"failing", "finishing", "concluding", "marking"},
         To(d, p), MayEnd(d, p), UNCHANGED <<steps, tasks>>
  PROVE  OrderInv'
<1>1. d \in Dispatch /\ p \in Phases /\ OrderOK(d)
  BY RunOfDispatch, PhaseFree DEF OrderInv
<1>2. PICK e \in Dispatch : e = Then(d, p)
  BY <1>1, Thens
<1>3. e.task = d.task /\ e.phase = p /\ e.own = d.own
  BY <1>1, <1>2, Thens
<1>4. Become(d, e)
  BY <1>2 DEF To
<1>5. OrderOK(e)
  BY <1>1, <1>3 DEF OrderOK, RunOf, IsStepTask, StepPhases, MayEnd
<1>. QED  BY <1>3, <1>4, <1>5, OrderMoves, NothingNew

LEMMA EndsInOrder ==
  ASSUME IInv, OrderInv, Determinate, Step, NEW d \in dispatches,
         \/ DeadlinePassed(d) \/ CompletionRefused(d) \/ FinishRun(d)
         \/ OnFailureRecovers(d) \/ FailRun(d) \/ DbError(d)
  PROVE  OrderInv'
<1>1. CASE DeadlinePassed(d) \/ CompletionRefused(d) \/ FailRun(d)
  <2>1. /\ To(d, "failing") \/ To(d, "marking")
        /\ UNCHANGED <<steps, tasks>>
    BY <1>1 DEF DeadlinePassed, CompletionRefused, FailRun, execution
  <2>. QED  BY <2>1, EndInOrder DEF MayEnd
<1>2. CASE FinishRun(d)
  <2>1. To(d, "concluding") /\ UNCHANGED <<steps, tasks>> /\ d.phase = "finishing"
    BY <1>2 DEF FinishRun
  <2>2. ~IsStepTask(d)
    BY <2>1 DEF OrderInv, OrderOK, StepPhases
  <2>. QED  BY <2>1, <2>2, EndInOrder DEF MayEnd
<1>3. CASE OnFailureRecovers(d)
  <2>1. To(d, "concluding") /\ UNCHANGED <<steps, tasks>> /\ CanRecover
    BY <1>3 DEF OnFailureRecovers
  <2>. QED  BY <2>1, EndInOrder DEF MayEnd
<1>4. CASE DbError(d) /\ d.phase = "marking"
  BY <1>4, NothingNew, OrderGoes DEF DbError, Gone, execution
<1>5. CASE DbError(d) /\ d.phase # "marking"
  <2>1. PICK p \in AfterError(d.phase) : To(d, p)
    BY <1>5 DEF DbError
  <2>2. /\ p \in {"failing", "concluding", "marking"}
        /\ p = "concluding" => d.phase = "finishing" \/ CanRecover
    BY <2>1 DEF AfterError
  <2>3. d.phase = "finishing" => ~IsStepTask(d)
    BY DEF OrderInv, OrderOK, StepPhases
  <2>. QED  BY <1>5, <2>1, <2>2, <2>3, EndInOrder DEF MayEnd, DbError, execution
<1>. QED  BY <1>1, <1>2, <1>3, <1>4, <1>5

(* What a replay sees is what is recorded, and it stops where it has not      *)
(* passed.                                                                   *)
LEMMA SeesRecord ==
  ASSUME OrderInv, Determinate, NEW d \in dispatches
  PROVE  /\ Reached(d) = {i \in Item : Chosen(Decision(RunOf(d)), i)}
         /\ \A i \in Open(d) : Chosen(Decision(RunOf(d)), i)
         /\ \A i \in Item : ~Behind(RunOf(d), i) => i \in Open(d)
<1>1. Seen(d) = Decision(RunOf(d))
  BY DEF OrderInv, OrderOK, Determinate, Seen
<1>. QED  BY <1>1 DEF Reached, Open, Behind

LEMMA FirstCame ==
  ASSUME NEW n, NEW I \in SUBSET Item, I # {}, Chosen(Decision(n), First(I)),
         \A j \in Item : ~Behind(n, j) => j \in I
  PROVE  Came(n, First(I))
<1>1. First(I) \in I /\ \A j \in I : First(I) <= j
  BY FirstItem
<1>2. PICK i \in Item : i = First(I)
  BY <1>1
<1>3. ASSUME NEW j \in 1..(i - 1) PROVE Behind(n, j)
  <2>1. j \in Item /\ ~(i <= j)
    BY <1>2, Kinds DEF Item
  <2>. QED  BY <1>1, <1>2, <2>1
<1>. QED  BY <1>2, <1>3 DEF Came

LEMMA ReplayBodyInOrder ==
  ASSUME IInv, OrderInv, Determinate, Step, NEW d \in dispatches, ReplayBody(d)
  PROVE  OrderInv'
<1>0. PICK n \in Run : n = RunOf(d)
  BY RunOfDispatch
<1>1. /\ d \in Dispatch /\ OrderOK(d) /\ ~IsStepTask(d) /\ UNCHANGED <<steps, tasks>>
      /\ \A i \in Open(d) : Chosen(Decision(n), i)
      /\ \A i \in Item : ~Behind(n, i) => i \in Open(d)
  BY <1>0, RunOfDispatch, SeesRecord DEF OrderInv, ReplayBody, execution
<1>2. CASE Open(d) = {}
  <2>1. To(d, "finishing") /\ \A j \in Item : Behind(n, j)
    BY <1>1, <1>2 DEF ReplayBody
  <2>. QED  BY <1>0, <1>1, <2>1, EndInOrder DEF MayEnd
<1>3. CASE Open(d) # {} /\ (To(d, "failing") \/ To(d, "concluding"))
  BY <1>1, <1>3, EndInOrder DEF MayEnd
<1>4. CASE Open(d) # {} /\ ~(To(d, "failing") \/ To(d, "concluding"))
  <2>1. PICK i \in Item : i = First(Open(d)) /\ i \in Open(d)
    BY <1>4, OpenItems, FirstItem
  <2>2. Came(n, i)
    BY <1>1, <1>4, <2>1, OpenItems, FirstCame
  <2>3. PICK e : e = [d EXCEPT !.at = Of(i), !.phase = BodyBehavior(i)]
    OBVIOUS
  <2>4. Become(d, e)
    BY <1>4, <2>1, <2>3 DEF ReplayBody
  <2>5. /\ e \in Dispatch /\ e.task = d.task /\ e.at = Of(i) /\ e.own = d.own
        /\ e.phase \in {"grouping", "capturing", "scheduling"}
    <3>1. Of(i) \in Name /\ BodyBehavior(i) \in {"grouping", "capturing", "scheduling"}
      BY Names DEF BodyBehavior
    <3>. HIDE DEF Name, TaskId
    <3>. QED  BY <1>1, <2>3, <3>1 DEF Dispatch
  <2>6. RunOf(e) = n /\ ItemOf(e.at) = i /\ ~IsStepTask(e)
    BY <1>0, <1>1, <2>5, Names DEF RunOf, IsStepTask
  <2>7. OrderOK(e)
    BY <1>1, <2>2, <2>5, <2>6 DEF OrderOK
  <2>. QED  BY <1>1, <2>4, <2>5, <2>7, OrderMoves, NothingNew
<1>. QED  BY <1>2, <1>3, <1>4

LEMMA ReplayStepInOrder ==
  ASSUME IInv, OrderInv, Determinate, Step, NEW d \in dispatches, ReplayStep(d)
  PROVE  OrderInv'
<1>. DEFINE i == First(StopsStep(d))
            t == ItemOf(Target(d))
<1>0. PICK n \in Run : n = RunOf(d)
  BY RunOfDispatch
<1>1. /\ d \in Dispatch /\ OrderOK(d) /\ IsStepTask(d) /\ UNCHANGED <<steps, tasks>>
      /\ Target(d) \in Name /\ Exists(StepTask(n, Target(d)))
      /\ Reached(d) = {j \in Item : Chosen(Decision(n), j)}
  BY <1>0, RunOfDispatch, SeesRecord DEF OrderInv, ReplayStep, execution, IInv, DispatchOK
<1>2. Came(n, t)
  BY <1>1 DEF OrderInv
<1>3. t \in StopsStep(d)
  BY <1>1, <1>2 DEF Came, StopsStep
<1>4. i \in StopsStep(d) /\ i <= t
  BY <1>3, OpenItems, FirstItem
<1>5. ASSUME i # t PROVE Unreplayable(n, i)
  <2>1. i \in 1..(t - 1) /\ i \in Reached(d)
    BY <1>2, <1>4, <1>5, OpenItems, Kinds DEF Came, StopsStep, Item
  <2>2. Passed(n, i)
    BY <1>1, <1>2, <2>1 DEF Came, Behind
  <2>. QED  BY <1>0, <1>4, <1>5, <2>2 DEF StopsStep
<1>6. CASE To(d, "failing")
  BY <1>1, <1>6, EndInOrder DEF MayEnd
<1>7. CASE ~To(d, "failing")
  <2>1. i = t /\ Become(d, StepBehavior(d, t))
    BY <1>0, <1>3, <1>5, <1>7 DEF ReplayStep
  <2>2. PICK e : e = StepBehavior(d, t)
    OBVIOUS
  <2>3. e \in Dispatch /\ e.task = d.task
    BY <1>1, <2>2, StepBehaves
  <2>4. e.own = d.own /\ e.phase \in {"running", "failing", "stepping"}
    <3>1. \A p \in {"running", "failing"} : Then(d, p).own = d.own /\ Then(d, p).phase = p
      BY <1>1, Thens DEF Phases
    <3>2. CASE e \in {Then(d, "running"), Then(d, "failing")}
      BY <3>1, <3>2
    <3>3. CASE e = [d EXCEPT !.result = "ok", !.phase = "stepping"]
      <4>. HIDE DEF Name, TaskId
      <4>. QED  BY <1>1, <3>3 DEF Dispatch
    <3>. QED  BY <2>2, <3>2, <3>3 DEF StepBehavior
  <2>5. OrderOK(e)
    BY <1>1, <2>3, <2>4 DEF OrderOK, StepPhases
  <2>. QED  BY <1>1, <2>1, <2>2, <2>3, <2>5, OrderMoves, NothingNew
<1>. QED  BY <1>6, <1>7

LEMMA VisitedInOrder ==
  ASSUME NEW d \in Dispatch, AtChild(d), ~IsStepTask(d), d.own = "null",
         Came(RunOf(d), ItemOf(d.at)), NEW done \in BOOLEAN, NEW e, e = Visited(d, done)
  PROVE  e \in Dispatch /\ e.task = d.task /\ OrderOK(e)
<1>1. e \in Dispatch /\ e.task = d.task
  BY VisitedOK
<1>2. \A p \in {"replaying", "concluding"} : Then(d, p).own = d.own /\ Then(d, p).phase = p
  BY Thens DEF Phases
<1>3. \/ /\ e.own = "null" /\ e.phase = "visiting" /\ ItemOf(e.at) = ItemOf(d.at)
      \/ e.own = "null" /\ e.phase \in {"replaying", "concluding"}
  <2>1. CASE e = [d EXCEPT !.phase = "visiting", !.at = <<@[1], @[2] + 1>>, !.all = done]
    <3>1. e.own = d.own /\ e.phase = "visiting" /\ e.at = <<d.at[1], d.at[2] + 1>>
      <4>. HIDE DEF Name, TaskId
      <4>. QED  BY <2>1 DEF Dispatch
    <3>. QED  BY <3>1 DEF ItemOf
  <2>2. CASE e \in {Then(d, "replaying"), Then(d, "concluding")}
    BY <1>2, <2>2
  <2>. QED  BY <2>1, <2>2 DEF Visited
<1>4. RunOf(e) = RunOf(d) /\ ~IsStepTask(e)
  BY <1>1 DEF RunOf, IsStepTask
<1>. QED  BY <1>1, <1>3, <1>4 DEF OrderOK

LEMMA VisitChildInOrder ==
  ASSUME IInv, OrderInv, Determinate, Step, NEW d \in dispatches, VisitChild(d)
  PROVE  OrderInv'
<1>. DEFINE s == steps[RunOf(d)][d.at]
<1>1. /\ d \in Dispatch /\ OrderOK(d) /\ AtChild(d) /\ ~IsStepTask(d) /\ d.phase = "visiting"
      /\ UNCHANGED <<steps, tasks>>
  BY RunOfDispatch DEF OrderInv, VisitChild, execution, IInv, DispatchOK, PhaseOK
<1>2. d.own = "null" /\ Came(RunOf(d), ItemOf(d.at))
  BY <1>1 DEF OrderOK
<1>3. CASE s = "none"
  <2>1. PICK e : e = [d EXCEPT !.phase = "scheduling"] /\ Become(d, e)
    BY <1>3 DEF VisitChild
  <2>2. /\ e \in Dispatch /\ e.task = d.task /\ e.at = d.at /\ e.phase = "scheduling"
        /\ e.own = d.own
    <3>. HIDE DEF Name, TaskId
    <3>. QED  BY <1>1, <2>1 DEF Dispatch
  <2>3. OrderOK(e)
    BY <1>1, <1>2, <2>2 DEF OrderOK, RunOf, IsStepTask
  <2>. QED  BY <1>1, <2>1, <2>2, <2>3, OrderMoves, NothingNew
<1>4. CASE s # "none"
  <2>1. PICK e : e = Visited(d, d.all /\ s \in Completed) /\ Become(d, e)
    BY <1>4 DEF VisitChild
  <2>2. (d.all /\ s \in Completed) \in BOOLEAN
    BY <1>1 DEF Dispatch
  <2>3. e \in Dispatch /\ e.task = d.task /\ OrderOK(e)
    BY <1>1, <1>2, <2>1, <2>2, VisitedInOrder
  <2>. QED  BY <1>1, <2>1, <2>3, OrderMoves, NothingNew
<1>. QED  BY <1>3, <1>4

LEMMA LambdaInOrder ==
  ASSUME IInv, OrderInv, Determinate, Step, NEW d \in dispatches,
         LambdaReturns(d) \/ LambdaTimesOut(d)
  PROVE  OrderInv'
<1>1. d \in Dispatch /\ OrderOK(d) /\ UNCHANGED <<steps, tasks>>
  BY RunOfDispatch DEF OrderInv, LambdaReturns, LambdaTimesOut, execution
<1>2. PICK e : /\ Become(d, e)
               /\ \/ e = [d EXCEPT !.phase = "retrying"]
                  \/ \E r \in {"ok", "err", "dead"} : e = [d EXCEPT !.phase = "stepping", !.result = r]
  BY DEF LambdaReturns, LambdaTimesOut
<1>3. e \in Dispatch /\ e.task = d.task /\ e.own = d.own /\ e.phase \in {"stepping", "retrying"}
  <2>. HIDE DEF Name, TaskId
  <2>. QED  BY <1>1, <1>2 DEF Dispatch
<1>4. OrderOK(e)
  BY <1>1, <1>3 DEF OrderOK, StepPhases, IsStepTask
<1>. QED  BY <1>1, <1>2, <1>3, <1>4, OrderMoves, NothingNew

(* Steps that leave the rows of steps alone and complete no step's task.     *)
LEMMA RowsQuiet ==
  ASSUME Step, UNCHANGED steps,
         \A t \in TaskId : t[1] \in {"step", "retry"} =>
           \/ tasks'[t] = tasks[t]
           \/ Exists(t) /\ (tasks'[t].status # "completed" \/ CanRecover)
  PROVE  OnlyReached
<1>1. ASSUME NEW t \in TaskId, t[1] \in {"step", "retry"} PROVE Exists(t)' <=> Exists(t)
  BY <1>1 DEF Step, Grow, Exists
<1>2. ASSUME NEW n \in Run, NEW s \in Name
      PROVE  /\ StepTask(n, s) \in TaskId /\ StepTask(n, s)[1] \in {"step", "retry"}
             /\ s \in MayDie => RetryTask(n, s) \in TaskId /\ RetryTask(n, s)[1] \in {"step", "retry"}
  BY Ids
<1>3. ASSUME NEW n \in Run, NEW s \in Name
      PROVE  /\ TaskOf(n, s)' = TaskOf(n, s)
             /\ TaskOf(n, s) \in TaskId /\ TaskOf(n, s)[1] \in {"step", "retry"}
  BY <1>1, <1>2 DEF TaskOf, Exists
<1>. QED  BY <1>1, <1>2, <1>3 DEF OnlyReached

LEMMA RescheduleInOrder ==
  ASSUME IInv, OrderInv, Determinate, Step, NEW d \in dispatches, RescheduleForRetry(d)
  PROVE  OrderInv'
<1>1. d \in Dispatch /\ OrderOK(d) /\ UNCHANGED steps /\ d.task \in TaskId /\ Exists(d.task)
  BY RunOfDispatch DEF OrderInv, RescheduleForRetry, execution, IInv, DispatchOK
<1>2. CASE ~HoldsLock(d)
  BY <1>1, <1>2, EndInOrder DEF MayEnd, RescheduleForRetry
<1>3. CASE HoldsLock(d)
  <2>1. tasks' = [tasks EXCEPT ![d.task].status = "scheduled"] /\ To(d, "stepping")
    BY <1>3 DEF RescheduleForRetry, GivenBack
  <2>2. /\ \A t \in TaskId : t # d.task => tasks'[t] = tasks[t]
        /\ tasks'[d.task].status = "scheduled"
    BY <1>1, <2>1 DEF IInv, TypeOK, Row
  <2>3. OnlyReached
    BY <1>1, <2>2, RowsQuiet
  <2>4. PICK e \in Dispatch : e = Then(d, "stepping") /\ e.task = d.task /\ e.own = d.own
                              /\ e.phase = "stepping"
    BY <1>1, Thens DEF Phases
  <2>5. OrderOK(e)
    BY <1>1, <2>4 DEF OrderOK, StepPhases, IsStepTask
  <2>. QED  BY <2>1, <2>3, <2>4, <2>5, OrderMoves DEF To
<1>. QED  BY <1>2, <1>3

LEMMA CaptureInOrder ==
  ASSUME IInv, OrderInv, Determinate, Step, NEW d \in dispatches, CaptureValue(d)
  PROVE  OrderInv'
<1>0. PICK n \in Run : n = RunOf(d)
  BY RunOfDispatch
<1>1. PICK j \in Captures : d.at = Of(j)
  BY DEF CaptureValue, IInv, DispatchOK, PhaseOK
<1>2. /\ d \in Dispatch /\ ~IsStepTask(d) /\ UNCHANGED tasks /\ OrderOK(d)
  BY RunOfDispatch DEF CaptureValue, IInv, DispatchOK, PhaseOK, OrderInv
<1>3. /\ Of(j) \in Name /\ ItemOf(Of(j)) = j /\ j # Decider
      /\ \A g \in Groups : Of(g) # Of(j)
  BY Kinds, Names, NotOfGroups DEF Determinate
<1>4. PICK v \in Completed :
        /\ steps' = IF steps[n][Of(j)] = "none" THEN [steps EXCEPT ![n][Of(j)] = v] ELSE steps
        /\ Become(d, [Then(d, "replaying") EXCEPT !.own = @])
  BY <1>0, <1>1, <1>3 DEF CaptureValue, Completed
<1>5. PICK e \in Dispatch : /\ e = Then(d, "replaying") /\ e.task = d.task /\ e.own = d.own
                            /\ e.phase = "replaying"
  BY <1>2, Thens DEF Phases
<1>6. Become(d, e)
  <2>1. [e EXCEPT !.own = @] = e
    <3>. HIDE DEF Name, TaskId
    <3>. QED  BY DEF Dispatch
  <2>. QED  BY <1>4, <1>5, <2>1
<1>7. OrderOK(e)
  BY <1>2, <1>5 DEF OrderOK, IsStepTask
<1>8. \A m \in Run, x \in Name : steps'[m][x] = steps[m][x] \/ (x = Of(j) /\ steps'[m][x] = v)
  BY <1>4 DEF IInv, TypeOK
<1>9. OnlyReached
  <2>1. \A g \in Groups : Of(g) \in Name
    BY Kinds, Names
  <2>2. v # "scheduled"
    BY DEF Completed
  <2>. QED  BY <1>2, <1>3, <1>8, <2>1, <2>2 DEF OnlyReached, TaskOf, Exists
<1>. QED  BY <1>5, <1>6, <1>7, <1>9, OrderMoves

LEMMA ScheduleInOrder ==
  ASSUME IInv, OrderInv, Determinate, Step, NEW d \in dispatches, ScheduleStep(d)
  PROVE  OrderInv'
<1>. DEFINE s == d.at
<1>0. PICK n \in Run : n = RunOf(d) /\ runs[n] # "none"
  BY RunOfDispatch
<1>1. /\ d \in Dispatch /\ OrderOK(d) /\ d.phase = "scheduling"
      /\ AtPlain(d) \/ (AtChild(d) /\ ~IsStepTask(d))
      /\ steps[n][s] = "none" \/ Exists(StepTask(n, s))
  BY <1>0, RunOfDispatch DEF ScheduleStep, OrderInv, IInv, DispatchOK, PhaseOK
<1>2. d.own = "null" /\ Came(n, ItemOf(s)) /\ ~IsStepTask(d)
  BY <1>0, <1>1 DEF OrderOK, StepPhases
<1>3. /\ s \in Name /\ s \notin GroupRow
      /\ AtPlain(d) => ~IsChild(s)
      /\ AtChild(d) => IsChild(s)
  BY <1>1, Names, NotOfGroups DEF AtPlain, AtChild, GroupRow
<1>4. PICK e : /\ e = IF IsChild(s) THEN Visited(d, FALSE) ELSE Then(d, "concluding")
               /\ Become(d, e)
  BY DEF ScheduleStep
<1>5. e \in Dispatch /\ e.task = d.task /\ OrderOK(e)
  <2>1. CASE AtPlain(d)
    <3>1. /\ e = Then(d, "concluding") /\ e \in Dispatch /\ e.task = d.task /\ e.own = d.own
          /\ e.phase = "concluding"
      BY <1>1, <1>3, <1>4, <2>1, Thens DEF Phases
    <3>. QED  BY <1>2, <3>1 DEF OrderOK, IsStepTask
  <2>2. CASE AtChild(d)
    <3>1. e = Visited(d, FALSE)
      BY <1>3, <1>4, <2>2
    <3>. QED  BY <1>0, <1>1, <1>2, <2>2, <3>1, VisitedInOrder
  <2>. QED  BY <1>1, <2>1, <2>2
<1>6. /\ tasks' = Inserted(tasks, StepTask(n, s), n)
      /\ steps' = IF steps[n][s] = "none" THEN [steps EXCEPT ![n][s] = "scheduled"] ELSE steps
  BY <1>0 DEF ScheduleStep
<1>7. /\ \A u \in TaskId : tasks'[u] = IF u = StepTask(n, s) /\ tasks[u] = Absent
                                       THEN NewRow(n) ELSE tasks[u]
      /\ \A m \in Run, x \in Name :
           steps'[m][x] = IF m = n /\ x = s /\ steps[m][x] = "none" THEN "scheduled" ELSE steps[m][x]
  <2>1. StepTask(n, s) \in TaskId
    BY <1>3, Ids
  <2>2. tasks \in [TaskId -> Row] /\ steps \in [Run -> [Name -> StepStatus]]
    BY DEF IInv, TypeOK
  <2>. HIDE DEF s
  <2>3. \A u \in TaskId : tasks'[u] = IF u = StepTask(n, s) /\ tasks[u] = Absent
                                       THEN NewRow(n) ELSE tasks[u]
    BY <1>6, <2>1, <2>2, Insertion
  <2>. QED  BY <1>3, <1>6, <2>2, <2>3
<1>8. OnlyReached
  <2>1. ASSUME NEW m \in Run, NEW x \in Name
        PROVE  /\ StepTask(m, x) \in TaskId
               /\ StepTask(m, x) = StepTask(n, s) => m = n /\ x = s
               /\ StepOK(m, x)
    BY <1>3, Ids DEF IInv
  <2>2. \A g \in Groups : Of(g) \in Name /\ Of(g) # s
    BY <1>3, Kinds, Names DEF GroupRow
  <2>3. \A m \in Run, x \in Name : Exists(StepTask(m, x))' =>
          Exists(StepTask(m, x)) \/ (runs[m] # "none" /\ Came(m, ItemOf(x)))
    BY <1>0, <1>2, <1>7, <2>1 DEF Exists
  <2>4. ASSUME NEW m \in Run, NEW x \in Name, steps'[m][x] = "scheduled",
               tasks'[TaskOf(m, x)'].status = "completed"
        PROVE  steps[m][x] = "scheduled" /\ tasks[TaskOf(m, x)].status = "completed"
    <3>1. x \in MayDie => tasks'[RetryTask(m, x)] = tasks[RetryTask(m, x)]
      BY <1>3, <1>7, Ids
    <3>2. tasks'[StepTask(m, x)] = tasks[StepTask(m, x)]
      <4>1. CASE x \in MayDie /\ Exists(RetryTask(m, x))
        <5>1. Exists(StepTask(m, x))
          BY <2>1, <4>1, Names DEF StepOK, Retried
        <5>. QED  BY <1>7, <2>1, <5>1 DEF Exists
      <4>2. CASE ~(x \in MayDie /\ Exists(RetryTask(m, x)))
        <5>1. tasks'[StepTask(m, x)].status = "completed"
          BY <2>4, <3>1, <4>2 DEF TaskOf, Exists
        <5>. QED  BY <1>7, <2>1, <5>1, Rows
      <4>. QED  BY <4>1, <4>2
    <3>3. tasks[TaskOf(m, x)].status = "completed"
      BY <2>4, <3>1, <3>2, TaskOfStays
    <3>4. Exists(StepTask(m, x))
      BY <2>1, <3>3, Names, Rows DEF StepOK, Retried, TaskOf, Exists
    <3>5. steps[m][x] # "none"
      BY <2>1, <3>4 DEF StepOK
    <3>. QED  BY <1>7, <2>4, <3>3, <3>5
  <2>. QED  BY <1>7, <2>2, <2>3, <2>4 DEF OnlyReached
<1>. QED  BY <1>4, <1>5, <1>8, OrderMoves

LEMMA UpsertInOrder ==
  ASSUME IInv, OrderInv, Determinate, Step, NEW d \in dispatches, UpsertGroup(d)
  PROVE  OrderInv'
<1>0. PICK n \in Run : n = RunOf(d) /\ runs[n] # "none"
  BY RunOfDispatch
<1>1. PICK g \in Groups : d.at = Of(g)
  BY DEF UpsertGroup, IInv, DispatchOK, PhaseOK
<1>2. /\ d \in Dispatch /\ ~IsStepTask(d) /\ UNCHANGED tasks /\ OrderOK(d) /\ d.phase = "grouping"
  BY RunOfDispatch DEF UpsertGroup, IInv, DispatchOK, PhaseOK, OrderInv
<1>3. /\ Of(g) \in Name /\ ItemOf(Of(g)) = g /\ Of(g) \in GroupRow
      /\ <<g, 1>> \in Name /\ ItemOf(<<g, 1>>) = g
  BY Kinds, Names DEF GroupRow
<1>4. d.own = "null" /\ Came(n, g)
  BY <1>0, <1>1, <1>2, <1>3 DEF OrderOK
<1>5. PICK e : e = [d EXCEPT !.phase = "visiting", !.at = <<g, 1>>] /\ Become(d, e)
  BY <1>1, <1>3 DEF UpsertGroup
<1>6. /\ e \in Dispatch /\ e.task = d.task /\ e.own = d.own
      /\ e.phase = "visiting" /\ e.at = <<g, 1>>
  <2>. HIDE DEF Name, TaskId
  <2>. QED  BY <1>2, <1>3, <1>5 DEF Dispatch
<1>7. OrderOK(e)
  BY <1>0, <1>2, <1>3, <1>4, <1>6 DEF OrderOK, RunOf, IsStepTask
<1>8. \A m \in Run, x \in Name :
        steps'[m][x] = steps[m][x] \/ (m = n /\ x = Of(g) /\ steps'[m][x] = "scheduled")
  <2>1. UNCHANGED steps \/ steps' = [steps EXCEPT ![n][Of(g)] = "scheduled"]
    BY <1>0, <1>1 DEF UpsertGroup
  <2>. QED  BY <1>3, <2>1 DEF IInv, TypeOK
<1>9. OnlyReached
  <2>1. \A h \in Groups : Of(h) \in Name /\ (Of(h) = Of(g) => h = g)
    BY Kinds, Names, NotOfGroups
  <2>2. tasks[TaskOf(n, Of(g))].status # "completed"
    <3>1. ~Exists(StepTask(n, Of(g))) /\ Of(g) \notin MayDie
      BY <1>3, Names DEF IInv, StepOK
    <3>. QED  BY <3>1, Rows DEF Exists, TaskOf
  <2>3. \A m \in Run, x \in Name : Exists(StepTask(m, x))' => Exists(StepTask(m, x))
    BY <1>2 DEF Exists
  <2>4. \A m \in Run, h \in Groups : steps'[m][Of(h)] # "none" =>
          steps[m][Of(h)] # "none" \/ (m = n /\ h = g)
    BY <1>8, <2>1
  <2>5. \A m \in Run, x \in Name :
          steps'[m][x] = "scheduled" /\ tasks'[TaskOf(m, x)'].status = "completed" =>
            steps[m][x] = "scheduled" /\ tasks[TaskOf(m, x)].status = "completed"
    BY <1>2, <1>8, <2>2, TaskOfStays
  <2>. QED  BY <1>0, <1>4, <2>3, <2>4, <2>5 DEF OnlyReached
<1>10. Become(d, e)
  BY <1>5
<1>11. e \in Dispatch /\ e.task = d.task
  BY <1>6
<1>. QED  BY <1>7, <1>9, <1>10, <1>11, OrderMoves

LEMMA CompleteStepInOrder ==
  ASSUME IInv, OrderInv, Determinate, Step, NEW d \in dispatches, CompleteStep(d)
  PROVE  OrderInv'
<1>. DEFINE s == Target(d)
            v == IF d.result = "err" THEN "err" ELSE "ok"
<1>0. PICK n \in Run : n = RunOf(d)
  BY RunOfDispatch
<1>1. /\ s \in Name /\ d.task = StepTask(n, s) /\ d.task \in TaskId /\ Exists(d.task)
      /\ s \notin GroupRow
  BY <1>0, CompletionFacts
<1>2. /\ steps' = [steps EXCEPT ![n][s] = v] /\ Gone(d)
      /\ tasks' = Resumed(Settled(d, "completed"), n, s)
  BY <1>0 DEF CompleteStep, Recorded
<1>3. /\ tasks'[d.task] = [tasks[d.task] EXCEPT !.status = "completed"]
      /\ \A u \in TaskId : u # d.task =>
           tasks'[u] = tasks[u] \/ u = AfterTask(n, ItemOf(s))
  <2>1. tasks \in [TaskId -> Row] /\ tasks[d.task] # Absent /\ tasks' = Resumed(Settled(d, "completed"), n, s)
    BY <1>1, <1>2 DEF IInv, TypeOK, Exists
  <2>. QED  BY <1>1, <2>1, ResumedRows
<1>4. \A m \in Run, x \in Name :
        IF m = n /\ x = s THEN steps'[m][x] = v ELSE steps'[m][x] = steps[m][x]
  BY <1>1, <1>2 DEF IInv, TypeOK
<1>5. ASSUME NEW m \in Run, NEW x \in Name, ~(m = n /\ x = s)
      PROVE  /\ tasks'[StepTask(m, x)] = tasks[StepTask(m, x)]
             /\ TaskOf(m, x)' = TaskOf(m, x) /\ tasks'[TaskOf(m, x)'] = tasks[TaskOf(m, x)]
  <2>1. /\ StepTask(m, x) \in TaskId /\ StepTask(m, x) # d.task
        /\ x \in MayDie => RetryTask(m, x) \in TaskId /\ RetryTask(m, x) # d.task
    BY <1>1, <1>5, Ids
  <2>2. /\ StepTask(m, x) # AfterTask(n, ItemOf(s))
        /\ x \in MayDie => RetryTask(m, x) # AfterTask(n, ItemOf(s))
    BY <1>1, Ids, Names
  <2>. QED  BY <1>3, <2>1, <2>2, TaskOfStays
<1>6. OnlyReached
  <2>1. \A g \in Groups : Of(g) \in Name /\ Of(g) # s
    BY <1>1, Kinds, Names DEF GroupRow
  <2>2. v # "scheduled"
    OBVIOUS
  <2>. HIDE DEF v, s
  <2>. QED  BY <1>1, <1>4, <1>5, <2>1, <2>2 DEF OnlyReached, Exists
<1>. QED  BY <1>2, <1>6, OrderGoes DEF Gone

LEMMA FailChildInOrder ==
  ASSUME IInv, OrderInv, Determinate, Step, NEW d \in dispatches, FailChild(d)
  PROVE  OrderInv'
<1>. DEFINE s == Target(d)
<1>0. PICK n \in Run : n = RunOf(d)
  BY RunOfDispatch
<1>1. s \in Name /\ d.task = StepTask(n, s) /\ d.task \in TaskId /\ Exists(d.task) /\ s \notin GroupRow
  BY <1>0, CompletionFacts
<1>2. /\ steps' = [steps EXCEPT ![n][s] = "dead"] /\ Gone(d)
      /\ \A u \in TaskId : u # d.task => tasks'[u] = tasks[u]
  BY <1>0 DEF FailChild, Settled, IInv, TypeOK
<1>3. \A m \in Run, x \in Name :
        IF m = n /\ x = s THEN steps'[m][x] = "dead" ELSE steps'[m][x] = steps[m][x]
  BY <1>1, <1>2 DEF IInv, TypeOK
<1>4. ASSUME NEW m \in Run, NEW x \in Name, ~(m = n /\ x = s)
      PROVE  /\ tasks'[StepTask(m, x)] = tasks[StepTask(m, x)]
             /\ TaskOf(m, x)' = TaskOf(m, x) /\ tasks'[TaskOf(m, x)'] = tasks[TaskOf(m, x)]
  <2>1. /\ StepTask(m, x) \in TaskId /\ StepTask(m, x) # d.task
        /\ x \in MayDie => RetryTask(m, x) \in TaskId /\ RetryTask(m, x) # d.task
    BY <1>1, <1>4, Ids
  <2>. QED  BY <1>2, <2>1, TaskOfStays
<1>5. OnlyReached
  <2>1. \A g \in Groups : Of(g) \in Name /\ Of(g) # s
    BY <1>1, Kinds, Names DEF GroupRow
  <2>. HIDE DEF s
  <2>. QED  BY <1>1, <1>3, <1>4, <2>1 DEF OnlyReached, Exists
<1>. QED  BY <1>2, <1>5, OrderGoes DEF Gone

(* The queue, the faults and what settles or gives back a row change nothing *)
(* but the row of one task; a dispatch that is at work on a step completes   *)
(* its task only by its own completion.                                     *)
LEMMA TaskRowQuiet ==
  ASSUME Step, UNCHANGED steps, NEW t \in TaskId, Exists(t),
         \A u \in TaskId : u # t => tasks'[u] = tasks[u],
         t[1] \in {"step", "retry"} => tasks'[t].status # "completed" \/ CanRecover
  PROVE  OnlyReached
BY RowsQuiet

LEMMA QueueInOrder ==
  ASSUME IInv, OrderInv, Determinate, Step, NEW t \in TaskId, PickUp(t) \/ RecoverOrphan(t)
  PROVE  OrderInv'
<1>1. UNCHANGED steps /\ Exists(t)
  BY Rows DEF PickUp, RecoverOrphan, execution, Exists
<1>2. /\ \A u \in TaskId : u # t => tasks'[u] = tasks[u]
      /\ tasks'[t].status \in {"picked_up", "scheduled"}
  BY DEF PickUp, RecoverOrphan, GivenBack, IInv, TypeOK, Row
<1>3. OnlyReached
  BY <1>1, <1>2, TaskRowQuiet
<1>4. \A x \in dispatches' : x \in dispatches \/ (x.own = "null" /\ x.phase = "fetched")
  BY DEF PickUp, RecoverOrphan
<1>5. ASSUME NEW x \in dispatches', x.own = "null", x.phase = "fetched" PROVE OrderOK(x)'
  BY <1>5 DEF OrderOK, StepPhases
<1>. QED  BY <1>3, <1>4, <1>5, OrderKept

LEMMA FaultsInOrder ==
  ASSUME IInv, OrderInv, Determinate, Step, NEW d \in dispatches, Lapse(d) \/ Crash(d)
  PROVE  OrderInv'
<1>1. CASE Crash(d)
  BY <1>1, NothingNew, OrderGoes DEF Crash, Gone, execution
<1>2. CASE Lapse(d)
  <2>1. d.task \in TaskId /\ Exists(d.task) /\ UNCHANGED <<steps, dispatches>>
    BY <1>2, RunOfDispatch DEF Lapse, execution, IInv, DispatchOK
  <2>2. /\ \A u \in TaskId : u # d.task => tasks'[u] = tasks[u]
        /\ tasks'[d.task].status = "scheduled"
    BY <1>2, <2>1 DEF Lapse, GivenBack, IInv, TypeOK, Row
  <2>. QED  BY <2>1, <2>2, TaskRowQuiet, OrderGoes
<1>. QED  BY <1>1, <1>2

LEMMA ConcludeInOrder ==
  ASSUME IInv, OrderInv, Determinate, Step, NEW d \in dispatches, CompleteTask(d) \/ MarkFailed(d)
  PROVE  OrderInv'
<1>1. /\ d.task \in TaskId /\ Exists(d.task) /\ UNCHANGED steps /\ dispatches' \subseteq dispatches
      /\ OrderOK(d)
  BY RunOfDispatch DEF CompleteTask, MarkFailed, execution, Gone, IInv, DispatchOK, OrderInv
<1>2. CASE CompleteTask(d)
  <2>1. \A u \in TaskId : u # d.task => tasks'[u] = tasks[u]
    BY <1>2 DEF CompleteTask, Settled, IInv, TypeOK
  <2>2. d.task[1] \in {"step", "retry"} => CanRecover
    BY <1>1, <1>2 DEF CompleteTask, OrderOK, IsStepTask, IsRetry, StepPhases
  <2>. QED  BY <1>1, <2>1, <2>2, TaskRowQuiet, OrderGoes
<1>3. CASE MarkFailed(d) /\ HoldsLock(d)
  <2>1. /\ \A u \in TaskId : u # d.task => tasks'[u] = tasks[u]
        /\ tasks'[d.task].status = "failed"
    BY <1>1, <1>3 DEF MarkFailed, Settled, IInv, TypeOK, Row
  <2>. QED  BY <1>1, <2>1, TaskRowQuiet, OrderGoes
<1>4. CASE MarkFailed(d) /\ ~HoldsLock(d)
  BY <1>1, <1>4, NothingNew, OrderGoes DEF MarkFailed
<1>. QED  BY <1>2, <1>3, <1>4

LEMMA InsertedQuiet ==
  ASSUME IInv, NEW t \in TaskId, t[1] \notin {"step", "retry"}, NEW n \in Run,
         tasks' = Inserted(tasks, t, n)
  PROVE  \A m \in Run, s \in Name :
           /\ tasks'[StepTask(m, s)] = tasks[StepTask(m, s)]
           /\ TaskOf(m, s)' = TaskOf(m, s) /\ tasks'[TaskOf(m, s)'] = tasks[TaskOf(m, s)]
<1>1. ASSUME NEW m \in Run, NEW s \in Name
      PROVE  /\ StepTask(m, s) \in TaskId /\ StepTask(m, s) # t
             /\ s \in MayDie => RetryTask(m, s) \in TaskId /\ RetryTask(m, s) # t
  BY Ids
<1>2. tasks \in [TaskId -> Row]
  BY DEF IInv, TypeOK
<1>. QED  BY <1>1, <1>2, Insertion, TaskOfStays

LEMMA RestartInOrder ==
  ASSUME IInv, OrderInv, Determinate, Step, NEW P \in SUBSET Name, Restart(P)
  PROVE  OrderInv'
<1>1. current \in Run /\ UNCHANGED dispatches
  BY DEF Restart, IInv, TypeOK
<1>2. PICK n \in Run :
        /\ tasks' = Inserted(tasks, StartTask(n), n)
        /\ steps' = [steps EXCEPT ![n] = [s \in Name |->
             IF s \in Kept(current, P) THEN steps[current][s] ELSE "none"]]
  BY DEF Restart
<1>3. \A m \in Run, s \in Name :
        /\ tasks'[StepTask(m, s)] = tasks[StepTask(m, s)]
        /\ TaskOf(m, s)' = TaskOf(m, s) /\ tasks'[TaskOf(m, s)'] = tasks[TaskOf(m, s)]
  BY <1>2, Ids, InsertedQuiet
<1>4. \A m \in Run, s \in Name :
        \/ steps'[m][s] = steps[m][s]
        \/ steps'[m][s] = "none"
        \/ steps'[m][s] = steps[current][s] /\ steps[current][s] \in Completed
  BY <1>1, <1>2 DEF Kept, IInv, TypeOK
<1>5. \A g \in Groups : Of(g) \in Name /\ steps[current][Of(g)] \notin Completed
  <2>1. \A g \in Groups : Of(g) \in Name /\ Of(g) \in GroupRow
    BY Kinds, Names DEF GroupRow
  <2>. QED  BY <1>1, <2>1 DEF IInv, StepOK
<1>6. OnlyReached
  BY <1>3, <1>4, <1>5 DEF OnlyReached, Exists, Completed
<1>. QED  BY <1>1, <1>6, OrderGoes

LEMMA RetryInOrder ==
  ASSUME IInv, OrderInv, Determinate, Step, NEW n \in Run, NEW s \in MayDie, RetryDeadStep(n, s)
  PROVE  OrderInv'
<1>. DEFINE t == RetryTask(n, s)
<1>1. /\ UNCHANGED dispatches /\ steps' = [steps EXCEPT ![n][s] = "scheduled"]
      /\ tasks' = Inserted(tasks, t, n) /\ steps[n][s] = "dead"
  BY DEF RetryDeadStep
<1>2. s \in Name /\ s \notin GroupRow /\ t \in TaskId /\ tasks[t] = Absent
  BY <1>1, Names, Ids DEF IInv, StepOK, Retried, Exists
<1>3. \A u \in TaskId : tasks'[u] = IF u = t THEN NewRow(n) ELSE tasks[u]
  <2>1. tasks \in [TaskId -> Row]
    BY DEF IInv, TypeOK
  <2>. HIDE DEF t
  <2>. QED  BY <1>1, <1>2, <2>1, Insertion
<1>4. \A m \in Run, x \in Name :
        steps'[m][x] = IF m = n /\ x = s THEN "scheduled" ELSE steps[m][x]
  BY <1>1, <1>2 DEF IInv, TypeOK
<1>5. ASSUME NEW m \in Run, NEW x \in Name
      PROVE  /\ tasks'[StepTask(m, x)] = tasks[StepTask(m, x)]
             /\ ~(m = n /\ x = s) =>
                  TaskOf(m, x)' = TaskOf(m, x) /\ tasks'[TaskOf(m, x)'] = tasks[TaskOf(m, x)]
  <2>1. /\ StepTask(m, x) \in TaskId /\ StepTask(m, x) # t
        /\ x \in MayDie /\ ~(m = n /\ x = s) => RetryTask(m, x) \in TaskId /\ RetryTask(m, x) # t
    BY Ids
  <2>. QED  BY <1>3, <2>1, TaskOfStays
<1>6. tasks'[TaskOf(n, s)'].status = "scheduled"
  BY <1>2, <1>3, Rows DEF TaskOf
<1>. HIDE DEF t
<1>7. OnlyReached
  <2>1. \A g \in Groups : Of(g) \in Name /\ Of(g) # s
    BY <1>2, Kinds, Names DEF GroupRow
  <2>2. \A m \in Run, x \in Name : Exists(StepTask(m, x))' => Exists(StepTask(m, x))
    BY <1>5 DEF Exists
  <2>3. \A m \in Run, x \in Name :
          steps'[m][x] = "scheduled" /\ tasks'[TaskOf(m, x)'].status = "completed" =>
            steps[m][x] = "scheduled" /\ tasks[TaskOf(m, x)].status = "completed"
    BY <1>4, <1>5, <1>6
  <2>. QED  BY <1>4, <2>1, <2>2, <2>3 DEF OnlyReached
<1>. QED  BY <1>1, <1>7, OrderGoes

LEMMA ClientInOrder ==
  ASSUME IInv, OrderInv, Determinate, Step, ClientStep
  PROVE  OrderInv'
<1>1. ASSUME NEW c \in Client, Start(c) \/ CancelRun(c) \/ CallerDies(c) \/ ResetExecution(c)
      PROVE  OrderInv'
  <2>1. UNCHANGED <<steps, tasks, dispatches>>
    BY <1>1 DEF Start, CancelRun, CallerDies, ResetExecution, execution
  <2>. QED  BY <2>1, NothingNew, OrderGoes
<1>2. ASSUME NEW c \in Client, CreateExecution(c) \/ ScheduleRoot(c) PROVE OrderInv'
  <2>1. /\ UNCHANGED <<steps, dispatches>>
        /\ \E n \in Run : tasks' = Inserted(tasks, StartTask(n), n)
    BY <1>2, Bounds DEF CreateExecution, ScheduleRoot, execution, IInv, TypeOK, Call
  <2>2. \A m \in Run, s \in Name :
          /\ tasks'[StepTask(m, s)] = tasks[StepTask(m, s)]
          /\ TaskOf(m, s)' = TaskOf(m, s) /\ tasks'[TaskOf(m, s)'] = tasks[TaskOf(m, s)]
    BY <2>1, Ids, InsertedQuiet
  <2>3. OnlyReached
    BY <2>1, <2>2 DEF OnlyReached, Exists
  <2>. QED  BY <2>1, <2>3, OrderGoes
<1>3. ASSUME NEW c \in Client, CancelTasks(c) PROVE OrderInv'
  <2>1. UNCHANGED <<steps, dispatches>>
    BY <1>3 DEF CancelTasks, execution
  <2>2. ASSUME NEW t \in TaskId
        PROVE  tasks'[t] = tasks[t] \/ (Exists(t) /\ tasks'[t].status # "completed")
    <3>1. tasks[t].status = "scheduled" => Exists(t)
      BY Rows DEF Exists
    <3>. QED  BY <1>3, <3>1, TaskFacts DEF CancelTasks, Row
  <2>3. OnlyReached
    BY <2>1, <2>2, RowsQuiet
  <2>. QED  BY <2>1, <2>3, OrderGoes
<1>4. ASSUME NEW n \in Run, NEW i \in Events, OfferEvent(n, i) PROVE OrderInv'
  <2>1. /\ UNCHANGED dispatches
        /\ steps' = [steps EXCEPT ![n][Of(i)] = "ok"]
        /\ tasks' = Inserted(tasks, DeliveredTask(i), n)
    BY <1>4 DEF OfferEvent
  <2>2. \A m \in Run, s \in Name :
          /\ tasks'[StepTask(m, s)] = tasks[StepTask(m, s)]
          /\ TaskOf(m, s)' = TaskOf(m, s) /\ tasks'[TaskOf(m, s)'] = tasks[TaskOf(m, s)]
    BY <2>1, Ids, InsertedQuiet
  <2>3. \A m \in Run, s \in Name :
          steps'[m][s] = steps[m][s] \/ (s = Of(i) /\ steps'[m][s] = "ok")
    BY <2>1 DEF IInv, TypeOK
  <2>4. \A g \in Groups : Of(g) \in Name /\ Of(g) # Of(i)
    BY Kinds, Names, NotOfGroups
  <2>5. OnlyReached
    BY <2>2, <2>3, <2>4 DEF OnlyReached, Exists
  <2>. QED  BY <2>1, <2>5, OrderGoes
<1>5. ASSUME RerunSteps PROVE OrderInv'
  BY <1>5, RestartInOrder DEF RerunSteps
<1>. QED  BY <1>1, <1>2, <1>3, <1>4, <1>5, RetryInOrder DEF ClientStep, Calling

LEMMA ExecuteInOrder ==
  ASSUME IInv, OrderInv, Determinate, Step, NEW d \in dispatches, Execute(d)
  PROVE  OrderInv'
<1>1. CASE \/ DeadlinePassed(d) \/ CompletionRefused(d) \/ FinishRun(d)
           \/ OnFailureRecovers(d) \/ FailRun(d)
  BY <1>1, EndsInOrder
<1>2. CASE ReplayBody(d) \/ ReplayStep(d) \/ CaptureValue(d)
  BY <1>2, ReplayBodyInOrder, ReplayStepInOrder, CaptureInOrder
<1>3. CASE ScheduleStep(d) \/ UpsertGroup(d) \/ VisitChild(d)
  BY <1>3, ScheduleInOrder, UpsertInOrder, VisitChildInOrder
<1>4. CASE LambdaReturns(d) \/ LambdaTimesOut(d) \/ RescheduleForRetry(d)
  BY <1>4, LambdaInOrder, RescheduleInOrder
<1>5. CASE CompleteStep(d) \/ FailChild(d) \/ CompleteTask(d) \/ MarkFailed(d)
  BY <1>5, CompleteStepInOrder, FailChildInOrder, ConcludeInOrder
<1>. QED  BY <1>1, <1>2, <1>3, <1>4, <1>5 DEF Execute

LEMMA OrderStep ==
  ASSUME Determinate
  PROVE  IInv /\ OrderInv /\ [Next]_vars => OrderInv'
<1>. SUFFICES ASSUME IInv, OrderInv, [Next]_vars PROVE OrderInv'  OBVIOUS
<1>0. Step
  BY IInvStep
<1>1. CASE ClientStep  BY <1>0, <1>1, ClientInOrder
<1>2. CASE Queue       BY <1>0, <1>2, QueueInOrder DEF Queue
<1>3. ASSUME NEW d \in dispatches, Execute(d) \/ Lapse(d) \/ Crash(d) \/ DbError(d)
      PROVE  OrderInv'
  BY <1>0, <1>3, ExecuteInOrder, FaultsInOrder, EndsInOrder
<1>4. CASE UNCHANGED vars
  BY <1>0, <1>4, NothingNew, OrderGoes DEF vars
<1>. QED  BY <1>1, <1>2, <1>3, <1>4 DEF Next

LEMMA OrderInit == Init => OrderInv
<1>. SUFFICES ASSUME Init PROVE OrderInv  OBVIOUS
<1>1. \A n \in Run, s \in Name : ~Exists(StepTask(n, s)) /\ steps[n][s] = "none"
  BY Ids DEF Init, Exists
<1>2. \A g \in Groups : Of(g) \in Name
  BY Kinds, Names
<1>. QED  BY <1>1, <1>2 DEF OrderInv, Init

LEMMA OrderInvariance ==
  ASSUME Determinate
  PROVE  Spec => []OrderInv
BY OrderInit, OrderStep, IInvariance, PTL DEF Spec

(* The steps table and the task queue agree.                                *)
THEOREM StepsMatchTasksCorrect ==
  ASSUME Determinate
  PROVE  Spec => []StepsMatchTasks
<1>1. IInv /\ OrderInv => StepsMatchTasks
  <2>. SUFFICES ASSUME IInv, OrderInv, NEW n \in Run, NEW s \in Name
                PROVE  LET status == tasks[TaskOf(n, s)].status IN
                       /\ steps[n][s] = "scheduled" /\ s \notin {Of(g) : g \in Groups}
                            => status # "absent" /\ (status = "completed" => CanRecover)
                       /\ steps[n][s] \in {"dead"} \cup Completed /\ ItemOf(s) \notin Events
                            => status \in {"absent", "completed"}
    BY DEF StepsMatchTasks
  <2>1. StepOK(n, s) /\ StepTask(n, s) \in TaskId
    BY Ids DEF IInv
  <2>2. Exists(StepTask(n, s)) => tasks[StepTask(n, s)].status # "absent"
    BY <2>1, TaskFacts DEF TaskOK
  <2>3. CASE Retried(n, s)
    <3>1. TaskOf(n, s) = RetryTask(n, s) /\ RetryTask(n, s) \in TaskId /\ steps[n][s] = "scheduled"
      BY <2>1, <2>3, Ids DEF TaskOf, Retried, Exists, StepOK
    <3>2. tasks[TaskOf(n, s)].status # "absent"
      BY <2>3, <3>1, TaskFacts DEF TaskOK, Retried
    <3>. QED  BY <3>1, <3>2 DEF OrderInv, Completed
  <2>4. CASE ~Retried(n, s)
    <3>1. TaskOf(n, s) = StepTask(n, s)
      BY <2>4 DEF TaskOf, Retried, Exists
    <3>. QED  BY <2>1, <2>2, <3>1 DEF StepOK, OrderInv, GroupRow
  <2>. QED  BY <2>3, <2>4
<1>. QED  BY <1>1, IInvariance, OrderInvariance, PTL

(* A step is scheduled only by a replay that has the results of all the      *)
(* items before it.                                                         *)
THEOREM InOrderCorrect ==
  ASSUME Determinate
  PROVE  Spec => []InOrder
<1>1. IInv /\ OrderInv => InOrder
  <2>. SUFFICES ASSUME IInv, OrderInv, NEW n \in Run, NEW s \in Name, steps[n][s] = "scheduled",
                       NEW j \in 1..(ItemOf(s) - 1), Chosen(Decision(n), j)
                PROVE  Passed(n, j)
    BY DEF InOrder
  <2>1. CASE s \in GroupRow
    <3>1. PICK g \in Groups : s = Of(g)
      BY <2>1 DEF GroupRow
    <3>2. Came(n, g) /\ ItemOf(s) = g
      BY <3>1, Kinds, Names DEF OrderInv
    <3>. QED  BY <3>2 DEF Came, Behind
  <2>2. CASE s \notin GroupRow
    <3>1. Exists(StepTask(n, s))
      BY <2>2 DEF IInv, StepOK
    <3>2. Came(n, ItemOf(s))
      BY <3>1 DEF OrderInv
    <3>. QED  BY <3>2 DEF Came, Behind
  <2>. QED  BY <2>1, <2>2
<1>. QED  BY <1>1, IInvariance, OrderInvariance, PTL

(* Every row of a run was come to by its handler, or kept by a rerun.        *)
RowsReached ==
  \A n \in Run, s \in Name :
    steps[n][s] # "none" => Came(n, ItemOf(s)) \/ ItemOf(s) \in Preservable

LEMMA RowsReachedStep ==
  ASSUME Determinate
  PROVE  IInv /\ OrderInv /\ RowsReached /\ [Next]_vars => RowsReached'
<1>. SUFFICES ASSUME IInv, OrderInv, RowsReached, [Next]_vars PROVE RowsReached'  OBVIOUS
<1>. DEFINE Fresh(n, s) == runs[n] # "none" /\ Came(n, ItemOf(s))
            Only == \A n \in Run, s \in Name : steps'[n][s] # "none" =>
                      steps[n][s] # "none" \/ Fresh(n, s) \/ ItemOf(s) \in Preservable
<1>1. Grow
  BY IInvStep DEF Step
<1>2. ASSUME Only PROVE RowsReached'
  <2>. SUFFICES ASSUME NEW n \in Run, NEW s \in Name, steps'[n][s] # "none",
                       ItemOf(s) \notin Preservable
                PROVE  Came(n, ItemOf(s))'
    BY DEF RowsReached
  <2>1. runs[n] # "none" /\ Came(n, ItemOf(s))
    BY <1>2 DEF RowsReached, IInv, RunsThere
  <2>. QED  BY <1>1, <2>1, CameStays
<1>3. steps \in [Run -> [Name -> StepStatus]]
  BY DEF IInv, TypeOK
<1>4. CASE UNCHANGED steps
  BY <1>2, <1>4
<1>5. ASSUME NEW n \in Run, \/ \E i \in Events : OfferEvent(n, i)
                            \/ \E s \in MayDie : RetryDeadStep(n, s)
      PROVE  Only
  <2>1. PICK s, v : steps[n][s] # "none" /\ steps' = [steps EXCEPT ![n][s] = v]
    BY <1>5 DEF OfferEvent, RetryDeadStep
  <2>. QED  BY <1>3, <2>1
<1>6. ASSUME NEW P \in SUBSET {s \in Name : ItemOf(s) \in Preservable}, Restart(P) PROVE Only
  BY <1>3, <1>6 DEF Restart, Kept
<1>7. ASSUME NEW d \in dispatches, CompleteStep(d) \/ FailChild(d) PROVE Only
  <2>1. PICK n \in Run : n = RunOf(d)
    BY RunOfDispatch
  <2>2. steps[n][Target(d)] # "none"
    BY <1>7, <2>1, CompletionFacts
  <2>3. \E v : steps' = [steps EXCEPT ![n][Target(d)] = v]
    BY <1>7, <2>1 DEF CompleteStep, FailChild, Recorded
  <2>. QED  BY <1>3, <2>2, <2>3
<1>8. ASSUME NEW d \in dispatches, CaptureValue(d) \/ ScheduleStep(d) \/ UpsertGroup(d) PROVE Only
  <2>1. PICK n \in Run : n = RunOf(d) /\ runs[n] # "none"
    BY RunOfDispatch
  <2>2. Came(n, ItemOf(d.at))
    BY <1>8, <2>1 DEF OrderInv, OrderOK, CaptureValue, ScheduleStep, UpsertGroup
  <2>3. \E v : steps' = [steps EXCEPT ![n][d.at] = v] \/ UNCHANGED steps
    BY <1>8, <2>1 DEF CaptureValue, ScheduleStep, UpsertGroup
  <2>. QED  BY <1>3, <2>1, <2>2, <2>3
<1>9. CASE ClientStep
  <2>1. CASE \E c \in Client : Start(c) \/ CancelRun(c) \/ Calling(c) \/ CallerDies(c)
    BY <1>4, <2>1 DEF Start, CancelRun, Calling, CallerDies, CreateExecution, ResetExecution,
                      ScheduleRoot, CancelTasks, execution
  <2>2. CASE RerunSteps
    BY <1>2, <1>6, <2>2 DEF RerunSteps
  <2>. QED  BY <1>2, <1>5, <1>9, <2>1, <2>2 DEF ClientStep
<1>10. CASE Queue
  BY <1>4, <1>10 DEF Queue, PickUp, RecoverOrphan, execution
<1>11. ASSUME NEW d \in dispatches, Execute(d) \/ Lapse(d) \/ Crash(d) \/ DbError(d)
       PROVE  RowsReached'
  <2>1. CASE \/ CaptureValue(d) \/ ScheduleStep(d) \/ UpsertGroup(d)
             \/ CompleteStep(d) \/ FailChild(d)
    BY <1>2, <1>7, <1>8, <2>1
  <2>2. CASE \/ DeadlinePassed(d) \/ ReplayBody(d) \/ ReplayStep(d) \/ VisitChild(d)
             \/ LambdaReturns(d) \/ LambdaTimesOut(d) \/ RescheduleForRetry(d)
    BY <1>4, <2>2 DEF DeadlinePassed, ReplayBody, ReplayStep, VisitChild, LambdaReturns,
                      LambdaTimesOut, RescheduleForRetry, execution
  <2>3. CASE \/ FinishRun(d) \/ OnFailureRecovers(d) \/ FailRun(d) \/ CompleteTask(d)
             \/ CompletionRefused(d) \/ MarkFailed(d) \/ Lapse(d) \/ Crash(d) \/ DbError(d)
    BY <1>4, <2>3 DEF FinishRun, OnFailureRecovers, FailRun, CompleteTask, CompletionRefused,
                      MarkFailed, Lapse, Crash, DbError, execution
  <2>. QED  BY <1>11, <2>1, <2>2, <2>3 DEF Execute
<1>12. CASE UNCHANGED vars
  BY <1>4, <1>12 DEF vars
<1>. QED  BY <1>9, <1>10, <1>11, <1>12 DEF Next

(* Only the branch that the recorded result selects leaves rows, if no rerun *)
(* keeps results of a branch.                                               *)
THEOREM OneBranchRunsCorrect ==
  ASSUME Determinate, Preservable \cap (IfOk \cup IfErr) = {}
  PROVE  Spec => []OneBranchRuns
<1>1. Init => RowsReached
  BY DEF Init, RowsReached
<1>2. RowsReached => OneBranchRuns
  BY DEF RowsReached, OneBranchRuns, Came, Chosen
<1>. QED  BY <1>1, <1>2, RowsReachedStep, IInvariance, OrderInvariance, PTL DEF Spec
=============================================================================
