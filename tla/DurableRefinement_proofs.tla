----------------------- MODULE DurableRefinement_proofs -----------------------
(***************************************************************************)
(* Proofs that a run of an execution implements Workflow, whatever runs come *)
(* before and after it, and that the engine's tasks are LeasedJobs, from the *)
(* invariants of DurableSafety_proofs.                                      *)
(***************************************************************************)
EXTENDS DurableRefinement, DurableQueue, DurableSafety_proofs

ResultsOf(n) == [i \in Item |-> ResultOf(n, i)]

WStep(n) == W(n)!Next \/ UNCHANGED <<runs[n], ResultsOf(n)>>

(* The runs there are are those up to the current one.                       *)
RunsInOrder ==
  \A m \in Run : runs[m] # "none" =>
    /\ current # NoRun /\ m <= current
    /\ \A k \in Run : k <= m => runs[k] # "none"

LEMMA SetRunInOrder ==
  ASSUME IInv, RunsInOrder, NEW v \in Ended, SetRun(v), UNCHANGED current
  PROVE  RunsInOrder'
<1>1. runs \in [Run -> RunStatus] /\ 0 \in Run
  BY Bounds DEF IInv, RunsInv
<1>2. \A m \in Run : runs'[m] # "none" => runs[m] # "none"
  <2>1. current \in Run => runs[current] # "none"
    BY Bounds DEF IInv, RunsThere
  <2>. QED  BY <1>1, <2>1 DEF SetRun
<1>3. \A m \in Run : runs[m] # "none" => runs'[m] # "none"
  BY <1>1 DEF SetRun, Ended
<1>. QED  BY <1>1, <1>2, <1>3 DEF RunsInOrder, SetRun

LEMMA NewRunInOrder ==
  ASSUME IInv, RunsInOrder, NEW n \in Run, NewRun(n)
  PROVE  RunsInOrder'
<1>1. runs \in [Run -> RunStatus] /\ 0 \in Run /\ Run \subseteq Nat /\ n # NoRun
  BY Bounds DEF IInv, RunsInv
<1>2. /\ current' = n /\ runs'[n] # "none"
      /\ \A m \in Run : m # n => (runs'[m] = runs[m])
      /\ runs[n] = "none" /\ \A m \in Run : m < n => runs[m] # "none"
  BY <1>1 DEF NewRun
<1>3. \A m \in Run : runs[m] # "none" => m < n
  BY <1>1, <1>2 DEF RunsInOrder
<1>4. current # NoRun => runs[0] # "none"
  BY DEF IInv, RunsThere
<1>. QED  BY <1>1, <1>2, <1>3, <1>4 DEF RunsInOrder

LEMMA RunsInOrderStep == IInv /\ RunsInOrder /\ [Next]_vars => RunsInOrder'
<1>. SUFFICES ASSUME IInv, RunsInOrder, [Next]_vars PROVE RunsInOrder'  OBVIOUS
<1>1. runs \in [Run -> RunStatus] /\ 0 \in Run /\ Run \subseteq Nat /\ NoRun \notin Run
  BY Bounds DEF IInv, RunsInv
<1>2. CASE UNCHANGED <<current, runs>>
  BY <1>2 DEF RunsInOrder
<1>3. ASSUME NEW c \in Client, CreateExecution(c) PROVE RunsInOrder'
  <2>1. CASE current = NoRun
    <3>1. /\ current' = 0 /\ runs'[0] # "none"
          /\ \A m \in Run : m # 0 => runs'[m] = "none"
      BY <1>1, <1>3, <2>1 DEF CreateExecution, IInv, RunsInv
    <3>. QED  BY <1>1, <2>1, <3>1 DEF RunsInOrder
  <2>2. CASE current # NoRun
    BY <1>2, <1>3, <2>2 DEF CreateExecution
  <2>. QED  BY <2>1, <2>2
<1>4. ASSUME NEW c \in Client, CancelRun(c) PROVE RunsInOrder'
  <2>1. /\ UNCHANGED current
        /\ \A m \in Run : (runs'[m] # "none") <=> (runs[m] # "none")
    BY <1>1, <1>4 DEF CancelRun, Going
  <2>. QED  BY <2>1 DEF RunsInOrder
<1>5. CASE ClientStep
  <2>1. ASSUME NEW c \in Client, Start(c) \/ ScheduleRoot(c) \/ CancelTasks(c) \/ CallerDies(c)
        PROVE  RunsInOrder'
    BY <1>2, <2>1 DEF Start, ScheduleRoot, CancelTasks, CallerDies, execution
  <2>2. ASSUME NEW c \in Client, ResetExecution(c) PROVE RunsInOrder'
    BY <2>2, NewRunInOrder DEF ResetExecution
  <2>3. ASSUME NEW n \in Run, NEW i \in Events, OfferEvent(n, i) PROVE RunsInOrder'
    BY <1>2, <2>3 DEF OfferEvent
  <2>5. ASSUME NEW n \in Run, NEW s \in MayDie, RetryDeadStep(n, s) PROVE RunsInOrder'
    <3>1. runs[n] # "none"
      BY <2>5, Names DEF RetryDeadStep, IInv, RunsThere
    <3>2. UNCHANGED current /\ \A m \in Run : (runs'[m] # "none") <=> (runs[m] # "none")
      BY <1>1, <2>5, <3>1 DEF RetryDeadStep
    <3>. QED  BY <3>2 DEF RunsInOrder
  <2>4. ASSUME RerunSteps PROVE RunsInOrder'
    BY <2>4, NewRunInOrder DEF RerunSteps, Restart
  <2>. QED  BY <1>3, <1>4, <1>5, <2>1, <2>2, <2>3, <2>4, <2>5 DEF ClientStep, Calling
<1>6. CASE Queue
  BY <1>2, <1>6 DEF Queue, PickUp, RecoverOrphan, execution
<1>7. ASSUME NEW d \in dispatches, FinishRun(d) \/ OnFailureRecovers(d) \/ FailRun(d)
      PROVE  RunsInOrder'
  BY <1>7, SetRunInOrder DEF FinishRun, OnFailureRecovers, FailRun, Ended
<1>8. ASSUME NEW d \in dispatches,
             \/ DeadlinePassed(d) \/ ReplayBody(d) \/ CaptureValue(d) \/ ReplayStep(d)
             \/ ScheduleStep(d) \/ UpsertGroup(d) \/ VisitChild(d) \/ LambdaReturns(d)
      PROVE  RunsInOrder'
  BY <1>2, <1>8 DEF DeadlinePassed, ReplayBody, CaptureValue, ReplayStep, ScheduleStep,
                    UpsertGroup, VisitChild, LambdaReturns, execution
<1>9. ASSUME NEW d \in dispatches,
             \/ LambdaTimesOut(d) \/ RescheduleForRetry(d) \/ CompleteStep(d) \/ FailChild(d)
             \/ CompleteTask(d) \/ CompletionRefused(d) \/ MarkFailed(d)
             \/ Lapse(d) \/ Crash(d) \/ DbError(d)
      PROVE  RunsInOrder'
  BY <1>2, <1>9 DEF LambdaTimesOut, RescheduleForRetry, CompleteStep, FailChild, CompleteTask,
                    CompletionRefused, MarkFailed, Lapse, Crash, DbError, execution
<1>10. CASE UNCHANGED vars
  BY <1>2, <1>10 DEF vars
<1>. QED  BY <1>5, <1>6, <1>7, <1>8, <1>9, <1>10 DEF Next, Execute

-----------------------------------------------------------------------------
(* Results.                                                                 *)

(* The branch is the one that Workflow's results select.                     *)
LEMMA BranchIs ==
  ASSUME NEW n \in Run, Determinate, NEW i \in Item
  PROVE  W(n)!OnBranch(i) <=> Chosen(Decision(n), i)
<1>1. CASE i \notin IfOk \cup IfErr
  BY <1>1 DEF W!OnBranch, Chosen
<1>2. CASE i \in IfOk \cup IfErr
  <2>1. Decider \in Item \ Groups
    BY <1>2, DeciderKind
  <2>2. ResultOf(n, Decider) = IF Decision(n) \in Completed THEN Decision(n) ELSE "none"
    BY <2>1 DEF ResultOf, Passed, Decision
  <2>3. (ResultOf(n, Decider) = "ok" <=> Decision(n) = "ok")
          /\ (ResultOf(n, Decider) = "err" <=> Decision(n) = "err")
    BY <2>2 DEF Completed
  <2>. QED  BY <2>1, <2>3 DEF W!OnBranch, Chosen
<1>. QED  BY <1>1, <1>2

(* An item behind the run has a result with which a Workflow goes on.        *)
LEMMA BehindGoesOn ==
  ASSUME NEW n \in Run, Determinate, NEW j \in Item, Behind(n, j)
  PROVE  W(n)!GoesOn(j)
<1>. SUFFICES ASSUME W(n)!OnBranch(j) PROVE W(n)!GoesOn(j)
  BY DEF W!GoesOn
<1>1. Passed(n, j) /\ ~GivesUp(n, j)
  BY BranchIs DEF Behind
<1>2. ResultOf(n, j) \in {"ok", "err"}
  BY <1>1 DEF ResultOf, Passed, Completed
<1>. QED  BY <1>1, <1>2 DEF GivesUp, W!GoesOn

(* Rows that say the same of each result.                                    *)
LEMMA SameResults ==
  ASSUME NEW n \in Run, \A i \in Item : ResultOf(n, i)' = ResultOf(n, i), UNCHANGED runs[n]
  PROVE  WStep(n)
BY DEF WStep, ResultsOf

LEMMA RunsAlone ==
  ASSUME NEW n \in Run, UNCHANGED steps[n]
  PROVE  UNCHANGED ResultsOf(n)
BY DEF ResultsOf, ResultOf, Passed

(* The next result of a body that has come to item i.                        *)
LEMMA Recorded1 ==
  ASSUME NEW n \in Run, Determinate, IInv, NEW i \in Item, Came(n, i), runs[n] # "none", UNCHANGED runs[n],
         ResultOf(n, i) = "none",
         ResultOf(n, i)' = "ok" \/ (ResultOf(n, i)' = "err" /\ i \in Fallible),
         \A j \in Item : j # i => ResultOf(n, j)' = ResultOf(n, j)
  PROVE  WStep(n)
<1>1. \A j \in 1..(i - 1) : W(n)!GoesOn(j)
  <2>1. \A j \in 1..(i - 1) : j \in Item
    BY Kinds DEF Item
  <2>. QED  BY <2>1, BehindGoesOn DEF Came
<1>2. PICK r \in IF i \in Fallible THEN {"ok", "err"} ELSE {"ok"} : r = ResultOf(n, i)'
  OBVIOUS
<1>3. ResultsOf(n)' = [ResultsOf(n) EXCEPT ![i] = r]
  BY <1>2 DEF ResultsOf
<1>4. W(n)!OnBranch(i)
  BY BranchIs DEF Came
<1>5. W(n)!Record(i)
  BY <1>1, <1>2, <1>3, <1>4 DEF W!Record, W!Result, ResultsOf
<1>. QED  BY <1>5 DEF WStep, W!Next, W!Item, Item

(* A row of an item whose result it is, or that says nothing yet.            *)
LEMMA ResultIs ==
  ASSUME NEW n \in Run, NEW i \in Item \ Groups
  PROVE  /\ steps[n][Of(i)] \notin Completed => ResultOf(n, i) = "none"
         /\ steps[n][Of(i)] \in Completed => ResultOf(n, i) = steps[n][Of(i)]
BY DEF ResultOf, Passed

LEMMA ResultIsPrimed ==
  ASSUME NEW n \in Run, NEW i \in Item \ Groups
  PROVE  /\ steps'[n][Of(i)] \notin Completed => ResultOf(n, i)' = "none"
         /\ steps'[n][Of(i)] \in Completed => ResultOf(n, i)' = steps'[n][Of(i)]
BY DEF ResultOf, Passed

(* One row changes: the results of the other items stay.                     *)
LEMMA OthersStay ==
  ASSUME NEW n \in Run, IInv, NEW s \in Name,
         \A x \in Name : x # s => (steps'[n][x] = steps[n][x]),
         NEW j \in Item, j # ItemOf(s)
  PROVE  ResultOf(n, j)' = ResultOf(n, j)
<1>1. CASE j \in Groups
  <2>1. \A x \in Children(j) : x \in Name /\ x # s
    BY <1>1, Names
  <2>. QED  BY <1>1, <2>1 DEF ResultOf, Passed
<1>2. CASE j \notin Groups
  <2>1. Of(j) \in Name /\ Of(j) # s
    BY Names
  <2>. QED  BY <1>2, <2>1 DEF ResultOf, Passed
<1>. QED  BY <1>1, <1>2

(* A row that has no result yet changes none.                               *)
LEMMA NoNewResult ==
  ASSUME NEW n \in Run, IInv, NEW s \in Name, NEW v \in StepStatus \ Completed,
         steps' = [steps EXCEPT ![n][s] = v], steps[n][s] \notin Completed
  PROVE  \A i \in Item : ResultOf(n, i)' = ResultOf(n, i)
<1>1. /\ steps'[n][s] = v /\ \A x \in Name : x # s => (steps'[n][x] = steps[n][x])
  BY Bounds DEF IInv, TypeOK
<1>2. \A x \in Name : steps'[n][x] = steps[n][x]
                        \/ (steps'[n][x] \notin Completed /\ steps[n][x] \notin Completed)
  BY <1>1
<1>. TAKE i \in Item
<1>3. CASE i \in Groups
  <2>1. \A x \in Children(i) : x \in Name
    BY <1>3, Names
  <2>2. Passed(n, i)' <=> Passed(n, i)
    BY <1>2, <1>3, <2>1 DEF Passed
  <2>3. CASE Passed(n, i)
    <3>1. \A x \in Children(i) : steps'[n][x] = steps[n][x]
      BY <1>2, <1>3, <2>1, <2>3 DEF Passed
    <3>. QED  BY <1>3, <2>2, <3>1 DEF ResultOf
  <2>4. CASE ~Passed(n, i)
    BY <2>2, <2>4 DEF ResultOf
  <2>. QED  BY <2>3, <2>4
<1>4. CASE i \notin Groups
  <2>1. Of(i) \in Name
    BY Names
  <2>. QED  BY <1>2, <1>4, <2>1, ResultIs, ResultIsPrimed
<1>. QED  BY <1>3, <1>4

LEMMA NotYet ==
  ASSUME NEW n \in Run, IInv, NEW s \in Name, UNCHANGED runs[n], NEW v \in StepStatus \ Completed,
         steps' = [steps EXCEPT ![n][s] = v], steps[n][s] \notin Completed
  PROVE  WStep(n)
BY NoNewResult, SameResults

(* An item's own row gets its result.                                       *)
LEMMA OwnResult ==
  ASSUME NEW n \in Run, Determinate, IInv, NEW i \in Item \ Groups, runs[n] # "none", UNCHANGED runs[n],
         Came(n, i), steps[n][Of(i)] \notin Completed, NEW v \in Completed,
         steps' = [steps EXCEPT ![n][Of(i)] = v], v = "err" => i \in Fallible
  PROVE  WStep(n)
<1>1. Of(i) \in Name /\ ItemOf(Of(i)) = i
  BY Names
<1>2. steps'[n][Of(i)] = v /\ \A x \in Name : x # Of(i) => (steps'[n][x] = steps[n][x])
  BY <1>1, Bounds DEF IInv, TypeOK
<1>3. ResultOf(n, i) = "none" /\ ResultOf(n, i)' = v
  BY <1>2, ResultIs, ResultIsPrimed
<1>4. \A j \in Item : j # i => ResultOf(n, j)' = ResultOf(n, j)
  BY <1>1, <1>2, OthersStay
<1>. QED  BY <1>3, <1>4, Recorded1 DEF Completed

(* So does a child's, and the wait has its result with the last of them.     *)
LEMMA ChildResult ==
  ASSUME NEW n \in Run, Determinate, IInv, NEW g \in Groups, NEW s \in Children(g), runs[n] # "none",
         UNCHANGED runs[n], Came(n, g), steps[n][s] \notin Completed, NEW v \in Completed,
         steps' = [steps EXCEPT ![n][s] = v], v = "err" => g \in Fallible
  PROVE  WStep(n)
<1>1. s \in Name /\ ItemOf(s) = g /\ g \in Item
  BY Names, Kinds
<1>2. steps'[n][s] = v /\ \A x \in Name : x # s => (steps'[n][x] = steps[n][x])
  BY <1>1, Bounds DEF IInv, TypeOK
<1>3. ResultOf(n, g) = "none"
  BY DEF ResultOf, Passed
<1>4. ResultOf(n, g)' \in {"none", "ok"} \/ (ResultOf(n, g)' = "err" /\ g \in Fallible)
  <2>1. ASSUME NEW x \in Children(g), steps'[n][x] = "err" PROVE g \in Fallible
    <3>1. x \in Name /\ ItemOf(x) = g /\ StepOK(n, x) /\ g \notin Captures
      BY Names, Kinds DEF IInv
    <3>2. CASE x = s
      BY <1>2, <2>1, <3>2
    <3>3. CASE x # s
      BY <1>2, <2>1, <3>1, <3>3 DEF StepOK
    <3>. QED  BY <3>2, <3>3
  <2>. QED  BY <2>1 DEF ResultOf
<1>5. \A j \in Item : j # g => ResultOf(n, j)' = ResultOf(n, j)
  BY <1>1, <1>2, OthersStay
<1>6. CASE ResultOf(n, g)' = "none"
  BY <1>3, <1>5, <1>6, SameResults
<1>7. CASE ResultOf(n, g)' # "none"
  BY <1>1, <1>3, <1>4, <1>5, <1>7, Recorded1
<1>. QED  BY <1>4, <1>6, <1>7

(* The run of a dispatch is the current one or an earlier one.               *)
LEMMA ThisOrEarlier ==
  ASSUME IInv, RunsInOrder, NEW d \in dispatches
  PROVE  /\ RunOf(d) \in Run /\ runs[RunOf(d)] # "none"
         /\ current \in Run /\ RunOf(d) <= current /\ runs[current] # "none"
<1>1. PICK m \in Run : m = RunOf(d) /\ runs[m] # "none"
  BY RunOfDispatch
<1>2. current # NoRun /\ m <= current
  BY <1>1 DEF RunsInOrder
<1>. QED  BY <1>1, <1>2 DEF IInv, TypeOK, RunsThere

LEMMA ElsewhereMaps ==
  ASSUME NEW n \in Run, IInv, RunsInOrder, NEW d \in dispatches, RunOf(d) # n,
         CaptureValue(d) \/ ScheduleStep(d) \/ UpsertGroup(d) \/ CompleteStep(d) \/ FailChild(d)
  PROVE  WStep(n)
<1>1. PICK m \in Run : m = RunOf(d) /\ m # n
  BY ThisOrEarlier
<1>2. UNCHANGED runs /\ \/ UNCHANGED steps
                         \/ \E s, v : steps' = [steps EXCEPT ![m][s] = v]
  BY <1>1 DEF CaptureValue, ScheduleStep, UpsertGroup, CompleteStep, FailChild, Recorded
<1>3. UNCHANGED steps[n]
  BY <1>1, <1>2, Bounds DEF IInv, TypeOK
<1>. QED  BY <1>2, <1>3, RunsAlone DEF WStep

LEMMA CaptureMaps ==
  ASSUME NEW n \in Run, Determinate, IInv, OrderInv, RunsInOrder, NEW d \in dispatches, RunOf(d) = n,
         CaptureValue(d)
  PROVE  WStep(n)
<1>1. PICK j \in Captures : d.at = Of(j)
  BY DEF CaptureValue, IInv, DispatchOK, PhaseOK
<1>2. j \in Item \ Groups /\ ItemOf(Of(j)) = j /\ j # Decider
  BY <1>1, Kinds, Names DEF Determinate
<1>3. Came(n, j) /\ runs[n] # "none" /\ UNCHANGED runs[n]
  BY <1>1, <1>2, ThisOrEarlier DEF OrderInv, OrderOK, CaptureValue
<1>4. steps' = IF steps[n][Of(j)] = "none" THEN [steps EXCEPT ![n][Of(j)] = "ok"] ELSE steps
  BY <1>1, <1>2 DEF CaptureValue
<1>5. CASE steps[n][Of(j)] # "none"
  BY <1>3, <1>4, <1>5, RunsAlone DEF WStep
<1>6. CASE steps[n][Of(j)] = "none"
  BY <1>2, <1>3, <1>4, <1>6, OwnResult DEF Completed
<1>. QED  BY <1>5, <1>6

LEMMA ScheduleMaps ==
  ASSUME NEW n \in Run, Determinate, IInv, OrderInv, RunsInOrder, NEW d \in dispatches, RunOf(d) = n,
         ScheduleStep(d) \/ UpsertGroup(d)
  PROVE  WStep(n)
<1>1. /\ UNCHANGED runs[n]
      /\ \/ UNCHANGED steps
         \/ steps[n][d.at] = "none" /\ steps' = [steps EXCEPT ![n][d.at] = "scheduled"]
  <2>1. CASE ScheduleStep(d)
    BY <2>1 DEF ScheduleStep
  <2>2. CASE UpsertGroup(d)
    <3>1. PICK g \in Groups : d.at = Of(g)
      BY <2>2 DEF UpsertGroup, IInv, DispatchOK, PhaseOK
    <3>2. ItemOf(d.at) = g
      BY <3>1, Kinds, Names
    <3>. QED  BY <2>2, <3>1, <3>2 DEF UpsertGroup, GroupRowAbsent
  <2>. QED  BY <2>1, <2>2
<1>2. d.at \in Name
  <2>1. CASE ScheduleStep(d)
    <3>1. AtPlain(d) \/ AtChild(d)
      BY <2>1 DEF ScheduleStep, IInv, DispatchOK, PhaseOK
    <3>. QED  BY <3>1, Names DEF AtPlain, AtChild
  <2>2. CASE UpsertGroup(d)
    <3>1. PICK g \in Groups : d.at = Of(g)
      BY <2>2 DEF UpsertGroup, IInv, DispatchOK, PhaseOK
    <3>. QED  BY <3>1, Kinds, Names
  <2>. QED  BY <2>1, <2>2
<1>3. CASE UNCHANGED steps
  BY <1>1, <1>3, RunsAlone DEF WStep
<1>4. CASE steps[n][d.at] = "none" /\ steps' = [steps EXCEPT ![n][d.at] = "scheduled"]
  <2>1. "scheduled" \in StepStatus \ Completed /\ steps[n][d.at] \notin Completed
    BY <1>4 DEF StepStatus, Completed
  <2>. QED  BY <1>1, <1>2, <1>4, <2>1, NotYet
<1>. QED  BY <1>1, <1>3, <1>4

LEMMA FailChildMaps ==
  ASSUME NEW n \in Run, IInv, NEW d \in dispatches, RunOf(d) = n, FailChild(d)
  PROVE  WStep(n)
<1>1. PICK s : s = Target(d)
  OBVIOUS
<1>2. /\ s \in Name /\ steps' = [steps EXCEPT ![n][s] = "dead"] /\ UNCHANGED runs[n]
      /\ s \in MayDie
      /\ steps[n][s] \in Completed => ItemOf(s) \in Events
  BY <1>1, CompletionFacts DEF FailChild
<1>3. "dead" \in StepStatus \ Completed /\ steps[n][s] \notin Completed
  BY <1>2, Names, Kinds DEF StepStatus, Completed
<1>. QED  BY <1>2, <1>3, NotYet

LEMMA CompleteMaps ==
  ASSUME NEW n \in Run, Determinate, IInv, OrderInv, RunsInOrder, NEW d \in dispatches, RunOf(d) = n,
         CompleteStep(d)
  PROVE  WStep(n)
<1>1. PICK s \in Name : s = Target(d)
  BY CompletionFacts
<1>2. RunOf(d) = n /\ runs[n] # "none" /\ UNCHANGED runs[n]
  BY ThisOrEarlier DEF CompleteStep
<1>3. PICK v \in Completed : v = IF d.result = "err" THEN "err" ELSE "ok"
  BY DEF Completed
<1>4. /\ d.task = StepTask(n, s) /\ Exists(d.task) /\ s \notin GroupRow
      /\ steps[n][s] \in Completed => steps[n][s] = "ok" /\ d.result # "err"
      /\ d.result = "err" => ItemOf(s) \in Fallible
  BY <1>1, <1>2, CompletionFacts
<1>5. steps' = [steps EXCEPT ![n][s] = v]
  BY <1>1, <1>2, <1>3 DEF CompleteStep, Recorded
<1>6. Came(n, ItemOf(s))
  BY <1>4, Bounds DEF OrderInv
<1>7. CASE steps[n][s] \in Completed
  <2>1. steps' = steps
    BY <1>3, <1>4, <1>5, <1>7, Bounds DEF IInv, TypeOK
  <2>. QED  BY <1>2, <2>1, RunsAlone DEF WStep
<1>8. CASE steps[n][s] \notin Completed
  <2>1. CASE \E i \in Item : s = Of(i)
    <3>1. PICK i \in Item : s = Of(i)
      BY <2>1
    <3>2. i \notin Groups /\ ItemOf(s) = i
      BY <1>4, <3>1, Names DEF GroupRow
    <3>3. v = "err" => i \in Fallible
      BY <1>3, <1>4, <3>2
    <3>. QED  BY <1>2, <1>5, <1>6, <1>8, <3>1, <3>2, <3>3, OwnResult
  <2>2. CASE \E g \in Groups : s \in Children(g)
    <3>1. PICK g \in Groups : s \in Children(g)
      BY <2>2
    <3>2. ItemOf(s) = g
      BY <3>1, Names
    <3>3. v = "err" => g \in Fallible
      BY <1>3, <1>4, <3>2
    <3>. QED  BY <1>2, <1>5, <1>6, <1>8, <3>1, <3>2, <3>3, ChildResult
  <2>. QED  BY <2>1, <2>2, Names
<1>. QED  BY <1>7, <1>8

LEMMA OfferMaps ==
  ASSUME NEW n \in Run, Determinate, IInv, OrderInv, NEW i \in Events, OfferEvent(n, i)
  PROVE  WStep(n)
<1>1. runs[n] # "none" /\ UNCHANGED runs[n]
  BY DEF OfferEvent
<1>2. /\ i \in Item \ Groups /\ Of(i) \in Name /\ ItemOf(Of(i)) = i /\ Of(i) \notin GroupRow
  BY Kinds, Names DEF GroupRow
<1>3. steps[n][Of(i)] = "scheduled" /\ steps' = [steps EXCEPT ![n][Of(i)] = "ok"]
  BY <1>1 DEF OfferEvent
<1>4. Came(n, i)
  <2>1. StepOK(n, Of(i))
    BY <1>2, Bounds DEF IInv
  <2>2. Exists(StepTask(n, Of(i)))
    BY <1>2, <1>3, <2>1 DEF StepOK
  <2>. QED  BY <1>2, <2>2, Bounds DEF OrderInv
<1>5. "ok" \in Completed /\ steps[n][Of(i)] \notin Completed
  BY <1>3 DEF Completed
<1>. QED  BY <1>1, <1>2, <1>3, <1>4, <1>5, OwnResult

-----------------------------------------------------------------------------
(* Steps that change the run's status and no row.                           *)

LEMMA NoRowNoResult ==
  ASSUME NEW n \in Run, \A s \in Name : steps[n][s] = "none", NEW i \in Item
  PROVE  ResultOf(n, i) = "none"
<1>1. CASE i \in Groups
  <2>1. <<i, 1>> \in Children(i) /\ <<i, 1>> \in Name
    <3>1. 1 \in 1..Fanout
      BY Kinds
    <3>. QED  BY <1>1, <3>1, Names
  <2>. QED  BY <1>1, <2>1 DEF ResultOf, Passed, Completed
<1>2. CASE i \notin Groups
  BY <1>2, Names DEF ResultOf, Passed, Completed
<1>. QED  BY <1>1, <1>2

LEMMA StatusMaps ==
  ASSUME NEW n \in Run, IInv, UNCHANGED steps[n],
         \/ runs'[n] = runs[n]
         \/ runs[n] = "none" /\ runs'[n] = "scheduled"
         \/ runs[n] \in Going /\ runs'[n] = "cancelled"
         \/ runs[n] \notin {"none", "cancelled"} /\ runs'[n] = "failed"
         \/ /\ runs[n] \notin {"none", "cancelled"} /\ runs'[n] = "completed"
            /\ CanRecover \/ \A i \in Item : W(n)!GoesOn(i)
  PROVE  WStep(n)
<1>1. UNCHANGED ResultsOf(n)
  BY RunsAlone
<1>2. CASE runs[n] = "none" /\ runs'[n] = "scheduled"
  <2>1. \A i \in Item : ResultOf(n, i) = "none"
    BY <1>2, NoRowNoResult DEF IInv, RunsThere
  <2>2. ResultsOf(n)' = [i \in Item |-> "none"]
    BY <1>1, <2>1 DEF ResultsOf
  <2>3. W(n)!Begin
    BY <1>2, <2>2 DEF W!Begin, W!Item, Item, ResultsOf
  <2>. QED  BY <2>3 DEF WStep, W!Next
<1>3. CASE runs[n] \in Going /\ runs'[n] = "cancelled"
  <2>1. W(n)!Cancel
    BY <1>1, <1>3 DEF Going, W!Cancel, ResultsOf
  <2>. QED  BY <2>1 DEF WStep, W!Next
<1>4. CASE runs[n] \notin {"none", "cancelled"} /\ runs'[n] = "failed"
  <2>1. W(n)!Fail
    BY <1>1, <1>4 DEF W!Fail, W!Open, ResultsOf
  <2>. QED  BY <2>1 DEF WStep, W!Next
<1>5. CASE /\ runs[n] \notin {"none", "cancelled"} /\ runs'[n] = "completed"
           /\ CanRecover \/ \A i \in Item : W(n)!GoesOn(i)
  <2>1. W(n)!Complete
    BY <1>1, <1>5 DEF W!Complete, W!Open, W!Item, Item, ResultsOf
  <2>. QED  BY <2>1 DEF WStep, W!Next
<1>. QED  BY <1>1, <1>2, <1>3, <1>4, <1>5 DEF WStep

LEMMA EndMaps ==
  ASSUME NEW n \in Run, IInv, RunsInOrder, NEW d \in dispatches, UNCHANGED steps,
         \/ SetRun("failed")
         \/ SetRun("completed") /\ (current = n => CanRecover \/ \A i \in Item : W(n)!GoesOn(i))
  PROVE  WStep(n)
<1>1. current \in Run /\ (current = n => runs[n] # "none")
  BY ThisOrEarlier
<1>2. runs \in [Run -> RunStatus]
  BY DEF IInv, TypeOK
<1>3. CASE current # n \/ runs[current] = "cancelled"
  <2>1. runs'[n] = runs[n]
    BY <1>1, <1>2, <1>3 DEF SetRun
  <2>. QED  BY <2>1, StatusMaps
<1>4. CASE current = n /\ runs[n] # "cancelled" /\ SetRun("failed")
  <2>1. runs'[n] = "failed"
    BY <1>1, <1>2, <1>4 DEF SetRun
  <2>. QED  BY <1>1, <1>4, <2>1, StatusMaps
<1>5. CASE current = n /\ runs[n] # "cancelled" /\ SetRun("completed")
                       /\ (CanRecover \/ \A i \in Item : W(n)!GoesOn(i))
  <2>1. runs'[n] = "completed"
    BY <1>1, <1>2, <1>5 DEF SetRun
  <2>. QED  BY <1>1, <1>5, <2>1, StatusMaps
<1>. QED  BY <1>1, <1>3, <1>4, <1>5

LEMMA EndsMap ==
  ASSUME NEW n \in Run, Determinate, IInv, OrderInv, RunsInOrder, NoLateBody(n),
         NEW d \in dispatches, FinishRun(d) \/ OnFailureRecovers(d) \/ FailRun(d)
  PROVE  WStep(n)
<1>1. CASE FinishRun(d)
  <2>1. current = n => \A i \in Item : Behind(n, i)
    BY <1>1 DEF NoLateBody, OrderInv, OrderOK, FinishRun
  <2>2. current = n => \A i \in Item : W(n)!GoesOn(i)
    BY <2>1, BehindGoesOn
  <2>. QED  BY <1>1, <2>2, EndMaps DEF FinishRun
<1>2. CASE OnFailureRecovers(d)
  BY <1>2, EndMaps DEF OnFailureRecovers
<1>3. CASE FailRun(d)
  BY <1>3, EndMaps DEF FailRun
<1>. QED  BY <1>1, <1>2, <1>3

(* A wait with a dead child has no result, and the retry of it none yet.     *)
LEMMA RetryMaps ==
  ASSUME NEW n \in Run, IInv, NEW m \in Run, NEW s \in MayDie, RetryDeadStep(m, s)
  PROVE  WStep(n)
<1>1. /\ s \in Name /\ ItemOf(s) \in Groups /\ s \in Children(ItemOf(s)) /\ ItemOf(s) \in Item
      /\ steps[m][s] = "dead" /\ steps' = [steps EXCEPT ![m][s] = "scheduled"]
      /\ runs' = [runs EXCEPT ![m] = "running"]
  BY Names, Kinds DEF RetryDeadStep
<1>2. CASE m # n
  <2>1. UNCHANGED <<runs[n], steps[n]>>
    BY <1>1, <1>2 DEF IInv, TypeOK
  <2>. QED  BY <2>1, RunsAlone DEF WStep
<1>3. CASE m = n
  <2>1. runs[n] # "none" /\ runs'[n] = "running"
    BY <1>1, <1>3 DEF IInv, TypeOK, RunsThere
  <2>2. "scheduled" \in StepStatus \ Completed /\ steps[n][s] \notin Completed
    BY <1>1, <1>3 DEF StepStatus, Completed
  <2>3. \A i \in Item : ResultOf(n, i)' = ResultOf(n, i)
    BY <1>1, <1>3, <2>2, NoNewResult
  <2>4. UNCHANGED ResultsOf(n)
    BY <2>3 DEF ResultsOf
  <2>5. ResultOf(n, ItemOf(s)) = "none"
    BY <1>1, <2>2 DEF ResultOf, Passed
  <2>6. W(n)!Retry
    BY <1>1, <2>1, <2>4, <2>5 DEF W!Retry, ResultsOf
  <2>. QED  BY <2>6 DEF WStep, W!Next
<1>. QED  BY <1>2, <1>3

(* A rerun begins with results of the run that was current, those of items   *)
(* it may keep.                                                             *)
LEMMA RerunMaps ==
  ASSUME NEW n \in Run, Determinate, IInv, NEW P, P \subseteq {s \in Name : ItemOf(s) \in Preservable},
         current # NoRun, NewRun(n),
         steps' = [steps EXCEPT ![n] = [s \in Name |->
            IF s \in Kept(current, P) THEN steps[current][s] ELSE "none"]]
  PROVE  WStep(n)
<1>1. /\ current \in Run /\ n # 0 /\ runs[n] = "none" /\ runs'[n] = "scheduled"
      /\ \A s \in Name : StepOK(current, s)
  BY Bounds DEF IInv, TypeOK, RunsThere, NewRun
<1>2. \A s \in Name : steps'[n][s] = IF s \in P /\ steps[current][s] \in Completed
                                     THEN steps[current][s] ELSE "none"
  BY DEF Kept, IInv, TypeOK
<1>3. ASSUME NEW i \in Item, ResultOf(n, i)' # "none"
      PROVE  i \in Preservable /\ (ResultOf(n, i)' = "ok" \/ (ResultOf(n, i)' = "err" /\ i \in Fallible))
  <2>1. CASE i \in Groups
    <3>1. <<i, 1>> \in Children(i) /\ <<i, 1>> \in Name /\ ItemOf(<<i, 1>>) = i
      <4>1. 1 \in 1..Fanout
        BY Kinds
      <4>. QED  BY <2>1, <4>1, Names
    <3>2. steps'[n][<<i, 1>>] \in Completed
      BY <1>3, <2>1, <3>1 DEF ResultOf, Passed
    <3>3. <<i, 1>> \in P
      BY <1>2, <3>1, <3>2 DEF Completed
    <3>4. ASSUME NEW x \in Children(i), steps'[n][x] = "err" PROVE i \in Fallible
      <4>1. x \in Name /\ ItemOf(x) = i /\ i \notin Captures
        BY <2>1, Names, Kinds
      <4>2. steps[current][x] = "err" /\ StepOK(current, x)
        BY <1>1, <1>2, <3>4, <4>1
      <4>. QED  BY <4>1, <4>2 DEF StepOK
    <3>. QED  BY <1>3, <2>1, <3>1, <3>3, <3>4 DEF ResultOf
  <2>2. CASE i \notin Groups
    <3>1. Of(i) \in Name /\ ItemOf(Of(i)) = i
      BY Names
    <3>2. steps'[n][Of(i)] \in Completed /\ ResultOf(n, i)' = steps'[n][Of(i)]
      BY <1>3, <2>2, ResultIsPrimed
    <3>3. Of(i) \in P /\ steps'[n][Of(i)] = steps[current][Of(i)]
      BY <1>2, <3>1, <3>2 DEF Completed
    <3>4. steps[current][Of(i)] = "err" => i \in Fallible
      BY <1>1, <3>1 DEF StepOK, Determinate
    <3>. QED  BY <3>1, <3>2, <3>3, <3>4 DEF Completed
  <2>. QED  BY <2>1, <2>2
<1>4. ResultsOf(n)' \in [Item -> {"none", "ok", "err"}]
  BY <1>3 DEF ResultsOf
<1>5. \A i \in Item : ResultsOf(n)'[i] # "none" =>
        i \in Preservable /\ ResultsOf(n)'[i] \in IF i \in Fallible THEN {"ok", "err"} ELSE {"ok"}
  BY <1>3 DEF ResultsOf
<1>6. W(n)!Begin
  BY <1>1, <1>4, <1>5 DEF W!Begin, W!Result, W!Item, Item, ResultsOf
<1>. QED  BY <1>6 DEF WStep, W!Next

LEMMA ClientMaps ==
  ASSUME NEW n \in Run, Determinate, IInv, OrderInv, RunsInOrder, ClientStep
  PROVE  WStep(n)
<1>1. /\ runs \in [Run -> RunStatus] /\ current \in Run \cup {NoRun}
      /\ NoRun \notin Run /\ 0 \in Run
      /\ steps \in [Run -> [Name -> StepStatus]]
  BY Bounds DEF IInv, TypeOK
<1>2. ASSUME NEW c \in Client, CreateExecution(c) PROVE WStep(n)
  <2>1. UNCHANGED steps /\ (UNCHANGED runs \/ (current = NoRun /\ runs' = [runs EXCEPT ![0] = "scheduled"]))
    BY <1>2 DEF CreateExecution
  <2>2. current = NoRun => runs[0] = "none"
    BY <1>1 DEF IInv, RunsInv
  <2>. QED  BY <1>1, <2>1, <2>2, StatusMaps
<1>3. ASSUME NEW m \in Run, NewRun(m), UNCHANGED steps[n] PROVE WStep(n)
  <2>1. (runs[n] = "none" /\ runs'[n] = "scheduled") \/ runs'[n] = runs[n]
    BY <1>1, <1>3 DEF NewRun
  <2>. QED  BY <1>3, <2>1, StatusMaps
<1>4. ASSUME NEW c \in Client, CancelRun(c) PROVE WStep(n)
  <2>1. UNCHANGED steps /\ runs'[n] = IF current = n /\ runs[n] \in Going THEN "cancelled" ELSE runs[n]
    BY <1>1, <1>4 DEF CancelRun
  <2>. QED  BY <2>1, StatusMaps
<1>5. ASSUME RerunSteps PROVE WStep(n)
  <2>1. PICK P \in SUBSET {s \in Name : ItemOf(s) \in Preservable} : Restart(P)
    BY <1>5 DEF RerunSteps
  <2>2. PICK m \in Run :
          /\ current # NoRun /\ NewRun(m)
          /\ steps' = [steps EXCEPT ![m] = [s \in Name |->
               IF s \in Kept(current, P) THEN steps[current][s] ELSE "none"]]
    BY <2>1 DEF Restart
  <2>3. CASE m = n
    BY <2>2, <2>3, RerunMaps
  <2>4. CASE m # n
    <3>1. UNCHANGED steps[n]
      BY <1>1, <2>2, <2>4
    <3>. QED  BY <1>3, <2>2, <3>1
  <2>. QED  BY <2>3, <2>4
<1>6. ASSUME NEW c \in Client, Start(c) \/ ScheduleRoot(c) \/ CancelTasks(c) \/ CallerDies(c)
      PROVE  WStep(n)
  <2>1. UNCHANGED execution
    BY <1>6 DEF Start, ScheduleRoot, CancelTasks, CallerDies
  <2>. QED  BY <2>1, StatusMaps DEF execution
<1>7. ASSUME NEW c \in Client, ResetExecution(c) PROVE WStep(n)
  BY <1>3, <1>7 DEF ResetExecution
<1>8. ASSUME NEW m \in Run, NEW i \in Events, OfferEvent(m, i) PROVE WStep(n)
  <2>1. CASE m # n
    <3>1. UNCHANGED <<runs, steps[n]>>
      BY <1>1, <1>8, <2>1 DEF OfferEvent
    <3>. QED  BY <3>1, StatusMaps
  <2>. QED  BY <1>8, <2>1, OfferMaps
<1>. QED  BY <1>2, <1>4, <1>5, <1>6, <1>7, <1>8, RetryMaps DEF ClientStep, Calling

LEMMA DispatchMaps ==
  ASSUME NEW n \in Run, Determinate, IInv, OrderInv, RunsInOrder, NoLateBody(n),
         NEW d \in dispatches, Execute(d)
  PROVE  WStep(n)
<1>1. CASE UNCHANGED execution
  BY <1>1, StatusMaps DEF execution
<1>2. CASE \/ DeadlinePassed(d) \/ ReplayBody(d) \/ ReplayStep(d) \/ VisitChild(d)
           \/ LambdaReturns(d) \/ LambdaTimesOut(d) \/ RescheduleForRetry(d)
           \/ CompleteTask(d) \/ CompletionRefused(d) \/ MarkFailed(d)
  BY <1>1, <1>2 DEF DeadlinePassed, ReplayBody, ReplayStep, VisitChild, LambdaReturns,
                    LambdaTimesOut, RescheduleForRetry, CompleteTask, CompletionRefused, MarkFailed
<1>3. CASE CaptureValue(d) \/ ScheduleStep(d) \/ UpsertGroup(d) \/ CompleteStep(d) \/ FailChild(d)
  BY <1>3, CaptureMaps, ScheduleMaps, CompleteMaps, FailChildMaps, ElsewhereMaps
<1>. QED  BY <1>2, <1>3, EndsMap DEF Execute

LEMMA WorkflowStep ==
  ASSUME NEW n \in Run, Determinate, IInv, OrderInv, RunsInOrder, NoLateBody(n), [Next]_vars
  PROVE  WStep(n)
<1>1. CASE UNCHANGED execution
  BY <1>1, StatusMaps DEF execution
<1>2. CASE Queue
  BY <1>1, <1>2 DEF Queue, PickUp, RecoverOrphan
<1>3. ASSUME NEW d \in dispatches, Lapse(d) \/ Crash(d) \/ DbError(d) PROVE WStep(n)
  BY <1>1, <1>3 DEF Lapse, Crash, DbError
<1>4. CASE UNCHANGED vars
  BY <1>1, <1>4 DEF vars, execution
<1>. QED  BY <1>2, <1>3, <1>4, ClientMaps, DispatchMaps DEF Next

LEMMA WorkflowInit ==
  ASSUME NEW n \in Run, Init
  PROVE  W(n)!Init
<1>1. runs[n] = "none" /\ \A s \in Name : steps[n][s] = "none"
  BY DEF Init
<1>2. \A i \in Item : ResultOf(n, i) = "none"
  BY <1>1, NoRowNoResult
<1>. QED  BY <1>1, <1>2 DEF W!Init, W!Item, Item

(* A run of an execution is a Workflow, for a body of any length, if every   *)
(* replay sees the branch as it is recorded and only the run's own body      *)
(* completes it: under every interleaving of replays, steps, retries,        *)
(* events, cancels, restarts, lost leases and crashes its results are        *)
(* recorded once each, in the order of the body and on one branch, but for   *)
(* those a rerun began with; and complete_execution finds them all, or       *)
(* on_failure has recovered.  Bodies of other runs may go on meanwhile, in   *)
(* whatever state.                                                          *)
THEOREM RunImplementsWorkflow ==
  ASSUME Determinate, NEW n \in Run
  PROVE  Spec /\ []NoLateBody(n) => W(n)!Spec
<1>1. IInv /\ OrderInv /\ RunsInOrder /\ NoLateBody(n) /\ [Next]_vars
        => [W(n)!Next]_<<runs[n], [i \in Item |-> ResultOf(n, i)]>>
  BY WorkflowStep DEF WStep, ResultsOf
<1>2. IInv /\ RunsInOrder /\ [Next]_vars => RunsInOrder'
  BY RunsInOrderStep
<1>3. Init => W(n)!Init /\ RunsInOrder
  BY WorkflowInit DEF Init, RunsInOrder
<1>. QED  BY <1>1, <1>2, <1>3, IInvariance, OrderInvariance, PTL DEF Spec, W!Spec

LEMMA SameWorkflow == (W(0)!Init <=> FirstRun!Init) /\ (W(0)!Next <=> FirstRun!Next)
<1>1. \A i : /\ W(0)!OnBranch(i) <=> FirstRun!OnBranch(i)
             /\ W(0)!GoesOn(i) <=> FirstRun!GoesOn(i)
  BY DEF W!OnBranch, FirstRun!OnBranch, W!GoesOn, FirstRun!GoesOn
<1>2. \A i : W(0)!Record(i) <=> FirstRun!Record(i)
  BY <1>1 DEF W!Record, FirstRun!Record, W!Result, FirstRun!Result
<1>3. W(0)!Begin <=> FirstRun!Begin
  BY DEF W!Begin, FirstRun!Begin, W!Result, FirstRun!Result, W!Item, FirstRun!Item
<1>4. W(0)!Complete <=> FirstRun!Complete
  BY <1>1 DEF W!Complete, FirstRun!Complete, W!Open, FirstRun!Open, W!Item, FirstRun!Item
<1>5. W(0)!Retry <=> FirstRun!Retry
  BY DEF W!Retry, FirstRun!Retry
<1>. QED  BY <1>2, <1>3, <1>4, <1>5 DEF W!Init, FirstRun!Init, W!Next, FirstRun!Next, W!Fail, FirstRun!Fail,
             W!Cancel, FirstRun!Cancel, W!Open, FirstRun!Open, W!Item, FirstRun!Item

(* The first run is always one: when it is current there is no other run     *)
(* yet, so that no body of another run can complete it.                      *)
THEOREM FirstRunImplementsWorkflow ==
  ASSUME Determinate
  PROVE  Spec => ImplementsWorkflow
<1>1. IInv /\ RunsInOrder => NoLateBody(0)
  <2>1. SUFFICES ASSUME IInv, RunsInOrder, NEW d \in dispatches, current = 0 PROVE RunOf(d) = 0
    BY DEF NoLateBody
  <2>2. PICK m \in Run : m = RunOf(d) /\ m <= 0
    BY <2>1, ThisOrEarlier
  <2>. QED  BY <2>2, Bounds
<1>2. IInv /\ OrderInv /\ RunsInOrder /\ [Next]_vars
        => [FirstRun!Next]_<<runs[0], [i \in Item |-> ResultOf(0, i)]>>
  <2>1. IInv /\ OrderInv /\ RunsInOrder /\ [Next]_vars => WStep(0)
    BY <1>1, WorkflowStep, Bounds
  <2>. QED  BY <2>1, SameWorkflow DEF WStep, ResultsOf
<1>3. IInv /\ RunsInOrder /\ [Next]_vars => RunsInOrder'
  BY RunsInOrderStep
<1>4. Init => FirstRun!Init /\ RunsInOrder
  BY WorkflowInit, SameWorkflow, Bounds DEF Init, RunsInOrder
<1>. QED  BY <1>2, <1>3, <1>4, IInvariance, OrderInvariance, PTL
          DEF Spec, ImplementsWorkflow, FirstRun!Spec

-----------------------------------------------------------------------------
(* The rows of the tasks as jobs of the queue.                              *)

jobs == [t \in TaskId |-> JobOf(t)]
Claims == {<<LeaseOf(d), d.task>> : d \in dispatches}

QStep == Jobs!JobNext \/ UNCHANGED <<jobs, Claims>>

(* A dispatch is known by its task and the number of times that was fetched, *)
(* and its task may have been fetched since.                                 *)
QueueOK ==
  /\ \A d \in dispatches : d.attempt <= tasks[d.task].attempt
  /\ \A d, e \in dispatches : d.task = e.task /\ d.attempt = e.attempt => d = e

(* A dispatch goes on, whatever it does.                                    *)
GoesOn(d) == \E e : Become(d, e) /\ e.task = d.task /\ e.attempt = d.attempt

LEMMA KeepsLease ==
  ASSUME NEW d \in Dispatch, NEW e, e.task = d.task, e.attempt = d.attempt, Become(d, e)
  PROVE  GoesOn(d)
BY DEF GoesOn

LEMMA ThenLease ==
  ASSUME NEW d \in Dispatch
  PROVE  \A p : Then(d, p).task = d.task /\ Then(d, p).attempt = d.attempt
BY DEF Then, Dispatch

LEMMA ToGoesOn ==
  ASSUME NEW d \in Dispatch, NEW p, To(d, p)
  PROVE  GoesOn(d)
BY ThenLease, KeepsLease DEF To

LEMMA ReplayGoesOn ==
  ASSUME NEW d \in Dispatch, ReplayBody(d) \/ ReplayStep(d) \/ CaptureValue(d)
  PROVE  GoesOn(d)
<1>1. \A a, p : [d EXCEPT !.at = a, !.phase = p].task = d.task
             /\ [d EXCEPT !.at = a, !.phase = p].attempt = d.attempt
  BY DEF Dispatch
<1>2. CASE ReplayBody(d)
  BY <1>1, <1>2, ToGoesOn, KeepsLease DEF ReplayBody
<1>3. CASE ReplayStep(d)
  <2>1. \A i : StepBehavior(d, i).task = d.task /\ StepBehavior(d, i).attempt = d.attempt
    <3>1. \A r, p : [d EXCEPT !.result = r, !.phase = p].task = d.task
                 /\ [d EXCEPT !.result = r, !.phase = p].attempt = d.attempt
      BY DEF Dispatch
    <3>. QED  BY <3>1, ThenLease DEF StepBehavior
  <2>. QED  BY <1>1, <1>3, <2>1, ToGoesOn, KeepsLease DEF ReplayStep
<1>4. CASE CaptureValue(d)
  <2>1. PICK o : Become(d, [Then(d, "replaying") EXCEPT !.own = o])
    BY <1>4 DEF CaptureValue
  <2>2. /\ [Then(d, "replaying") EXCEPT !.own = o].task = d.task
        /\ [Then(d, "replaying") EXCEPT !.own = o].attempt = d.attempt
    BY DEF Then, Dispatch
  <2>. QED  BY <2>1, <2>2, KeepsLease
<1>. QED  BY <1>2, <1>3, <1>4

LEMMA VisitGoesOn ==
  ASSUME NEW d \in Dispatch, ScheduleStep(d) \/ UpsertGroup(d) \/ VisitChild(d)
  PROVE  GoesOn(d)
<1>1. /\ \A a : [d EXCEPT !.phase = "visiting", !.at = a].task = d.task
             /\ [d EXCEPT !.phase = "visiting", !.at = a].attempt = d.attempt
      /\ [d EXCEPT !.phase = "scheduling"].task = d.task
      /\ [d EXCEPT !.phase = "scheduling"].attempt = d.attempt
  BY DEF Dispatch
<1>2. \A l : Visited(d, l).task = d.task /\ Visited(d, l).attempt = d.attempt
  <2>1. \A a, l : [d EXCEPT !.phase = "visiting", !.at = a, !.all = l].task = d.task
               /\ [d EXCEPT !.phase = "visiting", !.at = a, !.all = l].attempt = d.attempt
    BY DEF Dispatch
  <2>. QED  BY <2>1, ThenLease DEF Visited
<1>3. CASE ScheduleStep(d)
  <2>1. CASE IsChild(d.at)
    BY <1>2, <1>3, <2>1, KeepsLease DEF ScheduleStep
  <2>2. CASE ~IsChild(d.at)
    BY <1>3, <2>2, ThenLease, KeepsLease DEF ScheduleStep
  <2>. QED  BY <2>1, <2>2
<1>4. CASE UpsertGroup(d)
  BY <1>1, <1>4, KeepsLease DEF UpsertGroup
<1>5. CASE VisitChild(d)
  <2>1. CASE steps[RunOf(d)][d.at] = "none"
    BY <1>1, <1>5, <2>1, KeepsLease DEF VisitChild
  <2>2. CASE steps[RunOf(d)][d.at] # "none"
    BY <1>2, <1>5, <2>2, KeepsLease DEF VisitChild
  <2>. QED  BY <2>1, <2>2
<1>. QED  BY <1>3, <1>4, <1>5

LEMMA LambdaGoesOn ==
  ASSUME NEW d \in Dispatch, LambdaReturns(d) \/ LambdaTimesOut(d) \/ RescheduleForRetry(d)
  PROVE  GoesOn(d)
<1>1. /\ \A r : [d EXCEPT !.phase = "stepping", !.result = r].task = d.task
             /\ [d EXCEPT !.phase = "stepping", !.result = r].attempt = d.attempt
      /\ [d EXCEPT !.phase = "retrying"].task = d.task
      /\ [d EXCEPT !.phase = "retrying"].attempt = d.attempt
  BY DEF Dispatch
<1>2. CASE LambdaReturns(d)
  <2>1. \/ \E r : Become(d, [d EXCEPT !.phase = "stepping", !.result = r])
        \/ Become(d, [d EXCEPT !.phase = "retrying"])
    BY <1>2 DEF LambdaReturns
  <2>. QED  BY <1>1, <2>1, KeepsLease
<1>3. CASE LambdaTimesOut(d)
  BY <1>1, <1>3, KeepsLease DEF LambdaTimesOut
<1>4. CASE RescheduleForRetry(d)
  BY <1>4, ToGoesOn DEF RescheduleForRetry
<1>. QED  BY <1>2, <1>3, <1>4

(* What becomes of the claims.                                              *)
LEMMA GoingOn ==
  ASSUME QueueOK, NEW d \in dispatches, GoesOn(d),
         tasks'[d.task].attempt = tasks[d.task].attempt,
         \A x \in dispatches : tasks'[x.task].attempt = tasks[x.task].attempt
  PROVE  QueueOK' /\ UNCHANGED Claims
<1>1. PICK e : Become(d, e) /\ e.task = d.task /\ e.attempt = d.attempt
  BY DEF GoesOn
<1>2. QueueOK'
  BY <1>1 DEF QueueOK, Become
<1>3. UNCHANGED Claims
  BY <1>1 DEF Claims, LeaseOf, Become
<1>. QED  BY <1>2, <1>3

LEMMA GoingAway ==
  ASSUME QueueOK, NEW d \in dispatches, Gone(d),
         \A x \in dispatches : tasks'[x.task].attempt = tasks[x.task].attempt
  PROVE  QueueOK' /\ Claims' = Claims \ {<<LeaseOf(d), d.task>>}
<1>1. QueueOK'
  BY DEF QueueOK, Gone
<1>2. \A x \in dispatches : x # d => <<LeaseOf(x), x.task>> # <<LeaseOf(d), d.task>>
  BY DEF QueueOK, LeaseOf
<1>3. Claims' = Claims \ {<<LeaseOf(d), d.task>>}
  BY <1>2 DEF Claims, Gone, LeaseOf
<1>. QED  BY <1>1, <1>3

LEMMA Staying ==
  ASSUME QueueOK, UNCHANGED dispatches,
         \A x \in dispatches : tasks'[x.task].attempt = tasks[x.task].attempt
  PROVE  QueueOK' /\ UNCHANGED Claims
BY DEF QueueOK, Claims, LeaseOf

(* What becomes of the rows.                                                *)
LEMMA SameJob ==
  ASSUME NEW t, tasks'[t] = tasks[t]
  PROVE  JobOf(t)' = JobOf(t)
BY DEF JobOf

LEMMA NoJob ==
  ASSUME NEW t, tasks[t] = Absent
  PROVE  JobOf(t) = Jobs!NoRecord
BY DEF JobOf, StateOf, Absent, Jobs!NoRecord

LEMMA OpenJob ==
  ASSUME NEW t, tasks[t].status = "scheduled"
  PROVE  JobOf(t) = Jobs!Opened(0)
BY DEF JobOf, StateOf, Jobs!Opened

LEMMA NewJob ==
  ASSUME NEW t, tasks'[t].status = "scheduled"
  PROVE  JobOf(t)' = Jobs!Opened(0)
BY DEF JobOf, StateOf, Jobs!Opened

LEMMA TakenJob ==
  ASSUME NEW t, tasks[t].status = "picked_up"
  PROVE  JobOf(t) = [state |-> "taken", due |-> 0, holder |-> <<t, tasks[t].attempt>>]
BY DEF JobOf, StateOf

LEMMA ClosedJob ==
  ASSUME NEW t, NEW s \in Ended, tasks'[t].status = s
  PROVE  JobOf(t)' = Jobs!Closed(JobOf(t))
BY DEF JobOf, StateOf, Ended, Jobs!Closed

LEMMA JobsAre ==
  /\ jobs = [t \in TaskId |-> jobs[t]]
  /\ \A t \in TaskId : jobs[t] = JobOf(t)
  /\ \A t \in TaskId : jobs'[t] = JobOf(t)'
BY DEF jobs

LEMMA RowsStayJobs ==
  ASSUME UNCHANGED tasks, UNCHANGED Claims \/ Claims' \subseteq Claims
  PROVE  QStep
<1>1. UNCHANGED jobs
  BY DEF jobs, JobOf
<1>2. CASE UNCHANGED Claims
  BY <1>1, <1>2 DEF QStep
<1>3. CASE Claims' \subseteq Claims /\ Claims' # Claims
  BY <1>1, <1>3, Jobs!ForgetIsNext DEF QStep, jobs, Claims
<1>. QED  BY <1>2, <1>3

LEMMA InsertMaps ==
  ASSUME IInv, NEW u \in TaskId, NEW n \in Run, tasks' = Inserted(tasks, u, n), UNCHANGED Claims
  PROVE  QStep
<1>1. tasks \in [TaskId -> Row]
  BY DEF IInv, TypeOK
<1>2. CASE tasks[u] # Absent
  BY <1>2, RowsStayJobs DEF Inserted
<1>3. CASE tasks[u] = Absent
  <2>1. tasks'[u] = NewRow(n) /\ \A t \in TaskId : t # u => tasks'[t] = tasks[t]
    BY <1>1, <1>3, Insertion
  <2>2. jobs[u] = Jobs!NoRecord /\ jobs'[u] = Jobs!Opened(0)
    BY <1>3, <2>1, NoJob, NewJob, Rows, JobsAre
  <2>3. \A t \in TaskId : t # u => jobs'[t] = jobs[t]
    BY <2>1, SameJob, JobsAre
  <2>4. jobs' = [jobs EXCEPT ![u] = Jobs!Opened(0)]
    BY <2>2, <2>3 DEF jobs
  <2>5. Jobs!Submit(u, 0)
    BY <2>2, <2>4 DEF Jobs!Submit, jobs, Claims
  <2>6. 0 \in {0}
    OBVIOUS
  <2>. QED  BY <2>5, <2>6, JobsAre, Jobs!SubmitIsNext DEF QStep, jobs
<1>. QED  BY <1>2, <1>3

LEMMA BackMaps ==
  ASSUME IInv, NEW t \in TaskId, tasks[t].status = "picked_up", GivenBack(t), UNCHANGED Claims
  PROVE  QStep
<1>1. /\ tasks \in [TaskId -> Row] /\ tasks'[t].status = "scheduled"
      /\ \A u \in TaskId : u # t => tasks'[u] = tasks[u]
  BY DEF IInv, TypeOK, GivenBack, Row
<1>2. jobs[t].state = "taken" /\ jobs[t].due = 0
  BY TakenJob, JobsAre
<1>3. jobs' = [u \in TaskId |-> IF u \in {t} THEN Jobs!Opened(jobs[u].due) ELSE jobs[u]]
  <2>1. \A u \in TaskId : u # t => jobs'[u] = jobs[u]
    BY <1>1, SameJob, JobsAre
  <2>2. jobs'[t] = Jobs!Opened(0)
    BY <1>1, NewJob, JobsAre
  <2>. QED  BY <1>2, <2>1, <2>2 DEF jobs
<1>4. Jobs!Lapse({t})
  BY <1>2, <1>3 DEF Jobs!Lapse, jobs, Claims
<1>. QED  BY <1>4, Jobs!LapseIsNext DEF QStep

LEMMA CancelMaps ==
  ASSUME IInv, NEW c \in Client, CancelTasks(c), UNCHANGED Claims
  PROVE  QStep
<1>. DEFINE S == {t \in TaskId : tasks[t].status = "scheduled"}
<1>1. \A t \in TaskId : tasks'[t] = IF t \in S THEN [tasks[t] EXCEPT !.status = "cancelled"] ELSE tasks[t]
  BY DEF CancelTasks
<1>2. \A t \in S : jobs[t].state = "open" /\ jobs'[t] = Jobs!Closed(jobs[t])
  <2>1. \A t \in S : tasks'[t].status = "cancelled"
    BY <1>1 DEF IInv, TypeOK, Row
  <2>2. \A t \in S : jobs[t] = Jobs!Opened(0)
    BY OpenJob, JobsAre
  <2>. QED  BY <2>1, <2>2, ClosedJob, JobsAre DEF Ended, Jobs!Opened
<1>3. \A t \in TaskId \ S : jobs'[t] = jobs[t]
  BY <1>1, SameJob, JobsAre
<1>. HIDE DEF S
<1>4. S \in SUBSET TaskId
  BY DEF S
<1>5. jobs' = [t \in TaskId |-> IF t \in S THEN Jobs!Closed(jobs[t]) ELSE jobs[t]]
  BY <1>2, <1>3, <1>4 DEF jobs
<1>6. CASE S = {}
  <2>1. UNCHANGED jobs
    BY <1>5, <1>6 DEF jobs
  <2>. QED  BY <2>1 DEF QStep
<1>7. CASE S # {}
  <2>1. Jobs!Withdraw(S)
    BY <1>2, <1>4, <1>5, <1>7 DEF Jobs!Withdraw, jobs, Claims
  <2>. QED  BY <1>4, <2>1, Jobs!WithdrawIsNext DEF QStep
<1>. QED  BY <1>6, <1>7

(* The dispatch that holds the lock settles the task, and at most one other  *)
(* comes with that.                                                         *)
LEMMA SettleMaps ==
  ASSUME IInv, NEW d \in dispatches, HoldsLock(d), NEW s \in Ended, NEW F \in SUBSET TaskId,
         tasks'[d.task].status = s,
         \A t \in F : tasks[t] = Absent /\ tasks'[t].status = "scheduled",
         \A t \in TaskId \ F : t # d.task => tasks'[t] = tasks[t],
         Claims' = Claims \ {<<LeaseOf(d), d.task>>}
  PROVE  QStep
<1>1. d.task \in TaskId /\ LeaseOf(d) \in Lease /\ <<LeaseOf(d), d.task>> \in Claims
  BY RunOfDispatch, Dispatches DEF LeaseOf, Lease, Claims
<1>2. jobs[d.task].state = "taken" /\ jobs[d.task].holder = LeaseOf(d)
  BY <1>1, TakenJob, JobsAre DEF HoldsLock, LeaseOf
<1>3. jobs'[d.task] = Jobs!Closed(jobs[d.task])
  BY <1>1, ClosedJob, JobsAre
<1>4. \A t \in F : jobs[t] = Jobs!NoRecord /\ jobs'[t] = Jobs!Opened(0)
  BY NoJob, NewJob, JobsAre
<1>5. \A t \in TaskId \ F : t # d.task => jobs'[t] = jobs[t]
  BY SameJob, JobsAre
<1>6. d.task \notin F
  BY Rows DEF HoldsLock
<1>7. jobs' = [t \in TaskId |-> IF t = d.task THEN Jobs!Closed(jobs[d.task])
                                ELSE IF t \in F THEN Jobs!Opened(0) ELSE jobs[t]]
  BY <1>3, <1>4, <1>5, <1>6 DEF jobs
<1>8. Jobs!Conclude(LeaseOf(d), d.task, F, 0)
  BY <1>1, <1>2, <1>4, <1>7 DEF Jobs!Conclude, Jobs!Holds, jobs, Claims
<1>9. 0 \in {0}
  OBVIOUS
<1>. QED  BY <1>1, <1>8, <1>9, Jobs!ConcludeIsNext DEF QStep

(* The handle of a task that is fetched was never used before.              *)
LEMMA PickUpMaps ==
  ASSUME IInv, QueueOK, NEW t \in TaskId, PickUp(t)
  PROVE  QStep /\ QueueOK'
<1>. DEFINE a == tasks[t].attempt + 1
            h == <<t, a>>
            C == {<<h, t>>}
<1>1. /\ tasks \in [TaskId -> Row] /\ tasks[t].status = "scheduled"
      /\ tasks'[t].status = "picked_up" /\ tasks'[t].attempt = a
      /\ \A u \in TaskId : u # t => tasks'[u] = tasks[u]
      /\ dispatches' = dispatches \cup {PickedUp(t)}
  BY DEF IInv, TypeOK, PickUp, PickedUp, Row
<1>2. tasks[t].attempt \in Nat /\ a \in 1..MaxAttempt /\ h \in Lease
  <2>1. tasks[t].attempt \in Nat /\ tasks[t].attempt <= MaxRetries + faults
    BY <1>1, TaskFacts DEF LeaseOK
  <2>2. faults \in 0..MaxFaults
    BY DEF IInv, TypeOK
  <2>3. a \in 1..MaxAttempt
    BY <2>1, <2>2, Bounds
  <2>. QED  BY <2>1, <2>3 DEF Lease
<1>3. /\ PickedUp(t).task = t /\ PickedUp(t).attempt = a
      /\ \A x \in dispatches : x.attempt \in Nat /\ x.task \in TaskId /\ x.attempt <= tasks[x.task].attempt
  BY Dispatches, RunOfDispatch, Bounds DEF PickedUp, QueueOK
<1>4. \A x \in dispatches : x.task = t => x.attempt < a
  BY <1>2, <1>3
<1>. HIDE DEF a
<1>5. QueueOK'
  <2>1. \A x \in dispatches' : x.attempt <= tasks'[x.task].attempt
    BY <1>1, <1>2, <1>3, <1>4
  <2>2. \A x, y \in dispatches' : x.task = y.task /\ x.attempt = y.attempt => x = y
    BY <1>1, <1>3, <1>4, <1>2 DEF QueueOK
  <2>. QED  BY <2>1, <2>2 DEF QueueOK
<1>6. Claims' = Claims \cup C
  BY <1>1, <1>3 DEF Claims, LeaseOf
<1>7. Jobs!Fresh(h)
  <2>1. \A c \in Claims : c[1] # h
    BY <1>2, <1>3, <1>4 DEF Claims, LeaseOf
  <2>2. ASSUME NEW u \in TaskId PROVE jobs[u].holder # h
    <3>1. CASE tasks[u].status = "picked_up"
      <4>1. jobs[u].holder = <<u, tasks[u].attempt>>
        BY <3>1, TakenJob, JobsAre
      <4>2. u # t
        BY <1>1, <3>1
      <4>. QED  BY <4>1, <4>2
    <3>2. CASE tasks[u].status # "picked_up"
      <4>1. jobs[u].holder = NoLease
        BY <3>2, JobsAre DEF JobOf
      <4>. QED  BY <1>2, <4>1 DEF NoLease
    <3>. QED  BY <3>1, <3>2
  <2>. QED  BY <2>1, <2>2 DEF Jobs!Fresh, jobs, Claims
<1>8. jobs[t].state = "open" /\ jobs[t].due = 0
  BY <1>1, OpenJob, JobsAre DEF Jobs!Opened
<1>9. jobs'[t] = Jobs!Taken(jobs[t], h)
  BY <1>1, <1>8, JobsAre DEF JobOf, StateOf, Jobs!Taken
<1>10. \A u \in TaskId : u # t => jobs'[u] = jobs[u]
  BY <1>1, SameJob, JobsAre
<1>. HIDE DEF h
<1>11. jobs' = [u \in TaskId |-> IF \E g \in Lease : <<g, u>> \in C
                                 THEN Jobs!Taken(jobs[u], CHOOSE g \in Lease : <<g, u>> \in C)
                                 ELSE jobs[u]]
  <2>1. /\ \A g : <<g, t>> \in C <=> g = h
        /\ \A g : \A u \in TaskId : u # t => <<g, u>> \notin C
    OBVIOUS
  <2>2. (CHOOSE g \in Lease : <<g, t>> \in C) = h
    BY <1>2, <2>1
  <2>. HIDE DEF C
  <2>3. ASSUME NEW u \in TaskId
        PROVE  jobs'[u] = IF \E g \in Lease : <<g, u>> \in C
                          THEN Jobs!Taken(jobs[u], CHOOSE g \in Lease : <<g, u>> \in C)
                          ELSE jobs[u]
    <3>1. CASE u = t
      <4>1. \E g \in Lease : <<g, t>> \in C
        BY <1>2, <2>1
      <4>. QED  BY <1>9, <2>2, <3>1, <4>1
    <3>2. CASE u # t
      <4>1. ~ \E g \in Lease : <<g, u>> \in C
        BY <2>1, <3>2
      <4>. QED  BY <1>10, <3>2, <4>1
    <3>. QED  BY <3>1, <3>2
  <2>4. jobs' = [u \in TaskId |-> jobs'[u]]
    BY DEF jobs
  <2>. QED  BY <2>3, <2>4
<1>12. PICK D : D = C
  OBVIOUS
<1>13. Jobs!Take(D)
  <2>1. D # {} /\ D \subseteq Lease \X TaskId
    BY <1>2, <1>12
  <2>2. \A c \in D : Jobs!Fresh(c[1]) /\ jobs[c[2]].state = "open"
    BY <1>7, <1>8, <1>12
  <2>3. \A b, c \in D : b[1] = c[1] \/ b[2] = c[2] => b = c
    BY <1>12
  <2>. HIDE DEF C
  <2>4. /\ Claims' = Claims \cup D
        /\ jobs' = [u \in TaskId |-> IF \E g \in Lease : <<g, u>> \in D
                                    THEN Jobs!Taken(jobs[u], CHOOSE g \in Lease : <<g, u>> \in D)
                                    ELSE jobs[u]]
    BY <1>6, <1>11, <1>12
  <2>5. Jobs!Take(D) <=>
          /\ D # {} /\ D \subseteq Lease \X TaskId
          /\ \A c \in D : Jobs!Fresh(c[1]) /\ jobs[c[2]].state = "open"
          /\ \A b, c \in D : b[1] = c[1] \/ b[2] = c[2] => b = c
          /\ Claims' = Claims \cup D
          /\ jobs' = [u \in TaskId |-> IF \E g \in Lease : <<g, u>> \in D
                                      THEN Jobs!Taken(jobs[u], CHOOSE g \in Lease : <<g, u>> \in D)
                                      ELSE jobs[u]]
    BY DEF Jobs!Take, jobs, Claims
  <2>. QED  BY <2>1, <2>2, <2>3, <2>4, <2>5, Zenon
<1>. QED  BY <1>5, <1>13, Jobs!TakeIsNext DEF QStep

-----------------------------------------------------------------------------
(* The steps.                                                               *)

AttemptsKept == \A x \in dispatches : tasks'[x.task].attempt = tasks[x.task].attempt

LEMMA SameAttempts == UNCHANGED tasks => AttemptsKept
BY DEF AttemptsKept

LEMMA InsertedAttempts ==
  ASSUME IInv, NEW u \in TaskId, NEW n \in Run, tasks' = Inserted(tasks, u, n)
  PROVE  AttemptsKept
<1>1. \A x \in dispatches : x.task \in TaskId /\ tasks[x.task] # Absent
  BY RunOfDispatch DEF IInv, DispatchOK, Exists
<1>2. \A x \in dispatches : tasks'[x.task] = tasks[x.task]
  BY <1>1, Insertion DEF IInv, TypeOK
<1>. QED  BY <1>2 DEF AttemptsKept

LEMMA StatusAttempts ==
  ASSUME IInv, NEW t \in TaskId, NEW s, tasks' = [tasks EXCEPT ![t].status = s]
  PROVE  AttemptsKept
BY RunOfDispatch DEF IInv, TypeOK, Row, AttemptsKept

QueueMoves == QStep /\ QueueOK'

(* Steps of a dispatch without a task.                                      *)
LEMMA QuietMaps ==
  ASSUME IInv, QueueOK, NEW d \in dispatches, UNCHANGED tasks, GoesOn(d) \/ Gone(d)
  PROVE  QueueMoves
<1>1. AttemptsKept /\ tasks'[d.task].attempt = tasks[d.task].attempt
  BY SameAttempts
<1>2. QueueOK' /\ Claims' \subseteq Claims
  BY <1>1, GoingOn, GoingAway DEF AttemptsKept
<1>. QED  BY <1>2, RowsStayJobs DEF QueueMoves

LEMMA ClientKeepsJobs ==
  ASSUME IInv, QueueOK, ClientStep
  PROVE  QueueMoves
<1>1. UNCHANGED dispatches
  BY DEF ClientStep, Start, CancelRun, Calling, CreateExecution, ResetExecution, ScheduleRoot,
         CancelTasks, CallerDies, OfferEvent, RetryDeadStep, RerunSteps, Restart
<1>2. ASSUME AttemptsKept PROVE QueueOK' /\ UNCHANGED Claims
  BY <1>1, <1>2, Staying DEF AttemptsKept
<1>3. CASE UNCHANGED tasks
  BY <1>2, <1>3, SameAttempts, RowsStayJobs DEF QueueMoves
<1>4. ASSUME NEW u \in TaskId, NEW n \in Run, tasks' = Inserted(tasks, u, n) PROVE QueueMoves
  BY <1>2, <1>4, InsertedAttempts, InsertMaps DEF QueueMoves
<1>5. ASSUME NEW c \in Client, Start(c) \/ CancelRun(c) \/ CallerDies(c) \/ ResetExecution(c)
      PROVE  UNCHANGED tasks
  BY <1>5 DEF Start, CancelRun, CallerDies, ResetExecution
<1>6. ASSUME NEW c \in Client, CreateExecution(c) PROVE QueueMoves
  BY <1>4, <1>6, Ids, Bounds DEF CreateExecution
<1>7. ASSUME NEW c \in Client, ScheduleRoot(c) PROVE QueueMoves
  <2>1. calls[c].run \in Run
    BY DEF IInv, TypeOK, Call
  <2>. QED  BY <1>4, <1>7, <2>1, Ids DEF ScheduleRoot
<1>8. ASSUME NEW c \in Client, CancelTasks(c) PROVE QueueMoves
  <2>1. AttemptsKept
    <3>1. \A t \in TaskId : tasks'[t].attempt = tasks[t].attempt
      BY <1>8 DEF CancelTasks, IInv, TypeOK, Row
    <3>. QED  BY <3>1, RunOfDispatch DEF AttemptsKept
  <2>. QED  BY <1>2, <1>8, <2>1, CancelMaps DEF QueueMoves
<1>9. ASSUME NEW n \in Run, NEW i \in Events, OfferEvent(n, i) PROVE QueueMoves
  BY <1>4, <1>9, Ids DEF OfferEvent
<1>9a. ASSUME NEW n \in Run, NEW s \in MayDie, RetryDeadStep(n, s) PROVE QueueMoves
  BY <1>4, <1>9a, Ids DEF RetryDeadStep
<1>10. ASSUME RerunSteps PROVE QueueMoves
  <2>1. PICK n \in Run : tasks' = Inserted(tasks, StartTask(n), n)
    BY <1>10 DEF RerunSteps, Restart
  <2>. QED  BY <1>4, <2>1, Ids
<1>. QED  BY <1>3, <1>5, <1>6, <1>7, <1>8, <1>9, <1>9a, <1>10 DEF ClientStep, Calling

LEMMA SettlingMaps ==
  ASSUME IInv, QueueOK, NEW d \in dispatches, HoldsLock(d), Gone(d), NEW s \in Ended,
         tasks' = Settled(d, s)
  PROVE  QueueMoves
<1>1. d.task \in TaskId
  BY RunOfDispatch
<1>2. AttemptsKept
  BY <1>1, StatusAttempts DEF Settled
<1>3. QueueOK' /\ Claims' = Claims \ {<<LeaseOf(d), d.task>>}
  BY <1>2, GoingAway DEF AttemptsKept
<1>4. tasks'[d.task].status = s /\ \A t \in TaskId : t # d.task => tasks'[t] = tasks[t]
  BY <1>1 DEF Settled, IInv, TypeOK, Row
<1>5. QStep
  <2>1. {} \in SUBSET TaskId
    OBVIOUS
  <2>2. \A t \in {} : tasks[t] = Absent /\ tasks'[t].status = "scheduled"
    OBVIOUS
  <2>3. \A t \in TaskId \ {} : t # d.task => tasks'[t] = tasks[t]
    BY <1>4
  <2>. QED  BY <1>3, <1>4, <2>1, <2>2, <2>3, SettleMaps
<1>. QED  BY <1>3, <1>5 DEF QueueMoves

LEMMA CompleteStepKeepsJobs ==
  ASSUME IInv, QueueOK, NEW d \in dispatches, CompleteStep(d)
  PROVE  QueueMoves
<1>0. PICK n, s : n = RunOf(d) /\ s = Target(d)
  OBVIOUS
<1>1. /\ n \in Run /\ s \in Name /\ d.task = StepTask(n, s) /\ d.task \in TaskId
      /\ tasks[d.task] # Absent /\ tasks \in [TaskId -> Row]
  BY <1>0, CompletionFacts DEF Exists, IInv, TypeOK
<1>2. HoldsLock(d) /\ Gone(d) /\ tasks' = Resumed(Settled(d, "completed"), n, s)
  BY <1>0 DEF CompleteStep, MayRecord
<1>3. /\ tasks'[d.task] = [tasks[d.task] EXCEPT !.status = "completed"]
      /\ \A u \in TaskId : u # d.task =>
           \/ tasks'[u] = tasks[u]
           \/ tasks[u] = Absent /\ tasks'[u] = NewRow(n) /\ u = AfterTask(n, ItemOf(s))
  BY <1>1, <1>2, ResumedRows
<1>4. tasks'[d.task].status = "completed" /\ tasks'[d.task].attempt = tasks[d.task].attempt
  BY <1>1, <1>3 DEF Row
<1>. DEFINE F == {u \in TaskId : u # d.task /\ tasks[u] = Absent /\ tasks'[u] = NewRow(n)}
<1>5. /\ \A u \in F : tasks[u] = Absent /\ tasks'[u].status = "scheduled"
      /\ \A u \in TaskId \ F : u # d.task => tasks'[u] = tasks[u]
  BY <1>1, <1>3, Rows
<1>6. \A x \in dispatches : x.task \in TaskId /\ tasks[x.task] # Absent
  BY RunOfDispatch DEF IInv, DispatchOK, Exists
<1>7. \A x \in dispatches : tasks'[x.task].attempt = tasks[x.task].attempt
  BY <1>3, <1>4, <1>6
<1>8. QueueOK' /\ Claims' = Claims \ {<<LeaseOf(d), d.task>>}
  BY <1>2, <1>7, GoingAway
<1>9. PICK G \in SUBSET TaskId : G = F
  OBVIOUS
<1>. HIDE DEF F
<1>10. "completed" \in Ended
  BY DEF Ended
<1>. QED  BY <1>2, <1>4, <1>5, <1>8, <1>9, <1>10, SettleMaps DEF QueueMoves

LEMMA RescheduleKeepsJobs ==
  ASSUME IInv, QueueOK, NEW d \in dispatches, RescheduleForRetry(d)
  PROVE  QueueMoves
<1>1. d \in Dispatch /\ d.task \in TaskId /\ GoesOn(d)
  BY RunOfDispatch, LambdaGoesOn
<1>2. CASE HoldsLock(d)
  <2>1. tasks[d.task].status = "picked_up" /\ GivenBack(d.task)
    BY <1>2 DEF RescheduleForRetry, HoldsLock
  <2>2. AttemptsKept
    BY <1>1, <2>1, StatusAttempts DEF GivenBack
  <2>3. QueueOK' /\ UNCHANGED Claims
    BY <1>1, <2>2, GoingOn DEF AttemptsKept
  <2>. QED  BY <1>1, <2>1, <2>3, BackMaps DEF QueueMoves
<1>3. CASE ~HoldsLock(d)
  BY <1>1, <1>3, QuietMaps DEF RescheduleForRetry
<1>. QED  BY <1>2, <1>3

LEMMA ScheduleStepKeepsJobs ==
  ASSUME IInv, QueueOK, NEW d \in dispatches, ScheduleStep(d)
  PROVE  QueueMoves
<1>1. d \in Dispatch /\ GoesOn(d) /\ RunOf(d) \in Run
  BY RunOfDispatch, VisitGoesOn
<1>2. d.at \in Name
  <2>1. AtPlain(d) \/ AtChild(d)
    BY DEF ScheduleStep, IInv, DispatchOK, PhaseOK
  <2>. QED  BY <2>1, Names, Kinds DEF AtPlain, AtChild
<1>3. StepTask(RunOf(d), d.at) \in TaskId /\ tasks' = Inserted(tasks, StepTask(RunOf(d), d.at), RunOf(d))
  BY <1>1, <1>2, Ids DEF ScheduleStep
<1>4. AttemptsKept
  BY <1>1, <1>3, InsertedAttempts
<1>5. QueueOK' /\ UNCHANGED Claims
  BY <1>1, <1>4, GoingOn DEF AttemptsKept
<1>. QED  BY <1>1, <1>3, <1>5, InsertMaps DEF QueueMoves

LEMMA ExecuteKeepsJobs ==
  ASSUME IInv, QueueOK, NEW d \in dispatches, Execute(d)
  PROVE  QueueMoves
<1>0. d \in Dispatch
  BY RunOfDispatch
<1>1. CASE ReplayBody(d) \/ ReplayStep(d) \/ CaptureValue(d)
  <2>1. UNCHANGED tasks
    BY <1>1 DEF ReplayBody, ReplayStep, CaptureValue
  <2>. QED  BY <1>0, <1>1, <2>1, ReplayGoesOn, QuietMaps
<1>2. CASE UpsertGroup(d) \/ VisitChild(d)
  <2>1. UNCHANGED tasks
    BY <1>2 DEF UpsertGroup, VisitChild
  <2>. QED  BY <1>0, <1>2, <2>1, VisitGoesOn, QuietMaps
<1>3. CASE LambdaReturns(d) \/ LambdaTimesOut(d)
  <2>1. UNCHANGED tasks
    BY <1>3 DEF LambdaReturns, LambdaTimesOut
  <2>. QED  BY <1>0, <1>3, <2>1, LambdaGoesOn, QuietMaps
<1>4. CASE DeadlinePassed(d) \/ FinishRun(d) \/ OnFailureRecovers(d) \/ FailRun(d) \/ CompletionRefused(d)
  <2>1. UNCHANGED tasks /\ \E p : To(d, p)
    BY <1>4 DEF DeadlinePassed, FinishRun, OnFailureRecovers, FailRun, CompletionRefused
  <2>. QED  BY <1>0, <2>1, ToGoesOn, QuietMaps
<1>5. CASE CompleteTask(d) \/ FailChild(d)
  BY <1>5, SettlingMaps DEF CompleteTask, FailChild, MayRecord, Ended
<1>6. CASE MarkFailed(d)
  <2>1. CASE HoldsLock(d)
    BY <1>6, <2>1, SettlingMaps DEF MarkFailed, Ended
  <2>2. CASE ~HoldsLock(d)
    BY <1>6, <2>2, QuietMaps DEF MarkFailed
  <2>. QED  BY <2>1, <2>2
<1>. QED  BY <1>1, <1>2, <1>3, <1>4, <1>5, <1>6, CompleteStepKeepsJobs, RescheduleKeepsJobs,
             ScheduleStepKeepsJobs DEF Execute

LEMMA QueueStep == IInv /\ QueueOK /\ [Next]_vars => QueueMoves
<1>. SUFFICES ASSUME IInv, QueueOK, [Next]_vars PROVE QueueMoves  OBVIOUS
<1>1. ASSUME NEW t \in TaskId, tasks[t].status = "picked_up", GivenBack(t), UNCHANGED dispatches
      PROVE  QueueMoves
  <2>1. AttemptsKept
    BY <1>1, StatusAttempts DEF GivenBack
  <2>2. QueueOK' /\ UNCHANGED Claims
    BY <1>1, <2>1, Staying DEF AttemptsKept
  <2>. QED  BY <1>1, <2>2, BackMaps DEF QueueMoves
<1>2. ASSUME NEW t \in TaskId, PickUp(t) PROVE QueueMoves
  BY <1>2, PickUpMaps DEF QueueMoves
<1>3. ASSUME NEW t \in TaskId, RecoverOrphan(t) PROVE QueueMoves
  BY <1>1, <1>3 DEF RecoverOrphan
<1>4. ASSUME NEW d \in dispatches, Lapse(d) PROVE QueueMoves
  BY <1>1, <1>4, RunOfDispatch DEF Lapse, HoldsLock
<1>5. ASSUME NEW d \in dispatches, Crash(d) PROVE QueueMoves
  BY <1>5, QuietMaps DEF Crash
<1>6. ASSUME NEW d \in dispatches, DbError(d) PROVE QueueMoves
  <2>1. UNCHANGED tasks /\ (Gone(d) \/ \E p : To(d, p))
    BY <1>6 DEF DbError
  <2>. QED  BY <2>1, RunOfDispatch, ToGoesOn, QuietMaps
<1>7. CASE UNCHANGED vars
  <2>1. UNCHANGED tasks /\ UNCHANGED dispatches
    BY <1>7 DEF vars
  <2>2. QueueOK' /\ UNCHANGED Claims
    BY <2>1, Staying
  <2>. QED  BY <2>1, <2>2, RowsStayJobs DEF QueueMoves
<1>. QED  BY <1>2, <1>3, <1>4, <1>5, <1>6, <1>7, ClientKeepsJobs, ExecuteKeepsJobs DEF Next, Queue

LEMMA QueueInit == Init => Jobs!JobInit /\ QueueOK
<1>. SUFFICES ASSUME Init PROVE Jobs!JobInit /\ QueueOK  OBVIOUS
<1>1. dispatches = {} /\ \A t \in TaskId : tasks[t] = Absent
  BY DEF Init
<1>2. [t \in TaskId |-> JobOf(t)] = [t \in TaskId |-> Jobs!NoRecord]
  BY <1>1, NoJob
<1>3. {<<LeaseOf(d), d.task>> : d \in dispatches} = {}
  BY <1>1
<1>4. QueueOK
  BY <1>1 DEF QueueOK
<1>. QED  BY <1>2, <1>3, <1>4 DEF Jobs!JobInit

(* The durable engine uses the queue as the queue promises to be used, for   *)
(* every body, every number of runs, clients, retries and faults: each task  *)
(* is fetched under a handle of its own, is settled or put back only through *)
(* the handle that holds it now, with the tasks that follow in the same      *)
(* step, and is never fetched again once it is settled.                      *)
THEOREM EngineKeepsToLeasedJobs == Spec => KeepsToLeasedJobs
<1>1. IInv /\ QueueOK /\ [Next]_vars => [Jobs!JobNext]_<<jobs, Claims>>
  BY QueueStep DEF QueueMoves, QStep
<1>2. IInv /\ QueueOK /\ [Next]_vars => QueueOK'
  BY QueueStep DEF QueueMoves
<1>3. [Jobs!JobNext]_<<jobs, Claims>> <=> [Jobs!JobNext]_(Jobs!jobVars)
  BY DEF Jobs!jobVars, jobs, Claims
<1>. QED  BY <1>1, <1>2, <1>3, QueueInit, IInvariance, PTL
          DEF Spec, KeepsToLeasedJobs, Jobs!JobSpec

HoldersAgree ==
  \A d \in dispatches :
    /\ LeaseOf(d) \in Lease /\ d.task \in TaskId /\ <<LeaseOf(d), d.task>> \in Claims
    /\ HoldsLock(d) <=> Jobs!Holds(LeaseOf(d), d.task)

LEMMA HoldingIsHolding == IInv => HoldersAgree
<1>. SUFFICES ASSUME IInv, NEW d \in dispatches
              PROVE  /\ LeaseOf(d) \in Lease /\ d.task \in TaskId
                     /\ <<LeaseOf(d), d.task>> \in Claims
                     /\ HoldsLock(d) <=> Jobs!Holds(LeaseOf(d), d.task)
  BY DEF HoldersAgree
<1>1. LeaseOf(d) \in Lease /\ d.task \in TaskId /\ <<LeaseOf(d), d.task>> \in Claims
  BY RunOfDispatch, Dispatches DEF LeaseOf, Lease, Claims
<1>2. HoldsLock(d) <=> jobs[d.task].state = "taken" /\ jobs[d.task].holder = LeaseOf(d)
  <2>1. jobs[d.task].state = "taken" <=> tasks[d.task].status = "picked_up"
    BY <1>1, JobsAre DEF JobOf, StateOf
  <2>2. CASE tasks[d.task].status = "picked_up"
    BY <1>1, <2>1, <2>2, TakenJob, JobsAre DEF HoldsLock, LeaseOf
  <2>3. CASE tasks[d.task].status # "picked_up"
    BY <2>1, <2>3 DEF HoldsLock
  <2>. QED  BY <2>2, <2>3
<1>. QED  BY <1>1, <1>2 DEF Jobs!Holds, jobs, Claims

(* A stale dispatch stays refused until it ends, whatever becomes of its      *)
(* task: what LeasedJobs promises of any handle that has lost its job.        *)
THEOREM StaleStaysStaleCorrect == Spec => StaleStaysStale
<1>. DEFINE Lost == \A h \in Lease, j \in TaskId :
                      <<h, j>> \in {<<LeaseOf(d), d.task>> : d \in dispatches} /\ Jobs!Holds(h, j)'
                        => Jobs!Holds(h, j)
            Stale == \A d \in dispatches, e \in dispatches' :
                       LeaseOf(e) = LeaseOf(d) /\ ~HoldsLock(d) => ~HoldsLock(e)'
<1>1. HoldersAgree /\ HoldersAgree' /\ [Lost]_(Jobs!jobVars) => Stale
  <2>. SUFFICES ASSUME HoldersAgree, HoldersAgree', [Lost]_(Jobs!jobVars), NEW d \in dispatches,
                       NEW e \in dispatches', LeaseOf(e) = LeaseOf(d), HoldsLock(e)'
                PROVE  HoldsLock(d)
    OBVIOUS
  <2>1. /\ LeaseOf(d) \in Lease /\ d.task \in TaskId /\ <<LeaseOf(d), d.task>> \in Claims
        /\ HoldsLock(d) <=> Jobs!Holds(LeaseOf(d), d.task)
    BY DEF HoldersAgree
  <2>2. e.task = d.task
    BY DEF LeaseOf
  <2>3. Jobs!Holds(LeaseOf(d), d.task)'
    <3>1. HoldsLock(e)' <=> Jobs!Holds(LeaseOf(e), e.task)'
      BY DEF HoldersAgree
    <3>. QED  BY <2>2, <3>1 DEF LeaseOf
  <2>4. CASE Lost
    BY <2>1, <2>3, <2>4 DEF Claims
  <2>5. CASE UNCHANGED Jobs!jobVars
    BY <2>1, <2>3, <2>5 DEF Jobs!jobVars, Jobs!Holds
  <2>. QED  BY <2>4, <2>5
<1>2. Jobs!LostIsLost <=> [][Lost]_(Jobs!jobVars)
  BY PTL DEF Jobs!LostIsLost, Jobs!jobVars
<1>3. Spec => Jobs!LostIsLost
  BY EngineKeepsToLeasedJobs, Jobs!LostHandlesStayLost DEF KeepsToLeasedJobs
<1>. HIDE DEF Lost, Stale
<1>4. HoldersAgree /\ HoldersAgree' /\ [Lost]_(Jobs!jobVars) => [Stale]_vars
  BY <1>1
<1>5. Spec => [][Stale]_vars
  BY <1>2, <1>3, <1>4, IInvariance, HoldingIsHolding, PTL
<1>. QED  BY <1>5 DEF StaleStaysStale, Stale

-----------------------------------------------------------------------------
(* Runs that begin when the one before them has come to rest.               *)

(* What a client can still set going in a run, whether or not it is current. *)
Awaits(m) ==
  \/ \E i \in Events : steps[m][Of(i)] = "scheduled"
  \/ \E s \in MayDie : steps[m][s] = "dead"

(* Work is of the run that begins, or comes of work of the same run.        *)
Busy == {current'} \cup {RunOf(d) : d \in dispatches} \cup {m \in Run : Awaits(m)}
          \cup {calls[c].run : c \in {b \in Client : calls[b].phase = "scheduling"}}

RowsFrom ==
  \A t \in TaskId :
    /\ Exists(t) => Exists(t)' /\ tasks'[t].run = tasks[t].run
    /\ CanRun(t)' => CanRun(t) \/ tasks'[t].run \in Busy

DispatchesFrom ==
  \A e \in dispatches' :
    (\E d \in dispatches : e.task = d.task) \/ (e.task \in TaskId /\ CanRun(e.task))

CallsFrom ==
  \A c \in Client : calls'[c].phase = "scheduling" =>
    calls'[c].run \in Busy

WaitsFrom == \A m \in Run : Awaits(m)' => m \in Busy

WorkMoves == RowsFrom /\ DispatchesFrom /\ CallsFrom /\ WaitsFrom

LEMMA SameRows ==
  ASSUME UNCHANGED tasks
  PROVE  RowsFrom
BY DEF RowsFrom, Exists, CanRun, NeverDue

LEMMA InsertedRows ==
  ASSUME IInv, NEW u \in TaskId, NEW m \in Run, m \in Busy \/ Exists(u), tasks' = Inserted(tasks, u, m)
  PROVE  RowsFrom
<1>1. CASE Exists(u)
  BY <1>1, SameRows DEF Inserted, Exists
<1>2. CASE ~Exists(u)
  <2>1. tasks' = [tasks EXCEPT ![u] = NewRow(m)] /\ tasks \in [TaskId -> Row]
    BY <1>2 DEF Inserted, Exists, IInv, TypeOK
  <2>2. tasks'[u].run = m /\ m \in Busy /\ \A t \in TaskId : t # u => tasks'[t] = tasks[t]
    BY <1>2, <2>1, Rows
  <2>. QED  BY <1>2, <2>2 DEF RowsFrom, Exists, CanRun, NeverDue
<1>. QED  BY <1>1, <1>2

LEMMA StatusRows ==
  ASSUME IInv, NEW t \in TaskId, Exists(t), NEW s \in {"scheduled"} \cup Ended,
         tasks' = [tasks EXCEPT ![t].status = s],
         s = "scheduled" => tasks[t].status = "picked_up"
  PROVE  RowsFrom
<1>1. /\ tasks'[t].status = s /\ tasks'[t].run = tasks[t].run
      /\ \A u \in TaskId : u # t => tasks'[u] = tasks[u]
  BY DEF IInv, TypeOK, Row
<1>2. Exists(t)'
  BY <1>1, Rows DEF Exists, Ended
<1>3. CanRun(t)' => CanRun(t)
  BY <1>1 DEF CanRun, Ended
<1>. QED  BY <1>1, <1>2, <1>3 DEF RowsFrom, Exists, CanRun, NeverDue

LEMMA SameDispatches ==
  ASSUME UNCHANGED dispatches
  PROVE  DispatchesFrom
BY DEF DispatchesFrom

LEMMA GoingFrom ==
  ASSUME NEW d \in dispatches, GoesOn(d) \/ Gone(d)
  PROVE  DispatchesFrom
BY DEF DispatchesFrom, GoesOn, Gone, Become

(* Only the steps of runs with work change.                                  *)
LEMMA BusySteps ==
  ASSUME \A m \in Run : m \in Busy \/ steps'[m] = steps[m]
  PROVE  WaitsFrom
<1>. SUFFICES ASSUME NEW m \in Run, Awaits(m)', m \notin Busy PROVE FALSE
  BY DEF WaitsFrom
<1>1. steps'[m] = steps[m]
  OBVIOUS
<1>2. Awaits(m)
  BY <1>1 DEF Awaits
<1>. QED  BY <1>2 DEF Busy

LEMMA SameSteps ==
  ASSUME UNCHANGED steps
  PROVE  WaitsFrom
BY BusySteps

LEMMA OneRowOfBusy ==
  ASSUME IInv, NEW m \in Run, m \in Busy, NEW s, NEW v, steps' = [steps EXCEPT ![m][s] = v]
  PROVE  WaitsFrom
<1>1. \A k \in Run : k # m => steps'[k] = steps[k]
  BY DEF IInv, TypeOK
<1>. QED  BY <1>1, BusySteps

LEMMA SameCalls ==
  ASSUME UNCHANGED calls
  PROVE  CallsFrom
BY DEF CallsFrom, Busy

(* After a call's last statement it is idle.                                *)
LEMMA Returns ==
  ASSUME IInv, NEW c \in Client, Return(c)
  PROVE  CallsFrom
<1>1. calls'[c] = Idle /\ \A b \in Client : b # c => calls'[b] = calls[b]
  BY DEF Return, IInv, TypeOK
<1>. QED  BY <1>1 DEF CallsFrom, Busy, Idle

LEMMA CallsOn ==
  ASSUME IInv, NEW c \in Client, NEW p, NEW m, CallTo(c, p, m), p = "scheduling" => m = current'
  PROVE  CallsFrom
<1>1. /\ calls'[c] = [phase |-> p, run |-> m]
      /\ \A b \in Client : b # c => calls'[b] = calls[b]
  BY DEF CallTo, IInv, TypeOK
<1>. QED  BY <1>1 DEF CallsFrom, Busy

(* Where there is an execution, the task of its first run has been made;     *)
(* and where there is none nobody resets it.                                *)
RootThere ==
  /\ current # NoRun => Exists(StartTask(0))
  /\ \A c \in Client : calls[c].phase = "resetting" => current # NoRun

LEMMA ClientWork ==
  ASSUME IInv, RootThere, ClientStep
  PROVE  WorkMoves
<1>1. DispatchesFrom
  BY SameDispatches DEF ClientStep, Start, CancelRun, Calling, CreateExecution, ResetExecution,
         ScheduleRoot, CancelTasks, CallerDies, OfferEvent, RetryDeadStep, RerunSteps, Restart
<1>1a. ASSUME NEW c \in Client,
              \/ Start(c) \/ CancelRun(c) \/ CallerDies(c) \/ CreateExecution(c)
              \/ ResetExecution(c) \/ ScheduleRoot(c) \/ CancelTasks(c)
       PROVE  WaitsFrom
  BY <1>1a, SameSteps DEF Start, CancelRun, CallerDies, CreateExecution, ResetExecution,
         ScheduleRoot, CancelTasks, execution
<1>2. ASSUME NEW c \in Client, Start(c) PROVE WorkMoves
  BY <1>1, <1>1a, <1>2, SameRows, CallsOn DEF Start, WorkMoves
<1>3. ASSUME NEW c \in Client, CancelRun(c) PROVE WorkMoves
  BY <1>1, <1>1a, <1>3, SameRows, CallsOn DEF CancelRun, WorkMoves
<1>4. ASSUME NEW c \in Client, CallerDies(c) PROVE WorkMoves
  BY <1>1, <1>1a, <1>4, SameRows, Returns DEF CallerDies, WorkMoves
<1>5. ASSUME NEW c \in Client, CreateExecution(c) PROVE WorkMoves
  <2>1. 0 \in Busy \/ Exists(StartTask(0))
    BY <1>5 DEF CreateExecution, RootThere, Busy
  <2>2. tasks' = Inserted(tasks, StartTask(0), 0) /\ Return(c)
    BY <1>5 DEF CreateExecution
  <2>3. RowsFrom
    BY <2>1, <2>2, InsertedRows, Ids, Bounds
  <2>. QED  BY <1>1, <1>1a, <1>5, <2>2, <2>3, Returns DEF WorkMoves
<1>6. ASSUME NEW c \in Client, ResetExecution(c) PROVE WorkMoves
  <2>1. PICK m \in Run : NewRun(m) /\ CallTo(c, "scheduling", m) /\ UNCHANGED tasks
    BY <1>6 DEF ResetExecution
  <2>2. m = current'
    BY <2>1 DEF NewRun
  <2>. QED  BY <1>1, <1>1a, <1>6, <2>1, <2>2, SameRows, CallsOn DEF WorkMoves
<1>7. ASSUME NEW c \in Client, ScheduleRoot(c) PROVE WorkMoves
  <2>1. calls[c].run \in Run /\ calls[c].run \in Busy
    BY <1>7 DEF IInv, TypeOK, Call, ScheduleRoot, Busy
  <2>2. tasks' = Inserted(tasks, StartTask(calls[c].run), calls[c].run) /\ Return(c)
    BY <1>7 DEF ScheduleRoot
  <2>3. RowsFrom
    BY <2>1, <2>2, InsertedRows, Ids
  <2>. QED  BY <1>1, <1>1a, <1>7, <2>2, <2>3, Returns DEF WorkMoves
<1>8. ASSUME NEW c \in Client, CancelTasks(c) PROVE WorkMoves
  <2>1. tasks' = [t \in TaskId |-> IF tasks[t].status = "scheduled"
                                   THEN [tasks[t] EXCEPT !.status = "cancelled"] ELSE tasks[t]]
        /\ Return(c)
    BY <1>8 DEF CancelTasks
  <2>2. ASSUME NEW t \in TaskId
        PROVE  /\ Exists(t) => Exists(t)' /\ tasks'[t].run = tasks[t].run
               /\ CanRun(t)' => CanRun(t)
    <3>1. CASE tasks[t].status = "scheduled"
      <4>1. tasks'[t].status = "cancelled" /\ tasks'[t].run = tasks[t].run
        BY <2>1, <3>1 DEF IInv, TypeOK, Row
      <4>. QED  BY <4>1, Rows DEF Exists, CanRun
    <3>2. CASE tasks[t].status # "scheduled"
      <4>1. tasks'[t] = tasks[t]
        BY <2>1, <3>2
      <4>. QED  BY <4>1 DEF Exists, CanRun, NeverDue
    <3>. QED  BY <3>1, <3>2
  <2>. QED  BY <1>1, <1>1a, <1>8, <2>1, <2>2, Returns DEF WorkMoves, RowsFrom
<1>9. ASSUME NEW m \in Run, m \in Busy, NEW u \in TaskId, NEW s, NEW v,
             steps' = [steps EXCEPT ![m][s] = v], tasks' = Inserted(tasks, u, m), UNCHANGED calls
      PROVE  WorkMoves
  <2>1. RowsFrom
    BY <1>9, InsertedRows
  <2>2. WaitsFrom
    BY <1>9, OneRowOfBusy
  <2>. QED  BY <1>1, <1>9, <2>1, <2>2, SameCalls DEF WorkMoves
<1>10. ASSUME NEW m \in Run, NEW i \in Events, OfferEvent(m, i) PROVE WorkMoves
  <2>1. m \in Busy
    BY <1>10 DEF OfferEvent, Awaits, Busy
  <2>. QED  BY <1>9, <1>10, <2>1, Ids DEF OfferEvent
<1>11. ASSUME NEW m \in Run, NEW s \in MayDie, RetryDeadStep(m, s) PROVE WorkMoves
  <2>1. m \in Busy
    BY <1>11 DEF RetryDeadStep, Awaits, Busy
  <2>. QED  BY <1>9, <1>11, <2>1, Ids DEF RetryDeadStep
<1>12. ASSUME RerunSteps PROVE WorkMoves
  <2>0. PICK P \in SUBSET {s \in Name : ItemOf(s) \in Preservable} : Restart(P)
    BY <1>12 DEF RerunSteps
  <2>1. PICK m \in Run :
          /\ NewRun(m) /\ tasks' = Inserted(tasks, StartTask(m), m) /\ UNCHANGED calls
          /\ steps' = [steps EXCEPT ![m] = [s \in Name |->
               IF s \in Kept(current, P) THEN steps[current][s] ELSE "none"]]
    BY <2>0 DEF Restart
  <2>2. m \in Busy
    BY <2>1 DEF NewRun, Busy
  <2>3. RowsFrom
    BY <2>1, <2>2, InsertedRows, Ids
  <2>4. \A k \in Run : k \in Busy \/ steps'[k] = steps[k]
    BY <2>1, <2>2 DEF IInv, TypeOK
  <2>. QED  BY <1>1, <2>1, <2>3, <2>4, SameCalls, BusySteps DEF WorkMoves
<1>. QED  BY <1>2, <1>3, <1>4, <1>5, <1>6, <1>7, <1>8, <1>10, <1>11, <1>12 DEF ClientStep, Calling

LEMMA DispatchWork ==
  ASSUME IInv, NEW d \in dispatches, Execute(d)
  PROVE  WorkMoves
<1>1. /\ d \in Dispatch /\ d.task \in TaskId /\ RunOf(d) \in Run /\ RunOf(d) \in Busy
      /\ Exists(d.task)
  BY RunOfDispatch DEF IInv, DispatchOK, Busy
<1>2. CallsFrom
  BY SameCalls DEF Execute, DeadlinePassed, ReplayBody, CaptureValue, ReplayStep, ScheduleStep,
         UpsertGroup, VisitChild, LambdaReturns, LambdaTimesOut, RescheduleForRetry, CompleteStep,
         FailChild, FinishRun, OnFailureRecovers, FailRun, CompleteTask, CompletionRefused, MarkFailed
<1>2a. WaitsFrom
  <2>1. CASE \/ CaptureValue(d) \/ ScheduleStep(d) \/ UpsertGroup(d) \/ CompleteStep(d) \/ FailChild(d)
    <3>1. UNCHANGED steps \/ \E s, v : steps' = [steps EXCEPT ![RunOf(d)][s] = v]
      BY <2>1 DEF CaptureValue, ScheduleStep, UpsertGroup, CompleteStep, FailChild, Recorded
    <3>. QED  BY <1>1, <3>1, SameSteps, OneRowOfBusy
  <2>2. CASE \/ DeadlinePassed(d) \/ ReplayBody(d) \/ ReplayStep(d) \/ VisitChild(d)
             \/ LambdaReturns(d) \/ LambdaTimesOut(d) \/ RescheduleForRetry(d) \/ FinishRun(d)
             \/ OnFailureRecovers(d) \/ FailRun(d) \/ CompleteTask(d) \/ CompletionRefused(d)
             \/ MarkFailed(d)
    <3>1. UNCHANGED steps
      BY <2>2 DEF DeadlinePassed, ReplayBody, ReplayStep, VisitChild, LambdaReturns, LambdaTimesOut,
         RescheduleForRetry, FinishRun, OnFailureRecovers, FailRun, CompleteTask, CompletionRefused,
         MarkFailed, execution
    <3>. QED  BY <3>1, SameSteps
  <2>. QED  BY <2>1, <2>2 DEF Execute
<1>3. ASSUME UNCHANGED tasks, GoesOn(d) \/ Gone(d) PROVE WorkMoves
  BY <1>2, <1>2a, <1>3, SameRows, GoingFrom DEF WorkMoves
<1>4. ASSUME Gone(d), NEW s \in Ended, tasks' = Settled(d, s) PROVE WorkMoves
  <2>1. RowsFrom
    BY <1>1, <1>4, StatusRows DEF Settled, Ended
  <2>. QED  BY <1>2, <1>2a, <1>4, <2>1, GoingFrom DEF WorkMoves
<1>5. CASE ReplayBody(d) \/ ReplayStep(d) \/ CaptureValue(d)
  <2>1. UNCHANGED tasks
    BY <1>5 DEF ReplayBody, ReplayStep, CaptureValue
  <2>. QED  BY <1>1, <1>3, <1>5, <2>1, ReplayGoesOn
<1>6. CASE UpsertGroup(d) \/ VisitChild(d)
  <2>1. UNCHANGED tasks
    BY <1>6 DEF UpsertGroup, VisitChild
  <2>. QED  BY <1>1, <1>3, <1>6, <2>1, VisitGoesOn
<1>7. CASE LambdaReturns(d) \/ LambdaTimesOut(d)
  <2>1. UNCHANGED tasks
    BY <1>7 DEF LambdaReturns, LambdaTimesOut
  <2>. QED  BY <1>1, <1>3, <1>7, <2>1, LambdaGoesOn
<1>8. CASE DeadlinePassed(d) \/ FinishRun(d) \/ OnFailureRecovers(d) \/ FailRun(d) \/ CompletionRefused(d)
  <2>1. UNCHANGED tasks /\ \E p : To(d, p)
    BY <1>8 DEF DeadlinePassed, FinishRun, OnFailureRecovers, FailRun, CompletionRefused
  <2>. QED  BY <1>1, <1>3, <2>1, ToGoesOn
<1>9. CASE CompleteTask(d) \/ FailChild(d)
  BY <1>4, <1>9 DEF CompleteTask, FailChild, Ended
<1>10. CASE MarkFailed(d)
  <2>1. CASE HoldsLock(d)
    BY <1>4, <1>10, <2>1 DEF MarkFailed, Ended
  <2>2. CASE ~HoldsLock(d)
    BY <1>3, <1>10, <2>2 DEF MarkFailed
  <2>. QED  BY <2>1, <2>2
<1>11. CASE RescheduleForRetry(d)
  <2>1. GoesOn(d)
    BY <1>1, <1>11, LambdaGoesOn
  <2>2. CASE HoldsLock(d)
    <3>1. tasks[d.task].status = "picked_up" /\ tasks' = [tasks EXCEPT ![d.task].status = "scheduled"]
      BY <1>11, <2>2 DEF RescheduleForRetry, HoldsLock, GivenBack
    <3>2. RowsFrom
      BY <1>1, <3>1, StatusRows
    <3>. QED  BY <1>2, <1>2a, <2>1, <3>2, GoingFrom DEF WorkMoves
  <2>3. CASE ~HoldsLock(d)
    BY <1>3, <1>11, <2>1, <2>3 DEF RescheduleForRetry
  <2>. QED  BY <2>2, <2>3
<1>12. CASE ScheduleStep(d)
  <2>1. d.at \in Name
    <3>1. AtPlain(d) \/ AtChild(d)
      BY <1>12 DEF ScheduleStep, IInv, DispatchOK, PhaseOK
    <3>. QED  BY <3>1, Names, Kinds DEF AtPlain, AtChild
  <2>2. tasks' = Inserted(tasks, StepTask(RunOf(d), d.at), RunOf(d))
    BY <1>12 DEF ScheduleStep
  <2>3. RowsFrom
    BY <1>1, <2>1, <2>2, InsertedRows, Ids
  <2>. QED  BY <1>1, <1>2, <1>2a, <1>12, <2>3, VisitGoesOn, GoingFrom DEF WorkMoves
<1>13. CASE CompleteStep(d)
  <2>0. PICK n, s : n = RunOf(d) /\ s = Target(d)
    OBVIOUS
  <2>1. /\ n \in Run /\ s \in Name /\ d.task = StepTask(n, s)
        /\ tasks[d.task] # Absent /\ tasks \in [TaskId -> Row]
    BY <1>13, <2>0, CompletionFacts DEF Exists, IInv, TypeOK
  <2>2. tasks' = Resumed(Settled(d, "completed"), n, s) /\ Gone(d)
    BY <1>13, <2>0 DEF CompleteStep
  <2>3. /\ tasks'[d.task] = [tasks[d.task] EXCEPT !.status = "completed"]
        /\ \A u \in TaskId : u # d.task =>
             \/ tasks'[u] = tasks[u]
             \/ tasks[u] = Absent /\ tasks'[u] = NewRow(n)
    BY <1>1, <2>1, <2>2, ResumedRows
  <2>4. tasks'[d.task].status = "completed" /\ tasks'[d.task].run = tasks[d.task].run
    BY <1>1, <2>1, <2>3 DEF Row
  <2>5. ASSUME NEW u \in TaskId
        PROVE  /\ Exists(u) => Exists(u)' /\ tasks'[u].run = tasks[u].run
               /\ CanRun(u)' => CanRun(u) \/ tasks'[u].run \in Busy
    <3>1. CASE u = d.task
      BY <2>4, <3>1, Rows DEF Exists, CanRun
    <3>2. CASE tasks'[u] = tasks[u]
      BY <3>2 DEF Exists, CanRun, NeverDue
    <3>3. CASE tasks[u] = Absent /\ tasks'[u] = NewRow(n)
      BY <1>1, <2>0, <2>1, <3>3, Rows DEF Exists
    <3>. QED  BY <2>3, <3>1, <3>2, <3>3
  <2>. QED  BY <1>2, <1>2a, <2>2, <2>5, GoingFrom DEF WorkMoves, RowsFrom
<1>. QED  BY <1>5, <1>6, <1>7, <1>8, <1>9, <1>10, <1>11, <1>12, <1>13 DEF Execute

LEMMA WorkComesFromWork ==
  ASSUME IInv, RootThere, [Next]_vars
  PROVE  WorkMoves
<1>1. ASSUME NEW t \in TaskId, tasks[t].status = "picked_up", GivenBack(t),
             UNCHANGED dispatches, UNCHANGED calls, UNCHANGED steps
      PROVE  WorkMoves
  <2>1. Exists(t)
    BY <1>1, Rows DEF Exists
  <2>2. RowsFrom
    BY <1>1, <2>1, StatusRows DEF GivenBack
  <2>. QED  BY <1>1, <2>2, SameDispatches, SameCalls, SameSteps DEF WorkMoves
<1>2. ASSUME NEW t \in TaskId, PickUp(t) PROVE WorkMoves
  <2>1. /\ CanRun(t) /\ tasks'[t].status = "picked_up" /\ tasks'[t].run = tasks[t].run
        /\ \A u \in TaskId : u # t => tasks'[u] = tasks[u]
        /\ \A e \in dispatches' : e \in dispatches \/ e.task = t
        /\ UNCHANGED calls /\ UNCHANGED steps
    BY <1>2 DEF PickUp, CanRun, IInv, TypeOK, Row, execution
  <2>2. RowsFrom
    BY <2>1, Rows DEF RowsFrom, Exists, CanRun, NeverDue
  <2>3. DispatchesFrom
    BY <2>1 DEF DispatchesFrom
  <2>. QED  BY <2>1, <2>2, <2>3, SameCalls, SameSteps DEF WorkMoves
<1>3. ASSUME NEW t \in TaskId, RecoverOrphan(t) PROVE WorkMoves
  BY <1>1, <1>3 DEF RecoverOrphan, execution
<1>4. ASSUME NEW d \in dispatches, Lapse(d) PROVE WorkMoves
  BY <1>1, <1>4, RunOfDispatch DEF Lapse, HoldsLock, execution
<1>5. ASSUME NEW d \in dispatches, Crash(d) PROVE WorkMoves
  BY <1>5, SameRows, SameCalls, SameSteps, GoingFrom DEF Crash, WorkMoves, execution
<1>6. ASSUME NEW d \in dispatches, DbError(d) PROVE WorkMoves
  <2>1. /\ UNCHANGED tasks /\ UNCHANGED calls /\ UNCHANGED steps
        /\ Gone(d) \/ \E p : To(d, p)
    BY <1>6 DEF DbError, execution
  <2>2. GoesOn(d) \/ Gone(d)
    BY <2>1, RunOfDispatch, ToGoesOn
  <2>. QED  BY <2>1, <2>2, SameRows, SameCalls, SameSteps, GoingFrom DEF WorkMoves
<1>7. CASE UNCHANGED vars
  BY <1>7, SameRows, SameDispatches, SameCalls, SameSteps DEF vars, WorkMoves
<1>. QED  BY <1>2, <1>3, <1>4, <1>5, <1>6, <1>7, ClientWork, DispatchWork DEF Next, Queue

(* All the work there is is run n's, and all that clients can set going.     *)
OwnWork(n) ==
  /\ \A t \in TaskId : CanRun(t) => tasks[t].run = n
  /\ \A d \in dispatches : RunOf(d) = n
  /\ \A c \in Client : calls[c].phase = "scheduling" => calls[c].run = n
  /\ \A m \in Run : Awaits(m) => m = n

LEMMA OwnWorkStays ==
  ASSUME NEW n \in Run, IInv, RootThere, OwnWork(n), current' = n, [Next]_vars
  PROVE  OwnWork(n)'
<1>1. RowsFrom /\ DispatchesFrom /\ CallsFrom /\ WaitsFrom
  BY WorkComesFromWork DEF WorkMoves
<1>2. \A m \in Busy : m = n
  BY DEF Busy, OwnWork
<1>3. \A t \in TaskId : CanRun(t) => Exists(t)
  BY Rows DEF CanRun, Exists
<1>4. ASSUME NEW t \in TaskId, CanRun(t)' PROVE tasks'[t].run = n
  BY <1>1, <1>2, <1>3, <1>4 DEF RowsFrom, OwnWork
<1>5. ASSUME NEW e \in dispatches' PROVE tasks'[e.task].run = n
  <2>1. CASE \E d \in dispatches : e.task = d.task
    <3>1. PICK d \in dispatches : e.task = d.task
      BY <2>1
    <3>2. d.task \in TaskId /\ Exists(d.task) /\ tasks[d.task].run = n
      BY RunOfDispatch DEF IInv, DispatchOK, OwnWork, RunOf
    <3>. QED  BY <1>1, <3>1, <3>2 DEF RowsFrom
  <2>2. CASE e.task \in TaskId /\ CanRun(e.task)
    BY <1>1, <1>3, <2>2 DEF RowsFrom, OwnWork
  <2>. QED  BY <1>1, <1>5, <2>1, <2>2 DEF DispatchesFrom
<1>6. \A c \in Client : calls'[c].phase = "scheduling" => calls'[c].run = n
  BY <1>1, <1>2 DEF CallsFrom
<1>7. \A m \in Run : Awaits(m)' => m = n
  BY <1>1, <1>2 DEF WaitsFrom
<1>. QED  BY <1>4, <1>5, <1>6, <1>7 DEF OwnWork, RunOf

LEMMA RootStays == IInv /\ RootThere /\ [Next]_vars => RootThere'
<1>. SUFFICES ASSUME IInv, RootThere, [Next]_vars PROVE RootThere'  OBVIOUS
<1>1. StartTask(0) \in TaskId
  BY Ids, Bounds
<1>2. CASE current # NoRun
  <2>1. Exists(StartTask(0))'
    BY <1>1, <1>2, WorkComesFromWork DEF WorkMoves, RowsFrom, RootThere
  <2>2. current' # NoRun
    <3>1. NoRun \notin Run /\ 0 \in Run
      BY Bounds
    <3>2. CASE UNCHANGED current
      BY <1>2, <3>2
    <3>3. ASSUME NEW m \in Run, NewRun(m) PROVE current' # NoRun
      BY <3>1, <3>3 DEF NewRun
    <3>4. CASE ClientStep
      BY <3>1, <3>2, <3>3, <3>4 DEF ClientStep, Calling, Start, CancelRun, CreateExecution,
         ResetExecution, ScheduleRoot, CancelTasks, CallerDies, OfferEvent, RetryDeadStep, RerunSteps,
         Restart, execution
    <3>5. ASSUME NEW d \in dispatches, Execute(d) PROVE current' # NoRun
      BY <3>2, <3>5 DEF Execute, DeadlinePassed, ReplayBody, CaptureValue, ReplayStep,
         ScheduleStep, UpsertGroup, VisitChild, LambdaReturns, LambdaTimesOut, RescheduleForRetry,
         CompleteStep, FailChild, FinishRun, OnFailureRecovers, FailRun, CompleteTask,
         CompletionRefused, MarkFailed, execution
    <3>6. CASE Queue
      BY <3>2, <3>6 DEF Queue, PickUp, RecoverOrphan, execution
    <3>7. ASSUME NEW d \in dispatches, Lapse(d) \/ Crash(d) \/ DbError(d) PROVE current' # NoRun
      BY <3>2, <3>7 DEF Lapse, Crash, DbError, execution
    <3>8. CASE UNCHANGED vars
      BY <3>2, <3>8 DEF vars
    <3>. QED  BY <3>4, <3>5, <3>6, <3>7, <3>8 DEF Next
  <2>. QED  BY <2>1, <2>2 DEF RootThere
<1>3. CASE current = NoRun
  <2>1. dispatches = {}
    BY <1>3, RunOfDispatch DEF IInv, RunsInv
  <2>2. \A c \in Client : calls[c].phase # "resetting"
    BY <1>3 DEF RootThere
  <2>3. CASE UNCHANGED current /\ UNCHANGED calls
    BY <1>3, <2>2, <2>3 DEF RootThere
  <2>4. ASSUME NEW c \in Client, UNCHANGED current, Return(c) PROVE RootThere'
    <3>1. calls'[c] = Idle /\ \A b \in Client : b # c => calls'[b] = calls[b]
      BY <2>4 DEF Return, IInv, TypeOK
    <3>. QED  BY <1>3, <2>2, <2>4, <3>1 DEF RootThere, Idle
  <2>5. ASSUME NEW c \in Client, Start(c) PROVE RootThere'
    <3>1. /\ calls'[c].phase = "creating" /\ UNCHANGED current
          /\ \A b \in Client : b # c => calls'[b] = calls[b]
      BY <1>3, <2>5 DEF Start, CallTo, IInv, TypeOK, execution
    <3>. QED  BY <1>3, <2>2, <3>1 DEF RootThere
  <2>6. ASSUME NEW c \in Client, CreateExecution(c) PROVE RootThere'
    <3>1. tasks' = Inserted(tasks, StartTask(0), 0) /\ current' = 0 /\ 0 # NoRun
      BY <1>3, <2>6, Bounds DEF CreateExecution
    <3>2. Exists(StartTask(0))'
      BY <1>1, <3>1, Rows, Bounds DEF Inserted, Exists, IInv, TypeOK
    <3>. QED  BY <3>1, <3>2 DEF RootThere
  <2>7. CASE ClientStep
    <3>1. ASSUME NEW c \in Client, ScheduleRoot(c) \/ CancelTasks(c) \/ CallerDies(c) PROVE RootThere'
      BY <2>4, <3>1 DEF ScheduleRoot, CancelTasks, CallerDies, execution
    <3>2. ASSUME NEW c \in Client, CancelRun(c) \/ ResetExecution(c) PROVE FALSE
      BY <1>3, <2>2, <3>2 DEF CancelRun, ResetExecution
    <3>3. ASSUME \/ RerunSteps
                 \/ \E m \in Run : \/ \E i \in Events : OfferEvent(m, i)
                                  \/ \E s \in MayDie : RetryDeadStep(m, s)
          PROVE  FALSE
      <4>1. \A m \in Run : runs[m] = "none" /\ \A x \in Name : steps[m][x] = "none"
        BY <1>3 DEF IInv, RunsInv, RunsThere
      <4>2. MayDie \subseteq Name
        BY Names
      <4>. QED  BY <1>3, <3>3, <4>1, <4>2 DEF RerunSteps, Restart, OfferEvent, RetryDeadStep
    <3>. QED  BY <2>5, <2>6, <2>7, <3>1, <3>2, <3>3 DEF ClientStep, Calling
  <2>8. CASE Queue
    BY <2>3, <2>8 DEF Queue, PickUp, RecoverOrphan, execution
  <2>9. CASE UNCHANGED vars
    BY <2>3, <2>9 DEF vars
  <2>. QED  BY <2>1, <2>7, <2>8, <2>9 DEF Next
<1>. QED  BY <1>2, <1>3

(* A run that begins when those before it have come to rest is a Workflow:   *)
(* from then on until it is no longer current, each task that is picked up,  *)
(* each dispatch and each call belongs to it, and so does each event that is *)
(* waited for: a delivery that has read current_run_id before the run began  *)
(* finds nothing to deliver, so that no other body can end in its stead.     *)
THEOREM DrainedRunImplementsWorkflow ==
  ASSUME Determinate, NEW n \in Run
  PROVE  Spec /\ BeginsDrained(n) => W(n)!Spec
<1>. DEFINE Own == current = n => OwnWork(n)
<1>1. IInv /\ RootThere /\ Own /\ [Next]_vars /\ [current' = n /\ current # n => Drained]_vars => Own'
  <2>. SUFFICES ASSUME IInv, RootThere, Own, [Next]_vars, current' = n,
                       [current' = n /\ current # n => Drained]_vars
                PROVE  OwnWork(n)'
    OBVIOUS
  <2>1. CASE current = n
    BY <2>1, OwnWorkStays
  <2>2. CASE current # n
    <3>1. Drained
      BY <2>2 DEF vars
    <3>2. OwnWork(n)
      BY <3>1, Names DEF Drained, OwnWork, Awaits
    <3>. QED  BY <3>2, OwnWorkStays
  <2>. QED  BY <2>1, <2>2
<1>2. Own => NoLateBody(n)
  BY DEF NoLateBody, OwnWork
<1>3. IInv /\ RootThere /\ [Next]_vars => RootThere'
  BY RootStays
<1>4. Init => RootThere /\ Own
  <2>1. n # NoRun
    BY Bounds
  <2>. QED  BY <2>1 DEF Init, RootThere, Idle
<1>5. IInv /\ OrderInv /\ RunsInOrder /\ NoLateBody(n) /\ [Next]_vars
        => [W(n)!Next]_<<runs[n], [i \in Item |-> ResultOf(n, i)]>>
  BY WorkflowStep DEF WStep, ResultsOf
<1>6. IInv /\ RunsInOrder /\ [Next]_vars => RunsInOrder'
  BY RunsInOrderStep
<1>7. Init => W(n)!Init /\ RunsInOrder
  BY WorkflowInit DEF Init, RunsInOrder
<1>. HIDE DEF Own
<1>. QED  BY <1>1, <1>2, <1>3, <1>4, <1>5, <1>6, <1>7, IInvariance, OrderInvariance, PTL
          DEF Spec, BeginsDrained, W!Spec

=============================================================================
