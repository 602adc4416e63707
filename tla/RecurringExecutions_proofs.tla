----------------------- MODULE RecurringExecutions_proofs -----------------------
(***************************************************************************)
(* Proofs about RecurringExecutions for every number of ticks, occurrences, *)
(* faults and stops.                                                        *)
(***************************************************************************)
EXTENDS RecurringExecutions, FiniteSetTheorems, TLAPS

(* A tick that holds the lock is at work, on the row's occurrence.           *)
HolderIsCurrent ==
  \A t \in Tick : HoldsLock(t) => ~At(t, "idle") /\ ticks[t].occurrence = row.occurrence

(* An execution has a status exactly if it has been started, and that of a   *)
(* tick that has come to its completion has.                                *)
StartedHasRun ==
  /\ \A i \in Occurrence : executions[i].status # "none" => executions[i].runs > 0
  /\ \A t \in Tick : At(t, "started") => executions[ticks[t].occurrence].runs > 0

(* The counter, with or without a row, and the ticks behind it.              *)
CounterInv ==
  /\ row.status = "absent" => row.occurrence = 0
  /\ \A i \in Occurrence : i < row.occurrence => executions[i].runs > 0
  /\ stops = 0 =>
       /\ \A i \in Occurrence : executions[i].runs > 0 => i <= row.occurrence
       /\ \A t \in Tick : ~At(t, "idle") => ticks[t].occurrence <= row.occurrence

(* While no lease has lapsed and nobody stopped the task, only its holder is  *)
(* at work; it starts an execution when none but that one may be running.    *)
Starting(t) == ticks[t].phase \in {"starting", "creating", "resetting", "started"}
OverlapInv ==
  overlap # "AlwaysStart" /\ ~lapsed /\ stops = 0 =>
    /\ \A t \in Tick : ~At(t, "idle") => HoldsLock(t)
    /\ \A i \in Occurrence : Running(i) => i >= row.occurrence - 1
    /\ \A i, j \in Occurrence : Running(i) /\ Running(j) => i = j
    /\ \A t \in Tick, i \in Occurrence : Starting(t) /\ Running(i) => i = row.occurrence

IInv == TypeOK /\ HolderIsCurrent /\ StartedHasRun /\ CounterInv /\ OverlapInv

USE DEF Nobody, Gone

-----------------------------------------------------------------------------
(* Types.                                                                   *)

LEMMA RowRecord ==
  ASSUME NEW status \in {"absent", "scheduled", "picked_up", "completed", "failed"},
         NEW holder \in Tick \cup {Nobody, Gone}, NEW occurrence \in Occurrence,
         status = "picked_up" <=> holder # Nobody
  PROVE  [status |-> status, holder |-> holder, occurrence |-> occurrence] \in Row
  BY DEF Row

LEMMA RowFields ==
  ASSUME row \in Row
  PROVE  /\ row.status \in {"absent", "scheduled", "picked_up", "completed", "failed"}
         /\ row.holder \in Tick \cup {Nobody, Gone} /\ row.occurrence \in Occurrence
         /\ row.status = "picked_up" <=> row.holder # Nobody
         /\ row = [status |-> row.status, holder |-> row.holder, occurrence |-> row.occurrence]
  BY DEF Row

LEMMA InitType == Init => TypeOK
<1>. SUFFICES ASSUME Init PROVE TypeOK
  OBVIOUS
<1>1. 0 \in Occurrence /\ 0 \in Nat
  BY RecurringAssumption DEF Occurrence, RecurringAssumption
<1>2. row \in Row
  BY <1>1 DEF Init, Absent, Row
<1>3. ticks \in [Tick -> TickRecord]
  BY <1>1 DEF Init, IdleTick, TickRecord, Phase
<1>4. executions \in [Occurrence -> Execution]
  BY <1>1 DEF Init, Execution
<1>5. faults \in 0..MaxFaults /\ stops \in 0..MaxStops
  BY RecurringAssumption DEF Init, RecurringAssumption
<1>. QED  BY <1>2, <1>3, <1>4, <1>5 DEF Init, TypeOK

LEMMA EndsType ==
  ASSUME TypeOK, NEW t \in Tick, Ends(t)
  PROVE  ticks' \in [Tick -> TickRecord]
<1>1. IdleTick \in TickRecord
  BY RecurringAssumption DEF IdleTick, TickRecord, Phase, Occurrence, RecurringAssumption
<1>. QED  BY <1>1 DEF TypeOK, Ends

LEMMA BecomeType ==
  ASSUME TypeOK, NEW t \in Tick, NEW p \in Phase, Become(t, p)
  PROVE  ticks' \in [Tick -> TickRecord]
  BY DEF TypeOK, Become, TickRecord

LEMMA WithRunType ==
  ASSUME TypeOK, NEW i \in Occurrence
  PROVE  WithRun(i) \in [Occurrence -> Execution]
<1>1. executions[i] \in Execution /\ executions[i].runs + 1 \in Nat
  BY DEF TypeOK, Execution
<1>2. [[executions[i] EXCEPT !.status = "running"] EXCEPT !.runs = executions[i].runs + 1] \in Execution
  BY <1>1 DEF Execution
<1>3. WithRun(i) = [executions EXCEPT ![i] =
        [[executions[i] EXCEPT !.status = "running"] EXCEPT !.runs = executions[i].runs + 1]]
  BY DEF TypeOK, WithRun
<1>. QED  BY <1>2, <1>3 DEF TypeOK

LEMMA StepType ==
  ASSUME TypeOK, Next
  PROVE  TypeOK'
<1>. USE RowFields, RecurringAssumption DEF TypeOK
<1>1. ASSUME Seed PROVE TypeOK'
  <2>1. row' \in Row
    BY <1>1 DEF Seed, Absent, Row, Occurrence, RecurringAssumption
  <2>. QED  BY <1>1, <2>1 DEF Seed, faulty
<1>2. ASSUME StopRecurring PROVE TypeOK'
  <2>1. row' \in Row
    BY <1>2 DEF StopRecurring, Absent, Row, Occurrence, RecurringAssumption
  <2>. QED  BY <1>2, <2>1 DEF StopRecurring, RecurringAssumption
<1>3. ASSUME NEW t \in Tick, PickUp(t) PROVE TypeOK'
  <2>1. row' \in Row
    BY <1>3 DEF PickUp, Row, RecurringAssumption
  <2>2. ticks' \in [Tick -> TickRecord]
    BY <1>3 DEF PickUp, IdleTick, TickRecord, Phase, Occurrence
  <2>. QED  BY <1>3, <2>1, <2>2 DEF PickUp, faulty
<1>4. ASSUME NEW t \in Tick, AlwaysStart(t) PROVE TypeOK'
  BY <1>4, BecomeType DEF AlwaysStart, Phase, faulty
<1>5. ASSUME NEW t \in Tick, SkipIfRunning(t) PROVE TypeOK'
  <2>1. \E p \in {"starting", "skipping"} : Become(t, p)
    BY <1>5 DEF SkipIfRunning
  <2>. QED  BY <1>5, <2>1, BecomeType DEF SkipIfRunning, Phase, faulty
<1>6. ASSUME NEW t \in Tick, CancelAndRestart(t) PROVE TypeOK'
  <2>1. executions' \in [Occurrence -> Execution]
    BY <1>6 DEF CancelAndRestart, Execution
  <2>2. ticks' \in [Tick -> TickRecord]
    BY <1>6, BecomeType DEF CancelAndRestart, Phase
  <2>. QED  BY <1>6, <2>1, <2>2 DEF CancelAndRestart, faulty
<1>7. ASSUME NEW t \in Tick, StartExecution(t) PROVE TypeOK'
  <2>1. PICK p \in {"creating", "started", "resetting"} :
          ticks' = [ticks EXCEPT ![t].seen = executions[ticks[t].occurrence].runs, ![t].phase = p]
    <3>1. executions[ticks[t].occurrence] \in Execution
      BY DEF TickRecord
    <3>. QED  BY <1>7, <3>1 DEF StartExecution, Execution
  <2>2. executions[ticks[t].occurrence].runs \in Nat
    BY DEF TickRecord, Execution
  <2>3. ticks' \in [Tick -> TickRecord]
    BY <2>1, <2>2 DEF TickRecord, Phase
  <2>. QED  BY <1>7, <2>3 DEF StartExecution, faulty
<1>8. ASSUME NEW t \in Tick, CreateExecution(t) \/ ResetExecution(t) PROVE TypeOK'
  <2>1. executions' \in [Occurrence -> Execution]
    BY <1>8, WithRunType DEF CreateExecution, ResetExecution, TickRecord
  <2>2. ticks' \in [Tick -> TickRecord]
    BY <1>8, BecomeType DEF CreateExecution, ResetExecution, Phase
  <2>. QED  BY <1>8, <2>1, <2>2 DEF CreateExecution, ResetExecution, faulty
<1>9. ASSUME NEW t \in Tick, Failed(t) PROVE row' \in Row /\ ticks' \in [Tick -> TickRecord]
  BY <1>9, EndsType DEF Failed, Row
<1>10. ASSUME NEW t \in Tick, ResetRefused(t) PROVE TypeOK'
  BY <1>9, <1>10 DEF ResetRefused, Failed, faulty
<1>11. ASSUME NEW t \in Tick, NEW i \in Nat, Rescheduled(t, i) PROVE TypeOK'
  <2>1. row' \in Row
    <3>1. CASE ~HoldsLock(t)
      BY <1>11, <3>1 DEF Rescheduled
    <3>2. CASE HoldsLock(t) /\ i <= MaxOccurrence
      <4>1. i \in Occurrence
        BY <3>2 DEF Occurrence
      <4>. QED  BY <1>11, <3>2, <4>1, RowRecord DEF Rescheduled
    <3>3. CASE HoldsLock(t) /\ ~(i <= MaxOccurrence)
      BY <1>11, <3>3 DEF Rescheduled, Row
    <3>. QED  BY <3>1, <3>2, <3>3
  <2>. QED  BY <1>11, <2>1, EndsType DEF Rescheduled, faulty
<1>12. ASSUME NEW t \in Tick, RecurringCompletion(t) PROVE TypeOK'
  <2>1. Counted(ticks[t].occurrence) \in Nat
    BY DEF Counted, TickRecord, Occurrence, RecurringAssumption
  <2>. QED  BY <1>11, <1>12, <2>1 DEF RecurringCompletion
<1>13. ASSUME NEW t \in Tick, Skipped(t) PROVE TypeOK'
  <2>1. SkippedTo(row.occurrence) \in Nat
    BY DEF SkippedTo, Occurrence, RecurringAssumption
  <2>. QED  BY <1>11, <1>13, <2>1 DEF Skipped
<1>14. ASSUME NEW t \in Tick, TickFails(t) PROVE TypeOK'
  BY <1>9, <1>14 DEF TickFails, Failed, Fault, RecurringAssumption
<1>15. ASSUME NEW t \in Tick, Crash(t) PROVE TypeOK'
  <2>1. row' \in Row
    BY <1>15 DEF Crash, HoldsLock, Row, RecurringAssumption
  <2>. QED  BY <1>15, <2>1, EndsType DEF Crash, Fault, RecurringAssumption
<1>16. ASSUME NEW i \in Occurrence, ExecutionEnds(i) PROVE TypeOK'
  <2>1. executions' \in [Occurrence -> Execution]
    BY <1>16 DEF ExecutionEnds, Execution
  <2>. QED  BY <1>16, <2>1 DEF ExecutionEnds, faulty
<1>17. ASSUME Lapse PROVE TypeOK'
  <2>1. row' \in Row
    BY <1>17 DEF Lapse, Row
  <2>. QED  BY <1>17, <2>1 DEF Lapse, Fault, RecurringAssumption
<1>18. ASSUME Recover PROVE TypeOK'
  <2>1. row' \in Row
    BY <1>18 DEF Recover, Row
  <2>. QED  BY <1>18, <2>1 DEF Recover, faulty
<1>. QED
  BY <1>1, <1>2, <1>3, <1>4, <1>5, <1>6, <1>7, <1>8, <1>10, <1>12, <1>13, <1>14, <1>15,
     <1>16, <1>17, <1>18 DEF Next, Execute

-----------------------------------------------------------------------------
(* The invariant.                                                           *)

LEMMA StepHolder ==
  ASSUME IInv, TypeOK', Next
  PROVE  HolderIsCurrent'
<1>. USE RowFields, RecurringAssumption DEF IInv, TypeOK, HolderIsCurrent, HoldsLock, At
<1>1. CASE Seed
  BY <1>1 DEF Seed, Absent, RecurringAssumption
<1>2. CASE StopRecurring
  BY <1>2 DEF StopRecurring, Absent, RecurringAssumption
<1>3. ASSUME NEW t \in Tick, PickUp(t) PROVE HolderIsCurrent'
  <2>1. row'.holder = t /\ row'.occurrence = row.occurrence
    BY <1>3 DEF PickUp
  <2>2. ticks'[t].phase = "fetched" /\ ticks'[t].occurrence = row.occurrence
    BY <1>3 DEF PickUp, IdleTick
  <2>. QED  BY <2>1, <2>2
<1>4. ASSUME NEW t \in Tick, NEW p \in Phase \ {"idle"}, ~At(t, "idle"), Become(t, p),
             UNCHANGED row
      PROVE  HolderIsCurrent'
  BY <1>4 DEF Become, TickRecord
<1>5. ASSUME NEW t \in Tick, AlwaysStart(t) \/ SkipIfRunning(t) \/ CancelAndRestart(t) PROVE HolderIsCurrent'
  <2>1. ~At(t, "idle") /\ UNCHANGED row /\ \E p \in {"starting", "skipping"} : Become(t, p)
    BY <1>5 DEF AlwaysStart, SkipIfRunning, CancelAndRestart
  <2>. QED  BY <1>4, <2>1 DEF Phase
<1>6. ASSUME NEW t \in Tick, StartExecution(t) PROVE HolderIsCurrent'
  <2>1. UNCHANGED row /\ ticks'[t].occurrence = ticks[t].occurrence /\ ~At(t, "idle")
        /\ \A u \in Tick \ {t} : ticks'[u] = ticks[u]
    <3>1. PICK n, p : ticks' = [ticks EXCEPT ![t].seen = n, ![t].phase = p]
      BY <1>6 DEF StartExecution
    <3>2. ticks'[t] = [[ticks[t] EXCEPT !.seen = n] EXCEPT !.phase = p]
      BY <3>1
    <3>3. ticks[t] \in TickRecord /\ UNCHANGED row /\ ~At(t, "idle")
      BY <1>6 DEF StartExecution
    <3>4. ticks'[t].occurrence = ticks[t].occurrence
      BY <3>2, <3>3 DEF TickRecord
    <3>. QED  BY <3>1, <3>3, <3>4
  <2>2. ticks'[t].phase \in {"creating", "started", "resetting"}
    <3>1. executions[ticks[t].occurrence] \in Execution
      BY DEF TickRecord
    <3>2. executions[ticks[t].occurrence].status \in {"none", "running", "ended"}
      BY <3>1 DEF Execution
    <3>. QED  BY <1>6, <3>2 DEF StartExecution
  <2>. QED  BY <2>1, <2>2
<1>7. ASSUME NEW t \in Tick, CreateExecution(t) \/ ResetExecution(t) PROVE HolderIsCurrent'
  BY <1>4, <1>7 DEF CreateExecution, ResetExecution, Phase
<1>8. ASSUME NEW t \in Tick, Ends(t), row' = row \/ row'.holder \in {Nobody, Gone},
             row'.holder # t
      PROVE  HolderIsCurrent'
  BY <1>8 DEF Ends, RecurringAssumption
<1>9. ASSUME NEW t \in Tick, Failed(t) PROVE HolderIsCurrent'
  BY <1>8, <1>9 DEF Failed, RecurringAssumption
<1>10. ASSUME NEW t \in Tick, NEW i, Rescheduled(t, i) PROVE HolderIsCurrent'
  <2>1. (row' = row /\ row.holder # t) \/ row'.holder = Nobody
    <3>1. CASE ~HoldsLock(t)
      BY <1>10, <3>1 DEF Rescheduled
    <3>2. CASE HoldsLock(t) /\ i <= MaxOccurrence
      BY <1>10, <3>2 DEF Rescheduled
    <3>3. CASE HoldsLock(t) /\ ~(i <= MaxOccurrence)
      BY <1>10, <3>3 DEF Rescheduled, Row
    <3>. QED  BY <3>1, <3>2, <3>3
  <2>. QED  BY <1>8, <1>10, <2>1 DEF Rescheduled, RecurringAssumption
<1>11. ASSUME NEW t \in Tick, Crash(t) PROVE HolderIsCurrent'
  BY <1>8, <1>11 DEF Crash, RecurringAssumption
<1>12. ASSUME NEW i \in Occurrence, ExecutionEnds(i) PROVE HolderIsCurrent'
  BY <1>12 DEF ExecutionEnds
<1>13. CASE Lapse \/ Recover
  BY <1>13 DEF Lapse, Recover, RecurringAssumption
<1>. QED
  BY <1>1, <1>2, <1>3, <1>5, <1>6, <1>7, <1>9, <1>10, <1>11, <1>12, <1>13
     DEF Next, Execute, ResetRefused, TickFails, RecurringCompletion, Skipped

(* What a step may do to executions: runs are never taken back.              *)
LEMMA RunsGrow ==
  ASSUME IInv, TypeOK', Next
  PROVE  \A i \in Occurrence : executions[i].runs > 0 => executions'[i].runs > 0
<1>. USE DEF IInv, TypeOK, Execution
<1>1. ASSUME NEW t \in Tick, CancelAndRestart(t), NEW i \in Occurrence
      PROVE  executions'[i].runs = executions[i].runs
  BY <1>1 DEF CancelAndRestart
<1>2. ASSUME NEW t \in Tick, CreateExecution(t) \/ ResetExecution(t), NEW i \in Occurrence
      PROVE  executions[i].runs > 0 => executions'[i].runs > 0
  BY <1>2 DEF CreateExecution, ResetExecution, WithRun
<1>3. ASSUME NEW j \in Occurrence, ExecutionEnds(j), NEW i \in Occurrence
      PROVE  executions'[i].runs = executions[i].runs
  BY <1>3 DEF ExecutionEnds
<1>. QED
  BY <1>1, <1>2, <1>3 DEF Next, Execute, Seed, StopRecurring, PickUp, AlwaysStart, SkipIfRunning,
     StartExecution, ResetRefused, Failed, RecurringCompletion, Skipped, Rescheduled, TickFails,
     Crash, Lapse, Recover

LEMMA StatusHasRun ==
  ASSUME IInv, TypeOK', Next
  PROVE  \A i \in Occurrence : executions'[i].status # "none" => executions'[i].runs > 0
<1>. USE DEF IInv, TypeOK, StartedHasRun, Execution
<1>1. ASSUME NEW t \in Tick, CancelAndRestart(t), NEW i \in Occurrence
      PROVE  executions'[i].status # "none" => executions'[i].runs > 0
  BY <1>1 DEF CancelAndRestart, Running
<1>2. ASSUME NEW t \in Tick, CreateExecution(t) \/ ResetExecution(t), NEW i \in Occurrence
      PROVE  executions'[i].status # "none" => executions'[i].runs > 0
  BY <1>2 DEF CreateExecution, ResetExecution, WithRun
<1>3. ASSUME NEW j \in Occurrence, ExecutionEnds(j), NEW i \in Occurrence
      PROVE  executions'[i].status # "none" => executions'[i].runs > 0
  BY <1>3 DEF ExecutionEnds, Running
<1>. QED
  BY <1>1, <1>2, <1>3 DEF Next, Execute, Seed, StopRecurring, PickUp, AlwaysStart, SkipIfRunning,
     StartExecution, ResetRefused, Failed, RecurringCompletion, Skipped, Rescheduled, TickFails,
     Crash, Lapse, Recover

(* A tick gets to its completion by finding or starting its execution.       *)
LEMMA NewlyStarted ==
  ASSUME IInv, TypeOK', Next, NEW t \in Tick, At(t, "started")', ~At(t, "started")
  PROVE  /\ ticks'[t].occurrence = ticks[t].occurrence
         /\ executions'[ticks[t].occurrence].runs > 0
<1>. USE DEF IInv, TypeOK, At
<1>. ticks[t].occurrence \in Occurrence
  BY DEF TickRecord
<1>1. CASE StartExecution(t)
  <2>1. executions[ticks[t].occurrence] \in Execution
    OBVIOUS
  <2>2. Running(ticks[t].occurrence)
    BY <1>1, <2>1 DEF StartExecution, Execution, Running
  <2>. QED  BY <1>1, <2>2 DEF StartExecution, StartedHasRun, Running
<1>2. CASE CreateExecution(t) \/ ResetExecution(t)
  <2>1. CASE executions' = WithRun(ticks[t].occurrence)
    <3>1. ticks'[t].occurrence = ticks[t].occurrence
      BY <1>2 DEF CreateExecution, ResetExecution, Become, TickRecord
    <3>2. executions'[ticks[t].occurrence].runs = executions[ticks[t].occurrence].runs + 1
      BY <2>1 DEF WithRun, Execution
    <3>3. executions[ticks[t].occurrence].runs \in Nat
      BY DEF Execution
    <3>. QED  BY <3>1, <3>2, <3>3
  <2>2. CASE CreateExecution(t) /\ executions[ticks[t].occurrence].status # "none" /\ UNCHANGED executions
    BY <2>2 DEF CreateExecution, Become, StartedHasRun
  <2>. QED  BY <1>2, <2>1, <2>2 DEF CreateExecution, ResetExecution
<1>3. ASSUME NEW u \in Tick, StartExecution(u) \/ CreateExecution(u) \/ ResetExecution(u), u # t
      PROVE  FALSE
  BY <1>3 DEF StartExecution, CreateExecution, ResetExecution, Become
<1>4. ASSUME NEW u \in Tick, PickUp(u) PROVE FALSE
  BY <1>4 DEF PickUp, IdleTick
<1>5. ASSUME NEW u \in Tick, AlwaysStart(u) \/ SkipIfRunning(u) \/ CancelAndRestart(u) PROVE FALSE
  <2>1. \E p \in {"starting", "skipping"} : Become(u, p)
    BY <1>5 DEF AlwaysStart, SkipIfRunning, CancelAndRestart
  <2>. QED  BY <2>1 DEF Become
<1>6. ASSUME NEW u \in Tick, Ends(u) PROVE FALSE
  BY <1>6 DEF Ends, IdleTick
<1>. QED
  BY <1>1, <1>2, <1>3, <1>4, <1>5, <1>6 DEF Next, Execute, Seed, StopRecurring, ResetRefused,
     Failed, RecurringCompletion, Skipped, Rescheduled, TickFails, Crash, Lapse, Recover,
     ExecutionEnds

(* The occurrence of a tick at work does not change.                         *)
LEMMA TickKeepsOccurrence ==
  ASSUME IInv, TypeOK', Next, NEW t \in Tick, ~At(t, "idle"), ~At(t, "idle")'
  PROVE  ticks'[t].occurrence = ticks[t].occurrence
<1>. USE DEF IInv, TypeOK, At
<1>1. ASSUME NEW u \in Tick, NEW p, Become(u, p) PROVE ticks'[t].occurrence = ticks[t].occurrence
  BY <1>1 DEF Become, TickRecord
<1>2. ASSUME NEW u \in Tick, Ends(u) PROVE ticks'[t].occurrence = ticks[t].occurrence
  BY <1>2 DEF Ends, IdleTick
<1>3. ASSUME NEW u \in Tick, StartExecution(u) PROVE ticks'[t].occurrence = ticks[t].occurrence
  BY <1>3 DEF StartExecution, TickRecord
<1>4. ASSUME NEW u \in Tick, PickUp(u) PROVE ticks'[t].occurrence = ticks[t].occurrence
  BY <1>4 DEF PickUp
<1>. QED
  BY <1>1, <1>2, <1>3, <1>4 DEF Next, Execute, Seed, StopRecurring, AlwaysStart, SkipIfRunning,
     CancelAndRestart, CreateExecution, ResetExecution, ResetRefused, Failed, RecurringCompletion,
     Skipped, Rescheduled, TickFails, Crash, Lapse, Recover, ExecutionEnds

LEMMA StepStarted ==
  ASSUME IInv, TypeOK', Next
  PROVE  StartedHasRun'
<1>1. ASSUME NEW t \in Tick, At(t, "started")' PROVE executions'[ticks'[t].occurrence].runs > 0
  <2>1. CASE At(t, "started")
    <3>1. ticks'[t].occurrence = ticks[t].occurrence
      BY <1>1, <2>1, TickKeepsOccurrence DEF At
    <3>2. ticks[t].occurrence \in Occurrence /\ executions[ticks[t].occurrence].runs > 0
      BY <2>1 DEF IInv, TypeOK, TickRecord, StartedHasRun
    <3>. QED  BY <3>1, <3>2, RunsGrow
  <2>. QED  BY <1>1, <2>1, NewlyStarted
<1>. QED  BY <1>1, StatusHasRun DEF StartedHasRun

(* What Rescheduled makes of the row.                                       *)
LEMMA RescheduledRow ==
  ASSUME row \in Row, NEW t \in Tick, NEW i \in Nat, Rescheduled(t, i)
  PROVE  \/ row' = row
         \/ row'.status = "completed" /\ row'.occurrence = row.occurrence
         \/ HoldsLock(t) /\ row'.status = "scheduled" /\ row'.occurrence = i
<1>1. CASE ~HoldsLock(t)
  BY <1>1 DEF Rescheduled
<1>2. CASE HoldsLock(t) /\ i <= MaxOccurrence
  BY <1>2 DEF Rescheduled
<1>3. CASE HoldsLock(t) /\ ~(i <= MaxOccurrence)
  BY <1>3 DEF Rescheduled, Row
<1>. QED  BY <1>1, <1>2, <1>3

(* The row's counter stays, is lost with the row, or counts an occurrence     *)
(* that was started.                                                        *)
LEMMA RowMoves ==
  ASSUME IInv, TypeOK', Next
  PROVE  \/ /\ row'.occurrence = row.occurrence
            /\ row'.status = "absent" => row.status = "absent"
         \/ row'.status = "absent" /\ row'.occurrence = 0 /\ stops' # 0
         \/ \E t \in Tick : /\ RecurringCompletion(t) /\ HoldsLock(t)
                           /\ row'.status = "scheduled" /\ row'.occurrence = row.occurrence + 1
<1>. DEFINE Stays == /\ row'.occurrence = row.occurrence
                     /\ row'.status = "absent" => row.status = "absent"
<1>. USE RecurringAssumption, RowFields DEF IInv, TypeOK, Row
<1>1. CASE Seed
  BY <1>1 DEF Seed, Absent, CounterInv
<1>2. CASE StopRecurring
  BY <1>2 DEF StopRecurring, Absent
<1>3. ASSUME NEW t \in Tick, PickUp(t) PROVE Stays
  BY <1>3 DEF PickUp
<1>4. ASSUME NEW t \in Tick, Failed(t) PROVE Stays
  BY <1>4 DEF Failed
<1>5. ASSUME NEW t \in Tick, Crash(t) PROVE Stays
  BY <1>5 DEF Crash
<1>6. CASE Lapse \/ Recover
  BY <1>6 DEF Lapse, Recover
<1>8. ASSUME NEW t \in Tick, Skipped(t) PROVE Stays
  <2>1. row.occurrence \in Nat
    BY DEF Occurrence
  <2>. QED  BY <1>8, <2>1, RescheduledRow DEF Skipped, SkippedTo
<1>9. ASSUME NEW t \in Tick, RecurringCompletion(t)
      PROVE  \/ Stays
             \/ HoldsLock(t) /\ row'.status = "scheduled" /\ row'.occurrence = row.occurrence + 1
  <2>1. ticks[t].occurrence \in Nat
    BY DEF TickRecord, Occurrence
  <2>2. HoldsLock(t) => ticks[t].occurrence = row.occurrence
    BY DEF HolderIsCurrent
  <2>3. ticks[t].occurrence + 1 \in Nat /\ Rescheduled(t, ticks[t].occurrence + 1)
    BY <1>9, <2>1 DEF RecurringCompletion, Counted
  <2>4. \/ row' = row
        \/ row'.status = "completed" /\ row'.occurrence = row.occurrence
        \/ HoldsLock(t) /\ row'.status = "scheduled" /\ row'.occurrence = ticks[t].occurrence + 1
    BY <2>3, RescheduledRow
  <2>. QED  BY <2>2, <2>4
<1>. QED
  BY <1>1, <1>2, <1>3, <1>4, <1>5, <1>6, <1>8, <1>9 DEF Next, Execute, AlwaysStart, SkipIfRunning,
     CancelAndRestart, StartExecution, CreateExecution, ResetExecution, ResetRefused, TickFails,
     ExecutionEnds

(* Only a tick at work starts an execution, and only a scheduled task gets a  *)
(* tick to work.                                                            *)
LEMMA NewRuns ==
  ASSUME IInv, TypeOK', Next, NEW i \in Occurrence,
         executions'[i].runs # executions[i].runs \/ (~Running(i) /\ Running(i)')
  PROVE  \E t \in Tick : /\ ticks[t].phase \in {"creating", "resetting"} /\ ticks[t].occurrence = i
                        /\ UNCHANGED <<row, lapsed, stops, overlap>>
<1>. USE DEF IInv, TypeOK, Running
<1>1. ASSUME NEW t \in Tick, CancelAndRestart(t) PROVE FALSE
  BY <1>1 DEF CancelAndRestart, Execution
<1>2. ASSUME NEW t \in Tick, CreateExecution(t) \/ ResetExecution(t)
      PROVE  /\ ticks[t].phase \in {"creating", "resetting"} /\ ticks[t].occurrence = i
             /\ UNCHANGED <<row, lapsed, stops, overlap>>
  BY <1>2 DEF CreateExecution, ResetExecution, At, WithRun, faulty
<1>3. ASSUME NEW j \in Occurrence, ExecutionEnds(j) PROVE FALSE
  BY <1>3 DEF ExecutionEnds, Execution
<1>. QED
  BY <1>1, <1>2, <1>3 DEF Next, Execute, Seed, StopRecurring, PickUp, AlwaysStart, SkipIfRunning,
     StartExecution, ResetRefused, Failed, RecurringCompletion, Skipped, Rescheduled, TickFails,
     Crash, Lapse, Recover

LEMMA NewTicks ==
  ASSUME IInv, TypeOK', Next, NEW t \in Tick, At(t, "idle"), ~At(t, "idle")'
  PROVE  /\ row'.holder = t /\ row'.occurrence = row.occurrence /\ ticks'[t].phase = "fetched"
         /\ ticks'[t].occurrence = row.occurrence /\ UNCHANGED executions
<1>. USE DEF IInv, TypeOK, At
<1>1. ASSUME NEW u \in Tick, PickUp(u)
      PROVE  /\ row'.holder = t /\ row'.occurrence = row.occurrence /\ ticks'[t].phase = "fetched"
             /\ ticks'[t].occurrence = row.occurrence /\ UNCHANGED executions
  BY <1>1 DEF PickUp, IdleTick, Row
<1>2. ASSUME NEW u \in Tick, NEW p, Become(u, p), ~At(u, "idle") PROVE FALSE
  BY <1>2 DEF Become
<1>3. ASSUME NEW u \in Tick, Ends(u) PROVE FALSE
  BY <1>3 DEF Ends, IdleTick
<1>4. ASSUME NEW u \in Tick, StartExecution(u) PROVE FALSE
  BY <1>4 DEF StartExecution
<1>. QED
  BY <1>1, <1>2, <1>3, <1>4 DEF Next, Execute, Seed, StopRecurring, AlwaysStart, SkipIfRunning,
     CancelAndRestart, CreateExecution, ResetExecution, ResetRefused, Failed, RecurringCompletion,
     Skipped, Rescheduled, TickFails, Crash, Lapse, Recover, ExecutionEnds

(* Stops and lapses are not taken back, and the policy is for ever.          *)
LEMMA FlagsStay ==
  ASSUME IInv, Next
  PROVE  /\ overlap' = overlap /\ (stops' = 0 => stops = 0) /\ (lapsed' = FALSE => lapsed = FALSE)
<1>. USE DEF IInv, TypeOK
<1>1. CASE StopRecurring
  BY <1>1 DEF StopRecurring
<1>2. CASE Lapse
  BY <1>2 DEF Lapse
<1>3. CASE ~StopRecurring /\ ~Lapse
  <2>1. UNCHANGED <<overlap, stops, lapsed>>
    BY <1>3 DEF Next, Execute, Seed, PickUp, AlwaysStart, SkipIfRunning, CancelAndRestart,
       StartExecution, CreateExecution, ResetExecution, ResetRefused, Failed, RecurringCompletion,
       Skipped, Rescheduled, TickFails, Crash, Recover, ExecutionEnds, faulty
  <2>. QED  BY <2>1
<1>. QED  BY <1>1, <1>2, <1>3

LEMMA StepCounter ==
  ASSUME IInv, TypeOK', Next
  PROVE  CounterInv'
<1>. USE DEF IInv, TypeOK, Occurrence
<1>0. row.occurrence \in Nat /\ row'.occurrence \in Nat
  BY RecurringAssumption DEF Row, RecurringAssumption
<1>1. row'.status = "absent" => row'.occurrence = 0
  BY <1>0, RowMoves DEF CounterInv
<1>2. ASSUME NEW i \in Occurrence, i < row'.occurrence PROVE executions'[i].runs > 0
  <2>1. CASE i < row.occurrence
    BY <2>1, RunsGrow DEF CounterInv
  <2>2. CASE ~(i < row.occurrence)
    <3>1. PICK t \in Tick : RecurringCompletion(t) /\ HoldsLock(t) /\ row'.occurrence = row.occurrence + 1
      BY <1>0, <1>2, <2>2, RowMoves
    <3>2. i = row.occurrence
      BY <1>0, <1>2, <2>2, <3>1
    <3>3. executions[i].runs > 0
      BY <3>1, <3>2 DEF RecurringCompletion, StartedHasRun, HolderIsCurrent
    <3>. QED  BY <3>3, RunsGrow
  <2>. QED  BY <2>1, <2>2
<1>3. ASSUME stops' = 0
      PROVE  stops = 0 /\ row.occurrence <= row'.occurrence
  <2>1. stops = 0
    BY <1>3, FlagsStay
  <2>2. row'.occurrence = row.occurrence \/ row'.occurrence = row.occurrence + 1
    BY <1>3, RowMoves
  <2>. QED  BY <1>0, <2>1, <2>2
<1>4. ASSUME stops' = 0, NEW i \in Occurrence, executions'[i].runs > 0 PROVE i <= row'.occurrence
  <2>1. CASE executions[i].runs > 0
    BY <1>0, <1>3, <1>4, <2>1 DEF CounterInv
  <2>2. CASE executions'[i].runs # executions[i].runs
    <3>1. PICK t \in Tick : ticks[t].phase \in {"creating", "resetting"} /\ ticks[t].occurrence = i
      <4>. HIDE DEF IInv, TypeOK, Occurrence
      <4>. QED  BY <2>2, NewRuns
    <3>. QED  BY <1>0, <1>3, <1>4, <3>1 DEF CounterInv, At
  <2>. QED  BY <1>4, <2>1, <2>2
<1>5. ASSUME stops' = 0, NEW t \in Tick, ~At(t, "idle")' PROVE ticks'[t].occurrence <= row'.occurrence
  <2>1. CASE At(t, "idle")
    BY <1>0, <1>5, <2>1, NewTicks
  <2>2. CASE ~At(t, "idle")
    <3>1. ticks'[t].occurrence = ticks[t].occurrence /\ ticks[t].occurrence <= row.occurrence
      BY <1>3, <1>5, <2>2, TickKeepsOccurrence DEF CounterInv
    <3>2. ticks[t].occurrence \in Nat
      BY DEF TickRecord
    <3>. QED  BY <1>0, <1>3, <1>5, <3>1, <3>2
  <2>. QED  BY <2>1, <2>2
<1>. QED  BY <1>1, <1>2, <1>4, <1>5 DEF CounterInv

(* A tick at work loses the lock only when it ends, by a lapse or a stop.     *)
LEMMA HolderStays ==
  ASSUME IInv, TypeOK', Next, NEW t \in Tick, HoldsLock(t), ~At(t, "idle")', ~lapsed', stops' = 0
  PROVE  HoldsLock(t)'
<1>. USE DEF IInv, TypeOK, HoldsLock, At
<1>1. row.holder \in Tick /\ row.status = "picked_up"
  BY RecurringAssumption DEF Row, RecurringAssumption
<1>2. stops = 0
  BY FlagsStay
<1>3. ASSUME Seed PROVE FALSE
  BY <1>1, <1>3 DEF Seed
<1>4. ASSUME StopRecurring PROVE FALSE
  BY <1>2, <1>4 DEF StopRecurring
<1>5. ASSUME NEW u \in Tick, PickUp(u) PROVE FALSE
  BY <1>1, <1>5 DEF PickUp
<1>6. ASSUME Lapse PROVE FALSE
  BY <1>6 DEF Lapse
<1>7. ASSUME Recover PROVE FALSE
  BY <1>1, <1>7, RecurringAssumption DEF Recover, RecurringAssumption
<1>8. ASSUME NEW u \in Tick, Ends(u), u # t => UNCHANGED row PROVE HoldsLock(t)'
  BY <1>8 DEF Ends, IdleTick
<1>9. ASSUME NEW u \in Tick, Failed(u) PROVE HoldsLock(t)'
  BY <1>8, <1>9 DEF Failed
<1>10. ASSUME NEW u \in Tick, NEW i, Rescheduled(u, i) PROVE HoldsLock(t)'
  BY <1>8, <1>10 DEF Rescheduled
<1>11. ASSUME NEW u \in Tick, Crash(u) PROVE HoldsLock(t)'
  BY <1>8, <1>11 DEF Crash
<1>. QED
  BY <1>3, <1>4, <1>5, <1>6, <1>7, <1>9, <1>10, <1>11 DEF Next, Execute, AlwaysStart, SkipIfRunning,
     CancelAndRestart, StartExecution, CreateExecution, ResetExecution, ResetRefused, Skipped,
     RecurringCompletion, TickFails, ExecutionEnds

LEMMA BecomesStarting ==
  ASSUME IInv, TypeOK', Next, NEW t \in Tick, Starting(t)', ~Starting(t)
  PROVE  AlwaysStart(t) \/ SkipIfRunning(t) \/ CancelAndRestart(t)
<1>. USE DEF IInv, TypeOK, At, Starting
<1>1. ASSUME NEW u \in Tick, NEW p, Become(u, p), u # t \/ Starting(t) PROVE FALSE
  BY <1>1 DEF Become
<1>2. ASSUME NEW u \in Tick, Ends(u) PROVE FALSE
  BY <1>2 DEF Ends, IdleTick
<1>3. ASSUME NEW u \in Tick, StartExecution(u) PROVE FALSE
  BY <1>3 DEF StartExecution
<1>4. ASSUME NEW u \in Tick, PickUp(u) PROVE FALSE
  BY <1>4 DEF PickUp, IdleTick
<1>5. ASSUME NEW u \in Tick, AlwaysStart(u) \/ SkipIfRunning(u) \/ CancelAndRestart(u) PROVE u = t
  <2>1. \E p : Become(u, p)
    BY <1>5 DEF AlwaysStart, SkipIfRunning, CancelAndRestart
  <2>. QED  BY <1>1, <2>1
<1>6. ASSUME NEW u \in Tick, CreateExecution(u) \/ ResetExecution(u) PROVE FALSE
  BY <1>1, <1>6 DEF CreateExecution, ResetExecution
<1>. QED
  BY <1>2, <1>3, <1>4, <1>5, <1>6 DEF Next, Execute, Seed, StopRecurring, ResetRefused, Failed,
     RecurringCompletion, Skipped, Rescheduled, TickFails, Crash, Lapse, Recover, ExecutionEnds

LEMMA StepOverlap ==
  ASSUME IInv, TypeOK', Next
  PROVE  OverlapInv'
<1>. SUFFICES ASSUME overlap' # "AlwaysStart", ~lapsed', stops' = 0
              PROVE  /\ \A t \in Tick : ~At(t, "idle")' => HoldsLock(t)'
                     /\ \A i \in Occurrence : Running(i)' => i >= row'.occurrence - 1
                     /\ \A i, j \in Occurrence : Running(i)' /\ Running(j)' => i = j
                     /\ \A t \in Tick, i \in Occurrence : Starting(t)' /\ Running(i)' => i = row'.occurrence
  BY DEF OverlapInv
<1>0. row.occurrence \in Nat /\ row'.occurrence \in Nat
  BY RecurringAssumption DEF IInv, TypeOK, Row, Occurrence, RecurringAssumption
<1>1. overlap # "AlwaysStart" /\ ~lapsed /\ stops = 0
  BY FlagsStay DEF IInv, TypeOK
<1>2. /\ \A t \in Tick : ~At(t, "idle") => HoldsLock(t)
      /\ \A i \in Occurrence : Running(i) => i >= row.occurrence - 1
      /\ \A i, j \in Occurrence : Running(i) /\ Running(j) => i = j
      /\ \A t \in Tick, i \in Occurrence : Starting(t) /\ Running(i) => i = row.occurrence
  BY <1>1 DEF IInv, OverlapInv
<1>3. \A t, u \in Tick : ~At(t, "idle") /\ ~At(u, "idle") => t = u
  BY <1>2 DEF HoldsLock
<1>4. ASSUME NEW t \in Tick, ~At(t, "idle")' PROVE HoldsLock(t)'
  <2>1. CASE At(t, "idle")
    BY <1>4, <2>1, NewTicks DEF HoldsLock
  <2>2. CASE ~At(t, "idle")
    BY <1>2, <1>4, <2>2, HolderStays
  <2>. QED  BY <2>1, <2>2
<1>5. ASSUME NEW i \in Occurrence, Running(i)', ~Running(i)
      PROVE  \E t \in Tick : Starting(t) /\ i = row.occurrence /\ UNCHANGED row
  <2>1. PICK t \in Tick : /\ ticks[t].phase \in {"creating", "resetting"} /\ ticks[t].occurrence = i
                         /\ UNCHANGED row
    BY <1>5, NewRuns
  <2>2. HoldsLock(t)
    BY <1>2, <2>1 DEF At
  <2>. QED  BY <2>1, <2>2 DEF IInv, HolderIsCurrent, Starting
<1>6. \/ row'.occurrence = row.occurrence
      \/ \E t \in Tick : Starting(t) /\ At(t, "idle")' /\ HoldsLock(t) /\ UNCHANGED executions
                       /\ row'.occurrence = row.occurrence + 1
  <2>1. ASSUME NEW t \in Tick, RecurringCompletion(t)
        PROVE  Starting(t) /\ At(t, "idle")' /\ UNCHANGED executions
    BY <2>1 DEF IInv, TypeOK, RecurringCompletion, Rescheduled, Ends, IdleTick, At, Starting
  <2>. QED  BY <2>1, RowMoves
<1>7. ASSUME NEW i \in Occurrence, Running(i)' PROVE i >= row'.occurrence - 1
  <2>1. CASE Running(i) /\ row'.occurrence = row.occurrence
    BY <1>0, <1>2, <2>1
  <2>2. CASE ~Running(i)
    BY <1>0, <1>5, <1>7, <2>2
  <2>3. CASE Running(i) /\ row'.occurrence # row.occurrence
    BY <1>0, <1>2, <1>6, <2>3
  <2>. QED  BY <2>1, <2>2, <2>3
<1>8. ASSUME NEW i \in Occurrence, NEW j \in Occurrence, Running(i)', Running(j)' PROVE i = j
  <2>1. CASE Running(i) /\ Running(j)
    BY <1>2, <2>1
  <2>2. CASE ~Running(i)
    <3>1. i = row.occurrence /\ \E t \in Tick : Starting(t)
      BY <1>5, <1>8, <2>2
    <3>. QED  BY <1>2, <1>5, <1>8, <3>1
  <2>3. CASE ~Running(j)
    <3>1. j = row.occurrence /\ \E t \in Tick : Starting(t)
      BY <1>5, <1>8, <2>3
    <3>. QED  BY <1>2, <1>5, <1>8, <3>1
  <2>. QED  BY <2>1, <2>2, <2>3
<1>9. ASSUME NEW t \in Tick, NEW i \in Occurrence, Starting(t)', Running(i)'
      PROVE  i = row'.occurrence
  <2>1. CASE Starting(t)
    <3>1. ~At(t, "idle") /\ ~At(t, "idle")'
      BY <1>9, <2>1 DEF Starting, At
    <3>2. row'.occurrence = row.occurrence
      BY <1>3, <1>6, <3>1 DEF Starting, At
    <3>. QED  BY <1>2, <1>5, <1>9, <2>1, <3>2
  <2>2. CASE ~Starting(t)
    <3>1. SkipIfRunning(t) \/ CancelAndRestart(t)
      BY <1>1, <1>9, <2>2, BecomesStarting DEF AlwaysStart
    <3>2. row' = row /\ At(t, "fetched")
      BY <3>1 DEF SkipIfRunning, CancelAndRestart
    <3>3. ticks[t].occurrence = row.occurrence
      BY <1>2, <3>2 DEF IInv, HolderIsCurrent, At
    <3>4. Running(i)
      BY <1>5, <1>9, <2>2, <3>1, <3>2 DEF SkipIfRunning, CancelAndRestart, Running, IInv, TypeOK
    <3>5. i \in Nat /\ i >= row.occurrence - 1 /\ i <= row.occurrence
      BY <1>1, <1>2, <3>4 DEF IInv, StartedHasRun, CounterInv, Running, Occurrence
    <3>6. ~(row.occurrence > 0 /\ i = row.occurrence - 1)
      <4>1. CASE SkipIfRunning(t)
        <5>1. ~(row.occurrence > 0 /\ Running(row.occurrence - 1))
          BY <1>9, <2>2, <3>3, <4>1 DEF SkipIfRunning, LastOccurrence, Become, Starting, IInv, TypeOK
        <5>. QED  BY <3>4, <5>1
      <4>2. CASE CancelAndRestart(t)
        BY <1>9, <3>3, <3>4, <4>2 DEF CancelAndRestart, LastOccurrence, Running, IInv, TypeOK
      <4>. QED  BY <3>1, <4>1, <4>2
    <3>. QED  BY <1>0, <3>2, <3>5, <3>6
  <2>. QED  BY <2>1, <2>2
<1>. QED  BY <1>4, <1>7, <1>8, <1>9

-----------------------------------------------------------------------------
(* The theorems.                                                            *)

LEMMA InitIInv == Init => IInv
<1>. SUFFICES ASSUME Init PROVE IInv
  OBVIOUS
<1>1. TypeOK
  BY InitType
<1>2. row.holder \notin Tick /\ row.occurrence = 0
  BY RecurringAssumption DEF Init, Absent, RecurringAssumption
<1>3. \A t \in Tick : At(t, "idle") /\ ~Starting(t)
  BY DEF Init, IdleTick, At, Starting
<1>4. \A i \in Occurrence : executions[i].status = "none" /\ executions[i].runs = 0 /\ i \in Nat
  BY DEF Init, Occurrence
<1>. QED
  BY <1>1, <1>2, <1>3, <1>4 DEF IInv, HolderIsCurrent, StartedHasRun, CounterInv, OverlapInv,
     HoldsLock, At, Running

LEMMA StepIInv == IInv /\ [Next]_vars => IInv'
<1>1. ASSUME IInv, Next PROVE IInv'
  <2>1. TypeOK'
    BY <1>1, StepType DEF IInv
  <2>. QED  BY <1>1, <2>1, StepHolder, StepStarted, StepCounter, StepOverlap DEF IInv
<1>2. ASSUME IInv, UNCHANGED vars PROVE IInv'
  BY <1>2 DEF IInv, TypeOK, HolderIsCurrent, StartedHasRun, CounterInv, OverlapInv, vars, faulty,
     HoldsLock, At, Running, Starting
<1>. QED  BY <1>1, <1>2

(* The recurring task, its ticks and its executions keep their types.        *)
THEOREM RecurringTypeCorrect == Spec => []TypeOK
<1>1. IInv => TypeOK
  BY DEF IInv
<1>. QED  BY <1>1, InitIInv, StepIInv, PTL DEF Spec

(* The counter of the recurring task passes only occurrences that were        *)
(* started, and unless the task is stopped at most one that was started is    *)
(* not passed.                                                              *)
THEOREM CounterCorrect == Spec => []CounterOneBehind
<1>1. IInv => CounterOneBehind
  <2>. SUFFICES ASSUME IInv PROVE CounterOneBehind
    OBVIOUS
  <2>1. row.occurrence \in Nat /\ row.occurrence \in Occurrence /\ MaxOccurrence \in Nat
    BY RecurringAssumption DEF IInv, TypeOK, Row, Occurrence, RecurringAssumption
  <2>2. 0..(row.occurrence - 1) \subseteq Started
    BY <2>1 DEF IInv, CounterInv, Started, Occurrence
  <2>3. stops = 0 => Started \subseteq 0..row.occurrence
    BY <2>1 DEF IInv, CounterInv, Started, Occurrence
  <2>. QED  BY <2>2, <2>3 DEF CounterOneBehind
<1>. QED  BY <1>1, InitIInv, StepIInv, PTL DEF Spec

(* Under SkipIfRunning and CancelAndRestart no two executions run at once,    *)
(* unless a lease has lapsed under its tick or the task was stopped.          *)
THEOREM NoOverlapCorrect == Spec => []NoOverlap
<1>1. IInv => NoOverlap
  <2>. SUFFICES ASSUME IInv, overlap # "AlwaysStart", ~lapsed, stops = 0
                PROVE  Cardinality({i \in Occurrence : Running(i)}) <= 1
    BY DEF NoOverlap
  <2>1. \A i, j \in Occurrence : Running(i) /\ Running(j) => i = j
    BY DEF IInv, OverlapInv
  <2>2. CASE \E i \in Occurrence : Running(i)
    <3>1. PICK i \in Occurrence : Running(i)
      BY <2>2
    <3>2. {j \in Occurrence : Running(j)} = {i}
      BY <2>1, <3>1
    <3>3. Cardinality({i}) = 1
      BY FS_Singleton
    <3>. QED  BY <3>2, <3>3
  <2>3. CASE ~\E i \in Occurrence : Running(i)
    <3>1. {j \in Occurrence : Running(j)} = {}
      BY <2>3
    <3>. QED  BY <3>1, FS_EmptySet
  <2>. QED  BY <2>2, <2>3
<1>. QED  BY <1>1, InitIInv, StepIInv, PTL DEF Spec

-----------------------------------------------------------------------------
(* Runs again.  A run too many of an occurrence is one more than its         *)
(* executions were meant to have; whoever may still start one counts as a     *)
(* run already: a tick on its way to the start, and the row while it waits    *)
(* to be dispatched.  Only a crash and a lapse make such a chance, and only    *)
(* the counter gives the first one to an occurrence.                         *)

Chance(t) == ticks[t].phase \in {"fetched", "starting", "creating", "resetting", "skipping"}
Waiting == row.status = "scheduled" \/ row.holder = Gone
Chances(i) == {t \in Tick : Chance(t) /\ ticks[t].occurrence = i}
                \cup {u \in {Nobody} : Waiting /\ row.occurrence = i}
Count(i) == executions[i].runs + Cardinality(Chances(i))

Extra == {e \in Occurrence \X (Nat \ {0, 1}) : e[2] <= Count(e[1])}

ExtraInv ==
  /\ \A i \in Occurrence : IsFiniteSet(Chances(i))
  /\ IsFiniteSet(Extra) /\ Cardinality(Extra) <= faults

Blank ==
  row.status = "absent" =>
    /\ \A i \in Occurrence : executions[i].runs = 0
    /\ \A t \in Tick : At(t, "idle")

ChanceInv == stops = 0 => ExtraInv /\ Blank

LEMMA Counting ==
  ASSUME NEW S, IsFiniteSet(S), NEW T, NEW x, NEW y
  PROVE  /\ T \subseteq S => IsFiniteSet(T) /\ Cardinality(T) <= Cardinality(S)
         /\ T \subseteq S \cup {y} => IsFiniteSet(T) /\ Cardinality(T) <= Cardinality(S) + 1
         /\ x \in S /\ T \subseteq S \ {x} => IsFiniteSet(T) /\ Cardinality(T) + 1 <= Cardinality(S)
         /\ x \in S /\ T \subseteq (S \ {x}) \cup {y} =>
              IsFiniteSet(T) /\ Cardinality(T) <= Cardinality(S)
<1>. DEFINE A == S \cup {y}
            R == S \ {x}
            B == R \cup {y}
<1>1. Cardinality(S) \in Nat
  BY FS_CardinalityType
<1>2. IsFiniteSet(A) /\ Cardinality(A) <= Cardinality(S) + 1 /\ Cardinality(A) \in Nat
  BY <1>1, FS_AddElement
<1>3. IsFiniteSet(R) /\ (x \in S => Cardinality(R) = Cardinality(S) - 1) /\ Cardinality(R) \in Nat
  BY FS_RemoveElement, FS_CardinalityType
<1>4. IsFiniteSet(B) /\ Cardinality(B) <= Cardinality(R) + 1 /\ Cardinality(B) \in Nat
  <2>. HIDE DEF R
  <2>. QED  BY <1>3, FS_AddElement
<1>5. ASSUME NEW U, IsFiniteSet(U), T \subseteq U
      PROVE  IsFiniteSet(T) /\ Cardinality(T) <= Cardinality(U) /\ Cardinality(T) \in Nat
  BY <1>5, FS_Subset, FS_CardinalityType
<1>. HIDE DEF A, B, R
<1>6. /\ T \subseteq S => IsFiniteSet(T) /\ Cardinality(T) <= Cardinality(S)
      /\ T \subseteq A => IsFiniteSet(T) /\ Cardinality(T) <= Cardinality(S) + 1
      /\ x \in S /\ T \subseteq R => IsFiniteSet(T) /\ Cardinality(T) + 1 <= Cardinality(S)
      /\ x \in S /\ T \subseteq B => IsFiniteSet(T) /\ Cardinality(T) <= Cardinality(S)
  BY <1>1, <1>2, <1>3, <1>4, <1>5
<1>. QED  BY <1>6 DEF A, B, R

LEMMA CountTypes ==
  ASSUME TypeOK, TypeOK', NEW i \in Occurrence,
         IsFiniteSet(Chances(i)), IsFiniteSet(Chances(i))'
  PROVE  /\ executions[i].runs \in Nat /\ executions'[i].runs \in Nat
         /\ Cardinality(Chances(i)) \in Nat /\ Cardinality(Chances(i))' \in Nat
         /\ Count(i) \in Nat /\ Count(i)' \in Nat
<1>1. executions[i].runs \in Nat /\ executions'[i].runs \in Nat
  BY DEF TypeOK, Execution
<1>2. Cardinality(Chances(i)) \in Nat /\ Cardinality(Chances(i))' \in Nat
  BY FS_CardinalityType
<1>. QED  BY <1>1, <1>2 DEF Count

(* A step after which no occurrence counts more, and one after which one      *)
(* counts one more, by a fault.                                             *)
LEMMA NoneMore ==
  ASSUME TypeOK, TypeOK', ExtraInv, faults <= faults',
         \A i \in Occurrence : /\ IsFiniteSet(Chances(i))'
                               /\ Count(i)' <= Count(i) \/ Count(i)' <= 1
  PROVE  ExtraInv'
<1>1. Extra' \subseteq Extra
  <2>. SUFFICES ASSUME NEW i \in Occurrence, NEW n \in Nat \ {0, 1}, n <= Count(i)'
                PROVE  n <= Count(i)
    BY DEF Extra
  <2>. QED  BY CountTypes DEF ExtraInv
<1>2. IsFiniteSet(Extra') /\ Cardinality(Extra') <= Cardinality(Extra) /\ Cardinality(Extra) \in Nat
  BY <1>1, FS_Subset, FS_CardinalityType DEF ExtraInv
<1>3. faults \in Nat /\ faults' \in Nat /\ Cardinality(Extra') \in Nat
  BY <1>2, FS_CardinalityType, RecurringAssumption DEF TypeOK, RecurringAssumption
<1>. QED  BY <1>2, <1>3 DEF ExtraInv

LEMMA OneMore ==
  ASSUME TypeOK, TypeOK', ExtraInv, faults' = faults + 1, NEW j \in Occurrence,
         \A i \in Occurrence : /\ IsFiniteSet(Chances(i))'
                               /\ Count(i)' <= Count(i) \/ (i = j /\ Count(i)' <= Count(i) + 1)
  PROVE  ExtraInv'
<1>1. Extra' \subseteq Extra \cup {<<j, Count(j) + 1>>}
  <2>. SUFFICES ASSUME NEW i \in Occurrence, NEW n \in Nat \ {0, 1}, n <= Count(i)'
                PROVE  n <= Count(i) \/ (i = j /\ n = Count(j) + 1)
    BY DEF Extra
  <2>. QED  BY CountTypes DEF ExtraInv
<1>2. IsFiniteSet(Extra') /\ Cardinality(Extra') <= Cardinality(Extra) + 1
  BY <1>1, Counting DEF ExtraInv
<1>3. faults \in Nat /\ Cardinality(Extra') \in Nat /\ Cardinality(Extra) \in Nat
  BY <1>2, FS_CardinalityType, RecurringAssumption DEF TypeOK, ExtraInv, RecurringAssumption
<1>. QED  BY <1>2, <1>3 DEF ExtraInv

(* The ways the chances of an occurrence change.                             *)
LEMMA FewerChances ==
  ASSUME TypeOK, TypeOK', ExtraInv, NEW i \in Occurrence, executions'[i].runs = executions[i].runs,
         Chances(i)' \subseteq Chances(i)
  PROVE  IsFiniteSet(Chances(i))' /\ Count(i)' <= Count(i)
<1>1. IsFiniteSet(Chances(i))' /\ Cardinality(Chances(i))' <= Cardinality(Chances(i))
  BY Counting DEF ExtraInv
<1>. QED  BY <1>1, CountTypes DEF Count, ExtraInv

LEMMA ChanceChangesHands ==
  ASSUME TypeOK, TypeOK', ExtraInv, NEW i \in Occurrence, executions'[i].runs = executions[i].runs,
         NEW x \in Chances(i), NEW y, Chances(i)' \subseteq (Chances(i) \ {x}) \cup {y}
  PROVE  IsFiniteSet(Chances(i))' /\ Count(i)' <= Count(i)
<1>1. IsFiniteSet(Chances(i))' /\ Cardinality(Chances(i))' <= Cardinality(Chances(i))
  BY Counting DEF ExtraInv
<1>. QED  BY <1>1, CountTypes DEF Count, ExtraInv

LEMMA ChanceTaken ==
  ASSUME TypeOK, TypeOK', ExtraInv, NEW i \in Occurrence,
         executions'[i].runs <= executions[i].runs + 1,
         NEW x \in Chances(i), Chances(i)' \subseteq Chances(i) \ {x}
  PROVE  IsFiniteSet(Chances(i))' /\ Count(i)' <= Count(i)
<1>1. IsFiniteSet(Chances(i))' /\ Cardinality(Chances(i))' + 1 <= Cardinality(Chances(i))
  BY Counting DEF ExtraInv
<1>. QED  BY <1>1, CountTypes DEF Count, ExtraInv

LEMMA ChanceMore ==
  ASSUME TypeOK, TypeOK', ExtraInv, NEW i \in Occurrence, executions'[i].runs = executions[i].runs,
         NEW y, Chances(i)' \subseteq Chances(i) \cup {y}
  PROVE  IsFiniteSet(Chances(i))' /\ Count(i)' <= Count(i) + 1
<1>1. IsFiniteSet(Chances(i))' /\ Cardinality(Chances(i))' <= Cardinality(Chances(i)) + 1
  BY Counting DEF ExtraInv
<1>. QED  BY <1>1, CountTypes DEF Count, ExtraInv

(* An occurrence the counter has just come to.                               *)
LEMMA FirstChance ==
  ASSUME TypeOK', NEW i \in Occurrence, executions'[i].runs = 0, Chances(i)' \subseteq {Nobody}
  PROVE  IsFiniteSet(Chances(i))' /\ Count(i)' <= 1
<1>1. IsFiniteSet({Nobody}) /\ Cardinality({Nobody}) = 1
  BY FS_Singleton
<1>2. IsFiniteSet(Chances(i))' /\ Cardinality(Chances(i)') <= 1 /\ Cardinality(Chances(i)') \in Nat
  BY <1>1, FS_Subset, FS_CardinalityType
<1>. QED  BY <1>2 DEF Count

-----------------------------------------------------------------------------
(* The steps.                                                               *)

(* No run is started, no tick gets to where it was not, and no row waits that *)
(* did not.                                                                 *)
LEMMA QuietExtra ==
  ASSUME TypeOK, TypeOK', ExtraInv, faults <= faults',
         \A i \in Occurrence : executions'[i].runs = executions[i].runs,
         \A t \in Tick : Chance(t)' => Chance(t) /\ ticks'[t].occurrence = ticks[t].occurrence,
         Waiting' => Waiting /\ row'.occurrence = row.occurrence
  PROVE  ExtraInv'
<1>1. \A i \in Occurrence : Chances(i)' \subseteq Chances(i)
  BY DEF Chances
<1>. QED  BY <1>1, FewerChances, NoneMore

LEMMA TickGoesOn ==
  ASSUME TypeOK, TypeOK', ExtraInv, NEW t \in Tick, NEW p \in Phase, Chance(t),
         \A u \in Tick \ {t} : ticks'[u] = ticks[u],
         ticks'[t].occurrence = ticks[t].occurrence,
         UNCHANGED <<row, faults>>, \A i \in Occurrence : executions'[i].runs = executions[i].runs
  PROVE  ExtraInv'
<1>1. \A u \in Tick : Chance(u)' => Chance(u) /\ ticks'[u].occurrence = ticks[u].occurrence
  BY DEF Chance
<1>2. Waiting' => Waiting /\ row'.occurrence = row.occurrence
  BY DEF Waiting
<1>3. faults <= faults'
  BY RecurringAssumption DEF TypeOK, RecurringAssumption
<1>. QED  BY <1>1, <1>2, <1>3, QuietExtra

(* A tick ends; the row waits only if it did.                                *)
LEMMA TickEnds ==
  ASSUME TypeOK, TypeOK', ExtraInv, NEW t \in Tick, Ends(t), UNCHANGED executions,
         faults <= faults', Waiting' => Waiting /\ row'.occurrence = row.occurrence
  PROVE  ExtraInv'
<1>1. \A u \in Tick : Chance(u)' => Chance(u) /\ ticks'[u].occurrence = ticks[u].occurrence
  BY DEF Chance, Ends, IdleTick, TypeOK
<1>. QED  BY <1>1, QuietExtra

LEMMA SeedExtra ==
  ASSUME IInv, TypeOK', ExtraInv, Blank, Seed
  PROVE  ExtraInv'
<1>1. /\ UNCHANGED <<executions, ticks, faults>> /\ row'.occurrence = 0
      /\ \A t \in Tick : ~Chance(t)'
  <2>1. row' = [Absent EXCEPT !.status = "scheduled"] /\ UNCHANGED <<ticks, executions, faults>>
    BY DEF Seed, faulty
  <2>2. \A t \in Tick : ticks[t].phase = "idle"
    BY DEF Seed, Blank, At
  <2>. QED  BY <2>1, <2>2 DEF Absent, Chance
<1>2. ASSUME NEW i \in Occurrence PROVE IsFiniteSet(Chances(i))' /\ Count(i)' <= 1
  <2>1. Chances(i)' \subseteq {Nobody}
    BY <1>1 DEF Chances
  <2>. QED  BY <1>1, <2>1, FirstChance DEF Seed, Blank
<1>3. faults <= faults'
  BY <1>1, RecurringAssumption DEF IInv, TypeOK, RecurringAssumption
<1>. QED  BY <1>2, <1>3, NoneMore DEF IInv

LEMMA PickUpExtra ==
  ASSUME IInv, TypeOK', ExtraInv, NEW t \in Tick, PickUp(t)
  PROVE  ExtraInv'
<1>1. /\ UNCHANGED <<executions, faults>> /\ Waiting /\ ~Waiting' /\ t # Nobody
      /\ ticks'[t].occurrence = row.occurrence
      /\ \A u \in Tick \ {t} : ticks'[u] = ticks[u]
  BY RecurringAssumption DEF PickUp, Waiting, IdleTick, IInv, TypeOK, Row, faulty, RecurringAssumption
<1>2. ASSUME NEW i \in Occurrence PROVE IsFiniteSet(Chances(i))' /\ Count(i)' <= Count(i)
  <2>1. CASE i = row.occurrence
    <3>1. Nobody \in Chances(i)
      BY <1>1, <2>1 DEF Chances
    <3>2. Chances(i)' \subseteq (Chances(i) \ {Nobody}) \cup {t}
      BY <1>1, RecurringAssumption DEF Chances, Chance, RecurringAssumption
    <3>. QED  BY <1>1, <3>1, <3>2, ChanceChangesHands DEF IInv
  <2>2. CASE i # row.occurrence
    <3>1. Chances(i)' \subseteq Chances(i)
      BY <1>1, <2>2 DEF Chances, Chance
    <3>. QED  BY <1>1, <3>1, FewerChances DEF IInv
  <2>. QED  BY <2>1, <2>2
<1>3. faults <= faults'
  BY <1>1, RecurringAssumption DEF IInv, TypeOK, RecurringAssumption
<1>. QED  BY <1>2, <1>3, NoneMore DEF IInv

LEMMA BeginExtra ==
  ASSUME IInv, TypeOK', ExtraInv, NEW t \in Tick,
         AlwaysStart(t) \/ SkipIfRunning(t) \/ CancelAndRestart(t) \/ StartExecution(t)
  PROVE  ExtraInv'
<1>1. Chance(t) /\ UNCHANGED <<row, faults>>
  BY DEF AlwaysStart, SkipIfRunning, CancelAndRestart, StartExecution, At, Chance, faulty
<1>2. /\ \A u \in Tick \ {t} : ticks'[u] = ticks[u]
      /\ ticks'[t].occurrence = ticks[t].occurrence
  BY DEF AlwaysStart, SkipIfRunning, CancelAndRestart, StartExecution, Become, IInv, TypeOK, TickRecord
<1>3. \A i \in Occurrence : executions'[i].runs = executions[i].runs
  BY DEF AlwaysStart, SkipIfRunning, CancelAndRestart, StartExecution, IInv, TypeOK, Execution
<1>. QED  BY <1>1, <1>2, <1>3, TickGoesOn DEF IInv, Phase

LEMMA RunExtra ==
  ASSUME IInv, TypeOK', ExtraInv, NEW t \in Tick, CreateExecution(t) \/ ResetExecution(t)
  PROVE  ExtraInv'
<1>1. /\ Chance(t) /\ ~Chance(t)' /\ UNCHANGED <<row, faults>>
      /\ \A u \in Tick \ {t} : ticks'[u] = ticks[u]
  BY DEF CreateExecution, ResetExecution, Become, At, Chance, faulty, IInv, TypeOK, TickRecord
<1>2. PICK j \in Occurrence : j = ticks[t].occurrence
  BY DEF IInv, TypeOK, TickRecord
<1>3. \A i \in Occurrence : IF i = j THEN executions'[i].runs <= executions[i].runs + 1
                                     ELSE executions'[i].runs = executions[i].runs
  BY <1>2 DEF CreateExecution, ResetExecution, WithRun, IInv, TypeOK, Execution
<1>4. ASSUME NEW i \in Occurrence PROVE IsFiniteSet(Chances(i))' /\ Count(i)' <= Count(i)
  <2>1. Chances(i)' \subseteq Chances(i) \ {t}
    BY <1>1, RecurringAssumption DEF Chances, Chance, Waiting, RecurringAssumption
  <2>2. CASE i = j
    <3>1. t \in Chances(i)
      BY <1>1, <1>2, <2>2 DEF Chances
    <3>. QED  BY <1>3, <2>1, <2>2, <3>1, ChanceTaken DEF IInv
  <2>3. CASE i # j
    BY <1>3, <2>1, <2>3, FewerChances DEF IInv
  <2>. QED  BY <2>2, <2>3
<1>5. faults <= faults'
  BY <1>1, RecurringAssumption DEF IInv, TypeOK, RecurringAssumption
<1>. QED  BY <1>4, <1>5, NoneMore DEF IInv

LEMMA FailedExtra ==
  ASSUME IInv, TypeOK', ExtraInv, NEW t \in Tick, Failed(t), faults <= faults'
  PROVE  ExtraInv'
<1>1. Waiting' => Waiting /\ row'.occurrence = row.occurrence
  BY DEF Failed, Waiting, IInv, TypeOK, Row
<1>. QED  BY <1>1, TickEnds DEF Failed, IInv

(* The row waits for the next occurrence, which nobody has begun, or again   *)
(* for the one whose tick has skipped it.                                    *)
LEMMA CompletionExtra ==
  ASSUME IInv, TypeOK', ExtraInv, stops = 0, NEW t \in Tick, RecurringCompletion(t) \/ Skipped(t)
  PROVE  ExtraInv'
<1>. USE RowFields DEF IInv, TypeOK
<1>1. PICK n \in Nat : Rescheduled(t, n) /\ (RecurringCompletion(t) => n = ticks[t].occurrence + 1)
                                       /\ (Skipped(t) => n = row.occurrence)
  <2>1. ticks[t].occurrence + 1 \in Nat /\ row.occurrence \in Nat
    BY RecurringAssumption DEF TickRecord, Occurrence, RecurringAssumption
  <2>2. CASE RecurringCompletion(t)
    BY <2>1, <2>2 DEF RecurringCompletion, Skipped, Counted, At
  <2>3. CASE Skipped(t)
    BY <2>1, <2>3 DEF RecurringCompletion, Skipped, SkippedTo, At
  <2>. QED  BY <2>2, <2>3
<1>2. Ends(t) /\ UNCHANGED <<executions, faults>> /\ faults <= faults'
  BY <1>1, RecurringAssumption DEF Rescheduled, faulty, RecurringAssumption
<1>3. CASE Waiting' => Waiting /\ row'.occurrence = row.occurrence
  BY <1>2, <1>3, TickEnds
<1>4. CASE HoldsLock(t) /\ row'.status = "scheduled" /\ row'.occurrence = n /\ n \in Occurrence
  <2>1. /\ ticks[t].occurrence = row.occurrence /\ ~Waiting /\ row.occurrence \in Nat /\ n \in Nat
        /\ t # Nobody
    BY <1>4, RecurringAssumption DEF HolderIsCurrent, HoldsLock, Waiting, Row, Occurrence,
                                     RecurringAssumption
  <2>2. \A i \in Occurrence : i # n => Chances(i)' \subseteq Chances(i)
    BY <1>2, <1>4 DEF Chances, Chance, Ends, IdleTick
  <2>3. CASE RecurringCompletion(t)
    <3>1. n = row.occurrence + 1
      BY <1>1, <2>1, <2>3
    <3>2. executions'[n].runs = 0
      BY <1>2, <1>4, <2>1, <3>1 DEF CounterInv, Execution
    <3>3. Chances(n)' \subseteq {Nobody}
      <4>1. ASSUME NEW u \in Tick, Chance(u)' PROVE ticks'[u].occurrence # n
        <5>1. ticks'[u] = ticks[u] /\ ~At(u, "idle")
          BY <1>2, <4>1 DEF Ends, IdleTick, Chance, At
        <5>2. ticks[u].occurrence <= row.occurrence /\ ticks[u].occurrence \in Nat
          BY <5>1 DEF CounterInv, TickRecord, Occurrence
        <5>. QED  BY <2>1, <3>1, <5>1, <5>2
      <4>. QED  BY <4>1 DEF Chances
    <3>4. IsFiniteSet(Chances(n))' /\ Count(n)' <= 1
      BY <1>4, <3>2, <3>3, FirstChance
    <3>5. \A i \in Occurrence : i # n => IsFiniteSet(Chances(i))' /\ Count(i)' <= Count(i)
      BY <1>2, <2>2, FewerChances
    <3>. QED  BY <1>2, <3>4, <3>5, NoneMore
  <2>4. CASE Skipped(t)
    <3>1. n = ticks[t].occurrence /\ t \in Chances(n)
      BY <1>1, <2>1, <2>4 DEF Skipped, At, Chances, Chance
    <3>2. Chances(n)' \subseteq (Chances(n) \ {t}) \cup {Nobody}
      BY <1>2 DEF Chances, Chance, Ends, IdleTick
    <3>3. IsFiniteSet(Chances(n))' /\ Count(n)' <= Count(n)
      BY <1>2, <1>4, <3>1, <3>2, ChanceChangesHands
    <3>4. \A i \in Occurrence : i # n => IsFiniteSet(Chances(i))' /\ Count(i)' <= Count(i)
      BY <1>2, <2>2, FewerChances
    <3>. QED  BY <1>2, <3>3, <3>4, NoneMore
  <2>. QED  BY <2>3, <2>4
<1>5. CASE HoldsLock(t) /\ row'.status = "completed"
  BY <1>2, <1>3, <1>5 DEF Waiting, Row
<1>. QED  BY <1>1, <1>3, <1>4, <1>5, RescheduledRow DEF Waiting, Row

(* A crash and a lapse make a chance for the row's occurrence.               *)
LEMMA FaultExtra ==
  ASSUME IInv, TypeOK', ExtraInv, Lapse \/ \E t \in Tick : Crash(t)
  PROVE  ExtraInv'
<1>1. UNCHANGED executions /\ faults' = faults + 1 /\ row'.occurrence = row.occurrence
  BY DEF Lapse, Crash, Fault, IInv, TypeOK, Row
<1>2. \A u \in Tick : Chance(u)' => Chance(u) /\ ticks'[u].occurrence = ticks[u].occurrence
  BY DEF Lapse, Crash, Ends, IdleTick, Chance, IInv, TypeOK
<1>3. PICK j \in Occurrence : j = row.occurrence
  BY RowFields DEF IInv, TypeOK
<1>4. ASSUME NEW i \in Occurrence
      PROVE  /\ IsFiniteSet(Chances(i))'
             /\ Count(i)' <= Count(i) \/ (i = j /\ Count(i)' <= Count(i) + 1)
  <2>1. CASE i = j
    <3>1. Chances(i)' \subseteq Chances(i) \cup {Nobody}
      BY <1>2 DEF Chances
    <3>. QED  BY <1>1, <2>1, <3>1, ChanceMore DEF IInv
  <2>2. CASE i # j
    <3>1. Chances(i)' \subseteq Chances(i)
      BY <1>1, <1>2, <1>3, <2>2 DEF Chances
    <3>. QED  BY <1>1, <3>1, FewerChances DEF IInv
  <2>. QED  BY <2>1, <2>2
<1>. QED  BY <1>1, <1>4, OneMore DEF IInv

LEMMA OthersExtra ==
  ASSUME IInv, TypeOK', ExtraInv, Recover \/ \E i \in Occurrence : ExecutionEnds(i)
  PROVE  ExtraInv'
<1>1. faults <= faults' /\ UNCHANGED ticks
  BY RecurringAssumption DEF Recover, ExecutionEnds, faulty, IInv, TypeOK, RecurringAssumption
<1>2. Waiting' => Waiting /\ row'.occurrence = row.occurrence
  BY DEF Recover, ExecutionEnds, Waiting, IInv, TypeOK, Row
<1>3. \A i \in Occurrence : executions'[i].runs = executions[i].runs
  BY DEF Recover, ExecutionEnds, IInv, TypeOK, Execution
<1>. QED  BY <1>1, <1>2, <1>3, QuietExtra DEF IInv, Chance

LEMMA ExtraStep ==
  ASSUME IInv, TypeOK', Next, ExtraInv, Blank, stops = 0, stops' = 0
  PROVE  ExtraInv'
<1>1. ASSUME NEW t \in Tick, ResetRefused(t) \/ TickFails(t) PROVE ExtraInv'
  <2>1. Failed(t) /\ faults <= faults'
    BY <1>1, RecurringAssumption
       DEF ResetRefused, TickFails, Fault, faulty, IInv, TypeOK, RecurringAssumption
  <2>. QED  BY <2>1, FailedExtra
<1>2. ~StopRecurring
  BY DEF StopRecurring
<1>. QED
  BY <1>1, <1>2, SeedExtra, PickUpExtra, BeginExtra, RunExtra, CompletionExtra, FaultExtra,
     OthersExtra DEF Next, Execute

(* A row that is not there was never there.                                 *)
LEMMA BlankStep ==
  ASSUME IInv, TypeOK', Next, Blank, stops = 0, stops' = 0
  PROVE  Blank'
<1>. SUFFICES ASSUME row'.status = "absent"
              PROVE  /\ \A i \in Occurrence : executions'[i].runs = 0
                     /\ \A t \in Tick : At(t, "idle")'
  BY DEF Blank
<1>1. row.status = "absent"
  BY RowMoves
<1>2. /\ \A i \in Occurrence : executions[i].runs = 0
      /\ \A t \in Tick : At(t, "idle")
  BY <1>1 DEF Blank
<1>3. ASSUME NEW i \in Occurrence PROVE executions'[i].runs = 0
  BY <1>2, NewRuns DEF At
<1>4. ASSUME NEW t \in Tick, ~At(t, "idle")' PROVE FALSE
  <2>1. row'.holder = t
    BY <1>2, <1>4, NewTicks
  <2>. QED  BY <2>1, RecurringAssumption DEF TypeOK, Row, RecurringAssumption
<1>. QED  BY <1>3, <1>4

LEMMA ChanceInit == Init => ChanceInv
<1>. SUFFICES ASSUME Init PROVE ExtraInv /\ Blank
  BY DEF ChanceInv
<1>1. /\ \A t \in Tick : ticks[t].phase = "idle"
      /\ \A i \in Occurrence : executions[i].runs = 0
      /\ row.status = "absent" /\ row.holder = Nobody /\ faults = 0
  BY DEF Init, IdleTick, Absent
<1>2. \A i \in Occurrence : Chances(i) = {}
  BY <1>1 DEF Chances, Chance, Waiting
<1>3. \A i \in Occurrence : IsFiniteSet(Chances(i)) /\ Count(i) = 0
  <2>. TAKE i \in Occurrence
  <2>1. IsFiniteSet(Chances(i)) /\ Cardinality(Chances(i)) = 0
    BY <1>2, FS_EmptySet
  <2>. QED  BY <1>1, <2>1 DEF Count
<1>4. Extra = {}
  BY <1>3 DEF Extra
<1>. QED  BY <1>1, <1>3, <1>4, FS_EmptySet DEF ExtraInv, Blank, At

LEMMA ChanceStep == IInv /\ ChanceInv /\ [Next]_vars => ChanceInv'
<1>1. ASSUME IInv, ChanceInv, Next PROVE ChanceInv'
  <2>1. TypeOK'
    BY <1>1, StepType DEF IInv
  <2>2. stops' = 0 => stops = 0
    BY <1>1, FlagsStay
  <2>. QED  BY <1>1, <2>1, <2>2, ExtraStep, BlankStep DEF ChanceInv
<1>2. ASSUME ChanceInv, UNCHANGED vars PROVE ChanceInv'
  BY <1>2 DEF ChanceInv, ExtraInv, Extra, Count, Chances, Chance, Waiting, Blank, At, vars, faulty
<1>. QED  BY <1>1, <1>2

(* Each run an occurrence has beyond its first is paid for by a fault of its  *)
(* own, under every policy, unless the task was stopped and seeded again.     *)
THEOREM RunsAgainCorrect == Spec => []RunsAgainAfterFaults
<1>1. IInv /\ ChanceInv => RunsAgainAfterFaults
  <2>. SUFFICES ASSUME IInv, ExtraInv PROVE Cardinality(ExtraRuns) <= faults
    BY DEF ChanceInv, RunsAgainAfterFaults
  <2>1. ASSUME NEW i \in Occurrence PROVE executions[i].runs <= Count(i) /\ executions[i].runs \in Nat /\ Count(i) \in Nat
    <3>1. executions[i].runs \in Nat /\ Cardinality(Chances(i)) \in Nat
      BY FS_CardinalityType DEF IInv, TypeOK, Execution, ExtraInv
    <3>. QED  BY <3>1 DEF Count
  <2>2. ExtraRuns \subseteq Extra
    <3>1. \A n \in 2..(MaxFaults + 1) : n \in Nat \ {0, 1}
      BY RecurringAssumption DEF RecurringAssumption
    <3>. QED  BY <2>1, <3>1 DEF ExtraRuns, Extra
  <2>3. Cardinality(ExtraRuns) <= Cardinality(Extra) /\ IsFiniteSet(ExtraRuns)
    BY <2>2, FS_Subset DEF ExtraInv
  <2>4. Cardinality(ExtraRuns) \in Nat /\ Cardinality(Extra) \in Nat /\ faults \in Nat
    BY <2>3, FS_CardinalityType, RecurringAssumption DEF ExtraInv, IInv, TypeOK, RecurringAssumption
  <2>. QED  BY <2>3, <2>4 DEF ExtraInv
<1>. QED  BY <1>1, InitIInv, StepIInv, ChanceInit, ChanceStep, PTL DEF Spec

=============================================================================
