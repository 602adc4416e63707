------------------------- MODULE RecurringExecutions -------------------------
(***************************************************************************)
(* A recurring durable execution: the recurring task that                   *)
(* register_recurring_durable seeds, the ticks that workers dispatch from   *)
(* it, and the executions these start under the overlap policy.             *)
(*                                                                         *)
(* TaskQueue has the leases in detail.  Here a lease may lapse at any time, *)
(* and what start does in ExecutionCalls is a read and a write.             *)
(***************************************************************************)
EXTENDS Naturals, FiniteSets

CONSTANTS
  Tick,            \* room for dispatches of the recurring task
  MaxOccurrence,   \* bound: the schedule has no occurrence beyond it
  MaxFaults,       \* bound on crashes, errors and lapsed leases
  MaxStops         \* bound on calls of stop_recurring

Nobody == "nobody"    \* worker_id IS NULL
Gone == "gone"        \* the lock of a process that died

ASSUME RecurringAssumption ==
  /\ MaxOccurrence \in Nat /\ MaxFaults \in Nat /\ MaxStops \in Nat
  /\ Nobody \notin Tick /\ Gone \notin Tick

Occurrence == 0..MaxOccurrence

VARIABLES
  overlap,      \* the policy; does not change
  row,          \* the recurring task, with the occurrence in its metadata
  ticks,        \* ticks[t]: a dispatch of it
  executions,   \* executions[i]: the execution whose id has occurrence i
  faults, lapsed, stops

vars == <<overlap, row, ticks, executions, faults, lapsed, stops>>
faulty == <<faults, lapsed, stops>>

-----------------------------------------------------------------------------

OverlapPolicy == {"SkipIfRunning", "CancelAndRestart", "AlwaysStart"}

Row == {r \in [status : {"absent", "scheduled", "picked_up", "completed", "failed"},
               holder : Tick \cup {Nobody, Gone}, occurrence : Occurrence] :
          r.status = "picked_up" <=> r.holder # Nobody}
Absent == [status |-> "absent", holder |-> Nobody, occurrence |-> 0]

Execution == [status : {"none", "running", "ended"}, runs : Nat]

Phase == {"idle", "fetched", "starting", "creating", "resetting", "skipping", "started"}
TickRecord == [phase : Phase, occurrence : Occurrence, seen : Nat]
IdleTick == [phase |-> "idle", occurrence |-> 0, seen |-> 0]

TypeOK ==
  /\ overlap \in OverlapPolicy
  /\ row \in Row
  /\ ticks \in [Tick -> TickRecord]
  /\ executions \in [Occurrence -> Execution]
  /\ faults \in 0..MaxFaults /\ lapsed \in BOOLEAN /\ stops \in 0..MaxStops

At(t, phase) == ticks[t].phase = phase
Become(t, phase) == ticks' = [ticks EXCEPT ![t].phase = phase]
Ends(t) == ticks' = [ticks EXCEPT ![t] = IdleTick]

RowThere(t) == row.status # "absent"
HoldsLock(t) == row.holder = t

Running(i) == executions[i].status = "running"
Started == {i \in Occurrence : executions[i].runs > 0}

(* The execution that overlaps: that of the last tick that was counted.      *)
ThisOccurrence(i) == i
LastOccurrence(i) == i - 1

-----------------------------------------------------------------------------
(* The recurring task.                                                      *)

(* Every start of a worker seeds it, which does nothing if it is there.      *)
Seed ==
  /\ row.status = "absent"
  /\ row' = [Absent EXCEPT !.status = "scheduled"]
  /\ UNCHANGED <<overlap, ticks, executions, faulty>>

(* delete_task, whoever holds the row.                                      *)
StopRecurring ==
  /\ row.status # "absent" /\ stops < MaxStops
  /\ row' = Absent
  /\ stops' = stops + 1
  /\ UNCHANGED <<overlap, ticks, executions, faults, lapsed>>

PickUp(t) ==
  /\ At(t, "idle") /\ row.status = "scheduled"
  /\ row' = [row EXCEPT !.status = "picked_up", !.holder = t]
  /\ ticks' = [ticks EXCEPT ![t] = [IdleTick EXCEPT !.phase = "fetched",
                                                   !.occurrence = row.occurrence]]
  /\ UNCHANGED <<overlap, executions, faulty>>

-----------------------------------------------------------------------------
(* RecurringDurableTask::execute.                                           *)

AlwaysStart(t) ==
  /\ At(t, "fetched") /\ overlap = "AlwaysStart"
  /\ Become(t, "starting")
  /\ UNCHANGED <<overlap, row, executions, faulty>>

SkipIfRunning(t) ==
  /\ At(t, "fetched") /\ overlap = "SkipIfRunning"
  /\ LET i == ticks[t].occurrence
     IN  Become(t, IF i > 0 /\ Running(LastOccurrence(i)) THEN "skipping" ELSE "starting")
  /\ UNCHANGED <<overlap, row, executions, faulty>>

CancelAndRestart(t) ==
  /\ At(t, "fetched") /\ overlap = "CancelAndRestart"
  /\ LET i == ticks[t].occurrence
     IN  executions' = IF i > 0 /\ Running(LastOccurrence(i))
                       THEN [executions EXCEPT ![LastOccurrence(i)].status = "ended"]
                       ELSE executions
  /\ Become(t, "starting")
  /\ UNCHANGED <<overlap, row, faulty>>

(* start reads the execution.  ExecutionAlreadyExists counts as started.     *)
StartExecution(t) ==
  /\ At(t, "starting")
  /\ LET e == executions[ticks[t].occurrence]
     IN  ticks' = [ticks EXCEPT ![t].seen = e.runs, ![t].phase =
           CASE e.status = "none" -> "creating"
             [] e.status = "running" -> "started"
             [] e.status = "ended" -> "resetting"]
  /\ UNCHANGED <<overlap, row, executions, faulty>>

WithRun(i) == [executions EXCEPT ![i].status = "running", ![i].runs = @ + 1]

(* ON CONFLICT DO NOTHING.                                                  *)
CreateExecution(t) ==
  /\ At(t, "creating")
  /\ executions' = IF executions[ticks[t].occurrence].status = "none"
                   THEN WithRun(ticks[t].occurrence) ELSE executions
  /\ Become(t, "started")
  /\ UNCHANGED <<overlap, row, faulty>>

(* An execution that has ended gets a new run; so does one that somebody     *)
(* else has reset meanwhile.                                                *)
ResetExecution(t) ==
  /\ At(t, "resetting")
  /\ executions' = WithRun(ticks[t].occurrence)
  /\ Become(t, "started")
  /\ UNCHANGED <<overlap, row, faulty>>

(* An error of the handler: the worker's mark_failed is for ever.            *)
Failed(t) ==
  /\ row' = IF HoldsLock(t) THEN [row EXCEPT !.status = "failed", !.holder = Nobody] ELSE row
  /\ Ends(t)
  /\ UNCHANGED <<overlap, executions>>

(* Two resets at once give the run the same number, which is the primary key.*)
ResetRefused(t) ==
  /\ At(t, "resetting") /\ executions[ticks[t].occurrence].runs # ticks[t].seen
  /\ Failed(t)
  /\ UNCHANGED faulty

-----------------------------------------------------------------------------
(* Completion.                                                              *)

(* metadata || {"occurrence": next}.                                        *)
Uncounted(i) == i
Counted(i) == i + 1

(* OnComplete: the next time, or the end of the schedule, to which the       *)
(* counter is no matter.                                                    *)
Rescheduled(t, next) ==
  /\ IF ~HoldsLock(t) THEN UNCHANGED row
     ELSE IF next <= MaxOccurrence
     THEN row' = [status |-> "scheduled", holder |-> Nobody, occurrence |-> next]
     ELSE row' = [row EXCEPT !.status = "completed", !.holder = Nobody]
  /\ Ends(t)
  /\ UNCHANGED <<overlap, executions, faulty>>

RecurringCompletion(t) ==
  /\ At(t, "started")
  /\ Rescheduled(t, Counted(ticks[t].occurrence))

SkippedCounts(i) == i + 1
SkippedTo(i) == i

(* OnComplete::done() leaves the metadata alone.                            *)
Skipped(t) ==
  /\ At(t, "skipping")
  /\ Rescheduled(t, SkippedTo(row.occurrence))

-----------------------------------------------------------------------------
(* Executions, and faults.                                                  *)

ExecutionEnds(i) ==
  /\ Running(i)
  /\ executions' = [executions EXCEPT ![i].status = "ended"]
  /\ UNCHANGED <<overlap, row, ticks, faulty>>

Fault == faults < MaxFaults /\ faults' = faults + 1

TickFails(t) ==
  /\ ~At(t, "idle") /\ Fault
  /\ Failed(t)
  /\ UNCHANGED <<lapsed, stops>>

Crash(t) ==
  /\ ~At(t, "idle") /\ Fault
  /\ row' = IF HoldsLock(t) THEN [row EXCEPT !.holder = Gone] ELSE row
  /\ Ends(t)
  /\ UNCHANGED <<overlap, executions, lapsed, stops>>

Lapse ==
  /\ row.holder \in Tick /\ Fault
  /\ row' = [row EXCEPT !.status = "scheduled", !.holder = Nobody]
  /\ lapsed' = TRUE
  /\ UNCHANGED <<overlap, ticks, executions, stops>>

Recover ==
  /\ row.holder = Gone
  /\ row' = [row EXCEPT !.status = "scheduled", !.holder = Nobody]
  /\ UNCHANGED <<overlap, ticks, executions, faulty>>

-----------------------------------------------------------------------------

Init ==
  /\ overlap \in OverlapPolicy
  /\ row = Absent
  /\ ticks = [t \in Tick |-> IdleTick]
  /\ executions = [i \in Occurrence |-> [status |-> "none", runs |-> 0]]
  /\ faults = 0 /\ lapsed = FALSE /\ stops = 0

Execute(t) ==
  \/ AlwaysStart(t) \/ SkipIfRunning(t) \/ CancelAndRestart(t)
  \/ StartExecution(t) \/ CreateExecution(t) \/ ResetExecution(t) \/ ResetRefused(t)
  \/ RecurringCompletion(t) \/ Skipped(t)

Next ==
  \/ Seed \/ StopRecurring
  \/ \E t \in Tick : PickUp(t) \/ Execute(t) \/ TickFails(t) \/ Crash(t)
  \/ \E i \in Occurrence : ExecutionEnds(i)
  \/ Lapse \/ Recover

Spec == Init /\ [][Next]_vars

-----------------------------------------------------------------------------

(* No two executions run at once under SkipIfRunning and CancelAndRestart,   *)
(* though only the last one is looked at and ticks crash between starting    *)
(* and counting; unless a lease has lapsed under its tick, or the task was   *)
(* stopped and seeded again, when it begins with occurrence 0.               *)
NoOverlap ==
  overlap # "AlwaysStart" /\ ~lapsed /\ stops = 0 =>
    Cardinality({i \in Occurrence : Running(i)}) <= 1

(* The counter never passes an occurrence that was not started, and is at    *)
(* most one behind those that were, whatever crashes, as long as the task is *)
(* not stopped.                                                             *)
CounterOneBehind ==
  row.status # "absent" =>
    /\ 0..(row.occurrence - 1) \subseteq Started
    /\ stops = 0 => Started \subseteq 0..row.occurrence

(* A crash, an error or a lapsed lease makes at most one run too many, and   *)
(* nothing else makes any, unless the task was stopped.                      *)
ExtraRuns == {e \in Occurrence \X (2..(MaxFaults + 1)) : e[2] <= executions[e[1]].runs}
RunsAgainAfterFaults == stops = 0 => Cardinality(ExtraRuns) <= faults

=============================================================================
