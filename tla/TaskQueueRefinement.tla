------------------------ MODULE TaskQueueRefinement ------------------------
(***************************************************************************)
(* TaskQueue implements LeasedJobs: polls, heartbeats, permits, errors,    *)
(* crashes and time only ever take, lapse, conclude or forget jobs.        *)
(***************************************************************************)
EXTENDS TaskQueue

StateOf(s) == CASE s = "absent"    -> "none"
                [] s = "scheduled" -> "open"
                [] s = "picked_up" -> "taken"
                [] OTHER           -> "closed"

JobOf(r) == [state |-> StateOf(r.status), due |-> r.execution_time, holder |-> r.worker_id]

Jobs == INSTANCE LeasedJobs WITH
          Job <- Task, Handle <- Token, NoHandle <- NoToken, DueTime <- Time,
          job <- [t \in Task |-> JobOf(tasks[t])],
          claims <- {<<k, dispatch[k].task>> : k \in {j \in Token : dispatch[j] # Free}}

(* The queue keeps the promise of LeasedJobs: whatever happens to workers,   *)
(* a job is never lost, never taken under two handles, and concluded only    *)
(* by the process that holds it.                                             *)
ImplementsLeasedJobs == Jobs!JobSpec

=============================================================================
