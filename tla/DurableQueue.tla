---------------------------- MODULE DurableQueue ----------------------------
(***************************************************************************)
(* The engine and the queue, which are two crates: what DurableExecution    *)
(* does to the rows of its tasks is what LeasedJobs, the promise that        *)
(* TaskQueue is shown to keep, allows a queue and its callers to do.        *)
(*                                                                         *)
(* Rows here have no lock token.  The n-th time a task is fetched is a       *)
(* handle, <<task, n>>, and attempt has that n.                             *)
(***************************************************************************)
EXTENDS DurableExecution

NoLease == <<StartTask(0), 0>>
Lease == TaskId \X (1..MaxAttempt)
LeaseOf(d) == <<d.task, d.attempt>>

StateOf(s) == CASE s = "absent"    -> "none"
                [] s = "scheduled" -> "open"
                [] s = "picked_up" -> "taken"
                [] OTHER           -> "closed"

(* All that matters of the time a task is due at is whether it ever comes,   *)
(* and that is in its name (NeverDue).                                      *)
JobOf(t) == [state |-> StateOf(tasks[t].status), due |-> 0,
             holder |-> IF tasks[t].status = "picked_up" THEN <<t, tasks[t].attempt>> ELSE NoLease]

Jobs == INSTANCE LeasedJobs WITH
          Job <- TaskId, Handle <- Lease, NoHandle <- NoLease, DueTime <- {0},
          job <- [t \in TaskId |-> JobOf(t)],
          claims <- {<<LeaseOf(d), d.task>> : d \in dispatches}

(* A task of the engine is fetched by one dispatch at a time, only the        *)
(* dispatch that holds it settles or reschedules it, the tasks that follow    *)
(* are inserted in that same transaction, and no settled task comes back,     *)
(* whatever replays, retries, cancels, lost leases and crashes do.           *)
KeepsToLeasedJobs == Jobs!JobSpec

(* A dispatch whose lease was taken back never finds itself the holder again, *)
(* though its task is retried, fetched and given back in the meantime: it     *)
(* can neither complete the step, nor retry it, nor fail its task.            *)
StaleStaysStale ==
  [][\A d \in dispatches, e \in dispatches' :
       LeaseOf(e) = LeaseOf(d) /\ ~HoldsLock(d) => ~HoldsLock(e)']_vars

=============================================================================
