------------------------- MODULE DurableRefinement -------------------------
(***************************************************************************)
(* A run of a DurableExecution implements Workflow: the first one always,   *)
(* the later ones as long as no body of another run ends while they are     *)
(* current (complete_execution acts on the run that is current when a body  *)
(* ends, which may be a later one than the body's own), and so if they begin*)
(* when the run before them has come to rest.                               *)
(***************************************************************************)
EXTENDS DurableExecution

W(n) == INSTANCE Workflow WITH
          Fatal <- Required,
          MayErr <- Fallible,
          MayHang <- {ItemOf(s) : s \in MayDie},
          Inherited <- IF n = 0 THEN {} ELSE Preservable,
          status <- runs[n],
          results <- [i \in Item |-> ResultOf(n, i)]

(* The first run by itself, which has nothing to begin with.                *)
FirstRun == INSTANCE Workflow WITH
            Fatal <- Required,
            MayErr <- Fallible,
            MayHang <- {ItemOf(s) : s \in MayDie},
            Inherited <- {},
            status <- runs[0],
            results <- [i \in Item |-> ResultOf(0, i)]

(* Results are recorded once each and in the order of the body, a run is     *)
(* completed only when the body has them all, and a cancelled run stays so   *)
(* while no wait of it is retried, under every interleaving of replays,      *)
(* steps, retries, lost leases and crashes.                                  *)
ImplementsWorkflow == FirstRun!Spec

(* Only its own body completes run n.                                       *)
NoLateBody(n) == \A d \in dispatches : d.phase = "finishing" /\ current = n => RunOf(d) = n

(* No run goes on: nothing is dispatched or can be, no call is about to      *)
(* schedule the body of a run it has reset, no event is waited for that a     *)
(* delivery in flight could still give a run, and no step is or was dead that *)
(* a retry in flight could still schedule.                                    *)
CanRun(t) ==
  tasks[t].status = "picked_up" \/ (tasks[t].status = "scheduled" /\ ~NeverDue(t))

Drained ==
  /\ dispatches = {}
  /\ \A t \in TaskId : ~CanRun(t)
  /\ \A c \in Client : calls[c].phase # "scheduling"
  /\ \A n \in Run : \A i \in Events : steps[n][Of(i)] # "scheduled"
  /\ \A n \in Run, s \in Name : steps[n][s] # "dead"
  /\ \A n \in Run, s \in MayDie : tasks[RetryTask(n, s)] = Absent

(* A start, restart or rerun waits until the run before it has come to rest. *)
BeginsDrained(n) == [][current' = n /\ current # n => Drained]_vars

=============================================================================
