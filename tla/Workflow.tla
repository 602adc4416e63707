------------------------------ MODULE Workflow ------------------------------
(***************************************************************************)
(* What one run of a durable execution promises: the items of the handler's*)
(* body get their results once each and in order, on one branch, and the   *)
(* run ends.  A rerun may begin with results that an earlier run has left.  *)
(***************************************************************************)
EXTENDS Naturals

CONSTANTS
  Length,       \* items 1..Length
  Fatal,        \* items whose error ends the body
  MayErr,       \* items that may get an error for a result
  Decider,      \* item on whose result the body branches, or 0
  IfOk, IfErr,  \* items it only comes to by that result
  MayHang,      \* items that may get no result unless they are retried
  Inherited,    \* items that may have their results from an earlier run
  CanRecover    \* whether on_failure may turn a failure into a result

VARIABLES status, results

Item == 1..Length

Init == status = "none" /\ results = [i \in Item |-> "none"]

Result(i) == IF i \in MayErr THEN {"ok", "err"} ELSE {"ok"}

Begin ==
  /\ status = "none"
  /\ status' = "scheduled"
  /\ results' \in [Item -> {"none", "ok", "err"}]
  /\ \A i \in Item : results'[i] # "none" => i \in Inherited /\ results'[i] \in Result(i)

OnBranch(i) == (i \in IfOk => results[Decider] = "ok") /\ (i \in IfErr => results[Decider] = "err")
GoesOn(i) == OnBranch(i) => results[i] = "ok" \/ (results[i] = "err" /\ i \notin Fatal)

(* The next result.  It may still come in when the run has been cancelled or *)
(* has failed: what is in flight is not called back.                         *)
Record(i) ==
  /\ status # "none" /\ results[i] = "none" /\ OnBranch(i)
  /\ \A j \in 1..(i - 1) : GoesOn(j)
  /\ \E r \in Result(i) : results' = [results EXCEPT ![i] = r]
  /\ UNCHANGED status

Open == status \notin {"none", "cancelled"}

(* Only a body that has every result, or on_failure, completes a run.        *)
Complete ==
  /\ Open
  /\ CanRecover \/ \A i \in Item : GoesOn(i)
  /\ status' = "completed"
  /\ UNCHANGED results

(* A stale dispatch may fail a run that others complete, in either order.    *)
Fail == Open /\ status' = "failed" /\ UNCHANGED results

Cancel == status \in {"scheduled", "running"} /\ status' = "cancelled" /\ UNCHANGED results

(* Retrying an item that hangs opens the run again, whatever it had come to. *)
Retry ==
  /\ status # "none" /\ \E i \in MayHang : results[i] = "none"
  /\ status' = "running"
  /\ UNCHANGED results

Next ==
  \/ Begin \/ Complete \/ Fail \/ Cancel \/ Retry
  \/ \E i \in Item : Record(i)

Spec == Init /\ [][Next]_<<status, results>>

=============================================================================
