------------------------- MODULE ExecutionCalls_proofs -------------------------
(***************************************************************************)
(* Proofs about ExecutionCalls and PauseRules for every number of callers,  *)
(* runs, steps, rules and operators, and every timing.                      *)
(***************************************************************************)
EXTENDS ExecutionCalls, FiniteSetTheorems, TLAPS

-----------------------------------------------------------------------------
(* Pause rules.                                                             *)

(* The rules an operator has listed are known; those it has tried are not     *)
(* active; and what it deleted is deleted.                                   *)
RulesInv ==
  /\ RulesTypeOK
  /\ ResumesAccountForRules
  /\ \A o \in Operator :
       /\ asked[o].phase = "idle" => asked[o] = NotAsked
       /\ \A r \in asked[o].listed : Known(r)
       /\ asked[o].phase = "deleting" =>
            \A r \in asked[o].listed \ asked[o].left : rules[r].state = "deleted"

LEMMA RulesBegin == RulesInit \/ RulesUnused => RulesInv
<1>1. ASSUME RulesUnused PROVE RulesInv
  BY <1>1 DEF RulesUnused, RulesInv, RulesTypeOK, ResumesAccountForRules, NoRule, NotAsked, AskedDone,
     RuleRow, Asked, Scope, Active, Known
<1>2. ASSUME RulesInit PROVE RulesInv
  <2>. DEFINE First == [state : {"active"}, scope : {{}, {"execution_id"}, {"task_name"}},
                        expired : {FALSE}]
  <2>a. NoRule \in RuleRow /\ NoRule.state # "deleted"
    BY DEF NoRule, RuleRow, Scope
  <2>b. ASSUME NEW x \in First PROVE x \in RuleRow /\ x.state # "deleted"
    <3>1. x.scope \in Scope
      BY DEF Scope
    <3>. QED  BY <3>1 DEF RuleRow
  <2>c. rules \in [Rule -> {NoRule} \cup First]
    BY <1>2 DEF RulesInit
  <2>. HIDE DEF First
  <2>1. rules \in [Rule -> RuleRow]
    BY <2>a, <2>b, <2>c
  <2>2. \A r \in Rule : rules[r].state # "deleted"
    BY <2>a, <2>b, <2>c
  <2>3. asked \in [Operator -> Asked]
    BY <1>2 DEF RulesInit, NotAsked, Asked
  <2>4. \A o \in Operator : asked[o] = NotAsked
    BY <1>2 DEF RulesInit
  <2>. QED
    BY <2>1, <2>2, <2>3, <2>4 DEF RulesInv, RulesTypeOK, ResumesAccountForRules, NotAsked, Active
<1>. QED  BY <1>1, <1>2

LEMMA RulesStay == RulesInv /\ UNCHANGED ruleVars => RulesInv'
  BY DEF RulesInv, RulesTypeOK, ResumesAccountForRules, Active, Known, ruleVars

(* The parts of the invariant, as one step makes them: rules only go forward, *)
(* one operator's record changes.                                           *)
LEMMA RulesMove ==
  ASSUME RulesInv, NEW o \in Operator, NEW x \in Asked, Ask(o, x), rules' \in [Rule -> RuleRow],
         x.phase # "idle", \A r \in Rule : Known(r) => Known(r)',
         \A r \in Rule : rules[r].state = "deleted" => rules'[r].state = "deleted",
         \A r \in x.listed : Known(r)',
         x.phase = "deleting" => \A r \in x.listed \ x.left : rules'[r].state = "deleted",
         x.phase = "answered" /\ ~x.failed => \A r \in x.listed : rules'[r].state = "deleted",
         x.deleted = asked[o].deleted \cup
                       {r \in Rule : rules[r].state # "deleted" /\ rules'[r].state = "deleted"}
  PROVE  RulesInv'
<1>. USE DEF RulesInv, RulesTypeOK, Ask
<1>1. asked' \in [Operator -> Asked]
  OBVIOUS
<1>2. UNION {asked'[p].deleted : p \in Operator} = {r \in Rule : rules'[r].state = "deleted"}
  <2>1. \A p \in Operator \ {o} : asked'[p] = asked[p]
    OBVIOUS
  <2>2. asked'[o].deleted = asked[o].deleted \cup
          {r \in Rule : rules[r].state # "deleted" /\ rules'[r].state = "deleted"}
    OBVIOUS
  <2>. QED  BY <2>1, <2>2 DEF ResumesAccountForRules
<1>3. \A p, q \in Operator : p # q => asked'[p].deleted \cap asked'[q].deleted = {}
  BY DEF ResumesAccountForRules
<1>4. \A p \in Operator :
        asked'[p].phase = "answered" /\ ~asked'[p].failed => asked'[p].listed \cap Active' = {}
  <2>1. \A p \in Operator : asked[p].phase = "answered" /\ ~asked[p].failed =>
          \A r \in asked[p].listed : rules[r].state = "deleted"
    BY DEF ResumesAccountForRules, Active, Known, Asked, RuleRow
  <2>. QED  BY <2>1 DEF Active, Asked
<1>5. \A p \in Operator :
       /\ asked'[p].phase = "idle" => asked'[p] = NotAsked
       /\ \A r \in asked'[p].listed : Known(r)'
       /\ asked'[p].phase = "deleting" =>
            \A r \in asked'[p].listed \ asked'[p].left : rules'[r].state = "deleted"
  BY DEF Asked
<1>. QED  BY <1>1, <1>2, <1>3, <1>4, <1>5 DEF ResumesAccountForRules

LEMMA RulesStep ==
  ASSUME RulesInv,
         \/ \E o \in Operator : \/ Pause(o) \/ PauseRefused(o) \/ Resume(o) \/ ResumeDeletes(o)
                                \/ ResumeReturns(o) \/ ResumeFails(o) \/ ResumeRuleById(o)
         \/ \E r \in Rule : Expire(r)
  PROVE  RulesInv'
<1>. DEFINE NewlyDeleted == {r \in Rule : rules[r].state # "deleted" /\ rules'[r].state = "deleted"}
<1>0. rules \in [Rule -> RuleRow] /\ asked \in [Operator -> Asked]
  BY DEF RulesInv, RulesTypeOK
<1>0a. ASSUME NEW o \in Operator, Idle(o) PROVE asked[o].deleted = {}
  <2>1. asked[o] = NotAsked
    BY <1>0a DEF RulesInv, Idle
  <2>2. NotAsked.deleted = {}
    BY DEF NotAsked
  <2>. QED  BY <2>1, <2>2
<1>1. ASSUME NEW o \in Operator, NEW x \in Asked, Ask(o, x), Idle(o), x.phase = "answered",
             x.listed = {}, x.deleted = {}, rules' \in [Rule -> RuleRow],
             \A r \in Rule : rules'[r] = rules[r] \/ (~Known(r) /\ Known(r)' /\ rules'[r].state # "deleted")
      PROVE  RulesInv'
  <2>1. asked[o].deleted = {} /\ NewlyDeleted = {}
    BY <1>1 DEF RulesInv, Idle, NotAsked
  <2>. QED  BY <1>1, <2>1, RulesMove DEF Known
<1>2. AskedDone \in Asked /\ AskedDone.phase = "answered" /\ AskedDone.listed = {} /\ AskedDone.deleted = {}
  BY DEF AskedDone, NotAsked, Asked
<1>3. ASSUME NEW o \in Operator, Pause(o) PROVE RulesInv'
  <2>1. PICK r \in Rule, scope \in Scope, expired \in BOOLEAN :
          rules[r].state = "absent" /\ rules' = Created(r, scope, expired)
    BY <1>3 DEF Pause
  <2>2. rules' \in [Rule -> RuleRow]
    BY <1>0, <2>1 DEF Created, RuleRow
  <2>3. \A q \in Rule : rules'[q] = rules[q] \/ (~Known(q) /\ Known(q)' /\ rules'[q].state # "deleted")
    BY <1>0, <2>1 DEF Created, Known
  <2>. QED  BY <1>1, <1>2, <1>3, <2>2, <2>3 DEF Pause
<1>4. ASSUME NEW o \in Operator, PauseRefused(o) PROVE RulesInv'
  BY <1>0, <1>1, <1>2, <1>4 DEF PauseRefused
<1>5. ASSUME NEW o \in Operator, Resume(o) PROVE RulesInv'
  <2>1. PICK scope \in Scope : Ask(o, [NotAsked EXCEPT !.phase = "deleting",
          !.listed = Listed(scope), !.left = Listed(scope)])
    BY <1>5 DEF Resume
  <2>. DEFINE x == [NotAsked EXCEPT !.phase = "deleting", !.listed = Listed(scope), !.left = Listed(scope)]
  <2>2. Listed(scope) \subseteq Active /\ Active \subseteq Rule
    BY DEF Listed, Active
  <2>3. /\ x \in Asked /\ x.phase = "deleting" /\ x.listed = Listed(scope) /\ x.left = Listed(scope)
        /\ x.deleted = {}
    BY <2>2 DEF NotAsked, Asked
  <2>4. asked[o].deleted = {} /\ NewlyDeleted = {} /\ UNCHANGED rules
    <3>1. asked[o].deleted = {}
      BY <1>0a, <1>5 DEF Resume
    <3>2. UNCHANGED rules
      BY <1>5 DEF Resume
    <3>. QED  BY <3>1, <3>2
  <2>5. \A r \in Listed(scope) : Known(r)
    BY <2>2 DEF Active, Known
  <2>. HIDE DEF x
  <2>6. Ask(o, x)
    BY <2>1 DEF x
  <2>. QED  BY <1>0, <2>3, <2>4, <2>5, <2>6, RulesMove DEF Known
<1>6. ASSUME NEW o \in Operator, ResumeDeletes(o) PROVE RulesInv'
  <2>1. PICK r \in asked[o].left :
          /\ rules' = Deleting(r)
          /\ Ask(o, [asked[o] EXCEPT !.left = @ \ {r},
                       !.deleted = IF Deletable(r) THEN @ \cup {r} ELSE @])
    BY <1>6 DEF ResumeDeletes
  <2>. DEFINE x == [asked[o] EXCEPT !.left = @ \ {r},
                       !.deleted = IF Deletable(r) THEN @ \cup {r} ELSE @]
  <2>2. r \in Rule /\ asked[o].phase = "deleting"
    BY <1>0, <1>6 DEF ResumeDeletes, Asked
  <2>3. /\ x \in Asked /\ x.phase = "deleting" /\ x.listed = asked[o].listed
        /\ x.left = asked[o].left \ {r}
        /\ x.deleted = IF Deletable(r) THEN asked[o].deleted \cup {r} ELSE asked[o].deleted
    BY <1>0, <2>2 DEF Asked
  <2>4. rules' \in [Rule -> RuleRow] /\ \A q \in Rule \ {r} : rules'[q] = rules[q]
    BY <1>0, <2>1 DEF Deleting, RuleRow
  <2>5. Known(r) => rules'[r].state = "deleted"
    BY <1>0, <2>1, <2>2 DEF Deleting, Deletable, Active, Known, RuleRow
  <2>6. rules[r].state = "deleted" => rules'[r].state = "deleted"
    BY <1>0, <2>1, <2>2 DEF Deleting, Deletable, Active
  <2>7. x.deleted = asked[o].deleted \cup NewlyDeleted
    <3>1. CASE Deletable(r)
      BY <1>0, <2>1, <2>2, <2>3, <2>4, <3>1 DEF Deleting, Deletable, Active
    <3>2. CASE ~Deletable(r)
      BY <2>1, <2>3, <3>2 DEF Deleting
    <3>. QED  BY <3>1, <3>2
  <2>8. \A q \in x.listed : Known(q)
    BY <2>3 DEF RulesInv
  <2>9. \A q \in Rule : Known(q) => Known(q)'
    BY <2>4, <2>5 DEF Known
  <2>10. \A q \in x.listed \ x.left : rules'[q].state = "deleted"
    <3>1. \A q \in asked[o].listed \ asked[o].left : rules[q].state = "deleted"
      BY <2>2 DEF RulesInv
    <3>2. asked[o].listed \subseteq Rule
      BY <1>0 DEF Asked
    <3>. QED  BY <2>3, <2>4, <2>5, <2>6, <2>8, <3>1, <3>2
  <2>11. \A q \in x.listed : Known(q)'
    BY <2>3, <2>8, <2>9, <1>0 DEF Asked
  <2>12. \A q \in Rule : rules[q].state = "deleted" => rules'[q].state = "deleted"
    BY <2>4, <2>6
  <2>13. Ask(o, x)
    BY <2>1
  <2>. HIDE DEF x
  <2>. QED  BY <2>3, <2>4, <2>7, <2>9, <2>10, <2>11, <2>12, <2>13, RulesMove
<1>7. ASSUME NEW o \in Operator, ResumeReturns(o) \/ ResumeFails(o) PROVE RulesInv'
  <2>1. UNCHANGED rules /\ asked[o].phase = "deleting"
    BY <1>7 DEF ResumeReturns, ResumeFails
  <2>2. PICK x \in Asked :
          /\ Ask(o, x) /\ x.phase = "answered" /\ x.listed = asked[o].listed
          /\ x.deleted = asked[o].deleted
          /\ (x.failed \/ asked[o].left = {})
    <3>1. CASE ResumeReturns(o)
      <4>. DEFINE x == [asked[o] EXCEPT !.phase = "answered"]
      <4>. x \in Asked /\ x.phase = "answered" /\ x.listed = asked[o].listed /\ x.deleted = asked[o].deleted
        BY <1>0 DEF Asked
      <4>. QED  BY <3>1 DEF ResumeReturns
    <3>2. CASE ResumeFails(o)
      <4>. DEFINE x == [asked[o] EXCEPT !.phase = "answered", !.failed = TRUE]
      <4>. /\ x \in Asked /\ x.phase = "answered" /\ x.listed = asked[o].listed
           /\ x.deleted = asked[o].deleted /\ x.failed
        BY <1>0 DEF Asked
      <4>. QED  BY <3>2 DEF ResumeFails
    <3>. QED  BY <1>7, <3>1, <3>2
  <2>3. NewlyDeleted = {}
    BY <2>1
  <2>4. \A r \in asked[o].listed : Known(r)
    BY DEF RulesInv
  <2>5. asked[o].left = {} => \A r \in asked[o].listed : rules[r].state = "deleted"
    BY <2>1 DEF RulesInv
  <2>. QED  BY <1>0, <2>1, <2>2, <2>3, <2>4, <2>5, RulesMove DEF Known
<1>8. ASSUME NEW o \in Operator, ResumeRuleById(o) PROVE RulesInv'
  <2>1. PICK r \in Rule :
          /\ rules' = Deleting(r)
          /\ Ask(o, [AskedDone EXCEPT !.listed = {x \in {r} : Known(x)},
                                      !.deleted = IF Deletable(r) THEN {r} ELSE {}])
    BY <1>8 DEF ResumeRuleById
  <2>. DEFINE x == [AskedDone EXCEPT !.listed = {q \in {r} : Known(q)},
                                     !.deleted = IF Deletable(r) THEN {r} ELSE {}]
  <2>2. /\ x \in Asked /\ x.phase = "answered" /\ x.listed = {q \in {r} : Known(q)}
        /\ x.deleted = IF Deletable(r) THEN {r} ELSE {}
    BY DEF AskedDone, NotAsked, Asked
  <2>3. asked[o].deleted = {}
    BY <1>0a, <1>8 DEF ResumeRuleById
  <2>4. rules' \in [Rule -> RuleRow] /\ \A q \in Rule \ {r} : rules'[q] = rules[q]
    BY <1>0, <2>1 DEF Deleting, RuleRow
  <2>5. Known(r) => rules'[r].state = "deleted"
    BY <1>0, <2>1 DEF Deleting, Deletable, Active, Known, RuleRow
  <2>6. rules[r].state = "deleted" => rules'[r].state = "deleted"
    BY <1>0, <2>1 DEF Deleting, Deletable, Active
  <2>7. x.deleted = asked[o].deleted \cup NewlyDeleted
    <3>1. CASE Deletable(r)
      BY <1>0, <2>1, <2>2, <2>3, <2>4, <3>1 DEF Deleting, Deletable, Active
    <3>2. CASE ~Deletable(r)
      BY <2>1, <2>2, <2>3, <3>2 DEF Deleting
    <3>. QED  BY <3>1, <3>2
  <2>8. \A q \in Rule : Known(q) => Known(q)'
    BY <2>4, <2>5 DEF Known
  <2>9. \A q \in x.listed : rules'[q].state = "deleted"
    BY <2>2, <2>5
  <2>10. \A q \in x.listed : Known(q)'
    BY <2>9 DEF Known
  <2>11. \A q \in Rule : rules[q].state = "deleted" => rules'[q].state = "deleted"
    BY <2>4, <2>6
  <2>12. Ask(o, x)
    BY <2>1
  <2>. HIDE DEF x
  <2>. QED  BY <2>2, <2>4, <2>7, <2>8, <2>9, <2>10, <2>11, <2>12, RulesMove
<1>9. ASSUME NEW r \in Rule, Expire(r) PROVE RulesInv'
  <2>1. rules' \in [Rule -> RuleRow] /\ \A q \in Rule : rules'[q].state = rules[q].state
    <3>1. \A q \in Rule : rules'[q] = IF q = r THEN [rules[r] EXCEPT !.expired = TRUE] ELSE rules[q]
      BY <1>0, <1>9 DEF Expire
    <3>2. [rules[r] EXCEPT !.expired = TRUE] \in RuleRow
            /\ [rules[r] EXCEPT !.expired = TRUE].state = rules[r].state
      BY <1>0 DEF RuleRow
    <3>3. rules' = [q \in Rule |-> rules'[q]]
      BY <1>0, <1>9 DEF Expire
    <3>. QED  BY <1>0, <3>1, <3>2, <3>3
  <2>2. Active' = Active /\ asked' = asked
    BY <1>9, <2>1 DEF Expire, Active
  <2>3. \A q \in Rule : Known(q)' = Known(q)
    BY <2>1 DEF Known
  <2>4. asked \in [Operator -> Asked] /\ \A o \in Operator : asked[o].listed \subseteq Rule
    BY <1>0 DEF Asked
  <2>. QED  BY <2>1, <2>2, <2>3, <2>4 DEF RulesInv, RulesTypeOK, ResumesAccountForRules, Known
<1>. QED  BY <1>3, <1>4, <1>5, <1>6, <1>7, <1>8, <1>9

LEMMA RulesInvariant == Spec => []RulesInv
<1>1. Init => RulesInv
  BY RulesBegin DEF Init
<1>2. ASSUME RulesInv, [Next]_vars PROVE RulesInv'
  <2>1. CASE RuleCalls
    BY <1>2, <2>1, RulesStep DEF RuleCalls
  <2>2. ASSUME NEW c \in Client, Calls(c) PROVE UNCHANGED ruleVars
    BY <2>2 DEF Calls, Start, StartInTx, Restart, RerunSteps, Cancel, Wait, RetryStep, GetStatus,
       ListRuns, ExecutionDetail, counts
  <2>3. ASSUME NEW c \in Client, GoesOn(c) PROVE UNCHANGED ruleVars
    BY <2>3 DEF GoesOn, CreateExecution, CallerCommits, CallerRollsBack, ListSteps, ReadCurrentRun,
       Bootstrap, Archive, NumberRun, InsertRun, CommitRun, ScheduleRoot, CancelRun, SweepTasks,
       Poll, counts
  <2>4. ASSUME NEW c \in Client, CallFails(c) PROVE UNCHANGED ruleVars
    BY <2>4 DEF CallFails
  <2>5. ASSUME NEW n \in Run, Carry(n) PROVE UNCHANGED ruleVars
    BY <2>5 DEF Carry, PickUp, StepCompletes, BodyEnds, ConcludeExecution, counts
  <2>6. CASE Tick
    BY <1>2, <2>6, RulesStay DEF Tick
  <2>7. CASE UNCHANGED vars
    BY <1>2, <2>7, RulesStay DEF vars
  <2>. QED  BY <1>2, <2>1, <2>2, <2>3, <2>4, <2>5, <2>6, <2>7, RulesStay DEF Next
<1>. QED  BY <1>1, <1>2, PTL DEF Spec

-----------------------------------------------------------------------------
(* Calls.                                                                   *)

CallsTypeOK ==
  /\ current \in Run \cup {NoRun}
  /\ runs \in [Run -> RunRow]
  /\ done \in [Run -> SUBSET Step]
  /\ work \in [Run -> Work]
  /\ calls \in [Client -> Call]
  /\ now \in 0..MaxNow
  /\ endedAt \in 0..Never
  /\ lost \subseteq Run
  /\ faults \in 0..MaxFaults

(* The phases before a call's commit, and those in which it makes a run next  *)
(* to one it has read.                                                      *)
Making == {"archiving", "numbering", "inserting", "committing"}
Early == Making \cup {"creating", "open", "listing", "beginning", "bootstrapping", "cancelling"}

(* What a call remembers agrees with the rows, however old it is.            *)
CallOK(x) ==
  /\ x.phase \in Early => ~x.effective
  /\ x.phase = "open" /\ x.index = 0 => current = NoRun
  /\ x.phase = "listing" => x.seen \in Run
  /\ x.phase \in Making \cup {"listing", "beginning"} =>
       x.op \in {"start", "start_and_wait", "restart", "rerun"}
  /\ x.phase \in Making => x.seen \in Run /\ Exists(x.seen)
  /\ x.phase = "archiving" =>
       /\ x.status # "none"
       /\ x.status \in {"completed", "cancelled"} => runs[x.seen].closed
  /\ x.locked =>
       /\ x.phase \in Making \ {"archiving"}
       /\ ~runs[x.seen].closed
       /\ x.status \notin {"none", "completed", "cancelled"}
  /\ x.phase \in {"inserting", "committing"} =>
       x.index \in Run /\ \A m \in 0..(x.index - 1) : Exists(m)
  /\ x.phase = "committing" => ~Exists(x.index)
  /\ x.effective /\ x.index # NoRun => Exists(x.index)
  /\ x.phase = "rooting" =>
       /\ x.op \in {"start", "start_and_wait"} /\ x.effective
       /\ x.index \in Run /\ work[x.index].state = "absent"
  /\ x.op = "cancel" => x.phase \in {"cancelling", "sweeping", "answered"}
  /\ x.phase \in {"cancelling", "sweeping"} => x.op = "cancel" /\ x.index = NoRun
  /\ x.op = "cancel" /\ x.effective => x.seen \in Run /\ runs[x.seen].status = "cancelled"
  /\ x.phase = "polling" => x.op \in {"wait", "start_and_wait"} /\ (x.op = "wait" => ~x.effective)
  /\ x.phase = "answered" /\ x.effective /\ x.index # NoRun =>
       \/ x.answer = "ok"
       \/ x.op = "start" /\ x.index \in lost
       \/ x.op = "start_and_wait"
  /\ x.answer = "timed_out" =>
       x.phase = "answered" /\ x.deadline <= now /\ x.deadline <= endedAt

(* What no two calls are at once.                                           *)
Clash(x, y) ==
  \/ x.phase = "open" /\ y.phase = "open" /\ x.index = 0 /\ y.index = 0
  \/ x.phase = "committing" /\ y.phase = "committing" /\ x.index = y.index
  \/ x.locked /\ y.locked /\ x.seen = y.seen
  \/ x.effective /\ y.effective /\ x.index = y.index /\ x.index # NoRun
  \/ x.op = "cancel" /\ y.op = "cancel" /\ x.effective /\ y.effective /\ x.seen = y.seen

AllCallsOK == \A c \in Client : CallOK(calls[c])
NoClash == \A c, d \in Client : c # d => ~Clash(calls[c], calls[d])

CancelledBySome(n) ==
  \E c \in Client : calls[c].op = "cancel" /\ calls[c].effective /\ calls[c].seen = n

RunsOK ==
  /\ LastRunIsCurrent
  /\ \A n \in Run : runs[n].status = "cancelled" => runs[n].closed /\ CancelledBySome(n)
  /\ CurrentOpen => endedAt = Never

WorkOK ==
  /\ \A n \in Run : work[n].state # "absent" => Exists(n)
  /\ \A n \in Run : work[n].state = "concluding" =>
       work[n].seen \in Run /\ Exists(work[n].seen) /\ n <= work[n].seen
  /\ CurrentRunHasWork

IInv == CallsTypeOK /\ AllCallsOK /\ NoClash /\ RunsOK /\ WorkOK

LEMMA NumberFacts ==
  /\ Run \subseteq Nat /\ NoRun \notin Run /\ Never \in Nat /\ MaxNow < Never
  /\ \A n \in Run : \A m \in 0..n : m \in Run
  /\ \A n, m \in Run : (\A k \in 0..(n - 1) : k # m) => n <= m
BY CallsAssumption DEF Run, NoRun, Never

(* Rows only go forward.                                                     *)
RunsGrow ==
  \A n \in Run : Exists(n) =>
    /\ Exists(n)'
    /\ runs[n].closed => runs'[n].closed
    /\ runs[n].status = "cancelled" => runs'[n].status = "cancelled"

(* A call that does not move stays right if the rows go forward and the four  *)
(* facts that could cease to hold do not.                                    *)
LEMMA CallStays ==
  ASSUME CallsTypeOK, NEW x \in Call, CallOK(x), RunsGrow, lost \subseteq lost', now' \in Nat,
         now <= now',
         endedAt' = endedAt \/ endedAt' = now \/ endedAt' = Never,
         x.phase = "open" /\ x.index = 0 => current' = NoRun,
         x.phase = "committing" => ~Exists(x.index)',
         x.locked => ~runs'[x.seen].closed,
         x.phase = "rooting" => work'[x.index].state = "absent"
  PROVE  CallOK(x)'
<1>1. x.phase \in {"inserting", "committing"} => x.index \in Run /\ \A m \in 0..(x.index - 1) : Exists(m)'
  <2>1. \A m \in 0..(x.index - 1) : x.index \in Run => m \in Run
    BY CallsAssumption DEF Run
  <2>. QED  BY <2>1 DEF CallOK, RunsGrow
<1>2. x.effective /\ x.index # NoRun => Exists(x.index)'
  <2>1. x.index \in Run \cup {NoRun}
    BY DEF Call
  <2>. QED  BY <2>1 DEF CallOK, RunsGrow
<1>3. x.answer = "timed_out" => x.phase = "answered" /\ x.deadline <= now' /\ x.deadline <= endedAt'
  <2>1. x.deadline \in Nat /\ now \in Nat /\ endedAt \in Nat /\ now < Never /\ Never \in Nat
    BY CallsAssumption DEF CallsTypeOK, Call, Never
  <2>. QED  BY <2>1 DEF CallOK
<1>4. x.phase \in Making => x.seen \in Run /\ Exists(x.seen)'
  BY DEF CallOK, RunsGrow
<1>5. x.phase = "archiving" =>
        /\ x.status # "none"
        /\ x.status \in {"completed", "cancelled"} => runs'[x.seen].closed
  BY DEF CallOK, RunsGrow, Making
<1>6. x.op = "cancel" /\ x.effective => x.seen \in Run /\ runs'[x.seen].status = "cancelled"
  BY DEF CallOK, RunsGrow, Exists
<1>7. /\ x.phase = "polling" => x.op \in {"wait", "start_and_wait"} /\ (x.op = "wait" => ~x.effective)
      /\ x.phase = "answered" /\ x.effective /\ x.index # NoRun =>
           x.answer = "ok" \/ (x.op = "start" /\ x.index \in lost') \/ x.op = "start_and_wait"
      /\ x.phase = "rooting" =>
           /\ x.op \in {"start", "start_and_wait"} /\ x.effective
           /\ x.index \in Run /\ work'[x.index].state = "absent"
      /\ x.locked => /\ x.phase \in Making \ {"archiving"}
                     /\ ~runs'[x.seen].closed
                     /\ x.status \notin {"none", "completed", "cancelled"}
  BY DEF CallOK
<1>8. /\ x.phase \in Early => ~x.effective
      /\ x.phase = "listing" => x.seen \in Run
      /\ x.phase \in Making \cup {"listing", "beginning"} =>
           x.op \in {"start", "start_and_wait", "restart", "rerun"}
      /\ x.op = "cancel" => x.phase \in {"cancelling", "sweeping", "answered"}
      /\ x.phase \in {"cancelling", "sweeping"} => x.op = "cancel" /\ x.index = NoRun
  BY DEF CallOK
<1>. QED  BY <1>1, <1>2, <1>3, <1>4, <1>5, <1>6, <1>7, <1>8 DEF CallOK

(* One call moves and no row.                                                *)
LEMMA OneCall ==
  ASSUME IInv, NEW c \in Client, NEW x \in Call, Set(c, x), UNCHANGED <<rows, work, now>>,
         lost \subseteq lost', lost' \subseteq Run, faults' \in 0..MaxFaults,
         CallOK(x)', \A d \in Client \ {c} : ~Clash(x, calls[d]),
         calls[c].op = "cancel" /\ calls[c].effective =>
           x.op = "cancel" /\ x.effective /\ x.seen = calls[c].seen,
         In(c, "rooting") => calls[c].index \in lost'
  PROVE  IInv'
<1>1. calls \in [Client -> Call] /\ calls' = [calls EXCEPT ![c] = x]
  BY DEF IInv, CallsTypeOK, Set
<1>2. calls'[c] = x /\ \A d \in Client \ {c} : calls'[d] = calls[d]
  BY <1>1
<1>3. CallsTypeOK'
  BY <1>1 DEF IInv, CallsTypeOK, rows
<1>4. AllCallsOK'
  <2>1. RunsGrow
    BY DEF RunsGrow, rows, Exists
  <2>2. ASSUME NEW d \in Client \ {c} PROVE CallOK(calls[d])'
    <3>1. now' \in Nat /\ now <= now'
      BY DEF IInv, CallsTypeOK
    <3>2. PICK y \in Call : y = calls[d] /\ y = calls'[d]
      BY <1>1, <1>2
    <3>3. CallOK(y)
      BY <3>2 DEF IInv, AllCallsOK
    <3>4. /\ current' = current /\ runs' = runs /\ endedAt' = endedAt /\ work' = work
      BY DEF rows
    <3>5. CallOK(y)'
      <4>1. \A n : Exists(n)' = Exists(n)
        BY <3>4 DEF Exists
      <4>. QED  BY <2>1, <3>1, <3>3, <3>4, <4>1, CallStays DEF IInv, CallOK, RunsGrow
    <3>. QED  BY <3>2, <3>5
  <2>. QED  BY <1>2, <2>2 DEF AllCallsOK
<1>5. NoClash'
  BY <1>2 DEF IInv, NoClash, Clash
<1>6. RunsOK'
  <2>1. \A n \in Run : CancelledBySome(n) => CancelledBySome(n)'
    BY <1>2 DEF CancelledBySome
  <2>. QED  BY <2>1 DEF IInv, RunsOK, rows, LastRunIsCurrent, Exists, CurrentOpen, Open
<1>7. WorkOK'
  <2>1. CurrentRunHasWork'
    <3>1. \A d \in Client \ {c} : In(d, "rooting")' = In(d, "rooting") /\ calls'[d].index = calls[d].index
      BY <1>2 DEF In
    <3>. QED  BY <3>1 DEF IInv, WorkOK, CurrentRunHasWork, CurrentOpen, Open, rows
  <2>. QED  BY <2>1 DEF IInv, WorkOK, rows, Exists
<1>. QED  BY <1>3, <1>4, <1>5, <1>6, <1>7 DEF IInv

(* Of calls that neither make a run nor have just committed.                 *)
LEMMA QuietCall ==
  ASSUME NoClash, NEW c \in Client, NEW x \in Call, x.phase \notin {"open", "committing"}, ~x.locked,
         x.effective => /\ calls[c].effective /\ x.op = calls[c].op
                        /\ x.seen = calls[c].seen /\ x.index = calls[c].index
  PROVE  \A d \in Client \ {c} : ~Clash(x, calls[d])
BY DEF NoClash, Clash

LEMMA SameCallOK ==
  ASSUME UNCHANGED <<rows, work, now, lost>>, NEW x, CallOK(x)
  PROVE  CallOK(x)'
BY DEF rows, CallOK, Exists

LEMMA AnsweredFacts ==
  ASSUME NEW x \in Call, NEW answer \in Answer
  PROVE  LET y == Answered(x, answer) IN
         /\ y \in Call /\ y.phase = "answered" /\ y.answer = answer /\ ~y.locked
         /\ y.op = x.op /\ y.seen = x.seen /\ y.index = x.index
         /\ y.effective = x.effective /\ y.deadline = x.deadline
<1>. DEFINE y == Answered(x, answer)
<1>1. y \in Call
  BY DEF Answered, Call, Status, Phase
<1>2. y.phase = "answered" /\ y.answer = answer /\ ~y.locked
  BY DEF Answered, Call
<1>3. y.op = x.op /\ y.seen = x.seen /\ y.index = x.index
  BY DEF Answered, Call
<1>4. y.effective = x.effective /\ y.deadline = x.deadline
  BY DEF Answered, Call
<1>. QED  BY <1>1, <1>2, <1>3, <1>4

LEMMA WaitingFacts ==
  ASSUME IInv, NEW x \in Call
  PROVE  LET y == Waiting(x) IN
         /\ y \in Call /\ y.phase = "polling" /\ y.answer = x.answer /\ y.locked = x.locked
         /\ y.op = x.op /\ y.seen = x.seen /\ y.index = x.index /\ y.effective = x.effective
<1>. DEFINE y == Waiting(x)
<1>1. now \in Nat /\ now + Timeout \in Nat
  BY CallsAssumption DEF IInv, CallsTypeOK
<1>2. y \in Call
  BY <1>1 DEF Waiting, Call, Phase
<1>3. y.phase = "polling" /\ y.answer = x.answer /\ y.locked = x.locked
  BY DEF Waiting, Call
<1>4. y.op = x.op /\ y.seen = x.seen /\ y.index = x.index /\ y.effective = x.effective
  BY DEF Waiting, Call
<1>. QED  BY <1>2, <1>3, <1>4

LEMMA NoCallFacts ==
  ASSUME NEW op \in Ops
  PROVE  /\ NoCall \in Call /\ NoCall.answer = "none" /\ ~NoCall.locked /\ ~NoCall.effective
         /\ NoCall.index = NoRun /\ NoCall.seen = NoRun /\ NoCall.phase = "idle" /\ NoCall.op = "none"
BY DEF NoCall, Call, Phase, Answer, Status

(* A call that has no effect yet and takes no lock by this step.             *)
LEMMA MildStep ==
  ASSUME IInv, NEW c \in Client, NEW x \in Call, Set(c, x), UNCHANGED <<rows, work, counts>>,
         ~calls[c].effective, ~x.effective, ~x.locked, calls[c].phase # "rooting",
         x.phase \notin {"open", "committing"}, CallOK(x)
  PROVE  IInv'
<1>1. UNCHANGED <<now, lost, faults>> /\ lost' \subseteq Run /\ faults' \in 0..MaxFaults
  BY DEF counts, IInv, CallsTypeOK
<1>2. CallOK(x)'
  BY <1>1, SameCallOK
<1>3. \A d \in Client \ {c} : ~Clash(x, calls[d])
  BY QuietCall DEF IInv
<1>. QED  BY <1>1, <1>2, <1>3, OneCall DEF In

(* The first statement.                                                     *)
LEMMA FirstStep ==
  ASSUME IInv, NEW c \in Client, Calls(c)
  PROVE  IInv'
<1>. USE DEF In
<1>1. ASSUME NEW x \in Call, In(c, "idle"), Set(c, x), UNCHANGED <<rows, work, counts>>,
             ~x.effective, ~x.locked, x.answer # "timed_out", CallOK(x),
             x.phase \notin {"open", "committing"}
      PROVE  IInv'
  <2>1. x.index = x.index /\ calls[c] \in Call
    BY DEF IInv, CallsTypeOK
  <2>2. calls[c].op # "cancel"
    BY <1>1 DEF IInv, AllCallsOK, CallOK
  <2>3. UNCHANGED <<now, lost, faults>> /\ lost' \subseteq Run /\ faults' \in 0..MaxFaults
    BY <1>1 DEF counts, IInv, CallsTypeOK
  <2>4. CallOK(x)'
    BY <1>1, <2>3, SameCallOK
  <2>5. \A d \in Client \ {c} : ~Clash(x, calls[d])
    BY <1>1, QuietCall DEF IInv
  <2>. QED  BY <1>1, <2>2, <2>3, <2>4, <2>5, OneCall
<1>2. current \in Run \cup {NoRun}
  BY DEF IInv, CallsTypeOK
<1>3. current # NoRun => current \in Run /\ Exists(current)
  BY <1>2, NumberFacts DEF IInv, RunsOK, LastRunIsCurrent, Run
<1>4. ASSUME NEW op \in Ops, NEW answer \in Answer \ {"timed_out"}, BeginAnswered(c, op, answer),
             UNCHANGED <<rows, work, counts>>
      PROVE  IInv'
  <2>1. PICK x \in Call : /\ Set(c, x) /\ x.phase = "answered" /\ x.answer = answer
                          /\ ~x.effective /\ ~x.locked
    <3>1. [NoCall EXCEPT !.op = op, !.phase = "answered", !.answer = answer] \in Call
      BY DEF NoCall, Call, Phase, Status
    <3>. QED  BY <1>4, <3>1 DEF BeginAnswered, NoCall
  <2>2. CallOK(x)
    BY <2>1 DEF CallOK, Early, Making
  <2>. QED  BY <1>1, <1>4, <2>1, <2>2 DEF BeginAnswered
<1>5. ASSUME NEW op \in Ops, NEW phase \in {"creating", "listing", "beginning", "numbering", "cancelling"},
             Begin(c, op, phase), UNCHANGED <<rows, work, counts>>,
             phase # "creating" => op = "cancel" \/ op \in {"start", "start_and_wait", "restart", "rerun"},
             phase \in {"listing", "numbering"} => current # NoRun,
             op = "cancel" <=> phase = "cancelling"
      PROVE  IInv'
  <2>1. PICK x \in Call : /\ Set(c, x) /\ x.phase = phase /\ x.answer = "none" /\ x.op = op
                          /\ ~x.effective /\ ~x.locked /\ x.seen = current /\ x.index = NoRun
    <3>1. [NoCall EXCEPT !.op = op, !.phase = phase, !.seen = current] \in Call
      BY <1>2 DEF NoCall, Call, Phase, Answer, Status
    <3>. QED  BY <1>5, <3>1 DEF Begin, NoCall
  <2>2. CallOK(x)
    BY <1>3, <1>5, <2>1 DEF CallOK, Early, Making
  <2>. QED  BY <1>1, <1>5, <2>1, <2>2 DEF Begin
<1>6. \A a \in {"none", "ok", "false", "empty", "exists", "not_found", "unsupported", "mismatch"} :
        a \in Answer \ {"timed_out"}
  BY DEF Answer
<1>7. ASSUME NEW op, Start(c, op) PROVE IInv'
  BY <1>4, <1>5, <1>6, <1>7 DEF Start, Begin, BeginAnswered
<1>8. CASE StartInTx(c)
  BY <1>4, <1>5, <1>6, <1>8 DEF StartInTx, Begin, BeginAnswered
<1>9. CASE Restart(c)
  BY <1>5, <1>9 DEF Restart, Begin
<1>10. CASE RerunSteps(c)
  BY <1>4, <1>5, <1>6, <1>10 DEF RerunSteps, Begin, BeginAnswered
<1>11. CASE Cancel(c)
  BY <1>5, <1>11 DEF Cancel, Begin
<1>12. CASE Wait(c)
  <2>1. PICK x \in Call : /\ Set(c, x) /\ x.phase = "polling" /\ x.answer = "none" /\ x.op = "wait"
                          /\ ~x.effective /\ ~x.locked
    <3>. DEFINE z == [NoCall EXCEPT !.op = "wait"]
    <3>1. z \in Call /\ z.op = "wait" /\ z.answer = "none" /\ ~z.locked /\ ~z.effective
      BY <1>12 DEF Wait, NoCall, Call, Phase, Answer, Status
    <3>2. Set(c, Waiting(z))
      BY <1>12 DEF Wait
    <3>. HIDE DEF z
    <3>. QED  BY <3>1, <3>2, WaitingFacts
  <2>2. CallOK(x)
    BY <2>1 DEF CallOK, Early, Making
  <2>. QED  BY <1>1, <1>12, <2>1, <2>2 DEF Wait
<1>13. CASE RetryStep(c)
  BY <1>4, <1>6, <1>13 DEF RetryStep, BeginAnswered
<1>14. CASE GetStatus(c) \/ ListRuns(c) \/ ExecutionDetail(c)
  BY <1>4, <1>6, <1>14 DEF GetStatus, ListRuns, ExecutionDetail, BeginAnswered
<1>. QED  BY <1>7, <1>8, <1>9, <1>10, <1>11, <1>12, <1>13, <1>14 DEF Calls

(* The steps in which a call reads, takes the lock of a row, or learns that   *)
(* it has nothing to do: no row changes.                                     *)
LEMMA MovesAlone ==
  ASSUME IInv, NEW c \in Client, NEW x \in Call, Set(c, x), UNCHANGED <<rows, work, counts>>,
         calls[c].phase \in Early, ~x.effective, CallOK(x),
         \A d \in Client \ {c} : ~Clash(x, calls[d])
  PROVE  IInv'
<1>1. UNCHANGED <<now, lost, faults>> /\ lost' \subseteq Run /\ faults' \in 0..MaxFaults
  BY DEF counts, IInv, CallsTypeOK
<1>2. ~calls[c].effective
  BY DEF IInv, AllCallsOK, CallOK
<1>3. CallOK(x)'
  BY <1>1, SameCallOK
<1>4. ~In(c, "rooting")
  BY DEF Early, Making, In
<1>. QED  BY <1>1, <1>2, <1>3, <1>4, OneCall

LEMMA ReturnsEarly ==
  ASSUME IInv, NEW c \in Client, NEW answer \in Answer \ {"timed_out"}, Return(c, answer),
         UNCHANGED <<rows, work, counts>>, calls[c].phase \in Early, calls[c].op # "cancel"
  PROVE  IInv'
<1>1. calls[c] \in Call /\ CallOK(calls[c])
  BY DEF IInv, CallsTypeOK, AllCallsOK
<1>2. PICK x \in Call : /\ Set(c, x) /\ x.phase = "answered" /\ x.answer = answer /\ ~x.locked
                        /\ x.op = calls[c].op /\ x.effective = calls[c].effective
  BY <1>1, AnsweredFacts DEF Return
<1>3. ~x.effective
  BY <1>1, <1>2 DEF CallOK
<1>4. CallOK(x)
  BY <1>2, <1>3 DEF CallOK, Early, Making
<1>5. \A d \in Client \ {c} : ~Clash(x, calls[d])
  BY <1>2, <1>3, QuietCall DEF IInv
<1>. QED  BY <1>2, <1>3, <1>4, <1>5, MovesAlone

LEMMA ListStepsOK == ASSUME IInv, NEW c \in Client, ListSteps(c) PROVE IInv'
<1>1. calls[c] \in Call /\ CallOK(calls[c]) /\ calls[c].phase = "listing"
  BY DEF ListSteps, In, IInv, CallsTypeOK, AllCallsOK
<1>2. done[calls[c].seen] \subseteq Step
  BY <1>1 DEF IInv, CallsTypeOK, CallOK
<1>3. PICK keep : /\ keep \subseteq Step
                  /\ Set(c, [calls[c] EXCEPT !.phase = "beginning", !.keep = keep])
  BY <1>2 DEF ListSteps, Preserved
<1>4. PICK x \in Call : /\ Set(c, x) /\ x.phase = "beginning" /\ x.op = calls[c].op
                        /\ x.locked = calls[c].locked /\ x.answer = calls[c].answer
                        /\ x.deadline = calls[c].deadline /\ x.effective = calls[c].effective
  <2>. DEFINE y == [calls[c] EXCEPT !.phase = "beginning", !.keep = keep]
  <2>1. y \in Call
    BY <1>1, <1>3 DEF Call, Phase
  <2>2. /\ y.phase = "beginning" /\ y.op = calls[c].op
        /\ y.locked = calls[c].locked /\ y.answer = calls[c].answer
        /\ y.deadline = calls[c].deadline /\ y.effective = calls[c].effective
    BY <1>1 DEF Call
  <2>. QED  BY <1>3, <2>1, <2>2
<1>5. ~x.effective /\ ~x.locked
  BY <1>1, <1>4 DEF CallOK, Early, Making
<1>6. CallOK(x)
  BY <1>1, <1>4, <1>5 DEF CallOK, Early, Making
<1>7. \A d \in Client \ {c} : ~Clash(x, calls[d])
  BY <1>4, <1>5, QuietCall DEF IInv
<1>. QED  BY <1>1, <1>4, <1>5, <1>6, <1>7, MovesAlone DEF ListSteps, Early

LEMMA ReadCurrentRunOK == ASSUME IInv, NEW c \in Client, ReadCurrentRun(c) PROVE IInv'
<1>1. calls[c] \in Call /\ CallOK(calls[c]) /\ calls[c].phase = "beginning"
  BY DEF ReadCurrentRun, In, IInv, CallsTypeOK, AllCallsOK
<1>2. ~calls[c].effective /\ ~calls[c].locked
  BY <1>1 DEF CallOK, Early, Making
<1>3. PICK x \in Call :
        /\ Set(c, x) /\ x.phase \in {"bootstrapping", "archiving"} /\ x.op = calls[c].op
        /\ x.locked = calls[c].locked /\ x.answer = calls[c].answer
        /\ x.deadline = calls[c].deadline /\ x.effective = calls[c].effective
        /\ x.phase = "archiving" =>
             current # NoRun /\ x.seen = current /\ x.status = runs[current].status
  <2>1. CASE current = NoRun
    <3>. DEFINE x == [calls[c] EXCEPT !.phase = "bootstrapping"]
    <3>1. /\ x \in Call /\ x.phase = "bootstrapping" /\ x.op = calls[c].op
          /\ x.locked = calls[c].locked /\ x.answer = calls[c].answer
          /\ x.deadline = calls[c].deadline /\ x.effective = calls[c].effective
      BY <1>1 DEF Call, Phase
    <3>2. Set(c, x)
      BY <2>1 DEF ReadCurrentRun
    <3>. QED  BY <3>1, <3>2
  <2>2. CASE current # NoRun
    <3>. DEFINE x == [calls[c] EXCEPT !.phase = "archiving", !.seen = current,
                                      !.status = runs[current].status]
    <3>1. current \in Run /\ runs[current].status \in Status
      BY <2>2 DEF IInv, CallsTypeOK, RunRow
    <3>2. /\ x \in Call /\ x.phase = "archiving" /\ x.op = calls[c].op
          /\ x.locked = calls[c].locked /\ x.answer = calls[c].answer
          /\ x.deadline = calls[c].deadline /\ x.effective = calls[c].effective
          /\ x.seen = current /\ x.status = runs[current].status
      BY <1>1, <3>1 DEF Call, Phase
    <3>3. Set(c, x)
      BY <2>2 DEF ReadCurrentRun
    <3>. QED  BY <2>2, <3>2, <3>3
  <2>. QED  BY <2>1, <2>2
<1>4. x.phase = "archiving" =>
        /\ x.seen \in Run /\ Exists(x.seen) /\ x.status # "none"
        /\ x.status \in {"completed", "cancelled"} => runs[x.seen].closed
  <2>1. current # NoRun => current \in Run /\ Exists(current)
    BY NumberFacts DEF IInv, CallsTypeOK, RunsOK, LastRunIsCurrent, Run
  <2>2. current # NoRun /\ runs[current].status = "completed" => runs[current].closed
    BY <2>1 DEF IInv, CallsTypeOK, RunRow
  <2>. QED  BY <1>3, <2>1, <2>2 DEF IInv, RunsOK, Exists
<1>5. CallOK(x)
  BY <1>1, <1>2, <1>3, <1>4 DEF CallOK, Early, Making
<1>6. \A d \in Client \ {c} : ~Clash(x, calls[d])
  BY <1>2, <1>3, QuietCall DEF IInv
<1>. QED  BY <1>1, <1>2, <1>3, <1>5, <1>6, MovesAlone DEF ReadCurrentRun, Early

LEMMA ArchiveOK == ASSUME IInv, NEW c \in Client, Archive(c) PROVE IInv'
<1>1. calls[c] \in Call /\ CallOK(calls[c]) /\ calls[c].phase = "archiving" /\ ~RunLocked(calls[c].seen)
  BY DEF Archive, In, IInv, CallsTypeOK, AllCallsOK
<1>2. PICK x \in Call :
        /\ Set(c, x) /\ x.phase = "numbering" /\ x.op = calls[c].op
        /\ x.locked = NotClosed(calls[c].seen) /\ x.answer = calls[c].answer
        /\ x.seen = calls[c].seen /\ x.status = calls[c].status
        /\ x.deadline = calls[c].deadline /\ x.effective = calls[c].effective
  <2>1. NotClosed(calls[c].seen) \in BOOLEAN
    BY DEF NotClosed
  <2>. DEFINE y == [calls[c] EXCEPT !.phase = "numbering", !.locked = NotClosed(calls[c].seen)]
  <2>2. y \in Call
    BY <1>1, <2>1 DEF Call, Phase
  <2>3. /\ y.phase = "numbering" /\ y.op = calls[c].op
        /\ y.locked = NotClosed(calls[c].seen) /\ y.answer = calls[c].answer
        /\ y.seen = calls[c].seen /\ y.status = calls[c].status
        /\ y.deadline = calls[c].deadline /\ y.effective = calls[c].effective
    BY <1>1 DEF Call
  <2>4. Set(c, y)
    BY DEF Archive
  <2>. QED  BY <2>2, <2>3, <2>4
<1>3. CallOK(x) /\ ~x.effective
  BY <1>1, <1>2 DEF CallOK, NotClosed, Early, Making
<1>4. \A d \in Client \ {c} : ~Clash(x, calls[d])
  BY <1>1, <1>2, <1>3 DEF Clash, RunLocked
<1>. QED  BY <1>1, <1>2, <1>3, <1>4, MovesAlone DEF Archive, Early, Making

LEMMA NumberRunOK == ASSUME IInv, NEW c \in Client, NumberRun(c) PROVE IInv'
<1>1. calls[c] \in Call /\ CallOK(calls[c]) /\ calls[c].phase = "numbering"
  BY DEF NumberRun, In, IInv, CallsTypeOK, AllCallsOK
<1>2. PICK n \in Run : /\ ~Exists(n) /\ \A m \in 0..(n - 1) : Exists(m)
                       /\ Set(c, [calls[c] EXCEPT !.phase = "inserting", !.index = n])
  BY DEF NumberRun
<1>3. PICK x \in Call :
        /\ Set(c, x) /\ x.phase = "inserting" /\ x.op = calls[c].op
        /\ x.locked = calls[c].locked /\ x.answer = calls[c].answer
        /\ x.seen = calls[c].seen /\ x.status = calls[c].status /\ x.index = n
        /\ x.deadline = calls[c].deadline /\ x.effective = calls[c].effective
  <2>. DEFINE y == [calls[c] EXCEPT !.phase = "inserting", !.index = n]
  <2>1. y \in Call
    BY <1>1 DEF Call, Phase
  <2>2. /\ y.phase = "inserting" /\ y.op = calls[c].op
        /\ y.locked = calls[c].locked /\ y.answer = calls[c].answer
        /\ y.seen = calls[c].seen /\ y.status = calls[c].status /\ y.index = n
        /\ y.deadline = calls[c].deadline /\ y.effective = calls[c].effective
    BY <1>1 DEF Call
  <2>. QED  BY <1>2, <2>1, <2>2
<1>4. CallOK(x) /\ ~x.effective
  BY <1>1, <1>2, <1>3 DEF CallOK, Early, Making
<1>5. \A d \in Client \ {c} : ~Clash(x, calls[d])
  BY <1>1, <1>3, <1>4 DEF Clash, IInv, NoClash
<1>. QED  BY <1>1, <1>3, <1>4, <1>5, MovesAlone DEF NumberRun, Early, Making

LEMMA InsertRunOK == ASSUME IInv, NEW c \in Client, InsertRun(c) PROVE IInv'
<1>1. calls[c] \in Call /\ CallOK(calls[c]) /\ calls[c].phase = "inserting"
      /\ ~IndexLocked(calls[c].index) /\ UNCHANGED <<rows, work, counts>>
  BY DEF InsertRun, In, IInv, CallsTypeOK, AllCallsOK
<1>2. calls[c].phase \in Early /\ calls[c].op # "cancel"
  BY <1>1 DEF CallOK, Early, Making
<1>3. CASE Taken(calls[c].index)
  BY <1>1, <1>2, <1>3, ReturnsEarly DEF InsertRun, Answer
<1>4. CASE ~Taken(calls[c].index)
  <2>1. PICK x \in Call :
          /\ Set(c, x) /\ x.phase = "committing" /\ x.op = calls[c].op
          /\ x.locked = calls[c].locked /\ x.answer = calls[c].answer
          /\ x.seen = calls[c].seen /\ x.status = calls[c].status /\ x.index = calls[c].index
          /\ x.deadline = calls[c].deadline /\ x.effective = calls[c].effective
    <3>1. PICK keep : /\ keep \subseteq Step
                      /\ Set(c, [calls[c] EXCEPT !.phase = "committing", !.keep = keep])
      <4>1. calls[c].keep \cap done[calls[c].seen] \subseteq Step
        BY <1>1 DEF Call
      <4>. QED  BY <1>4, <4>1 DEF InsertRun
    <3>. DEFINE y == [calls[c] EXCEPT !.phase = "committing", !.keep = keep]
    <3>2. y \in Call
      BY <1>1, <3>1 DEF Call, Phase
    <3>3. /\ y.phase = "committing" /\ y.op = calls[c].op
          /\ y.locked = calls[c].locked /\ y.answer = calls[c].answer
          /\ y.seen = calls[c].seen /\ y.status = calls[c].status /\ y.index = calls[c].index
          /\ y.deadline = calls[c].deadline /\ y.effective = calls[c].effective
      BY <1>1 DEF Call
    <3>. QED  BY <3>1, <3>2, <3>3
  <2>2. CallOK(x) /\ ~x.effective
    BY <1>1, <1>4, <2>1 DEF CallOK, Early, Making, Taken
  <2>3. \A d \in Client \ {c} : ~Clash(x, calls[d])
    BY <1>1, <2>1, <2>2 DEF Clash, IInv, NoClash, IndexLocked, In
  <2>. QED  BY <1>1, <1>2, <2>1, <2>2, <2>3, MovesAlone
<1>. QED  BY <1>3, <1>4

LEMMA PollOK == ASSUME IInv, NEW c \in Client, Poll(c) PROVE IInv'
<1>1. /\ calls[c] \in Call /\ CallOK(calls[c]) /\ calls[c].phase = "polling"
      /\ ~calls[c].locked /\ calls[c].op # "cancel" /\ UNCHANGED <<rows, work, counts>>
  BY DEF Poll, In, IInv, CallsTypeOK, AllCallsOK, CallOK, Making
<1>2. current # NoRun /\ ~Ended(calls[c]) => CurrentOpen
  BY NumberFacts DEF IInv, CallsTypeOK, RunsOK, LastRunIsCurrent, Ended, CurrentOpen, Open, Exists,
     RunRow, Status, Run
<1>3. PICK x \in Call :
        /\ Set(c, x) /\ x.op = calls[c].op /\ x.effective = calls[c].effective /\ ~x.locked
        /\ x.seen = calls[c].seen /\ x.index = calls[c].index /\ x.deadline = calls[c].deadline
        /\ x.phase \in {"polling", "answered"}
        /\ x.phase = "polling" => x.answer = calls[c].answer
        /\ x.phase = "answered" /\ x.answer = "timed_out" => CurrentOpen /\ calls[c].deadline <= now
  <2>1. ASSUME NEW answer \in Answer, Return(c, answer),
               answer = "timed_out" => CurrentOpen /\ calls[c].deadline <= now
        PROVE  \E x \in Call :
                 /\ Set(c, x) /\ x.op = calls[c].op /\ x.effective = calls[c].effective /\ ~x.locked
                 /\ x.seen = calls[c].seen /\ x.index = calls[c].index
                 /\ x.deadline = calls[c].deadline /\ x.phase = "answered" /\ x.answer = answer
    BY <1>1, <2>1, AnsweredFacts DEF Return
  <2>2. CASE current = NoRun
    BY <2>1, <2>2 DEF Poll, Answer
  <2>3. CASE current # NoRun /\ Ended(calls[c])
    BY <2>1, <2>3 DEF Poll, Answer
  <2>4. CASE current # NoRun /\ ~Ended(calls[c]) /\ Expired(calls[c])
    <3>1. calls[c].deadline <= now
      BY <1>1, <2>4 DEF Expired
    <3>. QED  BY <1>2, <2>1, <2>4, <3>1 DEF Poll, Answer
  <2>5. CASE current # NoRun /\ ~Ended(calls[c]) /\ ~Expired(calls[c])
    <3>. DEFINE y == [calls[c] EXCEPT !.at = now + Interval]
    <3>1. now + Interval \in Nat
      BY CallsAssumption DEF IInv, CallsTypeOK
    <3>2. y \in Call
      BY <1>1, <3>1 DEF Call
    <3>3. /\ y.op = calls[c].op /\ y.effective = calls[c].effective /\ ~y.locked
          /\ y.seen = calls[c].seen /\ y.index = calls[c].index /\ y.deadline = calls[c].deadline
          /\ y.phase = "polling" /\ y.answer = calls[c].answer
      BY <1>1 DEF Call
    <3>4. Set(c, y)
      BY <2>5 DEF Poll
    <3>. QED  BY <3>2, <3>3, <3>4
  <2>. QED  BY <2>2, <2>3, <2>4, <2>5
<1>4. x.answer = "timed_out" => x.deadline <= now /\ x.deadline <= endedAt
  <2>1. now < Never /\ now \in Nat /\ Never \in Nat /\ x.deadline \in Nat
    BY CallsAssumption DEF IInv, CallsTypeOK, Never, Call
  <2>2. CurrentOpen => endedAt = Never
    BY DEF IInv, RunsOK
  <2>. QED  BY <1>1, <1>3, <2>1, <2>2 DEF CallOK
<1>5. CallOK(x)
  BY <1>1, <1>3, <1>4 DEF CallOK, Early, Making
<1>6. UNCHANGED <<now, lost, faults>> /\ lost' \subseteq Run /\ faults' \in 0..MaxFaults
  BY <1>1 DEF counts, IInv, CallsTypeOK
<1>7. CallOK(x)'
  BY <1>1, <1>5, <1>6, SameCallOK
<1>8. \A d \in Client \ {c} : ~Clash(x, calls[d])
  BY <1>3, QuietCall DEF IInv
<1>. QED  BY <1>1, <1>3, <1>6, <1>7, <1>8, OneCall DEF In

LEMMA CallFailsOK == ASSUME IInv, NEW c \in Client, CallFails(c) PROVE IInv'
<1>1. calls[c] \in Call /\ CallOK(calls[c]) /\ UNCHANGED <<rows, work, now>>
  BY DEF CallFails, IInv, CallsTypeOK, AllCallsOK
<1>2. PICK x \in Call :
        /\ Set(c, x) /\ x.phase = "answered" /\ x.answer = "error" /\ ~x.locked
        /\ x.op = calls[c].op /\ x.seen = calls[c].seen /\ x.index = calls[c].index
        /\ x.effective = calls[c].effective
  BY <1>1, AnsweredFacts DEF CallFails, Return, Answer
<1>3. lost \subseteq lost' /\ lost' \subseteq Run /\ (In(c, "rooting") => calls[c].index \in lost')
  BY <1>1 DEF CallFails, IInv, CallsTypeOK, CallOK, In
<1>4. faults' \in 0..MaxFaults
  BY CallsAssumption DEF CallFails, IInv, CallsTypeOK
<1>5. x.effective /\ x.index # NoRun =>
        (x.op = "start" /\ x.index \in lost') \/ x.op = "start_and_wait"
  BY <1>1, <1>2, <1>3 DEF CallFails, CallOK, In, Call, Phase, Early, Making
<1>6. CallOK(x)'
  <2>1. x.effective /\ x.index # NoRun => Exists(x.index)'
    BY <1>1, <1>2 DEF CallOK, rows, Exists
  <2>2. x.op = "cancel" /\ x.effective => x.seen \in Run /\ runs'[x.seen].status = "cancelled"
    BY <1>1, <1>2 DEF CallOK, rows
  <2>. QED  BY <1>2, <1>5, <2>1, <2>2 DEF CallOK, Early, Making
<1>7. \A d \in Client \ {c} : ~Clash(x, calls[d])
  BY <1>2, QuietCall DEF IInv
<1>. QED  BY <1>1, <1>2, <1>3, <1>4, <1>6, <1>7, OneCall

(* Creation of an execution that there is already, or under a caller's        *)
(* transaction, which shows nothing yet.                                     *)
LEMMA CreatesNothing ==
  ASSUME IInv, NEW c \in Client, CreateExecution(c),
         calls[c].op = "start_in_tx" \/ current # NoRun
  PROVE  IInv'
<1>1. /\ calls[c] \in Call /\ CallOK(calls[c]) /\ calls[c].phase = "creating" /\ ~CreationLocked
      /\ UNCHANGED <<rows, work, counts>>
  BY DEF CreateExecution, In, IInv, CallsTypeOK, AllCallsOK
<1>2. calls[c].phase \in Early /\ ~calls[c].effective /\ ~calls[c].locked /\ calls[c].op # "cancel"
  BY <1>1 DEF CallOK, Early, Making
<1>3. CASE calls[c].op = "start_in_tx"
  <2>. DEFINE i == IF current = NoRun THEN 0 ELSE NoRun
  <2>. DEFINE y == [calls[c] EXCEPT !.phase = "open", !.index = i]
  <2>0. i \in Run \cup {NoRun} /\ (i = 0 => current = NoRun)
    BY CallsAssumption DEF Run, NoRun
  <2>. HIDE DEF i
  <2>1. y \in Call
    BY <1>1, <2>0 DEF Call, Phase
  <2>2. /\ y.phase = "open" /\ y.index = i /\ y.op = calls[c].op /\ y.answer = calls[c].answer
        /\ y.locked = calls[c].locked /\ y.effective = calls[c].effective
        /\ y.deadline = calls[c].deadline
    BY <1>1 DEF Call
  <2>3. Set(c, y)
    BY <1>3 DEF CreateExecution, i
  <2>4. PICK x \in Call :
          /\ Set(c, x) /\ x.phase = "open" /\ x.index = i /\ x.op = calls[c].op
          /\ x.answer = calls[c].answer /\ x.locked = calls[c].locked
          /\ x.effective = calls[c].effective /\ x.deadline = calls[c].deadline
    BY <2>1, <2>2, <2>3
  <2>5. CallOK(x)
    BY <1>1, <1>2, <2>0, <2>4 DEF CallOK, Early, Making
  <2>6. \A d \in Client \ {c} : ~Clash(x, calls[d])
    BY <1>1, <1>2, <2>4 DEF Clash, CreationLocked, In
  <2>. QED  BY <1>1, <1>2, <2>4, <2>5, <2>6, MovesAlone
<1>4. CASE calls[c].op # "start_in_tx"
  <2>1. Started(c, calls[c])
    BY <1>4 DEF CreateExecution
  <2>2. CASE calls[c].op = "start_and_wait"
    <3>1. PICK x \in Call :
            /\ Set(c, x) /\ x.phase = "polling" /\ x.op = calls[c].op
            /\ x.answer = calls[c].answer /\ x.locked = calls[c].locked
            /\ x.effective = calls[c].effective
      BY <1>1, <2>1, <2>2, WaitingFacts DEF Started
    <3>2. CallOK(x)
      BY <1>1, <1>2, <2>2, <3>1 DEF CallOK, Early, Making
    <3>3. \A d \in Client \ {c} : ~Clash(x, calls[d])
      BY <1>2, <3>1, QuietCall DEF IInv
    <3>. QED  BY <1>1, <1>2, <3>1, <3>2, <3>3, MovesAlone
  <2>3. CASE calls[c].op # "start_and_wait"
    BY <1>1, <1>2, <2>1, <2>3, ReturnsEarly DEF Started, Return, Answer
  <2>. QED  BY <2>2, <2>3
<1>. QED  BY <1>3, <1>4

LEMMA CallerRollsBackOK == ASSUME IInv, NEW c \in Client, CallerRollsBack(c) PROVE IInv'
<1>1. calls[c].phase = "open" /\ CallOK(calls[c])
  BY DEF CallerRollsBack, In, IInv, AllCallsOK
<1>2. calls[c].phase \in Early /\ calls[c].op # "cancel"
  BY <1>1 DEF CallOK, Early
<1>. QED  BY <1>2, ReturnsEarly DEF CallerRollsBack, Answer

LEMMA CommitsNothing ==
  ASSUME IInv, NEW c \in Client, CallerCommits(c), calls[c].index # 0
  PROVE  IInv'
<1>1. /\ calls[c] \in Call /\ CallOK(calls[c]) /\ calls[c].phase = "open"
      /\ UNCHANGED <<rows, work, counts>>
  BY DEF CallerCommits, In, IInv, CallsTypeOK, AllCallsOK
<1>2. calls[c].phase \in Early /\ calls[c].op # "cancel" /\ ~calls[c].effective
  BY <1>1 DEF CallOK, Early
<1>3. [calls[c] EXCEPT !.effective = FALSE] = calls[c]
  BY <1>1, <1>2 DEF Call
<1>4. Return(c, "ok")
  BY <1>3 DEF CallerCommits, Return
<1>. QED  BY <1>1, <1>2, <1>4, ReturnsEarly DEF Answer

LEMMA BootstrapRefused ==
  ASSUME IInv, NEW c \in Client, Bootstrap(c), current # NoRun
  PROVE  IInv'
<1>1. calls[c].phase = "bootstrapping" /\ CallOK(calls[c])
  BY DEF Bootstrap, In, IInv, AllCallsOK
<1>2. calls[c].phase \in Early /\ calls[c].op # "cancel"
  BY <1>1 DEF CallOK, Early
<1>. QED  BY <1>2, ReturnsEarly DEF Bootstrap, Answer

-----------------------------------------------------------------------------
(* Commits.                                                                 *)

(* What the other calls remember stays right.                                *)
LEMMA OthersOK ==
  ASSUME IInv, NEW d \in Client, calls'[d] = calls[d], RunsGrow, lost \subseteq lost',
         now' \in Nat, now <= now',
         endedAt' = endedAt \/ endedAt' = now \/ endedAt' = Never,
         In(d, "open") /\ calls[d].index = 0 => current' = NoRun,
         In(d, "committing") => runs'[calls[d].index].status = "none",
         calls[d].locked => ~runs'[calls[d].seen].closed,
         In(d, "rooting") => work'[calls[d].index].state = "absent"
  PROVE  CallOK(calls[d])'
<1>1. PICK y \in Call : y = calls[d] /\ y = calls'[d]
  BY DEF IInv, CallsTypeOK
<1>2. CallOK(y)
  BY <1>1 DEF IInv, AllCallsOK
<1>3. CallOK(y)'
  BY <1>1, <1>2, CallStays DEF IInv, In, Exists
<1>. QED  BY <1>1, <1>3

LEMMA EndNoted ==
  ASSUME IInv, NoteEnd
  PROVE  /\ endedAt' \in 0..Never
         /\ endedAt' = endedAt \/ endedAt' = now \/ endedAt' = Never
         /\ CurrentOpen' => endedAt' = Never
<1>1. now \in 0..Never /\ endedAt \in 0..Never /\ Never \in 0..Never
  BY CallsAssumption DEF IInv, CallsTypeOK, Never
<1>. QED  BY <1>1 DEF NoteEnd

(* The first run of an execution.                                            *)
LEMMA FirstRunOK ==
  ASSUME IInv, NEW c \in Client, NEW x \in Call, Set(c, x), FirstRun, UNCHANGED counts,
         current = NoRun, calls[c].op # "cancel", x.op # "cancel", ~In(c, "rooting"),
         x.index = 0, x.effective, ~x.locked, x.answer # "timed_out",
         \/ x.phase = "answered" /\ x.answer = "ok"
         \/ x.phase = "polling" /\ x.op = "start_and_wait",
         \A d \in Client \ {c} : ~(In(d, "open") /\ calls[d].index = 0)
  PROVE  IInv'
<1>1. /\ calls \in [Client -> Call] /\ runs \in [Run -> RunRow] /\ work \in [Run -> Work]
      /\ 0 \in Run /\ 0 # NoRun /\ now' = now /\ lost' = lost /\ faults' = faults /\ done' = done
  BY CallsAssumption DEF IInv, CallsTypeOK, FirstRun, counts, Run, NoRun
<1>2. calls'[c] = x /\ \A d \in Client \ {c} : calls'[d] = calls[d]
  BY <1>1 DEF Set
<1>3. \A n \in Run : ~Exists(n) /\ work[n].state = "absent"
  BY DEF IInv, RunsOK, LastRunIsCurrent, WorkOK
<1>4. FreshRow \in RunRow /\ FreshRow.status = "scheduled" /\ WorkIn("scheduled") \in Work
      /\ WorkIn("scheduled").state = "scheduled"
  BY DEF FreshRow, NoRow, RunRow, Status, WorkIn, Work
<1>5. work' = [work EXCEPT ![0] = WorkIn("scheduled")]
  BY <1>1, <1>3 DEF FirstRun, WithRoot, RootTaken
<1>6. runs' = [runs EXCEPT ![0] = FreshRow] /\ current' = 0
  BY DEF FirstRun
<1>7. CurrentOpen' /\ endedAt' = Never
  BY <1>1, <1>4, <1>6 DEF FirstRun, CurrentOpen, Open, NoteEnd
<1>8. CallsTypeOK'
  <2>1. endedAt' \in 0..Never
    BY EndNoted DEF FirstRun
  <2>2. runs' \in [Run -> RunRow] /\ work' \in [Run -> Work] /\ calls' \in [Client -> Call]
    BY <1>1, <1>4, <1>5, <1>6 DEF Set
  <2>. QED  BY <1>1, <1>6, <2>1, <2>2 DEF IInv, CallsTypeOK
<1>9. \A n \in Run : Exists(n)' <=> n = 0
  BY <1>1, <1>3, <1>4, <1>6 DEF Exists
<1>10. AllCallsOK'
  <2>1. CallOK(x)'
    BY <1>1, <1>9 DEF CallOK, Early, Making
  <2>2. ASSUME NEW d \in Client \ {c} PROVE CallOK(calls[d])'
    <3>1. CallOK(calls[d]) /\ calls[d] \in Call
      BY <1>1 DEF IInv, AllCallsOK
    <3>2. ~In(d, "committing") /\ ~calls[d].locked
      BY <1>3, <3>1 DEF CallOK, In, Making
    <3>3. ~In(d, "rooting")
      BY <1>3, <3>1, NumberFacts DEF CallOK, In
    <3>4. RunsGrow
      BY <1>3 DEF RunsGrow
    <3>. QED  BY <1>1, <1>2, <1>7, <3>2, <3>3, <3>4, OthersOK DEF IInv, CallsTypeOK
  <2>. QED  BY <1>2, <2>1, <2>2 DEF AllCallsOK
<1>11. NoClash'
  <2>1. ASSUME NEW d \in Client \ {c} PROVE ~Clash(x, calls[d]) /\ ~Clash(calls[d], x)
    <3>1. CallOK(calls[d])
      BY DEF IInv, AllCallsOK
    <3>2. calls[d].effective => calls[d].index # 0
      BY <1>1, <1>3, <3>1 DEF CallOK
    <3>. QED  BY <3>2 DEF Clash
  <2>. QED  BY <1>2, <2>1 DEF IInv, NoClash
<1>12. RunsOK'
  <2>1. LastRunIsCurrent'
    BY <1>1, <1>6, <1>9 DEF LastRunIsCurrent
  <2>2. \A n \in Run : runs'[n].status # "cancelled"
    BY <1>1, <1>3, <1>4, <1>6 DEF Exists
  <2>. QED  BY <1>7, <2>1, <2>2 DEF RunsOK
<1>13. WorkOK'
  <2>1. \A n \in Run : IF n = 0 THEN work'[n].state = "scheduled" ELSE work'[n].state = "absent"
    BY <1>1, <1>3, <1>4, <1>5
  <2>2. CurrentRunHasWork'
    BY <1>1, <1>6, <2>1 DEF CurrentRunHasWork
  <2>. QED  BY <1>9, <2>1, <2>2 DEF WorkOK
<1>. QED  BY <1>8, <1>10, <1>11, <1>12, <1>13 DEF IInv

LEMMA CreateExecutionOK == ASSUME IInv, NEW c \in Client, CreateExecution(c) PROVE IInv'
<1>1. CASE calls[c].op = "start_in_tx" \/ current # NoRun
  BY <1>1, CreatesNothing
<1>2. CASE calls[c].op # "start_in_tx" /\ current = NoRun
  <2>1. /\ calls[c] \in Call /\ CallOK(calls[c]) /\ calls[c].phase = "creating" /\ ~CreationLocked
        /\ UNCHANGED counts
    BY DEF CreateExecution, In, IInv, CallsTypeOK, AllCallsOK
  <2>2. calls[c].op # "cancel" /\ ~calls[c].locked /\ calls[c].answer # "timed_out"
    BY <2>1 DEF CallOK, Making
  <2>. DEFINE y == [calls[c] EXCEPT !.index = 0, !.effective = TRUE]
  <2>3. y \in Call
    <3>1. 0 \in Run
      BY CallsAssumption DEF Run
    <3>. QED  BY <2>1, <3>1 DEF Call
  <2>4. /\ y.op = calls[c].op /\ y.locked = calls[c].locked /\ y.index = 0 /\ y.effective
        /\ y.answer = calls[c].answer
    BY <2>1 DEF Call
  <2>5. FirstRun /\ Started(c, y)
    BY <1>2 DEF CreateExecution
  <2>. HIDE DEF y
  <2>6. PICK x \in Call : /\ Set(c, x) /\ x.op = y.op /\ ~x.locked /\ x.index = 0 /\ x.effective
                          /\ x.answer # "timed_out"
                          /\ \/ x.phase = "answered" /\ x.answer = "ok"
                             \/ x.phase = "polling" /\ x.op = "start_and_wait"
    <3>1. CASE y.op = "start_and_wait"
      BY <2>2, <2>3, <2>4, <2>5, <3>1, WaitingFacts DEF Started
    <3>2. CASE y.op # "start_and_wait"
      BY <2>2, <2>3, <2>4, <2>5, <3>2, AnsweredFacts DEF Started, Answer
    <3>. QED  BY <3>1, <3>2
  <2>. QED  BY <1>2, <2>1, <2>2, <2>4, <2>5, <2>6, FirstRunOK DEF CreationLocked, In
<1>. QED  BY <1>1, <1>2

LEMMA BootstrapOK == ASSUME IInv, NEW c \in Client, Bootstrap(c) PROVE IInv'
<1>1. CASE current # NoRun
  BY <1>1, BootstrapRefused
<1>2. CASE current = NoRun
  <2>1. /\ calls[c] \in Call /\ CallOK(calls[c]) /\ calls[c].phase = "bootstrapping" /\ ~CreationLocked
        /\ UNCHANGED counts
    BY DEF Bootstrap, In, IInv, CallsTypeOK, AllCallsOK
  <2>2. calls[c].op # "cancel"
    BY <2>1 DEF CallOK
  <2>. DEFINE y == [calls[c] EXCEPT !.index = 0, !.effective = TRUE]
  <2>3. y \in Call
    <3>1. 0 \in Run
      BY CallsAssumption DEF Run
    <3>. QED  BY <2>1, <3>1 DEF Call
  <2>4. y.op = calls[c].op /\ y.index = 0 /\ y.effective
    BY <2>1 DEF Call
  <2>5. FirstRun /\ Set(c, Answered(y, "ok"))
    BY <1>2 DEF Bootstrap
  <2>. HIDE DEF y
  <2>6. PICK x \in Call : /\ Set(c, x) /\ x.op = y.op /\ ~x.locked /\ x.index = 0 /\ x.effective
                          /\ x.phase = "answered" /\ x.answer = "ok"
    BY <2>3, <2>4, <2>5, AnsweredFacts DEF Answer
  <2>. QED  BY <1>2, <2>1, <2>2, <2>4, <2>5, <2>6, FirstRunOK DEF CreationLocked, In
<1>. QED  BY <1>1, <1>2

LEMMA CallerCommitsOK == ASSUME IInv, NEW c \in Client, CallerCommits(c) PROVE IInv'
<1>1. CASE calls[c].index # 0
  BY <1>1, CommitsNothing
<1>2. CASE calls[c].index = 0
  <2>1. /\ calls[c] \in Call /\ CallOK(calls[c]) /\ calls[c].phase = "open" /\ UNCHANGED counts
    BY DEF CallerCommits, In, IInv, CallsTypeOK, AllCallsOK
  <2>2. calls[c].op # "cancel" /\ current = NoRun
    BY <1>2, <2>1 DEF CallOK
  <2>. DEFINE y == [calls[c] EXCEPT !.effective = TRUE]
  <2>3. y \in Call
    BY <2>1 DEF Call
  <2>4. y.op = calls[c].op /\ y.index = 0 /\ y.effective
    BY <1>2, <2>1 DEF Call
  <2>5. FirstRun /\ Set(c, Answered(y, "ok"))
    BY <1>2 DEF CallerCommits
  <2>. HIDE DEF y
  <2>6. PICK x \in Call : /\ Set(c, x) /\ x.op = y.op /\ ~x.locked /\ x.index = 0 /\ x.effective
                          /\ x.phase = "answered" /\ x.answer = "ok"
    BY <2>3, <2>4, <2>5, AnsweredFacts DEF Answer
  <2>7. \A d \in Client \ {c} : ~(In(d, "open") /\ calls[d].index = 0)
    BY <1>2, <2>1 DEF IInv, NoClash, Clash, In
  <2>. QED  BY <2>1, <2>2, <2>4, <2>5, <2>6, <2>7, FirstRunOK DEF In
<1>. QED  BY <1>1, <1>2

(* A further run: its number is the next one, whatever others did since.     *)
LEMMA CommitRunOK == ASSUME IInv, NEW c \in Client, CommitRun(c) PROVE IInv'
<1>. DEFINE call == calls[c]
<1>. DEFINE n == calls[c].index
<1>. DEFINE s == calls[c].seen
<1>1. /\ call \in Call /\ CallOK(call) /\ call.phase = "committing" /\ UNCHANGED counts
      /\ calls \in [Client -> Call] /\ runs \in [Run -> RunRow] /\ work \in [Run -> Work]
  BY DEF CommitRun, In, IInv, CallsTypeOK, AllCallsOK
<1>2. /\ s \in Run /\ Exists(s) /\ n \in Run /\ ~Exists(n) /\ n # s
      /\ call.op \in {"start", "start_and_wait", "restart", "rerun"} /\ ~call.effective
      /\ call.answer # "timed_out"
      /\ \A m \in 0..(n - 1) : Exists(m)
  BY <1>1 DEF CallOK, Making, Early
<1>3. call.locked => ~runs[s].closed /\ call.status \notin {"none", "completed", "cancelled"}
  BY <1>1 DEF CallOK
<1>4. current \in Run /\ current # NoRun /\ n = current + 1
  <2>1. current \in Run
    BY <1>2 DEF IInv, CallsTypeOK, RunsOK, LastRunIsCurrent
  <2>2. \A m \in Run : Exists(m) <=> m \in 0..current
    BY <2>1, NumberFacts DEF IInv, RunsOK, LastRunIsCurrent
  <2>3. n \notin 0..current /\ n \in Nat /\ current \in Nat
    BY <1>2, <2>1, <2>2, NumberFacts
  <2>4. ~(current + 1 < n)
    <3>1. SUFFICES ASSUME current + 1 < n PROVE FALSE
      OBVIOUS
    <3>2. current + 1 \in 0..(n - 1) /\ current + 1 \in Run
      BY <1>2, <2>3, <3>1, CallsAssumption DEF Run
    <3>. QED  BY <1>2, <2>2, <2>3, <3>2
  <2>. QED  BY <2>1, <2>3, <2>4, NumberFacts
<1>5. /\ current' = n
      /\ runs' = [m \in Run |->
           CASE m = n -> FreshRow
             [] m = s /\ call.locked -> [runs[m] EXCEPT !.status = call.status, !.closed = TRUE]
             [] OTHER -> runs[m]]
  BY DEF CommitRun, NewCurrent
<1>6. /\ FreshRow \in RunRow /\ FreshRow.status = "scheduled"
      /\ WorkIn("scheduled") \in Work /\ WorkIn("scheduled").state = "scheduled"
  BY DEF FreshRow, NoRow, RunRow, Status, WorkIn, Work
<1>. DEFINE archived == [runs[s] EXCEPT !.status = call.status, !.closed = TRUE]
<1>7. call.locked => /\ archived \in RunRow /\ archived.closed /\ archived.status = call.status
                     /\ archived.status \notin {"none", "completed", "cancelled"}
  <2>1. runs[s] \in RunRow /\ call.status \in Status
    BY <1>1, <1>2 DEF Call
  <2>. HIDE DEF s, call
  <2>. QED  BY <1>3, <2>1 DEF RunRow
<1>8. /\ runs'[n] = FreshRow /\ runs'[s] = (IF call.locked THEN archived ELSE runs[s])
      /\ \A m \in Run \ {n, s} : runs'[m] = runs[m]
      /\ runs' \in [Run -> RunRow]
  <2>. HIDE DEF n, s, archived, call
  <2>1. \A m \in Run : runs'[m] = (CASE m = n -> FreshRow
             [] m = s /\ call.locked -> [runs[m] EXCEPT !.status = call.status, !.closed = TRUE]
             [] OTHER -> runs[m])
    BY <1>5
  <2>2. runs'[n] = FreshRow
    BY <1>2, <2>1
  <2>3. runs'[s] = (IF call.locked THEN archived ELSE runs[s])
    BY <1>2, <2>1 DEF archived
  <2>4. \A m \in Run \ {n, s} : runs'[m] = runs[m]
    BY <2>1
  <2>5. \A m \in Run : runs'[m] \in RunRow
    BY <1>1, <1>6, <1>7, <2>2, <2>3, <2>4
  <2>. QED  BY <1>5, <2>2, <2>3, <2>4, <2>5
<1>. HIDE DEF archived
<1>9. \A m \in Run : Exists(m)' <=> Exists(m) \/ m = n
  BY <1>2, <1>6, <1>7, <1>8 DEF Exists
<1>10. RunsGrow
  <2>1. call.locked => runs[s].status # "cancelled"
    BY <1>2, <1>3 DEF IInv, RunsOK
  <2>2. ASSUME NEW m \in Run, Exists(m)
        PROVE  /\ runs[m].closed => runs'[m].closed
               /\ runs[m].status = "cancelled" => runs'[m].status = "cancelled"
    BY <1>2, <1>7, <1>8, <2>1, <2>2
  <2>. QED  BY <1>9, <2>2 DEF RunsGrow
<1>11. \A m \in Run : runs'[m].status = "cancelled" => runs[m].status = "cancelled" /\ m # n
  BY <1>2, <1>6, <1>7, <1>8
<1>12. work[n].state = "absent" /\ WithRoot(n) = [work EXCEPT ![n] = WorkIn("scheduled")]
  <2>1. work[n].state = "absent"
    BY <1>2 DEF IInv, WorkOK
  <2>. QED  BY <2>1 DEF WithRoot, RootTaken
<1>13. \/ call.op \in {"restart", "rerun"} /\ work' = [work EXCEPT ![n] = WorkIn("scheduled")]
       \/ call.op \in {"start", "start_and_wait"} /\ work' = work
  BY <1>2, <1>12 DEF CommitRun, RootInTx
<1>14. PICK x \in Call :
         /\ Set(c, x) /\ x.op = call.op /\ x.seen = s /\ x.index = n /\ ~x.locked /\ x.effective
         /\ x.answer # "timed_out"
         /\ IF call.op \in {"restart", "rerun"} THEN x.phase = "answered" /\ x.answer = "ok"
                                                ELSE x.phase = "rooting"
  <2>. DEFINE y == [call EXCEPT !.locked = FALSE, !.effective = TRUE]
  <2>1. y \in Call /\ y.op = call.op /\ y.seen = s /\ y.index = n /\ ~y.locked /\ y.effective
        /\ y.answer = call.answer
    BY <1>1 DEF Call
  <2>2. Set(c, IF RootInTx(call.op) THEN Answered(y, "ok") ELSE [y EXCEPT !.phase = "rooting"])
    BY DEF CommitRun
  <2>. HIDE DEF y, n, s, call
  <2>3. CASE RootInTx(call.op)
    BY <2>1, <2>2, <2>3, AnsweredFacts DEF Answer, RootInTx
  <2>4. CASE ~RootInTx(call.op)
    <3>. DEFINE z == [y EXCEPT !.phase = "rooting"]
    <3>1. z \in Call /\ z.op = y.op /\ z.seen = y.seen /\ z.index = y.index /\ ~z.locked
          /\ z.effective /\ z.answer = y.answer /\ z.phase = "rooting"
      BY <2>1 DEF Call, Phase
    <3>2. Set(c, z)
      BY <2>2, <2>4
    <3>. HIDE DEF z
    <3>. QED  BY <1>2, <2>1, <2>4, <3>1, <3>2 DEF RootInTx
  <2>. QED  BY <2>3, <2>4
<1>15. calls'[c] = x /\ \A d \in Client \ {c} : calls'[d] = calls[d]
  BY <1>1, <1>14 DEF Set
<1>16. CurrentOpen' /\ endedAt' = Never
  BY <1>2, <1>5, <1>6, <1>8, NumberFacts DEF CommitRun, NoteEnd, CurrentOpen, Open
<1>17. CallsTypeOK'
  <2>1. endedAt' \in 0..Never
    BY EndNoted DEF CommitRun
  <2>2. done' \in [Run -> SUBSET Step]
    <3>1. call.keep \subseteq Step
      BY <1>1 DEF Call
    <3>. QED  BY <3>1 DEF CommitRun, IInv, CallsTypeOK
  <2>3. work' \in [Run -> Work] /\ calls' \in [Client -> Call]
    BY <1>1, <1>6, <1>13, <1>14 DEF Set
  <2>. QED  BY <1>1, <1>2, <1>5, <1>8, <2>1, <2>2, <2>3 DEF IInv, CallsTypeOK, counts
<1>18. AllCallsOK'
  <2>1. CallOK(x)'
    BY <1>2, <1>9, <1>12, <1>13, <1>14 DEF CallOK, Early, Making
  <2>2. ASSUME NEW d \in Client \ {c} PROVE CallOK(calls[d])'
    <3>1. CallOK(calls[d]) /\ calls[d] \in Call /\ ~Clash(call, calls[d])
      BY <1>1 DEF IInv, AllCallsOK, NoClash
    <3>2. In(d, "open") => calls[d].index # 0
      BY <1>4, <3>1 DEF CallOK, In
    <3>3. In(d, "committing") => runs'[calls[d].index].status = "none"
      BY <1>1, <1>9, <3>1 DEF CallOK, Clash, In, Exists
    <3>4. calls[d].locked => ~runs'[calls[d].seen].closed
      <4>1. calls[d].locked =>
              /\ calls[d].seen \in Run /\ Exists(calls[d].seen) /\ ~runs[calls[d].seen].closed
              /\ call.locked => calls[d].seen # s
        BY <3>1 DEF CallOK, Clash, Making
      <4>. QED  BY <1>2, <1>8, <4>1
    <3>5. In(d, "rooting") => work'[calls[d].index].state = "absent"
      <4>1. In(d, "rooting") =>
              /\ calls[d].index \in Run /\ Exists(calls[d].index)
              /\ work[calls[d].index].state = "absent"
        BY <3>1, NumberFacts DEF CallOK, In
      <4>. QED  BY <1>1, <1>2, <1>13, <4>1
    <3>6. now' \in Nat /\ now <= now' /\ lost \subseteq lost'
      BY <1>1 DEF counts, IInv, CallsTypeOK
    <3>. QED  BY <1>10, <1>15, <1>16, <3>2, <3>3, <3>4, <3>5, <3>6, OthersOK
  <2>. QED  BY <1>15, <2>1, <2>2 DEF AllCallsOK
<1>19. NoClash'
  <2>1. ASSUME NEW d \in Client \ {c} PROVE ~Clash(x, calls[d]) /\ ~Clash(calls[d], x)
    <3>1. calls[d].effective => calls[d].index # n
      BY <1>2, NumberFacts DEF IInv, AllCallsOK, CallOK
    <3>. QED  BY <1>2, <1>14, <3>1 DEF Clash
  <2>. QED  BY <1>15, <2>1 DEF IInv, NoClash
<1>20. RunsOK'
  <2>1. LastRunIsCurrent'
    <3>1. \A m \in Run : Exists(m) <=> m \in 0..current
      BY <1>4, NumberFacts DEF IInv, RunsOK, LastRunIsCurrent
    <3>2. 0..n = (0..current) \cup {n} /\ 0..n \subseteq Run
      BY <1>2, <1>4, CallsAssumption DEF Run
    <3>3. {m \in Run : Exists(m)'} = 0..n
      BY <1>9, <3>1, <3>2
    <3>4. n # NoRun
      BY <1>2, NumberFacts
    <3>. QED  BY <1>5, <3>3, <3>4 DEF LastRunIsCurrent, NoRun, Run
  <2>2. ASSUME NEW m \in Run, runs'[m].status = "cancelled"
        PROVE  runs'[m].closed /\ CancelledBySome(m)'
    <3>1. runs[m].status = "cancelled" /\ Exists(m)
      BY <1>11, <2>2 DEF Exists
    <3>2. PICK d \in Client : calls[d].op = "cancel" /\ calls[d].effective /\ calls[d].seen = m
      BY <3>1 DEF IInv, RunsOK, CancelledBySome
    <3>3. d # c
      BY <1>2, <3>2
    <3>4. runs[m].closed
      BY <3>1 DEF IInv, RunsOK
    <3>. QED  BY <1>10, <1>15, <3>1, <3>2, <3>3, <3>4 DEF RunsGrow, CancelledBySome
  <2>. QED  BY <1>16, <2>1, <2>2 DEF RunsOK
<1>21. WorkOK'
  <2>1. \A m \in Run \ {n} : work'[m] = work[m]
    BY <1>1, <1>13
  <2>2. work'[n].state \in {"absent", "scheduled"}
    BY <1>1, <1>2, <1>6, <1>12, <1>13
  <2>3. CurrentRunHasWork'
    <3>1. CASE call.op \in {"restart", "rerun"}
      BY <1>1, <1>2, <1>5, <1>6, <1>13, <3>1 DEF CurrentRunHasWork
    <3>2. CASE call.op \in {"start", "start_and_wait"}
      BY <1>5, <1>14, <1>15, <3>2 DEF CurrentRunHasWork, In
    <3>. QED  BY <1>2, <3>1, <3>2
  <2>. QED  BY <1>9, <2>1, <2>2, <2>3 DEF IInv, WorkOK
<1>. QED  BY <1>17, <1>18, <1>19, <1>20, <1>21 DEF IInv

(* The row of a run that no transaction has written gets another status.     *)
LEMMA RowChanges ==
  ASSUME IInv, NEW n \in Run, NEW row \in RunRow, Exists(n), ~RunLocked(n), row.status # "none",
         runs[n].closed => row.closed, runs[n].status = "cancelled" => row.status = "cancelled",
         runs' = [runs EXCEPT ![n] = row], UNCHANGED <<current, now, lost>>, NoteEnd
  PROVE  /\ RunsGrow /\ LastRunIsCurrent' /\ runs' \in [Run -> RunRow]
         /\ \A m \in Run : Exists(m)' <=> Exists(m)
         /\ \A m \in Run \ {n} : runs'[m] = runs[m]
         /\ runs'[n] = row
         /\ \A d \in Client :
              calls'[d] = calls[d] /\ (In(d, "rooting") => work'[calls[d].index] = work[calls[d].index])
                => CallOK(calls[d])'
<1>1. runs \in [Run -> RunRow]
  BY DEF IInv, CallsTypeOK
<1>2. runs'[n] = row /\ (\A m \in Run \ {n} : runs'[m] = runs[m]) /\ runs' \in [Run -> RunRow]
  BY <1>1
<1>3. \A m \in Run : Exists(m)' <=> Exists(m)
  BY <1>2 DEF Exists
<1>4. RunsGrow
  BY <1>2, <1>3 DEF RunsGrow
<1>5. LastRunIsCurrent'
  BY <1>3 DEF IInv, RunsOK, LastRunIsCurrent
<1>6. ASSUME NEW d \in Client, calls'[d] = calls[d],
             In(d, "rooting") => work'[calls[d].index] = work[calls[d].index]
      PROVE  CallOK(calls[d])'
  <2>1. CallOK(calls[d]) /\ calls[d] \in Call
    BY DEF IInv, AllCallsOK, CallsTypeOK
  <2>2. In(d, "open") /\ calls[d].index = 0 => current' = NoRun
    BY <2>1 DEF CallOK, In
  <2>3. In(d, "committing") => runs'[calls[d].index].status = "none"
    BY <1>3, <2>1 DEF CallOK, In, Exists
  <2>4. calls[d].locked => ~runs'[calls[d].seen].closed
    BY <1>2, <2>1 DEF CallOK, RunLocked, Making
  <2>5. In(d, "rooting") => work'[calls[d].index].state = "absent"
    BY <1>6, <2>1 DEF CallOK, In
  <2>6. now' \in Nat /\ now <= now' /\ lost \subseteq lost'
    BY DEF IInv, CallsTypeOK
  <2>. QED  BY <1>4, <1>6, <2>2, <2>3, <2>4, <2>5, <2>6, EndNoted, OthersOK
<1>. QED  BY <1>2, <1>3, <1>4, <1>5, <1>6

LEMMA CancelRunOK == ASSUME IInv, NEW c \in Client, CancelRun(c) PROVE IInv'
<1>1. /\ calls[c] \in Call /\ CallOK(calls[c]) /\ calls[c].phase = "cancelling"
      /\ UNCHANGED <<current, done, work, counts>> /\ NoteEnd
      /\ calls \in [Client -> Call] /\ runs \in [Run -> RunRow]
  BY DEF CancelRun, In, IInv, CallsTypeOK, AllCallsOK
<1>2. /\ calls[c].phase \in Early /\ ~calls[c].effective /\ ~calls[c].locked /\ calls[c].op = "cancel"
      /\ calls[c].index = NoRun /\ calls[c].answer # "timed_out"
  BY <1>1 DEF CallOK, Early, Making
<1>3. CASE calls[c].seen # NoRun /\ Cancellable(calls[c].seen)
  <2>0. PICK n \in Run : n = calls[c].seen /\ Cancellable(n)
    BY <1>1, <1>3 DEF Call
  <2>1. n \in Run /\ Exists(n) /\ runs[n].status = "scheduled" /\ ~RunLocked(n)
    BY <1>1, <1>3, <2>0 DEF Cancellable, Open, Exists, CancelRun
  <2>2. PICK row \in RunRow : /\ runs' = [runs EXCEPT ![n] = row]
                              /\ row.status = "cancelled" /\ row.closed
    <3>. DEFINE r == [runs[n] EXCEPT !.status = "cancelled", !.closed = TRUE]
    <3>1. runs' = [runs EXCEPT ![n] = r]
      BY <1>1, <1>3, <2>0, <2>1 DEF CancelRun
    <3>2. r \in RunRow /\ r.status = "cancelled" /\ r.closed
      <4>1. runs[n] \in RunRow
        BY <1>1, <2>1
      <4>. QED  BY <2>1, <4>1 DEF RunRow, Status, Terminal
    <3>. QED  BY <3>1, <3>2
  <2>3. PICK x \in Call :
          /\ Set(c, x) /\ x.phase = "sweeping" /\ x.answer = "ok" /\ x.effective
          /\ x.op = "cancel" /\ x.seen = n /\ x.index = NoRun /\ ~x.locked
    <3>. DEFINE y == [calls[c] EXCEPT !.phase = "sweeping", !.answer = "ok", !.effective = TRUE]
    <3>1. y \in Call
      BY <1>1 DEF Call, Phase, Answer
    <3>2. /\ y.phase = "sweeping" /\ y.answer = "ok" /\ y.effective /\ y.op = "cancel"
          /\ y.seen = n /\ y.index = NoRun /\ ~y.locked
      BY <1>1, <1>2, <2>0 DEF Call
    <3>3. Set(c, y)
      BY <1>3 DEF CancelRun
    <3>. QED  BY <3>1, <3>2, <3>3
  <2>4. calls'[c] = x /\ \A d \in Client \ {c} : calls'[d] = calls[d]
    BY <1>1, <2>3 DEF Set
  <2>5. /\ RunsGrow /\ LastRunIsCurrent' /\ runs' \in [Run -> RunRow]
        /\ \A m \in Run : Exists(m)' <=> Exists(m)
        /\ \A m \in Run \ {n} : runs'[m] = runs[m]
        /\ runs'[n].status = "cancelled" /\ runs'[n].closed
        /\ \A d \in Client \ {c} : CallOK(calls[d])'
    BY <1>1, <2>1, <2>2, <2>4, RowChanges DEF counts
  <2>6. CallsTypeOK'
    BY <1>1, <2>3, <2>5, EndNoted DEF IInv, CallsTypeOK, counts, Set
  <2>7. AllCallsOK'
    <3>1. CallOK(x)'
      BY <2>1, <2>3, <2>5 DEF CallOK, Early, Making
    <3>. QED  BY <2>4, <2>5, <3>1 DEF AllCallsOK
  <2>8. NoClash'
    <3>1. ASSUME NEW d \in Client \ {c} PROVE ~Clash(x, calls[d]) /\ ~Clash(calls[d], x)
      <4>1. calls[d].op = "cancel" /\ calls[d].effective => calls[d].seen # n
        BY <2>1 DEF IInv, AllCallsOK, CallOK
      <4>. QED  BY <2>3, <4>1 DEF Clash
    <3>. QED  BY <2>4, <3>1 DEF IInv, NoClash
  <2>9. RunsOK'
    <3>1. \A m \in Run : CancelledBySome(m) => CancelledBySome(m)'
      BY <1>2, <2>4 DEF CancelledBySome
    <3>2. CancelledBySome(n)'
      BY <2>3, <2>4 DEF CancelledBySome
    <3>3. \A m \in Run : runs'[m].status = "cancelled" => runs'[m].closed /\ CancelledBySome(m)'
      BY <2>5, <3>1, <3>2 DEF IInv, RunsOK
    <3>. QED  BY <1>1, <2>5, <3>3, EndNoted DEF RunsOK
  <2>10. WorkOK'
    <3>1. CurrentOpen' => CurrentOpen
      BY <1>1, <2>1, <2>2, <2>5 DEF CurrentOpen, Open, IInv, CallsTypeOK
    <3>2. \A d \in Client : In(d, "rooting") => In(d, "rooting")' /\ calls'[d].index = calls[d].index
      BY <1>1, <2>4 DEF In
    <3>3. CurrentRunHasWork'
      BY <1>1, <3>1, <3>2 DEF IInv, WorkOK, CurrentRunHasWork, counts
    <3>. QED  BY <1>1, <2>5, <3>3 DEF IInv, WorkOK
  <2>. QED  BY <2>6, <2>7, <2>8, <2>9, <2>10 DEF IInv
<1>4. CASE ~(calls[c].seen # NoRun /\ Cancellable(calls[c].seen))
  <2>1. UNCHANGED <<rows, work, counts>>
    <3>1. UNCHANGED runs
      BY <1>4 DEF CancelRun
    <3>2. CurrentOpen' = CurrentOpen
      BY <1>1, <3>1 DEF CurrentOpen, Open
    <3>3. endedAt' = endedAt
      BY <1>1, <3>2 DEF NoteEnd, IInv, RunsOK
    <3>. QED  BY <1>1, <3>1, <3>3 DEF rows
  <2>2. PICK x \in Call :
          /\ Set(c, x) /\ x.phase = "sweeping" /\ x.answer = "false" /\ ~x.effective
          /\ x.op = "cancel" /\ x.index = NoRun /\ ~x.locked
    <3>. DEFINE y == [calls[c] EXCEPT !.phase = "sweeping", !.answer = "false"]
    <3>1. y \in Call
      BY <1>1 DEF Call, Phase, Answer
    <3>2. /\ y.phase = "sweeping" /\ y.answer = "false" /\ ~y.effective /\ y.op = "cancel"
          /\ y.index = NoRun /\ ~y.locked
      BY <1>1, <1>2 DEF Call
    <3>3. Set(c, y)
      BY <1>4 DEF CancelRun
    <3>. QED  BY <3>1, <3>2, <3>3
  <2>3. CallOK(x)
    BY <2>2 DEF CallOK, Early, Making
  <2>4. \A d \in Client \ {c} : ~Clash(x, calls[d])
    BY <2>2, QuietCall DEF IInv
  <2>. QED  BY <1>2, <2>1, <2>2, <2>3, <2>4, MovesAlone
<1>. QED  BY <1>3, <1>4

LEMMA SweepTasksOK == ASSUME IInv, NEW c \in Client, SweepTasks(c) PROVE IInv'
<1>1. /\ calls[c] \in Call /\ CallOK(calls[c]) /\ calls[c].phase = "sweeping"
      /\ UNCHANGED <<rows, now, faults>>
      /\ calls \in [Client -> Call] /\ work \in [Run -> Work] /\ lost \subseteq Run
  BY DEF SweepTasks, In, IInv, CallsTypeOK, AllCallsOK
<1>2. calls[c].op = "cancel" /\ calls[c].index = NoRun /\ ~calls[c].locked
      /\ calls[c].answer # "timed_out"
  BY <1>1 DEF CallOK, Making
<1>3. PICK x \in Call :
        /\ Set(c, x) /\ x.phase = "answered" /\ x.op = "cancel" /\ x.index = NoRun /\ ~x.locked
        /\ x.effective = calls[c].effective /\ x.seen = calls[c].seen /\ x.answer # "timed_out"
  <2>. DEFINE y == [calls[c] EXCEPT !.phase = "answered"]
  <2>1. y \in Call
    BY <1>1 DEF Call, Phase
  <2>2. /\ y.phase = "answered" /\ y.op = "cancel" /\ y.index = NoRun /\ ~y.locked
        /\ y.effective = calls[c].effective /\ y.seen = calls[c].seen /\ y.answer # "timed_out"
    BY <1>1, <1>2 DEF Call
  <2>3. Set(c, y)
    BY DEF SweepTasks, Goto
  <2>. QED  BY <2>1, <2>2, <2>3
<1>4. calls'[c] = x /\ \A d \in Client \ {c} : calls'[d] = calls[d]
  BY <1>1, <1>3 DEF Set
<1>5. WorkIn("cancelled") \in Work /\ WorkIn("cancelled").state = "cancelled"
  BY DEF WorkIn, Work
<1>6. \A n \in Run : IF work[n].state = "scheduled" THEN work'[n] = WorkIn("cancelled")
                                                    ELSE work'[n] = work[n]
  BY DEF SweepTasks, Swept
<1>7. \A n \in Run : Exists(n)' = Exists(n)
  BY <1>1 DEF rows, Exists
<1>8. RunsGrow
  BY <1>1 DEF RunsGrow, rows, Exists
<1>9. lost \subseteq lost' /\ lost' \subseteq Run
      /\ \A n \in Run : work[n].state = "scheduled" /\ Open(n) => n \in lost'
  BY <1>1 DEF SweepTasks, Swept
<1>10. CallsTypeOK'
  <2>1. work' \in [Run -> Work]
    BY <1>1, <1>5 DEF SweepTasks
  <2>. QED  BY <1>1, <1>3, <1>9, <2>1 DEF IInv, CallsTypeOK, rows, Set
<1>11. AllCallsOK'
  <2>1. CallOK(x)'
    BY <1>1, <1>2, <1>3 DEF CallOK, Early, Making, rows
  <2>2. ASSUME NEW d \in Client \ {c} PROVE CallOK(calls[d])'
    <3>1. CallOK(calls[d]) /\ calls[d] \in Call
      BY DEF IInv, AllCallsOK, CallsTypeOK
    <3>2. In(d, "open") /\ calls[d].index = 0 => current' = NoRun
      BY <1>1, <3>1 DEF CallOK, In, rows
    <3>3. In(d, "committing") => runs'[calls[d].index].status = "none"
      BY <1>1, <3>1 DEF CallOK, In, rows, Exists
    <3>4. calls[d].locked => ~runs'[calls[d].seen].closed
      BY <1>1, <3>1 DEF CallOK, rows
    <3>5. In(d, "rooting") => work'[calls[d].index].state = "absent"
      BY <1>6, <3>1 DEF CallOK, In
    <3>6. now' \in Nat /\ now <= now' /\ endedAt' = endedAt
      BY <1>1 DEF IInv, CallsTypeOK, rows
    <3>. QED  BY <1>4, <1>8, <1>9, <3>2, <3>3, <3>4, <3>5, <3>6, OthersOK
  <2>. QED  BY <1>4, <2>1, <2>2 DEF AllCallsOK
<1>12. NoClash'
  <2>1. ASSUME NEW d \in Client \ {c} PROVE ~Clash(x, calls[d]) /\ ~Clash(calls[d], x)
    BY <1>2, <1>3 DEF IInv, NoClash, Clash
  <2>. QED  BY <1>4, <2>1 DEF IInv, NoClash
<1>13. RunsOK'
  <2>1. \A n \in Run : CancelledBySome(n) => CancelledBySome(n)'
    BY <1>3, <1>4 DEF CancelledBySome
  <2>. QED  BY <1>1, <2>1 DEF IInv, RunsOK, rows, LastRunIsCurrent, Exists, CurrentOpen, Open
<1>14. WorkOK'
  <2>1. \A d \in Client : In(d, "rooting") => In(d, "rooting")' /\ calls'[d].index = calls[d].index
    BY <1>1, <1>4 DEF In
  <2>2. CurrentRunHasWork'
    <3>1. CurrentOpen' => CurrentOpen /\ current \in Run /\ current' = current
      BY <1>1 DEF CurrentOpen, Open, rows, IInv, CallsTypeOK
    <3>. QED  BY <1>6, <1>9, <2>1, <3>1 DEF IInv, WorkOK, CurrentRunHasWork, CurrentOpen
  <2>. QED  BY <1>1, <1>5, <1>6, <1>7, <2>2 DEF IInv, WorkOK, WorkIn
<1>. QED  BY <1>10, <1>11, <1>12, <1>13, <1>14 DEF IInv

LEMMA ScheduleRootOK == ASSUME IInv, NEW c \in Client, ScheduleRoot(c) PROVE IInv'
<1>1. /\ calls[c] \in Call /\ CallOK(calls[c]) /\ calls[c].phase = "rooting"
      /\ UNCHANGED <<rows, counts>>
      /\ calls \in [Client -> Call] /\ work \in [Run -> Work] /\ lost \subseteq Run
  BY DEF ScheduleRoot, In, IInv, CallsTypeOK, AllCallsOK
<1>2. PICK n \in Run : n = calls[c].index /\ work[n].state = "absent" /\ Exists(n)
  BY <1>1, NumberFacts DEF CallOK
<1>3. calls[c].op \in {"start", "start_and_wait"} /\ calls[c].effective /\ ~calls[c].locked
      /\ calls[c].answer # "timed_out"
  BY <1>1 DEF CallOK, Making
<1>4. PICK x \in Call :
        /\ Set(c, x) /\ x.op = calls[c].op /\ x.index = n /\ ~x.locked /\ x.effective
        /\ x.seen = calls[c].seen /\ x.answer # "timed_out"
        /\ \/ x.phase = "answered" /\ x.answer = "ok"
           \/ x.phase = "polling" /\ x.op = "start_and_wait"
  <2>1. CASE calls[c].op = "start_and_wait"
    BY <1>1, <1>2, <1>3, <2>1, WaitingFacts DEF ScheduleRoot, Started
  <2>2. CASE calls[c].op = "start"
    BY <1>1, <1>2, <1>3, <2>2, AnsweredFacts DEF ScheduleRoot, Started, Answer
  <2>. QED  BY <1>3, <2>1, <2>2
<1>5. calls'[c] = x /\ \A d \in Client \ {c} : calls'[d] = calls[d]
  BY <1>1, <1>4 DEF Set
<1>6. WorkIn("scheduled") \in Work /\ WorkIn("scheduled").state = "scheduled"
  BY DEF WorkIn, Work
<1>7. work' = [work EXCEPT ![n] = WorkIn("scheduled")]
  BY <1>2 DEF ScheduleRoot, WithRoot, RootTaken
<1>8. RunsGrow /\ \A m \in Run : Exists(m)' = Exists(m)
  BY <1>1 DEF RunsGrow, rows, Exists
<1>9. CallsTypeOK'
  <2>1. work' \in [Run -> Work]
    BY <1>1, <1>6, <1>7
  <2>. QED  BY <1>1, <1>4, <2>1 DEF IInv, CallsTypeOK, rows, counts, Set
<1>10. AllCallsOK'
  <2>1. CallOK(x)'
    BY <1>1, <1>2, <1>3, <1>4, <1>8 DEF CallOK, Early, Making
  <2>2. ASSUME NEW d \in Client \ {c} PROVE CallOK(calls[d])'
    <3>1. CallOK(calls[d]) /\ calls[d] \in Call /\ ~Clash(calls[c], calls[d])
      BY DEF IInv, AllCallsOK, CallsTypeOK, NoClash
    <3>2. In(d, "open") /\ calls[d].index = 0 => current' = NoRun
      BY <1>1, <3>1 DEF CallOK, In, rows
    <3>3. In(d, "committing") => runs'[calls[d].index].status = "none"
      BY <1>1, <3>1 DEF CallOK, In, rows, Exists
    <3>4. calls[d].locked => ~runs'[calls[d].seen].closed
      BY <1>1, <3>1 DEF CallOK, rows
    <3>5. In(d, "rooting") => work'[calls[d].index].state = "absent"
      <4>1. In(d, "rooting") => calls[d].index \in Run \ {n} /\ work[calls[d].index].state = "absent"
        BY <1>2, <1>3, <3>1, NumberFacts DEF CallOK, Clash, In
      <4>. QED  BY <1>1, <1>7, <4>1
    <3>6. now' \in Nat /\ now <= now' /\ endedAt' = endedAt /\ lost \subseteq lost'
      BY <1>1 DEF IInv, CallsTypeOK, rows, counts
    <3>. QED  BY <1>5, <1>8, <3>2, <3>3, <3>4, <3>5, <3>6, OthersOK
  <2>. QED  BY <1>5, <2>1, <2>2 DEF AllCallsOK
<1>11. NoClash'
  <2>1. ASSUME NEW d \in Client \ {c} PROVE ~Clash(x, calls[d]) /\ ~Clash(calls[d], x)
    BY <1>2, <1>3, <1>4 DEF IInv, NoClash, Clash
  <2>. QED  BY <1>5, <2>1 DEF IInv, NoClash
<1>12. RunsOK'
  <2>1. \A m \in Run : CancelledBySome(m) => CancelledBySome(m)'
    BY <1>3, <1>4, <1>5 DEF CancelledBySome
  <2>. QED  BY <1>1, <2>1 DEF IInv, RunsOK, rows, LastRunIsCurrent, Exists, CurrentOpen, Open
<1>13. WorkOK'
  <2>1. \A m \in Run \ {n} : work'[m] = work[m]
    BY <1>1, <1>7
  <2>2. work'[n].state = "scheduled"
    BY <1>1, <1>6, <1>7
  <2>3. \A d \in Client \ {c} : In(d, "rooting") => In(d, "rooting")' /\ calls'[d].index = calls[d].index
    BY <1>5 DEF In
  <2>4. CurrentRunHasWork'
    <3>1. CurrentOpen' => CurrentOpen /\ current \in Run /\ current' = current
      BY <1>1 DEF CurrentOpen, Open, rows, IInv, CallsTypeOK
    <3>2. lost' = lost
      BY <1>1 DEF counts
    <3>. QED  BY <1>2, <2>1, <2>2, <2>3, <3>1, <3>2 DEF IInv, WorkOK, CurrentRunHasWork
  <2>. QED  BY <1>2, <1>8, <2>1, <2>2, <2>4 DEF IInv, WorkOK
<1>. QED  BY <1>9, <1>10, <1>11, <1>12, <1>13 DEF IInv

-----------------------------------------------------------------------------
(* The workers, and the whole.                                              *)

(* The calls stay as they are.                                               *)
LEMMA CallsKeep ==
  ASSUME IInv, UNCHANGED <<current, runs, endedAt, calls, lost>>, now' \in Nat, now <= now',
         \A n \in Run : work[n].state = "absent" => work'[n].state = "absent"
  PROVE  AllCallsOK' /\ NoClash' /\ RunsOK'
<1>1. \A n : Exists(n)' = Exists(n)
  BY DEF Exists
<1>2. RunsGrow
  BY <1>1 DEF RunsGrow
<1>3. ASSUME NEW d \in Client PROVE CallOK(calls[d])'
  <2>1. CallOK(calls[d])
    BY DEF IInv, AllCallsOK
  <2>2. /\ In(d, "open") /\ calls[d].index = 0 => current' = NoRun
        /\ In(d, "committing") => runs'[calls[d].index].status = "none"
        /\ calls[d].locked => ~runs'[calls[d].seen].closed
        /\ In(d, "rooting") => work'[calls[d].index].state = "absent"
    BY <2>1 DEF CallOK, In, Exists
  <2>. QED  BY <1>2, <2>2, OthersOK
<1>4. NoClash'
  BY DEF IInv, NoClash, Clash
<1>5. RunsOK'
  <2>1. \A n \in Run : CancelledBySome(n)' = CancelledBySome(n)
    BY DEF CancelledBySome
  <2>. QED  BY <1>1, <2>1 DEF IInv, RunsOK, LastRunIsCurrent, CurrentOpen, Open
<1>. QED  BY <1>3, <1>4, <1>5 DEF AllCallsOK

LEMMA WorkKeep ==
  ASSUME IInv, NEW n \in Run, NEW w \in Work, work' = [work EXCEPT ![n] = w],
         work[n].state # "absent", w.state \in {"scheduled", "active"},
         UNCHANGED <<current, runs, endedAt, calls, counts>>, done' \in [Run -> SUBSET Step]
  PROVE  IInv'
<1>1. work \in [Run -> Work] /\ now' \in Nat /\ now <= now' /\ lost' = lost
  BY DEF IInv, CallsTypeOK, counts
<1>2. AllCallsOK' /\ NoClash' /\ RunsOK'
  BY <1>1, CallsKeep
<1>3. CallsTypeOK'
  BY <1>1 DEF IInv, CallsTypeOK, counts
<1>4. WorkOK'
  <2>1. CurrentRunHasWork'
    BY <1>1 DEF IInv, WorkOK, CurrentRunHasWork, CurrentOpen, Open, In, CallsTypeOK
  <2>. QED  BY <1>1, <2>1 DEF IInv, WorkOK, Exists
<1>. QED  BY <1>2, <1>3, <1>4 DEF IInv

LEMMA CarryOK == ASSUME IInv, NEW n \in Run, Carry(n) PROVE IInv'
<1>1. work \in [Run -> Work] /\ runs \in [Run -> RunRow] /\ done \in [Run -> SUBSET Step]
      /\ calls \in [Client -> Call] /\ current \in Run \cup {NoRun}
  BY DEF IInv, CallsTypeOK
<1>2. CASE PickUp(n)
  <2>1. WorkIn("active") \in Work /\ WorkIn("active").state = "active"
    BY DEF WorkIn, Work
  <2>. QED  BY <1>1, <1>2, <2>1, WorkKeep DEF PickUp, rows
<1>3. CASE StepCompletes(n)
  <2>1. WorkIn("scheduled") \in Work /\ WorkIn("scheduled").state = "scheduled"
    BY DEF WorkIn, Work
  <2>2. done' \in [Run -> SUBSET Step]
    BY <1>1, <1>3 DEF StepCompletes
  <2>. QED  BY <1>1, <1>3, <2>1, <2>2, WorkKeep DEF StepCompletes
<1>4. CASE BodyEnds(n)
  <2>1. UNCHANGED <<rows, calls, counts>> /\ work[n].state = "active"
    BY <1>4 DEF BodyEnds
  <2>2. PICK w \in Work : /\ work' = [work EXCEPT ![n] = w]
                          /\ w.state = "concluding" /\ w.seen = current
    <3>1. PICK outcome \in {"completed", "failed"} :
            work' = [work EXCEPT ![n] = [state |-> "concluding", seen |-> current, outcome |-> outcome]]
      BY <1>4 DEF BodyEnds
    <3>2. [state |-> "concluding", seen |-> current, outcome |-> outcome] \in Work
      BY <1>1 DEF Work
    <3>. QED  BY <3>1, <3>2
  <2>3. Exists(n) /\ current \in Run /\ Exists(current) /\ n <= current
    BY <1>1, <2>1, NumberFacts DEF IInv, WorkOK, RunsOK, LastRunIsCurrent, Run
  <2>4. CallsTypeOK'
    BY <1>1, <2>1, <2>2 DEF IInv, CallsTypeOK, rows, counts
  <2>5. AllCallsOK' /\ NoClash' /\ RunsOK'
    <3>1. now' \in Nat /\ now <= now' /\ UNCHANGED <<current, runs, endedAt, calls, lost>>
      BY <2>1 DEF IInv, CallsTypeOK, rows, counts
    <3>2. \A m \in Run : work[m].state = "absent" => work'[m].state = "absent"
      BY <1>1, <2>1, <2>2
    <3>. QED  BY <3>1, <3>2, CallsKeep
  <2>6. WorkOK'
    <3>1. CurrentRunHasWork'
      BY <1>1, <2>1, <2>2 DEF IInv, WorkOK, CurrentRunHasWork, CurrentOpen, Open, In, rows, counts
    <3>. QED  BY <1>1, <2>1, <2>2, <2>3, <3>1 DEF IInv, WorkOK, Exists, rows
  <2>. QED  BY <2>4, <2>5, <2>6 DEF IInv
<1>5. CASE ConcludeExecution(n)
  <2>1. /\ work[n].state = "concluding" /\ UNCHANGED <<current, done, calls, counts>> /\ NoteEnd
    BY <1>5 DEF ConcludeExecution
  <2>2. PICK s \in Run : s = work[n].seen /\ Exists(s) /\ n <= s
    BY <2>1 DEF IInv, WorkOK
  <2>3. PICK row \in RunRow :
          /\ runs' = [runs EXCEPT ![s] = row] /\ row.status # "none"
          /\ row.status \in Terminal
          /\ runs[s].closed => row.closed
          /\ (row.status = "cancelled") = (runs[s].status = "cancelled")
    <3>. DEFINE outcome == work[n].outcome
    <3>. DEFINE r == Concluded(runs[s], outcome)
    <3>1. outcome \in {"completed", "failed"} /\ runs[s] \in RunRow
      BY <1>1 DEF Work
    <3>2. runs' = [runs EXCEPT ![s] = r]
      BY <1>5, <2>2 DEF ConcludeExecution
    <3>3. r \in RunRow /\ r.status \in Terminal /\ (runs[s].closed => r.closed)
          /\ ((r.status = "cancelled") = (runs[s].status = "cancelled"))
      <4>. HIDE DEF outcome
      <4>1. CASE runs[s].status = "cancelled"
        BY <3>1, <4>1 DEF Concluded, Terminal
      <4>2. CASE runs[s].status # "cancelled" /\ outcome = "failed"
        BY <3>1, <4>2 DEF Concluded, RunRow, Terminal, Status
      <4>3. CASE runs[s].status # "cancelled" /\ outcome # "failed"
        BY <3>1, <4>3 DEF Concluded, RunRow, Terminal, Status
      <4>. QED  BY <4>1, <4>2, <4>3
    <3>4. r.status # "none"
      BY <3>3 DEF Terminal
    <3>. HIDE DEF r
    <3>. QED  BY <3>2, <3>3, <3>4
  <2>4. WorkIn("over") \in Work /\ WorkIn("over").state = "over"
        /\ work' = [work EXCEPT ![n] = WorkIn("over")]
    BY <1>5 DEF ConcludeExecution, WorkIn, Work
  <2>5. \A d \in Client : In(d, "rooting") => work'[calls[d].index] = work[calls[d].index]
    <3>1. \A d \in Client : In(d, "rooting") =>
            calls[d].index \in Run /\ work[calls[d].index].state = "absent"
      BY DEF IInv, AllCallsOK, CallOK, In
    <3>. QED  BY <1>1, <2>1, <2>4, <3>1
  <2>6. ~RunLocked(s)
    BY <1>5, <2>2 DEF ConcludeExecution
  <2>7. /\ RunsGrow /\ LastRunIsCurrent' /\ runs' \in [Run -> RunRow]
        /\ \A m \in Run : Exists(m)' <=> Exists(m)
        /\ \A m \in Run \ {s} : runs'[m] = runs[m]
        /\ runs'[s] = row
        /\ \A d \in Client : CallOK(calls[d])'
    BY <2>1, <2>2, <2>3, <2>5, <2>6, RowChanges DEF counts
  <2>8. CallsTypeOK'
    BY <1>1, <2>1, <2>4, <2>7, EndNoted DEF IInv, CallsTypeOK, counts
  <2>9. NoClash'
    BY <2>1 DEF IInv, NoClash, Clash
  <2>10. RunsOK'
    <3>1. \A m \in Run : CancelledBySome(m)' = CancelledBySome(m)
      BY <2>1 DEF CancelledBySome
    <3>2. ASSUME NEW m \in Run, runs'[m].status = "cancelled"
          PROVE  runs'[m].closed /\ CancelledBySome(m)'
      <4>1. runs[m].status = "cancelled" /\ (runs[m].closed => runs'[m].closed)
        BY <2>3, <2>7, <3>2
      <4>. QED  BY <3>1, <4>1 DEF IInv, RunsOK
    <3>. QED  BY <2>1, <2>7, <3>1, <3>2, EndNoted DEF RunsOK
  <2>11. WorkOK'
    <3>1. ASSUME CurrentOpen' PROVE CurrentOpen /\ current # s /\ current' = current /\ current \in Run
      <4>1. s # NoRun /\ current' = current
        BY <2>1, NumberFacts
      <4>2. current \in Run /\ current # s
        BY <1>1, <2>3, <2>7, <3>1, <4>1 DEF CurrentOpen, Open, Terminal
      <4>. QED  BY <2>7, <3>1, <4>1, <4>2 DEF CurrentOpen, Open
    <3>2. CurrentOpen' => n # current
      <4>1. s \in Nat /\ (CurrentOpen' => current \in Nat /\ s <= current)
        <5>1. current \in Run => s \in 0..current
          BY <2>2, NumberFacts DEF IInv, RunsOK, LastRunIsCurrent
        <5>2. s \in Nat /\ Run \subseteq Nat
          BY NumberFacts
        <5>3. ASSUME current \in Run PROVE current \in Nat /\ s <= current
          BY <5>1, <5>2, <5>3
        <5>. QED  BY <3>1, <5>2, <5>3
      <4>2. n \in Nat
        BY NumberFacts
      <4>. QED  BY <2>2, <3>1, <4>1, <4>2
    <3>3. CurrentRunHasWork'
      <4>1. CurrentOpen' => work'[current] = work[current]
        BY <1>1, <2>4, <3>1, <3>2
      <4>2. lost' = lost /\ calls' = calls
        BY <2>1 DEF counts
      <4>3. CurrentRunHasWork
        BY DEF IInv, WorkOK
      <4>. QED  BY <3>1, <4>1, <4>2, <4>3 DEF CurrentRunHasWork, In
    <3>. QED  BY <1>1, <2>1, <2>4, <2>7, <3>3 DEF IInv, WorkOK
  <2>. QED  BY <2>7, <2>8, <2>9, <2>10, <2>11 DEF IInv, AllCallsOK
<1>. QED  BY <1>2, <1>3, <1>4, <1>5 DEF Carry

LEMMA TickOK == ASSUME IInv, Tick PROVE IInv'
<1>1. now' \in 0..MaxNow /\ now <= now' /\ UNCHANGED <<rows, work, calls, lost, faults>>
  BY CallsAssumption DEF Tick, IInv, CallsTypeOK
<1>2. UNCHANGED <<current, runs, endedAt>> /\ now' \in Nat
  BY <1>1, CallsAssumption DEF rows
<1>3. AllCallsOK' /\ NoClash' /\ RunsOK'
  BY <1>1, <1>2, CallsKeep
<1>4. CallsTypeOK'
  BY <1>1 DEF IInv, CallsTypeOK, rows
<1>5. WorkOK'
  BY <1>1, <1>2 DEF IInv, WorkOK, CurrentRunHasWork, CurrentOpen, Open, Exists, In
<1>. QED  BY <1>3, <1>4, <1>5 DEF IInv

LEMMA NothingOK == ASSUME IInv, UNCHANGED callVars PROVE IInv'
<1>1. UNCHANGED <<rows, work, calls, now, lost, faults>>
  BY DEF callVars
<1>2. UNCHANGED <<current, runs, endedAt>> /\ now' \in Nat /\ now <= now'
  BY <1>1 DEF rows, IInv, CallsTypeOK
<1>3. AllCallsOK' /\ NoClash' /\ RunsOK'
  BY <1>1, <1>2, CallsKeep
<1>4. CallsTypeOK'
  BY <1>1 DEF IInv, CallsTypeOK, rows
<1>5. WorkOK'
  BY <1>1, <1>2 DEF IInv, WorkOK, CurrentRunHasWork, CurrentOpen, Open, Exists, In
<1>. QED  BY <1>3, <1>4, <1>5 DEF IInv

LEMMA CallsBegin == Init => IInv
<1>. SUFFICES ASSUME Init PROVE IInv
  OBVIOUS
<1>1. /\ NoRow \in RunRow /\ FreshRow \in RunRow /\ NoRow.status = "none"
      /\ FreshRow.status = "scheduled"
  BY DEF FreshRow, NoRow, RunRow, Status
<1>2. \A state \in {"scheduled", "absent"} : WorkIn(state) \in Work /\ WorkIn(state).state = state
  BY DEF WorkIn, Work
<1>3. 0 \in Run /\ NoRun \notin Run /\ NoRun # 0
  BY CallsAssumption DEF Run, NoRun
<1>4. NoCall \in Call /\ NoCall.phase = "idle" /\ ~NoCall.effective /\ ~NoCall.locked
      /\ NoCall.answer = "none" /\ NoCall.op = "none"
  BY DEF NoCall, Call, Phase, Answer, Status
<1>5. PICK phase \in {"idle", "answered"} : calls = [c \in Client |-> [NoCall EXCEPT !.phase = phase]]
  <2>1. NoCall = [NoCall EXCEPT !.phase = "idle"]
    BY <1>4 DEF Call
  <2>. QED  BY <2>1 DEF Init
<1>6. \A c \in Client : /\ calls[c] \in Call /\ calls[c].phase = phase /\ ~calls[c].effective
                        /\ ~calls[c].locked /\ calls[c].answer = "none" /\ calls[c].op = "none"
  BY <1>4, <1>5 DEF Call, Phase
<1>7. current \in {NoRun, 0} /\ endedAt = Never /\ lost = {} /\ now = 0 /\ faults = 0
  BY DEF Init
<1>8. \A n \in Run : runs[n] = IF n = current THEN FreshRow ELSE NoRow
  BY DEF Init
<1>9. \A n \in Run : IF n = current THEN work[n].state = "scheduled" ELSE work[n].state = "absent"
  BY <1>2 DEF Init
<1>10. CallsTypeOK
  <2>1. runs \in [Run -> RunRow]
    BY <1>1 DEF Init
  <2>2. work \in [Run -> Work]
    BY <1>2 DEF Init
  <2>3. calls \in [Client -> Call]
    BY <1>5, <1>6
  <2>4. Never \in 0..Never /\ 0 \in 0..MaxNow /\ 0 \in 0..MaxFaults
    BY CallsAssumption DEF Never
  <2>. QED  BY <1>3, <1>7, <2>1, <2>2, <2>3, <2>4 DEF Init, CallsTypeOK
<1>11. AllCallsOK
  BY <1>6 DEF AllCallsOK, CallOK, Early, Making
<1>12. NoClash
  BY <1>6 DEF NoClash, Clash
<1>13. RunsOK
  <2>1. LastRunIsCurrent
    BY <1>1, <1>3, <1>7, <1>8 DEF LastRunIsCurrent, Exists
  <2>. QED  BY <1>1, <1>7, <1>8, <2>1 DEF RunsOK
<1>14. WorkOK
  <2>1. CurrentRunHasWork
    BY <1>3, <1>7, <1>9 DEF CurrentRunHasWork, CurrentOpen
  <2>. QED  BY <1>1, <1>8, <1>9, <2>1 DEF WorkOK, Exists
<1>. QED  BY <1>10, <1>11, <1>12, <1>13, <1>14 DEF IInv

LEMMA CallsInvariant == Spec => []IInv
<1>1. ASSUME IInv, [Next]_vars PROVE IInv'
  <2>1. ASSUME NEW c \in Client, GoesOn(c) PROVE IInv'
    BY <1>1, <2>1, CreateExecutionOK, CallerCommitsOK, CallerRollsBackOK, ListStepsOK,
       ReadCurrentRunOK, BootstrapOK, ArchiveOK, NumberRunOK, InsertRunOK, CommitRunOK,
       ScheduleRootOK, CancelRunOK, SweepTasksOK, PollOK DEF GoesOn
  <2>2. CASE RuleCalls
    BY <1>1, <2>2, NothingOK DEF RuleCalls
  <2>3. CASE UNCHANGED vars
    BY <1>1, <2>3, NothingOK DEF vars
  <2>. QED  BY <1>1, <2>1, <2>2, <2>3, FirstStep, CallFailsOK, CarryOK, TickOK DEF Next
<1>. QED  BY <1>1, CallsBegin, PTL DEF Spec

-----------------------------------------------------------------------------
(* The theorems.                                                            *)

(* Every row, call and task of the calls, and every pause rule, has its type: *)
(* among others a run that has a result is closed, whoever archives it.      *)
THEOREM CallsTypeCorrect == Spec => []TypeOK
<1>1. IInv /\ RulesInv => TypeOK
  BY DEF IInv, CallsTypeOK, RulesInv, TypeOK
<1>. QED  BY <1>1, CallsInvariant, RulesInvariant, PTL

(* However many calls read, number and commit runs at once, current_run_id    *)
(* names the last run, and runs are numbered without a gap.                  *)
THEOREM LastRunCorrect == Spec => []LastRunIsCurrent
<1>1. IInv => LastRunIsCurrent
  BY DEF IInv, RunsOK
<1>. QED  BY <1>1, CallsInvariant, PTL

(* Two calls that are told that they started a run have started two.         *)
THEOREM InsertedCorrect == Spec => []RunsInsertedOnce
<1>1. IInv => RunsInsertedOnce
  BY DEF IInv, NoClash, Clash, RunsInsertedOnce
<1>. QED  BY <1>1, CallsInvariant, PTL

(* An open run has a task that ends it, or a call that will schedule one,     *)
(* unless a call failed or a late cancel took it.                            *)
THEOREM WorkCorrect == Spec => []CurrentRunHasWork
<1>1. IInv => CurrentRunHasWork
  BY DEF IInv, WorkOK
<1>. QED  BY <1>1, CallsInvariant, PTL

(* Of several cancels of a run one takes effect, and only then is it          *)
(* cancelled.                                                               *)
THEOREM CancelCorrect == Spec => []CancelledByOne
<1>1. ASSUME IInv PROVE CancelledByOne
  <2>1. SUFFICES ASSUME NEW n \in Run
                 PROVE Cardinality({c \in Client : calls[c].op = "cancel" /\ calls[c].seen = n
                                                   /\ calls[c].effective})
                         = IF runs[n].status = "cancelled" THEN 1 ELSE 0
    BY DEF CancelledByOne
  <2>. DEFINE Cancels == {c \in Client : calls[c].op = "cancel" /\ calls[c].seen = n
                                         /\ calls[c].effective}
  <2>2. CASE runs[n].status = "cancelled"
    <3>1. PICK c \in Client : calls[c].op = "cancel" /\ calls[c].effective /\ calls[c].seen = n
      BY <1>1, <2>2 DEF IInv, RunsOK, CancelledBySome
    <3>2. Cancels = {c}
      BY <1>1, <3>1 DEF IInv, NoClash, Clash
    <3>3. Cardinality({c}) = 1
      BY FS_Singleton
    <3>. QED  BY <2>2, <3>2, <3>3
  <2>3. CASE runs[n].status # "cancelled"
    <3>1. Cancels = {}
      BY <1>1, <2>3 DEF IInv, AllCallsOK, CallOK
    <3>. QED  BY <2>3, <3>1, FS_EmptySet
  <2>. QED  BY <2>2, <2>3
<1>. QED  BY <1>1, CallsInvariant, PTL

(* A wait that is answered timed_out had a deadline before the end.          *)
THEOREM WaitCorrect == Spec => []WaitSeesTheEnd
<1>1. ASSUME IInv PROVE WaitSeesTheEnd
  <2>1. \A c \in Client : calls[c].deadline \in Nat /\ endedAt \in Nat
    BY <1>1 DEF IInv, CallsTypeOK, Call
  <2>. QED  BY <1>1, <2>1 DEF IInv, AllCallsOK, CallOK, WaitSeesTheEnd
<1>. QED  BY <1>1, CallsInvariant, PTL

(* Whoever is told by a front end that a start, a restart or a rerun failed   *)
(* has no run of his own, except where reset_execution is left alone.        *)
THEOREM RefusedCorrect == Spec => []RefusedStartsNothing
<1>1. ASSUME IInv PROVE RefusedStartsNothing
  BY <1>1 DEF IInv, AllCallsOK, CallOK, RefusedStartsNothing, Refused
<1>. QED  BY <1>1, CallsInvariant, PTL

(* However resumes, deletes by id and new rules interleave, every rule that    *)
(* was deleted is in the count of exactly one caller, and no rule that an      *)
(* answered caller listed is active.                                         *)
THEOREM RulesCorrect == Spec => []ResumesAccountForRules
<1>1. RulesInv => ResumesAccountForRules
  BY DEF RulesInv
<1>. QED  BY <1>1, RulesInvariant, PTL

=============================================================================
