--------------------------- MODULE WaitGroups_proofs ---------------------------
(***************************************************************************)
(* Proofs about StepAttempts and WaitGroups for every number of steps,      *)
(* dispatches, attempts and faults, and every timing.                       *)
(***************************************************************************)
EXTENDS WaitGroups, FiniteSetTheorems, TLAPS

-----------------------------------------------------------------------------
(* The inductive invariant.                                                 *)

ConfigOK ==
  /\ IsGroup \/ \A s \in Step : ~config[s].child
  /\ \A s \in Step : config[s].child => config[s].retries = 0

(* A lock is that of the dispatch which fetched the row last, and no attempt  *)
(* of that dispatch has ended.                                              *)
LocksOK ==
  \A s \in Step, d \in Dispatch :
    tasks[s].holder = d =>
      /\ tasks[s].status = "picked_up"
      /\ StepOf(d) = s /\ dispatches[d].phase \notin {"idle", "hintless"}
      /\ dispatches[d].retry + 1 = tasks[s].attempt

DispatchOK(e) ==
  /\ e.phase \in {"completing", "hintless"} => ~config[e.step].child
  /\ e.phase = "running" =>
       /\ config[e.step].scope = "none" => e.limit = Unlimited
       /\ config[e.step].scope = "global" /\ life # 0 => e.limit # Unlimited /\ e.limit <= left[e.step]
  /\ e.phase \in {"returned", "completing"} /\ e.kind = "timeout" => config[e.step].scope # "none"
  /\ e.phase = "completing" =>
       /\ e.kind \in {"ok", "err", "rx", "timeout"}
       /\ e.trx => e.kind = "ok"
       /\ e.kind = "err" => config[e.step].retries = 0
       /\ e.kind = "rx" => config[e.step].retries > 0 /\ e.retry + 1 > config[e.step].retries

(* An attempt's row has a number that the task's own counter has passed or is  *)
(* about to, which leaves the next one free.                                 *)
AttemptsOK(s) ==
  /\ \A a \in attempts : a.step = s =>
       /\ a.number <= tasks[s].attempt
       /\ tasks[s].holder \in Dispatch => a.number < tasks[s].attempt
       /\ a.status = "failed" => a.number \in 1..config[s].retries
       /\ a.status = "completed" => steps[s].status = "completed" /\ a.number = tasks[s].attempt
  /\ steps[s].status = "completed" =>
       [step |-> s, number |-> tasks[s].attempt, status |-> "completed"] \in attempts

StepOK(s) ==
  /\ tasks[s].status \in {"scheduled", "picked_up"} => steps[s].status = "scheduled"
  /\ steps[s].status = "dead" => config[s].child
  /\ effects[s] \in {0, 1}
  /\ effects[s] = 1 =>
       IF config[s].child THEN /\ steps[s].status # "scheduled" \/ tasks[s].retried
                               /\ steps[s].result \in {"ok", "err"}
                          ELSE steps[s].status = "completed" /\ steps[s].result = "ok"
  /\ ~config[s].child => AttemptsOK(s)
  /\ steps[s].status = "completed" =>
       /\ steps[s].result # "null"
       /\ steps[s].result = "timeout" => config[s].scope # "none"
       /\ steps[s].result = "err" => config[s].retries = 0
       /\ steps[s].result = "rx" => ~config[s].child /\ config[s].retries > 0
                                    /\ tasks[s].attempt > config[s].retries
  /\ config[s].scope = "global" => left[s] <= Timeout

IInv ==
  /\ TypeOK /\ ConfigOK /\ LocksOK /\ GroupCounts
  /\ \A s \in Step : StepOK(s)
  /\ \A d \in Dispatch : DispatchOK(dispatches[d])

-----------------------------------------------------------------------------
(* Numbers and records.                                                     *)

LEMMA UpTo == \A n \in Nat : IsFiniteSet(1..n) /\ Cardinality(1..n) = n
BY FS_Interval

LEMMA PowerNat == \A n \in Nat : 2 ^ n \in Nat
<1>. TAKE n \in Nat
<1>1. IsFiniteSet(1..n) /\ Cardinality(1..n) = n
  BY UpTo
<1>2. IsFiniteSet(SUBSET (1..n)) /\ Cardinality(SUBSET (1..n)) = 2 ^ n
  BY <1>1, FS_SUBSET
<1>. QED  BY <1>2, FS_CardinalityType

LEMMA TickNumbers ==
  /\ Unlimited \in Nat /\ Timeout \in Nat /\ Timeout < Unlimited /\ Lifetime < Unlimited
  /\ Timeout # 0 /\ Lifetime # 0 /\ Lifetime \in Nat
BY AttemptsAssumption DEF Unlimited

LEMMA IdleFacts ==
  /\ Idle \in Dispatched /\ Idle.phase = "idle" /\ Idle.kind = "none" /\ ~Idle.trx
  /\ Idle.limit = Unlimited
<1>1. AnyStep \in Step
  BY AttemptsAssumption DEF AnyStep
<1>. QED  BY <1>1, TickNumbers DEF Idle, Dispatched

LEMMA IdleOK == DispatchOK(Idle)
BY IdleFacts DEF DispatchOK

LEMMA RetriesNat ==
  ASSUME TypeOK, NEW s \in Step
  PROVE  config[s].retries \in Nat
<1>1. config[s] \in Config
  BY DEF TypeOK, AttemptsTypeOK
<1>2. config[s].retries \in MaxAttempts \cup {0}
  BY <1>1 DEF Config
<1>3. \A x : x \in MaxAttempts => x \in Nat
  BY AttemptsAssumption, Zenon
<1>4. CASE config[s].retries = 0
  BY <1>4
<1>5. CASE config[s].retries \in MaxAttempts
  BY <1>3, <1>5, Zenon
<1>. QED  BY <1>2, <1>4, <1>5, Zenon

LEMMA DelayNat ==
  ASSUME TypeOK, NEW s \in Step, NEW n \in Nat \ {0}
  PROVE  Delay(s, n) \in Nat
<1>1. n - 1 \in Nat /\ 2 ^ (n - 1) \in Nat /\ InitialDelay \in Nat /\ MaxDelay \in Nat
  BY PowerNat, AttemptsAssumption
<1>. DEFINE p == 2 ^ (n - 1)
<1>. HIDE DEF p
<1>2. InitialDelay * p \in Nat
  BY <1>1 DEF p
<1>. QED  BY <1>1, <1>2 DEF Delay, Sooner, p

(* What an action leaves alone stays right.                                  *)
LEMMA SameDispatchOK ==
  ASSUME NEW e, DispatchOK(e), UNCHANGED times
  PROVE  DispatchOK(e)'
BY DEF DispatchOK, times

LEMMA TypesAtHand ==
  ASSUME IInv
  PROVE  /\ config \in [Step -> Config] /\ tasks \in [Step -> TaskRow] /\ steps \in [Step -> StepRow]
         /\ dispatches \in [Dispatch -> Dispatched] /\ effects \in [Step -> Nat]
         /\ attempts \subseteq AttemptRow /\ left \in [Step -> 0..Timeout \cup {Unlimited}]
         /\ \A d \in Dispatch : StepOf(d) \in Step /\ dispatches[d].retry \in Nat
BY DEF IInv, TypeOK, AttemptsTypeOK, StepOf, Dispatched

-----------------------------------------------------------------------------
(* A dispatch goes on.                                                      *)

LEMMA DispatchMoves ==
  ASSUME IInv, NEW d \in Dispatch, NEW e \in Dispatched, Become(d, e),
         UNCHANGED <<times, rows, faults, group>>, DispatchOK(e),
         HoldsLock(d) => /\ e.step = StepOf(d) /\ e.phase \notin {"idle", "hintless"}
                         /\ e.retry = dispatches[d].retry
  PROVE  IInv'
<1>1. dispatches' = [dispatches EXCEPT ![d] = e] /\ dispatches \in [Dispatch -> Dispatched]
  BY TypesAtHand DEF Become
<1>2. dispatches'[d] = e /\ \A f \in Dispatch \ {d} : dispatches'[f] = dispatches[f]
  BY <1>1
<1>3. UNCHANGED <<config, life, left, tasks, steps, attempts, effects, run, faults, group>>
  BY DEF times, rows
<1>4. TypeOK'
  BY <1>1, <1>3 DEF IInv, TypeOK, AttemptsTypeOK, group
<1>5. LocksOK'
  <2>1. ASSUME NEW s \in Step, tasks[s].holder = d
        PROVE  e.step = s /\ e.phase \notin {"idle", "hintless"} /\ e.retry = dispatches[d].retry
    BY <2>1 DEF IInv, LocksOK, HoldsLock
  <2>. QED  BY <1>2, <1>3, <2>1 DEF IInv, LocksOK, StepOf
<1>6. ConfigOK' /\ GroupCounts' /\ \A s \in Step : StepOK(s)'
  BY <1>3 DEF IInv, ConfigOK, IsGroup, GroupCounts, StepOK, AttemptsOK, group
<1>7. \A f \in Dispatch : DispatchOK(dispatches[f])'
  <2>1. DispatchOK(e)'
    BY SameDispatchOK
  <2>2. ASSUME NEW f \in Dispatch \ {d} PROVE DispatchOK(dispatches[f])'
    <3>1. PICK g : g = dispatches[f] /\ g = dispatches'[f] /\ DispatchOK(g)
      BY <1>2 DEF IInv
    <3>2. DispatchOK(g)'
      BY <3>1, SameDispatchOK
    <3>. QED  BY <3>1, <3>2
  <2>. QED  BY <1>2, <2>1, <2>2
<1>. QED  BY <1>4, <1>5, <1>6, <1>7 DEF IInv

LEMMA BeginOK == ASSUME IInv, NEW d \in Dispatch, Begin(d), UNCHANGED group PROVE IInv'
<1>. DEFINE s == StepOf(d)
<1>1. s \in Step /\ dispatches[d] \in Dispatched /\ config[s] \in Config /\ StepOK(s)
      /\ dispatches[d].step = s /\ left[s] \in 0..Timeout \cup {Unlimited}
      /\ life \in 0..Lifetime \cup {Unlimited}
  BY TypesAtHand DEF IInv, StepOf, TypeOK, AttemptsTypeOK
<1>2. UNCHANGED <<times, rows, faults>>
  BY DEF Begin
<1>3. CASE config[s].scope = "global" /\ left[s] = 0
  <2>. DEFINE y == [dispatches[d] EXCEPT !.phase = "returned", !.kind = "timeout"]
  <2>1. y \in Dispatched
    BY <1>1 DEF Dispatched
  <2>2. y.phase = "returned" /\ y.step = s /\ y.retry = dispatches[d].retry
    BY <1>1 DEF Dispatched
  <2>3. Become(d, y)
    BY <1>3 DEF Begin
  <2>. HIDE DEF y
  <2>4. DispatchOK(y)
    BY <1>3, <2>2 DEF DispatchOK
  <2>. QED  BY <1>2, <2>1, <2>2, <2>3, <2>4, DispatchMoves
<1>4. CASE ~(config[s].scope = "global" /\ left[s] = 0)
  <2>. DEFINE y == [dispatches[d] EXCEPT !.phase = "running", !.limit = EffectiveTimeout(s)]
  <2>1. EffectiveTimeout(s) \in 0..Unlimited
    BY <1>1, TickNumbers DEF EffectiveTimeout, Sooner, AnewEachTime
  <2>2. y \in Dispatched
    BY <1>1, <2>1 DEF Dispatched
  <2>3. y.phase = "running" /\ y.step = s /\ y.retry = dispatches[d].retry
        /\ y.limit = EffectiveTimeout(s)
    BY <1>1 DEF Dispatched
  <2>4. Become(d, y)
    BY <1>4 DEF Begin
  <2>. HIDE DEF y
  <2>5. config[s].scope = "none" => y.limit = Unlimited
    BY <2>3 DEF EffectiveTimeout, AnewEachTime
  <2>6. config[s].scope = "global" /\ life # 0 => y.limit # Unlimited /\ y.limit <= left[s]
    <3>1. config[s].scope = "global" => left[s] \in 0..Timeout
      BY <1>1, TickNumbers DEF StepOK
    <3>. QED  BY <1>1, <2>3, <3>1, TickNumbers DEF EffectiveTimeout, Sooner
  <2>7. DispatchOK(y)
    BY <2>3, <2>5, <2>6 DEF DispatchOK
  <2>. QED  BY <1>2, <2>2, <2>3, <2>4, <2>7, DispatchMoves
<1>. QED  BY <1>3, <1>4

LEMMA ReturnedOK ==
  ASSUME IInv, NEW d \in Dispatch, At(d, "running"), NEW kind \in {"ok", "err", "bad", "timeout"},
         kind = "timeout" => dispatches[d].limit = 0,
         Returned(d, kind), UNCHANGED <<times, rows, faults, group>>
  PROVE  IInv'
<1>1. dispatches[d] \in Dispatched /\ DispatchOK(dispatches[d]) /\ dispatches[d].phase = "running"
  BY TypesAtHand DEF IInv, At
<1>. DEFINE y == [dispatches[d] EXCEPT !.phase = "returned", !.kind = kind, !.limit = Unlimited]
<1>2. y \in Dispatched
  <2>1. Unlimited \in 0..Unlimited
    BY TickNumbers
  <2>. QED  BY <1>1, <2>1 DEF Dispatched
<1>3. y.phase = "returned" /\ y.step = dispatches[d].step /\ y.retry = dispatches[d].retry
      /\ y.kind = kind
  BY <1>1 DEF Dispatched
<1>4. Become(d, y)
  BY DEF Returned
<1>. HIDE DEF y
<1>5. DispatchOK(y)
  BY <1>1, <1>3, TickNumbers DEF DispatchOK
<1>. QED  BY <1>2, <1>3, <1>4, <1>5, DispatchMoves DEF StepOf

LEMMA DispatchStepOK ==
  ASSUME IInv, NEW d \in Dispatch, UNCHANGED group,
         \/ CheckDeadline(d) /\ life # 0
         \/ RegisterTrx(d) \/ LambdaReturns(d) \/ LambdaTimesOut(d) \/ GiveUp(d) \/ HintCompletion(d)
  PROVE  IInv'
<1>1. dispatches[d] \in Dispatched /\ DispatchOK(dispatches[d]) /\ StepOf(d) = dispatches[d].step
  BY TypesAtHand DEF IInv, StepOf
<1>2. CASE CheckDeadline(d) /\ life # 0
  <2>. DEFINE y == [dispatches[d] EXCEPT !.phase = "checked"]
  <2>1. y \in Dispatched
    BY <1>1 DEF Dispatched
  <2>2. y.phase = "checked" /\ y.step = StepOf(d) /\ y.retry = dispatches[d].retry
    BY <1>1 DEF Dispatched
  <2>3. Become(d, y) /\ UNCHANGED <<times, rows, faults>>
    BY <1>2 DEF CheckDeadline
  <2>. HIDE DEF y
  <2>4. DispatchOK(y)
    BY <2>2 DEF DispatchOK
  <2>. QED  BY <2>1, <2>2, <2>3, <2>4, DispatchMoves
<1>3. CASE RegisterTrx(d)
  <2>. DEFINE y == [dispatches[d] EXCEPT !.trx = TRUE]
  <2>1. y \in Dispatched
    BY <1>1 DEF Dispatched
  <2>2. y.phase = "running" /\ y.step = StepOf(d) /\ y.retry = dispatches[d].retry
        /\ y.limit = dispatches[d].limit
    BY <1>1, <1>3 DEF Dispatched, RegisterTrx, At
  <2>3. Become(d, y) /\ UNCHANGED <<times, rows, faults>> /\ dispatches[d].phase = "running"
    BY <1>3 DEF RegisterTrx, At
  <2>. HIDE DEF y
  <2>4. DispatchOK(y)
    BY <1>1, <2>2, <2>3 DEF DispatchOK
  <2>. QED  BY <2>1, <2>2, <2>3, <2>4, DispatchMoves
<1>4. CASE LambdaReturns(d)
  BY <1>4, ReturnedOK DEF LambdaReturns
<1>5. CASE LambdaTimesOut(d)
  BY <1>5, ReturnedOK DEF LambdaTimesOut
<1>6. CASE GiveUp(d)
  <2>. DEFINE kind == IF config[StepOf(d)].retries > 0 THEN "rx" ELSE "err"
  <2>. DEFINE y == [dispatches[d] EXCEPT !.phase = "completing", !.trx = TrxAfterError(d), !.kind = kind]
  <2>1. y \in Dispatched
    BY <1>1 DEF Dispatched, TrxAfterError
  <2>2. y.phase = "completing" /\ y.step = StepOf(d) /\ y.retry = dispatches[d].retry
        /\ y.kind = kind /\ ~y.trx
    BY <1>1 DEF Dispatched, TrxAfterError
  <2>3. Become(d, y) /\ UNCHANGED <<times, rows, faults>> /\ ~config[StepOf(d)].child
        /\ ~HasRetry(StepOf(d), dispatches[d].retry + 1)
    BY <1>6 DEF GiveUp, Returning
  <2>. HIDE DEF y
  <2>4. DispatchOK(y)
    <3>1. dispatches[d].retry \in Nat
      BY TypesAtHand
    <3>2. config[StepOf(d)].retries \in Nat
      BY TypesAtHand, RetriesNat DEF IInv
    <3>. QED  BY <2>2, <2>3, <3>1, <3>2 DEF DispatchOK, HasRetry
  <2>. QED  BY <2>1, <2>2, <2>3, <2>4, DispatchMoves
<1>7. CASE HintCompletion(d)
  <2>. DEFINE trx == IF dispatches[d].kind = "ok" THEN dispatches[d].trx ELSE TrxAfterError(d)
  <2>. DEFINE y == [dispatches[d] EXCEPT !.phase = "completing", !.trx = trx]
  <2>1. trx \in BOOLEAN
    BY <1>1 DEF Dispatched, TrxAfterError
  <2>2. y \in Dispatched
    BY <1>1, <2>1 DEF Dispatched
  <2>3. y.phase = "completing" /\ y.step = StepOf(d) /\ y.retry = dispatches[d].retry
        /\ y.kind = dispatches[d].kind /\ y.trx = trx
    BY <1>1 DEF Dispatched
  <2>4. Become(d, y) /\ UNCHANGED <<times, rows, faults>> /\ ~config[StepOf(d)].child
        /\ dispatches[d].kind \in {"ok", "timeout"} /\ dispatches[d].phase = "returned"
    BY <1>7 DEF HintCompletion, Returning, At
  <2>. HIDE DEF y
  <2>5. DispatchOK(y)
    BY <1>1, <2>3, <2>4 DEF DispatchOK, TrxAfterError
  <2>. QED  BY <2>2, <2>3, <2>4, <2>5, DispatchMoves
<1>. QED  BY <1>2, <1>3, <1>4, <1>5, <1>6, <1>7

-----------------------------------------------------------------------------
(* A task is let go of.                                                     *)

(* What becomes of a task whose dispatch has no say any more.                *)
Unlocked(t, u) ==
  /\ u \in TaskRow /\ u.holder \notin Dispatch
  /\ u.attempt = t.attempt /\ u.retried = t.retried
  /\ u.status \in {"scheduled", "picked_up"} => t.status \in {"scheduled", "picked_up"}

LEMMA TasksLetGo ==
  ASSUME IInv, UNCHANGED <<times, steps, attempts, effects, group>>,
         run' \in {"scheduled", "running", "failed"}, faults' \in 0..MaxFaults,
         tasks' \in [Step -> TaskRow],
         \A s \in Step : tasks'[s] = tasks[s] \/ Unlocked(tasks[s], tasks'[s]),
         dispatches' \in [Dispatch -> Dispatched],
         \A d \in Dispatch :
           \/ dispatches'[d] = dispatches[d]
           \/ dispatches'[d] = Idle /\ \A s \in Step : tasks'[s].holder # d
  PROVE  IInv'
<1>1. UNCHANGED <<config, life, left, steps, attempts, effects, group>>
  BY DEF times
<1>2. TypeOK'
  BY <1>1 DEF IInv, TypeOK, AttemptsTypeOK, group
<1>3. ConfigOK' /\ GroupCounts'
  BY <1>1 DEF IInv, ConfigOK, IsGroup, GroupCounts, group
<1>4. LocksOK'
  BY DEF IInv, LocksOK, StepOf, Unlocked
<1>5. ASSUME NEW s \in Step PROVE StepOK(s)'
  <2>1. StepOK(s)
    BY DEF IInv
  <2>2. /\ tasks'[s].attempt = tasks[s].attempt /\ tasks'[s].retried = tasks[s].retried
        /\ tasks'[s].holder \in Dispatch => tasks[s].holder \in Dispatch
        /\ tasks'[s].status \in {"scheduled", "picked_up"} => tasks[s].status \in {"scheduled", "picked_up"}
    BY DEF Unlocked
  <2>3. AttemptsOK(s) => AttemptsOK(s)'
    BY <1>1, <2>2 DEF AttemptsOK
  <2>. QED  BY <1>1, <2>1, <2>2, <2>3 DEF StepOK
<1>6. ASSUME NEW d \in Dispatch PROVE DispatchOK(dispatches[d])'
  <2>1. PICK e : e = dispatches'[d] /\ DispatchOK(e)
    BY IdleOK DEF IInv
  <2>2. DispatchOK(e)'
    BY <2>1, SameDispatchOK
  <2>. QED  BY <2>1, <2>2
<1>. QED  BY <1>2, <1>3, <1>4, <1>5, <1>6 DEF IInv

LEMMA SettledFacts ==
  ASSUME IInv, NEW s \in Step, NEW status \in {"scheduled", "completed", "failed"}
  PROVE  /\ Settled(s, status) \in [Step -> TaskRow]
         /\ Settled(s, status)[s].status = status /\ Settled(s, status)[s].holder = Nobody
         /\ Settled(s, status)[s].attempt = tasks[s].attempt
         /\ Settled(s, status)[s].retried = tasks[s].retried
         /\ \A r \in Step \ {s} : Settled(s, status)[r] = tasks[r]
         /\ Nobody \notin Dispatch
<1>1. tasks \in [Step -> TaskRow] /\ Nobody \notin Dispatch
  BY TypesAtHand, AttemptsAssumption
<1>. DEFINE t == [[tasks[s] EXCEPT !.status = status] EXCEPT !.holder = Nobody]
<1>2. Settled(s, status) = [tasks EXCEPT ![s] = t]
  BY <1>1 DEF Settled
<1>3. tasks[s] \in TaskRow
  BY <1>1
<1>4. t \in TaskRow
  BY <1>3 DEF TaskRow
<1>5. t.status = status /\ t.holder = Nobody /\ t.attempt = tasks[s].attempt
      /\ t.retried = tasks[s].retried
  BY <1>3 DEF TaskRow
<1>. HIDE DEF t
<1>. QED  BY <1>1, <1>2, <1>4, <1>5

LEMMA HandlerFailsOK == ASSUME IInv, NEW d \in Dispatch, HandlerFails(d), UNCHANGED group PROVE IInv'
<1>1. StepOf(d) \in Step /\ tasks \in [Step -> TaskRow] /\ dispatches \in [Dispatch -> Dispatched]
  BY TypesAtHand
<1>2. /\ UNCHANGED <<times, steps, attempts, effects, group>> /\ run' = "failed" /\ faults' = faults
      /\ dispatches' = [dispatches EXCEPT ![d] = Idle]
  BY DEF HandlerFails, Ends, Become
<1>3. /\ tasks' \in [Step -> TaskRow]
      /\ \A s \in Step : tasks'[s] = tasks[s] \/ Unlocked(tasks[s], tasks'[s])
      /\ \A s \in Step : tasks'[s].holder # d
  <2>1. CASE HoldsLock(d)
    <3>1. tasks' = Settled(StepOf(d), "failed")
      BY <2>1 DEF HandlerFails
    <3>2. \A s \in Step \ {StepOf(d)} : tasks[s].holder # d
      BY DEF IInv, LocksOK
    <3>. QED  BY <1>1, <3>1, <3>2, SettledFacts DEF Unlocked
  <2>2. CASE ~HoldsLock(d)
    <3>1. tasks' = tasks
      BY <2>2 DEF HandlerFails
    <3>. QED  BY <1>1, <2>2, <3>1 DEF IInv, LocksOK, HoldsLock
  <2>. QED  BY <2>1, <2>2
<1>4. dispatches' \in [Dispatch -> Dispatched]
      /\ \A e \in Dispatch : dispatches'[e] = dispatches[e] \/ (e = d /\ dispatches'[e] = Idle)
  BY <1>1, <1>2, IdleFacts
<1>5. faults' \in 0..MaxFaults
  BY <1>2 DEF IInv, TypeOK, AttemptsTypeOK
<1>. QED  BY <1>2, <1>3, <1>4, <1>5, TasksLetGo

LEMMA CrashOK == ASSUME IInv, NEW d \in Dispatch, Crash(d), UNCHANGED group PROVE IInv'
<1>1. StepOf(d) \in Step /\ tasks \in [Step -> TaskRow] /\ dispatches \in [Dispatch -> Dispatched]
      /\ Gone \notin Dispatch
  BY TypesAtHand, AttemptsAssumption
<1>2. /\ UNCHANGED <<times, steps, attempts, effects, group, run>>
      /\ dispatches' = [dispatches EXCEPT ![d] = Idle]
  BY DEF Crash, Ends, Become
<1>3. /\ tasks' \in [Step -> TaskRow]
      /\ \A s \in Step : tasks'[s] = tasks[s] \/ Unlocked(tasks[s], tasks'[s])
      /\ \A s \in Step : tasks'[s].holder # d
  <2>1. CASE HoldsLock(d)
    <3>. DEFINE s == StepOf(d)
    <3>. DEFINE t == [tasks[s] EXCEPT !.holder = Gone]
    <3>1. tasks' = [tasks EXCEPT ![s] = t]
      BY <1>1, <2>1 DEF Crash
    <3>2. t \in TaskRow /\ t.holder = Gone /\ t.attempt = tasks[s].attempt
          /\ t.retried = tasks[s].retried /\ t.status = tasks[s].status
      <4>1. tasks[s] \in TaskRow
        BY <1>1
      <4>. QED  BY <4>1 DEF TaskRow
    <3>3. \A r \in Step \ {s} : tasks[r].holder # d
      BY DEF IInv, LocksOK
    <3>4. Gone # d
      BY <1>1
    <3>. HIDE DEF t, s
    <3>5. s \in Step
      BY <1>1 DEF s
    <3>. QED  BY <1>1, <3>1, <3>2, <3>3, <3>4, <3>5 DEF Unlocked
  <2>2. CASE ~HoldsLock(d)
    <3>1. tasks' = tasks
      BY <2>2 DEF Crash
    <3>. QED  BY <1>1, <2>2, <3>1 DEF IInv, LocksOK, HoldsLock
  <2>. QED  BY <2>1, <2>2
<1>4. dispatches' \in [Dispatch -> Dispatched]
      /\ \A e \in Dispatch : dispatches'[e] = dispatches[e] \/ (e = d /\ dispatches'[e] = Idle)
  BY <1>1, <1>2, IdleFacts
<1>5. faults' \in 0..MaxFaults /\ run' \in {"scheduled", "running", "failed"}
  BY <1>2, AttemptsAssumption DEF IInv, TypeOK, AttemptsTypeOK, Crash, Fault
<1>. QED  BY <1>2, <1>3, <1>4, <1>5, TasksLetGo

LEMMA LeaseEndsOK ==
  ASSUME IInv, NEW s \in Step, Lapse(s) \/ Recover(s), UNCHANGED group
  PROVE  IInv'
<1>1. tasks[s].status = "picked_up"
  BY DEF Lapse, Recover, Orphaned, IInv, LocksOK
<1>2. tasks' = Settled(s, "scheduled")
      /\ UNCHANGED <<times, steps, attempts, effects, group, run, dispatches>>
  BY DEF Lapse, Recover
<1>3. tasks' \in [Step -> TaskRow] /\ \A r \in Step : tasks'[r] = tasks[r] \/ Unlocked(tasks[r], tasks'[r])
  BY <1>1, <1>2, SettledFacts DEF Unlocked
<1>4. faults' \in 0..MaxFaults
  BY AttemptsAssumption DEF IInv, TypeOK, AttemptsTypeOK, Lapse, Recover, Fault
<1>5. dispatches' \in [Dispatch -> Dispatched] /\ run' \in {"scheduled", "running", "failed"}
  BY <1>2 DEF IInv, TypeOK, AttemptsTypeOK
<1>. QED  BY <1>2, <1>3, <1>4, <1>5, TasksLetGo

(* A completion that is rolled back, with or without the lock.               *)
LEMMA RefusedOK ==
  ASSUME IInv, NEW d \in Dispatch, Ends(d), UNCHANGED <<times, run, faults>>,
         \/ Refused(d)
         \/ UNCHANGED <<tasks, steps, attempts, effects, group>> /\ ~HoldsLock(d)
  PROVE  IInv'
<1>1. StepOf(d) \in Step /\ tasks \in [Step -> TaskRow] /\ dispatches \in [Dispatch -> Dispatched]
  BY TypesAtHand
<1>2. /\ UNCHANGED <<steps, attempts, effects, group>>
      /\ dispatches' = [dispatches EXCEPT ![d] = Idle]
  BY DEF Refused, Ends, Become
<1>3. /\ tasks' \in [Step -> TaskRow]
      /\ \A s \in Step : tasks'[s] = tasks[s] \/ Unlocked(tasks[s], tasks'[s])
      /\ \A s \in Step : tasks'[s].holder # d
  <2>1. CASE HoldsLock(d)
    <3>1. tasks' = Settled(StepOf(d), "failed")
      BY <2>1 DEF Refused
    <3>2. \A s \in Step \ {StepOf(d)} : tasks[s].holder # d
      BY DEF IInv, LocksOK
    <3>. QED  BY <1>1, <3>1, <3>2, SettledFacts DEF Unlocked
  <2>2. CASE ~HoldsLock(d)
    <3>1. tasks' = tasks
      BY <2>2 DEF Refused
    <3>. QED  BY <1>1, <2>2, <3>1 DEF IInv, LocksOK, HoldsLock
  <2>. QED  BY <2>1, <2>2
<1>4. dispatches' \in [Dispatch -> Dispatched]
      /\ \A e \in Dispatch : dispatches'[e] = dispatches[e] \/ (e = d /\ dispatches'[e] = Idle)
  BY <1>1, <1>2, IdleFacts
<1>5. faults' \in 0..MaxFaults /\ run' \in {"scheduled", "running", "failed"}
  BY DEF IInv, TypeOK, AttemptsTypeOK
<1>. QED  BY <1>2, <1>3, <1>4, <1>5, TasksLetGo

-----------------------------------------------------------------------------
(* A task is fetched, or goes back for a retry.                              *)

(* One step's task and one dispatch move; the rows of the other steps stay.   *)
LEMMA OthersStay ==
  ASSUME IInv, NEW s \in Step, UNCHANGED times,
         \A r \in Step \ {s} : /\ tasks'[r] = tasks[r] /\ steps'[r] = steps[r]
                               /\ effects'[r] = effects[r]
                               /\ {a \in attempts' : a.step = r} = {a \in attempts : a.step = r}
  PROVE  /\ \A r \in Step \ {s} : StepOK(r)'
         /\ ConfigOK'
         /\ \A e \in Dispatch : dispatches'[e] = dispatches[e] => DispatchOK(dispatches[e])'
<1>1. UNCHANGED <<config, life, left>>
  BY DEF times
<1>2. ASSUME NEW r \in Step \ {s} PROVE StepOK(r)'
  <2>1. StepOK(r)
    BY DEF IInv
  <2>2. AttemptsOK(r) => AttemptsOK(r)'
    <3>1. \A a : a \in attempts' /\ a.step = r <=> a \in attempts /\ a.step = r
      OBVIOUS
    <3>. QED  BY <1>1, <3>1 DEF AttemptsOK
  <2>. QED  BY <1>1, <2>1, <2>2 DEF StepOK
<1>3. ConfigOK'
  BY <1>1 DEF IInv, ConfigOK, IsGroup
<1>4. ASSUME NEW e \in Dispatch, dispatches'[e] = dispatches[e] PROVE DispatchOK(dispatches[e])'
  <2>1. PICK g : g = dispatches[e] /\ g = dispatches'[e] /\ DispatchOK(g)
    BY <1>4 DEF IInv
  <2>2. DispatchOK(g)'
    BY <2>1, SameDispatchOK
  <2>. QED  BY <2>1, <2>2
<1>. QED  BY <1>2, <1>3, <1>4

LEMMA PickUpOK ==
  ASSUME IInv, NEW d \in Dispatch, NEW s \in Step, PickUp(d, s), UNCHANGED group
  PROVE  IInv'
<1>1. /\ tasks \in [Step -> TaskRow] /\ dispatches \in [Dispatch -> Dispatched]
      /\ tasks[s].status = "scheduled" /\ dispatches[d].phase = "idle"
      /\ UNCHANGED <<times, steps, attempts, effects, run, faults, group>>
  BY TypesAtHand DEF PickUp, At
<1>2. PICK t \in TaskRow : /\ tasks' = [tasks EXCEPT ![s] = t] /\ t.status = "picked_up"
                           /\ t.holder = d /\ t.attempt = tasks[s].attempt + 1
                           /\ t.retried = tasks[s].retried
  <2>. DEFINE t == [tasks[s] EXCEPT !.status = "picked_up", !.holder = d,
                                    !.attempt = tasks[s].attempt + 1]
  <2>1. tasks' = [tasks EXCEPT ![s] = t]
    BY <1>1 DEF PickUp
  <2>2. tasks[s] \in TaskRow
    BY <1>1
  <2>3. t \in TaskRow
    <3>1. tasks[s].attempt + 1 \in Nat
      BY <2>2 DEF TaskRow
    <3>. QED  BY <2>2, <3>1 DEF TaskRow
  <2>4. t.status = "picked_up"
    BY <2>2 DEF TaskRow
  <2>5. t.holder = d
    BY <2>2 DEF TaskRow
  <2>6. t.attempt = tasks[s].attempt + 1
    BY <2>2 DEF TaskRow
  <2>7. t.retried = tasks[s].retried
    BY <2>2 DEF TaskRow
  <2>. HIDE DEF t
  <2>. QED  BY <2>1, <2>3, <2>4, <2>5, <2>6, <2>7
<1>3. PICK e \in Dispatched : /\ dispatches' = [dispatches EXCEPT ![d] = e]
                              /\ e.phase = "fetched" /\ e.step = s /\ e.retry = tasks[s].attempt
  <2>. DEFINE e == [Idle EXCEPT !.phase = "fetched", !.step = s, !.retry = tasks[s].attempt]
  <2>1. tasks[s].attempt \in Nat
    BY <1>1 DEF TaskRow
  <2>2. e \in Dispatched
    BY <2>1, IdleFacts DEF Dispatched
  <2>3. e.phase = "fetched" /\ e.step = s /\ e.retry = tasks[s].attempt
    BY IdleFacts DEF Dispatched
  <2>4. dispatches' = [dispatches EXCEPT ![d] = e]
    BY DEF PickUp, Become
  <2>. QED  BY <2>2, <2>3, <2>4
<1>4. tasks'[s] = t /\ (\A r \in Step \ {s} : tasks'[r] = tasks[r])
      /\ dispatches'[d] = e /\ (\A f \in Dispatch \ {d} : dispatches'[f] = dispatches[f])
  BY <1>1, <1>2, <1>3
<1>5. /\ \A r \in Step \ {s} : StepOK(r)'
      /\ ConfigOK'
      /\ \A f \in Dispatch \ {d} : DispatchOK(dispatches[f])'
  BY <1>1, <1>4, OthersStay
<1>6. TypeOK'
  BY <1>1, <1>2, <1>3 DEF IInv, TypeOK, AttemptsTypeOK, times, group
<1>7. LocksOK'
  <2>1. \A r \in Step : tasks[r].holder # d
    BY <1>1 DEF IInv, LocksOK
  <2>. QED  BY <1>2, <1>3, <1>4, <2>1 DEF IInv, LocksOK, StepOf
<1>8. GroupCounts'
  BY <1>1 DEF IInv, GroupCounts, IsGroup, group, times
<1>9. StepOK(s)'
  <2>1. StepOK(s) /\ tasks[s].attempt \in Nat
    BY <1>1 DEF IInv, TaskRow
  <2>2. steps[s].status = "scheduled"
    BY <1>1, <2>1 DEF StepOK
  <2>3. AttemptsOK(s) => AttemptsOK(s)'
    <3>1. \A a \in attempts : a.number \in Nat
      BY TypesAtHand DEF AttemptRow
    <3>. QED  BY <1>1, <1>2, <1>4, <2>1, <2>2, <3>1 DEF AttemptsOK, times
  <2>. QED  BY <1>1, <1>2, <1>4, <2>1, <2>2, <2>3 DEF StepOK, times
<1>10. DispatchOK(dispatches[d])'
  <2>1. DispatchOK(e)'
    BY <1>3 DEF DispatchOK
  <2>. QED  BY <1>4, <2>1
<1>. QED  BY <1>4, <1>5, <1>6, <1>7, <1>8, <1>9, <1>10 DEF IInv

(* The row of an attempt whose number is free is added.                      *)
LEMMA AttemptAdded ==
  ASSUME IInv, NEW d \in Dispatch, HoldsLock(d), NEW status \in {"completed", "failed"},
         ~config[StepOf(d)].child
  PROVE  LET row == [step |-> StepOf(d), number |-> tasks[StepOf(d)].attempt, status |-> status]
         IN  /\ row \in AttemptRow
             /\ WithAttempt(StepOf(d), Number(d), status) = attempts \cup {row}
             /\ tasks[StepOf(d)].attempt = dispatches[d].retry + 1
<1>. DEFINE s == StepOf(d)
<1>1. s \in Step /\ tasks[s].holder = d /\ tasks[s].attempt \in Nat
      /\ \A a \in attempts : a.number \in Nat
  <2>1. tasks[s] \in TaskRow /\ attempts \subseteq AttemptRow
    BY TypesAtHand
  <2>. QED  BY <2>1, TypesAtHand DEF TaskRow, AttemptRow, HoldsLock
<1>2. dispatches[d].retry + 1 = tasks[s].attempt
  BY <1>1 DEF IInv, LocksOK
<1>3. \A a \in attempts : a.step = s => a.number < tasks[s].attempt
  BY <1>1 DEF IInv, StepOK, AttemptsOK
<1>4. ~\E a \in attempts : a.step = s /\ a.number = Number(d)
  BY <1>1, <1>2, <1>3 DEF Number
<1>5. [step |-> s, number |-> tasks[s].attempt, status |-> status] \in AttemptRow
  BY <1>1 DEF AttemptRow
<1>6. WithAttempt(s, Number(d), status)
        = attempts \cup {[step |-> s, number |-> tasks[s].attempt, status |-> status]}
  BY <1>2, <1>4 DEF WithAttempt, Number
<1>. QED  BY <1>2, <1>5, <1>6

LEMMA RetryOK ==
  ASSUME IInv, NEW d \in Dispatch, RescheduleForRetry(d), UNCHANGED group
  PROVE  IInv'
<1>1. CASE ~HoldsLock(d)
  BY <1>1, HandlerFailsOK DEF RescheduleForRetry
<1>2. CASE HoldsLock(d)
  <2>0. PICK s \in Step : s = StepOf(d)
    BY TypesAtHand
  <2>1. /\ UNCHANGED <<times, steps, effects, run, faults, group>>
        /\ attempts' = WithAttempt(s, Number(d), "failed")
        /\ HasRetry(s, dispatches[d].retry + 1) /\ ~config[s].child
        /\ s \in Step /\ tasks \in [Step -> TaskRow] /\ dispatches \in [Dispatch -> Dispatched]
        /\ tasks[s].holder = d
    BY <1>2, <2>0, TypesAtHand DEF RescheduleForRetry, Returning, HoldsLock
  <2>. DEFINE row == [step |-> s, number |-> tasks[s].attempt, status |-> "failed"]
  <2>2. /\ attempts' = attempts \cup {row} /\ row \in AttemptRow
        /\ tasks[s].attempt = dispatches[d].retry + 1
    BY <1>2, <2>0, <2>1, AttemptAdded
  <2>3. PICK t \in TaskRow : /\ tasks' = [tasks EXCEPT ![s] = t] /\ t.status = "scheduled"
                             /\ t.holder = Nobody /\ t.attempt = tasks[s].attempt
                             /\ t.retried = tasks[s].retried
    <3>. DEFINE u == Settled(s, "scheduled")
    <3>. DEFINE n == Delay(s, dispatches[d].retry + 1)
    <3>. DEFINE t == [u[s] EXCEPT !.wait = n]
    <3>1. /\ u \in [Step -> TaskRow] /\ u[s].status = "scheduled" /\ u[s].holder = Nobody
          /\ u[s].attempt = tasks[s].attempt /\ u[s].retried = tasks[s].retried
      BY <2>1, SettledFacts
    <3>2. \A r \in Step \ {s} : u[r] = tasks[r]
      BY <2>1, SettledFacts
    <3>3. n \in Nat
      <4>1. dispatches[d].retry + 1 \in Nat \ {0}
        BY TypesAtHand
      <4>. QED  BY <2>1, <4>1, DelayNat DEF IInv
    <3>4. tasks' = [u EXCEPT ![s] = t]
      BY <1>2, <2>0, <2>1, <3>1 DEF RescheduleForRetry
    <3>5. u[s] \in TaskRow
      BY <2>1, <3>1
    <3>. HIDE DEF u, n
    <3>6. t \in TaskRow /\ t.status = "scheduled" /\ t.holder = Nobody
          /\ t.attempt = tasks[s].attempt /\ t.retried = tasks[s].retried
      BY <3>1, <3>3, <3>5 DEF TaskRow
    <3>. HIDE DEF t
    <3>7. [u EXCEPT ![s] = t] = [tasks EXCEPT ![s] = t]
      BY <2>1, <3>1, <3>2
    <3>. QED  BY <3>4, <3>6, <3>7
  <2>4. PICK e \in Dispatched : /\ dispatches' = [dispatches EXCEPT ![d] = e]
                                /\ e.phase = "hintless" /\ e.step = s
    <3>. DEFINE e == [dispatches[d] EXCEPT !.phase = "hintless", !.kind = "null", !.trx = FALSE]
    <3>1. dispatches[d] \in Dispatched
      BY <2>1
    <3>2. e \in Dispatched
      BY <3>1 DEF Dispatched
    <3>3. e.phase = "hintless" /\ e.step = s
      BY <2>0, <3>1 DEF Dispatched, StepOf
    <3>4. dispatches' = [dispatches EXCEPT ![d] = e]
      BY <1>2 DEF RescheduleForRetry, Become
    <3>. QED  BY <3>2, <3>3, <3>4
  <2>5. tasks'[s] = t /\ (\A r \in Step \ {s} : tasks'[r] = tasks[r])
        /\ dispatches'[d] = e /\ (\A f \in Dispatch \ {d} : dispatches'[f] = dispatches[f])
    BY <2>1, <2>3, <2>4
  <2>6. \A r \in Step \ {s} : {a \in attempts' : a.step = r} = {a \in attempts : a.step = r}
    BY <2>2
  <2>7. /\ \A r \in Step \ {s} : StepOK(r)'
        /\ ConfigOK'
        /\ \A f \in Dispatch \ {d} : DispatchOK(dispatches[f])'
    BY <2>1, <2>5, <2>6, OthersStay
  <2>8. TypeOK'
    BY <2>1, <2>2, <2>3, <2>4 DEF IInv, TypeOK, AttemptsTypeOK, times, group
  <2>9. LocksOK'
    <3>1. Nobody \notin Dispatch
      BY AttemptsAssumption
    <3>2. \A r \in Step \ {s} : tasks[r].holder # d
      BY <2>1 DEF IInv, LocksOK
    <3>. QED  BY <2>3, <2>5, <3>1, <3>2 DEF IInv, LocksOK, StepOf
  <2>10. GroupCounts'
    BY <2>1 DEF IInv, GroupCounts, IsGroup, group, times
  <2>11. StepOK(s)'
    <3>1. StepOK(s) /\ tasks[s].attempt \in Nat /\ tasks[s].status = "picked_up"
      BY <2>1 DEF IInv, TaskRow, LocksOK
    <3>2. steps[s].status = "scheduled"
      BY <3>1 DEF StepOK
    <3>3. tasks[s].attempt \in 1..config[s].retries
      <4>1. config[s].retries \in Nat
        BY RetriesNat DEF IInv
      <4>. QED  BY <2>1, <2>2, <3>1, <4>1 DEF HasRetry
    <3>4. AttemptsOK(s)'
      <4>1. \A a \in attempts : a.step = s => a.number <= tasks[s].attempt
                                              /\ a.status # "completed"
                                              /\ (a.status = "failed" => a.number \in 1..config[s].retries)
        BY <2>1, <3>1, <3>2 DEF StepOK, AttemptsOK
      <4>2. Nobody \notin Dispatch
        BY AttemptsAssumption
      <4>3. config' = config /\ steps' = steps
        BY <2>1 DEF times
      <4>. QED  BY <2>2, <2>3, <2>5, <3>1, <3>2, <3>3, <4>1, <4>2, <4>3 DEF AttemptsOK
    <3>. QED  BY <2>1, <2>3, <2>5, <3>1, <3>2, <3>4 DEF StepOK, times
  <2>12. DispatchOK(dispatches[d])'
    <3>1. DispatchOK(e)'
      BY <2>1, <2>4 DEF DispatchOK, times
    <3>. QED  BY <2>5, <3>1
  <2>. QED  BY <2>5, <2>7, <2>8, <2>9, <2>10, <2>11, <2>12 DEF IInv
<1>. QED  BY <1>1, <1>2

-----------------------------------------------------------------------------
(* A completion commits.                                                    *)

(* All but what depends on what became of the step.                          *)
LEMMA CommittedFacts ==
  ASSUME IInv, NEW d \in Dispatch, NEW s \in Step, s = StepOf(d), HoldsLock(d),
         NEW status \in {"completed", "dead"}, NEW result \in {"ok", "err", "rx", "timeout"},
         Committed(d, status, result), Ends(d), UNCHANGED <<times, run, faults>>
  PROVE  /\ AttemptsTypeOK' /\ ConfigOK' /\ LocksOK'
         /\ \A r \in Step \ {s} : StepOK(r)' /\ steps'[r] = steps[r]
         /\ \A e \in Dispatch : DispatchOK(dispatches[e])'
         /\ steps[s].status = "scheduled" /\ steps'[s].status = status /\ steps'[s].result = result
         /\ tasks'[s].status = "completed" /\ tasks'[s].holder = Nobody
         /\ tasks'[s].attempt = tasks[s].attempt /\ tasks'[s].retried = tasks[s].retried
         /\ effects'[s] = IF dispatches[d].trx THEN effects[s] + 1 ELSE effects[s]
         /\ tasks[s].holder = d
<1>1. /\ tasks \in [Step -> TaskRow] /\ steps \in [Step -> StepRow] /\ effects \in [Step -> Nat]
      /\ dispatches \in [Dispatch -> Dispatched] /\ attempts \subseteq AttemptRow
      /\ tasks[s].holder = d /\ tasks[s].status = "picked_up"
  BY TypesAtHand DEF HoldsLock, IInv, LocksOK
<1>2. /\ attempts' = WithAttempt(s, Number(d), "completed")
      /\ steps' = [steps EXCEPT ![s] = [status |-> status, result |-> result]]
      /\ tasks' = Settled(s, "completed")
      /\ effects' = [effects EXCEPT ![s] = IF dispatches[d].trx THEN @ + 1 ELSE @]
      /\ dispatches' = [dispatches EXCEPT ![d] = Idle]
      /\ UNCHANGED <<config, life, left, run, faults>>
  BY DEF Committed, Ends, Become, times
<1>3. steps[s].status = "scheduled"
  BY <1>1 DEF IInv, StepOK
<1>4. /\ tasks' \in [Step -> TaskRow] /\ \A r \in Step \ {s} : tasks'[r] = tasks[r]
      /\ tasks'[s].status = "completed" /\ tasks'[s].holder = Nobody
      /\ tasks'[s].attempt = tasks[s].attempt /\ tasks'[s].retried = tasks[s].retried
      /\ Nobody \notin Dispatch
  BY <1>2, SettledFacts
<1>5. /\ steps' \in [Step -> StepRow] /\ (\A r \in Step \ {s} : steps'[r] = steps[r])
      /\ steps'[s].status = status /\ steps'[s].result = result
  <2>1. [status |-> status, result |-> result] \in StepRow
    BY DEF StepRow
  <2>. QED  BY <1>1, <1>2, <2>1
<1>6. /\ effects' \in [Step -> Nat] /\ (\A r \in Step \ {s} : effects'[r] = effects[r])
      /\ effects'[s] = IF dispatches[d].trx THEN effects[s] + 1 ELSE effects[s]
  <2>. DEFINE n == IF dispatches[d].trx THEN effects[s] + 1 ELSE effects[s]
  <2>1. effects' = [effects EXCEPT ![s] = n] /\ n \in Nat
    BY <1>1, <1>2
  <2>. HIDE DEF n
  <2>2. effects'[s] = n /\ effects' \in [Step -> Nat]
    BY <1>1, <2>1
  <2>. QED  BY <1>1, <2>1, <2>2 DEF n
<1>7. /\ attempts' \subseteq AttemptRow
      /\ \A r \in Step \ {s} : {a \in attempts' : a.step = r} = {a \in attempts : a.step = r}
  <2>. DEFINE row == [step |-> s, number |-> Number(d), status |-> "completed"]
  <2>1. row \in AttemptRow /\ row.step = s
    BY TypesAtHand DEF AttemptRow, Number
  <2>2. attempts' = attempts \/ attempts' = attempts \cup {row}
    BY <1>2 DEF WithAttempt
  <2>. HIDE DEF row
  <2>. QED  BY <1>1, <2>1, <2>2
<1>8. dispatches' \in [Dispatch -> Dispatched] /\ dispatches'[d] = Idle
      /\ \A e \in Dispatch \ {d} : dispatches'[e] = dispatches[e]
  BY <1>1, <1>2, IdleFacts
<1>9. AttemptsTypeOK'
  BY <1>2, <1>4, <1>5, <1>6, <1>7, <1>8 DEF IInv, TypeOK, AttemptsTypeOK
<1>10. /\ \A r \in Step \ {s} : StepOK(r)'
       /\ ConfigOK'
       /\ \A e \in Dispatch : dispatches'[e] = dispatches[e] => DispatchOK(dispatches[e])'
  BY <1>4, <1>5, <1>6, <1>7, OthersStay
<1>11. LocksOK'
  <2>1. \A r \in Step \ {s} : tasks[r].holder # d
    BY <1>1 DEF IInv, LocksOK
  <2>. QED  BY <1>4, <1>8, <2>1 DEF IInv, LocksOK, StepOf
<1>12. DispatchOK(dispatches[d])'
  <2>1. DispatchOK(Idle)'
    BY IdleOK, SameDispatchOK
  <2>2. Idle' = Idle
    BY DEF Idle, AnyStep, Unlimited
  <2>. QED  BY <1>8, <2>1, <2>2
<1>. QED  BY <1>1, <1>3, <1>4, <1>5, <1>6, <1>8, <1>9, <1>10, <1>11, <1>12

LEMMA CompleteStepOK ==
  ASSUME IInv, NEW d \in Dispatch, CompleteStep(d), UNCHANGED group
  PROVE  IInv'
<1>1. Ends(d) /\ UNCHANGED <<times, run, faults>>
  BY DEF CompleteStep
<1>2. CASE ~HoldsLock(d)
  BY <1>1, <1>2, RefusedOK DEF CompleteStep
<1>3. CASE HoldsLock(d)
  <2>1. PICK s \in Step : s = StepOf(d)
    BY TypesAtHand
  <2>2. PICK e : e = dispatches[d] /\ e \in Dispatched /\ e.step = s /\ DispatchOK(e)
    BY <2>1, TypesAtHand DEF IInv, StepOf
  <2>3. e.phase = "completing"
    BY <1>3, <2>1, <2>2 DEF CompleteStep, At, HoldsLock, IInv, LocksOK
  <2>4. /\ e.kind \in {"ok", "err", "rx", "timeout"} /\ ~config[s].child
        /\ e.trx => e.kind = "ok"
        /\ e.kind = "err" => config[s].retries = 0
        /\ e.kind = "rx" => config[s].retries > 0 /\ e.retry + 1 > config[s].retries
        /\ e.kind = "timeout" => config[s].scope # "none"
    BY <2>2, <2>3 DEF DispatchOK
  <2>5. Committed(d, "completed", e.kind)
    BY <1>3, <2>2 DEF CompleteStep
  <2>6. /\ AttemptsTypeOK' /\ ConfigOK' /\ LocksOK'
        /\ \A r \in Step \ {s} : StepOK(r)' /\ steps'[r] = steps[r]
        /\ \A f \in Dispatch : DispatchOK(dispatches[f])'
        /\ steps[s].status = "scheduled" /\ steps'[s].status = "completed" /\ steps'[s].result = e.kind
        /\ tasks'[s].status = "completed" /\ tasks'[s].holder = Nobody
        /\ tasks'[s].attempt = tasks[s].attempt /\ tasks'[s].retried = tasks[s].retried
        /\ effects'[s] = IF e.trx THEN effects[s] + 1 ELSE effects[s]
        /\ tasks[s].holder = d
    BY <1>1, <1>3, <2>1, <2>2, <2>4, <2>5, CommittedFacts
  <2>7. UNCHANGED <<config, left, group>>
    BY <1>1 DEF times
  <2>8. TypeOK'
    BY <2>6 DEF IInv, TypeOK, group
  <2>9. GroupCounts'
    BY <2>4, <2>7 DEF GroupCounts, IsGroup
  <2>. DEFINE row == [step |-> s, number |-> tasks[s].attempt, status |-> "completed"]
  <2>10. row \in AttemptRow /\ attempts' = attempts \cup {row}
         /\ tasks[s].attempt = e.retry + 1
    BY <1>3, <2>1, <2>2, <2>4, <2>5, AttemptAdded DEF Committed
  <2>11. StepOK(s)'
    <3>1. StepOK(s) /\ effects[s] = 0
      BY <2>4, <2>6 DEF IInv, StepOK
    <3>2. AttemptsOK(s)'
      <4>1. \A a \in attempts : a.step = s => a.number <= tasks[s].attempt
                                              /\ a.status # "completed"
                                              /\ (a.status = "failed" => a.number \in 1..config[s].retries)
        BY <2>4, <2>6, <3>1 DEF StepOK, AttemptsOK
      <4>2. tasks[s].attempt \in Nat /\ Nobody \notin Dispatch
        BY TypesAtHand, AttemptsAssumption DEF TaskRow
      <4>. QED  BY <2>6, <2>7, <2>10, <4>1, <4>2 DEF AttemptsOK
    <3>. QED  BY <2>4, <2>6, <2>7, <2>10, <3>1, <3>2 DEF StepOK
  <2>. QED  BY <2>6, <2>8, <2>9, <2>11 DEF IInv
<1>. QED  BY <1>2, <1>3

(* The children that are still to complete.                                  *)
Open == {s \in Step : steps[s].status # "completed"}

LEMMA ChildOK ==
  ASSUME IInv, NEW d \in Dispatch, CompleteWaitGroupChild(d) \/ FailWaitGroupChild(d)
  PROVE  IInv'
<1>1. Ends(d) /\ UNCHANGED <<times, run, faults>>
  BY DEF CompleteWaitGroupChild, FailWaitGroupChild
<1>2. CASE ~(HoldsLock(d) /\ StepIdHolds(d))
  BY <1>1, <1>2, RefusedOK DEF CompleteWaitGroupChild, FailWaitGroupChild
<1>3. CASE HoldsLock(d) /\ StepIdHolds(d)
  <2>1. PICK s \in Step : s = StepOf(d)
    BY TypesAtHand
  <2>2. config[s].child /\ ~tasks[s].retried /\ config[s] \in Config
    BY <1>3, <2>1, TypesAtHand DEF CompleteWaitGroupChild, FailWaitGroupChild, ChildReturns, StepIdHolds
  <2>3. PICK status \in {"completed", "dead"}, result \in {"ok", "err"} :
          /\ Committed(d, status, result)
          /\ status = "completed" => /\ remaining' = remaining - 1
                                     /\ resumed' = (resumed \/ Last) /\ UNCHANGED firstFailed
          /\ status = "dead" => firstFailed' = TRUE /\ UNCHANGED <<remaining, resumed>>
    BY <1>3 DEF CompleteWaitGroupChild, FailWaitGroupChild, ChildReturns
  <2>4. /\ AttemptsTypeOK' /\ ConfigOK' /\ LocksOK'
        /\ \A r \in Step \ {s} : StepOK(r)' /\ steps'[r] = steps[r]
        /\ \A f \in Dispatch : DispatchOK(dispatches[f])'
        /\ steps[s].status = "scheduled" /\ steps'[s].status = status /\ steps'[s].result = result
        /\ tasks'[s].status = "completed" /\ tasks'[s].retried = tasks[s].retried
        /\ effects'[s] = IF dispatches[d].trx THEN effects[s] + 1 ELSE effects[s]
    BY <1>1, <1>3, <2>1, <2>3, CommittedFacts
  <2>5. UNCHANGED <<config, left>>
    BY <1>1 DEF times
  <2>6. StepOK(s)'
    <3>1. StepOK(s) /\ effects[s] = 0
      BY <2>2, <2>4 DEF IInv, StepOK
    <3>2. config[s].child \in BOOLEAN /\ config[s].retries = 0
      BY <2>2 DEF Config, IInv, ConfigOK
    <3>3. result \in {"ok", "err"} /\ tasks'[s].status = "completed"
      BY <2>3, <2>4
    <3>. QED  BY <2>2, <2>3, <2>4, <2>5, <3>1, <3>2, <3>3 DEF StepOK
  <2>7. IsGroup /\ remaining = Cardinality(Open) /\ (resumed <=> remaining = 0)
    BY <2>2 DEF IInv, ConfigOK, GroupCounts, Open
  <2>8. IsFiniteSet(Open) /\ s \in Open /\ Open \subseteq Step
    <3>1. Open \subseteq Step /\ s \in Open
      BY <2>4 DEF Open
    <3>. QED  BY <3>1, FS_Subset, AttemptsAssumption
  <2>9. remaining \in Nat /\ remaining # 0 /\ resumed = FALSE
    BY <2>7, <2>8, FS_CardinalityType, FS_EmptySet DEF IInv, TypeOK
  <2>10. CASE status = "completed"
    <3>1. Open' = Open \ {s}
      BY <2>4, <2>10 DEF Open
    <3>2. Cardinality(Open \ {s}) = Cardinality(Open) - 1
      BY <2>8, FS_RemoveElement
    <3>3. remaining' = Cardinality(Open')
      BY <2>3, <2>7, <2>10, <3>1, <3>2
    <3>4. resumed' \in BOOLEAN /\ (resumed' <=> remaining' = 0)
      <4>1. remaining' = 0 <=> remaining = 1
        BY <2>3, <2>9, <2>10
      <4>2. resumed' = (FALSE \/ remaining = 1)
        BY <2>3, <2>9, <2>10, Zenon DEF Last
      <4>. QED  BY <4>1, <4>2, Zenon
    <3>5. GroupCounts'
      BY <3>3, <3>4 DEF GroupCounts, Open
    <3>6. TypeOK'
      <4>1. remaining \in 0..Cardinality(Step) /\ firstFailed \in BOOLEAN
        BY DEF IInv, TypeOK
      <4>2. Cardinality(Step) \in Nat
        BY AttemptsAssumption, FS_CardinalityType
      <4>3. remaining' \in 0..Cardinality(Step)
        BY <2>3, <2>9, <2>10, <4>1, <4>2
      <4>. QED  BY <2>3, <2>4, <2>10, <3>4, <4>1, <4>3 DEF TypeOK
    <3>. QED  BY <2>4, <2>6, <3>5, <3>6 DEF IInv
  <2>11. CASE status = "dead"
    <3>1. Open' = Open
      BY <2>4, <2>11 DEF Open
    <3>2. GroupCounts'
      BY <2>3, <2>7, <2>11, <3>1 DEF GroupCounts, Open
    <3>3. TypeOK'
      BY <2>3, <2>4, <2>11 DEF IInv, TypeOK
    <3>. QED  BY <2>4, <2>6, <3>2, <3>3 DEF IInv
  <2>. QED  BY <2>10, <2>11
<1>. QED  BY <1>2, <1>3

LEMMA RetryDeadStepOK == ASSUME IInv, NEW s \in Step, RetryDeadStep(s) PROVE IInv'
<1>1. /\ tasks \in [Step -> TaskRow] /\ steps \in [Step -> StepRow]
      /\ UNCHANGED <<times, attempts, effects, dispatches, faults, group>>
      /\ run' = "running" /\ StepOK(s) /\ steps[s].status = "dead" /\ Nobody \notin Dispatch
  BY TypesAtHand, AttemptsAssumption DEF RetryDeadStep, IsDead, IInv
<1>2. PICK t \in TaskRow : /\ tasks' = [tasks EXCEPT ![s] = t] /\ t.holder = Nobody /\ t.retried
  <2>. DEFINE t == [status |-> "scheduled", holder |-> Nobody, attempt |-> 0, wait |-> 0,
                    retried |-> TRUE]
  <2>1. t \in TaskRow /\ t.holder = Nobody /\ t.retried
    BY DEF TaskRow
  <2>2. tasks' = [tasks EXCEPT ![s] = t]
    BY DEF RetryDeadStep
  <2>. QED  BY <2>1, <2>2
<1>3. PICK u \in StepRow : /\ steps' = [steps EXCEPT ![s] = u] /\ u.status = "scheduled"
                            /\ u.result = steps[s].result
  <2>. DEFINE u == [steps[s] EXCEPT !.status = "scheduled"]
  <2>1. steps[s] \in StepRow
    BY <1>1
  <2>2. u \in StepRow /\ u.status = "scheduled" /\ u.result = steps[s].result
    BY <2>1 DEF StepRow
  <2>3. steps' = [steps EXCEPT ![s] = u]
    BY DEF RetryDeadStep
  <2>. QED  BY <2>2, <2>3
<1>4. /\ tasks'[s] = t /\ \A r \in Step \ {s} : tasks'[r] = tasks[r]
      /\ steps'[s] = u /\ \A r \in Step \ {s} : steps'[r] = steps[r]
  BY <1>1, <1>2, <1>3
<1>5. /\ \A r \in Step \ {s} : StepOK(r)'
      /\ ConfigOK'
      /\ \A e \in Dispatch : DispatchOK(dispatches[e])'
  BY <1>1, <1>4, OthersStay
<1>6. TypeOK'
  BY <1>1, <1>2, <1>3 DEF IInv, TypeOK, AttemptsTypeOK, times, group
<1>7. LocksOK'
  BY <1>1, <1>2, <1>4 DEF IInv, LocksOK, StepOf
<1>8. GroupCounts'
  <2>1. Open' = Open
    BY <1>1, <1>3, <1>4 DEF Open
  <2>2. GroupCounts
    BY DEF IInv
  <2>. QED  BY <1>1, <2>1, <2>2 DEF GroupCounts, IsGroup, Open, times, group
<1>9. StepOK(s)'
  <2>1. /\ config[s].child /\ effects[s] \in {0, 1}
        /\ config[s].scope = "global" => left[s] <= Timeout
        /\ effects[s] = 1 => steps[s].result \in {"ok", "err"}
    BY <1>1 DEF StepOK
  <2>2. UNCHANGED <<config, left, effects>>
    BY <1>1 DEF times
  <2>. QED  BY <1>2, <1>3, <1>4, <2>1, <2>2 DEF StepOK
<1>. QED  BY <1>5, <1>6, <1>7, <1>8, <1>9 DEF IInv

LEMMA RecoverGroupOK == ASSUME IInv, RecoverWaitGroupOrphans PROVE IInv'
<1>1. UNCHANGED <<config, life, left, tasks, steps, attempts, effects, run, dispatches, faults,
                  remaining, firstFailed>>
      /\ resumed' = TRUE /\ remaining = 0
  BY DEF RecoverWaitGroupOrphans, attemptVars
<1>2. TypeOK'
  BY <1>1 DEF IInv, TypeOK, AttemptsTypeOK
<1>3. GroupCounts'
  BY <1>1 DEF IInv, GroupCounts, IsGroup
<1>4. ConfigOK' /\ LocksOK' /\ \A s \in Step : StepOK(s)'
  BY <1>1 DEF IInv, ConfigOK, IsGroup, LocksOK, StepOf, StepOK, AttemptsOK
<1>5. \A d \in Dispatch : DispatchOK(dispatches[d])'
  BY <1>1 DEF IInv, DispatchOK
<1>. QED  BY <1>2, <1>3, <1>4, <1>5 DEF IInv

-----------------------------------------------------------------------------
(* Time passes.                                                             *)

LEMMA LowerFacts ==
  /\ \A t \in Nat : Lower(t) \in Nat /\ Lower(t) <= t
  /\ Lower(Unlimited) = Unlimited /\ Lower(0) = 0
  /\ \A t \in 0..Unlimited : t # Unlimited => Lower(t) # Unlimited
  /\ \A t, u \in 0..(Unlimited - 1) : t <= u => Lower(t) <= Lower(u)
BY TickNumbers DEF Lower

LEMMA TickOK == ASSUME IInv, Tick, UNCHANGED group PROVE IInv'
<1>1. /\ UNCHANGED <<config, steps, attempts, effects, run, faults, group>>
      /\ life' = Lower(life)
  BY DEF Tick
<1>2. \A s \in Step : /\ tasks'[s] \in TaskRow /\ tasks'[s].status = tasks[s].status
                      /\ tasks'[s].holder = tasks[s].holder
                      /\ tasks'[s].attempt = tasks[s].attempt
                      /\ tasks'[s].retried = tasks[s].retried
  <2>. TAKE s \in Step
  <2>1. tasks[s] \in TaskRow
    BY TypesAtHand
  <2>2. tasks[s].wait \in Nat
    BY <2>1 DEF TaskRow
  <2>. DEFINE n == Lower(tasks[s].wait)
  <2>3. n \in Nat
    BY <2>2, LowerFacts
  <2>4. tasks'[s] = [tasks[s] EXCEPT !.wait = n]
    BY DEF Tick
  <2>. HIDE DEF n
  <2>. QED  BY <2>1, <2>3, <2>4 DEF TaskRow
<1>3. \A s \in Step : /\ left'[s] = Lower(left[s]) /\ left'[s] \in 0..Timeout \cup {Unlimited}
                      /\ left[s] <= Timeout => left'[s] <= Timeout
  <2>. TAKE s \in Step
  <2>1. left[s] \in 0..Timeout \cup {Unlimited} /\ left'[s] = Lower(left[s])
    BY TypesAtHand DEF Tick
  <2>2. CASE left[s] = Unlimited
    BY <2>1, <2>2, TickNumbers, LowerFacts
  <2>3. CASE left[s] \in 0..Timeout
    BY <2>1, <2>3, TickNumbers, LowerFacts
  <2>. QED  BY <2>1, <2>2, <2>3
<1>4. life' \in 0..Lifetime \cup {Unlimited} /\ (life' # 0 => life # 0)
  <2>1. life \in 0..Lifetime \cup {Unlimited}
    BY DEF IInv, TypeOK, AttemptsTypeOK
  <2>2. CASE life = Unlimited
    BY <1>1, <2>2, TickNumbers, LowerFacts
  <2>3. CASE life \in 0..Lifetime
    BY <1>1, <2>3, TickNumbers, LowerFacts
  <2>. QED  BY <2>1, <2>2, <2>3
<1>5. \A d \in Dispatch :
        /\ dispatches'[d] \in Dispatched
        /\ dispatches'[d].limit = Lower(dispatches[d].limit) /\ dispatches[d].limit \in 0..Unlimited
        /\ dispatches'[d].phase = dispatches[d].phase /\ dispatches'[d].step = dispatches[d].step
        /\ dispatches'[d].retry = dispatches[d].retry /\ dispatches'[d].trx = dispatches[d].trx
        /\ dispatches'[d].kind = dispatches[d].kind
  <2>. TAKE d \in Dispatch
  <2>1. dispatches[d] \in Dispatched
    BY TypesAtHand
  <2>2. dispatches[d].limit \in 0..Unlimited
    BY <2>1 DEF Dispatched
  <2>. DEFINE n == Lower(dispatches[d].limit)
  <2>3. n \in 0..Unlimited
    BY <2>2, LowerFacts, TickNumbers
  <2>4. dispatches'[d] = [dispatches[d] EXCEPT !.limit = n]
    BY DEF Tick
  <2>. HIDE DEF n
  <2>5. dispatches'[d] \in Dispatched
    BY <2>1, <2>3, <2>4 DEF Dispatched
  <2>6. dispatches'[d].limit = n
    BY <2>1, <2>4 DEF Dispatched
  <2>7. dispatches'[d].phase = dispatches[d].phase /\ dispatches'[d].step = dispatches[d].step
        /\ dispatches'[d].retry = dispatches[d].retry
    BY <2>1, <2>4 DEF Dispatched
  <2>8. dispatches'[d].trx = dispatches[d].trx /\ dispatches'[d].kind = dispatches[d].kind
    BY <2>1, <2>4 DEF Dispatched
  <2>. QED  BY <2>2, <2>5, <2>6, <2>7, <2>8 DEF n
<1>6. TypeOK'
  <2>1. /\ tasks' \in [Step -> TaskRow] /\ left' \in [Step -> 0..Timeout \cup {Unlimited}]
        /\ dispatches' \in [Dispatch -> Dispatched]
    BY <1>2, <1>3, <1>5 DEF Tick
  <2>. QED  BY <1>1, <1>4, <2>1 DEF IInv, TypeOK, AttemptsTypeOK, group
<1>7. ConfigOK' /\ GroupCounts'
  BY <1>1 DEF IInv, ConfigOK, IsGroup, GroupCounts, group
<1>8. LocksOK'
  BY <1>2, <1>5 DEF IInv, LocksOK, StepOf
<1>9. ASSUME NEW s \in Step PROVE StepOK(s)'
  <2>1. StepOK(s)
    BY DEF IInv
  <2>2. AttemptsOK(s) => AttemptsOK(s)'
    BY <1>1, <1>2 DEF AttemptsOK
  <2>. QED  BY <1>1, <1>2, <1>3, <2>1, <2>2 DEF StepOK
<1>10. ASSUME NEW d \in Dispatch PROVE DispatchOK(dispatches[d])'
  <2>1. PICK e : e = dispatches[d] /\ e \in Dispatched /\ DispatchOK(e)
    BY TypesAtHand DEF IInv
  <2>2. PICK f : f = dispatches'[d] /\ f \in Dispatched
    BY <1>5
  <2>3. /\ f.limit = Lower(e.limit) /\ e.limit \in 0..Unlimited /\ e.step \in Step
        /\ f.phase = e.phase /\ f.step = e.step /\ f.retry = e.retry /\ f.trx = e.trx
        /\ f.kind = e.kind
    BY <1>5, <2>1, <2>2 DEF Dispatched
  <2>4. f.phase = "running" => (config[f.step].scope = "none" => f.limit = Unlimited)
    BY <2>1, <2>3, LowerFacts DEF DispatchOK
  <2>5. ASSUME f.phase = "running", config[f.step].scope = "global", life' # 0
        PROVE  f.limit # Unlimited /\ f.limit <= left'[f.step]
    <3>1. e.limit # Unlimited /\ e.limit <= left[e.step] /\ left[e.step] <= Timeout
      BY <1>4, <2>1, <2>3, <2>5 DEF DispatchOK, IInv, StepOK
    <3>2. left[e.step] \in 0..Timeout \cup {Unlimited}
      BY <2>3, TypesAtHand
    <3>3. left[e.step] \in 0..(Unlimited - 1) /\ e.limit \in 0..(Unlimited - 1)
      BY <2>3, <3>1, <3>2, TickNumbers
    <3>4. left'[f.step] = Lower(left[e.step])
      BY <1>3, <2>3
    <3>. QED  BY <2>3, <3>1, <3>3, <3>4, LowerFacts
  <2>6. DispatchOK(f)'
    BY <1>1, <2>1, <2>3, <2>4, <2>5 DEF DispatchOK
  <2>. QED  BY <2>2, <2>6
<1>. QED  BY <1>6, <1>7, <1>8, <1>9, <1>10 DEF IInv

-----------------------------------------------------------------------------
(* The invariant.                                                           *)

LEMMA DeclaredOK ==
  ASSUME NEW a \in Attributes
  PROVE  /\ Implemented(a) \in Config /\ ~Implemented(a).child
         /\ AsChild(a) \in Config /\ AsChild(a).child /\ AsChild(a).retries = 0
<1>1. /\ a.attempts \in MaxAttempts /\ a.timeout \in BOOLEAN /\ a.scope \in Scope
      /\ a.retry \in {"none", "fixed", "exponential", "capped"}
  BY DEF Attributes
<1>2. Implemented(a) \in Config
  BY <1>1 DEF Implemented, RetryConfig, Config, Scope
<1>3. ~Implemented(a).child
  BY DEF Implemented
<1>. QED  BY <1>2, <1>3 DEF AsChild, Config, Scope

LEMMA ScheduledOK ==
  ASSUME config \in [Step -> Config], ConfigOK, NEW S, NEW l \in 0..Lifetime \cup {Unlimited},
         Scheduled(S, l), remaining = Cardinality(Step), firstFailed = FALSE, resumed = FALSE
  PROVE  IInv
<1>1. /\ left = [s \in Step |-> IF config[s].scope = "global" THEN Timeout ELSE Unlimited]
      /\ tasks = [s \in Step |-> [status |-> IF s \in S THEN "scheduled" ELSE "absent",
                                  holder |-> Nobody, attempt |-> 0, wait |-> 0, retried |-> FALSE]]
      /\ steps = [s \in Step |-> [status |-> "scheduled", result |-> "none"]]
      /\ life = l /\ attempts = {} /\ effects = [s \in Step |-> 0] /\ run = "scheduled"
      /\ dispatches = [d \in Dispatch |-> Idle] /\ faults = 0
  BY DEF Scheduled
<1>2. Nobody \notin Dispatch /\ MaxFaults \in Nat
  BY AttemptsAssumption
<1>3. Cardinality(Step) \in Nat /\ Cardinality(Step) # 0
  BY AttemptsAssumption, FS_CardinalityType, FS_EmptySet
<1>4. tasks \in [Step -> TaskRow] /\ steps \in [Step -> StepRow]
  BY <1>1 DEF TaskRow, StepRow
<1>5. left \in [Step -> 0..Timeout \cup {Unlimited}]
      /\ \A s \in Step : config[s].scope = "global" => left[s] <= Timeout
  BY <1>1, TickNumbers
<1>6. TypeOK
  <2>1. effects \in [Step -> Nat] /\ dispatches \in [Dispatch -> Dispatched] /\ faults \in 0..MaxFaults
    BY <1>1, <1>2, IdleFacts
  <2>2. AttemptsTypeOK
    BY <1>1, <1>4, <1>5, <2>1 DEF AttemptsTypeOK
  <2>3. remaining \in 0..Cardinality(Step)
    BY <1>3
  <2>. QED  BY <2>2, <2>3 DEF TypeOK
<1>7. LocksOK
  BY <1>1, <1>2 DEF LocksOK
<1>8. GroupCounts
  <2>1. {s \in Step : steps[s].status # "completed"} = Step
    BY <1>1
  <2>. QED  BY <1>3, <2>1 DEF GroupCounts
<1>9. ASSUME NEW s \in Step PROVE StepOK(s)
  BY <1>1, <1>5 DEF StepOK, AttemptsOK
<1>10. \A d \in Dispatch : DispatchOK(dispatches[d])
  BY <1>1, IdleOK
<1>. QED  BY <1>6, <1>7, <1>8, <1>9, <1>10 DEF IInv

LEMMA InitOK == Init => IInv
<1>. SUFFICES ASSUME Init PROVE IInv
  OBVIOUS
<1>1. PICK a \in Attributes :
        \/ config = [s \in Step |-> AsChild(a)] /\ Scheduled(Step, Unlimited)
        \/ /\ config = [s \in Step |-> Implemented(a)]
           /\ \E timeout \in BOOLEAN : Scheduled({Single}, LifeOf(timeout))
  BY DEF Init
<1>2. remaining = Cardinality(Step) /\ firstFailed = FALSE /\ resumed = FALSE
  BY DEF Init
<1>3. config \in [Step -> Config] /\ ConfigOK
  BY <1>1, DeclaredOK DEF ConfigOK, IsGroup
<1>4. Unlimited \in 0..Lifetime \cup {Unlimited} /\ Lifetime \in 0..Lifetime \cup {Unlimited}
  BY TickNumbers
<1>5. CASE Scheduled(Step, Unlimited)
  BY <1>2, <1>3, <1>4, <1>5, ScheduledOK
<1>6. ASSUME NEW timeout \in BOOLEAN, Scheduled({Single}, LifeOf(timeout)) PROVE IInv
  <2>1. LifeOf(timeout) \in 0..Lifetime \cup {Unlimited}
    BY <1>4 DEF LifeOf
  <2>. QED  BY <1>2, <1>3, <1>6, <2>1, ScheduledOK
<1>. QED  BY <1>1, <1>5, <1>6

LEMMA StepPreserves == IInv /\ [Next]_vars => IInv'
<1>. SUFFICES ASSUME IInv, [Next]_vars PROVE IInv'
  OBVIOUS
<1>1. CASE UNCHANGED vars
  <2>1. UNCHANGED <<config, life, left, tasks, steps, attempts, effects, run, dispatches, faults, group>>
    BY <1>1 DEF vars, attemptVars
  <2>2. TypeOK' /\ GroupCounts'
    BY <2>1 DEF IInv, TypeOK, AttemptsTypeOK, GroupCounts, IsGroup, group
  <2>3. ConfigOK' /\ LocksOK' /\ (\A s \in Step : StepOK(s)')
    BY <2>1 DEF IInv, ConfigOK, IsGroup, LocksOK, StepOf, StepOK, AttemptsOK
  <2>4. \A d \in Dispatch : DispatchOK(dispatches[d])'
    BY <2>1 DEF IInv, DispatchOK
  <2>. QED  BY <2>2, <2>3, <2>4 DEF IInv
<1>2. ASSUME NEW d \in Dispatch, NEW s \in Step, PickUp(d, s), UNCHANGED group PROVE IInv'
  BY <1>2, PickUpOK
<1>3. ASSUME NEW d \in Dispatch, CheckDeadline(d), UNCHANGED group PROVE IInv'
  <2>1. CASE life = 0
    BY <1>3, <2>1, HandlerFailsOK DEF CheckDeadline
  <2>2. CASE life # 0
    BY <1>3, <2>2, DispatchStepOK
  <2>. QED  BY <2>1, <2>2
<1>4. ASSUME NEW d \in Dispatch, UNCHANGED group,
             RegisterTrx(d) \/ LambdaReturns(d) \/ LambdaTimesOut(d) \/ GiveUp(d) \/ HintCompletion(d)
      PROVE  IInv'
  BY <1>4, DispatchStepOK
<1>5. ASSUME NEW d \in Dispatch, Begin(d), UNCHANGED group PROVE IInv'
  BY <1>5, BeginOK
<1>6. ASSUME NEW d \in Dispatch, RescheduleForRetry(d), UNCHANGED group PROVE IInv'
  BY <1>6, RetryOK
<1>7. ASSUME NEW d \in Dispatch, Unserializable(d), UNCHANGED group PROVE IInv'
  BY <1>7, HandlerFailsOK DEF Unserializable
<1>8. ASSUME NEW d \in Dispatch, CompleteStep(d), UNCHANGED group PROVE IInv'
  BY <1>8, CompleteStepOK
<1>9. ASSUME NEW d \in Dispatch, CompleteWaitGroupChild(d) \/ FailWaitGroupChild(d) PROVE IInv'
  BY <1>9, ChildOK
<1>10. ASSUME NEW d \in Dispatch, Crash(d), UNCHANGED group PROVE IInv'
  BY <1>10, CrashOK
<1>11. ASSUME NEW s \in Step, Lapse(s) \/ Recover(s), UNCHANGED group PROVE IInv'
  BY <1>11, LeaseEndsOK
<1>12. ASSUME NEW s \in Step, RetryDeadStep(s) PROVE IInv'
  BY <1>12, RetryDeadStepOK
<1>13. CASE RecoverWaitGroupOrphans
  BY <1>13, RecoverGroupOK
<1>14. CASE Tick /\ UNCHANGED group
  BY <1>14, TickOK
<1>. QED  BY <1>1, <1>2, <1>3, <1>4, <1>5, <1>6, <1>7, <1>8, <1>9, <1>10, <1>11, <1>12, <1>13, <1>14
          DEF Next

LEMMA Inductive == Spec => []IInv
BY InitOK, StepPreserves, PTL DEF Spec

-----------------------------------------------------------------------------
(* The theorems.                                                            *)

(* Every row, attempt and dispatch is as the code's types say, the count of a *)
(* wait group never goes below zero, and no deadline beyond its bound.        *)
THEOREM StepsTypeCorrect == Spec => []TypeOK
<1>1. IInv => TypeOK
  BY DEF IInv
<1>. QED  BY <1>1, Inductive, PTL

(* However children fail, are delivered twice or retried by hand, the count   *)
(* in the group's row is of the children left and the body resumes at zero.   *)
THEOREM GroupCountsCorrect == Spec => []GroupCounts
<1>1. IInv => GroupCounts
  BY DEF IInv
<1>. QED  BY <1>1, Inductive, PTL

(* What a lambda writes through zart::trx is there at most once, and never    *)
(* with a failed, timed-out or superseded attempt; of a wait's child it comes  *)
(* with the Err it returned too.                                              *)
THEOREM EffectsCorrect == Spec => []EffectsMatchResults
<1>1. ASSUME IInv, NEW s \in Step, effects[s] > 0
      PROVE  /\ effects[s] = 1
             /\ steps[s].result \in IF config[s].child THEN {"ok", "err"} ELSE {"ok"}
  <2>1. effects[s] = 1 /\ StepOK(s)
    BY <1>1 DEF IInv, StepOK
  <2>. QED  BY <2>1 DEF StepOK
<1>2. IInv => EffectsMatchResults
  BY <1>1 DEF EffectsMatchResults
<1>. QED  BY <1>2, Inductive, PTL

(* Results are the lambda's or a timeout the step has; a step says that its   *)
(* retries are exhausted only after as many attempts.                        *)
THEOREM ResultsCorrect == Spec => []ResultsAreEarned
<1>1. ASSUME IInv, NEW s \in Step, steps[s].status = "completed"
      PROVE  /\ steps[s].result # "null"
             /\ steps[s].result = "timeout" => config[s].scope # "none"
             /\ steps[s].result = "err" => config[s].retries = 0
             /\ steps[s].result = "rx" =>
                  config[s].retries > 0 /\ \E a \in attempts : a.step = s /\ a.number > config[s].retries
  <2>1. StepOK(s)
    BY <1>1 DEF IInv
  <2>2. ASSUME steps[s].result = "rx"
        PROVE  \E a \in attempts : a.step = s /\ a.number > config[s].retries
    <3>. DEFINE row == [step |-> s, number |-> tasks[s].attempt, status |-> "completed"]
    <3>1. row \in attempts /\ tasks[s].attempt > config[s].retries
      BY <1>1, <2>1, <2>2 DEF StepOK, AttemptsOK
    <3>. QED  BY <3>1
  <2>. QED  BY <1>1, <2>1, <2>2 DEF StepOK
<1>2. IInv => ResultsAreEarned
  BY <1>1 DEF ResultsAreEarned
<1>. QED  BY <1>2, Inductive, PTL

(* A lambda of a step of global scope is never given more time than is left   *)
(* until the deadline the step was scheduled with.                           *)
THEOREM DeadlineCorrect == Spec => []DeadlineHolds
<1>1. ASSUME IInv, NEW d \in Dispatch,
             At(d, "running"), config[StepOf(d)].scope = "global", life # 0
      PROVE  dispatches[d].limit # Unlimited /\ dispatches[d].limit <= left[StepOf(d)]
  BY <1>1 DEF IInv, DispatchOK, At, StepOf
<1>2. IInv => DeadlineHolds
  BY <1>1 DEF DeadlineHolds
<1>. QED  BY <1>2, Inductive, PTL

(* The attempts a step has had are its history: one completed one exactly if  *)
(* it has completed, the last of all, and no more failed ones than retries.   *)
THEOREM AttemptsCorrect == Spec => []AttemptsTellTheStory
<1>1. ASSUME IInv, NEW s \in Step, ~config[s].child
      PROVE  LET of == {a \in attempts : a.step = s}
                 completed == {a \in of : a.status = "completed"}
             IN  /\ Cardinality(completed) = IF steps[s].status = "completed" THEN 1 ELSE 0
                 /\ \A a \in completed, b \in of : b.number <= a.number
                 /\ Cardinality(of \ completed) <= config[s].retries
  <2>. DEFINE of == {a \in attempts : a.step = s}
  <2>. DEFINE completed == {a \in of : a.status = "completed"}
  <2>. DEFINE row(n, status) == [step |-> s, number |-> n, status |-> status]
  <2>1. AttemptsOK(s) /\ attempts \subseteq AttemptRow /\ config[s].retries \in Nat
    BY <1>1, TypesAtHand, RetriesNat DEF IInv, StepOK
  <2>2. Cardinality(completed) = IF steps[s].status = "completed" THEN 1 ELSE 0
    <3>1. CASE steps[s].status = "completed"
      <4>1. row(tasks[s].attempt, "completed") \in completed
        BY <2>1, <3>1 DEF AttemptsOK
      <4>2. ASSUME NEW a \in completed PROVE a = row(tasks[s].attempt, "completed")
        <5>1. a \in AttemptRow /\ a.step = s /\ a.status = "completed" /\ a.number = tasks[s].attempt
          BY <2>1 DEF AttemptsOK
        <5>. QED  BY <5>1 DEF AttemptRow
      <4>3. completed = {row(tasks[s].attempt, "completed")}
        BY <4>1, <4>2
      <4>. HIDE DEF completed
      <4>. QED  BY <3>1, <4>3, FS_Singleton
    <3>2. CASE steps[s].status # "completed"
      <4>1. completed = {}
        BY <2>1, <3>2 DEF AttemptsOK
      <4>. HIDE DEF completed
      <4>. QED  BY <3>2, <4>1, FS_EmptySet
    <3>. QED  BY <3>1, <3>2
  <2>3. \A a \in completed, b \in of : b.number <= a.number
    BY <2>1 DEF AttemptsOK
  <2>4. Cardinality(of \ completed) <= config[s].retries
    <3>. DEFINE k == config[s].retries
    <3>. DEFINE failed == of \ completed
    <3>. DEFINE number == [a \in failed |-> a.number]
    <3>1. IsFiniteSet(1..k) /\ Cardinality(1..k) = k
      <4>1. k \in Nat
        BY <2>1
      <4>. HIDE DEF k
      <4>. QED  BY <4>1, UpTo
    <3>2. ASSUME NEW a \in failed
          PROVE  a = row(a.number, "failed") /\ a.number \in 1..k
      <4>1. a \in AttemptRow /\ a.step = s /\ a.status = "failed" /\ a.number \in 1..k
        BY <2>1 DEF AttemptsOK, AttemptRow
      <4>. QED  BY <4>1 DEF AttemptRow
    <3>. HIDE DEF failed, k
    <3>3. number \in Injection(failed, 1..k)
      BY <3>2 DEF Injection, IsInjective
    <3>. HIDE DEF number
    <3>4. Cardinality(failed) <= Cardinality(1..k)
      <4>. DEFINE T == 1..k
      <4>1. number \in Injection(failed, T) /\ IsFiniteSet(T)
        BY <3>1, <3>3
      <4>. HIDE DEF T
      <4>2. Cardinality(failed) <= Cardinality(T)
        BY <4>1, FS_Injection, Zenon
      <4>. QED  BY <4>2 DEF T
    <3>5. Cardinality(failed) <= k
      BY <3>1, <3>4
    <3>. QED  BY <3>5 DEF failed, k
  <2>. QED  BY <2>2, <2>3, <2>4
<1>2. IInv => AttemptsTellTheStory
  BY <1>1 DEF AttemptsTellTheStory
<1>. QED  BY <1>2, Inductive, PTL

=============================================================================
