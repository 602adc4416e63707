----------------------------- MODULE LeasedJobs -----------------------------
(***************************************************************************)
(* What the task queue promises its callers, without workers, clocks,      *)
(* transactions or heartbeats: jobs are taken under a handle, a handle may *)
(* lose its job at any time and not know it, and a job is concluded only   *)
(* through the handle that holds it now.                                   *)
(***************************************************************************)
EXTENDS Naturals, TLAPS

CONSTANTS
  Job,
  Handle, NoHandle,   \* NoHandle is no element of Handle
  DueTime             \* the times a job can be due at, 0 among them

VARIABLES
  job,      \* job[j]: its state, the time it is due and the handle that holds it
  claims    \* <<h, j>>: somebody believes to hold job j under handle h

jobVars == <<job, claims>>

JobState == [state : {"none", "open", "taken", "closed"}, due : DueTime,
             holder : Handle \cup {NoHandle}]

JobTypeOK == job \in [Job -> JobState] /\ claims \subseteq Handle \X Job

Holds(h, j) == job[j].state = "taken" /\ job[j].holder = h /\ <<h, j>> \in claims

NoRecord == [state |-> "none", due |-> 0, holder |-> NoHandle]

Opened(d) == [state |-> "open", due |-> d, holder |-> NoHandle]

Taken(r, h) == [state |-> "taken", due |-> r.due, holder |-> h]

Closed(r) == [state |-> "closed", due |-> r.due, holder |-> NoHandle]

JobInit ==
  /\ job = [j \in Job |-> NoRecord]
  /\ claims = {}

(* New jobs, at most one under a name.                                      *)
Submit(j, d) ==
  /\ job[j] = NoRecord
  /\ job' = [job EXCEPT ![j] = Opened(d)]
  /\ UNCHANGED claims

(* A handle that nobody uses and that no job names.                         *)
Fresh(h) == (\A c \in claims : c[1] # h) /\ \A j \in Job : job[j].holder # h

(* Open jobs are taken together, each under a fresh handle of its own.      *)
Take(C) ==
  /\ C # {} /\ C \subseteq Handle \X Job
  /\ \A c \in C : Fresh(c[1]) /\ job[c[2]].state = "open"
  /\ \A b, c \in C : b[1] = c[1] \/ b[2] = c[2] => b = c
  /\ claims' = claims \cup C
  /\ job' = [j \in Job |-> IF \E h \in Handle : <<h, j>> \in C
                           THEN Taken(job[j], CHOOSE h \in Handle : <<h, j>> \in C)
                           ELSE job[j]]

(* Taken jobs are open again, due when they were; their handles do not know.*)
Lapse(S) ==
  /\ S # {} /\ \A j \in S : job[j].state = "taken"
  /\ job' = [j \in Job |-> IF j \in S THEN Opened(job[j].due) ELSE job[j]]
  /\ UNCHANGED claims

(* The holder concludes its job: closed, or open again for another time,    *)
(* and the new jobs F open with it.                                         *)
Conclude(h, j, F, d) ==
  /\ Holds(h, j)
  /\ \A i \in F : job[i] = NoRecord
  /\ \E r \in {Closed(job[j])} \cup {Opened(e) : e \in DueTime} :
       job' = [i \in Job |-> IF i = j THEN r ELSE IF i \in F THEN Opened(d) ELSE job[i]]
  /\ claims' \in {claims, claims \ {<<h, j>>}}

(* Nobody has taken them, and nobody will.                                  *)
Withdraw(S) ==
  /\ S # {} /\ \A j \in S : job[j].state = "open"
  /\ job' = [j \in Job |-> IF j \in S THEN Closed(job[j]) ELSE job[j]]
  /\ UNCHANGED claims

Erase(j) ==
  /\ job[j] # NoRecord
  /\ job' = [job EXCEPT ![j] = NoRecord]
  /\ UNCHANGED claims

(* Handles nobody uses any more.                                            *)
Forget(C) ==
  /\ C # {}
  /\ claims' = claims \ C
  /\ UNCHANGED job

JobNext ==
  LET after == job'
      changed == {j \in Job : after[j] # job[j]}
      new == {j \in changed : job[j] = NoRecord}
  IN  \/ Take(claims' \ claims) \/ Forget(claims \ claims')
      \/ Lapse(changed) \/ Withdraw(changed)
      \/ \E j \in changed, h \in Handle, d \in DueTime : Conclude(h, j, new, d)
      \/ \E j \in changed, d \in DueTime : Submit(j, d)
      \/ \E j \in changed : Erase(j)

JobSpec == JobInit /\ [][JobNext]_jobVars

-----------------------------------------------------------------------------
(* JobNext finds what an action is about in the step itself, so that it can  *)
(* be evaluated; whatever that is, the action is a step of JobNext.          *)

LEMMA SubmitIsNext ==
  ASSUME job = [i \in Job |-> job[i]], NEW j \in Job, NEW d \in DueTime, Submit(j, d)
  PROVE  JobNext
<1>1. job'[j] = Opened(d) /\ job[j] = NoRecord /\ job'[j] # job[j]
  BY DEF Submit, Opened, NoRecord
<1>. QED  BY <1>1 DEF JobNext

LEMMA TakeIsNext ==
  ASSUME NEW C, Take(C)
  PROVE  JobNext
<1>1. \A c \in C : c \notin claims
  BY DEF Take, Fresh
<1>2. claims' \ claims = C
  BY <1>1 DEF Take
<1>. QED  BY <1>2 DEF JobNext

LEMMA ForgetIsNext ==
  ASSUME claims' \subseteq claims, claims' # claims, UNCHANGED job
  PROVE  JobNext
<1>1. Forget(claims \ claims')
  BY DEF Forget
<1>. QED  BY <1>1 DEF JobNext

LEMMA LapseIsNext ==
  ASSUME NEW S \in SUBSET Job, Lapse(S)
  PROVE  JobNext
<1>1. \A j \in S : job'[j] # job[j]
  BY DEF Lapse, Opened
<1>2. S = {j \in Job : job'[j] # job[j]}
  BY <1>1 DEF Lapse
<1>. QED  BY <1>2 DEF JobNext

LEMMA WithdrawIsNext ==
  ASSUME NEW S \in SUBSET Job, Withdraw(S)
  PROVE  JobNext
<1>1. \A j \in S : job'[j].state = "closed" /\ job[j].state = "open"
  BY DEF Withdraw, Closed
<1>2. S = {j \in Job : job'[j] # job[j]}
  BY <1>1 DEF Withdraw
<1>. QED  BY <1>2 DEF JobNext

LEMMA ConcludeIsNext ==
  ASSUME NEW h \in Handle, NEW j \in Job, NEW F \in SUBSET Job, NEW d \in DueTime,
         Conclude(h, j, F, d)
  PROVE  JobNext
<1>1. job[j].state = "taken"
  BY DEF Conclude, Holds
<1>2. job'[j] # job[j] /\ j \notin F
  <2>1. PICK r \in {Closed(job[j])} \cup {Opened(e) : e \in DueTime} : job'[j] = r
    BY DEF Conclude
  <2>2. r.state \in {"closed", "open"}
    BY DEF Closed, Opened
  <2>3. j \notin F
    BY <1>1 DEF Conclude, NoRecord
  <2>. QED  BY <1>1, <2>1, <2>2, <2>3
<1>3. \A i \in F : job'[i] = Opened(d) /\ job[i] = NoRecord /\ job'[i] # job[i]
  BY <1>2 DEF Conclude, Opened, NoRecord
<1>4. \A i \in Job \ F : i # j => (job'[i] = job[i])
  BY DEF Conclude
<1>5. job[j] # NoRecord
  BY <1>1 DEF NoRecord
<1>. DEFINE changed == {i \in Job : job'[i] # job[i]}
<1>6. {i \in changed : job[i] = NoRecord} = F
  BY <1>3, <1>4, <1>5
<1>7. j \in changed
  BY <1>2
<1>8. \E i \in changed, g \in Handle, e \in DueTime : Conclude(g, i, F, e)
  BY <1>7
<1>. QED  BY <1>6, <1>8 DEF JobNext

LEMMA EraseIsNext ==
  ASSUME job = [i \in Job |-> job[i]], NEW j \in Job, Erase(j)
  PROVE  JobNext
<1>1. job'[j] # job[j]
  BY DEF Erase
<1>. QED  BY <1>1 DEF JobNext

-----------------------------------------------------------------------------
(* What the promise comes to.                                               *)

HandlesNameOneJob == \A b, c \in claims : b[1] = c[1] => b = c

(* Whoever has lost a job and does not know it will not find itself the      *)
(* holder again, though others take the job, give it up and conclude it in   *)
(* the meantime: what it then tries is refused for good.                    *)
LostIsLost ==
  [][\A h \in Handle, j \in Job : <<h, j>> \in claims /\ Holds(h, j)' => Holds(h, j)]_jobVars

JobInv ==
  /\ job = [j \in Job |-> job[j]]
  /\ claims \subseteq Handle \X Job
  /\ HandlesNameOneJob

(* What a step may do: taken jobs have their old holder or a fresh one.      *)
JobMove ==
  /\ JobInv'
  /\ \A j \in Job : job'[j].state = "taken" =>
       job'[j] = job[j] \/ \A c \in claims : c[1] # job'[j].holder

LEMMA ClaimsKept ==
  ASSUME JobInv, claims' \subseteq claims
  PROVE  claims' \subseteq Handle \X Job /\ HandlesNameOneJob'
BY DEF JobInv, HandlesNameOneJob

LEMMA OthersMove ==
  ASSUME JobInv, claims' \subseteq claims, job' = [j \in Job |-> job'[j]],
         \A j \in Job : job'[j] = job[j] \/ job'[j].state # "taken"
  PROVE  JobMove
BY ClaimsKept DEF JobMove, JobInv

LEMMA TakeMoves ==
  ASSUME JobInv, NEW C, Take(C)
  PROVE  JobMove
<1>1. /\ C \subseteq Handle \X Job /\ claims' = claims \cup C
      /\ \A c \in C : Fresh(c[1])
      /\ \A b, c \in C : b[1] = c[1] \/ b[2] = c[2] => b = c
  BY DEF Take
<1>2. HandlesNameOneJob'
  BY <1>1 DEF JobInv, HandlesNameOneJob, Fresh
<1>3. job' = [j \in Job |-> job'[j]]
  BY DEF Take
<1>4. ASSUME NEW j \in Job, job'[j] # job[j] PROVE \A c \in claims : c[1] # job'[j].holder
  <2>1. PICK h \in Handle : /\ <<h, j>> \in C
                            /\ h = CHOOSE g \in Handle : <<g, j>> \in C
    BY <1>4 DEF Take
  <2>2. job'[j] = Taken(job[j], h)
    BY <2>1 DEF Take
  <2>3. Fresh(h)
    BY <1>1, <2>1
  <2>. QED  BY <2>2, <2>3 DEF Fresh, Taken
<1>. QED  BY <1>1, <1>2, <1>3, <1>4 DEF JobMove, JobInv

LEMMA ConcludeMoves ==
  ASSUME JobInv, NEW h \in Handle, NEW j \in Job, NEW F \in SUBSET Job, NEW d \in DueTime,
         Conclude(h, j, F, d)
  PROVE  JobMove
<1>1. PICK r \in {Closed(job[j])} \cup {Opened(e) : e \in DueTime} :
        job' = [i \in Job |-> IF i = j THEN r ELSE IF i \in F THEN Opened(d) ELSE job[i]]
  BY DEF Conclude
<1>2. r.state # "taken" /\ Opened(d).state # "taken"
  BY DEF Closed, Opened
<1>3. claims' \subseteq claims
  BY DEF Conclude
<1>4. job' = [i \in Job |-> job'[i]]
  BY <1>1
<1>. QED  BY <1>1, <1>2, <1>3, <1>4, OthersMove

LEMMA JobStepMoves == JobInv /\ [JobNext]_jobVars => JobMove
<1>. SUFFICES ASSUME JobInv, [JobNext]_jobVars PROVE JobMove  OBVIOUS
<1>1. ASSUME NEW j \in Job, NEW r, job' = [job EXCEPT ![j] = r], r.state # "taken", UNCHANGED claims
      PROVE  JobMove
  <2>1. job' = [i \in Job |-> IF i = j THEN r ELSE job[i]]
    BY <1>1 DEF JobInv
  <2>2. job' = [i \in Job |-> job'[i]]
    BY <2>1
  <2>. QED  BY <1>1, <2>1, <2>2, OthersMove
<1>2. ASSUME NEW S, Lapse(S) \/ Withdraw(S) PROVE JobMove
  <2>1. job' = [i \in Job |-> job'[i]] /\ claims' = claims
    BY <1>2 DEF Lapse, Withdraw
  <2>2. \A j \in Job : job'[j] = job[j] \/ job'[j].state # "taken"
    BY <1>2 DEF Lapse, Withdraw, Opened, Closed
  <2>. QED  BY <2>1, <2>2, OthersMove
<1>3. ASSUME NEW C, Forget(C) PROVE JobMove
  BY <1>3, OthersMove DEF Forget, JobInv
<1>4. ASSUME NEW j \in Job, NEW d \in DueTime, Submit(j, d) PROVE JobMove
  <2>1. Opened(d).state # "taken"
    BY DEF Opened
  <2>. QED  BY <1>1, <1>4, <2>1 DEF Submit
<1>5. ASSUME NEW j \in Job, Erase(j) PROVE JobMove
  <2>1. NoRecord.state # "taken"
    BY DEF NoRecord
  <2>. QED  BY <1>1, <1>5, <2>1 DEF Erase
<1>6. CASE UNCHANGED jobVars
  BY <1>6, OthersMove DEF jobVars, JobInv
<1>. DEFINE changed == {j \in Job : job'[j] # job[j]}
            new == {j \in changed : job[j] = NoRecord}
<1>7. new \in SUBSET Job
  OBVIOUS
<1>8. CASE JobNext
  <2>1. \/ Take(claims' \ claims) \/ Forget(claims \ claims')
        \/ Lapse(changed) \/ Withdraw(changed)
        \/ \E j \in Job, h \in Handle, d \in DueTime : Conclude(h, j, new, d)
        \/ \E j \in Job, d \in DueTime : Submit(j, d)
        \/ \E j \in Job : Erase(j)
    BY <1>8 DEF JobNext
  <2>2. PICK new1, old, diff, moved :
          new1 = claims' \ claims /\ old = claims \ claims' /\ diff = changed /\ moved = new
    OBVIOUS
  <2>. HIDE DEF changed, new
  <2>3. CASE Take(claims' \ claims)
    BY <2>2, <2>3, TakeMoves
  <2>4. CASE Forget(claims \ claims')
    BY <1>3, <2>2, <2>4
  <2>5. CASE Lapse(changed) \/ Withdraw(changed)
    BY <1>2, <2>2, <2>5
  <2>6. ASSUME NEW j \in Job, NEW h \in Handle, NEW d \in DueTime, Conclude(h, j, new, d)
        PROVE  JobMove
    BY <1>7, <2>2, <2>6, ConcludeMoves
  <2>. QED  BY <1>4, <1>5, <2>1, <2>3, <2>4, <2>5, <2>6
<1>. QED  BY <1>6, <1>8

THEOREM LostHandlesStayLost == JobSpec => LostIsLost
<1>1. JobInit => JobInv
  BY DEF JobInit, JobInv, HandlesNameOneJob
<1>2. JobInv /\ [JobNext]_jobVars => JobInv'
  BY JobStepMoves DEF JobMove
<1>3. JobInv /\ [JobNext]_jobVars =>
        [\A h \in Handle, j \in Job : <<h, j>> \in claims /\ Holds(h, j)' => Holds(h, j)]_jobVars
  <2>. SUFFICES ASSUME JobInv, [JobNext]_jobVars, NEW h \in Handle, NEW j \in Job,
                       <<h, j>> \in claims, Holds(h, j)'
                PROVE  Holds(h, j)
    OBVIOUS
  <2>1. JobMove
    BY JobStepMoves
  <2>2. job'[j].state = "taken" /\ job'[j].holder = h
    BY DEF Holds
  <2>3. job'[j] = job[j]
    BY <2>1, <2>2 DEF JobMove
  <2>. QED  BY <2>2, <2>3 DEF Holds
<1>. QED  BY <1>1, <1>2, <1>3, PTL DEF JobSpec, LostIsLost

=============================================================================
