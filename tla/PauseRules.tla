----------------------------- MODULE PauseRules -----------------------------
(***************************************************************************)
(* Pause rules: PauseService and its statements on zart_pause_rules, as     *)
(* several operators use them.  A resume lists the rules of its scope and   *)
(* deletes them one by one, each by a statement of its own, while others    *)
(* delete the same rules or make new ones.                                  *)
(***************************************************************************)
EXTENDS Naturals, FiniteSets

CONSTANTS
  Operator,    \* callers; each makes one call
  Rule         \* rule_id, a fresh uuid for each rule

VARIABLES
  rules,       \* zart_pause_rules
  asked        \* asked[o]: the call of operator o

ruleVars == <<rules, asked>>

(* What a scope can name.  It names an execution, a task or a pattern of     *)
(* steps or leaves it open; which one it names is the same for all here.     *)
Scope == SUBSET {"execution_id", "task_name", "step_pattern"}

RuleRow == [state : {"absent", "active", "deleted"}, scope : Scope, expired : BOOLEAN]
NoRule == [state |-> "absent", scope |-> {}, expired |-> FALSE]
Active == {r \in Rule : rules[r].state = "active"}

Asked == [phase : {"idle", "deleting", "answered"},
          listed : SUBSET Rule,
          left : SUBSET Rule,              \* listed and not tried yet
          deleted : SUBSET Rule,           \* those its own statements deleted: rules_deleted
          failed : BOOLEAN]
NotAsked == [phase |-> "idle", listed |-> {}, left |-> {}, deleted |-> {}, failed |-> FALSE]
AskedDone == [NotAsked EXCEPT !.phase = "answered"]

RulesTypeOK == rules \in [Rule -> RuleRow] /\ asked \in [Operator -> Asked]

Idle(o) == asked[o].phase = "idle"
Ask(o, asking) == asked' = [asked EXCEPT ![o] = asking]

(* The WHERE of list_pause_rules, without its pattern and its expiry.        *)
Listed(scope) == {r \in Active : scope \cap {"execution_id", "task_name"} \subseteq rules[r].scope}

Known(r) == rules[r].state # "absent"

(* WHERE deleted_at IS NULL.                                                *)
EvenDeleted(r) == Known(r)
Deletable(r) == r \in Active

Created(r, scope, expired) ==
  [rules EXCEPT ![r] = [state |-> "active", scope |-> scope, expired |-> expired]]

(* The service takes a rule that has expired already, the route refuses it.   *)
Pause(o) ==
  /\ Idle(o)
  /\ \E r \in Rule, scope \in Scope, expired \in BOOLEAN :
       /\ rules[r].state = "absent"
       /\ rules' = Created(r, scope, expired)
  /\ Ask(o, AskedDone)

PauseRefused(o) ==
  /\ Idle(o)
  /\ Ask(o, AskedDone)
  /\ UNCHANGED rules

Resume(o) ==
  /\ Idle(o)
  /\ \E scope \in Scope :
       Ask(o, [NotAsked EXCEPT !.phase = "deleting", !.listed = Listed(scope), !.left = Listed(scope)])
  /\ UNCHANGED rules

Deleting(r) == IF Deletable(r) THEN [rules EXCEPT ![r].state = "deleted"] ELSE rules

ResumeDeletes(o) ==
  /\ asked[o].phase = "deleting"
  /\ \E r \in asked[o].left :
       /\ rules' = Deleting(r)
       /\ Ask(o, [asked[o] EXCEPT !.left = @ \ {r},
                    !.deleted = IF Deletable(r) THEN @ \cup {r} ELSE @])

ResumeReturns(o) ==
  /\ asked[o].phase = "deleting" /\ asked[o].left = {}
  /\ Ask(o, [asked[o] EXCEPT !.phase = "answered"])
  /\ UNCHANGED rules

(* An error of the database ends a resume and loses what it counted.         *)
ResumeFails(o) ==
  /\ asked[o].phase = "deleting"
  /\ Ask(o, [asked[o] EXCEPT !.phase = "answered", !.failed = TRUE])
  /\ UNCHANGED rules

ResumeRuleById(o) ==
  /\ Idle(o)
  /\ \E r \in Rule :
       /\ rules' = Deleting(r)
       /\ Ask(o, [AskedDone EXCEPT !.listed = {x \in {r} : Known(x)},
                           !.deleted = IF Deletable(r) THEN {r} ELSE {}])

(* expires_at passes; a rule that has expired is still listed.               *)
Expire(r) ==
  /\ r \in Active /\ ~rules[r].expired
  /\ rules' = [rules EXCEPT ![r].expired = TRUE]
  /\ UNCHANGED asked

RulesInit ==
  /\ rules \in [Rule -> {NoRule} \cup [state : {"active"}, scope : {{}, {"execution_id"}, {"task_name"}},
                                       expired : {FALSE}]]
  /\ asked = [o \in Operator |-> NotAsked]

(* The state in which nobody uses pause rules.                               *)
RulesUnused ==
  /\ rules = [r \in Rule |-> NoRule]
  /\ asked = [o \in Operator |-> AskedDone]

-----------------------------------------------------------------------------

(* Every rule that was deleted is in the count of exactly one caller, a       *)
(* resume or a delete by id, or of none if that resume failed half-way; and   *)
(* when a caller has been answered, none of the rules it listed is active,    *)
(* whoever deleted it.                                                       *)
ResumesAccountForRules ==
  /\ \A o, p \in Operator : o # p => asked[o].deleted \cap asked[p].deleted = {}
  /\ UNION {asked[o].deleted : o \in Operator} = {r \in Rule : rules[r].state = "deleted"}
  /\ \A o \in Operator :
       asked[o].phase = "answered" /\ ~asked[o].failed => asked[o].listed \cap Active = {}

=============================================================================
