------------------------------- MODULE Alerts -------------------------------
(***************************************************************************)
(* Watchlist alert rules: one user's rules, the requests that create,      *)
(* toggle and delete them, and the evaluator runs that fire them.          *)
(*                                                                         *)
(* A run is started by the post-scrape hook and, in a goroutine of its     *)
(* own, by every upload; nothing keeps two runs apart.  Each Postgres call *)
(* is a step.  A market snapshot is the set of rules whose predicate it    *)
(* satisfies.  An optional rule is a set with at most one element.         *)
(***************************************************************************)
EXTENDS Integers, FiniteSets

CONSTANTS
  Rules,        \* the row ids the table can hand out
  Runs,         \* goroutines calling Evaluator.Run
  Authors,      \* goroutines serving POST /v1/me/alerts
  MaxRules,     \* MaxRulesPerUser
  MayFail,      \* may a Postgres call fail, or a run's 90s context end?
  MayCrash,     \* may the process restart?
  MaxArms       \* bound: armings of one rule

ASSUME AlertsAssumption ==
  /\ IsFiniteSet(Rules) /\ IsFiniteSet(Runs) /\ IsFiniteSet(Authors) /\ Authors # {}
  /\ MaxRules \in Nat /\ MaxArms \in Nat
  /\ MayFail \in BOOLEAN /\ MayCrash \in BOOLEAN

VARIABLES
  rule,       \* alert_rules: "none" before the insert, "gone" after the delete
  fireCount,  \* alert_rules.fire_count
  run,        \* each evaluator run
  author,     \* each create request: "idle", or "insert" once under the cap
  arms,       \* history: how often a rule has been armed
  told        \* history: how often a rule's owner got an event and its notifications

table == <<rule, fireCount, arms, told>>
vars  == <<table, run, author>>

IdleRun == [pc |-> "idle", snap |-> {}, todo |-> {}, failed |-> {}, cur |-> {},
            seen |-> [r \in Rules |-> 0]]

Init ==
  /\ rule = [r \in Rules |-> "none"]
  /\ fireCount = [r \in Rules |-> 0]
  /\ run = [k \in Runs |-> IdleRun]
  /\ author = [a \in Authors |-> "idle"]
  /\ arms = [r \in Rules |-> 0]
  /\ told = [r \in Rules |-> 0]

Existing == {r \in Rules : rule[r] \in {"armed", "off"}}
Armed == {r \in Rules : rule[r] = "armed"}

-----------------------------------------------------------------------------
(* The owner's requests.                                                   *)

CountedAll == Cardinality({r \in Rules : rule[r] = "armed"}) < MaxRules

(* CountAlertRulesByUser counts enabled and disabled rules alike.          *)
UnderCap == Cardinality(Existing) < MaxRules

(* HandleCreateAlertRule counts first ...                                  *)
CreateCount(a) ==
  /\ author[a] = "idle"
  /\ UnderCap
  /\ author' = [author EXCEPT ![a] = "insert"]
  /\ UNCHANGED <<table, run>>

(* ... and inserts the armed rule in a later statement, or fails.          *)
CreateInsert(a) ==
  /\ author[a] = "insert"
  /\ \/ \E r \in Rules :
          /\ rule[r] = "none"
          /\ rule' = [rule EXCEPT ![r] = "armed"]
          /\ arms' = [arms EXCEPT ![r] = 1]
     \/ MayFail /\ UNCHANGED <<rule, arms>>
  /\ author' = [author EXCEPT ![a] = "idle"]
  /\ UNCHANGED <<fireCount, told, run>>

(* UpdateAlertRuleEnabled: pause a rule, or arm it again.                  *)
Pause(r) ==
  /\ rule[r] = "armed"
  /\ rule' = [rule EXCEPT ![r] = "off"]
  /\ UNCHANGED <<fireCount, arms, told, run, author>>

Rearm(r) ==
  /\ rule[r] = "off" /\ arms[r] < MaxArms
  /\ rule' = [rule EXCEPT ![r] = "armed"]
  /\ arms' = [arms EXCEPT ![r] = @ + 1]
  /\ UNCHANGED <<fireCount, told, run, author>>

(* The owner or an administrator deletes the rule; its events go with it.  *)
Delete(r) ==
  /\ r \in Existing
  /\ rule' = [rule EXCEPT ![r] = "gone"]
  /\ UNCHANGED <<fireCount, arms, told, run, author>>

-----------------------------------------------------------------------------
(* Evaluator.Run.                                                          *)

(* GetMarketSummary: what the rules will be compared with.                 *)
LoadSnapshot(k) ==
  /\ run[k].pc = "idle"
  /\ \E s \in SUBSET Rules : run' = [run EXCEPT ![k] = [IdleRun EXCEPT !.pc = "list", !.snap = s]]
  /\ UNCHANGED <<table, author>>

(* History: the arming each armed rule is in.                              *)
ArmedNow == [r \in Rules |-> IF r \in Armed THEN arms[r] ELSE 0]

(* ListEnabledAlertRules: copies of the armed rules.                       *)
ListRules(k) ==
  /\ run[k].pc = "list"
  /\ \/ run' = [run EXCEPT ![k] = [@ EXCEPT !.pc = "loop", !.todo = Armed,
                                     !.seen = ArmedNow]]
     \/ MayFail /\ run' = [run EXCEPT ![k] = IdleRun]
  /\ UNCHANGED <<table, author>>

(* One turn of the loop: the predicate holds, or the rule is skipped.      *)
Evaluate(k, r) ==
  /\ run[k].pc = "loop" /\ r \in run[k].todo
  /\ \/ /\ r \in run[k].snap
        /\ run' = [run EXCEPT ![k] = [@ EXCEPT !.pc = "mark", !.cur = {r}]]
     \/ /\ r \notin run[k].snap
        /\ run' = [run EXCEPT ![k] = [@ EXCEPT !.todo = run[k].todo \ {r}]]
     \/ /\ MayFail       \* resolveMetric failed
        /\ run' = [run EXCEPT ![k] = [@ EXCEPT !.todo = run[k].todo \ {r},
                                         !.failed = run[k].failed \union {r}]]
  /\ UNCHANGED <<table, author>>

RetryRule(k) == [run[k] EXCEPT !.pc = "loop", !.cur = {}]
SinkBatch(k) == [run[k] EXCEPT !.pc = "done", !.cur = {}, !.failed = @ \union run[k].cur]

(* The run after a call for its current rule failed: on with the others.   *)
NextRule(k) ==
  [run[k] EXCEPT !.pc = "loop", !.cur = {}, !.todo = run[k].todo \ run[k].cur,
                !.failed = run[k].failed \union run[k].cur]

FiredStatus(r) == "fired"
StaysArmed(r) == rule[r]

(* The row of a rule once it has fired.                                    *)
Disarmed(r) == IF rule[r] = "armed" THEN "off" ELSE rule[r]

(* MarkAlertFired, whatever the row's state by now.                        *)
MarkFired(k) ==
  /\ run[k].pc = "mark"
  /\ \E r \in run[k].cur :
       \/ /\ rule' = [rule EXCEPT ![r] = Disarmed(r)]
          /\ fireCount' = [fireCount EXCEPT ![r] = IF r \in Existing THEN @ + 1 ELSE @]
          /\ run' = [run EXCEPT ![k] = [@ EXCEPT !.pc = "event"]]
       \/ /\ MayFail
          /\ run' = [run EXCEPT ![k] = NextRule(k)]
          /\ UNCHANGED <<rule, fireCount>>
  /\ UNCHANGED <<arms, told, author>>

(* CreateAlertEvent, then the in-app push and the goroutines that send the *)
(* email and the web push.  The foreign key refuses a deleted rule.        *)
CreateEvent(k) ==
  /\ run[k].pc = "event"
  /\ \E r \in run[k].cur :
       \/ /\ r \in Existing
          /\ told' = [told EXCEPT ![r] = @ + 1]
          /\ run' = [run EXCEPT ![k] = [@ EXCEPT !.pc = "loop", !.cur = {},
                                               !.todo = run[k].todo \ {r}]]
       \/ /\ r \notin Existing \/ MayFail
          /\ run' = [run EXCEPT ![k] = NextRule(k)]
          /\ UNCHANGED told
  /\ UNCHANGED <<rule, fireCount, arms, author>>

(* The loop has ended.                                                     *)
Finish(k) ==
  /\ run[k].pc = "loop" /\ run[k].todo = {}
  /\ run' = [run EXCEPT ![k].pc = "done"]
  /\ UNCHANGED <<table, author>>

Return(k) ==
  /\ run[k].pc = "done"
  /\ run' = [run EXCEPT ![k] = IdleRun]
  /\ UNCHANGED <<table, author>>

(* The context ends (timeout or shutdown): the loop returns early.         *)
Cancel(k) ==
  /\ MayFail
  /\ run[k].pc = "loop" /\ run[k].todo # {}
  /\ run' = [run EXCEPT ![k] = IdleRun]
  /\ UNCHANGED <<table, author>>

(* The process restarts: the table survives, the goroutines do not.        *)
Crash ==
  /\ MayCrash
  /\ run' = [k \in Runs |-> IdleRun]
  /\ author' = [a \in Authors |-> "idle"]
  /\ UNCHANGED table

-----------------------------------------------------------------------------
RunStep(k) ==
  \/ ListRules(k) \/ (\E r \in Rules : Evaluate(k, r)) \/ MarkFired(k) \/ CreateEvent(k)
  \/ Finish(k) \/ Return(k) \/ Cancel(k)

Next ==
  \/ \E k \in Runs : LoadSnapshot(k) \/ RunStep(k)
  \/ \E a \in Authors : CreateCount(a) \/ CreateInsert(a)
  \/ \E r \in Rules : Pause(r) \/ Rearm(r) \/ Delete(r)
  \/ Crash

Spec == Init /\ [][Next]_vars

(* The Go scheduler keeps a started run going.                             *)
FairSpec == Spec /\ \A k \in Runs : WF_vars(RunStep(k))

-----------------------------------------------------------------------------
RunType ==
  [pc : {"idle", "list", "loop", "mark", "event", "done"},
   snap : SUBSET Rules, todo : SUBSET Rules, failed : SUBSET Rules, cur : SUBSET Rules,
   seen : [Rules -> Nat]]

(* Every variable has its type.                                            *)
TypeOK ==
  /\ rule \in [Rules -> {"none", "armed", "off", "gone"}]
  /\ fireCount \in [Rules -> Nat] /\ arms \in [Rules -> Nat] /\ told \in [Rules -> Nat]
  /\ run \in [Runs -> RunType]
  /\ author \in [Authors -> {"idle", "insert"}]

(* A rule fires, and its owner is told, at most once for each time it was  *)
(* armed, whatever fails and wherever the process stops: it "can't re-fire *)
(* until the user manually re-arms".  It needs the runs to be one at a     *)
(* time.                                                                   *)
NoRefire == \A r \in Rules : told[r] <= fireCount[r] /\ fireCount[r] <= arms[r]

(* The rules that have fired and whose owners are about to be told.        *)
Due == {r \in Existing : \E k \in Runs : run[k].pc = "event" /\ r \in run[k].cur}

Promise == INSTANCE Arming WITH
  state <- rule, credit <- [r \in Rules |-> arms[r] - fireCount[r]], due <- Due, events <- told

(* The steps of the requests and of a run, in whatever order they and the  *)
(* failures and restarts come, are those of Arming: a firing spends one    *)
(* arming and leaves none on, and is told once or never.  It too needs the *)
(* runs to be one at a time.                                               *)
ImplementsArming == Promise!Spec

(* With several runs at once each of them fires an arming at most once.    *)
OncePerRun ==
  \A r \in Rules : told[r] <= fireCount[r] /\ fireCount[r] <= arms[r] * Cardinality(Runs)

(* A run that ends in the ordinary way leaves no rule armed that it listed *)
(* and found satisfied, unless the rule was armed again since or a call    *)
(* for that very rule failed: one bad rule does not sink the batch.        *)
BatchIsComplete ==
  \A k \in Runs : run[k].pc = "done" =>
    \A r \in run[k].snap :
      run[k].seen[r] > 0 /\ rule[r] = "armed" => arms[r] > run[k].seen[r] \/ r \in run[k].failed

(* The cap on a user's rules may be passed only by creations that counted  *)
(* before one another's insert.                                            *)
Inserting == {a \in Authors : author[a] = "insert"}
CapUpToRace ==
  Cardinality(Existing) + Cardinality(Inserting) <= MaxRules + Cardinality(Authors) - 1

(* Every started run comes to its end.                                     *)
EveryRunReturns == \A k \in Runs : []<>(run[k].pc = "idle")
=============================================================================
