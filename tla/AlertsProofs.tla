---------------------------- MODULE AlertsProofs ----------------------------
(***************************************************************************)
(* What the alert rules guarantee for any number of rules, requests and    *)
(* runs, through failures and restarts: with runs one at a time an arming  *)
(* fires at most once; with several, once for each of them; a run that     *)
(* ends has dealt with what it listed; and how far racing creations can    *)
(* pass the cap.                                                           *)
(***************************************************************************)
EXTENDS Alerts, FiniteSetTheorems, TLAPS

(* Runs are one at a time.                                                 *)
OneRun == \A k, l \in Runs : k = l

(* The rule a run has just marked, and those it may still mark.            *)
Marked(k) == IF run[k].pc = "event" THEN run[k].cur ELSE {}
Listed(k) ==
  IF run[k].pc \in {"loop", "mark"} THEN run[k].todo \union run[k].cur
  ELSE IF run[k].pc = "event" THEN run[k].todo \ run[k].cur
  ELSE {}

(* Why one arming cannot fire twice: the arming an armed rule is in has    *)
(* not been counted as fired yet ...                                       *)
CountOK ==
  \A r \in Rules :
    /\ fireCount[r] <= arms[r] /\ told[r] <= fireCount[r]
    /\ rule[r] = "armed" => fireCount[r] < arms[r]
    /\ rule[r] = "none" => arms[r] = 0

(* ... nor has the one a run listed the rule under; and the owner of a     *)
(* rule is told only after the rule was marked.                            *)
RunsOK ==
  \A k \in Runs :
    /\ \A r \in Listed(k) : fireCount[r] < arms[r]
    /\ \A r \in Marked(k) : told[r] < fireCount[r] \/ rule[r] = "gone"

(* A run has a current rule, of those it has to do, while it marks it and  *)
(* records its event.                                                      *)
CurTodo ==
  \A k \in Runs :
    IF run[k].pc \in {"mark", "event"} THEN \E r \in Rules : run[k].cur = {r} /\ r \in run[k].todo ELSE run[k].cur = {}

FireInv == TypeOK /\ CurTodo /\ CountOK /\ RunsOK

-----------------------------------------------------------------------------
LEMMA IdleRunType == IdleRun \in RunType
BY DEF IdleRun, RunType

LEMMA InitTypeOK == Init => TypeOK
BY IdleRunType DEF Init, TypeOK

LEMMA RunTyped ==
  ASSUME TypeOK, NEW k \in Runs
  PROVE  /\ run \in [Runs -> RunType] /\ run[k] \in RunType
         /\ run[k].todo \subseteq Rules /\ run[k].failed \subseteq Rules /\ run[k].cur \subseteq Rules
BY DEF TypeOK, RunType

LEMMA RunUpdate ==
  ASSUME run \in [Runs -> RunType], NEW k \in Runs, NEW x \in RunType
  PROVE  [run EXCEPT ![k] = x] \in [Runs -> RunType]
OBVIOUS

LEMMA NextRuleTyped ==
  ASSUME TypeOK, NEW k \in Runs
  PROVE  NextRule(k) \in RunType
<1>1. run[k] \in RunType
  BY RunTyped
<1>2. QED
  BY <1>1 DEF NextRule, RunType

(* Each step of a run keeps its record typed.                              *)
LEMMA RunStepTyped ==
  ASSUME TypeOK, NEW k \in Runs, LoadSnapshot(k) \/ RunStep(k)
  PROVE  run' \in [Runs -> RunType]
<1>0. run \in [Runs -> RunType] /\ run[k] \in RunType
  BY RunTyped
<1>1. ASSUME NEW s \in SUBSET Rules
      PROVE  [IdleRun EXCEPT !.pc = "list", !.snap = s] \in RunType
  BY IdleRunType DEF RunType
<1>2. [run[k] EXCEPT !.pc = "loop", !.todo = Armed,
         !.seen = ArmedNow] \in RunType
  <2>1. ArmedNow \in [Rules -> Nat] /\ Armed \in SUBSET Rules
    BY DEF TypeOK, Armed, ArmedNow
  <2>2. QED
    BY <1>0, <2>1 DEF RunType
<1>3. ASSUME NEW r \in Rules
      PROVE  /\ [run[k] EXCEPT !.pc = "mark", !.cur = {r}] \in RunType
             /\ [run[k] EXCEPT !.todo = run[k].todo \ {r}] \in RunType
             /\ [run[k] EXCEPT !.todo = run[k].todo \ {r},
                                !.failed = run[k].failed \union {r}] \in RunType
             /\ [run[k] EXCEPT !.pc = "loop", !.cur = {}, !.todo = run[k].todo \ {r}] \in RunType
  BY <1>0 DEF RunType
<1>4. [run[k] EXCEPT !.pc = "event"] \in RunType /\ [run[k] EXCEPT !.pc = "done"] \in RunType
  BY <1>0 DEF RunType
<1>5. CASE LoadSnapshot(k)
  BY <1>0, <1>1, <1>5, RunUpdate DEF LoadSnapshot
<1>6. CASE ListRules(k)
  BY <1>0, <1>2, <1>6, RunUpdate, IdleRunType DEF ListRules
<1>7. ASSUME NEW r \in Rules, Evaluate(k, r) PROVE run' \in [Runs -> RunType]
  BY <1>0, <1>3, <1>7, RunUpdate DEF Evaluate
<1>8. CASE MarkFired(k)
  <2>1. \/ run' = [run EXCEPT ![k] = [run[k] EXCEPT !.pc = "event"]]
        \/ run' = [run EXCEPT ![k] = NextRule(k)]
    BY <1>8 DEF MarkFired
  <2>2. QED
    BY <1>0, <1>4, <2>1, RunUpdate, NextRuleTyped
<1>9. CASE CreateEvent(k)
  <2>1. PICK r \in run[k].cur :
          \/ run' = [run EXCEPT ![k] = [run[k] EXCEPT !.pc = "loop", !.cur = {},
                                                     !.todo = run[k].todo \ {r}]]
          \/ run' = [run EXCEPT ![k] = NextRule(k)]
    BY <1>9 DEF CreateEvent
  <2>2. r \in Rules
    BY RunTyped
  <2>3. [run[k] EXCEPT !.pc = "loop", !.cur = {}, !.todo = run[k].todo \ {r}] \in RunType
    BY <1>3, <2>2
  <2>4. QED
    BY <1>0, <2>1, <2>3, RunUpdate, NextRuleTyped
<1>10. CASE Finish(k)
  BY <1>0, <1>4, <1>10, RunUpdate DEF Finish
<1>11. CASE Return(k) \/ Cancel(k)
  BY <1>0, <1>11, RunUpdate, IdleRunType DEF Return, Cancel
<1>12. QED
  BY <1>5, <1>6, <1>7, <1>8, <1>9, <1>10, <1>11 DEF RunStep

(* The table a run leaves behind.                                          *)
LEMMA RunStepTable ==
  ASSUME TypeOK, NEW k \in Runs, LoadSnapshot(k) \/ RunStep(k)
  PROVE  /\ rule' \in [Rules -> {"none", "armed", "off", "gone"}]
         /\ fireCount' \in [Rules -> Nat] /\ told' \in [Rules -> Nat]
         /\ UNCHANGED <<arms, author>>
<1>1. CASE MarkFired(k)
  BY <1>1 DEF MarkFired, Disarmed, TypeOK
<1>2. CASE CreateEvent(k)
  BY <1>2 DEF CreateEvent, TypeOK
<1>3. CASE UNCHANGED <<table, author>>
  BY <1>3 DEF table, TypeOK
<1>4. QED
  BY <1>1, <1>2, <1>3 DEF RunStep, LoadSnapshot, ListRules, Evaluate, Finish, Return, Cancel

LEMMA TypeStep == TypeOK /\ [Next]_vars => TypeOK'
<1> SUFFICES ASSUME TypeOK, [Next]_vars PROVE TypeOK'
  OBVIOUS
<1>1. ASSUME NEW k \in Runs, LoadSnapshot(k) \/ RunStep(k) PROVE TypeOK'
  BY <1>1, RunStepTyped, RunStepTable DEF TypeOK
<1>2. ASSUME NEW a \in Authors, CreateCount(a) \/ CreateInsert(a) PROVE TypeOK'
  BY <1>2 DEF CreateCount, CreateInsert, TypeOK, table
<1>3. ASSUME NEW r \in Rules, Pause(r) \/ Rearm(r) \/ Delete(r) PROVE TypeOK'
  BY <1>3 DEF Pause, Rearm, Delete, TypeOK
<1>4. CASE Crash
  BY <1>4, IdleRunType DEF Crash, TypeOK, table
<1>5. CASE UNCHANGED vars
  BY <1>5 DEF vars, table, TypeOK
<1>6. QED
  BY <1>1, <1>2, <1>3, <1>4, <1>5 DEF Next

(* Every variable keeps its type in every behaviour.                       *)
THEOREM TypeCorrect == Spec => []TypeOK
<1>1. QED
  BY InitTypeOK, TypeStep, PTL DEF Spec

-----------------------------------------------------------------------------
(* What a run's step does to the rules.                                    *)

(* How a run's step looks to the rules: it lists no rule but those it had  *)
(* or that are armed, or it marks a rule it had listed, or it tells the    *)
(* owner of the rule it has marked.                                        *)
Quiet(k) ==
  /\ UNCHANGED table /\ Marked(k)' = {}
  /\ Listed(k)' \subseteq Listed(k) \/ Listed(k)' \subseteq Armed
Marks(k, r) ==
  /\ r \in Listed(k) /\ Listed(k)' \subseteq Listed(k) \ {r}
  /\ Marked(k) = {} /\ Marked(k)' = {r}
  /\ rule' = [rule EXCEPT ![r] = Disarmed(r)]
  /\ fireCount' = [fireCount EXCEPT ![r] = IF r \in Existing THEN @ + 1 ELSE @]
  /\ UNCHANGED <<arms, told>>
Tells(k, r) ==
  /\ r \in Existing /\ Marked(k) = {r} /\ Marked(k)' = {}
  /\ Listed(k)' \subseteq Listed(k)
  /\ told' = [told EXCEPT ![r] = @ + 1]
  /\ UNCHANGED <<rule, fireCount, arms>>

(* A step that leaves the table alone, with the run's record as it becomes.*)
LEMMA QuietMove ==
  ASSUME TypeOK, CurTodo, NEW k \in Runs, NEW x \in RunType, run' = [run EXCEPT ![k] = x],
         UNCHANGED table, x.pc # "event",
         IF x.pc = "mark" THEN \E r \in Rules : x.cur = {r} /\ r \in x.todo ELSE x.cur = {},
         x.pc \in {"loop", "mark"} => x.todo \subseteq Armed \/ x.todo \union x.cur \subseteq Listed(k)
  PROVE  CurTodo' /\ Quiet(k) /\ \A l \in Runs \ {k} : run'[l] = run[l]
<1>1. run'[k] = x /\ \A l \in Runs \ {k} : run'[l] = run[l]
  BY DEF TypeOK
<1>2. CurTodo'
  BY <1>1 DEF CurTodo
<1>3. Marked(k)' = {}
  BY <1>1 DEF Marked
<1>4. Listed(k)' \subseteq Listed(k) \/ Listed(k)' \subseteq Armed
  BY <1>1 DEF Listed
<1>5. QED
  BY <1>1, <1>2, <1>3, <1>4 DEF Quiet

LEMMA SkipMove ==
  ASSUME TypeOK, CurTodo, NEW k \in Runs, run[k].pc \in {"mark", "event"},
         run' = [run EXCEPT ![k] = NextRule(k)], UNCHANGED table
  PROVE  CurTodo' /\ Quiet(k) /\ \A l \in Runs \ {k} : run'[l] = run[l]
<1>1. run[k] \in RunType /\ NextRule(k) \in RunType
  BY RunTyped, NextRuleTyped
<1> DEFINE x == NextRule(k)
<1>2. x.pc = "loop" /\ x.cur = {} /\ x.todo = run[k].todo \ run[k].cur
  BY <1>1 DEF NextRule, RunType
<1>3. x.todo \union x.cur \subseteq Listed(k)
  BY <1>2 DEF Listed
<1> HIDE DEF x
<1>4. x \in RunType /\ run' = [run EXCEPT ![k] = x]
  BY <1>1 DEF x
<1>5. QED
  BY <1>2, <1>3, <1>4, QuietMove

LEMMA MarkMove ==
  ASSUME TypeOK, CurTodo, NEW k \in Runs, MarkFired(k)
  PROVE  /\ CurTodo' /\ \A l \in Runs \ {k} : run'[l] = run[l]
         /\ Quiet(k) \/ \E r \in Rules : Marks(k, r)
<1>1. run \in [Runs -> RunType] /\ run[k] \in RunType /\ run[k].pc = "mark"
  BY RunTyped DEF MarkFired
<1>2. PICK r \in Rules : run[k].cur = {r} /\ r \in run[k].todo
  BY <1>1 DEF CurTodo
<1>3. \/ /\ rule' = [rule EXCEPT ![r] = Disarmed(r)]
         /\ fireCount' = [fireCount EXCEPT ![r] = IF r \in Existing THEN fireCount[r] + 1 ELSE fireCount[r]]
         /\ run' = [run EXCEPT ![k] = [run[k] EXCEPT !.pc = "event"]]
      \/ /\ run' = [run EXCEPT ![k] = NextRule(k)]
         /\ UNCHANGED <<rule, fireCount>>
  BY <1>2 DEF MarkFired
<1>4. UNCHANGED <<arms, told>>
  BY DEF MarkFired
<1>5. CASE run' = [run EXCEPT ![k] = NextRule(k)] /\ UNCHANGED <<rule, fireCount>>
  BY <1>1, <1>4, <1>5, SkipMove DEF table
<1>6. CASE /\ rule' = [rule EXCEPT ![r] = Disarmed(r)]
           /\ fireCount' = [fireCount EXCEPT ![r] = IF r \in Existing THEN fireCount[r] + 1 ELSE fireCount[r]]
           /\ run' = [run EXCEPT ![k] = [run[k] EXCEPT !.pc = "event"]]
  <2>1. /\ run'[k].pc = "event" /\ run'[k].cur = {r} /\ run'[k].todo = run[k].todo
        /\ \A l \in Runs \ {k} : run'[l] = run[l]
    BY <1>1, <1>2, <1>6 DEF RunType
  <2>2. CurTodo'
    BY <1>2, <2>1 DEF CurTodo
  <2>3. Marks(k, r)
    BY <1>1, <1>2, <1>4, <1>6, <2>1 DEF Marks, Listed, Marked
  <2>4. QED
    BY <2>1, <2>2, <2>3
<1>7. QED
  BY <1>3, <1>5, <1>6

LEMMA EventMove ==
  ASSUME TypeOK, CurTodo, NEW k \in Runs, CreateEvent(k)
  PROVE  /\ CurTodo' /\ \A l \in Runs \ {k} : run'[l] = run[l]
         /\ Quiet(k) \/ \E r \in Rules : Tells(k, r)
<1>1. run \in [Runs -> RunType] /\ run[k] \in RunType /\ run[k].pc = "event"
  BY RunTyped DEF CreateEvent
<1>2. PICK r \in Rules : run[k].cur = {r} /\ r \in run[k].todo
  BY <1>1 DEF CurTodo
<1>3. \/ /\ r \in Existing
         /\ told' = [told EXCEPT ![r] = told[r] + 1]
         /\ run' = [run EXCEPT ![k] = [run[k] EXCEPT !.pc = "loop", !.cur = {}, !.todo = run[k].todo \ {r}]]
      \/ run' = [run EXCEPT ![k] = NextRule(k)] /\ UNCHANGED told
  BY <1>2 DEF CreateEvent
<1>4. UNCHANGED <<rule, fireCount, arms>>
  BY DEF CreateEvent
<1>5. CASE run' = [run EXCEPT ![k] = NextRule(k)] /\ UNCHANGED told
  BY <1>1, <1>4, <1>5, SkipMove DEF table
<1>6. CASE /\ r \in Existing
           /\ told' = [told EXCEPT ![r] = told[r] + 1]
           /\ run' = [run EXCEPT ![k] = [run[k] EXCEPT !.pc = "loop", !.cur = {}, !.todo = run[k].todo \ {r}]]
  <2>1. /\ run'[k].pc = "loop" /\ run'[k].cur = {} /\ run'[k].todo = run[k].todo \ {r}
        /\ \A l \in Runs \ {k} : run'[l] = run[l]
    BY <1>1, <1>6 DEF RunType
  <2>2. CurTodo'
    BY <2>1 DEF CurTodo
  <2>3. Tells(k, r)
    BY <1>1, <1>2, <1>4, <1>6, <2>1 DEF Tells, Listed, Marked
  <2>4. QED
    BY <2>1, <2>2, <2>3
<1>7. QED
  BY <1>3, <1>5, <1>6

LEMMA RunMoves ==
  ASSUME TypeOK, CurTodo, NEW k \in Runs, LoadSnapshot(k) \/ RunStep(k)
  PROVE  /\ CurTodo' /\ \A l \in Runs \ {k} : run'[l] = run[l]
         /\ Quiet(k) \/ \E r \in Rules : Marks(k, r) \/ Tells(k, r)
<1>0. /\ run \in [Runs -> RunType] /\ run[k] \in RunType /\ IdleRun \in RunType
      /\ IdleRun.pc = "idle" /\ IdleRun.cur = {}
  BY RunTyped, IdleRunType DEF IdleRun
<1>1. CASE LoadSnapshot(k)
  <2>1. PICK s \in SUBSET Rules : run' = [run EXCEPT ![k] = [IdleRun EXCEPT !.pc = "list", !.snap = s]]
    BY <1>1 DEF LoadSnapshot
  <2> DEFINE x == [IdleRun EXCEPT !.pc = "list", !.snap = s]
  <2>2. x \in RunType /\ x.pc = "list" /\ x.cur = {}
    BY <1>0 DEF IdleRun, RunType
  <2>3. UNCHANGED table
    BY <1>1 DEF LoadSnapshot
  <2> HIDE DEF x
  <2>4. run' = [run EXCEPT ![k] = x]
    BY <2>1 DEF x
  <2>5. QED
    BY <2>2, <2>3, <2>4, QuietMove
<1>2. CASE ListRules(k)
  <2> DEFINE x == [run[k] EXCEPT !.pc = "loop", !.todo = Armed, !.seen = ArmedNow]
  <2>1. run' = [run EXCEPT ![k] = x] \/ run' = [run EXCEPT ![k] = IdleRun]
    BY <1>2 DEF ListRules
  <2>2. run[k].cur = {}
    BY <1>2 DEF CurTodo, ListRules
  <2>3. ArmedNow \in [Rules -> Nat] /\ Armed \in SUBSET Rules
    BY <1>0 DEF TypeOK, Armed, ArmedNow
  <2>4. x \in RunType /\ x.pc = "loop" /\ x.cur = {} /\ x.todo = Armed
    BY <1>0, <2>2, <2>3 DEF RunType
  <2>5. UNCHANGED table
    BY <1>2 DEF ListRules
  <2> HIDE DEF x
  <2>6. CASE run' = [run EXCEPT ![k] = x]
    BY <2>4, <2>5, <2>6, QuietMove
  <2>7. CASE run' = [run EXCEPT ![k] = IdleRun]
    BY <1>0, <2>5, <2>7, QuietMove
  <2>8. QED
    BY <2>1, <2>6, <2>7
<1>3. ASSUME NEW r \in Rules, Evaluate(k, r)
      PROVE  CurTodo' /\ Quiet(k) /\ \A l \in Runs \ {k} : run'[l] = run[l]
  <2>1. run[k].pc = "loop" /\ r \in run[k].todo /\ run[k].cur = {} /\ UNCHANGED table
    BY <1>3 DEF CurTodo, Evaluate
  <2>2. Listed(k) = run[k].todo
    BY <2>1 DEF Listed
  <2> DEFINE x == [run[k] EXCEPT !.pc = "mark", !.cur = {r}]
             y == [run[k] EXCEPT !.todo = run[k].todo \ {r}]
             z == [run[k] EXCEPT !.todo = run[k].todo \ {r}, !.failed = run[k].failed \union {r}]
  <2>3. run' = [run EXCEPT ![k] = x] \/ run' = [run EXCEPT ![k] = y] \/ run' = [run EXCEPT ![k] = z]
    BY <1>3 DEF Evaluate
  <2>4. x \in RunType /\ x.pc = "mark" /\ x.cur = {r} /\ x.todo = run[k].todo
    BY <1>0 DEF RunType
  <2>5. y \in RunType /\ y.pc = "loop" /\ y.cur = {} /\ y.todo \subseteq run[k].todo
    BY <1>0, <2>1 DEF RunType
  <2>6. z \in RunType /\ z.pc = "loop" /\ z.cur = {} /\ z.todo \subseteq run[k].todo
    BY <1>0, <2>1 DEF RunType
  <2> HIDE DEF x, y, z
  <2>7. CASE run' = [run EXCEPT ![k] = x]
    BY <2>1, <2>2, <2>4, <2>7, QuietMove
  <2>8. CASE run' = [run EXCEPT ![k] = y]
    BY <2>1, <2>2, <2>5, <2>8, QuietMove
  <2>9. CASE run' = [run EXCEPT ![k] = z]
    BY <2>1, <2>2, <2>6, <2>9, QuietMove
  <2>10. QED
    BY <2>3, <2>7, <2>8, <2>9
<1>4. CASE Finish(k)
  <2> DEFINE x == [run[k] EXCEPT !.pc = "done"]
  <2>1. run' = [run EXCEPT ![k] = x] /\ run[k].cur = {} /\ UNCHANGED table
    BY <1>4 DEF Finish, CurTodo
  <2>2. x \in RunType /\ x.pc = "done" /\ x.cur = {}
    BY <1>0, <2>1 DEF RunType
  <2> HIDE DEF x
  <2>3. QED
    BY <2>1, <2>2, QuietMove
<1>5. CASE Return(k) \/ Cancel(k)
  <2>1. run' = [run EXCEPT ![k] = IdleRun] /\ UNCHANGED table
    BY <1>5 DEF Return, Cancel
  <2>2. QED
    BY <1>0, <2>1, QuietMove
<1>6. QED
  BY <1>1, <1>2, <1>3, <1>4, <1>5, MarkMove, EventMove DEF RunStep

-----------------------------------------------------------------------------
(* An arming fires once when runs are one at a time.                       *)

LEMMA FireInit == Init => FireInv
<1> SUFFICES ASSUME Init PROVE FireInv
  OBVIOUS
<1>1. \A k \in Runs : run[k].pc = "idle" /\ run[k].cur = {}
  BY DEF Init, IdleRun
<1>2. CurTodo /\ RunsOK
  BY <1>1 DEF CurTodo, RunsOK, Listed, Marked
<1>3. CountOK
  BY DEF Init, CountOK
<1>4. QED
  BY <1>2, <1>3, InitTypeOK DEF FireInv

(* The owner's requests: they only arm, pause and delete.                  *)
LEMMA OwnerStep ==
  ASSUME FireInv, UNCHANGED <<run, fireCount, told>>, arms' \in [Rules -> Nat],
         \A r \in Rules :
           \/ rule'[r] = rule[r] /\ arms'[r] = arms[r]
           \/ rule[r] = "none" /\ rule'[r] = "armed" /\ arms'[r] = 1
           \/ rule[r] = "off" /\ rule'[r] = "armed" /\ arms'[r] = arms[r] + 1
           \/ rule[r] \in {"armed", "off"} /\ rule'[r] \in {"off", "gone"} /\ arms'[r] = arms[r]
  PROVE  CountOK' /\ CurTodo' /\ RunsOK'
<1>1. \A r \in Rules : arms[r] \in Nat /\ arms'[r] \in Nat /\ fireCount[r] \in Nat /\ told[r] \in Nat
  BY DEF FireInv, TypeOK
<1>2. CountOK'
  BY <1>1 DEF FireInv, CountOK
<1>3. \A k \in Runs : Listed(k) \subseteq Rules /\ Marked(k) \subseteq Rules
  BY RunTyped DEF FireInv, Listed, Marked
<1>4. \A k \in Runs : Listed(k)' = Listed(k) /\ Marked(k)' = Marked(k)
  BY DEF Listed, Marked
<1>5. \A r \in Rules : arms[r] <= arms'[r] /\ (rule[r] = "gone" => rule'[r] = "gone")
  BY <1>1 DEF FireInv, CountOK
<1>6. RunsOK'
  BY <1>1, <1>3, <1>4, <1>5 DEF FireInv, RunsOK
<1>7. CurTodo'
  BY DEF FireInv, CurTodo
<1>8. QED
  BY <1>2, <1>6, <1>7

(* A run lists a rule, marks it or tells its owner; there is no other run. *)
LEMMA RunStepFire ==
  ASSUME FireInv, OneRun, NEW k \in Runs, LoadSnapshot(k) \/ RunStep(k)
  PROVE  CountOK' /\ CurTodo' /\ RunsOK'
<1>1. TypeOK /\ CurTodo /\ CurTodo' /\ \A l \in Runs : l = k
  BY RunMoves DEF FireInv, OneRun
<1>2. \A q \in Rules : /\ fireCount[q] \in Nat /\ arms[q] \in Nat /\ told[q] \in Nat
                       /\ rule[q] \in {"none", "armed", "off", "gone"}
  BY <1>1 DEF TypeOK
<1>3. /\ \A q \in Listed(k) : q \in Rules /\ fireCount[q] < arms[q]
      /\ \A q \in Marked(k) : q \in Rules /\ (told[q] < fireCount[q] \/ rule[q] = "gone")
      /\ \A q \in Armed : q \in Rules /\ fireCount[q] < arms[q]
  BY <1>1, RunTyped DEF FireInv, RunsOK, CountOK, Armed, Listed, Marked
<1>4. CASE Quiet(k)
  <2>1. CountOK'
    BY <1>4 DEF Quiet, table, FireInv, CountOK
  <2>2. RunsOK'
    BY <1>1, <1>3, <1>4 DEF Quiet, table, RunsOK
  <2>3. QED
    BY <1>1, <2>1, <2>2
<1>5. ASSUME NEW r \in Rules, Marks(k, r) PROVE CountOK' /\ RunsOK'
  <2>1. fireCount[r] < arms[r] /\ told[r] <= fireCount[r] /\ rule[r] # "none"
    BY <1>2, <1>3, <1>5 DEF Marks, FireInv, CountOK
  <2>2. /\ rule'[r] \in {"off", "gone"} /\ UNCHANGED <<arms, told>>
        /\ rule'[r] = "gone" \/ fireCount'[r] = fireCount[r] + 1
        /\ fireCount'[r] = fireCount[r] \/ fireCount'[r] = fireCount[r] + 1
        /\ \A q \in Rules \ {r} : rule'[q] = rule[q] /\ fireCount'[q] = fireCount[q]
    BY <1>1, <1>2, <1>5, <2>1 DEF Marks, Disarmed, Existing, TypeOK
  <2>3. CountOK'
    BY <1>2, <2>1, <2>2 DEF FireInv, CountOK
  <2>4. \A q \in Listed(k)' : fireCount'[q] < arms'[q]
    BY <1>3, <1>5, <2>2 DEF Marks
  <2>5. \A q \in Marked(k)' : told'[q] < fireCount'[q] \/ rule'[q] = "gone"
    BY <1>2, <1>5, <2>1, <2>2 DEF Marks
  <2>6. QED
    BY <1>1, <2>3, <2>4, <2>5 DEF RunsOK
<1>6. ASSUME NEW r \in Rules, Tells(k, r) PROVE CountOK' /\ RunsOK'
  <2>1. told[r] < fireCount[r] /\ UNCHANGED <<rule, fireCount, arms>>
    BY <1>3, <1>6 DEF Tells, Existing
  <2>2. told'[r] <= fireCount[r] /\ \A q \in Rules \ {r} : told'[q] = told[q]
    BY <1>1, <1>2, <1>6, <2>1 DEF Tells, TypeOK
  <2>3. CountOK'
    BY <2>1, <2>2 DEF FireInv, CountOK
  <2>4. RunsOK'
    BY <1>1, <1>3, <1>6, <2>1 DEF Tells, RunsOK
  <2>5. QED
    BY <2>3, <2>4
<1>7. QED
  BY <1>1, <1>4, <1>5, <1>6, RunMoves

LEMMA FireStep == FireInv /\ OneRun /\ [Next]_vars => FireInv'
<1> SUFFICES ASSUME FireInv, OneRun, [Next]_vars PROVE CountOK' /\ CurTodo' /\ RunsOK'
  BY TypeStep DEF FireInv
<1>0. TypeOK /\ TypeOK'
  BY TypeStep DEF FireInv
<1>1. ASSUME NEW k \in Runs, LoadSnapshot(k) \/ RunStep(k)
      PROVE  CountOK' /\ CurTodo' /\ RunsOK'
  BY <1>1, RunStepFire
<1>2. ASSUME NEW a \in Authors, CreateCount(a) \/ CreateInsert(a)
      PROVE  CountOK' /\ CurTodo' /\ RunsOK'
  BY <1>0, <1>2, OwnerStep DEF CreateCount, CreateInsert, TypeOK, table
<1>3. ASSUME NEW r \in Rules, Pause(r) \/ Rearm(r) \/ Delete(r)
      PROVE  CountOK' /\ CurTodo' /\ RunsOK'
  BY <1>0, <1>3, OwnerStep DEF Pause, Rearm, Delete, TypeOK, Existing
<1>4. CASE Crash
  <2>1. \A k \in Runs : run'[k].pc = "idle" /\ run'[k].cur = {}
    BY <1>4 DEF Crash, IdleRun
  <2>2. CurTodo' /\ RunsOK'
    BY <2>1 DEF CurTodo, RunsOK, Listed, Marked
  <2>3. QED
    BY <1>4, <2>2 DEF Crash, table, FireInv, CountOK
<1>5. CASE UNCHANGED vars
  BY <1>5 DEF vars, table, FireInv, CountOK, CurTodo, RunsOK, Listed, Marked
<1>6. QED
  BY <1>1, <1>2, <1>3, <1>4, <1>5 DEF Next

(* When runs are one at a time, no arming of a rule fires twice and no     *)
(* owner is told twice, for any number of rules and requests, whatever     *)
(* call fails and wherever the process restarts.                           *)
THEOREM OneRunNeverRefires ==
  ASSUME OneRun
  PROVE  Spec => []NoRefire
<1>1. FireInv => NoRefire
  BY DEF FireInv, CountOK, NoRefire
<1>2. FireInv /\ [Next]_vars => FireInv'
  BY FireStep
<1>3. QED
  BY <1>1, <1>2, FireInit, PTL DEF Spec
-----------------------------------------------------------------------------
(* Alerts implements Arming when runs are one at a time.                   *)

Credit == [r \in Rules |-> arms[r] - fireCount[r]]
Simulates == Promise!Next \/ UNCHANGED <<rule, Credit, Due, told>>

(* The rules due are those a run has marked and nobody has deleted since.  *)
LEMMA DueRules ==
  ASSUME FireInv
  PROVE  /\ Due \subseteq Existing
         /\ \A r \in Due : told[r] < fireCount[r] /\ rule[r] # "none"
         /\ OneRun => \A k \in Runs : Due = Marked(k) \intersect Existing
<1>1. \A r \in Existing : r \in Due <=> \E k \in Runs : r \in Marked(k)
  BY DEF Due, Marked
<1>2. \A r \in Existing : rule[r] # "none" /\ rule[r] # "gone"
  BY DEF Existing
<1>3. Due \subseteq Existing
  BY DEF Due
<1>4. ASSUME NEW r \in Due PROVE told[r] < fireCount[r] /\ rule[r] # "none"
  BY <1>1, <1>2, <1>3 DEF FireInv, RunsOK
<1>5. OneRun => \A k \in Runs : Due = Marked(k) \intersect Existing
  BY <1>1, <1>3 DEF OneRun
<1>6. QED
  BY <1>3, <1>4, <1>5

LEMMA CreditTyped ==
  ASSUME TypeOK
  PROVE  \A r \in Rules : arms[r] \in Nat /\ fireCount[r] \in Nat /\ told[r] \in Nat /\ Credit[r] = arms[r] - fireCount[r]
BY DEF TypeOK, Credit

(* One rule's credit changes, or none does.                                *)
LEMMA OneCredit ==
  ASSUME NEW r \in Rules, NEW c,
         arms'[r] - fireCount'[r] = c,
         \A q \in Rules \ {r} : arms'[q] = arms[q] /\ fireCount'[q] = fireCount[q]
  PROVE  Credit' = [Credit EXCEPT ![r] = c]
<1>1. \A q \in Rules : Credit'[q] = IF q = r THEN c ELSE Credit[q]
  BY DEF Credit
<1>2. Credit' = [q \in Rules |-> Credit'[q]] /\ Credit = [q \in Rules |-> Credit[q]]
  BY DEF Credit
<1>3. QED
  BY <1>1, <1>2

(* Creating a rule and arming it again are an arming; pausing and deleting *)
(* are what they are.                                                      *)
LEMMA ArmSimulates ==
  ASSUME FireInv, NEW r \in Rules, rule[r] \in {"none", "off"}, rule' = [rule EXCEPT ![r] = "armed"],
         arms' = [arms EXCEPT ![r] = @ + 1], UNCHANGED <<fireCount, told, run>>
  PROVE  Simulates
<1>1. TypeOK /\ \A q \in Rules : arms[q] \in Nat /\ fireCount[q] \in Nat /\ Credit[q] = arms[q] - fireCount[q]
  BY CreditTyped DEF FireInv
<1>2. arms'[r] = arms[r] + 1 /\ \A q \in Rules \ {r} : arms'[q] = arms[q]
  BY <1>1 DEF TypeOK
<1>3. arms'[r] - fireCount'[r] = Credit[r] + 1
  BY <1>1, <1>2
<1>4. Credit' = [Credit EXCEPT ![r] = Credit[r] + 1]
  BY <1>2, <1>3, OneCredit
<1>5. Existing' = Existing \union {r}
  BY <1>1 DEF Existing, TypeOK
<1>6. rule[r] = "none" => \A k \in Runs : r \notin Marked(k)
  <2>1. ASSUME rule[r] = "none", NEW k \in Runs, r \in Marked(k) PROVE FALSE
    <3>1. fireCount[r] <= 0 /\ told[r] < fireCount[r] /\ told[r] \in Nat
      BY <1>1, <2>1, CreditTyped DEF FireInv, CountOK, RunsOK
    <3>2. QED
      BY <1>1, <3>1
  <2>2. QED
    BY <2>1
<1>7. Due' = Due
  BY <1>5, <1>6 DEF Due, Marked, Existing
<1>8. Promise!Arm(r)
  BY <1>4, <1>7 DEF Promise!Arm, Credit
<1>9. QED
  BY <1>8 DEF Simulates, Promise!Next

LEMMA OwnerSimulates ==
  ASSUME FireInv, NEW r \in Rules, Pause(r) \/ Rearm(r) \/ Delete(r)
  PROVE  Simulates
<1>1. TypeOK
  BY DEF FireInv
<1>2. CASE Pause(r)
  <2>1. Existing' = Existing /\ UNCHANGED <<Credit, told, run>>
    BY <1>1, <1>2 DEF Pause, Existing, Credit, TypeOK
  <2>2. Due' = Due
    BY <2>1 DEF Due
  <2>3. Promise!Disarm(r)
    BY <1>2, <2>1, <2>2 DEF Pause, Promise!Disarm, Credit
  <2>4. QED
    BY <2>3 DEF Simulates, Promise!Next
<1>3. CASE Rearm(r)
  BY <1>3, ArmSimulates DEF Rearm
<1>4. CASE Delete(r)
  <2>1. Existing' = Existing \ {r} /\ UNCHANGED <<Credit, told, run>>
    BY <1>1, <1>4 DEF Delete, Existing, Credit, TypeOK
  <2>2. Due' = Due \ {r}
    BY <2>1 DEF Due
  <2>3. Promise!Delete(r)
    BY <1>4, <2>1, <2>2 DEF Delete, Existing, Promise!Delete, Credit
  <2>4. QED
    BY <2>3 DEF Simulates, Promise!Next
<1>5. QED
  BY <1>2, <1>3, <1>4

LEMMA CreateSimulates ==
  ASSUME FireInv, NEW a \in Authors, CreateCount(a) \/ CreateInsert(a)
  PROVE  Simulates
<1>1. CASE UNCHANGED <<table, run>>
  BY <1>1 DEF table, Simulates, Credit, Due, Existing
<1>2. ASSUME NEW r \in Rules, CreateInsert(a), rule[r] = "none", rule' = [rule EXCEPT ![r] = "armed"],
             arms' = [arms EXCEPT ![r] = 1]
      PROVE  Simulates
  <2>1. arms[r] = 0
    BY <1>2 DEF FireInv, CountOK
  <2>2. UNCHANGED <<fireCount, told, run>>
    BY <1>2 DEF CreateInsert
  <2>3. arms' = [arms EXCEPT ![r] = @ + 1]
    BY <1>2, <2>1
  <2>4. QED
    BY <1>2, <2>2, <2>3, ArmSimulates
<1>3. CASE CreateCount(a)
  BY <1>1, <1>3 DEF CreateCount
<1>4. CASE CreateInsert(a) /\ UNCHANGED <<rule, arms>>
  BY <1>1, <1>4 DEF CreateInsert, table
<1>5. QED
  BY <1>2, <1>3, <1>4 DEF CreateInsert

(* A run's step is a firing, a telling, a loss, or nothing.                *)
LEMMA RunSimulates ==
  ASSUME FireInv, FireInv', OneRun, NEW k \in Runs, LoadSnapshot(k) \/ RunStep(k)
  PROVE  Simulates
<1>1. TypeOK /\ CurTodo /\ \A q \in Rules : arms[q] \in Nat /\ fireCount[q] \in Nat /\ Credit[q] = arms[q] - fireCount[q]
  BY CreditTyped DEF FireInv
<1>2. Quiet(k) \/ \E r \in Rules : Marks(k, r) \/ Tells(k, r)
  BY <1>1, RunMoves
<1>3. Due = Marked(k) \intersect Existing
  BY DueRules
<1>4. Due' = Marked(k)' \intersect Existing'
  BY DEF OneRun, Due, Marked
<1>5. CASE Quiet(k)
  <2>1. UNCHANGED <<rule, Credit, told>> /\ Due' = {}
    BY <1>4, <1>5 DEF Quiet, table, Credit
  <2>2. CASE Due = {}
    BY <2>1, <2>2 DEF Simulates
  <2>3. CASE Due # {}
    <3>1. Promise!Lose
      BY <2>1, <2>3 DEF Promise!Lose, Credit
    <3>2. QED
      BY <3>1 DEF Simulates, Promise!Next
  <2>4. QED
    BY <2>2, <2>3
<1>6. ASSUME NEW r \in Rules, Marks(k, r) PROVE Simulates
  <2>1. Due = {} /\ Due' = {r} \intersect Existing' /\ UNCHANGED <<arms, told>>
    BY <1>3, <1>4, <1>6 DEF Marks
  <2>2. fireCount[r] < arms[r] /\ rule[r] # "none"
    BY <1>1, <1>6 DEF Marks, FireInv, RunsOK, CountOK
  <2>3. CASE r \in Existing
    <3>1. rule' = [rule EXCEPT ![r] = "off"] /\ rule[r] \in {"armed", "off"}
      BY <1>1, <1>6, <2>3 DEF Marks, Disarmed, Existing
    <3>2. r \in Existing'
      BY <1>1, <3>1 DEF Existing, TypeOK
    <3>3. fireCount'[r] = fireCount[r] + 1 /\ \A q \in Rules \ {r} : fireCount'[q] = fireCount[q]
      BY <1>1, <1>6, <2>3 DEF Marks, TypeOK
    <3>4. arms'[r] - fireCount'[r] = Credit[r] - 1
      BY <1>1, <2>1, <3>3
    <3>5. Credit' = [Credit EXCEPT ![r] = Credit[r] - 1]
      BY <2>1, <3>3, <3>4, OneCredit
    <3>6. Due' = Due \union {r} /\ Credit[r] > 0
      BY <1>1, <2>1, <2>2, <3>2
    <3>7. Promise!Fire(r)
      BY <2>1, <3>1, <3>5, <3>6 DEF Promise!Fire, Credit
    <3>8. QED
      BY <3>7 DEF Simulates, Promise!Next
  <2>4. CASE r \notin Existing
    <3>1. UNCHANGED <<rule, fireCount>>
      BY <1>1, <1>6, <2>4 DEF Marks, Disarmed, Existing, TypeOK
    <3>2. Due' = {} /\ UNCHANGED Credit
      BY <2>1, <2>4, <3>1 DEF Existing, Credit
    <3>3. QED
      BY <2>1, <3>1, <3>2 DEF Simulates
  <2>5. QED
    BY <2>3, <2>4
<1>7. ASSUME NEW r \in Rules, Tells(k, r) PROVE Simulates
  <2>1. UNCHANGED <<rule, Credit>> /\ Due = {r} /\ Due' = {}
    BY <1>3, <1>4, <1>7 DEF Tells, Credit
  <2>2. Promise!Tell(r)
    BY <1>7, <2>1 DEF Tells, Promise!Tell, Credit
  <2>3. QED
    BY <2>2 DEF Simulates, Promise!Next
<1>8. QED
  BY <1>2, <1>5, <1>6, <1>7

LEMMA CrashSimulates == ASSUME FireInv, Crash PROVE Simulates
<1>1. \A k \in Runs : run'[k].pc = "idle"
  BY DEF Crash, IdleRun
<1>2. UNCHANGED <<rule, Credit, told>> /\ Due' = {}
  BY <1>1 DEF Crash, table, Credit, Due
<1>3. CASE Due = {}
  BY <1>2, <1>3 DEF Simulates
<1>4. CASE Due # {}
  <2>1. Promise!Lose
    BY <1>2, <1>4 DEF Promise!Lose, Credit
  <2>2. QED
    BY <2>1 DEF Simulates, Promise!Next
<1>5. QED
  BY <1>3, <1>4

LEMMA NextSimulates == FireInv /\ FireInv' /\ OneRun /\ [Next]_vars => Simulates
<1> SUFFICES ASSUME FireInv, FireInv', OneRun, [Next]_vars PROVE Simulates
  OBVIOUS
<1>1. CASE UNCHANGED vars
  BY <1>1 DEF vars, table, Simulates, Credit, Due, Existing
<1>2. QED
  BY <1>1, CreateSimulates, OwnerSimulates, RunSimulates, CrashSimulates DEF Next

LEMMA InitSimulates == Init => Promise!Init
<1> SUFFICES ASSUME Init PROVE Promise!Init
  OBVIOUS
<1>1. [r \in Rules |-> arms[r] - fireCount[r]] = [r \in Rules |-> 0]
  BY DEF Init
<1>2. Due = {}
  BY DEF Init, Due, Existing
<1>3. QED
  BY <1>1, <1>2 DEF Init, Promise!Init

(* When runs are one at a time the alert rules keep what Arming promises   *)
(* an owner: a firing spends an arming and disarms the rule in one step,   *)
(* is told once or never, and no failure or restart repeats it.            *)
THEOREM AlertsImplementArming ==
  ASSUME OneRun
  PROVE  Spec => ImplementsArming
<1>1. Init => Promise!Init
  BY InitSimulates
<1>2. FireInv /\ FireInv' /\ [Next]_vars => [Promise!Next]_<<rule, Credit, Due, told>>
  BY NextSimulates DEF Simulates
<1>3. FireInv /\ [Next]_vars => FireInv'
  BY FireStep
<1>4. QED
  BY <1>1, <1>2, <1>3, FireInit, PTL DEF Spec, ImplementsArming, Promise!Spec, Credit

-----------------------------------------------------------------------------
(* Several runs at once: each has its share of every arming.               *)

(* The runs that may still mark a rule, and those that are about to tell   *)
(* its owner.                                                              *)
Firing(r) == {k \in Runs : r \in Listed(k)}
Telling(r) == {k \in Runs : r \in Marked(k)}

(* What may be fired under the armings so far.                             *)
Budget(a) == a * Cardinality(Runs)

(* OncePerRun, made inductive: an arming still on has spent nothing of its *)
(* share, and every run that may still mark the rule has its own.          *)
RunCountOK ==
  \A r \in Rules :
    /\ rule[r] = "none" => arms[r] = 0
    /\ fireCount[r] + Cardinality(Firing(r)) <= Budget(arms[r])
    /\ rule[r] = "armed" => fireCount[r] + Cardinality(Runs) <= Budget(arms[r])
    /\ told[r] <= fireCount[r]
    /\ rule[r] # "gone" => told[r] + Cardinality(Telling(r)) <= fireCount[r]

OnceInv == TypeOK /\ CurTodo /\ RunCountOK

LEMMA Budgets ==
  ASSUME NEW a \in Nat
  PROVE  /\ Cardinality(Runs) \in Nat /\ Budget(a) \in Nat
         /\ Budget(a + 1) = Budget(a) + Cardinality(Runs)
         /\ Budget(0) = 0 /\ Budget(1) = Cardinality(Runs)
<1>1. Cardinality(Runs) \in Nat
  BY AlertsAssumption, FS_CardinalityType
<1> DEFINE n == Cardinality(Runs)
<1> HIDE DEF n
<1>2. ASSUME n \in Nat PROVE a * n \in Nat /\ (a + 1) * n = a * n + n /\ 0 * n = 0 /\ 1 * n = n
  BY <1>2
<1>3. QED
  BY <1>1, <1>2 DEF Budget, n

LEMMA RunSets ==
  ASSUME NEW S \in SUBSET Runs
  PROVE  /\ IsFiniteSet(S) /\ Cardinality(S) \in Nat /\ Cardinality(S) <= Cardinality(Runs)
         /\ \A T \in SUBSET S : Cardinality(T) <= Cardinality(S)
         /\ \A k \in S : Cardinality(S \ {k}) = Cardinality(S) - 1
         /\ \A k \in Runs \ S : Cardinality(S \union {k}) = Cardinality(S) + 1
<1>1. IsFiniteSet(S) /\ Cardinality(S) <= Cardinality(Runs)
  BY AlertsAssumption, FS_Subset
<1>2. QED
  BY <1>1, FS_CardinalityType, FS_Subset, FS_RemoveElement, FS_AddElement

LEMMA CountTyped ==
  ASSUME TypeOK, NEW r \in Rules
  PROVE  /\ fireCount[r] \in Nat /\ arms[r] \in Nat /\ told[r] \in Nat
         /\ rule[r] \in {"none", "armed", "off", "gone"}
         /\ Firing(r) \in SUBSET Runs /\ Telling(r) \in SUBSET Runs
BY DEF TypeOK, Firing, Telling

(* The owner's requests: they only arm, pause and delete.                  *)
LEMMA OwnerCounts ==
  ASSUME OnceInv, UNCHANGED <<run, fireCount, told>>, arms' \in [Rules -> Nat],
         \A r \in Rules :
           \/ rule'[r] = rule[r] /\ arms'[r] = arms[r]
           \/ rule[r] = "none" /\ rule'[r] = "armed" /\ arms'[r] = 1
           \/ rule[r] = "off" /\ rule'[r] = "armed" /\ arms'[r] = arms[r] + 1
           \/ rule[r] \in {"armed", "off"} /\ rule'[r] \in {"off", "gone"} /\ arms'[r] = arms[r]
  PROVE  CurTodo' /\ RunCountOK'
<1>1. CurTodo'
  BY DEF OnceInv, CurTodo
<1>2. ASSUME NEW r \in Rules
      PROVE  /\ rule'[r] = "none" => arms'[r] = 0
             /\ fireCount'[r] + Cardinality(Firing(r)') <= Budget(arms'[r])
             /\ rule'[r] = "armed" => fireCount'[r] + Cardinality(Runs) <= Budget(arms'[r])
             /\ told'[r] <= fireCount'[r]
             /\ rule'[r] # "gone" => told'[r] + Cardinality(Telling(r)') <= fireCount'[r]
  <2>1. Firing(r)' = Firing(r) /\ Telling(r)' = Telling(r)
    BY DEF Firing, Telling, Listed, Marked
  <2>2. /\ rule[r] = "none" => arms[r] = 0
        /\ fireCount[r] + Cardinality(Firing(r)) <= Budget(arms[r])
        /\ rule[r] = "armed" => fireCount[r] + Cardinality(Runs) <= Budget(arms[r])
        /\ told[r] <= fireCount[r]
        /\ rule[r] # "gone" => told[r] + Cardinality(Telling(r)) <= fireCount[r]
    BY DEF OnceInv, RunCountOK
  <2>3. /\ fireCount[r] \in Nat /\ arms[r] \in Nat /\ told[r] \in Nat
        /\ rule[r] \in {"none", "armed", "off", "gone"}
        /\ Cardinality(Firing(r)) \in Nat /\ Cardinality(Firing(r)) <= Cardinality(Runs)
    BY CountTyped, RunSets DEF OnceInv
  <2>4. CASE rule'[r] = rule[r] /\ arms'[r] = arms[r]
    BY <2>1, <2>2, <2>4
  <2>5. CASE rule[r] = "none" /\ rule'[r] = "armed" /\ arms'[r] = 1
    <3>0. Budget(arms[r]) = 0 /\ Budget(1) = Cardinality(Runs) /\ Cardinality(Runs) \in Nat
      BY <2>2, <2>5, Budgets
    <3>1. fireCount[r] = 0 /\ Cardinality(Firing(r)) = 0 /\ Budget(1) = Cardinality(Runs) /\ Cardinality(Runs) \in Nat
      BY <2>2, <2>3, <3>0
    <3>2. QED
      BY <2>1, <2>2, <2>3, <2>5, <3>1
  <2>6. CASE rule[r] = "off" /\ rule'[r] = "armed" /\ arms'[r] = arms[r] + 1
    <3>1. Budget(arms[r] + 1) = Budget(arms[r]) + Cardinality(Runs) /\ Cardinality(Runs) \in Nat /\ Budget(arms[r]) \in Nat
      BY <2>3, Budgets
    <3>2. QED
      BY <2>1, <2>2, <2>3, <2>6, <3>1
  <2>7. CASE rule[r] \in {"armed", "off"} /\ rule'[r] \in {"off", "gone"} /\ arms'[r] = arms[r]
    BY <2>1, <2>2, <2>3, <2>7
  <2>8. QED
    BY <2>4, <2>5, <2>6, <2>7
<1>3. QED
  BY <1>1, <1>2 DEF RunCountOK

(* A run that marks a rule spends its own share of the arming.             *)
LEMMA RunCounts ==
  ASSUME OnceInv, NEW k \in Runs, LoadSnapshot(k) \/ RunStep(k)
  PROVE  CurTodo' /\ RunCountOK'
<1>1. CurTodo' /\ (\A l \in Runs \ {k} : run'[l] = run[l]) /\ TypeOK
  BY RunMoves DEF OnceInv
<1>2. \A l \in Runs \ {k} : Listed(l)' = Listed(l) /\ Marked(l)' = Marked(l)
  BY <1>1 DEF Listed, Marked
<1>3. ASSUME NEW r \in Rules, UNCHANGED <<rule[r], fireCount[r], arms[r], told[r]>>,
             r \in Listed(k)' => r \in Listed(k) \/ rule[r] = "armed",
             r \in Marked(k)' => r \in Marked(k)
      PROVE  /\ rule'[r] = "none" => arms'[r] = 0
             /\ fireCount'[r] + Cardinality(Firing(r)') <= Budget(arms'[r])
             /\ rule'[r] = "armed" => fireCount'[r] + Cardinality(Runs) <= Budget(arms'[r])
             /\ told'[r] <= fireCount'[r]
             /\ rule'[r] # "gone" => told'[r] + Cardinality(Telling(r)') <= fireCount'[r]
  <2>1. /\ rule[r] = "none" => arms[r] = 0
        /\ fireCount[r] + Cardinality(Firing(r)) <= Budget(arms[r])
        /\ rule[r] = "armed" => fireCount[r] + Cardinality(Runs) <= Budget(arms[r])
        /\ told[r] <= fireCount[r]
        /\ rule[r] # "gone" => told[r] + Cardinality(Telling(r)) <= fireCount[r]
    BY DEF OnceInv, RunCountOK
  <2>2. /\ fireCount[r] \in Nat /\ arms[r] \in Nat /\ told[r] \in Nat
        /\ Firing(r) \in SUBSET Runs /\ Telling(r) \in SUBSET Runs
    BY <1>1, CountTyped
  <2>3. Telling(r)' \in SUBSET Telling(r) /\ Firing(r)' \in SUBSET Runs
    BY <1>2, <1>3 DEF Telling, Firing
  <2>4. /\ Cardinality(Telling(r)') <= Cardinality(Telling(r))
        /\ Cardinality(Telling(r)) \in Nat /\ Cardinality(Telling(r)') \in Nat
        /\ Cardinality(Firing(r)') \in Nat /\ Cardinality(Firing(r)') <= Cardinality(Runs)
        /\ Cardinality(Firing(r)) \in Nat /\ Cardinality(Runs) \in Nat /\ Budget(arms[r]) \in Nat
    BY <2>2, <2>3, RunSets, Budgets
  <2>5. CASE rule[r] = "armed"
    BY <1>3, <2>1, <2>2, <2>4, <2>5
  <2>6. CASE rule[r] # "armed"
    <3>1. Firing(r)' \in SUBSET Firing(r)
      BY <1>2, <1>3, <2>6 DEF Firing
    <3>2. Cardinality(Firing(r)') <= Cardinality(Firing(r))
      BY <2>2, <3>1, RunSets
    <3>3. QED
      BY <1>3, <2>1, <2>2, <2>4, <2>6, <3>2
  <2>7. QED
    BY <2>5, <2>6
<1>4. CASE Quiet(k)
  <2>1. ASSUME NEW r \in Rules
        PROVE  /\ UNCHANGED <<rule[r], fireCount[r], arms[r], told[r]>>
               /\ r \in Listed(k)' => r \in Listed(k) \/ rule[r] = "armed"
               /\ r \in Marked(k)' => r \in Marked(k)
    BY <1>4 DEF Quiet, table, Armed
  <2>2. QED
    BY <1>1, <1>3, <2>1 DEF RunCountOK
<1>5. ASSUME NEW q \in Rules, Marks(k, q) PROVE RunCountOK'
  <2>1. ASSUME NEW r \in Rules \ {q}
        PROVE  /\ UNCHANGED <<rule[r], fireCount[r], arms[r], told[r]>>
               /\ r \in Listed(k)' => r \in Listed(k) \/ rule[r] = "armed"
               /\ r \in Marked(k)' => r \in Marked(k)
    BY <1>1, <1>5 DEF Marks, TypeOK
  <2>2. Firing(q)' \in SUBSET (Firing(q) \ {k}) /\ k \in Firing(q) /\ k \notin Telling(q) /\ Telling(q)' = Telling(q) \union {k}
    BY <1>2, <1>5 DEF Marks, Firing, Telling
  <2>3. /\ fireCount[q] \in Nat /\ arms[q] \in Nat /\ told[q] \in Nat
        /\ rule[q] \in {"none", "armed", "off", "gone"}
        /\ Firing(q) \in SUBSET Runs /\ Telling(q) \in SUBSET Runs
    BY <1>1, CountTyped
  <2>4. Cardinality(Firing(q)') <= Cardinality(Firing(q)) - 1 /\ Cardinality(Firing(q)') \in Nat
    <3>1. Firing(q) \ {k} \in SUBSET Runs /\ Cardinality(Firing(q) \ {k}) = Cardinality(Firing(q)) - 1
      BY <2>2, <2>3, RunSets
    <3>2. QED
      BY <2>2, <2>3, <3>1, RunSets
  <2>5. Cardinality(Telling(q)') = Cardinality(Telling(q)) + 1
    BY <2>2, <2>3, RunSets
  <2>6. /\ Cardinality(Firing(q)) \in Nat /\ Cardinality(Telling(q)) \in Nat
        /\ Cardinality(Runs) \in Nat /\ Budget(arms[q]) \in Nat /\ Budget(0) = 0
    BY <2>3, RunSets, Budgets
  <2>7. /\ rule[q] = "none" => arms[q] = 0
        /\ fireCount[q] + Cardinality(Firing(q)) <= Budget(arms[q])
        /\ rule[q] = "armed" => fireCount[q] + Cardinality(Runs) <= Budget(arms[q])
        /\ told[q] <= fireCount[q]
        /\ rule[q] # "gone" => told[q] + Cardinality(Telling(q)) <= fireCount[q]
    BY DEF OnceInv, RunCountOK
  <2>8. rule[q] # "none"
    BY <2>4, <2>6, <2>7, <2>3
  <2>9. /\ rule'[q] \in {"off", "gone"} /\ (rule'[q] = "gone" <=> rule[q] = "gone")
        /\ fireCount'[q] = IF rule[q] = "gone" THEN fireCount[q] ELSE fireCount[q] + 1
        /\ UNCHANGED <<arms, told>>
    BY <1>1, <1>5, <2>3, <2>8 DEF Marks, Disarmed, Existing, TypeOK
  <2>10. /\ rule'[q] = "none" => arms'[q] = 0
         /\ fireCount'[q] + Cardinality(Firing(q)') <= Budget(arms'[q])
         /\ rule'[q] = "armed" => fireCount'[q] + Cardinality(Runs) <= Budget(arms'[q])
         /\ told'[q] <= fireCount'[q]
         /\ rule'[q] # "gone" => told'[q] + Cardinality(Telling(q)') <= fireCount'[q]
    BY <2>3, <2>4, <2>5, <2>6, <2>7, <2>9
  <2>11. QED
    BY <1>3, <2>1, <2>10 DEF RunCountOK
<1>6. ASSUME NEW q \in Rules, Tells(k, q) PROVE RunCountOK'
  <2>1. ASSUME NEW r \in Rules \ {q}
        PROVE  /\ UNCHANGED <<rule[r], fireCount[r], arms[r], told[r]>>
               /\ r \in Listed(k)' => r \in Listed(k) \/ rule[r] = "armed"
               /\ r \in Marked(k)' => r \in Marked(k)
    BY <1>1, <1>6 DEF Tells, TypeOK
  <2>2. Firing(q)' \in SUBSET Firing(q) /\ k \in Telling(q) /\ Telling(q)' = Telling(q) \ {k}
    BY <1>2, <1>6 DEF Tells, Firing, Telling
  <2>3. /\ fireCount[q] \in Nat /\ arms[q] \in Nat /\ told[q] \in Nat
        /\ Firing(q) \in SUBSET Runs /\ Telling(q) \in SUBSET Runs
    BY <1>1, CountTyped
  <2>4. Cardinality(Firing(q)') <= Cardinality(Firing(q)) /\ Cardinality(Firing(q)') \in Nat
    BY <2>2, <2>3, RunSets
  <2>5. Cardinality(Telling(q)') = Cardinality(Telling(q)) - 1
    BY <2>2, <2>3, RunSets
  <2>6. /\ Cardinality(Firing(q)) \in Nat /\ Cardinality(Telling(q)) \in Nat /\ Cardinality(Telling(q)') \in Nat
        /\ Cardinality(Runs) \in Nat /\ Budget(arms[q]) \in Nat
    <3>1. Telling(q)' \in SUBSET Runs
      BY <2>2, <2>3
    <3>2. QED
      BY <2>3, <3>1, RunSets, Budgets
  <2>7. /\ fireCount[q] + Cardinality(Firing(q)) <= Budget(arms[q])
        /\ rule[q] = "none" => arms[q] = 0
        /\ rule[q] = "armed" => fireCount[q] + Cardinality(Runs) <= Budget(arms[q])
        /\ rule[q] # "gone" => told[q] + Cardinality(Telling(q)) <= fireCount[q]
    BY DEF OnceInv, RunCountOK
  <2>8. rule[q] # "gone" /\ UNCHANGED <<rule, fireCount, arms>> /\ told'[q] = told[q] + 1
    BY <1>1, <1>6 DEF Tells, Existing, TypeOK
  <2>9. told'[q] + Cardinality(Telling(q)') <= fireCount[q] /\ told'[q] <= fireCount[q]
    BY <2>3, <2>5, <2>6, <2>7, <2>8
  <2>10. fireCount[q] + Cardinality(Firing(q)') <= Budget(arms[q])
    BY <2>3, <2>4, <2>6, <2>7
  <2>11. QED
    BY <1>3, <2>1, <2>7, <2>8, <2>9, <2>10 DEF RunCountOK
<1>7. QED
  BY <1>1, <1>4, <1>5, <1>6, RunMoves DEF OnceInv

LEMMA NoneRunning ==
  ASSUME \A k \in Runs : run[k].pc = "idle", NEW r \in Rules
  PROVE  Firing(r) = {} /\ Telling(r) = {} /\ Cardinality(Firing(r)) = 0 /\ Cardinality(Telling(r)) = 0
BY FS_EmptySet DEF Firing, Telling, Listed, Marked

LEMMA OnceInit == Init => OnceInv
<1> SUFFICES ASSUME Init PROVE OnceInv
  OBVIOUS
<1>1. \A k \in Runs : run[k].pc = "idle" /\ run[k].cur = {}
  BY DEF Init, IdleRun
<1>2. CurTodo
  BY <1>1 DEF CurTodo
<1>3. RunCountOK
  BY <1>1, NoneRunning, Budgets DEF Init, RunCountOK
<1>4. QED
  BY <1>2, <1>3, InitTypeOK DEF OnceInv

LEMMA OnceStep == OnceInv /\ [Next]_vars => OnceInv'
<1> SUFFICES ASSUME OnceInv, [Next]_vars PROVE CurTodo' /\ RunCountOK'
  BY TypeStep DEF OnceInv
<1>0. TypeOK /\ TypeOK'
  BY TypeStep DEF OnceInv
<1>1. ASSUME NEW k \in Runs, LoadSnapshot(k) \/ RunStep(k)
      PROVE  CurTodo' /\ RunCountOK'
  BY <1>1, RunCounts
<1>2. ASSUME NEW a \in Authors, CreateCount(a) \/ CreateInsert(a)
      PROVE  CurTodo' /\ RunCountOK'
  BY <1>0, <1>2, OwnerCounts DEF CreateCount, CreateInsert, TypeOK, table
<1>3. ASSUME NEW r \in Rules, Pause(r) \/ Rearm(r) \/ Delete(r)
      PROVE  CurTodo' /\ RunCountOK'
  BY <1>0, <1>3, OwnerCounts DEF Pause, Rearm, Delete, TypeOK, Existing
<1>4. CASE Crash
  <2>1. \A k \in Runs : run'[k].pc = "idle" /\ run'[k].cur = {}
    BY <1>4 DEF Crash, IdleRun
  <2>2. CurTodo'
    BY <2>1 DEF CurTodo
  <2>3. UNCHANGED <<rule, fireCount, arms, told>>
    BY <1>4 DEF Crash, table
  <2>4. ASSUME NEW r \in Rules PROVE Cardinality(Firing(r)') = 0 /\ Cardinality(Telling(r)') = 0
    <3>1. Firing(r)' = {} /\ Telling(r)' = {}
      BY <2>1 DEF Firing, Telling, Listed, Marked
    <3>2. QED
      BY <3>1, FS_EmptySet
  <2>5. ASSUME NEW r \in Rules
        PROVE  /\ fireCount[r] \in Nat /\ told[r] \in Nat /\ Budget(arms[r]) \in Nat
               /\ Cardinality(Firing(r)) \in Nat
    BY <1>0, CountTyped, RunSets, Budgets
  <2>6. RunCountOK'
    BY <2>3, <2>4, <2>5 DEF OnceInv, RunCountOK
  <2>7. QED
    BY <2>2, <2>6
<1>5. CASE UNCHANGED vars
  BY <1>5, <1>0, OwnerCounts DEF vars, table, TypeOK
<1>6. QED
  BY <1>1, <1>2, <1>3, <1>4, <1>5 DEF Next

(* However many runs race, each of them fires an arming at most once.      *)
THEOREM EachRunFiresOnce == Spec => []OncePerRun
<1>1. OnceInv => OncePerRun
  <2> SUFFICES ASSUME OnceInv, NEW r \in Rules
               PROVE  told[r] <= fireCount[r] /\ fireCount[r] <= arms[r] * Cardinality(Runs)
    BY DEF OncePerRun
  <2>1. /\ fireCount[r] \in Nat /\ Cardinality(Firing(r)) \in Nat /\ Budget(arms[r]) \in Nat
        /\ Budget(arms[r]) = arms[r] * Cardinality(Runs)
    BY CountTyped, RunSets, Budgets DEF OnceInv, Budget
  <2>2. fireCount[r] + Cardinality(Firing(r)) <= Budget(arms[r]) /\ told[r] <= fireCount[r]
    BY DEF OnceInv, RunCountOK
  <2>3. fireCount[r] <= Budget(arms[r])
    BY <2>1, <2>2
  <2>4. QED
    BY <2>1, <2>2, <2>3
<1>2. QED
  BY <1>1, OnceInit, OnceStep, PTL DEF Spec

-----------------------------------------------------------------------------
(* What a run leaves behind.                                               *)

(* What a run has still to do with the rules it listed.                    *)
PendingOf(x) == IF x.pc = "event" THEN x.todo \ x.cur ELSE x.todo

(* A run has dealt with a satisfied rule it listed, which is still on and  *)
(* under the same arming: a call for it failed, or its turn is to come.    *)
Settled(x, r, status, a) ==
  /\ x.seen[r] <= a
  /\ /\ x.pc \in {"loop", "mark", "event", "done"} /\ r \in x.snap
     /\ x.seen[r] > 0 /\ status = "armed" /\ a = x.seen[r]
     => r \in x.failed \union PendingOf(x)

(* BatchIsComplete, made inductive.                                        *)
BatchOK ==
  /\ \A r \in Rules : rule[r] = "none" => arms[r] = 0
  /\ \A k \in Runs :
       /\ run[k].pc = "done" => run[k].todo = {}
       /\ \A r \in Rules : Settled(run[k], r, rule[r], arms[r])

BatchInv == TypeOK /\ CurTodo /\ BatchOK

LEMMA BatchTyped ==
  ASSUME TypeOK
  PROVE  /\ run \in [Runs -> RunType]
         /\ \A r \in Rules : arms[r] \in Nat /\ \A k \in Runs : run[k].seen[r] \in Nat
BY DEF TypeOK, RunType

(* The owner's requests.                                                   *)
LEMMA OwnerSettles ==
  ASSUME BatchInv, UNCHANGED run, arms' \in [Rules -> Nat],
         \A r \in Rules :
           \/ rule'[r] = rule[r] /\ arms'[r] = arms[r]
           \/ rule[r] = "none" /\ rule'[r] = "armed" /\ arms'[r] = 1
           \/ rule[r] = "off" /\ rule'[r] = "armed" /\ arms'[r] = arms[r] + 1
           \/ rule[r] \in {"armed", "off"} /\ rule'[r] \in {"off", "gone"} /\ arms'[r] = arms[r]
  PROVE  BatchOK'
<1>1. \A r \in Rules : rule'[r] = "none" => arms'[r] = 0
  BY DEF BatchInv, BatchOK
<1>2. ASSUME NEW k \in Runs, NEW r \in Rules PROVE Settled(run[k], r, rule'[r], arms'[r])
  <2>1. arms[r] \in Nat /\ run[k].seen[r] \in Nat
    BY BatchTyped DEF BatchInv
  <2>2. Settled(run[k], r, rule[r], arms[r]) /\ (rule[r] = "none" => arms[r] = 0)
    BY DEF BatchInv, BatchOK
  <2>3. CASE rule[r] = "none" /\ rule'[r] = "armed" /\ arms'[r] = 1
    BY <2>1, <2>2, <2>3 DEF Settled
  <2>4. CASE rule[r] = "off" /\ rule'[r] = "armed" /\ arms'[r] = arms[r] + 1
    BY <2>1, <2>2, <2>4 DEF Settled
  <2>5. CASE arms'[r] = arms[r] /\ (rule'[r] = rule[r] \/ rule'[r] # "armed")
    BY <2>2, <2>5 DEF Settled
  <2>6. QED
    BY <2>3, <2>4, <2>5
<1>3. QED
  BY <1>1, <1>2 DEF BatchInv, BatchOK

(* A run's step arms nothing, and is harmless to the other runs.           *)
LEMMA RunSettles ==
  ASSUME BatchInv, NEW k \in Runs, NEW x \in RunType, run' = [run EXCEPT ![k] = x], UNCHANGED arms,
         \A r \in Rules : rule'[r] = rule[r] \/ (rule[r] # "none" /\ rule'[r] \notin {"none", "armed"}),
         x.pc = "done" => x.todo = {},
         \A r \in Rules : Settled(x, r, rule'[r], arms[r])
  PROVE  BatchOK'
<1>1. run'[k] = x /\ \A l \in Runs \ {k} : run'[l] = run[l]
  BY DEF BatchInv, TypeOK
<1>2. \A r \in Rules : rule'[r] = "none" => arms'[r] = 0
  BY DEF BatchInv, BatchOK
<1>3. ASSUME NEW l \in Runs \ {k}, NEW r \in Rules PROVE Settled(run[l], r, rule'[r], arms[r])
  BY DEF BatchInv, BatchOK, Settled
<1>4. QED
  BY <1>1, <1>2, <1>3 DEF BatchInv, BatchOK

LEMMA LoadSettles ==
  ASSUME BatchInv, NEW k \in Runs, LoadSnapshot(k)
  PROVE  BatchOK'
<1>1. PICK s \in SUBSET Rules : run' = [run EXCEPT ![k] = [IdleRun EXCEPT !.pc = "list", !.snap = s]]
  BY DEF LoadSnapshot
<1> DEFINE x == [IdleRun EXCEPT !.pc = "list", !.snap = s]
<1>2. x \in RunType /\ x.pc = "list" /\ x.seen = [r \in Rules |-> 0]
  BY IdleRunType DEF IdleRun, RunType
<1>3. UNCHANGED <<rule, arms>> /\ run' = [run EXCEPT ![k] = x]
  BY <1>1 DEF LoadSnapshot, table
<1> HIDE DEF x
<1>4. \A r \in Rules : Settled(x, r, rule[r], arms[r])
  BY <1>2, BatchTyped DEF BatchInv, Settled
<1>5. QED
  BY <1>2, <1>3, <1>4, RunSettles

LEMMA IdleSettles ==
  ASSUME BatchInv, NEW k \in Runs, run' = [run EXCEPT ![k] = IdleRun], UNCHANGED <<rule, arms>>
  PROVE  BatchOK'
<1>1. IdleRun \in RunType /\ IdleRun.pc = "idle" /\ IdleRun.seen = [r \in Rules |-> 0]
  BY IdleRunType DEF IdleRun
<1>2. \A r \in Rules : Settled(IdleRun, r, rule[r], arms[r])
  BY <1>1, BatchTyped DEF BatchInv, Settled
<1>3. QED
  BY <1>1, <1>2, RunSettles

LEMMA ListSettles ==
  ASSUME BatchInv, NEW k \in Runs, ListRules(k)
  PROVE  BatchOK'
<1> DEFINE x == [run[k] EXCEPT !.pc = "loop", !.todo = Armed, !.seen = ArmedNow]
<1>1. UNCHANGED <<rule, arms>> /\ (run' = [run EXCEPT ![k] = x] \/ run' = [run EXCEPT ![k] = IdleRun])
  BY DEF ListRules, table
<1>2. ArmedNow \in [Rules -> Nat] /\ Armed \in SUBSET Rules /\ run[k] \in RunType
  BY DEF BatchInv, TypeOK, Armed, ArmedNow
<1>3. x \in RunType /\ x.pc = "loop" /\ x.todo = Armed /\ x.seen = ArmedNow
  BY <1>2 DEF RunType
<1> HIDE DEF x
<1>4. \A r \in Rules : Settled(x, r, rule[r], arms[r])
  BY <1>3, BatchTyped DEF BatchInv, Settled, PendingOf, ArmedNow, Armed
<1>5. CASE run' = [run EXCEPT ![k] = x]
  BY <1>1, <1>3, <1>4, <1>5, RunSettles
<1>6. QED
  BY <1>1, <1>5, IdleSettles

(* A run whose current rule, or the one it looks at, is dropped from what  *)
(* it has to do, for a reason.                                             *)
LEMMA DropSettles ==
  ASSUME BatchInv, NEW k \in Runs, NEW q \in Rules, NEW x \in RunType,
         run' = [run EXCEPT ![k] = x], UNCHANGED <<rule, arms>>,
         run[k].pc \in {"loop", "mark", "event"}, x.pc = "loop", PendingOf(run[k]) \ {q} \subseteq x.todo,
         x.seen = run[k].seen, x.snap = run[k].snap, run[k].failed \subseteq x.failed,
         q \notin run[k].snap \/ q \in x.failed \/ q \notin PendingOf(run[k])
  PROVE  BatchOK'
<1>1. ASSUME NEW r \in Rules PROVE Settled(x, r, rule[r], arms[r])
  <2>1. Settled(run[k], r, rule[r], arms[r])
    BY DEF BatchInv, BatchOK
  <2>2. QED
    BY <2>1 DEF Settled, PendingOf
<1>2. QED
  BY <1>1, RunSettles

LEMMA SkipSettles ==
  ASSUME BatchInv, NEW k \in Runs, run[k].pc \in {"mark", "event"},
         run' = [run EXCEPT ![k] = NextRule(k)], UNCHANGED <<rule, arms>>
  PROVE  BatchOK'
<1>1. run[k] \in RunType /\ NextRule(k) \in RunType
  BY RunTyped, NextRuleTyped DEF BatchInv
<1>2. PICK q \in Rules : run[k].cur = {q}
  BY DEF BatchInv, CurTodo
<1> DEFINE x == NextRule(k)
<1>3. /\ x.pc = "loop" /\ x.todo = run[k].todo \ {q} /\ x.failed = run[k].failed \union {q}
      /\ x.seen = run[k].seen /\ x.snap = run[k].snap
  BY <1>1, <1>2 DEF NextRule, RunType
<1> HIDE DEF x
<1>4. x \in RunType /\ run' = [run EXCEPT ![k] = x]
  BY <1>1 DEF x
<1>5. QED
  BY <1>3, <1>4, DropSettles DEF PendingOf

LEMMA EvaluateSettles ==
  ASSUME BatchInv, NEW k \in Runs, NEW q \in Rules, Evaluate(k, q)
  PROVE  BatchOK'
<1> DEFINE x == [run[k] EXCEPT !.pc = "mark", !.cur = {q}]
           y == [run[k] EXCEPT !.todo = run[k].todo \ {q}]
           z == [run[k] EXCEPT !.todo = run[k].todo \ {q}, !.failed = run[k].failed \union {q}]
<1>1. /\ run[k].pc = "loop" /\ UNCHANGED <<rule, arms>> /\ run[k] \in RunType
      /\ \/ run' = [run EXCEPT ![k] = x]
         \/ run' = [run EXCEPT ![k] = y] /\ q \notin run[k].snap
         \/ run' = [run EXCEPT ![k] = z]
  BY RunTyped DEF Evaluate, table, BatchInv
<1>2. /\ x \in RunType /\ x.pc = "mark" /\ x.todo = run[k].todo /\ x.failed = run[k].failed
      /\ x.seen = run[k].seen /\ x.snap = run[k].snap
  BY <1>1 DEF RunType
<1>3. /\ y \in RunType /\ y.pc = "loop" /\ y.todo = run[k].todo \ {q} /\ y.failed = run[k].failed
      /\ y.seen = run[k].seen /\ y.snap = run[k].snap
  BY <1>1 DEF RunType
<1>4. /\ z \in RunType /\ z.pc = "loop" /\ z.todo = run[k].todo \ {q} /\ z.failed = run[k].failed \union {q}
      /\ z.seen = run[k].seen /\ z.snap = run[k].snap
  BY <1>1 DEF RunType
<1> HIDE DEF x, y, z
<1>5. ASSUME NEW r \in Rules PROVE Settled(x, r, rule[r], arms[r])
  <2>1. Settled(run[k], r, rule[r], arms[r])
    BY DEF BatchInv, BatchOK
  <2>2. QED
    BY <1>1, <1>2, <2>1 DEF Settled, PendingOf
<1>6. CASE run' = [run EXCEPT ![k] = x]
  BY <1>1, <1>2, <1>5, <1>6, RunSettles
<1>7. CASE run' = [run EXCEPT ![k] = y] /\ q \notin run[k].snap
  BY <1>1, <1>3, <1>7, DropSettles DEF PendingOf
<1>8. CASE run' = [run EXCEPT ![k] = z]
  BY <1>1, <1>4, <1>8, DropSettles DEF PendingOf
<1>9. QED
  BY <1>1, <1>6, <1>7, <1>8

LEMMA MarkSettles ==
  ASSUME BatchInv, NEW k \in Runs, MarkFired(k)
  PROVE  BatchOK'
<1>1. run[k] \in RunType /\ run[k].pc = "mark" /\ UNCHANGED arms
  BY RunTyped DEF BatchInv, MarkFired
<1>2. PICK q \in Rules : run[k].cur = {q}
  BY <1>1 DEF BatchInv, CurTodo
<1> DEFINE x == [run[k] EXCEPT !.pc = "event"]
<1>3. \/ rule' = [rule EXCEPT ![q] = Disarmed(q)] /\ run' = [run EXCEPT ![k] = x]
      \/ run' = [run EXCEPT ![k] = NextRule(k)] /\ UNCHANGED rule
  BY <1>2 DEF MarkFired
<1>4. /\ x \in RunType /\ x.pc = "event" /\ x.todo = run[k].todo /\ x.cur = {q} /\ x.failed = run[k].failed
      /\ x.seen = run[k].seen /\ x.snap = run[k].snap
  BY <1>1, <1>2 DEF RunType
<1> HIDE DEF x
<1>5. CASE rule' = [rule EXCEPT ![q] = Disarmed(q)] /\ run' = [run EXCEPT ![k] = x]
  <2>1. rule'[q] # "armed" /\ \A r \in Rules \ {q} : rule'[r] = rule[r]
    BY <1>5 DEF Disarmed, BatchInv, TypeOK
  <2>2. rule'[q] = rule[q] \/ (rule[q] # "none" /\ rule'[q] \notin {"none", "armed"})
    BY <1>5 DEF Disarmed, BatchInv, TypeOK
  <2>3. ASSUME NEW r \in Rules PROVE Settled(x, r, rule'[r], arms[r])
    <3>1. Settled(run[k], r, rule[r], arms[r])
      BY DEF BatchInv, BatchOK
    <3>2. QED
      BY <1>1, <1>4, <2>1, <3>1 DEF Settled, PendingOf
  <2>4. QED
    BY <1>1, <1>4, <1>5, <2>1, <2>2, <2>3, RunSettles
<1>6. CASE run' = [run EXCEPT ![k] = NextRule(k)] /\ UNCHANGED rule
  BY <1>1, <1>6, SkipSettles
<1>7. QED
  BY <1>3, <1>5, <1>6

LEMMA EventSettles ==
  ASSUME BatchInv, NEW k \in Runs, CreateEvent(k)
  PROVE  BatchOK'
<1>1. run[k] \in RunType /\ run[k].pc = "event" /\ UNCHANGED <<rule, arms>>
  BY RunTyped DEF BatchInv, CreateEvent
<1>2. PICK q \in Rules : run[k].cur = {q}
  BY <1>1 DEF BatchInv, CurTodo
<1> DEFINE x == [run[k] EXCEPT !.pc = "loop", !.cur = {}, !.todo = run[k].todo \ {q}]
<1>3. run' = [run EXCEPT ![k] = x] \/ run' = [run EXCEPT ![k] = NextRule(k)]
  BY <1>2 DEF CreateEvent
<1>4. /\ x \in RunType /\ x.pc = "loop" /\ x.todo = run[k].todo \ {q} /\ x.failed = run[k].failed
      /\ x.seen = run[k].seen /\ x.snap = run[k].snap
  BY <1>1 DEF RunType
<1> HIDE DEF x
<1>5. CASE run' = [run EXCEPT ![k] = x]
  BY <1>1, <1>2, <1>4, <1>5, DropSettles DEF PendingOf
<1>6. QED
  BY <1>1, <1>3, <1>5, SkipSettles

LEMMA FinishSettles ==
  ASSUME BatchInv, NEW k \in Runs, Finish(k)
  PROVE  BatchOK'
<1> DEFINE x == [run[k] EXCEPT !.pc = "done"]
<1>1. /\ run' = [run EXCEPT ![k] = x] /\ run[k].pc = "loop" /\ run[k].todo = {} /\ UNCHANGED <<rule, arms>>
      /\ run[k] \in RunType
  BY RunTyped DEF Finish, table, BatchInv
<1>2. /\ x \in RunType /\ x.pc = "done" /\ x.todo = run[k].todo /\ x.failed = run[k].failed
      /\ x.seen = run[k].seen /\ x.snap = run[k].snap
  BY <1>1 DEF RunType
<1> HIDE DEF x
<1>3. ASSUME NEW r \in Rules PROVE Settled(x, r, rule[r], arms[r])
  <2>1. Settled(run[k], r, rule[r], arms[r])
    BY DEF BatchInv, BatchOK
  <2>2. QED
    BY <1>1, <1>2, <2>1 DEF Settled, PendingOf
<1>4. QED
  BY <1>1, <1>2, <1>3, RunSettles

LEMMA BatchStep == BatchInv /\ [Next]_vars => BatchInv'
<1> SUFFICES ASSUME BatchInv, [Next]_vars PROVE CurTodo' /\ BatchOK'
  BY TypeStep DEF BatchInv
<1>0. TypeOK /\ TypeOK' /\ CurTodo
  BY TypeStep DEF BatchInv
<1>1. ASSUME NEW k \in Runs, LoadSnapshot(k) \/ RunStep(k)
      PROVE  CurTodo' /\ BatchOK'
  <2>1. ASSUME Return(k) \/ Cancel(k) PROVE BatchOK'
    <3>1. run' = [run EXCEPT ![k] = IdleRun] /\ UNCHANGED <<rule, arms>>
      BY <2>1 DEF Return, Cancel, table
    <3>2. QED
      BY <3>1, IdleSettles
  <2>2. QED
    BY <1>0, <1>1, <2>1, RunMoves, LoadSettles, ListSettles, EvaluateSettles, MarkSettles, EventSettles, FinishSettles
       DEF RunStep
<1>2. ASSUME UNCHANGED run PROVE CurTodo'
  BY <1>0, <1>2 DEF CurTodo
<1>3. ASSUME NEW a \in Authors, CreateCount(a) \/ CreateInsert(a)
      PROVE  CurTodo' /\ BatchOK'
  BY <1>0, <1>2, <1>3, OwnerSettles DEF CreateCount, CreateInsert, TypeOK, table
<1>4. ASSUME NEW r \in Rules, Pause(r) \/ Rearm(r) \/ Delete(r)
      PROVE  CurTodo' /\ BatchOK'
  BY <1>0, <1>2, <1>4, OwnerSettles DEF Pause, Rearm, Delete, TypeOK, Existing
<1>5. CASE Crash
  <2>1. \A k \in Runs : run'[k] = IdleRun /\ run'[k].pc = "idle" /\ run'[k].cur = {} /\ run'[k].seen = [r \in Rules |-> 0]
    BY <1>5 DEF Crash, IdleRun
  <2>2. CurTodo'
    BY <2>1 DEF CurTodo
  <2>3. UNCHANGED <<rule, arms>>
    BY <1>5 DEF Crash, table
  <2>4. ASSUME NEW k \in Runs, NEW r \in Rules PROVE Settled(run'[k], r, rule[r], arms[r])
    BY <1>0, <2>1, BatchTyped DEF Settled
  <2>5. QED
    BY <2>1, <2>2, <2>3, <2>4 DEF BatchInv, BatchOK
<1>6. CASE UNCHANGED vars
  BY <1>0, <1>2, <1>6, OwnerSettles DEF vars, table, TypeOK
<1>7. QED
  BY <1>1, <1>3, <1>4, <1>5, <1>6 DEF Next

LEMMA BatchInit == Init => BatchInv
<1> SUFFICES ASSUME Init PROVE BatchInv
  OBVIOUS
<1>1. \A k \in Runs : run[k].pc = "idle" /\ run[k].cur = {} /\ run[k].seen = [r \in Rules |-> 0]
  BY DEF Init, IdleRun
<1>2. CurTodo
  BY <1>1 DEF CurTodo
<1>3. BatchOK
  BY <1>1 DEF Init, BatchOK, Settled
<1>4. QED
  BY <1>2, <1>3, InitTypeOK DEF BatchInv

(* A run that ends has fired every satisfied rule it listed, unless the    *)
(* rule was armed again since or a call for that rule failed, whatever     *)
(* other runs and the owner did meanwhile.                                 *)
THEOREM BatchIsAlwaysComplete == Spec => []BatchIsComplete
<1>1. BatchInv => BatchIsComplete
  <2> SUFFICES ASSUME BatchInv, NEW k \in Runs, run[k].pc = "done", NEW r \in run[k].snap,
                      run[k].seen[r] > 0, rule[r] = "armed"
               PROVE  arms[r] > run[k].seen[r] \/ r \in run[k].failed
    BY DEF BatchIsComplete
  <2>1. r \in Rules /\ run[k].todo = {} /\ arms[r] \in Nat /\ run[k].seen[r] \in Nat
    BY BatchTyped DEF BatchInv, BatchOK, RunType, TypeOK
  <2>2. Settled(run[k], r, rule[r], arms[r])
    BY <2>1 DEF BatchInv, BatchOK
  <2>3. QED
    BY <2>1, <2>2 DEF Settled, PendingOf
<1>2. QED
  BY <1>1, BatchInit, BatchStep, PTL DEF Spec

-----------------------------------------------------------------------------
(* How far racing creations can pass the cap.                              *)

CapInv == TypeOK /\ CapUpToRace

LEMMA CapFinite ==
  /\ IsFiniteSet(Existing) /\ IsFiniteSet(Inserting)
  /\ Cardinality(Existing) \in Nat /\ Cardinality(Inserting) \in Nat
  /\ Cardinality(Inserting) <= Cardinality(Authors)
  /\ Cardinality(Authors) \in Nat \ {0}
<1>1. IsFiniteSet(Existing) /\ IsFiniteSet(Inserting) /\ IsFiniteSet(Authors) /\ Authors # {}
  BY AlertsAssumption, FS_Subset DEF Existing, Inserting
<1>2. Cardinality(Inserting) <= Cardinality(Authors)
  BY <1>1, FS_Subset DEF Inserting
<1>3. QED
  BY <1>1, <1>2, FS_CardinalityType, FS_EmptySet

(* The rules there are and the inserts on their way: neither run steps nor *)
(* the owner's edits add to them.                                          *)
LEMMA CapShrinks ==
  ASSUME CapInv, Existing' \subseteq Existing, Inserting' \subseteq Inserting
  PROVE  CapUpToRace'
<1>1. Cardinality(Existing') <= Cardinality(Existing) /\ Cardinality(Existing') \in Nat
  BY CapFinite, FS_Subset, FS_CardinalityType
<1>2. Cardinality(Inserting') <= Cardinality(Inserting) /\ Cardinality(Inserting') \in Nat
  BY CapFinite, FS_Subset, FS_CardinalityType
<1>3. QED
  BY <1>1, <1>2, CapFinite, AlertsAssumption DEF CapInv, CapUpToRace

LEMMA CapStep == CapInv /\ [Next]_vars => CapUpToRace'
<1> SUFFICES ASSUME CapInv, [Next]_vars PROVE CapUpToRace'
  OBVIOUS
<1>0. TypeOK
  BY DEF CapInv
<1>1. ASSUME NEW k \in Runs, LoadSnapshot(k) \/ RunStep(k) PROVE CapUpToRace'
  <2>1. author' = author
    BY <1>0, <1>1, RunStepTable
  <2>2. \A r \in Rules : rule'[r] = rule[r] \/ (rule[r] = "armed" /\ rule'[r] = "off")
    BY <1>0, <1>1 DEF RunStep, LoadSnapshot, ListRules, Evaluate, MarkFired, CreateEvent, Finish,
                      Return, Cancel, Disarmed, TypeOK, table
  <2>3. QED
    BY <2>1, <2>2, CapShrinks DEF Existing, Inserting
<1>2. ASSUME NEW a \in Authors, CreateCount(a) PROVE CapUpToRace'
  <2>1. Cardinality(Existing) < MaxRules /\ Existing' = Existing
    BY <1>2 DEF CreateCount, UnderCap, table, Existing
  <2>2. Cardinality(Inserting') <= Cardinality(Authors) /\ Cardinality(Inserting') \in Nat
    BY AlertsAssumption, FS_Subset, FS_CardinalityType DEF Inserting
  <2>3. QED
    BY <2>1, <2>2, CapFinite, AlertsAssumption DEF CapUpToRace
<1>3. ASSUME NEW a \in Authors, CreateInsert(a) PROVE CapUpToRace'
  <2>1. author[a] = "insert" /\ Inserting' = Inserting \ {a} /\ a \in Inserting
    BY <1>0, <1>3 DEF CreateInsert, Inserting, TypeOK
  <2>2. Cardinality(Inserting') = Cardinality(Inserting) - 1
    BY <2>1, CapFinite, FS_RemoveElement
  <2>3. CASE UNCHANGED rule
    <3>1. Existing' = Existing
      BY <2>3 DEF Existing
    <3>2. QED
      BY <2>2, <3>1, CapFinite, AlertsAssumption DEF CapInv, CapUpToRace
  <2>4. ASSUME NEW r \in Rules, rule[r] = "none", rule' = [rule EXCEPT ![r] = "armed"]
        PROVE  CapUpToRace'
    <3>1. Existing' = Existing \union {r} /\ r \notin Existing
      BY <1>0, <2>4 DEF Existing, TypeOK
    <3>2. Cardinality(Existing') = Cardinality(Existing) + 1
      BY <3>1, CapFinite, FS_AddElement
    <3>3. QED
      BY <2>2, <3>2, CapFinite, AlertsAssumption DEF CapInv, CapUpToRace
  <2>5. QED
    BY <1>3, <2>3, <2>4 DEF CreateInsert
<1>4. ASSUME NEW r \in Rules, Pause(r) \/ Rearm(r) \/ Delete(r) PROVE CapUpToRace'
  <2>1. Existing' \subseteq Existing /\ Inserting' \subseteq Inserting
    BY <1>0, <1>4 DEF Pause, Rearm, Delete, Existing, Inserting, TypeOK
  <2>2. QED
    BY <2>1, CapShrinks
<1>5. CASE Crash \/ UNCHANGED vars
  <2>1. Existing' \subseteq Existing /\ Inserting' \subseteq Inserting
    BY <1>5 DEF Crash, vars, table, Existing, Inserting
  <2>2. QED
    BY <2>1, CapShrinks
<1>6. QED
  BY <1>1, <1>2, <1>3, <1>4, <1>5 DEF Next

(* However the creations interleave with the other requests, the runs and  *)
(* restarts, the cap is passed by fewer rules than there are requests.     *)
THEOREM CapPassedOnlyByRaces == Spec => []CapUpToRace
<1>1. Init => CapUpToRace
  <2> SUFFICES ASSUME Init PROVE CapUpToRace
    OBVIOUS
  <2>1. Existing = {} /\ Inserting = {}
    BY DEF Init, Existing, Inserting
  <2>2. QED
    BY <2>1, CapFinite, FS_EmptySet, AlertsAssumption DEF CapUpToRace
<1>2. CapInv /\ [Next]_vars => CapInv'
  BY CapStep, TypeStep DEF CapInv
<1>3. QED
  BY <1>1, <1>2, InitTypeOK, PTL DEF Spec, CapInv
=============================================================================
