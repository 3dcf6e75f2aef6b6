------------------------------- MODULE Arming -------------------------------
(***************************************************************************)
(* What an alert rule promises its owner: each arming fires at most once;  *)
(* a firing disarms the rule in the same step, even when the owner has     *)
(* paused it meanwhile; and what fired is told once, or never when a call  *)
(* fails or the process restarts.  Alerts.tla implements this              *)
(* specification when evaluator runs are one at a time.                    *)
(***************************************************************************)
EXTENDS Naturals

CONSTANT Rules

VARIABLES
  state,    \* of each rule: "none", "armed", "off" or "gone"
  credit,   \* of each rule: the armings that have not fired
  due,      \* the rules that have fired and whose owners are not told yet
  events    \* of each rule: how often its owner was told

Init ==
  /\ state = [r \in Rules |-> "none"]
  /\ credit = [r \in Rules |-> 0]
  /\ due = {}
  /\ events = [r \in Rules |-> 0]

(* The owner creates a rule, which is armed, or arms it again.             *)
Arm(r) ==
  /\ state[r] \in {"none", "off"}
  /\ state' = [state EXCEPT ![r] = "armed"]
  /\ credit' = [credit EXCEPT ![r] = @ + 1]
  /\ UNCHANGED <<due, events>>

Disarm(r) ==
  /\ state[r] = "armed"
  /\ state' = [state EXCEPT ![r] = "off"]
  /\ UNCHANGED <<credit, due, events>>

(* An arming is spent, and no other is on.                                 *)
Fire(r) ==
  /\ state[r] \in {"armed", "off"} /\ credit[r] > 0 /\ r \notin due
  /\ state' = [state EXCEPT ![r] = "off"]
  /\ credit' = [credit EXCEPT ![r] = @ - 1]
  /\ due' = due \union {r}
  /\ UNCHANGED events

Tell(r) ==
  /\ r \in due
  /\ due' = due \ {r}
  /\ events' = [events EXCEPT ![r] = @ + 1]
  /\ UNCHANGED <<state, credit>>

(* A failed call or a restart: nobody is told, and nothing fires again.    *)
Lose ==
  /\ due # {} /\ due' \in SUBSET due
  /\ UNCHANGED <<state, credit, events>>

Delete(r) ==
  /\ state[r] \in {"armed", "off"}
  /\ state' = [state EXCEPT ![r] = "gone"]
  /\ due' = due \ {r}
  /\ UNCHANGED <<credit, events>>

Next == Lose \/ \E r \in Rules : Arm(r) \/ Disarm(r) \/ Fire(r) \/ Tell(r) \/ Delete(r)

Spec == Init /\ [][Next]_<<state, credit, due, events>>
=============================================================================
