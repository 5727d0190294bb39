---------------------------- MODULE TaskContract ----------------------------
(***************************************************************************)
(* What the rest of the program counts on when it hands a SubAgent task to *)
(* the manager, whoever ends the task and however its events and answers   *)
(* travel: a task ends once, its end is announced as it was, its result is *)
(* handed to the conversation at most once and never after a cancellation, *)
(* and the tool call that submitted it is answered once, with a result     *)
(* only if there is one.  SubAgentTasks implements it.                     *)
(***************************************************************************)
EXTENDS Naturals

CONSTANT Task

VARIABLES outcome,    \* how the task ended, "none" while it has not
          announced,  \* the ends that were announced of it
          fed,        \* how often its result was handed to the conversation
          answer      \* what the call that submitted it was told, or "none"

vars == <<outcome, announced, fed, answer>>

Finished == {"completed", "failed"}
Outcomes == Finished \union {"canceled"}

Init ==
  /\ outcome = [t \in Task |-> "none"]
  /\ announced = [t \in Task |-> {}]
  /\ fed = [t \in Task |-> 0]
  /\ answer = [t \in Task |-> "none"]

End(t) ==
  /\ outcome[t] = "none"
  /\ \E o \in Outcomes : outcome' = [outcome EXCEPT ![t] = o]
  /\ UNCHANGED <<announced, fed, answer>>

\* A finished task is announced and handed over in one step, a cancelled one is
\* only announced, by whoever cancelled it and by its own goroutine.
Announce(t) ==
  /\ outcome[t] \in Outcomes
  /\ outcome[t] \in Finished => fed[t] = 0
  /\ announced' = [announced EXCEPT ![t] = {outcome[t]}]
  /\ fed' = IF outcome[t] \in Finished THEN [fed EXCEPT ![t] = 1] ELSE fed
  /\ UNCHANGED <<outcome, answer>>

Answer(t) ==
  /\ answer[t] = "none"
  /\ \E a \in {"result", "background"} :
       /\ a = "result" => outcome[t] # "none"
       /\ answer' = [answer EXCEPT ![t] = a]
  /\ UNCHANGED <<outcome, announced, fed>>

Next == \E t \in Task : End(t) \/ Announce(t) \/ Answer(t)
Spec == Init /\ [][Next]_vars

=============================================================================
