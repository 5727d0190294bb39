----------------------------- MODULE BatchContract -----------------------------
(***************************************************************************)
(* What a batch of tool calls is to the loop that gets its results, to the *)
(* browser that is shown the calls, and to the files that the tools write, *)
(* whatever goroutines, channels and timers there are.  Reading calls run  *)
(* when they like, a writing call when everything before it is answered;   *)
(* each call that begins ends once, with an answer that is so of what the  *)
(* tool did, or that says it was given up; and of the writing calls that   *)
(* a Stop finds, one at most still runs its tool.  ToolBatch implements it.*)
(***************************************************************************)
EXTENDS Naturals

CONSTANT N

Ends == {"ok", "error", "timeout", "cancelled"}

VARIABLES
  kind,     \* kind[i]: the tool of call i reads, writes or is missing
  shown,    \* shown[i]: what the browser was told of call i
  effect,   \* effect[i]: what the tool has done
  answer,   \* answer[i]: the result of call i
  stopped,  \* the user has stopped the batch
  overran   \* a writing tool was run after that

vars == <<kind, shown, effect, answer, stopped, overran>>

Call == 1 .. N

Init ==
  /\ kind \in [Call -> {"read", "write", "missing"}]
  /\ shown = [i \in Call |-> "no"] /\ effect = [i \in Call |-> "none"]
  /\ answer = [i \in Call |-> IF kind[i] = "missing" THEN "error" ELSE "none"]
  /\ ~stopped /\ ~overran

\* Everything that comes before call i has been answered: for a writing call
\* the reading calls, wherever they are, and the writing ones before it.
Turn(i) ==
  kind[i] = "write" =>
    \A j \in Call : kind[j] = "read" \/ j < i => answer[j] # "none"

Begin(i) ==
  /\ shown[i] = "no" /\ answer[i] = "none" /\ Turn(i)
  /\ kind[i] = "write" => ~stopped
  /\ shown' = [shown EXCEPT ![i] = "begun"]
  /\ UNCHANGED <<kind, effect, answer, stopped, overran>>

Run(i) ==
  /\ shown[i] = "begun" /\ effect[i] = "none"
  /\ effect' = [effect EXCEPT ![i] = "running"]
  /\ IF kind[i] = "write" /\ stopped THEN ~overran /\ overran' ELSE UNCHANGED overran
  /\ UNCHANGED <<kind, shown, answer, stopped>>

\* The tool is through, in time or long after its call was answered.  It may
\* itself report a deadline or a cancellation, of whatever it waited for.
Settle(i) ==
  /\ effect[i] = "running"
  /\ \E r \in Ends : effect' = [effect EXCEPT ![i] = r]
  /\ UNCHANGED <<kind, shown, answer, stopped, overran>>

\* An answer says what the tool did, or, of a call that was refused, that it
\* failed; only a call whose tool was run is given up.  A call is cancelled by
\* a Stop or, without one, by what its tool says.
True(i, a) ==
  CASE a = "ok"        -> effect[i] = "ok"
    [] a = "error"     -> effect[i] \in {"none", "error"}
    [] a = "timeout"   -> effect[i] # "none"
    [] a = "cancelled" -> stopped \/ effect[i] = "cancelled"

Answer(i, a) ==
  /\ shown[i] = "begun" /\ True(i, a)
  /\ shown' = [shown EXCEPT ![i] = "ended"]
  /\ answer' = [answer EXCEPT ![i] = a]
  /\ UNCHANGED <<kind, effect, stopped, overran>>

\* A writing call that a Stop finds before it begins never does.
Skip(i) ==
  /\ shown[i] = "no" /\ answer[i] = "none" /\ kind[i] = "write" /\ Turn(i) /\ stopped
  /\ answer' = [answer EXCEPT ![i] = "cancelled"]
  /\ UNCHANGED <<kind, shown, effect, stopped, overran>>

Stop ==
  /\ ~stopped /\ stopped' /\ \E i \in Call : answer[i] = "none"
  /\ UNCHANGED <<kind, shown, effect, answer, overran>>

Next ==
  \/ Stop
  \/ \E i \in Call :
       \/ Begin(i) \/ Run(i) \/ Settle(i) \/ Skip(i)
       \/ \E a \in Ends : Answer(i, a)

Spec == Init /\ [][Next]_vars

=============================================================================
