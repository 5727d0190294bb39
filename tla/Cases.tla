--------------------------------- MODULE Cases ---------------------------------
(***************************************************************************)
(* What the checks of sequential computations share: the state is the      *)
(* input of a computation, and a behaviour goes from no case to any case   *)
(* of a domain.                                                            *)
(***************************************************************************)
EXTENDS Integers, Sequences

VARIABLE case

NoCase == [of |-> "none"]
Is(of) == case.of = of

\* The sequences of at most n elements of a set.
UpTo(S, n) == UNION {[1 .. k -> S] : k \in 0 .. n}

\* What a history is: every message with results follows the one with the calls.
Paired(h) ==
  \A i \in DOMAIN h :
    /\ h[i].results # {} => i > 1 /\ h[i - 1].uses = h[i].results
    /\ h[i].uses # {} => i < Len(h) /\ h[i + 1].results = h[i].uses

================================================================================
