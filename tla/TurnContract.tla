----------------------------- MODULE TurnContract -----------------------------
(***************************************************************************)
(* What a turn of a conversation is to those who depend on it, however the *)
(* loop gets there: to the handler that saves what is announced, to the    *)
(* provider that is sent the history again, and to the user who waits for  *)
(* a reply or presses Stop.  The conversation here is what was announced.  *)
(* It grows by whole messages of the user and the model; tool calls are    *)
(* answered before anything else is said; prompts that the loop makes up   *)
(* come out with the reply that they are for; and a turn ends with a reply *)
(* or with the reason why there is none.  AgentLoop implements it.         *)
(***************************************************************************)
EXTENDS Naturals, Sequences

VARIABLES
  conversation,  \* the messages announced so far
  prompting,     \* prompts of the loop were added and not announced
  pending,       \* the tool calls that wait for their results
  running,       \* a turn is under way
  stopped,       \* the user has stopped it, or had when it ended
  overran,       \* tool calls were begun after that
  outcome        \* how the turn ended, "none" while it runs

vars == <<conversation, prompting, pending, running, stopped, overran, outcome>>

Message(kind, calls) == [kind |-> kind, calls |-> calls]
Announce(said) == conversation' = conversation \o said

\* What a step announces.
Said == SubSeq(conversation', Len(conversation) + 1, Len(conversation'))

Init ==
  /\ conversation = <<>> /\ pending = <<>> /\ outcome = "none"
  /\ ~prompting /\ ~running /\ ~stopped /\ ~overran

Begin ==
  /\ ~running /\ running'
  /\ Announce(<<Message("user", <<>>)>>)
  /\ ~stopped' /\ ~overran' /\ outcome' = "none"
  /\ UNCHANGED <<prompting, pending>>

Stop ==
  /\ running /\ ~stopped /\ stopped'
  /\ UNCHANGED <<conversation, prompting, pending, running, overran, outcome>>

\* Calls are not begun twice after a Stop: those of an answer that was complete
\* when it was noticed are the last.
CallTools ==
  /\ running /\ pending = <<>> /\ ~prompting /\ ~overran
  /\ pending' # <<>>
  /\ Announce(<<Message("use", pending')>>)
  /\ overran' = stopped
  /\ UNCHANGED <<prompting, running, stopped, outcome>>

ToolsAnswer ==
  /\ pending # <<>> /\ pending' = <<>>
  /\ Announce(<<Message("result", pending)>>)
  /\ UNCHANGED <<prompting, running, stopped, overran, outcome>>

Prompt ==
  /\ running /\ pending = <<>> /\ prompting'
  /\ UNCHANGED <<conversation, pending, running, stopped, overran, outcome>>

Ends(reason) ==
  /\ running /\ ~running' /\ outcome' = reason
  /\ pending = <<>> /\ ~prompting'
  /\ UNCHANGED <<pending, stopped, overran>>

\* The reply, after the prompts that it took to get one.
Reply ==
  /\ \E reason \in {"completed", "context_overflow", "max_iterations"} : Ends(reason)
  /\ Said # <<>> /\ Announce(Said)
  /\ Said[Len(Said)].kind \in {"reply", "fallback"}
  /\ \A i \in 1 .. Len(Said) - 1 : Said[i].kind = "prompt"
  /\ prompting <=> Len(Said) > 1

\* Only a Stop aborts a turn: it leaves nothing, a mark, or calls that have got
\* their results.
Abort ==
  /\ stopped /\ ~prompting /\ Ends("aborted")
  /\ \/ Announce(<<>>)
     \/ Announce(<<Message("mark", <<>>)>>)
     \/ LET calls == conversation'[Len(conversation')].calls
        IN  calls # <<>> /\ Announce(<<Message("use", calls), Message("result", calls)>>)

Fail == ~prompting /\ Ends("error") /\ Announce(<<>>)

Next == Begin \/ Stop \/ CallTools \/ ToolsAnswer \/ Prompt \/ Reply \/ Abort \/ Fail

Spec == Init /\ [][Next]_vars

===============================================================================
