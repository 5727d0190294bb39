------------------------------ MODULE AgentLoop ------------------------------
(***************************************************************************)
(* The ReAct loop of one conversation (agent_loop.go and runOneLLM in      *)
(* manager.go of src/src/engine/conversation): rounds of model request and *)
(* tool batch, with the user's Stop, request errors, an exhausted context, *)
(* the round limit, and the extra requests that make sure a turn ends with *)
(* a reply.  Turns follow each other, because a turn inherits the history  *)
(* that the one before it left behind.                                     *)
(*                                                                         *)
(* What the model answers, whether the context is exhausted and when the   *)
(* user presses Stop are nondeterministic.  Compaction is left out, except *)
(* that a request refused as too long is sent once more.                   *)
(***************************************************************************)
EXTENDS Naturals, Sequences, FiniteSets

CONSTANTS
  MaxIter,     \* AgentLoopConfig.MaxIterations
  MaxUses,     \* tool_use blocks in one answer
  MaxTurns     \* turns of the conversation

ASSUME LoopAssumption == {MaxIter, MaxUses, MaxTurns} \subseteq Nat \ {0}

VARIABLES
  pc,         \* "idle" (no turn), "top", "llm", "tools"
  site,       \* the call of runOneLLM that is running
  iter,       \* iteration
  history,    \* the messages of the conversation
  saved,      \* how many of them OnHistoryChanged has announced
  cancelled,  \* ctx.Err() # nil: the user pressed Stop
  retried,    \* the running runOneLLM has used its retry
  stop,       \* the StopReason the turn ends, or has ended, with
  turns,      \* turns so far
  requests,   \* requests sent in this turn
  late,       \* iterations and tool batches begun after Stop
  cutShort    \* a runOneLLM of this turn returned Aborted

vars == <<pc, site, iter, history, saved, cancelled, retried, stop, turns,
          requests, late, cutShort>>
counters == <<turns, cutShort>>

-----------------------------------------------------------------------------
(* Messages: what is said, and the tool calls of a "use" or "result".      *)

AssistantKinds == {"reply", "use", "mark", "fallback"}
Calls == (1 .. MaxTurns) \X (1 .. MaxIter) \X (1 .. MaxUses)
Message == [kind : AssistantKinds \cup {"user", "prompt", "result"}, calls : Seq(Calls)]

Say(kind) == [kind |-> kind, calls |-> <<>>]
CallsOf(n) == [i \in 1 .. n |-> <<turns, iter, i>>]
Use(n)    == [kind |-> "use", calls |-> CallsOf(n)]
Result(n) == [kind |-> "result", calls |-> CallsOf(n)]

Add(msgs) == history' = history \o msgs

\* fireHistoryChanged after the append of msgs.
AddSaved(msgs) == Add(msgs) /\ saved' = Len(history) + Len(msgs)

StopReasons == {"none", "completed", "aborted", "context_overflow", "max_iterations", "error"}

-----------------------------------------------------------------------------
(* runOneLLM: the request, the stream of chunks and what it returns.       *)

\* An answer: text received or not, and the number of tool_use blocks.
Answers == [text : BOOLEAN, uses : 0 .. MaxUses]

Send(at) ==
  /\ pc' = "llm"
  /\ site' = at
  /\ retried' = FALSE
  /\ requests' = requests + 1

\* The provider refuses the request as too long; EmergencyCompact succeeds and
\* the request is sent once more.
Retry ==
  /\ pc = "llm" /\ ~retried
  /\ retried' = TRUE
  /\ requests' = requests + 1
  /\ UNCHANGED <<pc, site, iter, history, saved, cancelled, stop, late, counters>>

\* StreamChat failed, or a chunk carried an error.
Failed(at) == pc = "llm" /\ site = at /\ UNCHANGED cutShort

\* The stream ended; a Stop that comes with the last chunk may go unnoticed.
Answered(at, a) == pc = "llm" /\ site = at /\ UNCHANGED cutShort

\* ctx.Done was chosen: what has arrived so far is returned with Aborted.
Cut(at, a) == pc = "llm" /\ site = at /\ cancelled /\ cutShort' = TRUE

\* For the two callers that look only at Err and Text.
Returned(at, a) == Answered(at, a) \/ Cut(at, a)

-----------------------------------------------------------------------------
(* The loop.                                                               *)

\* handleUserInput: the prompt is in the history and saved, the loop starts.
StartTurn ==
  /\ pc = "idle" /\ turns < MaxTurns
  /\ AddSaved(<<Say("user")>>)
  /\ pc' = "top" /\ iter' = 1 /\ stop' = "none"
  /\ cancelled' = FALSE /\ requests' = 0 /\ late' = 0 /\ cutShort' = FALSE
  /\ turns' = turns + 1
  /\ UNCHANGED <<site, retried>>

\* abort_stream cancels the context of a running turn.
Stop ==
  /\ pc # "idle" /\ ~cancelled
  /\ cancelled' = TRUE
  /\ UNCHANGED <<pc, site, iter, history, saved, retried, stop, requests, late, counters>>

End(reason) == pc' = "idle" /\ stop' = reason
LateIf(begun) == late' = IF cancelled /\ begun THEN late + 1 ELSE late

\* The check of ctx at the top of an iteration.
StopSeen ==
  /\ pc = "top" /\ iter <= MaxIter /\ cancelled
  /\ End("aborted")
  /\ UNCHANGED <<site, iter, history, saved, cancelled, retried, requests, late, counters>>

\* Mutant: no check of ctx.

AskAfterStop ==
  /\ pc = "top" /\ iter <= MaxIter
  /\ Send("main")
  /\ LateIf(TRUE)
  /\ UNCHANGED <<iter, history, saved, cancelled, stop, counters>>

Ask ==
  /\ pc = "top" /\ iter <= MaxIter /\ ~cancelled
  /\ Send("main")
  /\ LateIf(TRUE)
  /\ UNCHANGED <<iter, history, saved, cancelled, stop, counters>>

\* Mutant: nothing is done when the rounds are used up.
TerminateOnOverflowOnly ==
  /\ pc = "top"
  /\ iter <= MaxIter /\ ~cancelled /\ stop' = "context_overflow"
  /\ Add(<<Say("prompt")>>)
  /\ Send("terminate")
  /\ UNCHANGED <<iter, saved, cancelled, late, counters>>

\* The context is nearly exhausted, or all iterations are used up:
\* injectTerminationPrompt adds a prompt, unannounced, and asks without tools.
Terminate ==
  /\ pc = "top"
  /\ \/ iter <= MaxIter /\ ~cancelled /\ stop' = "context_overflow"
     \/ iter > MaxIter /\ stop' = "max_iterations"
  /\ Add(<<Say("prompt")>>)
  /\ Send("terminate")
  /\ UNCHANGED <<iter, saved, cancelled, late, counters>>

\* ensureNonEmptyReply has no text yet: another prompt, another request.
EnsureReply(reason) ==
  /\ stop' = reason
  /\ Add(<<Say("prompt")>>)
  /\ Send("ensure")
  /\ UNCHANGED <<iter, saved, cancelled, late, turns>>

MainFails ==
  /\ Failed("main")
  /\ End("error")
  /\ UNCHANGED <<site, iter, history, saved, cancelled, retried, requests, late, turns>>

\* Mutant: the synthetic results are forgotten.
AbortedTurnUnpaired(n) == IF n > 0 THEN <<Use(n)>> ELSE <<Say("mark")>>

\* persistAbortedTurn: the mark, or the calls with synthetic results.
AbortedTurn(n) == IF n > 0 THEN <<Use(n), Result(n)>> ELSE <<Say("mark")>>

MainCut(a) ==
  /\ Cut("main", a)
  /\ AddSaved(AbortedTurn(a.uses))
  /\ End("aborted")
  /\ UNCHANGED <<site, iter, cancelled, retried, requests, late, turns>>

MainReplies(a) ==
  /\ Answered("main", a) /\ a.uses = 0 /\ a.text
  /\ AddSaved(<<Say("reply")>>)
  /\ End("completed")
  /\ UNCHANGED <<site, iter, cancelled, retried, requests, late, turns>>

\* Mutant: an empty answer is accepted as the end of the turn.
MainIsEmptyAccepted(a) ==
  /\ Answered("main", a) /\ a.uses = 0 /\ ~a.text
  /\ End("completed")
  /\ UNCHANGED <<site, iter, history, saved, cancelled, retried, requests, late, turns>>

MainIsEmpty(a) ==
  /\ Answered("main", a) /\ a.uses = 0 /\ ~a.text
  /\ EnsureReply("completed")

\* Mutant: the tool_use message is not announced.
MainUsesToolsUnannounced(a) ==
  /\ Answered("main", a) /\ a.uses > 0
  /\ Add(<<Use(a.uses)>>) /\ UNCHANGED saved
  /\ pc' = "tools"
  /\ LateIf(TRUE)
  /\ UNCHANGED <<site, iter, cancelled, retried, stop, requests, turns>>

MainUsesTools(a) ==
  /\ Answered("main", a) /\ a.uses > 0
  /\ AddSaved(<<Use(a.uses)>>)
  /\ pc' = "tools"
  /\ LateIf(TRUE)
  /\ UNCHANGED <<site, iter, cancelled, retried, stop, requests, turns>>

\* ExecuteBatch returns one result per call, cancelled or not.
ToolsReturn ==
  /\ pc = "tools"
  /\ AddSaved(<<Result(Len(history[Len(history)].calls))>>)
  /\ pc' = "top" /\ iter' = iter + 1
  /\ UNCHANGED <<site, cancelled, retried, stop, requests, late, counters>>

\* injectTerminationPrompt got no text: the request failed or came back empty.
TerminateIsEmpty ==
  /\ Failed("terminate") \/ \E a \in Answers : ~a.text /\ Returned("terminate", a)
  /\ EnsureReply(stop)

TerminateReplies(a) ==
  /\ Returned("terminate", a) /\ a.text
  /\ AddSaved(<<Say("reply")>>)
  /\ End(stop)
  /\ UNCHANGED <<site, iter, cancelled, retried, requests, late, turns>>

\* ensureNonEmptyReply ends with the model's text or with a fixed message.
EnsureFallsBack ==
  /\ Failed("ensure") \/ \E a \in Answers : ~a.text /\ Returned("ensure", a)
  /\ AddSaved(<<Say("fallback")>>)
  /\ End(stop)
  /\ UNCHANGED <<site, iter, cancelled, retried, requests, late, turns>>

EnsureReplies(a) ==
  /\ Returned("ensure", a) /\ a.text
  /\ AddSaved(<<Say("reply")>>)
  /\ End(stop)
  /\ UNCHANGED <<site, iter, cancelled, retried, requests, late, turns>>

-----------------------------------------------------------------------------
Init ==
  /\ pc = "idle" /\ site = "main" /\ iter = 1
  /\ history = <<>> /\ saved = 0
  /\ cancelled = FALSE /\ retried = FALSE /\ cutShort = FALSE
  /\ stop = "none" /\ turns = 0 /\ requests = 0 /\ late = 0

LoopStep ==
  \/ StopSeen \/ Ask \/ Terminate \/ Retry \/ MainFails \/ ToolsReturn
  \/ TerminateIsEmpty \/ EnsureFallsBack
  \/ \E a \in Answers : \/ MainCut(a) \/ MainReplies(a) \/ MainIsEmpty(a)
                        \/ MainUsesTools(a) \/ TerminateReplies(a) \/ EnsureReplies(a)

Next == StartTurn \/ Stop \/ LoopStep

Spec == Init /\ [][Next]_vars

\* Requests end (the provider closes its channel or errs) and tools end.
FairSpec == Spec /\ WF_vars(LoopStep)

-----------------------------------------------------------------------------
(* Properties.                                                             *)

\* Type invariant.
TypeOK ==
  /\ pc \in {"idle", "top", "llm", "tools"}
  /\ site \in {"main", "terminate", "ensure"}
  /\ iter \in 1 .. MaxIter + 1
  /\ history \in Seq(Message)
  /\ saved \in 0 .. Len(history)
  /\ cancelled \in BOOLEAN /\ retried \in BOOLEAN /\ cutShort \in BOOLEAN
  /\ stop \in StopReasons
  /\ turns \in 0 .. MaxTurns
  /\ requests \in Nat /\ late \in Nat

\* Every tool_use message is answered by the tool_result message right after it,
\* call by call, whenever a request may be sent or a turn has ended: a history
\* without this is refused by the provider for ever after.
Paired ==
  \A i \in 1 .. Len(history) :
    history[i].kind = "use" =>
      \/ i = Len(history) /\ pc = "tools"
      \/ i < Len(history) /\ history[i + 1].kind = "result"
                          /\ history[i + 1].calls = history[i].calls

\* A turn that ends by itself, at the round limit or for lack of context leaves
\* the user with a reply: the last message is the model's text or the fallback.
ReplyGiven ==
  pc = "idle" /\ stop \in {"completed", "context_overflow", "max_iterations"} =>
    history[Len(history)].kind \in {"reply", "fallback"}

\* While the loop waits for the model or for tools, and when it has ended, only
\* its own internal prompts are unannounced: a restart loses nothing that the
\* user or the model said.
OnlyPromptsUnsaved ==
  \A i \in saved + 1 .. Len(history) : pc # "idle" /\ history[i].kind = "prompt"

\* A turn sends at most two requests per round, two for the termination prompt
\* and two for the missing reply, whatever the provider answers.
RequestBudget == requests <= 2 * (MaxIter + 2)

\* After Stop at most one more iteration or tool batch begins: the tool batch of
\* an answer that was complete before the cancellation was noticed.  And what
\* the turn reports fits: aborted only after Stop, and always if Stop cut the
\* request of a round short (but not if it cut the last request of a turn, for
\* which injectTerminationPrompt and ensureNonEmptyReply report no abort).
StopHonoured ==
  /\ late <= 1
  /\ stop = "aborted" => cancelled
  /\ pc = "idle" /\ cutShort /\ site = "main" => stop = "aborted"

\* The loop keeps the contract of a turn (TurnContract) with the handler, the
\* provider and the user: neither Stop at any moment nor a request that fails, is
\* empty or is cut short lets calls go unanswered, announces a part of a message,
\* or ends a turn without a reply and without a reason.
Contract == INSTANCE TurnContract WITH
  conversation <- SubSeq(history, 1, saved), prompting <- saved < Len(history),
  pending <- IF pc = "tools" THEN history[Len(history)].calls ELSE <<>>,
  running <- pc # "idle", stopped <- cancelled, overran <- late > 0,
  outcome <- IF pc = "idle" THEN stop ELSE "none"
KeepsTurnContract == Contract!Spec

\* Every turn ends, and with a reason.
TurnEnds == pc # "idle" ~> pc = "idle" /\ stop # "none"

=============================================================================
