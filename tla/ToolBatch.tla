------------------------------ MODULE ToolBatch ------------------------------
(***************************************************************************)
(* One ToolHandler.ExecuteBatch (src/src/engine/conversation/tool_handler  *)
(* .go): the read-only calls of a model answer run in parallel, then the   *)
(* writing ones one after the other.  Each call runs its tool in a         *)
(* goroutine of its own that outlives the call when the call times out or  *)
(* is cancelled first; that goroutine delivers into a channel with room    *)
(* for one value.                                                          *)
(***************************************************************************)
EXTENDS Naturals

CONSTANT N                          \* tool_use blocks of the answer
ASSUME BatchAssumption == N \in Nat

VARIABLES
  kind,       \* kind[i]: permission class of call i's tool, or "missing"
  call,       \* call[i]: where Execute is with call i
  body,       \* body[i]: the goroutine that runs the tool
  channel,    \* channel[i]: resultCh
  status,     \* status[i]: how doExecute ended: what its error wraps
  result,     \* results[i]
  events,     \* events[i]: OnStart and OnEnd calls so far
  cancelled,  \* ctx.Err() # nil
  lateWrites  \* writing tools launched after the cancellation

vars == <<kind, call, body, channel, status, result, events, cancelled, lateWrites>>

Call   == 1 .. N
Kinds  == {"read", "write", "missing"}
Ends   == {"ok", "error", "timeout", "cancelled"}
Reads  == {i \in Call : kind[i] = "read"}
Writes == {i \in Call : kind[i] = "write"}

Set(f, i, v) == [f EXCEPT ![i] = v]

-----------------------------------------------------------------------------
(* Scheduling: all reads at once, then the writes in the order of the      *)
(* answer.                                                                 *)

ReadsDone == \A i \in Reads : result[i] # "none"
EarlierWritesDone(i) == \A j \in Writes : j < i => result[j] # "none"

\* Mutants: writes do not wait for the reads; nor for each other.
TurnBeforeReads(i) == EarlierWritesDone(i)
TurnAmongWrites(i) == ReadsDone

Turn(i) == ReadsDone /\ EarlierWritesDone(i)

Scheduled(i) == \/ kind[i] = "read"
                \/ (kind[i] = "write" /\ Turn(i) /\ ~cancelled)

\* Execute: OnStart and the pre_tool_use hook.
Start(i) ==
  /\ call[i] = "waiting" /\ Scheduled(i)
  /\ call' = Set(call, i, "started")
  /\ events' = Set(events, i, [events[i] EXCEPT !.start = @ + 1])
  /\ UNCHANGED <<kind, body, channel, status, result, cancelled, lateWrites>>

\* A writing call whose turn comes after the cancellation never executes.
Skip(i) ==
  /\ call[i] = "waiting" /\ kind[i] = "write" /\ Turn(i) /\ cancelled
  /\ call' = Set(call, i, "done")
  /\ result' = Set(result, i, "cancelled")
  /\ UNCHANGED <<kind, body, channel, status, events, cancelled, lateWrites>>

\* The permission check or a middleware refuses the call.
Refuse(i) ==
  /\ call[i] = "started"
  /\ call' = Set(call, i, "ended") /\ status' = Set(status, i, "error")
  /\ UNCHANGED <<kind, body, channel, result, events, cancelled, lateWrites>>

\* doExecute starts the goroutine and waits for its result.
Launch(i) ==
  /\ call[i] = "started"
  /\ call' = Set(call, i, "selecting") /\ body' = Set(body, i, "running")
  /\ lateWrites' = IF cancelled /\ kind[i] = "write" THEN lateWrites + 1 ELSE lateWrites
  /\ UNCHANGED <<kind, channel, status, result, events, cancelled>>

\* The tool returns, fails, or panics (recovered into an error).  A cancellation
\* or an expired deadline it reports need not be this batch's: a call on an MCP
\* session gets the error of the context its reader happens to run on.
ToolReturns(i, r) ==
  /\ body[i] = "running"
  /\ body' = Set(body, i, r)
  /\ UNCHANGED <<kind, call, channel, status, result, events, cancelled, lateWrites>>

\* The send does not block: the channel has room and one sender.
CanSend(i) == channel[i] = "empty"
Deliver(i) ==
  /\ body[i] \in Ends /\ CanSend(i)
  /\ channel' = Set(channel, i, body[i])
  /\ body' = Set(body, i, "gone")
  /\ UNCHANGED <<kind, call, status, result, events, cancelled, lateWrites>>

\* The select of doExecute: the result, the tool timeout or the cancellation.
Receive(i) ==
  /\ call[i] = "selecting" /\ channel[i] \in Ends
  /\ call' = Set(call, i, "ended")
  /\ status' = Set(status, i, channel[i])
  /\ channel' = Set(channel, i, "taken")
  /\ UNCHANGED <<kind, body, result, events, cancelled, lateWrites>>

\* Mutant: no timer in the select.
AbandonIfCancelled(i) ==
  /\ call[i] = "selecting" /\ cancelled
  /\ call' = Set(call, i, "ended")
  /\ status' = Set(status, i, "cancelled")
  /\ UNCHANGED <<kind, body, channel, result, events, cancelled, lateWrites>>

Abandon(i) ==
  /\ call[i] = "selecting"
  /\ call' = Set(call, i, "ended")
  /\ status' = Set(status, i, IF cancelled THEN "cancelled" ELSE "timeout")
  /\ UNCHANGED <<kind, body, channel, result, events, cancelled, lateWrites>>

\* classifyStatus: an error of a batch that is cancelled by now counts as
\* cancelled, any other as what it wraps.
Outcome(i) == IF status[i] # "ok" /\ cancelled THEN "cancelled" ELSE status[i]

\* The post_tool_use hook, OnEnd, and the result in its place.
End(i) ==
  /\ call[i] = "ended"
  /\ call' = Set(call, i, "done")
  /\ events' = Set(events, i, [events[i] EXCEPT !.end = @ + 1])
  /\ result' = Set(result, i, Outcome(i))
  /\ UNCHANGED <<kind, body, channel, status, cancelled, lateWrites>>

\* The user's Stop cancels the context of the batch.
Cancel ==
  /\ ~cancelled /\ \E i \in Call : result[i] = "none"
  /\ cancelled' = TRUE
  /\ UNCHANGED <<kind, call, body, channel, status, result, events, lateWrites>>

-----------------------------------------------------------------------------
\* ExecuteBatch has looked every tool up and answered the unknown ones.
Init ==
  /\ kind \in [Call -> Kinds]
  /\ call = [i \in Call |-> IF kind[i] = "missing" THEN "done" ELSE "waiting"]
  /\ result = [i \in Call |-> IF kind[i] = "missing" THEN "error" ELSE "none"]
  /\ body = [i \in Call |-> "none"]
  /\ channel = [i \in Call |-> "empty"]
  /\ status = [i \in Call |-> "ok"]
  /\ events = [i \in Call |-> [start |-> 0, end |-> 0]]
  /\ cancelled = FALSE /\ lateWrites = 0

HandlerStep(i) ==
  \/ Start(i) \/ Skip(i) \/ Refuse(i) \/ Launch(i) \/ Receive(i) \/ Abandon(i) \/ End(i)

Next ==
  \/ \E i \in Call : \/ HandlerStep(i) \/ Deliver(i)
                     \/ \E r \in Ends : ToolReturns(i, r)
  \/ Cancel

Spec == Init /\ [][Next]_vars

\* The handler's goroutines run and the tool timeout fires; nothing makes a
\* tool return.
FairSpec == Spec /\ \A i \in Call : WF_vars(HandlerStep(i)) /\ WF_vars(Deliver(i))

-----------------------------------------------------------------------------
(* Properties.                                                             *)

BatchDone == \A i \in Call : result[i] # "none"

\* Type invariant.
TypeOK ==
  /\ kind \in [Call -> Kinds]
  /\ call \in [Call -> {"waiting", "started", "selecting", "ended", "done"}]
  /\ body \in [Call -> Ends \cup {"none", "running", "gone"}]
  /\ channel \in [Call -> Ends \cup {"empty", "taken"}]
  /\ status \in [Call -> Ends]
  /\ result \in [Call -> Ends \cup {"none"}]
  /\ events \in [Call -> [start : Nat, end : Nat]]
  /\ cancelled \in BOOLEAN /\ lateWrites \in Nat

\* The front end sees each call that executes begin once and end once, in that
\* order, and none is left open when the batch returns.
EventsPaired ==
  \A i \in Call : LET e == events[i] IN
    /\ e.end <= e.start /\ e.start <= 1
    /\ result[i] # "none" => e.end = e.start

\* A writing call executes only after every reading call of the answer and every
\* writing call before it has its result.
WritesInTurn ==
  \A i \in Writes : call[i] # "waiting" =>
    \A j \in Call : (j \in Reads \/ j < i) => result[j] # "none"

\* Two writing tools run at the same time only if the first was given up: its
\* call had timed out or was cancelled, and its goroutine went on.
OverlapOnlyIfAbandoned ==
  \A i, j \in Writes :
    i < j /\ body[i] = "running" /\ body[j] # "none" => status[i] \in {"timeout", "cancelled"}

\* At most one writing tool is launched after the user's Stop: the one whose
\* check of the context came just before.
FewLateWrites == lateWrites <= 1

\* What the browser was told of call i, and what its tool has done: a value that
\* was received is known by how the call ended.
Shown(i) ==
  CASE events[i].end > 0                        -> "ended"
    [] events[i].end = 0 /\ events[i].start > 0 -> "begun"
    [] OTHER                                    -> "no"
Effect(i) ==
  CASE body[i] # "gone"                             -> body[i]
    [] body[i] = "gone" /\ channel[i] # "taken"     -> channel[i]
    [] OTHER                                        -> status[i]

\* A batch, with all that runs beside it, keeps its contract with the loop, the
\* browser and the files (BatchContract).
Contract == INSTANCE BatchContract WITH
  shown  <- [i \in Call |-> Shown(i)], effect <- [i \in Call |-> Effect(i)],
  answer <- result, stopped <- cancelled, overran <- lateWrites > 0
KeepsBatchContract == Contract!Spec

\* A batch returns even if its tools never do, and a tool that does return never
\* leaves its goroutine stuck in the send, also when nobody waits for the result
\* any more.
BatchReturns ==
  /\ <>BatchDone
  /\ \A i \in Call : body[i] \in Ends ~> body[i] = "gone"

=============================================================================
