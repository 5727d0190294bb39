--------------------------- MODULE ToolBatchProofs ---------------------------
(***************************************************************************)
(* Proofs about ToolBatch, for answers with any number N of calls.         *)
(***************************************************************************)
EXTENDS ToolBatch, TLAPS

\* A new batch is well typed.
LEMMA TypeInit == Init => TypeOK
<1> SUFFICES ASSUME Init
             PROVE  TypeOK
  OBVIOUS
<1>1. kind \in [Call -> Kinds] /\ cancelled \in BOOLEAN /\ lateWrites \in Nat
  BY DEF Init
<1>2. call \in [Call -> {"waiting", "started", "selecting", "ended", "done"}]
  BY DEF Init
<1>3. result \in [Call -> Ends \cup {"none"}]
  BY DEF Init, Ends
<1>4. /\ body \in [Call -> Ends \cup {"none", "running", "gone"}]
      /\ channel \in [Call -> Ends \cup {"empty", "taken"}]
      /\ status \in [Call -> Ends]
  BY DEF Init, Ends
<1>5. events \in [Call -> [start : Nat, end : Nat]]
  BY DEF Init
<1> QED
  BY <1>1, <1>2, <1>3, <1>4, <1>5 DEF TypeOK

\* Every step keeps the types.
LEMMA TypeStep == TypeOK /\ [Next]_vars => TypeOK'
<1> SUFFICES ASSUME TypeOK, [Next]_vars
             PROVE  TypeOK'
  OBVIOUS
<1> USE DEF TypeOK, Set, Ends
<1>1. ASSUME NEW i \in Call, Start(i)
      PROVE  TypeOK'
  BY <1>1 DEF Start
<1>2. ASSUME NEW i \in Call, Skip(i)
      PROVE  TypeOK'
  BY <1>2 DEF Skip
<1>3. ASSUME NEW i \in Call, Refuse(i)
      PROVE  TypeOK'
  BY <1>3 DEF Refuse
<1>4. ASSUME NEW i \in Call, Launch(i)
      PROVE  TypeOK'
  BY <1>4 DEF Launch
<1>5. ASSUME NEW i \in Call, Receive(i)
      PROVE  TypeOK'
  BY <1>5 DEF Receive
<1>6. ASSUME NEW i \in Call, Abandon(i)
      PROVE  TypeOK'
  BY <1>6 DEF Abandon
<1>7. ASSUME NEW i \in Call, End(i)
      PROVE  TypeOK'
  BY <1>7 DEF End, Outcome
<1>8. ASSUME NEW i \in Call, Deliver(i)
      PROVE  TypeOK'
  BY <1>8 DEF Deliver, CanSend
<1>9. ASSUME NEW i \in Call, NEW r \in Ends, ToolReturns(i, r)
      PROVE  TypeOK'
  BY <1>9 DEF ToolReturns
<1>10. CASE Cancel
  BY <1>10 DEF Cancel
<1>11. CASE UNCHANGED vars
  BY <1>11 DEF vars
<1>12. QED
  BY <1>1, <1>2, <1>3, <1>4, <1>5, <1>6, <1>7, <1>8, <1>9, <1>10, <1>11
     DEF Next, HandlerStep

\* Type correctness: every status, result and event of a batch stays in the set
\* that tool_handler.go gives it.
THEOREM TypeCorrect == Spec => []TypeOK
BY TypeInit, TypeStep, PTL DEF Spec

-----------------------------------------------------------------------------
(* The inductive invariant.  None of the properties is inductive alone:    *)
(* the front end's events and the tool goroutine's state both have to be   *)
(* tied to where Execute is with the call.                                 *)

\* What Execute has done for call i when it is at call[i].
Progress(i) ==
  /\ call[i] = "waiting" =>
       events[i].start = 0 /\ events[i].end = 0 /\ result[i] = "none" /\ kind[i] # "missing"
  /\ call[i] \in {"started", "selecting", "ended"} =>
       events[i].start = 1 /\ events[i].end = 0 /\ result[i] = "none"
  /\ call[i] = "done" =>
       events[i].start = events[i].end /\ events[i].start <= 1 /\ result[i] # "none"
  /\ kind[i] = "missing" => call[i] = "done"

\* What the goroutine of call i may be doing, and that a call which ended before
\* its tool did was abandoned.
Goroutine(i) ==
  /\ call[i] \in {"waiting", "started"} => body[i] = "none"
  /\ body[i] # "gone" => channel[i] = "empty"
  /\ body[i] = "running" /\ call[i] \in {"ended", "done"} =>
       status[i] \in {"timeout", "cancelled"}

\* What bounds the writes after Stop: once one was launched, none is about to be.
NoneLeft ==
  /\ ~cancelled => lateWrites = 0
  /\ lateWrites <= 1
  /\ lateWrites = 1 => \A i \in Writes : call[i] # "started"

IInv == /\ TypeOK
        /\ \A i \in Call : Progress(i) /\ Goroutine(i)
        /\ WritesInTurn
        /\ NoneLeft

\* A new batch satisfies the invariant.
LEMMA Initially == Init => IInv
<1> SUFFICES ASSUME Init
             PROVE  IInv
  OBVIOUS
<1>1. TypeOK
  BY TypeInit
<1>2. ASSUME NEW i \in Call
      PROVE  Progress(i) /\ Goroutine(i)
  BY DEF Init, Progress, Goroutine, Kinds
<1>3. WritesInTurn
  BY DEF Init, WritesInTurn, Writes, Reads
<1>4. NoneLeft
  BY DEF Init, NoneLeft
<1> QED
  BY <1>1, <1>2, <1>3, <1>4 DEF IInv

\* A write that leaves "waiting" has its turn, and no result is ever taken back.
LEMMA TurnsKept ==
  ASSUME WritesInTurn, kind' = kind,
         \A i \in Call : kind[i] \in Kinds,
         \A i \in Call : kind[i] = "missing" => result[i] # "none",
         \A i \in Call : result[i] # "none" => result'[i] # "none",
         \A i \in Writes : call'[i] # "waiting" => call[i] # "waiting" \/ Turn(i)
  PROVE  WritesInTurn'
<1>1. Reads' = Reads /\ Writes' = Writes
  BY DEF Reads, Writes
<1>2. ASSUME NEW i \in Writes, call'[i] # "waiting", NEW j \in Call, j \in Reads \/ j < i
      PROVE  result[j] # "none"
  <2>1. CASE call[i] # "waiting"
    BY <2>1, <1>2 DEF WritesInTurn
  <2>2. CASE Turn(i)
    BY <2>2, <1>2 DEF Turn, ReadsDone, EarlierWritesDone, Reads, Writes, Kinds
  <2> QED
    BY <1>2, <2>1, <2>2
<1> QED
  BY <1>1, <1>2 DEF WritesInTurn

\* The calls' part of the invariant is kept by every step, and what TurnsKept
\* assumes of a step is so.
LEMMA CallsKept ==
  ASSUME IInv, [Next]_vars
  PROVE  /\ \A k \in Call : Progress(k)' /\ Goroutine(k)'
         /\ kind' = kind
         /\ \A k \in Call : result[k] # "none" => result'[k] # "none"
         /\ \A k \in Writes : call'[k] # "waiting" => call[k] # "waiting" \/ Turn(k)
<1> DEFINE Moved(k) == /\ Progress(k)' /\ Goroutine(k)'
                       /\ result[k] # "none" => result'[k] # "none"
                       /\ k \in Writes /\ call'[k] # "waiting" => call[k] # "waiting" \/ Turn(k)
<1>1. TypeOK /\ \A k \in Call : Progress(k) /\ Goroutine(k)
  BY DEF IInv
<1>2. kind' = kind
  BY DEF Next, HandlerStep, Start, Skip, Refuse, Launch, Receive, Abandon, End, Deliver,
         ToolReturns, Cancel, vars
<1>3. \A k \in Call : Moved(k)
  <2> USE <1>1 DEF TypeOK, Progress, Goroutine, Set, Ends, Writes
  <2>1. ASSUME NEW i \in Call, Start(i)
        PROVE  \A k \in Call : Moved(k)
    BY <2>1 DEF Start, Scheduled
  <2>2. ASSUME NEW i \in Call, Skip(i)
        PROVE  \A k \in Call : Moved(k)
    BY <2>2 DEF Skip
  <2>3. ASSUME NEW i \in Call, Refuse(i)
        PROVE  \A k \in Call : Moved(k)
    BY <2>3 DEF Refuse
  <2>4. ASSUME NEW i \in Call, Launch(i)
        PROVE  \A k \in Call : Moved(k)
    BY <2>4 DEF Launch
  <2>5. ASSUME NEW i \in Call, Receive(i)
        PROVE  \A k \in Call : Moved(k)
    BY <2>5 DEF Receive
  <2>6. ASSUME NEW i \in Call, Abandon(i)
        PROVE  \A k \in Call : Moved(k)
    BY <2>6 DEF Abandon
  <2>7. ASSUME NEW i \in Call, End(i)
        PROVE  \A k \in Call : Moved(k)
    BY <2>7 DEF End, Outcome
  <2>8. ASSUME NEW i \in Call, Deliver(i)
        PROVE  \A k \in Call : Moved(k)
    BY <2>8 DEF Deliver, CanSend
  <2>9. ASSUME NEW i \in Call, NEW r \in Ends, ToolReturns(i, r)
        PROVE  \A k \in Call : Moved(k)
    BY <2>9 DEF ToolReturns
  <2>10. ASSUME Cancel \/ UNCHANGED vars
         PROVE  \A k \in Call : Moved(k)
    BY <2>10 DEF Cancel, vars
  <2> QED
    BY <2>1, <2>2, <2>3, <2>4, <2>5, <2>6, <2>7, <2>8, <2>9, <2>10 DEF Next, HandlerStep
<1> QED
  BY <1>2, <1>3 DEF Writes

\* A write can be launched after Stop only if it had started before, and at most
\* one had: every write before it has its result, every write after it waits.
LEMMA NoneLeftKept ==
  ASSUME IInv, [Next]_vars
  PROVE  NoneLeft'
<1>1. /\ TypeOK /\ WritesInTurn /\ NoneLeft
      /\ \A k \in Call : Progress(k)
  BY DEF IInv
<1>2. Writes' = Writes
  BY CallsKept DEF Writes
<1> USE <1>1, <1>2 DEF TypeOK, NoneLeft, Set
<1>3. ASSUME NEW i \in Writes, NEW j \in Writes, call[i] = "started", call[j] = "started"
      PROVE  i = j
  <2>1. i \in Nat /\ j \in Nat
    BY BatchAssumption DEF Writes, Call
  <2>2. i < j => result[i] # "none"
    BY <1>3 DEF WritesInTurn, Writes
  <2>3. j < i => result[j] # "none"
    BY <1>3 DEF WritesInTurn, Writes
  <2> QED
    BY <1>3, <2>1, <2>2, <2>3 DEF Progress, Writes
<1>4. ASSUME NEW i \in Call, Launch(i)
      PROVE  NoneLeft'
  BY <1>3, <1>4 DEF Launch, Writes
<1>5. ASSUME NEW i \in Call, Start(i)
      PROVE  NoneLeft'
  BY <1>5 DEF Start, Scheduled, Writes
<1>6. ASSUME NEW i \in Call,
             \/ Skip(i) \/ Refuse(i) \/ Receive(i) \/ Abandon(i) \/ End(i) \/ Deliver(i)
             \/ \E r \in Ends : ToolReturns(i, r)
      PROVE  NoneLeft'
  BY <1>6 DEF Skip, Refuse, Receive, Abandon, End, Deliver, ToolReturns, Writes
<1>7. ASSUME Cancel \/ UNCHANGED vars
      PROVE  NoneLeft'
  BY <1>7 DEF Cancel, vars
<1> QED
  BY <1>4, <1>5, <1>6, <1>7 DEF Next, HandlerStep

\* Every step keeps the invariant.
LEMMA Inductive == IInv /\ [Next]_vars => IInv'
<1> SUFFICES ASSUME IInv, [Next]_vars
             PROVE  IInv'
  OBVIOUS
<1>1. TypeOK'
  BY TypeStep DEF IInv
<1>2. WritesInTurn'
  <2>1. \A i \in Call : kind[i] \in Kinds /\ (kind[i] = "missing" => result[i] # "none")
    BY DEF IInv, TypeOK, Progress
  <2> QED
    BY <2>1, CallsKept, TurnsKept DEF IInv
<1> QED
  BY <1>1, <1>2, CallsKept, NoneLeftKept DEF IInv

\* The invariant holds in every state of a batch.
THEOREM Invariant == Spec => []IInv
BY Initially, Inductive, PTL DEF Spec

-----------------------------------------------------------------------------
(* What follows from the invariant.                                        *)

\* The front end's tool_call_start and tool_call_end events are paired, at most
\* one pair for each call, and closed when the call has its result.
THEOREM EventsArePaired == Spec => []EventsPaired
<1>1. IInv => EventsPaired
  BY DEF IInv, TypeOK, Progress, EventsPaired
<1> QED
  BY <1>1, Invariant, PTL

\* A writing call executes after all the reading calls and all the writing calls
\* before it have their results.
THEOREM WritesWaitTheirTurn == Spec => []WritesInTurn
<1>1. IInv => WritesInTurn
  BY DEF IInv
<1> QED
  BY <1>1, Invariant, PTL

\* If two writing tools run at once, ExecuteBatch had given the first one up.
THEOREM OverlapIsAbandoned == Spec => []OverlapOnlyIfAbandoned
<1>1. ASSUME IInv, NEW i \in Writes, NEW j \in Writes,
             i < j, body[i] = "running", body[j] # "none"
      PROVE  status[i] \in {"timeout", "cancelled"}
  <2>1. call[j] # "waiting"
    BY <1>1 DEF IInv, Goroutine, Writes
  <2>2. result[i] # "none"
    BY <1>1, <2>1 DEF IInv, WritesInTurn, Writes
  <2>3. call[i] = "done"
    BY <1>1, <2>2 DEF IInv, TypeOK, Progress, Writes
  <2> QED
    BY <1>1, <2>3 DEF IInv, Goroutine, Writes
<1>2. IInv => OverlapOnlyIfAbandoned
  BY <1>1 DEF OverlapOnlyIfAbandoned
<1> QED
  BY <1>2, Invariant, PTL

\* However many writing calls an answer has, Stop lets at most one more begin.
THEOREM StopLeavesOneWrite == Spec => []FewLateWrites
<1>1. IInv => FewLateWrites
  BY DEF IInv, NoneLeft, FewLateWrites
<1> QED
  BY <1>1, Invariant, PTL

-----------------------------------------------------------------------------
(* ToolBatch implements BatchContract.  What a call ends with is so of its *)
(* tool when the select decides it, and has to stay so until End hands it  *)
(* on, whatever the goroutine does meanwhile.                              *)

Truth(i) ==
  /\ call[i] = "selecting" => body[i] # "none" /\ channel[i] # "taken"
  /\ channel[i] = "taken" => body[i] = "gone"
  /\ call[i] = "ended" => Contract!True(i, Outcome(i))

\* No step but those of the tool's own goroutine changes what a tool has done.
LEMMA EffectKept ==
  ASSUME IInv, NEW i \in Call, Truth(i),
         body'[i] = body[i], channel'[i] = channel[i],
         status'[i] = status[i] \/ channel[i] # "taken"
  PROVE  Effect(i)' = Effect(i)
BY DEF Effect

\* The answers stay true.
LEMMA TruthStep ==
  ASSUME IInv, [Next]_vars, NEW k \in Call, Truth(k)
  PROVE  Truth(k)'
<1>1. /\ TypeOK /\ Progress(k) /\ Goroutine(k)
      /\ call[k] \in {"waiting", "started", "selecting", "ended", "done"}
  BY DEF IInv, TypeOK
<1> USE <1>1 DEF TypeOK, Progress, Goroutine, Truth, Contract!True, Contract!Call, Outcome, Effect, Set, Ends, Call
<1>2. ASSUME NEW i \in Call, Start(i) \/ Skip(i) \/ End(i) PROVE Truth(k)'
  BY <1>2 DEF Start, Skip, End
<1>3. ASSUME NEW i \in Call, Refuse(i) PROVE Truth(k)'
  BY <1>3 DEF Refuse
<1>4. ASSUME NEW i \in Call, Launch(i) PROVE Truth(k)'
  BY <1>4 DEF Launch
<1>5. ASSUME NEW i \in Call, Receive(i) PROVE Truth(k)'
  BY <1>5 DEF Receive
<1>6. ASSUME NEW i \in Call, Abandon(i) PROVE Truth(k)'
  BY <1>6 DEF Abandon
<1>7. ASSUME NEW i \in Call, Deliver(i) PROVE Truth(k)'
  BY <1>7 DEF Deliver, CanSend
<1>8. ASSUME NEW i \in Call, NEW r \in Ends, ToolReturns(i, r) PROVE Truth(k)'
  BY <1>8 DEF ToolReturns
<1>9. ASSUME Cancel \/ UNCHANGED vars PROVE Truth(k)'
  BY <1>9 DEF Cancel, vars
<1> QED
  BY <1>2, <1>3, <1>4, <1>5, <1>6, <1>7, <1>8, <1>9 DEF Next, HandlerStep

\* A new batch is one of the contract.
LEMMA ContractInit == Init => Contract!Init /\ \A i \in Call : Truth(i)
<1> SUFFICES ASSUME Init
             PROVE  Contract!Init /\ \A i \in Call : Truth(i)
  OBVIOUS
<1>1. \A i \in Call : Shown(i) = "no" /\ Effect(i) = "none" /\ Truth(i)
  BY DEF Init, Shown, Effect, Truth
<1> QED
  BY <1>1 DEF Init, Contract!Init, Contract!Call, Call, Kinds

\* Every step of the batch is one of the contract or none.
LEMMA ContractStep ==
  ASSUME IInv, \A i \in Call : Truth(i), [Next]_vars
  PROVE  [Contract!Next]_Contract!vars
<1> DEFINE SameShown  == \A k \in Call : Shown(k)' = Shown(k)
           SameEffect == \A k \in Call : Effect(k)' = Effect(k)
<1>1. /\ TypeOK /\ NoneLeft
      /\ \A i \in Call : Progress(i) /\ Goroutine(i)
      /\ Contract!Call = Call
  BY DEF IInv, Contract!Call, Call
<1>2. events' = events => SameShown
  BY DEF Shown
<1>3. UNCHANGED <<body, channel, status>> => SameEffect
  BY DEF Effect
<1> USE <1>1 DEF TypeOK, Set
<1>4. ASSUME NEW i \in Call, Start(i)
      PROVE  Contract!Begin(i)
  <2>1. \A k \in Call : Shown(k)' = IF k = i THEN "begun" ELSE Shown(k)
    BY <1>4 DEF Start, Shown, Progress
  <2>2. Shown(i) = "no" /\ result[i] = "none"
    BY <1>4 DEF Start, Shown, Progress
  <2>3. kind[i] = "write" => ~cancelled /\ \A j \in Call : kind[j] = "read" \/ j < i => result[j] # "none"
    BY <1>4 DEF Start, Scheduled, Turn, ReadsDone, EarlierWritesDone, Reads, Writes, Kinds, Progress
  <2>4. SameEffect
    BY <1>3, <1>4 DEF Start
  <2> QED
    BY <1>4, <2>1, <2>2, <2>3, <2>4 DEF Start, Contract!Begin, Contract!Turn
<1>5. ASSUME NEW i \in Call, Skip(i)
      PROVE  Contract!Skip(i)
  <2>1. Shown(i) = "no" /\ result[i] = "none"
    BY <1>5 DEF Skip, Shown, Progress
  <2>2. \A j \in Call : kind[j] = "read" \/ j < i => result[j] # "none"
    BY <1>5 DEF Skip, Turn, ReadsDone, EarlierWritesDone, Reads, Writes, Kinds, Progress
  <2> QED
    BY <1>2, <1>3, <1>5, <2>1, <2>2 DEF Skip, Contract!Skip, Contract!Turn
<1>6. ASSUME NEW i \in Call, Launch(i)
      PROVE  Contract!Run(i)
  <2>1. \A k \in Call : Effect(k)' = IF k = i THEN "running" ELSE Effect(k)
    BY <1>6 DEF Launch, Effect
  <2>2. Shown(i) = "begun" /\ Effect(i) = "none"
    BY <1>6 DEF Launch, Shown, Effect, Progress, Goroutine
  <2>3. cancelled /\ kind[i] = "write" => lateWrites = 0
    BY <1>6 DEF Launch, NoneLeft, Writes
  <2>4. IF kind[i] = "write" /\ cancelled THEN ~ (lateWrites > 0) /\ (lateWrites > 0)'
        ELSE (lateWrites > 0)' = (lateWrites > 0)
    BY <1>6, <2>3 DEF Launch
  <2> QED
    BY <1>2, <2>1, <2>2, <2>4, <1>6 DEF Launch, Contract!Run
<1>7. ASSUME NEW i \in Call, NEW r \in Ends, ToolReturns(i, r)
      PROVE  Contract!Settle(i)
  <2>1. \A k \in Call : Effect(k)' = IF k = i THEN r ELSE Effect(k)
    BY <1>7 DEF ToolReturns, Effect, Ends
  <2>2. Effect(i) = "running"
    BY <1>7 DEF ToolReturns, Effect
  <2> QED
    BY <1>2, <1>7, <2>1, <2>2 DEF ToolReturns, Contract!Settle, Contract!Ends, Ends
<1>8. ASSUME NEW i \in Call, End(i)
      PROVE  Contract!Answer(i, Outcome(i))
  <2>1. \A k \in Call : Shown(k)' = IF k = i THEN "ended" ELSE Shown(k)
    BY <1>8 DEF End, Shown, Progress
  <2>2. Shown(i) = "begun" /\ Contract!True(i, Outcome(i))
    BY <1>8 DEF End, Shown, Progress, Truth
  <2>3. SameEffect
    BY <1>3, <1>8 DEF End
  <2> QED
    BY <1>8, <2>1, <2>2, <2>3 DEF End, Contract!Answer
<1>9. ASSUME NEW i \in Call, Refuse(i) \/ Abandon(i)
      PROVE  UNCHANGED Contract!vars
  <2>1. SameEffect
    BY <1>9, EffectKept DEF Refuse, Abandon, Truth, Goroutine
  <2> QED
    BY <1>2, <1>9, <2>1 DEF Refuse, Abandon, Contract!vars
<1>10. ASSUME NEW i \in Call, Receive(i)
      PROVE  UNCHANGED Contract!vars
  <2>1. body[i] = "gone" /\ channel[i] # "taken"
    BY <1>10 DEF Receive, Goroutine, Ends
  <2>2. SameEffect
    BY <1>10, <2>1 DEF Receive, Effect
  <2> QED
    BY <1>2, <1>10, <2>2 DEF Receive, Contract!vars
<1>11. ASSUME NEW i \in Call, Deliver(i)
      PROVE  UNCHANGED Contract!vars
  <2>1. SameEffect
    BY <1>11 DEF Deliver, Effect, Ends
  <2> QED
    BY <1>2, <1>11, <2>1 DEF Deliver, Contract!vars
<1>12. Cancel => Contract!Stop
  BY <1>2, <1>3 DEF Cancel, Contract!Stop
<1>13. UNCHANGED vars => UNCHANGED Contract!vars
  BY <1>2, <1>3 DEF vars, Contract!vars
<1>14. ASSUME NEW i \in Call, End(i)
       PROVE  \E a \in Contract!Ends : Contract!Answer(i, a)
  BY <1>8, <1>14 DEF Ends, Contract!Ends, Outcome
<1> QED
  BY <1>1, <1>4, <1>5, <1>6, <1>7, <1>9, <1>10, <1>11, <1>12, <1>13, <1>14
     DEF Next, HandlerStep, Contract!Next

\* A batch keeps its contract: calls run in their order, each that the browser saw
\* begin ends once, and its result says what its tool did or that it was given up,
\* through timeouts, Stop and tools that go on after their call (ExecuteBatch).
THEOREM BatchesKeepContract == Spec => KeepsBatchContract
<1>1. Init => IInv /\ (\A i \in Call : Truth(i)) /\ Contract!Init
  BY Initially, ContractInit
<1>2. IInv /\ (\A i \in Call : Truth(i)) /\ [Next]_vars => (\A i \in Call : Truth(i))'
  <2> SUFFICES ASSUME IInv, \A i \in Call : Truth(i), [Next]_vars
               PROVE  \A i \in Call : Truth(i)'
    BY DEF Call
  <2> QED
    BY TruthStep
<1>3. IInv /\ (\A i \in Call : Truth(i)) /\ [Next]_vars => [Contract!Next]_Contract!vars
  BY ContractStep
<1> QED
  BY <1>1, <1>2, <1>3, Invariant, PTL DEF Spec, KeepsBatchContract, Contract!Spec

=============================================================================
