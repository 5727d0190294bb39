------------------------- MODULE SubAgentTasksProofs -------------------------
(***************************************************************************)
(* Proofs about SubAgentTasks, for any tasks and any number of Stops that  *)
(* overlap.                                                                *)
(***************************************************************************)
EXTENDS SubAgentTasks, AgentRuns, WellFoundedInduction, TLAPS

\* How far the submitting call and the task's goroutine are fits the record.
Lifecycle(t) ==
  /\ submitter[t] = "idle" <=> status[t] = "none"
  /\ runner[t] = "none" <=> submitter[t] \in {"idle", "registered"}
  /\ done[t] <=> runner[t] \in {"ended", "over"}
  /\ status[t] \in {"completed", "failed"} => done[t]
  /\ done[t] => status[t] \in Terminal

\* What each place in Submit and MoveToBackground knows of the task.
Answering(t) ==
  /\ submitter[t] = "collecting" => status[t] \in Terminal
  /\ submitter[t] = "moved" => reason[t] = "timeout"
  /\ mover[t] => reason[t] = "manual" /\ status[t] # "none"
  /\ submitter[t] = "result" => done[t]
  /\ submitter[t] = "background" =>
       reason[t] # "none" \/ (ended[t] /\ status[t] \in Terminal)

\* What has been emitted of a task, and that its result is fed back only by
\* the last step of its goroutine.
Emitted(t) ==
  /\ outcomes[t] \subseteq {status[t]}
  /\ fed[t] <= 1
  /\ fed[t] = 1 => runner[t] = "over"
  /\ runner[t] = "over" =>
       \/ shown[t] = status[t]
       \/ shown[t] = "backgrounded" /\ reason[t] \in {"timeout", "manual"}

\* What a Stop has yet to do, and that it announces only what it did.
Stopping(s) ==
  /\ \A t \in ids[s] : status[t] # "none"
  /\ \A t \in owed[s] : status[t] = "canceled"
  /\ stopper[s] \in {"canceling", "over"} =>
       \A t \in known[s] : t \in ids[s] \/ status[t] \in Terminal
  /\ stopper[s] = "over" => ids[s] = {}

IInv ==
  /\ TypeOK
  /\ \A t \in Task : Lifecycle(t) /\ Answering(t) /\ Emitted(t)
  /\ \A s \in Stopper : Stopping(s)

-----------------------------------------------------------------------------
LEMMA InvariantInit == Init => IInv
<1> SUFFICES ASSUME Init
             PROVE  IInv
  OBVIOUS
<1> USE DEF Init, Active, Terminal, Reasons, Waits, Answers, Runs
<1>1. TypeOK
  BY DEF TypeOK
<1>2. ASSUME NEW t \in Task
      PROVE  Lifecycle(t) /\ Answering(t) /\ Emitted(t)
  BY <1>2 DEF Lifecycle, Answering, Emitted
<1>3. ASSUME NEW s \in Stopper
      PROVE  Stopping(s)
  BY <1>3 DEF Stopping
<1> QED
  BY <1>1, <1>2, <1>3 DEF IInv

\* Each action, on its own variables: the types, then each part.
LEMMA InvariantStep == IInv /\ [Next]_vars => IInv'
<1> SUFFICES ASSUME IInv, [Next]_vars
             PROVE  IInv'
  OBVIOUS
<1> USE DEF IInv, TypeOK, Set, Active, Terminal, Reasons, Waits, Answers, Runs
<1>1. ASSUME NEW t \in Task, NEW background \in BOOLEAN, Register(t, background)
      PROVE  IInv'
  <2>1. TypeOK'
    BY <1>1 DEF Register, Silent
  <2>2. ASSUME NEW u \in Task
        PROVE  Lifecycle(u)'
    BY <1>1 DEF Register, Silent, Lifecycle, Answering, Emitted, Stopping
  <2>3. ASSUME NEW u \in Task
        PROVE  Answering(u)'
    BY <1>1 DEF Register, Silent, Lifecycle, Answering, Emitted, Stopping
  <2>4. ASSUME NEW u \in Task
        PROVE  Emitted(u)'
    BY <1>1 DEF Register, Silent, Lifecycle, Answering, Emitted, Stopping
  <2>5. ASSUME NEW z \in Stopper
        PROVE  Stopping(z)'
    BY <1>1 DEF Register, Silent, Lifecycle, Stopping
  <2> QED
    BY <2>1, <2>2, <2>3, <2>4, <2>5
<1>2. ASSUME NEW t \in Task, MarkRunning(t)
      PROVE  IInv'
  <2>1. TypeOK'
    BY <1>2 DEF MarkRunning, Silent
  <2>2. ASSUME NEW u \in Task
        PROVE  Lifecycle(u)'
    BY <1>2 DEF MarkRunning, Silent, Lifecycle, Answering, Emitted, Stopping
  <2>3. ASSUME NEW u \in Task
        PROVE  Answering(u)'
    BY <1>2 DEF MarkRunning, Silent, Lifecycle, Answering, Emitted, Stopping
  <2>4. ASSUME NEW u \in Task
        PROVE  Emitted(u)'
    BY <1>2 DEF MarkRunning, Silent, Lifecycle, Answering, Emitted, Stopping
  <2>5. ASSUME NEW z \in Stopper
        PROVE  Stopping(z)'
    BY <1>2 DEF MarkRunning, Silent, Lifecycle, Stopping
  <2> QED
    BY <2>1, <2>2, <2>3, <2>4, <2>5
<1>3. ASSUME NEW t \in Task, EmitRunning(t)
      PROVE  IInv'
  <2>1. TypeOK'
    BY <1>3 DEF EmitRunning, Emit, Continues
  <2>2. ASSUME NEW u \in Task
        PROVE  Lifecycle(u)'
    BY <1>3 DEF EmitRunning, Emit, Continues, Lifecycle, Answering, Emitted, Stopping
  <2>3. ASSUME NEW u \in Task
        PROVE  Answering(u)'
    BY <1>3 DEF EmitRunning, Emit, Continues, Lifecycle, Answering, Emitted, Stopping
  <2>4. ASSUME NEW u \in Task
        PROVE  Emitted(u)'
    BY <1>3 DEF EmitRunning, Emit, Continues, Lifecycle, Answering, Emitted, Stopping
  <2>5. ASSUME NEW z \in Stopper
        PROVE  Stopping(z)'
    BY <1>3 DEF EmitRunning, Emit, Continues, Lifecycle, Stopping
  <2> QED
    BY <2>1, <2>2, <2>3, <2>4, <2>5
<1>4. ASSUME NEW t \in Task, EmitEnd(t)
      PROVE  IInv'
  <2>1. TypeOK'
    BY <1>4 DEF EmitEnd, Emit, Continues
  <2>2. ASSUME NEW u \in Task
        PROVE  Lifecycle(u)'
    BY <1>4 DEF EmitEnd, Emit, Continues, Lifecycle, Answering, Emitted, Stopping
  <2>3. ASSUME NEW u \in Task
        PROVE  Answering(u)'
    BY <1>4 DEF EmitEnd, Emit, Continues, Lifecycle, Answering, Emitted, Stopping
  <2>4. ASSUME NEW u \in Task
        PROVE  Emitted(u)'
    BY <1>4 DEF EmitEnd, Emit, Continues, Lifecycle, Answering, Emitted, Stopping
  <2>5. ASSUME NEW z \in Stopper
        PROVE  Stopping(z)'
    BY <1>4 DEF EmitEnd, Emit, Continues, Lifecycle, Stopping
  <2> QED
    BY <2>1, <2>2, <2>3, <2>4, <2>5
<1>5. ASSUME NEW t \in Task, NEW r \in Results, Finish(t, r)
      PROVE  IInv'
  <2>1. TypeOK'
    BY <1>5 DEF Finish, EndStatus, Results, Silent
  <2>2. ASSUME NEW u \in Task
        PROVE  Lifecycle(u)'
    BY <1>5 DEF Finish, EndStatus, Results, Silent, Lifecycle, Answering, Emitted, Stopping
  <2>3. ASSUME NEW u \in Task
        PROVE  Answering(u)'
    BY <1>5 DEF Finish, EndStatus, Results, Silent, Lifecycle, Answering, Emitted, Stopping
  <2>4. ASSUME NEW u \in Task
        PROVE  Emitted(u)'
    BY <1>5 DEF Finish, EndStatus, Results, Silent, Lifecycle, Answering, Emitted, Stopping
  <2>5. ASSUME NEW z \in Stopper
        PROVE  Stopping(z)'
    BY <1>5 DEF Finish, EndStatus, Results, Silent, Lifecycle, Stopping
  <2> QED
    BY <2>1, <2>2, <2>3, <2>4, <2>5
<1>6. ASSUME NEW t \in Task, Launch(t)
      PROVE  IInv'
  <2>1. TypeOK'
    BY <1>6 DEF Launch, Emit, Continues
  <2>2. ASSUME NEW u \in Task
        PROVE  Lifecycle(u)'
    BY <1>6 DEF Launch, Emit, Continues, Lifecycle, Answering, Emitted, Stopping
  <2>3. ASSUME NEW u \in Task
        PROVE  Answering(u)'
    BY <1>6 DEF Launch, Emit, Continues, Lifecycle, Answering, Emitted, Stopping
  <2>4. ASSUME NEW u \in Task
        PROVE  Emitted(u)'
    BY <1>6 DEF Launch, Emit, Continues, Lifecycle, Answering, Emitted, Stopping
  <2>5. ASSUME NEW z \in Stopper
        PROVE  Stopping(z)'
    BY <1>6 DEF Launch, Emit, Continues, Lifecycle, Stopping
  <2> QED
    BY <2>1, <2>2, <2>3, <2>4, <2>5
<1>7. ASSUME NEW t \in Task, WakeDone(t)
      PROVE  IInv'
  <2>1. TypeOK'
    BY <1>7 DEF WakeDone, Silent
  <2>2. ASSUME NEW u \in Task
        PROVE  Lifecycle(u)'
    BY <1>7 DEF WakeDone, Silent, Lifecycle, Answering, Emitted, Stopping
  <2>3. ASSUME NEW u \in Task
        PROVE  Answering(u)'
    BY <1>7 DEF WakeDone, Silent, Lifecycle, Answering, Emitted, Stopping
  <2>4. ASSUME NEW u \in Task
        PROVE  Emitted(u)'
    BY <1>7 DEF WakeDone, Silent, Lifecycle, Answering, Emitted, Stopping
  <2>5. ASSUME NEW z \in Stopper
        PROVE  Stopping(z)'
    BY <1>7 DEF WakeDone, Silent, Lifecycle, Stopping
  <2> QED
    BY <2>1, <2>2, <2>3, <2>4, <2>5
<1>8. ASSUME NEW t \in Task, WakeMoved(t)
      PROVE  IInv'
  <2>1. TypeOK'
    BY <1>8 DEF WakeMoved, Silent
  <2>2. ASSUME NEW u \in Task
        PROVE  Lifecycle(u)'
    BY <1>8 DEF WakeMoved, Silent, Lifecycle, Answering, Emitted, Stopping
  <2>3. ASSUME NEW u \in Task
        PROVE  Answering(u)'
    BY <1>8 DEF WakeMoved, Silent, Lifecycle, Answering, Emitted, Stopping
  <2>4. ASSUME NEW u \in Task
        PROVE  Emitted(u)'
    BY <1>8 DEF WakeMoved, Silent, Lifecycle, Answering, Emitted, Stopping
  <2>5. ASSUME NEW z \in Stopper
        PROVE  Stopping(z)'
    BY <1>8 DEF WakeMoved, Silent, Lifecycle, Stopping
  <2> QED
    BY <2>1, <2>2, <2>3, <2>4, <2>5
<1>9. ASSUME NEW t \in Task, EmitMoved(t)
      PROVE  IInv'
  <2>1. TypeOK'
    BY <1>9 DEF EmitMoved, Emit, Continues
  <2>2. ASSUME NEW u \in Task
        PROVE  Lifecycle(u)'
    BY <1>9 DEF EmitMoved, Emit, Continues, Lifecycle, Answering, Emitted, Stopping
  <2>3. ASSUME NEW u \in Task
        PROVE  Answering(u)'
    BY <1>9 DEF EmitMoved, Emit, Continues, Lifecycle, Answering, Emitted, Stopping
  <2>4. ASSUME NEW u \in Task
        PROVE  Emitted(u)'
    BY <1>9 DEF EmitMoved, Emit, Continues, Lifecycle, Answering, Emitted, Stopping
  <2>5. ASSUME NEW z \in Stopper
        PROVE  Stopping(z)'
    BY <1>9 DEF EmitMoved, Emit, Continues, Lifecycle, Stopping
  <2> QED
    BY <2>1, <2>2, <2>3, <2>4, <2>5
<1>10. ASSUME NEW t \in Task, TimerFires(t)
      PROVE  IInv'
  <2>1. TypeOK'
    BY <1>10 DEF TimerFires, Move, Silent
  <2>2. ASSUME NEW u \in Task
        PROVE  Lifecycle(u)'
    BY <1>10 DEF TimerFires, Move, Silent, Lifecycle, Answering, Emitted, Stopping
  <2>3. ASSUME NEW u \in Task
        PROVE  Answering(u)'
    BY <1>10 DEF TimerFires, Move, Silent, Lifecycle, Answering, Emitted, Stopping
  <2>4. ASSUME NEW u \in Task
        PROVE  Emitted(u)'
    BY <1>10 DEF TimerFires, Move, Silent, Lifecycle, Answering, Emitted, Stopping
  <2>5. ASSUME NEW z \in Stopper
        PROVE  Stopping(z)'
    BY <1>10 DEF TimerFires, Move, Silent, Lifecycle, Stopping
  <2> QED
    BY <2>1, <2>2, <2>3, <2>4, <2>5
<1>11. ASSUME NEW t \in Task, ContextEnds(t)
      PROVE  IInv'
  <2>1. TypeOK'
    BY <1>11 DEF ContextEnds, Move, Silent
  <2>2. ASSUME NEW u \in Task
        PROVE  Lifecycle(u)'
    BY <1>11 DEF ContextEnds, Move, Silent, Lifecycle, Answering, Emitted, Stopping
  <2>3. ASSUME NEW u \in Task
        PROVE  Answering(u)'
    BY <1>11 DEF ContextEnds, Move, Silent, Lifecycle, Answering, Emitted, Stopping
  <2>4. ASSUME NEW u \in Task
        PROVE  Emitted(u)'
    BY <1>11 DEF ContextEnds, Move, Silent, Lifecycle, Answering, Emitted, Stopping
  <2>5. ASSUME NEW z \in Stopper
        PROVE  Stopping(z)'
    BY <1>11 DEF ContextEnds, Move, Silent, Lifecycle, Stopping
  <2> QED
    BY <2>1, <2>2, <2>3, <2>4, <2>5
<1>12. ASSUME NEW t \in Task, ToolTimesOut(t)
      PROVE  IInv'
  <2>1. TypeOK'
    BY <1>12 DEF ToolTimesOut, Silent
  <2>2. ASSUME NEW u \in Task
        PROVE  Lifecycle(u)'
    BY <1>12 DEF ToolTimesOut, Silent, Lifecycle, Answering, Emitted, Stopping
  <2>3. ASSUME NEW u \in Task
        PROVE  Answering(u)'
    BY <1>12 DEF ToolTimesOut, Silent, Lifecycle, Answering, Emitted, Stopping
  <2>4. ASSUME NEW u \in Task
        PROVE  Emitted(u)'
    BY <1>12 DEF ToolTimesOut, Silent, Lifecycle, Answering, Emitted, Stopping
  <2>5. ASSUME NEW z \in Stopper
        PROVE  Stopping(z)'
    BY <1>12 DEF ToolTimesOut, Silent, Lifecycle, Stopping
  <2> QED
    BY <2>1, <2>2, <2>3, <2>4, <2>5
<1>13. ASSUME NEW t \in Task, MoveManual(t)
      PROVE  IInv'
  <2>1. TypeOK'
    BY <1>13 DEF MoveManual, Silent
  <2>2. ASSUME NEW u \in Task
        PROVE  Lifecycle(u)'
    BY <1>13 DEF MoveManual, Silent, Lifecycle, Answering, Emitted, Stopping
  <2>3. ASSUME NEW u \in Task
        PROVE  Answering(u)'
    BY <1>13 DEF MoveManual, Silent, Lifecycle, Answering, Emitted, Stopping
  <2>4. ASSUME NEW u \in Task
        PROVE  Emitted(u)'
    BY <1>13 DEF MoveManual, Silent, Lifecycle, Answering, Emitted, Stopping
  <2>5. ASSUME NEW z \in Stopper
        PROVE  Stopping(z)'
    BY <1>13 DEF MoveManual, Silent, Lifecycle, Stopping
  <2> QED
    BY <2>1, <2>2, <2>3, <2>4, <2>5
<1>14. ASSUME NEW t \in Task, EmitManual(t)
      PROVE  IInv'
  <2>1. TypeOK'
    BY <1>14 DEF EmitManual, Emit, Continues
  <2>2. ASSUME NEW u \in Task
        PROVE  Lifecycle(u)'
    BY <1>14 DEF EmitManual, Emit, Continues, Lifecycle, Answering, Emitted, Stopping
  <2>3. ASSUME NEW u \in Task
        PROVE  Answering(u)'
    BY <1>14 DEF EmitManual, Emit, Continues, Lifecycle, Answering, Emitted, Stopping
  <2>4. ASSUME NEW u \in Task
        PROVE  Emitted(u)'
    BY <1>14 DEF EmitManual, Emit, Continues, Lifecycle, Answering, Emitted, Stopping
  <2>5. ASSUME NEW z \in Stopper
        PROVE  Stopping(z)'
    BY <1>14 DEF EmitManual, Emit, Continues, Lifecycle, Stopping
  <2> QED
    BY <2>1, <2>2, <2>3, <2>4, <2>5
<1>15. ASSUME NEW s \in Stopper, Abort(s)
      PROVE  IInv'
  <2>1. TypeOK'
    BY <1>15 DEF Abort, Silent
  <2>2. ASSUME NEW u \in Task
        PROVE  Lifecycle(u)'
    BY <1>15 DEF Abort, Silent, Lifecycle, Answering, Emitted, Stopping
  <2>3. ASSUME NEW u \in Task
        PROVE  Answering(u)'
    BY <1>15 DEF Abort, Silent, Lifecycle, Answering, Emitted, Stopping
  <2>4. ASSUME NEW u \in Task
        PROVE  Emitted(u)'
    BY <1>15 DEF Abort, Silent, Lifecycle, Answering, Emitted, Stopping
  <2>5. ASSUME NEW z \in Stopper
        PROVE  Stopping(z)'
    BY <1>15 DEF Abort, Silent, Lifecycle, Stopping
  <2> QED
    BY <2>1, <2>2, <2>3, <2>4, <2>5
<1>16. ASSUME NEW s \in Stopper, ListActive(s)
      PROVE  IInv'
  <2>1. TypeOK'
    BY <1>16 DEF ListActive, Listed, Silent
  <2>2. ASSUME NEW u \in Task
        PROVE  Lifecycle(u)'
    BY <1>16 DEF ListActive, Listed, Silent, Lifecycle, Answering, Emitted, Stopping
  <2>3. ASSUME NEW u \in Task
        PROVE  Answering(u)'
    BY <1>16 DEF ListActive, Listed, Silent, Lifecycle, Answering, Emitted, Stopping
  <2>4. ASSUME NEW u \in Task
        PROVE  Emitted(u)'
    BY <1>16 DEF ListActive, Listed, Silent, Lifecycle, Answering, Emitted, Stopping
  <2>5. ASSUME NEW z \in Stopper
        PROVE  Stopping(z)'
    BY <1>16 DEF ListActive, Listed, Silent, Lifecycle, Stopping
  <2> QED
    BY <2>1, <2>2, <2>3, <2>4, <2>5
<1>17. ASSUME NEW s \in Stopper, NEW t \in Task, Cancel(s, t)
      PROVE  IInv'
  <2>1. TypeOK'
    BY <1>17 DEF Cancel, Silent
  <2>2. ASSUME NEW u \in Task
        PROVE  Lifecycle(u)'
    BY <1>17 DEF Cancel, Silent, Lifecycle, Answering, Emitted, Stopping
  <2>3. ASSUME NEW u \in Task
        PROVE  Answering(u)'
    BY <1>17 DEF Cancel, Silent, Lifecycle, Answering, Emitted, Stopping
  <2>4. ASSUME NEW u \in Task
        PROVE  Emitted(u)'
    BY <1>17 DEF Cancel, Silent, Lifecycle, Answering, Emitted, Stopping
  <2>5. ASSUME NEW z \in Stopper
        PROVE  Stopping(z)'
    BY <1>17 DEF Cancel, Silent, Lifecycle, Stopping
  <2> QED
    BY <2>1, <2>2, <2>3, <2>4, <2>5
<1>18. ASSUME NEW s \in Stopper, NEW t \in Task, EmitCanceled(s, t)
      PROVE  IInv'
  <2>1. TypeOK'
    BY <1>18 DEF EmitCanceled, Emit, Continues
  <2>2. ASSUME NEW u \in Task
        PROVE  Lifecycle(u)'
    BY <1>18 DEF EmitCanceled, Emit, Continues, Lifecycle, Answering, Emitted, Stopping
  <2>3. ASSUME NEW u \in Task
        PROVE  Answering(u)'
    BY <1>18 DEF EmitCanceled, Emit, Continues, Lifecycle, Answering, Emitted, Stopping
  <2>4. ASSUME NEW u \in Task
        PROVE  Emitted(u)'
    BY <1>18 DEF EmitCanceled, Emit, Continues, Lifecycle, Answering, Emitted, Stopping
  <2>5. ASSUME NEW z \in Stopper
        PROVE  Stopping(z)'
    BY <1>18 DEF EmitCanceled, Emit, Continues, Lifecycle, Stopping
  <2> QED
    BY <2>1, <2>2, <2>3, <2>4, <2>5
<1>19. ASSUME NEW s \in Stopper, StopReturns(s)
      PROVE  IInv'
  <2>1. TypeOK'
    BY <1>19 DEF StopReturns, Silent
  <2>2. ASSUME NEW u \in Task
        PROVE  Lifecycle(u)'
    BY <1>19 DEF StopReturns, Silent, Lifecycle, Answering, Emitted, Stopping
  <2>3. ASSUME NEW u \in Task
        PROVE  Answering(u)'
    BY <1>19 DEF StopReturns, Silent, Lifecycle, Answering, Emitted, Stopping
  <2>4. ASSUME NEW u \in Task
        PROVE  Emitted(u)'
    BY <1>19 DEF StopReturns, Silent, Lifecycle, Answering, Emitted, Stopping
  <2>5. ASSUME NEW z \in Stopper
        PROVE  Stopping(z)'
    BY <1>19 DEF StopReturns, Silent, Lifecycle, Stopping
  <2> QED
    BY <2>1, <2>2, <2>3, <2>4, <2>5
<1>20. CASE UNCHANGED vars
  BY <1>20 DEF vars, Lifecycle, Answering, Emitted, Stopping
<1> QED
  BY <1>1, <1>2, <1>3, <1>4, <1>5, <1>6, <1>7, <1>8, <1>9, <1>10, <1>11, <1>12, <1>13, <1>14, <1>15, <1>16, <1>17, <1>18, <1>19, <1>20
     DEF Next, RunStep, SubmitStep, StopStep

-----------------------------------------------------------------------------
\* The inductive invariant holds: the record of a task, its goroutine, the
\* call that submitted it and every Stop agree.
THEOREM Invariant == Spec => []IInv
<1> QED
  BY InvariantInit, InvariantStep, PTL DEF Spec

\* The manager's records keep their types.
THEOREM TypeCorrect == Spec => []TypeOK
<1>1. IInv => TypeOK
  BY DEF IInv
<1> QED
  BY <1>1, Invariant, PTL

\* A task is announced to have ended in one way only, and is fed back to the
\* conversation at most once (finish, Cancel, emit, HandleSubAgentTaskEvent).
THEOREM TasksHaveOneOutcome == Spec => []OneOutcome
<1>1. IInv => OneOutcome
  BY DEF IInv, Emitted, OneOutcome
<1> QED
  BY <1>1, Invariant, PTL

\* Submit's answers are true, but for the context that ends with the task.
THEOREM AnswersAreTrue == Spec => []Answered
<1>1. IInv => Answered
  BY DEF IInv, Lifecycle, Answering, Answered
<1> QED
  BY <1>1, Invariant, PTL

\* CancelActive reaches every task it found registered, however many Stops
\* and ending tasks overlap it.
THEOREM StopReachesAll == Spec => []StopReaches
<1>1. IInv => StopReaches
  BY DEF IInv, Stopping, StopReaches
<1> QED
  BY <1>1, Invariant, PTL

\* The browser's last event of a task that is over is its end, or a move to
\* the background that overlapped it.
THEOREM LastWordIsTheEnd == Spec => []LastWord
<1>1. IInv => LastWord
  BY DEF IInv, TypeOK, Lifecycle, Emitted, LastWord
<1> QED
  BY <1>1, Invariant, PTL

-----------------------------------------------------------------------------
(* The manager implements the contract of its tasks.                       *)

\* What the callers see is untouched by a step that ends, announces and answers
\* nothing.
LEMMA Unseen ==
  ASSUME \A t \in Task : Ended(t)' = Ended(t) /\ AnswerTo(t)' = AnswerTo(t),
         UNCHANGED <<outcomes, fed>>
  PROVE  UNCHANGED Contract!vars
BY DEF Contract!vars

\* A task that has not ended ends, and nothing else is seen of the step.
LEMMA SeenToEnd ==
  ASSUME NEW t \in Task, NEW o \in Terminal,
         status \in [Task -> {"none"} \union Active \union Terminal],
         status[t] \notin Terminal, status' = Set(status, t, o),
         UNCHANGED <<outcomes, fed, submitter>>
  PROVE  Contract!Next
<1>1. /\ Ended(t) = "none" /\ Ended(t)' = o
      /\ \A u \in Task : u # t => Ended(u)' = Ended(u)
      /\ \A u \in Task : AnswerTo(u)' = AnswerTo(u)
  BY DEF Ended, AnswerTo, Set
<1>2. Contract!End(t)
  BY <1>1 DEF Contract!End, Contract!Outcomes, Contract!Finished, Terminal
<1> QED
  BY <1>2 DEF Contract!Next

\* A task that has ended is announced as it ended.
LEMMA SeenToAnnounce ==
  ASSUME NEW t \in Task, IInv, status[t] \in Terminal, Emit(t, status[t]),
         Continues(status[t]) => fed[t] = 0, UNCHANGED <<status, submitter>>
  PROVE  Contract!Next
<1>1. /\ \A u \in Task : Ended(u)' = Ended(u) /\ AnswerTo(u)' = AnswerTo(u)
      /\ Ended(t) = status[t]
  BY DEF Ended, AnswerTo
<1>2. outcomes' = [outcomes EXCEPT ![t] = {status[t]}]
  BY DEF Emit, Set, IInv, TypeOK, Emitted
<1>3. fed' = IF status[t] \in {"completed", "failed"} THEN [fed EXCEPT ![t] = 1] ELSE fed
  <2>1. CASE Continues(status[t])
    <3>1. fed[t] + 1 = 1
      BY <2>1
    <3> QED
      BY <2>1, <3>1 DEF Emit, Set, Continues
  <2>2. CASE ~ Continues(status[t])
    BY <2>2 DEF Emit, Continues
  <2> QED
    BY <2>1, <2>2
<1>4. Contract!Announce(t)
  BY <1>1, <1>2, <1>3 DEF Contract!Announce, Contract!Outcomes, Contract!Finished, Terminal, Continues
<1> QED
  BY <1>4 DEF Contract!Next

\* The call that submitted a task gets its answer.
LEMMA SeenToAnswer ==
  ASSUME NEW t \in Task, NEW a \in Answers, IInv, submitter[t] \notin Answers,
         submitter' = Set(submitter, t, a), a = "result" => status[t] \in Terminal,
         UNCHANGED <<status, outcomes, fed>>
  PROVE  Contract!Next
<1>1. /\ AnswerTo(t) = "none" /\ AnswerTo(t)' = a
      /\ \A u \in Task : u # t => AnswerTo(u)' = AnswerTo(u)
      /\ \A u \in Task : Ended(u)' = Ended(u)
      /\ a = "result" => Ended(t) # "none"
  BY DEF AnswerTo, Ended, Set, IInv, TypeOK, Terminal
<1>2. Contract!Answer(t)
  BY <1>1 DEF Contract!Answer, Answers
<1> QED
  BY <1>2 DEF Contract!Next

\* No task has ended, been announced or answered before it exists.
LEMMA ContractInit == Init => Contract!Init
BY DEF Init, Contract!Init, Ended, AnswerTo, Terminal, Answers

\* Every step of the manager is a step of the contract or not seen by it.
LEMMA ContractStep == IInv /\ [Next]_vars => [Contract!Next]_Contract!vars
<1> SUFFICES ASSUME IInv, [Next]_vars
             PROVE  Contract!Next \/ UNCHANGED Contract!vars
  OBVIOUS
<1> USE DEF IInv, TypeOK
<1>1. ASSUME NEW t \in Task, NEW background \in BOOLEAN, Register(t, background)
      PROVE  UNCHANGED Contract!vars
  BY <1>1, Unseen DEF Register, Silent, Set, Ended, AnswerTo, Lifecycle, Active, Terminal, Answers
<1>2. ASSUME NEW t \in Task, MarkRunning(t)
      PROVE  UNCHANGED Contract!vars
  BY <1>2, Unseen DEF MarkRunning, Silent, Set, Ended, AnswerTo, Terminal
<1>3. ASSUME NEW t \in Task, EmitRunning(t) \/ EmitManual(t)
      PROVE  UNCHANGED Contract!vars
  <2>1. UNCHANGED <<status, submitter, fed>>
    BY <1>3 DEF EmitRunning, EmitManual, Emit, Continues
  <2>2. outcomes' = outcomes
    BY <1>3 DEF EmitRunning, EmitManual, Emit, Set, Terminal
  <2> QED
    BY <2>1, <2>2, Unseen DEF Ended, AnswerTo
<1>4. ASSUME NEW t \in Task, EmitEnd(t)
      PROVE  Contract!Next
  <2>1. status[t] \in Terminal /\ (Continues(status[t]) => fed[t] = 0)
    BY <1>4 DEF EmitEnd, Lifecycle, Emitted
  <2> QED
    BY <1>4, <2>1, SeenToAnnounce DEF EmitEnd
<1>5. ASSUME NEW t \in Task, NEW r \in Results, Finish(t, r)
      PROVE  Contract!Next \/ UNCHANGED Contract!vars
  <2>1. CASE status[t] \in Terminal
    <3>1. status[t] = "canceled" /\ status' = status
      BY <1>5, <2>1 DEF Finish, EndStatus, Set, Lifecycle, Terminal
    <3> QED
      BY <1>5, <3>1, Unseen DEF Finish, Silent, Ended, AnswerTo
  <2>2. CASE status[t] \notin Terminal
    <3>1. EndStatus(t, r) \in Terminal
      BY DEF EndStatus, Results, Terminal
    <3> QED
      BY <1>5, <2>2, <3>1, SeenToEnd DEF Finish, Silent
  <2> QED
    BY <2>1, <2>2
<1>6. ASSUME NEW t \in Task, Launch(t)
      PROVE  Contract!Next \/ UNCHANGED Contract!vars
  <2>1. UNCHANGED <<status, fed, outcomes>>
    BY <1>6 DEF Launch, Emit, Continues, Set, Terminal
  <2>2. CASE reason[t] = "explicit"
    BY <1>6, <2>1, <2>2, SeenToAnswer DEF Launch, Answers
  <2>3. CASE reason[t] # "explicit"
    BY <1>6, <2>1, <2>3, Unseen DEF Launch, Set, Ended, AnswerTo, Answers
  <2> QED
    BY <2>2, <2>3
<1>7. ASSUME NEW t \in Task, WakeDone(t) \/ WakeMoved(t)
      PROVE  Contract!Next
  BY <1>7, SeenToAnswer DEF WakeDone, WakeMoved, Silent, Answers, Lifecycle
<1>8. ASSUME NEW t \in Task, EmitMoved(t)
      PROVE  Contract!Next
  <2>1. UNCHANGED <<status, fed, outcomes>>
    BY <1>8 DEF EmitMoved, Emit, Continues, Set, Terminal
  <2> QED
    BY <1>8, <2>1, SeenToAnswer DEF EmitMoved, Answers
<1>9. ASSUME NEW t \in Task, TimerFires(t) \/ ContextEnds(t)
      PROVE  Contract!Next \/ UNCHANGED Contract!vars
  <2>1. PICK late \in {"collecting", "background"} : submitter[t] = "waiting" /\ Move(t, late)
    BY <1>9 DEF TimerFires, ContextEnds
  <2>2. PICK next \in {"moved", "collecting", "background"} : submitter' = Set(submitter, t, next)
    BY <2>1 DEF Move
  <2>3. UNCHANGED <<status, outcomes, fed>>
    BY <2>1 DEF Move, Silent
  <2>4. CASE next = "background"
    BY <2>1, <2>2, <2>3, <2>4, SeenToAnswer DEF Answers
  <2>5. CASE next # "background"
    BY <2>1, <2>2, <2>3, <2>5, Unseen DEF Set, Ended, AnswerTo, Answers
  <2> QED
    BY <2>4, <2>5
<1>10. ASSUME NEW t \in Task, ToolTimesOut(t) \/ MoveManual(t)
       PROVE  UNCHANGED Contract!vars
  BY <1>10, Unseen DEF ToolTimesOut, MoveManual, Silent, Ended, AnswerTo
<1>11. ASSUME NEW s \in Stopper, Abort(s) \/ ListActive(s) \/ StopReturns(s)
       PROVE  UNCHANGED Contract!vars
  BY <1>11, Unseen DEF Abort, ListActive, StopReturns, Silent, Ended, AnswerTo
<1>12. ASSUME NEW s \in Stopper, NEW t \in Task, Cancel(s, t)
       PROVE  Contract!Next \/ UNCHANGED Contract!vars
  <2>1. CASE status[t] \in Terminal
    BY <1>12, <2>1, Unseen DEF Cancel, Silent, Ended, AnswerTo
  <2>2. CASE status[t] \notin Terminal
    <3>1. "canceled" \in Terminal
      BY DEF Terminal
    <3> QED
      BY <1>12, <2>2, <3>1, SeenToEnd DEF Cancel, Silent
  <2> QED
    BY <2>1, <2>2
<1>13. ASSUME NEW s \in Stopper, NEW t \in Task, EmitCanceled(s, t)
       PROVE  Contract!Next
  <2>1. status[t] = "canceled"
    BY <1>13 DEF EmitCanceled, Stopping
  <2> QED
    BY <1>13, <2>1, SeenToAnnounce DEF EmitCanceled, Terminal, Continues
<1>14. CASE UNCHANGED vars
  BY <1>14, Unseen DEF vars, Ended, AnswerTo
<1> QED
  BY <1>1, <1>2, <1>3, <1>4, <1>5, <1>6, <1>7, <1>8, <1>9, <1>10, <1>11, <1>12, <1>13, <1>14
     DEF Next, RunStep, SubmitStep, StopStep

\* The manager implements TaskContract: however Stop, timeouts, moves to the
\* background and the ends of runs interleave, a task ends once, is announced as
\* it ended, is handed over once and answered once.
THEOREM ContractIsKept == Spec => KeepsContract
<1> QED
  BY ContractInit, ContractStep, Invariant, PTL DEF Spec, KeepsContract, Contract!Spec

-----------------------------------------------------------------------------
(***************************************************************************)
(* What a task runs with: the computations of Catalog for any call of the  *)
(* agent tool, any roles, tools and configuration, and any history that is *)
(* forked.                                                                 *)
(***************************************************************************)
\* A history in which the calls of every message are answered by the next.
AllAnswered(h) ==
  \A i \in DOMAIN h : Catalog!ToolUseIDs(h[i]) # {} =>
    /\ i < Len(h)
    /\ Catalog!HasResults(h[i + 1], Catalog!ToolUseIDs(h[i]))

\* The messages of a history, over any identifiers of calls.
ForkMessage(Id) == [role : {"user", "assistant"}, uses : SUBSET Id, results : SUBSET Id]

\* A set of numbers that is not empty has a least element.
LEMMA LeastExists ==
  ASSUME NEW S \in SUBSET Nat, S # {}
  PROVE  \E g \in S : \A f \in S : g <= f
<1>1. IsWellFoundedOn(OpToRel(<, Nat), Nat)
  BY NatLessThanWellFounded
<1>2. PICK x \in S : \A y \in S : <<y, x>> \notin OpToRel(<, Nat)
  BY <1>1, WFMin
<1>3. \A y \in S : ~(y < x)
  BY <1>2 DEF OpToRel
<1> QED
  BY <1>3

\* Min picks it.
LEMMA LeastOf ==
  ASSUME NEW S \in SUBSET Nat, S # {}
  PROVE  /\ Catalog!Min(S) \in S
         /\ \A n \in S : Catalog!Min(S) <= n
BY LeastExists DEF Catalog!Min

\* What a fork may leave out of its parent's history: what comes from the first
\* message on whose calls the next one does not all answer.
CutAtRunning(kept, h) ==
  /\ Len(kept) <= Len(h) /\ kept = SubSeq(h, 1, Len(kept))
  /\ kept # h =>
       /\ Catalog!ToolUseIDs(h[Len(kept) + 1]) # {}
       /\ Len(kept) + 1 < Len(h) =>
            ~ Catalog!HasResults(h[Len(kept) + 2], Catalog!ToolUseIDs(h[Len(kept) + 1]))

\* The task that is added to such a history leaves it one.
LEMMA AnsweredWithTask ==
  ASSUME NEW Id, NEW h \in Seq(ForkMessage(Id)), AllAnswered(h)
  PROVE  AllAnswered(Append(h, Catalog!TaskMessage))
<1> DEFINE g == Append(h, Catalog!TaskMessage)
<1>1. /\ Len(g) = Len(h) + 1 /\ DOMAIN g = 1 .. Len(g) /\ g[Len(g)] = Catalog!TaskMessage
      /\ \A i \in DOMAIN h : i \in 1 .. Len(h) /\ g[i] = h[i]
  OBVIOUS
<1> HIDE DEF g
<1>2. Catalog!ToolUseIDs(Catalog!TaskMessage) = {}
  BY DEF Catalog!ToolUseIDs, Catalog!TaskMessage
<1>3. ASSUME NEW i \in DOMAIN g, Catalog!ToolUseIDs(g[i]) # {}
      PROVE  i < Len(g) /\ Catalog!HasResults(g[i + 1], Catalog!ToolUseIDs(g[i]))
  <2>1. i \in DOMAIN h
    BY <1>1, <1>2, <1>3
  <2>2. i < Len(h) /\ Catalog!HasResults(h[i + 1], Catalog!ToolUseIDs(h[i]))
    BY <1>1, <1>3, <2>1 DEF AllAnswered
  <2> QED  BY <1>1, <2>1, <2>2
<1> QED  BY <1>3 DEF AllAnswered, g

(***************************************************************************)
(* A fork that is taken in the middle of a turn starts from a history that *)
(* a provider accepts, also with its task at the end, and is cut no        *)
(* earlier than at the first call that is not answered                     *)
(* (sanitizeForkHistory).                                                  *)
(***************************************************************************)
THEOREM ForksAreAnswered ==
  ASSUME NEW Id, NEW h \in Seq(ForkMessage(Id))
  PROVE  /\ Catalog!SanitizeForkHistory(h) \in Seq(ForkMessage(Id))
         /\ AllAnswered(Catalog!SanitizeForkHistory(h))
         /\ AllAnswered(Append(Catalog!SanitizeForkHistory(h), Catalog!TaskMessage))
         /\ CutAtRunning(Catalog!SanitizeForkHistory(h), h)
<1> DEFINE open == {i \in DOMAIN h : /\ Catalog!ToolUseIDs(h[i]) # {}
                                     /\ ~ (i < Len(h) /\ Catalog!HasResults(h[i + 1], Catalog!ToolUseIDs(h[i])))}
           kept == Catalog!SanitizeForkHistory(h)
<1>1. CASE open = {}
  <2>1. kept = h  BY <1>1 DEF Catalog!SanitizeForkHistory
  <2>2. AllAnswered(h)  BY <1>1 DEF AllAnswered
  <2>3. CutAtRunning(h, h)  BY DEF CutAtRunning
  <2> QED  BY <2>1, <2>2, <2>3, AnsweredWithTask
<1>2. CASE open # {}
  <2> DEFINE m == Catalog!Min(open)
  <2>1. m \in open /\ \A n \in open : m <= n
    <3>1. open \in SUBSET Nat  OBVIOUS
    <3> HIDE DEF open
    <3> QED  BY <1>2, <3>1, LeastOf
  <2>2. kept = SubSeq(h, 1, m - 1)  BY <1>2 DEF Catalog!SanitizeForkHistory
  <2> HIDE DEF m
  <2>3. m \in 1 .. Len(h)  BY <2>1
  <2> HIDE DEF kept
  <2>4. /\ Len(kept) = m - 1 /\ kept \in Seq(ForkMessage(Id))
        /\ \A i \in 1 .. m - 1 : kept[i] = h[i]
    BY <2>2, <2>3
  <2>5. ASSUME NEW i \in DOMAIN kept, Catalog!ToolUseIDs(kept[i]) # {}
        PROVE  i < Len(kept) /\ Catalog!HasResults(kept[i + 1], Catalog!ToolUseIDs(kept[i]))
    <3>1. i \in 1 .. m - 1 /\ i \in DOMAIN h /\ kept[i] = h[i]  BY <2>3, <2>4
    <3>2. i < Len(h) /\ Catalog!HasResults(h[i + 1], Catalog!ToolUseIDs(h[i]))
      BY <2>1, <2>5, <3>1
    <3>3. h[i + 1].role = "user"  BY <3>2 DEF Catalog!HasResults
    <3>4. h[m].role = "assistant"  BY <2>1 DEF Catalog!ToolUseIDs
    <3>5. i + 1 # m  BY <3>3, <3>4
    <3> QED  BY <2>3, <2>4, <3>1, <3>2, <3>5
  <2>6. AllAnswered(kept)  BY <2>5 DEF AllAnswered
  <2>7. CutAtRunning(kept, h)
    <3>1. Len(kept) + 1 = m /\ Len(kept) + 2 = m + 1  BY <2>3, <2>4
    <3>2. Catalog!ToolUseIDs(h[m]) # {} /\ (m < Len(h) => ~ Catalog!HasResults(h[m + 1], Catalog!ToolUseIDs(h[m])))
      BY <2>1
    <3>3. kept = SubSeq(h, 1, Len(kept)) /\ Len(kept) <= Len(h)
      BY <2>2, <2>3, <2>4
    <3> QED  BY <3>1, <3>2, <3>3 DEF CutAtRunning
  <2> QED  BY <2>4, <2>6, <2>7, AnsweredWithTask DEF kept
<1> QED  BY <1>1, <1>2

\* A view of the tools stays within what the configuration and the role leave.
Contained(view, tools, role, cfg, background) ==
  /\ view \subseteq tools
  /\ view \cap (Catalog!NestedDenied \cup cfg.denied \cup role.denied) = {}
  /\ role.allowed # {} => view \subseteq role.allowed
  /\ background /\ cfg.background # {} => view \subseteq cfg.background

\* buildToolView leaves out what it must, whatever is configured.
LEMMA ViewIsContained ==
  ASSUME NEW tools, NEW role, NEW cfg, NEW background
  PROVE  Contained(Catalog!BuildToolView(tools, role, cfg, background), tools, role, cfg, background)
BY DEF Contained, Catalog!BuildToolView

\* There are three permissions, the last for a tool that is not known.
LEMMA PermissionRange ==
  /\ \A n : Catalog!PermissionForKnownToolName(n) \in 0 .. 2
  /\ Catalog!Exec = 2
BY DEF Catalog!PermissionForKnownToolName, Catalog!Read, Catalog!Write, Catalog!Exec

\* Max of some of them bounds each.
LEMMA GreatestOfThree ==
  ASSUME NEW S \in SUBSET (0 .. 2), S # {}
  PROVE  \A n \in S : n <= Catalog!Max(S)
<1>1. \E g \in S : \A f \in S : g >= f
  <2>1. CASE 2 \in S  BY <2>1
  <2>2. CASE 2 \notin S /\ 1 \in S  BY <2>2
  <2>3. CASE 2 \notin S /\ 1 \notin S
    <3>1. \A n \in 0 .. 2 : n \in {0, 1, 2}  OBVIOUS
    <3>2. \A n \in S : n = 0  BY <2>3, <3>1
    <3>3. 0 \in S  BY <3>2
    <3> QED  BY <3>2, <3>3
  <2> QED  BY <2>1, <2>2, <2>3
<1> QED  BY <1>1 DEF Catalog!Max

(***************************************************************************)
(* The permission that is asked for a role is enough for every tool that   *)
(* it leaves to a run and does not deny in another spelling                *)
(* (permissionForRoleTools, buildToolView).                                *)
(***************************************************************************)
THEOREM PermissionCoversTools ==
  ASSUME NEW tools, NEW role, NEW cfg, NEW background,
         NEW t \in Catalog!BuildToolView(tools, role, cfg, background), ~ Denies(role, t)
  PROVE  Catalog!PermissionForKnownToolName(t) <= Catalog!PermissionForRoleTools(role)
<1> DEFINE kept == {n \in role.allowed : \A d \in role.denied : Catalog!Lower(d) # Catalog!Lower(n)}
           needs == {Catalog!PermissionForKnownToolName(n) : n \in kept}
<1>1. CASE kept = {}
  BY <1>1, PermissionRange DEF Catalog!PermissionForRoleTools
<1>2. CASE kept # {}
  <2>1. t \in tools /\ t \in role.allowed /\ t \notin role.denied
    BY <1>2, ViewIsContained DEF Contained
  <2>2. t \in kept
    BY <2>1 DEF Denies
  <2>3. needs \in SUBSET (0 .. 2) /\ needs # {} /\ Catalog!PermissionForKnownToolName(t) \in needs
    BY <2>2, PermissionRange
  <2> HIDE DEF needs
  <2>4. Catalog!PermissionForKnownToolName(t) <= Catalog!Max(needs)
    BY <2>3, GreatestOfThree
  <2> QED  BY <1>2, <2>4 DEF Catalog!PermissionForRoleTools, needs
<1> QED  BY <1>1, <1>2

\* What is known of a call of the agent tool and of a role: the limits are numbers.
Limited(x) == x.background \in BOOLEAN /\ x.turns \in Int

\* What a run that a call starts is: it has tools, none that starts another
\* SubAgent or is denied, in the background only those for the background; the
\* permission that was asked for covers those that the role does not deny in
\* another spelling; it has a limit of turns; and it starts with its task, after
\* the cleaned history of the parent if it is a fork.
StartsContained(in, roles, canceled, models, forks, tools, cfg, parent) ==
  LET got == Catalog!Execute(in, roles, canceled, models, forks)
      role == roles[got.role]
      run == IF got.run = "fork" THEN Catalog!RunFork(got, tools, role, cfg, parent)
             ELSE Catalog!RunDefined(got, tools, role, cfg)
  IN  got.ok /\ ~ run.err =>
        /\ ~ canceled /\ got.role \in DOMAIN roles
        /\ run.tools # {}
        /\ Contained(run.tools, tools, role, cfg, got.background)
        /\ \A t \in run.tools :
             Denies(role, t) \/ Catalog!PermissionForKnownToolName(t)
                                  <= Catalog!DynamicPermission(in, roles)
        /\ run.turns \in Nat \ {0}
        /\ run.history = IF got.run = "fork"
                         THEN Append(Catalog!SanitizeForkHistory(parent), Catalog!TaskMessage)
                         ELSE <<Catalog!TaskMessage>>

(***************************************************************************)
(* Whatever the model asks for, the roles and the configuration say and    *)
(* the parent's history holds: a run that starts is contained              *)
(* (Execute, RunDefined, RunFork).                                         *)
(***************************************************************************)
THEOREM RunsAreContained ==
  ASSUME NEW in, Limited(in), NEW roles, \A n \in DOMAIN roles : Limited(roles[n]),
         NEW canceled, NEW forks, NEW models, NEW tools, NEW cfg, NEW parent
  PROVE  StartsContained(in, roles, canceled, models, forks, tools, cfg, parent)
<1> DEFINE got == Catalog!Execute(in, roles, canceled, models, forks)
           role == roles[got.role]
           run == IF got.run = "fork" THEN Catalog!RunFork(got, tools, role, cfg, parent)
                  ELSE Catalog!RunDefined(got, tools, role, cfg)
<1> SUFFICES ASSUME got.ok, ~ run.err
             PROVE  /\ ~ canceled /\ got.role \in DOMAIN roles
                    /\ run.tools # {}
                    /\ Contained(run.tools, tools, role, cfg, got.background)
                    /\ \A t \in run.tools :
                         Denies(role, t) \/ Catalog!PermissionForKnownToolName(t)
                                              <= Catalog!DynamicPermission(in, roles)
                    /\ run.turns \in Nat \ {0}
                    /\ run.history = IF got.run = "fork"
                                     THEN Append(Catalog!SanitizeForkHistory(parent),
                                                 Catalog!TaskMessage)
                                     ELSE <<Catalog!TaskMessage>>
  BY DEF StartsContained
<1>1. /\ ~ canceled /\ got.run = Catalog!RunType(in) /\ got.role = Catalog!RoleName(in)
      /\ got.role \in DOMAIN roles /\ Catalog!RunType(in) \in {"defined", "fork"}
      /\ got.background = Catalog!Background(in, roles[got.role])
      /\ got.turns = IF in.turns > 0 THEN in.turns ELSE roles[got.role].turns
  BY DEF Catalog!Execute, Catalog!Refused
<1>2. Limited(role)  BY <1>1
<1>3. got.turns \in Int /\ role.turns \in Int /\ got.background \in BOOLEAN
  BY <1>1, <1>2 DEF Limited, Catalog!Background
<1>4. run.turns = Catalog!ResolveMaxTurns(got.turns, role)
  BY DEF Catalog!RunFork, Catalog!RunDefined
<1>5. run.turns \in Nat \ {0}
  BY <1>3, <1>4, RunsAssumption DEF Catalog!ResolveMaxTurns
<1>6. /\ run.tools = Catalog!BuildToolView(tools, role, cfg, got.background)
      /\ run.tools # {}
  BY <1>1 DEF Catalog!RunFork, Catalog!RunDefined, Catalog!Background
<1>7. Contained(run.tools, tools, role, cfg, got.background)
  BY <1>6, ViewIsContained
<1>8. ASSUME NEW t \in run.tools, ~ Denies(role, t)
      PROVE  Catalog!PermissionForKnownToolName(t) <= Catalog!DynamicPermission(in, roles)
  <2>1. CASE Catalog!RunType(in) # "defined"
    BY <2>1, PermissionRange DEF Catalog!DynamicPermission
  <2>2. CASE Catalog!RunType(in) = "defined"
    <3>1. Catalog!DynamicPermission(in, roles) = Catalog!PermissionForRoleTools(role)
      BY <1>1, <2>2 DEF Catalog!DynamicPermission
    <3> HIDE DEF role
    <3> QED  BY <1>6, <1>8, <3>1, PermissionCoversTools
  <2> QED  BY <2>1, <2>2
<1>9. run.history = IF got.run = "fork"
                    THEN Append(Catalog!SanitizeForkHistory(parent), Catalog!TaskMessage)
                    ELSE <<Catalog!TaskMessage>>
  BY DEF Catalog!RunFork, Catalog!RunDefined
<1> QED  BY <1>1, <1>5, <1>6, <1>7, <1>8, <1>9

(***************************************************************************)
(* The status tool answers only for tasks that it knows and, if it waits,  *)
(* only when every one of them has ended (StatusMany).                     *)
(***************************************************************************)
THEOREM StatusesAreTrue ==
  ASSUME NEW Id, NEW asked \in Seq(Id), NEW Known, NEW S, NEW tasks \in [Known -> S],
         NEW wait \in BOOLEAN, NEW late \in BOOLEAN,
         Catalog!StatusMany(asked, tasks, wait, late).status = "answered"
  PROVE  \A i \in DOMAIN asked :
           /\ asked[i] \in Known
           /\ wait => Catalog!IsTerminalStatus(tasks[asked[i]])
<1> DEFINE out == Catalog!CollectStatuses(asked, tasks)
           missing == {i \in DOMAIN asked : asked[i] \notin DOMAIN tasks}
<1>1. out.ok /\ (wait => out.complete)
  BY DEF Catalog!StatusMany, Catalog!Refused
<1>2. missing = {}
  BY <1>1 DEF Catalog!CollectStatuses
<1> DEFINE found == [i \in 1 .. Len(asked) |-> tasks[asked[i]]]
<1>3. out.complete => \A i \in DOMAIN found : Catalog!IsTerminalStatus(found[i])
  BY <1>2, Zenon DEF Catalog!CollectStatuses
<1>4. DOMAIN found = DOMAIN asked /\ \A i \in DOMAIN asked : found[i] = tasks[asked[i]]
  OBVIOUS
<1> HIDE DEF out, missing, found
<1>5. \A i \in DOMAIN asked : asked[i] \in Known
  BY <1>2 DEF missing
<1> QED  BY <1>1, <1>3, <1>4, <1>5

-----------------------------------------------------------------------------
(***************************************************************************)
(* The cases of AgentRuns, for any names, roles and bounds.                *)
(***************************************************************************)

\* What a case is: a call and a role, the beginning of a history, or a question.
RunTyped ==
  /\ Is("run") => Limited(case.in) /\ Limited(case.role) /\ case.ended \in BOOLEAN
  /\ Is("fork") => \E g \in Seq(RunMessage) : \E n \in 0 .. Len(g) :
                     Paired(g) /\ case.h = SubSeq(g, 1, n)
  /\ Is("status") => /\ case.ids \in Seq(TaskIds)
                     /\ \E Known \in SUBSET TaskIds : case.tasks \in [Known -> Statuses]
                     /\ case.wait \in BOOLEAN /\ case.late \in BOOLEAN

\* Sequences of bounded length are sequences.
LEMMA UpToIsSeq ==
  ASSUME NEW S, NEW n \in Nat, NEW s \in UpTo(S, n)
  PROVE  s \in Seq(S)
<1>1. PICK k \in 0 .. n : s \in [1 .. k -> S]
  BY DEF UpTo
<1> QED  BY <1>1

\* Every case is of that form.
LEMMA RunTypedStep ==
  /\ case = NoCase => RunTyped
  /\ RunTyped /\ [RunCase]_case => RunTyped'
<1>1. case = NoCase => RunTyped
  BY DEF NoCase, RunTyped, Is
<1>2. ASSUME RunTyped, case' = case  PROVE RunTyped'
  BY <1>2 DEF RunTyped, Is
<1>3. ASSUME NEW role \in RunRole, NEW cfg \in RunConfig, NEW type \in RunTypes, NEW bg \in BOOLEAN,
             case' = [of |-> "run", role |-> role, cfg |-> cfg, ended |-> FALSE,
                      in |-> [type |-> type, role |-> "", task |-> "t", model |-> "",
                              background |-> bg, turns |-> 0]]
      PROVE  RunTyped'
  <2>1. Limited(role)  BY <1>3, RunsAssumption DEF RunRole, Limited
  <2> DEFINE call == [type |-> type, role |-> "", task |-> "t", model |-> "",
                      background |-> bg, turns |-> 0]
  <2>2. call.background = bg /\ call.turns = 0
    OBVIOUS
  <2>3. Limited(call)
    <3>1. bg \in BOOLEAN  BY <1>3, Zenon
    <3> HIDE DEF call
    <3>2. call.background \in BOOLEAN  BY <2>2, <3>1, Zenon
    <3>3. call.turns \in Int  BY <2>2
    <3> QED  BY <3>2, <3>3 DEF Limited
  <2>4. case'.of = "run" /\ case'.role = role /\ case'.ended = FALSE /\ case'.in = call
    BY <1>3
  <2> HIDE DEF call
  <2> QED  BY <2>1, <2>3, <2>4 DEF RunTyped, Is
<1>4. ASSUME NEW in \in RunCall, NEW over \in BOOLEAN,
             case' = [of |-> "run", role |-> PlainRole, cfg |-> PlainConfig,
                      ended |-> over, in |-> in]
      PROVE  RunTyped'
  <2>1. Limited(PlainRole)  BY DEF PlainRole, Limited
  <2>2. Limited(in)  BY <1>4, RunsAssumption DEF RunCall, Limited
  <2> QED  BY <1>4, <2>1, <2>2 DEF RunTyped, Is, Limited
<1>5. ASSUME NEW h \in UpTo(RunMessage, MaxHistory), Paired(h), NEW n \in 0 .. Len(h),
             case' = [of |-> "fork", h |-> SubSeq(h, 1, n)]
      PROVE  RunTyped'
  <2>1. h \in Seq(RunMessage)  BY <1>5, RunsAssumption, UpToIsSeq
  <2>2. (\E g \in Seq(RunMessage) : \E m \in 0 .. Len(g) :
           Paired(g) /\ case.h = SubSeq(g, 1, m))'
    BY <1>5, <2>1
  <2> QED  BY <1>5, <2>2 DEF RunTyped, Is
<1>6. ASSUME NEW asked \in UpTo(TaskIds, MaxAsked), NEW Known \in SUBSET TaskIds,
             NEW wait \in BOOLEAN, NEW late \in BOOLEAN, NEW tasks \in [Known -> Statuses],
             case' = [of |-> "status", ids |-> asked, tasks |-> tasks, wait |-> wait, late |-> late]
      PROVE  RunTyped'
  <2>1. asked \in Seq(TaskIds)  BY <1>6, RunsAssumption, UpToIsSeq
  <2>2. tasks \in [Known -> Statuses]  BY <1>6, RunsAssumption
  <2> QED  BY <1>6, <2>1, <2>2 DEF RunTyped, Is
<1> QED
  BY <1>1, <1>2, <1>3, <1>4, <1>5, <1>6 DEF RunCase

\* What a fork leaves of the beginning of a history that is well formed.
LEMMA ForkOfHistory ==
  ASSUME NEW g \in Seq(RunMessage), Paired(g), NEW n \in 0 .. Len(g),
         NEW h, h = SubSeq(g, 1, n),
         NEW kept, kept = Catalog!SanitizeForkHistory(h)
  PROVE  /\ Paired(Append(kept, Catalog!TaskMessage))
         /\ IsPrefix(kept, h) /\ Len(kept) + 1 >= Len(h)
<1>1. RunMessage \subseteq ForkMessage(CallIds)
  BY DEF RunMessage, ForkMessage
<1>2. /\ h \in Seq(RunMessage) /\ Len(h) = n /\ \A i \in 1 .. n : h[i] = g[i]
      /\ g \in Seq(RunMessage) /\ DOMAIN g = 1 .. Len(g)
  OBVIOUS
<1>3. h \in Seq(ForkMessage(CallIds))
  BY <1>1, <1>2
<1>4. /\ kept \in Seq(ForkMessage(CallIds)) /\ AllAnswered(kept) /\ CutAtRunning(kept, h)
  BY <1>3, ForksAreAnswered
<1>5. \A m \in RunMessage : /\ m.results # {} => m.role = "user" /\ m.uses = {}
                            /\ m.uses # {} => m.role = "assistant" /\ m.results = {}
  BY DEF RunMessage
<1>6. \A i \in 1 .. Len(g) : g[i] \in RunMessage
  BY <1>2
<1>7. IsPrefix(kept, h)
  BY <1>4 DEF IsPrefix, CutAtRunning
<1>8. /\ Len(kept) \in Nat /\ Len(kept) <= n /\ DOMAIN kept = 1 .. Len(kept)
      /\ \A i \in 1 .. Len(kept) : kept[i] = g[i]
  <2>1. Len(kept) \in Nat /\ Len(kept) <= n /\ DOMAIN kept = 1 .. Len(kept)
    BY <1>2, <1>4 DEF CutAtRunning
  <2>2. \A i \in 1 .. Len(kept) : SubSeq(h, 1, Len(kept))[i] = h[i]
    BY <1>2, <2>1
  <2> QED  BY <1>2, <1>4, <2>1, <2>2 DEF CutAtRunning
<1>9. Len(kept) + 1 >= Len(h)
  <2> SUFFICES ASSUME Len(kept) + 1 < n  PROVE FALSE
    BY <1>2, <1>8
  <2> DEFINE k == Len(kept) + 1
  <2>1. k \in 1 .. n /\ k + 1 \in 1 .. n /\ k < Len(g) /\ k \in DOMAIN g /\ k + 1 \in 1 .. Len(g)
    BY <1>2, <1>8
  <2>2. /\ Catalog!ToolUseIDs(h[k]) # {}
        /\ ~ Catalog!HasResults(h[k + 1], Catalog!ToolUseIDs(h[k]))
    BY <1>2, <1>4, <1>8 DEF CutAtRunning
  <2> HIDE DEF k
  <2>3. h[k] = g[k] /\ h[k + 1] = g[k + 1]  BY <1>2, <2>1
  <2>4. g[k].uses # {} /\ Catalog!ToolUseIDs(g[k]) = g[k].uses
    BY <2>2, <2>3 DEF Catalog!ToolUseIDs
  <2>5. g[k + 1].results = g[k].uses
    BY <2>1, <2>4 DEF Paired
  <2>6. g[k + 1].role = "user"
    BY <1>5, <1>6, <2>1, <2>4, <2>5
  <2> QED  BY <2>2, <2>3, <2>4, <2>5, <2>6 DEF Catalog!HasResults
<1>10. Paired(Append(kept, Catalog!TaskMessage))
  <2> DEFINE f == Append(kept, Catalog!TaskMessage)
  <2>1. /\ Len(f) = Len(kept) + 1 /\ DOMAIN f = 1 .. Len(f)
        /\ f[Len(f)] = Catalog!TaskMessage
        /\ \A i \in 1 .. Len(kept) : f[i] = g[i]
    BY <1>4, <1>8
  <2> HIDE DEF f
  <2>2. Catalog!TaskMessage.results = {} /\ Catalog!TaskMessage.uses = {}
    BY DEF Catalog!TaskMessage
  <2>3. ASSUME NEW i \in DOMAIN f, f[i].results # {}
        PROVE  i > 1 /\ f[i - 1].uses = f[i].results
    <3>1. i \in 1 .. Len(kept) /\ i \in DOMAIN g  BY <1>2, <1>8, <2>1, <2>2, <2>3
    <3>2. i > 1 /\ g[i - 1].uses = g[i].results  BY <2>1, <2>3, <3>1 DEF Paired
    <3>3. i - 1 \in 1 .. Len(kept)  BY <1>8, <3>1, <3>2
    <3> QED  BY <2>1, <3>1, <3>2, <3>3
  <2>4. ASSUME NEW i \in DOMAIN f, f[i].uses # {}
        PROVE  i < Len(f) /\ f[i + 1].results = f[i].uses
    <3>1. i \in 1 .. Len(kept) /\ i \in DOMAIN g /\ i \in DOMAIN kept
      BY <1>2, <1>8, <2>1, <2>2, <2>4
    <3>2. kept[i] = g[i] /\ g[i].uses # {} /\ g[i] \in RunMessage
      BY <1>6, <1>8, <2>1, <2>4, <3>1
    <3>3. Catalog!ToolUseIDs(kept[i]) # {}
      BY <1>5, <3>2 DEF Catalog!ToolUseIDs
    <3>4. i < Len(kept)  BY <1>4, <3>1, <3>3 DEF AllAnswered
    <3>5. g[i + 1].results = g[i].uses  BY <3>1, <3>2 DEF Paired
    <3>6. i + 1 \in 1 .. Len(kept)  BY <1>8, <3>1, <3>4
    <3> QED  BY <1>8, <2>1, <3>1, <3>4, <3>5, <3>6
  <2> QED  BY <2>3, <2>4 DEF Paired, f
<1> QED  BY <1>7, <1>9, <1>10

\* A run that a case starts is contained.
LEMMA RunConfined ==
  ASSUME RunTyped  PROVE RunsAreConfined
<1> SUFFICES ASSUME Is("run")  PROVE RunsAreConfined
  BY DEF RunsAreConfined
<1> DEFINE roles == [n \in {"general-purpose"} |-> case.role]
           got == Catalog!Execute(case.in, roles, case.ended, {}, TRUE)
           run == IF got.run = "fork"
                  THEN Catalog!RunFork(got, ToolNames, case.role, case.cfg, <<>>)
                  ELSE Catalog!RunDefined(got, ToolNames, case.role, case.cfg)
<1>1. Limited(case.in) /\ Limited(case.role) /\ case.ended \in BOOLEAN
  BY DEF RunTyped
<1>2. DOMAIN roles = {"general-purpose"} /\ \A n \in {"general-purpose"} : Limited(roles[n])
  BY <1>1
<1>3. ASSUME got.ok
      PROVE  /\ ~ case.ended /\ got.role = "general-purpose"
             /\ got.run = Catalog!RunType(case.in)
             /\ got.background = Catalog!Background(case.in, case.role)
  BY <1>3 DEF Catalog!Execute, Catalog!Refused
<1>4. ASSUME got.ok, ~ run.err
      PROVE  /\ run.tools # {} /\ run.turns \in Nat \ {0}
             /\ Contained(run.tools, ToolNames, case.role, case.cfg, got.background)
             /\ \A t \in run.tools :
                  Denies(case.role, t) \/ Catalog!PermissionForKnownToolName(t)
                                            <= Catalog!DynamicPermission(case.in, roles)
  <2>1. roles[got.role] = case.role
    BY <1>3, <1>4
  <2>2. StartsContained(case.in, roles, case.ended, {}, TRUE, ToolNames, case.cfg, <<>>)
    <3> HIDE DEF roles
    <3> QED  BY <1>1, <1>2, RunsAreContained
  <2> QED  BY <1>4, <2>1, <2>2 DEF StartsContained
<1>5. ASSUME got.ok, got.run = "fork" \/ case.in.background \/ case.role.background
      PROVE  got.background
  BY <1>1, <1>3, <1>5 DEF Catalog!Background
<1>6. ASSUME got.ok, ~ run.err
      PROVE  /\ run.tools \subseteq ToolNames
             /\ run.tools \cap (Catalog!NestedDenied \cup case.cfg.denied
                                \cup case.role.denied) = {}
             /\ ( /\ got.run = "fork" \/ case.in.background \/ case.role.background
                  /\ case.cfg.background # {} ) => run.tools \subseteq case.cfg.background
             /\ run.turns > 0
  <2> HIDE DEF got, run, roles
  <2> QED  BY <1>4, <1>5, <1>6 DEF Contained
<1>7. got.ok =>
        /\ ~ case.ended
        /\ ~ run.err =>
             /\ run.tools # {} /\ run.tools \subseteq ToolNames
             /\ run.tools \cap (Catalog!NestedDenied \cup case.cfg.denied
                                \cup case.role.denied) = {}
             /\ ( /\ got.run = "fork" \/ case.in.background \/ case.role.background
                  /\ case.cfg.background # {} ) =>
                  run.tools \subseteq case.cfg.background
             /\ \A t \in run.tools : Denies(case.role, t) \/
                  Catalog!PermissionForKnownToolName(t)
                    <= Catalog!DynamicPermission(case.in, roles)
             /\ run.turns > 0
  <2> HIDE DEF got, run, roles
  <2> QED  BY <1>3, <1>4, <1>6, Zenon
<1> QED
  BY <1>7, Zenon DEF RunsAreConfined

(***************************************************************************)
(* What RunsHold says of the cases of a small domain holds of every call   *)
(* of the agent tool, every role and configuration, every history that is  *)
(* forked and every question to the status tool.                           *)
(***************************************************************************)
THEOREM RunsAreSound == RunSpec => []RunsHold
<1>1. RunTyped => RunsHold
  <2> SUFFICES ASSUME RunTyped  PROVE RunsHold
    OBVIOUS
  <2>1. RunsAreConfined
    BY RunConfined
  <2>2. ForksStartAccepted
    <3> SUFFICES ASSUME Is("fork")  PROVE ForksStartAccepted
      BY DEF ForksStartAccepted
    <3>1. PICK g \in Seq(RunMessage) : \E n \in 0 .. Len(g) :
            Paired(g) /\ case.h = SubSeq(g, 1, n)
      BY DEF RunTyped
    <3>2. PICK n \in 0 .. Len(g) : Paired(g) /\ case.h = SubSeq(g, 1, n)
      BY <3>1
    <3> QED  BY <3>2, ForkOfHistory DEF ForksStartAccepted
  <2>3. AnswersAreFinal
    <3> SUFFICES ASSUME Is("status"),
                        Catalog!StatusMany(case.ids, case.tasks, case.wait, case.late).status = "answered"
                 PROVE  \A i \in DOMAIN case.ids :
                          /\ case.ids[i] \in DOMAIN case.tasks
                          /\ case.wait => Catalog!IsTerminalStatus(case.tasks[case.ids[i]])
      BY DEF AnswersAreFinal
    <3>1. PICK Known \in SUBSET TaskIds : case.tasks \in [Known -> Statuses]
      BY DEF RunTyped
    <3>2. /\ case.ids \in Seq(TaskIds) /\ case.wait \in BOOLEAN /\ case.late \in BOOLEAN
      BY DEF RunTyped
    <3>3. \A i \in DOMAIN case.ids :
            /\ case.ids[i] \in Known
            /\ case.wait => Catalog!IsTerminalStatus(case.tasks[case.ids[i]])
      BY <3>1, <3>2, StatusesAreTrue, Zenon
    <3> QED  BY <3>1, <3>3
  <2> QED  BY <2>1, <2>2, <2>3 DEF RunsHold
<1> QED
  BY <1>1, RunTypedStep, PTL DEF RunSpec

=============================================================================
