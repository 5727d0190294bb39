---------------------------- MODULE SubAgentTasks ----------------------------
(***************************************************************************)
(* The manager of SubAgent tasks (src/src/subagent/background/manager.go)  *)
(* and the callers that meet in it: the agent tool that submits a task and *)
(* may wait for it, the goroutine that runs it, the user's Stop            *)
(* (handleAbortStream, CancelActive) and MoveToBackground.  The task table *)
(* is changed under m.mu; events are emitted after the lock is released,   *)
(* so they reach the browser and the handler in any order.                 *)
(***************************************************************************)
EXTENDS Naturals, FiniteSets

CONSTANTS Task,      \* submissions
          Fork,      \* those of type fork, always submitted in the background
          Stopper    \* abort_stream requests (any connection, each once)
ASSUME TasksAssumption == Fork \subseteq Task

VARIABLES
  status,     \* status[t]: snapshot.Status, "none" before registration
  reason,     \* reason[t]: BackgroundReason; snapshot.Background is # "none"
  done,       \* done[t]: rec.done is closed
  ended,      \* ended[t]: the context of the submitting tool call has ended
  submitter,  \* submitter[t]: where Submit is, and what it answers
  runner,     \* runner[t]: where the goroutine run is
  mover,      \* mover[t]: MoveToBackground has yet to emit its event
  stopper,    \* stopper[s]: where handleAbortStream is
  ids,        \* ids[s]: ids that CancelActive has left
  owed,       \* owed[s]: the task whose canceled event s has yet to emit
  known,      \* known[s]: ghost, tasks registered when s read the table
  shown,      \* shown[t]: the last event of t the browser was sent
  outcomes,   \* outcomes[t]: ghost, terminal events emitted so far
  fed         \* fed[t]: calls of runContinuationFromSubAgent

vars == <<status, reason, done, ended, submitter, runner, mover, stopper, ids,
          owed, known, shown, outcomes, fed>>

Terminal == {"completed", "failed", "canceled"}
Active   == {"queued", "running"}
Reasons  == {"none", "explicit", "timeout", "manual"}
Results  == {"completed", "failed", "aborted"}    \* RunResult.Status or its error
Waits    == {"idle", "registered", "waiting", "collecting", "moved"}
Answers  == {"result", "background"}              \* SubmitResult.Backgrounded
Runs     == {"none", "ready", "started", "working", "ended", "over"}

Set(f, t, v) == [f EXCEPT ![t] = v]

-----------------------------------------------------------------------------
(* Events: HandleSubAgentTaskEvent sends each one to the browser and feeds *)
(* a completed or failed task back into the conversation.                  *)

Continues(e) == e \in {"completed", "failed"}

Emit(t, e) ==
  /\ shown' = Set(shown, t, e)
  /\ outcomes' = Set(outcomes, t, outcomes[t] \union ({e} \intersect Terminal))
  /\ fed' = IF Continues(e) THEN Set(fed, t, fed[t] + 1) ELSE fed

Silent == UNCHANGED <<shown, outcomes, fed>>

-----------------------------------------------------------------------------
(* The goroutine of a task.                                                *)

MarkRunning(t) ==
  /\ runner[t] = "ready"
  /\ IF status[t] = "queued"
       THEN status' = Set(status, t, "running") /\ runner' = Set(runner, t, "started")
       ELSE UNCHANGED status /\ runner' = Set(runner, t, "working")
  /\ Silent
  /\ UNCHANGED <<reason, done, ended, submitter, mover, stopper, ids, owed, known>>

EmitRunning(t) ==
  /\ runner[t] = "started"
  /\ runner' = Set(runner, t, "working")
  /\ Emit(t, "running")
  /\ UNCHANGED <<status, reason, done, ended, submitter, mover, stopper, ids, owed, known>>

\* Mutant: a cancelled task is overwritten by the result that arrives later.
EndStatusOfRun(t, r) == IF r = "aborted" THEN "canceled" ELSE r

EndStatus(t, r) == IF status[t] = "canceled" \/ r = "aborted" THEN "canceled" ELSE r

\* Mutants: finish leaves a cancelled task as Cancel left it and reports
\* nothing more; it returns before it closes done.
FinishOnce(t, r) ==
  /\ runner[t] = "working"
  /\ status' = Set(status, t, EndStatus(t, r))
  /\ done' = Set(done, t, TRUE)
  /\ runner' = Set(runner, t, IF status[t] = "canceled" THEN "over" ELSE "ended")
  /\ Silent
  /\ UNCHANGED <<reason, ended, submitter, mover, stopper, ids, owed, known>>
FinishKeepingDone(t, r) ==
  /\ runner[t] = "working"
  /\ status' = Set(status, t, EndStatus(t, r))
  /\ done' = Set(done, t, status[t] # "canceled")
  /\ runner' = Set(runner, t, "ended")
  /\ Silent
  /\ UNCHANGED <<reason, ended, submitter, mover, stopper, ids, owed, known>>

\* The run returns and finish stores how it ended.
Finish(t, r) ==
  /\ runner[t] = "working"
  /\ status' = Set(status, t, EndStatus(t, r))
  /\ done' = Set(done, t, TRUE)
  /\ runner' = Set(runner, t, "ended")
  /\ Silent
  /\ UNCHANGED <<reason, ended, submitter, mover, stopper, ids, owed, known>>

EmitEnd(t) ==
  /\ runner[t] = "ended"
  /\ runner' = Set(runner, t, "over")
  /\ Emit(t, status[t])
  /\ UNCHANGED <<status, reason, done, ended, submitter, mover, stopper, ids, owed, known>>

-----------------------------------------------------------------------------
(* Submit.                                                                 *)

Register(t, background) ==
  /\ submitter[t] = "idle"
  /\ t \in Fork => background
  /\ submitter' = Set(submitter, t, "registered")
  /\ status' = Set(status, t, "queued")
  /\ reason' = Set(reason, t, IF background THEN "explicit" ELSE "none")
  /\ Silent
  /\ UNCHANGED <<done, ended, runner, mover, stopper, ids, owed, known>>

\* emit(EventQueued), go run, and the return of an explicit background task.
\* (Only a request for the background gives the reason "explicit".)
Launch(t) ==
  /\ submitter[t] = "registered"
  /\ submitter' = Set(submitter, t, IF reason[t] = "explicit" THEN "background" ELSE "waiting")
  /\ runner' = Set(runner, t, "ready")
  /\ Emit(t, "queued")
  /\ UNCHANGED <<status, reason, done, ended, mover, stopper, ids, owed, known>>

\* The select of a waiting Submit may take any case that is ready.
WakeDone(t) ==
  /\ submitter[t] \in {"waiting", "collecting"} /\ done[t]
  /\ submitter' = Set(submitter, t, "result")
  /\ Silent
  /\ UNCHANGED <<status, reason, done, ended, runner, mover, stopper, ids, owed, known>>

WakeMoved(t) ==
  /\ submitter[t] = "waiting" /\ reason[t] # "none"
  /\ submitter' = Set(submitter, t, "background")
  /\ Silent
  /\ UNCHANGED <<status, reason, done, ended, runner, mover, stopper, ids, owed, known>>

\* moveToBackground by a waiting Submit, and where Submit is then: late is
\* what it does when the task has already ended.
Move(t, late) ==
  LET fresh == status[t] \in Active /\ reason[t] = "none" IN
  /\ reason' = IF fresh THEN Set(reason, t, "timeout") ELSE reason
  /\ submitter' = Set(submitter, t, IF fresh THEN "moved"
                                    ELSE IF status[t] \in Terminal THEN late
                                    ELSE "background")
  /\ Silent
  /\ UNCHANGED <<status, done, ended, runner, mover, stopper, ids, owed, known>>

\* Mutant: the error of moveToBackground is ignored after the timer, too.
TimerFiresBlindly(t) == submitter[t] = "waiting" /\ Move(t, "background")

\* ForegroundTimeout or the default timeout elapses, for a task that has one.
TimerFires(t) == submitter[t] = "waiting" /\ Move(t, "collecting")

ContextEnds(t) == submitter[t] = "waiting" /\ ended[t] /\ Move(t, "background")

EmitMoved(t) ==
  /\ submitter[t] = "moved"
  /\ submitter' = Set(submitter, t, "background")
  /\ Emit(t, "backgrounded")
  /\ UNCHANGED <<status, reason, done, ended, runner, mover, stopper, ids, owed, known>>

-----------------------------------------------------------------------------
(* MoveToBackground, and the tool handler's timeout, which ends the        *)
(* context of the call that waits.                                         *)

MoveManual(t) ==
  /\ status[t] \in Active /\ reason[t] = "none"
  /\ reason' = Set(reason, t, "manual")
  /\ mover' = Set(mover, t, TRUE)
  /\ Silent
  /\ UNCHANGED <<status, done, ended, submitter, runner, stopper, ids, owed, known>>

EmitManual(t) ==
  /\ mover[t]
  /\ mover' = Set(mover, t, FALSE)
  /\ Emit(t, "backgrounded")
  /\ UNCHANGED <<status, reason, done, ended, submitter, runner, stopper, ids, owed, known>>

ToolTimesOut(t) ==
  /\ submitter[t] = "waiting" /\ ~ended[t]
  /\ ended' = Set(ended, t, TRUE)
  /\ Silent
  /\ UNCHANGED <<status, reason, done, submitter, runner, mover, stopper, ids, owed, known>>

-----------------------------------------------------------------------------
(* handleAbortStream: the stream's context first, then every active task.  *)

Abort(s) ==
  /\ stopper[s] = "idle"
  /\ stopper' = Set(stopper, s, "aborted")
  /\ ended' = [t \in Task |-> ended[t] \/ submitter[t] \in {"registered", "waiting"}]
  /\ Silent
  /\ UNCHANGED <<status, reason, done, submitter, runner, mover, ids, owed, known>>

\* Mutant: a task that has not begun to run is not listed.
ListedRunning == {t \in Task : status[t] = "running"}

Listed == {t \in Task : status[t] \in Active}

ListActive(s) ==
  /\ stopper[s] = "aborted"
  /\ stopper' = Set(stopper, s, "canceling")
  /\ ids' = Set(ids, s, Listed)
  /\ known' = Set(known, s, {t \in Task : status[t] # "none"})
  /\ Silent
  /\ UNCHANGED <<status, reason, done, ended, submitter, runner, mover, owed>>

\* Cancel: a task that has ended meanwhile is passed over.
Cancel(s, t) ==
  /\ stopper[s] = "canceling" /\ owed[s] = {} /\ t \in ids[s]
  /\ ids' = Set(ids, s, ids[s] \ {t})
  /\ IF status[t] \in Terminal
       THEN UNCHANGED <<status, owed>>
       ELSE status' = Set(status, t, "canceled") /\ owed' = Set(owed, s, {t})
  /\ Silent
  /\ UNCHANGED <<reason, done, ended, submitter, runner, mover, stopper, known>>

EmitCanceled(s, t) ==
  /\ t \in owed[s]
  /\ owed' = Set(owed, s, {})
  /\ Emit(t, "canceled")
  /\ UNCHANGED <<status, reason, done, ended, submitter, runner, mover, stopper, ids, known>>

StopReturns(s) ==
  /\ stopper[s] = "canceling" /\ owed[s] = {} /\ ids[s] = {}
  /\ stopper' = Set(stopper, s, "over")
  /\ Silent
  /\ UNCHANGED <<status, reason, done, ended, submitter, runner, mover, ids, owed, known>>

-----------------------------------------------------------------------------
Init ==
  /\ status = [t \in Task |-> "none"]
  /\ reason = [t \in Task |-> "none"]
  /\ done = [t \in Task |-> FALSE]
  /\ ended = [t \in Task |-> FALSE]
  /\ submitter = [t \in Task |-> "idle"]
  /\ runner = [t \in Task |-> "none"]
  /\ mover = [t \in Task |-> FALSE]
  /\ stopper = [s \in Stopper |-> "idle"]
  /\ ids = [s \in Stopper |-> {}]
  /\ owed = [s \in Stopper |-> {}]
  /\ known = [s \in Stopper |-> {}]
  /\ shown = [t \in Task |-> "none"]
  /\ outcomes = [t \in Task |-> {}]
  /\ fed = [t \in Task |-> 0]

RunStep(t) ==
  \/ MarkRunning(t) \/ EmitRunning(t) \/ EmitEnd(t)
  \/ \E r \in Results : Finish(t, r)

SubmitStep(t) == Launch(t) \/ WakeDone(t) \/ WakeMoved(t) \/ EmitMoved(t)

StopStep(s) ==
  \/ ListActive(s) \/ StopReturns(s)
  \/ \E t \in Task : Cancel(s, t) \/ EmitCanceled(s, t)

Next ==
  \/ \E t \in Task :
       \/ \E background \in BOOLEAN : Register(t, background)
       \/ RunStep(t) \/ SubmitStep(t)
       \/ TimerFires(t) \/ ContextEnds(t) \/ ToolTimesOut(t)
       \/ MoveManual(t) \/ EmitManual(t)
  \/ \E s \in Stopper : Abort(s) \/ StopStep(s)

Spec == Init /\ [][Next]_vars

\* A run is an agent loop with bounded rounds, which ends; the other fair
\* steps only wait for a lock.  Timers, contexts and users owe nothing.
FairSpec ==
  /\ Spec
  /\ \A t \in Task : WF_vars(RunStep(t)) /\ WF_vars(SubmitStep(t))
  /\ \A s \in Stopper : WF_vars(StopStep(s))

-----------------------------------------------------------------------------
(* Properties.                                                             *)

TypeOK ==
  /\ status \in [Task -> {"none"} \union Active \union Terminal]
  /\ reason \in [Task -> Reasons]
  /\ done \in [Task -> BOOLEAN] /\ ended \in [Task -> BOOLEAN]
  /\ submitter \in [Task -> Waits \union Answers]
  /\ runner \in [Task -> Runs] /\ mover \in [Task -> BOOLEAN]
  /\ stopper \in [Stopper -> {"idle", "aborted", "canceling", "over"}]
  /\ ids \in [Stopper -> SUBSET Task] /\ owed \in [Stopper -> SUBSET Task]
  /\ known \in [Stopper -> SUBSET Task]
  /\ shown \in [Task -> {"none", "backgrounded"} \union Active \union Terminal]
  /\ outcomes \in [Task -> SUBSET Terminal] /\ fed \in [Task -> Nat]

\* However the end of its run, Stop and the move to the background
\* interleave, a task is announced to have ended in one way only, the way its
\* record says, and its result enters the conversation at most once.  (The
\* canceled event itself may come twice: from Cancel and from finish.)
OneOutcome ==
  \A t \in Task : outcomes[t] \subseteq {status[t]} /\ fed[t] <= 1

\* The manager keeps the contract of its tasks (TaskContract): neither a late
\* result nor a late cancellation, nor the start of a task cancelled in the
\* queue, changes how a task ended; each step ends, announces or answers one
\* task or nothing that its callers can see.
Ended(t) == IF status[t] \in Terminal THEN status[t] ELSE "none"
AnswerTo(t) == IF submitter[t] \in Answers THEN submitter[t] ELSE "none"
Contract == INSTANCE TaskContract WITH
              outcome <- [t \in Task |-> Ended(t)], announced <- outcomes,
              answer <- [t \in Task |-> AnswerTo(t)]
KeepsContract == Contract!Spec

\* What Submit answers is so: a result only after the run is over, and a
\* background task only if it was moved there, but for one case: the waiting
\* call's context ended when the task had ended as well.
Answered ==
  \A t \in Task :
    /\ submitter[t] = "result" => done[t] /\ status[t] \in Terminal
    /\ submitter[t] = "background" =>
         reason[t] # "none" \/ (ended[t] /\ status[t] \in Terminal)

\* Stop reaches every task that was registered when CancelActive read the
\* table, queued ones and those of other streams too.
StopReaches ==
  \A s \in Stopper : stopper[s] = "over" => \A t \in known[s] : status[t] \in Terminal

\* Once the goroutine of a task is over, the last event the browser got is the
\* task's end; only a move to the background that overlapped the end may come
\* after it.  (Without finish's second canceled event, a running event that a
\* cancellation overtook would be the last.)
LastWord ==
  \A t \in Task : runner[t] = "over" =>
    \/ shown[t] = status[t] /\ shown[t] \in Terminal
    \/ shown[t] = "backgrounded" /\ reason[t] \in {"timeout", "manual"}

\* A submitted task always gets its caller an answer, with or without a
\* timeout, also when it is cancelled.
SubmitReturns ==
  \A t \in Task : (submitter[t] = "registered") ~> (submitter[t] \in Answers)

=============================================================================
