----------------------------- MODULE ChatSession -----------------------------
(***************************************************************************)
(* The chat of one user: the WebSocket handler that owns the current       *)
(* session (src/src/interaction/web/handler.go), the in-memory history of  *)
(* the ConversationManager and the session's files (SessionStore).         *)
(*                                                                         *)
(* Two kinds of goroutines interleave.  A stream goroutine holds           *)
(* streamState: it answers a user prompt, a skill command or a finished    *)
(* SubAgent task, or runs a manual compaction.  A connection's read loop   *)
(* runs the session commands (new, clear, resume, delete), which take h.mu *)
(* but never streamState.  An action is one step that runs under one lock, *)
(* or one file operation that runs under none.                             *)
(*                                                                         *)
(* Nothing keeps a command from running while a stream does, or two of     *)
(* them on two connections.  The ghost crossed remembers the sessions at   *)
(* which that happened, so that properties can tell what such an overlap   *)
(* may damage from what it may not.                                        *)
(*                                                                         *)
(* The agent loop is reduced to what it appends and when it saves; module  *)
(* AgentLoop has its control.                                              *)
(***************************************************************************)
EXTENDS SessionStore, FiniteSets

CONSTANTS
  Sessions,     \* the session ids that CreateNew can draw
  Turns,        \* slots for stream goroutines
  Conns,        \* WebSocket connections (read loops)
  MaxMsgs,      \* messages ever made
  MaxCommands,  \* session commands
  MaxCrossed,   \* a new overlap starts only while fewer sessions are crossed
  MaxCompact,   \* compactions that reach the summary layer
  MaxTasks,     \* SubAgent tasks
  MaxFail,      \* failing writes
  MaxCrash      \* process restarts

ASSUME ConstantsAssumption ==
  {MaxMsgs, MaxCommands, MaxCrossed, MaxCompact, MaxTasks, MaxFail, MaxCrash} \subseteq Nat

VARIABLES
  active,     \* streamState.active
  pc,         \* pc[t]: where stream goroutine t is
  job,        \* job[t]: the locals of t
  conn,       \* conn[c]: what the read loop of c is in the middle of
  current,    \* h.current.ID (and conv.sessionID, set with it under h.mu)
  history,    \* the history of the ConversationManager
  persisted,  \* h.persistedMsgCount
  file,       \* file[s]: the files of session s
  order,      \* sessions with a meta.json, last updated first
  used,       \* session ids already drawn
  pending,    \* parent sessions of SubAgent tasks not yet delivered
  stale,      \* a compaction parted the history and its file, by replacing the
              \* one or failing after it rewrote the other: not reloaded since
  crossed,    \* sessions at which a command met a stream or another command
  spent       \* how much of each bound is used up

vars == <<active, pc, job, conn, current, history, persisted, file, order,
          used, pending, stale, crossed, spent>>
memory == <<current, history, persisted, stale>>
disk   == <<file, order>>

-----------------------------------------------------------------------------
(* Messages.  n numbers them in the order they were made; home is the      *)
(* session whose conversation they answer (a ghost: the code has no such   *)
(* field).  A "use" is an assistant message with tool_use blocks, a        *)
(* "result" the user message with their tool_results, a "task" the message *)
(* that carries a SubAgent's result.                                       *)

Kinds == {"user", "reply", "use", "result", "task", "summary", "boundary"}
Msg   == [n : Nat, home : Sessions, kind : Kinds]

NewMsg(kind, home, k) == [n |-> spent.msgs + k, home |-> home, kind |-> kind]
CanMake(k) == spent.msgs + k <= MaxMsgs
Spend(field, k) == [spent EXCEPT ![field] = @ + k]
SpendAndFail(field, fails) == [Spend(field, 1) EXCEPT !.fail = @ + fails]

-----------------------------------------------------------------------------
(* Goroutines.                                                             *)

\* The points at which a turn calls saveCurrentSession.
SavePoints == {"saveUse", "saveResult", "saveReply", "loopDone", "closing"}
PCs == {"free", "acquired", "start", "loop", "tools", "release",
        "snapshot", "summarise", "rewrite", "replace", "stuck"} \cup SavePoints

\* The places from which a goroutine reads the tool registry, whose lock can be
\* locked for ever (ToolRegistry), or writes to its WebSocket, which has no
\* deadline.
Blocking == {"start", "loop", "tools", "snapshot", "closing", "release"}

JobKinds == {"input", "skill", "task", "compact"}

\* The locals of a goroutine that has not started, and of a read loop between
\* two messages (s is any session).
NoJob(s)     == [kind |-> "input", home |-> s, sid |-> s, hist |-> <<>>]
NoCommand(s) == [at |-> "idle", sid |-> s, lines |-> <<>>]

ConnIdle(c)   == conn[c].at = "idle"
ConnsIdle     == \A c \in Conns : ConnIdle(c)
Goto(t, next) == pc' = [pc EXCEPT ![t] = next]

\* The sessions of the commands that are between their two steps.
Underway == {conn[c].sid : c \in {d \in Conns : ~ConnIdle(d)}}

\* A step of the command of c comes between the steps of a stream or of another
\* command.
Overlaps(c) == active \/ \E d \in Conns \ {c} : ~ConnIdle(d)
MayOverlap  == Cardinality(crossed) < MaxCrossed

\* manager.go:598 and session.go:657 take it that streamState keeps commands
\* and streams apart; the handler does not ask it.
MayCommand(c) ==
  /\ ConnIdle(c)
  /\ spent.commands < MaxCommands
  /\ Overlaps(c) => MayOverlap

\* The command of c, which is about session s, takes a step.
Crosses(c, s) ==
  crossed' = crossed \cup (IF Overlaps(c) THEN {current, current', s} \cup Underway ELSE {})

\* A stream starts.
Starts == crossed' = crossed \cup (IF ConnsIdle THEN {} ELSE {current} \cup Underway)

\* Mutant: tryAcquire without its test.
MayAcquireUnguarded == ConnsIdle \/ MayOverlap

MayAcquire == ~active /\ (ConnsIdle \/ MayOverlap)

-----------------------------------------------------------------------------
(* saveCurrentSessionLocked with history hist in memory: what the files,   *)
(* their order and persistedMsgCount can be afterwards.                    *)

Unsaved(hist) == SubSeq(hist, persisted + 1, Len(hist))

SaveOutcomes(hist) ==
  LET new == Unsaved(hist)
      failed(k) ==
        [file |-> [file EXCEPT ![current] = PartAppended(@, new, k)],
         order |-> IF file[current].dir THEN order ELSE Touched(current, order),
         persisted |-> persisted, fail |-> 1]
  IN  IF new = <<>>
      THEN {[file |-> file, order |-> order, persisted |-> persisted, fail |-> 0]}
      ELSE {[file |-> [file EXCEPT ![current] = Appended(@, new)],
             order |-> Touched(current, order),
             persisted |-> Len(hist), fail |-> 0]}
           \cup (IF spent.fail < MaxFail
                 THEN {failed(k) : k \in 0 .. Len(new)} ELSE {})

StoreSaved(o) == file' = o.file /\ order' = o.order

-----------------------------------------------------------------------------
(* Starting a stream.                                                      *)

\* streamState.tryAcquire succeeds; a busy caller returns an error and changes
\* nothing.
TryAcquire(t) ==
  /\ pc[t] = "free" /\ MayAcquire
  /\ active' = TRUE
  /\ Starts
  /\ Goto(t, "acquired")

\* On behalf of a prompt, a skill command or a compact request.
Request(t, kind) ==
  /\ TryAcquire(t)
  /\ IF kind = "compact" THEN spent.compact < MaxCompact ELSE CanMake(1)
  /\ job' = [job EXCEPT ![t].kind = kind]
  /\ UNCHANGED <<conn, memory, disk, used, pending, spent>>

\* On behalf of a finished SubAgent task whose parent conversation is s.
Continue(t, s) ==
  /\ TryAcquire(t)
  /\ s \in pending /\ CanMake(1)
  /\ pending' = pending \ {s}
  /\ job' = [job EXCEPT ![t].kind = "task", ![t].home = s]
  /\ UNCHANGED <<conn, memory, disk, used, spent>>

\* handleUserInput under h.mu: the prompt enters the history and is saved.
UserInput(t) ==
  /\ pc[t] = "acquired" /\ job[t].kind = "input" /\ CanMake(1)
  /\ LET hist == Append(history, NewMsg("user", current, 1)) IN
     /\ history' = hist
     /\ \E o \in SaveOutcomes(hist) :
          /\ StoreSaved(o)
          /\ persisted' = o.persisted
          /\ spent' = SpendAndFail("msgs", o.fail)
  /\ job' = [job EXCEPT ![t].home = current]
  /\ Goto(t, "start")
  /\ UNCHANGED <<active, conn, current, used, pending, stale, crossed>>

\* The skill branch of handleSlashCommand: the message is added under h.mu but
\* not saved.
SkillInput(t) ==
  /\ pc[t] = "acquired" /\ job[t].kind = "skill" /\ CanMake(1)
  /\ history' = Append(history, NewMsg("user", current, 1))
  /\ spent' = Spend("msgs", 1)
  /\ job' = [job EXCEPT ![t].home = current]
  /\ Goto(t, "start")
  /\ UNCHANGED <<active, conn, current, persisted, disk, used, pending, stale, crossed>>

\* runContinuationFromSubAgent got the stream: the result of a task whose
\* parent conversation is job.home goes into whatever session is current.
TaskInput(t) ==
  /\ pc[t] = "acquired" /\ job[t].kind = "task" /\ CanMake(1)
  /\ history' = Append(history, NewMsg("task", job[t].home, 1))
  /\ spent' = Spend("msgs", 1)
  /\ job' = [job EXCEPT ![t].home = current]
  /\ Goto(t, "start")
  /\ UNCHANGED <<active, conn, current, persisted, disk, used, pending, stale, crossed>>

\* Mutant: the error path of the skill branch forgets streamState.release.
SkillFailsKeepingStream(t) ==
  /\ pc[t] = "acquired" /\ job[t].kind = "skill"
  /\ Goto(t, "free")
  /\ UNCHANGED <<active, job, conn, memory, disk, used, pending, crossed, spent>>

\* The skill's Execute failed: handleSlashCommand releases the stream.
SkillFails(t) ==
  /\ pc[t] = "acquired" /\ job[t].kind = "skill"
  /\ Goto(t, "release")
  /\ UNCHANGED <<active, job, conn, memory, disk, used, pending, crossed, spent>>

\* runContinuationFromSubAgent drops the result: no connection, or 60 attempts
\* found the stream busy.
DropTask(s) ==
  /\ s \in pending
  /\ pending' = pending \ {s}
  /\ UNCHANGED <<active, pc, job, conn, memory, disk, used, crossed, spent>>

\* runStream's prologue reads the current session under h.mu; its hooks and
\* tool callbacks are then in place.
StartStream(t) ==
  /\ pc[t] = "start"
  /\ Goto(t, "loop")
  /\ UNCHANGED <<active, job, conn, memory, disk, used, pending, crossed, spent>>

-----------------------------------------------------------------------------
(* The agent loop, as far as the history and its saves go.                 *)

\* The model answers with a final text, the loop puts a cancellation mark in
\* its place, or it gives the fallback reply.
Reply(t) ==
  /\ pc[t] = "loop" /\ CanMake(1)
  /\ history' = Append(history, NewMsg("reply", job[t].home, 1))
  /\ spent' = Spend("msgs", 1)
  /\ Goto(t, "saveReply")
  /\ UNCHANGED <<active, job, conn, current, persisted, disk, used, pending, stale, crossed>>

\* The model asks for tools.
UseTools(t) ==
  /\ pc[t] = "loop" /\ CanMake(1)
  /\ history' = Append(history, NewMsg("use", job[t].home, 1))
  /\ spent' = Spend("msgs", 1)
  /\ Goto(t, "saveUse")
  /\ UNCHANGED <<active, job, conn, current, persisted, disk, used, pending, stale, crossed>>

\* persistAbortedTurn with tool_uses: the call and its synthetic results enter
\* the history together and are saved once.
AbortUse(t) ==
  /\ pc[t] = "loop" /\ CanMake(2)
  /\ history' = history \o <<NewMsg("use", job[t].home, 1), NewMsg("result", job[t].home, 2)>>
  /\ spent' = Spend("msgs", 2)
  /\ Goto(t, "saveReply")
  /\ UNCHANGED <<active, job, conn, current, persisted, disk, used, pending, stale, crossed>>

\* The loop ends with nothing to add: cancelled at the top of an iteration, or
\* the model call failed.
LoopEnds(t) ==
  /\ pc[t] = "loop"
  /\ Goto(t, "loopDone")
  /\ UNCHANGED <<active, job, conn, memory, disk, used, pending, crossed, spent>>

\* ExecuteBatch has run and its results enter the history.
ToolsDone(t) ==
  /\ pc[t] = "tools" /\ CanMake(1)
  /\ history' = Append(history, NewMsg("result", job[t].home, 1))
  /\ spent' = Spend("msgs", 1)
  /\ Goto(t, "saveResult")
  /\ UNCHANGED <<active, job, conn, current, persisted, disk, used, pending, stale, crossed>>

\* The agent tool starts a background SubAgent task; its result is due to this
\* turn's session.
StartTask(t) ==
  /\ pc[t] = "tools" /\ spent.tasks < MaxTasks /\ job[t].home \notin pending
  /\ pending' = pending \cup {job[t].home}
  /\ spent' = Spend("tasks", 1)
  /\ UNCHANGED <<active, pc, job, conn, memory, disk, used, crossed>>

\* Mutant: the deferred function releases without saving.
PanicUnsaved(t) ==
  /\ pc[t] \in {"start", "loop", "tools"}
  /\ Goto(t, "release")
  /\ UNCHANGED <<active, job, conn, memory, disk, used, pending, crossed, spent>>

\* A panic in the loop is recovered by runStream's deferred function, which
\* saves and releases; OnLoopDone is skipped.
Panic(t) ==
  /\ pc[t] \in {"start", "loop", "tools"}
  /\ Goto(t, "closing")
  /\ UNCHANGED <<active, job, conn, memory, disk, used, pending, crossed, spent>>

AfterSave(at) == CASE at = "saveUse"    -> "tools"
                   [] at = "saveResult" -> "loop"
                   [] at = "saveReply"  -> "loopDone"
                   [] at = "loopDone"   -> "closing"
                   [] OTHER             -> "release"

\* saveCurrentSession, called by OnHistoryChanged, OnLoopDone and runStream's
\* deferred function.
Save(t) ==
  /\ pc[t] \in SavePoints
  /\ \E o \in SaveOutcomes(history) :
       /\ StoreSaved(o)
       /\ persisted' = o.persisted
       /\ spent' = Spend("fail", o.fail)
  /\ Goto(t, AfterSave(pc[t]))
  /\ UNCHANGED <<active, job, conn, current, history, used, pending, stale, crossed>>

\* streamState.release.
Release(t) ==
  /\ pc[t] = "release"
  /\ active' = FALSE
  /\ Goto(t, "free")
  /\ job' = [job EXCEPT ![t] = NoJob(current)]
  /\ UNCHANGED <<conn, memory, disk, used, pending, crossed, spent>>

\* The goroutine never comes back from the registry's lock, or from a write to a
\* client that reads no more.
Blocks(t) ==
  /\ pc[t] \in Blocking
  /\ Goto(t, "stuck")
  /\ job' = [job EXCEPT ![t] = NoJob(current)]
  /\ UNCHANGED <<active, conn, memory, disk, used, pending, crossed, spent>>

-----------------------------------------------------------------------------
(* The summary layer of compaction, inside runOneLLM or a manual request.  *)
(* None of it runs under h.mu.                                             *)

AfterCompact(t) == Goto(t, IF job[t].kind = "compact" THEN "release" ELSE "loop")

\* runAutoCompaction reads conv.sessionID, runManualCompact reads h.current.
CompactBegin(t) ==
  /\ IF job[t].kind = "compact" THEN pc[t] = "acquired" ELSE pc[t] = "loop"
  /\ spent.compact < MaxCompact
  /\ job' = [job EXCEPT ![t].sid = current]
  /\ spent' = Spend("compact", 1)
  /\ Goto(t, "snapshot")
  /\ UNCHANGED <<active, conn, memory, disk, used, pending, crossed>>

\* Compactor.Compact takes ch.History(); a history of one message is left alone.
CompactSnapshot(t) ==
  /\ pc[t] = "snapshot"
  /\ IF Len(history) > 1
     THEN /\ job' = [job EXCEPT ![t].hist = history,
                               ![t].home = IF job[t].kind = "compact" THEN current ELSE @]
          /\ Goto(t, "summarise")
     ELSE AfterCompact(t) /\ UNCHANGED job
  /\ UNCHANGED <<active, conn, memory, disk, used, pending, crossed, spent>>

\* The summary request fails or is empty: nothing was touched.
SummaryFails(t) ==
  /\ pc[t] = "summarise"
  /\ AfterCompact(t)
  /\ UNCHANGED <<active, job, conn, memory, disk, used, pending, crossed, spent>>

\* splitByTailTokens keeps at least one message on each side and never parts a
\* tool_result from the tool_use before it; where it cuts depends on sizes.
SplitPoints(hist) ==
  {i \in 1 .. Len(hist) - 1 : ~(hist[i].kind = "use" /\ hist[i + 1].kind = "result")}

\* The summary arrived: ArchiveMessages stores the early part, and the new
\* history is summary, boundary and the recent part.
CompactArchive(t) ==
  /\ pc[t] = "summarise" /\ CanMake(2)
  /\ \E i \in SplitPoints(job[t].hist) :
       LET hist == job[t].hist
           home == job[t].home
       IN  /\ file' = [file EXCEPT ![job[t].sid] = Archived(@, SubSeq(hist, 1, i))]
           /\ job' = [job EXCEPT ![t].hist =
                        <<NewMsg("summary", home, 1), NewMsg("boundary", home, 2)>>
                        \o SubSeq(hist, i + 1, Len(hist))]
  /\ spent' = Spend("msgs", 2)
  /\ Goto(t, "rewrite")
  /\ UNCHANGED <<active, conn, memory, order, used, pending, crossed>>

\* RewriteActiveMessages replaces messages.jsonl of the session read first.
CompactRewrite(t) ==
  /\ pc[t] = "rewrite"
  /\ file' = [file EXCEPT ![job[t].sid] = Rewritten(@, job[t].hist)]
  /\ order' = Touched(job[t].sid, order)
  /\ Goto(t, "replace")
  /\ UNCHANGED <<active, job, conn, memory, used, pending, crossed, spent>>

\* Archiving fails, perhaps with a part of the originals stored.
ArchiveFails(t) ==
  /\ pc[t] = "summarise" /\ spent.fail < MaxFail
  /\ \E i \in 0 .. Len(job[t].hist) - 1 :
       file' = [file EXCEPT ![job[t].sid] = Archived(@, SubSeq(job[t].hist, 1, i))]
  /\ spent' = Spend("fail", 1)
  /\ AfterCompact(t)
  /\ UNCHANGED <<active, job, conn, memory, order, used, pending, crossed>>

\* Rewriting fails before the rename, or at meta.json after it.  In both cases
\* the history and its count stay as they were.
RewriteFails(t) ==
  /\ pc[t] = "rewrite" /\ spent.fail < MaxFail
  /\ \/ UNCHANGED <<file, stale>>
     \/ /\ file' = [file EXCEPT ![job[t].sid].lines = job[t].hist]
        /\ stale' = TRUE
  /\ spent' = Spend("fail", 1)
  /\ AfterCompact(t)
  /\ UNCHANGED <<active, job, conn, current, history, persisted, order, used, pending, crossed>>

\* ReplaceHistory; persistedMsgCount belongs to the handler and stays.
CompactReplace(t) ==
  /\ pc[t] = "replace"
  /\ history' = job[t].hist
  /\ stale' = TRUE
  /\ AfterCompact(t)
  /\ UNCHANGED <<active, job, conn, current, persisted, disk, used, pending, crossed, spent>>

-----------------------------------------------------------------------------
(* Session commands, run by a connection's read loop.                      *)

Fresh == Sessions \ used

\* Mutants: the count is not reset; the history is not reset.
SwitchToKeepingCount(s, msgs) ==
  current' = s /\ history' = msgs /\ UNCHANGED persisted
SwitchToKeepingHistory(s, msgs) ==
  current' = s /\ UNCHANGED history /\ persisted' = Len(msgs)

\* The handler's memory after it switched to session s whose messages are msgs.
SwitchTo(s, msgs) ==
  /\ current' = s
  /\ history' = msgs
  /\ persisted' = Len(msgs)

\* handleNewSession: save, then a fresh session that exists in memory only.
NewSession(c) ==
  /\ MayCommand(c)
  /\ \E o \in SaveOutcomes(history), s \in Fresh :
       /\ StoreSaved(o)
       /\ SwitchTo(s, <<>>)
       /\ stale' = FALSE
       /\ used' = used \cup {s}
       /\ spent' = SpendAndFail("commands", o.fail)
  /\ UNCHANGED <<active, pc, job, conn, pending>>
  /\ Crosses(c, current)

\* handleClearSession: memory is emptied whether or not the file could be; a
\* failure may come after the messages are gone.
ClearSession(c) ==
  /\ MayCommand(c)
  /\ SwitchTo(current, <<>>)
  /\ stale' = FALSE
  /\ \/ /\ file' = [file EXCEPT ![current] = Truncated(@)]
        /\ order' = Touched(current, order)
        /\ spent' = Spend("commands", 1)
     \/ /\ spent.fail < MaxFail
        /\ \/ UNCHANGED file
           \/ file[current].dir /\ file' = [file EXCEPT ![current] = PartTruncated(@)]
        /\ spent' = SpendAndFail("commands", 1)
        /\ UNCHANGED order
  /\ UNCHANGED <<active, pc, job, conn, used, pending>>
  /\ Crosses(c, current)

\* handleResumeSession before it takes h.mu: the listed session s is loaded.
ResumeLoad(c, s) ==
  /\ MayCommand(c)
  /\ file[s].listed
  /\ conn' = [conn EXCEPT ![c] = [at |-> "resume", sid |-> s, lines |-> file[s].lines]]
  /\ spent' = Spend("commands", 1)
  /\ UNCHANGED <<active, pc, job, memory, disk, used, pending>>
  /\ Crosses(c, s)

\* handleResumeSession under h.mu: save, then switch to what was loaded.
ResumeSwitch(c) ==
  /\ conn[c].at = "resume"
  /\ \E o \in SaveOutcomes(history) :
       /\ StoreSaved(o)
       /\ spent' = Spend("fail", o.fail)
  /\ SwitchTo(conn[c].sid, conn[c].lines)
  \* what was loaded is older than this save if the session resumes itself
  /\ stale' = (stale /\ conn[c].sid = current)
  /\ conn' = [conn EXCEPT ![c] = NoCommand(current')]
  /\ UNCHANGED <<active, pc, job, used, pending>>
  /\ Crosses(c, conn[c].sid)

\* handleDeleteSession before it takes h.mu: the directory is removed.
DeleteFiles(c, s) ==
  /\ MayCommand(c)
  /\ file[s].dir
  /\ file' = [file EXCEPT ![s] = Deleted(@)]
  /\ order' = Dropped(s, order)
  /\ conn' = [conn EXCEPT ![c].at = "delete", ![c].sid = s]
  /\ spent' = Spend("commands", 1)
  /\ UNCHANGED <<active, pc, job, memory, used, pending>>
  /\ Crosses(c, s)

\* The process's memory when it opens the session updated last, or a fresh one.
OpenLatest(files, ord) ==
  /\ stale' = FALSE
  /\ IF ord # <<>>
     THEN SwitchTo(Head(ord), files[Head(ord)].lines) /\ UNCHANGED used
     ELSE \E s \in Fresh : SwitchTo(s, <<>>) /\ used' = used \cup {s}

\* handleDeleteSession under h.mu: the deleted session may be the current one.
DeleteSwitch(c) ==
  /\ conn[c].at = "delete"
  /\ IF current = conn[c].sid
     THEN OpenLatest(file, order)
     ELSE UNCHANGED <<memory, used>>
  /\ conn' = [conn EXCEPT ![c] = NoCommand(current')]
  /\ UNCHANGED <<active, pc, job, disk, pending, spent>>
  /\ Crosses(c, conn[c].sid)

-----------------------------------------------------------------------------
(* The process dies and is started again: NewHandler opens the latest      *)
(* session.                                                                *)

\* What a save that may be under way is writing.
BeingSaved ==
  {Unsaved(history)}
  \cup {Unsaved(Append(history, NewMsg("user", current, 1))) :
          t \in {u \in Turns : pc[u] = "acquired" /\ job[u].kind = "input"}}

\* The files and their order the process leaves behind: as they are, or with
\* the first k messages of a save, or with meta.json half-written after them.
Remains ==
  {[file |-> file, order |-> order]}
  \cup UNION {
    {[file |-> [file EXCEPT ![current] = PartAppended(@, w, k)],
      order |-> IF file[current].dir THEN order ELSE Touched(current, order)] : k \in 0 .. Len(w)}
    \cup {[file |-> [file EXCEPT ![current] = MetaTorn(Appended(@, w))],
           order |-> Dropped(current, order)]}
    : w \in BeingSaved \ {<<>>}}

Crash ==
  /\ spent.crash < MaxCrash
  /\ \E r \in Remains : StoreSaved(r) /\ OpenLatest(r.file, r.order)
  /\ active' = FALSE
  /\ pc' = [t \in Turns |-> "free"]
  /\ conn' = [c \in Conns |-> NoCommand(current')]
  /\ pending' = {}
  \* the number of the prompt being written must not be drawn again
  /\ spent' = [Spend("msgs", IF CanMake(1) THEN 1 ELSE 0) EXCEPT !.crash = @ + 1]
  /\ job' = [t \in Turns |-> NoJob(current')]
  /\ UNCHANGED crossed

-----------------------------------------------------------------------------
Init ==
  /\ active = FALSE
  /\ pc = [t \in Turns |-> "free"]
  /\ current \in Sessions /\ used = {current}
  /\ job = [t \in Turns |-> NoJob(current)]
  /\ conn = [c \in Conns |-> NoCommand(current)]
  /\ history = <<>> /\ persisted = 0 /\ stale = FALSE
  /\ file = [s \in Sessions |-> NoFiles]
  /\ order = <<>>
  /\ pending = {} /\ crossed = {}
  /\ spent = [msgs |-> 0, commands |-> 0, compact |-> 0, tasks |-> 0, fail |-> 0, crash |-> 0]

\* The steps a stream goroutine takes once it has the stream.
TurnStep(t) ==
  \/ UserInput(t) \/ SkillInput(t) \/ TaskInput(t) \/ SkillFails(t)
  \/ StartStream(t) \/ Reply(t) \/ UseTools(t) \/ AbortUse(t) \/ LoopEnds(t)
  \/ ToolsDone(t) \/ StartTask(t) \/ Panic(t) \/ Save(t) \/ Release(t)
  \/ CompactBegin(t) \/ CompactSnapshot(t) \/ SummaryFails(t) \/ CompactArchive(t)
  \/ CompactRewrite(t) \/ ArchiveFails(t) \/ RewriteFails(t) \/ CompactReplace(t)

Command(c) ==
  \/ NewSession(c) \/ ClearSession(c) \/ ResumeSwitch(c) \/ DeleteSwitch(c)
  \/ \E s \in Sessions : ResumeLoad(c, s) \/ DeleteFiles(c, s)

Next ==
  \/ \E t \in Turns : \/ \E k \in {"input", "skill", "compact"} : Request(t, k)
                      \/ \E s \in Sessions : Continue(t, s)
                      \/ TurnStep(t) \/ Blocks(t)
  \/ \E c \in Conns : Command(c)
  \/ \E s \in Sessions : DropTask(s)
  \/ Crash

Spec == Init /\ [][Next]_vars

\* A goroutine that holds the stream keeps running unless it Blocks: model calls
\* return or are cancelled, tools have a timeout, the loop has a maximum number
\* of rounds.
FairSpec == Spec /\ \A t \in Turns : WF_vars(TurnStep(t))

-----------------------------------------------------------------------------
(* Properties.                                                             *)

JobType == [kind : JobKinds, home : Sessions, sid : Sessions, hist : Seq(Msg)]
ConnType == [at : {"idle", "resume", "delete"}, sid : Sessions, lines : Seq(Msg)]
SpentType == [msgs : Nat, commands : Nat, compact : Nat, tasks : Nat, fail : Nat, crash : Nat]

\* Type invariant.
TypeOK ==
  /\ active \in BOOLEAN /\ stale \in BOOLEAN
  /\ pc \in [Turns -> PCs]
  /\ job \in [Turns -> JobType]
  /\ conn \in [Conns -> ConnType]
  /\ current \in Sessions /\ used \subseteq Sessions /\ pending \subseteq Sessions
  /\ crossed \subseteq Sessions
  /\ history \in Seq(Msg) /\ persisted \in Nat
  /\ file \in [Sessions -> Files(Msg)]
  /\ order \in Seq(Sessions)
  /\ spent \in SpentType

\* streamState admits one stream goroutine at a time, whoever asked for it
\* (prompt, skill, SubAgent result, manual compaction), and it is active exactly
\* while one of them is between tryAcquire and release.
Holders == {t \in Turns : pc[t] # "free"}
StreamExclusive ==
  /\ \A t, u \in Holders : t = u
  /\ active <=> Holders # {}

\* Whatever a turn makes ends up in the file of the session whose prompt it
\* answers, across session switches, crashes and compactions; a message can get
\* into the file of another session only if commands crossed streams at both.
SameHome(r, s) == r = s \/ {r, s} \subseteq crossed
HomeOnly ==
  \A s \in Sessions : \A m \in ToSet(file[s].lines) : m.kind # "task" => SameHome(m.home, s)

\* Once the stream is idle everything the user has seen in the current session
\* is on disk: what a restart reloads is what the history holds.
Settled == ~active /\ ConnsIdle
HistoryOnDisk == Settled => ToSet(history) \subseteq ToSet(file[current].lines)

\* The same while no write has failed, in a session that no command crossed a
\* stream at, whatever happened at others, as long as no compaction has replaced
\* the history since the session was opened: then the file is the history,
\* message by message, with no gap, duplicate or leftover.
FileIsHistory ==
  Settled /\ ~stale /\ spent.fail = 0 /\ current \notin crossed => file[current].lines = history

\* The messages that persistedMsgCount counts are on disk, in spite of failing
\* writes and restarts and not only when the stream is idle, in a session that no
\* command crossed a stream at (but for a compaction: while it has rewritten the
\* file and not yet replaced the history, and after it failed there).
CountedIsStored ==
  ConnsIdle /\ ~stale /\ (\A t \in Turns : pc[t] # "replace") /\ current \notin crossed =>
    \A i \in 1 .. persisted :
      i <= Len(history) /\ history[i] \in ToSet(file[current].lines)

\* No save, switch, restart or compaction takes a message of the conversation
\* out of its file without moving it to the archive, nor anything out of the file
\* of another session, unless a command crossed a stream at that session; only
\* clear and delete empty a file.  (What a failed clear left behind is no part of
\* the conversation.)
NothingDropped ==
  [][\A s \in Sessions \ crossed' :
       LET gone == ToSet(file[s].lines) \ ToSet(file'[s].lines)
       IN  \/ file'[s].lines = <<>>
           \/ gone \cap ToSet(history) \subseteq file'[s].archive /\ (s # current => gone = {})]_vars

\* No compaction stands between the history and its file, and the current session
\* is not being deleted.
Steady ==
  /\ ~stale
  /\ \A t \in Turns : pc[t] # "replace"
  /\ \A c \in Conns : conn[c].at = "delete" => conn[c].sid # current

\* All this together: what the user says in a session is its log and comes back
\* from it, through every save, switch, compaction and restart (Transcript), but
\* for the sessions at which a command crossed a stream.
Conversation ==
  INSTANCE Transcript WITH
    Session <- Sessions, open <- current, said <- history,
    log     <- [s \in Sessions |-> file[s].lines],
    archive <- [s \in Sessions |-> file[s].archive],
    exact   <- Steady /\ spent.fail = 0,
    lost    <- crossed
KeepsTranscript == Conversation!Spec

\* The handler never stays busy: every stream that starts is released, unless its
\* goroutine blocks for ever.
StreamReleased == active ~> (~active \/ \E t \in Turns : pc[t] = "stuck")

=============================================================================
