# MetaAtoms: a verification development in TLA+

MetaAtoms is a coding agent behind a web page: a Go server keeps one runtime per
user, the browser talks to it over a WebSocket, and a ReAct loop alternates
requests to a language model with batches of tool calls. This directory holds
TLA+ modules that model what decides the fate of a conversation, of its tasks,
tools, hooks, memories and runtimes, TLC configurations that check them on small
instances, and theorems about them that TLAPS checks for every value of the
constants.

All paths below are relative to `src/src/`.

## 1. The system

| Component | Source | State it keeps | Operations | What makes it correct |
|---|---|---|---|---|
| Chat handler | `interaction/web/handler.go` | `stream` (streamState), `current` session, `persistedMsgCount`, all but the first under `h.mu` | user_input, skill commands, abort_stream, compact, new/clear/resume/delete session, SubAgent results, saves, cards and status messages | one stream at a time, always released; the file of a session is its conversation; a turn stays in its session; what is shown is what happened |
| Session store | `memory/session` | per session: `messages.jsonl` (append only), `meta.json`, `history_archive.jsonl` | AppendMessages, TruncateMessages, Load, LoadLatest, ListSessions, Delete, ArchiveMessages, RewriteActiveMessages | nothing leaves a file without reaching the archive; a restart finds what was counted |
| Conversation manager | `engine/conversation/manager.go` | `history`, `sessionID`, token usage, texts of prompt hooks | AddMessage, Reset, ReplaceHistory, runOneLLM, automatic and emergency compaction, usage | one retry per request; cancellation returns what has arrived; the use shown is of the present context |
| Agent loop | `engine/conversation/agent_loop.go` | iteration, the turn's results | rounds, termination prompt, reply guarantee, aborted turns | tool_use/tool_result pairing, a reply, bounded requests, Stop honoured, every turn ends |
| Tool handler | `engine/conversation/tool_handler.go` | a goroutine and a channel per call | ExecuteBatch, Execute, doExecute | order of writes, paired events, a batch always returns, no leaked sender |
| Tool registry | `tool` | the map of tools under an RWMutex | Register, Get, List, ToSpecs | a lookup is answered whatever registers |
| Compaction | `memory/context` | breaker counters per session, stored tool results | Compact, EmergencyCompact, light and summary layer | originals archived before they go; breaker trips and resets; pairs not parted |
| Message router | `interaction/web/router.go`, `websocket.go` | connections | one read loop per connection, dynamic routing, broadcast | messages of a connection in order |
| SubAgent tasks | `subagent/background` | task records | Submit, Cancel, CancelActive, MoveToBackground, finish | one end per task, announced and fed back once; answers that are so; a waiter always returns |
| SubAgent runs | `subagent/runtime`, `subagent/tool`, `subagent/definition` | none (isolated loop) | role, tool view, permission, fork | a run is contained and starts from a history that is accepted |
| MCP session and pool | `mcp/session`, `mcp/reconnect`, `mcp/adapter` | pending calls, health, transport; the pool's sessions | request, recvLoop, EnsureHealthy, Close, RegisterAndStart, CloseAll | every call returns; a late answer reaches nobody else; a reconnect never leaves two readers; what is closed stays so |
| MCP transports | `mcp/transport`, `mcp/jsonrpc` | pipes, HTTP clients | Connect, Send, Recv, Close | delivers or errs |
| Hook engine | `hook` | once-marks, a text per prompt executor | Dispatch, sync and async actions, conditions, interpolation | a once-hook runs once; a prompt hook's text reaches the model; a hook ends |
| Tenant runtimes | `main.go` | runtime, fingerprint and connections per user | runtimeForUser, hot reload, refresher, CloseUser, CloseAll | one live runtime per user; it serves what is open; what is replaced stops |
| Memory review | `memory/autolearn` | reviews in flight, memory files, `MEMORY.md` | OnLoopDone, runReview, WriteMemory, UpsertIndexEntry | the index and the files agree; a memory is whole |
| Model providers | `llm` | none | StreamChat of Anthropic and OpenAI, retries | one last chunk; whole calls in order; requests that are accepted |
| Configuration | `config`, `mcp/config` | none | layers, defaults, validation | the user's setting wins field by field |
| Skills, roles, slash commands | `skill`, `subagent/sources`, `command` | catalogues | load by level | the highest level wins |
| Permissions, sandbox | `security` | none | Check, path resolution | decisions on strings |
| Prompts, auth, logging, project browser, builtin tools, front end | `engine/prompt`, `auth`, `logger`, `interaction/web/project_*`, `tool/builtin`, `static` | none that the properties need | | |

How they meet: a connection's read loop resolves each message to the user's
runtime (which may be rebuilt just then) and calls its handler; the handler
starts a stream goroutine (`runStream`), which calls `RunAgentLoop`; the loop
calls the provider, `ExecuteBatch`, and, through the callbacks
`OnHistoryChanged` and `OnLoopDone`, the handler's save, which appends to the
session's files, and the memory review, which runs on its own. Compaction runs
inside the loop's requests or in a goroutine of its own and writes the same
files. A finished SubAgent task calls the handler back from its own goroutine.
Session commands run in the read loops, beside the stream. MCP servers start in
the background and register their tools while turns already run.

The hard parts, each listed with its line in `PROJECT.json` ("hazards"): the
interleaving of streams, commands and callbacks over one unsynchronised
history; `persistedMsgCount`, a count of messages of a history that others
replace; writes that fail half way and restarts between two saves; the user's
Stop racing answers, tools and the loop's last requests; tools that outlive
their timeout; tasks whose end, cancellation and move to the background race;
MCP servers that die while a session reconnects to them; hot reloads under open
connections and running streams; reviews that share files and an index; hooks
that are dispatched in parallel; and computations with many cases (splits,
conditions, layers, streams) that have to agree with what others assume.

## 2. Modules

| Module | Models | Uses |
|---|---|---|
| `SessionStore` | operators on one session's files | |
| `Transcript` | the conversations the browser may come back to (abstract) | |
| `ChatSession` | the handler, the history and the files together | `SessionStore`; implements `Transcript` |
| `MCChatSession` | the symmetry set for TLC | `ChatSession` |
| `TurnContract` | what a turn of the loop is to its caller (abstract) | |
| `AgentLoop` | turns of the ReAct loop | implements `TurnContract` |
| `BatchContract` | what a batch is to the loop, the browser and the files (abstract) | |
| `ToolBatch` | one `ExecuteBatch` | implements `BatchContract` |
| `TaskContract` | what a SubAgent task is to its callers (abstract) | |
| `SubAgentTasks` | the SubAgent task manager | implements `TaskContract` |
| `SessionContract` | what a session is to its calls and to Close (abstract) | |
| `McpSession` | one session with an MCP server | implements `SessionContract` |
| `Tenant` | the runtimes of a user, their connections, pools and streams | |
| `Hooks` | the dispatch of hooks under an agent loop | |
| `Reviews` | memory reviews and their files | |
| `ToolRegistry` | the registry's lock | |
| `HookContext`, `Settings`, `Compaction`, `Streams`, `Catalog`, `View`, `MemoryIndex` | sequential computations, as operators | |
| `HookRules` | the rest of the hooks' computations | `HookContext` |
| `Cases` | what the checks of computations share: a state is an input | |
| `HookCases`, `Summaries`, `AgentRuns` | inputs and properties that are proved as well as checked | `Cases`; instances of `HookContext`, `Compaction`, `Catalog` |
| `Algorithms` | the inputs and the properties of the other operators | these three; instances of all of them |
| `ChatSessionProofs`, `AgentLoopProofs`, `ToolBatchProofs`, `SubAgentTasksProofs`, `McpSessionProofs`, `TenantProofs`, `HooksProofs`, `ReviewsProofs` | theorems | the module they are about, `TLAPS` |

### ChatSession

An action is a step that runs under one lock, or one file operation that runs
under none. `pc[t]` says where stream goroutine `t` is in `handleUserInput`,
`runStream` or `runManualCompact`; `job[t]` holds its local variables (`sid` the
session id a compaction reads first, `hist` the history it works on). `conn[c]`
holds what a connection's read loop has read before it takes `h.mu`: resume
loads the file first, delete removes the directory first. `active` is
`streamState.active`; `current`, `history` and `persisted` are `h.current.ID`,
`conv.history` and `h.persistedMsgCount`.

| Action | Code |
|---|---|
| `Request`, `Continue` | `tryAcquire` for a prompt, skill, compaction; for a SubAgent result |
| `UserInput`, `SkillInput`, `TaskInput`, `SkillFails` | the message enters the history (only a prompt is saved at once); the failing skill releases |
| `Reply`, `UseTools`, `ToolsDone`, `AbortUse`, `LoopEnds` | what `AgentLoop` appends before a save |
| `Save` | `saveCurrentSession`, with every prefix of the new messages as the outcome of a failing write |
| `Panic`, `Release` | `runStream`'s deferred function |
| `CompactBegin` ... `CompactReplace` | `Compactor.Compact` and `SummaryCompactor.Compact`, step by step |
| `NewSession`, `ClearSession`, `ResumeLoad`/`ResumeSwitch`, `DeleteFiles`/`DeleteSwitch` | the session commands |
| `ArchiveFails`, `RewriteFails` | the two writes of a compaction fail |
| `Blocks` | a goroutine that never comes back: from the registry's lock (`ToSpecs`, `handler.go:735`; the lookup of a tool) or from a write to the browser, which has no deadline (`handler.go:2334`) |
| `Crash` | the process dies, possibly inside a save, and `NewHandler` opens the latest session |

A failing write may leave any part of its work behind: `Save` a part of the
lines, `ArchiveFails` a part of the archive, `ClearSession` an emptied file, and
`RewriteFails` the whole new file, when `updateSessionMeta` errs after the rename
(`archive.go:140-149`): history and count stay as they were then.

A message carries two ghosts the code does not have: a number, and `home`, the
session whose prompt it answers. `stale` is a ghost too: a compaction has
replaced the history, or failed after it rewrote the file, and nothing has
reloaded it since.

Two comments of the code (`manager.go:598`, `session.go:657`) take it that
streamState serialises everything that uses the history. It does not: session
commands take `h.mu` only, and nothing but the front end of one tab keeps them
from coming in the middle of a stream, or of each other. `ChatSession` lets them.
Its ghost `crossed` collects the sessions at which that has happened: the current
one before and after the command's step, the one the command is about, and those
of the other commands under way. What the properties claim of files is claimed of
all sessions that are not in `crossed`, whatever happened at those that are.

`Transcript` is what a user counts on when a conversation comes back: the log of
the open session grows at its end by what is said, what leaves a log is in its
archive unless the user cleared or deleted the session, and a session that is
opened says what its log holds. `ChatSession` implements it:

    Conversation == INSTANCE Transcript WITH open <- current, said <- history, ...

with `exact` for "no write failed, no compaction stands between the history and
its file since the session was opened, and the session is not being deleted", and
`lost` for `crossed`: nothing is claimed of the log of a lost session, and what
goes on at lost sessions leaves the logs of all others as they are. `KeepsTranscript` is `Conversation!Spec`; a save, a switch, a
step of a compaction or a restart each has an action of `Transcript` to answer to.

### AgentLoop

One variable per local of `AgentLoop` and `runOneLLM` that decides control
(`iter`, `site` the call of `runOneLLM`, `retried`), the history with the tool
calls of each message, `saved` the prefix that `OnHistoryChanged` has announced,
`cancelled` the context. The provider's answer (text or not, 0 to `MaxUses` tool
calls, an error, too long) is nondeterministic, and so are the size of the
context and the moment of Stop. A turn starts from the history the last one left.

`TurnContract` is a turn as the handler, the provider and the user see it: what
is announced grows by whole messages, calls are answered before anything else is
said, the prompts that the loop makes up come out with the reply they are for,
calls are begun at most once after a Stop, only a Stop aborts, and a turn ends
with a reply or with the reason why there is none. The mapping takes for the
conversation what was announced, `SubSeq(history, 1, saved)`, for `pending` the
calls of the last message while the tools run, and for `prompting` that
`saved < Len(history)`; iterations, requests, retries, compactions and the size of the
context are not in it. `KeepsTurnContract` is `Contract!Spec`.

### ToolBatch

`call[i]` is where `Execute` is with call `i`, `body[i]` the goroutine that runs
the tool, `channel[i]` its buffered channel. Timeout and cancellation give a
call up and leave its goroutine running. A tool may itself report a cancellation
or a timeout that nobody here asked for (`ToolReturns`), as an MCP call does when
the context its session's reader runs under has ended (`mcp/session/session.go:692`),
and `Outcome` is `classifyStatus`: any error counts as cancelled once the batch
is, any other time as what it wraps. The events of hooks are in
`Hooks`; permission checks, blocking hooks and middlewares are the
nondeterministic `Refuse`.

`BatchContract` knows neither goroutines nor channels: reading calls run when they
like, a writing call when everything before it is answered; a call that begins
ends once, with an answer that is so of what its tool did, or that says it was
given up; of the writing calls that a Stop finds, one at most still runs its
tool. What the browser was told (`Shown`) is read off the events and what the
tool has done (`Effect`) off the goroutine and its channel, a value that was
received off the status of the call. A select that gives a call up is a stutter:
the contract learns of it with the answer, and meanwhile the tool may go on, and
finish. `KeepsBatchContract` is `Contract!Spec`.

### SubAgentTasks and TaskContract

Each task has the record of the manager (`status`, `reason`, `done`), its
goroutine (`runner`: `markRunning`, the run, `finish`), the call of `Submit`
that waits for it or forks it (`submitter`), and what the browser and the
conversation were told (`shown`, `outcomes`, `fed`). A step is what happens
under the manager's lock or one emitted event: every event is sent after the
lock is released, so events of one task may overtake each other. `Stopper` are
presses of Stop: `handleAbortStream` ends the waiting call's context and
`CancelActive` reads the table, then cancels one task after the other.

| Action | Code |
|---|---|
| `Register`, `Launch` | `Submit` up to the goroutine |
| `WakeDone`, `WakeMoved`, `TimerFires`, `ContextEnds`, `EmitMoved` | the select of `Submit` and `moveToBackground` |
| `MarkRunning`, `EmitRunning`, `Finish`, `EmitEnd` | the task's goroutine |
| `MoveManual`, `EmitManual` | the user's button |
| `Abort`, `ListActive`, `Cancel`, `EmitCanceled`, `StopReturns` | Stop and `CancelActive` |
| `ToolTimesOut` | the deadline that `doExecute` gives the tool call |

`TaskContract` is what the rest of the program counts on: a task ends once, its
end is announced as it was, its result is fed back at most once and never after
a cancellation, and the call that submitted it is answered once, with a result
only if there is one. `SubAgentTasks` implements it:

    Contract == INSTANCE TaskContract WITH
      outcome <- Ended, announced <- outcomes, answer <- AnswerTo

where `Ended` reads the end off the record and `AnswerTo` off the place of the
submitter. `KeepsContract` is `Contract!Spec`; TLC checks it and TLAPS proves it.

### McpSession

`call[c]` says where call `c` is in `EnsureHealthy`, `doReconnect`,
`tryRebuildAndHandshake` and `requestInternal`; the handshake of a reconnect
uses the same operators (`Registers`, `Sends`, `Returns`) as a request, with an
id of its own. `pending` is the map of pending calls, `signal[i]` what lies in the
two channels of one of them, `reader` where `recvLoop` is and `readerOn` the
transport whose `Recv` it is in, which need not be the current one (`cur`).
Transports are numbered as they are built; the server behind one may die at any
time (`Die`), answers what it was `asked` in any order, and owes nothing.

| Action | Code |
|---|---|
| `ReaderTop`, `ReaderGets`, `ReaderFails`, `MarkReconnecting`, `ReaderExits` | `recvLoop`, `deliverResponse`, `failAllPending`, `markReconnectingOnExit` |
| `Begin`, `Lock` | `EnsureHealthy` before and after `reconnectMu` |
| `CloseOld`, `Build`, `BuildFails`, `Start`, `Greet`, `GreetFails` | one attempt to rebuild the transport |
| `Reconnected`, `Retry`, `Exhausted`, `BackoffCut` | how an attempt, or all of them, ends |
| `Request`, `Wake` | the request of the call itself |
| `CloseBegins` ... `CloseReturns` | `Close` |

`Send` writes to a pipe before it looks at any context (`mcp/transport/stdio.go:160`):
while the server lives and does not read, the call stays in it (`Writing`), and a
transport that a reconnect closes makes it err (`SendErrs`). The model is of pipe
transports; the HTTP client's requests end by its own timeout, which this allows.

`forgotten` is a ghost: the calls `doReconnect` dropped from the map without a
word. They are the exception in `CloseWakes`, and only their contexts end them.

`SessionContract` is the session as its calls and whoever closes it see it,
without transports, readers and channels: a call is admitted while the session
is healthy; otherwise one call at a time mends it, and heals it only once the
server has answered the handshake of that attempt; an admitted call sends its
request at most once and is told at most once, its own answer or an error; a session
given up stays so; and Close returns only when every call has been told or was
forgotten. In the mapping the calls that wait for the lock or hold it are in the queue
(`Phase`), what lies in a call's channels is what it was told (`Heard`), the
handshake counts from its `Send` to the end of the attempt (`Hello`), and what
the server holds is what any transport was asked and has not answered.
`KeepsSessionContract` is `Contract!Spec`.

### Tenant

One user stands for all: the tables are keyed by user and no critical section
touches two. `current` is the runtime in the table, `fp[r]` the fingerprint it
was built from, `phase[r]` its life (`doomed` once it is out of the table and
its goroutine has yet to close it, `shut` when its pool refuses new servers,
`closed` when the pool was swept). `link[c]` is where a connection is, from the
HTTP request to the handling of a message. A fingerprint is the `edition` of
the user's files; an edition in `Broken` does not load, and the code then goes
on with the runtime it has. The MCP pool of one runtime (`Watched`) is followed,
since the servers of two runtimes never meet.

| Action | Code |
|---|---|
| `RuntimeForUser`, `Build`, `UpToDate` | `runtimeForUser`, all under `m.mu` |
| `Ask`, `Grant`, `Upgrade`, `Open` | `RouterForUser`, the upgrade, `trackConnectionOpen`, `onOpen` |
| `Message`, `Resolve`, `Prompt`, `OtherMessage`, `StreamEnds` | the read loop, the dynamic router, a stream |
| `Leave`, `Logout`, `CloseAll` | `trackConnectionClose`, `CloseUser`, shutdown |
| `Edit`, `Login`, `Tick`, `Refresh` | the files, the auth store, `StartAutoRefresh` |
| `StartServer`, `ServerStarts`, `Shut`, `Sweep` | `RegisterAndStart`, `Pool.CloseAll` |

Ghosts: `served` (runtimes that were current while a connection was tracked),
`since` (the edition when a message was read), `late` (servers that were
starting when their pool was swept).

### Hooks

`at[c]` is the hook that the dispatch of caller `c` has come to (a tool call or
the loop's `pre_message`), `stage[k]` how far the run `k` of a hook is, `last[h]`
the field through which a prompt hook's executor hands its text back, and
`pending` the texts that the conversation manager holds for the next request.
`Skip`, `Fire`, `Mark`, `Execute`, `Render`, `Take` and `Inject` are the sections
of `Dispatch`, `dispatchOne`, `executeOne` and the prompt executor; `ToolsDone`,
`ReadPending`, `ClearPending`, `TooLong`, `Fail` and `Answer` the loop's side. A
hook whose action fails goes on like one that succeeds, which is what the code
does. `heard` and `lost` are ghosts. At this commit `buildRuntime` does not pass
an engine to the conversation manager: the model is of the engine and the calls
the manager makes of it when it has one (`SetHookEngine`).

### Reviews

`place[r]` is where review `r` is: asking the model, between two decisions, with
a temporary file open or written, renamed, or under `Store.mu`. A file is the set
of the reviews whose text it shows. The temporary file of a memory has one name,
whoever writes it, so `open[r]` says what the descriptor of `r` has become when
another review renamed the file. A hot reload makes a second reviewer with a
`Store`, and a mutex, of its own; a restart ends every review and leaves
temporary files behind. The index is written in the same way, through one
temporary file (`itmp`) which the mutex of a Store guards from the reviews of that
Store alone: `ReadIndex`, `OpenIndex`, `WriteIndex` and `RenameIndex` are steps, two
Stores may empty, overwrite or rename each other's file, and a text written over
a longer one keeps some of its lines. Ghosts: `shared` (memories two reviews wrote at
the same time), `met` (reviews whose update of the index has met another one) and
`raced` (slugs whose line was lost in such an update).

### ToolRegistry

A `sync.RWMutex` whose waiting writer keeps new readers out, as Go documents it;
a turn that lists its tools (`ToSpecs`, which calls `EnabledNames`) and looks one
up (`Get`), and `RegisterAll` of the MCP tools in the background.

### The computations

| Module | Code |
|---|---|
| `HookContext` | contexts of events, their fields and variables, the comparisons of a condition |
| `HookRules` | conditions, interpolation, loading, time limits of hooks |
| `Settings` | merge of the global and the user's settings, defaults, environment; validation and construction of MCP servers |
| `Compaction` | token estimate, preview, light layer, split, draft clean-up, circuit breaker |
| `Streams` | requests built from a history, responses collected from events, retries, both providers |
| `Catalog` | skills and roles by level; tool view, permission, limits and forked history of a SubAgent run |
| `View` | tool cards live and after a reload, calls of a turn, use of the context, names and status of MCP tools |
| `MemoryIndex` | decisions of a review, the text of `MEMORY.md`, what a conversation begins with |

Texts are sequences of the few kinds of characters that the code tells apart.
A state is the input of a computation (`case`), and a behaviour goes from no case
to any case of a domain, so that every invariant is evaluated on every input. A
case of `Summaries` with a session goes on, from one attempt to compact to the
next, with the breaker and the summaries that were tried. `HookCases`, `Summaries`
and `AgentRuns` have specifications of their own (`HookSpec`, `SummarySpec`,
`RunSpec`) whose domains are constants, and the theorems are about these; their
steps are disjuncts of the next-state relation of `Algorithms`, which TLC runs. `HookRules` and
`Settings` declare RECURSIVE operators, so no module with a theorem uses these two
or `Algorithms`.

## 3. What TLC checks

| Run | Question | States | Result |
|---|---|---|---|
| `chat_files` | With a command in the middle of a stream: do the files of the sessions where none was stay in step with the history (`FileIsHistory`, `CountedIsStored`), does a turn stay in its session or in those that were crossed together with it (`HomeOnly`), and do the files and the archive together keep a `Transcript` (`KeepsTranscript`), through a compaction, a failing write and a restart? | 5.68 million | holds |
| `chat_open` | With SubAgent results and commands that cross streams anywhere: is the stream exclusive, and released unless its goroutine blocks for ever? | 814 thousand | holds |
| `agent_loop` | Is every history well formed (`Paired`), does the loop keep `TurnContract` (`KeepsTurnContract`), does every turn end with a reply, and soon after Stop? | 46 thousand | holds |
| `tool_batch` | Does a batch keep `BatchContract` (writes in their turn, events paired, true answers, one late write), which writes overlap, are batches and senders never stuck, whatever the tools report? | 634 thousand | holds |
| `subagent_tasks` | Does the manager keep `TaskContract`, is what `Submit` answers so, does Stop reach every task, is the last event the end, is every waiting call answered? | 143 thousand | holds |
| `mcp_session` | Through deaths of the server, reconnects and Close: does the session keep `SessionContract`, does every call return that no unread pipe holds, does Close wake all but the forgotten ones, is the reader with the transport in use? | 811 thousand | holds |
| `tenant` | Is one runtime live, does it go with the last connection, do messages meet the edits made before them, do the servers of a replaced runtime stop? | 2.93 million | holds |
| `hooks` | What is left of "once" under parallel calls, when is a prompt hook's text lost, whose text is it? | 284 thousand | holds |
| `reviews` | Do the index and the files agree, are memories whole, are lines kept? | 6.94 million | holds |
| `algorithms` | Do the computations give what the rest of the program counts on? | 338 thousand | holds |
| `stale_count` | Is the history on disk when the stream is idle? | | violated by a compaction |
| `registry_lock` | Does a turn that lists its tools get them? | | violated when a tool registers in between |

The two violated properties state what a comment or a checklist of the
repository says; the findings in `PROJECT.json` quote it and say how the code
differs. In the first, a compaction replaces the history by a shorter one while
`persistedMsgCount` keeps its value, so later messages are not saved. In the
second, `ToSpecs` holds the read lock when `EnabledNames` takes it again
(`tool/tool_spec.go:73` and `:75`); a `Register` that asks for the write lock in
between waits for the first and makes the second wait.

For the passing runs, the properties say exactly what does hold, and name their
exception: `crossed` excuses the files of sessions at which a command met a
stream or another command; `stale` excuses a file after a compaction, done or
failed half way; `spent.fail = 0` excuses duplicates after a failing write;
`StreamReleased` excepts a stream whose goroutine blocks for ever (`Blocks`);
`CallReturns` a call that writes to a server which does not read, and those it
keeps from the lock; `OverlapOnlyIfAbandoned` says which overlaps of
writes remain; `CloseWakes` excepts the calls `doReconnect` forgot, which only
their contexts end; `ServersStop` the servers that were starting when the pool was
swept; `EditsReachMessages` the editions that do not load; `OnceInOneBatch`
leaves parallel calls of one round; `WholeUnlessShared` leaves memories that two
reviews wrote at once; `WrittenIsIndexed` leaves lines that an update took which
met one of another Store; `ServedIsNotLeft` leaves runtimes that were built while
nobody was connected, as the refresher does for a user who has just left. What the exceptions leave out is what the code really allows.

Other places where the code does not do what one of its comments, or a reader,
might expect were met on the way and are visible in the modules:

- a session command in the middle of a stream moves the rest of the turn to
  another session, and a SubAgent result always goes to the session that is
  current;
- a compaction whose rewrite fails at `meta.json`, after the rename, keeps the old
  history and count beside the new, shorter file;
- a call of an OpenAI model with arguments that are not JSON cannot be encoded
  (`llm/types_json.go:34`), so that every save from then on fails at it and writes
  the messages before it once more (`memory/session/session.go:220-228`);
  `StreamsHold` says which messages can be stored;
- a command hook that leaves behind a process with its output open holds the turn
  beyond the limit of hooks (`hook/executor/command.go:127` and `150`: buffers, no
  `WaitDelay`), and the `timeout` of a command is never looked at;
- after a Stop, the select of `summarize` (`summary_compactor.go:192`) may take the
  provider's last chunk for the end of the summary;
- the result of a foreground SubAgent task is returned to the waiting call and
  fed back to the conversation as well (`interaction/web/handler.go:2092`);
- a Stop in the loop's last requests is not reported as an abort, and `Submit`
  may report a task that has just ended as running in the background;
- a server that dies just after the handshake of a reconnect leaves a session
  that is healthy and has no reader;
- after a hot reload two handlers can stream into the same session's file;
- `mcp/adapter/adapter.go:68` says that prefixed names are never ambiguous: "a_" with "t" and
  "a" with "_t" give the same name (`ServersShowTheirTools` says when they do not);
- the index keeps only the first line of a memory's summary, and the reviewer's
  view of a turn is wrong when a compaction shortened the history meanwhile.

Each property of a passing run is paired with a mutant: an operator whose
comment begins with "Mutant", defined before the operator it would replace, that
is a plausible error in that code (a test left out, a count off by one, a save
forgotten). With it the property fails, which is what shows that the property
depends on the code. No specification uses these operators.

### Bounds

`chat_files`: three sessions, two goroutines, one connection, four messages, two
commands, and one each of compaction, failing write and crash. Four messages are a
prompt, a tool call, its results and a reply, or a prompt, a reply and a
compaction's two, so that a save after each of them is reached; two goroutines are enough for
one to hold the stream while the other wants it, and exclusion for any number is
proved. `MaxCrossed` bounds the overlaps: with 1, an overlap may begin only while no
session is crossed; it crosses one session (clear) or two (new, resume, delete),
so that with three a session is left of which everything is claimed. More
overlaps, more connections, whose commands then meet each other, and SubAgent tasks
are in the theorems. `chat_open` is smaller because it checks liveness, without
symmetry; there any session may be crossed. The bounds live in the guards
`CanMake`, `MayCommand`, `MayAcquire` and `spent`; the actions that need room are
disabled at a bound and the loop can always end (`LoopEnds`, `Panic`), so no bound
hides a stuck stream.

`agent_loop`: two rounds and two turns, so that a limit is reached after a round
with tools and a second turn starts from every ending of the first.
`tool_batch`: three calls, the least with a read before two writes.
`subagent_tasks`: a task that may wait in the foreground and one that is always
forked, with one Stop; more tasks meet only in a Stop, which treats them one by
one, and the safety properties are proved for any number. `mcp_session`: two
calls, the one that reconnects and one that waits for the lock or is caught in
between; two attempts, so that one fails and one succeeds, or both fail; three
transports, so that a session can be rebuilt, lost and rebuilt again. When all
transports are used up, building one can only fail.

`tenant`: two connections, so that the last can leave while another is on its
way in; two edits of which the second does not load, so that a runtime is
replaced once and kept once; two runtimes, the first of which is watched; one
server. When all runtimes are built no further one is, which stops an actor that
asks for one: the two that matter, the old and the new, are there. `hooks`: two
parallel calls and the message, one once-hook and one prompt hook on tools, one
asynchronous prompt hook on the message, a caller whose text is blank, two
rounds: enough for a text of one round to reach the next and for a once-hook to
be found unmarked twice. `reviews`: two reviews of up to two decisions on two
memories, of one or two sessions, and one reload or restart: two reviews meet on
every file and on the index, of which a restart may leave a temporary one, and a
third would meet the same places.
`algorithms`: limits of a few tokens, characters or failures, and inputs just
around them: a breaker that trips at two failures and up to four tried summaries, so that
it trips, is reset by a user and trips again; histories of up to four messages, so
that a split can fall before, into and after a pair of call and result; texts of up to
two parts. `registry_lock`: two turns and two remote tools.

Deadlock is not checked: all systems stop when their bounds are used up or,
for a batch, when it has returned.

### Fairness

`ChatSession`: weak fairness of each stream goroutine's steps: requests end or are
cancelled, tools have a timeout (`ToolBatch!BatchReturns`), the rounds are bounded
(`AgentLoop!TurnEnds`). Where the code gives no such bound, at the registry's lock
and in writes to the browser, a goroutine may instead take the step `Blocks`, after
which nothing moves it. `AgentLoop`: weak fairness of the loop, because a
provider closes its channel or errs and a batch returns. `ToolBatch`: weak
fairness of the handler's steps and of the send; nothing makes a tool return. Both
take it that the registry answers a lookup, which `registry_lock` shows it may not,
and that the browser reads what it is sent; `Blocks` is what this comes to.
`SubAgentTasks`: weak fairness of each task's goroutine (the runner is an agent
loop, which ends), of each submitting call and of each Stop, but not of timers,
contexts and buttons. `McpSession`: weak fairness of each call while it does not write to a
living server (`Writing`), of the reader's own steps, of `Close` once begun, and
of the end of each call's context, since `doExecute` gives every tool call a
deadline; the server is under no obligation, neither to answer nor to read.
`Tenant`: weak fairness of the goroutine that closes a runtime and of the start
of a server, which `startTenantMCP` limits to 60 seconds; users, connections,
edits and the refresher owe nothing. `ToolRegistry`: weak fairness of every
goroutine that has begun, and of the lock's grant when it is free: the violation
is not one of scheduling. `Stop`, commands, requests, failures and crashes are
never fair.

## 4. What is proved

Every safety property of the passing runs, but for four invariants of
`algorithms`, is a theorem for all values of the constants, and so are the five
refinements, of `Transcript`, `TurnContract`, `TaskContract`, `BatchContract` and
`SessionContract`. What a refinement says as well no run checks any more; among these
`NothingDropped`, `OnlyPromptsUnsaved`, `RequestBudget`, `EventsPaired`, `WritesInTurn`,
`FewLateWrites`, `OneSignal`, `PendingInFlight` and `UnhealthyIsFinal` stay as
theorems, by which the proofs go. The proofs use the named assumptions on the constants (types, and
bounds that are naturals) and no other; they hold for any number of sessions, goroutines, connections, rounds, calls,
messages, tasks, Stops, transports, runtimes, edits, hooks, reviews and
memories.

*ToolBatchProofs.* The inductive invariant joins the type invariant with, for
each call, `Progress` (what its place in `Execute` says of its events, status
and result), `Goroutine` (what its goroutine says of its call: a goroutine that
runs for a call that has ended was given up) and `NoneLeft` (what launches after
the cancellation leave behind). `WritesInTurn` is needed to prove
`OverlapOnlyIfAbandoned`, and `NoneLeft` to count late writes. `BatchesKeepContract`
is a step simulation: `Start` begins a call, `Launch` runs its tool, `End` answers
it, and what the goroutine does with its channel is a stutter or settles the
tool. It needs `Truth`: what the select decided of a call is so of its tool, and
stays so until `End` hands it on, whatever the goroutine does in between.

*ChatSessionProofs.* `StreamExclusive` is inductive as it stands, once every
action is seen to change `active` and the set of holders together. The theorems
about files assume nothing of commands and streams: they are about the sessions
that are not `crossed`. `AtHome` says that everything a turn, a command or the
memory carries is of the session whose file it will go to, or that both are
crossed: as long as nothing overlaps, the current session does not change from the
acquire to the release and a command begins only when no stream is active, and
whatever overlaps puts its sessions into `crossed` (`OverlapsKnown`). It gives
`HomeOnly`. `Stored` adds what a count alone does not say: who may have files at
all (`SessionsKnown`: a
session never used has none, so a fresh one starts empty), that a session being
resumed is not changed under the read loop (`LoadedIsStored`), and, while the
current session is not crossed (`Calm`), that
a compaction works on the history as it is and archives what it gives up
(`CompactionsKeep`), and what the file is with respect to the history at every
place a turn can be in (`HistoryRecorded`). `CountedIsStored`, `FileIsHistory` and
`NothingDropped`, an action property, follow from it. Most of the work is in
lemmas about files: what an append, a part of an append, a truncation and a
rewrite leave. `TranscriptIsKept` is the refinement: it needs, beside `Stored`,
that what a compaction is about to write is its summary and the rest of the
history after a part that is archived (`CutsKnown`), and one lemma per kind of step that names the action of
`Transcript` and its witnesses, the part of the conversation that was stored.

*AgentLoopProofs.* `Control` ties the call that is running to the phase of the
turn, `Budget` bounds requests by the phase (the bound alone is not inductive),
`Announced` describes the unannounced suffix of the history in each phase, and
`LateOnce` says that a first late step is the last one. With them `Paired` and
`ReplyGiven` are preserved by every action. `TurnsKeepContract` is a step
simulation: a step that announces nothing new is a stutter, a `Prompt` or an
end. It needs one more conjunct, `Reason`: past the rounds the reason of the end
is already one of those that promise a reply.

*SubAgentTasksProofs.* Beside the types, `Lifecycle` (how far the submitter and
the goroutine are, against the record), `Answering` (what each place in `Submit`
knows), `Emitted` (events sent are a part of the record's history, and only the
last step of a goroutine feeds a result back) and `Stopping` (what a Stop has
yet to do). `KeepsContract` follows by a step simulation: each action of the
manager is an `End`, an `Announce`, an `Answer` or a stutter under the mapping. `Answered` alone is not inductive: the answer is read from a record
that others go on changing.

*McpSessionProofs.* `Locked` (who rebuilds holds the lock and the session is
reconnecting meanwhile, which gives `UnhealthyIsFinal`), `Tidy` (only requests
under way are pending or have a signal), `Told` and `Closing` for `CloseWakes`,
and `Reading`: from the answer to a handshake until the next rebuild the reader
is with the current transport, although `Start` may have kept an older reader.
`SessionsKeepContract` is the refinement, action by action. It needs three more
facts about requests, inductive together with the above: `SentOnce` (a request is with one
transport at most, and whose request is with one has been sent),
`Forgotten` (a forgotten call is still under way, out of the map and untold) and
`Unanswered` (who mends has not asked the new transport before its handshake, and
has no answer from it before it has sent one). `UnheardArePending` turns the loops
that fail what is pending into the contract's `Fail`: the calls nobody has told
and nobody forgot are those in the map.

*TenantProofs.* `OnlyCurrentLive` is inductive; `ServedIsNotLeft` needs that a
runtime that was served has been built (`ServedBuilt`), and `EditsReachMessages`
that the runtime of a message was built of an edition the message could have read
(`HandlerBuilt`, `ReadBefore`), with a lemma on `RuntimeForUser` that says what the
call returns whatever the table held.

*HooksProofs.* `EngineInv` collects where each run is against its caller, the
mark it set and the round: `BegunIsFired` and `CheckedInOneBatch` give
`OnceInOneBatch`. `TextNow` (what lies in the shared field while a run is between
`Render` and `Take` is of this round) gives `TextOfTheRound`; `InjectedIsOver`,
`InOnePlace` and `SentNow` follow a text from the engine to the request and give
`LostWithRequest`.

*ReviewsProofs.* `IndexedHasFile` needs that a review that holds the lock, or is
about to, has renamed its file (`RenamedHasFile`) and that what it has read of the
index has files (`ReadHasFile`); no file is ever removed. `WholeUnlessShared` needs
that two reviews with the same memory open are recorded in `shared`
(`SharedIfMet`) and that otherwise the temporary file is the writer's own
(`OwnFile`). `WrittenIsIndexed` needs that the mutex is held by whoever updates the
index (`LockedHolds`), that an update which has met no other has read the index as
it is and has the temporary file to itself (`Alone`), and that reviews of one
Store never meet (`NoneMet`).

*Registry.* The module of `McpSession` also holds what concerns the tools that MCP
servers bring. `SpecsAreTools`: the specs of a turn are tools, and the program's
own are among them, whatever registers meanwhile. `DeadlockIsFinal`: once a
`Register` waits between the two read locks of a turn, neither ever goes on and
nobody else gets the lock, which is the finding of `registry_lock` for any number
of turns and tools, and says that no fairness mends it.

*The computations.* `HooksHold`, `CompactionHolds` and `RunsHold`, which the run
`algorithms` checks, are theorems whatever the domains of the cases are: names,
keys, texts, tools, roles, sizes and lengths of histories, thresholds and numbers
of attempts. They rest on lemmas about the operators, in the module of the
component that uses these, and some of the lemmas say more than the invariants need:

| Theorem | Part of | Says, for all inputs |
|---|---|---|
| `HooksAreSound` | `HooksHold` | whole, for `HookSpec` |
| `CompactionsAreSound` | `CompactionHolds` | whole, for `SummarySpec` |
| `RunsAreSound` | `RunsHold` | whole, for `RunSpec` |
| `SplitKeepsPairs` | `CompactionHolds` | both parts of a split history are paired, and a message is kept, if the history was paired |
| `SplitIsAPoint` | | where `Compaction` splits is one of `ChatSession`'s `SplitPoints`, or 0: the choice the handler's model makes is wide enough |
| `ForksAreAnswered` | `RunsHold` | a fork's history is accepted, also with its task at the end, and is cut where the first call is not answered |
| `PermissionCoversTools` | `RunsHold` | the permission that a role declares covers every tool it leaves to a run and does not deny in another spelling |
| `RunsAreContained` | `RunsHold` | a run has a tool, none that is denied as it is spelt, and the permission it asked for covers them, but for the exception named below; it has a limit of turns and starts with its task |
| `StatusesAreTrue` | `RunsHold` | `task_status` answers for known tasks, and after waiting for ended ones |
| `ServerIsFound`, `NamesAreDistinct`, `ServersShowTheirTools` | `ViewsHold` | servers whose names have no `__` and do not end in `_` are found by their tools' names, share none, and are shown with their own tools |

`SplitKeepsPairs` and `ForksAreAnswered` say what each keeps of a history, and
`CallsAreAnswered` that the loop's histories are of that kind.
`CompactionsAreSound` has the one invariant of these that is not about a single
step: `Consistent` (the breaker's flag says what its count says) and
`FailuresCounted` (the count is at least the number of failures in a row at the end
of what was tried, and zero after a success), which every attempt keeps, tried or not, forced by a
user or not (`AttemptCounted`). `HooksAreSound` follows from three lemmas: a
comparison needs a value (`LeafNeedsValue`), one about the call says the same before and after it
(`SameBeforeAndAfter`), and no variable is lost (`VariablesStay`). `RunsAreSound`
needs that a cut of a paired history in the middle of a turn is what
`ForksAreAnswered` asks for (`ForkOfHistory`). `PermissionCoversTools` and `RunsHold`
name one exception, a tool that the role `Denies` in another spelling: the view of a
run matches names as they are spelt, the permission does not regard their case, so
that a role which denies `bash` is left with `Bash`, for which no permission was
asked. What a run in the background may use is decided when it starts: one that
is moved there later keeps its tools.

Only model-checked: all liveness (`StreamReleased`, `TurnEnds`, `BatchReturns`,
`SubmitReturns`, `CallReturns`, `ServersStop`), since `ENABLED` and fairness are
beyond the prover; and four invariants of `Algorithms`: `LoadsHold` (the merge of
settings at any depth, servers, nested conditions, hooks as loaded, the levels of skills and
roles), `TextsHold` (interpolation, estimates, the light layer's loop, drafts of summaries),
`StreamsHold` (the requests and responses of the providers) and `ViewsHold` (cards
after a reload, the use of the context, the text of the index). They are about what
recursive operators and folds compute and would need induction over data. Of
conditions, single comparisons are proved about; `Evaluate`, which nests them, is
recursive.

## 5. Not modelled

- Permissions and the sandbox (`security`): decisions over paths and command
  strings without state; `ToolBatch` sees them as `Refuse`.
- MCP transports and JSON-RPC: the rest sees a message or an error, or a write that
  blocks.
- The project browser, git and search requests, the built-in tools, the front
  end, log files, and prompt assembly beyond the memory index: file system
  operations and texts behind one request, with no state shared with the rest.
- In `ChatSession`, `ToolBatch` and `AgentLoop`: the content of messages (a
  compaction cuts anywhere, the context is exhausted at any time; `Compaction` has
  the arithmetic), and bytes within a line of `messages.jsonl`: a failing write
  writes whole lines only, so the recovery from half a line is not there.
- Data races: the appends to `conv.history` and the replacement of an MCP
  session's `transport` are atomic here.
- Of tasks: the polling of `task_status`. Of an MCP session: the tools cache,
  decoding, notifications, which change no state, and transports left open by a
  failed handshake. The SubAgent's own run is the code of `AgentLoop`.
- Three hazards have no property: the command hook named in section 3, and two more.
  A restart while `meta.json` is written leaves a
  session that is not listed (`MetaTorn`); no document says that it is. Two
  handlers on one session after a hot reload are possible in `Tenant`
  (`streaming`), and the code does nothing against it.

Each component of the repository, with what is left out of it, is in
`PROJECT.json`.

## 6. Plan

What could come next, in this order:

1. `Evaluate`, `Interpolate` and `MergeObjects` without RECURSIVE, so that the parts
   of `TextsHold` and `LoadsHold` that do not need a fold can be proved.
2. The composition of `AgentLoop` with `ToolBatch` (its `ToolsReturn` as the promise
   a batch keeps) and of `SubAgentTasks` with `ChatSession` (the task fed back as
   `StartTask`); two handlers on one session's file, from `Tenant`.
3. Half-written lines in `SessionStore`, and what `Load` makes of them.
4. The transports that a failed handshake or a Close during a rebuild leaves open.
5. The rules of the sandbox as operators in the manner of `Settings`.
