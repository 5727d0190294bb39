------------------------------ MODULE McpSession ------------------------------
(***************************************************************************)
(* One Session of an MCP server (src/src/mcp/session/session.go): calls    *)
(* wait in a map of pending calls for the goroutine recvLoop, which reads  *)
(* the transport; when it fails, the next call reconnects (EnsureHealthy,  *)
(* doReconnect) before it goes on; Close may come at any time.  A step is  *)
(* what happens under one lock, or one operation on the transport.         *)
(***************************************************************************)
EXTENDS Naturals

CONSTANTS Call,         \* RPCs of the session's users
          None,         \* no call; as a context, context.Background
          MaxAttempts,  \* Backoff.MaxAttempts
          MaxWires      \* bound on transports built
ASSUME SessionAssumption ==
  /\ None \notin Call
  /\ MaxAttempts \in Nat \ {0} /\ MaxWires \in Nat \ {0}
  /\ Call \intersect Nat = {}

VARIABLES
  closed, health,  \* s.closed, s.health
  wire,      \* wire[n]: the n-th transport, in the order they are built
  cur,       \* s.transport
  asked,     \* asked[n]: requests sent on transport n, not answered to Recv yet
  pending,   \* ids in s.pending
  signal,    \* signal[i]: what lies in respCh and errCh of i's pendingCall
  call,      \* call[c]: where requestInternal is
  ended,     \* ended[c]: the context of c has ended
  lock,      \* holder of reconnectMu
  attempt,   \* doReconnect's counter
  reader,    \* where recvLoop is; "off" when recvDone is closed
  readerOn,  \* the transport whose Recv it is in
  readerOf,  \* the call whose context it was started with
  closer,    \* where Close is
  forgotten  \* ghost: calls dropped from the map by a reconnect

vars == <<closed, health, wire, cur, asked, pending, signal, call, ended,
          lock, attempt, reader, readerOn, readerOf, closer,
          forgotten>>

Wire == 1 .. MaxWires
Id   == Call \union Wire      \* a call's request; the initialize on transport n

Set(f, x, v) == [f EXCEPT ![x] = v]

Rebuilding == {"closing", "building", "starting", "greeting", "greetSend", "greetWait",
               "greeted", "backoff"}
Requesting == {"ensured", "registered", "waiting"}
Places     == {"idle", "locking", "returned"} \union Rebuilding \union Requesting

Network   == <<wire, cur, asked>>
Pending   == <<pending, signal, forgotten>>
Reader    == <<reader, readerOn, readerOf>>
Reconnect == <<lock, attempt>>

CloseCurrent ==
  /\ wire' = Set(wire, cur, "closed")
  /\ asked' = Set(asked, cur, {})
  /\ UNCHANGED cur

-----------------------------------------------------------------------------
(* The reader.                                                             *)

FailAllPending ==
  /\ pending' = {}
  /\ signal' = [i \in Id |-> IF i \in pending THEN signal[i] \union {"err"} ELSE signal[i]]
  /\ UNCHANGED forgotten

ReaderCancelled == readerOf # None /\ ended[readerOf]

ReaderTop ==
  /\ reader = "top"
  /\ IF ReaderCancelled
       THEN reader' = "failed" /\ FailAllPending /\ UNCHANGED readerOn
       ELSE reader' = "recv" /\ readerOn' = cur /\ UNCHANGED Pending
  /\ UNCHANGED <<closed, health, Network, call, ended, Reconnect, readerOf, closer>>

Remains(i) == pending \ {i}

\* The server answers when it likes, in any order; what it had answered
\* before it died can still be read.
ReaderGets(i) ==
  /\ reader = "recv" /\ i \in asked[readerOn]
  /\ reader' = "top"
  /\ asked' = Set(asked, readerOn, asked[readerOn] \ {i})
  /\ IF i \in pending
       THEN pending' = Remains(i) /\ signal' = Set(signal, i, signal[i] \union {"resp"})
            /\ UNCHANGED forgotten
       ELSE UNCHANGED Pending
  /\ UNCHANGED <<closed, health, wire, cur, call, ended, Reconnect, readerOn, readerOf,
                 closer>>

ReaderFails ==
  /\ reader = "recv" /\ wire[readerOn] # "up"
  /\ reader' = "failed"
  /\ FailAllPending
  /\ UNCHANGED <<closed, health, Network, call, ended, Reconnect, readerOn, readerOf,
                 closer>>

Marked == IF ~closed /\ health = "healthy" THEN "reconnecting" ELSE health

MarkReconnecting ==
  /\ reader = "failed"
  /\ reader' = "marked"
  /\ health' = Marked
  /\ UNCHANGED <<closed, Network, Pending, call, ended, Reconnect, readerOn, readerOf,
                 closer>>

ReaderExits ==
  /\ reader = "marked"
  /\ reader' = "off"
  /\ UNCHANGED <<closed, health, Network, Pending, call, ended, Reconnect, readerOn,
                 readerOf, closer>>

-----------------------------------------------------------------------------
(* A call up to the request: EnsureHealthy.                                *)

Unlock == lock' = None /\ attempt' = 0

Begin(c) ==
  /\ call[c] = "idle"
  /\ call' = Set(call, c, CASE closed \/ health = "unhealthy" -> "returned"
                            [] ~closed /\ health = "healthy" -> "ensured"
                            [] OTHER -> "locking")
  /\ UNCHANGED <<closed, health, Network, Pending, ended, Reconnect, Reader, closer>>

\* Mutant: the lock's holder looks only whether somebody has reconnected.
LockHopeful(c) ==
  /\ call[c] = "locking" /\ lock = None
  /\ call' = Set(call, c, IF health = "healthy" THEN "ensured" ELSE "closing")
  /\ lock' = IF health # "healthy" THEN c ELSE None
  /\ UNCHANGED <<closed, health, Network, Pending, ended, attempt, Reader, closer>>

Lock(c) ==
  /\ call[c] = "locking" /\ lock = None
  /\ call' = Set(call, c, CASE health = "healthy" -> "ensured"
                            [] health = "unhealthy" -> "returned"
                            [] OTHER -> "closing")
  /\ lock' = IF health = "reconnecting" THEN c ELSE None
  /\ UNCHANGED <<closed, health, Network, Pending, ended, attempt, Reader, closer>>

\* doReconnect closes the old transport and forgets its pending calls without
\* a word to them.
CloseOld(c) ==
  /\ call[c] = "closing"
  /\ call' = Set(call, c, "building")
  /\ CloseCurrent
  /\ pending' = {}
  /\ forgotten' = forgotten \union (pending \intersect Call)
  /\ UNCHANGED <<closed, health, signal, ended, Reconnect, Reader,
                 closer>>

Fresh == {n \in Wire : wire[n] = "new" /\ \A k \in 1 .. n - 1 : wire[k] # "new"}

\* The factory and Connect.
Build(c, n) ==
  /\ call[c] = "building" /\ n \in Fresh
  /\ call' = Set(call, c, "starting")
  /\ wire' = Set(wire, n, "up")
  /\ cur' = n
  /\ UNCHANGED <<closed, health, asked, Pending, ended, Reconnect, Reader, closer>>

BuildFails(c) ==
  /\ call[c] = "building"
  /\ call' = Set(call, c, "backoff")
  /\ UNCHANGED <<closed, health, Network, Pending, ended, Reconnect, Reader, closer>>

\* Start: a reader that is still there stays, whatever it reads.
Start(c) ==
  /\ call[c] = "starting"
  /\ call' = Set(call, c, "greeting")
  /\ IF ~closed /\ reader = "off"
       THEN reader' = "top" /\ readerOf' = c /\ UNCHANGED readerOn
       ELSE UNCHANGED Reader
  /\ UNCHANGED <<closed, health, Network, Pending, ended, Reconnect, closer>>

\* Mutant: Close is not looked for under pendingMu.
RegistersUnchecked(c, i, next, refused) ==
  /\ call' = Set(call, c, next)
  /\ pending' = pending \union {i}
  /\ UNCHANGED <<signal, forgotten>>
  /\ UNCHANGED <<closed, health, Network, ended, Reconnect, Reader, closer>>

\* The handshake is a request like any other, without EnsureHealthy.
Registers(c, i, next, refused) ==
  /\ IF closed
       THEN call' = Set(call, c, refused) /\ UNCHANGED Pending
       ELSE call' = Set(call, c, next) /\ pending' = pending \union {i}
            /\ UNCHANGED <<signal, forgotten>>
  /\ UNCHANGED <<closed, health, Network, ended, Reconnect, Reader, closer>>

\* The deferred delete; the channels of the call go with it.
Leaves(i) ==
  /\ pending' = pending \ {i}
  /\ signal' = Set(signal, i, {})
  /\ forgotten' = forgotten \ {i}

\* Send errs: the transport has ended, or one used before, which the write of
\* this request was still blocked on.
SendErrs(c, i) ==
  \/ wire[cur] # "up"
  \/ i = c /\ \E n \in 1 .. cur - 1 : wire[n] # "up"

\* Send reaches the server, is lost with it, or errs.  It writes to a pipe
\* before any context is looked at, and blocks while the server does not read.
Sends(c, i, next, failed) ==
  /\ \/ /\ wire[cur] = "up"
        /\ asked' = Set(asked, cur, asked[cur] \union {i})
        /\ call' = Set(call, c, next) /\ UNCHANGED Pending
     \/ /\ wire[cur] = "dead"
        /\ call' = Set(call, c, next) /\ UNCHANGED <<asked, Pending>>
     \/ /\ SendErrs(c, i)
        /\ call' = Set(call, c, failed) /\ Leaves(i) /\ UNCHANGED asked
  /\ UNCHANGED <<closed, health, wire, cur, ended, Reconnect, Reader, closer>>

Returns(c, i, next) ==
  /\ call' = Set(call, c, next)
  /\ Leaves(i)
  /\ UNCHANGED <<closed, health, Network, ended, Reconnect, Reader, closer>>

Greeting(n) == n

\* Mutant: an error is taken for the answer to initialize.
GreetOnAny(c) ==
  \/ call[c] = "greeting" /\ Registers(c, Greeting(cur), "greetSend", "backoff")
  \/ call[c] = "greetSend" /\ Sends(c, Greeting(cur), "greetWait", "backoff")
  \/ call[c] = "greetWait" /\ signal[Greeting(cur)] # {}
     /\ Returns(c, Greeting(cur), "greeted")

Greet(c) ==
  \/ call[c] = "greeting" /\ Registers(c, Greeting(cur), "greetSend", "backoff")
  \/ call[c] = "greetSend" /\ Sends(c, Greeting(cur), "greetWait", "backoff")
  \/ call[c] = "greetWait" /\ "resp" \in signal[Greeting(cur)]
     /\ Returns(c, Greeting(cur), "greeted")

\* An error, an answer that cannot be used, the end of the caller's context,
\* or the 30 seconds of DefaultHandshakeTimeout.  The new transport stays.
GreetFails(c) == call[c] = "greetWait" /\ Returns(c, Greeting(cur), "backoff")

Reconnected(c) ==
  /\ call[c] = "greeted"
  /\ call' = Set(call, c, "ensured")
  /\ health' = "healthy"
  /\ Unlock
  /\ UNCHANGED <<closed, Network, Pending, ended, Reader, closer>>

GivesUpServer(c) ==
  /\ call' = Set(call, c, "returned")
  /\ health' = "unhealthy"
  /\ Unlock
  /\ UNCHANGED <<closed, Network, Pending, ended, Reader, closer>>

Retry(c) ==
  /\ call[c] = "backoff" /\ attempt + 1 < MaxAttempts
  /\ call' = Set(call, c, "building")
  /\ attempt' = attempt + 1
  /\ UNCHANGED <<closed, health, Network, Pending, ended, lock, Reader, closer>>

Exhausted(c) == call[c] = "backoff" /\ attempt + 1 = MaxAttempts /\ GivesUpServer(c)

\* The caller's context ends in the backoff: the server is given up for all.
BackoffCut(c) == call[c] = "backoff" /\ ended[c] /\ GivesUpServer(c)

-----------------------------------------------------------------------------
(* The request itself, the contexts and the server.                        *)

Request(c) ==
  \/ call[c] = "ensured" /\ Registers(c, c, "registered", "returned")
  \/ call[c] = "registered" /\ Sends(c, c, "waiting", "returned")

\* Mutant: the select has no case for the context.
WakeBySignal(c) ==
  /\ call[c] = "waiting" /\ signal[c] # {}
  /\ Returns(c, c, "returned")

\* The select takes any case that is ready.
Wake(c) ==
  /\ call[c] = "waiting" /\ (signal[c] # {} \/ ended[c])
  /\ Returns(c, c, "returned")

\* The context of a call that has returned (the tool handler ends it then)
\* matters only to a reader that was started with it.
ContextEnds(c) ==
  /\ call[c] # "idle" /\ ~ended[c]
  /\ call[c] = "returned" => readerOf = c
  /\ ended' = Set(ended, c, TRUE)
  /\ UNCHANGED <<closed, health, Network, Pending, call, Reconnect, Reader, closer>>

Die(n) ==
  /\ wire[n] = "up"
  /\ wire' = Set(wire, n, "dead")
  /\ UNCHANGED <<closed, health, cur, asked, Pending, call, ended, Reconnect, Reader,
                 closer>>

-----------------------------------------------------------------------------
(* Close.                                                                  *)

CloseBegins ==
  /\ ~closed
  /\ closed' = TRUE
  /\ closer' = "closing"
  /\ UNCHANGED <<health, Network, Pending, call, ended, Reconnect, Reader>>

CloseWire ==
  /\ closer = "closing"
  /\ closer' = "failing"
  /\ CloseCurrent
  /\ UNCHANGED <<closed, health, Pending, call, ended, Reconnect, Reader>>

CloseFails ==
  /\ closer = "failing"
  /\ closer' = "joining"
  /\ FailAllPending
  /\ UNCHANGED <<closed, health, Network, call, ended, Reconnect, Reader>>

\* The reader has gone, or 5 seconds have passed.
CloseReturns ==
  /\ closer = "joining"
  /\ closer' = "over"
  /\ pending' = {}
  /\ UNCHANGED <<closed, health, Network, signal, forgotten, call, ended, Reconnect, Reader>>

-----------------------------------------------------------------------------
\* After Pool.RegisterAndStart: started with context.Background, shaken hands.
Init ==
  /\ closed = FALSE /\ health = "healthy"
  /\ wire = [n \in Wire |-> IF n = 1 THEN "up" ELSE "new"]
  /\ cur = 1
  /\ asked = [n \in Wire |-> {}]
  /\ pending = {} /\ signal = [i \in Id |-> {}] /\ forgotten = {}
  /\ call = [c \in Call |-> "idle"] /\ ended = [c \in Call |-> FALSE]
  /\ lock = None /\ attempt = 0
  /\ reader = "recv" /\ readerOn = 1 /\ readerOf = None
  /\ closer = "idle"

CallStep(c) ==
  \/ Begin(c) \/ Lock(c) \/ CloseOld(c) \/ BuildFails(c) \/ Start(c)
  \/ Greet(c) \/ GreetFails(c) \/ Reconnected(c)
  \/ Retry(c) \/ Exhausted(c) \/ BackoffCut(c)
  \/ Request(c) \/ Wake(c)
  \/ \E n \in Wire : Build(c, n)

ReaderStep == ReaderTop \/ ReaderFails \/ MarkReconnecting \/ ReaderExits

CloseStep == CloseWire \/ CloseFails \/ CloseReturns

Next ==
  \/ \E c \in Call : CallStep(c) \/ ContextEnds(c)
  \/ ReaderStep \/ \E i \in Id : ReaderGets(i)
  \/ \E n \in Wire : Die(n)
  \/ CloseBegins \/ CloseStep

Spec == Init /\ [][Next]_vars

\* The call is writing to a server that lives and may never read: its request,
\* the handshake, or the notification that ends the handshake.
Writing(c) == call[c] \in {"registered", "greetSend", "greeted"} /\ wire[cur] = "up"

\* Contexts of calls have a timeout (ToolHandler.doExecute); the rest of a
\* call waits for a lock, a timer or such a context, or for a server that owes
\* it nothing: neither an answer nor to read what is written.
FairSpec ==
  /\ Spec
  /\ \A c \in Call : WF_vars(~Writing(c) /\ CallStep(c)) /\ WF_vars(ContextEnds(c))
  /\ WF_vars(ReaderStep) /\ WF_vars(CloseStep)

-----------------------------------------------------------------------------
(* Properties.                                                             *)

TypeOK ==
  /\ closed \in BOOLEAN /\ health \in {"healthy", "reconnecting", "unhealthy"}
  /\ wire \in [Wire -> {"new", "up", "dead", "closed"}] /\ cur \in Wire
  /\ asked \in [Wire -> SUBSET Id]
  /\ pending \subseteq Id /\ signal \in [Id -> SUBSET {"resp", "err"}]
  /\ forgotten \subseteq Call
  /\ call \in [Call -> Places] /\ ended \in [Call -> BOOLEAN]
  /\ lock \in Call \union {None} /\ attempt \in 0 .. MaxAttempts - 1
  /\ reader \in {"top", "recv", "failed", "marked", "off"}
  /\ readerOn \in Wire /\ readerOf \in Call \union {None}
  /\ closer \in {"idle", "closing", "failing", "joining", "over"}

\* A call gets its response or an error, never both (the comment of
\* pendingCall), although the reader and Close both fail what is pending.
OneSignal == \A i \in Id : signal[i] # {"resp", "err"}

\* While a session is healthy its reader, if it has one, reads the transport
\* that calls send on, whatever late readers and answers the attempts before
\* left behind.
ReaderOnCurrent == health = "healthy" /\ reader = "recv" => readerOn = cur

\* The map holds only ids of requests that are still under way.
PendingInFlight ==
  \A i \in pending :
    \/ i \in Call /\ call[i] \in {"registered", "waiting"}
    \/ i = Greeting(cur) /\ lock # None /\ call[lock] \in {"greetSend", "greetWait"}

\* Once Close has returned, no call waits that has not been told, but for
\* those that a reconnect dropped from the map.
CloseWakes ==
  closer = "over" =>
    \A c \in Call : call[c] = "waiting" => signal[c] # {} \/ c \in forgotten

\* A server given up stays so: no reader that exits late and no caller that
\* waited for the lock brings it back.
UnhealthyIsFinal == [][health = "unhealthy" => health' = "unhealthy"]_vars

\* What the calls and whoever closes the session see of it: a call that waits for
\* the lock or holds it is in the queue; a handshake counts from its Send to the
\* end of the attempt.
Phase(c) ==
  CASE call[c] \in {"idle", "returned"} -> call[c]
    [] call[c] = "ensured"    -> "admitted"
    [] call[c] = "registered" -> "sending"
    [] call[c] = "waiting"    -> "asking"
    [] OTHER                  -> "queueing"
Heard(c) ==
  IF "resp" \in signal[c] THEN "answer"
  ELSE IF "err" \in signal[c] THEN "error"
  ELSE IF c \in forgotten THEN "forgotten" ELSE "no"
Hello ==
  LET at == IF lock = None THEN "idle" ELSE call[lock] IN
  IF at = "greeted" \/ (at = "greetWait" /\ "resp" \in signal[Greeting(cur)]) THEN "answered"
  ELSE IF at = "greetWait" /\ Greeting(cur) \in asked[cur] THEN "asked" ELSE "no"
Stage == IF closer = "over" THEN "closed" ELSE IF closed THEN "closing" ELSE "open"

\* A session keeps its contract with its calls and with Close (SessionContract),
\* through late readers, dying transports and attempts to reconnect: one call
\* mends it at a time, a request is sent once and heard of once, a call is told
\* its own answer only, and nobody is left waiting by Close but whom a reconnect
\* forgot.
Contract == INSTANCE SessionContract WITH
  stage <- Stage, mender <- lock, hello <- Hello, tries <- attempt,
  phase <- [c \in Call |-> Phase(c)], told <- [c \in Call |-> Heard(c)],
  held  <- {c \in Call : \E n \in Wire : c \in asked[n]}
KeepsSessionContract == Contract!Spec

\* Calls that have begun return: through reconnects, deaths of the server, calls
\* a reconnect forgot, and Close.  From some time on only those are under way that
\* write to a living server which does not read, beyond the end of their contexts,
\* and those that wait for the lock while its holder writes its handshake so.
CallReturns ==
  <>[](\A c \in Call :
         \/ call[c] \in {"idle", "returned"} \/ Writing(c)
         \/ call[c] = "locking" /\ lock # None /\ Writing(lock))

=============================================================================
