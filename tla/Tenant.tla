-------------------------------- MODULE Tenant --------------------------------
(***************************************************************************)
(* The runtimes of one user (tenantManager and tenantRuntime in            *)
(* src/src/main.go): one is built from the user's files when a connection  *)
(* or a message asks for it, replaced when the files have changed, closed  *)
(* when the last connection goes or the user logs out.  A runtime has an   *)
(* MCP pool (mcp/session/pool.go) whose servers start in the background,   *)
(* and a handler that loads the user's latest session (LoadLatest in       *)
(* NewHandler), here always the same, and may stream into it.              *)
(* A step is what happens under tenantManager.mu, under Pool.mu, or        *)
(* between two such sections.  The tables are keyed by user and no section *)
(* touches two users, so one user stands for all.                          *)
(***************************************************************************)
EXTENDS Naturals, FiniteSets

CONSTANTS Conn,         \* WebSocket connections
          Server,       \* configured MCP servers
          MaxRuntimes,  \* bound on runtimes built
          Watched,      \* the runtime whose MCP pool is followed
          MaxEdits,     \* bound on changes of setting.json, skills, agents
          Broken        \* editions of these files that fail to load

ASSUME TenantAssumption ==
  /\ MaxRuntimes \in Nat \ {0} /\ MaxEdits \in Nat /\ Watched \in 1 .. MaxRuntimes
  /\ Broken \subseteq Nat

None    == 0
Runtime == 1 .. MaxRuntimes

VARIABLES
  edition,   \* of the user's files; what fingerprintForUser hashes
  signedIn,  \* the user's cookie is a session of the auth store
  current,   \* m.items[user]
  fp,        \* fp[r]: the fingerprint of runtime r
  phase,     \* where runtime r is in its life; "shut" when its pool is closed
  server,    \* server[s]: where Watched's RegisterAndStart is, or the pool's session
  streaming, \* runtimes whose handler runs a stream
  link,      \* link[c]: where connection c is
  bound,     \* bound[c]: the runtime that c's message was resolved to
  since,     \* ghost: the edition when that message was read
  tracked,   \* m.conns[user]
  dead,      \* connections the server has closed
  refresher, \* where the goroutine of StartAutoRefresh is
  serving,   \* the process is not shutting down
  served,    \* ghost: runtimes that were current while a connection was tracked
  late       \* ghost: servers that were starting when their pool was swept

files  == <<edition, signedIn, serving>>
table  == <<current, fp, phase>>
links  == <<link, bound, since, tracked, dead>>
vars   == <<files, table, server, streaming, links, refresher, served, late>>

Set(f, x, v) == [f EXCEPT ![x] = v]

Init ==
  /\ edition = 0 /\ signedIn = FALSE /\ serving = TRUE
  /\ current = None /\ fp = [r \in Runtime |-> 0]
  /\ phase = [r \in Runtime |-> "unbuilt"]
  /\ server = [s \in Server |-> "idle"]
  /\ streaming = {}
  /\ link = [c \in Conn |-> "none"] /\ bound = [c \in Conn |-> None]
  /\ since = [c \in Conn |-> 0] /\ tracked = {} /\ dead = {}
  /\ refresher = "idle" /\ served = {} /\ late = {}

-----------------------------------------------------------------------------
(* runtimeForUser, all of it under m.mu.                                   *)

\* Mutant: the runtime is left as it is.
ReplacedKept(p) == p

\* The runtime a critical section has taken out of the table.
Replaced(p) == IF current = None THEN p ELSE Set(p, current, "doomed")

\* buildRuntime, with the edition the fingerprint was taken of.
Build(r) ==
  /\ phase[r] = "unbuilt" /\ \A q \in Runtime : q < r => phase[q] # "unbuilt"
  /\ current' = r
  /\ phase' = Set(Replaced(phase), r, "live")
  /\ fp' = Set(fp, r, edition)
  /\ served' = IF tracked = {} THEN served ELSE served \union {r}

\* Mutant: a runtime is kept whatever becomes of the files.
UpToDateIfBuilt == current # None

UpToDate == current # None /\ (fp[current] = edition \/ edition \in Broken)

\* The call returns runtime r, or an error (None).
RuntimeForUser(r) ==
  \/ UpToDate /\ r = current /\ UNCHANGED <<table, served>>
  \/ current = None /\ edition \in Broken /\ r = None /\ UNCHANGED <<table, served>>
  \/ ~UpToDate /\ edition \notin Broken /\ r \in Runtime /\ Build(r)

-----------------------------------------------------------------------------
(* The files and the auth store.                                           *)

Edit ==
  /\ edition < MaxEdits /\ edition' = edition + 1
  /\ UNCHANGED <<signedIn, serving, table, server, streaming, links, refresher, served, late>>

Login ==
  /\ ~signedIn /\ signedIn' = TRUE
  /\ UNCHANGED <<edition, serving, table, server, streaming, links, refresher, served, late>>

\* The runtime and the connections leave the table together; both are closed
\* after the lock is released.
Dismiss ==
  /\ current' = None /\ phase' = Replaced(phase)
  /\ dead' = dead \union tracked /\ tracked' = {}
  /\ UNCHANGED <<fp, link, bound, since>>

\* The cookie is dropped, then CloseUser is called; a request refused between
\* the two is one that is not made.
Logout ==
  /\ signedIn /\ signedIn' = FALSE /\ Dismiss
  /\ UNCHANGED <<edition, serving, server, streaming, refresher, served, late>>

\* Shutdown: the server takes no more requests and the refresher is gone when
\* run's deferred CloseAll empties the table.
CloseAll ==
  /\ serving' = FALSE /\ Dismiss
  /\ UNCHANGED <<edition, signedIn, server, streaming, refresher, served, late>>

-----------------------------------------------------------------------------
(* A connection: the HTTP request, the upgrade, the read loop.             *)

MovesTo(c, place) == link' = Set(link, c, place)

\* The request carries a valid cookie.
Ask(c) ==
  /\ link[c] = "none" /\ signedIn /\ MovesTo(c, "asked")
  /\ UNCHANGED <<files, table, server, streaming, bound, since, tracked, dead, refresher, served, late>>

\* RouterForUser; an error ends the request.
Grant(c) ==
  /\ link[c] = "asked"
  /\ \E r \in Runtime \union {None} :
       RuntimeForUser(r) /\ MovesTo(c, IF r = None THEN "none" ELSE "granted")
  /\ UNCHANGED <<files, server, streaming, bound, since, tracked, dead, refresher, late>>

\* The upgrade fails, or trackConnectionOpen follows it.
Upgrade(c) ==
  /\ link[c] = "granted"
  /\ \/ MovesTo(c, "none") /\ UNCHANGED <<tracked, served>>
     \/ /\ MovesTo(c, "tracked") /\ tracked' = tracked \union {c}
        /\ served' = IF current = None THEN served ELSE served \union {current}
  /\ UNCHANGED <<files, table, server, streaming, bound, since, dead, refresher, late>>

\* onOpen asks for the runtime again, to push its commands.
Open(c) ==
  /\ link[c] = "tracked" /\ MovesTo(c, "reading")
  /\ \E r \in Runtime \union {None} : RuntimeForUser(r)
  /\ UNCHANGED <<files, server, streaming, bound, since, tracked, dead, refresher, late>>

Message(c) ==
  /\ link[c] = "reading" /\ c \notin dead /\ MovesTo(c, "resolving")
  /\ since' = Set(since, c, edition)
  /\ UNCHANGED <<files, table, server, streaming, bound, tracked, dead, refresher, served, late>>

Handled(c) == MovesTo(c, "reading") /\ bound' = Set(bound, c, None) /\ since' = Set(since, c, 0)

\* The dynamic router resolves each message; an error is sent to the browser.
Resolve(c) ==
  /\ link[c] = "resolving"
  /\ \E r \in Runtime \union {None} :
       /\ RuntimeForUser(r)
       /\ IF r = None
            THEN Handled(c)
            ELSE MovesTo(c, "handling") /\ bound' = Set(bound, c, r) /\ UNCHANGED since
  /\ UNCHANGED <<files, server, streaming, tracked, dead, refresher, late>>

\* A prompt starts a stream unless one is running.
Prompt(c) ==
  /\ link[c] = "handling" /\ Handled(c)
  /\ streaming' = streaming \union {bound[c]}
  /\ UNCHANGED <<files, table, server, tracked, dead, refresher, served, late>>

OtherMessage(c) ==
  /\ link[c] = "handling" /\ Handled(c)
  /\ UNCHANGED <<files, table, server, streaming, tracked, dead, refresher, served, late>>

StreamEnds(r) ==
  /\ r \in streaming /\ streaming' = streaming \ {r}
  /\ UNCHANGED <<files, table, server, links, refresher, served, late>>

\* Mutant: the runtime stays when the last connection goes.
LeaveKeeping(c) ==
  /\ link[c] = "reading" /\ MovesTo(c, "none")
  /\ tracked' = tracked \ {c} /\ dead' = dead \ {c}
  /\ UNCHANGED <<files, table, server, streaming, bound, since, refresher, served, late>>

\* HandleLoop returns, as a side has closed the socket; trackConnectionClose:
\* the last tracked connection takes the runtime along.
Leave(c) ==
  /\ link[c] = "reading" /\ MovesTo(c, "none")
  /\ tracked' = tracked \ {c} /\ dead' = dead \ {c}
  /\ IF tracked = {c}
       THEN current' = None /\ phase' = Replaced(phase)
       ELSE UNCHANGED <<current, phase>>
  /\ UNCHANGED <<files, fp, server, streaming, bound, since, refresher, served, late>>

-----------------------------------------------------------------------------
(* The refresher: the users are listed under one lock, and each runtime is *)
(* asked for under another.                                                *)

Tick ==
  /\ refresher = "idle" /\ current # None /\ refresher' = "listed"
  /\ UNCHANGED <<files, table, server, streaming, links, served, late>>

Refresh ==
  /\ refresher = "listed" /\ refresher' = "idle"
  /\ \E r \in Runtime \union {None} : RuntimeForUser(r)
  /\ UNCHANGED <<files, server, streaming, links, late>>

-----------------------------------------------------------------------------
(* The life of a runtime: its pool starts, and is closed.                  *)

\* RegisterAndStart looks at Pool.closed once, at its beginning.
StartServer(s) ==
  /\ phase[Watched] # "unbuilt" /\ server[s] = "idle"
  /\ server' = Set(server, s, IF phase[Watched] \in {"shut", "closed"}
                               THEN "failed" ELSE "starting")
  /\ UNCHANGED <<files, table, streaming, links, refresher, served, late>>

\* The handshake fails, or the session is stored in the pool.
ServerStarts(s) ==
  /\ server[s] = "starting" /\ \E end \in {"stored", "failed"} : server' = Set(server, s, end)
  /\ UNCHANGED <<files, table, streaming, links, refresher, served, late>>

\* tenantRuntime.Close cancels the context and Pool.CloseAll marks the pool;
\* the goroutine that took the runtime out of the table does it.
Shut(r) ==
  /\ phase[r] = "doomed" /\ phase' = Set(phase, r, "shut")
  /\ UNCHANGED <<files, current, fp, server, streaming, links, refresher, served, late>>

\* Mutant: the stored sessions are forgotten, not closed.
SweepNothing(r) ==
  /\ phase[r] = "shut" /\ phase' = Set(phase, r, "closed")
  /\ UNCHANGED <<files, current, fp, server, streaming, links, refresher, served, late>>

\* CloseAll takes the stored sessions and closes them.
Sweep(r) ==
  /\ phase[r] = "shut" /\ phase' = Set(phase, r, "closed")
  /\ IF r = Watched
       THEN /\ server' = [s \in Server |-> IF server[s] = "stored" THEN "stopped" ELSE server[s]]
            /\ late' = {s \in Server : server[s] = "starting"}
       ELSE UNCHANGED <<server, late>>
  /\ UNCHANGED <<files, current, fp, streaming, links, refresher, served>>

-----------------------------------------------------------------------------
Connection(c) ==
  \/ Ask(c) \/ Grant(c) \/ Upgrade(c) \/ Open(c) \/ Message(c) \/ Resolve(c)
  \/ Prompt(c) \/ OtherMessage(c) \/ Leave(c)
Life(r) == StreamEnds(r) \/ Shut(r) \/ Sweep(r)
\* After CloseAll the process only waits for the runtimes to close.
Next ==
  \/ serving /\ (Edit \/ Login \/ Logout \/ CloseAll \/ Tick \/ Refresh)
  \/ \E c \in Conn : serving /\ Connection(c)
  \/ \E r \in Runtime : Life(r)
  \/ \E s \in Server : StartServer(s) \/ ServerStarts(s)

Spec == Init /\ [][Next]_vars

\* A goroutine that closes a runtime goes on; a server's start has a timeout
\* of 60 seconds (startTenantMCP).
FairSpec ==
  /\ Spec
  /\ \A r \in Runtime : WF_vars(Shut(r)) /\ WF_vars(Sweep(r))
  /\ \A s \in Server : WF_vars(StartServer(s)) /\ WF_vars(ServerStarts(s))

-----------------------------------------------------------------------------
(* Properties.                                                             *)

Places == {"none", "asked", "granted", "tracked", "reading", "resolving", "handling"}

TypeOK ==
  /\ edition \in 0 .. MaxEdits /\ signedIn \in BOOLEAN /\ serving \in BOOLEAN
  /\ current \in Runtime \union {None} /\ fp \in [Runtime -> 0 .. MaxEdits]
  /\ phase \in [Runtime -> {"unbuilt", "live", "doomed", "shut", "closed"}]
  /\ server \in [Server -> {"idle", "starting", "stored", "failed", "stopped"}]
  /\ streaming \subseteq Runtime
  /\ link \in [Conn -> Places] /\ bound \in [Conn -> Runtime \union {None}]
  /\ since \in [Conn -> 0 .. MaxEdits] /\ tracked \subseteq Conn /\ dead \subseteq Conn
  /\ refresher \in {"idle", "listed"} /\ served \subseteq Runtime
  /\ late \subseteq Server

\* At most one runtime of a user is neither closed nor about to be, whoever
\* replaces, refreshes or drops it at the same time: the one in the table.
OnlyCurrentLive == \A r \in Runtime : phase[r] = "live" <=> r = current

\* A runtime that has had a connection does not outlive the last one.  (One
\* that was built while none was tracked may: a failed upgrade, a refresh or a
\* message that races the last close or a logout.)
ServedIsNotLeft == current \in served => tracked # {}

\* The newest edition up to e that loads.
Loadable(e) == {n \in 0 .. e : n \notin Broken}

\* A message is handled by a runtime at least as new as the files were when it
\* was read, as far as they load and no later edition that does not load came
\* in between, whatever reloads happen meanwhile.
EditsReachMessages ==
  \A c \in Conn : link[c] = "handling" => \A n \in Loadable(since[c]) :
     n <= fp[bound[c]] \/ \E e \in n + 1 .. edition : e \in Broken

\* The MCP servers of a runtime that is taken out of the table stop, except
\* those whose handshake was under way when the pool was swept: they are
\* stored in a pool that nobody closes again.
ServersStop ==
  \A s \in Server :
    phase[Watched] = "doomed" ~> server[s] \in {"failed", "stopped"} \/ s \in late

=============================================================================
