------------------------------ MODULE ToolRegistry ------------------------------
(***************************************************************************)
(* The tool registry (src/src/tool) while the tools of the MCP servers are *)
(* registered in the background (startTenantMCP, adapter.RegisterAll) and  *)
(* turns ask for the descriptions of the tools (ToSpecs) and look tools up.*)
(*                                                                         *)
(* The lock is a sync.RWMutex: a writer that waits keeps new readers out,  *)
(* those of a goroutine that already reads included.                       *)
(***************************************************************************)
EXTENDS Naturals, FiniteSets

CONSTANTS Turn,      \* the goroutines that run a turn
          Local,     \* the tools of the program
          Remote,    \* the names under which the servers' tools register
          Enabled    \* tools.enabled; empty: all

VARIABLES tools,     \* the map of the registry
          pc,        \* where a turn is
          names,     \* what EnabledNames gave it
          specs,     \* the descriptions it sends
          todo,      \* the tools that RegisterAll has not come to
          writing    \* the tool whose Register waits for the lock, as a set

vars == <<tools, pc, names, specs, todo, writing>>

Init ==
  /\ tools = Local
  /\ pc = [t \in Turn |-> "idle"]
  /\ names = [t \in Turn |-> {}]
  /\ specs = [t \in Turn |-> {}]
  /\ todo = Remote
  /\ writing = {}

\* RLock is granted unless a writer waits.
CanRead == writing = {}
Reading(t) == pc[t] \in {"specs", "names"}

\* ToSpecs takes the lock ...
ToSpecs(t) ==
  /\ pc[t] = "idle" /\ CanRead
  /\ pc' = [pc EXCEPT ![t] = "specs"]
  /\ UNCHANGED <<tools, names, specs, todo, writing>>

\* ... and, while it has it, EnabledNames takes it once more.
EnabledNames(t) ==
  /\ pc[t] = "specs" /\ CanRead
  /\ names' = [names EXCEPT ![t] = IF Enabled = {} THEN tools ELSE tools \cap Enabled]
  /\ pc' = [pc EXCEPT ![t] = "names"]
  /\ UNCHANGED <<tools, specs, todo, writing>>

Describe(t) ==
  /\ pc[t] = "names"
  /\ specs' = [specs EXCEPT ![t] = names[t] \cap tools]
  /\ pc' = [pc EXCEPT ![t] = "run"]
  /\ UNCHANGED <<tools, names, todo, writing>>

\* A call of the turn looks its tool up; List and Snapshot take the lock alike.
Get(t) ==
  /\ pc[t] = "run" /\ CanRead
  /\ pc' = [pc EXCEPT ![t] = "done"]
  /\ UNCHANGED <<tools, names, specs, todo, writing>>

\* The next tool of a server: Register asks for the lock ...
Register(n) ==
  /\ n \in todo /\ writing = {}
  /\ writing' = {n} /\ todo' = todo \ {n}
  /\ UNCHANGED <<tools, pc, names, specs>>

\* ... and has it when nobody reads; a name that is taken is skipped.
Registered ==
  /\ writing # {} /\ \A t \in Turn : ~ Reading(t)
  /\ tools' = tools \cup writing
  /\ writing' = {}
  /\ UNCHANGED <<pc, names, specs, todo>>

Next ==
  \/ \E t \in Turn : ToSpecs(t) \/ EnabledNames(t) \/ Describe(t) \/ Get(t)
  \/ \E n \in Remote : Register(n)
  \/ Registered

Spec == Init /\ [][Next]_vars

\* Every goroutine runs, and the lock is granted when it is free.
FairSpec ==
  /\ Spec /\ WF_vars(Registered)
  /\ \A t \in Turn : WF_vars(EnabledNames(t)) /\ WF_vars(Describe(t)) /\ WF_vars(Get(t))

(***************************************************************************)
(* Registration and lookup are safe to run together: a turn that asks for  *)
(* the descriptions of its tools gets them, whatever is being registered   *)
(* (ToSpecs, Register).                                                    *)
(***************************************************************************)
SpecsReturn == \A t \in Turn : (pc[t] = "specs") ~> (pc[t] = "run")

================================================================================
