------------------------------- MODULE AgentRuns -------------------------------
(***************************************************************************)
(* The runs of SubAgents that Catalog computes: a case is a call of the    *)
(* agent tool with the role and the configuration it meets, a history that *)
(* is forked in the middle of a turn, or a question to the status tool.    *)
(***************************************************************************)
EXTENDS Cases, Sequences, SequencesExt

CONSTANTS MaxSize, DefaultMaxTurns,  \* of Catalog
          ToolNames,     \* the tools of the program
          ListedNames,   \* names that a role's lists may hold
          ConfigNames,   \* names that the configuration may hold
          RunTypes,      \* types of run a call may ask for
          RoleNames,     \* roles a call may ask for
          Tasks,         \* what there is to do
          Turns,         \* limits of turns, asked for or of a role
          CallIds,       \* identifiers of tool calls
          TaskIds,       \* identifiers of tasks
          Statuses,      \* of tasks
          MaxHistory,    \* bound on the messages of a history
          MaxAsked       \* bound on the tasks asked for at once

Catalog == INSTANCE Catalog

ASSUME RunsAssumption ==
  /\ DefaultMaxTurns \in Nat \ {0}
  /\ Turns \subseteq Int
  /\ MaxHistory \in Nat /\ MaxAsked \in Nat

RunRole == [allowed : SUBSET ListedNames, denied : SUBSET ListedNames,
            background : BOOLEAN, turns : Turns]
RunConfig == [denied : SUBSET ConfigNames, background : SUBSET ConfigNames]
RunCall == [type : RunTypes, role : RoleNames, task : Tasks, model : {""},
            background : BOOLEAN, turns : Turns]
PlainRole == [allowed |-> {}, denied |-> {}, background |-> FALSE, turns |-> 0]
PlainConfig == [denied |-> {}, background |-> {}]

RunMessage ==
  {[role |-> "assistant", uses |-> u, results |-> {}] : u \in SUBSET CallIds}
  \cup {[role |-> "user", uses |-> {}, results |-> u] : u \in SUBSET CallIds}

RunCase ==
  /\ case = NoCase
  /\ \/ \E role \in RunRole, cfg \in RunConfig, type \in RunTypes, bg \in BOOLEAN :
          case' = [of |-> "run", role |-> role, cfg |-> cfg, ended |-> FALSE,
                   in |-> [type |-> type, role |-> "", task |-> "t", model |-> "",
                           background |-> bg, turns |-> 0]]
     \/ \E in \in RunCall, ended \in BOOLEAN :
          case' = [of |-> "run", role |-> PlainRole, cfg |-> PlainConfig,
                   ended |-> ended, in |-> in]
     \/ \E h \in UpTo(RunMessage, MaxHistory) :
          Paired(h) /\ \E n \in 0 .. Len(h) : case' = [of |-> "fork", h |-> SubSeq(h, 1, n)]
     \/ \E ids \in UpTo(TaskIds, MaxAsked), known \in SUBSET TaskIds, wait, late \in BOOLEAN :
          \E tasks \in [known -> Statuses] :
            case' = [of |-> "status", ids |-> ids, tasks |-> tasks, wait |-> wait, late |-> late]

RunSpec == case = NoCase /\ [][RunCase]_case

-----------------------------------------------------------------------------
\* A role denies a tool in some spelling.  Where the permission is asked for,
\* any is the tool's; in the view of a run, only the tool's own.
Denies(role, t) == \E d \in role.denied : Catalog!Lower(d) = Catalog!Lower(t)

(***************************************************************************)
(* Whatever a role and the configuration say: no SubAgent starts another,  *)
(* none has a tool that is denied it or, in the background, one that is    *)
(* not for the background; the permission that was asked for is at least   *)
(* that of every tool of the run, but for one that the role denies in      *)
(* another spelling than its own; a run has a limit of turns, and a call   *)
(* that was cancelled starts none (Execute, BuildToolView,                 *)
(* DynamicPermission).                                                     *)
(***************************************************************************)
RunsAreConfined ==
  Is("run") =>
    LET roles == [n \in {"general-purpose"} |-> case.role]
        got == Catalog!Execute(case.in, roles, case.ended, {}, TRUE)
        run == IF got.run = "fork"
               THEN Catalog!RunFork(got, ToolNames, case.role, case.cfg, <<>>)
               ELSE Catalog!RunDefined(got, ToolNames, case.role, case.cfg)
    IN  got.ok =>
          /\ ~ case.ended
          /\ ~ run.err =>
               /\ run.tools # {} /\ run.tools \subseteq ToolNames
               /\ run.tools \cap (Catalog!NestedDenied \cup case.cfg.denied
                                  \cup case.role.denied) = {}
               /\ ( /\ got.run = "fork" \/ case.in.background \/ case.role.background
                    /\ case.cfg.background # {} ) =>
                    run.tools \subseteq case.cfg.background
               /\ \A t \in run.tools : Denies(case.role, t) \/
                    Catalog!PermissionForKnownToolName(t)
                      <= Catalog!DynamicPermission(case.in, roles)
               /\ run.turns > 0

(***************************************************************************)
(* A fork, taken in the middle of a turn, starts from a history that a     *)
(* provider accepts, its task at the end, and has lost nothing but the     *)
(* running calls (sanitizeForkHistory).                                    *)
(***************************************************************************)
ForksStartAccepted ==
  Is("fork") =>
    LET kept == Catalog!SanitizeForkHistory(case.h)
    IN  /\ Paired(Append(kept, Catalog!TaskMessage))
        /\ IsPrefix(kept, case.h) /\ Len(kept) + 1 >= Len(case.h)

(***************************************************************************)
(* The status tool answers only for tasks that it knows and, if it waits,  *)
(* only when every one of them has ended (statusMany).                     *)
(***************************************************************************)
AnswersAreFinal ==
  Is("status") =>
    LET got == Catalog!StatusMany(case.ids, case.tasks, case.wait, case.late)
    IN  got.status = "answered" =>
          \A i \in DOMAIN case.ids :
            /\ case.ids[i] \in DOMAIN case.tasks
            /\ case.wait => Catalog!IsTerminalStatus(case.tasks[case.ids[i]])

\* What a SubAgent's run starts from and what is told of it (buildRuntime,
\* Execute, statusMany).
RunsHold == RunsAreConfined /\ ForksStartAccepted /\ AnswersAreFinal

================================================================================
