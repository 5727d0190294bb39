-------------------------------- MODULE Catalog --------------------------------
(***************************************************************************)
(* What an agent may use: the skills and the SubAgent roles that are       *)
(* loaded, level by level, the tools that a role leaves to a SubAgent, and *)
(* what a run of a SubAgent starts from and ends with (src/src/skill,      *)
(* src/src/subagent).                                                      *)
(*                                                                         *)
(* A file is [name, lacks, size]: the name of its front matter and which   *)
(* part is missing, "" for none.  A level is [source, files, skip] in the  *)
(* order of the directory.                                                 *)
(***************************************************************************)
EXTENDS Integers, Sequences, SequencesExt, FiniteSetsExt

CONSTANTS MaxSize,          \* max_definition_size_bytes
          DefaultMaxTurns   \* of a runner, if neither the call nor the role says

(***************************************************************************)
(* Loading                                                                 *)
(***************************************************************************)
Project == 1
User == 2
Builtin == 3
Plugin == 4

NewRegistry == [by |-> << >>, order |-> <<>>, conflict |-> FALSE]

Put(reg, name, source) ==
  [reg EXCEPT !.by = [n \in DOMAIN reg.by \cup {name} |->
                        IF n = name THEN source ELSE reg.by[n]],
              !.order = IF name \in DOMAIN reg.by THEN @ ELSE Append(@, name)]

\* A name twice from one level is a conflict, as is one from a lower level than
\* it has; one from a higher level replaces it and keeps its place.
RegisterSkill(reg, name, source) ==
  IF name \in DOMAIN reg.by /\ reg.by[name] <= source
  THEN [reg EXCEPT !.conflict = TRUE] ELSE Put(reg, name, source)

\* The same for roles, but one from a lower level is left out without a word.
RegisterDefinition(reg, name, source) ==
  CASE name \in DOMAIN reg.by /\ reg.by[name] = source -> [reg EXCEPT !.conflict = TRUE]
    [] name \in DOMAIN reg.by /\ reg.by[name] < source -> reg
    [] OTHER -> Put(reg, name, source)

SkillParses(f) == f.lacks \notin {"front matter", "name", "description"}
DefinitionParses(f) ==
  /\ f.lacks \notin {"front matter", "name", "description", "body"}
  /\ f.size <= MaxSize

\* Names of roles in one spelling, the old misspelt one included.
NormalizeName(name) ==
  CASE name = "Explore" -> "explore"
    [] name = "gerneral-purpose" -> "general-purpose"
    [] OTHER -> name

\* One level: files that do not parse are skipped, a conflict ends the loading;
\* a level that may repeat one of its source skips what that already has.
ScanSkills(reg, level) ==
  LET read(r, f) ==
        IF r.conflict \/ ~ SkillParses(f)
           \/ (level.skip /\ f.name \in DOMAIN r.by /\ r.by[f.name] = level.source)
        THEN r ELSE RegisterSkill(r, f.name, level.source)
  IN  FoldLeft(read, reg, level.files)

ScanDefinitions(reg, level) ==
  LET read(r, f) ==
        LET name == NormalizeName(f.name) IN
        IF r.conflict \/ ~ DefinitionParses(f)
           \/ (level.skip /\ name \in DOMAIN r.by /\ r.by[name] = level.source)
        THEN r ELSE RegisterDefinition(r, name, level.source)
  IN  FoldLeft(read, reg, level.files)

\* The built-in skills (embedded, beside the program, in the source tree), then
\* the user's, then the project's.
LoadSkills(files) ==
  FoldLeft(ScanSkills, NewRegistry,
           <<[source |-> Builtin, skip |-> FALSE, files |-> files.embedded],
             [source |-> Builtin, skip |-> TRUE, files |-> files.builtin],
             [source |-> User, skip |-> FALSE, files |-> files.user],
             [source |-> Project, skip |-> FALSE, files |-> files.project]>>)

\* The roles of plugins first, which come last.
LoadDefinitions(files) ==
  FoldLeft(ScanDefinitions, NewRegistry,
           <<[source |-> Plugin, skip |-> FALSE, files |-> files.plugin],
             [source |-> Builtin, skip |-> FALSE, files |-> files.embedded],
             [source |-> Builtin, skip |-> TRUE, files |-> files.builtin],
             [source |-> User, skip |-> FALSE, files |-> files.user],
             [source |-> Project, skip |-> FALSE, files |-> files.project]>>)

(***************************************************************************)
(* The tools of a SubAgent.  A role is [allowed, denied, background, turns]*)
(***************************************************************************)
NestedDenied == {"Agent", "SubAgent", "SubAgentStatus", "TaskStatus",
                 "agent", "subagent", "subagent_status", "task_status"}

\* What the configuration denies, what starts or asks for SubAgents, then the
\* role's own lists, then what may run in the background; empty is an error.
BuildToolView(tools, role, cfg, background) ==
  LET left == tools \ (cfg.denied \cup NestedDenied)
      own == (IF role.allowed = {} THEN left ELSE left \cap role.allowed) \ role.denied
  IN  IF background /\ cfg.background # {} THEN own \cap cfg.background ELSE own

Lower(name) ==
  CASE name = "Bash" -> "bash" [] name = "ReadFile" -> "readfile"
    [] name = "WriteFile" -> "writefile" [] OTHER -> name

Read == 0
Write == 1
Exec == 2
PermissionForKnownToolName(name) ==
  CASE Lower(name) \in {"readfile", "glob", "grep", "task_status", "use_skill"} -> Read
    [] Lower(name) \in {"writefile", "editfile"} -> Write
    [] OTHER -> Exec

\* Of a role with a list: the most that a tool of it needs.
PermissionForRoleTools(role) ==
  LET kept == {n \in role.allowed : \A d \in role.denied : Lower(d) # Lower(n)}
  IN  IF kept = {} THEN Exec ELSE Max({PermissionForKnownToolName(n) : n \in kept})

(***************************************************************************)
(* The agent tool                                                          *)
(***************************************************************************)
RunType(in) == IF in.type = "" THEN "defined" ELSE in.type
RoleName(in) == IF in.role = "" THEN "general-purpose" ELSE NormalizeName(in.role)
Background(in, role) == in.background \/ role.background \/ RunType(in) = "fork"

DynamicPermission(in, roles) ==
  IF RunType(in) # "defined" \/ RoleName(in) \notin DOMAIN roles THEN Exec
  ELSE PermissionForRoleTools(roles[RoleName(in)])

Refused(status) == [ok |-> FALSE, status |-> status]

\* What a call submits, or why it does not.
Execute(in, roles, ended, models, forks) ==
  CASE ended -> Refused("canceled")
    [] ~ ended /\ RunType(in) \notin {"defined", "fork"} -> Refused("invalid_type")
    [] ~ ended /\ RunType(in) \in {"defined", "fork"} /\ RoleName(in) \notin DOMAIN roles ->
         Refused("role_not_found")
    [] OTHER ->
         CASE in.task = "" -> Refused("invalid_input")
           [] in.task # "" /\ in.model \notin models \cup {""} -> Refused("model_not_supported")
           [] in.task # "" /\ in.model \in models \cup {""} /\ RunType(in) = "fork" /\ ~ forks ->
                Refused("not_configured")
           [] OTHER -> [ok |-> TRUE, status |-> "submitted", run |-> RunType(in),
                        role |-> RoleName(in), task |-> in.task,
                        background |-> Background(in, roles[RoleName(in)]),
                        turns |-> IF in.turns > 0 THEN in.turns ELSE roles[RoleName(in)].turns]

(***************************************************************************)
(* A run                                                                   *)
(***************************************************************************)
ToolUseIDs(m) == IF m.role = "assistant" THEN m.uses ELSE {}
HasResults(m, ids) == m.role = "user" /\ ids \subseteq m.results

\* Mutant: the snapshot is taken as it is.
SanitizeNothing(h) == h

\* The history that a fork inherits may end in calls that are running: it is cut
\* before the first message whose calls the next one does not all answer.
SanitizeForkHistory(h) ==
  LET open == {i \in DOMAIN h : /\ ToolUseIDs(h[i]) # {}
                                /\ ~ (i < Len(h) /\ HasResults(h[i + 1], ToolUseIDs(h[i])))}
  IN  IF open = {} THEN h ELSE SubSeq(h, 1, Min(open) - 1)

ResolveMaxTurns(asked, role) ==
  IF asked > 0 THEN asked ELSE IF role.turns > 0 THEN role.turns ELSE DefaultMaxTurns

TaskMessage == [role |-> "user", uses |-> {}, results |-> {}]

\* A defined role starts with nothing but its task.
RunDefined(req, tools, role, cfg) ==
  LET view == BuildToolView(tools, role, cfg, req.background)
  IN  IF req.task = "" \/ view = {} THEN [err |-> TRUE]
      ELSE [err |-> FALSE, history |-> <<TaskMessage>>, tools |-> view,
            turns |-> ResolveMaxTurns(req.turns, role)]

\* A fork starts with the history of its parent, and always has the tools of a
\* run in the background.
RunFork(req, tools, role, cfg, parent) ==
  LET view == BuildToolView(tools, role, cfg, TRUE)
  IN  IF req.task = "" \/ view = {} THEN [err |-> TRUE]
      ELSE [err |-> FALSE, history |-> Append(SanitizeForkHistory(parent), TaskMessage),
            tools |-> view, turns |-> ResolveMaxTurns(req.turns, role)]

(***************************************************************************)
(* The status tool over the tasks that the manager knows, a function from  *)
(* identifiers to statuses                                                 *)
(***************************************************************************)
CleanTaskIDs(id, ids) ==
  LET all == <<id>> \o ids
      first(i) == all[i] # "" /\ \A j \in 1 .. i - 1 : all[j] # all[i]
      keep == SelectSeq([i \in DOMAIN all |-> i], first)
  IN  [k \in DOMAIN keep |-> all[keep[k]]]

IsTerminalStatus(status) == status \in {"completed", "failed", "canceled"}

CollectStatuses(ids, tasks) ==
  LET missing == {i \in DOMAIN ids : ids[i] \notin DOMAIN tasks}
      upTo == IF missing = {} THEN Len(ids) ELSE Min(missing) - 1
      found == [i \in 1 .. upTo |-> tasks[ids[i]]]
  IN  [ok |-> missing = {}, tasks |-> found,
       complete |-> missing = {} /\ \A i \in DOMAIN found : IsTerminalStatus(found[i])]

\* One look at the tasks: an answer, or another look after the pause ("wait").
StatusMany(ids, tasks, wait, late) ==
  LET out == CollectStatuses(ids, tasks)
  IN  CASE ids = <<>> -> Refused("empty")
        [] ids # <<>> /\ (~ out.ok \/ ~ wait \/ out.complete) ->
             [ok |-> out.ok, status |-> IF out.ok THEN "answered" ELSE "not found"]
        [] ids # <<>> /\ out.ok /\ wait /\ ~ out.complete /\ late -> Refused("timed out")
        [] OTHER -> [ok |-> TRUE, status |-> "wait"]

================================================================================
