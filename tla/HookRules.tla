------------------------------- MODULE HookRules -------------------------------
(***************************************************************************)
(* What decides whether and how one hook fires, on the contexts and the    *)
(* comparisons of HookContext: the condition as a whole (hook/matcher),    *)
(* the interpolation of variables, the action's executor (hook/executor)   *)
(* and the loading of the configured entries (hook/engine.go,              *)
(* hook/loader.go).                                                        *)
(***************************************************************************)
EXTENDS HookContext

\* A list of all comes before one of any, and either before a leaf; a
\* condition without any key holds.
RECURSIVE Evaluate(_, _)
Evaluate(c, ctx) ==
  CASE "all" \in DOMAIN c   -> \A i \in 1 .. Len(c.all) : Evaluate(c.all[i], ctx)
    [] "all" \notin DOMAIN c /\ "any" \in DOMAIN c
                            -> \E i \in 1 .. Len(c.any) : Evaluate(c.any[i], ctx)
    [] {"all", "any"} \cap DOMAIN c = {} /\ "field" \in DOMAIN c -> EvaluateLeaf(c, ctx)
    [] OTHER                -> DOMAIN c = {}

Holds(c, ctx) == Evaluate(ParseCondition(c), ctx)

(***************************************************************************)
(* Interpolation, of a text as the sequence of the classes of its          *)
(* characters: "$", "A" (may begin a name), "1" (may only continue one),   *)
(* "a" (a lower-case letter or a character beyond ASCII) and "-" (others)  *)
(***************************************************************************)
\* The end of the longest run of name characters that begins at i.
RECURSIVE NameEnd(_, _)
NameEnd(t, i) ==
  IF i <= Len(t) /\ t[i] \in {"A", "1"} THEN NameEnd(t, i + 1) ELSE i

\* From the scan position i on: "$$" is a dollar; a "$" that no name follows,
\* or a name that a lower-case letter continues, stays as it is; a name is
\* replaced by its value, here <<"value">> for the names of vars.
RECURSIVE Scan(_, _, _)
Scan(t, i, vars) ==
  IF i > Len(t) THEN <<>>
  ELSE IF t[i] # "$" \/ i = Len(t) THEN <<t[i]>> \o Scan(t, i + 1, vars)
  ELSE IF t[i + 1] = "$" THEN <<"$">> \o Scan(t, i + 2, vars)
  ELSE IF t[i + 1] # "A" THEN <<"$">> \o Scan(t, i + 1, vars)
  ELSE LET j == NameEnd(t, i + 1)
           name == SubSeq(t, i + 1, j - 1)
       IN IF j <= Len(t) /\ t[j] = "a" THEN <<"$">> \o Scan(t, i + 1, vars)
          ELSE (IF name \in vars THEN <<"value">> ELSE <<>>) \o Scan(t, j, vars)

Interpolate(t, vars) == Scan(t, 1, vars)

(***************************************************************************)
(* Actions                                                                 *)
(***************************************************************************)
CONSTANTS DefaultHTTPTimeout, DefaultAgentTimeout,
          DefaultTimeout  \* of the engine

Least(a, b) == IF a < b THEN a ELSE b

\* What the constructor of an action's type refuses.
ActionIsValid(a) ==
  CASE a.type = "command" -> a.command
    [] a.type = "http"    -> a.url \in {"http", "https"}
    [] a.type = "prompt"  -> a.as \in {"", "system_reminder"}
    [] a.type = "agent"   -> TRUE
    [] OTHER              -> FALSE

\* The timeout an executor keeps and runs under.
ConfiguredTimeout(a) ==
  IF a.timeout > 0 THEN a.timeout
  ELSE IF a.type = "http" THEN DefaultHTTPTimeout ELSE DefaultAgentTimeout

\* How long an action lasts that would take a.takes, when its caller has `left`.
\* An http client and an agent run have a limit of their own.  A command has
\* none (its timeout is parsed and kept, but Execute never looks at it): the
\* shell is killed when the context ends, and then Run still waits for every
\* process that has inherited the output, which is for a.held.
RunsFor(a, left) ==
  CASE a.type \in {"http", "agent"} -> Least(a.takes, Least(left, ConfiguredTimeout(a)))
    [] a.type = "command" ->
         IF a.held > Least(a.takes, left) THEN a.held ELSE Least(a.takes, left)
    [] OTHER -> 0

\* A synchronous hook has the engine's limit on top, an async one has none.
TimeOf(a, async, left) == RunsFor(a, IF async THEN left ELSE Least(left, DefaultTimeout))

(***************************************************************************)
(* Loading                                                                 *)
(***************************************************************************)
EntryIsValid(en) ==
  IsValidEvent(en.event) /\ en.parses /\ ActionIsValid(en.action)

\* LoadFromConfig on a new engine: the entries of each event in the order of
\* the configuration; all of them, or none with an error, or none if disabled.
LoadEntries(list, enabled) ==
  LET ok == \A i \in 1 .. Len(list) : EntryIsValid(list[i])
      of(e) == SelectSeq(list, LAMBDA en : en.event = e)
  IN  [err |-> enabled /\ ~ ok,
       entries |-> [e \in DOMAIN EventCategory |-> IF enabled /\ ok THEN of(e) ELSE <<>>]]

================================================================================
