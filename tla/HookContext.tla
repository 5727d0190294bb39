------------------------------ MODULE HookContext ------------------------------
(***************************************************************************)
(* What a hook can look at: the context of its event (hookcontext) and one *)
(* comparison with a field of it (hook/matcher, hook/condition).           *)
(* A string is the sequence of its parts: a path its segments, any other   *)
(* value one part, the empty string <<>>.  Names are compared without case *)
(* in the code and are written in lower case here.                         *)
(***************************************************************************)
EXTENDS Naturals, Sequences, SequencesExt

Empty == <<>>

(***************************************************************************)
(* Events and their contexts                                               *)
(***************************************************************************)
EventCategory ==
  [program_start |-> "system", program_exit |-> "system", compact |-> "system",
   error |-> "system", session_start |-> "session", session_end |-> "session",
   iteration_start |-> "iteration", iteration_end |-> "iteration",
   pre_tool_use |-> "tool", post_tool_use |-> "tool",
   pre_message |-> "message", post_message |-> "message"]

IsValidEvent(e) == e \in DOMAIN EventCategory

\* The text fields of a context and those that are numbers or flags.
TextFields == {"event", "category", "tool_name", "tool_input_file_path",
               "message_role", "message_content", "tool_result", "error",
               "session_id", "workdir"}
Figures    == {"iteration", "tool_duration_ms", "tool_is_error"}

\* A JSON null, and an object or a list: it is a text where it is printed, and
\* none where it is compared.
JsonNull == <<"null">>
Composite == <<"{}">>

NoContext == [texts |-> [f \in TextFields |-> Empty],
              figures |-> [f \in Figures |-> IF f = "tool_is_error" THEN <<"false">>
                                             ELSE <<"0">>],
              input |-> << >>]

Texts(ctx, new) ==
  [ctx EXCEPT !.texts = [f \in TextFields |-> IF f \in DOMAIN new THEN new[f] ELSE @[f]]]

\* The file a tool works on: its file_path argument, or else its path.
ExtractToolInputFilePath(input) ==
  LET given == {k \in {"file_path", "path"} \cap DOMAIN input : input[k] # JsonNull}
  IN  IF "file_path" \in given THEN input["file_path"]
      ELSE IF "path" \in given THEN input["path"] ELSE Empty

EventContext(e, session, workdir) ==
  Texts(NoContext, [event |-> <<e>>, category |-> <<EventCategory[e]>>,
                    session_id |-> session, workdir |-> workdir])

NewMessageContext(e, content, role, session, workdir) ==
  Texts(EventContext(e, session, workdir),
        [message_content |-> content, message_role |-> <<role>>])

NewPreToolUseContext(tool, input, session, workdir) ==
  [Texts(EventContext("pre_tool_use", session, workdir),
         [tool_name |-> <<tool>>, tool_input_file_path |-> ExtractToolInputFilePath(input)])
   EXCEPT !.input = input]

\* Only a failed call has an error, which is also its result if it has none.
NewPostToolUseContext(tool, input, result, failed, message, session, workdir) ==
  LET pre == NewPreToolUseContext(tool, input, session, workdir)
      res == IF failed /\ result = Empty THEN message ELSE result
  IN  [Texts(pre, [event |-> <<"post_tool_use">>, tool_result |-> res,
                   error |-> IF failed THEN message ELSE Empty])
       EXCEPT !.figures["tool_is_error"] = <<IF failed THEN "true" ELSE "false">>]

NewErrorContext(message, session, workdir) ==
  Texts(EventContext("error", session, workdir), [error |-> message])

\* The variables that a text may name: every text field that is not empty, every
\* number that is not zero, the flag, and every argument but null.
Vars(ctx) ==
  {<<f>> : f \in {f \in TextFields : ctx.texts[f] # Empty}}
  \cup {<<f>> : f \in {f \in Figures : ctx.figures[f] # <<"0">>}} \cup {<<"tool_is_error">>}
  \cup {<<"tool_input", k>> : k \in {k \in DOMAIN ctx.input : ctx.input[k] # JsonNull}}

(***************************************************************************)
(* Conditions                                                              *)
(* A condition is a record with some of the keys all, any (lists of        *)
(* conditions), field, op and value.                                       *)
(***************************************************************************)
Found(v) == [found |-> TRUE, value |-> v]
NotFound == [found |-> FALSE, value |-> Empty]

\* A field is <<name>>, or <<"tool_input", key>> for an argument of the call.
IsArgument(field) == Len(field) = 2

ResolveField(field, ctx) ==
  IF IsArgument(field)
  THEN IF field[2] \notin DOMAIN ctx.input THEN NotFound
       ELSE Found(IF ctx.input[field[2]] \in {JsonNull, Composite} THEN Empty
                  ELSE ctx.input[field[2]])
  ELSE IF field[1] \in Figures THEN Found(ctx.figures[field[1]])
  ELSE IF field[1] \in TextFields /\ ctx.texts[field[1]] # Empty
       THEN Found(ctx.texts[field[1]])
  ELSE NotFound

\* path.Match: "*" stands for any one segment; nothing crosses a separator.
PathMatch(pattern, path) ==
  /\ Len(pattern) = Len(path)
  /\ \A i \in 1 .. Len(path) : pattern[i] \in {"*", path[i]}

HasPart(s, part) ==
  \E i \in 0 .. Len(s) - Len(part) : SubSeq(s, i + 1, i + Len(part)) = part

\* The four operators.  A pattern is tried on the path and on its last part.
Compare(op, value, want) ==
  CASE op \in {"eq", ""} -> value = want /\ value # Empty
    [] op = "neq"        -> value # Empty /\ value # want
    [] op = "glob"       -> /\ value # Empty /\ want # Empty
                            /\ \/ PathMatch(want, value)
                               \/ Len(value) > 1 /\ PathMatch(want, <<Last(value)>>)
    [] op = "contains"   -> value # Empty /\ HasPart(value, want)
    [] OTHER             -> FALSE

\* Mutant: an empty text satisfies what it is compared with.
EvaluateLeafLoosely(leaf, ctx) ==
  LET got == ResolveField(leaf.field, ctx)
  IN  got.value = leaf.value \/ Compare(leaf.op, got.value, leaf.value)

EvaluateLeaf(leaf, ctx) ==
  LET got == ResolveField(leaf.field, ctx)
  IN  got.found /\ Compare(leaf.op, got.value, leaf.value)

Without(c, keys) == [k \in DOMAIN c \ keys |-> c[k]]

\* The parser drops an empty list at the top, but not inside a list.
ParseCondition(c) == Without(c, {k \in {"all", "any"} \cap DOMAIN c : c[k] = <<>>})

================================================================================
