------------------------------- MODULE HookCases -------------------------------
(***************************************************************************)
(* The comparisons of hooks with what HookContext makes of an event: a     *)
(* case is a tool call, its outcome and one comparison.                    *)
(***************************************************************************)
EXTENDS Cases

CONSTANTS FieldNames,     \* fields of a context that a comparison may name
          ArgumentKeys,   \* arguments of a tool call
          Operators,      \* what a comparison may ask
          ComparedParts,  \* parts of the texts that it compares with
          ArgumentParts,  \* parts of the texts that a call passes
          MaxParts        \* bound on the parts of a text

Rules == INSTANCE HookContext

HookLeaf ==
  [field : {<<f>> : f \in FieldNames} \cup {<<"tool_input", k>> : k \in ArgumentKeys},
   op : Operators, value : UpTo(ComparedParts, MaxParts)]
ToolInput ==
  UNION {[K -> UpTo(ArgumentParts, MaxParts) \cup {Rules!JsonNull, Rules!Composite}] :
         K \in SUBSET ArgumentKeys}

HookCase ==
  /\ case = NoCase
  /\ \E leaf \in HookLeaf, input \in ToolInput, result \in {Rules!Empty, <<"done">>},
        failed \in BOOLEAN :
       case' = [of |-> "hook", leaf |-> leaf, input |-> input, result |-> result,
                failed |-> failed]

HookSpec == case = NoCase /\ [][HookCase]_case

-----------------------------------------------------------------------------
\* The fields of a tool call that are not known before it has run.
Outcome == {"event", "tool_result", "error", "tool_is_error", "tool_duration_ms"}

(***************************************************************************)
(* A condition is safe by default and does not depend on when it is asked: *)
(* on a field that the event does not have no leaf holds, whatever it      *)
(* compares with (evaluateLeaf); and what it says of a tool's name, input  *)
(* or session is the same before and after the call, of which a text may   *)
(* name all that it may name before (Vars).                                *)
(***************************************************************************)
HooksHold ==
  Is("hook") =>
    LET leaf == case.leaf
        pre  == Rules!NewPreToolUseContext("bash", case.input, <<"s">>, <<>>)
        post == Rules!NewPostToolUseContext("bash", case.input, case.result, case.failed,
                                            <<"boom">>, <<"s">>, <<>>)
        error == Rules!NewErrorContext(<<"boom">>, <<"s">>, <<>>)
        message == Rules!NewMessageContext("pre_message", <<"hi">>, "user", <<"s">>, <<>>)
    IN  /\ Rules!Vars(pre) \subseteq Rules!Vars(post)
        /\ \A ctx \in {pre, post, error, message} :
             Rules!EvaluateLeaf(leaf, ctx) =>
               LET got == Rules!ResolveField(leaf.field, ctx)
               IN  got.found /\ got.value # Rules!Empty
        /\ Rules!IsArgument(leaf.field) \/ leaf.field[1] \notin Outcome =>
             (Rules!EvaluateLeaf(leaf, pre) <=> Rules!EvaluateLeaf(leaf, post))

================================================================================
