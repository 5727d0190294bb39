---------------------------------- MODULE View ----------------------------------
(***************************************************************************)
(* What the browser and the reviewer of a turn are told of a conversation: *)
(* the cards of tool calls while they run and after a reload, the calls of *)
(* a turn, the use of the context window and the tools of each MCP server  *)
(* (src/src/interaction/web/handler.go and tool_msg.go, and the counters   *)
(* of src/src/engine/conversation/manager.go).                             *)
(*                                                                         *)
(* A block is [type, id, name, text, err].  The text of a block is "", or  *)
(* "missed" for the error of EditFile that did not find its old_string, or *)
(* any other text.  How long a text is shown is left out.                  *)
(***************************************************************************)
EXTENDS Integers, Sequences, SequencesExt, FiniteSets

(***************************************************************************)
(* Tool calls, as they run                                                 *)
(***************************************************************************)
\* What Execute makes of a call [id, name] that ends with a status and a text:
\* the block for the history, and the event for the browser.
Failed(end) == end.status # "completed"
ResultBlock(call, end) ==
  [type |-> "tool_result", id |-> call.id, name |-> "", text |-> end.text, err |-> Failed(end)]
EndEvent(call, end) ==
  [id |-> call.id, name |-> call.name, isError |-> Failed(end), status |-> end.status,
   output |-> IF Failed(end) THEN "" ELSE end.text,
   error |-> IF Failed(end) THEN end.text ELSE ""]

DisplayOutput(evt) == IF evt.isError /\ evt.output = "" THEN evt.error ELSE evt.output

ShouldSuppress(name, output, isError) == isError /\ name = "EditFile" /\ output = "missed"

MapToolEventStatus(s) ==
  IF s \in {"running", "completed", "error", "aborted", "timeout"} THEN s ELSE "error"

\* The connection: starts that wait for the end of their call, and what was sent.
NewConnection == [delayed |-> {}, sent |-> <<>>]

OnStart(ui, call) ==
  IF call.name = "EditFile"
  THEN [ui EXCEPT !.delayed = @ \cup {call.id}]
  ELSE [ui EXCEPT !.sent = Append(@, [at |-> "start", id |-> call.id])]

\* Mutant: the start that was held back is forgotten.
OnEndAlone(ui, evt) ==
  [delayed |-> ui.delayed \ {evt.id},
   sent |-> IF ShouldSuppress(evt.name, DisplayOutput(evt), evt.isError) THEN ui.sent
            ELSE Append(ui.sent, [at |-> "end", id |-> evt.id, isError |-> evt.isError,
                                  status |-> MapToolEventStatus(evt.status)])]

OnEnd(ui, evt) ==
  LET start == IF evt.id \in ui.delayed THEN <<[at |-> "start", id |-> evt.id]>> ELSE <<>>
      end == [at |-> "end", id |-> evt.id, isError |-> evt.isError,
              status |-> MapToolEventStatus(evt.status)]
  IN  [delayed |-> ui.delayed \ {evt.id},
       sent |-> IF ShouldSuppress(evt.name, DisplayOutput(evt), evt.isError) THEN ui.sent
                ELSE ui.sent \o start \o <<end>>]

(***************************************************************************)
(* Tool calls and texts, after a reload                                    *)
(***************************************************************************)
IsOnlyToolResults(content) ==
  content # <<>> /\ \A i \in DOMAIN content : content[i].type = "tool_result"

\* Of several results of one call the last one counts.
ResultsOf(h, id) ==
  SelectSeq(FlattenSeq([i \in DOMAIN h |-> IF h[i].role = "user" THEN h[i].content ELSE <<>>]),
            LAMBDA b : b.type = "tool_result" /\ b.id = id)

Card(h, use) ==
  LET results == ResultsOf(h, use.id)
      has == results # <<>>
      isError == ~ has \/ Last(results).err
      output == IF has THEN Last(results).text ELSE ""
  IN  IF ShouldSuppress(use.name, output, isError) THEN <<>>
      ELSE <<[role |-> "assistant", text |-> <<>>, card |-> use.id, isError |-> isError,
              status |-> IF isError THEN "error" ELSE "completed"]>>

Texts(content) == SelectSeq(content, LAMBDA b : b.type = "text" /\ b.text # "")
Uses(content) == SelectSeq(content, LAMBDA b : b.type = "tool_use")

ChatMessages(h, m) ==
  LET texts == Texts(m.content)
      said == [role |-> m.role, text |-> [i \in DOMAIN texts |-> texts[i].text], card |-> "",
               isError |-> FALSE, status |-> ""]
      cards == [i \in DOMAIN Uses(m.content) |-> Card(h, Uses(m.content)[i])]
  IN  IF m.role = "user" /\ IsOnlyToolResults(m.content) THEN <<>>
      ELSE (IF texts = <<>> THEN <<>> ELSE <<said>>) \o FlattenSeq(cards)

BuildChatMessages(h) == FlattenSeq([i \in DOMAIN h |-> ChatMessages(h, h[i])])

(***************************************************************************)
(* The calls of a turn                                                     *)
(***************************************************************************)
\* The names of the calls after the first `before` messages, each once; of all
\* the messages if there are fewer by now.
CollectTurnToolCallNames(h, before) ==
  LET from == IF before \in 0 .. Len(h) THEN before ELSE 0
      uses == FlattenSeq([i \in 1 .. Len(h) - from |-> Uses(h[from + i].content)])
      once(names, b) == IF b.name = "" \/ b.name \in ToSet(names) THEN names
                        ELSE Append(names, b.name)
  IN  FoldLeft(once, <<>>, uses)

(***************************************************************************)
(* The use of the context window                                           *)
(***************************************************************************)
\* The counters of a conversation, with the length of its history, what was changed
\* inside of its messages (who asks for History may do so) and its lead message.
NewCounters == [h |-> 0, edits |-> 0, lead |-> 0, lastInput |-> 0, total |-> 0, version |-> 0, usage |-> 0]

Changed(c) == [c EXCEPT !.version = @ + 1]
AddMessage(c) == Changed([c EXCEPT !.h = @ + 1])
ReplaceHistory(c, n) == Changed([c EXCEPT !.h = n])
History(c) == Changed([c EXCEPT !.edits = @ + 1])
SetLeadUserMessage(c, lead) ==
  [(IF c.lead = lead THEN c ELSE Changed(c)) EXCEPT !.lead = lead]
UpdateUsage(c, input) ==
  IF input = 0 THEN c
  ELSE [c EXCEPT !.lastInput = input, !.total = @ + input, !.usage = c.version]

\* The number of the last request while nothing has changed since, the estimate
\* otherwise.
GetContextUsage(c, window, estimate) ==
  LET used == IF c.lastInput > 0 /\ c.usage = c.version THEN c.lastInput ELSE estimate
      percent == IF window > 0 THEN (used * 100) \div window ELSE 0
  IN  [used |-> used,
       remaining |-> IF used > window THEN 0 ELSE window - used,
       percent |-> IF percent > 100 THEN 100 ELSE percent]

(***************************************************************************)
(* The tools of MCP servers                                                *)
(***************************************************************************)
\* A name is a sequence of characters, "mcp__" being one; two of these separate
\* the server from its tool.
Underscore == "_"
BuildToolName(server, remoteTool) ==
  <<"mcp__">> \o server \o <<Underscore, Underscore>> \o remoteTool

\* What comes before the first "__" of the rest.
ResolveMCPServer(name) ==
  LET rest == Tail(name)
      seps == {i \in 1 .. Len(rest) - 1 : rest[i] = Underscore /\ rest[i + 1] = Underscore}
  IN  IF Len(name) <= 1 \/ Head(name) # "mcp__" \/ seps = {} THEN <<>>
      ELSE SubSeq(rest, 1, (CHOOSE i \in seps : \A j \in seps : i <= j) - 1)

\* [servers, healthyCount, unhealthyCount, totalTools] for the tools of the
\* registry; the order of the servers is left out.
MCPStatus(tools, healthy, unhealthy) ==
  LET count(s) == Cardinality({t \in tools : ResolveMCPServer(t) = s})
  IN  [servers |-> {[name |-> s, state |-> "healthy", tools |-> count(s)] : s \in healthy}
                   \cup {[name |-> s, state |-> "unhealthy", tools |-> 0] : s \in unhealthy},
       healthyCount |-> Cardinality(healthy), unhealthyCount |-> Cardinality(unhealthy),
       totalTools |-> Cardinality({t \in tools : ResolveMCPServer(t) \in healthy})]

================================================================================
