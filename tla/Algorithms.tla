------------------------------- MODULE Algorithms -------------------------------
(***************************************************************************)
(* The sequential computations of the program over all the inputs of small *)
(* domains, those of HookCases, Summaries and AgentRuns among them: the    *)
(* state is the input, and an invariant compares what the code computes    *)
(* from it with what the rest of the program counts on.                    *)
(***************************************************************************)
EXTENDS HookCases, Summaries, AgentRuns, FiniteSets

CONSTANTS Null, Missing, Corrupt  \* of Settings

H == INSTANCE HookRules WITH
       DefaultHTTPTimeout <- 3, DefaultAgentTimeout <- 6, DefaultTimeout <- 3
S == INSTANCE Settings
P == INSTANCE Streams WITH MaxRetries <- 1
V == INSTANCE View
M == INSTANCE MemoryIndex WITH MaxSlugLen <- 3, MaxTitle <- 2, MaxLines <- 3, MaxBytes <- 5

Init == case = NoCase

(***************************************************************************)
(* Hooks                                                                   *)
(***************************************************************************)
HookConfigCase ==
  /\ case = NoCase
  /\ \/ \E t \in UpTo({"$", "A", "1", "a", "-"}, 5) : case' = [of |-> "text", text |-> t]
     \/ \E list \in UpTo([event : {"compact", "no_event"}, parses : BOOLEAN,
                          async : BOOLEAN,
                          action : [type : {"command", "http", "agent", "prompt"},
                                    timeout : {0, 1, 9}, command : {TRUE},
                                    url : {"http", "ftp"}, as : {""},
                                    takes : {1, 9}, held : {0, 9}]], 1),
           enabled \in BOOLEAN :
          case' = [of |-> "entries", list |-> list, enabled |-> enabled]

(***************************************************************************)
(* A condition is made of comparisons: one is itself, a list of all holds  *)
(* if each does and a list of any if one does; an empty list is no         *)
(* condition, but inside another list none of no conditions holds          *)
(* (evaluate, parseCondition).                                             *)
(***************************************************************************)
ListsCombine ==
  Is("hook") =>
    LET ctx == H!NewPreToolUseContext("bash", case.input, <<"s">>, <<>>)
        never == [case.leaf EXCEPT !.op = "like"]
        holds(c) == H!Holds(c, ctx)
    IN  /\ holds(case.leaf) = H!EvaluateLeaf(case.leaf, ctx)
        /\ holds([any |-> <<never, case.leaf>>]) = holds(case.leaf)
        /\ holds([all |-> <<[any |-> <<case.leaf>>], case.leaf>>]) = holds(case.leaf)
        /\ ~ holds([all |-> <<case.leaf, never>>])
        /\ holds([any |-> <<>>]) /\ ~ holds([all |-> <<[any |-> <<>>]>>])

(***************************************************************************)
(* A text is interpolated once: with every "$" written twice, any text     *)
(* comes out as it went in, and no variable of a text without "$" is       *)
(* looked up, whatever the variables are (Interpolate).                    *)
(***************************************************************************)
Escape(t) == FlattenSeq([i \in DOMAIN t |-> IF t[i] = "$" THEN <<"$", "$">> ELSE <<t[i]>>])
EscapedTextIsVerbatim ==
  Is("text") => H!Interpolate(Escape(case.text), {<<"A">>, <<"A", "1">>}) = case.text

(***************************************************************************)
(* Whatever the configuration says, a hook that the program waits for ends *)
(* within the engine's limit, but for a command that leaves a process      *)
(* behind which keeps its output open; and one whose entry, or whose       *)
(* neighbour's, is not valid is not loaded (LoadFromConfig, dispatchOne,   *)
(* RunSafe, Execute).                                                      *)
(***************************************************************************)
LoadedHooksAreBounded ==
  Is("entries") =>
    LET loaded == H!LoadEntries(case.list, case.enabled).entries
        valid(en) == /\ H!IsValidEvent(en.event) /\ en.parses
                     /\ en.action.type = "http" => en.action.url = "http"
    IN  \A e \in DOMAIN loaded : \A i \in DOMAIN loaded[e] :
          LET en == loaded[e][i] IN
          /\ \A other \in ToSet(case.list) : valid(other)
          /\ ~ en.async /\ H!TimeOf(en.action, FALSE, 99) > 3 =>
               en.action.type = "command" /\ en.action.held > 3

(***************************************************************************)
(* Settings                                                                *)
(***************************************************************************)
Key == "auto_trigger_margin"
CompactionSection ==
  {S!Val(Null), [x \in {} |-> 0]}
  \cup [{Key} -> {S!Val(0), S!Val(7), S!Val(9), S!Val(Null)}]
  \cup [{"enabled"} -> {S!Val(FALSE), S!Val(TRUE)}]
  \cup {[x \in {Key, "enabled"} |-> IF x = Key THEN S!Val(7) ELSE S!Val(FALSE)]}
Layer ==
  {Missing, [x \in {} |-> 0]} \cup [{"compaction"} -> CompactionSection]
Env == [anthropic : BOOLEAN, openai : BOOLEAN]

McpServer == [name : {"", " ", "a", "b"}, type : {"stdio", "ftp"}, target : {"", "x"},
              disabled : BOOLEAN, timeout : {0, 7}]

SettingsCase ==
  /\ case = NoCase
  /\ \/ \E global, user \in Layer, env \in Env :
          case' = [of |-> "layers", global |-> global, user |-> user, env |-> env]
     \/ \E s1, s2 \in McpServer, n \in 1 .. 2 :
          case' = [of |-> "servers", servers |-> IF n = 1 THEN <<s1>> ELSE <<s1, s2>>]

(***************************************************************************)
(* The user's setting wins over the global one field by field: what a user *)
(* sets holds, what the user leaves out is the global setting, also inside *)
(* a section that both have, and what neither sets, or the user resets     *)
(* with null, is the default; a switch that is off stays off.              *)
(***************************************************************************)
Layered(k, default) ==
  LET section(l) == l # Missing /\ "compaction" \in DOMAIN l
      open(l) == section(l) /\ S!IsObject(l["compaction"])
      has(l) == open(l) /\ k \in DOMAIN l["compaction"]
      of(l) == l["compaction"][k].val
      got == IF section(case.user) /\ ~ open(case.user) THEN Null
             ELSE IF has(case.user) THEN of(case.user)
             ELSE IF has(case.global) THEN of(case.global) ELSE Null
  IN  IF got = Null THEN default ELSE got

LayersAgree ==
  Is("layers") =>
    LET r == S!LoadMerged(case.global, case.user, case.env)
        want == Layered(Key, 0)
    IN  /\ ~ r.err
        /\ r.config.within["compaction"][Key] = IF want = 0 THEN S!DefaultOf[Key] ELSE want
        /\ r.config.enabled["compaction"] = Layered("enabled", TRUE)

(***************************************************************************)
(* Of servers that the configuration accepts, every enabled one with a     *)
(* name that is not blank gets a transport of its own, under a name no     *)
(* other has: the pool is a map by name (validateMCP, BuildTransports).    *)
(***************************************************************************)
ServersAreDistinct ==
  (Is("servers") /\ S!ValidateMCPConfig(case.servers)) =>
    LET built == S!BuildTransports(case.servers)
        on == {s \in ToSet(case.servers) : ~ s.disabled /\ s.name # " "}
    IN  /\ \A i, j \in DOMAIN built : built[i].name = built[j].name => i = j
        /\ {b.name : b \in ToSet(built)} = {s.name : s \in on}
        /\ \A i \in DOMAIN built : built[i].timeout > 0

(***************************************************************************)
(* Context compaction                                                      *)
(***************************************************************************)
Result == [id : {"r1", "r2", ".."}, tokens : {0, 1, 3, 4, 8}, preview : BOOLEAN]
TextCase ==
  /\ case = NoCase
  /\ \/ \E r1, r2 \in Result, n \in 1 .. 2, failing \in SUBSET {"r1"} :
          /\ n = 2 => r1.id # r2.id
          /\ case' = [of |-> "results", failing |-> failing,
                      results |-> IF n = 1 THEN <<r1>> ELSE <<r1, r2>>]
     \/ \E t \in UpTo({"c", "o"}, 9), budget \in 0 .. 3 :
          case' = [of |-> "preview", text |-> t, budget |-> budget]
     \/ \E chunks \in UpTo([text : UpTo({"<", ">", "w"}, 2), done : BOOLEAN, err : BOOLEAN], 2) :
        \E stop \in 1 .. Len(chunks) + 2 :
          case' = [of |-> "summary", chunks |-> chunks, stop |-> stop]

(***************************************************************************)
(* The light layer leaves a message below the threshold, unless what is    *)
(* left is too short to replace or could not be stored; and what a preview *)
(* replaced is in the store, whole (compactMessage, Save).                 *)
(***************************************************************************)
LightLayerFits ==
  Is("results") =>
    LET done == Compaction!CompactMessage(case.results, << >>, case.failing)
        new == {i \in DOMAIN done.results : ~ case.results[i].preview}
        stuck(r) == r.tokens <= PreviewTokens \/ ~ Compaction!IsSafeName(r.id) \/ r.id \in case.failing
    IN  /\ Compaction!Total(done.results, new) <= Threshold
           \/ \A i \in new : done.results[i].preview \/ stuck(done.results[i])
        /\ \A i \in new : done.results[i].preview =>
             /\ done.results[i].id \in DOMAIN done.store
             /\ done.store[done.results[i].id] = case.results[i].tokens

(***************************************************************************)
(* The preview and the estimate count alike: a text cut to a budget is the *)
(* beginning of the text, is estimated at the budget or one token around   *)
(* it, and the parts of a text never cost less than the text by more than  *)
(* one token for each kind (truncateToTokenBudget, EstimateTextTokens).    *)
(***************************************************************************)
EstimatesAgree ==
  Is("preview") =>
    LET t == case.text
        cut == Compaction!TruncateToTokenBudget(t, case.budget)
        cost(x) == Compaction!EstimateTextTokens(x)
    IN  /\ IsPrefix(cut, t)
        /\ cost(cut) <= case.budget + 1
        /\ cut # t => cost(cut) >= case.budget - 1
        /\ Compaction!EstimateMessageTokens(<<cut, SubSeq(t, Len(cut) + 1, Len(t))>>)
             - Compaction!EstimateMessageTokens(<<t>>) \in -2 .. 2

(***************************************************************************)
(* A summary has no finished draft in it, is not empty and was not cut off *)
(* by an error or by the end of the context, if the loop saw it before the *)
(* last chunk (summarize, stripDraft).                                     *)
(***************************************************************************)
SummariesAreClean ==
  Is("summary") =>
    LET r == Compaction!Summarize(case.chunks, case.stop)
        over(n) == \E j \in 1 .. n - 1 : j <= Len(case.chunks) /\ case.chunks[j].done
    IN  ~ r.err =>
          /\ r.text # <<>>
          /\ ~ \E i, j \in DOMAIN r.text : i < j /\ r.text[i] = "<" /\ r.text[j] = ">"
          /\ \A i \in DOMAIN case.chunks : case.chunks[i].err => over(i)
          /\ case.stop <= Len(case.chunks) + 1 => over(case.stop)

\* What is made of texts: of a hook's, a tool's result and a summary (Interpolate,
\* compactMessage, truncateToTokenBudget, summarize).
TextsHold == EscapedTextIsVerbatim /\ LightLayerFits /\ EstimatesAgree /\ SummariesAreClean

(***************************************************************************)
(* Model providers                                                         *)
(***************************************************************************)
Event(kind, at, piece) == [kind |-> kind, at |-> at, piece |-> piece]
\* Inputs of a call: none, two that are JSON, one that is cut off.
Inputs == {<<>>, <<"{", "}">>, <<"{", "k", "}">>, <<"{", "k">>}
CallBlock(at) ==
  {<<Event("start", at, "")>> \o [i \in DOMAIN args |-> Event("args", at, args[i])]
     \o <<Event("stop", at, "")>> :
     args \in Inputs}
TextBlocks == {<<Event("text", 0, piece)>> : piece \in {"", "x", "y"}}

\* Whole responses, and the number of events that arrive of one.
Response == {a \o b \o c : a \in TextBlocks, b \in CallBlock(1) \cup {<<>>},
                           c \in CallBlock(2) \cup TextBlocks}
Failure == {"401", "429", "400", "too long", "500", "net", "deadline", "canceled"}
TryText == [events : {<<>>, <<Event("text", 0, "x")>>}, cut : BOOLEAN, end : {"end"} \cup Failure]
Try == {a \in TryText : a.cut => a.end \in {"deadline", "canceled"} /\ a.events # <<>>}

Block(type, id, err) == [type |-> type, id |-> id, text |-> <<"t">>, err |-> err]
Results(ids, err) == [i \in DOMAIN ids |-> Block("tool_result", ids[i], err)]
Uses(ids, inputs) ==
  [i \in DOMAIN ids |-> [Block("tool_use", ids[i], FALSE) EXCEPT !.text = inputs[i]]]
Texts == {<<>>, <<Block("text", "", FALSE)>>}
Calls == {<<>>, <<"a">>, <<"b", "a">>}

StreamCase ==
  /\ case = NoCase
  /\ \/ \E r \in Response : \E n \in 0 .. Len(r) :
          case' = [of |-> "response", events |-> SubSeq(r, 1, n), whole |-> n = Len(r)]
     \/ \E a1, a2 \in Try, pause \in {0, 2} :
          case' = [of |-> "tries", tries |-> <<a1, a2>>, pause |-> pause]
     \/ \E sys \in UpTo([text : {<<>>, <<"s">>}, cacheable : BOOLEAN], 3) :
          case' = [of |-> "system", blocks |-> sys]
     \/ \E lead, t1, t2, t3, t4 \in Texts, ids \in Calls, err \in BOOLEAN :
        \E inputs \in [DOMAIN ids -> Inputs] :
          case' = [of |-> "request", lead |-> lead,
                   h |-> <<[role |-> "user", content |-> t1],
                           [role |-> "assistant", content |-> t2 \o Uses(ids, inputs)],
                           [role |-> "user", content |-> Results(ids, err) \o t3],
                           [role |-> "assistant", content |-> t4]>>]

(***************************************************************************)
(* However often a request is sent, the loop reads one last chunk, at the  *)
(* end, with an error unless the request was answered or given up; only a  *)
(* failure of the server or the network is tried again, and MaxRetries     *)
(* times (streamWithRetry, doStream, shouldRetry).                         *)
(***************************************************************************)
StreamsEndOnce ==
  Is("tries") =>
    \A st \in {P!AnthropicStream(case.tries, case.pause), P!OpenAIStream(case.tries, case.pause)} :
      LET n == st.attempts
          failed(i) == case.tries[i].end \notin {"end", "canceled"}
          again(i) == case.tries[i].end \in {"500", "net"}
      IN  /\ st.chunks # <<>> /\ n \in 1 .. 2
          /\ \A i \in DOMAIN st.chunks : st.chunks[i].done = (i = Len(st.chunks))
          /\ Last(st.chunks).err = (failed(n) /\ ~ (again(n) /\ case.pause = n + 1))
          /\ n = 2 => again(1)
          /\ P!IsContextTooLongError(case.tries[1].end) => Last(st.chunks).err

(***************************************************************************)
(* A whole response with well-formed inputs is the same calls from either  *)
(* provider, in the order of the response, however its pieces are cut; of  *)
(* one that breaks off, Anthropic's has no call that was not complete.  An *)
(* input that is not JSON never comes from Anthropic; from OpenAI it does, *)
(* and then the message with the call cannot be written to the session's   *)
(* file (doStream, MarshalJSON).                                           *)
(***************************************************************************)
ResponsesAgree ==
  Is("response") =>
    LET a == P!AnthropicToolUses(case.events)
        o == P!OpenAIToolUses(case.events)
        said(uses) == [role |-> "assistant",
                       content |-> Uses([i \in DOMAIN uses |-> "a"],
                                        [i \in DOMAIN uses |-> uses[i].args])]
    IN  /\ \A i \in DOMAIN a : P!IsJSON(a[i].args) /\ \E j \in DOMAIN o : o[j].at = a[i].at
        /\ P!MarshalJSON(said(a)).ok
        /\ P!MarshalJSON(said(o)).ok <=> \A i \in DOMAIN o : P!IsJSON(o[i].args)
        /\ \A i, j \in DOMAIN o : i < j => o[i].at < o[j].at
        /\ (case.whole /\ \A i \in DOMAIN o : P!IsJSON(o[i].args)) => a = o

(***************************************************************************)
(* The request that OpenAI gets answers every call of an assistant message *)
(* right after it, before anything else, also when a text was added to the *)
(* results, and keeps every text and every input in its order; a session's *)
(* file that takes a message gives it back as it was, and takes each whose *)
(* inputs are JSON or missing; and both providers get the same system      *)
(* prompt, which is cached up to the last block at most (convertMessages,  *)
(* MarshalJSON, buildAnthropicSystemBlocks, buildOpenAISystemText).        *)
(***************************************************************************)
RequestsAreAnswered ==
  /\ Is("system") =>
       LET a == P!AnthropicSystemBlocks(case.blocks)
           said == SelectSeq(a, LAMBDA b : b.text # <<>>)
       IN  /\ P!OpenAISystemText(case.blocks) = [i \in DOMAIN said |-> said[i].text]
           /\ a # <<>> => ~ Last(a).cached
  /\ Is("request") =>
    LET h == P!PrependLeadUserMessage(case.h, IF case.lead = <<>> THEN <<>> ELSE <<"l">>)
        out == P!OpenAIMessages(h)
        calls(i) == IF out[i].role = "assistant" THEN out[i].calls ELSE <<>>
        uses(i) == P!OfType(h[i].content, "tool_use")
        encodes(i) == \A k \in DOMAIN uses(i) : uses(i)[k].text = <<>> \/ P!IsJSON(uses(i)[k].text)
        answered(i) == \A k \in DOMAIN calls(i) :
                         /\ i + k <= Len(out) /\ out[i + k].role = "tool"
                         /\ out[i + k].id = calls(i)[k].id
        texts(of, role) == FlattenSeq([i \in DOMAIN of |->
                             IF of[i].role = role THEN P!TextOf(of[i].content) ELSE <<>>])
        sent(role) == FlattenSeq([i \in DOMAIN out |->
                        IF out[i].role = role THEN out[i].text ELSE <<>>])
    IN  /\ P!AnthropicMessages(h) = h
        /\ \A i \in DOMAIN out : answered(i)
        /\ FlattenSeq([i \in DOMAIN out |-> [k \in DOMAIN calls(i) |-> calls(i)[k].args]])
             = FlattenSeq([i \in DOMAIN h |-> [k \in DOMAIN uses(i) |-> P!OrEmpty(uses(i)[k].text)]])
        /\ \A i \in DOMAIN out : out[i].role = "tool" =>
             \E j \in 1 .. i - 1 : \E k \in DOMAIN calls(j) : j + k = i
        /\ \A role \in {"user", "assistant"} : sent(role) = texts(h, role)
        /\ \A i \in DOMAIN h :
             LET stored == P!MarshalJSON(h[i]) IN
             IF encodes(i) THEN P!UnmarshalJSON(stored.json) = [ok |-> TRUE, msg |-> h[i]]
             ELSE ~ stored.ok

\* What the loop gets from a provider and a provider from the loop (StreamChat).
StreamsHold == StreamsEndOnce /\ ResponsesAgree /\ RequestsAreAnswered

(***************************************************************************)
(* Skills, SubAgent roles and their runs                                   *)
(***************************************************************************)
File(name, lacks, size) == [name |-> name, lacks |-> lacks, size |-> size]
Skills == {File("a", "", 0), File("b", "", 0), File("a", "description", 0)}
Roles == {File("Explore", "", 1), File("explore", "", 1), File("explore", "", 2)}

SourceOfLevel == [plugin |-> Catalog!Plugin, embedded |-> Catalog!Builtin, builtin |-> Catalog!Builtin,
                  user |-> Catalog!User, project |-> Catalog!Project]

CatalogCase ==
  /\ case = NoCase
  /\ \/ \E e, b \in UpTo(Skills, 1), u, p \in UpTo(Skills, 2) :
          case' = [of |-> "skills",
                   files |-> [embedded |-> e, builtin |-> b, user |-> u, project |-> p]]
     \/ \E g, e, b \in UpTo(Roles, 1), u, p \in UpTo(Roles, 2) :
          case' = [of |-> "roles", files |-> [plugin |-> g, embedded |-> e, builtin |-> b,
                                              user |-> u, project |-> p]]
     \/ \E id \in {"", "1", "2", "3"}, ids \in UpTo({"", "1", "2"}, 2) :
          case' = [of |-> "asked", id |-> id, ids |-> ids]

(***************************************************************************)
(* A skill or a role is the one of the highest level that has a file of    *)
(* its name that parses, whatever the levels are read in and however the   *)
(* name is spelt, and it is listed once; a name twice in one level, but    *)
(* for the built-in ones of the disk, ends the loading (LoadAll, Register).*)
(***************************************************************************)
Loads(reg, files, parses(_), named(_)) ==
  LET good(l) == SelectSeq(files[l], parses)
      names(l) == {named(f.name) : f \in ToSet(good(l))}
      levels == DOMAIN files
      has(n) == {SourceOfLevel[l] : l \in {l \in levels : n \in names(l)}}
      twice == \E l \in levels \ {"builtin"} : \E i, j \in DOMAIN good(l) :
                 i # j /\ named(good(l)[i].name) = named(good(l)[j].name)
  IN  /\ reg.conflict = twice
      /\ IsInjective(reg.order) /\ ToSet(reg.order) = DOMAIN reg.by
      /\ ~ twice => /\ DOMAIN reg.by = UNION {names(l) : l \in levels}
                    /\ \A n \in DOMAIN reg.by : reg.by[n] = Min(has(n))

LevelsOverride ==
  /\ Is("skills") => LET id(n) == n
                     IN  Loads(Catalog!LoadSkills(case.files), case.files, Catalog!SkillParses, id)
  /\ Is("roles") => Loads(Catalog!LoadDefinitions(case.files), case.files,
                          Catalog!DefinitionParses, Catalog!NormalizeName)

(***************************************************************************)
(* The status tool asks for every task that a call names, under either     *)
(* parameter, once, in the order they are named (cleanTaskIDs).            *)
(***************************************************************************)
TasksAreAskedOnce ==
  Is("asked") =>
    LET clean == Catalog!CleanTaskIDs(case.id, case.ids)
        all == <<case.id>> \o case.ids
        first(x) == CHOOSE i \in DOMAIN all : all[i] = x /\ x \notin ToSet(SubSeq(all, 1, i - 1))
    IN  /\ ToSet(clean) = ToSet(all) \ {""}
        /\ \A i, j \in DOMAIN clean : i < j => first(clean[i]) < first(clean[j])

\* What is read from the files of several levels and looked up by name (LoadMerged,
\* validateMCP, LoadFromConfig, Register, cleanTaskIDs).
LoadsHold ==
  LayersAgree /\ ServersAreDistinct /\ ListsCombine /\ LoadedHooksAreBounded
  /\ LevelsOverride /\ TasksAreAskedOnce

(***************************************************************************)
(* What is shown and what is remembered                                    *)
(***************************************************************************)
CallNames == {"EditFile", "Bash"}
End == [status : {"completed"}, text : {"", "missed", "x"}]
       \cup [status : {"error", "timeout", "aborted"}, text : {"missed", "x"}]
\* The ends and starts of two calls in every order.
Orders == {<<"s1", "e1", "s2", "e2">>, <<"s1", "s2", "e1", "e2">>, <<"s1", "s2", "e2", "e1">>,
           <<"s2", "s1", "e1", "e2">>, <<"s2", "s1", "e2", "e1">>, <<"s2", "e2", "s1", "e1">>}

Operation == {"say", "edit", "compact", "reset", "lead", "answered", "unmetered"}
Servers == {<<"a">>, <<"b">>, <<"a", "_">>}
RemoteTools == {<<"t">>, <<"_", "t">>}

RawDecision ==
  [action : {"new", "drop"}, type : {"user_role", "other"},
   slug : {<<"A">>, <<"a", "/", "b">>, <<" ">>, <<"/">>, <<"a", "b", " ", "b">>},
   title : {<<" ">>, <<"t">>}, summary : {<<>>, <<"s">>, <<"s", "\n", "r">>},
   content : {<<" ">>, <<"c", "d", " ", "e">>}]
IndexEntry == [type : {"user_role", "user_feedback"}, slug : {<<"a">>, <<"a", "-", "b">>},
               summary : {<<"s">>}]

ViewCase ==
  /\ case = NoCase
  /\ \/ \E n1, n2 \in CallNames, e1, e2 \in End, order \in Orders, hook \in {"", "x"},
           third \in {"none", "cut", "lost"} :
          case' = [of |-> "calls", names |-> <<n1, n2>>, ends |-> <<e1, e2>>,
                   order |-> order, hook |-> hook, third |-> third]
     \/ \E h \in UpTo(UpTo({"A", "B", ""}, 2), 3) : \E before \in 0 .. Len(h) + 1 :
          case' = [of |-> "names", h |-> h, before |-> before]
     \/ \E ops \in UpTo(Operation, 4), window \in {0, 5, 150} :
          case' = [of |-> "usage", ops |-> ops, window |-> window]
     \/ \E owned \in SUBSET (Servers \X RemoteTools), healthy \in SUBSET Servers :
          \E unhealthy \in SUBSET (Servers \ healthy) :
            case' = [of |-> "servers shown", owned |-> owned,
                     healthy |-> healthy, unhealthy |-> unhealthy]
     \/ \E raw \in UpTo({"a", "A", "-", "/", " "}, 5) : case' = [of |-> "slug", raw |-> raw]
     \/ \E d \in RawDecision, es \in UpTo(IndexEntry, 2) :
          /\ \A i, j \in DOMAIN es : es[i].slug = es[j].slug => i = j
          /\ case' = [of |-> "decision", raw |-> d, entries |-> es]
     \/ \E user, global \in UpTo(UpTo({"x"}, 2), 3), enabled \in BOOLEAN :
          case' = [of |-> "lead", user |-> user, global |-> global, enabled |-> enabled]

(***************************************************************************)
(* A reload shows the calls as they were shown while they ran: a call has  *)
(* a card after it exactly if its start and its end were sent, in this     *)
(* order and once, and it failed on the card exactly if the end said so; a *)
(* call that never ran is there, failed; and no text is lost (OnStart,     *)
(* OnEnd, buildChatMessages).                                              *)
(***************************************************************************)
CardsAgree ==
  Is("calls") =>
    LET call(i) == [id |-> IF i = 1 THEN "1" ELSE "2", name |-> case.names[i]]
        step(ui, e) ==
          CASE e = "s1" -> V!OnStart(ui, call(1)) [] e = "s2" -> V!OnStart(ui, call(2))
            [] e = "e1" -> V!OnEnd(ui, V!EndEvent(call(1), case.ends[1]))
            [] e = "e2" -> V!OnEnd(ui, V!EndEvent(call(2), case.ends[2]))
        sent(i) == SelectSeq(FoldLeft(step, V!NewConnection, case.order).sent,
                             LAMBDA m : m.id = call(i).id)
        text(t) == [type |-> "text", id |-> "", name |-> "", text |-> t, err |-> FALSE]
        use(id, name) == [text("") EXCEPT !.type = "tool_use", !.id = id, !.name = name]
        cut == [V!ResultBlock([id |-> "3"], [status |-> "aborted", text |-> "x"])
                  EXCEPT !.err = TRUE]
        ran == [i \in 1 .. 2 |-> V!ResultBlock(call(i), case.ends[i])]
        h == <<[role |-> "user", content |-> <<text("q")>>],
               [role |-> "assistant",
                content |-> <<text("x"), use("1", case.names[1]), use("2", case.names[2])>>
                            \o (IF case.third = "none" THEN <<>> ELSE <<use("3", "EditFile")>>)],
               [role |-> "user",
                content |-> ran \o (IF case.third = "cut" THEN <<cut>> ELSE <<>>)
                            \o (IF case.hook = "" THEN <<>> ELSE <<text(case.hook)>>)]>>
        shown == V!BuildChatMessages(h)
        cards(id) == SelectSeq(shown, LAMBDA m : m.card = id)
    IN  /\ \A i \in 1 .. 2 :
             /\ cards(call(i).id) = <<>> <=> sent(i) = <<>>
             /\ sent(i) # <<>> =>
                  /\ Len(sent(i)) = 2 /\ sent(i)[1].at = "start" /\ sent(i)[2].at = "end"
                  /\ Len(cards(call(i).id)) = 1
                  /\ Head(cards(call(i).id)).isError = sent(i)[2].isError
                  /\ (Head(cards(call(i).id)).status = "completed")
                       = (sent(i)[2].status = "completed")
        /\ case.third # "none" => Len(cards("3")) = 1 /\ Head(cards("3")).isError
        /\ FlattenSeq([i \in DOMAIN shown |-> shown[i].text])
             = <<"q", "x">> \o (IF case.hook = "" THEN <<>> ELSE <<case.hook>>)

(***************************************************************************)
(* The reviewer is told the names of the calls of the turn, each once and  *)
(* in order, as long as the history has not become shorter than it was     *)
(* (collectTurnToolCallNames).                                             *)
(***************************************************************************)
NamesAreOfTheTurn ==
  Is("names") =>
    LET use(n) == [type |-> "tool_use", id |-> "", name |-> n, text |-> "", err |-> FALSE]
        h == [i \in DOMAIN case.h |->
                [role |-> "assistant",
                 content |-> [j \in DOMAIN case.h[i] |-> use(case.h[i][j])]]]
        names == V!CollectTurnToolCallNames(h, case.before)
        turn == FlattenSeq(SubSeq(case.h, case.before + 1, Len(case.h)))
    IN  /\ IsInjective(names)
        /\ case.before <= Len(h) =>
             /\ ToSet(names) = ToSet(turn) \ {""}
             /\ \A i, j \in DOMAIN names : i < j =>
                  \E k \in DOMAIN turn : /\ turn[k] = names[i]
                                         /\ \A l \in 1 .. k : turn[l] # names[j]

(***************************************************************************)
(* The use that is shown is the provider's count of a request only while   *)
(* the context is the one that was counted, and stays within its bounds    *)
(* (UpdateUsage, GetContextUsage and every change of the history).         *)
(***************************************************************************)
UsageIsCurrent ==
  Is("usage") =>
    LET estimated(c) == 3 * c.h + c.edits + c.lead
        counted(c) == 100 + 3 * c.h + c.edits + c.lead
        do(c, op) ==
          CASE op = "say" -> V!AddMessage(c)
            [] op = "edit" -> V!History(c)
            [] op = "compact" -> V!ReplaceHistory(c, 1)
            [] op = "reset" -> V!ReplaceHistory(c, 0)
            [] op = "lead" -> V!SetLeadUserMessage(c, 1)
            [] op = "answered" -> V!UpdateUsage(c, counted(c))
            [] op = "unmetered" -> V!UpdateUsage(c, 0)
        c == FoldLeft(do, V!NewCounters, case.ops)
        got == V!GetContextUsage(c, case.window, estimated(c))
        n == Len(case.ops)
    IN  /\ got.used \in {estimated(c), counted(c)}
        /\ n > 0 /\ Last(case.ops) = "answered" => got.used = counted(c)
        /\ got.remaining >= 0 /\ got.percent \in 0 .. 100
        /\ got.remaining > 0 => got.used + got.remaining = case.window

(***************************************************************************)
(* Of servers whose names have no "__" and do not end with "_", tools      *)
(* never share a name, and each healthy one is shown with all its tools    *)
(* and with no other's (BuildToolName, resolveMCPServerByToolName,         *)
(* buildMCPStatusPayload).                                                 *)
(***************************************************************************)
ServersShowTheirTools ==
  Is("servers shown") =>
    LET name(o) == V!BuildToolName(o[1], o[2])
        status == V!MCPStatus({name(o) : o \in case.owned}, case.healthy, case.unhealthy)
        plain == \A o \in case.owned : Last(o[1]) # "_"
        count(s) == Cardinality({o \in case.owned : o[1] = s})
    IN  /\ Cardinality(status.servers) = status.healthyCount + status.unhealthyCount
        /\ plain => /\ \A o1, o2 \in case.owned : name(o1) = name(o2) => o1 = o2
                    /\ \A s \in status.servers : s.state = "healthy" => s.tools = count(s.name)
                    /\ status.totalTools = Cardinality({o \in case.owned : o[1] \in case.healthy})

(***************************************************************************)
(* Whatever the model calls a memory, its name is usable or empty, and a   *)
(* usable one is kept (normalizeSlug, isSafeSlug); what a review decides   *)
(* is found in the index under its name, once, with the first line of its  *)
(* summary, and the other lines of the index stay as they were             *)
(* (parseReviewDecisions, UpsertIndexEntry, renderIndex, parseIndex); and  *)
(* what a conversation begins with is the beginning of the index, within   *)
(* both limits (Assemble).                                                 *)
(***************************************************************************)
IndexReadsBack ==
  /\ Is("slug") => LET s == M!NormalizeSlug(case.raw)
                   IN  /\ s = <<>> \/ M!IsSafeSlug(s)
                       /\ M!IsSafeSlug(case.raw) => s = case.raw
                       /\ s = <<>> <=> \A i \in DOMAIN case.raw : case.raw[i] \notin {"a", "A"}
  /\ Is("decision") =>
       LET ds == M!ParseReviewDecisions(<<case.raw>>, TRUE)
           d == Head(ds)
           e == [type |-> d.type, slug |-> d.slug, summary |-> d.summary]
           got == M!ParseIndex(M!UpsertIndexEntry(M!RenderIndex(case.entries), e))
           of(slug) == SelectSeq(got, LAMBDA x : x.slug = slug)
       IN  /\ ds # <<>> <=> /\ case.raw.action = "new" /\ case.raw.type = "user_role"
                            /\ case.raw.slug \notin {<<" ">>, <<"/">>}
                            /\ case.raw.content # <<" ">>
           /\ ds # <<>> =>
                /\ M!TrimSpace(d.title) # <<>> /\ M!TrimSpace(d.summary) # <<>>
                /\ of(d.slug) = <<[e EXCEPT !.summary = M!TrimSpace(M!Split(d.summary)[1])]>>
                /\ \A x \in ToSet(case.entries) : x.slug # d.slug => of(x.slug) = <<x>>
                /\ \A x \in ToSet(got) : x.slug = d.slug \/ x \in ToSet(case.entries)
  /\ Is("lead") =>
       LET got == M!Assemble(case.enabled, case.user, case.global)
           whole == M!Join((IF case.user = <<>> THEN <<>> ELSE << <<"U">> >> \o case.user)
                           \o (IF case.user = <<>> \/ case.global = <<>> THEN <<>> ELSE << <<>> >>)
                           \o (IF case.global = <<>> THEN <<>> ELSE << <<"G">> >> \o case.global))
       IN  /\ IsPrefix(got, whole) /\ Len(got) <= 5 /\ Len(M!Split(got)) <= 3
           /\ ~ case.enabled => got = <<>>

\* What the browser, the reviewer and the next conversation are told is what happened.
ViewsHold ==
  CardsAgree /\ NamesAreOfTheTurn /\ UsageIsCurrent /\ ServersShowTheirTools /\ IndexReadsBack

Next == HookCase \/ HookConfigCase \/ SettingsCase \/ SummaryCase \/ TextCase
        \/ StreamCase \/ CatalogCase \/ RunCase \/ ViewCase
Spec == Init /\ [][Next]_case

================================================================================
