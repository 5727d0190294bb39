-------------------------------- MODULE Streams --------------------------------
(***************************************************************************)
(* The two model providers (src/src/llm): how a history becomes the        *)
(* messages of a request, how the events of a response become the chunks   *)
(* that the agent loop reads, and when a request is sent again.            *)
(*                                                                         *)
(* A block of a message is [type, id, text, err] (text: a sequence of      *)
(* pieces; the input of a call, the content of a result), a chunk          *)
(* [content, done, err, uses, reason].                                     *)
(***************************************************************************)
EXTENDS Integers, Sequences, SequencesExt, FiniteSetsExt

CONSTANTS MaxRetries

(***************************************************************************)
(* The request                                                             *)
(***************************************************************************)
PrependLeadUserMessage(h, lead) ==
  IF lead = <<>> THEN h
  ELSE <<[role |-> "user",
          content |-> <<[type |-> "text", id |-> "", text |-> lead, err |-> FALSE]>>]>> \o h

OfType(content, type) == SelectSeq(content, LAMBDA b : b.type = type)
TextOf(content) == FlattenSeq([i \in DOMAIN OfType(content, "text") |->
                                 OfType(content, "text")[i].text])

EmptyObject == <<"{", "}">>
OrEmpty(args) == IF args = <<>> THEN EmptyObject ELSE args

\* Anthropic: one message for each, block by block; an input that is missing
\* stays missing.
AnthropicMessages(h) == SelectSeq(h, LAMBDA m : m.role \in {"user", "assistant"})

\* OpenAI, a message of the user: every result is a message of its own, and the
\* text between two of them is one.
OpenAIUser(content) ==
  LET flush(st) == IF st.has THEN Append(st.out, [role |-> "user", text |-> st.text])
                   ELSE st.out
      read(st, b) ==
        CASE b.type = "text"        -> [st EXCEPT !.text = @ \o b.text, !.has = TRUE]
          [] b.type = "tool_result" ->
               [out |-> Append(flush(st), [role |-> "tool", id |-> b.id, text |-> b.text]),
                text |-> <<>>, has |-> FALSE]
          [] OTHER -> st
  IN  flush(FoldLeft(read, [out |-> <<>>, text |-> <<>>, has |-> FALSE], content))

\* A message of the assistant: its text and its calls together; none if it has neither.
OpenAIAssistant(content) ==
  LET calls == OfType(content, "tool_use")
      call(b) == [id |-> b.id, args |-> OrEmpty(b.text)]
  IN  IF calls = <<>> /\ OfType(content, "text") = <<>> THEN <<>>
      ELSE <<[role |-> "assistant", text |-> TextOf(content),
              calls |-> [i \in DOMAIN calls |-> call(calls[i])]]>>

OpenAIMessages(h) ==
  FlattenSeq([i \in DOMAIN h |->
    CASE h[i].role = "user" -> OpenAIUser(h[i].content)
      [] h[i].role = "assistant" -> OpenAIAssistant(h[i].content)
      [] OTHER -> <<>>])

\* The system prompt: Anthropic gets the blocks, with a cache point after each
\* that is cacheable, but never after the last, which changes; OpenAI gets the
\* texts that are not empty as one.
AnthropicSystemBlocks(blocks) ==
  [i \in DOMAIN blocks |->
     [text |-> blocks[i].text, cached |-> i < Len(blocks) /\ blocks[i].cacheable]]
OpenAISystemText(blocks) == SelectSeq([i \in DOMAIN blocks |-> blocks[i].text],
                                      LAMBDA t : t # <<>>)

(***************************************************************************)
(* The response of one attempt: its events, and how it ends.  An event is  *)
(* [kind, at, piece]: "text"; "start" and "stop" of the call with index    *)
(* "at" (Anthropic); "args", a piece of its input.                         *)
(***************************************************************************)
Indices(events, kind) == {events[i].at : i \in {j \in DOMAIN events : events[j].kind = kind}}

\* The pieces of the call that starts at event s and stops before event e.
ArgsBetween(events, s, e) ==
  LET mine == SelectSeq(SubSeq(events, s, e), LAMBDA v : v.kind = "args" /\ v.at = events[s].at)
  IN  [i \in DOMAIN mine |-> mine[i].piece]

InOrder(uses) == SetToSortSeq(uses, LAMBDA u, v : u.at < v.at)

\* json.Valid, of the pieces of the model.
IsJSON(args) ==
  /\ Len(args) > 1
  /\ \A i \in DOMAIN args : (args[i] = "{") = (i = 1) /\ (args[i] = "}") = (i = Len(args))

\* Anthropic: the calls that the response completed, in the order of their
\* index; an input that is not JSON becomes the empty object.
AnthropicToolUses(events) ==
  LET stops == {i \in DOMAIN events : events[i].kind = "stop"}
      start(e) == {s \in 1 .. e - 1 : events[s].kind = "start" /\ events[s].at = events[e].at}
      use(e) == LET got == ArgsBetween(events, Max(start(e)), e)
                IN  [at |-> events[e].at,
                     args |-> IF IsJSON(got) THEN got ELSE EmptyObject]
  IN  InOrder({use(e) : e \in {i \in stops : start(i) # {}}})

\* OpenAI: every call that the response began, with the input it got.
OpenAIToolUses(events) ==
  LET pieces(i) == SelectSeq(events, LAMBDA v : v.kind = "args" /\ v.at = i)
      args(i) == [k \in DOMAIN pieces(i) |-> pieces(i)[k].piece]
  IN  InOrder({[at |-> i, args |-> OrEmpty(args(i))] :
                 i \in Indices(events, "start") \cup Indices(events, "args")})

Content(text) == [content |-> text, done |-> FALSE, err |-> FALSE, uses |-> <<>>, reason |-> ""]
LastChunk(err, uses, reason) ==
  [content |-> "", done |-> TRUE, err |-> err, uses |-> uses, reason |-> reason]

\* doStream: the texts as they come, then the last chunk, or an error and no
\* last chunk.  "cut": the loop no longer reads, and the context ends while the
\* last text waits in the full channel.
DoStream(a, uses) ==
  LET texts == SelectSeq(a.events, LAMBDA v : v.kind = "text" /\ v.piece # "")
      sent == [i \in DOMAIN texts |-> Content(texts[i].piece)]
      unread == a.cut /\ texts # <<>>
  IN  CASE unread -> [chunks |-> Front(sent) \o
                        (IF a.end = "canceled" THEN <<LastChunk(FALSE, <<>>, "canceled")>> ELSE <<>>),
                      err |-> IF a.end = "canceled" THEN "" ELSE "deadline"]
        [] ~ unread /\ a.end = "end" ->
             [chunks |-> Append(sent, LastChunk(FALSE, uses, "stop")), err |-> ""]
        [] ~ unread /\ a.end = "canceled" ->
             [chunks |-> Append(sent, LastChunk(FALSE, uses, "canceled")), err |-> ""]
        [] OTHER -> [chunks |-> sent, err |-> a.end]

AnthropicDoStream(a) == DoStream(a, AnthropicToolUses(a.events))
OpenAIDoStream(a) == DoStream(a, OpenAIToolUses(a.events))

(***************************************************************************)
(* Retries                                                                 *)
(***************************************************************************)
\* A failure of the server or the network; neither a refusal, nor a limit, nor
\* the end of the context.
ShouldRetry(err) == err \in {"500", "503", "net"}
\* A status 400 with the provider's own sign, which calls for an emergency
\* compaction; like every failure it reaches the loop as a chunk, never as the
\* error of StreamChat.
IsContextTooLongError(err) == err = "too long"

\* The same test in the other provider.
OpenAIShouldRetry(err) == err \in {"500", "503", "net"}

\* Mutant: every failed attempt is reported, also one that is made again.
AttemptedReported(st, attempt, got, again, ended) ==
  [st EXCEPT !.chunks = @ \o got.chunks \o (IF got.err = "" THEN <<>> ELSE ended),
             !.over = ~ again, !.attempts = attempt]

\* After one attempt: the stream is over when it succeeded or is not tried again.
Attempted(st, attempt, got, again, ended) ==
  [st EXCEPT !.chunks = @ \o got.chunks \o (IF again \/ got.err = "" THEN <<>> ELSE ended),
             !.over = ~ again, !.attempts = attempt]

\* streamWithRetry over the attempts that would be made, until one succeeds, may
\* not be tried again, or was the last; the context may end in the pause before
\* the attempt "pause".  The chunks of a failed attempt are already with the loop.
StreamWithRetry(results, pause, again, canceled) ==
  LET step(st, n) ==
        IF st.over THEN st
        ELSE IF n > 1 /\ n = pause
        THEN [st EXCEPT !.chunks = Append(@, LastChunk(FALSE, <<>>, canceled)), !.over = TRUE]
        ELSE Attempted(st, n, results[n], n \in again /\ n <= MaxRetries, <<LastChunk(TRUE, <<>>, "")>>)
  IN  FoldLeft(step, [chunks |-> <<>>, over |-> FALSE, attempts |-> 0],
               [n \in 1 .. Min({Len(results), MaxRetries + 1}) |-> n])

AnthropicStream(attempts, pause) ==
  LET results == [n \in DOMAIN attempts |-> AnthropicDoStream(attempts[n])]
  IN  StreamWithRetry(results, pause,
                      {n \in DOMAIN results : ShouldRetry(results[n].err)}, "canceled")
\* A request given up in the pause ends here without a reason.
OpenAIStream(attempts, pause) ==
  LET results == [n \in DOMAIN attempts |-> OpenAIDoStream(attempts[n])]
  IN  StreamWithRetry(results, pause,
                      {n \in DOMAIN results : OpenAIShouldRetry(results[n].err)}, "")

(***************************************************************************)
(* What a session's file holds of a message: flat blocks with a type       *)
(***************************************************************************)
\* An input that is missing is left out; one that is not JSON is an error of
\* json.Marshal, and the message is not written.
MarshalJSON(m) ==
  LET encodes(b) == b.type = "tool_use" => b.text = <<>> \/ IsJSON(b.text)
      block(b) ==
        CASE b.type = "text"        -> [type |-> b.type, text |-> b.text]
          [] b.type = "tool_use"    -> [type |-> b.type, id |-> b.id, input |-> b.text]
          [] b.type = "tool_result" -> [type |-> b.type, tool_use_id |-> b.id,
                                        content |-> b.text, is_error |-> b.err]
  IN  IF \A i \in DOMAIN m.content : encodes(m.content[i])
      THEN [ok |-> TRUE, json |-> [role |-> m.role,
                                   content |-> [i \in DOMAIN m.content |-> block(m.content[i])]]]
      ELSE [ok |-> FALSE]

\* One block of a type that is not known makes the message unreadable.
UnmarshalJSON(j) ==
  LET known == \A i \in DOMAIN j.content :
                 j.content[i].type \in {"text", "tool_use", "tool_result"}
      block(b) ==
        CASE b.type = "text" -> [type |-> b.type, id |-> "", text |-> b.text, err |-> FALSE]
          [] b.type = "tool_use" -> [type |-> b.type, id |-> b.id, text |-> b.input, err |-> FALSE]
          [] b.type = "tool_result" ->
               [type |-> b.type, id |-> b.tool_use_id, text |-> b.content, err |-> b.is_error]
  IN  IF ~ known THEN [ok |-> FALSE]
      ELSE [ok |-> TRUE,
            msg |-> [role |-> j.role, content |-> [i \in DOMAIN j.content |-> block(j.content[i])]]]

================================================================================
