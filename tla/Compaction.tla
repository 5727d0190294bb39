------------------------------- MODULE Compaction -------------------------------
(***************************************************************************)
(* The computations of context compaction (src/src/memory/context): the    *)
(* token estimate and the preview of a tool result, the light layer over   *)
(* one message, the split of the history and the clean-up of the summary   *)
(* in the summary layer, and the circuit breaker over a session's attempts.*)
(* The steps of the summary layer and what they write are in ChatSession.  *)
(***************************************************************************)
EXTENDS Integers, Sequences, SequencesExt, FiniteSetsExt, Functions

CONSTANTS Threshold,      \* tool_result_threshold
          PreviewTokens,  \* preview_tokens
          SuffixTokens,   \* what the note on the stored file adds to a preview
          KeepTokens,     \* keep_recent_tokens
          KeepMessages,   \* keep_recent_min_messages
          BreakerThreshold

(***************************************************************************)
(* Estimates; a text is the sequence of the kinds of its characters, "c"   *)
(* for CJK and "o" for any other                                           *)
(***************************************************************************)
MessageOverhead == 15

Count(t, kind) == Cardinality({i \in DOMAIN t : t[i] = kind})

\* Two CJK characters or four others are a token, rounded down for each kind,
\* but a kind that occurs counts one token at least.
EstimateTextTokens(t) ==
  LET part(n, per) == IF n > 0 /\ n \div per = 0 THEN 1 ELSE n \div per
  IN  part(Count(t, "c"), 2) + part(Count(t, "o"), 4)

\* A message costs its overhead and what its blocks cost.
EstimateMessageTokens(blocks) ==
  FoldLeft(LAMBDA sum, t : sum + EstimateTextTokens(t), MessageOverhead, blocks)

\* Quarter tokens of the first n characters.
Quarters(t, n) == 2 * Count(SubSeq(t, 1, n), "c") + Count(SubSeq(t, 1, n), "o")

\* The text up to the character with which it reaches the budget.
TruncateToTokenBudget(t, budget) ==
  LET enough == {n \in 1 .. Len(t) : Quarters(t, n) \div 4 >= budget}
  IN  IF budget <= 0 THEN <<>>
      ELSE IF enough = {} THEN t ELSE SubSeq(t, 1, Min(enough))

(***************************************************************************)
(* The light layer; a tool result is [id, tokens, preview]                 *)
(***************************************************************************)
\* An identifier that is a file name of its own.
IsSafeName(id) == id \notin {"", ".", ".."}

\* Save: the file of an identifier is written once; the session's store is the
\* function from the identifiers to what was written, disk the ones that fail.
Save(store, id, content, failing) ==
  IF ~ IsSafeName(id) \/ (id \notin DOMAIN store /\ id \in failing)
  THEN [ok |-> FALSE, store |-> store]
  ELSE IF id \in DOMAIN store THEN [ok |-> TRUE, store |-> store]
  ELSE [ok |-> TRUE, store |-> [x \in DOMAIN store \cup {id} |->
                                  IF x = id THEN content ELSE store[x]]]

\* What replaces a result that is longer than a preview may be.
BuildPreview(r) == [r EXCEPT !.tokens = PreviewTokens + SuffixTokens, !.preview = TRUE]

\* State of compacting one message: its results, the store, the results that
\* could not be replaced.
ReplaceBlock(st, i, failing) ==
  LET r == st.results[i]
      saved == Save(st.store, r.id, r.tokens, failing)
      done == saved.ok /\ r.tokens > PreviewTokens
  IN  [results |-> IF done THEN [st.results EXCEPT ![i] = BuildPreview(r)] ELSE st.results,
       store   |-> saved.store,
       failed  |-> IF done THEN st.failed ELSE st.failed \cup {i}]

Total(results, of) == SumFunctionOnSet([i \in DOMAIN results |-> results[i].tokens], of)

\* While the results together are too long: the longest that is left, and of
\* several the first; every turn of the loop takes one out of those left.
ReplaceLongest(st0, candidates, failing) ==
  LET left(st) == {i \in candidates : i \notin st.failed /\ ~ st.results[i].preview}
      longest(st) == {i \in left(st) : \A j \in left(st) :
                                         st.results[j].tokens <= st.results[i].tokens}
      turn(st, n) == IF Total(st.results, candidates) <= Threshold \/ left(st) = {} THEN st
                     ELSE ReplaceBlock(st, Min(longest(st)), failing)
  IN  FoldLeft(turn, st0, [n \in 1 .. Cardinality(candidates) |-> n])

\* compactMessage: first each result that is too long by itself, then the
\* longest ones.  What fails in the first pass is tried again in the second.
CompactMessage(results, store, failing) ==
  LET candidates == {i \in DOMAIN results : ~ results[i].preview}
      over == SelectSeq([i \in DOMAIN results |-> i],
                        LAMBDA i : i \in candidates /\ results[i].tokens > Threshold)
      first == FoldLeft(LAMBDA st, i : ReplaceBlock(st, i, failing),
                        [results |-> results, store |-> store, failed |-> {}], over)
  IN  ReplaceLongest([first EXCEPT !.failed = {}], candidates, failing)

(***************************************************************************)
(* The summary layer; a message is [role, uses, results, tokens] with the  *)
(* identifiers of its tool calls and of the calls its results answer       *)
(***************************************************************************)
\* How many of the last messages are kept by size: the fewest whose tokens
\* reach KeepTokens, or all.
SplitByTokens(h) ==
  LET tail(i) == SumFunctionOnSet([j \in DOMAIN h |-> h[j].tokens], i .. Len(h))
  IN  Max({0} \cup {i - 1 : i \in {i \in DOMAIN h : tail(i) >= KeepTokens}})

\* Mutant: the history is cut where the numbers say.
AlignNothing(h, split) == split

\* Cut at s, h would have the first result of a call in one part and the call
\* in the other.
Parts(h, s) ==
  /\ s \in 1 .. Len(h) - 1
  /\ h[s + 1].role = "user" /\ h[s].role = "assistant"
  /\ h[s].uses \cap h[s + 1].results # {}

\* The calls and their results stay on one side: the last place up to split.
AlignSplitForToolPairs(h, split) == Max({s \in 0 .. split : ~ Parts(h, s)})

\* The larger part by size and by number is kept, but one message at least is
\* summarised and one kept; 0 is "nothing to summarise".
SplitByTailTokens(h) ==
  LET least == Min({SplitByTokens(h), Max({Len(h) - KeepMessages, 0})})
  IN  IF Len(h) <= 1 THEN 0
      ELSE AlignSplitForToolPairs(h, Min({Max({least, 1}), Len(h) - 1}))

\* A text of the model as a sequence of "<" (opens a draft), ">" (closes it)
\* and words: every draft that is closed is removed.
StripDraft(text) ==
  LET read(t, w) ==
        CASE t.draft # <<>> /\ w = ">" -> [t EXCEPT !.draft = <<>>]
          [] w = "<" \/ (t.draft # <<>> /\ w # ">") -> [t EXCEPT !.draft = Append(@, w)]
          [] OTHER -> [t EXCEPT !.kept = Append(@, w)]
      end == FoldLeft(read, [kept |-> <<>>, draft |-> <<>>], text)
  IN  end.kept \o end.draft

\* Mutant: what was read before an error is a summary.
SummarizeSoFar(chunks, stop) ==
  LET ends == {i \in DOMAIN chunks : chunks[i].done \/ chunks[i].err}
      n == IF ends = {} THEN Len(chunks) ELSE Min(ends)
      text == StripDraft(FlattenSeq([i \in 1 .. n |-> chunks[i].text]))
  IN  [err |-> text = <<>>, text |-> text]

\* summarize over the chunks of the stream, read until one with an error, the
\* last, or the one (or the end of the stream) in whose place the select takes
\* the end of the context, if it ends: only a text that is not empty then is a
\* summary.
Summarize(chunks, stop) ==
  LET ends == {i \in DOMAIN chunks : chunks[i].done \/ chunks[i].err}
      n == IF ends = {} THEN Len(chunks) ELSE Min(ends)
      last == IF ends = {} THEN n + 1 ELSE n
      text == StripDraft(FlattenSeq([i \in 1 .. n |-> chunks[i].text]))
  IN  [err |-> stop <= last \/ text = <<>> \/ (n > 0 /\ chunks[n].err), text |-> text]

(***************************************************************************)
(* The breaker                                                             *)
(***************************************************************************)
NewBreaker == [failures |-> 0, tripped |-> FALSE]

DecideSummary(b, tight, manual) == manual \/ (~ b.tripped /\ tight)

RecordFailure(b) ==
  [failures |-> b.failures + 1, tripped |-> b.tripped \/ b.failures + 1 >= BreakerThreshold]

\* One Compact of a session: a manual or an emergency one resets the breaker
\* first; one that finds nothing to summarise counts neither way.
Attempt(b, a) ==
  LET start == IF a.manual THEN NewBreaker ELSE b
  IN  IF ~ DecideSummary(b, a.tight, a.manual) THEN b
      ELSE CASE a.outcome = "fails"   -> RecordFailure(start)
             [] a.outcome = "changes" -> NewBreaker
             [] a.outcome = "nothing" -> start

================================================================================
