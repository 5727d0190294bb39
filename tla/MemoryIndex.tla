------------------------------- MODULE MemoryIndex -------------------------------
(***************************************************************************)
(* The index of a user's memories, MEMORY.md, as text: what a review may   *)
(* write into it, how a line is found again, and what of it goes into the  *)
(* next conversations (src/src/memory/autolearn and the source "memory" of *)
(* src/src/engine/prompt).  Reviews has the writes and their interleaving. *)
(*                                                                         *)
(* A name or a text is a sequence of characters; an entry is               *)
(* [type, slug, summary].                                                  *)
(***************************************************************************)
EXTENDS Integers, Sequences, SequencesExt, FiniteSetsExt

CONSTANTS MaxSlugLen,   \* maxSlugLen
          MaxTitle,     \* of a title made from the content
          MaxLines,     \* memoryIndexMaxLines
          MaxBytes      \* memoryIndexMaxBytes

MemoryTypeOrder == <<"user_role", "user_preference", "user_feedback">>
IsValidType(t) == t \in ToSet(MemoryTypeOrder)

NewLine == "\n"
Blank == {" ", NewLine}
Lower(ch) == IF ch = "A" THEN "a" ELSE ch
SlugChar == {"a", "b", "1"}

(***************************************************************************)
(* Texts                                                                   *)
(***************************************************************************)
\* Text without the characters of a set at its ends.
Trim(text, ends) ==
  LET in == {i \in DOMAIN text : text[i] \notin ends}
  IN  IF in = {} THEN <<>> ELSE SubSeq(text, Min(in), Max(in))
TrimSpace(text) == Trim(text, Blank)

Split(text) ==
  LET add(lines, ch) ==
        IF ch = NewLine THEN Append(lines, <<>>)
        ELSE [lines EXCEPT ![Len(lines)] = Append(@, ch)]
  IN  FoldLeft(add, << <<>> >>, text)

Join(lines) ==
  FlattenSeq([i \in DOMAIN lines |-> (IF i = 1 THEN <<>> ELSE <<NewLine>>) \o lines[i]])

(***************************************************************************)
(* Names                                                                   *)
(***************************************************************************)
NormalizeSlug(raw) ==
  LET lower == [i \in DOMAIN TrimSpace(raw) |-> Lower(TrimSpace(raw)[i])]
      add(s, ch) == IF ch \in SlugChar THEN Append(s, ch)
                    ELSE IF s # <<>> /\ Last(s) = "-" THEN s ELSE Append(s, "-")
      clean == Trim(FoldLeft(add, <<>>, lower), {"-"})
  IN  IF Len(clean) > MaxSlugLen THEN Trim(SubSeq(clean, 1, MaxSlugLen), {"-"}) ELSE clean

IsSafeSlug(slug) ==
  /\ Len(slug) \in 1 .. MaxSlugLen
  /\ \A i \in DOMAIN slug :
       \/ slug[i] \in SlugChar
       \/ slug[i] = "-" /\ i \in 2 .. Len(slug) - 1 /\ slug[i + 1] # "-"

(***************************************************************************)
(* What a review may write                                                 *)
(***************************************************************************)
\* A decision is [action, type, slug, title, summary, content].
ValidDecision(d) ==
  /\ d.action \in {"new", "update"} /\ IsValidType(d.type)
  /\ TrimSpace(d.slug) # <<>> /\ TrimSpace(d.content) # <<>>

NormalizeMeta(d) ==
  LET title == TrimSpace(d.title)
      summary == TrimSpace(d.summary)
      content == TrimSpace(d.content)
      cut == SubSeq(content, 1, IF Len(content) > MaxTitle THEN MaxTitle ELSE Len(content))
  IN  IF title = <<>> /\ summary = <<>> THEN [d EXCEPT !.title = cut, !.summary = cut]
      ELSE [d EXCEPT !.title = IF title = <<>> THEN summary ELSE @,
                     !.summary = IF summary = <<>> THEN title ELSE @]

\* The decisions of an answer, if it holds a JSON array: what is not valid is left out.
ParseReviewDecisions(raws, isArray) ==
  LET named(d) == [d EXCEPT !.slug = NormalizeSlug(@)]
      valid == SelectSeq(raws, ValidDecision)
      safe == SelectSeq([i \in DOMAIN valid |-> named(valid[i])],
                        LAMBDA d : IsSafeSlug(d.slug))
  IN  IF isArray THEN [i \in DOMAIN safe |-> NormalizeMeta(safe[i])] ELSE <<>>

(***************************************************************************)
(* The index                                                               *)
(***************************************************************************)
Fits(e) == IsValidType(e.type) /\ IsSafeSlug(e.slug)

\* A line of the file: a title of a block, the line of an entry, or any other.
Entry(e, summary) == [kind |-> "entry", type |-> e.type, slug |-> e.slug, text |-> summary]
Other(text) == [kind |-> "other", type |-> "", slug |-> <<>>, text |-> text]

\* The lines of an entry, more than one if its summary has more.
EntryLines(e) ==
  LET lines == Split(e.summary)
  IN  [i \in DOMAIN lines |-> IF i = 1 THEN Entry(e, lines[1]) ELSE Other(lines[i])]

RenderIndex(entries) ==
  LET of(t) == SelectSeq(entries, LAMBDA e : Fits(e) /\ e.type = t)
      block(t) == IF of(t) = <<>> THEN <<>>
                  ELSE <<Other(<<"#">>)>> \o FlattenSeq([i \in DOMAIN of(t) |-> EntryLines(of(t)[i])])
                       \o <<Other(<<>>)>>
  IN  FlattenSeq([i \in DOMAIN MemoryTypeOrder |-> block(MemoryTypeOrder[i])])

ParseIndex(lines) ==
  LET entries == SelectSeq(lines, LAMBDA l : l.kind = "entry" /\ Fits(l))
  IN  [i \in DOMAIN entries |-> [type |-> entries[i].type, slug |-> entries[i].slug,
                                 summary |-> TrimSpace(entries[i].text)]]

\* The first entry of the slug is replaced, or the entry is added.
UpsertIndexEntry(lines, e) ==
  LET entries == ParseIndex(lines)
      at == {i \in DOMAIN entries : entries[i].slug = e.slug}
  IN  RenderIndex(IF at = {} THEN Append(entries, e)
                  ELSE [entries EXCEPT ![Min(at)] = e])

(***************************************************************************)
(* What a conversation begins with                                         *)
(***************************************************************************)
\* The user's entries come first; the result is cut by lines, then by bytes.
Truncate(lines) ==
  LET text == Join(SubSeq(lines, 1, IF Len(lines) > MaxLines THEN MaxLines ELSE Len(lines)))
  IN  SubSeq(text, 1, IF Len(text) > MaxBytes THEN MaxBytes ELSE Len(text))

Assemble(enabled, user, global) ==
  LET part(label, lines) == IF lines = <<>> THEN <<>> ELSE << <<label>> >> \o lines
      both == part("U", user) \o (IF user = <<>> \/ global = <<>> THEN <<>> ELSE << <<>> >>)
              \o part("G", global)
  IN  IF enabled THEN Truncate(both) ELSE <<>>

================================================================================
