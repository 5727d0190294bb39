---------------------------- MODULE SessionStore ----------------------------
(***************************************************************************)
(* The files of one user's sessions (src/src/memory/session): a directory  *)
(* per session that holds messages.jsonl (one message per line, append     *)
(* only), meta.json and history_archive.jsonl (the originals that summary  *)
(* compaction took out of messages.jsonl).                                 *)
(*                                                                         *)
(* These are the operators on one session's files and on the order in      *)
(* which ListSessions and LoadLatest see the sessions.  They are pure: the *)
(* module that EXTENDS this one owns the state.                            *)
(*                                                                         *)
(* Abstractions.  meta.json is only "present or absent" plus its rank in   *)
(* the updated_at order: its message_count is written by three functions   *)
(* and read by none (Load and ListSessions count the lines).  The archive  *)
(* is a set, because its duplicates are harmless (archive.go:48).  A Write *)
(* that fails writes nothing of its line; a write of meta.json that fails  *)
(* leaves it as it was.                                                    *)
(***************************************************************************)
EXTENDS Naturals, Sequences, SequencesExt

\* dir: the directory exists; listed: it holds a readable meta.json.
Files(Msg) ==
  [dir : BOOLEAN, listed : BOOLEAN, lines : Seq(Msg), archive : SUBSET Msg]

\* A session that CreateNew made in memory only, or that Delete removed.
NoFiles == [dir |-> FALSE, listed |-> FALSE, lines |-> <<>>, archive |-> {}]

\* AppendMessages when every write succeeds; it creates what is missing.
Appended(f, msgs) ==
  [f EXCEPT !.dir = TRUE, !.listed = TRUE, !.lines = @ \o msgs]

\* AppendMessages returning an error after it wrote the first k messages: the
\* lines stay.  meta.json is new only if the whole directory was missing.
PartAppended(f, msgs, k) ==
  [f EXCEPT !.dir = TRUE, !.listed = @ \/ ~f.dir, !.lines = @ \o SubSeq(msgs, 1, k)]

\* TruncateMessages, which also removes the archive.
Truncated(f) == [f EXCEPT !.dir = TRUE, !.listed = TRUE, !.lines = <<>>, !.archive = {}]

\* TruncateMessages failing at meta.json.
PartTruncated(f) == [f EXCEPT !.lines = <<>>, !.archive = {}]

\* Mutant: the originals are given up without being stored.
ArchivedNothing(f, msgs) == [f EXCEPT !.dir = TRUE]

\* ArchiveMessages: only the directory is created on demand, not meta.json.
Archived(f, msgs) == [f EXCEPT !.dir = TRUE, !.archive = @ \cup ToSet(msgs)]

\* RewriteActiveMessages: the rename replaces the whole of messages.jsonl.
Rewritten(f, msgs) == [f EXCEPT !.dir = TRUE, !.listed = TRUE, !.lines = msgs]

\* The process died inside writeSessionMeta, which truncates meta.json before it
\* writes it: the file no longer parses and the session is skipped.
MetaTorn(f) == [f EXCEPT !.dir = TRUE, !.listed = FALSE]

\* Delete: os.RemoveAll of the session's directory.
Deleted(f) == NoFiles

\* The sessions with a meta.json, the one updated last first: writing s's
\* meta.json puts it in front, deleting s takes it out.
Dropped(s, order) ==
  IF s \in ToSet(order)
  THEN RemoveAt(order, CHOOSE i \in DOMAIN order : order[i] = s)
  ELSE order
Touched(s, order) == <<s>> \o Dropped(s, order)

=============================================================================
