-------------------------- MODULE ChatSessionProofs --------------------------
(***************************************************************************)
(* Proofs about ChatSession, for any sessions, goroutines, connections and *)
(* bounds, and for commands that cross streams and one another.            *)
(*                                                                         *)
(* AtHome says that what a turn carries, a command loaded and a file holds *)
(* belongs to its session, or to a crossed one where a crossed one is      *)
(* written.  So nothing reaches a session that was not crossed, and what   *)
(* Stored says of it holds whatever happened at the others: what           *)
(* persistedMsgCount counts is on disk, and a compaction works on the      *)
(* history as it is.  On these rests that the chat implements Transcript,  *)
(* step by step.                                                           *)
(***************************************************************************)
EXTENDS ChatSession, Summaries, SequenceTheorems, WellFoundedInduction, TLAPS

-----------------------------------------------------------------------------
(* Sequences.                                                              *)

\* A part of a sequence has its elements, also when the part starts after the
\* end, as Unsaved does when persistedMsgCount is ahead of the history.
LEMMA SubSeqType ==
  ASSUME NEW S, NEW s \in Seq(S), NEW m \in Nat \ {0}, NEW n \in Nat, n <= Len(s)
  PROVE  SubSeq(s, m, n) \in Seq(S)
BY SubSeqProperties, ElementOfSeq

\* Taking a session out of the order, or putting it in front, leaves an order.
LEMMA DroppedType ==
  ASSUME NEW S, NEW s \in S, NEW ord \in Seq(S)
  PROVE  Dropped(s, ord) \in Seq(S) /\ Touched(s, ord) \in Seq(S)
<1>1. Dropped(s, ord) \in Seq(S)
  <2>1. CASE s \notin ToSet(ord)
    BY <2>1 DEF Dropped
  <2>2. CASE s \in ToSet(ord)
    <3> DEFINE i == CHOOSE k \in DOMAIN ord : ord[k] = s
    <3>1. i \in 1 .. Len(ord)
      <4>1. \E k \in DOMAIN ord : ord[k] = s
        BY <2>2 DEF ToSet
      <4> QED
        BY <4>1, LenProperties
    <3> HIDE DEF i
    <3>2. SubSeq(ord, 1, i - 1) \in Seq(S)
      BY <3>1, SubSeqType
    <3>3. SubSeq(ord, i + 1, Len(ord)) \in Seq(S)
      BY <3>1, SubSeqType
    <3> QED
      BY <2>2, <3>2, <3>3, ConcatProperties DEF Dropped, RemoveAt, i
  <2> QED
    BY <2>1, <2>2
<1> QED
  BY <1>1 DEF Touched

-----------------------------------------------------------------------------
(* Messages and files.                                                     *)

\* A new message is one.
LEMMA MsgType ==
  ASSUME TypeOK, NEW kind \in Kinds, NEW home \in Sessions, NEW k \in Nat
  PROVE  NewMsg(kind, home, k) \in Msg
BY DEF TypeOK, SpentType, NewMsg, Msg

\* What a step spends keeps the counts natural numbers.
LEMMA SpendType ==
  ASSUME TypeOK, NEW k \in Nat
  PROVE  /\ \A field \in {"msgs", "commands", "compact", "tasks", "fail", "crash"} :
              Spend(field, k) \in SpentType
         /\ SpendAndFail("msgs", k) \in SpentType
         /\ SpendAndFail("commands", k) \in SpentType
<1> spent \in SpentType
  BY DEF TypeOK
<1>1. ASSUME NEW j \in Nat, NEW field \in {"msgs", "commands", "compact", "tasks", "fail", "crash"}
      PROVE  Spend(field, j) \in SpentType
  BY DEF Spend, SpentType
<1>3. ASSUME NEW x \in SpentType
      PROVE  [x EXCEPT !.fail = @ + k] \in SpentType
  BY DEF SpentType
<1> QED
  BY <1>1, <1>3 DEF SpendAndFail

\* What each operation of the session package leaves of a session's files.
LEMMA FilesType ==
  ASSUME NEW S, NEW f \in Files(S), NEW msgs \in Seq(S)
  PROVE  /\ NoFiles \in Files(S)
         /\ Appended(f, msgs) \in Files(S)
         /\ Truncated(f) \in Files(S) /\ PartTruncated(f) \in Files(S)
         /\ Archived(f, msgs) \in Files(S)
         /\ Rewritten(f, msgs) \in Files(S)
         /\ MetaTorn(Appended(f, msgs)) \in Files(S)
         /\ \A k \in 0 .. Len(msgs) : PartAppended(f, msgs, k) \in Files(S)
<1>1. \A k \in 0 .. Len(msgs) : SubSeq(msgs, 1, k) \in Seq(S)
  BY SubSeqType
<1>2. ToSet(msgs) \subseteq S
  BY ElementOfSeq, LenProperties DEF ToSet
<1>3. f.lines \o msgs \in Seq(S) /\ <<>> \in Seq(S)
  BY ConcatProperties, EmptySeq DEF Files
<1>4. \A k \in 0 .. Len(msgs) : f.lines \o SubSeq(msgs, 1, k) \in Seq(S)
  BY <1>1, ConcatProperties DEF Files
<1> USE DEF Files
<1>5. NoFiles \in Files(S)
  BY <1>3 DEF NoFiles
<1>6. Appended(f, msgs) \in Files(S)
  BY <1>3 DEF Appended
<1>7. Truncated(f) \in Files(S) /\ PartTruncated(f) \in Files(S)
  BY <1>3 DEF Truncated, PartTruncated
<1>8. Archived(f, msgs) \in Files(S)
  BY <1>2 DEF Archived
<1>9. Rewritten(f, msgs) \in Files(S)
  BY DEF Rewritten
<1>10. MetaTorn(Appended(f, msgs)) \in Files(S)
  BY <1>6 DEF MetaTorn
<1>11. \A k \in 0 .. Len(msgs) : PartAppended(f, msgs, k) \in Files(S)
  BY <1>4 DEF PartAppended
<1> QED
  BY <1>5, <1>6, <1>7, <1>8, <1>9, <1>10, <1>11

\* What is left to save is a sequence of messages, whatever persistedMsgCount is.
LEMMA UnsavedType ==
  ASSUME TypeOK, NEW hist \in Seq(Msg)
  PROVE  Unsaved(hist) \in Seq(Msg)
BY SubSeqType DEF TypeOK, Unsaved

\* What saveCurrentSessionLocked leaves behind, in every one of its outcomes.
LEMMA SaveType ==
  ASSUME TypeOK, NEW hist \in Seq(Msg), NEW o \in SaveOutcomes(hist)
  PROVE  /\ o.file \in [Sessions -> Files(Msg)]
         /\ o.order \in Seq(Sessions)
         /\ o.persisted \in Nat
         /\ o.fail \in Nat
<1> DEFINE new == Unsaved(hist)
<1>1. new \in Seq(Msg)
  BY UnsavedType
<1>2. /\ current \in Sessions /\ persisted \in Nat /\ order \in Seq(Sessions)
      /\ file \in [Sessions -> Files(Msg)] /\ file[current] \in Files(Msg)
  BY DEF TypeOK
<1>3. Touched(current, order) \in Seq(Sessions)
  BY <1>2, DroppedType
<1>4. /\ [file EXCEPT ![current] = Appended(@, new)] \in [Sessions -> Files(Msg)]
      /\ \A k \in 0 .. Len(new) :
           [file EXCEPT ![current] = PartAppended(@, new, k)] \in [Sessions -> Files(Msg)]
  BY <1>1, <1>2, FilesType
<1>5. Len(hist) \in Nat
  BY LenProperties
<1> HIDE DEF new
<1> QED
  BY <1>2, <1>3, <1>4, <1>5 DEF SaveOutcomes, new

\* What a save that may be under way is writing.
LEMMA BeingSavedType ==
  ASSUME TypeOK
  PROVE  /\ Append(history, NewMsg("user", current, 1)) \in Seq(Msg)
         /\ \A w \in BeingSaved : w \in Seq(Msg)
<1>1. history \in Seq(Msg) /\ NewMsg("user", current, 1) \in Msg
  BY MsgType DEF TypeOK, Kinds
<1>2. Append(history, NewMsg("user", current, 1)) \in Seq(Msg)
  BY <1>1, AppendProperties
<1>3. Unsaved(history) \in Seq(Msg) /\ Unsaved(Append(history, NewMsg("user", current, 1))) \in Seq(Msg)
  BY <1>1, <1>2, UnsavedType
<1> QED
  BY <1>2, <1>3 DEF BeingSaved

\* What a crash leaves behind, wherever the save was.
LEMMA RemainsType ==
  ASSUME TypeOK, NEW r \in Remains
  PROVE  r.file \in [Sessions -> Files(Msg)] /\ r.order \in Seq(Sessions)
<1>1. /\ current \in Sessions /\ order \in Seq(Sessions) /\ history \in Seq(Msg)
      /\ file \in [Sessions -> Files(Msg)] /\ file[current] \in Files(Msg)
  BY DEF TypeOK
<1>2. \A w \in BeingSaved : w \in Seq(Msg)
  BY BeingSavedType
<1>3. Touched(current, order) \in Seq(Sessions) /\ Dropped(current, order) \in Seq(Sessions)
  BY <1>1, DroppedType
<1>4. ASSUME NEW w \in BeingSaved
      PROVE  /\ [file EXCEPT ![current] = MetaTorn(Appended(@, w))] \in [Sessions -> Files(Msg)]
             /\ \A k \in 0 .. Len(w) :
                  [file EXCEPT ![current] = PartAppended(@, w, k)] \in [Sessions -> Files(Msg)]
  BY <1>1, <1>2, FilesType
<1> QED
  BY <1>1, <1>3, <1>4 DEF Remains

\* What the handler's memory holds after a session was opened.
LEMMA OpenLatestType ==
  ASSUME TypeOK, NEW files \in [Sessions -> Files(Msg)], NEW ord \in Seq(Sessions),
         OpenLatest(files, ord)
  PROVE  /\ current' \in Sessions /\ history' \in Seq(Msg) /\ persisted' \in Nat
         /\ stale' \in BOOLEAN /\ used' \subseteq Sessions
<1>1. CASE ord # <<>>
  <2>1. Head(ord) \in Sessions
    BY <1>1, HeadTailProperties
  <2>2. files[Head(ord)].lines \in Seq(Msg)
    BY <2>1 DEF Files
  <2> QED
    BY <1>1, <2>1, <2>2, LenProperties DEF OpenLatest, SwitchTo, TypeOK
<1>2. CASE ord = <<>>
  <2>1. PICK s \in Fresh : SwitchTo(s, <<>>) /\ used' = used \cup {s}
    BY <1>2 DEF OpenLatest
  <2>2. <<>> \in Seq(Msg) /\ Len(<<>>) \in Nat
    BY EmptySeq
  <2>3. used \subseteq Sessions
    BY DEF TypeOK
  <2> QED
    BY <2>1, <2>2, <2>3 DEF OpenLatest, SwitchTo, Fresh
<1> QED
  BY <1>1, <1>2

-----------------------------------------------------------------------------
(* Types.                                                                  *)

\* The locals of goroutines and read loops that have not begun anything.
LEMMA IdleType ==
  ASSUME NEW s \in Sessions
  PROVE  NoJob(s) \in JobType /\ NoCommand(s) \in ConnType
BY EmptySeq DEF NoJob, NoCommand, JobType, JobKinds, ConnType

\* A new process is well typed.
LEMMA TypeInit == Init => TypeOK
<1> SUFFICES ASSUME Init
             PROVE  TypeOK
  OBVIOUS
<1>1. active \in BOOLEAN /\ stale \in BOOLEAN
  BY DEF Init
<1>2. pc \in [Turns -> PCs] /\ current \in Sessions
  BY DEF Init, PCs
<1>3. job \in [Turns -> JobType] /\ conn \in [Conns -> ConnType]
  BY <1>2, IdleType DEF Init
<1>4. /\ used \subseteq Sessions /\ pending \subseteq Sessions /\ crossed \subseteq Sessions
      /\ persisted \in Nat
  BY DEF Init
<1>5. history \in Seq(Msg) /\ order \in Seq(Sessions)
  BY EmptySeq DEF Init
<1>6. file \in [Sessions -> Files(Msg)]
  <2>1. NoFiles \in Files(Msg)
    BY EmptySeq DEF NoFiles, Files
  <2> QED
    BY <2>1 DEF Init
<1>7. spent \in SpentType
  BY DEF Init, SpentType
<1> QED
  BY <1>1, <1>2, <1>3, <1>4, <1>5, <1>6, <1>7 DEF TypeOK

\* Every step keeps the types.
LEMMA TypeStep == TypeOK /\ [Next]_vars => TypeOK'
<1> SUFFICES ASSUME TypeOK, [Next]_vars
             PROVE  TypeOK'
  OBVIOUS
<1>a. /\ active \in BOOLEAN /\ stale \in BOOLEAN /\ pc \in [Turns -> PCs]
      /\ job \in [Turns -> JobType] /\ conn \in [Conns -> ConnType]
      /\ current \in Sessions /\ used \subseteq Sessions /\ pending \subseteq Sessions
      /\ history \in Seq(Msg) /\ persisted \in Nat /\ file \in [Sessions -> Files(Msg)]
      /\ order \in Seq(Sessions) /\ spent \in SpentType /\ crossed \subseteq Sessions
  BY DEF TypeOK
<1>b. ASSUME NEW t \in Turns
      PROVE  /\ job[t].home \in Sessions /\ job[t].sid \in Sessions
             /\ job[t].hist \in Seq(Msg) /\ pc[t] \in PCs
  BY <1>a DEF JobType
<1>c. \A kind \in Kinds, home \in Sessions, k \in Nat : NewMsg(kind, home, k) \in Msg
  BY MsgType
<1>d. \A h \in Seq(Msg), m \in Msg : Append(h, m) \in Seq(Msg)
  BY AppendProperties
<1>e. \A s \in Sessions : NoJob(s) \in JobType /\ NoCommand(s) \in ConnType
  BY IdleType
<1>f. /\ \A k \in Nat, field \in {"msgs", "commands", "compact", "tasks", "fail", "crash"} :
           Spend(field, k) \in SpentType
      /\ \A k \in Nat : /\ SpendAndFail("msgs", k) \in SpentType
                        /\ SpendAndFail("commands", k) \in SpentType
  BY SpendType
<1>g. Underway \subseteq Sessions
  BY <1>a DEF Underway, ConnType
<1>h. \A c \in Conns, s \in Sessions : Crosses(c, s) /\ current' \in Sessions => crossed' \subseteq Sessions
  BY <1>a, <1>g DEF Crosses
<1>1. ASSUME NEW t \in Turns, NEW kind \in {"input", "skill", "compact"}, Request(t, kind)
      PROVE  TypeOK'
  BY <1>1, <1>a, <1>g DEF Request, TryAcquire, Starts, Goto, PCs, JobType, JobKinds, TypeOK, memory, disk
<1>2. ASSUME NEW t \in Turns, NEW s \in Sessions, Continue(t, s)
      PROVE  TypeOK'
  BY <1>2, <1>a, <1>g DEF Continue, TryAcquire, Starts, Goto, PCs, JobType, JobKinds, TypeOK, memory, disk
<1>3. ASSUME NEW t \in Turns, UserInput(t)
      PROVE  TypeOK'
  <2> DEFINE hist == Append(history, NewMsg("user", current, 1))
  <2>1. hist \in Seq(Msg)
    BY <1>a, <1>c, <1>d DEF Kinds
  <2>2. PICK o \in SaveOutcomes(hist) :
          /\ StoreSaved(o) /\ persisted' = o.persisted
          /\ spent' = SpendAndFail("msgs", o.fail)
    BY <1>3 DEF UserInput
  <2>3. history' = hist
    BY <1>3 DEF UserInput
  <2> HIDE DEF hist
  <2>4. /\ file' \in [Sessions -> Files(Msg)] /\ order' \in Seq(Sessions)
        /\ persisted' \in Nat /\ spent' \in SpentType
    BY <1>a, <1>f, <2>1, <2>2, SaveType DEF StoreSaved
  <2> QED
    BY <1>3, <1>a, <1>f, <2>1, <2>3, <2>4 DEF UserInput, Goto, PCs, JobType, TypeOK
<1>4. ASSUME NEW t \in Turns, SkillInput(t)
      PROVE  TypeOK'
  <2>1. history' \in Seq(Msg)
    BY <1>4, <1>a, <1>f, <1>b, <1>c, <1>d DEF SkillInput, Kinds
  <2> QED
    BY <1>4, <1>a, <1>f, <2>1 DEF SkillInput, Goto, PCs, JobType, TypeOK, disk
<1>5. ASSUME NEW t \in Turns, TaskInput(t)
      PROVE  TypeOK'
  <2>1. history' \in Seq(Msg)
    BY <1>5, <1>a, <1>f, <1>b, <1>c, <1>d DEF TaskInput, Kinds
  <2> QED
    BY <1>5, <1>a, <1>f, <2>1 DEF TaskInput, Goto, PCs, JobType, TypeOK, disk
<1>6. ASSUME NEW t \in Turns, SkillFails(t)
      PROVE  TypeOK'
  BY <1>6, <1>a DEF SkillFails, Goto, PCs, TypeOK, memory, disk
<1>7. ASSUME NEW t \in Turns, StartStream(t) \/ LoopEnds(t) \/ Panic(t) \/ SummaryFails(t)
      PROVE  TypeOK'
  BY <1>7, <1>a DEF StartStream, LoopEnds, Panic, SummaryFails, AfterCompact, Goto, PCs, SavePoints,
     TypeOK, memory, disk
<1>8. ASSUME NEW t \in Turns, Reply(t) \/ UseTools(t) \/ ToolsDone(t)
      PROVE  TypeOK'
  <2>1. history' \in Seq(Msg)
    BY <1>8, <1>a, <1>f, <1>b, <1>c, <1>d DEF Reply, UseTools, ToolsDone, Kinds
  <2> QED
    BY <1>8, <1>a, <1>f, <2>1 DEF Reply, UseTools, ToolsDone, Goto, PCs, SavePoints, Spend, SpentType,
       TypeOK, disk
<1>9. ASSUME NEW t \in Turns, AbortUse(t)
      PROVE  TypeOK'
  <2>1. NewMsg("use", job[t].home, 1) \in Msg /\ NewMsg("result", job[t].home, 2) \in Msg
    BY <1>b, <1>c DEF Kinds
  <2>2. history' \in Seq(Msg)
    BY <1>9, <1>a, <1>f, <2>1, ConcatProperties DEF AbortUse
  <2> QED
    BY <1>9, <1>a, <1>f, <2>2 DEF AbortUse, Goto, PCs, SavePoints, TypeOK, disk
<1>10. ASSUME NEW t \in Turns, StartTask(t)
       PROVE  TypeOK'
  BY <1>10, <1>a, <1>f, <1>b DEF StartTask, TypeOK, memory, disk
<1>11. ASSUME NEW t \in Turns, Save(t)
       PROVE  TypeOK'
  <2>1. PICK o \in SaveOutcomes(history) :
          StoreSaved(o) /\ persisted' = o.persisted /\ spent' = Spend("fail", o.fail)
    BY <1>11 DEF Save
  <2>2. /\ file' \in [Sessions -> Files(Msg)] /\ order' \in Seq(Sessions)
        /\ persisted' \in Nat /\ spent' \in SpentType
    BY <1>a, <2>1, <1>f, SaveType DEF StoreSaved
  <2>3. AfterSave(pc[t]) \in PCs
    BY DEF AfterSave, PCs, SavePoints
  <2> QED
    BY <1>11, <1>a, <1>f, <2>2, <2>3 DEF Save, Goto, TypeOK
<1>12. ASSUME NEW t \in Turns, Release(t)
       PROVE  TypeOK'
  BY <1>12, <1>a, <1>e DEF Release, Goto, PCs, TypeOK, memory, disk
<1>13. ASSUME NEW t \in Turns, CompactBegin(t)
       PROVE  TypeOK'
  BY <1>13, <1>a, <1>f DEF CompactBegin, Goto, PCs, JobType, TypeOK, memory, disk
<1>14. ASSUME NEW t \in Turns, CompactSnapshot(t)
       PROVE  TypeOK'
  <2>1. job' \in [Turns -> JobType]
    <3>1. CASE Len(history) > 1
      <4>1. PICK home \in Sessions :
              job' = [job EXCEPT ![t] = [[@ EXCEPT !.hist = history] EXCEPT !.home = home]]
        BY <1>14, <3>1, <1>a, <1>b DEF CompactSnapshot
      <4>2. [[job[t] EXCEPT !.hist = history] EXCEPT !.home = home] \in JobType
        BY <1>a DEF JobType
      <4> QED
        BY <1>a, <4>1, <4>2
    <3>2. CASE ~(Len(history) > 1)
      BY <1>14, <3>2, <1>a DEF CompactSnapshot
    <3> QED
      BY <3>1, <3>2
  <2>2. pc' \in [Turns -> PCs]
    BY <1>14, <1>a DEF CompactSnapshot, AfterCompact, Goto, PCs
  <2> QED
    BY <1>14, <1>a, <2>1, <2>2 DEF CompactSnapshot, TypeOK, memory, disk
<1>15. ASSUME NEW t \in Turns, CompactArchive(t)
       PROVE  TypeOK'
  <2>1. PICK i \in SplitPoints(job[t].hist) :
          /\ file' = [file EXCEPT ![job[t].sid] = Archived(@, SubSeq(job[t].hist, 1, i))]
          /\ job' = [job EXCEPT ![t].hist =
               <<NewMsg("summary", job[t].home, 1), NewMsg("boundary", job[t].home, 2)>>
               \o SubSeq(job[t].hist, i + 1, Len(job[t].hist))]
    BY <1>15 DEF CompactArchive
  <2>2. i \in Nat \ {0} /\ i <= Len(job[t].hist) /\ Len(job[t].hist) \in Nat
    BY <1>b, LenProperties DEF SplitPoints
  <2>3. /\ SubSeq(job[t].hist, 1, i) \in Seq(Msg)
        /\ SubSeq(job[t].hist, i + 1, Len(job[t].hist)) \in Seq(Msg)
    BY <1>b, <2>2, SubSeqType
  <2>4. <<NewMsg("summary", job[t].home, 1), NewMsg("boundary", job[t].home, 2)>> \in Seq(Msg)
    BY <1>b, <1>c DEF Kinds
  <2>5. file' \in [Sessions -> Files(Msg)]
    BY <1>a, <1>b, <2>1, <2>3, FilesType
  <2>6. job' \in [Turns -> JobType]
    BY <1>a, <2>1, <2>3, <2>4, ConcatProperties DEF JobType
  <2> QED
    BY <1>15, <1>a, <1>f, <2>5, <2>6 DEF CompactArchive, Goto, PCs, TypeOK, memory
<1>16. ASSUME NEW t \in Turns, CompactRewrite(t)
       PROVE  TypeOK'
  <2>1. file' \in [Sessions -> Files(Msg)] /\ order' \in Seq(Sessions)
    BY <1>16, <1>a, <1>b, FilesType, DroppedType DEF CompactRewrite
  <2> QED
    BY <1>16, <1>a, <2>1 DEF CompactRewrite, Goto, PCs, TypeOK, memory
<1>17. ASSUME NEW t \in Turns, ArchiveFails(t) \/ RewriteFails(t)
       PROVE  TypeOK'
  <2>1. file' \in [Sessions -> Files(Msg)]
    <3>1. CASE ArchiveFails(t)
      <4>1. PICK i \in 0 .. Len(job[t].hist) - 1 :
              file' = [file EXCEPT ![job[t].sid] = Archived(@, SubSeq(job[t].hist, 1, i))]
        BY <3>1 DEF ArchiveFails
      <4>2. SubSeq(job[t].hist, 1, i) \in Seq(Msg)
        BY <1>b, LenProperties, SubSeqType
      <4> QED
        BY <1>a, <1>b, <4>1, <4>2, FilesType
    <3>2. CASE RewriteFails(t)
      BY <3>2, <1>a, <1>b DEF RewriteFails, Files
    <3> QED
      BY <1>17, <3>1, <3>2
  <2>2. stale' \in BOOLEAN /\ spent' \in SpentType
    BY <1>17, <1>a, <1>f DEF ArchiveFails, RewriteFails, memory
  <2>3. pc' \in [Turns -> PCs]
    BY <1>17, <1>a DEF ArchiveFails, RewriteFails, AfterCompact, Goto, PCs
  <2> QED
    BY <1>17, <1>a, <2>1, <2>2, <2>3 DEF ArchiveFails, RewriteFails, TypeOK, memory
<1>18. ASSUME NEW t \in Turns, CompactReplace(t)
       PROVE  TypeOK'
  BY <1>18, <1>a, <1>b DEF CompactReplace, AfterCompact, Goto, PCs, TypeOK, disk
<1>19. ASSUME NEW c \in Conns, NewSession(c)
       PROVE  TypeOK'
  <2>1. PICK o \in SaveOutcomes(history), s \in Fresh :
          /\ StoreSaved(o) /\ SwitchTo(s, <<>>) /\ used' = used \cup {s}
          /\ spent' = SpendAndFail("commands", o.fail)
    BY <1>19 DEF NewSession
  <2>2. /\ file' \in [Sessions -> Files(Msg)] /\ order' \in Seq(Sessions)
        /\ spent' \in SpentType
    BY <1>a, <2>1, <1>f, SaveType DEF StoreSaved
  <2>3. /\ current' \in Sessions /\ history' \in Seq(Msg) /\ persisted' \in Nat
        /\ used' \subseteq Sessions
    BY <1>a, <2>1, EmptySeq DEF SwitchTo, Fresh
  <2> QED
    BY <1>19, <1>a, <1>f, <1>h, <2>2, <2>3 DEF NewSession, TypeOK
<1>20. ASSUME NEW c \in Conns, ClearSession(c)
       PROVE  TypeOK'
  <2>1. /\ file' \in [Sessions -> Files(Msg)] /\ order' \in Seq(Sessions)
        /\ spent' \in SpentType
    <3>1. Truncated(file[current]) \in Files(Msg) /\ PartTruncated(file[current]) \in Files(Msg)
      BY <1>a, EmptySeq, FilesType
    <3>2. Touched(current, order) \in Seq(Sessions)
      BY <1>a, DroppedType
    <3> QED
      BY <1>20, <1>a, <1>f, <3>1, <3>2 DEF ClearSession
  <2>2. current' \in Sessions /\ history' \in Seq(Msg) /\ persisted' \in Nat
    BY <1>20, <1>a, <1>f, EmptySeq DEF ClearSession, SwitchTo
  <2> QED
    BY <1>20, <1>a, <1>f, <1>h, <2>1, <2>2 DEF ClearSession, TypeOK
<1>21. ASSUME NEW c \in Conns, ResumeSwitch(c)
       PROVE  TypeOK'
  <2>1. PICK o \in SaveOutcomes(history) : StoreSaved(o) /\ spent' = Spend("fail", o.fail)
    BY <1>21 DEF ResumeSwitch
  <2>2. /\ file' \in [Sessions -> Files(Msg)] /\ order' \in Seq(Sessions)
        /\ spent' \in SpentType
    BY <1>a, <2>1, <1>f, SaveType DEF StoreSaved
  <2>3. current' \in Sessions /\ history' \in Seq(Msg) /\ persisted' \in Nat
    BY <1>21, <1>a, <1>f, LenProperties DEF ResumeSwitch, SwitchTo, ConnType
  <2>4. conn' \in [Conns -> ConnType]
    BY <1>21, <1>a, <1>f, <1>e, <2>3 DEF ResumeSwitch
  <2>5. stale' \in BOOLEAN
    BY <1>21 DEF ResumeSwitch
  <2>6. crossed' \subseteq Sessions
    BY <1>21, <1>a, <1>h, <2>3 DEF ResumeSwitch, ConnType
  <2> QED
    BY <1>21, <1>a, <1>f, <2>2, <2>3, <2>4, <2>5, <2>6 DEF ResumeSwitch, TypeOK
<1>22. ASSUME NEW c \in Conns, DeleteSwitch(c)
       PROVE  TypeOK'
  <2>1. /\ current' \in Sessions /\ history' \in Seq(Msg) /\ persisted' \in Nat
        /\ stale' \in BOOLEAN /\ used' \subseteq Sessions
    BY <1>22, <1>a, OpenLatestType DEF DeleteSwitch, memory
  <2>2. conn' \in [Conns -> ConnType]
    BY <1>22, <1>a, <1>e, <2>1 DEF DeleteSwitch
  <2>3. crossed' \subseteq Sessions
    BY <1>22, <1>a, <1>h, <2>1 DEF DeleteSwitch, ConnType
  <2> QED
    BY <1>22, <1>a, <2>1, <2>2, <2>3 DEF DeleteSwitch, TypeOK, disk
<1>23. ASSUME NEW c \in Conns, NEW s \in Sessions, ResumeLoad(c, s)
       PROVE  TypeOK'
  BY <1>23, <1>a, <1>f, <1>h DEF ResumeLoad, Files, ConnType, TypeOK, memory, disk
<1>24. ASSUME NEW c \in Conns, NEW s \in Sessions, DeleteFiles(c, s)
       PROVE  TypeOK'
  <2>1. file' \in [Sessions -> Files(Msg)] /\ order' \in Seq(Sessions)
    BY <1>24, <1>a, <1>f, EmptySeq, FilesType, DroppedType DEF DeleteFiles, Deleted
  <2> QED
    BY <1>24, <1>a, <1>f, <1>h, <2>1 DEF DeleteFiles, ConnType, TypeOK, memory
<1>25. ASSUME NEW s \in Sessions, DropTask(s)
       PROVE  TypeOK'
  BY <1>25, <1>a DEF DropTask, TypeOK, memory, disk
<1>26. ASSUME Crash
       PROVE  TypeOK'
  <2>1. PICK r \in Remains : StoreSaved(r) /\ OpenLatest(r.file, r.order)
    BY <1>26 DEF Crash
  <2>2. file' \in [Sessions -> Files(Msg)] /\ order' \in Seq(Sessions)
    BY <2>1, RemainsType DEF StoreSaved
  <2>3. /\ current' \in Sessions /\ history' \in Seq(Msg) /\ persisted' \in Nat
        /\ stale' \in BOOLEAN /\ used' \subseteq Sessions
    BY <2>1, RemainsType, OpenLatestType
  <2>4. job' \in [Turns -> JobType] /\ conn' \in [Conns -> ConnType]
    BY <1>26, <1>e, <2>3 DEF Crash
  <2>5. pc' \in [Turns -> PCs] /\ active' \in BOOLEAN /\ pending' \subseteq Sessions
    BY <1>26 DEF Crash, PCs
  <2>7. crossed' \subseteq Sessions
    BY <1>26, <1>a DEF Crash
  <2>6. spent' \in SpentType
    <3>1. \A j \in {0, 1} : Spend("msgs", j) \in SpentType
      BY <1>f
    <3>2. ASSUME NEW x \in SpentType
          PROVE  [x EXCEPT !.crash = @ + 1] \in SpentType
      BY DEF SpentType
    <3> QED
      BY <1>26, <3>1, <3>2 DEF Crash
  <2> QED
    BY <2>2, <2>3, <2>4, <2>5, <2>6, <2>7 DEF TypeOK
<1>27. ASSUME UNCHANGED vars
       PROVE  TypeOK'
  BY <1>27, <1>a DEF vars, TypeOK
<1>28. ASSUME NEW t \in Turns, Blocks(t)
       PROVE  TypeOK'
  BY <1>28, <1>a, <1>e DEF Blocks, Goto, PCs, TypeOK, memory, disk
<1> QED
  BY <1>1, <1>2, <1>3, <1>4, <1>5, <1>6, <1>7, <1>8, <1>9, <1>10, <1>11, <1>12, <1>13, <1>14, <1>15,
     <1>16, <1>17, <1>18, <1>19, <1>20, <1>21, <1>22, <1>23, <1>24, <1>25, <1>26, <1>27, <1>28
     DEF Next, TurnStep, Command

\* Type correctness: in particular persistedMsgCount never goes below zero and no
\* goroutine or read loop is at a place the code does not have.
THEOREM TypeCorrect == Spec => []TypeOK
BY TypeInit, TypeStep, PTL DEF Spec

-----------------------------------------------------------------------------
(* One stream at a time.                                                   *)

\* A goroutine that moves on while it holds the stream leaves it held by it alone.
LEMMA StillHolds ==
  ASSUME TypeOK, StreamExclusive, active' = active,
         NEW t \in Turns, pc[t] # "free", NEW next \in PCs \ {"free"}, Goto(t, next)
  PROVE  StreamExclusive'
<1>1. Holders' = Holders
  BY DEF TypeOK, Goto, Holders
<1> QED
  BY <1>1 DEF StreamExclusive

\* A goroutine that acquires the stream finds it held by nobody.
LEMMA NewHolder ==
  ASSUME TypeOK, StreamExclusive, NEW t \in Turns, TryAcquire(t)
  PROVE  StreamExclusive'
<1>1. Holders = {}
  BY DEF StreamExclusive, TryAcquire, MayAcquire
<1>2. Holders' = {t}
  BY <1>1 DEF TypeOK, TryAcquire, Goto, Holders
<1> QED
  BY <1>2 DEF StreamExclusive, TryAcquire

\* Every step keeps the stream with at most one goroutine.
LEMMA ExclusiveStep == TypeOK /\ StreamExclusive /\ [Next]_vars => StreamExclusive'
<1> SUFFICES ASSUME TypeOK, StreamExclusive, [Next]_vars
             PROVE  StreamExclusive'
  OBVIOUS
<1>1. ASSUME NEW t \in Turns,
             \/ \E kind \in {"input", "skill", "compact"} : Request(t, kind)
             \/ \E s \in Sessions : Continue(t, s)
      PROVE  StreamExclusive'
  BY <1>1, NewHolder DEF Request, Continue
<1>2. ASSUME NEW t \in Turns, TurnStep(t), ~Release(t), ~StartTask(t)
      PROVE  StreamExclusive'
  <2>1. ASSUME Save(t)
        PROVE  StreamExclusive'
    <3>1. pc[t] # "free" /\ AfterSave(pc[t]) \in PCs \ {"free"}
      BY <2>1 DEF Save, SavePoints, AfterSave, PCs
    <3> QED
      BY <2>1, <3>1, StillHolds DEF Save
  <2>2. ASSUME ~Save(t)
        PROVE  active' = active /\ pc[t] # "free" /\ \E next \in PCs \ {"free"} : Goto(t, next)
    BY <1>2, <2>2
       DEF TurnStep, UserInput, SkillInput, TaskInput, SkillFails, StartStream, Reply, UseTools,
           AbortUse, LoopEnds, ToolsDone, Panic, CompactBegin, CompactSnapshot, SummaryFails,
           CompactArchive, CompactRewrite, ArchiveFails, RewriteFails, CompactReplace, AfterCompact,
           PCs,
           SavePoints
  <2> QED
    BY <2>1, <2>2, StillHolds
<1>7. ASSUME NEW t \in Turns, Blocks(t)
      PROVE  StreamExclusive'
  BY <1>7, StillHolds DEF Blocks, Blocking, PCs
<1>3. ASSUME NEW t \in Turns, Release(t)
      PROVE  StreamExclusive'
  <2>1. Holders = {t}
    BY <1>3 DEF Release, StreamExclusive, Holders
  <2>2. Holders' = {}
    BY <1>3, <2>1 DEF Release, Goto, TypeOK, Holders
  <2> QED
    BY <1>3, <2>2 DEF Release, StreamExclusive
<1>4. ASSUME Crash
      PROVE  StreamExclusive'
  <2>1. Holders' = {}
    BY <1>4 DEF Crash, Holders
  <2> QED
    BY <1>4, <2>1 DEF Crash, StreamExclusive
<1>5. ASSUME pc' = pc, active' = active
      PROVE  StreamExclusive'
  BY <1>5 DEF StreamExclusive, Holders
<1>6. ASSUME \/ \E t \in Turns : StartTask(t)
             \/ \E c \in Conns : Command(c)
             \/ \E s \in Sessions : DropTask(s)
             \/ UNCHANGED vars
      PROVE  pc' = pc /\ active' = active
  BY <1>6 DEF StartTask, Command, NewSession, ClearSession, ResumeLoad, ResumeSwitch, DeleteFiles,
              DeleteSwitch, DropTask, vars
<1> QED
  BY <1>1, <1>2, <1>3, <1>4, <1>5, <1>6, <1>7 DEF Next

\* streamState serialises every stream goroutine of the handler, whoever started
\* it, also when session commands run at the same time and across restarts.
THEOREM OneStreamAtATime == Spec => []StreamExclusive
<1>1. Init => StreamExclusive
  BY DEF Init, StreamExclusive, Holders
<1> QED
  BY <1>1, TypeInit, TypeStep, ExclusiveStep, PTL DEF Spec

-----------------------------------------------------------------------------
(* Files at home.  A session's files may hold, besides its own messages,   *)
(* those of sessions that a command crossed a stream at when it was crossed *)
(* itself.  What follows holds for any set x of crossed sessions, so that  *)
(* a step can be looked at with the set it ends with.                      *)

Shares(x, r, s) == r = s \/ {r, s} \subseteq x

\* The messages that belong into the file of session s.
Own(x, s) == {m \in Msg : m.kind # "task" => Shares(x, m.home, s)}

Compacting == {"summarise", "rewrite", "replace"}
Answering  == Compacting \cup {"start", "loop", "tools"} \cup SavePoints

\* What a goroutine at p with the locals j carries belongs to session cur.
TurnAtHome(x, cur, p, j) ==
  /\ p \in Answering => Shares(x, j.home, cur)
  /\ p = "snapshot" /\ j.kind # "compact" => Shares(x, j.home, cur)
  /\ p \in Compacting \cup {"snapshot"} => Shares(x, j.sid, cur)
  /\ p \in Compacting => j.hist \in Seq(Own(x, j.sid))

FilesAt(x, files)      == \A s \in Sessions : files[s] \in Files(Own(x, s))
TurnsAt(x, cur, ps, j) == \A t \in Turns : TurnAtHome(x, cur, ps[t], j[t])
CommandsAt(x, k)       == \A c \in Conns : k[c].at = "resume" => k[c].lines \in Seq(Own(x, k[c].sid))

\* Where commands and streams are under way together is remembered.
OverlapsKnown ==
  \A c \in Conns : ~ConnIdle(c) /\ Overlaps(c) => {current} \cup Underway \subseteq crossed

\* The inductive invariant.
AtHome ==
  /\ TypeOK /\ StreamExclusive
  /\ OverlapsKnown
  /\ FilesAt(crossed, file)
  /\ TurnsAt(crossed, current, pc, job) /\ CommandsAt(crossed, conn)
  /\ history \in Seq(Own(crossed, current))

\* A sequence over a set is one over a larger set.
LEMMA SeqGrows ==
  ASSUME NEW S, NEW T, S \subseteq T
  PROVE  Seq(S) \subseteq Seq(T)
<1> SUFFICES ASSUME NEW s \in Seq(S)
             PROVE  s \in Seq(T)
  OBVIOUS
<1>1. Len(s) \in Nat /\ s = [i \in 1 .. Len(s) |-> s[i]] /\ \A i \in 1 .. Len(s) : s[i] \in T
  BY LenProperties, ElementOfSeq
<1>2. s \in [1 .. Len(s) -> T]
  BY <1>1
<1> QED
  BY <1>1, <1>2, SeqDef

\* What belongs to a session belongs to those it shares with, and when more
\* sessions have been crossed.
LEMMA OwnGrows ==
  ASSUME NEW x, NEW y, x \subseteq y, NEW r, NEW s, Shares(y, r, s)
  PROVE  Own(x, r) \subseteq Own(y, s) /\ Seq(Own(x, r)) \subseteq Seq(Own(y, s))
<1>1. Own(x, r) \subseteq Own(y, s)
  BY DEF Own, Shares
<1> QED
  BY <1>1, SeqGrows

\* The same of files, and of what a goroutine carries.
LEMMA HomeGrows ==
  ASSUME NEW x, NEW y, x \subseteq y
  PROVE  /\ \A files : FilesAt(x, files) => FilesAt(y, files)
         /\ \A k : CommandsAt(x, k) => CommandsAt(y, k)
         /\ \A ps, j, r, s : TurnsAt(x, r, ps, j) /\ Shares(y, r, s) => TurnsAt(y, s, ps, j)
<1>1. \A s : Shares(y, s, s)
  BY DEF Shares
<1>2. \A s : Own(x, s) \subseteq Own(y, s) /\ Seq(Own(x, s)) \subseteq Seq(Own(y, s))
  BY <1>1, OwnGrows
<1>3. \A s : Files(Own(x, s)) \subseteq Files(Own(y, s))
  BY <1>2 DEF Files
<1>4. ASSUME NEW r, NEW s, NEW p, NEW j, Shares(y, r, s), TurnAtHome(x, r, p, j)
      PROVE  TurnAtHome(y, s, p, j)
  <2>1. \A h : Shares(x, h, r) => Shares(y, h, s)
    BY <1>4 DEF Shares
  <2> QED
    BY <1>2, <1>4, <2>1 DEF TurnAtHome
<1> QED
  BY <1>2, <1>3, <1>4 DEF FilesAt, CommandsAt, TurnsAt

\* No step forgets that a session was crossed.
LEMMA CrossedGrows == [Next]_vars => crossed \subseteq crossed'
BY DEF Next, vars, Request, Continue, TryAcquire, Starts, TurnStep, UserInput, SkillInput, TaskInput,
       SkillFails, StartStream, Reply, UseTools, AbortUse, LoopEnds, ToolsDone, StartTask, Panic,
       Save, Release, CompactBegin, CompactSnapshot, SummaryFails, CompactArchive, CompactRewrite,
       ArchiveFails, RewriteFails, CompactReplace, Blocks, Command, NewSession, ClearSession,
       ResumeLoad, ResumeSwitch, DeleteFiles, DeleteSwitch, Crosses, DropTask, Crash

\* A message a turn makes for a session belongs there, and so does a SubAgent's
\* result, whose home is not kept.
LEMMA OwnMsg ==
  ASSUME TypeOK, NEW x, NEW k \in Nat, NEW kind \in Kinds, NEW home \in Sessions, NEW s,
         kind = "task" \/ Shares(x, home, s)
  PROVE  NewMsg(kind, home, k) \in Own(x, s)
<1>1. NewMsg(kind, home, k) \in Msg
  BY MsgType
<1> QED
  BY <1>1 DEF Own, NewMsg

\* A save appends to the file of the current session what belongs there.
LEMMA SaveAtHome ==
  ASSUME TypeOK, NEW x, FilesAt(x, file), NEW hist \in Seq(Own(x, current)),
         NEW o \in SaveOutcomes(hist)
  PROVE  FilesAt(x, o.file)
<1> DEFINE new == Unsaved(hist)
<1>1. new \in Seq(Own(x, current))
  BY SubSeqType DEF TypeOK, Unsaved
<1>2. current \in Sessions /\ file \in [Sessions -> Files(Msg)] /\ file[current] \in Files(Own(x, current))
  BY DEF TypeOK, FilesAt
<1>3. /\ Appended(file[current], new) \in Files(Own(x, current))
      /\ \A k \in 0 .. Len(new) : PartAppended(file[current], new, k) \in Files(Own(x, current))
  BY <1>1, <1>2, FilesType
<1>4. \/ o.file = file
      \/ o.file = [file EXCEPT ![current] = Appended(@, new)]
      \/ \E k \in 0 .. Len(new) : o.file = [file EXCEPT ![current] = PartAppended(@, new, k)]
  BY DEF SaveOutcomes
<1> HIDE DEF new
<1> QED
  BY <1>2, <1>3, <1>4 DEF FilesAt

\* So does a save that the end of the process cuts short.
LEMMA RemainsAtHome ==
  ASSUME TypeOK, NEW x, FilesAt(x, file), history \in Seq(Own(x, current)), NEW r \in Remains
  PROVE  FilesAt(x, r.file)
<1>1. current \in Sessions /\ file \in [Sessions -> Files(Msg)] /\ file[current] \in Files(Own(x, current))
  BY DEF TypeOK, FilesAt
<1>2. ASSUME NEW w \in BeingSaved
      PROVE  w \in Seq(Own(x, current))
  <2>1. Unsaved(history) \in Seq(Own(x, current))
    BY SubSeqType DEF TypeOK, Unsaved
  <2>2. NewMsg("user", current, 1) \in Own(x, current)
    BY <1>1, OwnMsg DEF Kinds, Shares
  <2>3. Append(history, NewMsg("user", current, 1)) \in Seq(Own(x, current))
    BY <2>2, AppendProperties
  <2>4. Unsaved(Append(history, NewMsg("user", current, 1))) \in Seq(Own(x, current))
    BY <2>3, SubSeqType DEF TypeOK, Unsaved
  <2> QED
    BY <2>1, <2>4 DEF BeingSaved
<1>3. ASSUME NEW w \in BeingSaved
      PROVE  /\ MetaTorn(Appended(file[current], w)) \in Files(Own(x, current))
             /\ \A k \in 0 .. Len(w) : PartAppended(file[current], w, k) \in Files(Own(x, current))
  BY <1>1, <1>2, FilesType
<1>4. \/ r.file = file
      \/ \E w \in BeingSaved :
           \/ r.file = [file EXCEPT ![current] = MetaTorn(Appended(@, w))]
           \/ \E k \in 0 .. Len(w) : r.file = [file EXCEPT ![current] = PartAppended(@, w, k)]
  BY DEF Remains
<1> QED
  BY <1>1, <1>3, <1>4 DEF FilesAt

\* What a session that is opened brings into memory is its own.
LEMMA OpenAtHome ==
  ASSUME NEW x, NEW files, FilesAt(x, files), NEW ord \in Seq(Sessions), OpenLatest(files, ord)
  PROVE  history' \in Seq(Own(x, current'))
<1>1. CASE ord # <<>>
  <2>1. Head(ord) \in Sessions
    BY <1>1, HeadTailProperties
  <2>2. files[Head(ord)].lines \in Seq(Own(x, Head(ord)))
    BY <2>1 DEF Files, FilesAt
  <2> QED
    BY <1>1, <2>2 DEF OpenLatest, SwitchTo
<1>2. CASE ord = <<>>
  BY <1>2, EmptySeq DEF OpenLatest, SwitchTo
<1> QED
  BY <1>1, <1>2

\* While a goroutine holds the stream, no other one is under way.
LEMMA Alone ==
  ASSUME StreamExclusive, NEW t \in Turns, pc[t] # "free"
  PROVE  active /\ \A u \in Turns : u # t => pc[u] = "free"
BY DEF StreamExclusive, Holders

\* A step of goroutine t that leaves the other goroutines where they are keeps
\* every turn at home if it keeps t there.
LEMMA OthersAtHome ==
  ASSUME TypeOK, NEW x, TurnsAt(x, current, pc, job), NEW t \in Turns,
         TurnAtHome(x, current, pc'[t], job'[t]),
         \A u \in Turns \ {t} : pc'[u] = pc[u] /\ job'[u] = job[u]
  PROVE  TurnsAt(x, current, pc', job')
BY DEF TurnsAt

\* Starting a stream.
LEMMA StartAtHome ==
  ASSUME AtHome, NEW t \in Turns,
         \/ \E kind \in {"input", "skill", "compact"} : Request(t, kind)
         \/ \E s \in Sessions : Continue(t, s)
  PROVE  /\ TurnsAt(crossed', current', pc', job') /\ OverlapsKnown'
         /\ UNCHANGED <<conn, memory, disk>> /\ crossed \subseteq crossed'
<1> USE DEF AtHome
<1>1. /\ pc' = [pc EXCEPT ![t] = "acquired"] /\ UNCHANGED <<conn, memory, disk>>
      /\ \A u \in Turns \ {t} : job'[u] = job[u]
      /\ Starts
  BY DEF Request, Continue, TryAcquire, Goto, TypeOK
<1>2. TurnAtHome(crossed, current, pc'[t], job'[t])
  BY <1>1 DEF TypeOK, TurnAtHome, Answering, Compacting, SavePoints
<1>3. TurnsAt(crossed, current, pc', job')
  BY <1>1, <1>2, OthersAtHome DEF TypeOK
<1>4. crossed \subseteq crossed' /\ current' = current /\ Shares(crossed', current, current)
  BY <1>1 DEF Starts, Shares, memory
<1>5. TurnsAt(crossed', current', pc', job')
  BY <1>3, <1>4, HomeGrows
<1>6. OverlapsKnown'
  BY <1>1, <1>4 DEF Starts, OverlapsKnown, ConnsIdle, ConnIdle, Underway
<1> QED
  BY <1>1, <1>4, <1>5, <1>6

\* The steps of a turn that write neither the history nor a file.
LEMMA QuietAtHome ==
  ASSUME AtHome, NEW t \in Turns,
         \/ SkillFails(t) \/ StartStream(t) \/ LoopEnds(t) \/ StartTask(t) \/ Panic(t) \/ Release(t)
         \/ CompactBegin(t) \/ CompactSnapshot(t) \/ SummaryFails(t) \/ Blocks(t)
  PROVE  TurnsAt(crossed, current, pc', job') /\ UNCHANGED <<memory, disk>>
<1> USE DEF AtHome
<1>1. UNCHANGED <<memory, disk>>
  BY DEF SkillFails, StartStream, LoopEnds, StartTask, Panic, Release, CompactBegin, CompactSnapshot,
         SummaryFails, Blocks
<1>2. \A u \in Turns \ {t} : pc'[u] = pc[u] /\ job'[u] = job[u]
  BY DEF SkillFails, StartStream, LoopEnds, StartTask, Panic, Release, CompactBegin, CompactSnapshot,
         SummaryFails, Blocks, AfterCompact, Goto, TypeOK
<1>a. /\ TurnAtHome(crossed, current, pc[t], job[t]) /\ current \in Sessions /\ job[t] \in JobType
      /\ pc \in [Turns -> PCs] /\ job \in [Turns -> JobType]
  BY DEF TurnsAt, TypeOK
<1>b. Shares(crossed, current, current)
  BY DEF Shares
<1>3. TurnAtHome(crossed, current, pc'[t], job'[t])
  <2> USE DEF TurnAtHome, Answering, Compacting, SavePoints, Goto
  <2>1. CASE SkillFails(t) \/ StartStream(t) \/ LoopEnds(t) \/ Panic(t) \/ Release(t) \/ Blocks(t)
    BY <1>a, <2>1 DEF SkillFails, StartStream, LoopEnds, Panic, Release, Blocks
  <2>2. CASE StartTask(t)
    BY <1>a, <2>2 DEF StartTask
  <2>3. CASE SummaryFails(t)
    BY <1>a, <2>3 DEF SummaryFails, AfterCompact
  <2>4. CASE CompactBegin(t)
    BY <1>a, <1>b, <2>4 DEF CompactBegin, JobType
  <2>5. CASE CompactSnapshot(t)
    <3>1. CASE Len(history) > 1
      <4>1. /\ pc' = [pc EXCEPT ![t] = "summarise"]
            /\ job'[t].hist = history /\ job'[t].sid = job[t].sid
            /\ job'[t].home = IF job[t].kind = "compact" THEN current ELSE job[t].home
        BY <1>a, <2>5, <3>1 DEF CompactSnapshot, JobType
      <4>2. Shares(crossed, job[t].sid, current) /\ Shares(crossed, current, job[t].sid)
        BY <1>a, <2>5 DEF CompactSnapshot, Shares
      <4>3. history \in Seq(Own(crossed, job[t].sid))
        BY <4>2, OwnGrows
      <4>4. Shares(crossed, job'[t].home, current)
        BY <1>a, <1>b, <2>5, <4>1 DEF CompactSnapshot
      <4> QED
        BY <1>a, <4>1, <4>2, <4>3, <4>4
    <3>2. CASE ~(Len(history) > 1)
      BY <1>a, <2>5, <3>2 DEF CompactSnapshot, AfterCompact
    <3> QED
      BY <3>1, <3>2
  <2> QED
    BY <2>1, <2>2, <2>3, <2>4, <2>5
<1> QED
  BY <1>1, <1>2, <1>3, OthersAtHome

\* The steps of a turn that append to the history.
LEMMA AppendAtHome ==
  ASSUME AtHome, NEW t \in Turns,
         \/ SkillInput(t) \/ TaskInput(t) \/ Reply(t) \/ UseTools(t) \/ AbortUse(t) \/ ToolsDone(t)
  PROVE  /\ TurnsAt(crossed, current, pc', job') /\ UNCHANGED <<current, disk>>
         /\ history' \in Seq(Own(crossed, current))
<1> USE DEF AtHome
<1>1. UNCHANGED <<current, disk>>
  BY DEF SkillInput, TaskInput, Reply, UseTools, AbortUse, ToolsDone
<1>2. \A u \in Turns \ {t} : pc'[u] = pc[u] /\ job'[u] = job[u]
  BY DEF SkillInput, TaskInput, Reply, UseTools, AbortUse, ToolsDone, Goto, TypeOK
<1>a. /\ TurnAtHome(crossed, current, pc[t], job[t]) /\ current \in Sessions /\ job[t] \in JobType
      /\ pc \in [Turns -> PCs] /\ job \in [Turns -> JobType] /\ job[t].home \in Sessions
  BY DEF TurnsAt, TypeOK, JobType
<1>b. Shares(crossed, current, current)
  BY DEF Shares
<1>3. TurnAtHome(crossed, current, pc'[t], job'[t])
  BY <1>a, <1>b DEF SkillInput, TaskInput, Reply, UseTools, AbortUse, ToolsDone, Goto, TurnAtHome,
                    Answering, Compacting, SavePoints, JobType
<1>4. TurnsAt(crossed, current, pc', job')
  BY <1>2, <1>3, OthersAtHome
<1>5. pc[t] \in {"loop", "tools"} => Shares(crossed, job[t].home, current)
  BY <1>a DEF TurnAtHome, Answering
<1>6. ASSUME NEW m \in Own(crossed, current)
      PROVE  Append(history, m) \in Seq(Own(crossed, current))
  BY AppendProperties
<1>7. \A kind \in Kinds, home \in Sessions, k \in Nat :
        kind = "task" \/ Shares(crossed, home, current) =>
          NewMsg(kind, home, k) \in Own(crossed, current)
  BY OwnMsg
<1>8. history' \in Seq(Own(crossed, current))
  <2>2. CASE SkillInput(t) \/ TaskInput(t)
    BY <1>a, <1>b, <1>6, <1>7, <2>2 DEF SkillInput, TaskInput, Kinds
  <2>3. CASE Reply(t) \/ UseTools(t) \/ ToolsDone(t)
    BY <1>a, <1>5, <1>6, <1>7, <2>3 DEF Reply, UseTools, ToolsDone, Kinds
  <2>4. CASE AbortUse(t)
    <3>1. /\ NewMsg("use", job[t].home, 1) \in Own(crossed, current)
          /\ NewMsg("result", job[t].home, 2) \in Own(crossed, current)
      BY <1>a, <1>5, <1>7, <2>4 DEF AbortUse, Kinds
    <3>2. history \o <<NewMsg("use", job[t].home, 1), NewMsg("result", job[t].home, 2)>>
            \in Seq(Own(crossed, current))
      BY <3>1, ConcatProperties
    <3> QED
      BY <2>4, <3>2 DEF AbortUse
  <2> QED
    BY <2>2, <2>3, <2>4
<1> QED
  BY <1>1, <1>4, <1>8

\* The steps of a turn that save.
LEMMA SavingAtHome ==
  ASSUME AtHome, NEW t \in Turns, UserInput(t) \/ Save(t)
  PROVE  /\ TurnsAt(crossed, current, pc', job') /\ FilesAt(crossed, file') /\ UNCHANGED current
         /\ history' \in Seq(Own(crossed, current))
<1> USE DEF AtHome
<1>a. /\ TurnAtHome(crossed, current, pc[t], job[t]) /\ current \in Sessions /\ job[t] \in JobType
      /\ pc \in [Turns -> PCs] /\ job \in [Turns -> JobType]
  BY DEF TurnsAt, TypeOK
<1>b. Shares(crossed, current, current)
  BY DEF Shares
<1>1. /\ current' = current
      /\ \A u \in Turns \ {t} : pc'[u] = pc[u] /\ job'[u] = job[u]
  BY DEF UserInput, Save, Goto, TypeOK
<1>2. TurnAtHome(crossed, current, pc'[t], job'[t])
  BY <1>a, <1>b DEF UserInput, Save, AfterSave, Goto, TurnAtHome, Answering, Compacting, SavePoints,
                    JobType
<1>3. TurnsAt(crossed, current, pc', job')
  BY <1>1, <1>2, OthersAtHome
<1>4. history' \in Seq(Own(crossed, current)) /\ \E o \in SaveOutcomes(history') : file' = o.file
  <2>1. CASE UserInput(t)
    <3>1. Append(history, NewMsg("user", current, 1)) \in Seq(Own(crossed, current))
      BY <1>a, <1>b, OwnMsg, AppendProperties DEF Kinds
    <3> QED
      BY <2>1, <3>1 DEF UserInput, StoreSaved
  <2>2. CASE Save(t)
    BY <2>2 DEF Save, StoreSaved
  <2> QED
    BY <2>1, <2>2
<1> QED
  BY <1>1, <1>3, <1>4, SaveAtHome

\* The steps of a compaction that write: the files are those of the session whose
\* history was taken.
LEMMA CompactAtHome ==
  ASSUME AtHome, NEW t \in Turns,
         CompactArchive(t) \/ CompactRewrite(t) \/ CompactReplace(t) \/ ArchiveFails(t) \/ RewriteFails(t)
  PROVE  /\ TurnsAt(crossed, current, pc', job') /\ FilesAt(crossed, file') /\ UNCHANGED current
         /\ history' \in Seq(Own(crossed, current))
<1> USE DEF AtHome
<1> DEFINE s   == job[t].sid
           own == Own(crossed, s)
<1>a. /\ TurnAtHome(crossed, current, pc[t], job[t]) /\ current \in Sessions /\ job[t] \in JobType
      /\ pc \in [Turns -> PCs] /\ job \in [Turns -> JobType] /\ file \in [Sessions -> Files(Msg)]
      /\ s \in Sessions /\ file[s] \in Files(own) /\ job[t].home \in Sessions
  BY DEF TurnsAt, TypeOK, FilesAt, JobType
<1>b. /\ Shares(crossed, job[t].home, current) /\ Shares(crossed, s, current)
      /\ job[t].hist \in Seq(own) /\ pc[t] \in Compacting
  BY <1>a DEF CompactArchive, CompactRewrite, CompactReplace, ArchiveFails, RewriteFails, TurnAtHome,
              Answering, Compacting
<1>c. Shares(crossed, job[t].home, s)
  BY <1>b DEF Shares
<1>d. current' = current /\ \A u \in Turns \ {t} : pc'[u] = pc[u] /\ job'[u] = job[u]
  BY <1>a DEF CompactArchive, CompactRewrite, CompactReplace, ArchiveFails, RewriteFails, AfterCompact,
              Goto, memory
<1>e. ASSUME NEW f \in Files(own), file' = [file EXCEPT ![s] = f]
      PROVE  FilesAt(crossed, file')
  BY <1>a, <1>e DEF FilesAt
<1>f. ASSUME NEW i \in Nat, i <= Len(job[t].hist)
      PROVE  /\ SubSeq(job[t].hist, 1, i) \in Seq(own)
             /\ SubSeq(job[t].hist, i + 1, Len(job[t].hist)) \in Seq(own)
  BY <1>b, <1>f, LenProperties, SubSeqType
<1> HIDE DEF own
<1>1. CASE CompactArchive(t)
  <2>1. PICK i \in SplitPoints(job[t].hist) :
          /\ file' = [file EXCEPT ![s] = Archived(@, SubSeq(job[t].hist, 1, i))]
          /\ job' = [job EXCEPT ![t].hist =
               <<NewMsg("summary", job[t].home, 1), NewMsg("boundary", job[t].home, 2)>>
               \o SubSeq(job[t].hist, i + 1, Len(job[t].hist))]
    BY <1>1 DEF CompactArchive
  <2>2. i \in Nat /\ i <= Len(job[t].hist)
    BY <1>b, LenProperties DEF SplitPoints
  <2>3. /\ SubSeq(job[t].hist, 1, i) \in Seq(own)
        /\ SubSeq(job[t].hist, i + 1, Len(job[t].hist)) \in Seq(own)
    BY <1>f, <2>2
  <2>4. NewMsg("summary", job[t].home, 1) \in own /\ NewMsg("boundary", job[t].home, 2) \in own
    BY <1>a, <1>c, OwnMsg DEF Kinds, own
  <2>5. <<NewMsg("summary", job[t].home, 1), NewMsg("boundary", job[t].home, 2)>> \in Seq(own)
    BY <2>4
  <2>6. job'[t].hist \in Seq(own) /\ job'[t].home = job[t].home /\ job'[t].sid = s
    BY <1>a, <2>1, <2>3, <2>5, ConcatProperties DEF JobType
  <2>7. Archived(file[s], SubSeq(job[t].hist, 1, i)) \in Files(own)
    BY <1>a, <2>3, FilesType
  <2>8. FilesAt(crossed, file')
    BY <1>a, <1>e, <2>1, <2>7
  <2>9. history' = history /\ pc'[t] = "rewrite"
    BY <1>1, <1>a DEF CompactArchive, Goto, memory
  <2>10. TurnAtHome(crossed, current, pc'[t], job'[t])
    BY <1>b, <2>6, <2>9 DEF TurnAtHome, Answering, Compacting, SavePoints, own
  <2> QED
    BY <1>d, <2>8, <2>9, <2>10, OthersAtHome
<1>2. CASE CompactRewrite(t)
  <2>1. Rewritten(file[s], job[t].hist) \in Files(own)
    BY <1>a, <1>b, FilesType
  <2>2. FilesAt(crossed, file')
    BY <1>2, <1>a, <1>e, <2>1 DEF CompactRewrite
  <2>3. history' = history /\ job' = job /\ pc'[t] = "replace"
    BY <1>2, <1>a DEF CompactRewrite, Goto, memory
  <2>4. TurnAtHome(crossed, current, pc'[t], job'[t])
    BY <1>b, <2>3 DEF TurnAtHome, Answering, Compacting, SavePoints, own
  <2> QED
    BY <1>d, <2>2, <2>3, <2>4, OthersAtHome
<1>3. ASSUME pc'[t] \in {"release", "loop"}, job' = job
      PROVE  TurnsAt(crossed, current, pc', job')
  <2>1. TurnAtHome(crossed, current, pc'[t], job'[t])
    BY <1>3, <1>b DEF TurnAtHome, Answering, Compacting, SavePoints
  <2> QED
    BY <1>d, <2>1, OthersAtHome
<1>4. CASE CompactReplace(t)
  <2>1. history' = job[t].hist /\ file' = file /\ job' = job /\ pc'[t] \in {"release", "loop"}
    BY <1>4, <1>a DEF CompactReplace, AfterCompact, Goto, disk
  <2>2. job[t].hist \in Seq(Own(crossed, current))
    BY <1>b, OwnGrows DEF own
  <2> QED
    BY <1>d, <1>3, <2>1, <2>2
<1>5. CASE ArchiveFails(t)
  <2>1. PICK i \in 0 .. Len(job[t].hist) - 1 :
          file' = [file EXCEPT ![s] = Archived(@, SubSeq(job[t].hist, 1, i))]
    BY <1>5 DEF ArchiveFails
  <2>2. SubSeq(job[t].hist, 1, i) \in Seq(own)
    BY <1>b, <1>f, LenProperties
  <2>3. Archived(file[s], SubSeq(job[t].hist, 1, i)) \in Files(own)
    BY <1>a, <2>2, FilesType
  <2>4. history' = history /\ job' = job /\ pc'[t] \in {"release", "loop"}
    BY <1>5, <1>a DEF ArchiveFails, AfterCompact, Goto, memory
  <2> QED
    BY <1>a, <1>d, <1>e, <1>3, <2>1, <2>3, <2>4
<1>6. CASE RewriteFails(t)
  <2>1. file' = file \/ file' = [file EXCEPT ![s] = [file[s] EXCEPT !.lines = job[t].hist]]
    BY <1>6, <1>a DEF RewriteFails
  <2>2. [file[s] EXCEPT !.lines = job[t].hist] \in Files(own)
    BY <1>a, <1>b DEF Files
  <2>3. FilesAt(crossed, file')
    BY <1>e, <2>1, <2>2
  <2>4. history' = history /\ job' = job /\ pc'[t] \in {"release", "loop"}
    BY <1>6, <1>a DEF RewriteFails, AfterCompact, Goto
  <2> QED
    BY <1>d, <1>3, <2>3, <2>4
<1> QED
  BY <1>1, <1>2, <1>4, <1>5, <1>6

\* What a session command leaves alone: it crosses a stream or another command at
\* its session s, or meets none.
LEMMA CommandFrame ==
  ASSUME TypeOK, NEW c \in Conns, Command(c)
  PROVE  /\ UNCHANGED <<active, pc, job, pending>>
         /\ \A d \in Conns \ {c} : conn'[d] = conn[d]
         /\ \E s \in Sessions :
              /\ Crosses(c, s)
              /\ ~ConnIdle(c) => conn[c].sid = s
              /\ conn'[c].at # "idle" => conn'[c].sid = s \/ conn'[c] = conn[c]
<1> USE DEF TypeOK, ConnIdle
<1>1. CASE NewSession(c) \/ ClearSession(c)
  BY <1>1 DEF NewSession, ClearSession, MayCommand
<1>2. CASE ResumeSwitch(c) \/ DeleteSwitch(c)
  BY <1>2 DEF ResumeSwitch, DeleteSwitch, NoCommand, ConnType
<1>3. ASSUME NEW s \in Sessions, ResumeLoad(c, s) \/ DeleteFiles(c, s)
      PROVE  /\ UNCHANGED <<active, pc, job, pending>>
             /\ \A d \in Conns \ {c} : conn'[d] = conn[d]
             /\ Crosses(c, s) /\ ConnIdle(c) /\ conn'[c].sid = s
  BY <1>3 DEF ResumeLoad, DeleteFiles, MayCommand, ConnType
<1> QED
  BY <1>1, <1>2, <1>3 DEF Command

\* A command that overlaps with nothing finds no turn under way and no other
\* command; one that overlaps crosses the sessions it is between.
LEMMA CommandCrosses ==
  ASSUME TypeOK, StreamExclusive, NEW c \in Conns, Command(c)
  PROVE  /\ crossed \subseteq crossed'
         /\ ~Overlaps(c) => /\ ~active /\ \A u \in Turns : pc[u] = "free"
                            /\ \A d \in Conns \ {c} : ConnIdle(d)
                            /\ crossed' = crossed
         /\ Overlaps(c) => {current, current'} \cup Underway \subseteq crossed'
BY CommandFrame DEF Crosses, Overlaps, StreamExclusive, Holders

\* A command is remembered where it overlaps.
LEMMA CommandOverlap ==
  ASSUME AtHome, NEW c \in Conns, Command(c)
  PROVE  OverlapsKnown'
<1> USE DEF AtHome
<1>1. /\ UNCHANGED active
      /\ \A d \in Conns \ {c} : conn'[d] = conn[d]
  BY CommandFrame
<1>2. PICK s \in Sessions : /\ Crosses(c, s)
                            /\ conn'[c].at # "idle" => conn'[c].sid = s \/ conn'[c] = conn[c]
  BY CommandFrame
<1>3. CASE Overlaps(c)
  <2>1. {current', s} \cup Underway \subseteq crossed'
    BY <1>2, <1>3 DEF Crosses
  <2>2. ASSUME NEW d \in Conns, conn'[d].at # "idle"
        PROVE  conn'[d].sid \in Underway \cup {s}
    BY <1>1, <1>2, <2>2 DEF Underway, ConnIdle
  <2> QED
    BY <2>1, <2>2 DEF OverlapsKnown, Underway, ConnIdle
<1>4. CASE ~Overlaps(c)
  BY <1>1, <1>4 DEF OverlapsKnown, Overlaps, ConnIdle
<1> QED
  BY <1>3, <1>4

\* The session commands.
LEMMA CommandAtHome ==
  ASSUME AtHome, NEW c \in Conns, Command(c)
  PROVE  /\ TurnsAt(crossed', current', pc', job') /\ CommandsAt(crossed', conn')
         /\ FilesAt(crossed', file') /\ history' \in Seq(Own(crossed', current'))
<1> USE DEF AtHome
<1> DEFINE x == crossed'
<1>a. /\ current \in Sessions /\ conn \in [Conns -> ConnType] /\ order \in Seq(Sessions)
      /\ file \in [Sessions -> Files(Msg)]
  BY DEF TypeOK
<1>b. crossed \subseteq x /\ UNCHANGED <<pc, job>> /\ \A s : Shares(x, s, s)
  BY CommandFrame, CommandCrosses DEF Shares
<1>c. /\ FilesAt(x, file) /\ CommandsAt(x, conn) /\ TurnsAt(x, current, pc, job)
      /\ history \in Seq(Own(x, current))
  BY <1>b, HomeGrows, OwnGrows
<1>d. TurnsAt(x, current', pc', job')
  <2>1. CASE Overlaps(c)
    <3>1. Shares(x, current, current')
      BY <2>1, CommandCrosses DEF Shares
    <3> QED
      BY <1>b, <1>c, <3>1, HomeGrows
  <2>2. CASE ~Overlaps(c)
    <3>1. \A u \in Turns : pc'[u] = "free"
      BY <2>2, <1>b, CommandCrosses
    <3> QED
      BY <3>1 DEF TurnsAt, TurnAtHome, Answering, Compacting, SavePoints
  <2> QED
    BY <2>1, <2>2
<1> HIDE DEF x
<1>e. \A o \in SaveOutcomes(history) : FilesAt(x, o.file)
  BY <1>c, SaveAtHome
<1>f. ASSUME NEW s \in Sessions, NEW f \in Files(Own(x, s)), file' = [file EXCEPT ![s] = f]
      PROVE  FilesAt(x, file')
  BY <1>a, <1>c, <1>f DEF FilesAt
<1>g. \A s \in Sessions : file[s] \in Files(Own(x, s)) /\ file[s].lines \in Seq(Own(x, s))
  BY <1>c DEF FilesAt, Files
<1>h. <<>> \in Seq(Own(x, current'))
  BY EmptySeq
<1>i. ASSUME \A d \in Conns : conn'[d].at = "resume" => conn'[d] = conn[d]
      PROVE  CommandsAt(x, conn')
  BY <1>c, <1>i DEF CommandsAt
<1>6. CASE NewSession(c)
  <2>1. FilesAt(x, file') /\ history' = <<>> /\ conn' = conn
    BY <1>e, <1>6 DEF NewSession, StoreSaved, SwitchTo
  <2> QED
    BY <1>c, <1>d, <1>h, <2>1 DEF x
<1>7. CASE ClearSession(c)
  <2>1. /\ Truncated(file[current]) \in Files(Own(x, current))
        /\ PartTruncated(file[current]) \in Files(Own(x, current))
    BY <1>a, <1>g, EmptySeq, FilesType
  <2>2. FilesAt(x, file')
    BY <1>7, <1>a, <1>c, <1>f, <2>1 DEF ClearSession
  <2>3. history' = <<>> /\ conn' = conn
    BY <1>7 DEF ClearSession, SwitchTo
  <2> QED
    BY <1>c, <1>d, <1>h, <2>2, <2>3 DEF x
<1>8. CASE ResumeSwitch(c)
  <2>1. FilesAt(x, file')
    BY <1>e, <1>8 DEF ResumeSwitch, StoreSaved
  <2>2. current' = conn[c].sid /\ history' = conn[c].lines /\ conn[c].at = "resume"
    BY <1>8 DEF ResumeSwitch, SwitchTo
  <2>3. CommandsAt(x, conn')
    BY <1>8, <1>a, <1>i DEF ResumeSwitch, NoCommand
  <2>4. history' \in Seq(Own(x, current'))
    BY <1>c, <2>2 DEF CommandsAt
  <2> QED
    BY <1>d, <2>1, <2>3, <2>4 DEF x
<1>9. CASE DeleteSwitch(c)
  <2>1. history' \in Seq(Own(x, current'))
    <3>1. CASE current = conn[c].sid
      BY <1>9, <1>a, <1>c, <3>1, OpenAtHome DEF DeleteSwitch
    <3>2. CASE current # conn[c].sid
      BY <1>9, <1>c, <3>2 DEF DeleteSwitch, memory
    <3> QED
      BY <3>1, <3>2
  <2>2. file' = file /\ CommandsAt(x, conn')
    BY <1>9, <1>a, <1>i DEF DeleteSwitch, NoCommand, disk
  <2> QED
    BY <1>c, <1>d, <2>1, <2>2 DEF x
<1>10. ASSUME NEW s \in Sessions, ResumeLoad(c, s)
       PROVE  history' \in Seq(Own(x, current')) /\ FilesAt(x, file') /\ CommandsAt(x, conn')
  <2>1. UNCHANGED <<memory, file>>
    BY <1>10 DEF ResumeLoad, disk
  <2>2. \A d \in Conns : IF d = c THEN conn'[d].sid = s /\ conn'[d].lines = file[s].lines
                                  ELSE conn'[d] = conn[d]
    BY <1>10, <1>a DEF ResumeLoad
  <2>3. file[s].lines \in Seq(Own(x, s))
    BY <1>g
  <2> QED
    BY <1>c, <2>1, <2>2, <2>3 DEF CommandsAt, memory
<1>11. ASSUME NEW s \in Sessions, DeleteFiles(c, s)
       PROVE  history' \in Seq(Own(x, current')) /\ FilesAt(x, file') /\ CommandsAt(x, conn')
  <2>1. NoFiles \in Files(Own(x, s))
    BY <1>g, EmptySeq, FilesType
  <2>2. FilesAt(x, file') /\ UNCHANGED memory
    BY <1>11, <1>f, <2>1 DEF DeleteFiles, Deleted
  <2>3. CommandsAt(x, conn')
    BY <1>11, <1>a, <1>i DEF DeleteFiles, ConnType
  <2> QED
    BY <1>c, <2>2, <2>3 DEF memory
<1> QED
  BY <1>d, <1>6, <1>7, <1>8, <1>9, <1>10, <1>11 DEF Command, x

\* A turn's step crosses nothing and leaves the commands alone.
LEMMA TurnFrame ==
  ASSUME TypeOK, NEW t \in Turns, TurnStep(t) \/ Blocks(t)
  PROVE  /\ pc[t] # "free" /\ UNCHANGED <<conn, current, used, crossed>>
         /\ \A u \in Turns \ {t} : pc'[u] = pc[u] /\ job'[u] = job[u]
         /\ Release(t) \/ active' = active
BY DEF TurnStep, UserInput, SkillInput, TaskInput, SkillFails, StartStream, Reply, UseTools, AbortUse,
       LoopEnds, ToolsDone, StartTask, Panic, Save, Release, CompactBegin, CompactSnapshot,
       SummaryFails, CompactArchive, CompactRewrite, ArchiveFails, RewriteFails, CompactReplace,
       Blocks, Blocking, AfterCompact, Goto, SavePoints, memory, TypeOK

\* A turn's step starts no overlap.
LEMMA TurnOverlap ==
  ASSUME AtHome, NEW t \in Turns, TurnStep(t) \/ Blocks(t)
  PROVE  OverlapsKnown'
<1>1. UNCHANGED <<conn, current, crossed>> /\ (active' => active)
  BY TurnFrame DEF AtHome, Release
<1> QED
  BY <1>1 DEF AtHome, OverlapsKnown, Overlaps, Underway, ConnIdle

\* What AtHome says of the next state.
LEMMA AtHomeNext ==
  ASSUME TypeOK', StreamExclusive', OverlapsKnown', FilesAt(crossed', file'),
         TurnsAt(crossed', current', pc', job'), CommandsAt(crossed', conn'),
         history' \in Seq(Own(crossed', current'))
  PROVE  AtHome'
BY DEF AtHome, FilesAt, TurnsAt, CommandsAt, TurnAtHome, Own, Shares

\* Every step keeps turns, commands, memory and files with their session.
LEMMA AtHomeStep == AtHome /\ [Next]_vars => AtHome'
<1> SUFFICES ASSUME AtHome, [Next]_vars
             PROVE  AtHome'
  OBVIOUS
<1>1. TypeOK' /\ StreamExclusive'
  BY TypeStep, ExclusiveStep DEF AtHome
<1>a. /\ OverlapsKnown /\ FilesAt(crossed, file) /\ TypeOK /\ StreamExclusive
      /\ TurnsAt(crossed, current, pc, job) /\ CommandsAt(crossed, conn)
      /\ history \in Seq(Own(crossed, current))
  BY DEF AtHome
<1> DEFINE Kept == /\ OverlapsKnown' /\ FilesAt(crossed', file')
                   /\ TurnsAt(crossed', current', pc', job') /\ CommandsAt(crossed', conn')
                   /\ history' \in Seq(Own(crossed', current'))
<1>2. ASSUME NEW t \in Turns, TurnStep(t) \/ Blocks(t)
      PROVE  Kept
  <2>1. UNCHANGED <<conn, current, crossed>>
    BY <1>2, <1>a, TurnFrame
  <2>2. /\ TurnsAt(crossed, current, pc', job') /\ FilesAt(crossed, file')
        /\ history' \in Seq(Own(crossed, current))
    BY <1>2, <1>a, QuietAtHome, AppendAtHome, SavingAtHome, CompactAtHome DEF TurnStep, memory, disk
  <2> QED
    BY <1>2, <1>a, <2>1, <2>2, TurnOverlap
<1>3. ASSUME NEW s \in Sessions, DropTask(s)
      PROVE  Kept
  <2>1. UNCHANGED <<active, pc, job, conn, memory, disk, crossed>>
    BY <1>3 DEF DropTask
  <2> QED
    BY <1>a, <2>1 DEF memory, disk, OverlapsKnown, Overlaps, Underway, ConnIdle
<1>4. ASSUME Crash
      PROVE  Kept
  <2>1. PICK r \in Remains : StoreSaved(r) /\ OpenLatest(r.file, r.order)
    BY <1>4 DEF Crash
  <2>2. FilesAt(crossed, r.file) /\ r.order \in Seq(Sessions)
    BY <1>a, RemainsAtHome, RemainsType
  <2>3. history' \in Seq(Own(crossed, current'))
    BY <2>1, <2>2, OpenAtHome
  <2>4. FilesAt(crossed, file') /\ crossed' = crossed
    BY <1>4, <2>1, <2>2 DEF StoreSaved, Crash
  <2>5. OverlapsKnown' /\ TurnsAt(crossed, current', pc', job') /\ CommandsAt(crossed, conn')
    BY <1>4 DEF Crash, OverlapsKnown, ConnIdle, TurnsAt, TurnAtHome, CommandsAt, NoCommand,
                Answering, Compacting, SavePoints
  <2> QED
    BY <2>3, <2>4, <2>5
<1>5. ASSUME UNCHANGED vars
      PROVE  Kept
  BY <1>5, <1>a DEF vars, OverlapsKnown, Overlaps, Underway, ConnIdle
<1>6. ASSUME NEW t \in Turns,
             \/ \E kind \in {"input", "skill", "compact"} : Request(t, kind)
             \/ \E s \in Sessions : Continue(t, s)
      PROVE  Kept
  <2>1. /\ TurnsAt(crossed', current', pc', job') /\ OverlapsKnown'
        /\ UNCHANGED <<conn, memory, disk>> /\ crossed \subseteq crossed'
    BY <1>6, StartAtHome
  <2>2. FilesAt(crossed', file) /\ CommandsAt(crossed', conn)
    BY <1>a, <2>1, HomeGrows
  <2>3. history \in Seq(Own(crossed', current))
    BY <1>a, <2>1, OwnGrows DEF Shares
  <2> QED
    BY <2>1, <2>2, <2>3 DEF memory, disk
<1>7. ASSUME NEW c \in Conns, Command(c)
      PROVE  Kept
  BY <1>7, CommandAtHome, CommandOverlap
<1> HIDE DEF Kept
<1>8. Kept
  BY <1>2, <1>3, <1>4, <1>5, <1>6, <1>7 DEF Next
<1> QED
  BY <1>1, <1>8, AtHomeNext DEF Kept

\* A new process is at home.
LEMMA AtHomeInit == Init => AtHome
<1> SUFFICES ASSUME Init
             PROVE  AtHome
  OBVIOUS
<1>1. TypeOK
  BY TypeInit
<1>2. StreamExclusive /\ OverlapsKnown /\ TurnsAt(crossed, current, pc, job) /\ CommandsAt(crossed, conn)
  BY DEF Init, StreamExclusive, Holders, OverlapsKnown, ConnIdle, TurnsAt, TurnAtHome,
         CommandsAt, NoCommand, Answering, Compacting, SavePoints
<1>3. \A s \in Sessions : NoFiles \in Files(Own(crossed, s))
  BY EmptySeq DEF NoFiles, Files
<1>4. FilesAt(crossed, file) /\ history \in Seq(Own(crossed, current))
  BY <1>3, EmptySeq DEF Init, FilesAt
<1> QED
  BY <1>1, <1>2, <1>4 DEF AtHome

\* Whatever a turn makes ends up in the file of the session whose prompt it
\* answers, across switches, failing writes, crashes and compactions, and whatever
\* overlaps: only sessions at which a command crossed a stream, or another
\* command, can get messages of each other.
THEOREM FilesStayHome == Spec => []HomeOnly
<1>1. AtHome => HomeOnly
  <2> SUFFICES ASSUME AtHome, NEW s \in Sessions, NEW m \in ToSet(file[s].lines)
               PROVE  m.kind # "task" => SameHome(m.home, s)
    BY DEF HomeOnly
  <2>1. file[s].lines \in Seq(Own(crossed, s))
    BY DEF AtHome, FilesAt, Files
  <2>2. m \in Own(crossed, s)
    BY <2>1, ElementOfSeq, LenProperties DEF ToSet
  <2> QED
    BY <2>2 DEF Own, Shares, SameHome
<1> QED
  BY <1>1, AtHomeInit, AtHomeStep, PTL DEF Spec

-----------------------------------------------------------------------------
(* What persistedMsgCount counts.                                          *)

\* The first n messages of hist are on disk.
Recorded(hist, n, lines) == n <= Len(hist) /\ \A i \in 1 .. n : hist[i] \in ToSet(lines)

\* Goroutine t has nothing in the history that it has yet to save.
Clean(t) == pc[t] \in {"free", "acquired", "release"} \/ job[t].kind = "compact"

\* A session that was never drawn has no files, and only drawn ones are in use.
SessionsKnown ==
  /\ current \in used
  /\ order \in Seq(used)
  /\ \A s \in Sessions \ used : file[s] = NoFiles
  /\ \A t \in Turns : job[t].sid \in used
  /\ \A c \in Conns : conn[c].sid \in used

\* A session that is being resumed does not change under the read loop, unless it
\* and the current one were crossed.
LoadedIsStored ==
  \A c \in Conns : conn[c].at = "resume" =>
    \/ conn[c].lines = file[conn[c].sid].lines
    \/ {current, conn[c].sid} \subseteq crossed

\* A compaction works on the history as it is, and archives what it gives up.
CompactionKeeps(t) ==
  /\ job[t].kind = "compact" => pc[t] \in Compacting \cup {"free", "acquired", "snapshot", "release"}
  /\ pc[t] = "summarise" => job[t].hist = history
  /\ pc[t] = "rewrite" => ToSet(history) \subseteq file[current].archive \cup ToSet(job[t].hist)

CompactionsKeep == \A t \in Turns : CompactionKeeps(t)

HistoryRecorded ==
  Steady =>
    /\ Recorded(history, persisted, file[current].lines)
    /\ spent.fail = 0 =>
         /\ file[current].lines = SubSeq(history, 1, persisted)
         /\ (\A t \in Turns : Clean(t)) => persisted = Len(history)

\* Nothing has crossed the current session.
Calm == current \notin crossed

\* The inductive invariant.
Stored ==
  /\ AtHome
  /\ SessionsKnown /\ LoadedIsStored
  /\ Calm => CompactionsKeep /\ HistoryRecorded

\* What was saved and what is left to save make up the history.
LEMMA SavedAndUnsaved ==
  ASSUME NEW S, NEW hist \in Seq(S), NEW n \in Nat, n <= Len(hist)
  PROVE  /\ SubSeq(hist, 1, n) \o SubSeq(hist, n + 1, Len(hist)) = hist
         /\ SubSeq(hist, n + 1, Len(hist)) = <<>> => n = Len(hist)
         /\ SubSeq(hist, 1, Len(hist)) = hist
<1>1. Len(hist) \in Nat
  BY LenProperties
<1>2. SubSeq(hist, 1, n) \in Seq(S) /\ Len(SubSeq(hist, 1, n)) = n
      /\ \A i \in 1 .. n : SubSeq(hist, 1, n)[i] = hist[i]
  BY <1>1, SubSeqProperties, ElementOfSeq
<1>3. /\ SubSeq(hist, n + 1, Len(hist)) \in Seq(S)
      /\ Len(SubSeq(hist, n + 1, Len(hist))) = Len(hist) - n
      /\ \A i \in 1 .. Len(hist) - n : SubSeq(hist, n + 1, Len(hist))[i] = hist[n + i]
  BY <1>1, SubSeqProperties, ElementOfSeq
<1>4. ASSUME NEW a \in Seq(S), NEW b \in Seq(S), Len(a) = n, Len(b) = Len(hist) - n,
             \A i \in 1 .. n : a[i] = hist[i], \A i \in 1 .. Len(hist) - n : b[i] = hist[n + i]
      PROVE  a \o b = hist /\ (b = <<>> => n = Len(hist))
  <2>1. a \o b \in Seq(S) /\ Len(a \o b) = Len(hist)
    <3>1. a \o b \in Seq(S) /\ Len(a \o b) = Len(a) + Len(b)
      BY <1>4, ConcatProperties
    <3>2. n + (Len(hist) - n) = Len(hist)
      BY <1>1
    <3> QED
      BY <1>4, <3>1, <3>2
  <2>2. \A i \in 1 .. Len(hist) : (a \o b)[i] = hist[i]
    <3> SUFFICES ASSUME NEW i \in 1 .. Len(hist)
                 PROVE  (a \o b)[i] = hist[i]
      OBVIOUS
    <3>1. (a \o b)[i] = IF i <= n THEN a[i] ELSE b[i - n]
      BY <1>1, <1>4, ConcatProperties
    <3>2. i > n => i - n \in 1 .. Len(hist) - n
      BY <1>1
    <3> QED
      BY <1>1, <1>4, <3>1, <3>2
  <2>3. a \o b = hist
    BY <2>1, <2>2, SeqEqual
  <2>4. b = <<>> => Len(b) = 0
    BY EmptySeq
  <2>5. b = <<>> => n = Len(hist)
    BY <1>1, <1>4, <2>4
  <2> QED
    BY <2>3, <2>5
<1>5. /\ SubSeq(hist, 1, n) \o SubSeq(hist, n + 1, Len(hist)) = hist
      /\ SubSeq(hist, n + 1, Len(hist)) = <<>> => n = Len(hist)
  BY <1>2, <1>3, <1>4
<1>6. SubSeq(hist, 1, Len(hist)) = hist
  <2>1. /\ SubSeq(hist, 1, Len(hist)) \in Seq(S) /\ Len(SubSeq(hist, 1, Len(hist))) = Len(hist)
        /\ \A i \in 1 .. Len(hist) : SubSeq(hist, 1, Len(hist))[i] = hist[i]
    BY <1>1, SubSeqProperties, ElementOfSeq
  <2> QED
    BY <2>1, SeqEqual
<1> QED
  BY <1>5, <1>6

\* Appending to a sequence takes none of its elements away.
LEMMA AppendKeeps ==
  ASSUME NEW S, NEW lines \in Seq(S), NEW more \in Seq(S)
  PROVE  /\ ToSet(lines) \subseteq ToSet(lines \o more)
         /\ \A k \in 0 .. Len(more) : ToSet(lines) \subseteq ToSet(lines \o SubSeq(more, 1, k))
<1>1. ASSUME NEW b \in Seq(S)
      PROVE  ToSet(lines) \subseteq ToSet(lines \o b)
  <2>1. /\ lines \o b \in Seq(S) /\ Len(lines \o b) = Len(lines) + Len(b)
        /\ \A i \in 1 .. Len(lines) : (lines \o b)[i] = lines[i]
    BY ConcatProperties
  <2>2. DOMAIN lines = 1 .. Len(lines) /\ DOMAIN (lines \o b) = 1 .. Len(lines \o b)
        /\ Len(lines) \in Nat /\ Len(b) \in Nat
    BY <2>1, LenProperties
  <2> QED
    BY <2>1, <2>2 DEF ToSet
<1>2. \A k \in 0 .. Len(more) : SubSeq(more, 1, k) \in Seq(S)
  BY SubSeqType
<1> QED
  BY <1>1, <1>2

\* What is appended is there.
LEMMA AppendAdds ==
  ASSUME NEW S, NEW lines \in Seq(S), NEW more \in Seq(S), NEW j \in 1 .. Len(more)
  PROVE  more[j] \in ToSet(lines \o more)
<1>1. Len(lines) \in Nat /\ Len(more) \in Nat
  BY LenProperties
<1>2. /\ lines \o more \in Seq(S) /\ Len(lines \o more) = Len(lines) + Len(more)
      /\ \A i \in 1 .. Len(lines) + Len(more) :
           (lines \o more)[i] = IF i <= Len(lines) THEN lines[i] ELSE more[i - Len(lines)]
  BY ConcatProperties
<1> DEFINE i == Len(lines) + j
<1>3. i \in 1 .. Len(lines) + Len(more) /\ ~(i <= Len(lines)) /\ i - Len(lines) = j
  BY <1>1
<1> HIDE DEF i
<1>4. (lines \o more)[i] = more[j]
  BY <1>2, <1>3
<1> QED
  BY <1>2, <1>3, <1>4, LenProperties DEF ToSet

\* Messages added to the history leave its saved part what it is.
LEMMA AppendRecorded ==
  ASSUME NEW S, NEW hist \in Seq(S), NEW more \in Seq(S), NEW n \in Nat, NEW lines,
         Recorded(hist, n, lines)
  PROVE  /\ Recorded(hist \o more, n, lines)
         /\ SubSeq(hist \o more, 1, n) = SubSeq(hist, 1, n)
<1>1. /\ hist \o more \in Seq(S) /\ Len(hist \o more) = Len(hist) + Len(more)
      /\ \A i \in 1 .. Len(hist) : (hist \o more)[i] = hist[i]
      /\ Len(hist) \in Nat /\ Len(more) \in Nat
  BY ConcatProperties, LenProperties
<1>2. n <= Len(hist)
  BY DEF Recorded
<1>3. /\ SubSeq(hist, 1, n) \in Seq(S) /\ Len(SubSeq(hist, 1, n)) = n
      /\ \A i \in 1 .. n : SubSeq(hist, 1, n)[i] = hist[i]
  BY <1>1, <1>2, SubSeqProperties, ElementOfSeq
<1>4. /\ SubSeq(hist \o more, 1, n) \in Seq(S) /\ Len(SubSeq(hist \o more, 1, n)) = n
      /\ \A i \in 1 .. n : SubSeq(hist \o more, 1, n)[i] = (hist \o more)[i]
  BY <1>1, <1>2, SubSeqProperties, ElementOfSeq
<1>5. SubSeq(hist \o more, 1, n) = SubSeq(hist, 1, n)
  BY <1>1, <1>2, <1>3, <1>4, SeqEqual
<1> QED
  BY <1>1, <1>2, <1>5 DEF Recorded

\* A history that equals its file is recorded up to its end.
LEMMA WholeRecorded ==
  ASSUME NEW S, NEW lines \in Seq(S)
  PROVE  Recorded(lines, Len(lines), lines) /\ SubSeq(lines, 1, Len(lines)) = lines
<1>1. DOMAIN lines = 1 .. Len(lines) /\ Len(lines) \in Nat
  BY LenProperties
<1> QED
  BY <1>1, SavedAndUnsaved DEF Recorded, ToSet

\* A save changes the files of the current session only, and takes nothing out of
\* them.
LEMMA SaveAdds ==
  ASSUME TypeOK, SessionsKnown, NEW hist \in Seq(Msg), NEW o \in SaveOutcomes(hist)
  PROVE  /\ \A s \in Sessions \ {current} : o.file[s] = file[s]
         /\ ToSet(file[current].lines) \subseteq ToSet(o.file[current].lines)
         /\ o.order \in Seq(used)
         /\ o.file[current].archive = file[current].archive
         /\ o.fail \in Nat
<1> DEFINE new == Unsaved(hist)
<1>1. /\ current \in Sessions /\ file \in [Sessions -> Files(Msg)] /\ new \in Seq(Msg)
      /\ file[current].lines \in Seq(Msg) /\ order \in Seq(used) /\ current \in used
  BY UnsavedType DEF TypeOK, SessionsKnown, Files
<1>2. Touched(current, order) \in Seq(used)
  BY <1>1, DroppedType
<1>3. \/ o.file = file
      \/ o.file = [file EXCEPT ![current] = Appended(@, new)]
      \/ \E k \in 0 .. Len(new) : o.file = [file EXCEPT ![current] = PartAppended(@, new, k)]
  BY DEF SaveOutcomes
<1>4. o.order \in {order, Touched(current, order)} /\ o.fail \in {0, 1}
  BY DEF SaveOutcomes
<1> HIDE DEF new
<1>5. ToSet(file[current].lines) \subseteq ToSet(o.file[current].lines)
  <2>1. CASE o.file = [file EXCEPT ![current] = Appended(@, new)]
    <3>1. o.file[current].lines = file[current].lines \o new
      BY <1>1, <2>1 DEF Appended, Files
    <3> QED
      BY <1>1, <3>1, AppendKeeps
  <2>2. ASSUME NEW k \in 0 .. Len(new), o.file = [file EXCEPT ![current] = PartAppended(@, new, k)]
        PROVE  ToSet(file[current].lines) \subseteq ToSet(o.file[current].lines)
    <3>1. o.file[current].lines = file[current].lines \o SubSeq(new, 1, k)
      BY <1>1, <2>2 DEF PartAppended, Files
    <3> QED
      BY <1>1, <3>1, AppendKeeps
  <2> QED
    BY <1>3, <2>1, <2>2
<1>6. o.file[current].archive = file[current].archive
  BY <1>1, <1>3 DEF Appended, PartAppended, Files
<1>7. \A s \in Sessions \ {current} : o.file[s] = file[s]
  BY <1>1, <1>3
<1> QED
  BY <1>1, <1>2, <1>4, <1>5, <1>6, <1>7

\* A save of a history whose counted part is on disk leaves it so, and one that
\* does not fail leaves nothing unsaved.
LEMMA SaveRecords ==
  ASSUME TypeOK, SessionsKnown, NEW hist \in Seq(Msg), NEW o \in SaveOutcomes(hist),
         Recorded(hist, persisted, file[current].lines)
  PROVE  /\ Recorded(hist, o.persisted, o.file[current].lines)
         /\ o.fail = 0 /\ file[current].lines = SubSeq(hist, 1, persisted) =>
              /\ o.persisted = Len(hist)
              /\ o.file[current].lines = SubSeq(hist, 1, o.persisted)
              /\ persisted = Len(hist) => o.file = file
<1> DEFINE new == Unsaved(hist)
<1>1. /\ current \in Sessions /\ file \in [Sessions -> Files(Msg)] /\ new \in Seq(Msg)
      /\ file[current] \in Files(Msg) /\ file[current].lines \in Seq(Msg) /\ persisted \in Nat
      /\ persisted <= Len(hist) /\ Len(hist) \in Nat
  BY UnsavedType, LenProperties DEF TypeOK, Files, Recorded
<1>2. ToSet(file[current].lines) \subseteq ToSet(o.file[current].lines)
  BY SaveAdds
<1>3. /\ SubSeq(hist, 1, persisted) \o new = hist
      /\ new = <<>> => persisted = Len(hist)
      /\ SubSeq(hist, 1, Len(hist)) = hist
  BY <1>1, SavedAndUnsaved DEF Unsaved
<1>4. CASE new = <<>>
  <2>1. o.file = file /\ o.persisted = persisted
    BY <1>4 DEF SaveOutcomes
  <2> QED
    BY <1>3, <1>4, <2>1
<1>5. CASE new # <<>> /\ o.fail # 0
  <2>1. o.persisted = persisted
    BY <1>5 DEF SaveOutcomes
  <2> QED
    BY <1>2, <1>5, <2>1 DEF Recorded
<1>6. CASE new # <<>> /\ o.fail = 0
  <2>1. o.file = [file EXCEPT ![current] = Appended(@, new)] /\ o.persisted = Len(hist)
    BY <1>6 DEF SaveOutcomes
  <2>2. o.file[current].lines = file[current].lines \o new
    BY <1>1, <2>1 DEF Appended, Files
  <2>3. Recorded(hist, Len(hist), file[current].lines \o new)
    <3>1. ToSet(file[current].lines) \subseteq ToSet(file[current].lines \o new)
      BY <1>1, AppendKeeps
    <3>2. ASSUME NEW i \in persisted + 1 .. Len(hist)
          PROVE  hist[i] \in ToSet(file[current].lines \o new)
      <4>1. /\ Len(new) = Len(hist) - persisted /\ new[i - persisted] = hist[i]
            /\ i - persisted \in 1 .. Len(new)
        <5>1. /\ Len(new) = IF persisted + 1 <= Len(hist) THEN Len(hist) - (persisted + 1) + 1 ELSE 0
              /\ \A j \in 1 .. Len(hist) - (persisted + 1) + 1 : new[j] = hist[persisted + 1 + j - 1]
          BY <1>1, SubSeqProperties, ElementOfSeq DEF Unsaved
        <5>2. /\ i - persisted \in 1 .. Len(hist) - (persisted + 1) + 1
              /\ persisted + 1 + (i - persisted) - 1 = i
              /\ Len(hist) - (persisted + 1) + 1 = Len(hist) - persisted
              /\ persisted + 1 <= Len(hist)
          BY <1>1
        <5> QED
          BY <5>1, <5>2
      <4> HIDE DEF new
      <4> QED
        BY <1>1, <4>1, AppendAdds
    <3> QED
      BY <1>1, <3>1, <3>2 DEF Recorded
  <2> HIDE DEF new
  <2>4. file[current].lines = SubSeq(hist, 1, persisted) => file[current].lines \o new = hist
    BY <1>3
  <2>5. persisted = Len(hist) => new = <<>>
    BY <1>1, SubSeqProperties DEF new, Unsaved
  <2> QED
    BY <1>3, <1>6, <2>1, <2>2, <2>3, <2>4, <2>5
<1>7. o.fail \in Nat
  BY SaveAdds
<1> QED
  BY <1>4, <1>5, <1>6

\* A session that is opened is in memory as it is on disk.
LEMMA OpenRecords ==
  ASSUME NEW files \in [Sessions -> Files(Msg)], NEW ord \in Seq(used), used \subseteq Sessions,
         \A s \in Sessions \ used : files[s] = NoFiles,
         OpenLatest(files, ord)
  PROVE  /\ ~stale' /\ current' \in used' /\ used \subseteq used'
         /\ history' = files[current'].lines /\ persisted' = Len(history')
<1>1. CASE ord # <<>>
  <2>1. Head(ord) \in used
    BY <1>1, HeadTailProperties
  <2> QED
    BY <1>1, <2>1 DEF OpenLatest, SwitchTo
<1>2. CASE ord = <<>>
  BY <1>2 DEF OpenLatest, SwitchTo, Fresh, NoFiles
<1> QED
  BY <1>1, <1>2

\* In a session that nothing crossed a goroutine that holds the stream meets no
\* command, and carries what belongs to this session alone.
LEMMA CalmTurn ==
  ASSUME AtHome, Calm, NEW t \in Turns, pc[t] # "free"
  PROVE  /\ ConnsIdle /\ \A u \in Turns : u # t => pc[u] = "free"
         /\ pc[t] \in Compacting \cup {"snapshot"} => job[t].sid = current
         /\ pc[t] \in Answering => job[t].home = current
<1>1. active /\ \A u \in Turns : u # t => pc[u] = "free"
  BY Alone DEF AtHome
<1>2. ConnsIdle
  BY <1>1 DEF AtHome, OverlapsKnown, Overlaps, Calm, ConnsIdle
<1>3. TurnAtHome(crossed, current, pc[t], job[t])
  BY DEF AtHome, TurnsAt
<1> QED
  BY <1>1, <1>2, <1>3 DEF TurnAtHome, Shares, Calm

\* A command that ends in a session that nothing crossed meets neither a stream nor
\* another command.
LEMMA CalmCommand ==
  ASSUME AtHome, NEW c \in Conns, Command(c), Calm'
  PROVE  /\ ~active /\ UNCHANGED <<pc, job, crossed>> /\ \A u \in Turns : pc[u] = "free"
         /\ \A d \in Conns \ {c} : ConnIdle(d)
BY CommandCrosses, CommandFrame DEF AtHome, Calm

\* What the sessions in use and the files of a turn's step are.
LEMMA TurnWrites ==
  ASSUME TypeOK, SessionsKnown, NEW t \in Turns, TurnStep(t) \/ Blocks(t)
  PROVE  /\ order' \in Seq(used) /\ UNCHANGED <<used, current, conn>>
         /\ \A u \in Turns : job'[u].sid \in used
         /\ \E s \in used : /\ \A r \in Sessions \ {s} : file'[r] = file[r]
                            /\ s = current \/ (s = job[t].sid /\ pc[t] \in Compacting)
<1>a. /\ job \in [Turns -> JobType] /\ file \in [Sessions -> Files(Msg)] /\ order \in Seq(used)
      /\ current \in used /\ \A u \in Turns : job[u].sid \in used
      /\ current \in Sessions /\ history \in Seq(Msg)
  BY DEF TypeOK, SessionsKnown
<1>b. UNCHANGED <<used, current, conn>>
  BY TurnFrame
<1>1. \A u \in Turns : job'[u].sid \in used
  <2>1. CASE CompactArchive(t)
    BY <1>a, <2>1 DEF CompactArchive, JobType
  <2>2. CASE CompactSnapshot(t)
    <3>1. CASE Len(history) > 1
      BY <1>a, <2>2, <3>1 DEF CompactSnapshot, JobType
    <3>2. CASE ~(Len(history) > 1)
      BY <1>a, <2>2, <3>2 DEF CompactSnapshot
    <3> QED
      BY <3>1, <3>2
  <2>3. CASE UserInput(t) \/ SkillInput(t) \/ TaskInput(t)
    <3>1. job' = [job EXCEPT ![t].home = current]
      BY <2>3 DEF UserInput, SkillInput, TaskInput
    <3> QED
      BY <1>a, <3>1 DEF JobType
  <2>4. CASE CompactBegin(t)
    BY <1>a, <2>4 DEF CompactBegin, JobType
  <2>5. CASE Release(t) \/ Blocks(t)
    BY <1>a, <2>5 DEF Release, Blocks, NoJob
  <2>6. CASE \/ SkillFails(t) \/ StartStream(t) \/ Reply(t) \/ UseTools(t) \/ AbortUse(t) \/ LoopEnds(t)
             \/ ToolsDone(t) \/ StartTask(t) \/ Panic(t) \/ Save(t) \/ SummaryFails(t)
             \/ CompactRewrite(t) \/ ArchiveFails(t) \/ RewriteFails(t) \/ CompactReplace(t)
    <3>1. job' = job
      BY <2>6
         DEF SkillFails, StartStream, Reply, UseTools, AbortUse, LoopEnds, ToolsDone, StartTask, Panic,
             Save, SummaryFails, CompactRewrite, ArchiveFails, RewriteFails, CompactReplace
    <3> QED
      BY <1>a, <3>1
  <2> QED
    BY <2>1, <2>2, <2>3, <2>4, <2>5, <2>6 DEF TurnStep
<1>2. ASSUME UserInput(t) \/ Save(t)
      PROVE  order' \in Seq(used) /\ \A r \in Sessions \ {current} : file'[r] = file[r]
  <2>1. PICK hist \in Seq(Msg) : \E o \in SaveOutcomes(hist) : StoreSaved(o)
    <3>1. CASE UserInput(t)
      <4>1. Append(history, NewMsg("user", current, 1)) \in Seq(Msg)
        BY <1>a, MsgType, AppendProperties DEF Kinds
      <4> QED
        BY <3>1, <4>1 DEF UserInput
    <3>2. CASE Save(t)
      BY <1>a, <3>2 DEF Save
    <3> QED
      BY <1>2, <3>1, <3>2
  <2> QED
    BY <2>1, SaveAdds DEF StoreSaved
<1>3. ASSUME CompactArchive(t) \/ CompactRewrite(t) \/ ArchiveFails(t) \/ RewriteFails(t)
      PROVE  /\ order' \in Seq(used) /\ \A r \in Sessions \ {job[t].sid} : file'[r] = file[r]
             /\ pc[t] \in Compacting
  BY <1>3, <1>a, DroppedType DEF CompactArchive, CompactRewrite, ArchiveFails, RewriteFails, Compacting
<1>4. ASSUME ~UserInput(t), ~Save(t), ~CompactArchive(t), ~CompactRewrite(t), ~ArchiveFails(t),
             ~RewriteFails(t)
      PROVE  UNCHANGED disk
  BY <1>4
     DEF TurnStep, SkillInput, TaskInput, SkillFails, StartStream, Reply, UseTools,
         AbortUse, LoopEnds, ToolsDone, StartTask, Panic, Release, CompactBegin, CompactSnapshot,
         SummaryFails, CompactReplace, Blocks
<1>5. order' \in Seq(used) /\ \E s \in used : /\ \A r \in Sessions \ {s} : file'[r] = file[r]
                                              /\ s = current \/ (s = job[t].sid /\ pc[t] \in Compacting)
  <2>1. CASE UserInput(t) \/ Save(t)
    BY <1>a, <1>2, <2>1
  <2>2. CASE CompactArchive(t) \/ CompactRewrite(t) \/ ArchiveFails(t) \/ RewriteFails(t)
    BY <1>a, <1>3, <2>2
  <2>3. CASE UNCHANGED disk
    BY <1>a, <2>3 DEF disk
  <2> QED
    BY <1>4, <2>1, <2>2, <2>3
<1> QED
  BY <1>b, <1>1, <1>5

\* Sessions in use stay known.
LEMMA KnownNext ==
  ASSUME SessionsKnown, used \subseteq used', current' \in used', order' \in Seq(used'),
         \A t \in Turns : job'[t].sid \in used', \A c \in Conns : conn'[c].sid \in used',
         \A s \in Sessions \ used' : file'[s] = file[s]
  PROVE  SessionsKnown'
BY DEF SessionsKnown

\* What the commands change.
LEMMA CommandKnown ==
  ASSUME AtHome, SessionsKnown, NEW c \in Conns, Command(c)
  PROVE  SessionsKnown'
<1>a. /\ conn \in [Conns -> ConnType] /\ file \in [Sessions -> Files(Msg)] /\ history \in Seq(Msg)
      /\ current \in Sessions /\ current \in used /\ order \in Seq(used) /\ used \subseteq Sessions
      /\ \A s \in Sessions \ used : file[s] = NoFiles
      /\ \A t \in Turns : job[t].sid \in used
      /\ \A d \in Conns : conn[d].sid \in used
      /\ TypeOK
  BY DEF AtHome, TypeOK, SessionsKnown
<1>b. job' = job /\ \A d \in Conns \ {c} : conn'[d] = conn[d]
  BY CommandFrame DEF AtHome
<1>c. ASSUME used' = used, current' \in used, order' \in Seq(used), conn'[c].sid \in used,
             \A s \in Sessions \ used : file'[s] = file[s]
      PROVE  SessionsKnown'
  BY <1>a, <1>b, <1>c, KnownNext
<1>2. \A o \in SaveOutcomes(history) :
        /\ \A s \in Sessions \ {current} : o.file[s] = file[s]
        /\ o.order \in Seq(used)
  BY <1>a, SaveAdds
<1>6. CASE NewSession(c)
  <2>1. PICK o \in SaveOutcomes(history), s \in Fresh :
          StoreSaved(o) /\ SwitchTo(s, <<>>) /\ used' = used \cup {s} /\ conn' = conn
    BY <1>6 DEF NewSession
  <2>2. order' \in Seq(used')
    BY <1>2, <2>1, SeqGrows DEF StoreSaved
  <2>3. current' \in used' /\ \A r \in Sessions \ used' : file'[r] = file[r]
    BY <1>a, <1>2, <2>1 DEF StoreSaved, SwitchTo
  <2> QED
    BY <1>a, <1>b, <2>1, <2>2, <2>3, KnownNext
<1>7. CASE ClearSession(c)
  <2>1. current' = current /\ used' = used /\ conn' = conn
    BY <1>7 DEF ClearSession, SwitchTo
  <2>2. \A s \in Sessions \ {current} : file'[s] = file[s]
    BY <1>7, <1>a DEF ClearSession
  <2>3. order' \in Seq(used)
    BY <1>7, <1>a, DroppedType DEF ClearSession
  <2> QED
    BY <1>a, <1>c, <2>1, <2>2, <2>3
<1>8. CASE ResumeSwitch(c)
  <2>1. PICK o \in SaveOutcomes(history) : StoreSaved(o)
    BY <1>8 DEF ResumeSwitch
  <2>2. /\ current' = conn[c].sid /\ used' = used /\ conn' = [conn EXCEPT ![c] = NoCommand(current')]
    BY <1>8 DEF ResumeSwitch, SwitchTo
  <2>3. conn'[c].sid = conn[c].sid
    BY <1>a, <2>2 DEF NoCommand
  <2> QED
    BY <1>a, <1>c, <1>2, <2>1, <2>2, <2>3 DEF StoreSaved
<1>9. CASE DeleteSwitch(c)
  <2>1. conn' = [conn EXCEPT ![c] = NoCommand(current')] /\ UNCHANGED disk
    BY <1>9 DEF DeleteSwitch
  <2>2. current' \in used' /\ used \subseteq used'
    BY <1>9, <1>a, OpenRecords DEF DeleteSwitch, memory
  <2>3. conn'[c].sid = current' /\ order' \in Seq(used')
    BY <1>a, <2>1, <2>2, SeqGrows DEF NoCommand, disk
  <2> QED
    BY <1>a, <1>b, <2>1, <2>2, <2>3, KnownNext DEF disk
<1>10. ASSUME NEW s \in Sessions, ResumeLoad(c, s)
       PROVE  SessionsKnown'
  <2>1. /\ UNCHANGED <<memory, disk, used>> /\ file[s].listed
        /\ conn' = [conn EXCEPT ![c] = [at |-> "resume", sid |-> s, lines |-> file[s].lines]]
    BY <1>10 DEF ResumeLoad
  <2>2. s \in used /\ conn'[c].sid = s
    BY <1>a, <2>1 DEF NoFiles
  <2> QED
    BY <1>a, <1>c, <2>1, <2>2 DEF memory, disk
<1>11. ASSUME NEW s \in Sessions, DeleteFiles(c, s)
       PROVE  SessionsKnown'
  <2>1. /\ UNCHANGED <<memory, used>>
        /\ file' = [file EXCEPT ![s] = NoFiles] /\ order' = Dropped(s, order) /\ file[s].dir
        /\ conn' = [conn EXCEPT ![c].at = "delete", ![c].sid = s]
    BY <1>11 DEF DeleteFiles, Deleted
  <2>2. s \in used /\ conn'[c].sid = s
    BY <1>a, <2>1 DEF NoFiles, ConnType
  <2>3. order' \in Seq(used)
    BY <1>a, <2>1, <2>2, DroppedType
  <2> QED
    BY <1>a, <1>c, <2>1, <2>2, <2>3 DEF memory
<1> QED
  BY <1>6, <1>7, <1>8, <1>9, <1>10, <1>11 DEF Command

\* The session that is opened when the process starts again.
LEMMA CrashKnown ==
  ASSUME TypeOK, SessionsKnown, Crash
  PROVE  SessionsKnown' /\ history' = file'[current'].lines /\ persisted' = Len(history')
<1>a. /\ file \in [Sessions -> Files(Msg)]
      /\ current \in Sessions /\ current \in used /\ order \in Seq(used) /\ used \subseteq Sessions
      /\ \A s \in Sessions \ used : file[s] = NoFiles
  BY DEF TypeOK, SessionsKnown
<1>1. PICK r \in Remains : StoreSaved(r) /\ OpenLatest(r.file, r.order)
  BY DEF Crash
<1>2. r.file \in [Sessions -> Files(Msg)]
  BY RemainsType
<1>3. Touched(current, order) \in Seq(used) /\ Dropped(current, order) \in Seq(used)
  BY <1>a, DroppedType
<1>4. r.order \in Seq(used) /\ \A s \in Sessions \ {current} : r.file[s] = file[s]
  BY <1>a, <1>3 DEF Remains
<1>5. /\ current' \in used' /\ used \subseteq used'
      /\ history' = r.file[current'].lines /\ persisted' = Len(history')
  BY <1>1, <1>2, <1>4, <1>a, OpenRecords
<1>6. order' \in Seq(used')
  BY <1>1, <1>4, <1>5, SeqGrows DEF StoreSaved
<1>7. /\ \A t \in Turns : job'[t].sid = current'
      /\ \A c \in Conns : conn'[c].sid = current'
  BY DEF Crash, NoJob, NoCommand
<1> QED
  BY <1>a, <1>1, <1>4, <1>5, <1>6, <1>7, KnownNext DEF StoreSaved

\* Every step keeps the sessions known and what was loaded.
LEMMA KnownStep ==
  ASSUME AtHome, SessionsKnown, LoadedIsStored, [Next]_vars
  PROVE  SessionsKnown' /\ LoadedIsStored'
<1>a. /\ TypeOK /\ StreamExclusive /\ OverlapsKnown /\ crossed \subseteq crossed'
  BY CrossedGrows DEF AtHome
<1>1. ASSUME NEW t \in Turns, TurnStep(t) \/ Blocks(t)
      PROVE  SessionsKnown' /\ LoadedIsStored'
  <2>1. SessionsKnown'
    BY <1>1, <1>a, TurnWrites DEF SessionsKnown
  <2>2. active /\ UNCHANGED <<conn, current, crossed>>
    BY <1>1, <1>a, TurnFrame, Alone
  <2>3. \A c \in Conns : ~ConnIdle(c) => {current, conn[c].sid} \subseteq crossed
    BY <1>a, <2>2 DEF OverlapsKnown, Overlaps, Underway
  <2> QED
    BY <2>1, <2>2, <2>3 DEF LoadedIsStored, ConnIdle
<1>2. ASSUME NEW t \in Turns,
             \/ \E kind \in {"input", "skill", "compact"} : Request(t, kind)
             \/ \E s \in Sessions : Continue(t, s)
      PROVE  SessionsKnown' /\ LoadedIsStored'
  <2>1. /\ UNCHANGED <<memory, disk, used, conn>> /\ \A u \in Turns : job'[u].sid = job[u].sid
    <3>1. /\ UNCHANGED <<memory, disk, used, conn>>
          /\ \/ \E kind \in {"input", "skill", "compact"} : job' = [job EXCEPT ![t].kind = kind]
             \/ \E s \in Sessions : job' = [job EXCEPT ![t].kind = "task", ![t].home = s]
      BY <1>2 DEF Request, Continue
    <3>2. job \in [Turns -> JobType]
      BY <1>a DEF TypeOK
    <3>3. ASSUME NEW kind, job' = [job EXCEPT ![t].kind = kind]
          PROVE  \A u \in Turns : job'[u].sid = job[u].sid
      BY <3>2, <3>3 DEF JobType
    <3>4. ASSUME NEW s, job' = [job EXCEPT ![t].kind = "task", ![t].home = s]
          PROVE  \A u \in Turns : job'[u].sid = job[u].sid
      <4>1. job'[t].sid = job[t].sid
        BY <3>2, <3>4 DEF JobType
      <4> QED
        BY <3>2, <3>4, <4>1
    <3> QED
      BY <3>1, <3>3, <3>4
  <2> QED
    BY <1>a, <2>1 DEF SessionsKnown, LoadedIsStored, memory, disk
<1>3. ASSUME NEW c \in Conns, Command(c)
      PROVE  SessionsKnown' /\ LoadedIsStored'
  <2>1. ASSUME NEW d \in Conns \ {c}, ~ConnIdle(d)
        PROVE  conn'[d] = conn[d] /\ {current', conn[d].sid} \subseteq crossed'
    BY <1>3, <1>a, <2>1, CommandFrame, CommandCrosses DEF Overlaps, Underway
  <2>2. ASSUME conn'[c].at = "resume"
        PROVE  conn'[c].lines = file'[conn'[c].sid].lines
    <3>1. \E s \in Sessions : ResumeLoad(c, s)
      BY <1>3, <1>a, <2>2 DEF Command, NewSession, ClearSession, MayCommand, ConnIdle, ResumeSwitch,
                              DeleteSwitch, DeleteFiles, NoCommand, TypeOK, ConnType
    <3> QED
      BY <1>a, <3>1 DEF ResumeLoad, disk, TypeOK
  <2>3. \A d \in Conns \ {c} : conn'[d] = conn[d]
    BY <1>3, <1>a, CommandFrame
  <2> QED
    BY <1>3, <2>1, <2>2, <2>3, CommandKnown DEF LoadedIsStored, ConnIdle
<1>4. ASSUME Crash
      PROVE  SessionsKnown' /\ LoadedIsStored'
  BY <1>4, <1>a, CrashKnown DEF Crash, LoadedIsStored, NoCommand
<1>5. ASSUME UNCHANGED vars \/ \E s \in Sessions : DropTask(s)
      PROVE  SessionsKnown' /\ LoadedIsStored'
  <2>1. UNCHANGED <<conn, job, current, file, order, used, crossed>>
    BY <1>5 DEF vars, DropTask, memory, disk
  <2> QED
    BY <2>1 DEF SessionsKnown, LoadedIsStored
<1> QED
  BY <1>1, <1>2, <1>3, <1>4, <1>5 DEF Next

\* What the invariant says of a session that nothing crossed.
CalmStored == CompactionsKeep /\ HistoryRecorded

\* There only the place of the goroutine t that holds the stream matters.
LEMMA OnlyOne ==
  ASSUME Stored, Calm, NEW t \in Turns, pc[t] # "free", conn' = conn, current' = current,
         \A u \in Turns \ {t} : pc'[u] = pc[u]
  PROVE  /\ CompactionKeeps(t)' => CompactionsKeep'
         /\ Steady <=> ~stale /\ pc[t] # "replace"
         /\ Steady' <=> ~stale' /\ pc'[t] # "replace"
         /\ (\A u \in Turns : Clean(u)) <=> Clean(t)
         /\ (\A u \in Turns : Clean(u)') <=> Clean(t)'
<1>1. ConnsIdle /\ \A u \in Turns : u # t => pc[u] = "free" /\ pc'[u] = "free"
  BY CalmTurn DEF Stored
<1>3. CompactionKeeps(t)' => CompactionsKeep'
  BY <1>1 DEF CompactionsKeep, CompactionKeeps
<1>4. /\ Steady <=> ~stale /\ pc[t] # "replace"
      /\ Steady' <=> ~stale' /\ pc'[t] # "replace"
  BY <1>1 DEF Steady, ConnsIdle, ConnIdle
<1>5. /\ (\A u \in Turns : Clean(u)) <=> Clean(t)
      /\ (\A u \in Turns : Clean(u)') <=> Clean(t)'
  BY <1>1 DEF Clean
<1> QED
  BY <1>3, <1>4, <1>5

\* Starting a stream.
LEMMA StartStored ==
  ASSUME Stored, Calm, NEW t \in Turns,
         \/ \E kind \in {"input", "skill", "compact"} : Request(t, kind)
         \/ \E s \in Sessions : Continue(t, s)
  PROVE  CalmStored'
<1>1. /\ pc' = [pc EXCEPT ![t] = "acquired"] /\ UNCHANGED <<conn, memory, disk, used>>
      /\ spent' = spent /\ ~active
      /\ pc \in [Turns -> PCs] /\ job \in [Turns -> JobType]
  BY DEF Request, Continue, TryAcquire, MayAcquire, Goto, Stored, AtHome, TypeOK
<1>2. \A u \in Turns : pc[u] = "free"
  BY <1>1 DEF Stored, AtHome, StreamExclusive, Holders
<1>3. /\ Steady' <=> Steady
      /\ \A u \in Turns : Clean(u) /\ Clean(u)'
  BY <1>1, <1>2 DEF Steady, Clean, memory
<1>4. CompactionsKeep'
  BY <1>1, <1>2 DEF CompactionsKeep, CompactionKeeps
<1>6. HistoryRecorded'
  BY <1>1, <1>3 DEF Stored, HistoryRecorded, Recorded, memory, disk
<1> QED
  BY <1>4, <1>6 DEF CalmStored

\* The steps of a turn that write neither the history nor a file.
LEMMA QuietStored ==
  ASSUME Stored, Calm, NEW t \in Turns,
         \/ SkillFails(t) \/ StartStream(t) \/ LoopEnds(t) \/ StartTask(t) \/ Panic(t) \/ Release(t)
         \/ CompactBegin(t) \/ CompactSnapshot(t) \/ SummaryFails(t) \/ Blocks(t)
  PROVE  CalmStored'
<1>1. UNCHANGED <<conn, memory, disk, used>> /\ pc[t] \notin {"free", "replace"}
  BY DEF SkillFails, StartStream, LoopEnds, StartTask, Panic, Release, CompactBegin, CompactSnapshot,
         SummaryFails, Blocks, Blocking
<1>2. \A u \in Turns \ {t} : pc'[u] = pc[u]
  BY DEF SkillFails, StartStream, LoopEnds, StartTask, Panic, Release, CompactBegin, CompactSnapshot,
         SummaryFails, Blocks, AfterCompact, Goto, Stored, AtHome, TypeOK
<1>a. /\ pc \in [Turns -> PCs] /\ job \in [Turns -> JobType] /\ spent \in SpentType
      /\ CompactionKeeps(t)
  BY DEF Stored, AtHome, TypeOK, CompactionsKeep
<1>3. CompactionKeeps(t)' /\ (Clean(t)' /\ spent'.fail = 0 => Clean(t) /\ spent.fail = 0)
      /\ (spent'.fail = 0 => spent.fail = 0) /\ pc'[t] # "replace"
  <2> USE DEF CompactionKeeps, Clean, Compacting, Goto, memory
  <2>1. CASE SkillFails(t) \/ StartStream(t) \/ LoopEnds(t) \/ Panic(t) \/ StartTask(t)
    BY <1>1, <1>a, <2>1 DEF SkillFails, StartStream, LoopEnds, Panic, StartTask, Spend, SpentType
  <2>2. CASE Release(t)
    BY <1>1, <1>a, <2>2 DEF Release, NoJob
  <2>3. CASE SummaryFails(t)
    BY <1>1, <1>a, <2>3 DEF SummaryFails, AfterCompact
  <2>4. CASE Blocks(t)
    BY <1>1, <1>a, <2>4 DEF Blocks, NoJob
  <2>5. CASE CompactBegin(t)
    <3>1. job'[t].kind = job[t].kind /\ pc'[t] = "snapshot" /\ spent'.fail = spent.fail
      BY <1>a, <2>5 DEF CompactBegin, Spend, SpentType, JobType
    <3> QED
      BY <1>a, <2>5, <3>1 DEF CompactBegin
  <2>6. CASE CompactSnapshot(t)
    <3>1. CASE Len(history) > 1
      <4>1. /\ pc'[t] = "summarise" /\ spent' = spent
            /\ job'[t].hist = history' /\ job'[t].kind = job[t].kind
        BY <1>1, <1>a, <2>6, <3>1 DEF CompactSnapshot, JobType
      <4> QED
        BY <1>a, <2>6, <4>1 DEF CompactSnapshot
    <3>2. CASE ~(Len(history) > 1)
      BY <1>1, <1>a, <2>6, <3>2 DEF CompactSnapshot, AfterCompact
    <3> QED
      BY <3>1, <3>2
  <2> QED
    BY <2>1, <2>2, <2>3, <2>4, <2>5, <2>6
<1>4. /\ CompactionsKeep'
      /\ Steady' => Steady
      /\ (\A u \in Turns : Clean(u)) <=> Clean(t)
      /\ (\A u \in Turns : Clean(u)') <=> Clean(t)'
  BY <1>1, <1>2, <1>3, OnlyOne DEF memory
<1>6. HistoryRecorded'
  BY <1>1, <1>3, <1>4 DEF Stored, HistoryRecorded, Recorded, memory, disk
<1> QED
  BY <1>4, <1>6 DEF CalmStored

\* The messages a step of a turn appends to the history.
LEMMA AppendedMessages ==
  ASSUME Stored, Calm, NEW t \in Turns,
         \/ SkillInput(t) \/ TaskInput(t) \/ Reply(t) \/ UseTools(t) \/ AbortUse(t) \/ ToolsDone(t)
  PROVE  \E more \in Seq(Msg) : history' = history \o more
<1>a. job \in [Turns -> JobType] /\ history \in Seq(Msg)
  BY DEF Stored, AtHome, TypeOK
<1>1. \A home \in Sessions, kind \in Kinds, k \in Nat : NewMsg(kind, home, k) \in Msg
  BY MsgType DEF Stored, AtHome
<1>2. job[t].home \in Sessions /\ current \in Sessions
  BY <1>a DEF JobType, Stored, AtHome, TypeOK
<1>3. ASSUME NEW m \in Msg
      PROVE  <<m>> \in Seq(Msg) /\ Append(history, m) = history \o <<m>>
  BY <1>a
<1>4. CASE SkillInput(t) \/ TaskInput(t)
  BY <1>1, <1>2, <1>3, <1>4 DEF SkillInput, TaskInput, Kinds
<1>5. CASE Reply(t) \/ UseTools(t) \/ ToolsDone(t)
  BY <1>1, <1>2, <1>3, <1>5 DEF Reply, UseTools, ToolsDone, Kinds
<1>6. CASE AbortUse(t)
  <2>1. <<NewMsg("use", job[t].home, 1), NewMsg("result", job[t].home, 2)>> \in Seq(Msg)
    BY <1>1, <1>2 DEF Kinds
  <2> QED
    BY <1>6, <2>1 DEF AbortUse
<1> QED
  BY <1>4, <1>5, <1>6

\* The steps of a turn that append to the history.
LEMMA AppendStored ==
  ASSUME Stored, Calm, NEW t \in Turns,
         \/ SkillInput(t) \/ TaskInput(t) \/ Reply(t) \/ UseTools(t) \/ AbortUse(t) \/ ToolsDone(t)
  PROVE  CalmStored'
<1>1. UNCHANGED <<conn, current, disk, used, stale, persisted>> /\ pc[t] \notin {"free", "replace"}
  BY DEF SkillInput, TaskInput, Reply, UseTools, AbortUse, ToolsDone
<1>2. \A u \in Turns \ {t} : pc'[u] = pc[u]
  BY DEF SkillInput, TaskInput, Reply, UseTools, AbortUse, ToolsDone, Goto, Stored, AtHome, TypeOK
<1>a. /\ pc \in [Turns -> PCs] /\ job \in [Turns -> JobType] /\ spent \in SpentType
      /\ history \in Seq(Msg) /\ persisted \in Nat
      /\ CompactionKeeps(t)
  BY DEF Stored, AtHome, TypeOK, CompactionsKeep
<1>3. /\ job[t].kind # "compact" /\ job'[t].kind = job[t].kind
      /\ pc'[t] \in {"start", "saveReply", "saveUse", "saveResult"}
      /\ spent'.fail = spent.fail
  BY <1>a DEF SkillInput, TaskInput, Reply, UseTools, AbortUse, ToolsDone, Goto, JobType,
              CompactionKeeps, Compacting, Spend, SpentType
<1>4. CompactionKeeps(t)' /\ ~Clean(t)'
  BY <1>3 DEF CompactionKeeps, Clean
<1>5. /\ CompactionsKeep'
      /\ Steady' => Steady
      /\ ~(\A u \in Turns : Clean(u)')
  BY <1>1, <1>2, <1>4, OnlyOne
<1>7. \E more \in Seq(Msg) : history' = history \o more
  BY AppendedMessages
<1>8. HistoryRecorded'
  <2> SUFFICES ASSUME Steady'
               PROVE  /\ Recorded(history', persisted, file[current].lines)
                      /\ spent.fail = 0 => file[current].lines = SubSeq(history', 1, persisted)
    BY <1>1, <1>3, <1>5 DEF HistoryRecorded, Recorded, disk
  <2>1. /\ Recorded(history, persisted, file[current].lines)
        /\ spent.fail = 0 => file[current].lines = SubSeq(history, 1, persisted)
    BY <1>5 DEF Stored, HistoryRecorded
  <2>2. PICK more \in Seq(Msg) : history' = history \o more
    BY <1>7
  <2>3. /\ Recorded(history \o more, persisted, file[current].lines)
        /\ SubSeq(history \o more, 1, persisted) = SubSeq(history, 1, persisted)
    BY <1>a, <2>1, AppendRecorded
  <2> QED
    BY <2>1, <2>2, <2>3
<1> QED
  BY <1>5, <1>8 DEF CalmStored

\* The history a step of a turn saves, and how the save ends.
LEMMA SavedHistory ==
  ASSUME Stored, Calm, NEW t \in Turns, UserInput(t) \/ Save(t)
  PROVE  /\ history' \in Seq(Msg) /\ \E more \in Seq(Msg) : history' = history \o more
         /\ \E o \in SaveOutcomes(history') :
              /\ StoreSaved(o) /\ persisted' = o.persisted
              /\ spent'.fail = spent.fail + o.fail
<1>a. spent \in SpentType /\ history \in Seq(Msg) /\ current \in Sessions /\ TypeOK
  BY DEF Stored, AtHome, TypeOK
<1>1. CASE UserInput(t)
  <2> DEFINE hist == Append(history, NewMsg("user", current, 1))
  <2>1. PICK o \in SaveOutcomes(hist) :
          /\ StoreSaved(o) /\ persisted' = o.persisted /\ spent' = SpendAndFail("msgs", o.fail)
    BY <1>1 DEF UserInput
  <2>2. NewMsg("user", current, 1) \in Msg
    BY <1>a, MsgType DEF Kinds
  <2>3. hist = history \o <<NewMsg("user", current, 1)>> /\ hist \in Seq(Msg)
        /\ <<NewMsg("user", current, 1)>> \in Seq(Msg)
    BY <1>a, <2>2, AppendProperties
  <2>4. history' = hist
    BY <1>1 DEF UserInput
  <2> HIDE DEF hist
  <2>5. spent'.fail = spent.fail + o.fail
    BY <1>a, <2>1 DEF SpendAndFail, Spend, SpentType
  <2> QED
    BY <2>1, <2>3, <2>4, <2>5
<1>2. CASE Save(t)
  <2>1. PICK o \in SaveOutcomes(history) :
          /\ StoreSaved(o) /\ persisted' = o.persisted /\ spent' = Spend("fail", o.fail)
    BY <1>2 DEF Save
  <2>2. spent'.fail = spent.fail + o.fail
    BY <1>a, <2>1 DEF Spend, SpentType
  <2>3. history = history \o <<>> /\ <<>> \in Seq(Msg) /\ history' = history
    BY <1>a, <1>2, ConcatEmptySeq, EmptySeq DEF Save
  <2> QED
    BY <1>a, <2>1, <2>2, <2>3
<1> QED
  BY <1>1, <1>2

\* The steps of a turn that save.
LEMMA SavingStored ==
  ASSUME Stored, Calm, NEW t \in Turns, UserInput(t) \/ Save(t)
  PROVE  CalmStored'
<1>a. /\ pc \in [Turns -> PCs] /\ job \in [Turns -> JobType] /\ spent \in SpentType
      /\ history \in Seq(Msg) /\ persisted \in Nat /\ file \in [Sessions -> Files(Msg)]
      /\ current \in Sessions /\ TypeOK /\ SessionsKnown /\ CompactionKeeps(t)
  BY DEF Stored, AtHome, TypeOK, CompactionsKeep
<1>1. /\ UNCHANGED <<conn, current, used, stale>> /\ pc[t] \notin {"free", "replace"}
      /\ \A u \in Turns \ {t} : pc'[u] = pc[u]
  BY DEF UserInput, Save, Goto, SavePoints, Stored, AtHome, TypeOK
<1>2. /\ job[t].kind # "compact" /\ job'[t].kind = job[t].kind
      /\ pc'[t] \in {"start", "tools", "loop", "loopDone", "closing", "release"}
      /\ UserInput(t) => pc'[t] = "start"
  BY <1>a DEF UserInput, Save, AfterSave, Goto, JobType, CompactionKeeps, Compacting, SavePoints
<1>3. CompactionKeeps(t)'
  BY <1>2 DEF CompactionKeeps
<1>4. /\ CompactionsKeep'
      /\ Steady' => Steady
      /\ (\A u \in Turns : Clean(u)') => Clean(t)'
  BY <1>1, <1>3, OnlyOne
<1>5. /\ history' \in Seq(Msg) /\ \E more \in Seq(Msg) : history' = history \o more
      /\ \E o \in SaveOutcomes(history') :
           /\ StoreSaved(o) /\ persisted' = o.persisted
           /\ spent'.fail = spent.fail + o.fail
  BY SavedHistory
<1> DEFINE hist == history'
<1>8. PICK o \in SaveOutcomes(hist) :
        StoreSaved(o) /\ persisted' = o.persisted /\ spent'.fail = spent.fail + o.fail
  BY <1>5
<1>9. hist \in Seq(Msg) /\ history' = hist /\ \E more \in Seq(Msg) : hist = history \o more
  BY <1>5
<1> HIDE DEF hist
<1>7. HistoryRecorded'
  <2> SUFFICES ASSUME Steady'
               PROVE  /\ Recorded(hist, o.persisted, o.file[current].lines)
                      /\ spent.fail + o.fail = 0 =>
                           /\ o.file[current].lines = SubSeq(hist, 1, o.persisted)
                           /\ o.persisted = Len(hist)
    BY <1>1, <1>4, <1>8, <1>9 DEF HistoryRecorded, Recorded, StoreSaved
  <2>1. /\ Recorded(history, persisted, file[current].lines)
        /\ spent.fail = 0 => file[current].lines = SubSeq(history, 1, persisted)
    BY <1>4 DEF Stored, HistoryRecorded
  <2>2. PICK more \in Seq(Msg) : hist = history \o more
    BY <1>9
  <2>3. /\ Recorded(hist, persisted, file[current].lines)
        /\ SubSeq(hist, 1, persisted) = SubSeq(history, 1, persisted)
    BY <1>a, <2>1, <2>2, AppendRecorded
  <2>4. /\ Recorded(hist, o.persisted, o.file[current].lines)
        /\ o.fail = 0 /\ file[current].lines = SubSeq(hist, 1, persisted) =>
             o.persisted = Len(hist) /\ o.file[current].lines = SubSeq(hist, 1, o.persisted)
    BY <1>a, <1>9, <2>3, SaveRecords
  <2>5. spent.fail \in Nat /\ o.fail \in Nat
    BY <1>a, <1>9, SaveAdds DEF SpentType
  <2>6. spent.fail + o.fail = 0 => spent.fail = 0 /\ o.fail = 0
    BY <2>5
  <2> QED
    BY <2>1, <2>3, <2>4, <2>6
<1> QED
  BY <1>4, <1>7 DEF CalmStored

\* Cutting a sequence in two, and putting something in front of the second part,
\* loses no element.
LEMMA CutKeeps ==
  ASSUME NEW S, NEW hist \in Seq(S), NEW front \in Seq(S), NEW n \in Nat, n <= Len(hist)
  PROVE  ToSet(hist) \subseteq
           ToSet(SubSeq(hist, 1, n)) \cup ToSet(front \o SubSeq(hist, n + 1, Len(hist)))
<1>1. Len(hist) \in Nat
  BY LenProperties
<1>2. SubSeq(hist, 1, n) \in Seq(S) /\ Len(SubSeq(hist, 1, n)) = n
      /\ \A i \in 1 .. n : SubSeq(hist, 1, n)[i] = hist[i]
  BY <1>1, SubSeqProperties, ElementOfSeq
<1>3. /\ SubSeq(hist, n + 1, Len(hist)) \in Seq(S)
      /\ Len(SubSeq(hist, n + 1, Len(hist))) = Len(hist) - n
      /\ \A i \in 1 .. Len(hist) - n : SubSeq(hist, n + 1, Len(hist))[i] = hist[n + i]
  BY <1>1, SubSeqProperties, ElementOfSeq
<1>4. ASSUME NEW a \in Seq(S), NEW b \in Seq(S), Len(a) = n, Len(b) = Len(hist) - n,
             \A i \in 1 .. n : a[i] = hist[i], \A i \in 1 .. Len(hist) - n : b[i] = hist[n + i]
      PROVE  ToSet(hist) \subseteq ToSet(a) \cup ToSet(front \o b)
  <2> SUFFICES ASSUME NEW i \in 1 .. Len(hist)
               PROVE  hist[i] \in ToSet(a) \cup ToSet(front \o b)
    BY LenProperties DEF ToSet
  <2>1. CASE i <= n
    <3>1. i \in 1 .. n /\ i \in DOMAIN a
      BY <1>1, <1>4, <2>1
    <3>2. a[i] = hist[i]
      BY <1>4, <3>1
    <3> QED
      BY <3>1, <3>2 DEF ToSet
  <2>2. CASE i > n
    <3> DEFINE j == i - n
    <3>1. j \in 1 .. Len(b) /\ n + j = i
      BY <1>1, <1>4, <2>2
    <3> HIDE DEF j
    <3>2. b[j] = hist[i]
      BY <1>4, <3>1
    <3> QED
      BY <3>1, <3>2, AppendAdds
  <2> QED
    BY <1>1, <2>1, <2>2
<1> QED
  BY <1>2, <1>3, <1>4

\* The steps of a compaction that write.
LEMMA CompactStored ==
  ASSUME Stored, Calm, NEW t \in Turns,
         \/ CompactArchive(t) \/ CompactRewrite(t) \/ ArchiveFails(t) \/ RewriteFails(t)
         \/ CompactReplace(t)
  PROVE  CalmStored'
<1>a. /\ pc \in [Turns -> PCs] /\ job \in [Turns -> JobType] /\ spent \in SpentType
      /\ file \in [Sessions -> Files(Msg)] /\ current \in Sessions
      /\ history \in Seq(Msg) /\ CompactionKeeps(t) /\ TypeOK /\ order \in Seq(used) /\ current \in used
      /\ \A s \in Sessions \ used : file[s] = NoFiles
  BY DEF Stored, AtHome, TypeOK, CompactionsKeep, SessionsKnown
<1>b. job[t].sid = current /\ pc[t] \in Compacting
  BY CalmTurn DEF CompactArchive, CompactRewrite, CompactReplace, ArchiveFails, RewriteFails, Stored,
                  Compacting
<1>1. UNCHANGED <<conn, current, used>> /\ pc[t] # "free"
  BY DEF CompactArchive, CompactRewrite, CompactReplace, ArchiveFails, RewriteFails, memory
<1>2. \A u \in Turns \ {t} : pc'[u] = pc[u]
  BY <1>a DEF CompactArchive, CompactRewrite, CompactReplace, ArchiveFails, RewriteFails, AfterCompact,
              Goto
<1>3. CASE CompactArchive(t)
  <2>1. PICK i \in SplitPoints(job[t].hist) :
          /\ file' = [file EXCEPT ![job[t].sid] = Archived(@, SubSeq(job[t].hist, 1, i))]
          /\ job' = [job EXCEPT ![t].hist =
               <<NewMsg("summary", job[t].home, 1), NewMsg("boundary", job[t].home, 2)>>
               \o SubSeq(job[t].hist, i + 1, Len(job[t].hist))]
    BY <1>3 DEF CompactArchive
  <2>2. /\ job[t].hist = history /\ pc' = [pc EXCEPT ![t] = "rewrite"]
        /\ UNCHANGED <<memory, order>>
    BY <1>3, <1>a DEF CompactArchive, CompactionKeeps, Goto
  <2>3. i \in Nat /\ i <= Len(history)
    BY <1>a, <2>2, LenProperties DEF SplitPoints
  <2>4. <<NewMsg("summary", job[t].home, 1), NewMsg("boundary", job[t].home, 2)>> \in Seq(Msg)
    <3>1. job[t].home \in Sessions
      BY <1>a DEF JobType
    <3>2. /\ NewMsg("summary", job[t].home, 1) \in Msg /\ NewMsg("boundary", job[t].home, 2) \in Msg
      BY <1>a, <3>1, MsgType DEF Kinds
    <3> QED
      BY <3>2
  <2> DEFINE front == <<NewMsg("summary", job[t].home, 1), NewMsg("boundary", job[t].home, 2)>>
  <2>5. /\ job'[t].hist = front \o SubSeq(history, i + 1, Len(history))
        /\ job'[t].kind = job[t].kind
    BY <1>a, <2>1, <2>2 DEF JobType
  <2>6. /\ file'[current].lines = file[current].lines
        /\ file'[current].archive = file[current].archive \cup ToSet(SubSeq(history, 1, i))
        /\ \A s \in Sessions \ {current} : file'[s] = file[s]
    BY <1>a, <1>b, <2>1, <2>2 DEF Archived, Files
  <2>7. ToSet(history) \subseteq
          ToSet(SubSeq(history, 1, i)) \cup ToSet(front \o SubSeq(history, i + 1, Len(history)))
    BY <1>a, <2>3, <2>4, CutKeeps
  <2> HIDE DEF front
  <2>8. CompactionKeeps(t)'
    BY <1>a, <2>2, <2>5, <2>6, <2>7 DEF CompactionKeeps, Compacting, memory
  <2>9. /\ CompactionsKeep'
        /\ Steady' => Steady
        /\ (\A u \in Turns : Clean(u)) <=> Clean(t)
        /\ (\A u \in Turns : Clean(u)') <=> Clean(t)'
    <3>1. pc[t] = "summarise"
      BY <1>3 DEF CompactArchive
    <3> QED
      BY <1>1, <1>2, <2>2, <2>8, <3>1, OnlyOne DEF memory
  <2>10. Clean(t)' => Clean(t)
    BY <1>a, <2>2, <2>5 DEF Clean
  <2>12. spent'.fail = spent.fail
    BY <1>3, <1>a DEF CompactArchive, Spend, SpentType
  <2>13. HistoryRecorded'
    BY <1>1, <2>2, <2>6, <2>9, <2>10, <2>12 DEF Stored, HistoryRecorded, Recorded, memory
  <2> QED
    BY <2>9, <2>13 DEF CalmStored
<1>4. CASE CompactRewrite(t)
  <2>1. pc' = [pc EXCEPT ![t] = "replace"] /\ job' = job
    BY <1>4 DEF CompactRewrite, Goto
  <2>2. CompactionKeeps(t)'
    BY <1>4, <1>a, <2>1 DEF CompactRewrite, CompactionKeeps, Compacting
  <2>3. CompactionsKeep' /\ ~Steady'
    BY <1>1, <1>2, <1>a, <2>1, <2>2, OnlyOne
  <2> QED
    BY <2>3 DEF CalmStored, HistoryRecorded
<1>5. CASE CompactReplace(t)
  <2>1. /\ stale' /\ UNCHANGED disk /\ job' = job
        /\ pc'[t] \in {"loop", "release"} /\ (job[t].kind = "compact" => pc'[t] = "release")
    BY <1>5, <1>a DEF CompactReplace, AfterCompact, Goto
  <2>2. CompactionKeeps(t)'
    BY <2>1 DEF CompactionKeeps
  <2>3. CompactionsKeep' /\ ~Steady'
    BY <1>1, <1>2, <2>1, <2>2, OnlyOne
  <2> QED
    BY <2>3 DEF CalmStored, HistoryRecorded
<1>6. CASE ArchiveFails(t) \/ RewriteFails(t)
  <2>1. spent'.fail # 0
    BY <1>6, <1>a DEF ArchiveFails, RewriteFails, Spend, SpentType
  <2>2. /\ job' = job /\ UNCHANGED <<history, persisted>> /\ pc[t] # "replace"
        /\ pc'[t] \in {"loop", "release"} /\ (job[t].kind = "compact" => pc'[t] = "release")
    BY <1>6, <1>a DEF ArchiveFails, RewriteFails, AfterCompact, Goto, memory
  <2>3. stale' \/ (stale' = stale /\ file'[current].lines = file[current].lines)
    <3>1. CASE ArchiveFails(t)
      <4>1. PICK i : file' = [file EXCEPT ![current] = Archived(@, SubSeq(job[t].hist, 1, i))]
        BY <1>b, <3>1 DEF ArchiveFails
      <4>2. file'[current].lines = file[current].lines
        BY <1>a, <4>1 DEF Archived, Files
      <4> QED
        BY <3>1, <4>2 DEF ArchiveFails, memory
    <3>2. CASE RewriteFails(t)
      BY <3>2 DEF RewriteFails
    <3> QED
      BY <1>6, <3>1, <3>2
  <2>4. CompactionKeeps(t)'
    BY <2>2 DEF CompactionKeeps
  <2>5. CompactionsKeep' /\ (Steady' => ~stale' /\ Steady)
    BY <1>1, <1>2, <2>2, <2>3, <2>4, OnlyOne
  <2>6. HistoryRecorded'
    <3>1. CASE ~Steady'
      BY <3>1 DEF HistoryRecorded
    <3>2. CASE Steady'
      <4>1. Recorded(history, persisted, file[current].lines)
        BY <2>5, <3>2 DEF Stored, HistoryRecorded
      <4>2. Recorded(history', persisted', file'[current'].lines)
        BY <1>1, <2>2, <2>3, <2>5, <3>2, <4>1
      <4> QED
        BY <2>1, <4>2 DEF HistoryRecorded, Recorded
    <3> QED
      BY <3>1, <3>2
  <2> QED
    BY <2>5, <2>6 DEF CalmStored
<1> QED
  BY <1>3, <1>4, <1>5, <1>6

\* The session commands, when they end in a session that nothing crossed.
LEMMA CommandStored ==
  ASSUME Stored, NEW c \in Conns, Command(c), Calm'
  PROVE  CalmStored'
<1>a. /\ conn \in [Conns -> ConnType] /\ spent \in SpentType /\ persisted \in Nat
      /\ file \in [Sessions -> Files(Msg)] /\ history \in Seq(Msg) /\ TypeOK /\ SessionsKnown
      /\ current \in Sessions /\ current \in used /\ order \in Seq(used) /\ used \subseteq Sessions
      /\ \A s \in Sessions \ used : file[s] = NoFiles
  BY DEF Stored, AtHome, TypeOK, SessionsKnown
<1>c. /\ UNCHANGED <<pc, job, crossed>> /\ \A u \in Turns : pc[u] = "free"
      /\ \A d \in Conns \ {c} : conn[d].at = "idle" /\ conn'[d] = conn[d]
  BY CalmCommand, CommandFrame DEF Stored, AtHome, ConnIdle
<1>f. current' = current => HistoryRecorded
  BY <1>c DEF Stored, Calm
<1>1. CompactionsKeep' /\ \A u \in Turns : Clean(u)
  BY <1>c DEF CompactionsKeep, CompactionKeeps, Clean
<1>2. \A o \in SaveOutcomes(history) :
        /\ \A s \in Sessions \ {current} : o.file[s] = file[s]
        /\ ToSet(file[current].lines) \subseteq ToSet(o.file[current].lines)
        /\ o.order \in Seq(used) /\ o.fail \in Nat
  BY <1>a, SaveAdds
<1>3. \A s \in Sessions : file[s].lines \in Seq(Msg)
  BY <1>a DEF Files
\* A session in memory that equals its file.
<1>5. ASSUME current' \in Sessions, file' \in [Sessions -> Files(Msg)],
             history' = file'[current'].lines, persisted' = Len(history')
      PROVE  HistoryRecorded'
  <2>1. file'[current'].lines \in Seq(Msg)
    BY <1>5 DEF Files
  <2>2. /\ Recorded(file'[current'].lines, Len(file'[current'].lines), file'[current'].lines)
        /\ SubSeq(file'[current'].lines, 1, Len(file'[current'].lines)) = file'[current'].lines
    BY <2>1, WholeRecorded
  <2> QED
    BY <1>5, <2>2 DEF HistoryRecorded, Recorded
<1>d. TypeOK'
  BY <1>a, TypeStep DEF Next
<1>e. current' \in Sessions /\ file' \in [Sessions -> Files(Msg)]
  BY <1>d DEF TypeOK
<1>6. CASE NewSession(c)
  <2>1. PICK o \in SaveOutcomes(history), s \in Fresh :
          StoreSaved(o) /\ SwitchTo(s, <<>>) /\ used' = used \cup {s}
    BY <1>6 DEF NewSession
  <2>2. s \in Sessions \ used
    BY <2>1 DEF Fresh
  <2>3. file'[s].lines = <<>>
    BY <1>a, <1>2, <2>1, <2>2 DEF StoreSaved, NoFiles
  <2>4. HistoryRecorded'
    BY <1>5, <1>e, <2>1, <2>3 DEF SwitchTo
  <2> QED
    BY <1>1, <2>4 DEF CalmStored
<1>7. CASE ClearSession(c)
  <2>1. current' = current /\ history' = <<>> /\ persisted' = 0 /\ used' = used /\ conn' = conn
    BY <1>7, EmptySeq DEF ClearSession, SwitchTo
  <2>5. HistoryRecorded'
    <3>1. CASE file' = [file EXCEPT ![current] = Truncated(@)]
      <4>1. file'[current].lines = <<>>
        BY <1>a, <3>1 DEF Truncated, Files
      <4> QED
        BY <1>5, <1>e, <2>1, <4>1, EmptySeq
    <3>2. CASE spent' = SpendAndFail("commands", 1)
      <4>1. spent'.fail # 0
        <5>1. Spend("commands", 1) \in SpentType
          BY <1>a, SpendType
        <5>2. ASSUME NEW x \in SpentType
              PROVE  [x EXCEPT !.fail = @ + 1].fail # 0
          BY DEF SpentType
        <5> QED
          BY <3>2, <5>1, <5>2 DEF SpendAndFail
      <4>2. Recorded(history', persisted', file'[current'].lines)
        BY <2>1, EmptySeq DEF Recorded
      <4> QED
        BY <4>1, <4>2 DEF HistoryRecorded, Recorded
    <3> QED
      BY <1>7, <3>1, <3>2 DEF ClearSession
  <2> QED
    BY <1>1, <2>5 DEF CalmStored
<1>8. CASE ResumeSwitch(c)
  <2>1. PICK o \in SaveOutcomes(history) :
          StoreSaved(o) /\ spent' = Spend("fail", o.fail)
    BY <1>8 DEF ResumeSwitch
  <2>2. /\ conn[c].at = "resume" /\ current' = conn[c].sid /\ history' = conn[c].lines
        /\ persisted' = Len(history') /\ stale' = (stale /\ conn[c].sid = current) /\ used' = used
        /\ conn' = [conn EXCEPT ![c] = NoCommand(current')]
    BY <1>8 DEF ResumeSwitch, SwitchTo
  <2>3. conn[c].lines = file[conn[c].sid].lines
    BY <1>c, <2>2 DEF Stored, LoadedIsStored, Calm
  <2>4. \A d \in Conns : conn'[d].at = "idle" /\ (d # c => conn[d].at = "idle")
    BY <1>a, <1>c, <2>2 DEF NoCommand
  <2>7. HistoryRecorded'
    <3>1. CASE conn[c].sid # current
      <4>1. file'[current'].lines = file[conn[c].sid].lines
        BY <1>2, <1>e, <2>1, <2>2, <3>1 DEF StoreSaved
      <4> QED
        BY <1>5, <1>e, <2>2, <2>3, <4>1
    <3>2. CASE conn[c].sid = current /\ ~stale
      <4> DEFINE lines == file[current].lines
      <4>1. history' = lines /\ persisted' = Len(lines) /\ current' = current
        BY <2>2, <2>3, <3>2
      <4>2. Steady
        BY <1>c, <2>2, <2>4, <3>2 DEF Steady
      <4>3. /\ Recorded(history, persisted, lines)
            /\ spent.fail = 0 => lines = SubSeq(history, 1, persisted) /\ persisted = Len(history)
        BY <1>1, <1>f, <4>1, <4>2 DEF HistoryRecorded
      <4>4. o.fail = 0 /\ spent.fail = 0 => o.file = file
        BY <1>a, <4>3, SaveRecords
      <4>5. spent'.fail = 0 => o.fail = 0 /\ spent.fail = 0
        BY <1>a, <1>2, <2>1 DEF Spend, SpentType
      <4>6. Recorded(lines, Len(lines), lines) /\ SubSeq(lines, 1, Len(lines)) = lines
        BY <1>a, <1>3, WholeRecorded
      <4>7. ToSet(lines) \subseteq ToSet(o.file[current].lines)
        BY <1>2
      <4> HIDE DEF lines
      <4>8. Recorded(lines, Len(lines), o.file[current].lines)
        BY <4>6, <4>7 DEF Recorded
      <4>9. spent'.fail = 0 => o.file[current].lines = lines
        BY <4>4, <4>5 DEF lines
      <4> QED
        BY <2>1, <4>1, <4>6, <4>8, <4>9 DEF HistoryRecorded, Recorded, StoreSaved
    <3>3. CASE conn[c].sid = current /\ stale
      BY <2>2, <3>3 DEF HistoryRecorded, Steady
    <3> QED
      BY <1>a, <3>1, <3>2, <3>3
  <2> QED
    BY <1>1, <2>7 DEF CalmStored
<1>9. CASE DeleteSwitch(c)
  <2>1. conn[c].at = "delete" /\ conn' = [conn EXCEPT ![c] = NoCommand(current')]
        /\ UNCHANGED <<disk, spent>>
    BY <1>9 DEF DeleteSwitch
  <2>2. \A d \in Conns : conn'[d].at = "idle" /\ (d # c => conn[d].at = "idle")
    BY <1>a, <1>c, <2>1 DEF NoCommand
  <2>4. CASE current = conn[c].sid
    <3>1. /\ current' \in used' /\ used \subseteq used'
          /\ history' = file[current'].lines /\ persisted' = Len(history')
      BY <1>9, <1>a, <2>4, OpenRecords DEF DeleteSwitch
    <3>2. HistoryRecorded'
      BY <1>5, <1>e, <2>1, <3>1 DEF disk
    <3> QED
      BY <1>1, <3>2 DEF CalmStored
  <2>5. CASE current # conn[c].sid
    <3>1. UNCHANGED <<memory, used>>
      BY <1>9, <2>5 DEF DeleteSwitch
    <3>2. Steady' => Steady
      BY <1>c, <2>2, <2>5, <3>1 DEF Steady, memory
    <3>3. HistoryRecorded'
      BY <1>1, <1>f, <2>1, <3>1, <3>2 DEF HistoryRecorded, Recorded, memory, disk
    <3> QED
      BY <1>1, <3>3 DEF CalmStored
  <2> QED
    BY <2>4, <2>5
<1>10. ASSUME NEW s \in Sessions, ResumeLoad(c, s)
       PROVE  CalmStored'
  <2>1. /\ UNCHANGED <<memory, disk>> /\ ConnIdle(c)
        /\ spent' = Spend("commands", 1)
    BY <1>10 DEF ResumeLoad, MayCommand
  <2>5. (Steady' => Steady) /\ spent'.fail = spent.fail
    BY <1>a, <1>c, <2>1 DEF Steady, memory, ConnIdle, Spend, SpentType
  <2>6. HistoryRecorded'
    BY <1>1, <1>f, <2>1, <2>5 DEF HistoryRecorded, Recorded, memory, disk
  <2> QED
    BY <1>1, <2>6 DEF CalmStored
<1>11. ASSUME NEW s \in Sessions, DeleteFiles(c, s)
       PROVE  CalmStored'
  <2>1. /\ UNCHANGED memory /\ ConnIdle(c)
        /\ file' = [file EXCEPT ![s] = NoFiles]
        /\ conn' = [conn EXCEPT ![c].at = "delete", ![c].sid = s]
        /\ spent' = Spend("commands", 1)
    BY <1>11 DEF DeleteFiles, MayCommand, Deleted
  <2>3. conn'[c].at = "delete" /\ conn'[c].sid = s
    BY <1>a, <2>1 DEF ConnType
  <2>5. spent'.fail = spent.fail
    BY <1>a, <2>1 DEF Spend, SpentType
  <2>6. Steady' => Steady /\ s # current
    BY <1>c, <2>1, <2>3 DEF Steady, memory, ConnIdle
  <2>7. HistoryRecorded'
    BY <1>a, <1>1, <1>f, <2>1, <2>5, <2>6 DEF HistoryRecorded, Recorded, memory
  <2> QED
    BY <1>1, <2>7 DEF CalmStored
<1> QED
  BY <1>6, <1>7, <1>8, <1>9, <1>10, <1>11 DEF Command

\* The end of the process and the session the next one opens.
LEMMA CrashStored == Stored /\ Crash => CalmStored'
<1> SUFFICES ASSUME Stored, Crash
             PROVE  CalmStored'
  OBVIOUS
<1>1. history' = file'[current'].lines /\ persisted' = Len(history')
  BY CrashKnown DEF Stored, AtHome
<1>2. TypeOK'
  BY TypeStep DEF Next, Stored, AtHome
<1>3. file'[current'].lines \in Seq(Msg)
  BY <1>2 DEF TypeOK, Files
<1>4. HistoryRecorded'
  BY <1>1, <1>3, WholeRecorded DEF HistoryRecorded, Recorded
<1>5. CompactionsKeep'
  BY DEF Crash, NoJob, CompactionsKeep, CompactionKeeps
<1> QED
  BY <1>4, <1>5 DEF CalmStored

\* Every step keeps the counted messages on disk.
LEMMA StoredStep == Stored /\ [Next]_vars => Stored'
<1> SUFFICES ASSUME Stored, [Next]_vars
             PROVE  Stored'
  OBVIOUS
<1>1. AtHome' /\ SessionsKnown' /\ LoadedIsStored' /\ crossed \subseteq crossed'
  BY AtHomeStep, KnownStep, CrossedGrows DEF Stored
<1>2. ASSUME UNCHANGED vars \/ \E s \in Sessions : DropTask(s), Calm
      PROVE  CalmStored'
  <2>1. UNCHANGED <<pc, job, conn, current, history, persisted, stale, file, order, used, spent>>
    BY <1>2 DEF vars, DropTask, memory, disk
  <2> QED
    BY <1>2, <2>1 DEF Stored, CalmStored, CompactionsKeep, CompactionKeeps, HistoryRecorded, Recorded,
                      Steady, Clean
<1>3. ASSUME Calm'
      PROVE  CalmStored'
  <2>1. ASSUME NEW t \in Turns, TurnStep(t) \/ Blocks(t)
        PROVE  CalmStored'
    <3>1. Calm
      BY <1>1, <1>3, <2>1, TurnFrame DEF Calm, Stored, AtHome
    <3> QED
      BY <2>1, <3>1, QuietStored, AppendStored, SavingStored, CompactStored DEF TurnStep
  <2>2. ASSUME NEW t \in Turns,
               \/ \E kind \in {"input", "skill", "compact"} : Request(t, kind)
               \/ \E s \in Sessions : Continue(t, s)
        PROVE  CalmStored'
    <3>1. Calm
      BY <1>1, <1>3, <2>2 DEF Calm, Request, Continue, memory
    <3> QED
      BY <2>2, <3>1, StartStored
  <2>3. ASSUME UNCHANGED vars \/ \E s \in Sessions : DropTask(s)
        PROVE  CalmStored'
    <3>1. Calm
      BY <1>1, <1>3, <2>3 DEF Calm, vars, DropTask, memory
    <3> QED
      BY <1>2, <2>3, <3>1
  <2> QED
    BY <1>3, <2>1, <2>2, <2>3, CommandStored, CrashStored DEF Next
<1> QED
  BY <1>1, <1>3 DEF Stored, CalmStored

\* A new process has stored what it has to.
LEMMA StoredInit == Init => Stored
<1> SUFFICES ASSUME Init
             PROVE  Stored
  OBVIOUS
<1>1. AtHome
  BY AtHomeInit
<1>2. SessionsKnown /\ LoadedIsStored /\ CompactionsKeep
  BY EmptySeq DEF Init, SessionsKnown, LoadedIsStored, NoCommand, NoJob, CompactionsKeep,
                  CompactionKeeps
<1>3. /\ history = <<>> /\ persisted = 0 /\ file[current].lines = <<>>
  BY DEF Init, NoFiles
<1>4. Recorded(<<>>, 0, <<>>) /\ SubSeq(<<>>, 1, 0) = <<>> /\ Len(<<>>) = 0
  BY EmptySeq, WholeRecorded
<1>5. HistoryRecorded
  BY <1>3, <1>4 DEF HistoryRecorded, Recorded
<1> QED
  BY <1>1, <1>2, <1>5 DEF Stored

\* In a session at which no command crossed a stream the messages that
\* persistedMsgCount counts are on disk, in spite of failing writes, restarts,
\* switches and compactions that were given up, whatever overlaps at other
\* sessions.
THEOREM CountIsTrue == Spec => []CountedIsStored
<1>1. Stored => CountedIsStored
  <2> SUFFICES ASSUME Stored, ConnsIdle, ~stale, \A t \in Turns : pc[t] # "replace", Calm,
                      NEW i \in 1 .. persisted
               PROVE  i <= Len(history) /\ history[i] \in ToSet(file[current].lines)
    BY DEF CountedIsStored, Calm
  <2>1. Steady
    BY DEF Steady, ConnsIdle, ConnIdle
  <2>2. persisted \in Nat /\ history \in Seq(Msg)
    BY DEF Stored, AtHome, TypeOK
  <2> QED
    BY <2>1, <2>2, LenProperties DEF Stored, HistoryRecorded, Recorded
<1> QED
  BY <1>1, StoredInit, StoredStep, PTL DEF Spec

\* And while no write has failed and no compaction has parted the history from its
\* file, an idle handler's file is its history, message by message.
THEOREM FileHoldsHistory == Spec => []FileIsHistory
<1>1. Stored => FileIsHistory
  <2> SUFFICES ASSUME Stored, Settled, ~stale, spent.fail = 0, Calm
               PROVE  file[current].lines = history
    BY DEF FileIsHistory, Calm
  <2>1. \A u \in Turns : pc[u] = "free"
    BY DEF Settled, Stored, AtHome, StreamExclusive, Holders
  <2>2. Steady /\ \A u \in Turns : Clean(u)
    BY <2>1 DEF Settled, Steady, Clean, ConnsIdle, ConnIdle
  <2>3. file[current].lines = SubSeq(history, 1, Len(history))
    BY <2>2 DEF Stored, HistoryRecorded
  <2>4. history \in Seq(Msg)
    BY DEF Stored, AtHome, TypeOK
  <2> QED
    BY <2>3, <2>4, WholeRecorded
<1> QED
  BY <1>1, StoredInit, StoredStep, PTL DEF Spec

-----------------------------------------------------------------------------
(* Nothing leaves a file but into the archive.                             *)

\* What may go from the file of session s in one step.
KeptInFile(s) ==
  LET gone == ToSet(file[s].lines) \ ToSet(file'[s].lines)
  IN  \/ file'[s].lines = <<>>
      \/ gone \cap ToSet(history) \subseteq file'[s].archive /\ (s # current => gone = {})

\* Files that are only appended to lose nothing.
LEMMA NothingGone ==
  ASSUME NEW s \in Sessions, ToSet(file[s].lines) \subseteq ToSet(file'[s].lines)
  PROVE  KeptInFile(s)
BY DEF KeptInFile

LEMMA FilesKept ==
  ASSUME Stored, [Next]_vars, NEW s \in Sessions \ crossed'
  PROVE  KeptInFile(s)
<1>b. crossed \subseteq crossed'
  BY CrossedGrows
<1>a. /\ file \in [Sessions -> Files(Msg)] /\ current \in Sessions /\ history \in Seq(Msg) /\ TypeOK
      /\ file[s] \in Files(Msg) /\ SessionsKnown /\ job \in [Turns -> JobType] /\ s \notin crossed
  BY <1>b DEF Stored, AtHome, TypeOK
<1>1. ASSUME NEW hist \in Seq(Msg), NEW o \in SaveOutcomes(hist), file' = o.file
      PROVE  KeptInFile(s)
  BY <1>1, <1>a, SaveAdds, NothingGone
<1>2. ASSUME file' = file
      PROVE  KeptInFile(s)
  BY <1>2, NothingGone
<1>3. ASSUME NEW t \in Turns, UserInput(t) \/ Save(t)
      PROVE  KeptInFile(s)
  <2>1. CASE UserInput(t)
    <3>1. Append(history, NewMsg("user", current, 1)) \in Seq(Msg)
      BY <1>a, MsgType, AppendProperties DEF Kinds
    <3> QED
      BY <1>1, <2>1, <3>1 DEF UserInput, StoreSaved
  <2>2. CASE Save(t)
    BY <1>1, <1>a, <2>2 DEF Save, StoreSaved
  <2> QED
    BY <1>3, <2>1, <2>2
<1>4. ASSUME NEW t \in Turns, CompactArchive(t) \/ ArchiveFails(t)
      PROVE  KeptInFile(s)
  <2>1. PICK msgs : file' = [file EXCEPT ![job[t].sid] = Archived(@, msgs)]
    BY <1>4 DEF CompactArchive, ArchiveFails
  <2>2. \A f \in Files(Msg) : Archived(f, msgs).lines = f.lines
    BY DEF Archived, Files
  <2>3. file'[s].lines = file[s].lines
    BY <1>a, <2>1, <2>2
  <2> QED
    BY <2>3, NothingGone
<1>5. ASSUME NEW t \in Turns, CompactRewrite(t) \/ RewriteFails(t)
      PROVE  KeptInFile(s)
  <2>1. /\ file' = file \/ \E g : /\ file' = [file EXCEPT ![job[t].sid] = g]
                                 /\ g.lines = job[t].hist /\ g.archive = file[job[t].sid].archive
        /\ pc[t] = "rewrite" /\ job[t].sid \in Sessions
    <3>1. job[t].sid \in Sessions /\ file[job[t].sid] \in Files(Msg)
      BY <1>a DEF JobType
    <3>2. CASE CompactRewrite(t)
      <4>1. file' = [file EXCEPT ![job[t].sid] = Rewritten(@, job[t].hist)] /\ pc[t] = "rewrite"
        BY <3>2 DEF CompactRewrite
      <4>2. /\ Rewritten(file[job[t].sid], job[t].hist).lines = job[t].hist
            /\ Rewritten(file[job[t].sid], job[t].hist).archive = file[job[t].sid].archive
        BY <3>1 DEF Rewritten, Files
      <4> QED
        BY <3>1, <4>1, <4>2
    <3>3. CASE RewriteFails(t)
      <4>1. /\ file' = file \/ file' = [file EXCEPT ![job[t].sid].lines = job[t].hist]
            /\ pc[t] = "rewrite"
        BY <3>3 DEF RewriteFails
      <4> DEFINE g == [file[job[t].sid] EXCEPT !.lines = job[t].hist]
      <4>2. g.lines = job[t].hist /\ g.archive = file[job[t].sid].archive
        BY <3>1 DEF Files
      <4>3. file' = file \/ file' = [file EXCEPT ![job[t].sid] = g]
        BY <4>1
      <4> HIDE DEF g
      <4> QED
        BY <3>1, <4>1, <4>2, <4>3
    <3> QED
      BY <1>5, <3>2, <3>3
  <2>2. CASE s # job[t].sid
    <3>1. file'[s] = file[s]
      BY <1>a, <2>1, <2>2
    <3> QED
      BY <3>1, NothingGone
  <2>3. CASE s = job[t].sid
    <3>1. Shares(crossed, job[t].sid, current)
      BY <2>1 DEF Stored, AtHome, TurnsAt, TurnAtHome, Compacting
    <3>2. s = current /\ CompactionKeeps(t)
      BY <1>a, <2>3, <3>1 DEF Shares, Stored, Calm, CompactionsKeep
    <3>3. ToSet(history) \subseteq file[s].archive \cup ToSet(job[t].hist)
      BY <2>1, <3>2 DEF CompactionKeeps
    <3>4. file' = file \/ (file'[s].lines = job[t].hist /\ file'[s].archive = file[s].archive)
      BY <1>a, <2>1, <2>3
    <3>5. CASE file'[s].lines = job[t].hist /\ file'[s].archive = file[s].archive
      BY <3>2, <3>3, <3>5 DEF KeptInFile
    <3> QED
      BY <1>2, <3>4, <3>5
  <2> QED
    BY <2>2, <2>3
<1>6. ASSUME NEW c \in Conns, Command(c)
      PROVE  KeptInFile(s)
  <2>1. CASE NewSession(c) \/ ResumeSwitch(c)
    BY <1>1, <1>a, <2>1 DEF NewSession, ResumeSwitch, StoreSaved
  <2>2. CASE ClearSession(c)
    <3>1. \/ file' = file
          \/ file' = [file EXCEPT ![current] = Truncated(@)]
          \/ file' = [file EXCEPT ![current] = PartTruncated(@)]
      BY <2>2 DEF ClearSession
    <3>2. \A f \in Files(Msg) : Truncated(f).lines = <<>> /\ PartTruncated(f).lines = <<>>
      BY DEF Truncated, PartTruncated, Files
    <3>3. file' # file => IF s = current THEN file'[s].lines = <<>> ELSE file'[s] = file[s]
      BY <1>a, <3>1, <3>2
    <3> QED
      BY <1>2, <3>1, <3>3, NothingGone DEF KeptInFile
  <2>3. CASE DeleteSwitch(c) \/ \E z \in Sessions : ResumeLoad(c, z)
    BY <1>2, <2>3 DEF DeleteSwitch, ResumeLoad, disk
  <2>4. ASSUME NEW z \in Sessions, DeleteFiles(c, z)
        PROVE  KeptInFile(s)
    <3>1. IF s = z THEN file'[s].lines = <<>> ELSE file'[s] = file[s]
      BY <1>a, <2>4 DEF DeleteFiles, Deleted, NoFiles
    <3> QED
      BY <3>1, NothingGone DEF KeptInFile
  <2> QED
    BY <1>6, <2>1, <2>2, <2>3, <2>4 DEF Command
<1>7. ASSUME Crash
      PROVE  KeptInFile(s)
  <2>1. PICK r \in Remains : file' = r.file
    BY <1>7 DEF Crash, StoreSaved
  <2>2. \A w \in BeingSaved : w \in Seq(Msg)
    BY <1>a, BeingSavedType
  <2>3. ASSUME NEW w \in BeingSaved, r.file = [file EXCEPT ![current] = MetaTorn(Appended(@, w))]
        PROVE  ToSet(file[s].lines) \subseteq ToSet(file'[s].lines)
    <3>a. s # current => file'[s] = file[s]
      BY <1>a, <2>1, <2>3
    <3>b. s = current => file'[s].lines = file[s].lines \o w
      BY <1>a, <2>1, <2>3 DEF MetaTorn, Appended, Files
    <3>1. file'[s].lines \in {file[s].lines, file[s].lines \o w}
      BY <3>a, <3>b
    <3>2. file[s].lines \in Seq(Msg)
      BY <1>a DEF Files
    <3> QED
      BY <2>2, <3>1, <3>2, AppendKeeps
  <2>4. ASSUME NEW w \in BeingSaved, NEW k \in 0 .. Len(w),
               r.file = [file EXCEPT ![current] = PartAppended(@, w, k)]
        PROVE  ToSet(file[s].lines) \subseteq ToSet(file'[s].lines)
    <3>a. s # current => file'[s] = file[s]
      BY <1>a, <2>1, <2>4
    <3>b. s = current => file'[s].lines = file[s].lines \o SubSeq(w, 1, k)
      BY <1>a, <2>1, <2>4 DEF PartAppended, Files
    <3>1. file'[s].lines \in {file[s].lines, file[s].lines \o SubSeq(w, 1, k)}
      BY <3>a, <3>b
    <3>2. file[s].lines \in Seq(Msg)
      BY <1>a DEF Files
    <3> QED
      BY <2>2, <3>1, <3>2, AppendKeeps
  <2>5. \/ r.file = file
        \/ \E w \in BeingSaved :
             \/ r.file = [file EXCEPT ![current] = MetaTorn(Appended(@, w))]
             \/ \E k \in 0 .. Len(w) : r.file = [file EXCEPT ![current] = PartAppended(@, w, k)]
    BY DEF Remains
  <2> QED
    BY <1>2, <2>1, <2>3, <2>4, <2>5, NothingGone
<1>8. ASSUME \/ UNCHANGED vars
             \/ \E z \in Sessions : DropTask(z)
             \/ \E t \in Turns : \/ \E kind \in {"input", "skill", "compact"} : Request(t, kind)
                                 \/ \E z \in Sessions : Continue(t, z)
                                 \/ TurnStep(t) /\ ~UserInput(t) /\ ~Save(t) /\ ~CompactArchive(t)
                                    /\ ~CompactRewrite(t) /\ ~ArchiveFails(t) /\ ~RewriteFails(t)
                                 \/ Blocks(t)
      PROVE  file' = file
  BY <1>8
     DEF vars, DropTask, Request, Continue, TurnStep, SkillInput, TaskInput, SkillFails, StartStream,
         Reply, UseTools, AbortUse, LoopEnds, ToolsDone, StartTask, Panic, Release, CompactBegin,
         CompactSnapshot, SummaryFails, CompactReplace, Blocks, disk
<1> QED
  BY <1>2, <1>3, <1>4, <1>5, <1>6, <1>7, <1>8 DEF Next

\* No save, switch, restart or compaction takes a message of the conversation out of
\* its file without moving it to the archive, unless a command crossed a stream at
\* that session; only clear and delete empty a file.
THEOREM NothingIsDropped == Spec => NothingDropped
<1>1. Stored /\ [Next]_vars => \A s \in Sessions \ crossed' : KeptInFile(s)
  BY FilesKept
<1>2. Spec => [][\A s \in Sessions \ crossed' : KeptInFile(s)]_vars
  BY <1>1, StoredInit, StoredStep, PTL DEF Spec
<1> QED
  BY <1>2 DEF NothingDropped, KeptInFile

-----------------------------------------------------------------------------
(* What the user counts on (Transcript).                                   *)

\* What Transcript sees of the files, and whether they are exact.
Lines(f)    == [s \in Sessions |-> f[s].lines]
Archives(f) == [s \in Sessions |-> f[s].archive]
Exact       == Steady /\ spent.fail = 0

\* Transcript's Store in these words.
Stores(conv) ==
  \E i, j \in 0 .. Len(conv) :
    /\ Exact => i = Len(Lines(file)[current])
    /\ Lines(file') = [Lines(file) EXCEPT ![current] = Lines(file)[current] \o SubSeq(conv, i + 1, j)]

\* Until the compacted history replaces the one in memory, it is a summary of two
\* messages and the rest of that history, whose beginning is archived.
Cut(t) ==
  /\ pc[t] = "rewrite" =>
       /\ Len(job[t].hist) >= 2
       /\ \E i \in 1 .. Len(history) - 1 :
            /\ ToSet(SubSeq(history, 1, i)) \subseteq file[current].archive
            /\ job[t].hist = SubSeq(job[t].hist, 1, 2) \o SubSeq(history, i + 1, Len(history))
  /\ pc[t] = "replace" => job[t].hist = file[current].lines

CutsKnown == Calm => \A t \in Turns : Cut(t)

\* The beginning of a sequence that was put together.
LEMMA FrontOf ==
  ASSUME NEW S, NEW a \in Seq(S), NEW b \in Seq(S)
  PROVE  SubSeq(a \o b, 1, Len(a)) = a /\ Len(a \o b) >= Len(a)
<1>1. Recorded(a, Len(a), a) /\ SubSeq(a, 1, Len(a)) = a /\ Len(a) \in Nat /\ Len(b) \in Nat
  BY WholeRecorded, LenProperties
<1>2. SubSeq(a \o b, 1, Len(a)) = SubSeq(a, 1, Len(a))
  BY <1>1, AppendRecorded
<1> QED
  BY <1>1, <1>2, ConcatProperties

\* What the archiving step of a compaction does, in terms of the history.
LEMMA ArchivePart ==
  ASSUME Stored, Calm, NEW t \in Turns, CompactArchive(t)
  PROVE  \E i \in 1 .. Len(history) - 1 :
           /\ file' = [file EXCEPT ![current] = Archived(@, SubSeq(history, 1, i))]
           /\ SubSeq(history, 1, i) \in Seq(Msg)
           /\ Len(job'[t].hist) >= 2
           /\ job'[t].hist = SubSeq(job'[t].hist, 1, 2) \o SubSeq(history, i + 1, Len(history))
<1>a. /\ job \in [Turns -> JobType] /\ history \in Seq(Msg) /\ TypeOK
      /\ job[t].sid = current /\ job[t].hist = history /\ job[t].home \in Sessions
  BY CalmTurn DEF CompactArchive, Stored, AtHome, TypeOK, Compacting, CompactionsKeep, CompactionKeeps,
                  JobType
<1> DEFINE front == <<NewMsg("summary", job[t].home, 1), NewMsg("boundary", job[t].home, 2)>>
<1>1. PICK i \in SplitPoints(history) :
        /\ file' = [file EXCEPT ![current] = Archived(@, SubSeq(history, 1, i))]
        /\ job' = [job EXCEPT ![t].hist = front \o SubSeq(history, i + 1, Len(history))]
  BY <1>a DEF CompactArchive
<1>2. i \in 1 .. Len(history) - 1 /\ Len(history) \in Nat
  BY <1>a, <1>1, LenProperties DEF SplitPoints
<1>3. /\ SubSeq(history, 1, i) \in Seq(Msg)
      /\ SubSeq(history, i + 1, Len(history)) \in Seq(Msg)
  BY <1>a, <1>2, SubSeqType
<1>4. NewMsg("summary", job[t].home, 1) \in Msg /\ NewMsg("boundary", job[t].home, 2) \in Msg
  BY <1>a, MsgType DEF Kinds
<1>5. front \in Seq(Msg) /\ Len(front) = 2
  BY <1>4
<1> HIDE DEF front
<1>6. job'[t].hist = front \o SubSeq(history, i + 1, Len(history))
  BY <1>a, <1>1 DEF JobType
<1>7. SubSeq(job'[t].hist, 1, 2) = front /\ Len(job'[t].hist) >= 2
  BY <1>3, <1>5, <1>6, FrontOf
<1> QED
  BY <1>1, <1>2, <1>3, <1>6, <1>7

\* Every step keeps what is known of a compaction that is about to be stored.
LEMMA CutsStep == Stored /\ CutsKnown /\ [Next]_vars => CutsKnown'
<1> SUFFICES ASSUME Stored, CutsKnown, [Next]_vars, Calm'
             PROVE  \A u \in Turns : Cut(u)'
  BY DEF CutsKnown
<1>a. /\ pc \in [Turns -> PCs] /\ job \in [Turns -> JobType] /\ TypeOK /\ StreamExclusive
      /\ file \in [Sessions -> Files(Msg)] /\ current \in Sessions
  BY DEF Stored, AtHome, TypeOK
<1>1. ASSUME \A u \in Turns : pc'[u] \notin {"rewrite", "replace"}
      PROVE  \A u \in Turns : Cut(u)'
  BY <1>1 DEF Cut
<1>2. ASSUME NEW t \in Turns,
             \/ \E kind \in {"input", "skill", "compact"} : Request(t, kind)
             \/ \E s \in Sessions : Continue(t, s)
      PROVE  \A u \in Turns : Cut(u)'
  <2>1. ~active /\ pc' = [pc EXCEPT ![t] = "acquired"]
    BY <1>2 DEF Request, Continue, TryAcquire, MayAcquire, Goto
  <2>2. \A u \in Turns : pc[u] = "free"
    BY <1>a, <2>1 DEF StreamExclusive, Holders
  <2> QED
    BY <1>1, <1>a, <2>1, <2>2
<1>3. ASSUME NEW t \in Turns, TurnStep(t) \/ Blocks(t)
      PROVE  \A u \in Turns : Cut(u)'
  <2>1. /\ pc[t] # "free" /\ \A u \in Turns \ {t} : pc'[u] = pc[u]
        /\ UNCHANGED <<current, crossed>>
    BY <1>3, <1>a, TurnFrame
  <2>b. Calm
    BY <2>1 DEF Calm
  <2>2. /\ \A u \in Turns \ {t} : pc'[u] = "free"
        /\ pc[t] \in Compacting => job[t].sid = current
    BY <2>1, <2>b, CalmTurn DEF Stored
  <2>3. Cut(t)' => \A u \in Turns : Cut(u)'
    BY <2>2 DEF Cut
  <2>4. CASE CompactArchive(t)
    <3>1. PICK i \in 1 .. Len(history) - 1 :
            /\ file' = [file EXCEPT ![current] = Archived(@, SubSeq(history, 1, i))]
            /\ Len(job'[t].hist) >= 2
            /\ job'[t].hist = SubSeq(job'[t].hist, 1, 2) \o SubSeq(history, i + 1, Len(history))
      BY <2>4, <2>b, ArchivePart
    <3>2. ToSet(SubSeq(history, 1, i)) \subseteq file'[current].archive
      BY <1>a, <3>1 DEF Archived, Files
    <3>3. pc'[t] = "rewrite" /\ UNCHANGED <<current, history>>
      BY <1>a, <2>4 DEF CompactArchive, Goto, memory
    <3> QED
      BY <2>3, <3>1, <3>2, <3>3 DEF Cut
  <2>5. CASE CompactRewrite(t)
    <3>1. job[t].sid = current
      BY <2>2, <2>5 DEF CompactRewrite, Compacting
    <3>2. file'[current].lines = job[t].hist
      BY <1>a, <2>5, <3>1 DEF CompactRewrite, Rewritten, Files
    <3>3. pc'[t] = "replace" /\ current' = current /\ job' = job
      BY <1>a, <2>5 DEF CompactRewrite, Goto, memory
    <3> QED
      BY <2>3, <3>2, <3>3 DEF Cut
  <2>6. CASE ~CompactArchive(t) /\ ~CompactRewrite(t)
    <3>1. pc'[t] \notin {"rewrite", "replace"}
      BY <1>3, <1>a, <2>6
         DEF TurnStep, UserInput, SkillInput, TaskInput, SkillFails, StartStream, Reply, UseTools,
             AbortUse, LoopEnds, ToolsDone, StartTask, Panic, Save, AfterSave, Release, CompactBegin,
             CompactSnapshot, SummaryFails, ArchiveFails, RewriteFails, CompactReplace, Blocks,
             AfterCompact, Goto
    <3> QED
      BY <1>1, <2>2, <3>1
  <2> QED
    BY <2>4, <2>5, <2>6
<1>4. ASSUME NEW c \in Conns, Command(c)
      PROVE  \A u \in Turns : Cut(u)'
  <2>1. pc' = pc /\ \A u \in Turns : pc[u] = "free"
    BY <1>4, CalmCommand DEF Stored
  <2> QED
    BY <1>1, <2>1
<1>5. ASSUME Crash
      PROVE  \A u \in Turns : Cut(u)'
  BY <1>1, <1>5 DEF Crash
<1>6. ASSUME UNCHANGED vars \/ \E s \in Sessions : DropTask(s)
      PROVE  \A u \in Turns : Cut(u)'
  <2>1. UNCHANGED <<pc, job, current, history, file, crossed>>
    BY <1>6 DEF vars, DropTask, memory, disk
  <2>2. \A u \in Turns : Cut(u)
    BY <2>1 DEF CutsKnown, Calm
  <2> QED
    BY <2>1, <2>2 DEF Cut
<1> QED
  BY <1>2, <1>3, <1>4, <1>5, <1>6 DEF Next

\* While the log is exact it is what persistedMsgCount counts.
LEMMA ExactCounts ==
  ASSUME Stored, Calm, Exact
  PROVE  /\ Len(file[current].lines) = persisted /\ persisted <= Len(history)
         /\ (\A t \in Turns : Clean(t)) => file[current].lines = history
<1>1. /\ history \in Seq(Msg) /\ persisted \in Nat /\ Len(history) \in Nat
  BY LenProperties DEF Stored, AtHome, TypeOK
<1>2. /\ Recorded(history, persisted, file[current].lines)
      /\ file[current].lines = SubSeq(history, 1, persisted)
      /\ (\A t \in Turns : Clean(t)) => persisted = Len(history)
  BY DEF Exact, Stored, HistoryRecorded
<1>3. persisted <= Len(history)
  BY <1>2 DEF Recorded
<1>4. Len(SubSeq(history, 1, persisted)) = persisted
  BY <1>1, <1>3, SubSeqProperties, ElementOfSeq
<1> QED
  BY <1>1, <1>2, <1>3, <1>4, WholeRecorded

\* The beginning of what is left to save is the part of the conversation that
\* follows the messages counted.
LEMMA UnsavedPart ==
  ASSUME TypeOK, NEW conv \in Seq(Msg), NEW k \in 0 .. Len(Unsaved(conv))
  PROVE  \E i, j \in 0 .. Len(conv) :
           /\ persisted <= Len(conv) => i = persisted
           /\ SubSeq(Unsaved(conv), 1, k) = SubSeq(conv, i + 1, j)
<1>1. /\ persisted \in Nat /\ Len(conv) \in Nat /\ k \in Nat /\ k <= Len(Unsaved(conv))
  BY LenProperties, UnsavedType DEF TypeOK
<1>2. CASE persisted <= Len(conv)
  <2>1. /\ Unsaved(conv) \in Seq(Msg) /\ Len(Unsaved(conv)) = Len(conv) - persisted
        /\ \A x \in 1 .. Len(conv) - persisted : Unsaved(conv)[x] = conv[persisted + x]
    BY <1>1, <1>2, SubSeqProperties, ElementOfSeq, UnsavedType DEF Unsaved
  <2>2. /\ SubSeq(Unsaved(conv), 1, k) \in Seq(Msg) /\ Len(SubSeq(Unsaved(conv), 1, k)) = k
        /\ \A x \in 1 .. k : SubSeq(Unsaved(conv), 1, k)[x] = conv[persisted + x]
    <3>1. SubSeq(Unsaved(conv), 1, k) \in Seq(Msg)
      BY <1>1, <2>1, SubSeqType
    <3>2. /\ Len(SubSeq(Unsaved(conv), 1, k)) = k
          /\ \A x \in 1 .. k : SubSeq(Unsaved(conv), 1, k)[x] = Unsaved(conv)[x]
      BY <1>1, <2>1, SubSeqProperties, ElementOfSeq
    <3> QED
      BY <1>1, <2>1, <3>1, <3>2
  <2> DEFINE j == persisted + k
  <2>3. j \in 0 .. Len(conv) /\ j >= persisted
    BY <1>1, <2>1
  <2>4. /\ SubSeq(conv, persisted + 1, j) \in Seq(Msg) /\ Len(SubSeq(conv, persisted + 1, j)) = k
        /\ \A x \in 1 .. k : SubSeq(conv, persisted + 1, j)[x] = conv[persisted + x]
    <3>1. SubSeq(conv, persisted + 1, j) \in Seq(Msg)
      BY <1>1, <2>3, SubSeqType
    <3>2. /\ Len(SubSeq(conv, persisted + 1, j)) =
               (IF persisted + 1 <= j THEN j - (persisted + 1) + 1 ELSE 0)
          /\ \A x \in 1 .. j - (persisted + 1) + 1 :
               SubSeq(conv, persisted + 1, j)[x] = conv[persisted + 1 + x - 1]
      <4> DEFINE m == persisted + 1
      <4>1. m \in 1 .. Len(conv) + 1 /\ j \in m - 1 .. Len(conv)
        BY <1>1, <2>3
      <4> HIDE DEF j, m
      <4>2. /\ Len(SubSeq(conv, m, j)) = IF m <= j THEN j - m + 1 ELSE 0
            /\ \A x \in 1 .. j - m + 1 : SubSeq(conv, m, j)[x] = conv[m + x - 1]
        BY <4>1, SubSeqProperties
      <4> QED  BY <4>2 DEF m
    <3>3. /\ j - (persisted + 1) + 1 = k /\ (persisted + 1 <= j <=> k # 0)
          /\ \A x \in 1 .. k : persisted + 1 + x - 1 = persisted + x
      BY <1>1
    <3> HIDE DEF j
    <3> QED
      BY <1>1, <3>1, <3>2, <3>3
  <2> HIDE DEF j
  <2>5. SubSeq(Unsaved(conv), 1, k) = SubSeq(conv, persisted + 1, j)
    BY <2>2, <2>4, SeqEqual
  <2>6. persisted \in 0 .. Len(conv)
    BY <1>1, <1>2
  <2> QED
    BY <2>3, <2>5, <2>6
<1>3. CASE ~(persisted <= Len(conv))
  <2>1. Len(Unsaved(conv)) = 0
    BY <1>1, <1>3, SubSeqProperties DEF Unsaved
  <2>2. SubSeq(Unsaved(conv), 1, k) = <<>>
    <3>1. k = 0 /\ Unsaved(conv) = <<>>
      BY <1>1, <2>1, UnsavedType, EmptySeq
    <3> QED
      BY <3>1
  <2>3. SubSeq(conv, 0 + 1, 0) = <<>> /\ 0 \in 0 .. Len(conv)
    BY <1>1, SubSeqProperties
  <2> QED
    BY <1>3, <2>2, <2>3
<1> QED
  BY <1>2, <1>3

\* A part of what is left to save that is added to the file is stored.
LEMMA PartStored ==
  ASSUME Stored, Calm, NEW conv \in Seq(Msg), Len(history) <= Len(conv),
         NEW k \in 0 .. Len(Unsaved(conv)),
         Lines(file') = [Lines(file) EXCEPT ![current] = file[current].lines \o SubSeq(Unsaved(conv), 1, k)]
  PROVE  Stores(conv)
<1>1. /\ TypeOK /\ current \in Sessions /\ Len(history) \in Nat /\ Len(conv) \in Nat
      /\ persisted \in Nat /\ Lines(file)[current] = file[current].lines
  BY LenProperties DEF Stored, AtHome, TypeOK, Lines
<1>2. PICK i, j \in 0 .. Len(conv) :
        /\ persisted <= Len(conv) => i = persisted
        /\ SubSeq(Unsaved(conv), 1, k) = SubSeq(conv, i + 1, j)
  BY <1>1, UnsavedPart
<1>3. Exact => i = Len(Lines(file)[current])
  BY <1>1, <1>2, ExactCounts
<1>4. Lines(file') = [Lines(file) EXCEPT ![current] = Lines(file)[current] \o SubSeq(conv, i + 1, j)]
  BY <1>1, <1>2
<1> QED
  BY <1>3, <1>4 DEF Stores

\* Files that keep their lines have stored nothing.
LEMMA NothingStored ==
  ASSUME Stored, Calm, NEW conv \in Seq(Msg), Len(history) <= Len(conv), Lines(file') = Lines(file)
  PROVE  Stores(conv)
<1>1. TypeOK /\ current \in Sessions /\ file \in [Sessions -> Files(Msg)]
  BY DEF Stored, AtHome, TypeOK
<1>2. Unsaved(conv) \in Seq(Msg) /\ 0 \in 0 .. Len(Unsaved(conv))
  BY <1>1, UnsavedType, LenProperties
<1>3. SubSeq(Unsaved(conv), 1, 0) = <<>>
  BY <1>2, SubSeqProperties
<1>4. file[current].lines \o <<>> = file[current].lines
  BY <1>1, ConcatEmptySeq DEF Files
<1>5. Lines(file') = [Lines(file) EXCEPT ![current] = file[current].lines \o SubSeq(Unsaved(conv), 1, 0)]
  BY <1>1, <1>3, <1>4 DEF Lines
<1> QED
  BY <1>2, <1>5, PartStored

\* So is every outcome of a save.
LEMMA SaveStores ==
  ASSUME Stored, Calm, NEW conv \in Seq(Msg), Len(history) <= Len(conv),
         NEW o \in SaveOutcomes(conv), file' = o.file
  PROVE  Stores(conv) /\ Archives(file') = Archives(file)
<1> DEFINE new == Unsaved(conv)
<1>1. /\ TypeOK /\ current \in Sessions /\ file \in [Sessions -> Files(Msg)]
      /\ file[current] \in Files(Msg) /\ new \in Seq(Msg)
  BY UnsavedType DEF Stored, AtHome, TypeOK
<1>2. \/ o.file = file
      \/ o.file = [file EXCEPT ![current] = Appended(@, new)]
      \/ \E k \in 0 .. Len(new) : o.file = [file EXCEPT ![current] = PartAppended(@, new, k)]
  BY DEF SaveOutcomes
<1>3. Len(new) \in 0 .. Len(new) /\ SubSeq(new, 1, Len(new)) = new
  BY <1>1, WholeRecorded, LenProperties
<1> HIDE DEF new
<1>4. ASSUME NEW k \in 0 .. Len(new), NEW g, file' = [file EXCEPT ![current] = g],
             g.lines = file[current].lines \o SubSeq(new, 1, k), g.archive = file[current].archive
      PROVE  Stores(conv) /\ Archives(file') = Archives(file)
  <2>1. /\ Lines(file') = [Lines(file) EXCEPT ![current] = g.lines]
        /\ g.archive = file[current].archive => Archives(file') = Archives(file)
    BY <1>1, <1>4 DEF Lines, Archives
  <2> QED
    BY <1>4, <2>1, PartStored DEF new
<1>5. /\ Appended(file[current], new).lines = file[current].lines \o new
      /\ Appended(file[current], new).archive = file[current].archive
      /\ \A k \in 0 .. Len(new) :
           /\ PartAppended(file[current], new, k).lines = file[current].lines \o SubSeq(new, 1, k)
           /\ PartAppended(file[current], new, k).archive = file[current].archive
  BY <1>1 DEF Appended, PartAppended, Files
<1>6. CASE o.file = file
  <2>1. Lines(file') = Lines(file) /\ Archives(file') = Archives(file)
    BY <1>6
  <2> QED
    BY <2>1, NothingStored
<1>7. CASE o.file = [file EXCEPT ![current] = Appended(@, new)]
  BY <1>3, <1>4, <1>5, <1>7
<1>8. CASE \E k \in 0 .. Len(new) : o.file = [file EXCEPT ![current] = PartAppended(@, new, k)]
  BY <1>4, <1>5, <1>8
<1> QED
  BY <1>2, <1>6, <1>7, <1>8

\* A step that adds to the conversation, and stores at most a part of it, is one
\* that Transcript allows; so is one that it does not see.
LEMMA SaidMore ==
  ASSUME Stored, Calm, crossed' = crossed, current' = current, Archives(file') = Archives(file),
         Exact' => Exact,
         NEW more \in Seq(Msg), history' = history \o more, Stores(history')
  PROVE  Conversation!Next
<1>1. history \in Seq(Msg)
  BY DEF Stored, AtHome, TypeOK
<1>2. Len(history) <= Len(history \o more) /\ Len(history) \in Nat /\ Len(history \o more) \in Nat
  BY <1>1, ConcatProperties, LenProperties
<1>3. SubSeq(history, 1, Len(history)) = history /\ SubSeq(history \o more, 1, Len(history)) = history
  BY <1>1, FrontOf, WholeRecorded
<1>4. IsPrefix(history, history')
  BY <1>2, <1>3 DEF IsPrefix
<1>5. Conversation!Say
  BY <1>4 DEF Conversation!Say, Conversation!Store, Conversation!IsPrefix, IsPrefix, Stores, Lines, Archives, Exact
<1> QED
  BY <1>5 DEF Conversation!Next, Calm

\* A step that goes on in a crossed session, or comes into one, and leaves alone the
\* files of those that are not.
LEMMA Unpromised ==
  ASSUME crossed \subseteq crossed', {current, current'} \subseteq crossed',
         \A s \in Sessions \ crossed' : file'[s] = file[s]
  PROVE  Conversation!Next
<1>1. \A s \in Sessions \ crossed' :
        Lines(file')[s] = Lines(file)[s] /\ Archives(file')[s] = Archives(file)[s]
  BY DEF Lines, Archives
<1>2. Conversation!Disturbed
  BY <1>1 DEF Conversation!Disturbed, Lines, Archives
<1> QED
  BY <1>2 DEF Conversation!Next

\* A step after which conversation and logs are the same.
LEMMA NothingSaid ==
  ASSUME Stored, Calm, UNCHANGED <<current, history, crossed>>, Lines(file') = Lines(file),
         Archives(file') = Archives(file), Exact' => Exact
  PROVE  Conversation!Next
<1>1. history \in Seq(Msg) /\ <<>> \in Seq(Msg)
  BY EmptySeq DEF Stored, AtHome, TypeOK
<1>2. history' = history \o <<>> /\ Len(history) <= Len(history)
  BY <1>1, ConcatEmptySeq, LenProperties
<1>3. Stores(history)
  BY <1>1, <1>2, NothingStored
<1>4. Stores(history')
  BY <1>3 DEF Stores
<1> QED
  BY <1>1, <1>2, <1>3, <1>4, SaidMore

\* The same of any session.
LEMMA NothingSeen ==
  ASSUME Stored, UNCHANGED <<current, history, file, crossed>>, Exact' => Exact
  PROVE  Conversation!Next
<1>1. Lines(file') = Lines(file) /\ Archives(file') = Archives(file)
  OBVIOUS
<1>2. CASE Calm
  BY <1>1, <1>2, NothingSaid
<1>3. CASE ~Calm
  BY <1>3, Unpromised DEF Calm
<1> QED
  BY <1>2, <1>3

\* Starting a stream says nothing.
LEMMA StartSeen ==
  ASSUME Stored, NEW t \in Turns,
         \/ \E kind \in {"input", "skill", "compact"} : Request(t, kind)
         \/ \E s \in Sessions : Continue(t, s)
  PROVE  Conversation!Next
<1>1. UNCHANGED <<current, history, file, stale, conn, spent>> /\ pc' = [pc EXCEPT ![t] = "acquired"]
      /\ pc[t] = "free" /\ pc \in [Turns -> PCs] /\ Starts
  BY DEF Request, Continue, TryAcquire, Goto, memory, disk, Stored, AtHome, TypeOK
<1>2. Exact' => Exact
  BY <1>1 DEF Exact, Steady
<1>3. CASE ConnsIdle
  BY <1>1, <1>2, <1>3, NothingSeen DEF Starts
<1>4. CASE ~ConnsIdle
  BY <1>1, <1>4, Unpromised DEF Starts
<1> QED
  BY <1>3, <1>4

\* The steps of a turn that write neither the history nor a file.
LEMMA QuietSeen ==
  ASSUME Stored, NEW t \in Turns,
         \/ SkillFails(t) \/ StartStream(t) \/ LoopEnds(t) \/ StartTask(t) \/ Panic(t) \/ Release(t)
         \/ CompactBegin(t) \/ CompactSnapshot(t) \/ SummaryFails(t) \/ Blocks(t)
  PROVE  Conversation!Next
<1>a. pc \in [Turns -> PCs] /\ spent \in SpentType
  BY DEF Stored, AtHome, TypeOK
<1>1. UNCHANGED <<current, history, file, stale, conn, crossed>> /\ pc[t] \notin {"free", "replace"}
  BY DEF SkillFails, StartStream, LoopEnds, StartTask, Panic, Release, CompactBegin, CompactSnapshot,
         SummaryFails, Blocks, Blocking, memory, disk
<1>2. \A u \in Turns \ {t} : pc'[u] = pc[u]
  BY <1>a DEF SkillFails, StartStream, LoopEnds, StartTask, Panic, Release, CompactBegin, CompactSnapshot,
         SummaryFails, Blocks, AfterCompact, Goto
<1>3. spent'.fail = 0 => spent.fail = 0
  BY <1>a DEF SkillFails, StartStream, LoopEnds, StartTask, Panic, Release, CompactBegin, CompactSnapshot,
         SummaryFails, Blocks, Spend, SpentType
<1>4. Exact' => Exact
  BY <1>1, <1>2, <1>3 DEF Exact, Steady
<1> QED
  BY <1>1, <1>4, NothingSeen

\* The steps of a turn that append to the history.
LEMMA AppendSeen ==
  ASSUME Stored, Calm, NEW t \in Turns,
         \/ SkillInput(t) \/ TaskInput(t) \/ Reply(t) \/ UseTools(t) \/ AbortUse(t) \/ ToolsDone(t)
  PROVE  Conversation!Next
<1>a. /\ pc \in [Turns -> PCs] /\ spent \in SpentType /\ history \in Seq(Msg)
  BY DEF Stored, AtHome, TypeOK
<1>1. /\ UNCHANGED <<current, file, stale, conn, crossed>> /\ pc[t] # "replace"
      /\ \A u \in Turns \ {t} : pc'[u] = pc[u]
      /\ spent'.fail = spent.fail
  BY <1>a DEF SkillInput, TaskInput, Reply, UseTools, AbortUse, ToolsDone, Goto, disk, Spend, SpentType
<1>2. Exact' => Exact
  BY <1>1 DEF Exact, Steady
<1>3. PICK more \in Seq(Msg) : history' = history \o more
  BY AppendedMessages
<1>4. history' \in Seq(Msg) /\ Len(history) <= Len(history')
  BY <1>a, <1>3, ConcatProperties, FrontOf
<1>b. Lines(file') = Lines(file) /\ Archives(file') = Archives(file)
  BY <1>1
<1>5. Stores(history')
  <2>1. PICK conv \in Seq(Msg) : conv = history' /\ Len(history) <= Len(conv)
    BY <1>4
  <2>2. Stores(conv)
    BY <1>b, <2>1, NothingStored
  <2> QED
    BY <2>1, <2>2 DEF Stores
<1> QED
  BY <1>1, <1>2, <1>3, <1>5, <1>b, SaidMore

\* The steps of a turn that save.
LEMMA SavingSeen ==
  ASSUME Stored, Calm, NEW t \in Turns, UserInput(t) \/ Save(t)
  PROVE  Conversation!Next
<1>a. /\ pc \in [Turns -> PCs] /\ spent \in SpentType /\ history \in Seq(Msg) /\ TypeOK /\ SessionsKnown
  BY DEF Stored, AtHome, TypeOK
<1>1. /\ UNCHANGED <<conn, current, stale, crossed>> /\ pc[t] # "replace"
      /\ \A u \in Turns \ {t} : pc'[u] = pc[u]
  BY <1>a DEF UserInput, Save, Goto, SavePoints
<1>2. /\ history' \in Seq(Msg) /\ \E more \in Seq(Msg) : history' = history \o more
      /\ \E o \in SaveOutcomes(history') : StoreSaved(o) /\ spent'.fail = spent.fail + o.fail
  BY SavedHistory
<1> DEFINE hist == history'
<1>3. PICK o \in SaveOutcomes(hist) : file' = o.file /\ spent'.fail = spent.fail + o.fail
  BY <1>2 DEF StoreSaved
<1>4. PICK more \in Seq(Msg) : hist = history \o more
  BY <1>2
<1>5. hist \in Seq(Msg) /\ history' = hist
  BY <1>2
<1> HIDE DEF hist
<1>6. spent.fail \in Nat /\ o.fail \in Nat
  BY <1>a, <1>5, SaveAdds DEF SpentType
<1>7. Exact' => Exact
  <2>1. spent'.fail = 0 => spent.fail = 0
    BY <1>3, <1>6
  <2> QED
    BY <1>1, <2>1 DEF Exact, Steady
<1>8. Len(history) <= Len(hist)
  BY <1>a, <1>4, FrontOf
<1>9. Stores(hist) /\ Archives(file') = Archives(file)
  BY <1>3, <1>5, <1>8, SaveStores DEF Stores, Archives
<1>10. Stores(history')
  BY <1>5, <1>9 DEF Stores
<1> QED
  BY <1>1, <1>4, <1>5, <1>7, <1>9, <1>10, SaidMore

\* The steps of a compaction that write: the beginning of the conversation is
\* archived, then the log is rewritten, then the conversation.
LEMMA CompactSeen ==
  ASSUME Stored, CutsKnown, Calm, NEW t \in Turns,
         \/ CompactArchive(t) \/ CompactRewrite(t) \/ ArchiveFails(t) \/ RewriteFails(t)
         \/ CompactReplace(t)
  PROVE  Conversation!Next
<1>a. /\ pc \in [Turns -> PCs] /\ job \in [Turns -> JobType] /\ spent \in SpentType
      /\ file \in [Sessions -> Files(Msg)] /\ current \in Sessions /\ history \in Seq(Msg) /\ TypeOK
      /\ file[current] \in Files(Msg) /\ Cut(t) /\ CompactionKeeps(t)
  BY DEF Stored, AtHome, TypeOK, CutsKnown, CompactionsKeep
<1>b. /\ crossed' = crossed /\ current' = current /\ UNCHANGED conn
      /\ job[t].sid = current /\ pc[t] \in Compacting
  <2>1. /\ crossed' = crossed /\ current' = current /\ UNCHANGED conn /\ pc[t] # "free"
    BY <1>a, TurnFrame DEF TurnStep
  <2>2. pc[t] \in Compacting
    BY DEF CompactArchive, CompactRewrite, ArchiveFails, RewriteFails, CompactReplace, Compacting
  <2> QED
    BY <2>1, <2>2, CalmTurn DEF Stored
<1>d. ASSUME spent' = Spend("fail", 1)
      PROVE  ~Exact'
  <2>1. spent'.fail = spent.fail + 1 /\ spent.fail \in Nat
    BY <1>a, <1>d DEF Spend, SpentType
  <2> QED
    BY <2>1 DEF Exact
<1>e. ASSUME NEW i \in 1 .. Len(history) - 1,
             file' = [file EXCEPT ![current] = Archived(@, SubSeq(history, 1, i))],
             history' = history, Exact' => Exact
      PROVE  Conversation!Next
  <2>1. /\ Archives(file') = [Archives(file) EXCEPT ![current] = @ \cup ToSet(SubSeq(history, 1, i))]
        /\ Lines(file') = Lines(file)
    BY <1>a, <1>e DEF Archived, Files, Lines, Archives
  <2>2. Conversation!Archive
    BY <1>b, <1>e, <2>1 DEF Conversation!Archive, Conversation!ToSet, ToSet, Lines, Archives, Exact
  <2> QED
    BY <1>b, <2>2 DEF Conversation!Next, Calm
<1>f. ASSUME pc[t] = "rewrite", NEW g, file' = [file EXCEPT ![current] = g],
             g.lines = job[t].hist, g.archive = file[current].archive, history' = history, ~Exact'
      PROVE  Conversation!Next
  <2>2. /\ Lines(file') = [Lines(file) EXCEPT ![current] = job[t].hist]
        /\ Archives(file') = Archives(file)
    BY <1>a, <1>f DEF Lines, Archives
  <2>3. PICK i \in 1 .. Len(history) - 1 :
          /\ Len(job[t].hist) >= 2
          /\ ToSet(SubSeq(history, 1, i)) \subseteq Archives(file)[current]
          /\ job[t].hist = SubSeq(job[t].hist, 1, 2) \o SubSeq(history, i + 1, Len(history))
    BY <1>f, <1>a DEF Cut, Archives
  <2>4. Lines(file')[current] = job[t].hist
    BY <1>a, <2>2 DEF Lines
  <2>5. UNCHANGED <<current, history>> /\ ~Exact'
    BY <1>b, <1>f
  <2>6. Conversation!Summarise
    BY <2>2, <2>3, <2>4, <2>5
       DEF Conversation!Summarise, Conversation!ToSet, ToSet, Lines, Archives, Exact
  <2> QED
    BY <1>b, <2>6 DEF Conversation!Next, Calm
<1>1. CASE CompactArchive(t)
  <2>1. PICK i \in 1 .. Len(history) - 1 :
          file' = [file EXCEPT ![current] = Archived(@, SubSeq(history, 1, i))]
    BY <1>1, ArchivePart
  <2>2. UNCHANGED <<history, stale, conn>> /\ pc' = [pc EXCEPT ![t] = "rewrite"]
        /\ pc[t] = "summarise" /\ spent'.fail = spent.fail
    BY <1>1, <1>a DEF CompactArchive, memory, Goto, Spend, SpentType
  <2>3. Exact' => Exact
    BY <1>a, <1>b, <2>2 DEF Exact, Steady
  <2> QED
    BY <1>e, <2>1, <2>2, <2>3
<1>2. CASE ArchiveFails(t)
  <2>1. PICK i \in 0 .. Len(history) - 1 :
          file' = [file EXCEPT ![current] = Archived(@, SubSeq(history, 1, i))]
    BY <1>2, <1>a, <1>b DEF ArchiveFails, CompactionKeeps
  <2>2. history' = history /\ ~Exact'
    BY <1>2, <1>d DEF ArchiveFails, memory
  <2>3. CASE i = 0
    <3>1. ToSet(SubSeq(history, 1, i)) = {}
      <4>1. SubSeq(history, 1, i) = <<>>
        BY <1>a, <2>3
      <4> QED
        BY <4>1 DEF ToSet
    <3>2. Archived(file[current], SubSeq(history, 1, i)).lines = file[current].lines
          /\ Archived(file[current], SubSeq(history, 1, i)).archive = file[current].archive
      BY <1>a, <3>1 DEF Archived, Files
    <3>3. Lines(file') = Lines(file) /\ Archives(file') = Archives(file)
      BY <1>a, <2>1, <3>2 DEF Lines, Archives
    <3> QED
      BY <1>b, <2>2, <3>3, NothingSaid
  <2>4. CASE i # 0
    <3>1. i \in 1 .. Len(history) - 1
      BY <1>a, <2>4, LenProperties
    <3> QED
      BY <1>e, <2>1, <2>2, <3>1
  <2> QED
    BY <2>3, <2>4
<1>3. CASE CompactRewrite(t)
  <2>1. /\ file' = [file EXCEPT ![current] = Rewritten(@, job[t].hist)] /\ pc[t] = "rewrite"
        /\ history' = history /\ pc' = [pc EXCEPT ![t] = "replace"]
    BY <1>3, <1>b DEF CompactRewrite, memory, Goto
  <2>2. /\ Rewritten(file[current], job[t].hist).lines = job[t].hist
        /\ Rewritten(file[current], job[t].hist).archive = file[current].archive
    BY <1>a DEF Rewritten, Files
  <2>3. ~Exact'
    BY <1>a, <2>1 DEF Exact, Steady
  <2> QED
    BY <1>f, <2>1, <2>2, <2>3
<1>4. CASE RewriteFails(t)
  <2>1. /\ file' = file \/ file' = [file EXCEPT ![current].lines = job[t].hist]
        /\ pc[t] = "rewrite" /\ history' = history /\ ~Exact'
    BY <1>4, <1>b, <1>d DEF RewriteFails
  <2>2. CASE file' = file
    <3>1. Lines(file') = Lines(file) /\ Archives(file') = Archives(file)
      BY <2>2
    <3> QED
      BY <1>b, <2>1, <3>1, NothingSaid
  <2>3. CASE file' = [file EXCEPT ![current].lines = job[t].hist]
    <3> DEFINE g == [file[current] EXCEPT !.lines = job[t].hist]
    <3>1. g.lines = job[t].hist /\ g.archive = file[current].archive
      BY <1>a DEF Files
    <3>2. file' = [file EXCEPT ![current] = g]
      BY <2>3
    <3> HIDE DEF g
    <3> QED
      BY <1>f, <2>1, <3>1, <3>2
  <2> QED
    BY <2>1, <2>2, <2>3
<1>5. CASE CompactReplace(t)
  <2>1. history' = Lines(file)[current] /\ file' = file /\ ~Exact'
    BY <1>5, <1>a DEF CompactReplace, Cut, Lines, disk, Exact, Steady
  <2>2. Conversation!Continue
    BY <1>b, <2>1 DEF Conversation!Continue, Lines, Archives, Exact
  <2> QED
    BY <1>b, <2>2 DEF Conversation!Next, Calm
<1> QED
  BY <1>1, <1>2, <1>3, <1>4, <1>5

\* In a crossed session a turn writes no files but those of crossed sessions.
LEMMA TurnLost ==
  ASSUME Stored, ~Calm, NEW t \in Turns, TurnStep(t) \/ Blocks(t)
  PROVE  Conversation!Next
<1>1. TypeOK /\ SessionsKnown /\ UNCHANGED <<current, crossed>>
  BY TurnFrame DEF Stored, AtHome
<1>2. PICK s \in used : /\ \A r \in Sessions \ {s} : file'[r] = file[r]
                        /\ s = current \/ (s = job[t].sid /\ pc[t] \in Compacting)
  BY <1>1, TurnWrites
<1>3. pc[t] \in Compacting => Shares(crossed, job[t].sid, current)
  BY DEF Stored, AtHome, TurnsAt, TurnAtHome
<1>4. s \in crossed
  BY <1>2, <1>3 DEF Shares, Calm
<1> QED
  BY <1>1, <1>2, <1>4, Unpromised DEF Calm

\* Every step of a goroutine that holds the stream.
LEMMA TurnSeen ==
  ASSUME Stored, CutsKnown, NEW t \in Turns, TurnStep(t) \/ Blocks(t)
  PROVE  Conversation!Next
BY TurnLost, QuietSeen, AppendSeen, SavingSeen, CompactSeen DEF TurnStep

\* A session is opened.
LEMMA OpenSeen ==
  ASSUME Stored, Calm, crossed' = crossed, NEW s \in Sessions, Exact => Lines(file)[current] = history,
         Stores(history), Archives(file') = Archives(file),
         current' = s, history' = Lines(file)[s], Exact' => Lines(file')[s] = Lines(file)[s]
  PROVE  Conversation!Next
<1>1. Conversation!Open(s)
  BY DEF Conversation!Open, Conversation!Store, Stores, Lines, Archives, Exact
<1> QED
  BY <1>1 DEF Conversation!Next, Calm

\* A session is deleted.
LEMMA DeleteSeen ==
  ASSUME Stored, NEW c \in Conns, NEW s \in Sessions, DeleteFiles(c, s), crossed' = crossed
  PROVE  Conversation!Next
<1>a. conn \in [Conns -> ConnType] /\ spent \in SpentType /\ file \in [Sessions -> Files(Msg)]
  BY DEF Stored, AtHome, TypeOK
<1>1. /\ UNCHANGED <<memory, pc>> /\ ConnIdle(c)
      /\ file' = [file EXCEPT ![s] = NoFiles]
      /\ conn' = [conn EXCEPT ![c].at = "delete", ![c].sid = s]
      /\ spent' = Spend("commands", 1)
  BY DEF DeleteFiles, MayCommand, Deleted
<1>2. /\ Lines(file') = [Lines(file) EXCEPT ![s] = <<>>]
      /\ Archives(file') = [Archives(file) EXCEPT ![s] = {}]
  BY <1>a, <1>1 DEF NoFiles, Lines, Archives
<1>3. /\ conn'[c].at = "delete" /\ conn'[c].sid = s
      /\ \A d \in Conns \ {c} : conn'[d] = conn[d]
  BY <1>a, <1>1 DEF ConnType
<1>4. spent'.fail = spent.fail
  BY <1>a, <1>1 DEF Spend, SpentType
<1>5. Exact' => Exact /\ s # current
  BY <1>1, <1>3, <1>4 DEF Exact, Steady, memory, ConnIdle
<1>6. Conversation!Delete(s)
  BY <1>1, <1>2, <1>5 DEF Conversation!Delete, Lines, Archives, Exact, memory
<1> QED
  BY <1>6 DEF Conversation!Next

\* The session commands, in a session that nothing crosses.
LEMMA CommandSeen ==
  ASSUME Stored, Calm, NEW c \in Conns, Command(c), ~Overlaps(c)
  PROVE  Conversation!Next
<1>a. /\ conn \in [Conns -> ConnType] /\ spent \in SpentType /\ persisted \in Nat
      /\ file \in [Sessions -> Files(Msg)] /\ history \in Seq(Msg) /\ TypeOK /\ SessionsKnown
      /\ current \in Sessions /\ current \in used /\ order \in Seq(used) /\ used \subseteq Sessions
      /\ \A s \in Sessions \ used : file[s] = NoFiles
  BY DEF Stored, AtHome, TypeOK, SessionsKnown
<1>b. crossed' = crossed /\ \A d \in Conns \ {c} : ConnIdle(d)
  BY CommandCrosses DEF Stored, AtHome
<1>c. pc' = pc /\ \A u \in Turns : pc[u] = "free" /\ Clean(u)
  BY CommandCrosses, CommandFrame DEF Stored, AtHome, Clean
<1>d. Exact => Lines(file)[current] = history
  BY <1>a, <1>c, ExactCounts DEF Lines
<1>e. Len(history) <= Len(history)
  BY <1>a, LenProperties
<1>1. ASSUME NEW o \in SaveOutcomes(history), file' = o.file
      PROVE  /\ Stores(history) /\ Archives(file') = Archives(file)
             /\ \A s \in Sessions \ {current} : Lines(file')[s] = Lines(file)[s]
  BY <1>1, <1>a, <1>e, SaveStores, SaveAdds DEF Lines
<1>2. ASSUME file' = file
      PROVE  /\ Stores(history) /\ Archives(file') = Archives(file)
             /\ \A s \in Sessions : Lines(file')[s] = Lines(file)[s]
  <2>1. Lines(file') = Lines(file) /\ Archives(file') = Archives(file)
    BY <1>2
  <2> QED
    BY <1>a, <1>e, <2>1, NothingStored
<1>3. CASE NewSession(c)
  <2>1. PICK o \in SaveOutcomes(history), s \in Fresh :
          StoreSaved(o) /\ SwitchTo(s, <<>>)
    BY <1>3 DEF NewSession
  <2>2. s \in Sessions \ used /\ s # current
    BY <1>a, <2>1 DEF Fresh
  <2>3. Lines(file)[s] = <<>>
    BY <1>a, <2>2 DEF NoFiles, Lines
  <2>4. Stores(history) /\ Archives(file') = Archives(file) /\ Lines(file')[s] = Lines(file)[s]
    BY <1>1, <2>1, <2>2 DEF StoreSaved
  <2> QED
    BY <1>b, <1>d, <2>1, <2>2, <2>3, <2>4, OpenSeen DEF SwitchTo
<1>4. CASE ClearSession(c)
  <2>1. current' = current /\ history' = <<>>
    BY <1>4 DEF ClearSession, SwitchTo
  <2>2. CASE \/ file' = [file EXCEPT ![current] = Truncated(@)]
             \/ file' = [file EXCEPT ![current] = PartTruncated(@)]
    <3>a. \A f \in Files(Msg) : /\ Truncated(f).lines = <<>> /\ PartTruncated(f).lines = <<>>
                                /\ Truncated(f).archive = {} /\ PartTruncated(f).archive = {}
      BY DEF Truncated, PartTruncated, Files
    <3>b. PICK g : /\ file' = [file EXCEPT ![current] = g]
                   /\ g.lines = <<>> /\ g.archive = {}
      BY <1>a, <2>2, <3>a
    <3>1. /\ Lines(file') = [Lines(file) EXCEPT ![current] = <<>>]
          /\ Archives(file') = [Archives(file) EXCEPT ![current] = {}]
      BY <1>a, <3>b DEF Lines, Archives
    <3> QED
      BY <1>b, <2>1, <3>1 DEF Conversation!Next, Conversation!Clear, Lines, Archives, Calm
  <2>3. CASE file' = file /\ spent' = SpendAndFail("commands", 1)
    <3>1. spent'.fail # 0
      <4>1. Spend("commands", 1) \in SpentType
        BY <1>a, SpendType
      <4>2. ASSUME NEW x \in SpentType
            PROVE  [x EXCEPT !.fail = @ + 1].fail # 0
        BY DEF SpentType
      <4> QED
        BY <2>3, <4>1, <4>2 DEF SpendAndFail
    <3>2. ~Exact' /\ Lines(file') = Lines(file) /\ Archives(file') = Archives(file)
      BY <2>3, <3>1 DEF Exact, Lines, Archives
    <3> QED
      BY <1>b, <2>1, <3>2 DEF Conversation!Next, Conversation!Clear, Lines, Archives, Exact, Calm
  <2> QED
    BY <1>4, <2>2, <2>3 DEF ClearSession
<1>5. CASE ResumeSwitch(c)
  <2> DEFINE s == conn[c].sid
  <2>1. PICK o \in SaveOutcomes(history) :
          StoreSaved(o) /\ spent' = Spend("fail", o.fail)
    BY <1>5 DEF ResumeSwitch
  <2>2. /\ conn[c].at = "resume" /\ current' = s /\ history' = conn[c].lines
        /\ stale' = (stale /\ s = current)
    BY <1>5 DEF ResumeSwitch, SwitchTo
  <2>3. s \in Sessions /\ conn[c].lines = Lines(file)[s]
    BY <1>a, <2>2 DEF Stored, LoadedIsStored, Lines, ConnType, Calm
  <2>4. ASSUME Exact', s = current
        PROVE  file' = file
    <3>1. ~stale /\ spent.fail = 0 /\ o.fail = 0
      <4>1. spent.fail + o.fail = 0 /\ spent.fail \in Nat /\ o.fail \in Nat
        BY <1>a, <2>1, <2>4, SaveAdds DEF Exact, Spend, SpentType
      <4>2. ~stale
        BY <2>2, <2>4, Zenon DEF Exact, Steady
      <4> QED
        BY <4>1, <4>2
    <3>2. \A d \in Conns : conn[d].at # "delete"
      BY <1>b, <2>2 DEF ConnIdle
    <3>3. Steady
      BY <1>c, <3>1, <3>2 DEF Steady
    <3>4. /\ Recorded(history, persisted, file[current].lines)
          /\ file[current].lines = SubSeq(history, 1, persisted) /\ persisted = Len(history)
      BY <1>c, <3>1, <3>3 DEF Stored, HistoryRecorded
    <3> QED
      BY <1>a, <2>1, <3>1, <3>4, SaveRecords DEF StoreSaved
  <2>5. /\ Stores(history) /\ Archives(file') = Archives(file)
        /\ \A z \in Sessions \ {current} : Lines(file')[z] = Lines(file)[z]
    BY <1>1, <2>1 DEF StoreSaved
  <2>6. Exact' => Lines(file')[s] = Lines(file)[s]
    BY <1>2, <2>3, <2>4, <2>5
  <2> HIDE DEF s
  <2> QED
    BY <1>b, <1>d, <2>2, <2>3, <2>5, <2>6, OpenSeen
<1>6. CASE DeleteSwitch(c)
  <2>1. conn[c].at = "delete" /\ file' = file /\ spent' = spent
        /\ conn' = [conn EXCEPT ![c] = NoCommand(current')]
    BY <1>6 DEF DeleteSwitch, disk
  <2>2. CASE current = conn[c].sid
    <3>1. /\ current' \in used' /\ history' = file[current'].lines
      BY <1>6, <1>a, <2>2, OpenRecords DEF DeleteSwitch
    <3>2. current' \in Sessions
      BY <1>a, TypeStep DEF Next, TypeOK
    <3> DEFINE s == current'
    <3>3. s \in Sessions /\ history' = Lines(file)[s] /\ Lines(file')[s] = Lines(file)[s]
      BY <2>1, <3>1, <3>2 DEF Lines
    <3>4. current' = s
      OBVIOUS
    <3> HIDE DEF s
    <3> QED
      BY <1>2, <1>b, <1>d, <2>1, <3>3, <3>4, OpenSeen
  <2>3. CASE current # conn[c].sid
    <3>1. UNCHANGED memory
      BY <1>6, <2>3 DEF DeleteSwitch
    <3>2. \A d \in Conns : d # c => conn'[d] = conn[d]
      BY <1>a, <2>1
    <3>3. Exact' => Exact
      BY <1>c, <2>1, <2>3, <3>1, <3>2 DEF Exact, Steady, memory
    <3> QED
      BY <1>b, <2>1, <3>1, <3>3, NothingSeen DEF memory
  <2> QED
    BY <2>2, <2>3
<1>7. ASSUME NEW s \in Sessions, ResumeLoad(c, s)
      PROVE  Conversation!Next
  <2>1. /\ UNCHANGED <<current, history, file, stale>> /\ ConnIdle(c)
        /\ conn' = [conn EXCEPT ![c] = [at |-> "resume", sid |-> s, lines |-> file[s].lines]]
        /\ spent' = Spend("commands", 1)
    BY <1>7 DEF ResumeLoad, MayCommand, memory, disk
  <2>2. Exact' => Exact
    BY <1>a, <1>c, <2>1 DEF Exact, Steady, ConnIdle, Spend, SpentType
  <2> QED
    BY <1>b, <2>1, <2>2, NothingSeen
<1>8. ASSUME NEW s \in Sessions, DeleteFiles(c, s)
      PROVE  Conversation!Next
  BY <1>8, <1>b, DeleteSeen
<1> QED
  BY <1>3, <1>4, <1>5, <1>6, <1>7, <1>8 DEF Command

\* From a crossed session to one that is not.
LEMMA Returns ==
  ASSUME ~Calm, Calm', crossed' = crossed, current' \in Sessions, history' = file[current'].lines,
         \A r \in Sessions \ {current} : file'[r] = file[r]
  PROVE  Conversation!Next
<1>1. PICK s \in Sessions : /\ current' = s /\ s \notin crossed /\ current \in crossed
                            /\ history' = Lines(file)[s]
  BY DEF Calm, Lines
<1>2. \A r \in Sessions \ crossed :
        Lines(file')[r] = Lines(file)[r] /\ Archives(file')[r] = Archives(file)[r]
  BY <1>1 DEF Lines, Archives
<1>3. Conversation!Return(s)
  BY <1>1, <1>2 DEF Conversation!Return, Lines, Archives
<1> QED
  BY <1>1, <1>3 DEF Conversation!Next

\* The session commands where one is crossed.
LEMMA CommandLost ==
  ASSUME Stored, NEW c \in Conns, Command(c), ~Calm \/ Overlaps(c)
  PROVE  Conversation!Next
<1>a. /\ conn \in [Conns -> ConnType] /\ file \in [Sessions -> Files(Msg)] /\ history \in Seq(Msg)
      /\ TypeOK /\ StreamExclusive /\ SessionsKnown /\ current \in Sessions /\ current \in used
      /\ order \in Seq(used) /\ used \subseteq Sessions
      /\ \A s \in Sessions \ used : file[s] = NoFiles
  BY DEF Stored, AtHome, TypeOK, SessionsKnown
<1>b. /\ crossed \subseteq crossed' /\ current \in crossed'
      /\ Overlaps(c) => current' \in crossed'
      /\ ~Overlaps(c) => crossed' = crossed
  BY <1>a, CommandCrosses DEF Calm
<1>c. current' \in Sessions
  BY <1>a, TypeStep DEF Next, TypeOK
<1>1. ASSUME ~\E s \in Sessions : DeleteFiles(c, s)
      PROVE  /\ \A r \in Sessions \ {current} : file'[r] = file[r]
             /\ Calm' /\ current' # current => history' = file[current'].lines
  <2>1. CASE NewSession(c)
    <3>1. PICK o \in SaveOutcomes(history), s \in Fresh : StoreSaved(o) /\ SwitchTo(s, <<>>)
      BY <2>1 DEF NewSession
    <3>2. file[s].lines = <<>>
      BY <1>a, <3>1 DEF Fresh, NoFiles
    <3> QED
      BY <1>a, <3>1, <3>2, SaveAdds DEF StoreSaved, SwitchTo
  <2>2. CASE ClearSession(c)
    BY <1>a, <2>2 DEF ClearSession, SwitchTo
  <2>3. CASE ResumeSwitch(c)
    <3>1. PICK o \in SaveOutcomes(history) : StoreSaved(o)
      BY <2>3 DEF ResumeSwitch
    <3>2. conn[c].at = "resume" /\ current' = conn[c].sid /\ history' = conn[c].lines
      BY <2>3 DEF ResumeSwitch, SwitchTo
    <3>3. Calm' => conn[c].lines = file[conn[c].sid].lines
      BY <1>b, <3>2 DEF Stored, LoadedIsStored, Calm
    <3> QED
      BY <1>a, <3>1, <3>2, <3>3, SaveAdds DEF StoreSaved
  <2>4. CASE DeleteSwitch(c)
    <3>1. current' # current => OpenLatest(file, order)
      BY <2>4 DEF DeleteSwitch, memory
    <3>2. current' # current => history' = file[current'].lines
      BY <1>a, <3>1, OpenRecords
    <3> QED
      BY <2>4, <3>2 DEF DeleteSwitch, disk
  <2>5. CASE \E s \in Sessions : ResumeLoad(c, s)
    BY <2>5 DEF ResumeLoad, disk, memory
  <2> QED
    BY <1>1, <2>1, <2>2, <2>3, <2>4, <2>5 DEF Command
<1>2. ASSUME NEW s \in Sessions, DeleteFiles(c, s)
      PROVE  Conversation!Next
  <2>1. CASE crossed' = crossed
    BY <1>2, <2>1, DeleteSeen
  <2>2. CASE crossed' # crossed
    <3>1. {current, current', s} \subseteq crossed'
      BY <1>2, <2>2 DEF DeleteFiles, Crosses
    <3>2. \A r \in Sessions \ {s} : file'[r] = file[r]
      BY <1>2, <1>a DEF DeleteFiles
    <3> QED
      BY <1>b, <3>1, <3>2, Unpromised
  <2> QED
    BY <2>1, <2>2
<1>3. CASE ~\E s \in Sessions : DeleteFiles(c, s)
  <2>1. CASE current' \in crossed'
    BY <1>1, <1>3, <1>b, <2>1, Unpromised
  <2>2. CASE current' \notin crossed'
    <3>1. crossed' = crossed /\ ~Calm /\ Calm' /\ current' # current
      BY <1>b, <2>2 DEF Calm
    <3> QED
      BY <1>1, <1>3, <1>c, <3>1, Returns
  <2> QED
    BY <2>1, <2>2
<1> QED
  BY <1>2, <1>3

\* A save that the end of the process cut short stored a part of the conversation,
\* or of the conversation and the prompt that was being written, which is then in
\* the log.
LEMMA CutShort ==
  ASSUME Stored, Calm, NEW w \in BeingSaved, w # <<>>, NEW k \in 0 .. Len(w),
         Lines(file') = [Lines(file) EXCEPT ![current] = file[current].lines \o SubSeq(w, 1, k)]
  PROVE  Stores(history) \/ \E m \in ToSet(Lines(file')[current]) : Stores(Append(history, m))
<1>1. /\ TypeOK /\ current \in Sessions /\ history \in Seq(Msg) /\ persisted \in Nat
      /\ w \in Seq(Msg) /\ file[current].lines \in Seq(Msg)
  BY BeingSavedType DEF Stored, AtHome, TypeOK, Files
<1>2. PICK hist \in Seq(Msg), m \in Msg : hist = history /\ m = NewMsg("user", current, 1)
  BY <1>1, MsgType DEF Kinds
<1>3. PICK typed \in Seq(Msg) : typed = Append(hist, m)
  BY <1>2, AppendProperties
<1>4. /\ Len(typed) = Len(hist) + 1 /\ typed[Len(hist) + 1] = m
      /\ \A i \in 1 .. Len(hist) : typed[i] = hist[i]
      /\ Len(hist) \in Nat /\ Len(hist) <= Len(hist) /\ Len(hist) <= Len(typed)
  BY <1>3, AppendProperties, LenProperties
<1>5. w = Unsaved(hist) \/ w = Unsaved(typed)
  BY <1>2, <1>3 DEF BeingSaved
<1>6. ASSUME NEW conv \in {hist, typed}, NEW n \in 0 .. Len(Unsaved(conv)),
             SubSeq(w, 1, k) = SubSeq(Unsaved(conv), 1, n)
      PROVE  Stores(conv)
  BY <1>2, <1>4, <1>6, PartStored
<1>7. Stores(hist) => Stores(history)
  BY <1>2 DEF Stores
<1>8. CASE w = Unsaved(hist)
  BY <1>6, <1>7, <1>8
<1>9. CASE w = Unsaved(typed)
  <2>1. Len(w) = IF persisted + 1 <= Len(typed) THEN Len(typed) - (persisted + 1) + 1 ELSE 0
    BY <1>1, <1>4, <1>9, SubSeqProperties DEF Unsaved
  <2>2. persisted <= Len(hist) /\ Len(w) = Len(hist) + 1 - persisted
    <3>1. Len(w) # 0
      BY <1>1, EmptySeq
    <3> QED
      BY <1>1, <1>4, <2>1, <3>1
  <2>3. \A i \in 1 .. Len(w) : w[i] = typed[persisted + i]
    <3>1. \A i \in 1 .. Len(typed) - (persisted + 1) + 1 : w[i] = typed[persisted + 1 + i - 1]
      BY <1>1, <1>4, <1>9, SubSeqProperties, ElementOfSeq DEF Unsaved
    <3>2. /\ Len(typed) - (persisted + 1) + 1 = Len(w)
          /\ \A i \in 1 .. Len(w) : persisted + 1 + i - 1 = persisted + i
      BY <1>1, <1>4, <2>2
    <3> QED
      BY <3>1, <3>2
  <2>4. CASE k = Len(w)
    <3>1. SubSeq(w, 1, k) = w
      BY <1>1, <2>4, WholeRecorded
    <3>2. Len(w) \in 1 .. Len(w) /\ w[Len(w)] = m
      BY <1>1, <1>4, <2>2, <2>3
    <3>3. m \in ToSet(file[current].lines \o w)
      BY <1>1, <3>2, AppendAdds
    <3>4. Lines(file')[current] = file[current].lines \o w
      BY <1>1, <3>1 DEF Lines
    <3>5. Stores(typed)
      BY <1>6, <1>9
    <3>6. Stores(Append(history, m))
      <4>1. typed = Append(history, m)
        BY <1>2, <1>3
      <4> QED
        BY <3>5, <4>1, Zenon DEF Stores
    <3> QED
      BY <3>3, <3>4, <3>6
  <2>5. CASE k # Len(w)
    <3>1. k \in 0 .. Len(hist) - persisted /\ k <= Len(w)
      BY <1>1, <1>4, <2>2, <2>5
    <3>2. /\ Unsaved(hist) \in Seq(Msg) /\ Len(Unsaved(hist)) = Len(hist) - persisted
          /\ \A i \in 1 .. Len(hist) - persisted : Unsaved(hist)[i] = hist[persisted + i]
      BY <1>1, <1>4, <2>2, SubSeqProperties, ElementOfSeq, UnsavedType DEF Unsaved
    <3>3. /\ SubSeq(w, 1, k) \in Seq(Msg) /\ Len(SubSeq(w, 1, k)) = k
          /\ \A i \in 1 .. k : SubSeq(w, 1, k)[i] = w[i]
      BY <1>1, <3>1, SubSeqType, SubSeqProperties, ElementOfSeq
    <3>4. /\ SubSeq(Unsaved(hist), 1, k) \in Seq(Msg) /\ Len(SubSeq(Unsaved(hist), 1, k)) = k
          /\ \A i \in 1 .. k : SubSeq(Unsaved(hist), 1, k)[i] = Unsaved(hist)[i]
      BY <3>1, <3>2, SubSeqType, SubSeqProperties, ElementOfSeq
    <3>5. ASSUME NEW i \in 1 .. k
          PROVE  w[i] = Unsaved(hist)[i]
      <4>1. i \in 1 .. Len(w) /\ i \in 1 .. Len(hist) - persisted /\ persisted + i \in 1 .. Len(hist)
        BY <1>1, <1>4, <2>2, <3>1
      <4> QED
        BY <1>4, <2>3, <3>2, <4>1
    <3>6. SubSeq(w, 1, k) = SubSeq(Unsaved(hist), 1, k)
      BY <3>3, <3>4, <3>5, SeqEqual
    <3> QED
      BY <1>6, <1>7, <3>1, <3>2, <3>6
  <2> QED
    BY <2>4, <2>5
<1> QED
  BY <1>5, <1>8, <1>9

\* The end of the process and the session the next one opens.
LEMMA CrashSeen ==
  ASSUME Stored, Calm, Crash
  PROVE  Conversation!Next
<1>a. /\ file \in [Sessions -> Files(Msg)] /\ TypeOK /\ history \in Seq(Msg)
      /\ current \in Sessions /\ current \in used /\ order \in Seq(used) /\ used \subseteq Sessions
      /\ \A s \in Sessions \ used : file[s] = NoFiles
  BY DEF Stored, AtHome, TypeOK, SessionsKnown
<1>1. PICK r \in Remains : StoreSaved(r) /\ OpenLatest(r.file, r.order)
  BY DEF Crash
<1>2. \/ file' = file
      \/ \E w \in BeingSaved \ {<<>>} :
           \/ file' = [file EXCEPT ![current] = MetaTorn(Appended(@, w))]
           \/ \E k \in 0 .. Len(w) : file' = [file EXCEPT ![current] = PartAppended(@, w, k)]
  BY <1>1 DEF Remains, StoreSaved
<1>3. /\ Archives(file') = Archives(file)
      /\ Stores(history) \/ \E m \in ToSet(Lines(file')[current]) : Stores(Append(history, m))
  <2>1. CASE file' = file
    <3>1. Len(history) <= Len(history)
      BY <1>a, LenProperties
    <3>2. Lines(file') = Lines(file) /\ Archives(file') = Archives(file)
      BY <2>1
    <3> QED
      BY <1>a, <3>1, <3>2, NothingStored
  <2>2. ASSUME NEW w \in BeingSaved, w # <<>>, NEW k \in 0 .. Len(w), NEW g,
               file' = [file EXCEPT ![current] = g], g.archive = file[current].archive,
               g.lines = file[current].lines \o SubSeq(w, 1, k)
        PROVE  <1>3!1 /\ <1>3!2
    <3>1. /\ Lines(file') = [Lines(file) EXCEPT ![current] = file[current].lines \o SubSeq(w, 1, k)]
          /\ Archives(file') = Archives(file)
      BY <1>a, <2>2 DEF Lines, Archives
    <3> QED
      BY <2>2, <3>1, CutShort
  <2>3. ASSUME NEW w \in BeingSaved
        PROVE  /\ Len(w) \in 0 .. Len(w) /\ SubSeq(w, 1, Len(w)) = w
               /\ MetaTorn(Appended(file[current], w)).lines = file[current].lines \o w
               /\ MetaTorn(Appended(file[current], w)).archive = file[current].archive
               /\ \A k \in 0 .. Len(w) :
                    /\ PartAppended(file[current], w, k).lines = file[current].lines \o SubSeq(w, 1, k)
                    /\ PartAppended(file[current], w, k).archive = file[current].archive
    <3>1. w \in Seq(Msg) /\ file[current] \in Files(Msg)
      BY <1>a, BeingSavedType
    <3> QED
      BY <3>1, WholeRecorded, LenProperties DEF MetaTorn, Appended, PartAppended, Files
  <2>4. ASSUME NEW w \in BeingSaved, w # <<>>,
               file' = [file EXCEPT ![current] = MetaTorn(Appended(@, w))]
        PROVE  <1>3!1 /\ <1>3!2
    BY <2>2, <2>3, <2>4
  <2>5. ASSUME NEW w \in BeingSaved, w # <<>>, NEW k \in 0 .. Len(w),
               file' = [file EXCEPT ![current] = PartAppended(@, w, k)]
        PROVE  <1>3!1 /\ <1>3!2
    BY <2>2, <2>3, <2>5
  <2> QED
    BY <1>2, <2>1, <2>4, <2>5
<1>4. current' \in Sessions /\ history' = Lines(file')[current']
  <2>1. r.file \in [Sessions -> Files(Msg)]
    BY <1>a, RemainsType
  <2>2. Touched(current, order) \in Seq(used) /\ Dropped(current, order) \in Seq(used)
    BY <1>a, DroppedType
  <2>3. r.order \in Seq(used) /\ \A s \in Sessions \ {current} : r.file[s] = file[s]
    BY <1>a, <2>2 DEF Remains
  <2>4. history' = r.file[current'].lines
    BY <1>1, <1>a, <2>1, <2>3, OpenRecords
  <2>5. current' \in Sessions
    BY <1>a, TypeStep DEF Next, TypeOK
  <2> QED
    BY <1>1, <2>4, <2>5 DEF StoreSaved, Lines
<1>5. PICK s \in Sessions : current' = s /\ history' = Lines(file')[s]
  BY <1>4
<1>6. Conversation!Restart(s)
  BY <1>3, <1>5 DEF Conversation!Restart, Conversation!Store, Conversation!ToSet, ToSet, Stores, Lines, Archives, Exact
<1>7. crossed' = crossed
  BY DEF Crash
<1> QED
  BY <1>6, <1>7 DEF Conversation!Next, Calm

\* The end of the process in a crossed session.
LEMMA CrashLost ==
  ASSUME Stored, ~Calm, Crash
  PROVE  Conversation!Next
<1>1. TypeOK /\ SessionsKnown /\ current \in Sessions /\ file \in [Sessions -> Files(Msg)]
  BY DEF Stored, AtHome, TypeOK
<1>2. PICK r \in Remains : file' = r.file
  BY DEF Crash, StoreSaved
<1>3. crossed' = crossed /\ \A s \in Sessions \ {current} : file'[s] = file[s]
  BY <1>1, <1>2 DEF Remains, Crash
<1>4. current' \in Sessions /\ history' = file'[current'].lines
  BY <1>1, CrashKnown, TypeStep DEF Next, TypeOK
<1>5. CASE current' \in crossed
  BY <1>3, <1>5, Unpromised DEF Calm
<1>6. CASE current' \notin crossed
  <2>1. current' # current /\ Calm'
    BY <1>3, <1>6 DEF Calm
  <2>2. history' = file[current'].lines
    BY <1>3, <1>4, <2>1
  <2> QED
    BY <1>3, <1>4, <2>1, <2>2, Returns
<1> QED
  BY <1>5, <1>6

\* A new process holds an empty conversation and an empty log.
LEMMA KeptInit == Init => Conversation!Init
<1> SUFFICES ASSUME Init
             PROVE  Conversation!Init
  OBVIOUS
<1>1. /\ Lines(file) = [s \in Sessions |-> <<>>] /\ Archives(file) = [s \in Sessions |-> {}]
      /\ Exact /\ current \in Sessions /\ history = <<>> /\ crossed = {}
  BY DEF Init, NoFiles, NoCommand, Lines, Archives, Exact, Steady
<1> QED
  BY <1>1 DEF Conversation!Init, Lines, Archives, Exact

\* Every step of the chat is one that Transcript allows, or is not seen by it.
LEMMA KeptStep == Stored /\ CutsKnown /\ [Next]_vars => [Conversation!Next]_Conversation!vars
<1> SUFFICES ASSUME Stored, CutsKnown, [Next]_vars
             PROVE  Conversation!Next \/ UNCHANGED Conversation!vars
  OBVIOUS
<1>1. ASSUME UNCHANGED vars \/ \E s \in Sessions : DropTask(s)
      PROVE  Conversation!Next
  <2>1. UNCHANGED <<pc, conn, current, history, stale, file, spent, crossed>>
    BY <1>1 DEF vars, DropTask, memory, disk
  <2>2. Exact' => Exact
    BY <2>1 DEF Exact, Steady
  <2> QED
    BY <2>1, <2>2, NothingSeen
<1>2. ASSUME NEW c \in Conns, Command(c)
      PROVE  Conversation!Next
  BY <1>2, CommandSeen, CommandLost
<1>3. ASSUME Crash
      PROVE  Conversation!Next
  BY <1>3, CrashSeen, CrashLost
<1> QED
  BY <1>1, <1>2, <1>3, StartSeen, TurnSeen DEF Next

\* The chat keeps the promise of Transcript: what the user says in a session is its
\* log and comes back from it, through every save, failing write, switch, compaction
\* and restart, unless a command crossed a stream at that session.
THEOREM TranscriptIsKept == Spec => KeepsTranscript
<1>1. Init => CutsKnown
  BY DEF Init, CutsKnown, Cut
<1> QED
  BY <1>1, StoredInit, StoredStep, CutsStep, KeptInit, KeptStep, PTL
     DEF Spec, KeepsTranscript, Conversation!Spec

-----------------------------------------------------------------------------
(***************************************************************************)
(* What ChatSession leaves open and Compaction computes, for any settings: *)
(* where a history is cut, and when the breaker stops the attempts.        *)
(***************************************************************************)
\* A set of numbers that is not empty has a least element.
LEMMA LeastExists ==
  ASSUME NEW S \in SUBSET Nat, S # {}
  PROVE  \E g \in S : \A f \in S : g <= f
<1>1. IsWellFoundedOn(OpToRel(<, Nat), Nat)
  BY NatLessThanWellFounded
<1>2. PICK x \in S : \A y \in S : <<y, x>> \notin OpToRel(<, Nat)
  BY <1>1, WFMin
<1>3. \A y \in S : ~(y < x)
  BY <1>2 DEF OpToRel
<1> QED
  BY <1>3

\* One with a bound has a greatest, which Max picks.
LEMMA GreatestOf ==
  ASSUME NEW n \in Nat, NEW S \in SUBSET (0 .. n), S # {}
  PROVE  /\ Compaction!Max(S) \in S
         /\ \A s \in S : s <= Compaction!Max(S)
<1> DEFINE T == {t \in 0 .. n : n - t \in S}
<1>1. T \in SUBSET Nat
  OBVIOUS
<1>2. \A s \in S : s \in 0 .. n /\ n - s \in T
  <2>1. \A s \in S : s \in 0 .. n  OBVIOUS
  <2>2. \A s \in 0 .. n : n - s \in 0 .. n /\ n - (n - s) = s  OBVIOUS
  <2> QED  BY <2>1, <2>2
<1>3. PICK g \in T : \A f \in T : g <= f
  <2>1. T # {}  BY <1>2
  <2> HIDE DEF T
  <2> QED  BY <1>1, <2>1, LeastExists
<1>4. n - g \in S /\ g \in 0 .. n
  BY <1>3
<1>5. \A s \in S : n - g >= s
  <2> TAKE s \in S
  <2>1. s \in 0 .. n /\ g <= n - s
    BY <1>2, <1>3
  <2> QED  BY <1>4, <2>1
<1> QED  BY <1>4, <1>5 DEF Compaction!Max

\* Min and Max of two numbers.
LEMMA OfTwo ==
  ASSUME NEW a \in Int, NEW b \in Int
  PROVE  /\ Compaction!Min({a, b}) \in {a, b} /\ Compaction!Min({a, b}) <= a /\ Compaction!Min({a, b}) <= b
         /\ Compaction!Max({a, b}) \in {a, b} /\ Compaction!Max({a, b}) >= a /\ Compaction!Max({a, b}) >= b
<1>1. \E x \in {a, b} : \A y \in {a, b} : x <= y
  OBVIOUS
<1>2. \E x \in {a, b} : \A y \in {a, b} : x >= y
  OBVIOUS
<1> QED  BY <1>1, <1>2 DEF Compaction!Min, Compaction!Max

\* alignSplitForToolPairs goes back at most to 0 and parts no call from its result.
LEMMA AlignSplit ==
  ASSUME NEW h, NEW split \in Nat
  PROVE  /\ Compaction!AlignSplitForToolPairs(h, split) \in 0 .. split
         /\ ~ Compaction!Parts(h, Compaction!AlignSplitForToolPairs(h, split))
<1> DEFINE S == {s \in 0 .. split : ~ Compaction!Parts(h, s)}
<1>1. 0 \in S  BY DEF Compaction!Parts
<1>2. S \in SUBSET (0 .. split) /\ S # {}  BY <1>1
<1> HIDE DEF S
<1>3. Compaction!Max(S) \in S  BY <1>2, GreatestOf
<1> QED  BY <1>3 DEF S, Compaction!AlignSplitForToolPairs

\* What splitByTokens keeps is a part of the history, whatever the sizes.
LEMMA TokensSplit ==
  ASSUME NEW h, Len(h) \in Nat, DOMAIN h = 1 .. Len(h)
  PROVE  Compaction!SplitByTokens(h) \in 0 .. Len(h)
<1> DEFINE tail(i) == Compaction!SumFunctionOnSet([j \in DOMAIN h |-> h[j].tokens], i .. Len(h))
           S == {0} \cup {i - 1 : i \in {i \in DOMAIN h : tail(i) >= KeepTokens}}
<1> HIDE DEF tail
<1>1. S \in SUBSET (0 .. Len(h)) /\ S # {}  OBVIOUS
<1>2. Compaction!SplitByTokens(h) = Compaction!Max(S)  BY DEF Compaction!SplitByTokens, tail
<1> HIDE DEF S
<1> QED  BY <1>1, <1>2, GreatestOf

\* The split of a history, whatever the sizes and the settings.
LEMMA TailSplit ==
  ASSUME NEW h, Len(h) \in Nat, DOMAIN h = 1 .. Len(h)
  PROVE  /\ Compaction!SplitByTailTokens(h) \in 0 .. Len(h)
         /\ h # <<>> => Compaction!SplitByTailTokens(h) < Len(h)
         /\ ~ Compaction!Parts(h, Compaction!SplitByTailTokens(h))
<1>1. CASE Len(h) <= 1
  <2>1. Compaction!SplitByTailTokens(h) = 0  BY <1>1 DEF Compaction!SplitByTailTokens
  <2>2. h # <<>> => Len(h) = 1  BY <1>1
  <2> QED  BY <2>1, <2>2 DEF Compaction!Parts
<1>2. CASE Len(h) > 1
  <2> DEFINE most == Compaction!Max({Len(h) - KeepMessages, 0})
             least == Compaction!Min({Compaction!SplitByTokens(h), most})
             some == Compaction!Max({least, 1})
             split == Compaction!Min({some, Len(h) - 1})
  <2>0. /\ Len(h) - KeepMessages \in Int /\ 0 \in Int /\ 1 \in Int /\ Len(h) - 1 \in Int
        /\ Compaction!SplitByTokens(h) \in Int
    BY TokensSplit, SummariesAssumption
  <2>1. most \in {Len(h) - KeepMessages, 0}  BY <2>0, OfTwo, Zenon
  <2>2. least \in {Compaction!SplitByTokens(h), most}
    <3>1. most \in Int  BY <2>0, <2>1
    <3> HIDE DEF most
    <3> QED  BY <2>0, <3>1, OfTwo, Zenon
  <2>3. some \in {least, 1} /\ some >= 1
    <3>1. least \in Int  BY <2>0, <2>1, <2>2
    <3> HIDE DEF least
    <3> QED  BY <2>0, <3>1, OfTwo, Zenon
  <2>4. split \in {some, Len(h) - 1} /\ split <= Len(h) - 1
    <3>1. some \in Int  BY <2>0, <2>1, <2>2, <2>3
    <3> HIDE DEF some
    <3> QED  BY <2>0, <3>1, OfTwo, Zenon
  <2>5. split \in 1 .. Len(h) - 1
    <3> HIDE DEF most, least, some, split
    <3>1. most \in Int  BY <2>0, <2>1
    <3>2. least \in Int  BY <2>0, <2>2, <3>1
    <3>3. some \in Int  BY <2>3, <3>2
    <3>4. Len(h) - 1 \in Int /\ Len(h) - 1 >= 1  BY <1>2
    <3>5. CASE split = some  BY <2>3, <2>4, <3>3, <3>4, <3>5
    <3>6. CASE split = Len(h) - 1  BY <3>4, <3>6
    <3> QED  BY <2>4, <3>5, <3>6
  <2>6. Compaction!SplitByTailTokens(h) = Compaction!AlignSplitForToolPairs(h, split)
    BY <1>2 DEF Compaction!SplitByTailTokens
  <2> HIDE DEF split
  <2> QED  BY <1>2, <2>5, <2>6, AlignSplit
<1> QED  BY <1>1, <1>2

(***************************************************************************)
(* Both parts of a history that is split are histories a provider accepts, *)
(* and one message at least is kept (splitByTailTokens).                   *)
(***************************************************************************)
THEOREM SplitKeepsPairs ==
  ASSUME NEW h \in Seq(SizedMessage), Paired(h)
  PROVE  /\ h # <<>> => Compaction!SplitByTailTokens(h) < Len(h)
         /\ Paired(SubSeq(h, 1, Compaction!SplitByTailTokens(h)))
         /\ Paired(SubSeq(h, Compaction!SplitByTailTokens(h) + 1, Len(h)))
<1> DEFINE s == Compaction!SplitByTailTokens(h)
           old == SubSeq(h, 1, s)
           new == SubSeq(h, s + 1, Len(h))
<1>1. s \in 0 .. Len(h) /\ (h # <<>> => s < Len(h)) /\ ~ Compaction!Parts(h, s)
  BY TailSplit
<1> HIDE DEF s
<1>2. /\ Len(old) = s /\ DOMAIN old = 1 .. s /\ \A i \in 1 .. s : old[i] = h[i]
      /\ Len(new) = Len(h) - s /\ DOMAIN new = 1 .. Len(h) - s
      /\ \A k \in s + 1 .. Len(h) : new[k - s] = h[k]
  BY <1>1
<1> HIDE DEF old, new
<1>3. ASSUME s \in 1 .. Len(h) - 1  PROVE  h[s].uses = {} /\ h[s + 1].results = {}
  <2>1. s \in DOMAIN h /\ s + 1 \in DOMAIN h  BY <1>3
  <2>2. ~ (h[s + 1].role = "user" /\ h[s].role = "assistant" /\ h[s].uses \cap h[s + 1].results # {})
    BY <1>1, <1>3 DEF Compaction!Parts
  <2>3. /\ h[s].uses # {} => h[s].role = "assistant" /\ h[s + 1].results = h[s].uses
        /\ h[s + 1].results # {} => h[s + 1].role = "user" /\ h[s].uses = h[s + 1].results
    <3>1. h[s] \in SizedMessage /\ h[s + 1] \in SizedMessage  BY <2>1
    <3>2. /\ h[s].uses # {} => h[s].role = "assistant"
          /\ h[s + 1].results # {} => h[s + 1].role = "user"
      BY <3>1 DEF SizedMessage
    <3>3. /\ h[s].uses # {} => h[s + 1].results = h[s].uses
          /\ h[s + 1].results # {} => h[(s + 1) - 1].uses = h[s + 1].results
      BY <2>1 DEF Paired
    <3>4. (s + 1) - 1 = s  BY <1>3
    <3> QED  BY <3>2, <3>3, <3>4
  <2> QED  BY <2>2, <2>3
<1>4. ASSUME NEW i \in DOMAIN old
      PROVE  /\ old[i].results # {} => i > 1 /\ old[i - 1].uses = old[i].results
             /\ old[i].uses # {} => i < Len(old) /\ old[i + 1].results = old[i].uses
  <2>1. i \in DOMAIN h /\ i \in 1 .. s  BY <1>1, <1>2
  <2>2. /\ h[i].results # {} => i > 1 /\ h[i - 1].uses = h[i].results
        /\ h[i].uses # {} => i < Len(h) /\ h[i + 1].results = h[i].uses
    BY <2>1 DEF Paired
  <2>3. h[i].uses # {} => i < s
    BY <1>1, <1>3, <2>1, <2>2
  <2> QED  BY <1>2, <2>1, <2>2, <2>3
<1>5. ASSUME NEW k \in s + 1 .. Len(h)
      PROVE  /\ new[k - s].results # {} => k - s > 1 /\ new[k - 1 - s].uses = new[k - s].results
             /\ new[k - s].uses # {} => k - s < Len(new) /\ new[k + 1 - s].results = new[k - s].uses
  <2>1. k \in DOMAIN h /\ new[k - s] = h[k]  BY <1>1, <1>2
  <2>2. /\ h[k].results # {} => k > 1 /\ h[k - 1].uses = h[k].results
        /\ h[k].uses # {} => k < Len(h) /\ h[k + 1].results = h[k].uses
    BY <2>1 DEF Paired
  <2>3. h[k].results # {} => k - s > 1
    <3>1. CASE k > s + 1  BY <1>1, <3>1
    <3>2. CASE k = s + 1 /\ s = 0  BY <2>2, <3>2
    <3>3. CASE k = s + 1 /\ s # 0  BY <1>1, <1>3, <3>3
    <3> QED  BY <1>1, <3>1, <3>2, <3>3
  <2>4. k - s > 1 => new[k - 1 - s] = h[k - 1]  BY <1>1, <1>2
  <2>5. k < Len(h) => new[k + 1 - s] = h[k + 1] /\ k - s < Len(new)  BY <1>1, <1>2
  <2> QED  BY <2>1, <2>2, <2>3, <2>4, <2>5
<1>6. ASSUME NEW i \in DOMAIN new
      PROVE  /\ new[i].results # {} => i > 1 /\ new[i - 1].uses = new[i].results
             /\ new[i].uses # {} => i < Len(new) /\ new[i + 1].results = new[i].uses
  <2> DEFINE k == i + s
  <2>1. k \in s + 1 .. Len(h) /\ k - s = i /\ k - 1 - s = i - 1 /\ k + 1 - s = i + 1
    BY <1>1, <1>2
  <2> HIDE DEF k
  <2>2. /\ new[k - s].results # {} => k - s > 1 /\ new[k - 1 - s].uses = new[k - s].results
        /\ new[k - s].uses # {} => k - s < Len(new) /\ new[k + 1 - s].results = new[k - s].uses
    BY <1>5, <2>1
  <2> QED  BY <2>1, <2>2
<1>7. Paired(old)
  BY <1>4 DEF Paired
<1>8. Paired(new)
  BY <1>6 DEF Paired
<1> QED  BY <1>1, <1>7, <1>8 DEF s, old, new

\* h is what hist of ChatSession is to the summary layer: a message with results
\* answers a call of the one before it.
Rendered(hist, h) ==
  /\ Len(h) = Len(hist)
  /\ \A i \in 1 .. Len(hist) - 1 : hist[i].kind = "use" /\ hist[i + 1].kind = "result" =>
       /\ h[i].role = "assistant" /\ h[i + 1].role = "user"
       /\ h[i].uses \cap h[i + 1].results # {}

(***************************************************************************)
(* Where the handler's summaries may cut, SplitPoints, is all that the     *)
(* computation may give; 0 is "nothing to summarise" (splitByTailTokens,   *)
(* Compact).                                                               *)
(***************************************************************************)
THEOREM SplitIsAPoint ==
  ASSUME NEW M, NEW hist \in Seq(M), NEW h \in Seq(SizedMessage), Rendered(hist, h)
  PROVE  Compaction!SplitByTailTokens(h) \in SplitPoints(hist) \cup {0}
<1> DEFINE s == Compaction!SplitByTailTokens(h)
<1>1. s \in 0 .. Len(h) /\ (h # <<>> => s < Len(h)) /\ ~ Compaction!Parts(h, s)
  BY TailSplit
<1>2. Len(h) = Len(hist) /\ Len(h) \in Nat
  BY DEF Rendered
<1>3. h = <<>> => Len(h) = 0
  OBVIOUS
<1> HIDE DEF s
<1>4. ASSUME s # 0  PROVE  s \in SplitPoints(hist)
  <2>1. s \in 1 .. Len(hist) - 1
    BY <1>1, <1>2, <1>3, <1>4
  <2> QED  BY <1>1, <1>2, <2>1 DEF Compaction!Parts, Rendered, SplitPoints
<1> QED  BY <1>4 DEF s

\* The flag and the count say the same.
Consistent(b) ==
  /\ b \in [failures : Nat, tripped : BOOLEAN]
  /\ b.tripped <=> b.failures >= BreakerThreshold

\* A new breaker is consistent.
LEMMA NewConsistent == Consistent(Compaction!NewBreaker)
BY SummariesAssumption DEF Consistent, Compaction!NewBreaker

\* So is one that counts one more failure.
LEMMA FailureConsistent ==
  ASSUME NEW b, Consistent(b)
  PROVE  /\ Consistent(Compaction!RecordFailure(b))
         /\ Compaction!RecordFailure(b).failures = b.failures + 1
<1> DEFINE f == b.failures + 1
           t == b.tripped \/ f >= BreakerThreshold
<1>1. b.failures \in Nat /\ b.tripped \in BOOLEAN
      /\ (b.tripped <=> b.failures >= BreakerThreshold)
  BY DEF Consistent
<1>2. f \in Nat /\ t \in BOOLEAN
  BY <1>1
<1>3. t <=> f >= BreakerThreshold
  <2>1. b.failures >= BreakerThreshold => f >= BreakerThreshold
    BY <1>1, SummariesAssumption
  <2> HIDE DEF f
  <2> QED  BY <1>1, <2>1
<1> HIDE DEF f, t
<1>4. Consistent([failures |-> f, tripped |-> t])
  BY <1>2, <1>3 DEF Consistent
<1>5. Compaction!RecordFailure(b) = [failures |-> f, tripped |-> t]
  BY DEF f, t, Compaction!RecordFailure
<1> QED  BY <1>4, <1>5 DEF f

\* The breaker counts as many failures at least as are the last ones in a row.
FailuresCounted(b, t) ==
  /\ \A k \in 0 .. Len(t) : FailedLast(t, k) => b.failures >= k
  /\ t # <<>> /\ t[Len(t)].outcome = "changes" => b.failures = 0

\* What a case of Summaries is.
SummaryTyped ==
  /\ Is("history") => case.h \in Seq(SizedMessage) /\ Paired(case.h)
  /\ Is("session") => /\ Consistent(case.breaker) /\ case.tried \in Seq(Attempts)
                      /\ FailuresCounted(case.breaker, case.tried)

\* One more attempt, tried or not.
LEMMA AttemptCounted ==
  ASSUME NEW b, Consistent(b), NEW t \in Seq(Attempts), FailuresCounted(b, t),
         NEW a \in Attempts,
         NEW new, new = IF Compaction!DecideSummary(b, a.tight, a.manual)
                        THEN Append(t, a) ELSE t
  PROVE  /\ Consistent(Compaction!Attempt(b, a)) /\ new \in Seq(Attempts)
         /\ FailuresCounted(Compaction!Attempt(b, a), new)
<1> DEFINE start == IF a.manual THEN Compaction!NewBreaker ELSE b
           c == Compaction!Attempt(b, a)
<1>1. CASE ~ Compaction!DecideSummary(b, a.tight, a.manual)
  BY <1>1 DEF Compaction!Attempt
<1>2. CASE Compaction!DecideSummary(b, a.tight, a.manual)
  <2>1. /\ Consistent(start) /\ start.failures \in Nat
        /\ start = IF a.manual THEN Compaction!NewBreaker ELSE b
        /\ Compaction!NewBreaker.failures = 0 /\ b.failures \in Nat
    BY NewConsistent DEF Consistent, Compaction!NewBreaker
  <2> HIDE DEF start
  <2>2. /\ a.outcome = "fails" => c = Compaction!RecordFailure(start)
        /\ a.outcome = "changes" => c = Compaction!NewBreaker
        /\ a.outcome = "nothing" => c = start
        /\ a.outcome \in {"fails", "changes", "nothing"} /\ a.manual \in BOOLEAN
    BY <1>2 DEF Compaction!Attempt, Attempts, start
  <2>3. Consistent(c)
    BY <2>1, <2>2, NewConsistent, FailureConsistent
  <2> HIDE DEF c
  <2>4. /\ new = Append(t, a) /\ new \in Seq(Attempts) /\ Len(new) = Len(t) + 1
        /\ new[Len(new)] = a /\ \A i \in 1 .. Len(t) : new[i] = t[i]
    BY <1>2
  <2>5. ASSUME NEW k \in 0 .. Len(new), FailedLast(new, k)
        PROVE  c.failures >= k
    <3>1. CASE k = 0
      BY <2>3, <3>1 DEF Consistent
    <3>2. CASE k # 0
      <4>1. Len(new) \in Len(new) - k + 1 .. Len(new)
        BY <2>4, <3>2
      <4>2. a.outcome = "fails" /\ (a.manual => k = 1)
        BY <2>4, <2>5, <3>2, <4>1 DEF FailedLast
      <4>3. c.failures = start.failures + 1
        BY <2>1, <2>2, <4>2, FailureConsistent
      <4>4. CASE k = 1
        BY <2>1, <4>3, <4>4
      <4>5. CASE k # 1
        <5>1. k - 1 \in 0 .. Len(t) /\ Len(t) - (k - 1) + 1 = Len(new) - k + 1
          BY <2>4, <3>2, <4>5
        <5>2. ASSUME NEW i \in Len(t) - (k - 1) + 1 .. Len(t)
              PROVE  t[i].outcome = "fails" /\ (t[i].manual => i = Len(t) - (k - 1) + 1)
          <6>1. i \in Len(new) - k + 1 .. Len(new) /\ i \in 1 .. Len(t)
            BY <2>4, <5>1, <5>2
          <6> QED  BY <2>4, <2>5, <5>1, <6>1 DEF FailedLast
        <5>3. FailedLast(t, k - 1)
          BY <5>2 DEF FailedLast
        <5>4. b.failures >= k - 1 /\ start = b
          BY <2>1, <4>2, <4>5, <5>1, <5>3 DEF FailuresCounted
        <5> QED  BY <2>1, <4>3, <5>4
      <4> QED  BY <4>4, <4>5
    <3> QED  BY <3>1, <3>2
  <2>6. new[Len(new)].outcome = "changes" => c.failures = 0
    BY <2>1, <2>2, <2>4
  <2> QED  BY <2>3, <2>4, <2>5, <2>6 DEF FailuresCounted, c
<1> QED  BY <1>1, <1>2

\* Every case is of that form.
LEMMA SummaryTypedStep ==
  /\ case = NoCase => SummaryTyped
  /\ SummaryTyped /\ [SummaryCase]_case => SummaryTyped'
<1>1. case = NoCase => SummaryTyped
  BY DEF NoCase, SummaryTyped, Is
<1>2. ASSUME SummaryTyped, case' = case  PROVE SummaryTyped'
  BY <1>2 DEF SummaryTyped, Is
<1>3. ASSUME NEW h \in UpTo(SizedMessage, MaxMessages), Paired(h),
             case' = [of |-> "history", h |-> h]
      PROVE  SummaryTyped'
  <2>1. PICK k \in 0 .. MaxMessages : h \in [1 .. k -> SizedMessage]
    BY <1>3 DEF UpTo
  <2>2. h \in Seq(SizedMessage)
    BY <2>1, SummariesAssumption
  <2> QED  BY <1>3, <2>2 DEF SummaryTyped, Is
<1>4. ASSUME case' = [of |-> "session", breaker |-> Compaction!NewBreaker, tried |-> <<>>]
      PROVE  SummaryTyped'
  <2>1. FailuresCounted(Compaction!NewBreaker, <<>>)
    BY DEF FailuresCounted, Compaction!NewBreaker
  <2> QED  BY <1>4, <2>1, NewConsistent DEF SummaryTyped, Is
<1>5. ASSUME SummaryTyped, Is("session"), NEW a \in Attempts,
             case' = [of |-> "session", breaker |-> Compaction!Attempt(case.breaker, a),
                      tried |-> IF Compaction!DecideSummary(case.breaker, a.tight, a.manual)
                                THEN Append(case.tried, a) ELSE case.tried]
      PROVE  SummaryTyped'
  <2> DEFINE new == IF Compaction!DecideSummary(case.breaker, a.tight, a.manual)
                    THEN Append(case.tried, a) ELSE case.tried
  <2>1. /\ Consistent(Compaction!Attempt(case.breaker, a)) /\ new \in Seq(Attempts)
        /\ FailuresCounted(Compaction!Attempt(case.breaker, a), new)
    <3>1. /\ Consistent(case.breaker) /\ case.tried \in Seq(Attempts)
          /\ FailuresCounted(case.breaker, case.tried)
      BY <1>5 DEF SummaryTyped
    <3> QED  BY <3>1, AttemptCounted
  <2>2. /\ case'.of = "session" /\ case'.breaker = Compaction!Attempt(case.breaker, a)
        /\ case'.tried = new
    BY <1>5
  <2> HIDE DEF new
  <2> QED  BY <2>1, <2>2 DEF SummaryTyped, Is
<1> QED
  BY <1>1, <1>2, <1>3, <1>4, <1>5 DEF SummaryCase

(***************************************************************************)
(* What CompactionHolds says of small histories and few attempts holds of  *)
(* every history, whatever the sizes and the settings, and of every        *)
(* sequence of attempts, however long.                                     *)
(***************************************************************************)
THEOREM CompactionsAreSound == SummarySpec => []CompactionHolds
<1>1. SummaryTyped => CompactionHolds
  <2> SUFFICES ASSUME SummaryTyped  PROVE CompactionHolds
    OBVIOUS
  <2>1. SplitsAreHistories
    BY SplitKeepsPairs DEF SummaryTyped, SplitsAreHistories
  <2>2. BreakerHolds
    <3> SUFFICES ASSUME Is("session")  PROVE BreakerHolds
      BY DEF BreakerHolds
    <3> DEFINE b == case.breaker
               t == case.tried
    <3>1. Consistent(b) /\ FailuresCounted(b, t) /\ t \in Seq(Attempts)
      BY DEF SummaryTyped
    <3>2. ASSUME BreakerThreshold <= Len(t), FailedLast(t, BreakerThreshold), NEW tight \in BOOLEAN
          PROVE  ~ Compaction!DecideSummary(b, tight, FALSE)
      <4>1. BreakerThreshold \in 0 .. Len(t)  BY <3>1, <3>2, SummariesAssumption
      <4>2. b.tripped  BY <3>1, <3>2, <4>1 DEF FailuresCounted, Consistent
      <4> QED  BY <4>2 DEF Compaction!DecideSummary
    <3>3. ASSUME t # <<>>, t[Len(t)].outcome = "changes"
          PROVE  Compaction!DecideSummary(b, TRUE, FALSE)
      <4>1. ~ b.tripped
        BY <3>1, <3>3, SummariesAssumption DEF FailuresCounted, Consistent
      <4> QED  BY <4>1 DEF Compaction!DecideSummary
    <3> QED  BY <3>2, <3>3 DEF BreakerHolds
  <2> QED  BY <2>1, <2>2 DEF CompactionHolds
<1> QED
  BY <1>1, SummaryTypedStep, PTL DEF SummarySpec

=============================================================================
