---------------------------- MODULE ReviewsProofs -----------------------------
(***************************************************************************)
(* Proofs about Reviews, for any number of reviews, sessions, memories,    *)
(* decisions, reloads and restarts.                                        *)
(***************************************************************************)
EXTENDS Reviews, FiniteSetTheorems, SequenceTheorems, TLAPS

\* A review has one of the two files of its memory open.
Writing(r) == place[r] \in {"opened", "written"}

\* A review that writes has a decision to write for.
Busy == \A r \in Review :
  place[r] \in {"opened", "written", "renamed"} \cup Updates => todo[r] # <<>>

\* The file that a review has open is there.
OpenIsThere == \A r \in Review :
  /\ Writing(r) /\ open[r] = "tmp" => tmp[Target(r)] # NoFile
  /\ Writing(r) /\ open[r] = "target" => file[Target(r)] # NoFile
  /\ place[r] \in {"emptied", "filled"} /\ open[r] = "tmp" => itmp # NoFile

\* Types, and what they need to be kept.
TInv == TypeOK /\ Busy /\ OpenIsThere

\* A memory whose line is about to be written is there ...
RenamedHasFile == \A r \in Review :
  place[r] \in {"renamed"} \cup Updates => file[Target(r)] # NoFile

\* ... and so are those whose lines are about to be written again, or are in the
\* temporary file of the index.
ReadHasFile ==
  /\ \A r \in Review : \A g \in read[r] : file[g] # NoFile
  /\ itmp # NoFile => \A g \in itmp : file[g] # NoFile

\* Two reviews that write the same memory have made it a shared one.
SharedIfMet == \A q, r \in Review :
  q # r /\ Writing(q) /\ Writing(r) /\ Target(q) = Target(r) => Target(r) \in shared

\* While nobody shares it, the temporary file holds what its writer has written.
OwnFile == \A r \in Review : Writing(r) /\ Target(r) \notin shared =>
  /\ open[r] = "tmp"
  /\ tmp[Target(r)] = IF place[r] = "opened" THEN {} ELSE {r}

\* A review that updates the index holds the mutex of its reviewer.
LockedHolds == \A r \in Review : Updating(r) => mu[of[r]] = r

\* An update that has met no other is the only one: what it has read is the
\* index, and what it has written the temporary file.
Alone == \A r \in Review : Updating(r) /\ r \notin met =>
  /\ \A q \in Review : Updating(q) => q = r
  /\ read[r] = index
  /\ place[r] = "emptied" => open[r] = "tmp" /\ itmp = {}
  /\ place[r] = "filled" => open[r] = "tmp" /\ itmp = NewLines(r)

\* The reviews so far were of one reviewer.
OneReviewer == \A q, r \in Review :
  place[q] # "idle" /\ place[r] # "idle" => of[q] = of[r]

\* Then its mutex keeps the updates apart.
NoneMet == OneReviewer => met = {} /\ raced = {}

IInv ==
  /\ TInv
  /\ IndexedHasFile /\ RenamedHasFile /\ ReadHasFile
  /\ WholeUnlessShared /\ SharedIfMet /\ OwnFile
  /\ WrittenIsIndexed /\ LockedHolds /\ Alone /\ NoneMet

-----------------------------------------------------------------------------
(* Types, busy reviews and open files.                                     *)

\* A review that has a decision has a memory to write.
LEMMA TargetIsSlug ==
  ASSUME TypeOK, NEW r \in Review, todo[r] # <<>>
  PROVE  Target(r) \in Slug /\ Tail(todo[r]) \in Seq(Decision)
<1>1. todo[r] \in Seq(Decision)
  BY DEF TypeOK
<1>2. Head(todo[r]) \in Decision /\ Tail(todo[r]) \in Seq(Decision)
  BY <1>1, HeadTailProperties
<1> QED
  BY <1>2 DEF Target, Decision

\* Nothing is under way, and no file is there.
LEMMA InitTInv == Init => TInv
<1> SUFFICES ASSUME Init
             PROVE  TInv
  OBVIOUS
<1> USE ReviewsAssumption DEF Init
<1>1. 1 \in Store
  BY DEF Store
<1>2. /\ store \in Store /\ of \in [Review -> Store] /\ session \in [Review -> Session]
      /\ place \in [Review -> Places] /\ inflight \in [Store -> SUBSET Session]
      /\ mu \in [Store -> {Nobody} \cup Review]
  BY <1>1 DEF Places, Idle
<1>3. <<>> \in Seq(Decision)
  OBVIOUS
<1>4. /\ todo \in [Review -> Seq(Decision)] /\ applied \in [Review -> SUBSET Slug]
      /\ skipped \in [Review -> SUBSET Slug] /\ read \in [Review -> SUBSET Slug]
  BY <1>3
<1>5. /\ itmp \in {NoFile} \cup SUBSET Slug /\ met \subseteq Review
      /\ index \subseteq Slug /\ raced \subseteq Slug /\ shared \subseteq Slug
      /\ tmp \in [Slug -> Content] /\ file \in [Slug -> Content]
      /\ open \in [Review -> {"nothing", "tmp", "target"}]
  BY DEF Content
<1>6. TypeOK
  BY <1>2, <1>4, <1>5 DEF TypeOK
<1>7. Busy /\ OpenIsThere
  BY DEF Busy, OpenIsThere, Writing, Updates
<1> QED
  BY <1>6, <1>7 DEF TInv

\* Every step keeps the types and the files that are open.
LEMMA StepTInv == TInv /\ [Next]_vars => TInv'
<1> SUFFICES ASSUME TInv, [Next]_vars
             PROVE  TInv'
  OBVIOUS
<1>a. TypeOK /\ Busy /\ OpenIsThere
  BY DEF TInv
<1>b. \A c \in (SUBSET Review) \cup (SUBSET Slug) : c # NoFile
  BY ReviewsAssumption
<1> USE <1>a DEF what, files, lines, Goes, Places, Idle, AtWork, Updates
<1>1. CASE Reload
  <2>1. store' \in Store
    BY <1>1, ReviewsAssumption DEF Reload, Store, TypeOK
  <2> QED
    BY <1>1, <2>1 DEF Reload, TInv, TypeOK, Busy, OpenIsThere, Writing, Target
<1>2. CASE Restart
  <2>1. store' \in Store
    BY <1>2, ReviewsAssumption DEF Restart, Store, TypeOK
  <2>2. todo' \in [Review -> Seq(Decision)] /\ place' \in [Review -> Idle]
    BY <1>2 DEF Restart, TypeOK
  <2>3. TypeOK'
    BY <1>2, <2>1, <2>2 DEF Restart, TypeOK
  <2> QED
    BY <1>2, <2>2, <2>3 DEF Restart, TInv, Busy, OpenIsThere, Writing
<1>3. ASSUME NEW r \in Review, OnLoopDone(r) \/ Fails(r) \/ Finish(r)
      PROVE  TInv'
  <2>1. TypeOK'
    <3>1. CASE OnLoopDone(r)
      <4>0. inflight[store] \cup {session[r]} \in SUBSET Session
        BY DEF TypeOK
      <4>2. CASE session[r] \in inflight[store]
        BY <3>1, <4>2 DEF OnLoopDone, TypeOK
      <4>3. CASE session[r] \notin inflight[store]
        BY <3>1, <4>0, <4>3 DEF OnLoopDone, TypeOK
      <4>1. inflight' \in [Store -> SUBSET Session]
        BY <4>2, <4>3 DEF TypeOK
      <4> QED
        BY <3>1, <4>1 DEF OnLoopDone, TypeOK
    <3>2. CASE Fails(r) \/ Finish(r)
      <4>0. inflight[of[r]] \ {session[r]} \in SUBSET Session
        BY DEF TypeOK
      <4>1. inflight' \in [Store -> SUBSET Session]
        BY <3>2, <4>0 DEF Fails, Finish, ClearInflight, TypeOK
      <4> QED
        BY <3>2, <4>1 DEF Fails, Finish, TypeOK
    <3> QED
      BY <1>3, <3>1, <3>2
  <2>2. \A q \in Review : place'[q] = place[q] \/ place'[q] \in {"asking", "ended"}
    BY <1>3 DEF OnLoopDone, Fails, Finish, TypeOK
  <2>3. UNCHANGED <<todo, tmp, file, open, itmp>>
    BY <1>3 DEF OnLoopDone, Fails, Finish
  <2> QED
    BY <2>1, <2>2, <2>3 DEF TInv, Busy, OpenIsThere, Writing, Target
<1>4. ASSUME NEW r \in Review, Decides(r)
      PROVE  TInv'
  <2>1. todo' \in [Review -> Seq(Decision)]
    <3>1. PICK n \in 1 .. MaxDecisions : \E ds \in [1 .. n -> Decision] :
            todo' = [todo EXCEPT ![r] = ds]
      BY <1>4 DEF Decides
    <3>2. [1 .. n -> Decision] \subseteq Seq(Decision)
      BY <3>1, SeqDef, ReviewsAssumption
    <3> QED
      BY <3>1, <3>2 DEF TypeOK
  <2>2. TypeOK'
    BY <1>4, <2>1 DEF Decides, TypeOK
  <2>3. \A q \in Review : q # r => place'[q] = place[q] /\ todo'[q] = todo[q]
    BY <1>4 DEF Decides, TypeOK
  <2>4. place'[r] = "applying" /\ UNCHANGED <<tmp, file, open, itmp>>
    BY <1>4 DEF Decides, TypeOK
  <2> QED
    BY <2>2, <2>3, <2>4 DEF TInv, Busy, OpenIsThere, Writing, Target
<1>5. ASSUME NEW r \in Review, SkipUpdate(r) \/ WriteFails(r) \/ RenameIndex(r) \/ IndexFails(r)
      PROVE  TInv'
  <2>1. todo[r] # <<>>
    BY <1>5 DEF SkipUpdate, WriteFails, RenameIndex, IndexFails, Updating, Busy
  <2>2. Target(r) \in Slug /\ Tail(todo[r]) \in Seq(Decision)
    BY <2>1, TargetIsSlug
  <2>3. todo' = [todo EXCEPT ![r] = Tail(@)]
    BY <1>5 DEF SkipUpdate, WriteFails, RenameIndex, IndexFails, Unlock, Done
  <2>4. TypeOK'
    <3>1. todo' \in [Review -> Seq(Decision)]
      BY <2>2, <2>3 DEF TypeOK
    <3>2. CASE SkipUpdate(r)
      BY <2>2, <3>1, <3>2 DEF SkipUpdate, TypeOK
    <3>3. CASE WriteFails(r)
      BY <3>1, <3>3 DEF WriteFails, TypeOK
    <3>4. ASSUME Unlock(r), UNCHANGED <<tmp, file, shared>>, open' \in [Review -> {"nothing", "tmp", "target"}],
                 applied' \in [Review -> SUBSET Slug], index' \subseteq Slug,
                 itmp' \in {NoFile} \cup SUBSET Slug, raced' \subseteq Slug
          PROVE  TypeOK'
      <4>1. /\ mu' \in [Store -> {Nobody} \cup Review] /\ read' \in [Review -> SUBSET Slug]
            /\ place' \in [Review -> Places] /\ met' \subseteq Review
        BY <3>4 DEF Unlock, TypeOK
      <4> QED
        BY <3>1, <3>4, <4>1 DEF Unlock, TypeOK
    <3>5. CASE RenameIndex(r)
      <4>1. itmp \in SUBSET Slug
        BY <3>5 DEF RenameIndex, TypeOK
      <4>2. index' \subseteq Slug /\ raced' \subseteq Slug /\ itmp' = NoFile
        BY <2>2, <3>5, <4>1 DEF RenameIndex, Loses, TypeOK
      <4>3. applied[r] \cup {Target(r)} \in SUBSET Slug
        BY <2>2 DEF TypeOK
      <4>4. applied' \in [Review -> SUBSET Slug]
        BY <3>5, <4>3 DEF RenameIndex, TypeOK
      <4>5. open' \in [Review -> {"nothing", "tmp", "target"}]
        BY <3>5 DEF RenameIndex, Reopened, TypeOK
      <4>6. Unlock(r) /\ UNCHANGED <<tmp, file, shared>>
        BY <3>5 DEF RenameIndex, Unlock
      <4> QED
        BY <3>4, <4>2, <4>4, <4>5, <4>6
    <3>6. CASE IndexFails(r)
      <4>1. Unlock(r) /\ UNCHANGED <<tmp, file, shared>>
        BY <3>6 DEF IndexFails, Unlock
      <4>2. open' \in [Review -> {"nothing", "tmp", "target"}] /\ UNCHANGED <<applied, index, itmp, raced>>
        BY <3>6 DEF IndexFails, TypeOK
      <4> QED
        BY <3>4, <4>1, <4>2 DEF TypeOK
    <3> QED
      BY <1>5, <3>2, <3>3, <3>5, <3>6
  <2>5. \A q \in Review : q # r => place'[q] = place[q] /\ todo'[q] = todo[q]
    BY <1>5, <2>3 DEF SkipUpdate, WriteFails, RenameIndex, IndexFails, Unlock, TypeOK
  <2>6. place'[r] = "applying" /\ UNCHANGED <<tmp, file>>
    BY <1>5 DEF SkipUpdate, WriteFails, RenameIndex, IndexFails, Unlock, TypeOK
  <2>7. Busy'
    BY <2>5, <2>6 DEF Busy
  <2>8. OpenIsThere'
    <3>1. CASE RenameIndex(r)
      <4>1. \A q \in Review : q # r =>
              /\ place[q] \in {"emptied", "filled"} => open'[q] # "tmp"
              /\ Writing(q) => open'[q] = open[q]
        BY <3>1 DEF RenameIndex, Reopened, Writing
      <4>2. \A q \in Review : ~(place'[q] \in {"emptied", "filled"} /\ open'[q] = "tmp")
        <5>1. place'[r] \notin {"emptied", "filled"}
          BY <2>6
        <5> QED
          BY <2>5, <4>1, <5>1
      <4>3. \A q \in Review : Writing(q)' =>
              /\ Writing(q) /\ open'[q] = open[q] /\ Target(q)' = Target(q)
        BY <2>5, <2>6, <4>1 DEF Writing, Target
      <4> QED
        BY <2>6, <4>2, <4>3 DEF OpenIsThere
    <3>2. CASE ~RenameIndex(r)
      <4>1. itmp' = itmp /\ \A q \in Review : q # r => open'[q] = open[q]
        BY <1>5, <3>2 DEF SkipUpdate, WriteFails, IndexFails, TypeOK
      <4> QED
        BY <2>5, <2>6, <4>1 DEF OpenIsThere, Writing, Target
    <3> QED
      BY <3>1, <3>2
  <2> QED
    BY <2>4, <2>7, <2>8 DEF TInv
<1>6. ASSUME NEW r \in Review, OpenTmp(r)
      PROVE  TInv'
  <2>1. Target(r) \in Slug /\ todo[r] # <<>>
    BY <1>6, TargetIsSlug DEF OpenTmp
  <2>2. {} \in Content /\ {} # NoFile
    BY <1>b DEF Content
  <2>3. TypeOK'
    BY <1>6, <2>1, <2>2 DEF OpenTmp, TypeOK
  <2>4. Busy'
    BY <1>6, <2>1 DEF OpenTmp, Busy, TypeOK
  <2>5. OpenIsThere'
    BY <1>6, <2>1, <2>2 DEF OpenTmp, OpenIsThere, Writing, Target, TypeOK
  <2> QED
    BY <2>3, <2>4, <2>5 DEF TInv
<1>7. ASSUME NEW r \in Review, WriteTmp(r)
      PROVE  TInv'
  <2>1. Target(r) \in Slug /\ Writing(r) /\ todo' = todo
    BY <1>7, TargetIsSlug DEF WriteTmp, Busy, Writing
  <2>2. \A g \in Slug : /\ tmp[g] # NoFile => tmp'[g] # NoFile /\ tmp'[g] \in Content
                        /\ file[g] # NoFile => file'[g] # NoFile /\ file'[g] \in Content
                        /\ tmp[g] = NoFile => tmp'[g] = NoFile
                        /\ file[g] = NoFile => file'[g] = NoFile
    <3>1. \A c \in Content : c # NoFile =>
            /\ {r} \in Content /\ {r} # NoFile
            /\ c \cup {r} \in Content /\ c \cup {r} # NoFile
      BY <1>b DEF Content
    <3>2. CASE open[r] = "tmp"
      BY <1>7, <2>1, <3>1, <3>2 DEF WriteTmp, TypeOK, OpenIsThere
    <3>3. CASE open[r] = "target"
      BY <1>7, <2>1, <3>1, <3>3 DEF WriteTmp, TypeOK, OpenIsThere
    <3>4. CASE open[r] = "nothing"
      BY <1>7, <3>4 DEF WriteTmp, TypeOK
    <3> QED
      BY <1>7, <3>2, <3>3, <3>4 DEF WriteTmp
  <2>3. tmp' \in [Slug -> Content] /\ file' \in [Slug -> Content]
    BY <1>7, <2>2 DEF WriteTmp, TypeOK, Content
  <2>4. TypeOK'
    BY <1>7, <2>3 DEF WriteTmp, TypeOK
  <2>5. Busy'
    BY <1>7, <2>1 DEF WriteTmp, Busy, TypeOK, Writing
  <2>6. ASSUME NEW q \in Review, Writing(q)'
        PROVE  Writing(q) /\ Target(q)' = Target(q) /\ Target(q) \in Slug /\ open'[q] = open[q]
    <3>1. Writing(q)
      BY <1>7, <2>1, <2>6 DEF WriteTmp, TypeOK, Writing
    <3> QED
      BY <1>7, <2>1, <3>1, TargetIsSlug DEF WriteTmp, Writing, Busy, Target
  <2>7. \A q \in Review : place'[q] \in {"emptied", "filled"} =>
          place[q] \in {"emptied", "filled"} /\ open'[q] = open[q] /\ itmp' = itmp
    BY <1>7 DEF WriteTmp, TypeOK
  <2>8. OpenIsThere'
    BY <2>2, <2>6, <2>7 DEF OpenIsThere
  <2> QED
    BY <2>4, <2>5, <2>8 DEF TInv
<1>8. ASSUME NEW r \in Review, Rename(r)
      PROVE  TInv'
  <2>1. Target(r) \in Slug /\ todo' = todo /\ todo[r] # <<>>
    BY <1>8, TargetIsSlug DEF Rename, Busy
  <2>2. tmp' \in [Slug -> Content] /\ file' \in [Slug -> Content]
    BY <1>8, <2>1 DEF Rename, TypeOK, Content
  <2>3. open' \in [Review -> {"nothing", "tmp", "target"}]
    BY <1>8 DEF Rename, Reopened, TypeOK
  <2>4. TypeOK'
    BY <1>8, <2>2, <2>3 DEF Rename, TypeOK
  <2>5. Busy'
    BY <1>8, <2>1 DEF Rename, Busy, TypeOK
  <2>6. ASSUME NEW q \in Review, Writing(q)'
        PROVE  /\ open'[q] = "tmp" => tmp'[Target(q)'] # NoFile
               /\ open'[q] = "target" => file'[Target(q)'] # NoFile
    <3>1. q # r /\ Writing(q)
      BY <1>8, <2>6 DEF Rename, TypeOK, Writing
    <3>2. Target(q)' = Target(q) /\ Target(q) \in Slug
      BY <2>1, <3>1, TargetIsSlug DEF Busy, Writing, Target
    <3>3. CASE Target(q) = Target(r)
      BY <1>8, <2>1, <3>1, <3>2, <3>3 DEF Rename, Reopened, Writing, TypeOK
    <3>4. CASE Target(q) # Target(r)
      <4>1. open'[q] = open[q] /\ tmp'[Target(q)] = tmp[Target(q)]
            /\ file'[Target(q)] = file[Target(q)]
        BY <1>8, <3>1, <3>2, <3>4 DEF Rename, Reopened, TypeOK
      <4> QED
        BY <3>1, <3>2, <4>1 DEF OpenIsThere
    <3> QED
      BY <3>3, <3>4
  <2>7. \A q \in Review : place'[q] \in {"emptied", "filled"} =>
          place[q] \in {"emptied", "filled"} /\ open'[q] = open[q] /\ itmp' = itmp
    BY <1>8 DEF Rename, Reopened, TypeOK
  <2>8. OpenIsThere'
    BY <2>6, <2>7 DEF OpenIsThere
  <2> QED
    BY <2>4, <2>5, <2>8 DEF TInv
<1>9. ASSUME NEW r \in Review, Lock(r)
      PROVE  TInv'
  <2>1. TypeOK'
    BY <1>9 DEF Lock, ReadIndex, TypeOK
  <2>2. Busy' /\ OpenIsThere'
    BY <1>9 DEF Lock, ReadIndex, TypeOK, Busy, OpenIsThere, Writing, Target
  <2> QED
    BY <2>1, <2>2 DEF TInv
<1>11. ASSUME NEW r \in Review, OpenIndex(r)
       PROVE  TInv'
  <2>1. TypeOK'
    BY <1>11 DEF OpenIndex, TypeOK
  <2>2. Busy' /\ OpenIsThere'
    BY <1>b, <1>11 DEF OpenIndex, TypeOK, Busy, OpenIsThere, Writing, Target
  <2> QED
    BY <2>1, <2>2 DEF TInv
<1>12. ASSUME NEW r \in Review, WriteIndex(r)
       PROVE  TInv'
  <2>1. Target(r) \in Slug /\ read[r] \subseteq Slug
    BY <1>12, TargetIsSlug DEF WriteIndex, Busy, TypeOK
  <2>2. /\ itmp' = itmp \/ itmp' \in SUBSET Slug
        /\ index' \subseteq Slug /\ raced' \subseteq Slug
    <3>1. CASE open[r] = "tmp"
      <4>1. itmp \in SUBSET Slug
        BY <1>12, <3>1 DEF WriteIndex, OpenIsThere, TypeOK
      <4> QED
        BY <1>12, <2>1, <3>1, <4>1 DEF WriteIndex, NewLines, TypeOK
    <3>2. CASE open[r] = "target"
      BY <1>12, <2>1, <3>2 DEF WriteIndex, NewLines, Loses, TypeOK
    <3>3. CASE open[r] = "nothing"
      BY <1>12, <3>3 DEF WriteIndex, TypeOK
    <3> QED
      BY <1>12, <3>1, <3>2, <3>3 DEF WriteIndex
  <2>3. TypeOK'
    BY <1>12, <2>2 DEF WriteIndex, TypeOK
  <2>4. Busy'
    BY <1>12 DEF WriteIndex, TypeOK, Busy
  <2>5. itmp # NoFile => itmp' # NoFile
    <3>1. CASE itmp' = itmp
      BY <3>1
    <3>2. CASE itmp' \in SUBSET Slug
      <4>1. itmp' \in (SUBSET Review) \cup (SUBSET Slug)
        BY <3>2
      <4> QED
        BY <1>b, <4>1
    <3> QED
      BY <2>2, <3>1, <3>2
  <2>6. OpenIsThere'
    <3>1. UNCHANGED <<tmp, file, open, todo>> /\ place[r] = "emptied" /\ place'[r] = "filled"
      BY <1>12 DEF WriteIndex, TypeOK
    <3>2. \A q \in Review : q # r => place'[q] = place[q]
      BY <1>12 DEF WriteIndex, TypeOK
    <3>3. \A q \in Review : place'[q] \in {"emptied", "filled"} =>
                                place[q] \in {"emptied", "filled"}
      BY <3>1, <3>2
    <3>4. \A q \in Review : Writing(q)' => Writing(q) /\ Target(q)' = Target(q)
      BY <3>1, <3>2 DEF Writing, Target
    <3> QED
      BY <2>5, <3>1, <3>3, <3>4 DEF OpenIsThere
  <2> QED
    BY <2>3, <2>4, <2>6 DEF TInv
<1>10. CASE UNCHANGED vars
  BY <1>10 DEF vars, TInv, TypeOK, Busy, OpenIsThere, Writing, Target
<1> QED
  BY <1>1, <1>2, <1>3, <1>4, <1>5, <1>6, <1>7, <1>8, <1>9, <1>10, <1>11, <1>12 DEF Next, Step

-----------------------------------------------------------------------------
(* The memories, their files and the index.                                *)

\* The memory files and the index of no review.
LEMMA InitIInv == Init => IInv
<1> SUFFICES ASSUME Init
             PROVE  IInv
  OBVIOUS
<1>1. TInv
  BY InitTInv
<1>2. IndexedHasFile /\ RenamedHasFile /\ ReadHasFile
  BY DEF Init, IndexedHasFile, RenamedHasFile, ReadHasFile, Updates
<1>3. WholeUnlessShared /\ SharedIfMet /\ OwnFile
  BY DEF Init, WholeUnlessShared, SharedIfMet, OwnFile, Writing
<1>4. WrittenIsIndexed /\ LockedHolds /\ Alone /\ NoneMet
  BY DEF Init, WrittenIsIndexed, LockedHolds, Alone, NoneMet, Updating, Updates
<1> QED
  BY <1>1, <1>2, <1>3, <1>4 DEF IInv

\* A file that is there stays there: it is only ever replaced.
LEMMA FilesStay ==
  TInv /\ [Next]_vars => \A g \in Slug : file[g] # NoFile => file'[g] # NoFile
<1> SUFFICES ASSUME TInv, [Next]_vars, NEW g \in Slug, file[g] # NoFile
             PROVE  file'[g] # NoFile
  OBVIOUS
<1>1. CASE file' = file
  BY <1>1
<1>2. ASSUME NEW r \in Review, WriteTmp(r)
      PROVE  file'[g] # NoFile
  BY <1>2, ReviewsAssumption, TargetIsSlug DEF TInv, TypeOK, WriteTmp, Busy, Content
<1>3. ASSUME NEW r \in Review, Rename(r)
      PROVE  file'[g] # NoFile
  BY <1>3 DEF TInv, TypeOK, Rename
<1> QED
  BY <1>1, <1>2, <1>3
     DEF Next, Step, vars, files, Reload, Restart, OnLoopDone, Fails, Decides, SkipUpdate,
         OpenTmp, WriteFails, Lock, ReadIndex, OpenIndex, WriteIndex, RenameIndex, IndexFails,
         Unlock, Finish

\* Every step keeps the lines of the index with their files.
LEMMA FileStep ==
  TInv /\ IndexedHasFile /\ RenamedHasFile /\ ReadHasFile /\ [Next]_vars =>
    IndexedHasFile' /\ RenamedHasFile' /\ ReadHasFile'
<1> DEFINE Goal == IndexedHasFile' /\ RenamedHasFile' /\ ReadHasFile'
<1> SUFFICES ASSUME TInv, IndexedHasFile, RenamedHasFile, ReadHasFile, [Next]_vars
             PROVE  Goal
  OBVIOUS
<1>a. TypeOK /\ Busy
  BY DEF TInv
<1>b. \A g \in Slug : file[g] # NoFile => file'[g] # NoFile
  BY FilesStay
<1>c. \A q \in Review : place[q] \in {"renamed"} \cup Updates => Target(q) \in Slug
  BY <1>a, TargetIsSlug DEF Busy
<1>d. ASSUME index' = index, itmp' = itmp,
             \A q \in Review : read'[q] = read[q] \/ read'[q] = {},
             \A q \in Review : place'[q] \in {"renamed"} \cup Updates =>
               place[q] \in {"renamed"} \cup Updates /\ todo'[q] = todo[q]
      PROVE  Goal
  <2>1. IndexedHasFile' /\ ReadHasFile'
    BY <1>a, <1>b, <1>d DEF TypeOK, IndexedHasFile, ReadHasFile
  <2>2. RenamedHasFile'
    BY <1>b, <1>c, <1>d DEF RenamedHasFile, Target
  <2> QED
    BY <2>1, <2>2
<1> USE <1>a DEF TypeOK, what, files, lines, Goes, Updates
<1>1. CASE Reload \/ Restart
  BY <1>1, <1>d DEF Reload, Restart
<1>2. ASSUME NEW r \in Review, OnLoopDone(r) \/ Fails(r) \/ Finish(r) \/ Decides(r)
      PROVE  Goal
  BY <1>2, <1>d DEF OnLoopDone, Fails, Finish, Decides
<1>3. ASSUME NEW r \in Review, SkipUpdate(r) \/ WriteFails(r)
      PROVE  Goal
  BY <1>3, <1>d DEF SkipUpdate, WriteFails, Done
<1>4. ASSUME NEW r \in Review, OpenTmp(r) \/ WriteTmp(r)
      PROVE  Goal
  BY <1>4, <1>d DEF OpenTmp, WriteTmp
<1>5. ASSUME NEW r \in Review, Rename(r)
      PROVE  Goal
  <2>1. IndexedHasFile' /\ ReadHasFile'
    BY <1>5, <1>b DEF Rename, IndexedHasFile, ReadHasFile
  <2>2. Target(r) \in Slug /\ file'[Target(r)] # NoFile /\ todo' = todo
    BY <1>5, TargetIsSlug DEF Rename, Busy
  <2>3. RenamedHasFile'
    BY <1>5, <1>b, <1>c, <2>2 DEF Rename, RenamedHasFile, Target
  <2> QED
    BY <2>1, <2>3
<1>6. ASSUME NEW r \in Review, Lock(r)
      PROVE  Goal
  BY <1>6 DEF Lock, ReadIndex, IndexedHasFile, ReadHasFile, RenamedHasFile, Target
<1>7. ASSUME NEW r \in Review, RenameIndex(r)
      PROVE  Goal
  <2>1. file' = file /\ itmp' = NoFile
    BY <1>7 DEF RenameIndex, Unlock
  <2>2. IndexedHasFile' /\ ReadHasFile'
    BY <1>7, <2>1 DEF RenameIndex, Unlock, IndexedHasFile, ReadHasFile
  <2>3. \A q \in Review : q # r => place'[q] = place[q] /\ todo'[q] = todo[q]
    BY <1>7 DEF RenameIndex, Unlock, Done
  <2>4. place'[r] = "applying"
    BY <1>7 DEF RenameIndex, Unlock
  <2> QED
    BY <2>1, <2>2, <2>3, <2>4 DEF RenamedHasFile, Target
<1>9. ASSUME NEW r \in Review, IndexFails(r)
      PROVE  Goal
  BY <1>9, <1>d DEF IndexFails, Unlock, Done
<1>10. ASSUME NEW r \in Review, OpenIndex(r) \/ WriteIndex(r)
       PROVE  Goal
  <2>1. file' = file /\ read' = read /\ todo' = todo
    BY <1>10 DEF OpenIndex, WriteIndex
  <2>2. place' = [place EXCEPT ![r] = IF OpenIndex(r) THEN "emptied" ELSE "filled"]
        /\ place[r] \in Updates
    BY <1>10 DEF OpenIndex, WriteIndex
  <2>3. RenamedHasFile'
    BY <2>1, <2>2 DEF RenamedHasFile, Target
  <2>4. \A g \in NewLines(r) : file[g] # NoFile
    BY <2>2 DEF NewLines, ReadHasFile, RenamedHasFile
  <2>5. /\ \A g \in index' : file[g] # NoFile
        /\ itmp' # NoFile => \A g \in itmp' : file[g] # NoFile
    <3>1. CASE OpenIndex(r)
      BY <3>1 DEF OpenIndex, IndexedHasFile
    <3>2. CASE WriteIndex(r) /\ open[r] = "tmp"
      <4>1. itmp # NoFile
        BY <3>2 DEF WriteIndex, TInv, OpenIsThere
      <4> QED
        BY <2>4, <3>2, <4>1 DEF WriteIndex, IndexedHasFile, ReadHasFile
    <3>3. CASE WriteIndex(r) /\ open[r] = "target"
      BY <2>4, <3>3 DEF WriteIndex, IndexedHasFile, ReadHasFile
    <3>4. CASE WriteIndex(r) /\ open[r] = "nothing"
      BY <3>4 DEF WriteIndex, IndexedHasFile, ReadHasFile
    <3> QED
      BY <1>10, <3>1, <3>2, <3>3, <3>4 DEF WriteIndex
  <2>6. IndexedHasFile' /\ ReadHasFile'
    BY <2>1, <2>5 DEF IndexedHasFile, ReadHasFile
  <2> QED
    BY <2>3, <2>6
<1>8. CASE UNCHANGED vars
  BY <1>8, <1>d DEF vars
<1> QED
  BY <1>1, <1>2, <1>3, <1>4, <1>5, <1>6, <1>7, <1>8, <1>9, <1>10 DEF Next, Step

\* Every step keeps the memories that are not shared whole.
LEMMA WholeStep ==
  TInv /\ WholeUnlessShared /\ SharedIfMet /\ OwnFile /\ [Next]_vars =>
    WholeUnlessShared' /\ SharedIfMet' /\ OwnFile'
<1> DEFINE Goal == WholeUnlessShared' /\ SharedIfMet' /\ OwnFile'
<1> SUFFICES ASSUME TInv, WholeUnlessShared, SharedIfMet, OwnFile, [Next]_vars
             PROVE  Goal
  OBVIOUS
<1>a. TypeOK /\ Busy
  BY DEF TInv
<1>c. \A q \in Review : Writing(q) => Target(q) \in Slug
  BY <1>a, TargetIsSlug DEF Busy, Writing
<1>d. ASSUME UNCHANGED <<tmp, file, shared>>,
             \A q \in Review : Writing(q)' =>
               place'[q] = place[q] /\ todo'[q] = todo[q] /\ open'[q] = open[q]
      PROVE  Goal
  <2>1. WholeUnlessShared'
    BY <1>d DEF WholeUnlessShared
  <2>2. SharedIfMet' /\ OwnFile'
    BY <1>d DEF SharedIfMet, OwnFile, Writing, Target
  <2> QED
    BY <2>1, <2>2
<1> USE <1>a DEF TypeOK, what, files, lines, Goes
<1>1. CASE Reload \/ Restart
  BY <1>1, <1>d DEF Reload, Restart, Writing
<1>2. ASSUME NEW r \in Review, OnLoopDone(r) \/ Fails(r) \/ Finish(r) \/ Decides(r)
      PROVE  Goal
  BY <1>2, <1>d DEF OnLoopDone, Fails, Finish, Decides, Writing
<1>3. ASSUME NEW r \in Review, SkipUpdate(r) \/ WriteFails(r) \/ IndexFails(r)
      PROVE  Goal
  BY <1>3, <1>d DEF SkipUpdate, WriteFails, IndexFails, Unlock, Done, Writing
<1>7. ASSUME NEW r \in Review, Lock(r) \/ OpenIndex(r) \/ WriteIndex(r) \/ RenameIndex(r)
      PROVE  Goal
  <2>1. UNCHANGED <<tmp, file, shared>>
    BY <1>7 DEF Lock, ReadIndex, OpenIndex, WriteIndex, RenameIndex, Unlock
  <2>2. \A q \in Review : q # r =>
          place'[q] = place[q] /\ todo'[q] = todo[q] /\ (Writing(q) => open'[q] = open[q])
    <3>1. CASE Lock(r) \/ OpenIndex(r) \/ WriteIndex(r)
      BY <3>1 DEF Lock, ReadIndex, OpenIndex, WriteIndex
    <3>2. CASE RenameIndex(r)
      <4>1. \A q \in Review : q # r => place'[q] = place[q] /\ todo'[q] = todo[q]
        BY <3>2 DEF RenameIndex, Unlock, Done
      <4>2. \A q \in Review : q # r /\ Writing(q) => open'[q] = open[q]
        BY <3>2 DEF RenameIndex, Reopened, Writing
      <4> QED
        BY <4>1, <4>2
    <3> QED
      BY <1>7, <3>1, <3>2
  <2>3. place'[r] \notin {"opened", "written"}
    BY <1>7 DEF Lock, ReadIndex, OpenIndex, WriteIndex, RenameIndex, Unlock
  <2> QED
    BY <1>d, <2>1, <2>2, <2>3 DEF Writing
<1>4. ASSUME NEW r \in Review, OpenTmp(r)
      PROVE  Goal
  <2>1. Target(r) \in Slug /\ todo' = todo /\ file' = file /\ shared \subseteq shared'
    BY <1>4, TargetIsSlug DEF OpenTmp
  <2>2. \A q \in Review : q # r => place'[q] = place[q] /\ open'[q] = open[q]
    BY <1>4 DEF OpenTmp
  <2>3. place'[r] = "opened" /\ open'[r] = "tmp" /\ tmp' = [tmp EXCEPT ![Target(r)] = {}]
    BY <1>4 DEF OpenTmp
  <2>4. ASSUME NEW q \in Review, q # r, Writing(q), Target(q) = Target(r)
        PROVE  Target(r) \in shared'
    BY <1>4, <2>4 DEF OpenTmp, Writing
  <2>5. WholeUnlessShared'
    BY <2>1 DEF WholeUnlessShared
  <2>6. SharedIfMet'
    BY <2>1, <2>2, <2>4 DEF SharedIfMet, Writing, Target
  <2>7. OwnFile'
    BY <1>c, <2>1, <2>2, <2>3, <2>4 DEF OwnFile, Writing, Target
  <2> QED
    BY <2>5, <2>6, <2>7
<1>5. ASSUME NEW r \in Review, WriteTmp(r)
      PROVE  Goal
  <2>1. Target(r) \in Slug /\ Writing(r) /\ todo' = todo /\ shared' = shared /\ open' = open
    BY <1>5, <1>c DEF WriteTmp, Writing
  <2>2. place[r] = "opened" /\ place' = [place EXCEPT ![r] = "written"]
    BY <1>5 DEF WriteTmp
  <2>3. \A g \in Slug : g # Target(r) => tmp'[g] = tmp[g] /\ file'[g] = file[g]
    BY <1>5 DEF WriteTmp
  <2>4. Target(r) \notin shared => tmp'[Target(r)] = {r} /\ file' = file
    <3>1. SUFFICES ASSUME Target(r) \notin shared
                   PROVE  tmp'[Target(r)] = {r} /\ file' = file
      OBVIOUS
    <3>2. open[r] = "tmp" /\ tmp[Target(r)] = {}
      BY <2>1, <2>2, <3>1 DEF OwnFile
    <3>3. tmp[Target(r)] \cup {r} = {r}
      BY <3>2
    <3>4. file' = file /\ \E c \in {{r}, tmp[Target(r)] \cup {r}} :
            tmp' = [tmp EXCEPT ![Target(r)] = c]
      BY <1>5, <3>2 DEF WriteTmp
    <3> QED
      BY <2>1, <3>3, <3>4
  <2>5. WholeUnlessShared'
    BY <2>1, <2>3, <2>4 DEF WholeUnlessShared
  <2>6. \A q \in Review : Writing(q)' => Writing(q) /\ (q # r => place'[q] = place[q])
    BY <2>1, <2>2 DEF Writing
  <2>7. SharedIfMet'
    BY <2>1, <2>6 DEF SharedIfMet, Target
  <2>8. ASSUME NEW q \in Review, Writing(q)', Target(q) \notin shared
        PROVE  open[q] = "tmp" /\ tmp'[Target(q)] = IF place'[q] = "opened" THEN {} ELSE {q}
    <3>1. CASE q = r
      BY <2>1, <2>2, <2>4, <2>8, <3>1 DEF OwnFile
    <3>2. CASE q # r
      <4>1. Target(q) # Target(r)
        BY <2>1, <2>6, <2>8, <3>2 DEF SharedIfMet
      <4> QED
        BY <1>c, <2>3, <2>6, <2>8, <3>2, <4>1 DEF OwnFile
    <3> QED
      BY <3>1, <3>2
  <2>9. OwnFile'
    BY <2>1, <2>8 DEF OwnFile, Target
  <2> QED
    BY <2>5, <2>7, <2>9
<1>6. ASSUME NEW r \in Review, Rename(r)
      PROVE  Goal
  <2>1. Target(r) \in Slug /\ Writing(r) /\ todo' = todo /\ shared' = shared
    BY <1>6, <1>c DEF Rename, Writing
  <2>2. place[r] = "written" /\ place' = [place EXCEPT ![r] = "renamed"]
    BY <1>6 DEF Rename
  <2>3. \A g \in Slug : g # Target(r) => tmp'[g] = tmp[g] /\ file'[g] = file[g]
    BY <1>6 DEF Rename
  <2>4. file'[Target(r)] = tmp[Target(r)]
    BY <1>6, <2>1 DEF Rename
  <2>5. Target(r) \notin shared => Cardinality(file'[Target(r)]) = 1
    BY <2>1, <2>2, <2>4, FS_Singleton DEF OwnFile
  <2>6. WholeUnlessShared'
    BY <2>1, <2>3, <2>5 DEF WholeUnlessShared
  <2>7. \A q \in Review : Writing(q)' => q # r /\ Writing(q) /\ place'[q] = place[q]
    BY <2>2 DEF Writing
  <2>8. SharedIfMet'
    BY <2>1, <2>7 DEF SharedIfMet, Target
  <2>9. ASSUME NEW q \in Review, Writing(q)', Target(q) \notin shared
        PROVE  open'[q] = "tmp" /\ tmp'[Target(q)] = IF place'[q] = "opened" THEN {} ELSE {q}
    <3>1. Target(q) # Target(r)
      BY <2>1, <2>7, <2>9 DEF SharedIfMet
    <3>2. open'[q] = open[q]
      BY <1>6, <2>7, <2>9, <3>1 DEF Rename, Reopened
    <3> QED
      BY <1>c, <2>3, <2>7, <2>9, <3>1, <3>2 DEF OwnFile
  <2>10. OwnFile'
    BY <2>1, <2>9 DEF OwnFile, Target
  <2> QED
    BY <2>6, <2>8, <2>10
<1>8. CASE UNCHANGED vars
  BY <1>8, <1>d DEF vars, Writing
<1> QED
  BY <1>1, <1>2, <1>3, <1>4, <1>5, <1>6, <1>7, <1>8 DEF Next, Step

\* Every step keeps what was written in the index, and the mutexes.
LEMMA IndexStep ==
  TInv /\ WrittenIsIndexed /\ LockedHolds /\ Alone /\ NoneMet /\ [Next]_vars =>
    WrittenIsIndexed' /\ LockedHolds' /\ Alone' /\ NoneMet'
<1> DEFINE Goal == WrittenIsIndexed' /\ LockedHolds' /\ Alone' /\ NoneMet'
<1> SUFFICES ASSUME TInv, WrittenIsIndexed, LockedHolds, Alone, NoneMet, [Next]_vars
             PROVE  Goal
  OBVIOUS
<1>a. TypeOK
  BY DEF TInv
<1>b. Nobody \notin Review
  BY ReviewsAssumption
\* What a step has to keep, of the places and of the lines.
<1>c. ASSUME \A q \in Review : place[q] # "idle" => place'[q] # "idle" /\ of'[q] = of[q],
             met' \subseteq met, raced' # {} => raced # {} \/ met # {},
             \A q \in Review : applied'[q] \subseteq index' \cup raced'
      PROVE  WrittenIsIndexed' /\ NoneMet'
  <2>1. OneReviewer' => OneReviewer
    BY <1>c DEF OneReviewer
  <2>2. NoneMet'
    BY <1>c, <2>1 DEF NoneMet
  <2>3. WrittenIsIndexed'
    BY <1>c, <2>2 DEF NoneMet, OneReviewer, WrittenIsIndexed
  <2> QED
    BY <2>2, <2>3
<1>d. ASSUME \A q \in Review : /\ place[q] # "idle" => place'[q] # "idle" /\ of'[q] = of[q]
                               /\ Updating(q)' => /\ place'[q] = place[q] /\ mu'[of[q]] = mu[of[q]]
                                                 /\ read'[q] = read[q] /\ open'[q] = open[q]
                                                 /\ todo'[q] = todo[q] /\ (q \in met => q \in met'),
             UNCHANGED <<index, itmp, raced, applied>>, met' \subseteq met
      PROVE  Goal
  <2>1. WrittenIsIndexed' /\ NoneMet'
    BY <1>c, <1>d DEF WrittenIsIndexed
  <2>2. LockedHolds'
    BY <1>d DEF LockedHolds, Updating, Updates
  <2>3. Alone'
    BY <1>d DEF Alone, Updating, Updates, NewLines, Target
  <2> QED
    BY <2>1, <2>2, <2>3
<1> USE <1>a DEF TypeOK, what, files, lines, Goes
<1>1. CASE Reload \/ Restart
  BY <1>1, <1>d DEF Reload, Restart, Updating, Updates
<1>2. ASSUME NEW r \in Review, OnLoopDone(r)
      PROVE  Goal
  BY <1>2, <1>d DEF OnLoopDone, Updating, Updates
<1>3. ASSUME NEW r \in Review, Fails(r) \/ Finish(r) \/ Decides(r) \/ SkipUpdate(r)
      PROVE  Goal
  BY <1>3, <1>d DEF Fails, Finish, Decides, SkipUpdate, Done, Updating, Updates
<1>4. ASSUME NEW r \in Review, OpenTmp(r) \/ WriteTmp(r) \/ Rename(r) \/ WriteFails(r)
      PROVE  Goal
  BY <1>4, <1>d DEF OpenTmp, WriteTmp, Rename, Reopened, WriteFails, Done, Updating, Updates
<1>5. ASSUME NEW r \in Review, Lock(r)
      PROVE  Goal
  <2>1. /\ place' = [place EXCEPT ![r] = "locked"] /\ mu' = [mu EXCEPT ![of[r]] = r]
        /\ read' = [read EXCEPT ![r] = index] /\ place[r] = "renamed" /\ mu[of[r]] = Nobody
        /\ UNCHANGED <<of, index, itmp, open, todo, raced, applied>>
    BY <1>5 DEF Lock, ReadIndex
  <2>2. met' = IF \E q \in Review \ {r} : Updating(q)
               THEN met \cup {q \in Review \ {r} : Updating(q)} \cup {r} ELSE met
    BY <1>5 DEF Lock, ReadIndex
  <2>3. OneReviewer' => OneReviewer
    BY <2>1 DEF OneReviewer
  <2>4. ASSUME NEW q \in Review, Updating(q)
        PROVE  of[q] # of[r] /\ place[q] # "idle" /\ place[r] # "idle"
    BY <1>b, <2>1, <2>4 DEF LockedHolds, Updating, Updates
  <2>5. (\E q \in Review \ {r} : Updating(q)) => ~OneReviewer
    BY <2>4 DEF OneReviewer
  <2>6. NoneMet'
    BY <2>1, <2>2, <2>3, <2>5 DEF NoneMet
  <2>7. LockedHolds'
    BY <1>b, <2>1 DEF LockedHolds, Updating, Updates
  <2>8. Alone'
    <3>1. CASE \E q \in Review \ {r} : Updating(q)
      BY <2>1, <2>2, <3>1 DEF Alone, Updating, Updates
    <3>2. CASE ~ \E q \in Review \ {r} : Updating(q)
      BY <2>1, <2>2, <3>2 DEF Alone, Updating, Updates
    <3> QED
      BY <3>1, <3>2
  <2>9. WrittenIsIndexed'
    BY <2>1 DEF WrittenIsIndexed
  <2> QED
    BY <2>6, <2>7, <2>8, <2>9
<1>6. ASSUME NEW r \in Review, OpenIndex(r)
      PROVE  Goal
  <2>1. /\ place' = [place EXCEPT ![r] = "emptied"] /\ place[r] = "locked" /\ itmp' = {}
        /\ open' = [open EXCEPT ![r] = "tmp"]
        /\ UNCHANGED <<of, mu, index, read, todo, met, raced, applied>>
    BY <1>6 DEF OpenIndex
  <2>2. WrittenIsIndexed' /\ NoneMet'
    BY <1>c, <2>1 DEF WrittenIsIndexed
  <2>3. LockedHolds'
    BY <2>1 DEF LockedHolds, Updating, Updates
  <2>4. Alone'
    BY <2>1 DEF Alone, Updating, Updates
  <2> QED
    BY <2>2, <2>3, <2>4
<1>7. ASSUME NEW r \in Review, WriteIndex(r)
      PROVE  Goal
  <2>1. /\ place' = [place EXCEPT ![r] = "filled"] /\ place[r] = "emptied"
        /\ UNCHANGED <<of, mu, read, todo, met, applied, open>>
    BY <1>7 DEF WriteIndex
  <2>2. r \notin met => /\ itmp' = NewLines(r) /\ index' = index /\ raced' = raced
                        /\ open[r] = "tmp" /\ read[r] = index
    <3> SUFFICES ASSUME r \notin met
                 PROVE  /\ itmp' = NewLines(r) /\ index' = index /\ raced' = raced
                        /\ open[r] = "tmp" /\ read[r] = index
      OBVIOUS
    <3>1. open[r] = "tmp" /\ itmp = {} /\ read[r] = index
      BY <2>1 DEF Alone, Updating, Updates
    <3>2. NewLines(r) \cup {} = NewLines(r) /\ SUBSET {} = {{}}
      OBVIOUS
    <3> QED
      BY <1>7, <3>1, <3>2 DEF WriteIndex
  <2>3. \A q \in Review : applied[q] \subseteq index' \cup raced'
    <3>1. CASE open[r] = "target"
      <4>1. r \in met
        BY <2>2, <3>1
      <4>2. raced' = (raced \cup index) \ index'
        BY <1>7, <3>1, <4>1 DEF WriteIndex, Loses
      <4> QED
        BY <4>2 DEF WrittenIsIndexed
    <3>2. CASE open[r] # "target"
      <4>1. UNCHANGED <<index, raced>>
        BY <1>7, <3>2 DEF WriteIndex
      <4> QED
        BY <4>1 DEF WrittenIsIndexed
    <3> QED
      BY <3>1, <3>2
  <2>4. raced' # {} => raced # {} \/ met # {}
    BY <1>7 DEF WriteIndex, Loses
  <2>5. WrittenIsIndexed' /\ NoneMet'
    BY <1>c, <2>1, <2>3, <2>4
  <2>6. LockedHolds'
    BY <2>1 DEF LockedHolds, Updating, Updates
  <2>7. Alone'
    <3>1. \A q \in Review : Updating(q)' <=> Updating(q)
      BY <2>1 DEF Updating, Updates
    <3>2. NewLines(r)' = NewLines(r)
      BY <2>1 DEF NewLines, Target
    <3>3. Updating(r)
      BY <2>1 DEF Updating, Updates
    <3> QED
      BY <2>1, <2>2, <3>1, <3>2, <3>3 DEF Alone
  <2> QED
    BY <2>5, <2>6, <2>7
<1>8. ASSUME NEW r \in Review, RenameIndex(r) \/ IndexFails(r)
      PROVE  Goal
  <2>1. /\ place' = [place EXCEPT ![r] = "applying"] /\ mu' = [mu EXCEPT ![of[r]] = Nobody]
        /\ read' = [read EXCEPT ![r] = {}] /\ Updating(r) /\ of' = of /\ met' = met \ {r}
        /\ \A q \in Review \ {r} : todo'[q] = todo[q]
    BY <1>8 DEF RenameIndex, IndexFails, Unlock, Done, Updating, Updates
  <2>2. \A q \in Review : Updating(q)' <=> q # r /\ Updating(q)
    BY <2>1 DEF Updating, Updates
  <2>3. LockedHolds'
    BY <2>1, <2>2 DEF LockedHolds
  <2>4. Alone'
    BY <2>1, <2>2 DEF Alone
  <2>5. /\ \A q \in Review : applied'[q] \subseteq index' \cup raced'
        /\ raced' # {} => raced # {} \/ met # {}
    <3>1. CASE IndexFails(r)
      BY <3>1 DEF IndexFails, WrittenIsIndexed
    <3>2. CASE RenameIndex(r)
      <4>1. /\ applied' = [applied EXCEPT ![r] = @ \cup {Target(r)}] /\ index' = itmp
            /\ raced' = (IF r \in met THEN raced \cup (index \cup {Target(r)}) ELSE raced) \ itmp
        BY <3>2 DEF RenameIndex, Loses
      <4>2. r \notin met => itmp = index \cup {Target(r)}
        BY <2>1, <3>2 DEF RenameIndex, Alone, NewLines
      <4>3. \A q \in Review : applied'[q] \subseteq applied[q] \cup {Target(r)}
                               /\ applied[q] \subseteq index \cup raced
        BY <4>1 DEF WrittenIsIndexed
      <4> QED
        BY <4>1, <4>2, <4>3
    <3> QED
      BY <1>8, <3>1, <3>2
  <2>6. WrittenIsIndexed' /\ NoneMet'
    BY <1>c, <2>1, <2>5
  <2> QED
    BY <2>3, <2>4, <2>6
<1>9. CASE UNCHANGED vars
  BY <1>9, <1>d DEF vars, Updating, Updates
<1> QED
  BY <1>1, <1>2, <1>3, <1>4, <1>5, <1>6, <1>7, <1>8, <1>9 DEF Next, Step

\* The invariant is inductive.
LEMMA StepIInv == IInv /\ [Next]_vars => IInv'
BY StepTInv, FileStep, WholeStep, IndexStep DEF IInv

\* The invariant holds in every reachable state.
LEMMA Invariant == Spec => []IInv
BY InitIInv, StepIInv, PTL DEF Spec

-----------------------------------------------------------------------------
(* What follows for every behaviour of the reviews.                        *)

\* Type correctness of the reviews, the memories and the index.
THEOREM TypeCorrect == Spec => []TypeOK
<1>1. IInv => TypeOK
  BY DEF IInv, TInv
<1> QED
  BY <1>1, Invariant, PTL

\* The index never has a line without its memory: reviewer.go writes the file
\* before the line, no failure or restart takes a file away, and what two updates
\* make of one temporary file are lines that either had.
THEOREM LinesHaveFiles == Spec => []IndexedHasFile
<1>1. IInv => IndexedHasFile
  BY DEF IInv
<1> QED
  BY <1>1, Invariant, PTL

\* A memory that two reviews have not written at the same time is whole.
THEOREM MemoriesAreWhole == Spec => []WholeUnlessShared
<1>1. IInv => WholeUnlessShared
  BY DEF IInv
<1> QED
  BY <1>1, Invariant, PTL

\* No reviewer loses a line of its own: Store.mu keeps its updates of the index
\* apart, so that an update loses lines, its own or others', only while one of a
\* second reviewer is under way, on the same temporary file.
THEOREM LinesAreKept == Spec => []WrittenIsIndexed
<1>1. IInv => WrittenIsIndexed
  BY DEF IInv
<1> QED
  BY <1>1, Invariant, PTL
===============================================================================
