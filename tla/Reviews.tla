-------------------------------- MODULE Reviews --------------------------------
(***************************************************************************)
(* The memory reviews of one user (src/src/memory/autolearn): after a turn *)
(* a goroutine asks the model what is worth keeping and writes it: a file  *)
(* per memory, then its line in the index MEMORY.md.  Reviews of different *)
(* sessions run side by side, and after a hot reload (buildRuntime in      *)
(* main.go) those of the old reviewer beside those of the new one, which   *)
(* has a Store, with a mutex, of its own on the same directory.            *)
(* A step is a section under Store.mu or Reviewer.mu, or one call of the   *)
(* operating system on a file: atomicWriteFile opens (and empties) the     *)
(* temporary file, writes it, renames it.  The temporary file of a memory  *)
(* has one name, whoever writes it, and so has that of the index.          *)
(***************************************************************************)
EXTENDS Naturals, FiniteSets, Sequences

CONSTANTS Review,        \* the reviews of a behaviour
          Session,
          Slug,          \* names of memories
          MaxDecisions,  \* bound on what one review decides
          MaxStores,     \* bound on reviewers, hot reloads and restarts included
          NoFile, Nobody

ASSUME ReviewsAssumption ==
  /\ MaxDecisions \in Nat \ {0} /\ MaxStores \in Nat \ {0}
  /\ Nobody \notin Review
  /\ \A c \in (SUBSET Review) \cup (SUBSET Slug) : c # NoFile

Store == 1 .. MaxStores
Decision == [action : {"new", "update"}, slug : Slug]

\* A file is the set of the reviews whose text it shows: {} while it is empty,
\* one for a file that is whole.
Content == {NoFile} \cup SUBSET Review

VARIABLES
  store,     \* the reviewer and Store of the current runtime
  of,        \* of[r]: those of review r
  session,   \* session[r]: the session it reviews
  place,     \* place[r]: where it is
  todo,      \* todo[r]: its decisions that are not over yet
  applied,   \* applied[r]: the memories it has written, with their lines
  skipped,   \* skipped[r]: updates it has skipped, and reports as applied too
  inflight,  \* inflight[s]: Reviewer.inflight
  mu,        \* mu[s]: who holds Store.mu
  index,     \* the slugs that lines of MEMORY.md show
  itmp,      \* those of its temporary file
  read,      \* read[r]: what r has read of the index under the lock
  tmp, file, \* tmp[g], file[g]: the two files of memory g
  open,      \* open[r]: whether the file r has open is the temporary one, the
             \* one it was renamed to ("target"), or neither
  shared,    \* ghost: memories that two reviews have written at the same time
  met,       \* ghost: reviews whose update of the index has met another one
  raced      \* ghost: slugs whose line was lost in an update that met another

what  == <<of, session, todo, applied, skipped>>
files == <<tmp, file, open, shared>>
lines == <<mu, index, itmp, read, met, raced>>
vars  == <<store, what, place, inflight, files, lines>>

Idle     == {"idle", "ended"}
Updates  == {"locked", "emptied", "filled"}
AtWork   == {"asking", "applying", "opened", "written", "renamed"} \cup Updates
Places   == Idle \cup AtWork

Init ==
  /\ store = 1 /\ of = [r \in Review |-> 1]
  /\ session \in [Review -> Session]
  /\ place = [r \in Review |-> "idle"]
  /\ todo = [r \in Review |-> <<>>] /\ applied = [r \in Review |-> {}]
  /\ skipped = [r \in Review |-> {}]
  /\ inflight = [s \in Store |-> {}]
  /\ mu = [s \in Store |-> Nobody]
  /\ index = {} /\ itmp = NoFile /\ read = [r \in Review |-> {}]
  /\ met = {} /\ raced = {}
  /\ tmp = [g \in Slug |-> NoFile] /\ file = [g \in Slug |-> NoFile]
  /\ open = [r \in Review |-> "nothing"] /\ shared = {}

(***************************************************************************)
(* The review                                                              *)
(***************************************************************************)
Goes(r, p) == place' = [place EXCEPT ![r] = p]

\* OnLoopDone of a turn that completed and was no chitchat; while a review of
\* the session is under way, the request is dropped.
OnLoopDone(r) ==
  /\ place[r] = "idle"
  /\ IF session[r] \in inflight[store]
     THEN Goes(r, "ended") /\ UNCHANGED <<of, inflight>>
     ELSE /\ inflight' = [inflight EXCEPT ![store] = @ \cup {session[r]}]
          /\ of' = [of EXCEPT ![r] = store]
          /\ Goes(r, "asking")
  /\ UNCHANGED <<store, session, todo, applied, skipped, files, lines>>

\* The goroutine's deferred calls: the session is free again.
ClearInflight(r) ==
  inflight' = [inflight EXCEPT ![of[r]] = @ \ {session[r]}]

\* The model fails, answers nothing that can be used, or panics, or the review
\* has lasted ReviewTimeout.
Fails(r) ==
  /\ place[r] = "asking" /\ Goes(r, "ended") /\ ClearInflight(r)
  /\ UNCHANGED <<store, what, files, lines>>

\* The model answers with decisions.
Decides(r) ==
  /\ place[r] = "asking"
  /\ \E n \in 1 .. MaxDecisions : \E ds \in [1 .. n -> Decision] :
       todo' = [todo EXCEPT ![r] = ds]
  /\ Goes(r, "applying")
  /\ UNCHANGED <<store, of, session, applied, skipped, inflight, files, lines>>

Target(r) == Head(todo[r]).slug
Done(r) == todo' = [todo EXCEPT ![r] = Tail(@)]

\* An update of a memory that the index does not have is skipped, and counted
\* as applied like any other.
SkipUpdate(r) ==
  /\ place[r] = "applying" /\ todo[r] # <<>>
  /\ Head(todo[r]).action = "update" /\ Target(r) \notin index
  /\ skipped' = [skipped EXCEPT ![r] = @ \cup {Target(r)}]
  /\ Done(r)
  /\ UNCHANGED <<store, of, session, applied, place, inflight, files, lines>>

\* Mutant: the memory is written in place.
OpenMemory(r) ==
  /\ place[r] = "applying" /\ todo[r] # <<>>
  /\ file' = [file EXCEPT ![Target(r)] = {}]
  /\ open' = [open EXCEPT ![r] = "target"]
  /\ Goes(r, "opened")
  /\ UNCHANGED <<store, what, inflight, tmp, shared, lines>>

\* WriteMemory: the temporary file is opened, empty now ...
OpenTmp(r) ==
  /\ place[r] = "applying" /\ todo[r] # <<>>
  /\ Head(todo[r]).action = "update" => Target(r) \in index
  /\ tmp' = [tmp EXCEPT ![Target(r)] = {}]
  /\ open' = [open EXCEPT ![r] = "tmp"]
  /\ shared' = IF \E q \in Review \ {r} : place[q] \in {"opened", "written"}
                                         /\ Target(q) = Target(r)
               THEN shared \cup {Target(r)} ELSE shared
  /\ Goes(r, "opened")
  /\ UNCHANGED <<store, what, inflight, file, lines>>

\* ... written, over what another has written there, which may be longer ...
WriteTmp(r) ==
  LET g == Target(r)
      over(c) == {{r}, c \cup {r}}
  IN
  /\ place[r] = "opened" /\ Goes(r, "written")
  /\ \/ open[r] = "tmp" /\ UNCHANGED file
        /\ \E c \in over(tmp[g]) : tmp' = [tmp EXCEPT ![g] = c]
     \/ open[r] = "target" /\ UNCHANGED tmp
        /\ \E c \in over(file[g]) : file' = [file EXCEPT ![g] = c]
     \/ open[r] = "nothing" /\ UNCHANGED <<tmp, file>>
  /\ UNCHANGED <<store, what, inflight, open, shared, lines>>

\* Who has the temporary file open has the renamed one open then, and who had
\* that one a file without a name.
Reopened(r, others) ==
  [q \in Review |->
     IF q = r THEN "nothing"
     ELSE IF q \in others THEN IF open[q] = "tmp" THEN "target" ELSE "nothing"
     ELSE open[q]]

\* ... and renamed, if it is still there.
Rename(r) ==
  LET g == Target(r) IN
  /\ place[r] = "written" /\ tmp[g] # NoFile
  /\ file' = [file EXCEPT ![g] = tmp[g]] /\ tmp' = [tmp EXCEPT ![g] = NoFile]
  /\ open' = Reopened(r, {q \in Review : place[q] \in {"opened", "written"} /\ Target(q) = g})
  /\ Goes(r, "renamed")
  /\ UNCHANGED <<store, what, inflight, shared, lines>>

\* A step of applyOne up to the rename fails: the decision is given up.
WriteFails(r) ==
  /\ place[r] \in {"applying", "opened", "written"} /\ todo[r] # <<>>
  /\ Goes(r, "applying") /\ Done(r) /\ open' = [open EXCEPT ![r] = "nothing"]
  /\ UNCHANGED <<store, of, session, applied, skipped, inflight, tmp, file, shared, lines>>

(***************************************************************************)
(* The index                                                               *)
(***************************************************************************)
Updating(r) == place[r] \in Updates

\* UpsertIndexEntry, under Store.mu: the index is read ...
ReadIndex(r) ==
  LET others == {q \in Review \ {r} : Updating(q)} IN
  /\ mu[of[r]] = Nobody /\ mu' = [mu EXCEPT ![of[r]] = r]
  /\ read' = [read EXCEPT ![r] = index]
  /\ met' = IF others # {} THEN met \cup others \cup {r} ELSE met
  /\ Goes(r, "locked")
  /\ UNCHANGED <<store, what, inflight, files, index, itmp, raced>>

\* Mutant: the line goes into the index before the memory is written.
LockEarly(r) == place[r] \in {"opened", "renamed"} /\ ReadIndex(r)

Lock(r) == place[r] = "renamed" /\ ReadIndex(r)

\* ... its temporary file is opened ...
OpenIndex(r) ==
  /\ place[r] = "locked" /\ Goes(r, "emptied")
  /\ itmp' = {} /\ open' = [open EXCEPT ![r] = "tmp"]
  /\ UNCHANGED <<store, what, inflight, tmp, file, shared, mu, index, read, met, raced>>

\* Mutant: the new line alone.
NewLinesAlone(r) == {Target(r)}

NewLines(r) == read[r] \cup {Target(r)}

\* Lines that this step takes from the index are lost to another update only
\* if there is one.
Loses(r, old, new) == raced' = ((IF r \in met THEN raced \cup old ELSE raced) \ new)

\* ... and written, which leaves the end of a longer text that another has
\* written there: some of its lines ...
WriteIndex(r) ==
  LET over(c) == {NewLines(r) \cup rest : rest \in SUBSET c} IN
  /\ place[r] = "emptied" /\ Goes(r, "filled")
  /\ \/ open[r] = "tmp" /\ itmp' \in over(itmp) /\ UNCHANGED <<index, raced>>
     \/ open[r] = "target" /\ index' \in over(index) /\ Loses(r, index, index')
        /\ UNCHANGED itmp
     \/ open[r] = "nothing" /\ UNCHANGED <<index, itmp, raced>>
  /\ UNCHANGED <<store, what, inflight, files, mu, read, met>>

\* The update is over, and the mutex free.
Unlock(r) ==
  /\ Goes(r, "applying") /\ Done(r)
  /\ mu' = [mu EXCEPT ![of[r]] = Nobody] /\ read' = [read EXCEPT ![r] = {}]
  /\ met' = met \ {r}
  /\ UNCHANGED <<store, of, session, skipped, inflight, tmp, file, shared>>

\* ... and renamed, whatever it holds by then; ...
RenameIndex(r) ==
  /\ place[r] = "filled" /\ itmp # NoFile
  /\ index' = itmp /\ itmp' = NoFile
  /\ Loses(r, index \cup {Target(r)}, itmp)
  /\ open' = Reopened(r, {q \in Review : place[q] \in {"emptied", "filled"}})
  /\ applied' = [applied EXCEPT ![r] = @ \cup {Target(r)}]
  /\ Unlock(r)

\* ... or one of these calls fails, as the rename does if another was first.
IndexFails(r) ==
  /\ Updating(r) /\ open' = [open EXCEPT ![r] = "nothing"]
  /\ Unlock(r)
  /\ UNCHANGED <<applied, index, itmp, raced>>

\* The end is announced, and then the session is free.
Finish(r) ==
  /\ place[r] = "applying" /\ todo[r] = <<>> /\ Goes(r, "ended") /\ ClearInflight(r)
  /\ UNCHANGED <<store, what, files, lines>>

(***************************************************************************)
(* The process                                                             *)
(***************************************************************************)
\* A hot reload: reviews of the old runtime go on.
Reload ==
  /\ store < MaxStores /\ store' = store + 1
  /\ UNCHANGED <<what, place, inflight, files, lines>>

\* The process dies and starts again; temporary files stay behind.
Restart ==
  /\ store < MaxStores /\ store' = store + 1
  /\ place' = [r \in Review |-> IF place[r] = "idle" THEN "idle" ELSE "ended"]
  /\ inflight' = [s \in Store |-> {}] /\ mu' = [s \in Store |-> Nobody]
  /\ open' = [r \in Review |-> "nothing"]
  /\ todo' = [r \in Review |-> <<>>] /\ read' = [r \in Review |-> {}] /\ met' = {}
  /\ UNCHANGED <<of, session, applied, skipped, index, itmp, raced, tmp, file, shared>>

Step(r) ==
  \/ Fails(r) \/ Decides(r) \/ SkipUpdate(r) \/ OpenTmp(r) \/ WriteTmp(r)
  \/ Rename(r) \/ WriteFails(r) \/ Lock(r) \/ OpenIndex(r) \/ WriteIndex(r)
  \/ RenameIndex(r) \/ IndexFails(r) \/ Finish(r)
Next == Reload \/ Restart \/ \E r \in Review : OnLoopDone(r) \/ Step(r)

Spec == Init /\ [][Next]_vars

(***************************************************************************)
(* Properties                                                              *)
(***************************************************************************)
TypeOK ==
  /\ store \in Store /\ of \in [Review -> Store] /\ session \in [Review -> Session]
  /\ place \in [Review -> Places]
  /\ todo \in [Review -> Seq(Decision)] /\ applied \in [Review -> SUBSET Slug]
  /\ skipped \in [Review -> SUBSET Slug]
  /\ inflight \in [Store -> SUBSET Session]
  /\ mu \in [Store -> {Nobody} \cup Review]
  /\ index \subseteq Slug /\ itmp \in {NoFile} \cup SUBSET Slug
  /\ read \in [Review -> SUBSET Slug] /\ met \subseteq Review /\ raced \subseteq Slug
  /\ tmp \in [Slug -> Content] /\ file \in [Slug -> Content]
  /\ open \in [Review -> {"nothing", "tmp", "target"}] /\ shared \subseteq Slug

\* Every line of the index has its memory, however reviews, reloads, failing
\* writes and restarts mix, and texts of the index in one file: the prompt never
\* refers to a file that is not there.
IndexedHasFile == \A g \in index : file[g] # NoFile

\* A memory is whole, through crashes and failures, but for one that two
\* reviews have written at the same time.
WholeUnlessShared ==
  \A g \in Slug : file[g] = NoFile \/ Cardinality(file[g]) = 1 \/ g \in shared

\* What a review has counted as applied with a new memory is in the index from
\* then on.  A line is lost only in an update that met another: reviewers of the
\* same user, before and after a reload, have a mutex each and one temporary
\* file, which one empties when the other is about to rename it.
WrittenIsIndexed ==
  /\ \A r \in Review : applied[r] \subseteq index \cup raced
  /\ raced # {} => \E q, r \in Review :
       place[q] # "idle" /\ place[r] # "idle" /\ of[q] # of[r]
================================================================================
