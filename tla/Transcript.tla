------------------------------ MODULE Transcript ------------------------------
(***************************************************************************)
(* What a user counts on: a conversation, the log that a restart or a      *)
(* resume reads it from, and the archive of what summaries replaced.  The  *)
(* log of the open session grows only at its end and only by what is said  *)
(* in it; what leaves a log is in its archive, unless the user cleared or  *)
(* deleted the session; a session that is opened says what its log holds;  *)
(* and while the log is exact (no write failed, no summary replaced the    *)
(* conversation since it was opened) it is the beginning of what was said, *)
(* and all of it when the session is left.  Nothing is promised of a       *)
(* session that is lost, and nothing of the others changes while one is    *)
(* open.  ChatSession implements it.                                       *)
(***************************************************************************)
EXTENDS Naturals, Sequences, SequencesExt

CONSTANT Session

VARIABLES open,     \* the session that is open
          said,     \* the conversation in it
          log,      \* log[s]: the messages that s is read from
          archive,  \* archive[s]: the messages that summaries of s replaced
          exact,    \* the log of the open session is the beginning of said
          lost      \* sessions that commands and streams got at together

vars == <<open, said, log, archive, exact, lost>>

Init ==
  /\ open \in Session
  /\ said = <<>> /\ exact = TRUE
  /\ log = [s \in Session |-> <<>>]
  /\ archive = [s \in Session |-> {}]
  /\ lost = {}

\* A part of what is said goes to the end of the open session's log; the part
\* that comes next, as long as the log is exact.
Store(conversation) ==
  \E i, j \in 0 .. Len(conversation) :
    /\ exact => i = Len(log[open])
    /\ log' = [log EXCEPT ![open] = @ \o SubSeq(conversation, i + 1, j)]

\* The user, the model or a tool says something, or what was said is stored.
Say ==
  /\ IsPrefix(said, said')
  /\ Store(said')
  /\ exact' => exact
  /\ UNCHANGED <<open, archive>>

\* The first part of the conversation is put aside for a summary.
Archive ==
  /\ \E i \in 1 .. Len(said) - 1 :
       archive' = [archive EXCEPT ![open] = @ \cup ToSet(SubSeq(said, 1, i))]
  /\ exact' => exact
  /\ UNCHANGED <<open, said, log>>

\* A summary of two messages replaces in the log what was put aside.
Summarise ==
  /\ Len(log'[open]) >= 2
  /\ \E i \in 1 .. Len(said) - 1 :
       /\ ToSet(SubSeq(said, 1, i)) \subseteq archive[open]
       /\ log' = [log EXCEPT ![open] = SubSeq(log'[open], 1, 2) \o SubSeq(said, i + 1, Len(said))]
  /\ exact' = FALSE
  /\ UNCHANGED <<open, said, archive>>

\* The conversation goes on from the summary.
Continue ==
  /\ said' = log[open]
  /\ exact' = FALSE
  /\ UNCHANGED <<open, log, archive>>

\* Another session is opened, or the same again: what is left of the
\* conversation is stored, and the log of the other is what was said there.
Open(s) ==
  /\ exact => log[open] = said
  /\ Store(said)
  /\ open' = s
  /\ said' = log[s]
  /\ exact' => log'[s] = log[s]
  /\ UNCHANGED archive

\* The user empties the open session; the files may stay as they were.
Clear ==
  /\ said' = <<>>
  /\ \/ /\ log' = [log EXCEPT ![open] = <<>>]
        /\ archive' = [archive EXCEPT ![open] = {}]
     \/ exact' = FALSE /\ UNCHANGED <<log, archive>>
  /\ UNCHANGED open

\* The user deletes a session.
Delete(s) ==
  /\ log' = [log EXCEPT ![s] = <<>>]
  /\ archive' = [archive EXCEPT ![s] = {}]
  /\ exact' => exact /\ s # open
  /\ UNCHANGED <<open, said>>

\* The program ends, perhaps in the middle of storing what was said or a prompt
\* that was just typed, and a session is opened as its log has it.
Restart(s) ==
  /\ \/ Store(said)
     \/ \E m \in ToSet(log'[open]) : Store(Append(said, m))
  /\ open' = s
  /\ said' = log'[s]
  /\ UNCHANGED archive

\* A lost session is open, or becomes so: what is not lost stays as it is.
Disturbed ==
  /\ lost \subseteq lost' /\ {open, open'} \subseteq lost'
  /\ \A s \in Session \ lost' : log'[s] = log[s] /\ archive'[s] = archive[s]

\* From a lost session back to one that is not: it says what its log holds.
Return(s) ==
  /\ open \in lost /\ s \notin lost
  /\ open' = s
  /\ said' = log[s]
  /\ \A r \in Session \ lost : log'[r] = log[r] /\ archive'[r] = archive[r]
  /\ UNCHANGED lost

Next ==
  \/ /\ open \notin lost
     /\ \/ Say \/ Archive \/ Summarise \/ Continue \/ Clear
        \/ \E s \in Session : Open(s) \/ Restart(s)
     /\ UNCHANGED lost
  \/ \E s \in Session : \/ Delete(s) /\ UNCHANGED lost
                        \/ Return(s)
  \/ Disturbed

Spec == Init /\ [][Next]_vars

=============================================================================
