------------------------------- MODULE Summaries -------------------------------
(***************************************************************************)
(* The summary layer of a compaction, as Compaction computes it: a case is *)
(* a history that is split, or a session with its breaker and the          *)
(* summaries that were tried, to which further attempts add.               *)
(***************************************************************************)
EXTENDS Cases

CONSTANTS Threshold, PreviewTokens, SuffixTokens, KeepTokens, KeepMessages,
          BreakerThreshold,  \* of Compaction
          UseIds,            \* identifiers of tool calls
          MessageSizes,      \* tokens of a message
          MaxMessages,       \* bound on the messages of a history
          MaxTried           \* bound on the summaries that are tried

Compaction == INSTANCE Compaction

ASSUME SummariesAssumption ==
  /\ KeepMessages \in Nat /\ BreakerThreshold \in Nat \ {0}
  /\ MessageSizes \subseteq Nat /\ MaxMessages \in Nat

SizedMessage ==
  [role : {"user"}, uses : {{}}, results : SUBSET UseIds, tokens : MessageSizes]
  \cup [role : {"assistant"}, uses : SUBSET UseIds, results : {{}}, tokens : MessageSizes]

\* An attempt to compact: whether a user asks or the window is full, and how a
\* summary would end.
Attempts == [manual : BOOLEAN, tight : BOOLEAN, outcome : {"fails", "changes", "nothing"}]

SummaryCase ==
  \/ case = NoCase /\ \E h \in UpTo(SizedMessage, MaxMessages) :
       Paired(h) /\ case' = [of |-> "history", h |-> h]
  \/ case = NoCase /\ case' = [of |-> "session", breaker |-> Compaction!NewBreaker, tried |-> <<>>]
  \/ Is("session") /\ Len(case.tried) < MaxTried /\ \E a \in Attempts :
       case' = [of |-> "session", breaker |-> Compaction!Attempt(case.breaker, a),
                tried |-> IF Compaction!DecideSummary(case.breaker, a.tight, a.manual)
                          THEN Append(case.tried, a) ELSE case.tried]

SummarySpec == case = NoCase /\ [][SummaryCase]_case

-----------------------------------------------------------------------------
(***************************************************************************)
(* The part of a history that a compaction keeps is a history again: no    *)
(* tool result is kept without its call, which a provider refuses, and at  *)
(* least one message is kept (splitByTailTokens, alignSplitForToolPairs).  *)
(***************************************************************************)
SplitsAreHistories ==
  Is("history") =>
    LET split == Compaction!SplitByTailTokens(case.h)
    IN  /\ case.h # <<>> => split < Len(case.h)
        /\ Paired(SubSeq(case.h, 1, split))
        /\ Paired(SubSeq(case.h, split + 1, Len(case.h)))

\* The last k summaries that were tried all failed, and a user asked for none of
\* them but perhaps the first.
FailedLast(t, k) ==
  \A i \in Len(t) - k + 1 .. Len(t) :
    t[i].outcome = "fails" /\ (t[i].manual => i = Len(t) - k + 1)

(***************************************************************************)
(* After BreakerThreshold failures in a row, counted from the last summary *)
(* that a user asked for, none is tried any more until a user asks; one    *)
(* that succeeds lets the next one be tried (decideSummary, recordFailure, *)
(* resetBreaker).                                                          *)
(***************************************************************************)
BreakerHolds ==
  Is("session") =>
    LET t == case.tried
        next(tight) == Compaction!DecideSummary(case.breaker, tight, FALSE)
    IN  /\ BreakerThreshold <= Len(t) /\ FailedLast(t, BreakerThreshold) =>
             \A tight \in BOOLEAN : ~ next(tight)
        /\ t # <<>> /\ t[Len(t)].outcome = "changes" => next(TRUE)

\* What a compaction leaves for the next request, and when it is tried (Compact).
CompactionHolds == SplitsAreHistories /\ BreakerHolds

================================================================================
