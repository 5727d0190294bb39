--------------------------- MODULE AgentLoopProofs ---------------------------
(***************************************************************************)
(* Proofs about AgentLoop, for any limit of rounds, any number of parallel *)
(* calls and any number of turns.                                          *)
(***************************************************************************)
EXTENDS AgentLoop, SequenceTheorems, TLAPS

-----------------------------------------------------------------------------
(* Messages and what Add does to the history.                              *)

\* The messages the loop makes up itself.
LEMMA SayType ==
  \A kind \in {"user", "prompt", "reply", "mark", "fallback"} : Say(kind) \in Message
<1>1. <<>> \in Seq(Calls)
  BY EmptySeq
<1> QED
  BY <1>1 DEF Say, Message, AssistantKinds

\* Calls are numbered by turn and round, so they are new.
LEMMA UseType ==
  ASSUME turns \in 1 .. MaxTurns, iter \in 1 .. MaxIter, NEW n \in 0 .. MaxUses
  PROVE  /\ Use(n) \in Message /\ Result(n) \in Message
         /\ Use(n).kind = "use" /\ Result(n).kind = "result"
         /\ Use(n).calls = CallsOf(n) /\ Result(n).calls = CallsOf(n)
         /\ Len(CallsOf(n)) = n
<1>1. \A i \in 1 .. n : <<turns, iter, i>> \in Calls
  BY LoopAssumption DEF Calls
<1>2. CallsOf(n) \in Seq(Calls) /\ Len(CallsOf(n)) = n
  BY <1>1, LoopAssumption DEF CallsOf
<1> QED
  BY <1>2 DEF Use, Result, Message, AssistantKinds

\* One more message.
LEMMA AddOne ==
  ASSUME NEW h \in Seq(Message), NEW m \in Message
  PROVE  /\ h \o <<m>> \in Seq(Message)
         /\ Len(h \o <<m>>) = Len(h) + 1
         /\ \A i \in 1 .. Len(h) : (h \o <<m>>)[i] = h[i]
         /\ (h \o <<m>>)[Len(h) + 1] = m
OBVIOUS

\* Two more messages.
LEMMA AddTwo ==
  ASSUME NEW h \in Seq(Message), NEW m \in Message, NEW r \in Message
  PROVE  /\ h \o <<m, r>> \in Seq(Message)
         /\ Len(h \o <<m, r>>) = Len(h) + 2
         /\ \A i \in 1 .. Len(h) : (h \o <<m, r>>)[i] = h[i]
         /\ (h \o <<m, r>>)[Len(h) + 1] = m
         /\ (h \o <<m, r>>)[Len(h) + 2] = r
OBVIOUS

-----------------------------------------------------------------------------
(* The inductive invariant: each property together with what it depends on *)
(* of where the loop is.                                                   *)

\* A turn is running, its rounds are numbered within the limit, and tools run on
\* behalf of the tool_use message just added.
Control ==
  /\ pc # "idle" => turns \in 1 .. MaxTurns
  /\ pc = "llm" /\ site = "main" => iter \in 1 .. MaxIter
  /\ pc = "tools" => /\ iter \in 1 .. MaxIter
                     /\ history # <<>>
                     /\ \E n \in 1 .. MaxUses : history[Len(history)] = Use(n)

\* Requests a turn may have sent before the call of runOneLLM that is running.
Before == CASE site = "main"      -> 2 * (iter - 1)
            [] site = "terminate" -> 2 * MaxIter
            [] site = "ensure"    -> 2 * (MaxIter + 1)

Budget ==
  /\ pc = "idle"  => requests <= 2 * (MaxIter + 2)
  /\ pc = "top"   => requests <= 2 * (iter - 1)
  /\ pc = "tools" => requests <= 2 * iter
  /\ pc = "llm"   => requests <= Before + (IF retried THEN 2 ELSE 1)

\* Until the model's answer to a round is known, everything is announced.
Announced ==
  /\ OnlyPromptsUnsaved
  /\ pc \in {"top", "tools"} \/ (pc = "llm" /\ site = "main") => saved = Len(history)

\* Nothing has begun late while a round may still be asked for.
LateOnce ==
  /\ late <= 1
  /\ ~cancelled \/ (pc = "llm" /\ site = "main") => late = 0

\* A turn that is under way has not reported an abort, and no request of a round
\* was cut short before the present one.
Reported ==
  /\ stop = "aborted" => pc = "idle" /\ cancelled
  /\ cutShort => \/ pc = "idle" /\ (site = "main" => stop = "aborted")
                 \/ pc = "llm" /\ site # "main"

IInv ==
  /\ TypeOK /\ Control /\ Budget /\ Announced /\ LateOnce /\ Reported /\ Paired /\ ReplyGiven

\* The first state.
LEMMA Initially == Init => IInv
<1> SUFFICES ASSUME Init
             PROVE  IInv
  OBVIOUS
<1>1. history = <<>> /\ <<>> \in Seq(Message) /\ Len(<<>>) = 0
  BY EmptySeq DEF Init
<1>2. TypeOK
  <2>1. pc \in {"idle", "top", "llm", "tools"} /\ site \in {"main", "terminate", "ensure"}
    BY DEF Init
  <2>2. iter \in 1 .. MaxIter + 1 /\ turns \in 0 .. MaxTurns /\ requests \in Nat /\ late \in Nat
    BY LoopAssumption DEF Init
  <2>3. history \in Seq(Message) /\ saved \in 0 .. Len(history)
    BY <1>1 DEF Init
  <2>4. cancelled \in BOOLEAN /\ retried \in BOOLEAN /\ cutShort \in BOOLEAN /\ stop \in StopReasons
    BY DEF Init, StopReasons
  <2> QED
    BY <2>1, <2>2, <2>3, <2>4 DEF TypeOK
<1>3. Control /\ Budget /\ LateOnce /\ Reported
  BY LoopAssumption DEF Init, Control, Budget, LateOnce, Reported
<1>4. Announced /\ Paired /\ ReplyGiven
  BY <1>1 DEF Init, Announced, OnlyPromptsUnsaved, Paired, ReplyGiven
<1> QED
  BY <1>2, <1>3, <1>4 DEF IInv

-----------------------------------------------------------------------------
(* Types.                                                                  *)

\* Announced messages are saved with everything before them.
LEMMA AddSavedType ==
  ASSUME TypeOK, NEW msgs \in Seq(Message), AddSaved(msgs)
  PROVE  history' \in Seq(Message) /\ saved' = Len(history') /\ saved' \in 0 .. Len(history')
BY ConcatProperties, LenProperties DEF TypeOK, AddSaved, Add

\* An internal prompt leaves the count of announced messages behind.
LEMMA PromptType ==
  ASSUME TypeOK, Add(<<Say("prompt")>>), saved' = saved
  PROVE  history' \in Seq(Message) /\ saved' \in 0 .. Len(history')
BY AddOne, SayType DEF TypeOK, Add

\* Every step keeps the types.
LEMMA TypeStep == IInv /\ [Next]_vars => TypeOK'
<1> SUFFICES ASSUME IInv, [Next]_vars
             PROVE  TypeOK'
  OBVIOUS
<1>a. TypeOK /\ Control
  BY DEF IInv
<1>b. \A kind \in {"user", "reply", "mark", "fallback"} : <<Say(kind)>> \in Seq(Message)
  BY SayType
<1>c. MaxIter \in Nat \ {0} /\ MaxTurns \in Nat \ {0}
  BY LoopAssumption
<1>1. CASE StartTurn
  <2>1. history' \in Seq(Message) /\ saved' \in 0 .. Len(history')
    BY <1>1, <1>a, <1>b, AddSavedType DEF StartTurn
  <2>2. cancelled' \in BOOLEAN /\ retried' \in BOOLEAN /\ cutShort' \in BOOLEAN
    BY <1>1, <1>a DEF StartTurn, TypeOK
  <2>3. turns' \in 0 .. MaxTurns /\ iter' \in 1 .. MaxIter + 1
    BY <1>1, <1>a, <1>c DEF StartTurn, TypeOK
  <2> QED
    BY <1>1, <1>a, <2>1, <2>2, <2>3 DEF StartTurn, TypeOK, StopReasons
<1>2. CASE Stop
  BY <1>2, <1>a DEF Stop, TypeOK, counters
<1>3. CASE StopSeen \/ MainFails
  BY <1>3, <1>a DEF StopSeen, MainFails, Failed, End, TypeOK, StopReasons, counters
<1>4. CASE Ask
  <2>1. cancelled' \in BOOLEAN /\ retried' \in BOOLEAN /\ cutShort' \in BOOLEAN
    BY <1>4, <1>a DEF Ask, Send, TypeOK, counters
  <2> QED
    BY <1>4, <1>a, <2>1 DEF Ask, Send, LateIf, TypeOK, counters
<1>5. CASE Terminate
  <2>1. history' \in Seq(Message) /\ saved' \in 0 .. Len(history')
    BY <1>5, <1>a, PromptType DEF Terminate
  <2>2. cancelled' \in BOOLEAN /\ retried' \in BOOLEAN /\ cutShort' \in BOOLEAN
    BY <1>5, <1>a DEF Terminate, Send, TypeOK, counters
  <2>3. stop' \in StopReasons
    BY <1>5 DEF Terminate, StopReasons
  <2> QED
    BY <1>5, <1>a, <2>1, <2>2, <2>3 DEF Terminate, Send, TypeOK, counters
<1>6. CASE Retry
  BY <1>6, <1>a DEF Retry, TypeOK, counters
<1>7. CASE ToolsReturn
  <2>1. PICK n \in 1 .. MaxUses : history[Len(history)] = Use(n)
    BY <1>7, <1>a DEF ToolsReturn, Control
  <2>2. Result(Len(history[Len(history)].calls)) \in Message
    BY <1>7, <1>a, <2>1, UseType, LoopAssumption DEF ToolsReturn, Control
  <2>3. history' \in Seq(Message) /\ saved' \in 0 .. Len(history')
    <3>1. <<Result(Len(history[Len(history)].calls))>> \in Seq(Message)
      BY <2>2
    <3> QED
      BY <1>7, <1>a, <3>1, AddSavedType DEF ToolsReturn
  <2>4. iter' \in 1 .. MaxIter + 1
    BY <1>7, <1>a, <1>c DEF ToolsReturn, Control
  <2> QED
    BY <1>7, <1>a, <2>3, <2>4 DEF ToolsReturn, TypeOK, counters
<1>8. CASE TerminateIsEmpty \/ \E a \in Answers : MainIsEmpty(a)
  <2>1. /\ \E reason \in StopReasons : EnsureReply(reason)
        /\ cutShort' \in BOOLEAN
    BY <1>8, <1>a DEF TerminateIsEmpty, MainIsEmpty, Failed, Returned, Answered, Cut, TypeOK, StopReasons
  <2>2. history' \in Seq(Message) /\ saved' \in 0 .. Len(history')
    BY <1>a, <2>1, PromptType DEF EnsureReply
  <2>3. cancelled' \in BOOLEAN /\ retried' \in BOOLEAN /\ cutShort' \in BOOLEAN
    BY <1>a, <2>1 DEF EnsureReply, Send, TypeOK
  <2> QED
    BY <1>a, <2>1, <2>2, <2>3 DEF EnsureReply, Send, TypeOK
<1>9. ASSUME NEW a \in Answers, MainCut(a)
      PROVE  TypeOK'
  <2>1. AbortedTurn(a.uses) \in Seq(Message)
    BY <1>9, <1>a, <1>b, UseType DEF MainCut, Cut, Control, Answers, AbortedTurn
  <2>2. history' \in Seq(Message) /\ saved' \in 0 .. Len(history')
    BY <1>9, <1>a, <2>1, AddSavedType DEF MainCut
  <2> QED
    BY <1>9, <1>a, <2>2 DEF MainCut, Cut, End, TypeOK, StopReasons
<1>10. ASSUME NEW a \in Answers, MainReplies(a) \/ TerminateReplies(a) \/ EnsureReplies(a)
       PROVE  TypeOK'
  <2>1. history' \in Seq(Message) /\ saved' \in 0 .. Len(history')
    BY <1>10, <1>a, <1>b, AddSavedType DEF MainReplies, TerminateReplies, EnsureReplies
  <2> QED
    BY <1>10, <1>a, <2>1 DEF MainReplies, TerminateReplies, EnsureReplies, Returned, Answered, Cut,
                             End, TypeOK, StopReasons
<1>11. CASE EnsureFallsBack
  <2>1. history' \in Seq(Message) /\ saved' \in 0 .. Len(history')
    BY <1>11, <1>a, <1>b, AddSavedType DEF EnsureFallsBack
  <2> QED
    BY <1>11, <1>a, <2>1 DEF EnsureFallsBack, Returned, Failed, Answered, Cut, End, TypeOK
<1>12. ASSUME NEW a \in Answers, MainUsesTools(a)
       PROVE  TypeOK'
  <2>1. <<Use(a.uses)>> \in Seq(Message)
    BY <1>12, <1>a, UseType DEF MainUsesTools, Answered, Control, Answers
  <2>2. history' \in Seq(Message) /\ saved' \in 0 .. Len(history')
    BY <1>12, <1>a, <2>1, AddSavedType DEF MainUsesTools
  <2> QED
    BY <1>12, <1>a, <2>2 DEF MainUsesTools, Answered, LateIf, TypeOK
<1>13. CASE UNCHANGED vars
  BY <1>13, <1>a DEF vars, TypeOK
<1> QED
  BY <1>1, <1>2, <1>3, <1>4, <1>5, <1>6, <1>7, <1>8, <1>9, <1>10, <1>11, <1>12, <1>13
     DEF Next, LoopStep

-----------------------------------------------------------------------------
(* Rounds, requests and Stop.                                              *)

\* Every step keeps the rounds numbered, and tools behind their message.
LEMMA ControlStep == IInv /\ [Next]_vars => Control'
<1> SUFFICES ASSUME IInv, [Next]_vars
             PROVE  Control'
  OBVIOUS
<1>a. TypeOK /\ Control /\ MaxIter \in Nat \ {0} /\ MaxTurns \in Nat \ {0}
  BY LoopAssumption DEF IInv
<1>1. ASSUME NEW a \in Answers, MainUsesTools(a)
      PROVE  Control'
  <2>1. history' = history \o <<Use(a.uses)>> /\ Use(a.uses) \in Message
    BY <1>1, <1>a, UseType DEF MainUsesTools, Answered, AddSaved, Add, Control, Answers
  <2>2. Len(history') = Len(history) + 1 /\ history'[Len(history) + 1] = Use(a.uses)
    BY <1>a, <2>1, AddOne DEF TypeOK
  <2>3. Use(a.uses)' = Use(a.uses)
    BY <1>1 DEF MainUsesTools, Use, CallsOf
  <2>4. a.uses \in 1 .. MaxUses
    BY <1>1, LoopAssumption DEF MainUsesTools, Answers
  <2>5. history' # <<>> /\ \E n \in 1 .. MaxUses : history'[Len(history')] = Use(n)'
    <3>1. Len(history') = Len(history) + 1 /\ Len(history) \in Nat
      BY <1>a, <2>2, LenProperties DEF TypeOK
    <3>2. history' # <<>>
      BY <3>1
    <3>3. history'[Len(history')] = Use(a.uses)'
      BY <2>2, <2>3, <3>1
    <3> QED
      BY <2>4, <3>2, <3>3
  <2> QED
    BY <1>1, <1>a, <2>5 DEF MainUsesTools, Answered, Control
<1>2. ASSUME pc' # "tools"
      PROVE  Control'
  <2>1. pc' # "idle" => turns' \in 1 .. MaxTurns
    <3>1. CASE StartTurn
      BY <3>1, <1>a DEF StartTurn, TypeOK
    <3>2. CASE ~StartTurn
      <4>1. turns' = turns /\ (pc' # "idle" => pc # "idle")
        BY <3>2 DEF Next, LoopStep, Stop, StopSeen, Ask, Terminate, Retry, MainFails, ToolsReturn,
                    TerminateIsEmpty, EnsureFallsBack, MainCut, MainReplies, MainIsEmpty,
                    MainUsesTools, TerminateReplies, EnsureReplies, EnsureReply, Send, Failed,
                    Answered, Cut, Returned, End, vars, counters
      <4> QED
        BY <4>1, <1>a DEF Control
    <3> QED
      BY <3>1, <3>2
  <2>2. pc' = "llm" /\ site' = "main" => iter' \in 1 .. MaxIter
    <3>1. CASE Ask
      BY <3>1, <1>a DEF Ask, TypeOK
    <3>2. CASE ~Ask
      <4>1. pc' = "llm" /\ site' = "main" => UNCHANGED <<pc, site, iter>>
        BY <3>2, <1>2 DEF Next, LoopStep, StartTurn, Stop, StopSeen, Terminate, Retry, MainFails,
                    ToolsReturn, TerminateIsEmpty, EnsureFallsBack, MainCut, MainReplies,
                    MainIsEmpty, MainUsesTools, TerminateReplies, EnsureReplies, EnsureReply, Send,
                    End, vars, counters
      <4> QED
        BY <4>1, <1>a DEF Control
    <3> QED
      BY <3>1, <3>2
  <2> QED
    BY <1>2, <2>1, <2>2 DEF Control
<1>3. ASSUME pc' = "tools", ~\E a \in Answers : MainUsesTools(a)
      PROVE  Control'
  <2>1. UNCHANGED <<pc, site, iter, history, turns>>
    BY <1>3, <1>a DEF Next, LoopStep, StartTurn, Stop, StopSeen, Ask, Terminate, Retry, MainFails,
                      ToolsReturn, TerminateIsEmpty, EnsureFallsBack, MainCut, MainReplies,
                      MainIsEmpty, TerminateReplies, EnsureReplies, EnsureReply, Send, End, vars,
                      counters
  <2> QED
    BY <1>a, <2>1 DEF Control, Use, CallsOf
<1> QED
  BY <1>1, <1>2, <1>3

\* Every step keeps the turn within its requests.
LEMMA BudgetStep == IInv /\ [Next]_vars => Budget'
<1> SUFFICES ASSUME IInv, [Next]_vars
             PROVE  Budget'
  OBVIOUS
<1>a. TypeOK /\ Control /\ Budget /\ MaxIter \in Nat \ {0}
  BY LoopAssumption DEF IInv
<1> USE <1>a DEF Budget, Before, Send, End, Failed, Answered, Cut, Returned, EnsureReply, counters
<1>1. CASE StartTurn \/ Stop \/ StopSeen \/ UNCHANGED vars
  BY <1>1 DEF StartTurn, Stop, StopSeen, TypeOK, vars
<1>2. CASE Ask
  BY <1>2 DEF Ask, TypeOK
<1>3. CASE Terminate
  BY <1>3 DEF Terminate, TypeOK
<1>4. CASE Retry
  BY <1>4 DEF Retry, TypeOK
<1>5. CASE MainFails
  BY <1>5 DEF MainFails, TypeOK, Control
<1>6. CASE ToolsReturn
  BY <1>6 DEF ToolsReturn, TypeOK, Control
<1>7. CASE TerminateIsEmpty \/ EnsureFallsBack
  BY <1>7 DEF TerminateIsEmpty, EnsureFallsBack, TypeOK
<1>8. ASSUME NEW a \in Answers, MainCut(a) \/ MainReplies(a)
      PROVE  Budget'
  BY <1>8 DEF MainCut, MainReplies, TypeOK, Control
<1>9. ASSUME NEW a \in Answers, MainIsEmpty(a)
      PROVE  Budget'
  BY <1>9 DEF MainIsEmpty, TypeOK, Control
<1>10. ASSUME NEW a \in Answers, MainUsesTools(a)
       PROVE  Budget'
  BY <1>10 DEF MainUsesTools, TypeOK, Control
<1>11. ASSUME NEW a \in Answers, TerminateReplies(a) \/ EnsureReplies(a)
       PROVE  Budget'
  BY <1>11 DEF TerminateReplies, EnsureReplies, TypeOK
<1> QED
  BY <1>1, <1>2, <1>3, <1>4, <1>5, <1>6, <1>7, <1>8, <1>9, <1>10, <1>11 DEF Next, LoopStep

\* Every step keeps what begins after Stop to one tool batch.
LEMMA LateStep == IInv /\ [Next]_vars => LateOnce'
<1> SUFFICES ASSUME IInv, [Next]_vars
             PROVE  LateOnce'
  OBVIOUS
<1>a. TypeOK /\ LateOnce
  BY DEF IInv
<1> USE <1>a DEF LateOnce, LateIf, Send, End, Failed, Answered, Cut, Returned, EnsureReply, counters
<1>1. CASE StartTurn \/ Stop \/ StopSeen \/ Ask \/ Terminate \/ Retry \/ UNCHANGED vars
  BY <1>1 DEF StartTurn, Stop, StopSeen, Ask, Terminate, Retry, TypeOK, vars
<1>2. CASE MainFails \/ ToolsReturn \/ TerminateIsEmpty \/ EnsureFallsBack
  BY <1>2 DEF MainFails, ToolsReturn, TerminateIsEmpty, EnsureFallsBack, TypeOK
<1>3. ASSUME NEW a \in Answers,
             \/ MainCut(a) \/ MainReplies(a) \/ MainIsEmpty(a) \/ MainUsesTools(a)
             \/ TerminateReplies(a) \/ EnsureReplies(a)
      PROVE  LateOnce'
  BY <1>3 DEF MainCut, MainReplies, MainIsEmpty, MainUsesTools, TerminateReplies, EnsureReplies,
              TypeOK
<1> QED
  BY <1>1, <1>2, <1>3 DEF Next, LoopStep

\* Only the callers that look for it report an abort.
LEMMA ReportStep == IInv /\ [Next]_vars => Reported'
<1> SUFFICES ASSUME IInv, [Next]_vars
             PROVE  Reported'
  OBVIOUS
<1>a. TypeOK /\ Control /\ Reported
  BY DEF IInv
<1> USE <1>a DEF Reported, TypeOK, counters
<1>1. CASE StartTurn
  BY <1>1 DEF StartTurn
<1>2. CASE Stop
  BY <1>2 DEF Stop
<1>3. CASE StopSeen
  BY <1>3 DEF StopSeen, End
<1>4. CASE Ask
  BY <1>4 DEF Ask, Send
<1>5. CASE Terminate
  BY <1>5 DEF Terminate, Send
<1>6. CASE Retry
  BY <1>6 DEF Retry
<1>7. CASE MainFails
  BY <1>7 DEF MainFails, Failed, End
<1>8. CASE ToolsReturn
  BY <1>8 DEF ToolsReturn
<1>9. CASE TerminateIsEmpty
  BY <1>9 DEF TerminateIsEmpty, Failed, Returned, Answered, Cut, EnsureReply, Send
<1>10. CASE EnsureFallsBack
  BY <1>10 DEF EnsureFallsBack, Failed, Returned, Answered, Cut, End
<1>11. ASSUME NEW a \in Answers, MainCut(a)
       PROVE  Reported'
  BY <1>11 DEF MainCut, Cut, End
<1>12. ASSUME NEW a \in Answers, MainReplies(a) \/ MainUsesTools(a)
       PROVE  Reported'
  <2>1. pc = "llm" /\ site = "main" /\ cutShort' = cutShort
    BY <1>12, Zenon DEF MainReplies, MainUsesTools, Answered
  <2>2. stop' = "completed" \/ stop' = stop
    BY <1>12, Zenon DEF MainReplies, MainUsesTools, End
  <2> QED
    BY <2>1, <2>2
<1>13. ASSUME NEW a \in Answers, MainIsEmpty(a)
       PROVE  Reported'
  BY <1>13 DEF MainIsEmpty, Answered, EnsureReply, Send
<1>14. ASSUME NEW a \in Answers, TerminateReplies(a) \/ EnsureReplies(a)
       PROVE  Reported'
  BY <1>14 DEF TerminateReplies, EnsureReplies, Returned, Answered, Cut, End
<1>15. CASE UNCHANGED vars
  BY <1>15 DEF vars
<1> QED
  BY <1>1, <1>2, <1>3, <1>4, <1>5, <1>6, <1>7, <1>8, <1>9, <1>10, <1>11, <1>12, <1>13, <1>14, <1>15
     DEF Next, LoopStep

-----------------------------------------------------------------------------
(* The history.                                                            *)

\* The three things a step may do to the history, apart from leaving it alone.
\* After an announced change nothing is unannounced.
LEMMA AnnouncedAll ==
  ASSUME TypeOK, NEW msgs \in Seq(Message), AddSaved(msgs)
  PROVE  Announced'
<1>1. saved' = Len(history') /\ Len(history') \in Nat
  BY AddSavedType DEF TypeOK
<1> QED
  BY <1>1 DEF Announced, OnlyPromptsUnsaved

\* After an unannounced prompt only prompts are, if that was so before.
LEMMA AnnouncedBut ==
  ASSUME TypeOK, Announced, Add(<<Say("prompt")>>), saved' = saved,
         pc # "idle", pc' = "llm", site' # "main"
  PROVE  Announced'
<1>1. /\ Len(history') = Len(history) + 1 /\ Len(history) \in Nat /\ saved \in Nat
      /\ \A i \in 1 .. Len(history) : history'[i] = history[i]
      /\ history'[Len(history) + 1].kind = "prompt"
  BY AddOne, SayType DEF TypeOK, Add, Say
<1> QED
  BY <1>1 DEF Announced, OnlyPromptsUnsaved

\* Every step announces what it must.
LEMMA AnnouncedStep == IInv /\ [Next]_vars => Announced'
<1> SUFFICES ASSUME IInv, [Next]_vars
             PROVE  Announced'
  OBVIOUS
<1>a. TypeOK /\ Control /\ Announced
  BY DEF IInv
<1>b. \A kind \in {"user", "reply", "mark", "fallback"} : <<Say(kind)>> \in Seq(Message)
  BY SayType
<1>1. CASE StartTurn \/ EnsureFallsBack
  BY <1>1, <1>a, <1>b, AnnouncedAll DEF StartTurn, EnsureFallsBack
<1>2. CASE Terminate
  BY <1>2, <1>a, AnnouncedBut DEF Terminate, Send
<1>3. CASE TerminateIsEmpty \/ \E a \in Answers : MainIsEmpty(a)
  BY <1>3, <1>a, AnnouncedBut
     DEF TerminateIsEmpty, MainIsEmpty, EnsureReply, Send, Failed, Returned, Answered, Cut
<1>4. CASE ToolsReturn
  <2>1. PICK n \in 1 .. MaxUses : history[Len(history)] = Use(n)
    BY <1>4, <1>a DEF ToolsReturn, Control
  <2>2. <<Result(Len(history[Len(history)].calls))>> \in Seq(Message)
    BY <1>4, <1>a, <2>1, UseType, LoopAssumption DEF ToolsReturn, Control
  <2> QED
    BY <1>4, <1>a, <2>2, AnnouncedAll DEF ToolsReturn
<1>5. ASSUME NEW a \in Answers, MainCut(a)
      PROVE  Announced'
  <2>1. AbortedTurn(a.uses) \in Seq(Message)
    BY <1>5, <1>a, <1>b, UseType DEF MainCut, Cut, Control, Answers, AbortedTurn
  <2> QED
    BY <1>5, <1>a, <2>1, AnnouncedAll DEF MainCut
<1>6. ASSUME NEW a \in Answers, MainReplies(a) \/ TerminateReplies(a) \/ EnsureReplies(a)
      PROVE  Announced'
  BY <1>6, <1>a, <1>b, AnnouncedAll DEF MainReplies, TerminateReplies, EnsureReplies
<1>7. ASSUME NEW a \in Answers, MainUsesTools(a)
      PROVE  Announced'
  <2>1. <<Use(a.uses)>> \in Seq(Message)
    BY <1>7, <1>a, UseType DEF MainUsesTools, Answered, Control, Answers
  <2> QED
    BY <1>7, <1>a, <2>1, AnnouncedAll DEF MainUsesTools
<1>8. CASE Stop \/ StopSeen \/ Ask \/ Retry \/ MainFails \/ UNCHANGED vars
  <2>1. history' = history /\ saved' = saved
    BY <1>8 DEF Stop, StopSeen, Ask, Retry, MainFails, counters, vars
  <2>2. \/ UNCHANGED <<pc, site>>
        \/ saved = Len(history)
    BY <1>8, <1>a DEF Stop, StopSeen, Ask, Retry, MainFails, Failed, counters, vars, Announced
  <2>3. CASE UNCHANGED <<pc, site>>
    BY <1>a, <2>1, <2>3 DEF Announced, OnlyPromptsUnsaved
  <2>4. CASE saved = Len(history)
    BY <2>1, <2>4 DEF Announced, OnlyPromptsUnsaved
  <2> QED
    BY <2>2, <2>3, <2>4
<1> QED
  BY <1>1, <1>2, <1>3, <1>4, <1>5, <1>6, <1>7, <1>8 DEF Next, LoopStep

\* A message that is no tool_use leaves the calls before it answered, if the last
\* of them does not wait for this message.
LEMMA PairedAfter ==
  ASSUME TypeOK, Paired, pc # "tools",
         NEW m \in Message, m.kind # "use", history' = history \o <<m>>
  PROVE  Paired'
<1>1. /\ Len(history') = Len(history) + 1 /\ Len(history) \in Nat
      /\ \A i \in 1 .. Len(history) : history'[i] = history[i]
      /\ history'[Len(history) + 1] = m
  BY AddOne DEF TypeOK
<1>2. ASSUME NEW i \in 1 .. Len(history'), history'[i].kind = "use"
      PROVE  /\ i < Len(history') /\ history'[i + 1].kind = "result"
             /\ history'[i + 1].calls = history'[i].calls
  <2>1. i \in 1 .. Len(history) /\ history[i].kind = "use"
    BY <1>1, <1>2
  <2>2. i < Len(history) /\ history[i + 1].kind = "result" /\ history[i + 1].calls = history[i].calls
    BY <2>1 DEF Paired
  <2> QED
    BY <1>1, <2>1, <2>2
<1> QED
  BY <1>2 DEF Paired

\* Every step leaves every call answered, or being answered.
LEMMA PairedStep == IInv /\ [Next]_vars => Paired'
<1> SUFFICES ASSUME IInv, [Next]_vars
             PROVE  Paired'
  OBVIOUS
<1>a. TypeOK /\ Control /\ Paired /\ Len(history) \in Nat
  BY LenProperties DEF IInv, TypeOK
<1>b. \A kind \in {"user", "prompt", "reply", "mark", "fallback"} :
        Say(kind) \in Message /\ Say(kind).kind # "use"
  BY SayType DEF Say
<1>1. CASE StartTurn \/ EnsureFallsBack
  BY <1>1, <1>a, <1>b, PairedAfter
     DEF StartTurn, EnsureFallsBack, AddSaved, Add, Failed, Returned, Answered, Cut
<1>2. CASE Terminate \/ TerminateIsEmpty \/ \E a \in Answers : MainIsEmpty(a)
  BY <1>2, <1>a, <1>b, PairedAfter
     DEF Terminate, TerminateIsEmpty, MainIsEmpty, EnsureReply, Add, Failed, Returned, Answered, Cut
<1>3. ASSUME NEW a \in Answers, MainReplies(a) \/ TerminateReplies(a) \/ EnsureReplies(a)
      PROVE  Paired'
  BY <1>3, <1>a, <1>b, PairedAfter
     DEF MainReplies, TerminateReplies, EnsureReplies, AddSaved, Add, Returned, Answered, Cut
<1>4. CASE ToolsReturn
  <2>1. PICK n \in 1 .. MaxUses : history[Len(history)] = Use(n)
    BY <1>4, <1>a DEF ToolsReturn, Control
  <2>2. /\ Use(n).calls = CallsOf(n) /\ Len(CallsOf(n)) = n
        /\ Result(n) \in Message /\ Result(n).kind = "result" /\ Result(n).calls = CallsOf(n)
    BY <1>4, <1>a, UseType, LoopAssumption DEF ToolsReturn, Control
  <2>3. history' = history \o <<Result(n)>>
    BY <1>4, <2>1, <2>2 DEF ToolsReturn, AddSaved, Add
  <2>4. /\ Len(history') = Len(history) + 1
        /\ \A i \in 1 .. Len(history) : history'[i] = history[i]
        /\ history'[Len(history) + 1] = Result(n)
    BY <1>a, <2>2, <2>3, AddOne DEF TypeOK
  <2>5. ASSUME NEW i \in 1 .. Len(history'), history'[i].kind = "use"
        PROVE  /\ i < Len(history') /\ history'[i + 1].kind = "result"
               /\ history'[i + 1].calls = history'[i].calls
    <3>1. i \in 1 .. Len(history)
      BY <1>a, <2>2, <2>4, <2>5
    <3>2. CASE i = Len(history)
      BY <1>a, <2>1, <2>2, <2>4, <3>1, <3>2
    <3>3. CASE i < Len(history)
      BY <1>a, <2>4, <2>5, <3>1, <3>3 DEF Paired
    <3> QED
      BY <1>a, <3>1, <3>2, <3>3
  <2> QED
    BY <2>5 DEF Paired
<1>5. ASSUME NEW a \in Answers, MainUsesTools(a)
      PROVE  Paired'
  <2>1. history' = history \o <<Use(a.uses)>> /\ Use(a.uses) \in Message
    BY <1>5, <1>a, UseType DEF MainUsesTools, Answered, AddSaved, Add, Control, Answers
  <2>2. /\ Len(history') = Len(history) + 1
        /\ \A i \in 1 .. Len(history) : history'[i] = history[i]
    BY <1>a, <2>1, AddOne DEF TypeOK
  <2>3. pc # "tools" /\ pc' = "tools"
    BY <1>5 DEF MainUsesTools, Answered
  <2> QED
    BY <1>a, <2>2, <2>3 DEF Paired
<1>6. ASSUME NEW a \in Answers, MainCut(a), a.uses = 0
      PROVE  Paired'
  BY <1>6, <1>a, <1>b, PairedAfter DEF MainCut, Cut, AbortedTurn, AddSaved, Add
<1>7. ASSUME NEW a \in Answers, MainCut(a), a.uses # 0
      PROVE  Paired'
  <2>1. /\ Use(a.uses) \in Message /\ Use(a.uses).calls = CallsOf(a.uses)
        /\ Result(a.uses) \in Message /\ Result(a.uses).kind = "result"
        /\ Result(a.uses).calls = CallsOf(a.uses)
    BY <1>7, <1>a, UseType DEF MainCut, Cut, Control, Answers
  <2>2. history' = history \o <<Use(a.uses), Result(a.uses)>>
    BY <1>7, LoopAssumption DEF MainCut, AbortedTurn, AddSaved, Add, Answers
  <2>3. /\ Len(history') = Len(history) + 2
        /\ \A i \in 1 .. Len(history) : history'[i] = history[i]
        /\ history'[Len(history) + 1] = Use(a.uses)
        /\ history'[Len(history) + 2] = Result(a.uses)
    BY <1>a, <2>1, <2>2, AddTwo DEF TypeOK
  <2>4. pc # "tools"
    BY <1>7 DEF MainCut, Cut
  <2>5. ASSUME NEW i \in 1 .. Len(history'), history'[i].kind = "use"
        PROVE  /\ i < Len(history') /\ history'[i + 1].kind = "result"
               /\ history'[i + 1].calls = history'[i].calls
    <3>1. i \in 1 .. Len(history) \/ i = Len(history) + 1
      BY <1>a, <2>1, <2>3, <2>5
    <3>2. CASE i = Len(history) + 1
      BY <1>a, <2>1, <2>3, <3>2
    <3>3. CASE i \in 1 .. Len(history)
      BY <1>a, <2>3, <2>4, <2>5, <3>3 DEF Paired
    <3> QED
      BY <3>1, <3>2, <3>3
  <2> QED
    BY <2>5 DEF Paired
<1>8. CASE Stop \/ StopSeen \/ Ask \/ Retry \/ MainFails \/ UNCHANGED vars
  <2>1. history' = history /\ (pc = "tools" => pc' = "tools")
    BY <1>8 DEF Stop, StopSeen, Ask, Retry, MainFails, Failed, counters, vars
  <2> QED
    BY <1>a, <2>1 DEF Paired
<1> QED
  BY <1>1, <1>2, <1>3, <1>4, <1>5, <1>6, <1>7, <1>8 DEF Next, LoopStep

\* Every step that ends a turn for one of these reasons adds the reply first.
LEMMA ReplyStep == IInv /\ [Next]_vars => ReplyGiven'
<1> SUFFICES ASSUME IInv, [Next]_vars
             PROVE  ReplyGiven'
  OBVIOUS
<1>a. TypeOK /\ ReplyGiven
  BY DEF IInv
<1>1. ASSUME NEW kind \in {"reply", "fallback"}, AddSaved(<<Say(kind)>>)
      PROVE  history'[Len(history')].kind \in {"reply", "fallback"}
  <2>1. Say(kind) \in Message /\ Say(kind).kind = kind
    BY SayType DEF Say
  <2>2. history' = history \o <<Say(kind)>>
    BY <1>1 DEF AddSaved, Add
  <2> QED
    BY <1>a, <2>1, <2>2, AddOne DEF TypeOK
<1>2. CASE EnsureFallsBack
  BY <1>1, <1>2 DEF EnsureFallsBack, ReplyGiven
<1>3. ASSUME NEW a \in Answers, MainReplies(a) \/ TerminateReplies(a) \/ EnsureReplies(a)
      PROVE  ReplyGiven'
  BY <1>1, <1>3 DEF MainReplies, TerminateReplies, EnsureReplies, ReplyGiven
<1>4. CASE StopSeen \/ MainFails \/ \E a \in Answers : MainCut(a)
  BY <1>4 DEF StopSeen, MainFails, MainCut, End, ReplyGiven
<1>5. CASE UNCHANGED vars
  BY <1>5, <1>a DEF vars, ReplyGiven
<1>6. ASSUME \/ StartTurn \/ Stop \/ Ask \/ Terminate \/ Retry \/ ToolsReturn \/ TerminateIsEmpty
             \/ \E a \in Answers : MainIsEmpty(a) \/ MainUsesTools(a)
      PROVE  ReplyGiven'
  <2>1. pc' # "idle"
    BY <1>6 DEF StartTurn, Stop, Ask, Terminate, Retry, ToolsReturn, TerminateIsEmpty, MainIsEmpty,
                MainUsesTools, EnsureReply, Send, counters
  <2> QED
    BY <2>1 DEF ReplyGiven
<1> QED
  BY <1>2, <1>3, <1>4, <1>5, <1>6 DEF Next, LoopStep

\* Every step keeps the invariant.
LEMMA Inductive == IInv /\ [Next]_vars => IInv'
BY TypeStep, ControlStep, BudgetStep, LateStep, ReportStep, AnnouncedStep, PairedStep, ReplyStep DEF IInv

\* The invariant holds in every state of a conversation.
THEOREM Invariant == Spec => []IInv
BY Initially, Inductive, PTL DEF Spec

-----------------------------------------------------------------------------
(* What follows from the invariant.                                        *)

\* Type correctness: rounds stay within MaxIterations + 1 and nothing is announced
\* that is not in the history.
THEOREM TypeCorrect == Spec => []TypeOK
<1>1. IInv => TypeOK
  BY DEF IInv
<1> QED
  BY <1>1, Invariant, PTL

\* persistAbortedTurn, ExecuteBatch and the loop together leave every tool_use
\* answered by the message after it, turn after turn, Stop or not.
THEOREM CallsAreAnswered == Spec => []Paired
<1>1. IInv => Paired
  BY DEF IInv
<1> QED
  BY <1>1, Invariant, PTL

\* A turn that was not stopped and did not fail leaves a reply.
THEOREM TurnsGiveReply == Spec => []ReplyGiven
<1>1. IInv => ReplyGiven
  BY DEF IInv
<1> QED
  BY <1>1, Invariant, PTL

\* What the user and the model said has been announced for saving.
THEOREM SavesAreAnnounced == Spec => []OnlyPromptsUnsaved
<1>1. IInv => OnlyPromptsUnsaved
  BY DEF IInv, Announced
<1> QED
  BY <1>1, Invariant, PTL

\* A turn sends at most 2 * (MaxIterations + 2) requests.
THEOREM RequestsAreBounded == Spec => []RequestBudget
<1>1. IInv => RequestBudget
  <2> SUFFICES ASSUME IInv
               PROVE  RequestBudget
    OBVIOUS
  <2>1. TypeOK /\ Control /\ Budget /\ MaxIter \in Nat \ {0}
    BY LoopAssumption DEF IInv
  <2>2. CASE pc = "llm"
    BY <2>1, <2>2 DEF TypeOK, Control, Budget, Before, RequestBudget
  <2>3. CASE pc \in {"top", "tools", "idle"}
    BY <2>1, <2>3 DEF TypeOK, Control, Budget, RequestBudget
  <2> QED
    BY <2>1, <2>2, <2>3 DEF TypeOK
<1> QED
  BY <1>1, Invariant, PTL

\* After Stop at most one tool batch begins, however many rounds are left, and
\* the turn reports the abort unless it was at its last request.
THEOREM StopIsHonoured == Spec => []StopHonoured
<1>1. IInv => StopHonoured
  BY DEF IInv, LateOnce, Reported, StopHonoured
<1> QED
  BY <1>1, Invariant, PTL

-----------------------------------------------------------------------------
(* The loop implements TurnContract.                                       *)

\* Past the rounds the turn already has the reason it will report.
Reason == pc = "llm" /\ site # "main" => stop \in {"completed", "context_overflow", "max_iterations"}

\* Every step keeps that reason.
LEMMA ReasonStep == Reason /\ [Next]_vars => Reason'
<1> SUFFICES ASSUME Reason, [Next]_vars
             PROVE  Reason'
  OBVIOUS
<1>1. CASE TerminateIsEmpty
  BY <1>1 DEF TerminateIsEmpty, Failed, Returned, Answered, Cut, EnsureReply, Reason
<1>2. CASE Terminate \/ \E a \in Answers : MainIsEmpty(a)
  BY <1>2 DEF Terminate, MainIsEmpty, EnsureReply, Reason
<1>3. CASE Stop \/ Retry \/ UNCHANGED vars
  BY <1>3 DEF Stop, Retry, vars, counters, Reason
<1>4. CASE Ask
  BY <1>4 DEF Ask, Send, Reason
<1>5. CASE StartTurn \/ StopSeen \/ MainFails \/ ToolsReturn \/ EnsureFallsBack
  BY <1>5 DEF StartTurn, StopSeen, MainFails, ToolsReturn, EnsureFallsBack, End, Reason
<1>6. ASSUME NEW a \in Answers,
             \/ MainCut(a) \/ MainReplies(a) \/ MainUsesTools(a)
             \/ TerminateReplies(a) \/ EnsureReplies(a)
      PROVE  Reason'
  BY <1>6 DEF MainCut, MainReplies, MainUsesTools, TerminateReplies, EnsureReplies, End, Reason
<1> QED
  BY <1>1, <1>2, <1>3, <1>4, <1>5, <1>6 DEF Next, LoopStep

\* The conversation of the contract.
Told == SubSeq(history, 1, saved)

\* What is announced of the history when nothing is held back.
LEMMA AllTold ==
  ASSUME NEW h \in Seq(Message)
  PROVE  SubSeq(h, 1, Len(h)) = h
OBVIOUS

\* Without a prompt held back, what is added and saved is what is announced.
LEMMA Tells ==
  ASSUME TypeOK, saved = Len(history), NEW msgs \in Seq(Message), AddSaved(msgs)
  PROVE  /\ Told = history /\ Told' = Told \o msgs
         /\ ~(saved < Len(history)) /\ ~(saved < Len(history))'
<1>1. /\ history \in Seq(Message) /\ history' = history \o msgs /\ history' \in Seq(Message)
      /\ saved' = Len(history') /\ Len(history') \in Nat /\ Len(history) \in Nat
  BY AddSavedType, ConcatProperties, LenProperties DEF TypeOK, AddSaved, Add
<1>2. Told = history /\ Told' = history'
  BY <1>1, AllTold DEF Told
<1> QED
  BY <1>1, <1>2

\* A prompt that is added is held back.
LEMMA PromptIsHeldBack ==
  ASSUME TypeOK, Add(<<Say("prompt")>>), saved' = saved
  PROVE  Told' = Told /\ (saved < Len(history))'
<1>1. /\ history \in Seq(Message) /\ saved \in 0 .. Len(history) /\ Say("prompt") \in Message
      /\ history' = history \o <<Say("prompt")>>
  BY SayType DEF TypeOK, Add
<1>2. Len(history') = Len(history) + 1 /\ \A i \in 1 .. Len(history) : history'[i] = history[i]
  BY <1>1, AddOne
<1>3. Len(history) \in Nat
  BY <1>1
<1> QED
  BY <1>1, <1>2, <1>3 DEF Told

\* A turn that ends with a reply announces what was held back before it.
LEMMA ReplyIsTold ==
  ASSUME TypeOK, OnlyPromptsUnsaved, NEW kind \in {"reply", "fallback"},
         AddSaved(<<Say(kind)>>), pc = "llm", pc' = "idle",
         stop' \in {"completed", "context_overflow", "max_iterations"},
         cancelled' = cancelled, late' = late
  PROVE  Contract!Reply
<1> DEFINE m == Say(kind)
           said == SubSeq(history', saved + 1, Len(history'))
<1>1. /\ history \in Seq(Message) /\ saved \in 0 .. Len(history) /\ Len(history) \in Nat
      /\ m \in Message /\ m.kind = kind
  BY SayType DEF TypeOK, Say
<1>2. /\ history' = history \o <<m>> /\ history' \in Seq(Message)
      /\ Len(history') = Len(history) + 1 /\ history'[Len(history) + 1] = m
      /\ \A i \in 1 .. Len(history) : history'[i] = history[i]
      /\ saved' = Len(history')
  BY <1>1, AddOne, AddSavedType DEF AddSaved, Add
<1>3. Told' = history' /\ Len(Told) = saved
  BY <1>1, <1>2, AllTold DEF Told
<1>4. Contract!Said = said
  BY <1>3 DEF Contract!Said, Told
<1>5. /\ said \in Seq(Message) /\ Len(said) = Len(history) + 1 - saved
      /\ \A i \in 1 .. Len(said) : said[i] = history'[saved + i]
  BY <1>1, <1>2
<1>6. Told' = Told \o said
  <2>1. \A i \in 1 .. saved : Told[i] = history[i]
    BY <1>1 DEF Told
  <2>2. Told \in Seq(Message)
    BY <1>1 DEF Told
  <2> HIDE DEF said
  <2>3. Len(Told \o said) = Len(history')
    BY <1>1, <1>2, <1>3, <1>5, <2>2
  <2>4. \A i \in 1 .. Len(history') : (Told \o said)[i] = history'[i]
    BY <1>1, <1>2, <1>3, <1>5, <2>1, <2>2
  <2>5. Told \o said \in Seq(Message)
    BY <1>5, <2>2
  <2> QED
    BY <1>2, <1>3, <2>3, <2>4, <2>5
<1>7. said # <<>> /\ said[Len(said)].kind \in {"reply", "fallback"}
  <2>1. Len(said) \in 1 .. Len(said) /\ saved + Len(said) = Len(history) + 1
    BY <1>1, <1>5
  <2>2. said[Len(said)] = m
    BY <1>2, <1>5, <2>1
  <2> HIDE DEF said, m
  <2>3. said # <<>>
    BY <1>5, <2>1
  <2> QED
    BY <1>1, <2>2, <2>3
<1>8. \A i \in 1 .. Len(said) - 1 : said[i].kind = "prompt"
  <2> SUFFICES ASSUME NEW i \in 1 .. Len(said) - 1
               PROVE  said[i].kind = "prompt"
    OBVIOUS
  <2>1. said[i] = history[saved + i] /\ saved + i \in saved + 1 .. Len(history)
    BY <1>1, <1>2, <1>5
  <2> QED
    BY <2>1 DEF OnlyPromptsUnsaved
<1>9. saved < Len(history) <=> Len(said) > 1
  BY <1>1, <1>5
<1>10. ~(saved < Len(history))'
  BY <1>2
<1>11. Contract!Announce(said)
  BY <1>6 DEF Contract!Announce, Told
<1>12. Contract!Ends(stop')
  BY <1>10 DEF Contract!Ends
<1> HIDE DEF said
<1> QED
  BY <1>4, <1>7, <1>8, <1>9, <1>11, <1>12 DEF Contract!Reply

\* The calls that wait are those of the message just added.
LEMMA PendingCalls ==
  ASSUME IInv, pc = "tools"
  PROVE  /\ history[Len(history)].calls # <<>>
         /\ Result(Len(history[Len(history)].calls))
              = [kind |-> "result", calls |-> history[Len(history)].calls]
         /\ Result(Len(history[Len(history)].calls)) \in Message
<1>1. TypeOK /\ Control
  BY DEF IInv
<1>2. PICK n \in 1 .. MaxUses : history[Len(history)] = Use(n)
  BY <1>1 DEF Control
<1>3. /\ Use(n).calls = CallsOf(n) /\ Len(CallsOf(n)) = n /\ Result(n) \in Message
  BY <1>1, UseType, LoopAssumption DEF Control
<1>4. n # 0
  OBVIOUS
<1> QED
  BY <1>2, <1>3, <1>4 DEF Result

\* The first state is one of a contract.
LEMMA ContractInit == Init => Contract!Init
<1> SUFFICES ASSUME Init
             PROVE  Contract!Init
  OBVIOUS
<1>1. SubSeq(history, 1, saved) = <<>> /\ ~(saved < Len(history))
  BY DEF Init
<1> QED
  BY <1>1 DEF Init, Contract!Init

\* Every step of the loop is one of the contract, or nothing to it.
LEMMA ContractStep == IInv /\ Reason /\ [Next]_vars => [Contract!Next]_Contract!vars
<1> SUFFICES ASSUME IInv, Reason, [Next]_vars
             PROVE  Contract!Next \/ UNCHANGED Contract!vars
  OBVIOUS
<1>a. TypeOK /\ Control /\ OnlyPromptsUnsaved /\ Reason
  BY DEF IInv, Announced
<1>b. pc \in {"top", "tools"} \/ (pc = "llm" /\ site = "main") => saved = Len(history)
  BY DEF IInv, Announced
<1>c. pc = "idle" => saved = Len(history)
  <2>1. Len(history) \in Nat /\ saved \in 0 .. Len(history)
    BY <1>a DEF TypeOK
  <2>2. pc = "idle" => ~(Len(history) \in saved + 1 .. Len(history))
    BY <1>a DEF OnlyPromptsUnsaved
  <2> QED
    BY <2>1, <2>2
<1>d. ~cancelled \/ (pc = "llm" /\ site = "main") => late = 0
  BY DEF IInv, LateOnce
<1>e. \A kind \in {"user", "mark"} : <<Say(kind)>> \in Seq(Message)
  BY SayType
<1>1. CASE StartTurn
  <2>1. Told' = Told \o <<Say("user")>> /\ ~(saved < Len(history)) /\ ~(saved < Len(history))'
    BY <1>1, <1>a, <1>c, <1>e, Tells DEF StartTurn
  <2>2. Contract!Announce(<<Contract!Message("user", <<>>)>>)
    BY <2>1 DEF Told, Say, Contract!Announce, Contract!Message
  <2>3. Contract!Begin
    BY <1>1, <2>1, <2>2 DEF StartTurn, Contract!Begin
  <2> QED
    BY <2>3 DEF Contract!Next
<1>2. CASE Stop
  <2>1. late = 0
    BY <1>2, <1>d DEF Stop
  <2>2. Contract!Stop
    BY <1>2, <2>1 DEF Stop, counters, Contract!Stop
  <2> QED
    BY <2>2 DEF Contract!Next
<1>3. CASE StopSeen
  <2>1. saved = Len(history) /\ SubSeq(history, 1, saved) = history /\ history \in Seq(Message)
    BY <1>3, <1>a, <1>b, AllTold DEF StopSeen, TypeOK
  <2>2. Contract!Announce(<<>>) /\ ~(saved < Len(history)) /\ ~(saved < Len(history))'
    BY <1>3, <2>1 DEF StopSeen, Contract!Announce
  <2>3. Contract!Abort
    BY <1>3, <2>2 DEF StopSeen, End, counters, Contract!Abort, Contract!Ends
  <2> QED
    BY <2>3 DEF Contract!Next
<1>4. CASE MainFails
  <2>1. saved = Len(history) /\ SubSeq(history, 1, saved) = history /\ history \in Seq(Message)
    BY <1>4, <1>a, <1>b, AllTold DEF MainFails, Failed, TypeOK
  <2>2. Contract!Announce(<<>>) /\ ~(saved < Len(history)) /\ ~(saved < Len(history))'
    BY <1>4, <2>1 DEF MainFails, Contract!Announce
  <2>3. Contract!Fail
    BY <1>4, <2>2 DEF MainFails, Failed, End, Contract!Fail, Contract!Ends
  <2> QED
    BY <2>3 DEF Contract!Next
<1>5. CASE Ask \/ Retry \/ UNCHANGED vars
  <2>1. /\ history' = history /\ saved' = saved /\ cancelled' = cancelled /\ late' = late /\ stop' = stop
        /\ pc' = pc \/ (pc = "top" /\ pc' = "llm")
    BY <1>5 DEF Ask, Send, LateIf, Retry, counters, vars
  <2> QED
    BY <2>1 DEF Contract!vars
<1>6. CASE Terminate \/ TerminateIsEmpty \/ \E a \in Answers : MainIsEmpty(a)
  <2>1. /\ Add(<<Say("prompt")>>) /\ saved' = saved /\ cancelled' = cancelled /\ late' = late
        /\ pc \in {"top", "llm"} /\ pc' = "llm"
    BY <1>6 DEF Terminate, TerminateIsEmpty, MainIsEmpty, EnsureReply, Send, Failed, Returned,
                Answered, Cut, counters
  <2>2. Told' = Told /\ (saved < Len(history))'
    BY <1>a, <2>1, PromptIsHeldBack
  <2>3. Contract!Prompt
    BY <2>1, <2>2 DEF Told, Contract!Prompt
  <2> QED
    BY <2>3 DEF Contract!Next
<1>7. CASE ToolsReturn
  <2> DEFINE calls == history[Len(history)].calls
  <2>1. /\ calls # <<>> /\ Result(Len(calls)) = [kind |-> "result", calls |-> calls]
        /\ <<Result(Len(calls))>> \in Seq(Message)
    BY <1>7, PendingCalls DEF ToolsReturn
  <2>2. Told' = Told \o <<Result(Len(calls))>> /\ ~(saved < Len(history)) /\ ~(saved < Len(history))'
    BY <1>7, <1>a, <1>b, <2>1, Tells DEF ToolsReturn
  <2> HIDE DEF calls
  <2>3. Contract!Announce(<<Contract!Message("result", calls)>>)
    BY <2>1, <2>2 DEF Told, Contract!Announce, Contract!Message
  <2>4. Contract!ToolsAnswer
    BY <1>7, <2>1, <2>2, <2>3 DEF calls, ToolsReturn, counters, Contract!ToolsAnswer
  <2> QED
    BY <2>4 DEF Contract!Next
<1>8. ASSUME NEW a \in Answers, MainUsesTools(a)
      PROVE  Contract!Next
  <2> DEFINE n == a.uses
  <2>1. /\ n \in 1 .. MaxUses /\ Use(n) \in Message /\ Use(n) = [kind |-> "use", calls |-> CallsOf(n)]
        /\ Len(CallsOf(n)) = n
    BY <1>8, <1>a, UseType, LoopAssumption DEF MainUsesTools, Answered, Control, Answers, Use
  <2>2. Told' = Told \o <<Use(n)>> /\ ~(saved < Len(history)) /\ ~(saved < Len(history))'
    <3>1. AddSaved(<<Use(n)>>) /\ <<Use(n)>> \in Seq(Message) /\ saved = Len(history)
      BY <1>8, <1>b, <2>1 DEF MainUsesTools, Answered
    <3> QED
      BY <1>a, <3>1, Tells
  <2>3. history' = history \o <<Use(n)>> /\ Len(history') = Len(history) + 1
        /\ history'[Len(history) + 1] = Use(n)
    BY <1>8, <1>a, <2>1, AddOne DEF MainUsesTools, AddSaved, Add, TypeOK
  <2>4. pc' = "tools" /\ history'[Len(history')].calls = CallsOf(n) /\ CallsOf(n) # <<>>
    BY <1>8, <2>1, <2>3 DEF MainUsesTools
  <2>5. late = 0 /\ late' = (IF cancelled THEN 1 ELSE 0)
    BY <1>8, <1>d DEF MainUsesTools, Answered, LateIf
  <2>6. Contract!Announce(<<Contract!Message("use", CallsOf(n))>>)
    BY <2>1, <2>2 DEF Told, Contract!Announce, Contract!Message
  <2>7. Contract!CallTools
    BY <1>8, <1>a, <2>2, <2>4, <2>5, <2>6 DEF MainUsesTools, Answered, TypeOK, Contract!CallTools
  <2> QED
    BY <2>7 DEF Contract!Next
<1>9. ASSUME NEW a \in Answers, MainCut(a)
      PROVE  Contract!Next
  <2> DEFINE n == a.uses
  <2>1. Contract!Ends("aborted") /\ cancelled /\ saved = Len(history)
    <3>1. ~(saved < Len(history))' /\ saved = Len(history)
      <4>1. AbortedTurn(n) \in Seq(Message)
        BY <1>9, <1>a, <1>e, UseType DEF MainCut, Cut, Control, Answers, AbortedTurn
      <4> QED
        BY <1>9, <1>a, <1>b, <4>1, Tells DEF MainCut, Cut
    <3> QED
      BY <1>9, <3>1 DEF MainCut, Cut, End, Contract!Ends
  <2>2. CASE n = 0
    <3>1. Told' = Told \o <<Say("mark")>> /\ ~(saved < Len(history))
      <4>1. AddSaved(<<Say("mark")>>)
        BY <1>9, <2>2 DEF MainCut, AbortedTurn
      <4> QED
        BY <1>a, <1>e, <2>1, <4>1, Tells
    <3>2. Contract!Announce(<<Contract!Message("mark", <<>>)>>)
      BY <3>1 DEF Told, Say, Contract!Announce, Contract!Message
    <3> QED
      BY <2>1, <3>1, <3>2 DEF Contract!Next, Contract!Abort
  <2>3. CASE n # 0
    <3>1. /\ Use(n) = [kind |-> "use", calls |-> CallsOf(n)] /\ Use(n) \in Message
          /\ Result(n) = [kind |-> "result", calls |-> CallsOf(n)] /\ Result(n) \in Message
          /\ Len(CallsOf(n)) = n
      BY <1>9, <1>a, UseType DEF MainCut, Cut, Control, Answers, Use, Result
    <3>2. AddSaved(<<Use(n), Result(n)>>) /\ <<Use(n), Result(n)>> \in Seq(Message)
      BY <1>9, <2>3, <3>1, LoopAssumption DEF MainCut, AbortedTurn, Answers
    <3>3. /\ Told = history /\ Told' = Told \o <<Use(n), Result(n)>> /\ ~(saved < Len(history))
      BY <1>a, <2>1, <3>2, Tells
    <3>4. /\ history \in Seq(Message) /\ Len(Told') = Len(history) + 2
          /\ Told'[Len(history) + 2] = Result(n)
      BY <1>a, <3>1, <3>3, AddTwo DEF TypeOK
    <3>5. Told'[Len(Told')].calls = CallsOf(n) /\ CallsOf(n) # <<>>
      BY <2>3, <3>1, <3>4
    <3>6. Contract!Announce(<<Contract!Message("use", CallsOf(n)), Contract!Message("result", CallsOf(n))>>)
      BY <3>1, <3>3 DEF Told, Contract!Announce, Contract!Message
    <3> QED
      BY <2>1, <3>3, <3>5, <3>6 DEF Told, Contract!Next, Contract!Abort
  <2> QED
    BY <2>2, <2>3
<1>10. ASSUME NEW a \in Answers, MainReplies(a) \/ TerminateReplies(a) \/ EnsureReplies(a)
       PROVE  Contract!Next
  <2>1. /\ AddSaved(<<Say("reply")>>) /\ pc = "llm" /\ pc' = "idle"
        /\ stop' \in {"completed", "context_overflow", "max_iterations"}
        /\ cancelled' = cancelled /\ late' = late
    BY <1>10, <1>a DEF MainReplies, TerminateReplies, EnsureReplies, Returned, Answered, Cut, End, Reason
  <2> QED
    BY <1>a, <2>1, ReplyIsTold DEF Contract!Next
<1>11. CASE EnsureFallsBack
  <2>1. /\ AddSaved(<<Say("fallback")>>) /\ pc = "llm" /\ pc' = "idle"
        /\ stop' \in {"completed", "context_overflow", "max_iterations"}
        /\ cancelled' = cancelled /\ late' = late
    BY <1>11, <1>a DEF EnsureFallsBack, Failed, Returned, Answered, Cut, End, Reason
  <2> QED
    BY <1>a, <2>1, ReplyIsTold DEF Contract!Next
<1> QED
  BY <1>1, <1>2, <1>3, <1>4, <1>5, <1>6, <1>7, <1>8, <1>9, <1>10, <1>11 DEF Next, LoopStep

\* The loop implements TurnContract: whatever the provider answers and whenever
\* the user presses Stop, what it announces, how its calls are answered and how
\* its turns end is what handler, provider and user count on.
THEOREM TurnsKeepContract == Spec => KeepsTurnContract
<1>1. Init => Reason
  BY DEF Init, Reason
<1>2. Spec => []Reason
  BY <1>1, ReasonStep, PTL DEF Spec
<1> QED
  BY <1>2, ContractInit, ContractStep, Invariant, PTL DEF Spec, KeepsTurnContract, Contract!Spec

=============================================================================
