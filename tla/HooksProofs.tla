----------------------------- MODULE HooksProofs ------------------------------
(***************************************************************************)
(* Proofs about Hooks, for any configuration of hooks, any number of       *)
(* parallel calls and any number of rounds.                                *)
(***************************************************************************)
EXTENDS Hooks, HookCases, WellFoundedInduction, TLAPS

\* Dispatch waits for run k.
Active(k) == k[3] \notin Async /\ stage[k] \in {"checked", "marked", "acted", "taken"}

\* A run that has taken a text has taken one that was rendered.
TookText == \A k \in Run : stage[k] = "taken" => took[k] # NoText

\* A run that Dispatch waits for is of this round, and where its caller is.
RunsNow == \A k \in Run : Active(k) => k[1] = round /\ at[k[2]] = k[3]

\* The loop dispatches pre_message when its tool calls are over, and sends the
\* request when that is over as well.
OneEvent ==
  /\ phase = "tools" => at[Message] = Done
  /\ phase # "tools" => \A c \in Call : at[c] = Done
  /\ phase \in {"reading", "answering", "ended"} => at[Message] = Done

\* A caller runs the hooks of its event.
Listened ==
  /\ \A c \in Caller : at[c] \in Listens(c) \cup {Done}
  /\ \A k \in Run : stage[k] # "none" => k[3] \in Listens(k[2])

\* A once-hook that has begun is marked.
BegunIsFired == \A k \in Run : k[3] \in Once /\ Begun(k) => k[3] \in fired

\* OnceInOneBatch of the runs that have only been checked, too.
CheckedInOneBatch ==
  \A k, l \in Run :
    k[3] = l[3] /\ k[3] \in Once \ Async /\ stage[k] # "none" /\ stage[l] # "none"
      => k[1] = l[1] /\ (k[2] = Message => k = l)

EngineInv ==
  /\ TypeOK /\ TookText /\ RunsNow /\ OneEvent /\ Listened /\ BegunIsFired /\ CheckedInOneBatch

\* What the shared field and the runs that have read it hold.
TextNow == \A k \in Run : k[3] \notin Async =>
  /\ stage[k] = "acted" /\ last[k[3]] # NoText =>
       last[k[3]][1] = round /\ last[k[3]][2] \in Caller \ Blank
  /\ stage[k] = "taken" => took[k][1] = k[1] /\ took[k][2] \in Caller \ Blank

\* An injection is made by a run that is over then.
InjectedIsOver ==
  \A p \in pending \cup sending \cup heard \cup lost : stage[p.run] = "over"

\* An injection is in one place, but for a request that is being built.
InOnePlace ==
  /\ lost \cap (pending \cup sending) = {}
  /\ phase \in {"tools", "message", "ended"} => sending = {}
  /\ phase = "reading" => sending \subseteq pending
  /\ phase = "reading" => \A p \in pending : p.run[3] \notin Async => p \in sending
  /\ phase = "answering" => sending \cap pending = {}

\* What is sent without an async hook's help is of this round.
SentNow == \A p \in sending : p.run[3] \notin Async => p.run[1] = round

IInv ==
  /\ EngineInv /\ TextNow /\ TextOfTheRound
  /\ InjectedIsOver /\ InOnePlace /\ SentNow /\ LostWithRequest

-----------------------------------------------------------------------------
\* A set of numbers that is not empty has a smallest element.
LEMMA SmallestExists ==
  ASSUME NEW S \in SUBSET Nat, S # {}
  PROVE  \E g \in S : \A f \in S : g <= f
<1>1. IsWellFoundedOn(OpToRel(<, Nat), Nat)
  BY NatLessThanWellFounded
<1>2. PICK x \in S : \A y \in S : <<y, x>> \notin OpToRel(<, Nat)
  BY <1>1, WFMin
<1>3. \A y \in S : ~(y < x)
  BY <1>2 DEF OpToRel
<1> QED
  BY <1>3

\* Dispatch goes from hook to hook of its event, and is done then.
LEMMA FollowingListens ==
  ASSUME NEW c \in Caller, NEW h
  PROVE  Following(c, h) \in Listens(c) \cup {Done}
<1> DEFINE later == {g \in Listens(c) : g > h}
<1>1. CASE later = {}
  BY <1>1 DEF Following
<1>2. CASE later # {}
  <2>1. Hook \subseteq Nat /\ OnTool \subseteq Nat
    BY HooksAssumption DEF Hook
  <2>3. Listens(c) \subseteq Nat
    BY <2>1 DEF Listens
  <2>4. later \in SUBSET Nat
    BY <2>3
  <2>2. \E g \in later : \A f \in later : g <= f
    BY <1>2, <2>4, SmallestExists
  <2> QED
    BY <1>2, <2>2 DEF Following
<1> QED
  BY <1>1, <1>2

\* A run is of a round, a caller and a hook.
LEMMA RunParts ==
  ASSUME NEW k \in Run
  PROVE  /\ k[1] \in Round /\ k[2] \in Caller /\ k[3] \in Hook
         /\ <<k[1], k[2]>> \in Text /\ k = <<k[1], k[2], k[3]>>
BY DEF Run, Text

\* A hook is not Done, and Done is no hook.
LEMMA DoneIsNoHook == Done \notin Hook /\ \A c \in Caller : Listens(c) \subseteq Hook
<1>1. Done \notin Hook
  BY HooksAssumption DEF Done, Hook
<1>2. OnTool \subseteq Hook
  BY HooksAssumption DEF Hook
<1> QED
  BY <1>1, <1>2 DEF Listens

\* Where Dispatch goes is a place.
LEMMA FollowingTyped ==
  ASSUME NEW c \in Caller, NEW h
  PROVE  Following(c, h) \in Hook \cup {Done}
BY FollowingListens, DoneIsNoHook

\* Ending a run keeps the types.
LEMMA OverTyped ==
  ASSUME TypeOK, NEW k \in Run, Over(k)
  PROVE  stage' \in [Run -> Stages] /\ at' \in [Caller -> Hook \cup {Done}]
<1>1. stage' \in [Run -> Stages]
  BY DEF Over, TypeOK, Stages
<1>2. Following(k[2], k[3]) \in Hook \cup {Done}
  BY RunParts, FollowingTyped
<1>3. at' \in [Caller -> Hook \cup {Done}]
  BY <1>2 DEF Over, TypeOK
<1> QED
  BY <1>1, <1>3

\* The loop begins with a round of tool calls.
LEMMA TypeInit == Init => TypeOK
<1> SUFFICES ASSUME Init
             PROVE  TypeOK
  OBVIOUS
<1>1. 1 \in Round
  BY HooksAssumption DEF Round
<1>2. at \in [Caller -> Hook \cup {Done}]
  BY FollowingTyped DEF Init
<1>3. stage \in [Run -> Stages]
  BY DEF Init, Stages
<1>4. last \in [Hook -> Text \cup {NoText}] /\ took \in [Run -> Text \cup {NoText}]
  BY DEF Init
<1> QED
  BY <1>1, <1>2, <1>3, <1>4 DEF Init, TypeOK

\* Every step keeps the types.
LEMMA TypeStep == TypeOK /\ TookText /\ [Next]_vars => TypeOK'
<1> SUFFICES ASSUME TypeOK, TookText, [Next]_vars
             PROVE  TypeOK'
  OBVIOUS
<1> USE DEF TypeOK, loop, engine
<1>1. ASSUME NEW c \in Caller, Skip(c)
      PROVE  TypeOK'
  <2>1. at' \in [Caller -> Hook \cup {Done}]
    BY <1>1, FollowingTyped DEF Skip, Pass
  <2> QED
    BY <1>1, <2>1 DEF Skip
<1>2. ASSUME NEW c \in Caller, Fire(c)
      PROVE  TypeOK'
  <2>1. at' \in [Caller -> Hook \cup {Done}]
    BY <1>2, FollowingTyped DEF Fire, Pass
  <2>2. stage' \in [Run -> Stages]
    BY <1>2 DEF Fire, Stages
  <2> QED
    BY <1>2, <2>1, <2>2 DEF Fire
<1>3. ASSUME NEW k \in Run, Mark(k)
      PROVE  TypeOK'
  BY <1>3 DEF Mark, Stages
<1>4. ASSUME NEW k \in Run, Execute(k)
      PROVE  TypeOK'
  BY <1>4, OverTyped DEF Execute
<1>5. ASSUME NEW k \in Run, Render(k)
      PROVE  TypeOK'
  <2>1. last' \in [Hook -> Text \cup {NoText}]
    BY <1>5, RunParts DEF Render
  <2>2. stage' \in [Run -> Stages] /\ at' \in [Caller -> Hook \cup {Done}]
    BY <1>5, OverTyped DEF Render, Stages
  <2> QED
    BY <1>5, <2>1, <2>2 DEF Render
<1>6. ASSUME NEW k \in Run, Take(k)
      PROVE  TypeOK'
  <2>1. last[k[3]] \in Text \cup {NoText}
    BY RunParts
  <2>2. took' \in [Run -> Text \cup {NoText}]
    BY <1>6, <2>1 DEF Take
  <2>3. stage' \in [Run -> Stages] /\ at' \in [Caller -> Hook \cup {Done}]
    BY <1>6, OverTyped DEF Take, Stages
  <2> QED
    BY <1>6, <2>2, <2>3 DEF Take
<1>7. ASSUME NEW k \in Run, Inject(k)
      PROVE  TypeOK'
  <2>1. took[k] \in Text
    BY <1>7 DEF Inject, TookText
  <2>2. pending' \subseteq Prompted
    BY <1>7, <2>1 DEF Inject, Prompted
  <2>3. stage' \in [Run -> Stages] /\ at' \in [Caller -> Hook \cup {Done}]
    BY <1>7, OverTyped DEF Inject
  <2> QED
    BY <1>7, <2>2, <2>3 DEF Inject
<1>8. CASE ToolsDone
  <2>1. at' \in [Caller -> Hook \cup {Done}]
    BY <1>8, FollowingTyped DEF ToolsDone
  <2> QED
    BY <1>8, <2>1 DEF ToolsDone
<1>9. CASE ReadPending \/ ClearPending \/ TooLong \/ Fail
  BY <1>9 DEF ReadPending, ClearPending, TooLong, Fail
<1>10. CASE Answer
  <2>1. at' \in [Caller -> Hook \cup {Done}]
    BY <1>10, FollowingTyped DEF Answer
  <2>2. round' \in Round
    BY <1>10, HooksAssumption DEF Answer, Round
  <2> QED
    BY <1>10, <2>1, <2>2 DEF Answer
<1>11. CASE UNCHANGED vars
  BY <1>11 DEF vars
<1> QED
  BY <1>1, <1>2, <1>3, <1>4, <1>5, <1>6, <1>7, <1>8, <1>9, <1>10, <1>11
     DEF Next, Step, Loop

\* Every run that has taken a text keeps it.
LEMMA TookStep == TypeOK /\ TookText /\ [Next]_vars => TookText'
<1> SUFFICES ASSUME TypeOK, TookText, [Next]_vars
             PROVE  TookText'
  OBVIOUS
<1> USE DEF TypeOK, TookText, loop, engine
<1>1. CASE UNCHANGED <<stage, took>>
  BY <1>1
<1>2. ASSUME NEW c \in Caller, Fire(c)
      PROVE  TookText'
  BY <1>2 DEF Fire
<1>3. ASSUME NEW k \in Run, Mark(k) \/ Execute(k) \/ Render(k) \/ Inject(k)
      PROVE  TookText'
  BY <1>3 DEF Mark, Execute, Render, Inject, Over
<1>4. ASSUME NEW k \in Run, Take(k)
      PROVE  TookText'
  BY <1>4 DEF Take, Over
<1> QED
  BY <1>1, <1>2, <1>3, <1>4
     DEF Next, Step, Loop, vars, Skip, ToolsDone, ReadPending, ClearPending, TooLong, Fail, Answer

-----------------------------------------------------------------------------
(* The engine.  Dispatch is tied to the round by the runs it waits for:    *)
(* two runs of a once-hook can only both find it unmarked while both are   *)
(* waited for.                                                             *)

\* While the request is read, sent or answered, Dispatch waits for nothing.
LEMMA NoneActive ==
  ASSUME EngineInv, NEW k \in Run, Active(k)
  PROVE  /\ k[2] = Message => phase = "message"
         /\ k[2] # Message => phase = "tools"
<1>1. k[2] \in Caller /\ at[k[2]] \in Hook /\ at[k[2]] # Done
  BY RunParts, DoneIsNoHook DEF EngineInv, RunsNow
<1>2. phase \in {"tools", "message", "reading", "answering", "ended"}
  BY DEF EngineInv, TypeOK
<1> QED
  BY <1>1, <1>2 DEF EngineInv, OneEvent, Caller

\* The loop begins with nothing dispatched.
LEMMA EngineInit == Init => EngineInv
<1> SUFFICES ASSUME Init
             PROVE  EngineInv
  OBVIOUS
<1>1. TypeOK
  BY TypeInit
<1>2. \A k \in Run : stage[k] = "none"
  BY DEF Init
<1>3. OneEvent
  BY DEF Init, OneEvent, Caller
<1>4. \A c \in Caller : at[c] \in Listens(c) \cup {Done}
  BY FollowingListens DEF Init
<1> QED
  BY <1>1, <1>2, <1>3, <1>4
     DEF EngineInv, TookText, RunsNow, Active, Listened, BegunIsFired, Begun, CheckedInOneBatch

Underway == {"checked", "marked", "acted", "taken"}

\* A run that goes on, or begins when it is marked, keeps the invariant.
LEMMA Advances ==
  ASSUME EngineInv, (TypeOK /\ TookText)', NEW k \in Run, stage[k] \in Underway,
         NEW s \in {"marked", "acted", "taken"}, stage' = [stage EXCEPT ![k] = s],
         UNCHANGED <<phase, round, at>>,
         fired \subseteq fired', k[3] \in Once => k[3] \in fired'
  PROVE  EngineInv'
<1> USE DEF EngineInv, TypeOK, Underway
<1>1. RunsNow' /\ OneEvent'
  BY DEF RunsNow, Active, OneEvent
<1>2. Listened' /\ CheckedInOneBatch'
  BY DEF Listened, CheckedInOneBatch
<1>3. BegunIsFired'
  BY DEF BegunIsFired, Begun
<1> QED
  BY <1>1, <1>2, <1>3

\* A run that ends lets Dispatch go on, and keeps the invariant.
LEMMA Ends ==
  ASSUME EngineInv, (TypeOK /\ TookText)', NEW k \in Run, stage[k] \in Underway, Over(k),
         UNCHANGED <<phase, round, fired>>, k[3] \in Once => k[3] \in fired
  PROVE  EngineInv'
<1>a. /\ TypeOK /\ RunsNow /\ OneEvent /\ Listened /\ BegunIsFired /\ CheckedInOneBatch
      /\ stage' = [stage EXCEPT ![k] = "over"] /\ stage \in [Run -> Stages]
  BY DEF EngineInv, Over, TypeOK
<1>1. CASE k[3] \in Async
  <2>1. at' = at
    BY <1>1 DEF Over
  <2>2. RunsNow' /\ OneEvent' /\ Listened'
    BY <1>a, <2>1 DEF RunsNow, Active, OneEvent, Listened, Underway
  <2>3. BegunIsFired' /\ CheckedInOneBatch'
    BY <1>a DEF BegunIsFired, Begun, CheckedInOneBatch, Underway
  <2> QED
    BY <2>2, <2>3 DEF EngineInv
<1>2. CASE k[3] \notin Async
  <2>1. Active(k) /\ k[1] = round /\ at[k[2]] = k[3] /\ k[2] \in Caller
    BY <1>a, <1>2, RunParts DEF Active, RunsNow, Underway
  <2>2. at' = [at EXCEPT ![k[2]] = Following(k[2], k[3])]
    BY <1>2 DEF Over
  <2>3. ASSUME NEW l \in Run, Active(l)'
        PROVE  l[1] = round' /\ at'[l[2]] = l[3]
    <3>1. l # k /\ Active(l)
      BY <1>a, <2>3 DEF Active
    <3>2. l[1] = round /\ at[l[2]] = l[3]
      BY <1>a, <3>1 DEF RunsNow
    <3>3. l[2] # k[2]
      BY <2>1, <3>1, <3>2, RunParts
    <3> QED
      BY <2>2, <3>2, <3>3, RunParts, <1>a DEF TypeOK
  <2>4. OneEvent'
    <3>1. CASE k[2] = Message
      <4>1. phase = "message"
        BY <2>1, <3>1, NoneActive
      <4> QED
        BY <1>a, <2>2, <3>1, <4>1, HooksAssumption DEF OneEvent, TypeOK
    <3>2. CASE k[2] # Message
      <4>1. phase = "tools"
        BY <2>1, <3>2, NoneActive
      <4> QED
        BY <1>a, <2>2, <3>2, <4>1 DEF OneEvent, TypeOK, Caller
    <3> QED
      BY <3>1, <3>2
  <2>5. Listened'
    <3>1. \A c \in Caller : at'[c] \in Listens(c) \cup {Done}
      BY <1>a, <2>1, <2>2, FollowingListens DEF Listened, TypeOK
    <3> QED
      BY <1>a, <3>1 DEF Listened, Underway
  <2>6. BegunIsFired' /\ CheckedInOneBatch'
    BY <1>a DEF BegunIsFired, Begun, CheckedInOneBatch, Underway
  <2> QED
    BY <2>3, <2>4, <2>5, <2>6 DEF EngineInv, RunsNow
<1> QED
  BY <1>1, <1>2

\* A once-hook that is fired anew is unmarked: those that have found it so
\* before are still waited for.
LEMMA FireStep ==
  ASSUME EngineInv, (TypeOK /\ TookText)', NEW c \in Caller, Fire(c)
  PROVE  EngineInv'
<1> DEFINE k == <<round, c, at[c]>>
<1>a. /\ TypeOK /\ RunsNow /\ OneEvent /\ Listened /\ BegunIsFired /\ CheckedInOneBatch
  BY DEF EngineInv
<1>b. /\ at[c] \in Hook /\ at[c] \in Listens(c) /\ k \in Run /\ stage[k] = "none"
      /\ stage' = [stage EXCEPT ![k] = "checked"] /\ stage \in [Run -> Stages]
      /\ ~(at[c] \in Once /\ at[c] \in fired)
      /\ UNCHANGED <<phase, round, fired>>
  BY <1>a, DoneIsNoHook DEF Fire, Run, TypeOK, Listened, loop
<1>c. k[1] = round /\ k[2] = c /\ k[3] = at[c]
  OBVIOUS
<1> HIDE DEF k
<1>1. \A l \in Run : Active(l) /\ l[2] = c => l[3] = at[c] /\ l # k
  BY <1>a, <1>b, <1>c DEF RunsNow, Active
<1>2. CASE at[c] \in Async
  <2>1. at' = [at EXCEPT ![c] = Following(c, at[c])]
    BY <1>2 DEF Fire, Pass
  <2>2. \A l \in Run : Active(l)' => Active(l) /\ l[2] # c
    BY <1>1, <1>2, <1>b, <1>c DEF Active
  <2>3. RunsNow'
    BY <1>a, <1>b, <2>1, <2>2, RunParts DEF RunsNow, TypeOK
  <2>4. OneEvent'
    BY <1>a, <1>b, <2>1, DoneIsNoHook, HooksAssumption DEF OneEvent, TypeOK, Caller
  <2>5. Listened'
    <3>1. \A d \in Caller : at'[d] \in Listens(d) \cup {Done}
      BY <1>a, <2>1, FollowingListens DEF Listened, TypeOK
    <3> QED
      BY <1>a, <1>b, <1>c, <3>1 DEF Listened
  <2>6. BegunIsFired' /\ CheckedInOneBatch'
    BY <1>2, <1>a, <1>b, <1>c DEF BegunIsFired, Begun, CheckedInOneBatch
  <2> QED
    BY <2>3, <2>4, <2>5, <2>6 DEF EngineInv
<1>3. CASE at[c] \notin Async
  <2>1. at' = at
    BY <1>3 DEF Fire
  <2>2. RunsNow'
    BY <1>a, <1>b, <1>c, <2>1 DEF RunsNow, Active
  <2>3. OneEvent' /\ Listened'
    BY <1>a, <1>b, <1>c, <2>1 DEF OneEvent, Listened
  <2>4. BegunIsFired'
    BY <1>a, <1>b DEF BegunIsFired, Begun
  <2>5. ASSUME NEW l \in Run, l[3] = at[c], at[c] \in Once, stage[l] # "none"
        PROVE  l[1] = round /\ (l[2] = Message <=> c = Message)
    <3>1. ~Begun(l)
      BY <1>a, <1>b, <2>5 DEF BegunIsFired
    <3>2. Active(l)
      BY <1>3, <1>b, <2>5, <3>1 DEF Active, Begun, Stages
    <3>3. l[3] \in Listens(l[2]) /\ at[c] \in Listens(c)
      BY <1>a, <1>b, <2>5 DEF Listened
    <3> QED
      BY <1>a, <2>5, <3>2, <3>3 DEF RunsNow, Listens
  <2>6. ASSUME NEW l \in Run, l[3] = at[c], at[c] \in Once, stage[l] # "none", l[2] = Message
        PROVE  l = k
    BY <1>c, <1>b, <2>5, <2>6, RunParts
  <2>7. CheckedInOneBatch'
    BY <1>a, <1>b, <1>c, <2>5, <2>6 DEF CheckedInOneBatch
  <2> QED
    BY <2>2, <2>3, <2>4, <2>7 DEF EngineInv
<1> QED
  BY <1>2, <1>3

\* Every step keeps the engine's invariant.
LEMMA EngineStep == EngineInv /\ [Next]_vars => EngineInv'
<1> SUFFICES ASSUME EngineInv, [Next]_vars
             PROVE  EngineInv'
  OBVIOUS
<1>a. TypeOK /\ TookText /\ (TypeOK /\ TookText)'
  BY TypeStep, TookStep DEF EngineInv
<1>b. /\ RunsNow /\ OneEvent /\ Listened /\ BegunIsFired /\ CheckedInOneBatch
  BY DEF EngineInv
<1> USE DEF loop, engine
<1>1. ASSUME NEW c \in Caller, Skip(c)
      PROVE  EngineInv'
  <2>1. at' = [at EXCEPT ![c] = Following(c, at[c])] /\ at[c] \in Hook
    BY <1>1 DEF Skip, Pass
  <2>2. \A k \in Run : Active(k) => k[2] # c
    BY <1>1, <1>b, RunParts DEF Skip, RunsNow, Active
  <2>3. RunsNow'
    BY <1>1, <1>a, <1>b, <2>1, <2>2, RunParts DEF Skip, RunsNow, Active, TypeOK
  <2>4. OneEvent'
    BY <1>1, <1>a, <1>b, <2>1, DoneIsNoHook, HooksAssumption DEF Skip, OneEvent, TypeOK, Caller
  <2>5. \A d \in Caller : at'[d] \in Listens(d) \cup {Done}
    BY <1>a, <1>b, <2>1, FollowingListens DEF Listened, TypeOK
  <2> QED
    BY <1>1, <1>a, <1>b, <2>3, <2>4, <2>5
       DEF Skip, EngineInv, Listened, BegunIsFired, Begun, CheckedInOneBatch
<1>2. ASSUME NEW c \in Caller, Fire(c)
      PROVE  EngineInv'
  BY <1>2, <1>a, FireStep
<1>3. ASSUME NEW k \in Run, Mark(k)
      PROVE  EngineInv'
  BY <1>3, <1>a, Advances DEF Mark, Underway
<1>4. ASSUME NEW k \in Run, Execute(k) \/ Render(k) \/ Take(k) \/ Inject(k)
      PROVE  EngineInv'
  <2>1. stage[k] \in Underway /\ (k[3] \in Once => k[3] \in fired)
    BY <1>4, <1>b DEF Execute, Render, Take, Inject, Ready, BegunIsFired, Begun, Underway
  <2>2. UNCHANGED <<phase, round, fired>>
    BY <1>4 DEF Execute, Render, Take, Inject
  <2>3. CASE Over(k)
    BY <2>1, <2>2, <2>3, <1>a, Ends
  <2>4. CASE at' = at /\ \E s \in {"marked", "acted", "taken"} : stage' = [stage EXCEPT ![k] = s]
    BY <2>1, <2>2, <2>4, <1>a, Advances
  <2> QED
    BY <1>4, <2>3, <2>4 DEF Execute, Render, Take, Inject
<1>5. CASE ToolsDone
  <2>1. /\ at' = [at EXCEPT ![Message] = Following(Message, 0)] /\ at[Message] = Done
        /\ phase = "tools" /\ phase' = "message" /\ \A c \in Call : at[c] = Done
        /\ Message \in Caller
    BY <1>5, <1>b DEF ToolsDone, OneEvent, Caller
  <2>2. \A k \in Run : ~Active(k)
    BY <2>1, NoneActive, <1>b, RunParts, DoneIsNoHook DEF RunsNow, Caller
  <2>3. RunsNow'
    BY <1>5, <2>2 DEF ToolsDone, RunsNow, Active
  <2>4. OneEvent'
    BY <2>1, <1>a, HooksAssumption DEF OneEvent, TypeOK, Caller
  <2>5. \A d \in Caller : at'[d] \in Listens(d) \cup {Done}
    BY <1>a, <1>b, <2>1, FollowingListens DEF Listened, TypeOK
  <2> QED
    BY <1>5, <1>a, <1>b, <2>3, <2>4, <2>5
       DEF ToolsDone, EngineInv, Listened, BegunIsFired, Begun, CheckedInOneBatch
<1>6. CASE ReadPending \/ ClearPending \/ TooLong \/ Fail
  <2>1. UNCHANGED <<engine, round>> /\ phase # "tools" /\ phase' # "tools" /\ at[Message] = Done
    BY <1>6, <1>b DEF ReadPending, ClearPending, TooLong, Fail, OneEvent
  <2>2. OneEvent'
    BY <2>1, <1>b DEF OneEvent
  <2> QED
    BY <1>a, <1>b, <2>1, <2>2
       DEF EngineInv, RunsNow, Active, Listened, BegunIsFired, Begun, CheckedInOneBatch
<1>7. CASE Answer
  <2>1. \A k \in Run : ~Active(k)
    BY <1>7, NoneActive DEF Answer
  <2>2. RunsNow'
    BY <1>7, <2>1 DEF Answer, RunsNow, Active
  <2>3. OneEvent'
    BY <1>7, <1>b DEF Answer, OneEvent, Caller
  <2>4. \A d \in Caller : at'[d] \in Listens(d) \cup {Done}
    BY <1>7, <1>b, FollowingListens DEF Answer, Listened
  <2> QED
    BY <1>7, <1>a, <1>b, <2>2, <2>3, <2>4
       DEF Answer, EngineInv, Listened, BegunIsFired, Begun, CheckedInOneBatch
<1>8. CASE UNCHANGED vars
  BY <1>8, <1>a, <1>b
     DEF vars, EngineInv, RunsNow, Active, OneEvent, Listened, BegunIsFired, Begun, CheckedInOneBatch
<1> QED
  BY <1>1, <1>2, <1>3, <1>4, <1>5, <1>6, <1>7, <1>8 DEF Next, Step, Loop

-----------------------------------------------------------------------------
(* The texts.  While a run is waited for, the round does not change, so    *)
(* whatever another run puts into the field is of the same round.          *)

\* Every step keeps the texts of the round.
LEMMA TextStep ==
  EngineInv /\ TextNow /\ TextOfTheRound /\ [Next]_vars => TextNow' /\ TextOfTheRound'
<1> DEFINE Goal == TextNow' /\ TextOfTheRound'
<1> SUFFICES ASSUME EngineInv, TextNow, TextOfTheRound, [Next]_vars
             PROVE  Goal
  OBVIOUS
<1>a. TypeOK /\ TookText /\ RunsNow /\ TypeOK'
  BY EngineStep DEF EngineInv
<1>b. ASSUME UNCHANGED <<last, took>>,
             round' = round \/ \A k \in Run : ~Active(k),
             \A k \in Run : k[3] \notin Async /\ stage'[k] \in {"acted", "taken"} =>
               stage'[k] = stage[k],
             pending' \cup sending' \cup heard' \cup lost'
               \subseteq pending \cup sending \cup heard \cup lost
      PROVE  Goal
  <2>1. TextOfTheRound'
    BY <1>b DEF TextOfTheRound
  <2>2. TextNow'
    BY <1>b DEF TextNow, Active
  <2> QED
    BY <2>1, <2>2
<1> USE <1>a DEF TypeOK, loop, engine
<1>1. ASSUME NEW c \in Caller, Skip(c) \/ Fire(c)
      PROVE  Goal
  BY <1>1, <1>b DEF Skip, Fire
<1>2. ASSUME NEW k \in Run, Mark(k) \/ Execute(k)
      PROVE  Goal
  BY <1>2, <1>b DEF Mark, Execute, Over
<1>3. ASSUME NEW k \in Run, Render(k)
      PROVE  Goal
  <2>1. UNCHANGED <<took, round, pending, sending, heard, lost>>
    BY <1>3 DEF Render
  <2>2. TextOfTheRound'
    BY <2>1 DEF TextOfTheRound
  <2>3. k[3] \notin Async => k[1] = round
    BY <1>3 DEF Render, Ready, RunsNow, Active
  <2>4. last' = [last EXCEPT ![k[3]] = NoText] \/
        (k[2] \notin Blank /\ last' = [last EXCEPT ![k[3]] = <<k[1], k[2]>>])
    BY <1>3 DEF Render
  <2>5. \A l \in Run : stage'[l] \in {"acted", "taken"} =>
          \/ stage'[l] = stage[l]
          \/ (l = k /\ stage'[l] = "acted" /\ k[2] \notin Blank)
    BY <1>3 DEF Render, Over
  <2>6. ASSUME NEW l \in Run, l[3] \notin Async, stage'[l] = "acted", last'[l[3]] # NoText
        PROVE  last'[l[3]][1] = round /\ last'[l[3]][2] \in Caller \ Blank
    <3>1. CASE l[3] = k[3]
      <4>1. k[3] \in Hook /\ k[2] \in Caller
        BY RunParts
      <4>2. last'[k[3]] = <<k[1], k[2]>> /\ k[2] \notin Blank
        BY <2>4, <2>6, <3>1, <4>1
      <4> QED
        BY <2>3, <2>6, <3>1, <4>1, <4>2
    <3>2. CASE l[3] # k[3]
      BY <2>4, <2>5, <2>6, <3>2, RunParts DEF TextNow
    <3> QED
      BY <3>1, <3>2
  <2>7. TextNow'
    BY <2>1, <2>5, <2>6 DEF TextNow
  <2> QED
    BY <2>2, <2>7
<1>4. ASSUME NEW k \in Run, Take(k)
      PROVE  Goal
  <2>1. UNCHANGED <<last, round, pending, sending, heard, lost>> /\ stage[k] = "acted"
    BY <1>4 DEF Take
  <2>2. TextOfTheRound'
    BY <2>1 DEF TextOfTheRound
  <2>3. k[3] \notin Async => k[1] = round
    BY <2>1 DEF RunsNow, Active
  <2>4. \A l \in Run : l # k => took'[l] = took[l] /\ stage'[l] = stage[l]
    BY <1>4 DEF Take, Over
  <2>5. stage'[k] \in {"taken", "over"}
    BY <1>4 DEF Take, Over
  <2>6. stage'[k] = "taken" => last[k[3]] # NoText /\ took'[k] = last[k[3]]
    BY <1>4 DEF Take, Over
  <2>7. TextNow'
    BY <2>1, <2>3, <2>4, <2>5, <2>6 DEF TextNow
  <2> QED
    BY <2>2, <2>7
<1>5. ASSUME NEW k \in Run, Inject(k)
      PROVE  Goal
  <2>1. UNCHANGED <<last, took, round, sending, heard, lost>> /\ stage[k] = "taken"
        /\ pending' = pending \cup {[run |-> k, text |-> took[k]]}
    BY <1>5 DEF Inject
  <2>2. \A l \in Run : stage'[l] \in {"acted", "taken"} => stage'[l] = stage[l]
    BY <1>5 DEF Inject, Over
  <2>3. TextNow'
    BY <2>1, <2>2 DEF TextNow
  <2>4. TextOfTheRound'
    BY <2>1 DEF TextOfTheRound, TextNow
  <2> QED
    BY <2>3, <2>4
<1>6. CASE ToolsDone \/ ReadPending \/ ClearPending \/ TooLong \/ Fail
  BY <1>6, <1>b DEF ToolsDone, ReadPending, ClearPending, TooLong, Fail
<1>7. CASE Answer
  <2>1. \A k \in Run : ~Active(k)
    BY <1>7, NoneActive DEF Answer
  <2> QED
    BY <1>7, <2>1, <1>b DEF Answer
<1>8. CASE UNCHANGED vars
  BY <1>8, <1>b DEF vars
<1> QED
  BY <1>1, <1>2, <1>3, <1>4, <1>5, <1>6, <1>7, <1>8 DEF Next, Step, Loop

-----------------------------------------------------------------------------
(* The injections, from the run that makes them to the request.            *)

\* Every step keeps the injections apart, and those that are lost explained.
LEMMA InjectionStep ==
  /\ EngineInv /\ InjectedIsOver /\ InOnePlace /\ SentNow /\ LostWithRequest /\ [Next]_vars
  => InjectedIsOver' /\ InOnePlace' /\ SentNow' /\ LostWithRequest'
<1> DEFINE Goal == InjectedIsOver' /\ InOnePlace' /\ SentNow' /\ LostWithRequest'
<1> SUFFICES ASSUME EngineInv, InjectedIsOver, InOnePlace, SentNow, LostWithRequest,
                    [Next]_vars
             PROVE  Goal
  OBVIOUS
<1>a. TypeOK /\ TypeOK' /\ round \in Nat /\ round' \in Nat
  BY EngineStep DEF EngineInv, TypeOK, Round
<1>c. \A p \in pending \cup sending \cup heard \cup lost : p.run \in Run
  BY <1>a DEF TypeOK, Prompted
<1>b. ASSUME UNCHANGED <<phase, round, retried, pending, sending, heard, lost>>,
             \A k \in Run : stage[k] = "over" => stage'[k] = "over"
      PROVE  Goal
  <2>1. InjectedIsOver'
    BY <1>b, <1>c DEF InjectedIsOver
  <2>2. InOnePlace' /\ SentNow'
    BY <1>b DEF InOnePlace, SentNow
  <2>3. LostWithRequest'
    BY <1>b DEF LostWithRequest
  <2> QED
    BY <2>1, <2>2, <2>3
<1> USE DEF loop, engine
<1>1. ASSUME NEW c \in Caller, Skip(c) \/ Fire(c)
      PROVE  Goal
  BY <1>1, <1>b, <1>a DEF Skip, Fire, TypeOK
<1>2. ASSUME NEW k \in Run, Mark(k) \/ Execute(k) \/ Render(k) \/ Take(k)
      PROVE  Goal
  BY <1>2, <1>b, <1>a DEF Mark, Execute, Render, Take, Over, Ready, TypeOK
<1>3. ASSUME NEW k \in Run, Inject(k)
      PROVE  Goal
  <2> DEFINE new == [run |-> k, text |-> took[k]]
  <2>1. /\ UNCHANGED <<phase, round, retried, sending, heard, lost>> /\ stage[k] = "taken"
        /\ pending' = pending \cup {new} /\ new.run = k
        /\ stage' = [stage EXCEPT ![k] = "over"]
    BY <1>3 DEF Inject, Over
  <2>2. new \notin heard \cup lost \cup sending
    BY <2>1 DEF InjectedIsOver
  <2>3. k[3] \notin Async => k[1] = round /\ phase \in {"tools", "message"}
    BY <2>1, NoneActive DEF Active, EngineInv, RunsNow
  <2> HIDE DEF new
  <2>4. InjectedIsOver'
    BY <1>a, <1>c, <2>1 DEF InjectedIsOver, TypeOK
  <2>5. InOnePlace'
    BY <2>1, <2>2, <2>3 DEF InOnePlace
  <2>6. SentNow'
    BY <2>1 DEF SentNow
  <2>7. LostWithRequest'
    BY <2>1, <2>2, <2>3 DEF LostWithRequest
  <2> QED
    BY <2>4, <2>5, <2>6, <2>7
<1>4. CASE ToolsDone
  BY <1>4, <1>a DEF ToolsDone, InjectedIsOver, InOnePlace, SentNow, LostWithRequest
<1>5. CASE ReadPending
  BY <1>5, <1>a DEF ReadPending, InjectedIsOver, InOnePlace, SentNow, LostWithRequest
<1>6. CASE ClearPending
  <2>1. InjectedIsOver' /\ InOnePlace' /\ SentNow'
    BY <1>6 DEF ClearPending, InjectedIsOver, InOnePlace, SentNow
  <2>2. \A p \in lost' : p.run[3] \notin Async => p \in lost
    BY <1>6 DEF ClearPending, InOnePlace
  <2>3. LostWithRequest'
    BY <1>6, <2>2 DEF ClearPending, LostWithRequest
  <2> QED
    BY <2>1, <2>3
<1>7. CASE TooLong
  <2>1. InjectedIsOver' /\ InOnePlace' /\ SentNow'
    BY <1>7 DEF TooLong, InjectedIsOver, InOnePlace, SentNow
  <2>2. LostWithRequest'
    BY <1>7, <1>a DEF TooLong, LostWithRequest, SentNow
  <2> QED
    BY <2>1, <2>2
<1>8. CASE Fail
  <2>1. InjectedIsOver' /\ InOnePlace' /\ SentNow'
    BY <1>8 DEF Fail, InjectedIsOver, InOnePlace, SentNow
  <2>2. LostWithRequest'
    BY <1>8, <1>a DEF Fail, LostWithRequest, SentNow
  <2> QED
    BY <2>1, <2>2
<1>9. CASE Answer
  <2>1. InjectedIsOver' /\ InOnePlace' /\ SentNow'
    BY <1>9 DEF Answer, InjectedIsOver, InOnePlace, SentNow
  <2>2. \A p \in lost' : p.run[3] \notin Async =>
          p.run[1] <= round' /\ (p.run[1] = round' => retried' \/ phase' = "ended")
    <3>0. \A p \in lost : p.run[1] \in Round
      BY <1>c, RunParts
    <3>1. \A p \in lost : p.run[1] \in Nat
      BY <3>0 DEF Round
    <3>2. CASE round' = round + 1
      BY <1>9, <1>a, <3>1, <3>2 DEF Answer, LostWithRequest
    <3>3. CASE phase' = "ended" /\ round' = round
      BY <1>9, <3>3 DEF Answer, LostWithRequest
    <3> QED
      BY <1>9, <3>2, <3>3 DEF Answer
  <2>3. heard' \cap (lost' \cup pending' \cup sending') = {}
    BY <1>9 DEF Answer, LostWithRequest, InOnePlace
  <2>4. \A p \in pending' : p.run[3] \in Async
    BY <1>9 DEF Answer, LostWithRequest
  <2>5. LostWithRequest'
    BY <2>2, <2>3, <2>4 DEF LostWithRequest
  <2> QED
    BY <2>1, <2>5
<1>10. CASE UNCHANGED vars
  BY <1>10, <1>b DEF vars
<1> QED
  BY <1>1, <1>2, <1>3, <1>4, <1>5, <1>6, <1>7, <1>8, <1>9, <1>10 DEF Next, Step, Loop

\* The loop begins without texts.
LEMMA InitIInv == Init => IInv
<1> SUFFICES ASSUME Init
             PROVE  IInv
  OBVIOUS
<1>1. EngineInv
  BY EngineInit
<1>2. TextNow /\ TextOfTheRound
  BY DEF Init, TextNow, TextOfTheRound
<1>3. InjectedIsOver /\ InOnePlace /\ SentNow /\ LostWithRequest
  BY DEF Init, InjectedIsOver, InOnePlace, SentNow, LostWithRequest
<1> QED
  BY <1>1, <1>2, <1>3 DEF IInv

\* The invariant is inductive.
LEMMA StepIInv == IInv /\ [Next]_vars => IInv'
BY EngineStep, TextStep, InjectionStep DEF IInv

\* The invariant holds in every reachable state.
LEMMA Invariant == Spec => []IInv
BY InitIInv, StepIInv, PTL DEF Spec

-----------------------------------------------------------------------------
(* What follows for every configuration of hooks.                          *)

\* Type correctness of the engine, the texts and the loop.
THEOREM TypeCorrect == Spec => []TypeOK
<1>1. IInv => TypeOK
  BY DEF IInv, EngineInv
<1> QED
  BY <1>1, Invariant, PTL

\* What the once option of a hook is worth: the check in Dispatch and the mark
\* in executeOne are apart, but within one batch of tool calls only.
THEOREM OncePerBatch == Spec => []OnceInOneBatch
<1>1. IInv => OnceInOneBatch
  BY DEF IInv, EngineInv, CheckedInOneBatch, OnceInOneBatch, Begun
<1> QED
  BY <1>1, Invariant, PTL

\* No injected text is dropped between two answered requests, or sent twice.
THEOREM TextsReachTheModel == Spec => []LostWithRequest
<1>1. IInv => LostWithRequest
  BY DEF IInv
<1> QED
  BY <1>1, Invariant, PTL

\* No injected text is a stale one, although dispatches share the field.
THEOREM TextsAreOfTheRound == Spec => []TextOfTheRound
<1>1. IInv => TextOfTheRound
  BY DEF IInv
<1> QED
  BY <1>1, Invariant, PTL

-----------------------------------------------------------------------------
(* What Hooks leaves open and HookContext computes: whether a hook that    *)
(* compares a field looks at the value it is meant to look at.             *)

\* The figures and the texts that a call's two contexts share.
LEMMA SharedFields ==
  ASSUME NEW tool, NEW input, NEW result, NEW failed, NEW message,
         NEW session, NEW workdir
  PROVE  /\ Rules!NewPostToolUseContext(tool, input, result, failed, message,
                                        session, workdir).input
            = Rules!NewPreToolUseContext(tool, input, session, workdir).input
         /\ \A f \in Rules!TextFields \ Outcome :
              Rules!NewPostToolUseContext(tool, input, result, failed, message,
                                          session, workdir).texts[f]
              = Rules!NewPreToolUseContext(tool, input, session, workdir).texts[f]
         /\ \A f \in Rules!Figures \ Outcome :
              Rules!NewPostToolUseContext(tool, input, result, failed, message,
                                          session, workdir).figures[f]
              = Rules!NewPreToolUseContext(tool, input, session, workdir).figures[f]
BY DEF Rules!NewPostToolUseContext, Rules!NewPreToolUseContext, Rules!Texts,
       Rules!EventContext, Rules!NoContext, Rules!TextFields, Rules!Figures, Outcome

\* A comparison is with a value: whatever the operator, "is not" included, it
\* fails on a field the event does not have, on an empty one and on an argument
\* the call does not have (evaluateLeaf and the four evaluate functions of
\* hook/matcher).
THEOREM LeafNeedsValue ==
  ASSUME NEW leaf, NEW ctx, Rules!EvaluateLeaf(leaf, ctx)
  PROVE  /\ Rules!ResolveField(leaf.field, ctx).found
         /\ Rules!ResolveField(leaf.field, ctx).value # Rules!Empty
BY DEF Rules!EvaluateLeaf, Rules!Compare

\* A hook before a tool call and one after it that compare the same name or the
\* same argument agree: nothing of the call is different once it has run but its
\* outcome (NewPreToolUseContext, NewPostToolUseContext).
THEOREM SameBeforeAndAfter ==
  ASSUME NEW leaf, Rules!IsArgument(leaf.field) \/ leaf.field[1] \notin Outcome,
         NEW tool, NEW input, NEW result, NEW failed, NEW message,
         NEW session, NEW workdir
  PROVE  Rules!EvaluateLeaf(leaf, Rules!NewPreToolUseContext(tool, input, session, workdir))
         <=> Rules!EvaluateLeaf(leaf, Rules!NewPostToolUseContext(
               tool, input, result, failed, message, session, workdir))
<1> DEFINE pre  == Rules!NewPreToolUseContext(tool, input, session, workdir)
           post == Rules!NewPostToolUseContext(tool, input, result, failed, message,
                                               session, workdir)
<1>1. Rules!ResolveField(leaf.field, pre) = Rules!ResolveField(leaf.field, post)
  BY SharedFields DEF Rules!ResolveField
<1> QED
  BY <1>1 DEF Rules!EvaluateLeaf

\* A text that a hook before a call can write, it can write after the call as
\* well: no variable is lost, so one text serves both events (HookContext.Vars).
THEOREM VariablesStay ==
  ASSUME NEW tool, NEW input, NEW result, NEW failed, NEW message,
         NEW session, NEW workdir
  PROVE  Rules!Vars(Rules!NewPreToolUseContext(tool, input, session, workdir))
         \subseteq Rules!Vars(Rules!NewPostToolUseContext(
                     tool, input, result, failed, message, session, workdir))
<1> DEFINE pre  == Rules!NewPreToolUseContext(tool, input, session, workdir)
           post == Rules!NewPostToolUseContext(tool, input, result, failed, message,
                                               session, workdir)
<1>1. ASSUME NEW f \in Rules!TextFields, pre.texts[f] # Rules!Empty
      PROVE  post.texts[f] # Rules!Empty
  <2>1. CASE f \notin Outcome
    BY <1>1, <2>1, SharedFields
  <2>2. CASE f = "event"
    <3>1. post.texts[f] = <<"post_tool_use">>
      BY <2>2 DEF Rules!NewPostToolUseContext, Rules!Texts, Rules!TextFields
    <3> QED
      BY <3>1 DEF Rules!Empty
  <2>3. CASE f \in {"tool_result", "error"}
    <3>1. pre.texts[f] = Rules!Empty
      BY <2>3 DEF Rules!NewPreToolUseContext, Rules!Texts, Rules!EventContext,
                  Rules!NoContext, Rules!TextFields
    <3> QED
      BY <1>1, <3>1
  <2> QED
    BY <2>1, <2>2, <2>3 DEF Outcome, Rules!TextFields
<1>2. \A f \in Rules!Figures \ {"tool_is_error"} : post.figures[f] = pre.figures[f]
  BY DEF Rules!NewPostToolUseContext, Rules!NewPreToolUseContext, Rules!Texts,
         Rules!EventContext, Rules!NoContext, Rules!TextFields, Rules!Figures
<1>3. post.input = pre.input
  BY SharedFields
<1> HIDE DEF pre, post
<1>4. Rules!Vars(pre) \subseteq Rules!Vars(post)
  BY <1>1, <1>2, <1>3 DEF Rules!Vars, Rules!Figures
<1> QED
  BY <1>4 DEF pre, post

(***************************************************************************)
(* What HooksHold says of the cases of a small domain holds of every       *)
(* comparison, whatever a call's arguments and outcome are.                *)
(***************************************************************************)
THEOREM HooksAreSound == HookSpec => []HooksHold
<1>1. HooksHold
  <2> DEFINE pre  == Rules!NewPreToolUseContext("bash", case.input, <<"s">>, <<>>)
             post == Rules!NewPostToolUseContext("bash", case.input, case.result, case.failed,
                                                 <<"boom">>, <<"s">>, <<>>)
  <2>1. Rules!Vars(pre) \subseteq Rules!Vars(post)
    BY VariablesStay
  <2>2. ASSUME Rules!IsArgument(case.leaf.field) \/ case.leaf.field[1] \notin Outcome
        PROVE  Rules!EvaluateLeaf(case.leaf, pre) <=> Rules!EvaluateLeaf(case.leaf, post)
    BY <2>2, SameBeforeAndAfter
  <2>3. \A ctx : Rules!EvaluateLeaf(case.leaf, ctx) =>
                   /\ Rules!ResolveField(case.leaf.field, ctx).found
                   /\ Rules!ResolveField(case.leaf.field, ctx).value # Rules!Empty
    BY LeafNeedsValue
  <2> QED  BY <2>1, <2>2, <2>3, Zenon DEF HooksHold
<1> QED
  BY <1>1, PTL DEF HookSpec

=============================================================================
