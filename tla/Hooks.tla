--------------------------------- MODULE Hooks ---------------------------------
(***************************************************************************)
(* The hook engine (src/src/hook/engine.go) under one agent loop.  A round *)
(* of the loop runs its tool calls in parallel, each dispatching the tool  *)
(* event from its own goroutine; when all are done, it dispatches          *)
(* pre_message and sends the history with the texts that prompt hooks have *)
(* handed to the conversation manager.  Async hooks outlive the round.     *)
(* A step is one section under Engine.mu or promptMu, or one access to the *)
(* text an executor shares between its dispatches.  The hooks are numbered *)
(* in the order of the configuration.                                      *)
(***************************************************************************)
EXTENDS Naturals, FiniteSets

CONSTANTS Call,       \* the tool calls of a round
          Message,    \* the loop itself, dispatching pre_message
          NumHooks,   \* number of configured hooks
          OnTool,     \* hooks of the tool event; the others are of pre_message
          Once, Async, Prompt, \* hooks with that option or that action type
          Blank,      \* callers for which the prompt texts render to blanks
          MaxRounds   \* bound on rounds

ASSUME HooksAssumption ==
  /\ NumHooks \in Nat /\ MaxRounds \in Nat \ {0}
  /\ Message \notin Call /\ Blank \subseteq Call \cup {Message}
  /\ OnTool \subseteq 1 .. NumHooks /\ Once \subseteq 1 .. NumHooks
  /\ Async \subseteq 1 .. NumHooks /\ Prompt \subseteq 1 .. NumHooks

Hook   == 1 .. NumHooks
Round  == 1 .. MaxRounds
Caller == Call \cup {Message}
Run    == Round \X Caller \X Hook   \* what a dispatch makes of one hook
Done   == NumHooks + 1
NoText == <<0, Message>>
Text   == Round \X Caller           \* a rendered text: whose variables it shows
Prompted == [run : Run, text : Text]

VARIABLES
  phase,    \* where the agent loop is
  round,    \* which round it is in
  retried,  \* the request of this round was refused as too long once
  at,       \* at[c]: the hook that c's Dispatch has come to, or Done
  stage,    \* stage[k]: how far run k is
  fired,    \* onceTracker of the session
  last,     \* last[h]: PromptExecutor.last, shared by the runs of hook h
  took,     \* took[k]: the text that run k read from it
  pending,  \* ConversationManager.promptInjections
  sending,  \* the injections in the request being built or answered
  heard,    \* ghost: injections in the requests that were answered
  lost      \* ghost: injections discarded before any request with them was answered

loop   == <<phase, round, retried>>
engine == <<at, stage, fired, last, took>>
vars   == <<loop, engine, pending, sending, heard, lost>>

Listens(c) == IF c = Message THEN Hook \ OnTool ELSE OnTool

\* the hook after h in the list of c's event
Following(c, h) ==
  LET later == {g \in Listens(c) : g > h}
  IN  IF later = {} THEN Done ELSE CHOOSE g \in later : \A f \in later : g <= f

Stages == {"none", "checked", "marked", "acted", "taken", "over"}
Begun(k)  == stage[k] \in {"marked", "acted", "taken", "over"}

Init ==
  /\ phase = "tools" /\ round = 1 /\ retried = FALSE
  /\ at = [c \in Caller |-> IF c = Message THEN Done ELSE Following(c, 0)]
  /\ stage = [k \in Run |-> "none"]
  /\ fired = {}
  /\ last = [h \in Hook |-> NoText]
  /\ took = [k \in Run |-> NoText]
  /\ pending = {} /\ sending = {} /\ heard = {} /\ lost = {}

(***************************************************************************)
(* Dispatch                                                                *)
(***************************************************************************)
Pass(c) == at' = [at EXCEPT ![c] = Following(c, at[c])]

\* Dispatch passes the next hook of c's event over: a once-hook marked
\* before, or a condition that does not hold.
Skip(c) ==
  /\ at[c] \in Hook
  /\ stage[<<round, c, at[c]>>] = "none"
  /\ Pass(c)
  /\ UNCHANGED <<loop, stage, fired, last, took, pending, sending, heard, lost>>

\* ... or fires it: in a goroutine of its own if it is async, and then goes on.
Fire(c) ==
  LET h == at[c] IN
  /\ h \in Hook
  /\ stage[<<round, c, h>>] = "none"
  /\ ~ (h \in Once /\ h \in fired)
  /\ stage' = [stage EXCEPT ![<<round, c, h>>] = "checked"]
  /\ IF h \in Async THEN Pass(c) ELSE UNCHANGED at
  /\ UNCHANGED <<loop, fired, last, took, pending, sending, heard, lost>>

\* Run k ends; Dispatch waits for a run that is not async.
Over(k) ==
  /\ stage' = [stage EXCEPT ![k] = "over"]
  /\ IF k[3] \in Async THEN UNCHANGED at
     ELSE at' = [at EXCEPT ![k[2]] = Following(k[2], k[3])]

\* Mutant: the mark does not reach the tracker of the session.
MarkElsewhere(k) ==
  /\ k[3] \in Once /\ stage[k] = "checked"
  /\ stage' = [stage EXCEPT ![k] = "marked"]
  /\ UNCHANGED <<loop, at, fired, last, took, pending, sending, heard, lost>>

\* executeOne marks a once-hook, before it executes it.
Mark(k) ==
  /\ k[3] \in Once /\ stage[k] = "checked"
  /\ stage' = [stage EXCEPT ![k] = "marked"]
  /\ fired' = fired \cup {k[3]}
  /\ UNCHANGED <<loop, at, last, took, pending, sending, heard, lost>>

Ready(k) == stage[k] = (IF k[3] \in Once THEN "marked" ELSE "checked")

\* A command, http or agent hook returns, with an error, a panic or a timeout
\* as the case may be: dispatching goes on in the same way.
Execute(k) ==
  /\ k[3] \notin Prompt /\ Ready(k)
  /\ Over(k)
  /\ UNCHANGED <<loop, fired, last, took, pending, sending, heard, lost>>

\* Mutant: reuses a text rendered before.
RenderOnce(k) ==
  /\ k[3] \in Prompt /\ Ready(k)
  /\ IF k[2] \in Blank THEN Over(k) /\ UNCHANGED last
     ELSE /\ last' = [last EXCEPT ![k[3]] = IF @ = NoText THEN <<k[1], k[2]>> ELSE @]
          /\ stage' = [stage EXCEPT ![k] = "acted"]
          /\ UNCHANGED at
  /\ UNCHANGED <<loop, fired, took, pending, sending, heard, lost>>

\* A prompt hook renders its text into the field its runs share; a blank text
\* empties the field and is an error.
Render(k) ==
  /\ k[3] \in Prompt /\ Ready(k)
  /\ IF k[2] \in Blank
     THEN last' = [last EXCEPT ![k[3]] = NoText] /\ Over(k)
     ELSE /\ last' = [last EXCEPT ![k[3]] = <<k[1], k[2]>>]
          /\ stage' = [stage EXCEPT ![k] = "acted"]
          /\ UNCHANGED at
  /\ UNCHANGED <<loop, fired, took, pending, sending, heard, lost>>

\* The engine reads the field back: what it finds may be of another run.
Take(k) ==
  /\ stage[k] = "acted"
  /\ IF last[k[3]] = NoText THEN Over(k) /\ UNCHANGED took
     ELSE /\ took' = [took EXCEPT ![k] = last[k[3]]]
          /\ stage' = [stage EXCEPT ![k] = "taken"]
          /\ UNCHANGED at
  /\ UNCHANGED <<loop, fired, last, pending, sending, heard, lost>>

\* AppendToCurrentMessage
Inject(k) ==
  /\ stage[k] = "taken"
  /\ pending' = pending \cup {[run |-> k, text |-> took[k]]}
  /\ Over(k)
  /\ UNCHANGED <<loop, fired, last, took, sending, heard, lost>>

(***************************************************************************)
(* The agent loop                                                          *)
(***************************************************************************)
\* The tool calls of the round are over; the loop dispatches pre_message.
ToolsDone ==
  /\ phase = "tools"
  /\ \A c \in Call : at[c] = Done
  /\ phase' = "message"
  /\ at' = [at EXCEPT ![Message] = Following(Message, 0)]
  /\ UNCHANGED <<round, retried, stage, fired, last, took, pending, sending, heard, lost>>

\* contextForLLM: GetContext reads the injections ...
ReadPending ==
  /\ phase = "message" /\ at[Message] = Done
  /\ sending' = pending
  /\ phase' = "reading"
  /\ UNCHANGED <<round, retried, engine, pending, heard, lost>>

\* Mutant: leaves the injections for the next request as well.
ClearNothing ==
  /\ phase = "reading"
  /\ phase' = "answering"
  /\ UNCHANGED <<round, retried, engine, pending, sending, heard, lost>>

\* ... and a second section clears them, those that came in between included.
ClearPending ==
  /\ phase = "reading"
  /\ pending' = {}
  /\ lost' = lost \cup (pending \ sending)
  /\ phase' = "answering"
  /\ UNCHANGED <<round, retried, engine, sending, heard>>

\* The provider finds the request too long: after an emergency compaction it
\* is built once more, from what is pending now.
TooLong ==
  /\ phase = "answering" /\ ~ retried
  /\ retried' = TRUE
  /\ lost' = lost \cup sending
  /\ sending' = {}
  /\ phase' = "message"
  /\ UNCHANGED <<round, engine, pending, heard>>

\* The provider fails, or for a second time: the loop ends with the error.
Fail ==
  /\ phase = "answering"
  /\ lost' = lost \cup sending
  /\ sending' = {}
  /\ phase' = "ended"
  /\ UNCHANGED <<round, retried, engine, pending, heard>>

\* The model answers: with tool calls, whose round begins, or to the end.
Answer ==
  /\ phase = "answering"
  /\ heard' = heard \cup sending
  /\ sending' = {}
  /\ \/ /\ round < MaxRounds
        /\ phase' = "tools" /\ round' = round + 1 /\ retried' = FALSE
        /\ at' = [c \in Caller |-> IF c = Message THEN Done ELSE Following(c, 0)]
     \/ phase' = "ended" /\ UNCHANGED <<round, retried, at>>
  /\ UNCHANGED <<stage, fired, last, took, pending, lost>>

Step(k) == Mark(k) \/ Execute(k) \/ Render(k) \/ Take(k) \/ Inject(k)
Loop == ToolsDone \/ ReadPending \/ ClearPending \/ TooLong \/ Fail \/ Answer
Next ==
  \/ \E c \in Caller : Skip(c) \/ Fire(c)
  \/ \E k \in Run : Step(k)
  \/ Loop

Spec == Init /\ [][Next]_vars

(***************************************************************************)
(* Properties                                                              *)
(***************************************************************************)
TypeOK ==
  /\ phase \in {"tools", "message", "reading", "answering", "ended"}
  /\ round \in Round /\ retried \in BOOLEAN
  /\ at \in [Caller -> Hook \cup {Done}]
  /\ stage \in [Run -> Stages]
  /\ fired \subseteq Once
  /\ last \in [Hook -> Text \cup {NoText}]
  /\ took \in [Run -> Text \cup {NoText}]
  /\ pending \subseteq Prompted /\ sending \subseteq Prompted
  /\ heard \subseteq Prompted /\ lost \subseteq Prompted

\* Of the mark that executeOne sets before Execute this much holds: a once-hook
\* that is not async runs again only for parallel calls of the same round, which
\* may both have found it unmarked, and never again for pre_message.
OnceInOneBatch ==
  \A k, l \in Run :
    k[3] = l[3] /\ k[3] \in Once \ Async /\ Begun(k) /\ Begun(l)
      => k[1] = l[1] /\ (k[2] = Message => k = l)

\* A text that a hook other than an async one has injected is in the next
\* request, and lost only with a request that the provider refused or failed:
\* in no answered request is it repeated, and between none is it dropped.
LostWithRequest ==
  /\ \A p \in lost : p.run[3] \notin Async =>
       p.run[1] <= round /\ (p.run[1] = round => retried \/ phase = "ended")
  /\ heard \cap (lost \cup pending \cup sending) = {}
  /\ \A p \in pending : p.run[3] \notin Async =>
       p.run[1] = round /\ phase \in {"tools", "message", "reading"}

\* The text a hook injects is one that its runs of the same round rendered,
\* although the field it passes through is shared: never a stale one.
TextOfTheRound ==
  \A p \in pending \cup sending \cup heard \cup lost :
    p.run[3] \notin Async => p.text[1] = p.run[1] /\ p.text[2] \in Caller \ Blank

================================================================================
