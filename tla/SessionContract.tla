---------------------------- MODULE SessionContract ----------------------------
(***************************************************************************)
(* What the session of an MCP server is to the calls that use it and to    *)
(* whoever closes it, whatever transports, readers and channels there are. *)
(* A call is admitted while the session is healthy; otherwise one call at  *)
(* a time mends it, and heals it only once the server has answered its     *)
(* handshake.  An admitted call sends its request once, unless the session *)
(* was closed meanwhile, and is told at most once: the answer to its own   *)
(* request, or an error.  McpSession implements it.                        *)
(***************************************************************************)
EXTENDS Naturals

CONSTANTS Call, None, MaxAttempts

VARIABLES
  stage,   \* of Close: open, closing or closed
  health,
  mender,  \* the call that reconnects
  hello,   \* the handshake of the mender: no, asked or answered
  tries,   \* attempts of the mender that have failed
  phase,   \* phase[c]: where call c is
  told,    \* told[c]: what c has been told of its request and not returned yet
  held,    \* requests the server has and has not answered
  ended    \* ended[c]: the context of c has ended

vars == <<stage, health, mender, hello, tries, phase, told, held, ended>>

Session == <<stage, health>>
Mending == <<mender, hello, tries>>
Set(f, x, v) == [f EXCEPT ![x] = v]

Init ==
  /\ stage = "open" /\ health = "healthy"
  /\ mender = None /\ hello = "no" /\ tries = 0
  /\ phase = [c \in Call |-> "idle"] /\ told = [c \in Call |-> "no"]
  /\ held = {} /\ ended = [c \in Call |-> FALSE]

Moves(c, to) == phase' = Set(phase, c, to) /\ UNCHANGED <<told, held, ended>>

-----------------------------------------------------------------------------
(* Admission.                                                              *)

Enter(c) ==
  /\ phase[c] = "idle"
  /\ \/ stage = "open" /\ health = "healthy" /\ Moves(c, "admitted")
     \/ stage = "open" /\ health = "reconnecting" /\ Moves(c, "queueing")
     \/ (stage # "open" \/ health = "unhealthy") /\ Moves(c, "returned")
  /\ UNCHANGED <<Session, Mending>>

Mend(c) ==
  /\ phase[c] = "queueing" /\ mender = None /\ health = "reconnecting"
  /\ mender' = c
  /\ UNCHANGED <<Session, hello, tries, phase, told, held, ended>>

\* The turn of a call that waited comes when another has mended the session,
\* or given it up.
Follow(c) ==
  /\ phase[c] = "queueing" /\ mender = None
  /\ \/ health = "healthy" /\ Moves(c, "admitted")
     \/ health = "unhealthy" /\ Moves(c, "returned")
  /\ UNCHANGED <<Session, Mending>>

-----------------------------------------------------------------------------
(* A request.                                                              *)

Unheard == {c \in Call : phase[c] \in {"sending", "asking"} /\ told[c] = "no"}
Tell(cs, what) == told' = [c \in Call |-> IF c \in cs THEN what ELSE told[c]]

Ask(c) ==
  /\ phase[c] = "admitted"
  /\ Moves(c, IF stage = "open" THEN "sending" ELSE "returned")
  /\ UNCHANGED <<Session, Mending>>

\* The server gets the request, once, or it is lost on the way.
Send(c) ==
  /\ phase[c] = "sending" /\ phase' = Set(phase, c, "asking")
  /\ held' \in {held, held \union {c}}
  /\ UNCHANGED <<Session, Mending, told, ended>>

Returns(c) ==
  /\ phase' = Set(phase, c, "returned") /\ told' = Set(told, c, "no")
  /\ UNCHANGED <<Session, Mending, held, ended>>

SendFails(c) == phase[c] = "sending" /\ Returns(c)

Return(c) == phase[c] = "asking" /\ (told[c] # "no" \/ ended[c]) /\ Returns(c)

\* An answer that nobody waits for any more is dropped.
Answer(c) ==
  /\ c \in held /\ held' = held \ {c}
  /\ Tell({c} \intersect Unheard, "answer")
  /\ UNCHANGED <<Session, Mending, phase, ended>>

Fail == Tell(Unheard, "error") /\ UNCHANGED <<Session, Mending, phase, held, ended>>

ContextEnds(c) ==
  /\ phase[c] # "idle"
  /\ ended' = Set(ended, c, TRUE)
  /\ UNCHANGED <<Session, Mending, phase, told, held>>

-----------------------------------------------------------------------------
(* Mending and Close.                                                      *)

Break ==
  /\ stage = "open" /\ health = "healthy" /\ health' = "reconnecting"
  /\ UNCHANGED <<stage, Mending, phase, told, held, ended>>

\* Who starts to mend hangs up; the calls that wait hear nothing of it.
Forget ==
  /\ mender # None /\ hello = "no"
  /\ Tell(Unheard, "forgotten") /\ held' \in SUBSET held
  /\ UNCHANGED <<Session, Mending, phase, ended>>

\* The handshake is sent, answered, or lost, refused or too late.
Greet ==
  /\ mender # None
  /\ \/ hello = "no" /\ hello' = "asked"
     \/ hello = "asked" /\ hello' = "answered"
     \/ hello # "no" /\ hello' = "no"
  /\ UNCHANGED <<Session, mender, tries, phase, told, held, ended>>

Retry ==
  /\ mender # None /\ hello = "no" /\ tries + 1 < MaxAttempts
  /\ tries' = tries + 1
  /\ UNCHANGED <<Session, mender, hello, phase, told, held, ended>>

Leaves(c, to) ==
  /\ mender = c /\ mender' = None /\ hello' = "no" /\ tries' = 0
  /\ Moves(c, to)
  /\ UNCHANGED stage

Heal(c) == hello = "answered" /\ health' = "healthy" /\ Leaves(c, "admitted")

\* After the last attempt, or when the context of the mender ends.
GiveUp(c) ==
  /\ hello = "no" /\ (tries + 1 = MaxAttempts \/ ended[c])
  /\ health' = "unhealthy" /\ Leaves(c, "returned")

Close ==
  /\ stage = "open" /\ stage' = "closing"
  /\ UNCHANGED <<health, Mending, phase, told, held, ended>>

HangUp ==
  /\ stage = "closing"
  /\ held' \in SUBSET held /\ hello' = IF hello = "asked" THEN "no" ELSE hello
  /\ UNCHANGED <<Session, mender, tries, phase, told, ended>>

\* Close returns only when every call has been told, or was forgotten.
Closed ==
  /\ stage = "closing" /\ Unheard = {} /\ stage' = "closed"
  /\ UNCHANGED <<health, Mending, phase, told, held, ended>>

-----------------------------------------------------------------------------
Next ==
  \/ \E c \in Call :
       \/ Enter(c) \/ Mend(c) \/ Follow(c)
       \/ Ask(c) \/ Send(c) \/ SendFails(c) \/ Return(c) \/ Answer(c) \/ ContextEnds(c)
       \/ Heal(c) \/ GiveUp(c)
  \/ Fail \/ Break \/ Forget \/ Greet \/ Retry \/ Close \/ HangUp \/ Closed

Spec == Init /\ [][Next]_vars

=============================================================================
