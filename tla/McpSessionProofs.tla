--------------------------- MODULE McpSessionProofs ---------------------------
(***************************************************************************)
(* Proofs about McpSession, for any calls, attempts and transports.        *)
(***************************************************************************)
EXTENDS McpSession, Integers, Sequences, FiniteSets, FiniteSetTheorems, TLAPS

\* The request with id i is under way: a call's, or the handshake of the
\* transport in use.
Under(i) ==
  \/ i \in Call /\ call[i] \in {"registered", "waiting"}
  \/ i = cur /\ lock # None /\ call[lock] \in {"greetSend", "greetWait"}

\* Who rebuilds holds the lock, and the session is reconnecting meanwhile.
Locked ==
  /\ \A c \in Call : call[c] \in Rebuilding => lock = c /\ health = "reconnecting"
  /\ lock # None => call[lock] \in Rebuilding

\* Only requests under way are in the map or have a signal, and never both.
Tidy ==
  \A i \in Id :
    /\ i \in pending \/ signal[i] # {} => Under(i)
    /\ i \in pending => signal[i] = {}
    /\ signal[i] # {"resp", "err"}

\* A call that has registered can be told, has been told or was forgotten.
Told ==
  \A c \in Call :
    call[c] \in {"registered", "waiting"} =>
      c \in pending \/ signal[c] # {} \/ c \in forgotten

Closing ==
  /\ closer # "idle" => closed
  /\ closer \in {"joining", "over"} => pending = {}

\* Each handshake is asked on its own transport, and from its answer on the
\* reader is with the transport in use.
Reading ==
  /\ \A n \in Wire : \A i \in asked[n] : i \in Wire => i = n
  /\ \/ health = "healthy"
     \/ "resp" \in signal[cur]
     \/ lock # None /\ call[lock] = "greeted"
     => (reader = "recv" => readerOn = cur)

IInv == TypeOK /\ Locked /\ Tidy /\ Told /\ Closing /\ Reading

-----------------------------------------------------------------------------
LEMMA InvariantInit == Init => IInv
<1> SUFFICES ASSUME Init
             PROVE  IInv
  OBVIOUS
<1> USE SessionAssumption DEF Init, Id, Wire, Places, Rebuilding, Requesting
<1>1. TypeOK
  <2>1. attempt \in 0 .. MaxAttempts - 1 /\ 1 \in Wire
    OBVIOUS
  <2>2. /\ wire \in [Wire -> {"new", "up", "dead", "closed"}]
        /\ asked \in [Wire -> SUBSET Id] /\ signal \in [Id -> SUBSET {"resp", "err"}]
        /\ call \in [Call -> Places] /\ ended \in [Call -> BOOLEAN]
    OBVIOUS
  <2> QED
    BY <2>1, <2>2 DEF TypeOK
<1>2. Locked /\ Told /\ Closing
  BY DEF Locked, Told, Closing
<1>3. Tidy
  BY DEF Tidy
<1>4. Reading
  BY DEF Reading
<1> QED
  BY <1>1, <1>2, <1>3, <1>4 DEF IInv

\* Whoever fails all pending calls, the reader or Close, leaves them told.
LEMMA FailingTells ==
  ASSUME TypeOK, Tidy, Told, FailAllPending, UNCHANGED <<call, cur, lock>>
  PROVE  Tidy' /\ Told'
<1> USE DEF TypeOK, FailAllPending
<1>1. ASSUME NEW i \in Id
      PROVE  signal'[i] = IF i \in pending THEN {"err"} ELSE signal[i]
  <2>1. CASE i \in pending
    <3>1. signal[i] = {}
      BY <2>1 DEF Tidy
    <3> QED
      BY <2>1, <3>1
  <2>2. CASE i \notin pending
    BY <2>2
  <2> QED
    BY <2>1, <2>2
<1>2. ASSUME NEW i \in Id
      PROVE  Under(i) <=> Under(i)'
  BY DEF Under
<1>3. Tidy'
  <2> SUFFICES ASSUME NEW i \in Id
               PROVE  /\ signal'[i] # {} => Under(i)'
                      /\ signal'[i] # {"resp", "err"}
    BY DEF Tidy
  <2>1. (i \in pending \/ signal[i] # {} => Under(i)) /\ signal[i] # {"resp", "err"}
    BY DEF Tidy
  <2>2. {"err"} # {"resp", "err"}
    OBVIOUS
  <2> QED
    BY <2>1, <2>2, <1>1, <1>2
<1>4. Told'
  <2> SUFFICES ASSUME NEW c \in Call, call[c] \in {"registered", "waiting"}
               PROVE  signal'[c] # {} \/ c \in forgotten
    BY DEF Told
  <2>1. c \in pending \/ signal[c] # {} \/ c \in forgotten
    BY DEF Told
  <2>2. c \in Id
    BY DEF Id
  <2> QED
    BY <2>1, <2>2, <1>1
<1> QED
  BY <1>3, <1>4

\* What the reader delivers is the only signal of its call.
LEMMA DeliveryTells ==
  ASSUME TypeOK, Tidy, Told, NEW i \in Id, ReaderGets(i)
  PROVE  Tidy' /\ Told'
<1> USE DEF TypeOK, ReaderGets, Network, Pending, Reconnect
<1>1. ASSUME NEW j \in Id
      PROVE  Under(j) <=> Under(j)'
  BY DEF Under
<1>2. CASE i \notin pending
  BY <1>1, <1>2 DEF Tidy, Told
<1>3. CASE i \in pending
  <2>1. pending' = pending \ {i} /\ forgotten' = forgotten /\ call' = call
    BY <1>3 DEF Remains
  <2>2. signal[i] = {} /\ Under(i)
    BY <1>3 DEF Tidy
  <2>3. ASSUME NEW j \in Id
        PROVE  signal'[j] = IF j = i THEN {"resp"} ELSE signal[j]
    BY <1>3, <2>2 DEF Set
  <2>4. {"resp"} # {"resp", "err"} /\ {"resp"} # {}
    OBVIOUS
  <2>5. Tidy'
    BY <2>1, <2>2, <2>3, <2>4, <1>1 DEF Tidy
  <2>6. Told'
    BY <2>1, <2>3, <2>4 DEF Told, Id
  <2> QED
    BY <2>5, <2>6
<1> QED
  BY <1>2, <1>3

\* Each action, on its own variables: the types, then each part.
LEMMA InvariantStep == IInv /\ [Next]_vars => IInv'
<1> SUFFICES ASSUME IInv, [Next]_vars
             PROVE  IInv'
  OBVIOUS
<1> USE SessionAssumption
    DEF IInv, TypeOK, Set, Id, Wire, Places, Rebuilding, Requesting
<1>1. ASSUME ReaderTop
      PROVE  IInv'
  <2>1. TypeOK'
    BY <1>1 DEF ReaderTop, ReaderCancelled, FailAllPending, Network, Pending, Reader, Reconnect
  <2>2. Locked'
    BY <1>1 DEF ReaderTop, ReaderCancelled, FailAllPending, Network, Pending, Reader, Reconnect, Locked
  <2>3. Tidy' /\ Told'
    <3>1. CASE ReaderCancelled
      BY <1>1, <3>1, FailingTells DEF ReaderTop, Network, Reconnect
    <3>2. CASE ~ReaderCancelled
      BY <1>1, <3>2 DEF ReaderTop, Network, Pending, Reconnect, Tidy, Told, Under
    <3> QED
      BY <3>1, <3>2
  <2>5. Closing'
    BY <1>1 DEF ReaderTop, ReaderCancelled, FailAllPending, Network, Pending, Reader, Reconnect, Closing
  <2>6. Reading'
    BY <1>1 DEF ReaderTop, ReaderCancelled, FailAllPending, Network, Pending, Reader, Reconnect, Reading, Tidy, Under, Locked
  <2> QED
    BY <2>1, <2>2, <2>3, <2>5, <2>6
<1>2. ASSUME NEW i \in Id, ReaderGets(i)
      PROVE  IInv'
  <2>1. TypeOK'
    BY <1>2 DEF ReaderGets, Remains, Network, Pending, Reader, Reconnect
  <2>2. Locked'
    BY <1>2 DEF ReaderGets, Remains, Network, Pending, Reader, Reconnect, Locked
  <2>3. Tidy' /\ Told'
    BY <1>2, DeliveryTells
  <2>5. Closing'
    BY <1>2 DEF ReaderGets, Remains, Network, Pending, Reader, Reconnect, Closing
  <2>6. Reading'
    BY <1>2 DEF ReaderGets, Remains, Network, Pending, Reader, Reconnect, Reading, Tidy, Under, Locked
  <2> QED
    BY <2>1, <2>2, <2>3, <2>5, <2>6
<1>3. ASSUME ReaderFails
      PROVE  IInv'
  <2>1. TypeOK'
    BY <1>3 DEF ReaderFails, FailAllPending, Network, Pending, Reader, Reconnect
  <2>2. Locked'
    BY <1>3 DEF ReaderFails, FailAllPending, Network, Pending, Reader, Reconnect, Locked
  <2>3. Tidy' /\ Told'
    BY <1>3, FailingTells DEF ReaderFails, Network, Reconnect
  <2>5. Closing'
    BY <1>3 DEF ReaderFails, FailAllPending, Network, Pending, Reader, Reconnect, Closing
  <2>6. Reading'
    BY <1>3 DEF ReaderFails, FailAllPending, Network, Pending, Reader, Reconnect, Reading, Tidy, Under, Locked
  <2> QED
    BY <2>1, <2>2, <2>3, <2>5, <2>6
<1>4. ASSUME MarkReconnecting
      PROVE  IInv'
  <2>1. TypeOK'
    BY <1>4 DEF MarkReconnecting, Marked, Network, Pending, Reader, Reconnect
  <2>2. Locked'
    BY <1>4 DEF MarkReconnecting, Marked, Network, Pending, Reader, Reconnect, Locked
  <2>3. Tidy'
    BY <1>4 DEF MarkReconnecting, Marked, Network, Pending, Reader, Reconnect, Tidy, Under, Locked
  <2>4. Told'
    BY <1>4 DEF MarkReconnecting, Marked, Network, Pending, Reader, Reconnect, Told, Tidy, Under, Locked
  <2>5. Closing'
    BY <1>4 DEF MarkReconnecting, Marked, Network, Pending, Reader, Reconnect, Closing
  <2>6. Reading'
    BY <1>4 DEF MarkReconnecting, Marked, Network, Pending, Reader, Reconnect, Reading, Tidy, Under, Locked
  <2> QED
    BY <2>1, <2>2, <2>3, <2>4, <2>5, <2>6
<1>5. ASSUME ReaderExits
      PROVE  IInv'
  <2>1. TypeOK'
    BY <1>5 DEF ReaderExits, Network, Pending, Reader, Reconnect
  <2>2. Locked'
    BY <1>5 DEF ReaderExits, Network, Pending, Reader, Reconnect, Locked
  <2>3. Tidy'
    BY <1>5 DEF ReaderExits, Network, Pending, Reader, Reconnect, Tidy, Under, Locked
  <2>4. Told'
    BY <1>5 DEF ReaderExits, Network, Pending, Reader, Reconnect, Told, Tidy, Under, Locked
  <2>5. Closing'
    BY <1>5 DEF ReaderExits, Network, Pending, Reader, Reconnect, Closing
  <2>6. Reading'
    BY <1>5 DEF ReaderExits, Network, Pending, Reader, Reconnect, Reading, Tidy, Under, Locked
  <2> QED
    BY <2>1, <2>2, <2>3, <2>4, <2>5, <2>6
<1>6. ASSUME NEW c \in Call, Begin(c)
      PROVE  IInv'
  <2>1. TypeOK'
    BY <1>6 DEF Begin, Network, Pending, Reader, Reconnect
  <2>2. Locked'
    BY <1>6 DEF Begin, Network, Pending, Reader, Reconnect, Locked
  <2>3. Tidy'
    BY <1>6 DEF Begin, Network, Pending, Reader, Reconnect, Tidy, Under, Locked
  <2>4. Told'
    BY <1>6 DEF Begin, Network, Pending, Reader, Reconnect, Told, Tidy, Under, Locked
  <2>5. Closing'
    BY <1>6 DEF Begin, Network, Pending, Reader, Reconnect, Closing
  <2>6. Reading'
    BY <1>6 DEF Begin, Network, Pending, Reader, Reconnect, Reading, Tidy, Under, Locked
  <2> QED
    BY <2>1, <2>2, <2>3, <2>4, <2>5, <2>6
<1>7. ASSUME NEW c \in Call, Lock(c)
      PROVE  IInv'
  <2>1. TypeOK'
    BY <1>7 DEF Lock, Network, Pending, Reader, Reconnect
  <2>2. Locked'
    BY <1>7 DEF Lock, Network, Pending, Reader, Reconnect, Locked
  <2>3. Tidy'
    BY <1>7 DEF Lock, Network, Pending, Reader, Reconnect, Tidy, Under, Locked
  <2>4. Told'
    BY <1>7 DEF Lock, Network, Pending, Reader, Reconnect, Told, Tidy, Under, Locked
  <2>5. Closing'
    BY <1>7 DEF Lock, Network, Pending, Reader, Reconnect, Closing
  <2>6. Reading'
    BY <1>7 DEF Lock, Network, Pending, Reader, Reconnect, Reading, Tidy, Under, Locked
  <2> QED
    BY <2>1, <2>2, <2>3, <2>4, <2>5, <2>6
<1>8. ASSUME NEW c \in Call, CloseOld(c)
      PROVE  IInv'
  <2>1. TypeOK'
    BY <1>8 DEF CloseOld, CloseCurrent, Network, Pending, Reader, Reconnect
  <2>2. Locked'
    BY <1>8 DEF CloseOld, CloseCurrent, Network, Pending, Reader, Reconnect, Locked
  <2>3. Tidy'
    BY <1>8 DEF CloseOld, CloseCurrent, Network, Pending, Reader, Reconnect, Tidy, Under, Locked
  <2>4. Told'
    BY <1>8 DEF CloseOld, CloseCurrent, Network, Pending, Reader, Reconnect, Told, Tidy, Under, Locked
  <2>5. Closing'
    BY <1>8 DEF CloseOld, CloseCurrent, Network, Pending, Reader, Reconnect, Closing
  <2>6. Reading'
    BY <1>8 DEF CloseOld, CloseCurrent, Network, Pending, Reader, Reconnect, Reading, Tidy, Under, Locked
  <2> QED
    BY <2>1, <2>2, <2>3, <2>4, <2>5, <2>6
<1>9. ASSUME NEW c \in Call, NEW n \in Wire, Build(c, n)
      PROVE  IInv'
  <2>1. TypeOK'
    BY <1>9 DEF Build, Fresh, Network, Pending, Reader, Reconnect
  <2>2. Locked'
    BY <1>9 DEF Build, Fresh, Network, Pending, Reader, Reconnect, Locked
  <2>3. Tidy'
    BY <1>9 DEF Build, Fresh, Network, Pending, Reader, Reconnect, Tidy, Under, Locked
  <2>4. Told'
    BY <1>9 DEF Build, Fresh, Network, Pending, Reader, Reconnect, Told, Tidy, Under, Locked
  <2>5. Closing'
    BY <1>9 DEF Build, Fresh, Network, Pending, Reader, Reconnect, Closing
  <2>6. Reading'
    <3>1. lock = c /\ health = "reconnecting" /\ call[c] = "building" /\ c # n
      BY <1>9 DEF Build, Locked
    <3>2. signal[n] = {}
      BY <1>9, <3>1 DEF Tidy, Under
    <3> QED
      BY <1>9, <3>1, <3>2 DEF Build, Reading, Pending, Reconnect
  <2> QED
    BY <2>1, <2>2, <2>3, <2>4, <2>5, <2>6
<1>10. ASSUME NEW c \in Call, BuildFails(c)
      PROVE  IInv'
  <2>1. TypeOK'
    BY <1>10 DEF BuildFails, Network, Pending, Reader, Reconnect
  <2>2. Locked'
    BY <1>10 DEF BuildFails, Network, Pending, Reader, Reconnect, Locked
  <2>3. Tidy'
    BY <1>10 DEF BuildFails, Network, Pending, Reader, Reconnect, Tidy, Under, Locked
  <2>4. Told'
    BY <1>10 DEF BuildFails, Network, Pending, Reader, Reconnect, Told, Tidy, Under, Locked
  <2>5. Closing'
    BY <1>10 DEF BuildFails, Network, Pending, Reader, Reconnect, Closing
  <2>6. Reading'
    BY <1>10 DEF BuildFails, Network, Pending, Reader, Reconnect, Reading, Tidy, Under, Locked
  <2> QED
    BY <2>1, <2>2, <2>3, <2>4, <2>5, <2>6
<1>11. ASSUME NEW c \in Call, Start(c)
      PROVE  IInv'
  <2>1. TypeOK'
    BY <1>11 DEF Start, Network, Pending, Reader, Reconnect
  <2>2. Locked'
    BY <1>11 DEF Start, Network, Pending, Reader, Reconnect, Locked
  <2>3. Tidy'
    BY <1>11 DEF Start, Network, Pending, Reader, Reconnect, Tidy, Under, Locked
  <2>4. Told'
    BY <1>11 DEF Start, Network, Pending, Reader, Reconnect, Told, Tidy, Under, Locked
  <2>5. Closing'
    BY <1>11 DEF Start, Network, Pending, Reader, Reconnect, Closing
  <2>6. Reading'
    BY <1>11 DEF Start, Network, Pending, Reader, Reconnect, Reading, Tidy, Under, Locked
  <2> QED
    BY <2>1, <2>2, <2>3, <2>4, <2>5, <2>6
<1>12. ASSUME NEW c \in Call, call[c] = "greeting",
             Registers(c, Greeting(cur), "greetSend", "backoff")
      PROVE  IInv'
  <2>1. TypeOK'
    BY <1>12 DEF Registers, Greeting, Network, Pending, Reader, Reconnect
  <2>2. Locked'
    BY <1>12 DEF Registers, Greeting, Network, Pending, Reader, Reconnect, Locked
  <2>3. Tidy'
    BY <1>12 DEF Registers, Greeting, Network, Pending, Reader, Reconnect, Tidy, Under, Locked
  <2>4. Told'
    BY <1>12 DEF Registers, Greeting, Network, Pending, Reader, Reconnect, Told, Tidy, Under, Locked
  <2>5. Closing'
    BY <1>12 DEF Registers, Greeting, Network, Pending, Reader, Reconnect, Closing
  <2>6. Reading'
    BY <1>12 DEF Registers, Greeting, Network, Pending, Reader, Reconnect, Reading, Tidy, Under, Locked
  <2> QED
    BY <2>1, <2>2, <2>3, <2>4, <2>5, <2>6
<1>13. ASSUME NEW c \in Call, call[c] = "greetSend",
             Sends(c, Greeting(cur), "greetWait", "backoff")
      PROVE  IInv'
  <2>1. TypeOK'
    BY <1>13 DEF Sends, Leaves, Greeting, Network, Pending, Reader, Reconnect
  <2>2. Locked'
    BY <1>13 DEF Sends, Leaves, Greeting, Network, Pending, Reader, Reconnect, Locked
  <2>3. Tidy'
    BY <1>13 DEF Sends, Leaves, Greeting, Network, Pending, Reader, Reconnect, Tidy, Under, Locked
  <2>4. Told'
    BY <1>13 DEF Sends, Leaves, Greeting, Network, Pending, Reader, Reconnect, Told, Tidy, Under, Locked
  <2>5. Closing'
    BY <1>13 DEF Sends, Leaves, Greeting, Network, Pending, Reader, Reconnect, Closing
  <2>6. Reading'
    <3>1. lock = c /\ lock' = c /\ health' = "reconnecting" /\ c \notin Wire
      BY <1>13 DEF Sends, Locked, Reconnect
    <3>2. call'[c] # "greeted" /\ (\/ pending' = pending /\ signal' = signal
                                  \/ signal' = Set(signal, cur, {}))
      BY <1>13 DEF Sends, Leaves, Greeting, Pending
    <3>3. \A n \in Wire : \A i \in asked'[n] : i \in Wire => i = n
      BY <1>13 DEF Sends, Greeting, Reading
    <3> QED
      BY <1>13, <3>1, <3>2, <3>3 DEF Sends, Reading, Reader
  <2> QED
    BY <2>1, <2>2, <2>3, <2>4, <2>5, <2>6
<1>14. ASSUME NEW c \in Call, call[c] = "greetWait", "resp" \in signal[Greeting(cur)],
             Returns(c, Greeting(cur), "greeted")
      PROVE  IInv'
  <2>1. TypeOK'
    BY <1>14 DEF Returns, Leaves, Greeting, Network, Pending, Reader, Reconnect
  <2>2. Locked'
    BY <1>14 DEF Returns, Leaves, Greeting, Network, Pending, Reader, Reconnect, Locked
  <2>3. Tidy'
    BY <1>14 DEF Returns, Leaves, Greeting, Network, Pending, Reader, Reconnect, Tidy, Under, Locked
  <2>4. Told'
    BY <1>14 DEF Returns, Leaves, Greeting, Network, Pending, Reader, Reconnect, Told, Tidy, Under, Locked
  <2>5. Closing'
    BY <1>14 DEF Returns, Leaves, Greeting, Network, Pending, Reader, Reconnect, Closing
  <2>6. Reading'
    BY <1>14 DEF Returns, Leaves, Greeting, Network, Pending, Reader, Reconnect, Reading, Tidy, Under, Locked
  <2> QED
    BY <2>1, <2>2, <2>3, <2>4, <2>5, <2>6
<1>15. ASSUME NEW c \in Call, GreetFails(c)
      PROVE  IInv'
  <2>1. TypeOK'
    BY <1>15 DEF GreetFails, Returns, Leaves, Greeting, Network, Pending, Reader, Reconnect
  <2>2. Locked'
    BY <1>15 DEF GreetFails, Returns, Leaves, Greeting, Network, Pending, Reader, Reconnect, Locked
  <2>3. Tidy'
    BY <1>15 DEF GreetFails, Returns, Leaves, Greeting, Network, Pending, Reader, Reconnect, Tidy, Under, Locked
  <2>4. Told'
    BY <1>15 DEF GreetFails, Returns, Leaves, Greeting, Network, Pending, Reader, Reconnect, Told, Tidy, Under, Locked
  <2>5. Closing'
    BY <1>15 DEF GreetFails, Returns, Leaves, Greeting, Network, Pending, Reader, Reconnect, Closing
  <2>6. Reading'
    BY <1>15 DEF GreetFails, Returns, Leaves, Greeting, Network, Pending, Reader, Reconnect, Reading, Tidy, Under, Locked
  <2> QED
    BY <2>1, <2>2, <2>3, <2>4, <2>5, <2>6
<1>16. ASSUME NEW c \in Call, Reconnected(c)
      PROVE  IInv'
  <2>1. TypeOK'
    BY <1>16 DEF Reconnected, Unlock, Network, Pending, Reader, Reconnect
  <2>2. Locked'
    BY <1>16 DEF Reconnected, Unlock, Network, Pending, Reader, Reconnect, Locked
  <2>3. Tidy'
    BY <1>16 DEF Reconnected, Unlock, Network, Pending, Reader, Reconnect, Tidy, Under, Locked
  <2>4. Told'
    BY <1>16 DEF Reconnected, Unlock, Network, Pending, Reader, Reconnect, Told, Tidy, Under, Locked
  <2>5. Closing'
    BY <1>16 DEF Reconnected, Unlock, Network, Pending, Reader, Reconnect, Closing
  <2>6. Reading'
    BY <1>16 DEF Reconnected, Unlock, Network, Pending, Reader, Reconnect, Reading, Tidy, Under, Locked
  <2> QED
    BY <2>1, <2>2, <2>3, <2>4, <2>5, <2>6
<1>17. ASSUME NEW c \in Call, Retry(c)
      PROVE  IInv'
  <2>1. TypeOK'
    BY <1>17 DEF Retry, Network, Pending, Reader, Reconnect
  <2>2. Locked'
    BY <1>17 DEF Retry, Network, Pending, Reader, Reconnect, Locked
  <2>3. Tidy'
    BY <1>17 DEF Retry, Network, Pending, Reader, Reconnect, Tidy, Under, Locked
  <2>4. Told'
    BY <1>17 DEF Retry, Network, Pending, Reader, Reconnect, Told, Tidy, Under, Locked
  <2>5. Closing'
    BY <1>17 DEF Retry, Network, Pending, Reader, Reconnect, Closing
  <2>6. Reading'
    BY <1>17 DEF Retry, Network, Pending, Reader, Reconnect, Reading, Tidy, Under, Locked
  <2> QED
    BY <2>1, <2>2, <2>3, <2>4, <2>5, <2>6
<1>18. ASSUME NEW c \in Call, Exhausted(c) \/ BackoffCut(c)
      PROVE  IInv'
  <2>1. TypeOK'
    <3>1. GivesUpServer(c)
      BY <1>18 DEF Exhausted, BackoffCut
    <3> QED
      BY <3>1 DEF GivesUpServer, Unlock, Network, Pending, Reader
  <2>2. Locked'
    BY <1>18 DEF Exhausted, BackoffCut, GivesUpServer, Unlock, Network, Pending, Reader, Reconnect, Locked
  <2>3. Tidy'
    BY <1>18 DEF Exhausted, BackoffCut, GivesUpServer, Unlock, Network, Pending, Reader, Reconnect, Tidy, Under, Locked
  <2>4. Told'
    BY <1>18 DEF Exhausted, BackoffCut, GivesUpServer, Unlock, Network, Pending, Reader, Reconnect, Told, Tidy, Under, Locked
  <2>5. Closing'
    BY <1>18 DEF Exhausted, BackoffCut, GivesUpServer, Unlock, Network, Pending, Reader, Reconnect, Closing
  <2>6. Reading'
    BY <1>18 DEF Exhausted, BackoffCut, GivesUpServer, Unlock, Network, Pending, Reader, Reconnect, Reading, Tidy, Under, Locked
  <2> QED
    BY <2>1, <2>2, <2>3, <2>4, <2>5, <2>6
<1>19. ASSUME NEW c \in Call, call[c] = "ensured", Registers(c, c, "registered", "returned")
      PROVE  IInv'
  <2>1. TypeOK'
    BY <1>19 DEF Registers, Network, Pending, Reader, Reconnect
  <2>2. Locked'
    BY <1>19 DEF Registers, Network, Pending, Reader, Reconnect, Locked
  <2>3. Tidy'
    BY <1>19 DEF Registers, Network, Pending, Reader, Reconnect, Tidy, Under, Locked
  <2>4. Told'
    BY <1>19 DEF Registers, Network, Pending, Reader, Reconnect, Told, Tidy, Under, Locked
  <2>5. Closing'
    BY <1>19 DEF Registers, Network, Pending, Reader, Reconnect, Closing
  <2>6. Reading'
    BY <1>19 DEF Registers, Network, Pending, Reader, Reconnect, Reading, Tidy, Under, Locked
  <2> QED
    BY <2>1, <2>2, <2>3, <2>4, <2>5, <2>6
<1>20. ASSUME NEW c \in Call, call[c] = "registered", Sends(c, c, "waiting", "returned")
      PROVE  IInv'
  <2>1. TypeOK'
    BY <1>20 DEF Sends, Leaves, Network, Pending, Reader, Reconnect
  <2>2. Locked'
    BY <1>20 DEF Sends, Leaves, Network, Pending, Reader, Reconnect, Locked
  <2>3. Tidy'
    BY <1>20 DEF Sends, Leaves, Network, Pending, Reader, Reconnect, Tidy, Under, Locked
  <2>4. Told'
    BY <1>20 DEF Sends, Leaves, Network, Pending, Reader, Reconnect, Told, Tidy, Under, Locked
  <2>5. Closing'
    BY <1>20 DEF Sends, Leaves, Network, Pending, Reader, Reconnect, Closing
  <2>6. Reading'
    <3>1. cur' = cur /\ health' = health /\ reader' = reader /\ readerOn' = readerOn /\ lock' = lock
      BY <1>20 DEF Sends, Reader, Reconnect
    <3>2. c \notin Wire
      OBVIOUS
    <3>3. ASSUME NEW n \in Wire, NEW i \in asked'[n], i \in Wire
          PROVE  i = n
      <4>1. asked' = asked \/ asked' = Set(asked, cur, asked[cur] \union {c})
        BY <1>20 DEF Sends
      <4>2. i \in asked[n]
        BY <4>1, <3>2, <3>3
      <4> QED
        BY <4>2, <3>3 DEF Reading
    <3>4. signal'[cur] \subseteq signal[cur]
      BY <1>20 DEF Sends, Leaves, Pending
    <3>5. lock # None /\ call'[lock] = "greeted" => call[lock] = "greeted"
      BY <1>20 DEF Sends
    <3> QED
      BY <3>1, <3>3, <3>4, <3>5 DEF Reading
  <2> QED
    BY <2>1, <2>2, <2>3, <2>4, <2>5, <2>6
<1>21. ASSUME NEW c \in Call, Wake(c)
      PROVE  IInv'
  <2>1. TypeOK'
    BY <1>21 DEF Wake, Returns, Leaves, Network, Pending, Reader, Reconnect
  <2>2. Locked'
    BY <1>21 DEF Wake, Returns, Leaves, Network, Pending, Reader, Reconnect, Locked
  <2>3. Tidy'
    BY <1>21 DEF Wake, Returns, Leaves, Network, Pending, Reader, Reconnect, Tidy, Under, Locked
  <2>4. Told'
    BY <1>21 DEF Wake, Returns, Leaves, Network, Pending, Reader, Reconnect, Told, Tidy, Under, Locked
  <2>5. Closing'
    BY <1>21 DEF Wake, Returns, Leaves, Network, Pending, Reader, Reconnect, Closing
  <2>6. Reading'
    BY <1>21 DEF Wake, Returns, Leaves, Network, Pending, Reader, Reconnect, Reading, Tidy, Under, Locked
  <2> QED
    BY <2>1, <2>2, <2>3, <2>4, <2>5, <2>6
<1>22. ASSUME NEW c \in Call, ContextEnds(c)
      PROVE  IInv'
  <2>1. TypeOK'
    BY <1>22 DEF ContextEnds, Network, Pending, Reader, Reconnect
  <2>2. Locked'
    BY <1>22 DEF ContextEnds, Network, Pending, Reader, Reconnect, Locked
  <2>3. Tidy'
    BY <1>22 DEF ContextEnds, Network, Pending, Reader, Reconnect, Tidy, Under, Locked
  <2>4. Told'
    BY <1>22 DEF ContextEnds, Network, Pending, Reader, Reconnect, Told, Tidy, Under, Locked
  <2>5. Closing'
    BY <1>22 DEF ContextEnds, Network, Pending, Reader, Reconnect, Closing
  <2>6. Reading'
    BY <1>22 DEF ContextEnds, Network, Pending, Reader, Reconnect, Reading, Tidy, Under, Locked
  <2> QED
    BY <2>1, <2>2, <2>3, <2>4, <2>5, <2>6
<1>23. ASSUME NEW n \in Wire, Die(n)
      PROVE  IInv'
  <2>1. TypeOK'
    BY <1>23 DEF Die, Network, Pending, Reader, Reconnect
  <2>2. Locked'
    BY <1>23 DEF Die, Network, Pending, Reader, Reconnect, Locked
  <2>3. Tidy'
    BY <1>23 DEF Die, Network, Pending, Reader, Reconnect, Tidy, Under, Locked
  <2>4. Told'
    BY <1>23 DEF Die, Network, Pending, Reader, Reconnect, Told, Tidy, Under, Locked
  <2>5. Closing'
    BY <1>23 DEF Die, Network, Pending, Reader, Reconnect, Closing
  <2>6. Reading'
    BY <1>23 DEF Die, Network, Pending, Reader, Reconnect, Reading, Tidy, Under, Locked
  <2> QED
    BY <2>1, <2>2, <2>3, <2>4, <2>5, <2>6
<1>24. ASSUME CloseBegins
      PROVE  IInv'
  <2>1. TypeOK'
    BY <1>24 DEF CloseBegins, Network, Pending, Reader, Reconnect
  <2>2. Locked'
    BY <1>24 DEF CloseBegins, Network, Pending, Reader, Reconnect, Locked
  <2>3. Tidy'
    BY <1>24 DEF CloseBegins, Network, Pending, Reader, Reconnect, Tidy, Under, Locked
  <2>4. Told'
    BY <1>24 DEF CloseBegins, Network, Pending, Reader, Reconnect, Told, Tidy, Under, Locked
  <2>5. Closing'
    BY <1>24 DEF CloseBegins, Network, Pending, Reader, Reconnect, Closing
  <2>6. Reading'
    BY <1>24 DEF CloseBegins, Network, Pending, Reader, Reconnect, Reading, Tidy, Under, Locked
  <2> QED
    BY <2>1, <2>2, <2>3, <2>4, <2>5, <2>6
<1>25. ASSUME CloseWire
      PROVE  IInv'
  <2>1. TypeOK'
    BY <1>25 DEF CloseWire, CloseCurrent, Network, Pending, Reader, Reconnect
  <2>2. Locked'
    BY <1>25 DEF CloseWire, CloseCurrent, Network, Pending, Reader, Reconnect, Locked
  <2>3. Tidy'
    BY <1>25 DEF CloseWire, CloseCurrent, Network, Pending, Reader, Reconnect, Tidy, Under, Locked
  <2>4. Told'
    BY <1>25 DEF CloseWire, CloseCurrent, Network, Pending, Reader, Reconnect, Told, Tidy, Under, Locked
  <2>5. Closing'
    BY <1>25 DEF CloseWire, CloseCurrent, Network, Pending, Reader, Reconnect, Closing
  <2>6. Reading'
    BY <1>25 DEF CloseWire, CloseCurrent, Network, Pending, Reader, Reconnect, Reading, Tidy, Under, Locked
  <2> QED
    BY <2>1, <2>2, <2>3, <2>4, <2>5, <2>6
<1>26. ASSUME CloseFails
      PROVE  IInv'
  <2>1. TypeOK'
    BY <1>26 DEF CloseFails, FailAllPending, Network, Pending, Reader, Reconnect
  <2>2. Locked'
    BY <1>26 DEF CloseFails, FailAllPending, Network, Pending, Reader, Reconnect, Locked
  <2>3. Tidy' /\ Told'
    BY <1>26, FailingTells DEF CloseFails, Network, Reconnect
  <2>5. Closing'
    BY <1>26 DEF CloseFails, FailAllPending, Network, Pending, Reader, Reconnect, Closing
  <2>6. Reading'
    BY <1>26 DEF CloseFails, FailAllPending, Network, Pending, Reader, Reconnect, Reading, Tidy, Under, Locked
  <2> QED
    BY <2>1, <2>2, <2>3, <2>5, <2>6
<1>27. ASSUME CloseReturns
      PROVE  IInv'
  <2>1. TypeOK'
    BY <1>27 DEF CloseReturns, Closing, Network, Pending, Reader, Reconnect
  <2>2. Locked'
    BY <1>27 DEF CloseReturns, Closing, Network, Pending, Reader, Reconnect, Locked
  <2>3. Tidy'
    BY <1>27 DEF CloseReturns, Closing, Network, Pending, Reader, Reconnect, Tidy, Under, Locked
  <2>4. Told'
    BY <1>27 DEF CloseReturns, Closing, Network, Pending, Reader, Reconnect, Told, Tidy, Under, Locked
  <2>5. Closing'
    BY <1>27 DEF CloseReturns, Closing, Network, Pending, Reader, Reconnect, Closing
  <2>6. Reading'
    BY <1>27 DEF CloseReturns, Closing, Network, Pending, Reader, Reconnect, Reading, Tidy, Under, Locked
  <2> QED
    BY <2>1, <2>2, <2>3, <2>4, <2>5, <2>6
<1>28. CASE UNCHANGED vars
  BY <1>28 DEF vars, Network, Pending, Reader, Reconnect, Locked, Tidy, Under, Told, Closing, Reading
<1> QED
  BY <1>1, <1>2, <1>3, <1>4, <1>5, <1>6, <1>7, <1>8, <1>9, <1>10, <1>11, <1>12, <1>13, <1>14, <1>15, <1>16, <1>17, <1>18, <1>19, <1>20, <1>21, <1>22, <1>23, <1>24, <1>25, <1>26, <1>27, <1>28
     DEF Next, CallStep, ReaderStep, CloseStep, Greet, Request

-----------------------------------------------------------------------------
\* The inductive invariant holds: the map, its signals, the calls, the lock
\* of the reconnect and the reader agree.
THEOREM Invariant == Spec => []IInv
<1> QED
  BY InvariantInit, InvariantStep, PTL DEF Spec

\* The session's variables keep their types.
THEOREM TypeCorrect == Spec => []TypeOK
<1>1. IInv => TypeOK
  BY DEF IInv
<1> QED
  BY <1>1, Invariant, PTL

\* A call never finds a response and an error (deliverResponse, failAllPending).
THEOREM CallsHaveOneSignal == Spec => []OneSignal
<1>1. IInv => OneSignal
  BY DEF IInv, Tidy, OneSignal
<1> QED
  BY <1>1, Invariant, PTL

\* The pending map holds only requests under way (requestInternal).
THEOREM PendingIsInFlight == Spec => []PendingInFlight
<1>1. IInv => PendingInFlight
  BY DEF IInv, TypeOK, Tidy, Under, Greeting, PendingInFlight
<1> QED
  BY <1>1, Invariant, PTL

\* Close leaves no call waiting untold but those a reconnect forgot.
THEOREM CloseWakesCalls == Spec => []CloseWakes
<1>1. IInv => CloseWakes
  BY DEF IInv, Told, Closing, CloseWakes
<1> QED
  BY <1>1, Invariant, PTL

\* The reader of a healthy session reads the transport in use.
THEOREM ReaderIsOnCurrent == Spec => []ReaderOnCurrent
<1>1. IInv => ReaderOnCurrent
  BY DEF IInv, Reading, ReaderOnCurrent
<1> QED
  BY <1>1, Invariant, PTL

\* No step of any call, reader or Close brings back a server given up.
THEOREM GivenUpIsFinal == Spec => UnhealthyIsFinal
<1>1. ASSUME IInv, [Next]_vars, health = "unhealthy"
      PROVE  health' = "unhealthy"
  <2> USE <1>1 DEF IInv, Locked, Rebuilding
  <2>1. ASSUME NEW c \in Call, Reconnected(c) \/ Exhausted(c) \/ BackoffCut(c)
        PROVE  health' = "unhealthy"
    BY <2>1 DEF Reconnected, Exhausted, BackoffCut, GivesUpServer
  <2>2. ASSUME NEW c \in Call,
               \/ Begin(c) \/ Lock(c) \/ CloseOld(c) \/ BuildFails(c) \/ Start(c)
               \/ Greet(c) \/ GreetFails(c) \/ Retry(c) \/ Request(c) \/ Wake(c)
               \/ ContextEnds(c) \/ \E n \in Wire : Build(c, n)
        PROVE  health' = "unhealthy"
    BY <2>2 DEF Begin, Lock, CloseOld, BuildFails, Start, Greet, GreetFails, Retry,
         Request, Wake, ContextEnds, Build, Registers, Sends, Returns
  <2>3. ASSUME ReaderStep \/ \E i \in Id : ReaderGets(i)
        PROVE  health' = "unhealthy"
    BY <2>3 DEF ReaderStep, ReaderTop, ReaderFails, MarkReconnecting, Marked, ReaderExits,
         ReaderGets
  <2>4. ASSUME CloseBegins \/ CloseStep \/ \E n \in Wire : Die(n)
        PROVE  health' = "unhealthy"
    BY <2>4 DEF CloseBegins, CloseStep, CloseWire, CloseFails, CloseReturns, Die
  <2>5. CASE UNCHANGED vars
    BY <2>5 DEF vars
  <2> QED
    BY <2>1, <2>2, <2>3, <2>4, <2>5 DEF Next, CallStep
<1>2. IInv /\ [Next]_vars => [health = "unhealthy" => health' = "unhealthy"]_vars
  BY <1>1
<1> QED
  BY <1>2, Invariant, PTL DEF Spec, UnhealthyIsFinal

-----------------------------------------------------------------------------
(***************************************************************************)
(* McpSession implements SessionContract.  Beyond IInv this needs where    *)
(* requests are: each goes out once, on one transport; what a reconnect    *)
(* forgot is out of the map and has no signal; and nobody has answered a   *)
(* handshake that was not sent yet.                                        *)
(***************************************************************************)
SentOnce ==
  /\ \A n \in Wire : wire[n] = "new" => asked[n] = {}
  /\ \A n \in Wire : \A c \in Call : c \in asked[n] => call[c] \in {"waiting", "returned"}
  /\ \A n, k \in Wire : \A c \in Call : c \in asked[n] /\ c \in asked[k] => n = k

Forgotten ==
  \A c \in forgotten :
    call[c] \in {"registered", "waiting"} /\ c \notin pending /\ signal[c] = {}

Unanswered ==
  lock # None =>
    /\ call[lock] \in {"starting", "greeting", "greetSend"} => cur \notin asked[cur]
    /\ call[lock] = "greetSend" => "resp" \notin signal[cur]

Requests == SentOnce /\ Forgotten /\ Unanswered

\* Failing what is pending leaves the requests where they are.
LEMMA FailingKeepsRequests ==
  ASSUME IInv, Requests, FailAllPending, UNCHANGED <<asked, call, cur, lock>>,
         \A n \in Wire : wire'[n] = "new" => wire[n] = "new"
  PROVE  Requests'
<1> USE DEF IInv, TypeOK, FailAllPending
<1>1. SentOnce'
  BY DEF Requests, SentOnce
<1>2. Forgotten'
  BY DEF Requests, Forgotten, Id
<1>3. Unanswered'
  BY DEF Requests, Unanswered, Id
<1> QED
  BY <1>1, <1>2, <1>3 DEF Requests

LEMMA RequestsInit == Init => Requests
BY SessionAssumption DEF Init, Requests, SentOnce, Forgotten, Unanswered

\* Each action again, on the part of the requests that it can disturb.
LEMMA RequestsStep ==
  ASSUME IInv, Requests, [Next]_vars
  PROVE  Requests'
<1>1. /\ TypeOK /\ Locked /\ Tidy /\ Told /\ Closing /\ Reading
      /\ SentOnce /\ Forgotten /\ Unanswered
      /\ Call \subseteq Id /\ Wire \subseteq Id
      /\ \A c \in Call : c \notin Wire
  BY SessionAssumption DEF IInv, Requests, Id, Wire
<1> USE <1>1 DEF TypeOK, Set
<1>2. ASSUME ReaderTop \/ ReaderFails \/ CloseFails
      PROVE  Requests'
  <2>1. CASE FailAllPending
    BY <1>2, <2>1, FailingKeepsRequests DEF ReaderTop, ReaderFails, CloseFails, Network, Reconnect, Requests
  <2>2. CASE ~FailAllPending
    BY <1>2, <2>2 DEF ReaderTop, ReaderFails, CloseFails, Network, Pending, Reconnect,
       Requests, SentOnce, Forgotten, Unanswered
  <2> QED
    BY <2>1, <2>2
<1>3. ASSUME NEW i \in Id, ReaderGets(i)
      PROVE  Requests'
  <2>1. SentOnce'
    BY <1>3 DEF ReaderGets, SentOnce
  <2>2. Forgotten'
    BY <1>3 DEF ReaderGets, Remains, Pending, Forgotten
  <2>3. Unanswered'
    <3> SUFFICES ASSUME lock # None, call[lock] \in {"starting", "greeting", "greetSend"}
                 PROVE  cur \notin asked'[cur] /\ (call[lock] = "greetSend" => "resp" \notin signal'[cur])
      BY <1>3 DEF ReaderGets, Reconnect, Unanswered
    <3>1. cur \notin asked[cur] /\ i # cur
      BY <1>3 DEF ReaderGets, Unanswered, Reading
    <3> QED
      BY <1>3, <3>1 DEF ReaderGets, Pending, Unanswered
  <2> QED
    BY <2>1, <2>2, <2>3 DEF Requests
<1>4. ASSUME MarkReconnecting \/ ReaderExits \/ CloseBegins \/ UNCHANGED vars
             \/ \E c \in Call : ContextEnds(c)
      PROVE  Requests'
  BY <1>4 DEF MarkReconnecting, ReaderExits, CloseBegins, ContextEnds, vars, Network, Pending,
     Reconnect, Requests, SentOnce, Forgotten, Unanswered
<1>5. ASSUME NEW c \in Call, Begin(c) \/ Lock(c)
      PROVE  Requests'
  <2>1. SentOnce'
    BY <1>5 DEF Begin, Lock, Network, SentOnce
  <2>2. Forgotten'
    BY <1>5 DEF Begin, Lock, Pending, Forgotten
  <2>3. Unanswered'
    BY <1>5 DEF Begin, Lock, Network, Pending, Reconnect, Unanswered
  <2> QED
    BY <2>1, <2>2, <2>3 DEF Requests
<1>6. ASSUME NEW c \in Call, CloseOld(c)
      PROVE  Requests'
  <2>1. SentOnce'
    BY <1>6 DEF CloseOld, CloseCurrent, SentOnce
  <2>2. Forgotten'
    <3> SUFFICES ASSUME NEW d \in forgotten'
                 PROVE  call'[d] \in {"registered", "waiting"} /\ d \notin pending' /\ signal'[d] = {}
      BY DEF Forgotten
    <3>1. CASE d \in forgotten
      BY <1>6, <3>1 DEF CloseOld, Forgotten
    <3>2. CASE d \in pending \intersect Call
      <4>1. signal[d] = {} /\ call[d] \in {"registered", "waiting"}
        BY <3>2, <1>1 DEF Tidy, Under, Wire
      <4> QED
        BY <1>6, <3>2, <4>1 DEF CloseOld
    <3> QED
      BY <1>6, <3>1, <3>2 DEF CloseOld
  <2>3. Unanswered'
    BY <1>6 DEF CloseOld, CloseCurrent, Reconnect, Unanswered, Locked, Rebuilding
  <2> QED
    BY <2>1, <2>2, <2>3 DEF Requests
<1>7. ASSUME NEW c \in Call, NEW n \in Wire, Build(c, n)
      PROVE  Requests'
  <2>1. lock = c /\ asked[n] = {}
    BY <1>7 DEF Build, Fresh, Locked, Rebuilding, SentOnce
  <2>2. SentOnce'
    BY <1>7 DEF Build, Fresh, SentOnce
  <2>3. Forgotten'
    BY <1>7 DEF Build, Pending, Forgotten
  <2>4. Unanswered'
    BY <1>7, <2>1 DEF Build, Reconnect, Unanswered
  <2> QED
    BY <2>2, <2>3, <2>4 DEF Requests
<1>8. ASSUME NEW c \in Call, BuildFails(c) \/ Start(c) \/ Retry(c)
      PROVE  Requests'
  <2>1. lock = c
    BY <1>8 DEF BuildFails, Start, Retry, Locked, Rebuilding
  <2>2. SentOnce'
    BY <1>8 DEF BuildFails, Start, Retry, Network, SentOnce
  <2>3. Forgotten'
    BY <1>8 DEF BuildFails, Start, Retry, Pending, Forgotten
  <2>4. Unanswered'
    BY <1>8, <2>1 DEF BuildFails, Start, Retry, Network, Pending, Reconnect, Unanswered
  <2> QED
    BY <2>2, <2>3, <2>4 DEF Requests
<1>9. ASSUME NEW c \in Call, call[c] = "greeting",
             Registers(c, Greeting(cur), "greetSend", "backoff")
      PROVE  Requests'
  <2>1. lock = c /\ cur \notin Call /\ signal[cur] = {}
    BY <1>1, <1>9 DEF Locked, Rebuilding, Tidy, Under
  <2>2. SentOnce'
    BY <1>9 DEF Registers, Network, SentOnce
  <2>3. Forgotten'
    BY <1>9, <2>1 DEF Registers, Greeting, Pending, Forgotten
  <2>4. Unanswered'
    BY <1>9, <2>1 DEF Registers, Network, Pending, Reconnect, Unanswered
  <2> QED
    BY <2>2, <2>3, <2>4 DEF Requests
<1>10. ASSUME NEW c \in Call, call[c] = "greetSend",
              Sends(c, Greeting(cur), "greetWait", "backoff")
       PROVE  Requests'
  <2>1. lock = c /\ cur \notin Call
    BY <1>1, <1>10 DEF Locked, Rebuilding
  <2>2. SentOnce'
    BY <1>10, <2>1 DEF Sends, Greeting, SentOnce
  <2>3. Forgotten'
    BY <1>10, <2>1 DEF Sends, Leaves, Greeting, Pending, Forgotten
  <2>4. Unanswered'
    BY <1>10, <2>1 DEF Sends, Reconnect, Unanswered
  <2> QED
    BY <2>2, <2>3, <2>4 DEF Requests
<1>11. ASSUME NEW c \in Call, call[c] = "greetWait",
              \/ Returns(c, Greeting(cur), "greeted")
              \/ Returns(c, Greeting(cur), "backoff")
       PROVE  Requests'
  <2>1. lock = c /\ cur \notin Call
    BY <1>1, <1>11 DEF Locked, Rebuilding
  <2>2. SentOnce'
    BY <1>11 DEF Returns, Network, SentOnce
  <2>3. Forgotten'
    BY <1>11, <2>1 DEF Returns, Leaves, Greeting, Forgotten
  <2>4. Unanswered'
    BY <1>11, <2>1 DEF Returns, Network, Reconnect, Unanswered
  <2> QED
    BY <2>2, <2>3, <2>4 DEF Requests
<1>12. ASSUME NEW c \in Call, Reconnected(c) \/ Exhausted(c) \/ BackoffCut(c)
       PROVE  Requests'
  <2>1. SentOnce'
    BY <1>12 DEF Reconnected, Exhausted, BackoffCut, GivesUpServer, Network, SentOnce
  <2>2. Forgotten'
    BY <1>12 DEF Reconnected, Exhausted, BackoffCut, GivesUpServer, Pending, Forgotten
  <2>3. Unanswered'
    BY <1>12 DEF Reconnected, Exhausted, BackoffCut, GivesUpServer, Unlock, Unanswered
  <2> QED
    BY <2>1, <2>2, <2>3 DEF Requests
<1>13. ASSUME NEW c \in Call, call[c] = "ensured", Registers(c, c, "registered", "returned")
       PROVE  Requests'
  <2>1. SentOnce'
    BY <1>13 DEF Registers, Network, SentOnce
  <2>2. Forgotten'
    BY <1>13 DEF Registers, Pending, Forgotten
  <2>3. Unanswered'
    BY <1>13 DEF Registers, Network, Pending, Reconnect, Unanswered, Locked, Rebuilding
  <2> QED
    BY <2>1, <2>2, <2>3 DEF Requests
<1>14. ASSUME NEW c \in Call, call[c] = "registered", Sends(c, c, "waiting", "returned")
       PROVE  Requests'
  <2>1. c # cur /\ \A n \in Wire : c \notin asked[n]
    BY <1>1, <1>14 DEF SentOnce
  <2>2. SentOnce'
    BY <1>14, <2>1 DEF Sends, SentOnce
  <2>3. Forgotten'
    BY <1>14 DEF Sends, Leaves, Pending, Forgotten
  <2>4. lock # None => lock # c
    BY <1>14 DEF Locked, Rebuilding
  <2>5. Unanswered'
    BY <1>14, <2>1, <2>4 DEF Sends, Leaves, Pending, Reconnect, Unanswered
  <2> QED
    BY <2>2, <2>3, <2>5 DEF Requests
<1>15. ASSUME NEW c \in Call, Wake(c)
       PROVE  Requests'
  <2>1. SentOnce'
    BY <1>15 DEF Wake, Returns, Network, SentOnce
  <2>2. Forgotten'
    BY <1>15 DEF Wake, Returns, Leaves, Forgotten
  <2>3. Unanswered'
    BY <1>1, <1>15 DEF Wake, Returns, Leaves, Network, Reconnect, Unanswered
  <2> QED
    BY <2>1, <2>2, <2>3 DEF Requests
<1>16. ASSUME (\E n \in Wire : Die(n)) \/ CloseWire
       PROVE  Requests'
  <2>1. SentOnce'
    BY <1>16 DEF Die, CloseWire, CloseCurrent, SentOnce
  <2>2. Forgotten' /\ Unanswered'
    BY <1>16 DEF Die, CloseWire, CloseCurrent, Pending, Reconnect, Forgotten, Unanswered
  <2> QED
    BY <2>1, <2>2 DEF Requests
<1>17. CloseReturns => Requests'
  BY DEF CloseReturns, Network, Reconnect, Requests, SentOnce, Forgotten, Unanswered
<1>18. ASSUME NEW c \in Call, CallStep(c)
       PROVE  Requests'
  BY <1>18, <1>5, <1>6, <1>7, <1>8, <1>9, <1>10, <1>11, <1>12, <1>13, <1>14, <1>15
     DEF CallStep, Greet, GreetFails, Request
<1> QED
  BY <1>2, <1>3, <1>4, <1>16, <1>17, <1>18 DEF Next, ReaderStep, CloseStep

(***************************************************************************)
(* The steps.  Phases, Heards and Held are what the contract sees; Same    *)
(* says that it sees nothing of a step.                                    *)
(***************************************************************************)
Phases == [c \in Call |-> Phase(c)]
Heards == [c \in Call |-> Heard(c)]
Held   == {c \in Call : \E n \in Wire : c \in asked[n]}

\* A step of one call moves that call alone.
LEMMA PhaseMoves ==
  ASSUME TypeOK, NEW c \in Call, NEW to, call' = Set(call, c, to)
  PROVE  /\ Phase(c)' = Phases'[c]
         /\ Phases' = [Phases EXCEPT ![c] = Phase(c)']
BY DEF TypeOK, Set, Phases, Phase

\* What a call heard hangs on its own channel and on whether it was forgotten.
LEMMA HeardMoves ==
  ASSUME TypeOK, NEW c, \A d \in Call \ {c} : signal'[d] = signal[d] /\ (d \in forgotten' <=> d \in forgotten)
  PROVE  /\ c \notin Call => Heards' = Heards
         /\ c \in Call => Heards' = [Heards EXCEPT ![c] = Heard(c)']
BY DEF Heards, Heard

\* The calls nobody has told anything are those in the map.
LEMMA UnheardArePending ==
  ASSUME IInv, Requests
  PROVE  Contract!Unheard = pending \intersect Call
<1> SUFFICES ASSUME NEW c \in Call
             PROVE  Phase(c) \in {"sending", "asking"} /\ Heard(c) = "no" <=> c \in pending
  BY DEF Contract!Unheard, IInv, TypeOK
<1>1. c \in Id /\ c \notin Wire /\ signal[c] \subseteq {"resp", "err"}
  BY SessionAssumption DEF IInv, TypeOK, Id, Wire
<1>2. Phase(c) \in {"sending", "asking"} <=> call[c] \in {"registered", "waiting"}
  BY DEF Phase
<1>3. ASSUME c \in pending
      PROVE  call[c] \in {"registered", "waiting"} /\ signal[c] = {} /\ c \notin forgotten
  BY <1>1, <1>3 DEF IInv, TypeOK, Tidy, Under, Requests, Forgotten, Wire
<1>4. Heard(c) = "no" => signal[c] = {} /\ c \notin forgotten
  BY <1>1 DEF Heard
<1> QED
  BY <1>2, <1>3, <1>4 DEF IInv, Told, Heard

\* A step that fails all pending calls tells those that heard nothing.
LEMMA FailingIsFail ==
  ASSUME IInv, Requests, FailAllPending, UNCHANGED <<closed, health, asked, cur, call, ended, lock, attempt>>,
         Stage' = Stage
  PROVE  Contract!Fail
<1>1. /\ TypeOK /\ Tidy /\ Forgotten /\ Call \subseteq Id
      /\ cur \in Id
      /\ pending \subseteq Id
  BY DEF IInv, Requests, Id, TypeOK
<1>2. ASSUME NEW c \in Call
      PROVE  Heard(c)' = IF c \in pending \intersect Call THEN "error" ELSE Heard(c)
  <2>1. CASE c \in pending
    <3>1. signal'[c] = {"err"}
      BY <1>1, <1>2, <2>1 DEF FailAllPending, Tidy
    <3> QED
      BY <1>2, <2>1, <3>1 DEF Heard
  <2>2. CASE c \notin pending
    BY <1>1, <1>2, <2>2 DEF FailAllPending, Heard
  <2> QED
    BY <2>1, <2>2
<1>3. Hello' = Hello
  <2>1. "resp" \in signal'[cur] <=> "resp" \in signal[cur]
    BY <1>1 DEF FailAllPending
  <2> QED
    BY <2>1 DEF Hello, Greeting
<1>4. Phases' = Phases /\ Held' = Held
  BY DEF Phases, Phase, Held
<1> QED
  BY <1>2, <1>3, <1>4, UnheardArePending
     DEF Contract!Fail, Contract!Tell, Contract!Session, Contract!Mending, Phases, Held

LEMMA SessionContractInit == Init => Contract!Init
<1> SUFFICES ASSUME Init PROVE Contract!Init
  OBVIOUS
<1>1. \A c \in Call : Phase(c) = "idle" /\ Heard(c) = "no"
  BY DEF Init, Phase, Heard, Id
<1>2. Stage = "open" /\ Hello = "no"
  BY DEF Init, Stage, Hello
<1>3. Held = {}
  BY DEF Init, Held
<1> QED
  BY <1>1, <1>2, <1>3 DEF Init, Contract!Init, Held

\* The contract sees nothing of a step that leaves these.
Unseen == UNCHANGED <<Stage, health, lock, Hello, attempt, Phases, Heards, Held, ended>>

\* Every step of the session is one of the contract or none.
LEMMA SessionContractStep ==
  ASSUME IInv, Requests, [Next]_vars
  PROVE  [Contract!Next]_Contract!vars
<1>1. /\ TypeOK /\ Locked /\ Tidy /\ Told /\ Closing /\ Reading
      /\ SentOnce /\ Forgotten /\ Unanswered
      /\ Call \subseteq Id /\ Wire \subseteq Id /\ cur \in Id /\ cur \notin Call
      /\ \A c \in Call : c \notin Wire /\ c # None
      /\ \A i \in Id : signal[i] \subseteq {"resp", "err"}
  BY SessionAssumption DEF IInv, TypeOK, Requests, Id, Wire
<1>2. Unseen => UNCHANGED Contract!vars
  BY DEF Unseen, Phases, Heards, Held, Contract!vars
<1>3. /\ UNCHANGED <<signal, forgotten>> => Heards' = Heards
      /\ UNCHANGED asked => Held' = Held
      /\ UNCHANGED call => Phases' = Phases
      /\ UNCHANGED <<closed, closer>> => Stage' = Stage
      /\ UNCHANGED <<lock, call, signal, cur, asked>> => Hello' = Hello
  BY DEF Heards, Heard, Held, Phases, Phase, Stage, Hello
<1>4. \A c \in Call : call[c] \in Rebuilding => lock = c /\ health = "reconnecting"
  BY <1>1 DEF Locked
<1>5. \A c \in Call : Phases[c] = Phase(c) /\ Heards[c] = Heard(c)
  BY DEF Phases, Heards
<1> USE <1>1 DEF TypeOK, Contract!Session, Contract!Mending, Contract!Set
<1>6. ASSUME ReaderTop \/ ReaderFails \/ CloseFails
      PROVE  Contract!Fail \/ Unseen
  <2>1. Stage' = Stage
    BY <1>6 DEF ReaderTop, ReaderFails, CloseFails, Closing, Stage
  <2>2. CASE FailAllPending
    BY <1>6, <2>1, <2>2, FailingIsFail DEF ReaderTop, ReaderFails, CloseFails, Network, Reconnect
  <2>3. CASE ~FailAllPending
    BY <1>3, <1>6, <2>1, <2>3 DEF ReaderTop, ReaderFails, CloseFails, Network, Pending, Reconnect, Unseen
  <2> QED
    BY <2>2, <2>3
<1>7. ASSUME NEW c \in Call, ReaderGets(c)
      PROVE  Contract!Answer(c)
  <2>1. c \in Held /\ Held' = Held \ {c}
    BY <1>7 DEF ReaderGets, Held, SentOnce, Set
  <2>2. Phases' = Phases /\ Stage' = Stage /\ Hello' = Hello
    <3>1. signal'[cur] = signal[cur] /\ (cur \in asked'[cur] <=> cur \in asked[cur])
      BY <1>7 DEF ReaderGets, Pending, Set
    <3> QED
      BY <1>3, <1>7, <3>1 DEF ReaderGets, Reconnect, Network, Hello, Greeting
  <2>3. Contract!Unheard = pending \intersect Call
    BY UnheardArePending
  <2>4. ASSUME NEW d \in Call
        PROVE  Heard(d)' = IF d \in {c} \intersect Contract!Unheard THEN "answer" ELSE Heard(d)
    <3>1. CASE d = c /\ c \in pending
      <4>1. signal'[c] = {"resp"}
        BY <1>7, <3>1 DEF ReaderGets, Tidy, Set
      <4> QED
        BY <2>3, <2>4, <3>1, <4>1 DEF Heard
    <3>2. CASE ~ (d = c /\ c \in pending)
      BY <1>7, <2>3, <2>4, <3>2 DEF ReaderGets, Heard, Pending, Set
    <3> QED
      BY <3>1, <3>2
  <2>5. Heards' = [d \in Call |-> IF d \in {c} \intersect Contract!Unheard THEN "answer" ELSE Heards[d]]
    BY <1>5, <2>4 DEF Heards
  <2> QED
    BY <1>7, <2>1, <2>2, <2>5 DEF ReaderGets, Reconnect, Contract!Answer, Contract!Tell, Held, Phases, Heards
<1>8. ASSUME NEW n \in Wire, ReaderGets(n)
      PROVE  Contract!Greet \/ Unseen
  <2>1. n \notin Call /\ n = readerOn
    BY <1>8 DEF ReaderGets, Reading
  <2>2. Phases' = Phases /\ Stage' = Stage /\ Held' = Held
    <3>1. \A c \in Call : \A k \in Wire : c \in asked'[k] <=> c \in asked[k]
      BY <1>8, <2>1 DEF ReaderGets, Set
    <3> QED
      BY <1>3, <1>8, <3>1 DEF ReaderGets, Held
  <2>3. Heards' = Heards
    <3>1. \A c \in Call : signal'[c] = signal[c] /\ forgotten' = forgotten
      BY <1>8, <2>1 DEF ReaderGets, Pending, Set
    <3> QED
      BY <3>1 DEF Heards, Heard
  <2>4. UNCHANGED <<health, lock, attempt, ended, call, cur>>
    BY <1>8 DEF ReaderGets, Reconnect, Network
  <2>5. CASE n = cur /\ lock # None /\ call[lock] = "greetWait" /\ Hello # "answered"
    <3>1. Hello = "asked"
      BY <1>8, <2>1, <2>5 DEF ReaderGets, Hello, Greeting
    <3>2. Hello' \in {"answered", "no"}
      BY <1>8, <2>1, <2>4, <2>5 DEF ReaderGets, Hello, Greeting, Set
    <3> QED
      BY <2>2, <2>3, <2>4, <2>5, <3>1, <3>2 DEF Contract!Greet, Phases, Heards, Held
  <2>6. CASE ~ (n = cur /\ lock # None /\ call[lock] = "greetWait" /\ Hello # "answered")
    <3>1. n = cur \/ (signal'[cur] = signal[cur] /\ (cur \in asked'[cur] <=> cur \in asked[cur]))
      BY <1>8 DEF ReaderGets, Pending, Set
    <3>2. "resp" \in signal[cur] => "resp" \in signal'[cur]
      BY <1>8 DEF ReaderGets, Pending, Set
    <3>3. Hello' = Hello
      BY <2>4, <2>6, <3>1, <3>2 DEF Hello, Greeting
    <3> QED
      BY <2>2, <2>3, <2>4, <3>3 DEF Unseen
  <2> QED
    BY <2>5, <2>6
<1>9. MarkReconnecting => Contract!Break \/ Unseen
  <2> SUFFICES ASSUME MarkReconnecting
               PROVE  Contract!Break \/ Unseen
    OBVIOUS
  <2>1. UNCHANGED <<Phases, Heards, Held, Stage, Hello, lock, attempt, ended>>
    BY <1>3 DEF MarkReconnecting, Network, Pending, Reconnect
  <2>2. health' = health \/ (~closed /\ health = "healthy" /\ health' = "reconnecting")
    BY DEF MarkReconnecting, Marked
  <2>3. ~closed => Stage = "open"
    BY DEF Closing, Stage
  <2> QED
    BY <2>1, <2>2, <2>3 DEF Contract!Break, Unseen, Phases, Heards, Held
<1>10. ReaderExits \/ (\E n \in Wire : Die(n)) => Unseen
  BY <1>3 DEF ReaderExits, Die, Network, Pending, Reconnect, Unseen
<1>11. ASSUME NEW c \in Call, ContextEnds(c)
       PROVE  Contract!ContextEnds(c)
  <2>1. Phase(c) # "idle"
    BY <1>11 DEF ContextEnds, Phase
  <2> QED
    BY <1>3, <1>5, <1>11, <2>1 DEF ContextEnds, Network, Pending, Reconnect, Contract!ContextEnds, Phases, Heards, Held, Set
<1>12. Stage = "open" <=> ~closed
  BY DEF Closing, Stage
<1>13. ASSUME NEW c \in Call, NEW to, call' = Set(call, c, to)
       PROVE  /\ Phases' = [Phases EXCEPT ![c] = Phase(c)']
              /\ Phase(c)' = Phase(c) => Phases' = Phases
  <2>1. Phases' = [Phases EXCEPT ![c] = Phase(c)']
    BY <1>13, PhaseMoves
  <2>2. Phases = [Phases EXCEPT ![c] = Phase(c)]
    BY <1>13 DEF Phases
  <2> QED
    BY <2>1, <2>2
<1>14. ASSUME NEW c \in Call, Begin(c)
       PROVE  Contract!Enter(c)
  <2>1. Phase(c) = "idle"
    BY <1>14 DEF Begin, Phase
  <2>2. Phase(c)' = CASE closed \/ health = "unhealthy" -> "returned"
                      [] ~closed /\ health = "healthy" -> "admitted"
                      [] OTHER -> "queueing"
    BY <1>14 DEF Begin, Phase, Set
  <2>3. Phases' = [Phases EXCEPT ![c] = Phase(c)']
    BY <1>13, <1>14 DEF Begin
  <2>4. Hello' = Hello
    BY <1>14 DEF Begin, Network, Pending, Reconnect, Hello, Locked, Rebuilding, Set
  <2> QED
    BY <1>3, <1>5, <1>12, <1>14, <2>1, <2>2, <2>3, <2>4
       DEF Begin, Network, Pending, Reconnect, Contract!Enter, Contract!Moves, Phases, Heards, Held
<1>15. ASSUME NEW c \in Call, Lock(c)
       PROVE  Contract!Mend(c) \/ Contract!Follow(c)
  <2>1. Phase(c) = "queueing" /\ lock = None /\ Hello = "no"
    BY <1>15 DEF Lock, Phase, Hello
  <2>2. Phases' = [Phases EXCEPT ![c] = Phase(c)'] /\ (Phase(c)' = Phase(c) => Phases' = Phases)
    BY <1>13, <1>15 DEF Lock
  <2>3. UNCHANGED <<Heards, Held, Stage, health, attempt, ended>>
    BY <1>3, <1>15 DEF Lock, Network, Pending
  <2>4. CASE health = "reconnecting"
    <3>1. lock' = c /\ Phase(c)' = "queueing" /\ Hello' = "no"
      BY <1>15, <2>4 DEF Lock, Phase, Hello, Set
    <3> QED
      BY <1>5, <2>1, <2>2, <2>3, <2>4, <3>1 DEF Contract!Mend, Phases, Heards, Held
  <2>5. CASE health # "reconnecting"
    <3>1. lock' = None /\ Hello' = "no"
      BY <1>15, <2>5 DEF Lock, Hello
    <3>2. Phase(c)' = IF health = "healthy" THEN "admitted" ELSE "returned"
      BY <1>15, <2>5 DEF Lock, Phase, Set
    <3> QED
      BY <1>5, <2>1, <2>2, <2>3, <2>5, <3>1, <3>2
         DEF Contract!Follow, Contract!Moves, Phases, Heards, Held
  <2> QED
    BY <2>4, <2>5
<1>16. ASSUME NEW c \in Call, CloseOld(c)
       PROVE  Contract!Forget
  <2>1. lock = c /\ Hello = "no" /\ Hello' = "no"
    BY <1>4, <1>16 DEF CloseOld, Reconnect, Hello, Rebuilding, Set
  <2>2. Phases' = Phases
    BY <1>13, <1>16 DEF CloseOld, Phase, Set
  <2>3. Held' \subseteq Held
    BY <1>16 DEF CloseOld, CloseCurrent, Held, Set
  <2>4. ASSUME NEW d \in Call
        PROVE  Heard(d)' = IF d \in Contract!Unheard THEN "forgotten" ELSE Heard(d)
    <3>1. CASE d \in pending
      <4>1. signal'[d] = {} /\ d \in forgotten'
        BY <1>16, <2>4, <3>1 DEF CloseOld, Tidy
      <4> QED
        BY <2>4, <3>1, <4>1, UnheardArePending DEF Heard
    <3>2. CASE d \notin pending
      BY <1>16, <2>4, <3>2, UnheardArePending DEF CloseOld, Heard
    <3> QED
      BY <3>1, <3>2
  <2>5. Heards' = [d \in Call |-> IF d \in Contract!Unheard THEN "forgotten" ELSE Heards[d]]
    BY <1>5, <2>4 DEF Heards
  <2> QED
    BY <1>3, <1>16, <2>1, <2>2, <2>3, <2>5
       DEF CloseOld, Reconnect, Contract!Forget, Contract!Tell, Phases, Heards, Held
<1>17. ASSUME NEW c \in Call, BuildFails(c) \/ Start(c) \/ \E n \in Wire : Build(c, n)
       PROVE  Unseen
  <2>1. lock = c /\ Hello = "no" /\ Hello' = "no"
    BY <1>4, <1>17 DEF BuildFails, Start, Build, Reconnect, Hello, Rebuilding, Set
  <2>2. Phases' = Phases
    BY <1>13, <1>17 DEF BuildFails, Start, Build, Phase, Set
  <2> QED
    BY <1>3, <1>17, <2>1, <2>2 DEF BuildFails, Start, Build, Network, Pending, Reconnect, Unseen
<1>18. ASSUME NEW c \in Call, call[c] = "greeting",
              Registers(c, Greeting(cur), "greetSend", "backoff")
       PROVE  Unseen
  <2>1. lock = c /\ Hello = "no" /\ Hello' = "no"
    BY <1>4, <1>18 DEF Registers, Reconnect, Hello, Rebuilding, Set
  <2>2. Phases' = Phases
    BY <1>13, <1>18 DEF Registers, Phase, Set
  <2>3. UNCHANGED <<signal, forgotten>>
    BY <1>18 DEF Registers, Pending
  <2> QED
    BY <1>3, <1>18, <2>1, <2>2, <2>3 DEF Registers, Network, Reconnect, Unseen
<1>19. ASSUME NEW i \in Wire, Leaves(i)
       PROVE  Heards' = Heards
  <2>1. \A d \in Call : signal'[d] = signal[d] /\ (d \in forgotten' <=> d \in forgotten)
    BY <1>19 DEF Leaves, Set
  <2> QED
    BY <2>1 DEF Heards, Heard
<1>20. ASSUME NEW c \in Call, call[c] = "greetSend",
              Sends(c, Greeting(cur), "greetWait", "backoff")
       PROVE  Contract!Greet \/ Unseen
  <2>1. lock = c /\ Hello = "no" /\ "resp" \notin signal[cur] /\ cur \notin asked[cur]
    BY <1>4, <1>20 DEF Hello, Rebuilding, Unanswered
  <2>2. Phases' = Phases
    BY <1>13, <1>20 DEF Sends, Phase, Set
  <2>3. Heards' = Heards
    BY <1>3, <1>19, <1>20 DEF Sends, Pending, Greeting
  <2>4. Held' = Held
    <3>1. \A d \in Call : \A k \in Wire : d \in asked'[k] <=> d \in asked[k]
      BY <1>20 DEF Sends, Greeting, Set
    <3> QED
      BY <3>1 DEF Held
  <2>5. UNCHANGED <<Stage, health, lock, attempt, ended>>
    BY <1>3, <1>20 DEF Sends, Reconnect
  <2>6. Hello' \in {"no", "asked"}
    <3>1. "resp" \notin signal'[cur] /\ cur' = cur /\ lock' = c /\ call'[c] \in {"greetWait", "backoff"}
      BY <1>20, <2>1 DEF Sends, Leaves, Pending, Reconnect, Greeting, Set
    <3> QED
      BY <3>1 DEF Hello, Greeting
  <2> QED
    BY <2>1, <2>2, <2>3, <2>4, <2>5, <2>6 DEF Contract!Greet, Unseen, Phases, Heards, Held
<1>21. ASSUME NEW c \in Call, call[c] = "greetWait", NEW to \in {"greeted", "backoff"},
              to = "greeted" => "resp" \in signal[Greeting(cur)],
              Returns(c, Greeting(cur), to)
       PROVE  Contract!Greet \/ Unseen
  <2>1. lock = c
    BY <1>4, <1>21 DEF Rebuilding
  <2>2. Phases' = Phases
    BY <1>13, <1>21 DEF Returns, Phase, Set
  <2>3. Heards' = Heards
    BY <1>19, <1>21 DEF Returns, Greeting
  <2>4. UNCHANGED <<Stage, health, lock, attempt, ended, Held>>
    BY <1>3, <1>21 DEF Returns, Network, Reconnect
  <2>5. IF to = "greeted" THEN Hello = "answered" /\ Hello' = "answered" ELSE Hello' = "no"
    BY <1>21, <2>1 DEF Returns, Network, Reconnect, Hello, Set
  <2> QED
    BY <1>21, <2>1, <2>2, <2>3, <2>4, <2>5 DEF Contract!Greet, Unseen, Phases, Heards, Held
<1>22. ASSUME NEW c \in Call, Reconnected(c)
       PROVE  Contract!Heal(c)
  <2>1. lock = c /\ Hello = "answered" /\ Hello' = "no" /\ Phase(c)' = "admitted"
    BY <1>4, <1>22 DEF Reconnected, Unlock, Hello, Rebuilding, Phase, Set
  <2>2. Phases' = [Phases EXCEPT ![c] = "admitted"]
    BY <1>13, <1>22, <2>1 DEF Reconnected
  <2> QED
    BY <1>3, <1>22, <2>1, <2>2
       DEF Reconnected, Unlock, Network, Pending, Contract!Heal, Contract!Leaves, Contract!Moves, Phases, Heards, Held
<1>23. ASSUME NEW c \in Call, Retry(c)
       PROVE  Contract!Retry
  <2>1. lock = c /\ Hello = "no" /\ Hello' = "no"
    BY <1>4, <1>23 DEF Retry, Hello, Rebuilding, Set
  <2>2. Phases' = Phases
    BY <1>13, <1>23 DEF Retry, Phase, Set
  <2> QED
    BY <1>3, <1>23, <2>1, <2>2 DEF Retry, Network, Pending, Contract!Retry, Phases, Heards, Held
<1>24. ASSUME NEW c \in Call, Exhausted(c) \/ BackoffCut(c)
       PROVE  Contract!GiveUp(c)
  <2>1. lock = c /\ Hello = "no" /\ Hello' = "no" /\ Phase(c)' = "returned"
    BY <1>4, <1>24 DEF Exhausted, BackoffCut, GivesUpServer, Unlock, Hello, Rebuilding, Phase, Set
  <2>2. Phases' = [Phases EXCEPT ![c] = "returned"]
    BY <1>13, <1>24, <2>1 DEF Exhausted, BackoffCut, GivesUpServer
  <2> QED
    BY <1>3, <1>24, <2>1, <2>2
       DEF Exhausted, BackoffCut, GivesUpServer, Unlock, Network, Pending,
           Contract!GiveUp, Contract!Leaves, Contract!Moves, Phases, Heards, Held
\* A call that does not mend has no part in the handshake.
<1>25. ASSUME NEW c \in Call, call[c] \notin Rebuilding, NEW to, call' = Set(call, c, to),
              UNCHANGED <<lock, cur>>, signal'[cur] = signal[cur],
              cur \in asked'[cur] <=> cur \in asked[cur]
       PROVE  Hello' = Hello
  <2>1. lock # c
    BY <1>25 DEF Locked
  <2>2. lock # None => call'[lock] = call[lock]
    BY <1>25, <2>1 DEF Set
  <2> QED
    BY <1>25, <2>2 DEF Hello, Greeting
<1>26. ASSUME NEW c \in Call, call[c] = "ensured", Registers(c, c, "registered", "returned")
       PROVE  Contract!Ask(c)
  <2>1. Phase(c) = "admitted" /\ Phase(c)' = IF closed THEN "returned" ELSE "sending"
    BY <1>26 DEF Registers, Phase, Set
  <2>2. Phases' = [Phases EXCEPT ![c] = Phase(c)']
    BY <1>13, <1>26 DEF Registers
  <2>3. Hello' = Hello
    BY <1>25, <1>26 DEF Registers, Network, Pending, Reconnect, Rebuilding
  <2>4. UNCHANGED <<signal, forgotten>>
    BY <1>26 DEF Registers, Pending
  <2> QED
    BY <1>3, <1>5, <1>12, <1>26, <2>1, <2>2, <2>3, <2>4
       DEF Registers, Network, Reconnect, Contract!Ask, Contract!Moves, Phases, Heards, Held
\* What a call was told goes with it.
<1>27. ASSUME NEW c \in Call, Leaves(c)
       PROVE  Heards' = [Heards EXCEPT ![c] = "no"] /\ signal'[cur] = signal[cur]
  <2>1. \A d \in Call \ {c} : signal'[d] = signal[d] /\ (d \in forgotten' <=> d \in forgotten)
    BY <1>27 DEF Leaves, Set
  <2>2. Heard(c)' = "no"
    BY <1>27 DEF Leaves, Set, Heard
  <2>3. signal'[cur] = signal[cur]
    BY <1>27 DEF Leaves, Set
  <2> QED
    BY <1>27, <2>1, <2>2, <2>3, HeardMoves
<1>28. ASSUME NEW c \in Call, call[c] = "registered", Sends(c, c, "waiting", "returned")
       PROVE  Contract!Send(c) \/ Contract!SendFails(c)
  <2>1. Phase(c) = "sending" /\ (cur \in asked'[cur] <=> cur \in asked[cur])
    BY <1>28 DEF Sends, Phase, Set
  <2>2. signal'[cur] = signal[cur]
    BY <1>27, <1>28 DEF Sends, Pending
  <2>3. Hello' = Hello
    BY <1>25, <1>28, <2>1, <2>2 DEF Sends, Reconnect, Rebuilding
  <2>4. UNCHANGED <<Stage, health, lock, attempt, ended>>
    BY <1>3, <1>28 DEF Sends, Reconnect
  <2>5. CASE call' = Set(call, c, "waiting") /\ UNCHANGED Pending
    <3>1. Phase(c)' = "asking"
      BY <2>5 DEF Phase, Set
    <3>2. Phases' = [Phases EXCEPT ![c] = "asking"] /\ Heards' = Heards
      BY <1>3, <1>13, <2>5, <3>1 DEF Pending
    <3>3. Held' = Held \/ Held' = Held \union {c}
      <4>1. CASE asked' = asked
        BY <1>3, <4>1
      <4>2. CASE asked' = Set(asked, cur, asked[cur] \union {c})
        BY <4>2 DEF Held, Set
      <4> QED
        BY <1>28, <2>5, <4>1, <4>2 DEF Sends
    <3> QED
      BY <1>5, <2>1, <2>3, <2>4, <3>2, <3>3 DEF Contract!Send, Phases, Heards, Held
  <2>6. CASE call' = Set(call, c, "returned") /\ Leaves(c) /\ UNCHANGED asked
    <3>1. Phase(c)' = "returned"
      BY <2>6 DEF Phase, Set
    <3>2. Phases' = [Phases EXCEPT ![c] = "returned"]
      BY <1>13, <2>6, <3>1
    <3> QED
      BY <1>3, <1>5, <1>27, <2>1, <2>3, <2>4, <2>6, <3>2
         DEF Contract!SendFails, Contract!Returns, Phases, Heards, Held
  <2> QED
    BY <1>28, <2>5, <2>6 DEF Sends
<1>29. ASSUME NEW c \in Call, Wake(c)
       PROVE  Contract!Return(c)
  <2>1. Phase(c) = "asking" /\ Phase(c)' = "returned"
    BY <1>29 DEF Wake, Returns, Phase, Set
  <2>2. Heard(c) # "no" \/ ended[c]
    BY <1>29 DEF Wake, Heard
  <2>3. Phases' = [Phases EXCEPT ![c] = "returned"]
    BY <1>13, <1>29, <2>1 DEF Wake, Returns
  <2>4. Heards' = [Heards EXCEPT ![c] = "no"] /\ signal'[cur] = signal[cur]
    BY <1>27, <1>29 DEF Wake, Returns
  <2>5. Hello' = Hello
    BY <1>25, <1>29, <2>4 DEF Wake, Returns, Network, Reconnect, Rebuilding
  <2> QED
    BY <1>3, <1>5, <1>29, <2>1, <2>2, <2>3, <2>4, <2>5
       DEF Wake, Returns, Network, Reconnect, Contract!Return, Contract!Returns, Phases, Heards, Held
<1>30. CloseBegins => Contract!Close
  <2> SUFFICES ASSUME CloseBegins
               PROVE  Contract!Close
    OBVIOUS
  <2>1. Stage = "open" /\ Stage' = "closing"
    BY <1>12 DEF CloseBegins, Stage
  <2> QED
    BY <1>3, <2>1 DEF CloseBegins, Network, Pending, Reconnect, Contract!Close, Phases, Heards, Held
<1>31. CloseWire => Contract!HangUp
  <2> SUFFICES ASSUME CloseWire
               PROVE  Contract!HangUp
    OBVIOUS
  <2>1. Stage = "closing" /\ Stage' = "closing"
    BY DEF CloseWire, Closing, Stage
  <2>2. Held' \subseteq Held
    BY DEF CloseWire, CloseCurrent, Held, Set
  <2>3. Hello' = IF Hello = "asked" THEN "no" ELSE Hello
    BY DEF CloseWire, CloseCurrent, Pending, Reconnect, Hello, Greeting, Set
  <2> QED
    BY <1>3, <2>1, <2>2, <2>3 DEF CloseWire, Pending, Reconnect, Contract!HangUp, Phases, Heards, Held
<1>32. CloseReturns => Contract!Closed
  <2> SUFFICES ASSUME CloseReturns
               PROVE  Contract!Closed
    OBVIOUS
  <2>1. Stage = "closing" /\ Stage' = "closed" /\ Contract!Unheard = {}
    BY UnheardArePending DEF CloseReturns, Closing, Stage
  <2> QED
    BY <1>3, <2>1 DEF CloseReturns, Network, Reconnect, Contract!Closed, Phases, Heards, Held
<1>33. UNCHANGED vars => Unseen
  BY <1>3 DEF vars, Unseen
<1>34. ASSUME NEW c \in Call, CallStep(c)
       PROVE  Contract!Next \/ Unseen
  <2>1. Greet(c) \/ GreetFails(c) => Contract!Next \/ Unseen
    BY <1>18, <1>20, <1>21, <1>34 DEF Greet, GreetFails, Contract!Next
  <2>2. Request(c) => Contract!Next \/ Unseen
    BY <1>26, <1>28, <1>34 DEF Request, Contract!Next
  <2> QED
    BY <1>14, <1>15, <1>16, <1>17, <1>22, <1>23, <1>24, <1>29, <1>34, <2>1, <2>2 DEF CallStep, Contract!Next
<1>35. ASSUME NEW i \in Id, ReaderGets(i)
       PROVE  Contract!Next \/ Unseen
  BY <1>7, <1>8, <1>35 DEF Id, Contract!Next
<1> QED
  BY <1>2, <1>6, <1>9, <1>10, <1>11, <1>30, <1>31, <1>32, <1>33, <1>34, <1>35
     DEF Next, ReaderStep, CloseStep, Contract!Next

\* The session keeps its contract with its calls and with Close: one call mends it
\* at a time and heals it with an answered handshake alone, a request goes out once
\* and is heard of at most once, and Close leaves nobody untold but whom a reconnect
\* forgot (EnsureHealthy, doReconnect, requestInternal, recvLoop, Close).
THEOREM SessionsKeepContract == Spec => KeepsSessionContract
<1>1. Init => Requests /\ Contract!Init
  BY RequestsInit, SessionContractInit
<1>2. IInv /\ Requests /\ [Next]_vars => Requests'
  BY RequestsStep
<1>3. IInv /\ Requests /\ [Next]_vars => [Contract!Next]_Contract!vars
  BY SessionContractStep
<1> QED
  BY <1>1, <1>2, <1>3, Invariant, PTL DEF Spec, KeepsSessionContract, Contract!Spec

-----------------------------------------------------------------------------
(***************************************************************************)
(* The names under which the tools of the servers are registered and shown,*)
(* for any servers and tools (View).                                       *)
(***************************************************************************)
View == INSTANCE View

\* Names of servers that no separator is found in, nor across their end.
Plain(server) ==
  /\ \A i \in 1 .. Len(server) - 1 : ~ (server[i] = View!Underscore /\ server[i + 1] = View!Underscore)
  /\ Len(server) > 0 => server[Len(server)] # View!Underscore

\* A sequence with one more element in front.
LEMMA HeadAndTail ==
  ASSUME NEW C, NEW c \in C, NEW s \in Seq(C)
  PROVE  Head(<<c>> \o s) = c /\ Tail(<<c>> \o s) = s /\ Len(<<c>> \o s) = 1 + Len(s)
<1> DEFINE t == <<c>> \o s
<1>1. /\ t \in Seq(C) /\ Len(t) = 1 + Len(s) /\ t[1] = c
      /\ \A i \in 1 .. Len(s) : t[i + 1] = s[i]
  OBVIOUS
<1> HIDE DEF t
<1>2. Tail(t) \in Seq(C) /\ Len(Tail(t)) = Len(s) /\ \A i \in 1 .. Len(s) : Tail(t)[i] = s[i]
  BY <1>1
<1>3. Tail(t) = s
  BY <1>2
<1> QED  BY <1>1, <1>3 DEF t

(***************************************************************************)
(* The server of a tool is read off the tool's name, if its own name has   *)
(* no "__" and does not end in "_" (BuildToolName,                         *)
(* resolveMCPServerByToolName).                                            *)
(***************************************************************************)
THEOREM ServerIsFound ==
  ASSUME NEW Letter, {View!Underscore, "mcp__"} \subseteq Letter,
         NEW server \in Seq(Letter), Plain(server), NEW remoteTool \in Seq(Letter)
  PROVE  View!ResolveMCPServer(View!BuildToolName(server, remoteTool)) = server
<1> DEFINE name == View!BuildToolName(server, remoteTool)
           rest == server \o <<View!Underscore, View!Underscore>> \o remoteTool
           n == Len(server) + 1
           seps == {i \in 1 .. Len(rest) - 1 : rest[i] = View!Underscore /\ rest[i + 1] = View!Underscore}
<1>1. /\ rest \in Seq(Letter) /\ Len(rest) = Len(server) + 2 + Len(remoteTool)
      /\ \A i \in 1 .. Len(server) : rest[i] = server[i]
      /\ rest[n] = View!Underscore /\ rest[n + 1] = View!Underscore
      /\ n \in Nat /\ Len(server) \in Nat /\ Len(remoteTool) \in Nat
  OBVIOUS
<1>2. /\ Head(name) = "mcp__" /\ Tail(name) = rest /\ Len(name) > 1
  <2>1. name = <<"mcp__">> \o server \o <<View!Underscore, View!Underscore>> \o remoteTool
    BY DEF View!BuildToolName
  <2>2. name = <<"mcp__">> \o rest
    BY <2>1
  <2> HIDE DEF rest, name
  <2>3. Head(<<"mcp__">> \o rest) = "mcp__" /\ Tail(<<"mcp__">> \o rest) = rest
        /\ Len(<<"mcp__">> \o rest) = 1 + Len(rest)
    BY <1>1, HeadAndTail
  <2> QED  BY <1>1, <2>2, <2>3
<1>3. server = SubSeq(rest, 1, n - 1)
  OBVIOUS
<1> HIDE DEF rest
<1>4. n \in seps
  BY <1>1
<1>5. \A i \in seps : n <= i
  <2> SUFFICES ASSUME NEW i \in seps, i < n  PROVE FALSE
    BY <1>1
  <2>1. i \in 1 .. Len(server) /\ rest[i] = server[i]
    BY <1>1
  <2>2. CASE i = Len(server)
    BY <2>1, <2>2 DEF Plain
  <2>3. CASE i < Len(server)
    <3>1. i + 1 \in 1 .. Len(server) /\ rest[i + 1] = server[i + 1]
      BY <1>1, <2>1, <2>3
    <3> QED  BY <1>1, <2>1, <2>3, <3>1 DEF Plain
  <2> QED  BY <1>1, <2>1, <2>2, <2>3
<1> HIDE DEF n, name
<1>6. (CHOOSE i \in seps : \A j \in seps : i <= j) = n
  <2>1. seps \subseteq Nat  BY <1>1
  <2> HIDE DEF seps
  <2>2. \A i \in seps : (\A j \in seps : i <= j) => i = n
    BY <1>1, <1>4, <1>5, <2>1
  <2> QED  BY <1>4, <1>5, <2>2
<1>7. View!ResolveMCPServer(name) = SubSeq(rest, 1, (CHOOSE i \in seps : \A j \in seps : i <= j) - 1)
  <2> DEFINE found == {i \in 1 .. Len(Tail(name)) - 1 :
                         Tail(name)[i] = View!Underscore /\ Tail(name)[i + 1] = View!Underscore}
  <2>1. found = seps  BY <1>2
  <2>2. ~ (Len(name) <= 1) /\ Head(name) = "mcp__" /\ found # {}
    <3>1. Len(name) \in Nat  BY <1>1 DEF name, View!BuildToolName, rest
    <3>2. Len(name) > 1 => ~ (Len(name) <= 1)  BY <3>1
    <3> HIDE DEF found, seps
    <3> QED  BY <1>2, <1>4, <2>1, <3>2
  <2>3. View!ResolveMCPServer(name)
          = SubSeq(Tail(name), 1, (CHOOSE i \in found : \A j \in found : i <= j) - 1)
    BY <2>2, Zenon DEF View!ResolveMCPServer
  <2> HIDE DEF found, seps
  <2> QED  BY <1>2, <2>1, <2>3
<1> QED  BY <1>3, <1>6, <1>7 DEF name

\* What follows the same beginning.
LEMMA SameRest ==
  ASSUME NEW C, NEW p \in Seq(C), NEW t \in Seq(C), NEW u \in Seq(C), p \o t = p \o u
  PROVE  t = u
<1>1. /\ Len(p \o t) = Len(p) + Len(t) /\ Len(p \o u) = Len(p) + Len(u)
      /\ Len(p) \in Nat /\ Len(t) \in Nat /\ Len(u) \in Nat
  OBVIOUS
<1>2. Len(t) = Len(u)
  BY <1>1
<1>3. ASSUME NEW i \in 1 .. Len(t)  PROVE t[i] = u[i]
  <2>1. (p \o t)[Len(p) + i] = t[i] /\ (p \o u)[Len(p) + i] = u[i]
    BY <1>1, <1>2
  <2> QED  BY <2>1
<1> QED  BY <1>2, <1>3

(***************************************************************************)
(* Two tools of such servers never have one name, so that one registers    *)
(* over the other (BuildToolName).                                         *)
(***************************************************************************)
THEOREM NamesAreDistinct ==
  ASSUME NEW Letter, {View!Underscore, "mcp__"} \subseteq Letter,
         NEW s1 \in Seq(Letter), Plain(s1), NEW t1 \in Seq(Letter),
         NEW s2 \in Seq(Letter), Plain(s2), NEW t2 \in Seq(Letter),
         View!BuildToolName(s1, t1) = View!BuildToolName(s2, t2)
  PROVE  s1 = s2 /\ t1 = t2
<1>1. s1 = s2
  BY ServerIsFound
<1>2. /\ View!BuildToolName(s1, t1) = (<<"mcp__">> \o s1 \o <<View!Underscore, View!Underscore>>) \o t1
      /\ View!BuildToolName(s2, t2) = (<<"mcp__">> \o s1 \o <<View!Underscore, View!Underscore>>) \o t2
  BY <1>1 DEF View!BuildToolName
<1> DEFINE p == <<"mcp__">> \o s1 \o <<View!Underscore, View!Underscore>>
<1>3. <<"mcp__">> \in Seq(Letter) /\ <<View!Underscore, View!Underscore>> \in Seq(Letter)
  OBVIOUS
<1>4. p \in Seq(Letter)
  <2>1. <<"mcp__">> \o s1 \in Seq(Letter)  BY <1>3
  <2> QED  BY <1>3, <2>1
<1>5. p \o t1 = p \o t2  BY <1>2
<1> HIDE DEF p
<1> QED  BY <1>1, <1>4, <1>5, SameRest

\* A set and its image under a function that is one to one have one number.
LEMMA CountOfImage ==
  ASSUME NEW S, IsFiniteSet(S), NEW T, NEW f \in [S -> T],
         \A x, y \in S : f[x] = f[y] => x = y,
         \A z \in T : \E x \in S : f[x] = z
  PROVE  IsFiniteSet(T) /\ Cardinality(T) = Cardinality(S)
<1>1. f \in Bijection(S, T)
  BY DEF Bijection, Injection, Surjection, IsInjective
<1> QED  BY <1>1, FS_Bijection DEF ExistsBijection

\* Cardinality is the same operator in View.
LEMMA SameCount == \A S : View!Cardinality(S) = Cardinality(S)
BY DEF View!Cardinality, Cardinality

(***************************************************************************)
(* The browser is shown every healthy server with the number of its own    *)
(* tools, and all of them as the total, whatever other servers call theirs *)
(* (buildMCPStatusPayload).                                                *)
(***************************************************************************)
THEOREM ServersShowTheirTools ==
  ASSUME NEW Letter, {View!Underscore, "mcp__"} \subseteq Letter,
         NEW owned \in SUBSET (Seq(Letter) \X Seq(Letter)), IsFiniteSet(owned),
         \A o \in owned : Plain(o[1]),
         NEW healthy \in SUBSET Seq(Letter), NEW unhealthy \in SUBSET Seq(Letter),
         NEW status, status = View!MCPStatus({View!BuildToolName(o[1], o[2]) : o \in owned},
                                             healthy, unhealthy)
  PROVE  /\ \A s \in status.servers : s.state = "healthy" =>
              s.name \in healthy /\ s.tools = Cardinality({o \in owned : o[1] = s.name})
         /\ status.totalTools = Cardinality({o \in owned : o[1] \in healthy})
<1> DEFINE name(o) == View!BuildToolName(o[1], o[2])
           tools == {name(o) : o \in owned}
<1>1. \A o \in owned : /\ o[1] \in Seq(Letter) /\ o[2] \in Seq(Letter) /\ o = <<o[1], o[2]>>
                       /\ View!ResolveMCPServer(name(o)) = o[1]
  <2> TAKE o \in owned
  <2>0. o \in Seq(Letter) \X Seq(Letter) /\ Plain(o[1])
    OBVIOUS
  <2>1. o[1] \in Seq(Letter) /\ o[2] \in Seq(Letter) /\ o = <<o[1], o[2]>> /\ Plain(o[1])
    BY <2>0
  <2> QED  BY <2>1, ServerIsFound
<1>2. \A o, q \in owned : name(o) = name(q) => o = q
  <2> SUFFICES ASSUME NEW o \in owned, NEW q \in owned, name(o) = name(q)  PROVE o = q
    OBVIOUS
  <2>1. /\ o[1] \in Seq(Letter) /\ o[2] \in Seq(Letter) /\ Plain(o[1])
        /\ q[1] \in Seq(Letter) /\ q[2] \in Seq(Letter) /\ Plain(q[1])
    BY <1>1
  <2>2. View!BuildToolName(o[1], o[2]) = View!BuildToolName(q[1], q[2])
    OBVIOUS
  <2> HIDE DEF name
  <2>3. o[1] = q[1] /\ o[2] = q[2]  BY <2>1, <2>2, NamesAreDistinct
  <2> QED  BY <1>1, <2>3
<1> HIDE DEF name
<1>3. ASSUME NEW H
      PROVE  Cardinality({t \in tools : View!ResolveMCPServer(t) \in H})
               = Cardinality({o \in owned : o[1] \in H})
  <2> DEFINE S == {o \in owned : o[1] \in H}
             T == {t \in tools : View!ResolveMCPServer(t) \in H}
             f == [o \in S |-> name(o)]
  <2>1. IsFiniteSet(S)  BY FS_Subset
  <2>2. f \in [S -> T]  BY <1>1
  <2>3. \A x, y \in S : f[x] = f[y] => x = y  BY <1>2
  <2>4. \A z \in T : \E x \in S : f[x] = z
    <3> TAKE z \in T
    <3>1. PICK x \in owned : z = name(x)  OBVIOUS
    <3>2. x \in S  BY <1>1, <3>1
    <3> QED  BY <3>1, <3>2
  <2> HIDE DEF S, T, f
  <2>5. Cardinality(T) = Cardinality(S)  BY <2>1, <2>2, <2>3, <2>4, CountOfImage
  <2> QED  BY <2>5 DEF S, T
<1>4. status.totalTools = Cardinality({o \in owned : o[1] \in healthy})
  <2>1. status.totalTools = View!Cardinality({t \in tools : View!ResolveMCPServer(t) \in healthy})
    BY DEF View!MCPStatus, name
  <2> QED  BY <1>3, <2>1, SameCount
<1>5. ASSUME NEW s \in status.servers, s.state = "healthy"
      PROVE  s.name \in healthy /\ s.tools = Cardinality({o \in owned : o[1] = s.name})
  <2>1. s.name \in healthy /\ s.tools = View!Cardinality({t \in tools : View!ResolveMCPServer(t) = s.name})
    <3> DEFINE count(n) == View!Cardinality({t \in tools : View!ResolveMCPServer(t) = n})
    <3>1. status.servers = {[name |-> n, state |-> "healthy", tools |-> count(n)] : n \in healthy}
                           \cup {[name |-> n, state |-> "unhealthy", tools |-> 0] : n \in unhealthy}
      BY DEF View!MCPStatus, name
    <3> HIDE DEF count
    <3>2. s.state = "healthy" => \E n \in healthy : s = [name |-> n, state |-> "healthy", tools |-> count(n)]
      BY <3>1
    <3>3. PICK n \in healthy : s = [name |-> n, state |-> "healthy", tools |-> count(n)]
      BY <1>5, <3>2
    <3>4. s.name \in healthy /\ s.tools = count(s.name)
      BY <3>3
    <3> QED  BY <3>4 DEF count
  <2>2. Cardinality({t \in tools : View!ResolveMCPServer(t) \in {s.name}})
          = Cardinality({o \in owned : o[1] \in {s.name}})
    BY <1>3
  <2>3. /\ {t \in tools : View!ResolveMCPServer(t) \in {s.name}} = {t \in tools : View!ResolveMCPServer(t) = s.name}
        /\ {o \in owned : o[1] \in {s.name}} = {o \in owned : o[1] = s.name}
    OBVIOUS
  <2> QED  BY <2>1, <2>2, <2>3, SameCount
<1> QED  BY <1>4, <1>5

-----------------------------------------------------------------------------
(* The registry that the tools of the servers go to while turns read it    *)
(* (ToolRegistry): what its lock keeps together, and what it never lets go.*)

CONSTANTS Turn, Local, Remote, Enabled
VARIABLES tools, pc, names, specs, todo, writing

Registry == INSTANCE ToolRegistry

\* What a turn may use of a set of tools.
Usable(those) == IF Enabled = {} THEN those ELSE those \cap Enabled

\* A turn that has named its tools and not described them yet has the tools that
\* are registered; one that has described them has those of the program.
Described ==
  \A t \in Turn : /\ specs[t] \subseteq tools
                  /\ pc[t] = "names" => names[t] = Usable(tools)
                  /\ pc[t] \in {"run", "done"} => Usable(Local) \subseteq specs[t]

RegistryInv ==
  /\ pc \in [Turn -> {"idle", "specs", "names", "run", "done"}]
  /\ names \in [Turn -> SUBSET tools] /\ specs \in [Turn -> SUBSET tools]
  /\ Local \subseteq tools
  /\ Described

\* Every step of a turn or of a registration keeps it.
LEMMA RegistryStep == RegistryInv /\ [Registry!Next]_Registry!vars => RegistryInv'
<1> SUFFICES ASSUME RegistryInv, [Registry!Next]_Registry!vars
             PROVE  RegistryInv'
  OBVIOUS
<1> USE DEF RegistryInv, Described, Usable
<1>1. ASSUME NEW t \in Turn, Registry!ToSpecs(t)
      PROVE  RegistryInv'
  BY <1>1 DEF Registry!ToSpecs
<1>2. ASSUME NEW t \in Turn, Registry!EnabledNames(t)
      PROVE  RegistryInv'
  BY <1>2 DEF Registry!EnabledNames
<1>3. ASSUME NEW t \in Turn, Registry!Describe(t)
      PROVE  RegistryInv'
  BY <1>3 DEF Registry!Describe
<1>4. ASSUME NEW t \in Turn, Registry!Get(t)
      PROVE  RegistryInv'
  BY <1>4 DEF Registry!Get
<1>5. ASSUME NEW n \in Remote, Registry!Register(n)
      PROVE  RegistryInv'
  BY <1>5 DEF Registry!Register
<1>6. CASE Registry!Registered
  BY <1>6 DEF Registry!Registered, Registry!Reading
<1>7. CASE UNCHANGED Registry!vars
  BY <1>7 DEF Registry!vars
<1> QED
  BY <1>1, <1>2, <1>3, <1>4, <1>5, <1>6, <1>7 DEF Registry!Next

\* It holds from the start, before any server has a tool.
LEMMA RegistryInvariant == Registry!Spec => []RegistryInv
<1>1. Registry!Init => RegistryInv
  BY DEF Registry!Init, RegistryInv, Described
<1> QED
  BY <1>1, RegistryStep, PTL DEF Registry!Spec

\* The registry does not change between EnabledNames and the end of ToSpecs:
\* what a turn describes to the model can be looked up when it is called, and no
\* tool of the program is missing, however many tools register meanwhile.
THEOREM SpecsAreTools == Registry!Spec => []Described
<1>1. RegistryInv => Described
  BY DEF RegistryInv
<1> QED
  BY <1>1, RegistryInvariant, PTL

\* Turn t is between its two read locks and tool n waits for the write lock.
Deadlocked(t, n) == pc[t] = "specs" /\ writing = {n}

\* All that may still happen: a turn that had both its locks describes its tools.
OnlyDescribes ==
  /\ UNCHANGED <<tools, writing, todo>>
  /\ \A u \in Turn : pc'[u] # pc[u] => pc[u] = "names"

\* The second read lock of ToSpecs is not granted while a Register waits, and the
\* Register not before the first is given back: from then on and for good no turn
\* gets its tools, none is looked up and none is registered.
THEOREM DeadlockIsFinal ==
  ASSUME NEW t \in Turn, NEW n \in Remote
  PROVE  Registry!Spec =>
           [](Deadlocked(t, n) => [](Deadlocked(t, n)) /\ [][OnlyDescribes]_Registry!vars)
<1>1. Deadlocked(t, n) /\ [Registry!Next]_Registry!vars => Deadlocked(t, n)'
  <2> SUFFICES ASSUME Deadlocked(t, n), [Registry!Next]_Registry!vars
               PROVE  Deadlocked(t, n)'
    OBVIOUS
  <2>1. ASSUME NEW u \in Turn, \/ Registry!ToSpecs(u) \/ Registry!EnabledNames(u) \/ Registry!Get(u)
        PROVE  FALSE
    BY <2>1 DEF Deadlocked, Registry!ToSpecs, Registry!EnabledNames, Registry!Get, Registry!CanRead
  <2>2. ASSUME NEW u \in Turn, Registry!Describe(u)
        PROVE  Deadlocked(t, n)'
    BY <2>2 DEF Deadlocked, Registry!Describe
  <2>3. ASSUME NEW m \in Remote, Registry!Register(m)
        PROVE  FALSE
    BY <2>3 DEF Deadlocked, Registry!Register
  <2>4. CASE Registry!Registered
    BY <2>4 DEF Deadlocked, Registry!Registered, Registry!Reading
  <2>5. CASE UNCHANGED Registry!vars
    BY <2>5 DEF Deadlocked, Registry!vars
  <2> QED
    BY <2>1, <2>2, <2>3, <2>4, <2>5 DEF Registry!Next
<1>2. RegistryInv /\ Deadlocked(t, n) /\ [Registry!Next]_Registry!vars => [OnlyDescribes]_Registry!vars
  <2> SUFFICES ASSUME RegistryInv, Deadlocked(t, n), Registry!Next
               PROVE  OnlyDescribes
    OBVIOUS
  <2>1. PICK u \in Turn : Registry!Describe(u)
    BY DEF Deadlocked, Registry!Next, Registry!ToSpecs, Registry!EnabledNames, Registry!Get,
           Registry!Register, Registry!Registered, Registry!CanRead, Registry!Reading
  <2> QED
    BY <2>1 DEF Registry!Describe, RegistryInv, OnlyDescribes
<1> QED
  BY <1>1, <1>2, RegistryInvariant, PTL DEF Registry!Spec

=============================================================================
