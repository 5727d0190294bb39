----------------------------- MODULE TenantProofs -----------------------------
(***************************************************************************)
(* Proofs about Tenant, for any number of connections, servers, runtimes   *)
(* and edits, and whichever editions fail to load.                         *)
(***************************************************************************)
EXTENDS Tenant, TLAPS

\* The user has no runtime, and no file has been edited.
LEMMA TypeInit == Init => TypeOK
<1> SUFFICES ASSUME Init
             PROVE  TypeOK
  OBVIOUS
<1> USE TenantAssumption DEF Init
<1>1. 0 \in 0 .. MaxEdits
  OBVIOUS
<1>2. /\ current \in Runtime \union {None} /\ fp \in [Runtime -> 0 .. MaxEdits]
      /\ phase \in [Runtime -> {"unbuilt", "live", "doomed", "shut", "closed"}]
  BY <1>1
<1>3. /\ server \in [Server -> {"idle", "starting", "stored", "failed", "stopped"}]
      /\ streaming \subseteq Runtime /\ served \subseteq Runtime /\ late \subseteq Server
      /\ refresher \in {"idle", "listed"}
  OBVIOUS
<1>4. /\ link \in [Conn -> Places] /\ bound \in [Conn -> Runtime \union {None}]
      /\ since \in [Conn -> 0 .. MaxEdits] /\ tracked \subseteq Conn /\ dead \subseteq Conn
  BY <1>1 DEF Places
<1> QED
  BY <1>1, <1>2, <1>3, <1>4 DEF TypeOK

\* A message that is being handled is handled by a runtime that was built.
HandlerBuilt ==
  \A c \in Conn : link[c] = "handling" =>
    bound[c] \in Runtime /\ phase[bound[c]] # "unbuilt"

\* Building a runtime, or finding one, keeps the types.
LEMMA RuntimeTyped ==
  ASSUME TypeOK, NEW r \in Runtime \union {None}, RuntimeForUser(r)
  PROVE  /\ current' \in Runtime \union {None} /\ fp' \in [Runtime -> 0 .. MaxEdits]
         /\ phase' \in [Runtime -> {"unbuilt", "live", "doomed", "shut", "closed"}]
         /\ served' \subseteq Runtime
<1>1. CASE UNCHANGED <<table, served>>
  BY <1>1 DEF TypeOK, table
<1>2. CASE r \in Runtime /\ Build(r)
  BY <1>2 DEF TypeOK, Build, Replaced, Set
<1> QED
  BY <1>1, <1>2 DEF RuntimeForUser

\* Every step keeps the types.
LEMMA TypeStep == TypeOK /\ HandlerBuilt /\ [Next]_vars => TypeOK'
<1> SUFFICES ASSUME TypeOK, HandlerBuilt, [Next]_vars
             PROVE  TypeOK'
  OBVIOUS
<1> USE TenantAssumption DEF TypeOK, Set, MovesTo, files, table, links
<1>1. CASE Edit
  <2>1. edition' \in 0 .. MaxEdits
    BY <1>1 DEF Edit
  <2> QED
    BY <1>1, <2>1 DEF Edit
<1>9. CASE Login
  BY <1>9 DEF Login
<1>2. ASSUME Logout \/ CloseAll
      PROVE  TypeOK'
  BY <1>2 DEF Logout, CloseAll, Dismiss, Replaced, None
<1>3. CASE Tick
  BY <1>3 DEF Tick
<1>4. CASE Refresh
  BY <1>4, RuntimeTyped DEF Refresh
<1>5. ASSUME NEW c \in Conn, Connection(c)
      PROVE  TypeOK'
  <2>1. CASE Ask(c)
    BY <2>1 DEF Ask, Places
  <2>2. CASE Grant(c)
    BY <2>2, RuntimeTyped DEF Grant, Places
  <2>3. CASE Upgrade(c)
    BY <2>3 DEF Upgrade, Places, None
  <2>4. CASE Open(c)
    BY <2>4, RuntimeTyped DEF Open, Places
  <2>5. CASE Message(c)
    BY <2>5 DEF Message, Places
  <2>6. CASE Resolve(c)
    BY <2>6, RuntimeTyped DEF Resolve, Handled, Places, None
  <2>7. CASE Prompt(c)
    BY <2>7 DEF Prompt, Handled, HandlerBuilt, Places, None
  <2>8. CASE OtherMessage(c)
    BY <2>8 DEF OtherMessage, Handled, Places, None
  <2>9. CASE Leave(c)
    BY <2>9 DEF Leave, Replaced, Places, None
  <2> QED
    BY <1>5, <2>1, <2>2, <2>3, <2>4, <2>5, <2>6, <2>7, <2>8, <2>9 DEF Connection
<1>6. ASSUME NEW r \in Runtime, Life(r)
      PROVE  TypeOK'
  BY <1>6 DEF Life, StreamEnds, Shut, Sweep
<1>7. ASSUME NEW s \in Server, StartServer(s) \/ ServerStarts(s)
      PROVE  TypeOK'
  BY <1>7 DEF StartServer, ServerStarts
<1>8. CASE UNCHANGED vars
  BY <1>8 DEF vars
<1> QED
  BY <1>1, <1>2, <1>3, <1>4, <1>5, <1>6, <1>7, <1>8, <1>9 DEF Next

-----------------------------------------------------------------------------
(* The inductive invariant.  OnlyCurrentLive is inductive by itself.       *)
(* ServedIsNotLeft needs that a runtime that is built anew has not served  *)
(* before; EditsReachMessages that the runtime a message is resolved to    *)
(* keeps the edition it was built from.                                    *)

\* Only a runtime that was built has served a connection.
ServedBuilt == \A r \in served : phase[r] # "unbuilt"

\* A message was read when the files had no newer edition than now.
ReadBefore == \A c \in Conn : since[c] <= edition

IInv ==
  /\ TypeOK /\ HandlerBuilt /\ ServedBuilt /\ ReadBefore
  /\ OnlyCurrentLive /\ ServedIsNotLeft /\ EditsReachMessages

\* A runtime that was built stays built, of the same edition.
Keeps == \A q \in Runtime : phase[q] # "unbuilt" =>
           phase'[q] # "unbuilt" /\ fp'[q] = fp[q]

\* A user starts without a runtime and without a message.
LEMMA InitIInv == Init => IInv
<1> SUFFICES ASSUME Init
             PROVE  IInv
  OBVIOUS
<1>1. TypeOK
  BY TypeInit
<1>2. HandlerBuilt /\ ServedBuilt /\ EditsReachMessages
  BY DEF Init, HandlerBuilt, ServedBuilt, EditsReachMessages
<1>3. ReadBefore
  BY DEF Init, ReadBefore
<1>4. OnlyCurrentLive /\ ServedIsNotLeft
  BY TenantAssumption DEF Init, OnlyCurrentLive, ServedIsNotLeft, Runtime, None
<1> QED
  BY <1>1, <1>2, <1>3, <1>4 DEF IInv

\* What runtimeForUser leaves behind, and what it returns.
LEMMA RuntimeFound ==
  ASSUME IInv, NEW r \in Runtime \union {None}, RuntimeForUser(r)
  PROVE  /\ Keeps /\ OnlyCurrentLive' /\ ServedBuilt'
         /\ current' \in served' => tracked # {}
         /\ r \in Runtime => /\ phase'[r] # "unbuilt"
                             /\ fp'[r] = edition \/ edition \in Broken
<1> USE DEF IInv, TypeOK
<1>1. CASE UpToDate /\ r = current /\ UNCHANGED <<table, served>>
  <2>1. phase[current] = "live"
    BY <1>1 DEF UpToDate, OnlyCurrentLive, None, Runtime
  <2> QED
    BY <1>1, <2>1 DEF table, Keeps, OnlyCurrentLive, ServedBuilt, ServedIsNotLeft, UpToDate
<1>2. CASE r = None /\ UNCHANGED <<table, served>>
  BY <1>2, TenantAssumption
     DEF table, Keeps, OnlyCurrentLive, ServedBuilt, ServedIsNotLeft, None, Runtime
<1>3. CASE r \in Runtime /\ Build(r)
  <2>1. /\ r \notin served /\ current' = r /\ phase' = Set(Replaced(phase), r, "live")
        /\ fp' = Set(fp, r, edition) /\ phase[r] = "unbuilt"
        /\ served' = IF tracked = {} THEN served ELSE served \union {r}
    BY <1>3 DEF Build, ServedBuilt
  <2>2. Keeps
    BY <2>1 DEF Keeps, Set, Replaced
  <2>3. OnlyCurrentLive'
    <3>1. ASSUME NEW q \in Runtime
          PROVE  phase'[q] = IF q = r THEN "live"
                             ELSE IF q = current THEN "doomed" ELSE phase[q]
      <4>1. CASE current = None
        BY <1>3, <2>1, <4>1, TenantAssumption DEF Set, Replaced, None, Runtime
      <4>2. CASE current # None
        BY <1>3, <2>1, <4>2 DEF Set, Replaced
      <4> QED
        BY <4>1, <4>2
    <3> QED
      BY <2>1, <3>1 DEF OnlyCurrentLive
  <2>4. ServedBuilt'
    BY <2>1, <1>3 DEF ServedBuilt, Set, Replaced
  <2>5. phase'[r] # "unbuilt" /\ fp'[r] = edition
    BY <1>3, <2>1 DEF Set, Replaced
  <2> QED
    BY <2>1, <2>2, <2>3, <2>4, <2>5
<1> QED
  BY <1>1, <1>2, <1>3 DEF RuntimeForUser

\* Dismissing the current runtime leaves no runtime live.
LEMMA ReplacedIsDoomed ==
  ASSUME IInv, current' = None, phase' = Replaced(phase)
  PROVE  OnlyCurrentLive' /\ (\A q \in Runtime : phase[q] # "unbuilt" => phase'[q] # "unbuilt")
BY TenantAssumption DEF IInv, TypeOK, OnlyCurrentLive, Replaced, Set, None, Runtime

\* Every step keeps what was built, and leaves at most the current runtime
\* live, with a connection if it has ever had one.
LEMMA TableStep ==
  IInv /\ [Next]_vars => Keeps /\ OnlyCurrentLive' /\ ServedBuilt' /\ ServedIsNotLeft'
<1> DEFINE Goal == Keeps /\ OnlyCurrentLive' /\ ServedBuilt' /\ ServedIsNotLeft'
<1> SUFFICES ASSUME IInv, [Next]_vars
             PROVE  Goal
  OBVIOUS
<1>a. TypeOK /\ OnlyCurrentLive /\ ServedBuilt /\ ServedIsNotLeft
  BY DEF IInv
<1>b. ASSUME UNCHANGED <<table, tracked, served>>
      PROVE  Goal
  BY <1>a, <1>b DEF table, Keeps, OnlyCurrentLive, ServedBuilt, ServedIsNotLeft
<1>c. ASSUME NEW r \in Runtime \union {None}, RuntimeForUser(r), tracked' = tracked
      PROVE  Goal
  BY <1>c, RuntimeFound DEF ServedIsNotLeft
<1>d. None \notin served
  BY <1>a, TenantAssumption DEF TypeOK, None, Runtime
<1>1. CASE Edit \/ Login \/ Tick
  BY <1>1, <1>b DEF Edit, Login, Tick, links
<1>2. CASE Logout \/ CloseAll
  <2>1. Dismiss /\ served' = served
    BY <1>2 DEF Logout, CloseAll
  <2> QED
    BY <2>1, <1>a, <1>d, ReplacedIsDoomed
       DEF Dismiss, Keeps, ServedBuilt, ServedIsNotLeft, TypeOK
<1>3. CASE Refresh
  BY <1>3, <1>c DEF Refresh, links
<1>4. ASSUME NEW c \in Conn, Connection(c)
      PROVE  Goal
  <2>1. CASE Ask(c) \/ Message(c) \/ Prompt(c) \/ OtherMessage(c)
    BY <2>1, <1>b DEF Ask, Message, Prompt, OtherMessage
  <2>2. CASE Grant(c)
    BY <2>2, <1>c DEF Grant
  <2>3. CASE Upgrade(c)
    <3>1. CASE UNCHANGED <<tracked, served>>
      BY <2>3, <3>1, <1>b DEF Upgrade
    <3>2. CASE tracked' = tracked \union {c} /\
               served' = IF current = None THEN served ELSE served \union {current}
      <4>1. current # None => phase[current] = "live"
        BY <1>a DEF TypeOK, OnlyCurrentLive
      <4> QED
        BY <2>3, <3>2, <4>1, <1>a
           DEF Upgrade, table, Keeps, OnlyCurrentLive, ServedBuilt, ServedIsNotLeft
    <3> QED
      BY <2>3, <3>1, <3>2 DEF Upgrade
  <2>4. CASE Open(c)
    BY <2>4, <1>c DEF Open
  <2>5. CASE Resolve(c)
    BY <2>5, <1>c DEF Resolve
  <2>6. CASE Leave(c)
    <3>1. CASE tracked = {c}
      BY <2>6, <3>1, <1>a, <1>d, ReplacedIsDoomed
         DEF Leave, Keeps, ServedBuilt, ServedIsNotLeft, TypeOK
    <3>2. CASE tracked # {c}
      <4>1. tracked # {} => tracked \ {c} # {}
        BY <3>2
      <4> QED
        BY <2>6, <3>2, <4>1, <1>a
           DEF Leave, Keeps, OnlyCurrentLive, ServedBuilt, ServedIsNotLeft
    <3> QED
      BY <3>1, <3>2
  <2> QED
    BY <1>4, <2>1, <2>2, <2>3, <2>4, <2>5, <2>6 DEF Connection
<1>5. ASSUME NEW r \in Runtime, Life(r)
      PROVE  Goal
  <2>1. CASE StreamEnds(r)
    BY <2>1, <1>b DEF StreamEnds, links
  <2>2. CASE Shut(r)
    BY <2>2, <1>a
       DEF Shut, Set, links, TypeOK, Keeps, OnlyCurrentLive, ServedBuilt, ServedIsNotLeft
  <2>3. CASE Sweep(r)
    BY <2>3, <1>a
       DEF Sweep, Set, links, TypeOK, Keeps, OnlyCurrentLive, ServedBuilt, ServedIsNotLeft
  <2> QED
    BY <1>5, <2>1, <2>2, <2>3 DEF Life
<1>6. ASSUME NEW s \in Server, StartServer(s) \/ ServerStarts(s)
      PROVE  Goal
  BY <1>6, <1>b DEF StartServer, ServerStarts, links
<1>7. CASE UNCHANGED vars
  BY <1>7, <1>b DEF vars, links
<1> QED
  BY <1>1, <1>2, <1>3, <1>4, <1>5, <1>6, <1>7 DEF Next

\* Every step keeps the messages with runtimes that are new enough for them.
LEMMA MessageStep ==
  IInv /\ [Next]_vars => HandlerBuilt' /\ ReadBefore' /\ EditsReachMessages'
<1> DEFINE Goal == HandlerBuilt' /\ ReadBefore' /\ EditsReachMessages'
<1> SUFFICES ASSUME IInv, [Next]_vars
             PROVE  Goal
  OBVIOUS
<1>a. TypeOK /\ TypeOK' /\ HandlerBuilt /\ ReadBefore /\ EditsReachMessages
  BY TypeStep DEF IInv
<1>b. Keeps
  BY TableStep
<1>c. edition \in Nat /\ edition' \in Nat /\ \A c \in Conn : since[c] \in Nat
  BY <1>a DEF TypeOK
<1>d. ASSUME edition' >= edition,
             \A c \in Conn : since'[c] = since[c] \/ since'[c] = 0,
             \A c \in Conn : link'[c] = "handling" =>
               link[c] = "handling" /\ bound'[c] = bound[c] /\ since'[c] = since[c]
      PROVE  Goal
  <2>1. HandlerBuilt'
    BY <1>a, <1>b, <1>d DEF HandlerBuilt, Keeps
  <2>2. ReadBefore'
    BY <1>a, <1>c, <1>d DEF ReadBefore
  <2>3. ASSUME NEW c \in Conn, link'[c] = "handling", NEW n \in Loadable(since'[c])
        PROVE  n <= fp'[bound'[c]] \/ \E e \in n + 1 .. edition' : e \in Broken
    <3>1. n \in Loadable(since[c]) /\ fp'[bound'[c]] = fp[bound[c]] /\ n \in Nat
      BY <1>a, <1>b, <1>c, <1>d, <2>3 DEF HandlerBuilt, Keeps, Loadable
    <3>2. n <= fp[bound[c]] \/ \E e \in n + 1 .. edition : e \in Broken
      BY <1>a, <1>d, <2>3, <3>1 DEF EditsReachMessages
    <3>3. n + 1 .. edition \subseteq n + 1 .. edition'
      BY <1>c, <1>d, <3>1
    <3> QED
      BY <3>1, <3>2, <3>3
  <2> QED
    BY <2>1, <2>2, <2>3 DEF EditsReachMessages
<1>e. ASSUME UNCHANGED links, edition' >= edition
      PROVE  Goal
  BY <1>d, <1>e DEF links
<1>1. CASE Edit
  BY <1>1, <1>c, <1>e DEF Edit
<1>2. CASE Login \/ Tick \/ Refresh
  BY <1>2, <1>c, <1>e DEF Login, Tick, Refresh, files
<1>3. CASE Logout \/ CloseAll
  BY <1>3, <1>c, <1>d DEF Logout, CloseAll, Dismiss
<1>4. ASSUME NEW c \in Conn, Connection(c)
      PROVE  Goal
  <2> USE <1>a DEF TypeOK, files, MovesTo, Set
  <2>1. CASE Ask(c) \/ Grant(c) \/ Upgrade(c) \/ Open(c) \/ Leave(c)
    BY <2>1, <1>c, <1>d DEF Ask, Grant, Upgrade, Open, Leave
  <2>2. CASE Message(c)
    <3>1. HandlerBuilt'
      BY <2>2 DEF Message, table, HandlerBuilt
    <3>2. ReadBefore'
      BY <2>2, <1>c DEF Message, ReadBefore
    <3>3. EditsReachMessages'
      BY <2>2 DEF Message, table, EditsReachMessages, Loadable
    <3> QED
      BY <3>1, <3>2, <3>3
  <2>3. CASE Resolve(c)
    <3>1. PICK r \in Runtime \union {None} :
            /\ RuntimeForUser(r)
            /\ IF r = None
                 THEN Handled(c)
                 ELSE MovesTo(c, "handling") /\ bound' = Set(bound, c, r) /\ UNCHANGED since
      BY <2>3 DEF Resolve
    <3>2. edition' = edition
      BY <2>3 DEF Resolve
    <3>3. CASE r = None
      BY <3>1, <3>2, <3>3, <1>c, <1>d DEF Handled
    <3>4. CASE r # None
      <4>1. /\ r \in Runtime /\ link' = Set(link, c, "handling")
            /\ bound' = Set(bound, c, r) /\ since' = since
        BY <3>1, <3>4
      <4>2. phase'[r] # "unbuilt" /\ (fp'[r] = edition \/ edition \in Broken)
        BY <3>1, <4>1, RuntimeFound
      <4>3. HandlerBuilt'
        BY <4>1, <4>2, <1>b DEF HandlerBuilt, Keeps
      <4>4. ReadBefore'
        BY <4>1, <3>2 DEF ReadBefore
      <4>5. ASSUME NEW n \in Loadable(since[c])
            PROVE  n <= fp'[r] \/ \E e \in n + 1 .. edition : e \in Broken
        <5>1. n \in Nat /\ n <= since[c] /\ since[c] <= edition /\ n \notin Broken
          BY <4>5, <1>c DEF Loadable, ReadBefore
        <5> QED
          BY <4>2, <5>1, <1>c
      <4>6. ASSUME NEW d \in Conn, link'[d] = "handling", d # c,
                   NEW n \in Loadable(since[d])
            PROVE  n <= fp'[bound'[d]] \/ \E e \in n + 1 .. edition : e \in Broken
        <5>1. link[d] = "handling" /\ bound'[d] = bound[d]
          BY <4>1, <4>6
        <5>2. fp'[bound[d]] = fp[bound[d]]
          BY <5>1, <1>b DEF HandlerBuilt, Keeps
        <5> QED
          BY <5>1, <5>2, <4>6 DEF EditsReachMessages
      <4>7. EditsReachMessages'
        BY <3>2, <4>1, <4>5, <4>6 DEF EditsReachMessages, Loadable
      <4> QED
        BY <4>3, <4>4, <4>7
    <3> QED
      BY <3>3, <3>4
  <2>4. CASE Prompt(c) \/ OtherMessage(c)
    BY <2>4, <1>c, <1>d DEF Prompt, OtherMessage, Handled
  <2> QED
    BY <1>4, <2>1, <2>2, <2>3, <2>4 DEF Connection
<1>5. ASSUME NEW r \in Runtime, Life(r)
      PROVE  Goal
  BY <1>5, <1>c, <1>e DEF Life, StreamEnds, Shut, Sweep, files
<1>6. ASSUME NEW s \in Server, StartServer(s) \/ ServerStarts(s)
      PROVE  Goal
  BY <1>6, <1>c, <1>e DEF StartServer, ServerStarts, files
<1>7. CASE UNCHANGED vars
  BY <1>7, <1>c, <1>e DEF vars, files
<1> QED
  BY <1>1, <1>2, <1>3, <1>4, <1>5, <1>6, <1>7 DEF Next

\* The invariant is inductive.
LEMMA StepIInv == IInv /\ [Next]_vars => IInv'
BY TypeStep, TableStep, MessageStep DEF IInv

\* The invariant holds in every reachable state.
LEMMA Invariant == Spec => []IInv
BY InitIInv, StepIInv, PTL DEF Spec

-----------------------------------------------------------------------------
(* What follows for every behaviour of the runtimes.                       *)

\* Type correctness of the table, the connections and the pool.
THEOREM TypeCorrect == Spec => []TypeOK
<1>1. IInv => TypeOK
  BY DEF IInv
<1> QED
  BY <1>1, Invariant, PTL

\* However replacing, refreshing, dropping, logging out and shutting down
\* interleave, only the runtime of the table is live: main.go never forgets one
\* that it does not also close.
THEOREM OneRuntimeLives == Spec => []OnlyCurrentLive
<1>1. IInv => OnlyCurrentLive
  BY DEF IInv
<1> QED
  BY <1>1, Invariant, PTL

\* A runtime that has had a connection leaves the table with the last one.
THEOREM LeftWithTheLast == Spec => []ServedIsNotLeft
<1>1. IInv => ServedIsNotLeft
  BY DEF IInv
<1> QED
  BY <1>1, Invariant, PTL

\* A message meets a runtime of the files as they were when it was read, or
\* newer, unless an edition that does not load keeps an older one in place.
THEOREM MessagesMeetEdits == Spec => []EditsReachMessages
<1>1. IInv => EditsReachMessages
  BY DEF IInv
<1> QED
  BY <1>1, Invariant, PTL
===============================================================================
