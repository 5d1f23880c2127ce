-------------------------- MODULE Lifecycle_proofs --------------------------
(***************************************************************************)
(* Proofs about module Lifecycle, for any set of requests and either or    *)
(* both protocols.                                                         *)
(*                                                                         *)
(* fx builds and starts in one order and stops in the reverse one, so the  *)
(* two counters built and started say which clients can be open, whether   *)
(* the instance is listed and whether the server is shut.  The invariant   *)
(* ties each of those to its counter.                                      *)
(***************************************************************************)
EXTENDS Lifecycle, TLAPS

\* What has been built but not stopped is open, and nothing else is.
ClientsFollow ==
  /\ OpenClientsAreOwned
  /\ phase = "probing" => Building \in Clients /\ client[Building] = "open"
  /\ \A r \in Clients :
       /\ Up /\ Position[r] <= built => client[r] # "absent"
       /\ Stopping /\ started < Position[r] => client[r] = "closed"
       /\ Up /\ client[r] = "closed" => Stopping /\ started < Position[r]
       /\ client[r] = "closing" => r = "postgres"
  /\ Up => (client["postgres"] = "closing" <=> stopStep = "closing")

\* Hooks run when everything is built.
HooksFollow ==
  /\ phase \in {"building", "probing"} => started = 0 /\ ~listed
  /\ phase \in {"starting", "running", "undoing", "stopping"} => built = 6
  /\ phase \in {"starting", "undoing"} => started < 6
  /\ phase = "running" => started = 6
  /\ Stopping /\ started = 0 => ~listed
  /\ phase = "probing" => built < 6

\* The server and the telemetry follow the hooks that own them.
ServerFollows ==
  /\ server = "new" => \A q \in Requests : req[q] = "none"
  /\ phase \in {"building", "probing", "starting"} => server = "new"
  /\ phase \in {"building", "probing", "starting", "undoing"} =>
       /\ server # "listening" /\ serving = "none"
       /\ telemetry = "on" /\ stopStep \in {"none", "closing"}
  /\ Up /\ ~Stopping => stopStep = "none"
  /\ stopStep \in {"draining", "flushing"} => started = 6
  /\ stopStep = "closing" => started = 2
  /\ phase = "stopping" /\ started < 6 => telemetry # "on"
  /\ Stopping /\ started < 5 => server = "shut" /\ Drained

\* How the process ended and what it left behind.
EndsFollow ==
  /\ Up <=> exit = "none"
  /\ CleanExitIsClean
  /\ FailedStartIsUndone

\* The inductive invariant.
IInv ==
  /\ TypeOK
  /\ ClientsFollow
  /\ HooksFollow
  /\ ServerFollows
  /\ EndsFollow
  /\ HTTP1KeepsItsClients

-----------------------------------------------------------------------------
(* The order of the hooks. *)

\* The hooks in their order.
LEMMA HooksAreOrdered ==
  /\ Hooks[1] = "registry" /\ Hooks[2] = "postgres" /\ Hooks[3] = "redis"
  /\ Hooks[4] = "catalog" /\ Hooks[5] = "http" /\ Hooks[6] = "main"
BY DEF Hooks

\* The position of each hook.
LEMMA Positions ==
  /\ Position["registry"] = 1 /\ Position["postgres"] = 2
  /\ Position["redis"] = 3 /\ Position["catalog"] = 4
  /\ Position["http"] = 5 /\ Position["main"] = 6
BY DEF Position, Hooks

\* The next hook to be appended stands behind all the others.
LEMMA HookAtPosition ==
  \A n \in 0..5 : Position[Hooks[n + 1]] = n + 1
<1>. SUFFICES ASSUME NEW n \in 0..5
              PROVE  Position[Hooks[n + 1]] = n + 1
  OBVIOUS
<1>1. n = 0 \/ n = 1 \/ n = 2 \/ n = 3 \/ n = 4 \/ n = 5
  OBVIOUS
<1>. QED
  BY <1>1, Positions, HooksAreOrdered

-----------------------------------------------------------------------------
(* The invariant. *)

\* Nothing is built, and nothing is left to stop.
LEMMA InitIInv == Init => IInv
<1>. SUFFICES ASSUME Init PROVE IInv
  OBVIOUS
<1>1. TypeOK
  <2>1. kind \in [Requests -> {"http1", "h2c"}]
    BY KindsAssumption DEF Init
  <2>2. /\ client \in [Clients -> {"absent", "open", "closing", "closed"}]
        /\ req \in [Requests -> {"none", "running", "querying", "done"}]
    BY DEF Init
  <2>3. built \in 0..6 /\ started \in 0..built
    BY DEF Init
  <2>4. hurt \subseteq Requests
    BY DEF Init
  <2>. QED  BY <2>1, <2>2, <2>3, <2>4, Zenon DEF Init, TypeOK
<1>2. ClientsFollow
  BY Positions DEF Init, ClientsFollow, OpenClientsAreOwned, Stopping, Clients, Up
<1>3. HooksFollow
  BY DEF Init, HooksFollow, Stopping
<1>4. ServerFollows
  BY DEF Init, ServerFollows, Stopping, Up
<1>5. EndsFollow /\ HTTP1KeepsItsClients
  BY DEF Init, EndsFollow, CleanExitIsClean, FailedStartIsUndone, Up,
         HTTP1KeepsItsClients
<1>. QED  BY <1>1, <1>2, <1>3, <1>4, <1>5 DEF IInv

\* A constructor opens its client, and closes it again when it fails.
LEMMA BuildingIInv ==
  ASSUME IInv,
         Build \/ OpenClient \/ BuildFails \/ ProbeOk \/ ProbeFails \/ AllBuilt
  PROVE  IInv'
<1>. USE DEF IInv, TypeOK, ClientsFollow, OpenClientsAreOwned, HooksFollow, ServerFollows,
             EndsFollow, CleanExitIsClean, FailedStartIsUndone, HTTP1KeepsItsClients, Up,
             Stopping, Clients, Drained, InFlight, Building, Exit, startVars, httpVars
<1>1. CASE Build
  BY <1>1, Positions, HookAtPosition, HooksAreOrdered DEF Build
<1>2. CASE OpenClient
  BY <1>2, Positions, HookAtPosition DEF OpenClient
<1>3. CASE BuildFails
  BY <1>3, Positions DEF BuildFails
<1>4. CASE ProbeOk
  BY <1>4, Positions, HookAtPosition DEF ProbeOk
<1>5. CASE ProbeFails
  BY <1>5, Positions, HookAtPosition DEF ProbeFails
<1>6. CASE AllBuilt
  BY <1>6, Positions DEF AllBuilt
<1>. QED  BY <1>1, <1>2, <1>3, <1>4, <1>5, <1>6

\* The hooks start in their order.
LEMMA StartingIInv ==
  ASSUME IInv,
         StartHook \/ StartMain \/ StartFails \/ Signal
  PROVE  IInv'
<1>. USE DEF IInv, TypeOK, ClientsFollow, OpenClientsAreOwned, HooksFollow,
             ServerFollows, EndsFollow, CleanExitIsClean, FailedStartIsUndone,
             HTTP1KeepsItsClients, Up, Stopping, Clients, Drained, InFlight, Building,
             startVars, httpVars
<1>1. CASE StartHook
  BY <1>1, Positions, HooksAreOrdered DEF StartHook
<1>2. CASE StartMain
  BY <1>2, Positions DEF StartMain
<1>3. CASE StartFails
  BY <1>3, Positions DEF StartFails
<1>4. CASE Signal
  BY <1>4, Positions DEF Signal
<1>. QED  BY <1>1, <1>2, <1>3, <1>4

\* The goroutine that serves opens the port at most once.
LEMMA ServingIInv ==
  ASSUME IInv,
         Listen \/ ServeEnds \/ ListenFails
  PROVE  IInv'
<1>. USE DEF IInv, TypeOK, ClientsFollow, OpenClientsAreOwned, HooksFollow, ServerFollows,
             EndsFollow, CleanExitIsClean, FailedStartIsUndone, HTTP1KeepsItsClients, Up,
             Stopping, Clients, Drained, InFlight, Building, Exit, startVars
<1>1. CASE Listen
  BY <1>1, Positions DEF Listen
<1>2. CASE ServeEnds
  BY <1>2, Positions DEF ServeEnds
<1>3. CASE ListenFails
  BY <1>3, Positions DEF ListenFails
<1>. QED  BY <1>1, <1>2, <1>3

\* A request in flight has a server behind it that was not drained yet.
LEMMA RequestIInv ==
  ASSUME IInv, NEW q \in Requests,
         Arrive(q) \/ Query(q) \/ QueryEnds(q) \/ Finish(q) \/ Fetch(q)
  PROVE  IInv'
<1>. USE DEF IInv, TypeOK, ClientsFollow, OpenClientsAreOwned, HooksFollow,
             ServerFollows, EndsFollow, CleanExitIsClean, FailedStartIsUndone,
             HTTP1KeepsItsClients, Up, Stopping, Clients, Drained, InFlight, Building,
             startVars
<1>1. CASE Arrive(q)
  BY <1>1, Positions DEF Arrive
<1>2. CASE Query(q)
  BY <1>2, Positions DEF Query
<1>3. CASE QueryEnds(q)
  BY <1>3, Positions DEF QueryEnds
<1>4. CASE Finish(q)
  BY <1>4, Positions DEF Finish
<1>5. CASE Fetch(q)
  BY <1>5, Positions DEF Fetch
<1>. QED  BY <1>1, <1>2, <1>3, <1>4, <1>5

\* The main hook and the hook of the server drain it before any client is closed.
LEMMA ShutdownIInv ==
  ASSUME IInv,
         StopMain \/ MainDrained \/ MainFlushed \/ StopHTTP \/ Expire \/ WindowEnds
  PROVE  IInv'
<1>. USE DEF IInv, TypeOK, ClientsFollow, OpenClientsAreOwned, HooksFollow,
             ServerFollows, EndsFollow, CleanExitIsClean, FailedStartIsUndone,
             HTTP1KeepsItsClients, Up, Stopping, Clients, Drained, InFlight, Building,
             startVars, httpVars
<1>1. CASE StopMain
  BY <1>1, Positions, HooksAreOrdered DEF StopMain, NextToStop
<1>2. CASE MainDrained
  BY <1>2, Positions DEF MainDrained
<1>3. CASE MainFlushed
  BY <1>3, Positions DEF MainFlushed, Stopped
<1>4. CASE StopHTTP
  BY <1>4, Positions, HooksAreOrdered DEF StopHTTP, NextToStop, Stopped
<1>5. CASE Expire
  BY <1>5, Positions DEF Expire, WindowMayEnd
<1>6. CASE WindowEnds
  BY <1>6, Positions DEF WindowEnds, Exit
<1>. QED  BY <1>1, <1>2, <1>3, <1>4, <1>5, <1>6

\* Clients are closed in the reverse of their order, and the instance is taken
\* off the list at last.
LEMMA ClosingIInv ==
  ASSUME IInv, NEW r \in Clients,
         StopClient(r) \/ ClosePool \/ PoolClosed \/ StopRegistry \/ StopDone
  PROVE  IInv'
<1>. USE DEF IInv, TypeOK, ClientsFollow, OpenClientsAreOwned, HooksFollow,
             ServerFollows, EndsFollow, CleanExitIsClean, FailedStartIsUndone,
             HTTP1KeepsItsClients, Up, Stopping, Clients, Drained, InFlight, Building,
             startVars, httpVars
<1>1. CASE StopClient(r)
  BY <1>1, Positions, HooksAreOrdered DEF StopClient, NextToStop, Stopped
<1>2. CASE StopRegistry
  <2>1. started = 1
    BY <1>2, HooksAreOrdered DEF StopRegistry, NextToStop
  <2>2. started' = 0
    BY <1>2, <2>1 DEF StopRegistry, Stopped
  <2>3. TypeOK'
    <3>1. listed' \in BOOLEAN
      BY <1>2, Zenon DEF StopRegistry
    <3>2. started' \in 0..built'
      BY <1>2, <2>2 DEF StopRegistry
    <3>. QED  BY <1>2, <3>1, <3>2 DEF StopRegistry
  <2>6. HooksFollow'
    BY <1>2, <2>1, <2>2 DEF StopRegistry, NextToStop
  <2>7. ServerFollows'
    BY <1>2, <2>1, <2>2 DEF StopRegistry, NextToStop
  <2>4. ClientsFollow'
    BY <1>2, <2>1, <2>2, Positions DEF StopRegistry, NextToStop
  <2>5. EndsFollow' /\ HTTP1KeepsItsClients'
    BY <1>2 DEF StopRegistry, NextToStop
  <2>. QED  BY <2>3, <2>4, <2>5, <2>6, <2>7
<1>3. CASE StopDone
  BY <1>3, Positions DEF StopDone, Exit
<1>4. CASE ClosePool
  BY <1>4, Positions, HooksAreOrdered DEF ClosePool, NextToStop
<1>5. CASE PoolClosed
  BY <1>5, Positions, HooksAreOrdered DEF PoolClosed, Stopped
<1>. QED  BY <1>1, <1>2, <1>3, <1>4, <1>5

\* Every step keeps the invariant.
LEMMA NextIInv == IInv /\ [Next]_vars => IInv'
<1>. SUFFICES ASSUME IInv, [Next]_vars PROVE IInv'
  OBVIOUS
<1>1. CASE Main
  BY <1>1, BuildingIInv, StartingIInv, ShutdownIInv, ClosingIInv DEF Main, Clients
<1>2. CASE Signal \/ Expire
  BY <1>2, StartingIInv, ShutdownIInv
<1>3. CASE Listen \/ ServeEnds \/ ListenFails
  BY <1>3, ServingIInv
<1>4. CASE \E q \in Requests :
             Arrive(q) \/ Query(q) \/ QueryEnds(q) \/ Finish(q) \/ Fetch(q)
  BY <1>4, RequestIInv
<1>5. CASE UNCHANGED vars
  BY <1>5 DEF vars, IInv, TypeOK, ClientsFollow, OpenClientsAreOwned, HooksFollow,
              ServerFollows, EndsFollow, CleanExitIsClean, FailedStartIsUndone,
              HTTP1KeepsItsClients, Up, Stopping, Clients, Drained, InFlight,
              Building
<1>. QED  BY <1>1, <1>2, <1>3, <1>4, <1>5 DEF Next

\* The invariant holds in every state of every run of the process.
LEMMA Invariant == Spec => []IInv
BY InitIInv, NextIInv, PTL DEF Spec

-----------------------------------------------------------------------------
(* The theorems. *)

\* The variables have their types.
THEOREM TypeCorrect == Spec => []TypeOK
<1>1. IInv => TypeOK
  BY DEF IInv
<1>. QED  BY <1>1, Invariant, PTL

\* No early return of a constructor leaks a client (db_postgres.go 142-169,
\* cache_redis.go 59-94, search_catalog.go 61-68).
THEOREM ClientsAreOwned == Spec => []OpenClientsAreOwned
<1>1. IInv => OpenClientsAreOwned
  BY DEF IInv, ClientsFollow
<1>. QED  BY <1>1, Invariant, PTL

\* However many HTTP/1 requests there are and whenever the window ends, none of
\* them finds a client closed (main.go 158-178, server.go 90-93).
THEOREM HTTP1IsSafe == Spec => []HTTP1KeepsItsClients
<1>1. IInv => HTTP1KeepsItsClients
  BY DEF IInv
<1>. QED  BY <1>1, Invariant, PTL

\* Exit status 0 means that nothing was left undone (main.go 57-62).
THEOREM CleanExit == Spec => []CleanExitIsClean
<1>1. IInv => CleanExitIsClean
  BY DEF IInv, EndsFollow
<1>. QED  BY <1>1, Invariant, PTL

\* A refused start is undone (main.go 46-49, 130-138).
THEOREM RefusedStartIsUndone == Spec => []FailedStartIsUndone
<1>1. IInv => FailedStartIsUndone
  BY DEF IInv, EndsFollow
<1>. QED  BY <1>1, Invariant, PTL

-----------------------------------------------------------------------------
(* What the two windows in which the code breaks its promises come from. *)

\* A request has the protocol it came with.
LEMMA ProtocolsAreFixed == Spec => [](kind \in [Requests -> Kinds])
<1>1. Init => kind \in [Requests -> Kinds]
  BY DEF Init
<1>2. (kind \in [Requests -> Kinds]) /\ [Next]_vars => (kind \in [Requests -> Kinds])'
  <2>. SUFFICES ASSUME [Next]_vars PROVE kind' = kind
    OBVIOUS
  <2>. QED
    BY DEF Next, Main, Build, OpenClient, BuildFails, ProbeOk, ProbeFails, AllBuilt,
           StartHook, StartMain, StartFails, StopMain, MainDrained, MainFlushed, StopHTTP,
           StopClient, ClosePool, PoolClosed, StopRegistry, StopDone, WindowEnds, Signal,
           Expire, Listen, ServeEnds, ListenFails, Arrive, Query, QueryEnds, Finish,
           Fetch, httpVars, vars
<1>. QED  BY <1>1, <1>2, PTL DEF Spec

\* Where no client speaks h2c the shutdown is as graceful as README.md 93 says:
\* what http.Server does not know of are only the connections of h2c
\* (server.go 69-72).
THEOREM WithoutH2CNoneIsHurt ==
  ASSUME "h2c" \notin Kinds
  PROVE  Spec => []NoRequestLosesItsClients
<1>1. IInv /\ kind \in [Requests -> Kinds] => NoRequestLosesItsClients
  BY KindsAssumption DEF IInv, TypeOK, HTTP1KeepsItsClients, NoRequestLosesItsClients
<1>. QED  BY <1>1, Invariant, ProtocolsAreFixed, PTL

\* No request has come yet.
Idle == \A q \in Requests : req[q] = "none"

\* An idle server has not run out of its window.
IdleInTime == Idle => ~expired /\ HooksFinishInWindow

\* A server that no request has come to runs all its OnStop hooks within the
\* window, as main.go 54-56 says: only requests in flight use it up.
THEOREM IdleStopsInTime == PromptSpec => [](Idle => HooksFinishInWindow)
<1>1. Init => IdleInTime
  BY DEF Init, IdleInTime, HooksFinishInWindow
<1>2. IInv /\ IdleInTime /\ [PromptNext]_vars => IdleInTime'
  <2>. SUFFICES ASSUME IInv, IdleInTime, [PromptNext]_vars, Idle'
                PROVE  (~expired /\ HooksFinishInWindow)'
    BY DEF IdleInTime
  <2>1. Idle
    BY DEF IInv, TypeOK, Idle, PromptNext, Next, Main, Build, OpenClient, BuildFails,
           ProbeOk, ProbeFails, AllBuilt, StartHook, StartMain, StartFails, StopMain,
           MainDrained, MainFlushed, StopHTTP, StopClient, ClosePool, PoolClosed,
           StopRegistry, StopDone, WindowEnds, Signal, Expire, Listen, ServeEnds,
           ListenFails, Arrive, Query, QueryEnds, Finish, Fetch, httpVars, vars
  <2>2. ~HeldUp
    BY <2>1 DEF Idle, HeldUp, Drained, InFlight
  <2>3. ~expired /\ ~expired' /\ HooksFinishInWindow
    BY <2>1, <2>2 DEF IdleInTime, PromptNext, IInv, TypeOK, vars
  <2>4. HooksFinishInWindow'
    <3>1. CASE UNCHANGED vars
      BY <2>3, <3>1 DEF HooksFinishInWindow, vars
    <3>2. CASE UNCHANGED exit /\ exit # "none"
      <4>1. ~Up
        BY <3>2 DEF IInv, EndsFollow
      <4>2. UNCHANGED started
        BY <4>1, <3>2 DEF PromptNext, Next, Main, Build, OpenClient, BuildFails, ProbeOk,
           ProbeFails, AllBuilt, StartHook, StartMain, StartFails, StopMain, MainDrained,
           MainFlushed, StopHTTP, StopClient, ClosePool, PoolClosed, StopRegistry,
           StopDone, WindowEnds, Signal, Expire, Listen, ServeEnds, ListenFails, Arrive,
           Query, QueryEnds, Finish, Fetch, NextToStop, Stopping, Up, Exit, vars
      <4>. QED  BY <2>3, <3>2, <4>2 DEF HooksFinishInWindow
    <3>3. CASE UNCHANGED exit /\ exit = "none"
      BY <3>3 DEF HooksFinishInWindow
    <3>4. CASE exit' # exit
      <4>1. exit' = "not_stopped" => StopDone
        BY <2>3, <3>4 DEF PromptNext, Next, Main, Build, OpenClient, BuildFails, ProbeOk,
           ProbeFails, AllBuilt, StartHook, StartMain, StartFails, StopMain, MainDrained,
           MainFlushed, StopHTTP, StopClient, ClosePool, PoolClosed, StopRegistry,
           WindowEnds, Signal, Expire, Listen, ServeEnds, ListenFails, Arrive, Query,
           QueryEnds, Finish, Fetch, Exit, vars
      <4>2. StopDone => started' = 0
        BY DEF StopDone
      <4>. QED  BY <4>1, <4>2 DEF HooksFinishInWindow
    <3>. QED  BY <3>1, <3>2, <3>3, <3>4
  <2>. QED  BY <2>3, <2>4
<1>3. IdleInTime => (Idle => HooksFinishInWindow)
  BY DEF IdleInTime
<1>4. [PromptNext]_vars => [Next]_vars
  BY DEF PromptNext
<1>. QED  BY <1>1, <1>2, <1>3, <1>4, Invariant, PTL DEF PromptSpec, Spec

-----------------------------------------------------------------------------
(* Why the process ends. *)

\* How many steps main, the hooks and the window have left at most.  Each hook
\* that is to stop has three, as many as the one of main takes.
StepsLeft ==
  CASE phase = "building" -> 36 + 2 * (6 - built)
    [] phase = "probing" -> 35 + 2 * (6 - built)
    [] phase = "starting" -> 35 - started
    [] phase = "running" -> 22
    [] phase \in {"stopping", "undoing"} ->
         3 * started + (IF expired THEN 1 ELSE 2)
           - (CASE stopStep = "none" -> 0 [] stopStep \in {"draining", "closing"} -> 1
                [] stopStep = "flushing" -> 2)
    [] phase = "exited" -> 0

\* No step of anybody adds to them, and each of their own takes from them.
MainAdvances ==
  /\ StepsLeft' <= StepsLeft
  /\ Main \/ Signal \/ Expire => StepsLeft' < StepsLeft

\* The hooks of a start that failed run without a deadline; none of them waits
\* for a request.
UndoingIsQuick == phase = "undoing" => ~HeldUp /\ Drained

\* No request comes before the start is over.
NoneBeforeStart ==
  phase \in {"building", "probing", "starting", "undoing"} =>
    \A q \in Requests : req[q] = "none"

\* What the count depends on.
Counted ==
  /\ built \in 0..6 /\ started \in 0..6 /\ expired \in BOOLEAN
  /\ phase \in {"building", "probing", "starting", "running", "undoing", "stopping",
                "exited"}
  /\ stopStep \in {"none", "draining", "flushing", "closing"}
  /\ stopStep \in {"draining", "flushing"} => started = 6
  /\ stopStep = "closing" => started = 2
  /\ phase \in {"starting", "undoing"} => started < 6
  /\ phase \in {"building", "probing"} => started = 0
  /\ phase \in {"building", "probing", "starting", "running"} => stopStep = "none"
  /\ phase = "running" => started = 6
  /\ phase = "probing" => built < 6

\* The steps left are a number, and 0 only at the end.
LEMMA StepsAreCounted ==
  ASSUME IInv
  PROVE  Counted /\ StepsLeft \in 0..48 /\ (StepsLeft = 0 <=> phase = "exited")
<1>1. Counted
  BY DEF Counted, IInv, TypeOK, HooksFollow, ServerFollows, Stopping, Up
<1>2. CASE phase \in {"stopping", "undoing"}
  <2>1. StepsLeft = 3 * started + (IF expired THEN 1 ELSE 2)
           - (CASE stopStep = "none" -> 0 [] stopStep \in {"draining", "closing"} -> 1
                [] stopStep = "flushing" -> 2)
    BY <1>2 DEF StepsLeft
  <2>. QED  BY <1>1, <1>2, <2>1 DEF Counted
<1>3. CASE phase \notin {"stopping", "undoing"}
  BY <1>1, <1>3 DEF Counted, StepsLeft
<1>. QED  BY <1>1, <1>2, <1>3

\* The same of the next state.
LEMMA NextStepsAreCounted ==
  ASSUME IInv'
  PROVE  Counted' /\ StepsLeft' \in 0..48
<1>1. Counted'
  BY DEF Counted, IInv, TypeOK, HooksFollow, ServerFollows, Stopping, Up
<1>2. CASE phase' \in {"stopping", "undoing"}
  <2>1. StepsLeft' = 3 * started' + (IF expired' THEN 1 ELSE 2)
           - (CASE stopStep' = "none" -> 0 [] stopStep' \in {"draining", "closing"} -> 1
                [] stopStep' = "flushing" -> 2)
    BY <1>2 DEF StepsLeft
  <2>. QED  BY <1>1, <1>2, <2>1 DEF Counted
<1>3. CASE phase' \notin {"stopping", "undoing"}
  BY <1>1, <1>3 DEF Counted, StepsLeft
<1>. QED  BY <1>1, <1>2, <1>3

\* Each step of main, of a hook and of the window takes at least one.
LEMMA MainStepsCount ==
  ASSUME IInv, IInv', Main \/ Signal \/ Expire
  PROVE  StepsLeft' < StepsLeft
<1>1. /\ Counted /\ StepsLeft \in 0..48 /\ (StepsLeft = 0 <=> phase = "exited")
      /\ Counted'
  BY StepsAreCounted, NextStepsAreCounted
<1>2. CASE phase' = "exited" /\ phase # "exited"
  <2>1. StepsLeft' = 0
    BY <1>2 DEF StepsLeft
  <2>. QED  BY <1>1, <1>2, <2>1
<1>3. CASE Build \/ OpenClient \/ ProbeOk \/ AllBuilt
  BY <1>1, <1>3 DEF Build, OpenClient, ProbeOk, AllBuilt, StepsLeft, Counted
<1>4. CASE StartHook \/ StartMain \/ StartFails
  BY <1>1, <1>4 DEF StartHook, StartMain, StartFails, StepsLeft, Counted
<1>5. CASE StopMain \/ MainDrained \/ MainFlushed
  BY <1>1, <1>5 DEF StopMain, MainDrained, MainFlushed, Stopped, NextToStop, Stopping, Up,
     StepsLeft, Counted
<1>6. CASE StopHTTP \/ StopRegistry \/ ClosePool \/ PoolClosed
             \/ \E r \in Clients : StopClient(r)
  BY <1>1, <1>6 DEF StopHTTP, StopRegistry, StopClient, ClosePool, PoolClosed, Stopped,
     NextToStop, Stopping, Up, StepsLeft, Counted
<1>7. CASE Signal \/ Expire
  BY <1>1, <1>7 DEF Signal, Expire, WindowMayEnd, StepsLeft, Counted
<1>8. CASE BuildFails \/ ProbeFails \/ StopDone \/ WindowEnds
  BY <1>2, <1>8 DEF BuildFails, ProbeFails, StopDone, WindowEnds, Exit, Stopping
<1>. QED  BY <1>3, <1>4, <1>5, <1>6, <1>7, <1>8 DEF Main

\* The process makes at most 48 steps of its own from start to exit, and no
\* request and no goroutine takes any of them back; a stop is cut off by its
\* window, and the undoing of a failed start, which has none, waits for nobody
\* (main.go 46-62, 130-178).  That a signal ends the process then only takes
\* that time passes and that goroutines run.
THEOREM ProcessAdvances ==
  Spec => /\ [](StepsLeft \in 0..48 /\ (StepsLeft = 0 <=> phase = "exited"))
          /\ []UndoingIsQuick
          /\ [][MainAdvances]_vars
<1>1. Init => NoneBeforeStart
  BY DEF Init, NoneBeforeStart
<1>2. IInv /\ NoneBeforeStart /\ [Next]_vars => NoneBeforeStart'
  <2>. SUFFICES ASSUME IInv, NoneBeforeStart, [Next]_vars,
                       phase' \in {"building", "probing", "starting", "undoing"}
                PROVE  \A q \in Requests : req'[q] = "none"
    BY DEF NoneBeforeStart
  <2>1. phase \in {"building", "probing", "starting", "undoing"}
    BY DEF Next, Main, Build, OpenClient, BuildFails, ProbeOk, ProbeFails, AllBuilt,
           StartHook, StartMain, StartFails, StopMain, MainDrained, MainFlushed, StopHTTP,
           StopClient, ClosePool, PoolClosed, StopRegistry, StopDone, WindowEnds, Signal,
           Expire, Listen, ServeEnds, ListenFails, Arrive, Query, QueryEnds, Finish,
           Fetch, Exit, startVars, vars
  <2>2. server # "listening" /\ \A q \in Requests : req[q] = "none"
    BY <2>1 DEF NoneBeforeStart, IInv, ServerFollows
  <2>3. UNCHANGED req
    BY <2>2 DEF Next, Main, Build, OpenClient, BuildFails, ProbeOk, ProbeFails, AllBuilt,
           StartHook, StartMain, StartFails, StopMain, MainDrained, MainFlushed, StopHTTP,
           StopClient, ClosePool, PoolClosed, StopRegistry, StopDone, WindowEnds, Signal,
           Expire, Listen, ServeEnds, ListenFails, Arrive, Query, QueryEnds, Finish,
           Fetch, httpVars, vars
  <2>. QED  BY <2>2, <2>3
<1>3. IInv /\ NoneBeforeStart => UndoingIsQuick
  BY DEF NoneBeforeStart, UndoingIsQuick, HeldUp, Drained, InFlight
<1>4. IInv /\ IInv' /\ [Next]_vars => [MainAdvances]_vars
  <2>. SUFFICES ASSUME IInv, IInv', Next PROVE MainAdvances
    OBVIOUS
  <2>1. StepsLeft \in 0..48 /\ StepsLeft' \in 0..48
    BY StepsAreCounted, NextStepsAreCounted
  <2>2. CASE Main \/ Signal \/ Expire
    BY <2>1, <2>2, MainStepsCount DEF MainAdvances
  <2>3. CASE ~(Main \/ Signal \/ Expire)
    <3>1. UNCHANGED <<phase, built, started, stopStep, expired>> \/ phase' = "exited"
      BY <2>3 DEF Next, Listen, ServeEnds, ListenFails, Exit, Arrive, Query, QueryEnds,
         Finish, Fetch, startVars
    <3>2. StepsLeft' = StepsLeft \/ StepsLeft' = 0
      <4>1. CASE UNCHANGED <<phase, built, started, stopStep, expired>>
        BY <4>1, Zenon DEF StepsLeft
      <4>2. CASE phase' = "exited"
        BY <4>2 DEF StepsLeft
      <4>. QED  BY <3>1, <4>1, <4>2
    <3>. QED  BY <2>1, <2>3, <3>2 DEF MainAdvances
  <2>. QED  BY <2>2, <2>3
<1>5. IInv => StepsLeft \in 0..48 /\ (StepsLeft = 0 <=> phase = "exited")
  BY StepsAreCounted
<1>. QED  BY <1>1, <1>2, <1>3, <1>4, <1>5, Invariant, PTL DEF Spec
=============================================================================
