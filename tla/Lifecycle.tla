----------------------------- MODULE Lifecycle -----------------------------
(***************************************************************************)
(* One run of the server process: fx builds the clients, runs the OnStart  *)
(* hooks, serves requests and, after a signal, runs the OnStop hooks in    *)
(* reverse under the 7 second window of cmd/server/main.go.  Concurrently  *)
(* with them run the goroutine that serves HTTP (main.go 150-154) and the  *)
(* requests.                                                               *)
(*                                                                         *)
(* fx and net/http are modelled by what this code relies on.  fx starts    *)
(* hooks in the order they were appended; a failing OnStart makes it stop  *)
(* the hooks already started, in reverse, and Start returns the error; a   *)
(* stop whose context is done skips the hooks that are left and returns.   *)
(* http.Server.Shutdown closes the listener, waits for HTTP/1 requests     *)
(* until its context is done, and does not know of the connections h2c     *)
(* took over (server.go 69-72 configures no http2.Server on it).           *)
(***************************************************************************)
EXTENDS Naturals

CONSTANTS
  Requests,   \* requests that may arrive, each at most once
  Kinds       \* protocols clients speak: a subset of {"http1", "h2c"}

ASSUME KindsAssumption == Kinds \subseteq {"http1", "h2c"}

VARIABLES
  phase,      \* where the main goroutine is
  built,      \* constructors done, each with its hook appended
  started,    \* fx: hooks started and not yet stopped
  client,     \* client[r]: state of the infrastructure client r
  listed,     \* the instance is in the service registry
  server,     \* the http.Server
  serving,    \* the goroutine running ListenAndServe
  stopStep,   \* inside the OnStop of the main hook or of the postgres pool
  telemetry,  \* OTel providers: running, or flushed and shut down
  expired,    \* the 7 seconds of stopCtx are over
  exit,       \* how the process ended
  req,        \* req[q]: state of request q
  kind,       \* kind[q]: its protocol
  hurt        \* requests that found a client closed under them

vars == <<phase, built, started, client, listed, server, serving, stopStep,
          telemetry, expired, exit, req, kind, hurt>>
startVars == <<built, client, listed, telemetry>>
httpVars == <<server, serving, req, kind, hurt>>

\* Hooks in the order they are appended: the first Invoke builds the registry,
\* the second one the data clients, the HTTP server, and then its own hook.
Hooks == <<"registry", "postgres", "redis", "catalog", "http", "main">>
Position == [h \in {"registry", "postgres", "redis", "catalog", "http", "main"} |->
               CHOOSE i \in 1..6 : Hooks[i] = h]
Clients == {"postgres", "redis", "catalog"}

TypeOK ==
  /\ phase \in {"building", "probing", "starting", "running", "undoing",
                "stopping", "exited"}
  /\ built \in 0..6 /\ started \in 0..built
  /\ client \in [Clients -> {"absent", "open", "closing", "closed"}]
  /\ listed \in BOOLEAN
  /\ server \in {"new", "listening", "shut"}
  /\ serving \in {"none", "spawned", "accepting", "gone"}
  /\ stopStep \in {"none", "draining", "flushing", "closing"}
  /\ telemetry \in {"on", "flushed", "lost"}
  /\ expired \in BOOLEAN
  /\ exit \in {"none", "ok", "not_built", "not_started", "not_stopped", "fatal"}
  /\ req \in [Requests -> {"none", "running", "querying", "done"}]
  /\ kind \in [Requests -> {"http1", "h2c"}]
  /\ hurt \subseteq Requests

Init ==
  /\ phase = "building" /\ built = 0 /\ started = 0
  /\ client = [r \in Clients |-> "absent"]
  /\ listed = FALSE
  /\ server = "new" /\ serving = "none" /\ stopStep = "none"
  /\ telemetry = "on" /\ expired = FALSE /\ exit = "none"
  /\ req = [q \in Requests |-> "none"]
  /\ kind \in [Requests -> Kinds]
  /\ hurt = {}

Up == phase # "exited"

Exit(how) == phase' = "exited" /\ exit' = how

-----------------------------------------------------------------------------
(* fx.New: constructors. *)

\* The client being built, or the component with nothing to open.
Building == Hooks[built + 1]

\* The registry, the HTTP server and the main Invoke open nothing.
Build ==
  /\ phase = "building" /\ built < 6 /\ Building \notin Clients
  /\ built' = built + 1
  /\ UNCHANGED <<phase, started, client, listed, httpVars, stopStep, telemetry,
                 expired, exit>>

\* pgxpool.NewWithConfig, redis.NewClient and the catalog factory open the client.
OpenClient ==
  /\ phase = "building" /\ built < 6 /\ Building \in Clients
  /\ client' = [client EXCEPT ![Building] = "open"]
  /\ phase' = "probing"
  /\ UNCHANGED <<built, started, listed, httpVars, stopStep, telemetry, expired,
                 exit>>

\* A missing or malformed configuration is found before anything is opened.
BuildFails ==
  /\ phase = "building" /\ built < 6
  /\ Exit("not_built")
  /\ UNCHANGED <<startVars, started, httpVars, stopStep, expired>>

\* The ping succeeded and the OnStop hook is appended.
ProbeOk ==
  /\ phase = "probing"
  /\ phase' = "building" /\ built' = built + 1
  /\ UNCHANGED <<started, client, listed, httpVars, stopStep, telemetry, expired,
                 exit>>

\* Variant: a failed ping returns without closing what was opened.
ProbeFailsUnclosed ==
  /\ phase = "probing" /\ Building \in {"postgres", "redis"}
  /\ Exit("not_built")
  /\ UNCHANGED <<startVars, started, httpVars, stopStep, expired>>

\* The ping failed: the constructor closes the client and returns the error.
\* The catalog is not probed.
ProbeFails ==
  /\ phase = "probing" /\ Building \in {"postgres", "redis"}
  /\ client' = [client EXCEPT ![Building] = "closed"]
  /\ Exit("not_built")
  /\ UNCHANGED <<built, started, listed, httpVars, stopStep, telemetry, expired>>

AllBuilt ==
  /\ phase = "building" /\ built = 6
  /\ phase' = "starting"
  /\ UNCHANGED <<startVars, started, httpVars, stopStep, expired, exit>>

-----------------------------------------------------------------------------
(* app.Start: OnStart hooks. *)

\* The registry lists the instance; the hooks of the clients and of the HTTP
\* server do nothing at start.
StartHook ==
  /\ phase = "starting" /\ started < 5
  /\ listed' = (listed \/ Hooks[started + 1] = "registry")
  /\ started' = started + 1
  /\ UNCHANGED <<phase, built, client, telemetry, httpVars, stopStep, expired,
                 exit>>

\* The main hook: CheckDatabase and CheckCache pass, CheckSearch does not
\* matter, and a goroutine is left to serve.
StartMain ==
  /\ phase = "starting" /\ started = 5
  /\ serving' = "spawned"
  /\ started' = 6
  /\ phase' = "running"
  /\ UNCHANGED <<startVars, server, req, kind, hurt, stopStep, expired, exit>>

\* Variant: a failed check ends the process at once, like logger.Fatal.
StartFailsFatally ==
  /\ phase = "starting" /\ started = 5
  /\ Exit("not_started")
  /\ UNCHANGED <<startVars, started, httpVars, stopStep, expired>>

\* CheckDatabase or CheckCache fails: fx undoes the hooks already started, not
\* the failing one, and without a deadline.
StartFails ==
  /\ phase = "starting" /\ started = 5
  /\ phase' = "undoing"
  /\ UNCHANGED <<startVars, started, httpVars, stopStep, expired, exit>>

-----------------------------------------------------------------------------
(* The goroutine of main.go 150-154. *)

\* ListenAndServe opens the port, unless Shutdown came first.
Listen ==
  /\ Up /\ serving = "spawned" /\ server = "new"
  /\ serving' = "accepting" /\ server' = "listening"
  /\ UNCHANGED <<phase, startVars, started, stopStep, expired, exit, req, kind,
                 hurt>>

\* ErrServerClosed: the goroutine ends.
ServeEnds ==
  /\ Up /\ serving \in {"spawned", "accepting"} /\ server = "shut"
  /\ serving' = "gone"
  /\ UNCHANGED <<phase, startVars, started, server, stopStep, expired, exit, req,
                 kind, hurt>>

\* The port is taken: logger.Fatal ends the process, no OnStop hook runs.
ListenFails ==
  /\ Up /\ serving = "spawned" /\ server = "new"
  /\ serving' = "gone"
  /\ Exit("fatal")
  /\ UNCHANGED <<startVars, started, server, stopStep, expired, req, kind, hurt>>

-----------------------------------------------------------------------------
(* Requests. *)

\* A new request needs the listener, except on a connection h2c took over
\* while there was one.
Arrive(q) ==
  /\ Up /\ req[q] = "none"
  /\ \/ server = "listening"
     \/ /\ kind[q] = "h2c"
        /\ \E p \in Requests : kind[p] = "h2c" /\ req[p] # "none"
  /\ req' = [req EXCEPT ![q] = "running"]
  /\ UNCHANGED <<phase, startVars, started, server, serving, stopStep, expired,
                 exit, kind, hurt>>

\* The handler takes a postgres connection, or is told the pool is closed: a
\* pool that is closing waits for the connections taken and gives out no more.
Query(q) ==
  /\ Up /\ req[q] = "running"
  /\ IF client["postgres"] = "open"
       THEN req' = [req EXCEPT ![q] = "querying"] /\ UNCHANGED hurt
       ELSE hurt' = hurt \cup {q} /\ UNCHANGED req
  /\ UNCHANGED <<phase, startVars, started, server, serving, stopStep, expired,
                 exit, kind>>

\* The handler asks redis, whose client is closed.  A handler that asks the
\* catalog is answered even after its hook ran: Close drops idle connections
\* only, and the next request dials again (search_elasticsearch.go 143-145,
\* search_meilisearch.go 121-124).
Fetch(q) ==
  /\ Up /\ req[q] = "running"
  /\ client["redis"] = "closed"
  /\ hurt' = hurt \cup {q}
  /\ UNCHANGED <<phase, startVars, started, server, serving, stopStep, expired,
                 exit, req, kind>>

QueryEnds(q) ==
  /\ Up /\ req[q] = "querying"
  /\ req' = [req EXCEPT ![q] = "running"]
  /\ UNCHANGED <<phase, startVars, started, server, serving, stopStep, expired,
                 exit, kind, hurt>>

Finish(q) ==
  /\ Up /\ req[q] = "running"
  /\ req' = [req EXCEPT ![q] = "done"]
  /\ UNCHANGED <<phase, startVars, started, server, serving, stopStep, expired,
                 exit, kind, hurt>>

InFlight(k) == {q \in Requests : kind[q] = k /\ req[q] \in {"running", "querying"}}

\* Variant: Close instead of Shutdown, which waits for nobody.
NotWaitedFor == TRUE

\* http.Server.Shutdown may return nil: no HTTP/1 request is in flight.
Drained == InFlight("http1") = {}

-----------------------------------------------------------------------------
(* app.Stop and the undoing of a failed start: OnStop hooks in reverse. *)

Stopping == phase \in {"stopping", "undoing"}

\* SIGINT or SIGTERM, or a Shutdowner: main goes on to Stop.
Signal ==
  /\ phase = "running"
  /\ phase' = "stopping"
  /\ UNCHANGED <<startVars, started, httpVars, stopStep, expired, exit>>

\* Variant: Stop gets context.Background().
NeverExpires == FALSE

\* The window of stopCtx, main.go 57.
WindowMayEnd == phase = "stopping" /\ ~expired

Expire ==
  /\ WindowMayEnd
  /\ expired' = TRUE
  /\ UNCHANGED <<phase, startVars, started, httpVars, stopStep, exit>>

\* fx looks at the context before every hook.
NextToStop(h) ==
  /\ Stopping /\ ~expired /\ stopStep = "none"
  /\ started > 0 /\ Hooks[started] = h

Stopped == started' = started - 1

\* OnStop of the main hook: Shutdown closes the listener, ...
StopMain ==
  /\ NextToStop("main")
  /\ server' = "shut"
  /\ stopStep' = "draining"
  /\ UNCHANGED <<phase, startVars, started, serving, expired, exit, req, kind,
                 hurt>>

\* ... waits, logs the error if the window ended first, ...
MainDrained ==
  /\ stopStep = "draining" /\ Up
  /\ Drained \/ expired
  /\ stopStep' = "flushing"
  /\ UNCHANGED <<phase, startVars, started, httpVars, expired, exit>>

\* ... and flushes the telemetry, which may fail and does when the window is
\* over; fx keeps the error and goes on with the other hooks.
MainFlushed ==
  /\ stopStep = "flushing" /\ Up
  /\ telemetry' \in IF expired THEN {"lost"} ELSE {"flushed", "lost"}
  /\ stopStep' = "none"
  /\ Stopped
  /\ UNCHANGED <<phase, built, client, listed, httpVars, expired, exit>>

\* The hook of NewHTTPServer shuts the same server down again.
StopHTTP ==
  /\ NextToStop("http")
  /\ Drained
  /\ server' = "shut"
  /\ Stopped
  /\ UNCHANGED <<phase, startVars, serving, stopStep, expired, exit, req, kind,
                 hurt>>

\* catalog.Close and rdb.Close wait for nobody.
StopClient(r) ==
  /\ NextToStop(r) /\ r # "postgres"
  /\ client' = [client EXCEPT ![r] = "closed"]
  /\ Stopped
  /\ UNCHANGED <<phase, built, listed, telemetry, httpVars, stopStep, expired,
                 exit>>

\* pool.Close refuses whoever asks for a connection from now on, ...
ClosePool ==
  /\ NextToStop("postgres")
  /\ client' = [client EXCEPT !["postgres"] = "closing"]
  /\ stopStep' = "closing"
  /\ UNCHANGED <<phase, built, started, listed, telemetry, httpVars, expired, exit>>

\* ... and returns when every connection is given back.
PoolClosed ==
  /\ stopStep = "closing" /\ Up
  /\ \A q \in Requests : req[q] # "querying"
  /\ client' = [client EXCEPT !["postgres"] = "closed"]
  /\ stopStep' = "none"
  /\ Stopped
  /\ UNCHANGED <<phase, built, listed, telemetry, httpVars, expired, exit>>

StopRegistry ==
  /\ NextToStop("registry")
  /\ listed' = FALSE
  /\ Stopped
  /\ UNCHANGED <<phase, built, client, telemetry, httpVars, stopStep, expired,
                 exit>>

\* Stop or Start returned; main exits with 0, or with 1 if there was an error.
StopDone ==
  /\ Stopping /\ started = 0 /\ stopStep = "none"
  /\ Exit(CASE phase = "undoing" -> "not_started"
            [] phase = "stopping" /\ telemetry = "lost" -> "not_stopped"
            [] phase = "stopping" /\ telemetry # "lost" -> "ok")
  /\ UNCHANGED <<startVars, started, httpVars, stopStep, expired>>

\* Variant: the error of Stop is only logged.
WindowEndsUnnoticed ==
  /\ phase = "stopping" /\ expired
  /\ Exit("ok")
  /\ UNCHANGED <<startVars, started, httpVars, stopStep, expired>>

\* Stop returns when the window is over, whatever a hook is still doing.
WindowEnds ==
  /\ phase = "stopping" /\ expired
  /\ Exit("not_stopped")
  /\ UNCHANGED <<startVars, started, httpVars, stopStep, expired>>

\* The main goroutine, the goroutine running the hooks and the clock.
Main ==
  \/ Build \/ OpenClient \/ BuildFails \/ ProbeOk \/ ProbeFails \/ AllBuilt
  \/ StartHook \/ StartMain \/ StartFails
  \/ StopMain \/ MainDrained \/ MainFlushed \/ StopHTTP
  \/ \E r \in Clients : StopClient(r)
  \/ ClosePool \/ PoolClosed
  \/ StopRegistry \/ StopDone \/ WindowEnds

Next ==
  \/ Main \/ Signal \/ Expire
  \/ Listen \/ ServeEnds \/ ListenFails
  \/ \E q \in Requests :
       Arrive(q) \/ Query(q) \/ QueryEnds(q) \/ Finish(q) \/ Fetch(q)

Spec == Init /\ [][Next]_vars

\* A hook is waiting for requests to finish.
HeldUp ==
  \/ stopStep = "draining" /\ ~Drained
  \/ stopStep = "closing" /\ \E q \in Requests : req[q] = "querying"

\* The same system where hooks are fast and the window can only be used up by
\* waiting for requests.
PromptNext == Next /\ (expired' # expired => HeldUp)
PromptSpec == Init /\ [][PromptNext]_vars

\* Goroutines run and time passes; requests and signals owe nothing.
FairSpec ==
  /\ Spec
  /\ WF_vars(Main)
  /\ WF_vars(Expire)
  /\ WF_vars(Listen \/ ServeEnds)

-----------------------------------------------------------------------------
(* Properties *)

\* Every open client has an OnStop hook that will close it, or its constructor
\* is still probing it: no early return leaks a client (db_postgres.go 142-169,
\* cache_redis.go 59-94, search_catalog.go 61-68).
OpenClientsAreOwned ==
  \A r \in Clients :
    client[r] = "open" =>
      \/ Position[r] <= built
      \/ phase = "probing" /\ Building = r

\* An HTTP/1 request never finds a client closed under it, not even when it
\* outlives the window: the hooks behind the drained server are then skipped
\* (main.go 158-178, server.go 90-93).
HTTP1KeepsItsClients == \A q \in hurt : kind[q] # "http1"

\* Exit status 0 after a signal means that everything was done: no listener,
\* no HTTP/1 request cut off, telemetry flushed, clients closed, instance
\* deregistered (main.go 57-62).
CleanExitIsClean ==
  exit = "ok" =>
    /\ server = "shut" /\ Drained
    /\ telemetry = "flushed"
    /\ \A r \in Clients : client[r] = "closed"
    /\ ~listed

\* A start refused by CheckDatabase or CheckCache leaves nothing behind: the
\* clients are closed again and the instance is not listed
\* (main.go 46-49, 130-138).
FailedStartIsUndone ==
  exit = "not_started" =>
    /\ ~listed
    /\ server # "listening"
    /\ \A r \in Clients : client[r] = "closed"

\* After a signal the process ends, even if a handler or a hook hangs
\* (main.go 52-62).
SignalEndsProcess == (phase = "stopping") ~> (phase = "exited")

\* main.go 54-56: every OnStop hook, including the registry's, HTTP's and
\* OTel's, finishes within the window.
HooksFinishInWindow == exit = "not_stopped" => started = 0

\* README.md 93: the shutdown is graceful, so no request in flight loses its
\* clients, whichever protocol of the server it came by (server.go 69-72).
NoRequestLosesItsClients == hurt = {}
=============================================================================
