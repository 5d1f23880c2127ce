------------------------------ MODULE Service ------------------------------
(***************************************************************************)
(* From a configuration to a running service and its health endpoint: the  *)
(* constructors in the order in which fx runs them, what each of them      *)
(* demands of the configuration and of the outside, the reloads of the     *)
(* configuration after that (go-connect-kit's Live value), and /healthz.   *)
(*                                                                         *)
(* Module Lifecycle has the same start from the side of the hooks: what is *)
(* opened is closed.  Here the question is which configurations start,     *)
(* with which settings, and what of a changed configuration takes effect.  *)
(***************************************************************************)
EXTENDS Config

CONSTANTS
  Projects,    \* projects and their configurations: <<adapter, Bootstrap>>
  Reloads,     \* the configurations that may be published later
  MaxReloads,  \* bound: reloads
  MaxFaults,   \* bound: how often a dependency goes down
  Exchanges,   \* bound: requests go-redis sends for one PING, those of a new
               \* connection among them
  Durations    \* how long a check may take, in seconds, if nothing ends it

ASSUME CountsAssumption == MaxReloads \in Nat /\ MaxFaults \in Nat /\ Exchanges \in Nat
ASSUME AdaptersAssumption ==
  \A p \in Projects : p[1] \in {"elasticsearch", "meilisearch"}

Configurations == {p[2] : p \in Projects} \cup Reloads

\* The fields of a Bootstrap message.
Sections == {"server", "log", "data", "auth", "observability", "discovery", "search"}

ASSUME SectionsAssumption == \A b \in Configurations : DOMAIN b = Sections

\* Durations are whole seconds here; the timeouts of redis have a rule
\* (conf.proto 165-167).
ASSUME DurationsAssumption ==
  /\ Durations \subseteq Nat
  /\ \A b \in Configurations :
       /\ GetPostgres(b) # Nil => PoolOptions(GetPostgres(b).pool).pingTimeout \in Int
       /\ GetRedis(b) # Nil =>
            /\ AsDuration(GetRedis(b).dialTimeout) \in Nat
            /\ AsDuration(GetRedis(b).readTimeout) \in Nat
            /\ AsDuration(GetRedis(b).writeTimeout) \in Nat
       /\ b.server.http # Nil => AsDuration(b.server.http.writeTimeout) \in Int

\* The parts of the service in the order of their constructors.
Order == <<"log", "registry", "postgres", "redis", "casdoor", "catalog",
           "interceptors", "server", "otel">>
Parts == {Order[n] : n \in 1..Len(Order)}

\* What /healthz looks at.
Deps == {"postgres", "redis", "search"}

VARIABLES
  cfg,        \* the snapshot every constructor reads
  adapter,    \* the search adapter of the project
  stage,      \* where the start is
  running,    \* running[p]: the settings part p was built with, Nil before
  latest,     \* the configuration that was published last
  warned,     \* sections a reload was logged about
  reloads,    \* reloads so far
  down,       \* dependencies whose checks fail
  faults,     \* how often one went down
  left,       \* checks of the current /healthz request still to run
  spent,      \* seconds it has taken
  healthy,    \* its result so far
  answer,     \* what its caller got
  everDown,   \* dependencies that were down at some time since it began
  alwaysDown  \* dependencies that were down all the time since it began

startVars == <<cfg, adapter, stage, running>>
reloadVars == <<latest, warned, reloads>>
depVars == <<down, faults, everDown, alwaysDown>>
probeVars == <<left, spent, healthy, answer>>
vars == <<startVars, reloadVars, depVars, probeVars>>

\* The longest attempt of go-redis to get a PING answered.  A context ends the
\* wait for a connection and a plain dial, but neither a TLS dial nor a write
\* or a read: ContextTimeoutEnabled is not set.
RedisAttempt(o) ==
  LET limit == RedisTimeouts(o)
  IN  (IF o.tls = "off" THEN 0 ELSE limit.dial) + Exchanges * (limit.write + limit.read)

\* The longest check of redis: no attempt begins after its deadline, but one
\* that has begun goes on.
RedisCheck(o) == DefaultHealthCheckTimeout + RedisAttempt(o)

\* The longest /healthz request.
MaxSpent(b) ==
  IF GetRedis(b) = Nil THEN 0
  ELSE 2 * DefaultHealthCheckTimeout + RedisCheck(RedisOptions(GetRedis(b)))

TypeOK ==
  /\ DOMAIN latest = DOMAIN cfg
  /\ adapter \in {"elasticsearch", "meilisearch"}
  /\ stage \in {"building", "up", "failed", "crashed"}
  /\ DOMAIN running = Parts
  /\ warned \subseteq DOMAIN RestartRequiredSections(cfg)
  /\ reloads \in 0..MaxReloads
  /\ down \subseteq Deps /\ faults \in 0..MaxFaults
  /\ left \subseteq Deps /\ spent \in 0..MaxSpent(cfg) /\ healthy \in BOOLEAN
  /\ answer \in {"none", "pending", "200", "503", "cut"}
  /\ alwaysDown \subseteq down /\ down \subseteq everDown /\ everDown \subseteq Deps

Init ==
  /\ \E p \in Projects : adapter = p[1] /\ cfg = p[2]
  /\ stage = "building"
  /\ running = [p \in Parts |-> Nil]
  /\ latest = cfg
  /\ warned = {}
  /\ reloads = 0
  /\ down = {} /\ faults = 0 /\ everDown = {} /\ alwaysDown = {}
  /\ left = {} /\ spent = 0 /\ healthy = TRUE /\ answer = "none"

-----------------------------------------------------------------------------
(* The constructors. *)

\* Everything before part p is built, and p is not.
Turn(p) ==
  \E n \in 1..Len(Order) :
    /\ stage = "building" /\ Order[n] = p
    /\ \A k \in 1..Len(Order) : running[Order[k]] = Nil <=> k >= n

Built(p, settings) ==
  /\ Turn(p)
  /\ running' = [running EXCEPT ![p] = settings]
  /\ UNCHANGED <<cfg, adapter, stage, reloadVars, depVars, probeVars>>

\* The constructor of p returns an error: the service does not start.
Refuse(p) ==
  /\ Turn(p)
  /\ stage' = "failed"
  /\ UNCHANGED <<cfg, adapter, running, reloadVars, depVars, probeVars>>

\* The first ping is answered within its deadline.
Pings(dep, deadline) == dep \notin down /\ deadline > 0

NewLogger == Built("log", LogOptions(cfg))

NewRegistry == Built("registry", RegistryOptions(cfg))

PostgresUsable ==
  LET pg == GetPostgres(cfg) IN pg # Nil /\ (pg.tls # Nil => pg.tls.caPem # "bad")

NewPostgresPool ==
  LET pg == GetPostgres(cfg)
      pinged == Pings("postgres", PingTimeoutOr(PoolOptions(pg.pool).pingTimeout))
  IN  \/ ~PostgresUsable /\ Refuse("postgres")
      \/ PostgresUsable /\ ~pinged /\ Refuse("postgres")
      \/ PostgresUsable /\ pinged /\ Built("postgres", PostgresOptions(pg))

RedisUsable ==
  LET r == GetRedis(cfg) IN r # Nil /\ (Tls(r.tls).enable => r.tls.caPem # "bad")

NewRedisClient ==
  LET r == GetRedis(cfg)
      pinged == Pings("redis", PingTimeoutOr(AsDuration(r.dialTimeout)))
  IN  \/ ~RedisUsable /\ Refuse("redis")
      \/ RedisUsable /\ ~pinged /\ Refuse("redis")
      \/ RedisUsable /\ pinged /\ Built("redis", RedisOptions(r))

\* Nothing is asked of Casdoor here.
NewCasdoorAuthClient ==
  LET casdoor == Auth(cfg.auth).casdoor
  IN  \/ casdoor = Nil /\ Refuse("casdoor")
      \/ casdoor # Nil /\ Built("casdoor", casdoor)

\* Elasticsearch takes a user and a password together.
LoginUsable(c) ==
  adapter = "elasticsearch" => ((c.username = "") <=> (c.password = ""))

CatalogUsable ==
  LET c == GetCatalog(cfg)
  IN  /\ c # Nil
      /\ c.endpoint # "" /\ c.index # ""
      /\ LoginUsable(c)
      /\ Tls(c.tls).enable => c.tls.caPem # "bad"

NewSearchCatalog ==
  \/ ~CatalogUsable /\ Refuse("catalog")
  \/ CatalogUsable /\ Built("catalog", CatalogOptions(adapter, GetCatalog(cfg)))

NewConnectOptions == Built("interceptors", ConnectOptions(cfg))

\* A missing cors or http section is a nil pointer that is read.
NewHTTPServer ==
  \/ /\ Turn("server")
     /\ cfg.server.cors = Nil \/ cfg.server.http = Nil
     /\ stage' = "crashed"
     /\ UNCHANGED <<cfg, adapter, running, reloadVars, depVars, probeVars>>
  \/ /\ cfg.server.cors # Nil /\ cfg.server.http # Nil
     /\ Built("server", ServerOptions(cfg.server))

NewOtel == Built("otel", OtelOptions(cfg))

\* fx has built everything and runs the hooks.
Started ==
  /\ stage = "building"
  /\ \A p \in Parts : running[p] # Nil
  /\ stage' = "up"
  /\ UNCHANGED <<cfg, adapter, running, reloadVars, depVars, probeVars>>

-----------------------------------------------------------------------------
(* Reloads: the kit publishes a new value and logs the sections that       *)
(* changed and are read at start only.                                     *)

Reload(new) ==
  LET old == RestartRequiredSections(latest)
      now == RestartRequiredSections(new)
  IN  /\ stage = "up" /\ reloads < MaxReloads
      /\ latest' = new
      /\ warned' = warned \cup {s \in DOMAIN now : now[s] # old[s]}
      /\ reloads' = reloads + 1
      /\ UNCHANGED <<startVars, depVars, probeVars>>

-----------------------------------------------------------------------------
(* The dependencies. *)

GoesDown(d) ==
  /\ faults < MaxFaults /\ d \notin down
  /\ stage \in {"building", "up"}
  /\ down' = down \cup {d}
  /\ everDown' = everDown \cup {d}
  /\ faults' = faults + 1
  /\ UNCHANGED <<startVars, reloadVars, probeVars, alwaysDown>>

ComesBack(d) ==
  /\ d \in down
  /\ stage \in {"building", "up"}
  /\ down' = down \ {d}
  /\ alwaysDown' = alwaysDown \ {d}
  /\ UNCHANGED <<startVars, reloadVars, probeVars, faults, everDown>>

-----------------------------------------------------------------------------
(* /healthz. *)

BeginProbe ==
  /\ stage = "up" /\ left = {} /\ answer # "pending"
  /\ left' = Deps /\ spent' = 0 /\ healthy' = TRUE /\ answer' = "pending"
  /\ everDown' = down /\ alwaysDown' = down
  /\ UNCHANGED <<startVars, reloadVars, down, faults>>

\* Variant: the result of the last check is the result.
LastVerdict(sofar, ok) == ok

\* healthy = false on an error, and never true again.
Verdict(sofar, ok) == sofar /\ ok

\* Seconds a check may take: an answer or an error comes by then.
CheckLimit(d) ==
  IF d = "redis" THEN RedisCheck(running["redis"]) ELSE DefaultHealthCheckTimeout

\* Variant: a check without a deadline of its own.
CheckTimesUnlimited(d) == Durations

CheckTimes(d) == {t \in Durations : t <= CheckLimit(d)}

\* One check, in any order: Go ranges over a map.
RunCheck(d) ==
  /\ d \in left
  /\ left' = left \ {d}
  /\ healthy' = Verdict(healthy, d \notin down)
  /\ \E t \in CheckTimes(d) : spent' = spent + t
  /\ UNCHANGED <<startVars, reloadVars, depVars, answer>>

\* A response later than the write timeout of the server is not sent.
InTime == LET limit == running["server"].write IN limit = 0 \/ spent <= limit

EndProbe ==
  /\ answer = "pending" /\ left = {}
  /\ answer' = IF ~InTime THEN "cut" ELSE IF healthy THEN "200" ELSE "503"
  /\ spent' = 0 /\ healthy' = TRUE
  /\ UNCHANGED <<startVars, reloadVars, depVars, left>>

-----------------------------------------------------------------------------
Construct ==
  \/ NewLogger
  \/ NewRegistry
  \/ NewPostgresPool
  \/ NewRedisClient
  \/ NewCasdoorAuthClient
  \/ NewSearchCatalog
  \/ NewConnectOptions
  \/ NewHTTPServer
  \/ NewOtel
  \/ Started

Probe == BeginProbe \/ (\E d \in Deps : RunCheck(d)) \/ EndProbe

Next ==
  \/ Construct
  \/ \E new \in Reloads : Reload(new)
  \/ \E d \in Deps : GoesDown(d) \/ ComesBack(d)
  \/ Probe

Spec == Init /\ [][Next]_vars

-----------------------------------------------------------------------------
(* Properties. *)

\* Every section the service cannot do without.
Complete(b) ==
  /\ GetPostgres(b) # Nil /\ GetRedis(b) # Nil
  /\ Auth(b.auth).casdoor # Nil
  /\ Catalog(GetCatalog(b)).endpoint # "" /\ Catalog(GetCatalog(b)).index # ""
  /\ (Catalog(GetCatalog(b)).username = "") <=> (Catalog(GetCatalog(b)).password = "")

\* Every certificate of the configuration.
Certificates(b) ==
  {Tls(m).caPem : m \in {Catalog(GetCatalog(b)).tls, GetRedis(b).tls}}
    \cup (IF GetPostgres(b).tls = Nil THEN {} ELSE {GetPostgres(b).tls.caPem})

\* The service refuses to start for a reason an operator can find: a section
\* that is missing, a certificate that is not PEM, or a dependency that was
\* down.  An unset timeout is none (constants.go 10-14, db_postgres.go 229-236,
\* cache_redis.go 61-64).
RefusalHasCause ==
  stage = "failed" =>
    \/ ~Complete(cfg)
    \/ "bad" \in Certificates(cfg)
    \/ everDown # {}

\* A published configuration that differs from what a part runs with was
\* warned about, in a section the part is built from (config.go 28-35).
StaleIsWarned ==
  stage = "up" =>
    /\ RegistryOptions(latest) # running["registry"]
         => warned \cap {"discovery", "server"} # {}
    /\ (\/ OtelOptions(latest) # running["otel"]
        \/ ConnectOptions(latest) # running["interceptors"])
         => "observability" \in warned
    /\ CatalogOptions(adapter, GetCatalog(latest)) # running["catalog"]
         => "search" \in warned

\* Spans are made exactly when there is an exporter for them: middleware.go
\* 40-41 and otel.go 17-21 agree on when telemetry is on.
SpansHaveExporter ==
  stage = "up" =>
    (running["otel"].enabled <=> \E n \in 1..Len(running["interceptors"]) :
                                   running["interceptors"][n] = "otel")

\* /healthz says 200 only if each dependency was well at some time since the
\* request began, and 503 only if one was down: did not answer, or its check
\* failed for another reason, as that of a missing index does (health.go
\* 26-33, search_elasticsearch.go 137-139).
HealthIsTruthful ==
  /\ answer = "200" => alwaysDown = {}
  /\ answer = "503" => everDown # {}

\* A dependency that is down is reported (README.md 220): a request during
\* which one was down all the time gets an answer.
UnhealthyIsReported == alwaysDown # {} => answer # "cut"

\* The start ends with the service up or with an error that names what is
\* missing: a section that is not required (conf.proto 76-77) is not read
\* through a nil pointer (db_postgres.go 121).
MissingSectionIsReported == stage # "crashed"
=============================================================================
