------------------------------- MODULE Config -------------------------------
(***************************************************************************)
(* What the service makes of its configuration: the sections of a          *)
(* Bootstrap message as their getters return them (internal/conf/v1), and  *)
(* the options each component is built from.                               *)
(*                                                                         *)
(* A message is a record of the fields this code reads; Nil is a section   *)
(* or an optional value that is not there.  The getter of a missing        *)
(* section returns the zero value of the field, so a message is seen       *)
(* through the operator of its name; a field read without its getter is a  *)
(* record field here too, and Nil has none.  Durations are in seconds, and *)
(* a certificate is "", "good" or "bad" (no PEM).                          *)
(***************************************************************************)
EXTENDS Integers, Sequences

CONSTANT Nil

-----------------------------------------------------------------------------
(* The messages. *)

Server(m) == IF m = Nil THEN [addr |-> "", http |-> Nil, cors |-> Nil] ELSE m

Log(m) == IF m = Nil THEN [framework |-> Nil, application |-> Nil] ELSE m

Framework(m) == IF m = Nil THEN [logLevel |-> "", errorLevel |-> ""] ELSE m

Application(m) == IF m = Nil THEN [format |-> "", level |-> ""] ELSE m

Data(m) == IF m = Nil THEN [database |-> Nil, cache |-> Nil] ELSE m

Database(m) == IF m = Nil THEN [postgres |-> Nil] ELSE m

Cache(m) == IF m = Nil THEN [redis |-> Nil] ELSE m

Auth(m) == IF m = Nil THEN [casdoor |-> Nil] ELSE m

Search(m) == IF m = Nil THEN [catalog |-> Nil] ELSE m

Catalog(m) ==
  IF m = Nil
  THEN [endpoint |-> "", username |-> "", password |-> "", apiKey |-> "",
        index |-> "", tls |-> Nil]
  ELSE m

Discovery(m) == IF m = Nil THEN [consul |-> Nil] ELSE m

Consul(m) == IF m = Nil THEN [addr |-> "", tls |-> Nil, check |-> Nil] ELSE m

Check(m) == IF m = Nil THEN [ttl |-> Nil, deregister |-> ""] ELSE m

TTL(m) == IF m = Nil THEN [duration |-> "", pingInterval |-> Nil] ELSE m

Observability(m) ==
  IF m = Nil
  THEN [trace |-> Nil, metric |-> Nil, log |-> Nil, enable |-> FALSE]
  ELSE m

Trace(m) == IF m = Nil THEN [endpoint |-> "", tls |-> Nil, sampleRatio |-> Nil] ELSE m

Metric(m) == IF m = Nil THEN [endpoint |-> "", tls |-> Nil, exportInterval |-> Nil] ELSE m

Logging(m) == IF m = Nil THEN [endpoint |-> "", tls |-> Nil] ELSE m

\* The four Tls messages have the same fields.
Tls(m) == IF m = Nil THEN [enable |-> FALSE, caPem |-> "", insecure |-> FALSE] ELSE m

\* durationpb.Duration.AsDuration of a message that may be nil.
AsDuration(m) == IF m = Nil THEN 0 ELSE m

-----------------------------------------------------------------------------
(* The databases. *)

DefaultDBPingTimeout == 5
DefaultHealthCheckTimeout == 2

GetPostgres(b) == Database(Data(b.data).database).postgres
GetRedis(b) == Cache(Data(b.data).cache).redis

\* What ParseConfig("") gives.
PoolDefaults == [maxConns |-> 4, minConns |-> 0, lifetime |-> 3600, idle |-> 1800,
                 pingTimeout |-> 0]

\* NewPostgresPool: a pool section replaces the defaults, set or not, except
\* the ping timeout.
PoolOptions(pool) ==
  IF pool = Nil
  THEN PoolDefaults
  ELSE [maxConns |-> pool.maxConns, minConns |-> pool.minConns,
        lifetime |-> AsDuration(pool.lifetime), idle |-> AsDuration(pool.idle),
        pingTimeout |-> AsDuration(pool.pingTimeout)]

\* applyPostgresTLS: only the two verifying modes replace what pgx does.
PostgresTLS(pg) ==
  IF pg.tls = Nil \/ pg.tls.caPem = "" THEN "pgx"
  ELSE IF pg.tls.sslMode \in {"verify-ca", "verify-full"} THEN pg.tls.sslMode ELSE "pgx"

PostgresOptions(pg) ==
  [host |-> pg.host, pool |-> PoolOptions(pg.pool), tls |-> PostgresTLS(pg)]

\* Variant: the configured timeout as it is.
PingTimeoutAsIs(d) == d

\* pingTimeoutOr, and the same rule in NewRedisClient.
PingTimeoutOr(d) == IF d <= 0 THEN DefaultDBPingTimeout ELSE d

\* NewRedisClient: a CA is looked at only when TLS is on.
RedisTLS(r) ==
  IF ~Tls(r.tls).enable THEN "off"
  ELSE IF r.tls.caPem = "" THEN "system" ELSE "ca"

RedisOptions(r) ==
  [host |-> r.host, dial |-> AsDuration(r.dialTimeout), read |-> AsDuration(r.readTimeout),
   write |-> AsDuration(r.writeTimeout), tls |-> RedisTLS(r)]

\* go-redis: what an operation takes at most where its timeout is not set.
RedisTimeouts(o) ==
  LET read == IF o.read = 0 THEN 3 ELSE o.read
  IN  [dial |-> IF o.dial = 0 THEN 5 ELSE o.dial,
       read |-> read,
       write |-> IF o.write = 0 THEN read ELSE o.write]

-----------------------------------------------------------------------------
(* The search catalog. *)

GetCatalog(b) == Search(b.search).catalog

\* newSearchTransport.
SearchTransport(c) ==
  IF ~Tls(c.tls).enable THEN "plain"
  ELSE IF c.tls.caPem = "" THEN "system" ELSE "ca"

\* newElasticsearchCatalog: Basic Auth wins over an API key.
ElasticsearchLogin(c) ==
  IF c.username # "" THEN <<"basic", c.username>>
  ELSE IF c.apiKey # "" THEN <<"key", c.apiKey>> ELSE <<"none", "">>

\* newMeilisearchCatalog.
MeilisearchLogin(c) == <<"key", c.apiKey>>

CatalogOptions(adapter, m) ==
  LET c == Catalog(m)
  IN  [endpoint |-> c.endpoint, index |-> c.index, transport |-> SearchTransport(c),
       login |-> IF adapter = "elasticsearch" THEN ElasticsearchLogin(c)
                                              ELSE MeilisearchLogin(c)]

-----------------------------------------------------------------------------
(* The projections handed to the kit. *)

\* log.optionsFromBootstrap.
LogOptions(b) ==
  LET app == Application(Log(b.log).application)
      framework == Framework(Log(b.log).framework)
  IN  [level |-> app.level, format |-> app.format,
       frameworkLevel |-> framework.logLevel, frameworkError |-> framework.errorLevel]

\* registry.optionsFromBootstrap.
RegistryOptions(b) ==
  LET consul == Consul(Discovery(b.discovery).consul)
      check == Check(consul.check)
      ttl == TTL(check.ttl)
  IN  [enabled |-> consul.addr # "",
       address |-> consul.addr,
       serverAddress |-> Server(b.server).addr,
       tls |-> Tls(consul.tls),
       ttl |-> [enabled |-> check.ttl # Nil, duration |-> ttl.duration,
                ping |-> AsDuration(ttl.pingInterval)],
       deregister |-> check.deregister]

\* otel.optionsFromBootstrap: an unset ratio stays unset, 0 is a ratio.
OtelOptions(b) ==
  LET o == Observability(b.observability)
      metric == Metric(o.metric)
  IN  IF ~o.enable
      THEN [enabled |-> FALSE]
      ELSE [enabled |-> TRUE,
            trace |-> [endpoint |-> Trace(o.trace).endpoint,
                       tls |-> Tls(Trace(o.trace).tls),
                       sampleRatio |-> Trace(o.trace).sampleRatio],
            metric |-> [endpoint |-> metric.endpoint, tls |-> Tls(metric.tls),
                        interval |-> AsDuration(metric.exportInterval)],
            log |-> [endpoint |-> Logging(o.log).endpoint,
                     tls |-> Tls(Logging(o.log).tls)]]

\* Variant: a section that is there is taken for one that is enabled.
ConnectOptionsBySection(b) ==
  <<"validate">> \o (IF b.observability # Nil THEN <<"otel">> ELSE <<>>) \o <<"logging">>

\* NewConnectOptions: the interceptors, outermost first.
ConnectOptions(b) ==
  <<"validate">>
    \o (IF Observability(b.observability).enable THEN <<"otel">> ELSE <<>>)
    \o <<"logging">>

\* NewHTTPServer reads cors and http without their getters.
ServerOptions(s) ==
  [addr |-> s.addr, origins |-> s.cors.allowedOrigins,
   read |-> AsDuration(s.http.readTimeout),
   write |-> AsDuration(s.http.writeTimeout),
   idle |-> AsDuration(s.http.idleTimeout)]

\* Variant: the search section is missing from the list.
WarnedWithoutSearch(b) ==
  [server |-> b.server, discovery |-> b.discovery, observability |-> b.observability]

RestartRequiredSections(b) ==
  [server |-> b.server, discovery |-> b.discovery,
   observability |-> b.observability, search |-> b.search]
=============================================================================
