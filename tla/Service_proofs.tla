--------------------------- MODULE Service_proofs ---------------------------
(***************************************************************************)
(* Theorems about Service, for every set of configurations and reloads,    *)
(* and any number of reloads and faults.                                   *)
(***************************************************************************)
EXTENDS Service, SequenceTheorems, TLAPS

-----------------------------------------------------------------------------
(* The inductive invariant. *)

\* The configurations a service meets, and the search adapter it was made for.
Known ==
  /\ \E p \in Projects : cfg = p[2]
  /\ cfg \in Configurations /\ latest \in Configurations
  /\ adapter \in {"elasticsearch", "meilisearch"}

\* Every part runs with what the snapshot of the start says, reloads or not; a
\* service that is up has all its parts.
FromSnapshot ==
  /\ running = [p \in Parts |-> running[p]]
  /\ running["registry"] \in {Nil, RegistryOptions(cfg)}
  /\ running["redis"] # Nil =>
       GetRedis(cfg) # Nil /\ running["redis"] = RedisOptions(GetRedis(cfg))
  /\ running["catalog"] \in {Nil, CatalogOptions(adapter, GetCatalog(cfg))}
  /\ running["interceptors"] \in {Nil, ConnectOptions(cfg)}
  /\ running["otel"] \in {Nil, OtelOptions(cfg)}
  /\ running["server"] # Nil =>
       cfg.server.http # Nil /\ running["server"] = ServerOptions(cfg.server)
  /\ stage = "up" => \A p \in Parts : running[p] # Nil

\* What no reload was logged about is as it was at the start.
UnwarnedIsFresh ==
  \A s \in DOMAIN RestartRequiredSections(cfg) :
    s \in warned \/ RestartRequiredSections(latest)[s] = RestartRequiredSections(cfg)[s]

\* What the check of d has added to a request so far, at most.
Taken(d) == IF d \in left THEN 0 ELSE CheckLimit(d)

\* A request of /healthz: what it has found so far, and how long it took.
Checking ==
  /\ answer = "pending" => stage = "up"
  /\ answer # "pending" => left = {} /\ healthy /\ spent = 0
  /\ answer = "pending" /\ healthy => alwaysDown \subseteq left
  /\ ~healthy => everDown # {}
  /\ answer = "pending" =>
       spent \in 0..(Taken("postgres") + Taken("redis") + Taken("search"))

\* All of it.
IInv ==
  /\ TypeOK
  /\ Known /\ FromSnapshot /\ UnwarnedIsFresh /\ Checking
  /\ RefusalHasCause /\ HealthIsTruthful

-----------------------------------------------------------------------------
(* The parts of the service and its dependencies. *)

\* The parts by name.
LEMMA PartsByName ==
  Parts = {"log", "registry", "postgres", "redis", "casdoor", "catalog",
           "interceptors", "server", "otel"}
BY DEF Parts, Order

\* The longest check of redis is a number of seconds.
LEMMA RedisCheckIsNat ==
  ASSUME NEW b \in Configurations, GetRedis(b) # Nil
  PROVE  RedisCheck(RedisOptions(GetRedis(b))) \in Nat
<1> DEFINE o == RedisOptions(GetRedis(b))
           limit == RedisTimeouts(o)
<1>1. o.dial \in Nat /\ o.read \in Nat /\ o.write \in Nat
  BY DurationsAssumption DEF RedisOptions
<1>2. limit.dial \in Nat /\ limit.read \in Nat /\ limit.write \in Nat
  BY <1>1 DEF RedisTimeouts
<1> HIDE DEF o
<1>3. Exchanges * (limit.write + limit.read) \in Nat
  BY <1>2, CountsAssumption
<1>4. RedisCheck(o) \in Nat
  BY <1>2, <1>3 DEF RedisCheck, RedisAttempt, DefaultHealthCheckTimeout
<1> QED
  BY <1>4 DEF o

\* So is the longest request of /healthz.
LEMMA MaxSpentIsNat ==
  ASSUME NEW b \in Configurations
  PROVE  MaxSpent(b) \in Nat
BY RedisCheckIsNat DEF MaxSpent, DefaultHealthCheckTimeout

\* The longest request is that of its three longest checks.
LEMMA LimitsAdd ==
  ASSUME Known, FromSnapshot, stage = "up"
  PROVE  /\ CheckLimit("postgres") = 2 /\ CheckLimit("search") = 2
         /\ CheckLimit("redis") \in Nat
         /\ MaxSpent(cfg) = 2 + CheckLimit("redis") + 2
<1>1. /\ GetRedis(cfg) # Nil
      /\ CheckLimit("redis") = RedisCheck(RedisOptions(GetRedis(cfg)))
  BY PartsByName DEF FromSnapshot, CheckLimit
<1>2. CheckLimit("redis") \in Nat
  BY <1>1, RedisCheckIsNat DEF Known
<1>3. MaxSpent(cfg) = 2 + CheckLimit("redis") + 2
  BY <1>1, <1>2 DEF MaxSpent, DefaultHealthCheckTimeout
<1> QED
  BY <1>2, <1>3 DEF CheckLimit, DefaultHealthCheckTimeout

-----------------------------------------------------------------------------
(* What a constructor does to the invariant. *)

\* What p is built from.
Fits(p, settings) ==
  /\ p = "registry" => settings = RegistryOptions(cfg)
  /\ p = "redis" => GetRedis(cfg) # Nil /\ settings = RedisOptions(GetRedis(cfg))
  /\ p = "catalog" => settings = CatalogOptions(adapter, GetCatalog(cfg))
  /\ p = "interceptors" => settings = ConnectOptions(cfg)
  /\ p = "otel" => settings = OtelOptions(cfg)
  /\ p = "server" => cfg.server.http # Nil /\ settings = ServerOptions(cfg.server)

\* A part that is built with the settings of the snapshot keeps the invariant.
LEMMA BuiltKeeps ==
  ASSUME IInv, NEW p \in Parts, NEW settings, Fits(p, settings), Built(p, settings)
  PROVE  IInv'
<1>1. /\ stage = "building" /\ running' = [running EXCEPT ![p] = settings]
      /\ UNCHANGED <<cfg, adapter, stage, reloadVars, depVars, probeVars>>
  BY DEF Built, Turn
<1>2. TypeOK' /\ Known'
  BY <1>1 DEF IInv, TypeOK, Known, reloadVars, depVars, probeVars, MaxSpent,
              RestartRequiredSections
<1>3. FromSnapshot'
  <2>1. /\ running' = [q \in Parts |-> running'[q]]
        /\ running'[p] = settings
        /\ \A q \in Parts \ {p} : running'[q] = running[q]
    BY <1>1 DEF IInv, FromSnapshot
  <2>2. stage' # "up"
    BY <1>1
  <2> HIDE DEF Fits
  <2> QED
    BY <1>1, <2>1, <2>2, PartsByName DEF IInv, FromSnapshot, Fits
<1>4. UnwarnedIsFresh' /\ Checking'
  BY <1>1 DEF IInv, UnwarnedIsFresh, Checking, Taken, CheckLimit, reloadVars, depVars,
              probeVars
<1>5. RefusalHasCause' /\ HealthIsTruthful'
  BY <1>1 DEF IInv, RefusalHasCause, HealthIsTruthful, depVars, probeVars
<1> QED
  BY <1>2, <1>3, <1>4, <1>5 DEF IInv

\* What RefusalHasCause accepts as a cause.
Cause ==
  \/ ~Complete(cfg)
  \/ "bad" \in Certificates(cfg)
  \/ everDown # {}

\* A constructor that refuses for a cause keeps the invariant.
LEMMA RefuseKeeps ==
  ASSUME IInv, NEW p, Cause, Refuse(p)
  PROVE  IInv'
<1>1. /\ stage = "building" /\ stage' = "failed"
      /\ UNCHANGED <<cfg, adapter, running, reloadVars, depVars, probeVars>>
  BY DEF Refuse, Turn
<1>2. TypeOK' /\ Known'
  BY <1>1 DEF IInv, TypeOK, Known, reloadVars, depVars, probeVars, MaxSpent,
              RestartRequiredSections
<1>3. FromSnapshot'
  BY <1>1 DEF IInv, FromSnapshot
<1>4. UnwarnedIsFresh' /\ Checking'
  BY <1>1 DEF IInv, UnwarnedIsFresh, Checking, Taken, CheckLimit, reloadVars, depVars,
              probeVars
<1>5. RefusalHasCause' /\ HealthIsTruthful'
  BY <1>1 DEF IInv, RefusalHasCause, HealthIsTruthful, Cause, depVars, probeVars
<1> QED
  BY <1>2, <1>3, <1>4, <1>5 DEF IInv

\* An unanswered first ping is the dependency's own: its deadline is positive.
LEMMA PingHasCause ==
  ASSUME IInv, NEW dep \in Deps, NEW deadline \in Int,
         ~Pings(dep, PingTimeoutOr(deadline))
  PROVE  Cause
<1>1. PingTimeoutOr(deadline) > 0
  BY DEF PingTimeoutOr, DefaultDBPingTimeout
<1> QED
  BY <1>1 DEF IInv, TypeOK, Pings, Cause

\* What each constructor needs of the configuration and does not find there.
LEMMA UnusableHasCause ==
  ASSUME IInv
  PROVE  /\ ~PostgresUsable => Cause
         /\ ~RedisUsable => Cause
         /\ Auth(cfg.auth).casdoor = Nil => Cause
         /\ ~CatalogUsable => Cause
<1>0. /\ Tls(Catalog(GetCatalog(cfg)).tls).caPem \in Certificates(cfg)
      /\ Tls(GetRedis(cfg).tls).caPem \in Certificates(cfg)
  BY Zenon DEF Certificates
<1>1. ~PostgresUsable => Cause
  BY DEF PostgresUsable, Cause, Complete, Certificates
<1>2. ~RedisUsable => Cause
  <2>1. GetRedis(cfg) = Nil => ~Complete(cfg)
    BY Zenon DEF Complete
  <2>2. Tls(GetRedis(cfg).tls).caPem = "bad" => "bad" \in Certificates(cfg)
    BY <1>0, Zenon
  <2> QED
    BY <2>1, <2>2 DEF RedisUsable, Cause, Tls
<1>3. Auth(cfg.auth).casdoor = Nil => Cause
  BY DEF Cause, Complete
<1>4. ~CatalogUsable => Cause
  <2> DEFINE c == GetCatalog(cfg)
  <2>1. CASE c = Nil
    BY <2>1 DEF Cause, Complete, Catalog
  <2>2. CASE c # Nil
    <3>1. Catalog(c) = c
      BY <2>2 DEF Catalog
    <3>2. c.endpoint = "" \/ c.index = "" \/ ~LoginUsable(c) => ~Complete(cfg)
      BY <3>1 DEF Complete, LoginUsable
    <3>3. Tls(c.tls).caPem = "bad" => "bad" \in Certificates(cfg)
      BY <1>0, <3>1, Zenon
    <3> QED
      BY <2>2, <3>2, <3>3 DEF CatalogUsable, Cause, Tls
  <2> QED
    BY <2>1, <2>2
<1> QED
  BY <1>1, <1>2, <1>3, <1>4

\* The constructors.
LEMMA ConstructKeeps ==
  ASSUME IInv, Construct
  PROVE  IInv'
<1> USE PartsByName
<1>1. CASE NewLogger
  BY <1>1, BuiltKeeps DEF NewLogger, Fits
<1>2. CASE NewRegistry
  BY <1>2, BuiltKeeps DEF NewRegistry, Fits
<1>3. CASE NewPostgresPool
  <2> DEFINE pg == GetPostgres(cfg)
             deadline == PoolOptions(pg.pool).pingTimeout
             pinged == Pings("postgres", PingTimeoutOr(deadline))
  <2>1. PostgresUsable /\ ~pinged => Cause
    <3>1. PostgresUsable => deadline \in Int
      BY DurationsAssumption DEF PostgresUsable, IInv, Known
    <3> QED
      BY <3>1, PingHasCause, "postgres" \in Deps DEF Deps
  <2>2. CASE ~PostgresUsable \/ ~pinged
    <3>1. Refuse("postgres")
      BY <1>3, <2>2 DEF NewPostgresPool
    <3> QED
      BY <2>1, <2>2, <3>1, UnusableHasCause, RefuseKeeps
  <2>3. CASE PostgresUsable /\ pinged
    <3>1. Built("postgres", PostgresOptions(pg))
      BY <1>3, <2>3 DEF NewPostgresPool
    <3> QED
      BY <3>1, BuiltKeeps DEF Fits
  <2> QED
    BY <2>2, <2>3
<1>4. CASE NewRedisClient
  <2> DEFINE r == GetRedis(cfg)
             deadline == AsDuration(r.dialTimeout)
             pinged == Pings("redis", PingTimeoutOr(deadline))
  <2>1. RedisUsable /\ ~pinged => Cause
    <3>1. RedisUsable => deadline \in Int
      BY DurationsAssumption DEF RedisUsable, IInv, Known
    <3> QED
      BY <3>1, PingHasCause, "redis" \in Deps DEF Deps
  <2>2. CASE ~RedisUsable \/ ~pinged
    <3>1. Refuse("redis")
      BY <1>4, <2>2 DEF NewRedisClient
    <3> QED
      BY <2>1, <2>2, <3>1, UnusableHasCause, RefuseKeeps
  <2>3. CASE RedisUsable /\ pinged
    <3>1. Built("redis", RedisOptions(r)) /\ r # Nil
      BY <1>4, <2>3 DEF NewRedisClient, RedisUsable
    <3> QED
      BY <3>1, BuiltKeeps DEF Fits
  <2> QED
    BY <2>2, <2>3
<1>5. CASE NewCasdoorAuthClient
  <2>1. CASE Auth(cfg.auth).casdoor = Nil /\ Refuse("casdoor")
    BY <2>1, UnusableHasCause, RefuseKeeps
  <2>2. CASE Built("casdoor", Auth(cfg.auth).casdoor)
    BY <2>2, BuiltKeeps DEF Fits
  <2> QED
    BY <1>5, <2>1, <2>2 DEF NewCasdoorAuthClient
<1>6. CASE NewSearchCatalog
  <2>1. CASE ~CatalogUsable /\ Refuse("catalog")
    BY <2>1, UnusableHasCause, RefuseKeeps
  <2>2. CASE Built("catalog", CatalogOptions(adapter, GetCatalog(cfg)))
    BY <2>2, BuiltKeeps DEF Fits
  <2> QED
    BY <1>6, <2>1, <2>2 DEF NewSearchCatalog
<1>7. CASE NewConnectOptions
  BY <1>7, BuiltKeeps DEF NewConnectOptions, Fits
<1>8. CASE NewHTTPServer
  <2>1. CASE Turn("server") /\ stage' = "crashed"
             /\ UNCHANGED <<cfg, adapter, running, reloadVars, depVars, probeVars>>
    <3>1. stage = "building"
      BY <2>1 DEF Turn
    <3>2. TypeOK' /\ Known' /\ FromSnapshot'
      BY <2>1 DEF IInv, TypeOK, Known, FromSnapshot, reloadVars, depVars, probeVars,
                  MaxSpent, RestartRequiredSections
    <3>3. UnwarnedIsFresh' /\ Checking' /\ RefusalHasCause' /\ HealthIsTruthful'
      BY <2>1, <3>1 DEF IInv, UnwarnedIsFresh, Checking, RefusalHasCause,
                        HealthIsTruthful, reloadVars, depVars, probeVars
    <3> QED
      BY <3>2, <3>3 DEF IInv
  <2>2. CASE cfg.server.http # Nil /\ Built("server", ServerOptions(cfg.server))
    BY <2>2, BuiltKeeps DEF Fits
  <2> QED
    BY <1>8, <2>1, <2>2 DEF NewHTTPServer
<1>9. CASE NewOtel
  BY <1>9, BuiltKeeps DEF NewOtel, Fits
<1>10. CASE Started
  <2>1. TypeOK' /\ Known' /\ FromSnapshot'
    BY <1>10 DEF Started, IInv, TypeOK, Known, FromSnapshot, reloadVars, depVars,
                 probeVars, MaxSpent, RestartRequiredSections
  <2>2. UnwarnedIsFresh' /\ Checking' /\ RefusalHasCause' /\ HealthIsTruthful'
    BY <1>10 DEF Started, IInv, UnwarnedIsFresh, Checking, Taken, CheckLimit,
                 RefusalHasCause, HealthIsTruthful, reloadVars, depVars, probeVars
  <2> QED
    BY <2>1, <2>2 DEF IInv
<1> QED
  BY <1>1, <1>2, <1>3, <1>4, <1>5, <1>6, <1>7, <1>8, <1>9, <1>10 DEF Construct

-----------------------------------------------------------------------------
(* What happens to a service that is up. *)

\* A reload changes no setting a part runs with, and warns about each section
\* it changes.
LEMMA ReloadKeeps ==
  ASSUME IInv, NEW new \in Reloads, Reload(new)
  PROVE  IInv'
<1>1. /\ latest' = new /\ new \in Configurations
      /\ UNCHANGED <<startVars, depVars, probeVars>>
  BY DEF Reload, Configurations
<1>2. TypeOK'
  <2>1. DOMAIN latest' = DOMAIN cfg'
    BY <1>1, SectionsAssumption DEF IInv, Known, startVars
  <2>2. warned' \subseteq DOMAIN RestartRequiredSections(cfg)
    BY DEF Reload, IInv, TypeOK, RestartRequiredSections
  <2>3. reloads' \in 0..MaxReloads
    BY CountsAssumption DEF Reload, IInv, TypeOK
  <2> QED
    BY <1>1, <2>1, <2>2, <2>3
    DEF IInv, TypeOK, startVars, depVars, probeVars, MaxSpent, RestartRequiredSections
<1>3. Known' /\ FromSnapshot'
  BY <1>1 DEF IInv, Known, FromSnapshot, startVars
<1>4. UnwarnedIsFresh'
  BY <1>1 DEF Reload, IInv, UnwarnedIsFresh, RestartRequiredSections, startVars
<1>5. Checking' /\ RefusalHasCause' /\ HealthIsTruthful'
  BY <1>1 DEF IInv, Checking, Taken, CheckLimit, RefusalHasCause, HealthIsTruthful,
              startVars, depVars, probeVars
<1> QED
  BY <1>2, <1>3, <1>4, <1>5 DEF IInv

\* A dependency goes down or comes back.
LEMMA FaultKeeps ==
  ASSUME IInv, NEW d \in Deps, GoesDown(d) \/ ComesBack(d)
  PROVE  IInv'
<1>1. /\ UNCHANGED <<startVars, reloadVars, probeVars>>
      /\ stage \in {"building", "up"}
  BY DEF GoesDown, ComesBack
<1>2. /\ alwaysDown' \subseteq alwaysDown /\ everDown \subseteq everDown'
      /\ faults' \in 0..MaxFaults
      /\ alwaysDown' \subseteq down' /\ down' \subseteq everDown'
      /\ everDown' \subseteq Deps
  BY CountsAssumption DEF GoesDown, ComesBack, IInv, TypeOK
<1>3. TypeOK'
  BY <1>1, <1>2 DEF IInv, TypeOK, startVars, reloadVars, probeVars, MaxSpent,
                    RestartRequiredSections
<1>4. Known' /\ FromSnapshot' /\ UnwarnedIsFresh'
  BY <1>1 DEF IInv, Known, FromSnapshot, UnwarnedIsFresh, startVars, reloadVars
<1>5. Checking' /\ RefusalHasCause' /\ HealthIsTruthful'
  BY <1>1, <1>2 DEF IInv, Checking, Taken, CheckLimit, RefusalHasCause, HealthIsTruthful,
                    startVars, probeVars
<1> QED
  BY <1>3, <1>4, <1>5 DEF IInv

\* A request to /healthz, check by check.
LEMMA ProbeKeeps ==
  ASSUME IInv, Probe
  PROVE  IInv'
<1>1. UNCHANGED <<startVars, reloadVars, down, faults>>
  BY DEF Probe, BeginProbe, RunCheck, EndProbe, depVars
<1>2. Known' /\ FromSnapshot' /\ UnwarnedIsFresh'
  BY <1>1 DEF IInv, Known, FromSnapshot, UnwarnedIsFresh, startVars, reloadVars
<1>3. MaxSpent(cfg) \in Nat /\ MaxSpent(cfg)' = MaxSpent(cfg)
  BY <1>1, MaxSpentIsNat DEF IInv, Known, startVars, MaxSpent
<1>4. CASE BeginProbe
  <2>1. left' = Deps /\ spent' = 0 /\ healthy' /\ answer' = "pending" /\ stage' = "up"
    BY <1>4 DEF BeginProbe, startVars
  <2>2. Taken("postgres")' = 0 /\ Taken("redis")' = 0 /\ Taken("search")' = 0
    BY <2>1 DEF Taken, Deps
  <2>3. Checking'
    BY <1>4, <2>1, <2>2 DEF BeginProbe, IInv, TypeOK, Checking
  <2>4. TypeOK' /\ RefusalHasCause' /\ HealthIsTruthful'
    BY <1>3, <1>4
    DEF BeginProbe, IInv, TypeOK, RefusalHasCause, HealthIsTruthful, startVars,
        reloadVars, RestartRequiredSections
  <2> QED
    BY <1>2, <2>3, <2>4 DEF IInv
<1>5. ASSUME NEW d \in Deps, RunCheck(d)
      PROVE  IInv'
  <2>1. /\ d \in left /\ left' = left \ {d} /\ left \subseteq Deps
        /\ healthy' = (healthy /\ d \notin down)
        /\ UNCHANGED <<startVars, reloadVars, depVars, answer>>
    BY <1>5 DEF RunCheck, Verdict, IInv, TypeOK
  <2>2. answer = "pending" /\ stage = "up"
    BY <2>1 DEF IInv, Checking
  <2>3. /\ CheckLimit("postgres") = 2 /\ CheckLimit("search") = 2
        /\ CheckLimit("redis") \in Nat
        /\ MaxSpent(cfg) = 2 + CheckLimit("redis") + 2
    BY <2>2, LimitsAdd DEF IInv
  <2>4. \A e \in Deps : Taken(e)' = IF e = d THEN CheckLimit(d) ELSE Taken(e)
    BY <2>1 DEF Taken, CheckLimit, startVars
  <2>5. /\ d \in left
        /\ \A e \in Deps : Taken(e) \in 0..CheckLimit(e)
        /\ Taken(d) = 0
    BY <2>1, <2>3 DEF Taken, Deps
  <2>6. PICK t \in Nat : t <= CheckLimit(d) /\ spent' = spent + t
    BY <1>5, DurationsAssumption DEF RunCheck, CheckTimes
  <2> DEFINE now == Taken("postgres") + Taken("redis") + Taken("search")
             then == Taken("postgres")' + Taken("redis")' + Taken("search")'
  <2>7. spent \in 0..now
    BY <2>2 DEF IInv, Checking
  <2>8. spent' \in 0..then /\ then <= MaxSpent(cfg)
    BY <2>3, <2>4, <2>5, <2>6, <2>7 DEF Deps
  <2>9. Checking'
    <3>1. healthy' => alwaysDown' \subseteq left'
      BY <2>1, <2>2 DEF IInv, TypeOK, Checking, depVars
    <3>2. ~healthy' => everDown' # {}
      BY <2>1 DEF IInv, TypeOK, Checking, depVars
    <3> QED
      BY <2>1, <2>2, <2>8, <3>1, <3>2 DEF Checking, startVars
  <2>10. TypeOK' /\ RefusalHasCause' /\ HealthIsTruthful'
    <3>1. healthy' \in BOOLEAN /\ left' \subseteq Deps
      BY <2>1 DEF IInv, TypeOK
    <3>2. spent' \in 0..MaxSpent(cfg)'
      BY <1>3, <2>3, <2>4, <2>5, <2>8 DEF Deps
    <3>3. TypeOK'
      BY <2>1, <3>1, <3>2 DEF IInv, TypeOK, startVars, reloadVars, depVars,
                              RestartRequiredSections
    <3> QED
      BY <2>1, <3>3 DEF IInv, RefusalHasCause, HealthIsTruthful, startVars, depVars
  <2> QED
    BY <1>2, <2>9, <2>10 DEF IInv
<1>6. CASE EndProbe
  <2>1. /\ answer = "pending" /\ left = {} /\ left' = {} /\ healthy' /\ spent' = 0
        /\ answer' \in {"cut", "200", "503"}
        /\ answer' = "200" => healthy
        /\ answer' = "503" => ~healthy
        /\ UNCHANGED <<startVars, reloadVars, depVars>>
    BY <1>6 DEF EndProbe
  <2>2. Checking'
    BY <2>1 DEF Checking, startVars
  <2>3. TypeOK'
    BY <1>3, <1>6, <2>1
    DEF EndProbe, IInv, TypeOK, startVars, reloadVars, depVars, RestartRequiredSections
  <2>4. RefusalHasCause' /\ HealthIsTruthful'
    BY <2>1 DEF IInv, Checking, RefusalHasCause, HealthIsTruthful, startVars, depVars
  <2> QED
    BY <1>2, <2>2, <2>3, <2>4 DEF IInv
<1> QED
  BY <1>4, <1>5, <1>6 DEF Probe

-----------------------------------------------------------------------------
(* The invariant. *)

\* The first state.
LEMMA InitIInv == Init => IInv
<1> SUFFICES ASSUME Init PROVE IInv
  OBVIOUS
<1>1. Known
  BY AdaptersAssumption DEF Init, Known, Configurations
<1>2. FromSnapshot
  BY PartsByName DEF Init, FromSnapshot
<1>3. TypeOK
  BY <1>1, CountsAssumption, MaxSpentIsNat DEF Init, Known, TypeOK
<1>4. Checking /\ UnwarnedIsFresh /\ RefusalHasCause /\ HealthIsTruthful
  BY DEF Init, Checking, UnwarnedIsFresh, RefusalHasCause, HealthIsTruthful
<1> QED
  BY <1>1, <1>2, <1>3, <1>4 DEF IInv

\* Every step.
LEMMA NextIInv == IInv /\ [Next]_vars => IInv'
<1> SUFFICES ASSUME IInv, [Next]_vars PROVE IInv'
  OBVIOUS
<1>1. CASE Next
  BY <1>1, ConstructKeeps, ReloadKeeps, FaultKeeps, ProbeKeeps DEF Next
<1>2. CASE UNCHANGED vars
  <2>1. TypeOK' /\ Known' /\ FromSnapshot' /\ UnwarnedIsFresh'
    BY <1>2 DEF IInv, TypeOK, Known, FromSnapshot, UnwarnedIsFresh, vars, startVars,
                reloadVars, depVars, probeVars, MaxSpent, RestartRequiredSections
  <2>2. Checking' /\ RefusalHasCause' /\ HealthIsTruthful'
    BY <1>2 DEF IInv, Checking, Taken, CheckLimit, RefusalHasCause, HealthIsTruthful,
                vars, startVars, reloadVars, depVars, probeVars
  <2> QED
    BY <2>1, <2>2 DEF IInv
<1> QED
  BY <1>1, <1>2

\* It holds in every state.
LEMMA Invariant == Spec => []IInv
BY InitIInv, NextIInv, PTL DEF Spec

\* Type correctness; what the configuration holds is only looked at where a
\* constructor or a reload reads it.
THEOREM TypeCorrect == Spec => []TypeOK
<1>1. IInv => TypeOK
  BY DEF IInv
<1> QED
  BY <1>1, Invariant, PTL

\* A start is refused for a reason an operator can find, whatever the timeouts
\* of the configuration: a section that is missing, a certificate that is not
\* PEM, or a dependency that was down (constants.go 10-14, db_postgres.go
\* 229-236, cache_redis.go 61-64).
THEOREM RefusalsHaveCauses == Spec => []RefusalHasCause
<1>1. IInv => RefusalHasCause
  BY DEF IInv
<1> QED
  BY <1>1, Invariant, PTL

\* After any number of reloads, what differs from the settings of a running
\* part was warned about (config.go 28-35).
THEOREM StalePartsAreWarned == Spec => []StaleIsWarned
<1>1. ASSUME IInv PROVE StaleIsWarned
  <2> SUFFICES ASSUME stage = "up" PROVE StaleIsWarned
    BY DEF StaleIsWarned
  <2>1. /\ running["registry"] = RegistryOptions(cfg)
        /\ running["otel"] = OtelOptions(cfg)
        /\ running["interceptors"] = ConnectOptions(cfg)
        /\ running["catalog"] = CatalogOptions(adapter, GetCatalog(cfg))
    BY <1>1, PartsByName DEF IInv, FromSnapshot
  <2>2. /\ "server" \in warned \/ latest.server = cfg.server
        /\ "discovery" \in warned \/ latest.discovery = cfg.discovery
        /\ "observability" \in warned \/ latest.observability = cfg.observability
        /\ "search" \in warned \/ latest.search = cfg.search
    BY <1>1 DEF IInv, UnwarnedIsFresh, RestartRequiredSections
  <2>3. latest.server = cfg.server /\ latest.discovery = cfg.discovery
          => RegistryOptions(latest) = RegistryOptions(cfg)
    BY DEF RegistryOptions
  <2>4. latest.observability = cfg.observability
          => OtelOptions(latest) = OtelOptions(cfg)
             /\ ConnectOptions(latest) = ConnectOptions(cfg)
    BY DEF OtelOptions, ConnectOptions
  <2>5. latest.search = cfg.search => GetCatalog(latest) = GetCatalog(cfg)
    BY DEF GetCatalog
  <2> QED
    BY <2>1, <2>2, <2>3, <2>4, <2>5 DEF StaleIsWarned
<1> QED
  BY <1>1, Invariant, PTL

\* The two lists of interceptors.
LEMMA InterceptorLists ==
  /\ Len((<<"validate">> \o <<"otel">>) \o <<"logging">>) = 3
  /\ ((<<"validate">> \o <<"otel">>) \o <<"logging">>)[2] = "otel"
  /\ Len((<<"validate">> \o <<>>) \o <<"logging">>) = 2
  /\ ((<<"validate">> \o <<>>) \o <<"logging">>)[1] = "validate"
  /\ ((<<"validate">> \o <<>>) \o <<"logging">>)[2] = "logging"
<1> DEFINE S == {"validate", "otel", "logging"}
           v == <<"validate">>  o == <<"otel">>  e == <<>>  l == <<"logging">>
<1>1. /\ v \in Seq(S) /\ o \in Seq(S) /\ e \in Seq(S) /\ l \in Seq(S)
      /\ Len(v) = 1 /\ Len(o) = 1 /\ Len(e) = 0 /\ Len(l) = 1
      /\ v[1] = "validate" /\ o[1] = "otel" /\ l[1] = "logging"
  BY EmptySeq
<1> HIDE DEF S, v, o, e, l
<1>2. /\ v \o o \in Seq(S) /\ Len(v \o o) = 2 /\ (v \o o)[2] = "otel"
      /\ v \o e \in Seq(S) /\ Len(v \o e) = 1 /\ (v \o e)[1] = "validate"
  BY <1>1, ConcatProperties
<1>3. /\ Len((v \o o) \o l) = 3 /\ ((v \o o) \o l)[2] = "otel"
      /\ Len((v \o e) \o l) = 2 /\ ((v \o e) \o l)[1] = "validate"
      /\ ((v \o e) \o l)[2] = "logging"
  BY <1>1, <1>2, ConcatProperties
<1> QED
  BY <1>3 DEF v, o, e, l

\* Whatever the configuration says of telemetry, spans are made exactly when
\* there is an exporter for them (middleware.go 40-41, otel.go 17-21).
THEOREM SpansAreExported == Spec => []SpansHaveExporter
<1>1. ASSUME IInv PROVE SpansHaveExporter
  <2> SUFFICES ASSUME stage = "up" PROVE SpansHaveExporter
    BY DEF SpansHaveExporter
  <2> DEFINE on == Observability(cfg.observability).enable
             options == ConnectOptions(cfg)
  <2>1. running["otel"] = OtelOptions(cfg) /\ running["interceptors"] = options
    BY <1>1, PartsByName DEF IInv, FromSnapshot
  <2>2. OtelOptions(cfg).enabled <=> on
    BY DEF OtelOptions
  <2>3. CASE on
    <3>1. options = (<<"validate">> \o <<"otel">>) \o <<"logging">>
      BY <2>3 DEF ConnectOptions
    <3>2. Len(options) = 3 /\ options[2] = "otel"
      BY <3>1, InterceptorLists
    <3> QED
      BY <2>1, <2>2, <2>3, <3>2 DEF SpansHaveExporter
  <2>4. CASE ~on
    <3>1. options = (<<"validate">> \o <<>>) \o <<"logging">>
      BY <2>4 DEF ConnectOptions
    <3>2. Len(options) = 2 /\ options[1] = "validate" /\ options[2] = "logging"
      BY <3>1, InterceptorLists
    <3> QED
      BY <2>1, <2>2, <2>4, <3>2 DEF SpansHaveExporter
  <2> QED
    BY <2>3, <2>4
<1> QED
  BY <1>1, Invariant, PTL

\* /healthz says 200 only if each dependency was well at some time since the
\* request began, and 503 only if the check of one failed, in whatever order the
\* checks run and however often a dependency goes and comes (health.go 26-33).
THEOREM HealthIsTold == Spec => []HealthIsTruthful
<1>1. IInv => HealthIsTruthful
  BY DEF IInv
<1> QED
  BY <1>1, Invariant, PTL

\* A write timeout that is unset, or leaves time for the three longest checks:
\* two seconds for two of them, and for that of redis two seconds and what an
\* attempt begun then takes by the timeouts of its section.
ChecksFit ==
  \A p \in Projects :
    p[2].server.http # Nil =>
      LET write == AsDuration(p[2].server.http.writeTimeout)
      IN  write = 0 \/ write >= MaxSpent(p[2])

\* No answer of /healthz was lost.
NeverCut == answer # "cut"

\* Where the write timeout fits the checks, every request to /healthz is
\* answered, and so a dependency that is down is reported (README.md 220).
THEOREM ProbesAreAnswered ==
  ASSUME ChecksFit
  PROVE  Spec => []UnhealthyIsReported
<1>1. Init => NeverCut
  BY DEF Init, NeverCut
<1>2. IInv /\ NeverCut /\ [Next]_vars => NeverCut'
  <2> SUFFICES ASSUME IInv, answer # "cut", [Next]_vars PROVE answer' # "cut"
    BY DEF NeverCut
  <2>1. CASE EndProbe
    <3>1. stage = "up" /\ spent \in 0..MaxSpent(cfg)
      BY <2>1 DEF EndProbe, IInv, Checking, TypeOK
    <3>2. cfg.server.http # Nil /\ running["server"] = ServerOptions(cfg.server)
      BY <3>1, PartsByName DEF IInv, FromSnapshot
    <3> DEFINE write == AsDuration(cfg.server.http.writeTimeout)
    <3>3. /\ running["server"].write = write
          /\ write \in Int
          /\ write = 0 \/ write >= MaxSpent(cfg)
      BY <3>2, DurationsAssumption DEF IInv, Known, ChecksFit, ServerOptions
    <3>4. InTime
      <4>1. MaxSpent(cfg) \in Nat
        BY MaxSpentIsNat DEF IInv, Known
      <4> QED
        BY <3>1, <3>3, <4>1 DEF InTime
    <3> QED
      BY <2>1, <3>4 DEF EndProbe
  <2>2. CASE ~EndProbe
    <3>1. answer' = answer \/ answer' = "pending"
      BY <2>2
      DEF Next, Construct, Built, Refuse, NewLogger, NewRegistry, NewPostgresPool,
          NewRedisClient, NewCasdoorAuthClient, NewSearchCatalog, NewConnectOptions,
          NewHTTPServer, NewOtel, Started, Reload, GoesDown, ComesBack, Probe, BeginProbe,
          RunCheck, vars, probeVars
    <3> QED
      BY <3>1
  <2> QED
    BY <2>1, <2>2
<1>3. NeverCut => UnhealthyIsReported
  BY DEF NeverCut, UnhealthyIsReported
<1> QED
  BY <1>1, <1>2, <1>3, Invariant, PTL DEF Spec

\* The sections NewHTTPServer reads without a test (server.go 67, 77-79).
ServerComplete ==
  \A p \in Projects : p[2].server.cors # Nil /\ p[2].server.http # Nil

\* They are the only ones whose absence is not reported: where both are there,
\* a start ends with the service up or with an error (conf.proto 76-77).
THEOREM OnlyServerCrashes ==
  ASSUME ServerComplete
  PROVE  Spec => []MissingSectionIsReported
<1>1. Init => MissingSectionIsReported
  BY DEF Init, MissingSectionIsReported
<1>2. IInv /\ MissingSectionIsReported /\ [Next]_vars => MissingSectionIsReported'
  <2> SUFFICES ASSUME IInv, MissingSectionIsReported, [Next]_vars
               PROVE  stage' # "crashed"
    BY DEF MissingSectionIsReported
  <2>1. cfg.server.cors # Nil /\ cfg.server.http # Nil
    BY DEF ServerComplete, IInv, Known
  <2> QED
    BY <2>1
    DEF MissingSectionIsReported, Next, Construct, Built, Refuse, NewLogger, NewRegistry,
        NewPostgresPool, NewRedisClient, NewCasdoorAuthClient, NewSearchCatalog,
        NewConnectOptions, NewHTTPServer, NewOtel, Started, Reload, GoesDown, ComesBack,
        Probe, BeginProbe, RunCheck, EndProbe, vars, startVars
<1> QED
  BY <1>1, <1>2, Invariant, PTL DEF Spec

=============================================================================
