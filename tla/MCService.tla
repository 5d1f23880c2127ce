----------------------------- MODULE MCService -----------------------------
(***************************************************************************)
(* Instances of Service for TLC: a complete configuration, and those that  *)
(* differ from it in one place or two.                                     *)
(***************************************************************************)
EXTENDS Service, TLC

CONSTANTS
  WriteTimeout,  \* write_timeout of the usual configuration, in seconds
  Places         \* the places where a configuration may differ from it

\* The values of each place, the usual one first.
Choices ==
  [postgres |-> <<"pool", "nil", "no_pool", "bad_ca">>,
   redis    |-> <<"tls", "nil", "plain", "unset", "bad_ca">>,
   casdoor  |-> <<"set", "nil">>,
   catalog  |-> <<"plain", "nil", "no_index", "half_login", "bad_ca">>,
   server   |-> <<"full", "no_cors", "no_http", "no_write">>,
   otel     |-> <<"off", "on">>,
   consul   |-> <<"ttl", "nil">>]

Usual == [p \in DOMAIN Choices |-> Choices[p][1]]

CA(pem) == [enable |-> TRUE, caPem |-> pem, insecure |-> FALSE]

Postgres(o) ==
  IF o = "nil" THEN Nil
  ELSE [host |-> "pg",
        pool |-> IF o = "no_pool" THEN Nil
                 ELSE [maxConns |-> 20, minConns |-> 5, lifetime |-> 3600,
                       idle |-> 300, pingTimeout |-> Nil],
        tls |-> [sslMode |-> "verify-ca",
                 caPem |-> IF o = "bad_ca" THEN "bad" ELSE "good"]]

Redis(o) ==
  IF o = "nil" THEN Nil
  ELSE [host |-> "redis",
        dialTimeout |-> IF o = "unset" THEN Nil ELSE 5,
        readTimeout |-> IF o = "unset" THEN Nil ELSE 3,
        writeTimeout |-> IF o = "unset" THEN Nil ELSE 3,
        tls |-> CASE o = "tls" -> CA("")
                  [] o = "bad_ca" -> CA("bad")
                  [] OTHER -> Nil]

CatalogOf(o) ==
  IF o = "nil" THEN Nil
  ELSE [endpoint |-> "http://search", apiKey |-> "key",
        index |-> IF o = "no_index" THEN "" ELSE "products",
        username |-> IF o \in {"login", "half_login"} THEN "user" ELSE "",
        password |-> IF o = "login" THEN "word" ELSE "",
        tls |-> IF o = "bad_ca" THEN CA("bad") ELSE Nil]

ServerOf(o) ==
  [addr |-> IF o = "other_addr" THEN ":30001" ELSE ":30000",
   http |-> IF o = "no_http" THEN Nil
            ELSE [readTimeout |-> 5, idleTimeout |-> 60,
                  writeTimeout |-> IF o = "no_write" THEN Nil ELSE WriteTimeout],
   cors |-> IF o = "no_cors" THEN Nil ELSE [allowedOrigins |-> {"http://localhost:3000"}]]

ObservabilityOf(o) ==
  [enable |-> o # "off",
   trace |-> [endpoint |-> "collector", tls |-> Nil,
              sampleRatio |-> IF o = "ratio_0" THEN 0 ELSE Nil],
   metric |-> [endpoint |-> "collector", tls |-> Nil, exportInterval |-> Nil],
   log |-> Nil]

ConsulOf(o) ==
  IF o = "nil" THEN Nil
  ELSE [addr |-> "consul",
        tls |-> Nil,
        check |-> [ttl |-> IF o = "no_ttl" THEN Nil
                           ELSE [duration |-> "15s", pingInterval |-> 5],
                   deregister |-> "30"]]

Bootstrap(o) ==
  [server |-> ServerOf(o.server),
   log |-> [framework |-> Nil, application |-> [format |-> "json", level |-> "info"]],
   data |-> [database |-> [postgres |-> Postgres(o.postgres)],
             cache |-> [redis |-> Redis(o.redis)]],
   auth |-> [casdoor |-> IF o.casdoor = "nil" THEN Nil ELSE "casdoor"],
   observability |-> ObservabilityOf(o.otel),
   discovery |-> IF o.consul = "nil" THEN Nil ELSE [consul |-> ConsulOf(o.consul)],
   search |-> IF o.catalog = "nil" THEN Nil ELSE [catalog |-> CatalogOf(o.catalog)]]

Values(p) == {Choices[p][n] : n \in 1..Len(Choices[p])}

\* At most one place differs, or two.
Single == UNION {{[Usual EXCEPT ![p] = v] : v \in Values(p)} : p \in Places}
Double == UNION {{[o EXCEPT ![p] = v] : o \in Single, v \in Values(p)} : p \in Places}

MCSingle ==
  {<<"elasticsearch", Bootstrap(o)>> : o \in Single}
    \cup {<<"meilisearch", Bootstrap([Usual EXCEPT !.catalog = "half_login"])>>}
MCDouble == {"elasticsearch", "meilisearch"} \X {Bootstrap(o) : o \in Double}

\* Changes of each section that is read at start, and of two at once.
MCReloads ==
  {Bootstrap(o) :
     o \in {Usual,
            [Usual EXCEPT !.server = "other_addr"],
            [Usual EXCEPT !.catalog = "login"],
            [Usual EXCEPT !.consul = "no_ttl", !.otel = "ratio_0"]}}
=============================================================================
