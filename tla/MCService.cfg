\* Configurations that differ from the usual one in one place; two reloads.
\* The slowest check of redis takes 2 seconds, a TLS dial of 5 and two requests
\* of 3 and 3: 19, and all three 23.
SPECIFICATION Spec
CONSTANTS
  Nil = Nil
  WriteTimeout = 23
  Places = {"postgres", "redis", "casdoor", "catalog", "server", "otel", "consul"}
  Projects <- MCSingle
  Reloads <- MCReloads
  MaxReloads = 2
  MaxFaults = 3
  Exchanges = 2
  Durations = {0, 2, 19, 60}
INVARIANTS TypeOK RefusalHasCause StaleIsWarned SpansHaveExporter HealthIsTruthful UnhealthyIsReported
CHECK_DEADLOCK FALSE
