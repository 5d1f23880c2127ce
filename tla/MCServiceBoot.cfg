\* Every pair of departures from the usual configuration, without reloads.
SPECIFICATION Spec
CONSTANTS
  Nil = Nil
  WriteTimeout = 23
  Places = {"postgres", "redis", "casdoor", "catalog", "server", "otel", "consul"}
  Projects <- MCDouble
  Reloads = {}
  MaxReloads = 0
  MaxFaults = 0
  Exchanges = 2
  Durations = {}
INVARIANT MissingSectionIsReported
CHECK_DEADLOCK FALSE
