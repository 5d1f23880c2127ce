\* The write timeout of configs/config.yaml.example; the checks wait for the 2
\* seconds of their context, or the 3 of a read from redis.
SPECIFICATION Spec
CONSTANTS
  Nil = Nil
  WriteTimeout = 5
  Places = {"server"}
  Projects <- MCSingle
  Reloads = {}
  MaxReloads = 0
  MaxFaults = 3
  Exchanges = 2
  Durations = {0, 2, 3}
INVARIANT UnhealthyIsReported
CHECK_DEADLOCK FALSE
