\* Three requests, each HTTP/1 or h2c.  The process ends: no deadlock check.
SPECIFICATION FairSpec
CONSTANTS
  Requests = {q1, q2, q3}
  Kinds <- BothKinds
INVARIANTS OpenClientsAreOwned HTTP1KeepsItsClients CleanExitIsClean
  FailedStartIsUndone
PROPERTY SignalEndsProcess
CHECK_DEADLOCK FALSE
