\* One request of either protocol, hooks that never use the window up by themselves.
SPECIFICATION PromptSpec
CONSTANTS
  Requests = {q1}
  Kinds <- BothKinds
INVARIANT NoRequestLosesItsClients
CHECK_DEADLOCK FALSE
