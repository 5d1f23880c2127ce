\* One HTTP/1 request that outlives the window of stopCtx.
SPECIFICATION PromptSpec
CONSTANTS
  Requests = {q1}
  Kinds <- HTTP1Only
INVARIANT HooksFinishInWindow
CHECK_DEADLOCK FALSE
