SPECIFICATION StdioSpec
CONSTANTS
  Pids = {p1, p2}
  NoPid = NoPid
  RestartsInCallback = FALSE
INVARIANT
  CallbacksDoNotWait
\* The children are used up, or the loop has returned and stop() was called.
CHECK_DEADLOCK FALSE
