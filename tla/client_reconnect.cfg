SPECIFICATION ClientFairSpec
CONSTANTS
  Transports = {"websocket"}
  f1 = f1
  f2 = f2
  f3 = f3
  Flows = {f1, f2, f3}
  NoFlow = NoFlow
  MaxLines = 1
PROPERTY
  ReconnectCompletes
\* A client that has exited does nothing more.
CHECK_DEADLOCK FALSE
