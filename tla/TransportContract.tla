--------------------------- MODULE TransportContract ---------------------------
(***************************************************************************)
(* What the receiver of a POST is promised (ai/http/StreamingClient.h):    *)
(* its headers, then its body piece by piece and never more than was asked *)
(* for, then one end.  Who cancels is told nothing more.  The headers, the *)
(* last piece and the end may come in one turn of the event loop.          *)
(***************************************************************************)
EXTENDS Naturals

CONSTANT MaximumResponseBytes

VARIABLES
  headers,   \* the receiver has been told the headers
  bytes,     \* the bytes of the body it has been given
  outcome    \* "none", or how the response ended
vars == <<headers, bytes, outcome>>

Init == headers = FALSE /\ bytes = 0 /\ outcome = "none"

Progress ==
  /\ outcome = "none"
  /\ headers' \in {headers, TRUE}
  /\ bytes' \in bytes .. MaximumResponseBytes
  /\ bytes' > bytes => headers'
Continues == Progress /\ outcome' = "none"
Completes == Progress /\ headers' /\ outcome' = "completed"
Fails == Progress /\ outcome' = "error"
Cancelled == Progress /\ outcome' = "cancelled"

Next == Continues \/ Completes \/ Fails \/ Cancelled
Spec == Init /\ [][Next]_vars
=============================================================================
