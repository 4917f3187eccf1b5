------------------------------ MODULE MCBridge ------------------------------
(* Small instances of Bridge for TLC. *)
EXTENDS Bridge

(* An application may choose any id for a raw request; the interesting     *)
(* choices are the ones the router would generate next.                    *)
MCRawIds ==
  {[origin |-> "remote", generation |-> 1, connection |-> 1, number |-> 1],
   [origin |-> "local", generation |-> 2, connection |-> None, number |-> 2]}
NoRawIds == {}
=============================================================================
