------------------------------- MODULE MCStdio -------------------------------
(* The stdio provider with the framer that cuts the output of its child    *)
(* into messages, for TLC.                                                 *)
EXTENDS StdioAppServer, JsonLineFramer

(* Whenever a child is connected, however the reads of its stdout split    *)
(* what it writes, every frame reaches the bridge once and in order, up to *)
(* the first that breaks the framing, which is reported once.              *)
FramesAreDelivered == connected => FramingAgrees
=============================================================================
