----------------------------- MODULE MCModelPath -----------------------------
(* The small instance of the model path for TLC, with the decoders that    *)
(* stand between its transports and its events checked beside it.          *)
EXTENDS ModelPath, StreamDecoders

(* Whenever a response streams, the decoders give the events and the tool  *)
(* inputs that the formats define, and fail where there are none, however  *)
(* the bytes arrive.                                                       *)
DecodersAgree ==
  (\E r \in Requests : exchange[r].http = "stream") => SseAgrees /\ CustomInputAgrees
=============================================================================
