------------------------------ MODULE Exchange ------------------------------
(***************************************************************************)
(* One inference from end to end: the service's Session and its HTTP       *)
(* connection to Codex, the ResponseOperation with its Responses stream,   *)
(* the Anthropic Inference with its MessageStream, and the HTTP transport  *)
(* to Anthropic.                                                           *)
(*                                                                         *)
(* These objects call each other synchronously: an event of the transport  *)
(* becomes provider events, each becomes frames, and the last of them, or  *)
(* one that is not taken, cancels the objects below while they are still   *)
(* on the stack.  An exchange is a record, an operator maps it to what the *)
(* calls of one event-loop callback make of it; a set of records stands    *)
(* for what the connection to Codex may do with the frames.                *)
(***************************************************************************)
EXTENDS ResponsesStream

Messages ==
  [started : BOOLEAN, stop : StopReasons \cup {"none"},
   block : CallIds \cup {Text, NoBlock}, next : Nat, calls : SUBSET CallIds,
   terminal : BOOLEAN]
NewMessage ==
  [started |-> FALSE, stop |-> "none", block |-> NoBlock, next |-> 0,
   calls |-> {}, terminal |-> FALSE]

(* "phase" is the connection that brought the request, "open" Session's    *)
(* open_, "stopped" that of the operation, "upstream" the operation the    *)
(* provider returned, "http" the transport: its headers are awaited, or    *)
(* its body, that of a stream or of an error.  "callbacks" observes the    *)
(* receiver that was given to the provider: "late" when it is called once  *)
(* its last event or a cancellation has been.                              *)
Exchanges ==
  [phase : {"absent", "refused", "full", "open", "closing", "closed"},
   open : BOOLEAN, stopped : BOOLEAN, upstream : {"none", "active", "cancelled"},
   callbacks : {"due", "ended", "cancelled", "late"},
   http : {"idle", "headers", "stream", "plain", "done"},
   message : Messages, response : Streams]
NoExchange ==
  [phase |-> "absent", open |-> FALSE, stopped |-> FALSE, upstream |-> "none",
   callbacks |-> "due", http |-> "idle",
   message |-> NewMessage, response |-> NewStream]
NewExchange == [[NoExchange EXCEPT !.phase = "open"] EXCEPT !.open = TRUE]
OnTheWire == {"headers", "stream", "plain"}

-----------------------------------------------------------------------------
(* Cancelling the provider's operation silences it and closes its          *)
(* transport.                                                              *)
CancelMessage(m) == [m EXCEPT !.terminal = TRUE]
CancelProvider(x) ==
  IF x.upstream # "active" THEN x
  ELSE [[[[x EXCEPT !.upstream = "cancelled"]
            EXCEPT !.callbacks = IF @ = "due" THEN "cancelled" ELSE @]
           EXCEPT !.message = CancelMessage(@)]
          EXCEPT !.http = IF @ \in OnTheWire THEN "done" ELSE @]

(* The end of the stream is the end of the HTTP response, which closes the *)
(* connection.                                                             *)
Finish(x) == IF x.open THEN [x EXCEPT !.phase = "closing"] ELSE x

StopOperation(x) == CancelProvider([x EXCEPT !.stopped = TRUE])
StopSession_KeepsOperation(x) == [x EXCEPT !.open = FALSE]
StopSession(x) == StopOperation([x EXCEPT !.open = FALSE])

(* The receiver startResponse gives to the provider.                       *)
Deliver(x, t) ==
  IF x.stopped THEN x
  ELSE LET y == [x EXCEPT !.response = t]
       IN IF t.terminal THEN Finish(StopOperation(y)) ELSE y

(* The queue to Codex is full: the connection is given up at once.         *)
Suspend(x) ==
  [[StopSession(x) EXCEPT !.phase = "closing"] EXCEPT !.response = Refused(@)]

(* A provider event turns the stream into t; one of its frames may not be  *)
(* taken, with or without the queue being full.                            *)
Deliveries(x, t) ==
  IF x.stopped THEN {x}
  ELSE {Deliver(x, t), Deliver(x, Refused(x.response)), Suspend(x)}

-----------------------------------------------------------------------------
(* MessageStream                                                           *)

Called(x, final) ==
  [x EXCEPT !.callbacks = IF @ # "due" THEN "late"
                          ELSE IF final THEN "ended" ELSE @]
Emit(x, t) ==
  IF x.message.terminal THEN {x} ELSE Deliveries(Called(x, FALSE), t)
EmitUsage(x) ==
  IF x.message.terminal THEN x
  ELSE Deliver(Called(x, FALSE), ReceiveUsage(x.response))
EmitLast(x, t) == Deliveries(Called([x EXCEPT !.message = CancelMessage(@)], TRUE), t)

FailMessage_Again(x) == EmitLast(x, Fail(x.response))
FailMessage(x) ==
  IF x.message.terminal THEN {x} ELSE EmitLast(x, Fail(x.response))

(* parse(), one operator for each type of event.  "valid" stands for what  *)
(* the JSON of the event must hold besides its place in the order.         *)
MessageStart(x, valid) ==
  IF x.message.started THEN FailMessage(x)
  ELSE LET y == [x EXCEPT !.message = [@ EXCEPT !.started = TRUE]]
           started == Emit(y, ReceiveStarted(x.response))
       IN IF valid THEN {EmitUsage(z) : z \in started}
          ELSE UNION {FailMessage(z) : z \in started}

OpenBlock(m, block) ==
  [[[m EXCEPT !.next = @ + 1]
      EXCEPT !.block = block]
     EXCEPT !.calls = IF block \in CallIds THEN @ \cup {block} ELSE @]

(* Thinking is refused here when it is disabled, by the Responses stream   *)
(* when it is not.                                                         *)
BlockStart_Thinks(x, index, block, valid) ==
  IF ~x.message.started \/ index # x.message.next \/ ~valid THEN FailMessage(x)
  ELSE Emit([x EXCEPT !.message = OpenBlock(@, block)],
            ReceiveBlockStarted(x.response, index, block, TRUE))
BlockStart(x, index, block, valid) ==
  IF \/ ~x.message.started \/ x.message.stop # "none" \/ x.message.block # NoBlock
     \/ index # x.message.next
     \/ block \in x.message.calls \cup {Reasoning}
     \/ ~valid
  THEN FailMessage(x)
  ELSE Emit([x EXCEPT !.message = OpenBlock(@, block)],
            ReceiveBlockStarted(x.response, index, block, TRUE))

IsOpenBlock(m, index) == m.block # NoBlock /\ index + 1 = m.next

BlockDelta(x, index, kind, valid) ==
  IF ~IsOpenBlock(x.message, index) \/ kind # Kind(x.message.block) THEN FailMessage(x)
  ELSE Emit(x, ReceiveDelta(x.response, index, kind, valid))

(* The arguments of a call may still not fit the tool ("fits").            *)
BlockStop(x, index, valid, fits) ==
  IF ~IsOpenBlock(x.message, index) \/ ~valid THEN FailMessage(x)
  ELSE Emit([x EXCEPT !.message = [@ EXCEPT !.block = NoBlock]],
            ReceiveBlockFinished(x.response, index, x.message.block,
                                 fits \/ x.message.block = Text))

SetStop(m, reason) == IF reason = "none" THEN m ELSE [m EXCEPT !.stop = reason]
MessageDelta(x, reason) ==
  IF ~x.message.started \/ x.message.block # NoBlock THEN FailMessage(x)
  ELSE {EmitUsage([x EXCEPT !.message = SetStop(@, reason)])}

MessageStop(x, valid) ==
  IF ~x.message.started \/ x.message.stop = "none" \/ x.message.block # NoBlock
  THEN FailMessage(x)
  ELSE EmitLast(x, ReceiveCompleted(x.response, x.message.stop, valid))

(* One server-sent event.  A ping or an event of an unknown type changes   *)
(* nothing; an error event, and data that is malformed, fail the stream.   *)
WireEvents(x, maxIndex) ==
  IF x.message.terminal THEN {x}
  ELSE FailMessage(x)
    \cup (UNION {MessageStart(x, valid) \cup MessageStop(x, valid) : valid \in BOOLEAN})
    \cup (UNION {BlockStart(x, i, b, valid) :
                   i \in 0 .. maxIndex, b \in Blocks, valid \in BOOLEAN})
    \cup (UNION {BlockDelta(x, i, kind, valid) :
                   i \in 0 .. maxIndex, kind \in {Text, "call"}, valid \in BOOLEAN})
    \cup (UNION {BlockStop(x, i, valid, fits) :
                   i \in 0 .. maxIndex, valid \in BOOLEAN, fits \in BOOLEAN})
    \cup (UNION {MessageDelta(x, reason) : reason \in StopReasons \cup {"none"}})

-----------------------------------------------------------------------------
(* The HTTP transport.  However the response ends, by its length, by the   *)
(* connection or by an error, before message_stop it is an error.          *)

Headers(x, kind, isEvents) ==
  LET y == [x EXCEPT !.http = kind]
  IN IF kind = "stream" /\ ~isEvents THEN FailMessage(y) ELSE {y}
TransportEnds_Silently(x) == {[x EXCEPT !.http = "done"]}
TransportEnds(x) == FailMessage([x EXCEPT !.http = "done"])
(* The body of an answer that is not a stream exceeds its limit.           *)
ErrorBodyOverflows(x) == FailMessage(x)

-----------------------------------------------------------------------------
(* startResponse.  The provider may call its receiver before it returns,   *)
(* and return no operation, or throw.                                      *)

Returned(x, hasOperation) ==
  IF hasOperation
  THEN IF x.stopped THEN CancelProvider([x EXCEPT !.upstream = "active"])
       ELSE [x EXCEPT !.upstream = "active"]
  ELSE x
StartFails(x) == IF x.stopped THEN {x} ELSE Deliveries(x, Fail(x.response))

(* AnthropicProvider::start: the request cannot be prepared, cannot be     *)
(* posted, or is on its way.                                               *)
StartAnthropic(x) ==
  Deliveries(Called(x, TRUE), Fail(x.response))
    \cup {Returned(y, TRUE) : y \in FailMessage(x)}
    \cup {Returned([x EXCEPT !.http = "headers"], TRUE)}

(* Any provider.                                                           *)
StartScripted(x, maxIndex) ==
  LET early == {x} \cup (UNION {Deliveries(x, t) : t \in Received(x.response, maxIndex)})
  IN {Returned(y, TRUE) : y \in early} \cup (UNION {StartFails(y) : y \in early})
=============================================================================
