---------------------------- MODULE ModelPathProofs ----------------------------
(***************************************************************************)
(* Theorems about the model path, for every number of requests, sessions   *)
(* and items, and for every set of call ids.                               *)
(*                                                                         *)
(* The first part is about one inference: what each operator of            *)
(* ResponsesStream and of Exchange preserves.  A stream is consistent      *)
(* (StreamInv) until it is terminal; an exchange is idle, live or dead     *)
(* (ExchangeInv), and a callback takes a live one to a live or a dead one, *)
(* with at most one step of the Responses protocol, or two of which the    *)
(* first creates the response and the second fails it.  The second part    *)
(* adds of the service that it remembers every session that is open and    *)
(* never more sessions than the limit.                                     *)
(***************************************************************************)
EXTENDS ModelPath, FiniteSetTheorems, TLAPS

-----------------------------------------------------------------------------
(* Streams *)

StreamInv(s) ==
  /\ s.outcome # "none" => s.terminal
  /\ s.done <= s.added
  /\ s.outcome = "completed" => s.done = s.added /\ s.added = s.output
  /\ ~s.terminal =>
       IF s.active = NoBlock
       THEN s.added = s.output /\ s.output = s.done + (IF s.last = Text THEN 1 ELSE 0)
       ELSE s.added = s.output + 1 /\ s.done = s.output

(* What the client sees of a stream, and the steps it may see.             *)
Same(s, t) == /\ t.started = s.started /\ t.added = s.added
              /\ t.done = s.done /\ t.outcome = s.outcome
Creates(s, t) == /\ ~s.started /\ t.started /\ t.added = s.added
                 /\ t.done = s.done /\ t.outcome = "none"
Adds(s, t) == /\ s.started /\ t.started /\ t.added = s.added + 1
              /\ t.done = s.added /\ t.outcome = "none"
Finishes(s, t) == /\ t.started = s.started /\ t.added = s.added
                  /\ s.done < s.added /\ t.done = s.done + 1 /\ t.outcome = "none"
Completes(s, t) == /\ s.started /\ t.started /\ t.added = s.added
                   /\ t.done = s.added /\ t.outcome = "completed"
FailsAt(s, t) == /\ t.started \in {s.started, TRUE} /\ t.added = s.added
                 /\ t.done \in s.done .. s.added /\ t.outcome = "failed"
ClientStep(s, t) ==
  \/ Same(s, t)
  \/ /\ s.outcome = "none"
     /\ Creates(s, t) \/ Adds(s, t) \/ Finishes(s, t) \/ Completes(s, t) \/ FailsAt(s, t)

Follows(s, t) == t \in Streams /\ StreamInv(t) /\ ClientStep(s, t)
Ready(s) == s \in Streams /\ StreamInv(s) /\ ~s.terminal

(* Lemmas name the result of an operator: "t = Op(...)", which is what its *)
(* callers have in hand.                                                   *)
LEMMA NewStreamReady == Ready(NewStream)
<1>1. NewStream \in Streams
  BY DEF NewStream, Streams
<1>2. StreamInv(NewStream) /\ ~NewStream.terminal
  BY DEF NewStream, StreamInv, Text, NoBlock
<1> QED
  BY <1>1, <1>2 DEF Ready

LEMMA ReadyFacts ==
  ASSUME NEW s, Ready(s)
  PROVE  /\ s \in Streams /\ ~s.terminal /\ s.outcome = "none"
         /\ s.started \in BOOLEAN /\ s.calls \subseteq CallIds
         /\ s.done \in Nat /\ s.added \in Nat /\ s.output \in Nat /\ s.done <= s.added
         /\ s.active \in CallIds \cup {Text, NoBlock}
         /\ s.active = NoBlock =>
              s.added = s.output /\ s.output = s.done + (IF s.last = Text THEN 1 ELSE 0)
         /\ s.active # NoBlock => s.added = s.output + 1 /\ s.done = s.output
  BY DEF Ready, Streams, StreamInv

LEMMA EndsFacts ==
  ASSUME NEW s \in Streams, NEW outcome \in {"none", "completed", "failed"},
         NEW t, t = Ends(s, outcome)
  PROVE  /\ t \in Streams /\ t.terminal /\ t.outcome = outcome
         /\ t.started = s.started /\ t.active = s.active /\ t.output = s.output
         /\ t.calls = s.calls /\ t.added = s.added /\ t.done = s.done
  BY DEF Ends, Streams

(* A stream may fail at any time.                                          *)
LEMMA FailFollows ==
  ASSUME NEW s, Ready(s), NEW t, t = Fail(s)
  PROVE  Follows(s, t) /\ t.terminal /\ t.outcome = "failed" /\ FailsAt(s, t)
<1>1. t = Ends(s, "failed")
  BY ReadyFacts DEF Fail
<1>2. /\ t \in Streams /\ t.terminal /\ t.outcome = "failed"
      /\ t.started = s.started /\ t.added = s.added /\ t.done = s.done
  BY <1>1, EndsFacts, ReadyFacts
<1> QED
  BY <1>2, ReadyFacts DEF Follows, StreamInv, ClientStep, FailsAt

LEMMA FinishTextFacts ==
  ASSUME NEW s, Ready(s), s.active = NoBlock, NEW t, t = FinishText(s)
  PROVE  /\ t \in Streams /\ t.done = s.added /\ t.started = s.started /\ t.added = s.added
         /\ t.outcome = s.outcome /\ t.terminal = s.terminal /\ t.output = s.output
         /\ t.last = s.last /\ t.active = s.active /\ t.calls = s.calls
  BY DEF Ready, FinishText, Streams, StreamInv

LEMMA StartedFollows ==
  ASSUME NEW s, Ready(s), NEW t, t = ReceiveStarted(s)
  PROVE  /\ Follows(s, t)
         /\ s.started => t.terminal
         /\ ~s.started => /\ Creates(s, t) /\ ~t.terminal /\ t.active = s.active
                          /\ t.output = s.output /\ t.calls = s.calls
<1>1. CASE s.started
  BY <1>1, FailFollows DEF ReceiveStarted
<1>2. CASE ~s.started
  <2>1. /\ t = [s EXCEPT !.started = TRUE]
        /\ t \in Streams /\ t.started /\ t.terminal = s.terminal /\ t.outcome = s.outcome
        /\ t.added = s.added /\ t.done = s.done /\ t.active = s.active /\ t.last = s.last
        /\ t.output = s.output /\ t.calls = s.calls
    BY <1>2 DEF ReceiveStarted, Ready, Streams
  <2> QED
    BY <1>2, <2>1, ReadyFacts DEF Follows, StreamInv, ClientStep, Creates
<1> QED
  BY <1>1, <1>2

LEMMA RefusedFollows ==
  ASSUME NEW s, Ready(s), NEW t, t = Refused(s)
  PROVE  Follows(s, t) /\ t.terminal /\ t.outcome = "none" /\ Same(s, t)
  BY DEF Ready, Follows, Refused, Streams, StreamInv, ClientStep, Same

WithCall(calls, block) == IF block \in CallIds THEN calls \cup {block} ELSE calls
LEMMA AnnounceFacts ==
  ASSUME NEW s \in Streams, NEW block \in CallIds \cup {Text}, NEW t, t = Announce(s, block)
  PROVE  /\ t \in Streams /\ t.terminal = s.terminal /\ t.outcome = s.outcome
         /\ t.started = s.started /\ t.active = block /\ t.output = s.output
         /\ t.added = s.added + 1 /\ t.done = s.done
         /\ t.calls = WithCall(s.calls, block)
<1> DEFINE a == [s EXCEPT !.active = block]
           b == [a EXCEPT !.added = @ + 1]
<1>1. a \in Streams
  BY DEF Streams
<1>2. b \in Streams
  <2> HIDE DEF a
  <2> QED
    BY <1>1 DEF Streams
<1>3. [b EXCEPT !.calls = IF block \in CallIds THEN @ \cup {block} ELSE @] \in Streams
  <2> HIDE DEF b
  <2> QED
    BY <1>2 DEF Streams
<1>4. t \in Streams
  BY <1>3 DEF Announce
<1> QED
  BY <1>4 DEF Announce, Streams, WithCall

LEMMA PushFacts ==
  ASSUME NEW s \in Streams, NEW kind \in {Text, "call"}, NEW t, t = Push(s, kind)
  PROVE  /\ t \in Streams /\ t.terminal = s.terminal /\ t.outcome = s.outcome
         /\ t.started = s.started /\ t.active = NoBlock /\ t.output = s.output + 1
         /\ t.last = kind /\ t.added = s.added /\ t.done = s.done /\ t.calls = s.calls
<1> DEFINE a == [s EXCEPT !.active = NoBlock]
           b == [a EXCEPT !.output = @ + 1]
<1>1. a \in Streams
  BY DEF Streams
<1>2. b \in Streams
  <2> HIDE DEF a
  <2> QED
    BY <1>1 DEF Streams
<1>3. [b EXCEPT !.last = kind] \in Streams
  <2> HIDE DEF b
  <2> QED
    BY <1>2 DEF Streams
<1>4. t \in Streams
  BY <1>3 DEF Push
<1> QED
  BY <1>4 DEF Push, Streams

(* A block is announced, or the stream fails, after its last text is done. *)
LEMMA BlockStartedFollows ==
  ASSUME NEW s, Ready(s), NEW index, NEW block \in Blocks, NEW valid \in BOOLEAN,
         NEW t, t = ReceiveBlockStarted(s, index, block, valid)
  PROVE  /\ Follows(s, t)
         /\ ~t.terminal => /\ s.started /\ t.started /\ t.active = block
                           /\ t.added = s.added + 1
                           /\ t.calls = WithCall(s.calls, block)
         /\ t.outcome # "completed"
<1>1. CASE ~s.started \/ s.active # NoBlock \/ index # s.output
  BY <1>1, FailFollows DEF ReceiveBlockStarted
<1>2. CASE s.started /\ s.active = NoBlock /\ index = s.output
  <2> PICK f : f = FinishText(s)
    OBVIOUS
  <2>1. /\ f \in Streams /\ f.done = s.added /\ f.started = s.started /\ f.added = s.added
        /\ f.outcome = "none" /\ ~f.terminal /\ f.output = s.output /\ f.calls = s.calls
    <3>1. s.outcome = "none" /\ ~s.terminal
      BY ReadyFacts
    <3>2. /\ f \in Streams /\ f.done = s.added /\ f.started = s.started /\ f.added = s.added
          /\ f.outcome = s.outcome /\ f.terminal = s.terminal /\ f.output = s.output
          /\ f.calls = s.calls
      BY <1>2, FinishTextFacts
    <3> QED
      BY <3>1, <3>2
  <2>2. CASE block \in s.calls \/ block = Reasoning \/ ~valid
    <3>1. t = Ends(f, "failed")
      BY <1>2, <2>1, <2>2 DEF ReceiveBlockStarted, Fail
    <3>2. /\ t \in Streams /\ t.terminal /\ t.outcome = "failed"
          /\ t.started = s.started /\ t.added = s.added /\ t.done = s.added
      BY <2>1, <3>1, EndsFacts
    <3> QED
      BY <3>2, ReadyFacts DEF Follows, StreamInv, ClientStep, FailsAt
  <2>3. CASE ~(block \in s.calls \/ block = Reasoning \/ ~valid)
    <3>1. t = Announce(f, block)
      BY <1>2, <2>3 DEF ReceiveBlockStarted
    <3>2. block \in CallIds \cup {Text} /\ block # NoBlock
      BY <2>3, CallIdsAssumption DEF Blocks, Text, NoBlock, Reasoning
    <3>3. /\ t \in Streams /\ ~t.terminal /\ t.outcome = "none"
          /\ t.started = s.started /\ t.active = block /\ t.output = s.output
          /\ t.added = s.added + 1 /\ t.done = s.added
          /\ t.calls = WithCall(s.calls, block)
      BY <2>1, <3>1, <3>2, AnnounceFacts
    <3>4. s.outcome = "none" /\ s.added \in Nat /\ s.output \in Nat /\ s.added = s.output
      BY <1>2, ReadyFacts
    <3>5. StreamInv(t)
      BY <3>2, <3>3, <3>4 DEF StreamInv
    <3>6. ClientStep(s, t)
      BY <1>2, <3>3, <3>4 DEF ClientStep, Adds
    <3> QED
      BY <1>2, <3>3, <3>5, <3>6 DEF Follows
  <2> QED
    BY <2>2, <2>3
<1> QED
  BY <1>1, <1>2

LEMMA DeltaFollows ==
  ASSUME NEW s, Ready(s), NEW index, NEW kind, NEW valid,
         NEW t, t = ReceiveDelta(s, index, kind, valid)
  PROVE  Follows(s, t) /\ (~t.terminal => t = s) /\ t.outcome # "completed"
<1>1. CASE t = Fail(s)
  BY <1>1, FailFollows
<1>2. CASE t = s
  BY <1>2, ReadyFacts DEF Follows, Ready, ClientStep, Same
<1> QED
  BY <1>1, <1>2 DEF ReceiveDelta

LEMMA BlockFinishedFollows ==
  ASSUME NEW s, Ready(s), NEW index, NEW block \in Blocks, NEW valid \in BOOLEAN,
         NEW t, t = ReceiveBlockFinished(s, index, block, valid)
  PROVE  /\ Follows(s, t)
         /\ ~t.terminal => /\ t.active = NoBlock /\ t.added = s.added /\ t.calls = s.calls
                           /\ t.started = s.started
         /\ t.outcome # "completed"
<1>1. CASE ~IsActive(s, index) \/ block \notin {Text, s.active} \/ ~valid
  BY <1>1, FailFollows DEF ReceiveBlockFinished
<1>2. CASE ~(~IsActive(s, index) \/ block \notin {Text, s.active} \/ ~valid)
  <2>1. s.active # NoBlock
    BY <1>2 DEF IsActive
  <2>2. CASE block = Text
    <3>1. t = Push(s, Text)
      BY <1>2, <2>2 DEF ReceiveBlockFinished
    <3>2. /\ t \in Streams /\ ~t.terminal /\ t.outcome = "none" /\ t.started = s.started
          /\ t.active = NoBlock /\ t.output = s.output + 1 /\ t.last = Text
          /\ t.added = s.added /\ t.done = s.done /\ t.calls = s.calls
      BY <3>1, PushFacts, ReadyFacts
    <3> QED
      BY <2>1, <3>2, ReadyFacts DEF Follows, StreamInv, ClientStep, Same
  <2>3. CASE block # Text
    <3> PICK p : p = Push(s, "call")
      OBVIOUS
    <3>1. t = [p EXCEPT !.done = @ + 1]
      BY <1>2, <2>3 DEF ReceiveBlockFinished
    <3>2. /\ p \in Streams /\ ~p.terminal /\ p.outcome = "none" /\ p.started = s.started
          /\ p.active = NoBlock /\ p.output = s.output + 1 /\ p.last = "call"
          /\ p.added = s.added /\ p.done = s.done /\ p.calls = s.calls
      BY PushFacts, ReadyFacts
    <3>3. /\ t \in Streams /\ t.terminal = p.terminal /\ t.outcome = p.outcome
          /\ t.started = p.started /\ t.active = p.active /\ t.output = p.output
          /\ t.last = p.last /\ t.added = p.added /\ t.done = p.done + 1 /\ t.calls = p.calls
      BY <3>1, <3>2 DEF Streams
    <3>4. Follows(s, t)
      BY <2>1, <3>2, <3>3, ReadyFacts DEF Follows, StreamInv, ClientStep, Finishes, Text
    <3> QED
      BY <3>2, <3>3, <3>4
  <2> QED
    BY <2>2, <2>3
<1> QED
  BY <1>1, <1>2

(* A completion ends the stream; it completes it only when no block is     *)
(* open and the calls are what the reason says.                            *)
LEMMA CompletedFollows ==
  ASSUME NEW s, Ready(s), NEW reason, NEW valid,
         NEW t, t = ReceiveCompleted(s, reason, valid)
  PROVE  /\ Follows(s, t) /\ t.terminal
         /\ t.outcome = "completed" =>
              /\ s.active = NoBlock /\ t.calls = s.calls /\ t.added = s.added
              /\ (reason = "tool_use") <=> (s.calls # {})
<1> DEFINE Stays == \/ ~s.started \/ s.active # NoBlock
                    \/ reason \in {"output_limit", "pause"}
                    \/ (reason = "tool_use") # (s.calls # {})
                    \/ ~valid
<1>1. CASE Stays
  BY <1>1, FailFollows DEF ReceiveCompleted
<1>2. CASE ~Stays
  <2> PICK f : f = FinishText(s)
    OBVIOUS
  <2>1. t = Ends(f, "completed")
    BY <1>2 DEF ReceiveCompleted
  <2>2. s.started /\ s.active = NoBlock /\ ((reason = "tool_use") <=> (s.calls # {}))
    BY <1>2
  <2>3. /\ f \in Streams /\ f.done = s.added /\ f.started = s.started /\ f.added = s.added
        /\ f.output = s.output /\ f.calls = s.calls
    BY <2>2, FinishTextFacts
  <2>4. /\ t \in Streams /\ t.terminal /\ t.outcome = "completed"
        /\ t.started = s.started /\ t.output = s.output /\ t.calls = s.calls
        /\ t.added = s.added /\ t.done = s.added
    BY <2>1, <2>3, EndsFacts
  <2>5. Follows(s, t)
    BY <2>2, <2>4, ReadyFacts DEF Follows, StreamInv, ClientStep, Completes
  <2> QED
    BY <2>2, <2>4, <2>5
<1> QED
  BY <1>1, <1>2

(* Whatever a provider sends, in whatever order.                           *)
LEMMA ReceivedFollows ==
  ASSUME NEW s, Ready(s), NEW n, NEW t \in Received(s, n)
  PROVE  Follows(s, t)
<1>1. CASE t \in {Fail(s), ReceiveStarted(s), ReceiveUsage(s)}
  <2>1. CASE t = s
    BY <2>1 DEF Follows, Ready, ClientStep, Same
  <2> QED
    BY <1>1, <2>1, FailFollows, StartedFollows DEF ReceiveUsage
<1>2. CASE \E reason \in StopReasons, valid \in BOOLEAN : t = ReceiveCompleted(s, reason, valid)
  BY <1>2, CompletedFollows
<1>3. CASE \E i \in 0 .. n, b \in Blocks, valid \in BOOLEAN :
             t = ReceiveBlockStarted(s, i, b, valid)
  BY <1>3, BlockStartedFollows
<1>4. CASE \E i \in 0 .. n, b \in Blocks, valid \in BOOLEAN :
             t = ReceiveBlockFinished(s, i, b, valid)
  BY <1>4, BlockFinishedFollows
<1>5. CASE \E i \in 0 .. n, kind \in {Text, "call"}, valid \in BOOLEAN :
             t = ReceiveDelta(s, i, kind, valid)
  BY <1>5, DeltaFollows
<1> QED
  BY <1>1, <1>2, <1>3, <1>4, <1>5 DEF Received
-----------------------------------------------------------------------------
(* Exchanges *)

InStep(x) ==
  /\ x.message.started = x.response.started /\ x.message.block = x.response.active
  /\ x.message.next = x.response.added /\ x.message.calls = x.response.calls
Agrees(m, t) ==
  /\ m.block = NoBlock /\ m.next = t.done /\ m.calls = t.calls
  /\ (m.stop = "tool_use") <=> (m.calls # {})

Idle(x) ==
  /\ x \in Exchanges /\ x.phase \in {"absent", "refused", "full"}
  /\ ~x.open /\ ~x.stopped /\ x.upstream = "none" /\ x.http = "idle"
  /\ x.callbacks = "due" /\ ~x.message.terminal /\ x.response = NewStream
(* Somebody waits for the answer and can still be told something.          *)
Awaited(x) ==
  /\ x \in Exchanges /\ x.phase = "open" /\ x.open /\ ~x.stopped
  /\ x.upstream \in {"none", "active"} /\ (x.http \in OnTheWire => x.upstream = "active")
  /\ Ready(x.response)
(* The provider's receiver has not heard the end.                          *)
Due(x) == Awaited(x) /\ x.callbacks = "due" /\ ~x.message.terminal
Live(x, who) ==
  /\ Due(x) /\ x.upstream = "active"
  /\ x.http \in OnTheWire <=> who = "anthropic"
  /\ who = "anthropic" => InStep(x)
Dead(x, who) ==
  /\ x \in Exchanges /\ x.phase \in {"open", "closing", "closed"}
  /\ x.stopped /\ (x.open => x.phase = "closing")
  /\ x.upstream # "active" /\ x.http \notin OnTheWire
  /\ StreamInv(x.response)
  /\ who = "anthropic" =>
       /\ \/ x.callbacks \in {"ended", "cancelled"}
          \/ x.callbacks = "due" /\ x.upstream = "none" /\ x.http = "idle" /\ ~x.message.terminal
       /\ x.response.outcome = "completed" => Agrees(x.message, x.response)
ExchangeInv(x, who) == Idle(x) \/ Live(x, who) \/ Dead(x, who)

(* The receiver may be told the end, or has been told.                     *)
Hears(x, who) ==
  who = "anthropic" =>
    \/ x.callbacks = "ended"
    \/ x.callbacks = "due" /\ (\/ x.upstream = "active"
                               \/ x.http = "idle" /\ ~x.message.terminal)

(* What the last event makes of x, and what any callback may make of it.   *)
Settled(x, y, who) ==
  /\ Dead(y, who) /\ ClientStep(x.response, y.response)
  /\ x.upstream = "active" => y.message.terminal
Settles(x, y, who) ==
  Settled(x, y, who) \/ (Live(y, who) /\ ClientStep(x.response, y.response))
(* A delivery of t shows the client t, or no more than it had.             *)
Shown(x, y, t) == y.response = t \/ Same(x.response, y.response)
MovedOn(x, y, t) == ~t.terminal /\ y = [x EXCEPT !.response = t]

LEMMA MessageUpdate ==
  ASSUME NEW x \in Exchanges, NEW m \in Messages, NEW y, y = [x EXCEPT !.message = m]
  PROVE  /\ y \in Exchanges /\ y.message = m /\ y.phase = x.phase /\ y.open = x.open
         /\ y.stopped = x.stopped /\ y.upstream = x.upstream /\ y.callbacks = x.callbacks
         /\ y.http = x.http /\ y.response = x.response
  BY DEF Exchanges

LEMMA CancelMessageFacts ==
  ASSUME NEW m \in Messages, NEW y, y = CancelMessage(m)
  PROVE  /\ y \in Messages /\ y.terminal /\ y.started = m.started /\ y.stop = m.stop
         /\ y.block = m.block /\ y.next = m.next /\ y.calls = m.calls
  BY DEF CancelMessage, Messages

(* Cancelling leaves no operation and no transport, and a receiver that    *)
(* expects no more.                                                        *)
LEMMA CancelFacts ==
  ASSUME NEW x \in Exchanges, NEW y, y = CancelProvider(x)
  PROVE  /\ y \in Exchanges /\ y.phase = x.phase /\ y.open = x.open /\ y.stopped = x.stopped
         /\ y.response = x.response /\ y.upstream # "active"
         /\ x.upstream # "active" => y = x
         /\ x.upstream = "active" =>
              /\ y.http \notin OnTheWire /\ y.message = CancelMessage(x.message)
              /\ y.callbacks = IF x.callbacks = "due" THEN "cancelled" ELSE x.callbacks
<1>1. CASE x.upstream # "active"
  BY <1>1 DEF CancelProvider
<1>2. CASE x.upstream = "active"
  <2> DEFINE a == [x EXCEPT !.upstream = "cancelled"]
             b == [a EXCEPT !.callbacks = IF @ = "due" THEN "cancelled" ELSE @]
             c == [b EXCEPT !.message = CancelMessage(@)]
  <2>1. /\ a \in Exchanges /\ a.phase = x.phase /\ a.open = x.open /\ a.stopped = x.stopped
        /\ a.response = x.response /\ a.upstream = "cancelled" /\ a.callbacks = x.callbacks
        /\ a.message = x.message /\ a.http = x.http
    BY DEF Exchanges
  <2> HIDE DEF a
  <2>2. /\ b \in Exchanges /\ b.phase = x.phase /\ b.open = x.open /\ b.stopped = x.stopped
        /\ b.response = x.response /\ b.upstream = "cancelled"
        /\ b.callbacks = IF x.callbacks = "due" THEN "cancelled" ELSE x.callbacks
        /\ b.message = x.message /\ b.http = x.http
    BY <2>1 DEF Exchanges
  <2> HIDE DEF b
  <2>3. CancelMessage(b.message) \in Messages
    BY <2>2, CancelMessageFacts DEF Exchanges
  <2>4. /\ c \in Exchanges /\ c.phase = x.phase /\ c.open = x.open /\ c.stopped = x.stopped
        /\ c.response = x.response /\ c.upstream = "cancelled"
        /\ c.callbacks = IF x.callbacks = "due" THEN "cancelled" ELSE x.callbacks
        /\ c.message = CancelMessage(x.message) /\ c.http = x.http
    BY <2>2, <2>3 DEF Exchanges
  <2>5. y = [c EXCEPT !.http = IF @ \in OnTheWire THEN "done" ELSE @]
    BY <1>2 DEF CancelProvider, a, b
  <2> HIDE DEF c
  <2> QED
    BY <1>2, <2>4, <2>5 DEF Exchanges, OnTheWire
<1> QED
  BY <1>1, <1>2

(* What stopping the operation of x makes of the provider's side of y.     *)
Alike(x, y) ==
  /\ y.upstream = x.upstream /\ y.callbacks = x.callbacks
  /\ y.http = x.http /\ y.message = x.message
Silenced(x, y) ==
  /\ y.upstream # "active"
  /\ x.upstream # "active" => Alike(x, y)
  /\ x.upstream = "active" =>
       /\ y.http \notin OnTheWire /\ y.message = CancelMessage(x.message)
       /\ y.callbacks = IF x.callbacks = "due" THEN "cancelled" ELSE x.callbacks

LEMMA SilencedAlike ==
  ASSUME NEW x, NEW a, NEW b, NEW y, Alike(x, a), Silenced(a, b), Alike(b, y)
  PROVE  Silenced(x, y)
  BY DEF Alike, Silenced

LEMMA StopFacts ==
  ASSUME NEW x \in Exchanges, NEW y, y = StopOperation(x)
  PROVE  /\ y \in Exchanges /\ y.phase = x.phase /\ y.open = x.open /\ y.stopped
         /\ y.response = x.response /\ Silenced(x, y)
<1> PICK a : a = [x EXCEPT !.stopped = TRUE]
  OBVIOUS
<1>1. /\ a \in Exchanges /\ a.phase = x.phase /\ a.open = x.open /\ a.stopped
      /\ a.response = x.response /\ Alike(x, a)
  BY DEF Exchanges, Alike
<1>2. y = CancelProvider(a)
  BY DEF StopOperation
<1>3. Silenced(a, y)
  <2>1. /\ y.upstream # "active" /\ (a.upstream # "active" => y = a)
        /\ a.upstream = "active" =>
             /\ y.http \notin OnTheWire /\ y.message = CancelMessage(a.message)
             /\ y.callbacks = IF a.callbacks = "due" THEN "cancelled" ELSE a.callbacks
    BY <1>1, <1>2, CancelFacts
  <2>2. a.upstream # "active" => Alike(a, y)
    BY <2>1 DEF Alike
  <2> QED
    BY <2>1, <2>2, Zenon DEF Silenced
<1>4. /\ y \in Exchanges /\ y.phase = a.phase /\ y.open = a.open /\ y.stopped = a.stopped
      /\ y.response = a.response
  BY <1>1, <1>2, CancelFacts
<1>5. Silenced(x, y)
  BY <1>1, <1>3, SilencedAlike DEF Alike
<1> QED
  BY <1>1, <1>4, <1>5

(* Whatever stops an awaited exchange leaves it dead.                      *)
LEMMA StoppedIsDead ==
  ASSUME NEW who, NEW x, Awaited(x), Hears(x, who),
         NEW t \in Streams, StreamInv(t),
         who = "anthropic" /\ t.outcome = "completed" => Agrees(x.message, t),
         NEW y \in Exchanges, y.stopped, y.response = t, Silenced(x, y),
         y.phase = "closing" \/ (y.phase \in {"open", "closed"} /\ ~y.open)
  PROVE  Dead(y, who) /\ (x.upstream = "active" => y.message.terminal)
<1>1. x.message \in Messages
  BY DEF Awaited, Exchanges
<1>2. CASE x.upstream = "active"
  <2>1. /\ y.message.terminal /\ y.message.stop = x.message.stop
        /\ y.message.block = x.message.block /\ y.message.next = x.message.next
        /\ y.message.calls = x.message.calls
    BY <1>1, <1>2, CancelMessageFacts DEF Silenced
  <2> QED
    BY <1>2, <2>1 DEF Dead, Agrees, Hears, Silenced
<1>3. CASE x.upstream # "active"
  BY <1>3 DEF Dead, Awaited, Hears, Silenced, Alike
<1> QED
  BY <1>2, <1>3

LEMMA ResponseUpdate ==
  ASSUME NEW x \in Exchanges, NEW t \in Streams, NEW y, y = [x EXCEPT !.response = t]
  PROVE  /\ y \in Exchanges /\ y.response = t /\ y.phase = x.phase /\ y.open = x.open
         /\ y.stopped = x.stopped /\ Alike(x, y)
  BY DEF Exchanges, Alike

LEMMA ClosingUpdate ==
  ASSUME NEW x \in Exchanges, NEW y, y = [x EXCEPT !.phase = "closing"]
  PROVE  /\ y \in Exchanges /\ y.phase = "closing" /\ y.response = x.response
         /\ y.open = x.open /\ y.stopped = x.stopped /\ Alike(x, y)
  BY DEF Exchanges, Alike

LEMMA StopSessionFacts ==
  ASSUME NEW x \in Exchanges, NEW y, y = StopSession(x)
  PROVE  /\ y \in Exchanges /\ y.phase = x.phase /\ ~y.open /\ y.stopped
         /\ y.response = x.response /\ Silenced(x, y)
<1> PICK o : o = [x EXCEPT !.open = FALSE]
  OBVIOUS
<1>1. /\ o \in Exchanges /\ ~o.open /\ o.response = x.response /\ o.phase = x.phase
      /\ Alike(x, o)
  BY DEF Exchanges, Alike
<1>2. y = StopOperation(o)
  BY DEF StopSession
<1>3. /\ y \in Exchanges /\ y.phase = o.phase /\ y.open = o.open /\ y.stopped
      /\ y.response = o.response /\ Silenced(o, y)
  BY <1>1, <1>2, StopFacts
<1>4. Silenced(x, y)
  BY <1>1, <1>3, SilencedAlike DEF Alike
<1> QED
  BY <1>1, <1>3, <1>4

(* The last event of the provider, or one the stream ends at, leaves the   *)
(* exchange dead; any other only moves the stream on.                      *)
LEMMA DeliverFacts ==
  ASSUME NEW who, NEW x, Awaited(x), Hears(x, who), NEW t, Follows(x.response, t),
         who = "anthropic" /\ t.outcome = "completed" => Agrees(x.message, t),
         NEW y, y = Deliver(x, t)
  PROVE  /\ t.terminal => Settled(x, y, who) /\ y.response = t
         /\ ~t.terminal => y = [x EXCEPT !.response = t]
<1>1. ~x.stopped /\ x.open /\ x \in Exchanges
  BY DEF Awaited
<1> PICK a : a = [x EXCEPT !.response = t]
  OBVIOUS
<1>2. CASE ~t.terminal
  BY <1>1, <1>2 DEF Deliver
<1>3. CASE t.terminal
  <2> PICK b : b = StopOperation(a)
    OBVIOUS
  <2>1. t \in Streams /\ StreamInv(t) /\ ClientStep(x.response, t)
    BY DEF Follows
  <2>2. /\ a \in Exchanges /\ a.response = t /\ a.open = x.open /\ Alike(x, a)
    <3>1. x \in Exchanges /\ t \in Streams
      BY <1>1, <2>1
    <3> QED
      BY <3>1, ResponseUpdate
  <2>3. /\ b \in Exchanges /\ b.open = a.open /\ b.stopped
        /\ b.response = a.response /\ Silenced(a, b)
    BY <2>2, StopFacts
  <2>4. y = [b EXCEPT !.phase = "closing"]
    BY <1>1, <1>3, <2>2, <2>3 DEF Deliver, Finish
  <2>5. /\ y \in Exchanges /\ y.phase = "closing" /\ y.stopped = b.stopped
        /\ y.response = b.response /\ Alike(b, y)
    BY <2>3, <2>4, ClosingUpdate
  <2>6. Silenced(x, y)
    BY <2>2, <2>3, <2>5, SilencedAlike
  <2>7. y.response = t /\ y.stopped
    BY <2>2, <2>3, <2>5
  <2>8. Dead(y, who) /\ (x.upstream = "active" => y.message.terminal)
    BY <2>1, <2>5, <2>6, <2>7, StoppedIsDead
  <2> QED
    BY <1>3, <2>1, <2>7, <2>8 DEF Settled
<1> QED
  BY <1>2, <1>3

LEMMA SuspendFacts ==
  ASSUME NEW who, NEW x, Awaited(x), Hears(x, who), NEW y, y = Suspend(x)
  PROVE  Settled(x, y, who) /\ Same(x.response, y.response)
<1>1. x \in Exchanges /\ Ready(x.response)
  BY DEF Awaited
<1>b. PICK b : b = StopSession(x)
  OBVIOUS
<1>c. PICK c : c = [b EXCEPT !.phase = "closing"]
  OBVIOUS
<1>t. PICK t : t = Refused(x.response)
  OBVIOUS
<1>2. Follows(x.response, t) /\ t.outcome = "none" /\ Same(x.response, t)
  BY <1>1, <1>t, RefusedFollows
<1>3. t \in Streams /\ StreamInv(t) /\ ClientStep(x.response, t)
  BY <1>2 DEF Follows
<1>4. /\ b \in Exchanges /\ b.stopped
      /\ b.response = x.response /\ Silenced(x, b)
  BY <1>1, <1>b, StopSessionFacts
<1>5. /\ c \in Exchanges /\ c.phase = "closing" /\ c.stopped = b.stopped
      /\ c.response = b.response /\ Alike(b, c)
  BY <1>4, <1>c, ClosingUpdate
<1>6. y = [c EXCEPT !.response = t]
  <2>1. c.response = x.response
    BY <1>4, <1>5
  <2>2. y = [c EXCEPT !.response = Refused(@)]
    BY <1>b, <1>c DEF Suspend
  <2> QED
    BY <2>1, <2>2, <1>t, <1>5 DEF Exchanges
<1>7. /\ y \in Exchanges /\ y.response = t /\ y.phase = c.phase /\ y.stopped = c.stopped
      /\ Alike(c, y)
  <2>1. c \in Exchanges /\ t \in Streams
    BY <1>3, <1>5
  <2> QED
    BY <1>6, <2>1, ResponseUpdate
<1>8. Silenced(x, y)
  <2>1. Alike(b, y)
    BY <1>5, <1>7 DEF Alike
  <2>2. Alike(x, x)
    BY DEF Alike
  <2> QED
    BY <1>4, <2>1, <2>2, SilencedAlike
<1>9. Dead(y, who) /\ (x.upstream = "active" => y.message.terminal)
  <2>1. y.stopped /\ y.phase = "closing"
    BY <1>4, <1>5, <1>7
  <2> QED
    BY <1>2, <1>3, <1>7, <1>8, <2>1, StoppedIsDead
<1> QED
  BY <1>2, <1>3, <1>7, <1>9 DEF Settled

LEMMA DeliveriesFacts ==
  ASSUME NEW who, NEW x, Awaited(x), Hears(x, who), NEW t, Follows(x.response, t),
         who = "anthropic" /\ t.outcome = "completed" => Agrees(x.message, t),
         NEW y \in Deliveries(x, t)
  PROVE  \/ Settled(x, y, who) /\ Shown(x, y, t)
         \/ MovedOn(x, y, t)
<1>1. ~x.stopped /\ Ready(x.response)
  BY DEF Awaited
<1>2. y \in {Deliver(x, t), Deliver(x, Refused(x.response)), Suspend(x)}
  BY <1>1 DEF Deliveries
<1>3. CASE y = Deliver(x, t)
  BY <1>3, DeliverFacts DEF Shown, MovedOn
<1>4. CASE y = Deliver(x, Refused(x.response))
  <2>u. PICK u : u = Refused(x.response)
    OBVIOUS
  <2>1. Follows(x.response, u) /\ u.terminal /\ u.outcome = "none" /\ Same(x.response, u)
    BY <1>1, <2>u, RefusedFollows
  <2>2. y = Deliver(x, u)
    BY <1>4, <2>u
  <2>3. Settled(x, y, who) /\ y.response = u
    BY <2>1, <2>2, DeliverFacts
  <2> QED
    BY <2>1, <2>3 DEF Shown
<1>5. CASE y = Suspend(x)
  BY <1>5, SuspendFacts DEF Shown
<1> QED
  BY <1>2, <1>3, <1>4, <1>5

(* Unpacking.                                                              *)
LEMMA LiveFacts ==
  ASSUME NEW who, NEW x, Live(x, who)
  PROVE  /\ x \in Exchanges /\ Due(x) /\ Awaited(x) /\ Ready(x.response) /\ Hears(x, who)
         /\ x.message \in Messages /\ ~x.message.terminal /\ x.upstream = "active"
         /\ x.callbacks = "due"
         /\ x.http \in OnTheWire <=> who = "anthropic"
         /\ who = "anthropic" => InStep(x)
  BY DEF Live, Due, Awaited, Hears, Exchanges

LEMMA DueFacts ==
  ASSUME NEW x, Due(x)
  PROVE  /\ x \in Exchanges /\ Awaited(x) /\ Ready(x.response)
         /\ x.message \in Messages /\ ~x.message.terminal /\ x.callbacks = "due"
  BY DEF Due, Awaited, Exchanges

LEMMA EndedUpdate ==
  ASSUME NEW x \in Exchanges, x.callbacks = "due", NEW y, y = Called(x, TRUE)
  PROVE  /\ y \in Exchanges /\ y.callbacks = "ended" /\ y.message = x.message
         /\ y.phase = x.phase /\ y.open = x.open /\ y.stopped = x.stopped
         /\ y.upstream = x.upstream /\ y.http = x.http /\ y.response = x.response
  BY DEF Exchanges, Called

LEMMA CalledAgain ==
  ASSUME NEW x \in Exchanges, x.callbacks = "due"
  PROVE  Called(x, FALSE) = x
  BY DEF Exchanges, Called

(* The end is told to somebody who waits for it.                           *)
LEMMA EndedFacts ==
  ASSUME NEW who, NEW x, Awaited(x), NEW m \in Messages, NEW y \in Exchanges,
         y.callbacks = "ended", y.message = m,
         y.phase = x.phase, y.open = x.open, y.stopped = x.stopped,
         y.upstream = x.upstream, y.http = x.http, y.response = x.response
  PROVE  Awaited(y) /\ Hears(y, who)
  BY DEF Awaited, Hears

LEMMA SettledFrom ==
  ASSUME NEW who, NEW x, NEW z, z.upstream = x.upstream, z.response = x.response,
         NEW y, NEW t, Settled(z, y, who), Shown(z, y, t)
  PROVE  Settled(x, y, who) /\ Shown(x, y, t)
  BY DEF Settled, Shown

LEMMA EmitLastFacts ==
  ASSUME NEW who, NEW x, Due(x), NEW t, Follows(x.response, t), t.terminal,
         who = "anthropic" /\ t.outcome = "completed" => Agrees(x.message, t),
         NEW y \in EmitLast(x, t)
  PROVE  Settled(x, y, who) /\ Shown(x, y, t)
<1>m. PICK m : m = CancelMessage(x.message)
  OBVIOUS
<1>a. PICK a : a = [x EXCEPT !.message = m]
  OBVIOUS
<1>z. PICK z : z = Called(a, TRUE)
  OBVIOUS
<1>1. /\ m \in Messages /\ m.stop = x.message.stop /\ m.block = x.message.block
      /\ m.next = x.message.next /\ m.calls = x.message.calls
  BY <1>m, DueFacts, CancelMessageFacts
<1>2. /\ a \in Exchanges /\ a.message = m /\ a.phase = x.phase /\ a.open = x.open
      /\ a.stopped = x.stopped /\ a.upstream = x.upstream /\ a.callbacks = x.callbacks
      /\ a.http = x.http /\ a.response = x.response
  BY <1>1, <1>a, DueFacts, MessageUpdate
<1>3. /\ z \in Exchanges /\ z.callbacks = "ended" /\ z.message = m
      /\ z.phase = x.phase /\ z.open = x.open /\ z.stopped = x.stopped
      /\ z.upstream = x.upstream /\ z.http = x.http /\ z.response = x.response
  BY <1>2, <1>z, DueFacts, EndedUpdate
<1>4. y \in Deliveries(z, t)
  BY <1>m, <1>a, <1>z DEF EmitLast
<1>5. Awaited(z) /\ Hears(z, who)
  BY <1>1, <1>3, DueFacts, EndedFacts
<1>6. who = "anthropic" /\ t.outcome = "completed" => Agrees(z.message, t)
  BY <1>1, <1>3 DEF Agrees
<1>7. Follows(z.response, t)
  BY <1>3
<1>8. Settled(z, y, who) /\ Shown(z, y, t)
  <2>1. (Settled(z, y, who) /\ Shown(z, y, t)) \/ MovedOn(z, y, t)
    BY <1>4, <1>5, <1>6, <1>7, DeliveriesFacts
  <2> QED
    BY <2>1 DEF MovedOn
<1> QED
  BY <1>3, <1>8, SettledFrom

(* A failure shows the client a failed response, or nothing.               *)
Fails(x, y) == Same(x.response, y.response) \/ FailsAt(x.response, y.response)

LEMMA FailMessageFacts ==
  ASSUME NEW who, NEW x, Due(x), NEW y \in FailMessage(x)
  PROVE  Settled(x, y, who) /\ Fails(x, y)
<1>t. PICK t : t = Fail(x.response)
  OBVIOUS
<1>1. Follows(x.response, t) /\ t.terminal /\ t.outcome = "failed" /\ FailsAt(x.response, t)
  BY <1>t, DueFacts, FailFollows
<1>2. y \in EmitLast(x, t)
  BY <1>t, DueFacts DEF FailMessage
<1>3. Settled(x, y, who) /\ Shown(x, y, t)
  BY <1>1, <1>2, EmitLastFacts
<1> QED
  BY <1>1, <1>3 DEF Shown, Fails

-----------------------------------------------------------------------------
(* Events of the Anthropic stream *)

LEMMA Steps ==
  ASSUME NEW x, NEW t, Follows(x.response, t)
  PROVE  t \in Streams /\ StreamInv(t) /\ ClientStep(x.response, t)
  BY DEF Follows

LEMMA StillLive ==
  ASSUME NEW who, NEW x, Due(x), x.upstream = "active",
         x.http \in OnTheWire <=> who = "anthropic",
         NEW t, Follows(x.response, t), ~t.terminal,
         who = "anthropic" =>
           /\ x.message.started = t.started /\ x.message.block = t.active
           /\ x.message.next = t.added /\ x.message.calls = t.calls,
         NEW y, y = [x EXCEPT !.response = t]
  PROVE  Live(y, who) /\ ClientStep(x.response, y.response)
<1>1. t \in Streams /\ StreamInv(t) /\ ClientStep(x.response, t)
  BY Steps
<1>2. x \in Exchanges
  BY DueFacts
<1>3. /\ y \in Exchanges /\ y.response = t /\ y.phase = x.phase /\ y.open = x.open
      /\ y.stopped = x.stopped /\ Alike(x, y)
  BY <1>1, <1>2, ResponseUpdate
<1>4. Awaited(y) /\ Due(y)
  BY <1>1, <1>3 DEF Due, Awaited, Ready, Alike
<1> QED
  BY <1>1, <1>3, <1>4 DEF Live, InStep, Alike

(* An event of an open message: the message and the stream move together,  *)
(* or the exchange ends.                                                   *)
LEMMA EmitSettles ==
  ASSUME NEW who, NEW x, Live(x, who), NEW m \in Messages, ~m.terminal,
         NEW z, z = [x EXCEPT !.message = m],
         NEW t, Follows(x.response, t), t.outcome # "completed",
         ~t.terminal => /\ m.started = t.started /\ m.block = t.active
                        /\ m.next = t.added /\ m.calls = t.calls,
         NEW y \in Emit(z, t)
  PROVE  \/ Settled(x, y, who) /\ Shown(x, y, t)
         \/ Live(y, who) /\ ~t.terminal /\ y.response = t /\ ClientStep(x.response, t)
<1>1. /\ z \in Exchanges /\ z.message = m /\ z.phase = x.phase /\ z.open = x.open
      /\ z.stopped = x.stopped /\ z.upstream = x.upstream /\ z.callbacks = x.callbacks
      /\ z.http = x.http /\ z.response = x.response
  BY LiveFacts, MessageUpdate
<1>2. /\ Due(z) /\ Awaited(z) /\ Hears(z, who) /\ z.upstream = "active"
      /\ z.http \in OnTheWire <=> who = "anthropic"
  BY <1>1, LiveFacts DEF Due, Awaited, Hears
<1>3. Called(z, FALSE) = z
  BY <1>1, <1>2, CalledAgain DEF Due
<1>4. y \in Deliveries(z, t)
  BY <1>1, <1>3 DEF Emit
<1>5. Follows(z.response, t)
  BY <1>1
<1>6. CASE Settled(z, y, who) /\ Shown(z, y, t)
  BY <1>1, <1>6, SettledFrom
<1>7. CASE ~t.terminal /\ y = [z EXCEPT !.response = t]
  <2>1. Live(y, who) /\ ClientStep(z.response, y.response)
    BY <1>1, <1>2, <1>5, <1>7, StillLive
  <2>2. y.response = t
    BY <1>1, <1>5, <1>7, Steps, ResponseUpdate
  <2> QED
    BY <1>1, <1>7, <2>1, <2>2
<1>8. (Settled(z, y, who) /\ Shown(z, y, t)) \/ MovedOn(z, y, t)
  <2>1. who = "anthropic" /\ t.outcome = "completed" => Agrees(z.message, t)
    OBVIOUS
  <2> QED
    BY <1>2, <1>4, <1>5, <2>1, DeliveriesFacts
<1> QED
  BY <1>6, <1>7, <1>8 DEF MovedOn

LEMMA SameStep ==
  ASSUME NEW s
  PROVE  ClientStep(s, s)
  BY DEF ClientStep, Same

LEMMA FailMessageSettles ==
  ASSUME NEW who, NEW x, Live(x, who), NEW y \in FailMessage(x)
  PROVE  Settles(x, y, who)
  BY LiveFacts, FailMessageFacts DEF Settles

LEMMA UsageChangesNothing ==
  ASSUME NEW x \in Exchanges, x.message.terminal \/ (x.callbacks = "due" /\ Ready(x.response))
  PROVE  EmitUsage(x) = x
<1>1. CASE x.message.terminal
  BY <1>1 DEF EmitUsage
<1>2. CASE ~x.message.terminal /\ x.stopped
  BY <1>2, CalledAgain DEF EmitUsage, Deliver
<1>3. CASE ~x.message.terminal /\ ~x.stopped
  <2>1. Called(x, FALSE) = x /\ ~x.response.terminal
    BY <1>3, CalledAgain, ReadyFacts
  <2>2. [x EXCEPT !.response = x.response] = x
    BY DEF Exchanges
  <2> QED
    BY <1>3, <2>1, <2>2 DEF EmitUsage, Deliver, ReceiveUsage
<1> QED
  BY <1>1, <1>2, <1>3

LEMMA SettledFacts ==
  ASSUME NEW who, NEW x, x.upstream = "active", NEW y, Settled(x, y, who)
  PROVE  y \in Exchanges /\ y.message.terminal /\ Settles(x, y, who)
  BY DEF Settled, Dead, Settles

(* Creating a response and failing it, in one callback, looks like the     *)
(* failure of one that had not been created.                               *)
Begins(s, t) == Same(s, t) \/ Creates(s, t)
LEMMA BeginsThenFails ==
  ASSUME NEW s, NEW t, NEW u, Ready(s), Begins(s, t), Same(t, u) \/ FailsAt(t, u)
  PROVE  ClientStep(s, u)
<1>1. s.outcome = "none" /\ s.started \in BOOLEAN
  BY ReadyFacts
<1>2. CASE Same(s, t)
  BY <1>1, <1>2 DEF Same, FailsAt, ClientStep
<1>3. CASE Creates(s, t)
  BY <1>1, <1>3 DEF Same, Creates, FailsAt, ClientStep
<1> QED
  BY <1>2, <1>3 DEF Begins

LEMMA MessageStartSettles ==
  ASSUME NEW x, Live(x, "anthropic"), NEW valid \in BOOLEAN, NEW y \in MessageStart(x, valid)
  PROVE  Settles(x, y, "anthropic")
<1>1. CASE x.message.started
  BY <1>1, FailMessageSettles DEF MessageStart
<1>2. CASE ~x.message.started
  <2>m. PICK m : m = [x.message EXCEPT !.started = TRUE]
    OBVIOUS
  <2>z. PICK z : z = [x EXCEPT !.message = m]
    OBVIOUS
  <2>t. PICK t : t = ReceiveStarted(x.response)
    OBVIOUS
  <2>1. /\ m \in Messages /\ ~m.terminal /\ m.started /\ m.block = x.message.block
        /\ m.next = x.message.next /\ m.calls = x.message.calls
    <3>1. x.message \in Messages /\ ~x.message.terminal
      BY LiveFacts
    <3> QED
      BY <2>m, <3>1 DEF Messages
  <2>2. Ready(x.response) /\ ~x.response.started /\ InStep(x)
    BY <1>2, LiveFacts DEF InStep
  <2>3. /\ Follows(x.response, t) /\ Creates(x.response, t) /\ ~t.terminal
        /\ t.active = x.response.active /\ t.calls = x.response.calls
    BY <2>2, <2>t, StartedFollows
  <2>4. /\ m.started = t.started /\ m.block = t.active
        /\ m.next = t.added /\ m.calls = t.calls /\ t.outcome = "none"
    BY <2>1, <2>2, <2>3 DEF InStep, Creates
  <2>5. MessageStart(x, valid) = IF valid THEN {EmitUsage(w) : w \in Emit(z, t)}
                                 ELSE UNION {FailMessage(w) : w \in Emit(z, t)}
    BY <1>2, <2>m, <2>z, <2>t DEF MessageStart
  <2>6. ASSUME NEW w \in Emit(z, t)
        PROVE  \/ Settled(x, w, "anthropic")
               \/ Live(w, "anthropic") /\ w.response = t /\ ClientStep(x.response, t)
    BY <2>1, <2>3, <2>4, <2>z, EmitSettles
  <2>7. CASE valid
    <3>1. PICK w \in Emit(z, t) : y = EmitUsage(w)
      BY <2>5, <2>7
    <3>2. CASE Settled(x, w, "anthropic")
      <4>1. w \in Exchanges /\ w.message.terminal /\ Settles(x, w, "anthropic")
        BY <3>2, LiveFacts, SettledFacts
      <4> QED
        BY <3>1, <4>1, UsageChangesNothing
    <3>3. CASE Live(w, "anthropic") /\ w.response = t /\ ClientStep(x.response, t)
      <4>1. y = w
        BY <3>1, <3>3, LiveFacts, UsageChangesNothing
      <4> QED
        BY <3>3, <4>1 DEF Settles
    <3> QED
      BY <2>6, <3>2, <3>3
  <2>8. CASE ~valid
    <3>1. PICK w \in Emit(z, t) : y \in FailMessage(w)
      BY <2>5, <2>8
    <3>2. CASE Settled(x, w, "anthropic")
      <4>1. w.message.terminal /\ Settles(x, w, "anthropic")
        BY <3>2, LiveFacts, SettledFacts
      <4> QED
        BY <3>1, <4>1 DEF FailMessage
    <3>3. CASE Live(w, "anthropic") /\ w.response = t /\ ClientStep(x.response, t)
      <4>1. Due(w) /\ w.upstream = "active"
        BY <3>3, LiveFacts
      <4>2. Settled(w, y, "anthropic") /\ Fails(w, y)
        BY <3>1, <4>1, FailMessageFacts
      <4>3. ClientStep(x.response, y.response)
        BY <2>2, <2>3, <3>3, <4>2, BeginsThenFails DEF Fails, Begins
      <4> QED
        BY <4>1, <4>2, <4>3 DEF Settled, Settles
    <3> QED
      BY <2>6, <3>2, <3>3
  <2> QED
    BY <2>7, <2>8
<1> QED
  BY <1>1, <1>2

LEMMA OpenBlockFacts ==
  ASSUME NEW m \in Messages, NEW block \in CallIds \cup {Text}, NEW n, n = OpenBlock(m, block)
  PROVE  /\ n \in Messages /\ n.terminal = m.terminal /\ n.started = m.started
         /\ n.block = block /\ n.next = m.next + 1
         /\ n.calls = WithCall(m.calls, block)
<1> DEFINE a == [m EXCEPT !.next = @ + 1]
           b == [a EXCEPT !.block = block]
<1>1. a \in Messages
  BY DEF Messages
<1>2. b \in Messages
  <2> HIDE DEF a
  <2> QED
    BY <1>1 DEF Messages
<1>3. [b EXCEPT !.calls = IF block \in CallIds THEN @ \cup {block} ELSE @] \in Messages
  <2> HIDE DEF b
  <2> QED
    BY <1>2 DEF Messages
<1>4. n \in Messages
  BY <1>3 DEF OpenBlock
<1> QED
  BY <1>4 DEF OpenBlock, Messages, WithCall

LEMMA BlockStartSettles ==
  ASSUME NEW x, Live(x, "anthropic"), NEW index, NEW block \in Blocks, NEW valid \in BOOLEAN,
         NEW y \in BlockStart(x, index, block, valid)
  PROVE  Settles(x, y, "anthropic")
<1> DEFINE Bad == \/ ~x.message.started \/ x.message.stop # "none" \/ x.message.block # NoBlock
                  \/ index # x.message.next
                  \/ block \in x.message.calls \cup {Reasoning}
                  \/ ~valid
<1>1. CASE Bad
  BY <1>1, FailMessageSettles DEF BlockStart
<1>2. CASE ~Bad
  <2>m. PICK m : m = OpenBlock(x.message, block)
    OBVIOUS
  <2>z. PICK z : z = [x EXCEPT !.message = m]
    OBVIOUS
  <2>t. PICK t : t = ReceiveBlockStarted(x.response, index, block, TRUE)
    OBVIOUS
  <2>1. block \in CallIds \cup {Text}
    BY <1>2 DEF Blocks
  <2>2. /\ m \in Messages /\ ~m.terminal /\ m.started = x.message.started
        /\ m.block = block /\ m.next = x.message.next + 1
        /\ m.calls = WithCall(x.message.calls, block)
    BY <2>1, <2>m, LiveFacts, OpenBlockFacts
  <2>3. Ready(x.response) /\ InStep(x) /\ x.message.started
    BY <1>2, LiveFacts
  <2>4. /\ Follows(x.response, t) /\ t.outcome # "completed"
        /\ ~t.terminal => /\ t.started /\ t.active = block /\ t.added = x.response.added + 1
                          /\ t.calls = WithCall(x.response.calls, block)
    <3>v. PICK yes \in BOOLEAN : t = ReceiveBlockStarted(x.response, index, block, yes)
      BY <2>t
    <3> QED
      BY <2>3, <3>v, BlockStartedFollows
  <2>5. ~t.terminal => /\ m.started = t.started /\ m.block = t.active
                       /\ m.next = t.added /\ m.calls = t.calls
    BY <2>2, <2>3, <2>4 DEF InStep
  <2>6. y \in Emit(z, t)
    <3> HIDE DEF Bad
    <3>1. ~Bad => BlockStart(x, index, block, valid)
                    = Emit([x EXCEPT !.message = OpenBlock(@, block)],
                           ReceiveBlockStarted(x.response, index, block, TRUE))
      BY DEF BlockStart, Bad
    <3> QED
      BY <1>2, <3>1, <2>m, <2>z, <2>t
  <2>7. \/ Settled(x, y, "anthropic")
        \/ Live(y, "anthropic") /\ y.response = t /\ ClientStep(x.response, t)
    BY <2>2, <2>4, <2>5, <2>6, <2>z, EmitSettles
  <2> QED
    BY <2>7 DEF Settles
<1> QED
  BY <1>1, <1>2

LEMMA BlockDeltaSettles ==
  ASSUME NEW x, Live(x, "anthropic"), NEW index, NEW kind, NEW valid,
         NEW y \in BlockDelta(x, index, kind, valid)
  PROVE  Settles(x, y, "anthropic")
<1>1. CASE ~IsOpenBlock(x.message, index) \/ kind # Kind(x.message.block)
  BY <1>1, FailMessageSettles DEF BlockDelta
<1>2. CASE ~(~IsOpenBlock(x.message, index) \/ kind # Kind(x.message.block))
  <2>t. PICK t : t = ReceiveDelta(x.response, index, kind, valid)
    OBVIOUS
  <2>1. Follows(x.response, t) /\ t.outcome # "completed" /\ (~t.terminal => t = x.response)
    BY <2>t, LiveFacts, DeltaFollows
  <2>2. ~t.terminal => /\ x.message.started = t.started /\ x.message.block = t.active
                       /\ x.message.next = t.added /\ x.message.calls = t.calls
    BY <2>1, LiveFacts DEF InStep
  <2>3. x = [x EXCEPT !.message = x.message]
    BY LiveFacts DEF Exchanges
  <2>4. y \in Emit(x, t)
    BY <1>2, <2>t DEF BlockDelta
  <2>5. \/ Settled(x, y, "anthropic")
        \/ Live(y, "anthropic") /\ y.response = t /\ ClientStep(x.response, t)
    BY <2>1, <2>2, <2>3, <2>4, LiveFacts, EmitSettles
  <2> QED
    BY <2>5 DEF Settles
<1> QED
  BY <1>1, <1>2

LEMMA BlockStopSettles ==
  ASSUME NEW x, Live(x, "anthropic"), NEW index, NEW valid \in BOOLEAN, NEW fits \in BOOLEAN,
         NEW y \in BlockStop(x, index, valid, fits)
  PROVE  Settles(x, y, "anthropic")
<1>1. CASE ~IsOpenBlock(x.message, index) \/ ~valid
  BY <1>1, FailMessageSettles DEF BlockStop
<1>2. CASE ~(~IsOpenBlock(x.message, index) \/ ~valid)
  <2>m. PICK m : m = [x.message EXCEPT !.block = NoBlock]
    OBVIOUS
  <2>z. PICK z : z = [x EXCEPT !.message = m]
    OBVIOUS
  <2>b. PICK block : block = x.message.block
    OBVIOUS
  <2>f. PICK well \in BOOLEAN : well = (fits \/ block = Text)
    OBVIOUS
  <2>t. PICK t : t = ReceiveBlockFinished(x.response, index, block, well)
    OBVIOUS
  <2>1. /\ m \in Messages /\ ~m.terminal /\ m.started = x.message.started
        /\ m.block = NoBlock /\ m.next = x.message.next /\ m.calls = x.message.calls
    BY <2>m, LiveFacts DEF Messages
  <2>2. block \in Blocks
    BY <1>2, <2>b, LiveFacts DEF IsOpenBlock, Messages, Blocks
  <2>3. /\ Follows(x.response, t) /\ t.outcome # "completed"
        /\ ~t.terminal => /\ t.active = NoBlock /\ t.added = x.response.added
                          /\ t.calls = x.response.calls /\ t.started = x.response.started
    BY <2>2, <2>t, LiveFacts, BlockFinishedFollows
  <2>4. ~t.terminal => /\ m.started = t.started /\ m.block = t.active
                       /\ m.next = t.added /\ m.calls = t.calls
    BY <2>1, <2>3, LiveFacts DEF InStep
  <2>5. y \in Emit(z, t)
    BY <1>2, <2>m, <2>z, <2>b, <2>f, <2>t DEF BlockStop
  <2>6. \/ Settled(x, y, "anthropic")
        \/ Live(y, "anthropic") /\ y.response = t /\ ClientStep(x.response, t)
    BY <2>1, <2>3, <2>4, <2>5, <2>z, EmitSettles
  <2> QED
    BY <2>6 DEF Settles
<1> QED
  BY <1>1, <1>2

LEMMA SetStopFacts ==
  ASSUME NEW m \in Messages, NEW reason \in StopReasons \cup {"none"},
         NEW n, n = SetStop(m, reason)
  PROVE  /\ n \in Messages /\ n.terminal = m.terminal /\ n.started = m.started
         /\ n.block = m.block /\ n.next = m.next /\ n.calls = m.calls
  BY DEF SetStop, Messages, StopReasons

LEMMA MessageDeltaSettles ==
  ASSUME NEW x, Live(x, "anthropic"), NEW reason \in StopReasons \cup {"none"},
         NEW y \in MessageDelta(x, reason)
  PROVE  Settles(x, y, "anthropic")
<1>1. CASE ~x.message.started \/ x.message.block # NoBlock
  BY <1>1, FailMessageSettles DEF MessageDelta
<1>2. CASE ~(~x.message.started \/ x.message.block # NoBlock)
  <2>m. PICK m : m = SetStop(x.message, reason)
    OBVIOUS
  <2>z. PICK z : z = [x EXCEPT !.message = m]
    OBVIOUS
  <2>1. /\ m \in Messages /\ ~m.terminal /\ m.started = x.message.started
        /\ m.block = x.message.block /\ m.next = x.message.next /\ m.calls = x.message.calls
    BY <2>m, LiveFacts, SetStopFacts
  <2>2. /\ z \in Exchanges /\ z.message = m /\ z.phase = x.phase /\ z.open = x.open
        /\ z.stopped = x.stopped /\ z.upstream = x.upstream /\ z.callbacks = x.callbacks
        /\ z.http = x.http /\ z.response = x.response
    BY <2>1, <2>z, LiveFacts, MessageUpdate
  <2>3. Live(z, "anthropic")
    BY <2>1, <2>2 DEF Live, Due, Awaited, InStep
  <2>4. y = EmitUsage(z)
    BY <1>2, <2>m, <2>z DEF MessageDelta
  <2>5. y = z
    BY <2>3, <2>4, LiveFacts, UsageChangesNothing
  <2> QED
    BY <2>2, <2>3, <2>5, SameStep DEF Settles
<1> QED
  BY <1>1, <1>2

(* A response is completed only with the whole message.                    *)
LEMMA MessageStopSettles ==
  ASSUME NEW x, Live(x, "anthropic"), NEW valid \in BOOLEAN, NEW y \in MessageStop(x, valid)
  PROVE  Settles(x, y, "anthropic")
<1> DEFINE Bad == ~x.message.started \/ x.message.stop = "none" \/ x.message.block # NoBlock
<1>1. CASE Bad
  BY <1>1, FailMessageSettles DEF MessageStop
<1>2. CASE ~Bad
  <2>t. PICK t : t = ReceiveCompleted(x.response, x.message.stop, valid)
    OBVIOUS
  <2>1. /\ Follows(x.response, t) /\ t.terminal
        /\ t.outcome = "completed" =>
             /\ x.response.active = NoBlock /\ t.calls = x.response.calls
             /\ t.added = x.response.added
             /\ (x.message.stop = "tool_use") <=> (x.response.calls # {})
    BY <2>t, LiveFacts, CompletedFollows
  <2>2. t.outcome = "completed" => t.done = t.added
    BY <2>1 DEF Follows, StreamInv
  <2>3. t.outcome = "completed" => Agrees(x.message, t)
    BY <2>1, <2>2, LiveFacts DEF InStep, Agrees
  <2>4. y \in EmitLast(x, t)
    BY <1>2, <2>t DEF MessageStop
  <2>5. Settled(x, y, "anthropic")
    BY <2>1, <2>3, <2>4, LiveFacts, EmitLastFacts
  <2> QED
    BY <2>5 DEF Settles
<1> QED
  BY <1>1, <1>2

(* One server-sent event.                                                  *)
LEMMA WireEventsSettle ==
  ASSUME NEW x, Live(x, "anthropic"), NEW n, NEW y \in WireEvents(x, n)
  PROVE  Settles(x, y, "anthropic")
<1> DEFINE MessageEnds ==
             UNION {MessageStart(x, valid) \cup MessageStop(x, valid) : valid \in BOOLEAN}
           BlockStarts == {BlockStart(x, i, b, valid) :
                        i \in 0 .. n, b \in Blocks, valid \in BOOLEAN}
           Deltas == {BlockDelta(x, i, kind, valid) :
                        i \in 0 .. n, kind \in {Text, "call"}, valid \in BOOLEAN}
           Stops == {BlockStop(x, i, valid, fits) :
                       i \in 0 .. n, valid \in BOOLEAN, fits \in BOOLEAN}
           Reasons == {MessageDelta(x, reason) : reason \in StopReasons \cup {"none"}}
<1>1. ~x.message.terminal
  BY LiveFacts
<1>2. y \in FailMessage(x) \cup MessageEnds \cup (UNION BlockStarts) \cup (UNION Deltas)
            \cup (UNION Stops) \cup (UNION Reasons)
  BY <1>1 DEF WireEvents
<1>3. CASE y \in FailMessage(x)
  BY <1>3, FailMessageSettles
<1>4. CASE y \in MessageEnds
  BY <1>4, MessageStartSettles, MessageStopSettles
<1>5. CASE y \in UNION BlockStarts
  <2>1. PICK S \in BlockStarts : y \in S
    BY <1>5
  <2>2. \E i \in 0 .. n, b \in Blocks, valid \in BOOLEAN : S = BlockStart(x, i, b, valid)
    OBVIOUS
  <2> QED
    BY <2>1, <2>2, BlockStartSettles
<1>6. CASE y \in UNION Deltas
  <2>1. PICK S \in Deltas : y \in S
    BY <1>6
  <2>2. \E i \in 0 .. n, kind \in {Text, "call"}, valid \in BOOLEAN :
          S = BlockDelta(x, i, kind, valid)
    OBVIOUS
  <2> QED
    BY <2>1, <2>2, BlockDeltaSettles
<1>7. CASE y \in UNION Stops
  <2>1. PICK S \in Stops : y \in S
    BY <1>7
  <2>2. \E i \in 0 .. n, valid \in BOOLEAN, fits \in BOOLEAN : S = BlockStop(x, i, valid, fits)
    OBVIOUS
  <2> QED
    BY <2>1, <2>2, BlockStopSettles
<1>8. CASE y \in UNION Reasons
  <2>1. PICK S \in Reasons : y \in S
    BY <1>8
  <2>2. \E reason \in StopReasons \cup {"none"} : S = MessageDelta(x, reason)
    OBVIOUS
  <2> QED
    BY <2>1, <2>2, MessageDeltaSettles
<1> HIDE DEF MessageEnds, BlockStarts, Deltas, Stops, Reasons
<1> QED
  BY <1>2, <1>3, <1>4, <1>5, <1>6, <1>7, <1>8

LEMMA HttpUpdate ==
  ASSUME NEW x \in Exchanges, NEW http \in {"idle", "headers", "stream", "plain", "done"},
         NEW y, y = [x EXCEPT !.http = http]
  PROVE  /\ y \in Exchanges /\ y.http = http /\ y.message = x.message /\ y.phase = x.phase
         /\ y.open = x.open /\ y.stopped = x.stopped /\ y.upstream = x.upstream
         /\ y.callbacks = x.callbacks /\ y.response = x.response
  BY DEF Exchanges

LEMMA HeadersSettle ==
  ASSUME NEW x, Live(x, "anthropic"), NEW kind \in {"stream", "plain"}, NEW isEvents,
         NEW y \in Headers(x, kind, isEvents)
  PROVE  Settles(x, y, "anthropic")
<1>z. PICK z : z = [x EXCEPT !.http = kind]
  OBVIOUS
<1>1. /\ z \in Exchanges /\ z.http = kind /\ z.message = x.message /\ z.phase = x.phase
      /\ z.open = x.open /\ z.stopped = x.stopped /\ z.upstream = x.upstream
      /\ z.callbacks = x.callbacks /\ z.response = x.response
  BY <1>z, LiveFacts, HttpUpdate
<1>2. Live(z, "anthropic")
  BY <1>1 DEF Live, Due, Awaited, InStep, OnTheWire
<1>3. y \in FailMessage(z) \/ y = z
  BY <1>z DEF Headers
<1>4. CASE y \in FailMessage(z)
  BY <1>1, <1>2, <1>4, LiveFacts, FailMessageFacts DEF Settled, Settles
<1>5. CASE y = z
  BY <1>1, <1>2, <1>5, SameStep DEF Settles
<1> QED
  BY <1>3, <1>4, <1>5

LEMMA TransportEndSettles ==
  ASSUME NEW x, Live(x, "anthropic"), NEW y \in TransportEnds(x)
  PROVE  Settles(x, y, "anthropic")
<1>z. PICK z : z = [x EXCEPT !.http = "done"]
  OBVIOUS
<1>1. /\ z \in Exchanges /\ z.message = x.message /\ z.phase = x.phase
      /\ z.open = x.open /\ z.stopped = x.stopped /\ z.upstream = x.upstream
      /\ z.callbacks = x.callbacks /\ z.response = x.response
  BY <1>z, LiveFacts, HttpUpdate
<1>2. Due(z) /\ z.upstream = "active"
  BY <1>1, LiveFacts DEF Due, Awaited
<1>3. y \in FailMessage(z)
  BY <1>z DEF TransportEnds
<1>4. Settled(z, y, "anthropic")
  BY <1>2, <1>3, FailMessageFacts
<1> QED
  BY <1>1, <1>4 DEF Settled, Settles

-----------------------------------------------------------------------------
(* Any other provider, and the start and the end of an exchange            *)

LEMMA DeadStays ==
  ASSUME NEW who, NEW x, Dead(x, who), NEW t, NEW y \in Deliveries(x, t)
  PROVE  y = x
  BY DEF Dead, Deliveries

LEMMA DeliveriesSettle ==
  ASSUME NEW x, Live(x, "scripted"), NEW t, Follows(x.response, t), NEW y \in Deliveries(x, t)
  PROVE  Settles(x, y, "scripted")
<1>1. (Settled(x, y, "scripted") /\ Shown(x, y, t)) \/ MovedOn(x, y, t)
  BY LiveFacts, DeliveriesFacts
<1>2. CASE MovedOn(x, y, t)
  <2>1. Live(y, "scripted") /\ ClientStep(x.response, y.response)
    <3>1. Due(x) /\ x.upstream = "active" /\ ~(x.http \in OnTheWire)
      BY LiveFacts
    <3>2. ~t.terminal /\ y = [x EXCEPT !.response = t]
      BY <1>2 DEF MovedOn
    <3> QED
      BY <3>1, <3>2, StillLive
  <2> QED
    BY <2>1 DEF Settles
<1> QED
  BY <1>1, <1>2 DEF Settles

LEMMA NewExchangeFacts ==
  /\ NewExchange \in Exchanges /\ NewExchange.phase = "open" /\ NewExchange.open
  /\ ~NewExchange.stopped /\ NewExchange.upstream = "none" /\ NewExchange.callbacks = "due"
  /\ NewExchange.http = "idle" /\ NewExchange.message = NewMessage
  /\ NewExchange.response = NewStream
<1>1. NewStream \in Streams
  BY NewStreamReady DEF Ready
<1>2. NewMessage \in Messages
  BY DEF NewMessage, Messages
<1>3. NoExchange \in Exchanges
  BY <1>1, <1>2 DEF NoExchange, Exchanges
<1> DEFINE a == [NoExchange EXCEPT !.phase = "open"]
<1>4. /\ a \in Exchanges /\ a.phase = "open" /\ ~a.stopped /\ a.upstream = "none"
      /\ a.callbacks = "due" /\ a.http = "idle" /\ a.message = NewMessage
      /\ a.response = NewStream
  BY <1>3 DEF NoExchange, Exchanges
<1>5. NewExchange = [a EXCEPT !.open = TRUE]
  BY DEF NewExchange
<1> HIDE DEF a
<1> QED
  BY <1>4, <1>5 DEF Exchanges

LEMMA NewExchangeDue ==
  ASSUME NEW who
  PROVE  Due(NewExchange) /\ Awaited(NewExchange) /\ Hears(NewExchange, who)
  BY NewExchangeFacts, NewStreamReady DEF Due, Awaited, Hears, NewMessage, OnTheWire

LEMMA ActiveUpdate ==
  ASSUME NEW x \in Exchanges, NEW y, y = [x EXCEPT !.upstream = "active"]
  PROVE  /\ y \in Exchanges /\ y.http = x.http /\ y.message = x.message /\ y.phase = x.phase
         /\ y.open = x.open /\ y.stopped = x.stopped /\ y.upstream = "active"
         /\ y.callbacks = x.callbacks /\ y.response = x.response
  BY DEF Exchanges

(* An operation that is returned to one that does not want it any more.    *)
LEMMA ReturnedDead ==
  ASSUME NEW who, NEW x, Dead(x, who), NEW y, y = Returned(x, TRUE)
  PROVE  Dead(y, who) /\ y.response = x.response
<1>a. PICK a : a = [x EXCEPT !.upstream = "active"]
  OBVIOUS
<1>1. x \in Exchanges /\ x.stopped
  BY DEF Dead
<1>2. /\ a \in Exchanges /\ a.http = x.http /\ a.message = x.message /\ a.phase = x.phase
      /\ a.open = x.open /\ a.stopped = x.stopped /\ a.upstream = "active"
      /\ a.callbacks = x.callbacks /\ a.response = x.response
  BY <1>1, <1>a, ActiveUpdate
<1>3. y = CancelProvider(a)
  BY <1>1, <1>a DEF Returned
<1>4. /\ y \in Exchanges /\ y.phase = x.phase /\ y.open = x.open /\ y.stopped = x.stopped
      /\ y.response = x.response /\ y.upstream # "active"
      /\ y.http \notin OnTheWire /\ y.message = CancelMessage(x.message)
  <2>1. /\ y \in Exchanges /\ y.phase = a.phase /\ y.open = a.open /\ y.stopped = a.stopped
        /\ y.response = a.response /\ y.upstream # "active"
    BY <1>2, <1>3, CancelFacts
  <2>2. y.http \notin OnTheWire /\ y.message = CancelMessage(a.message)
    BY <1>2, <1>3, CancelFacts
  <2> QED
    BY <1>2, <2>1, <2>2
<1>5. y.callbacks = "cancelled" \/ y.callbacks = x.callbacks
  BY <1>2, <1>3, CancelFacts
<1>6. x.callbacks = "due" => y.callbacks = "cancelled"
  BY <1>2, <1>3, CancelFacts
<1>7. /\ y.message.stop = x.message.stop /\ y.message.block = x.message.block
      /\ y.message.next = x.message.next /\ y.message.calls = x.message.calls
  <2>1. x.message \in Messages
    BY <1>1 DEF Exchanges
  <2> QED
    BY <1>4, <2>1, CancelMessageFacts
<1>8. Agrees(x.message, x.response) => Agrees(y.message, y.response)
  BY <1>4, <1>7 DEF Agrees
<1> QED
  BY <1>1, <1>4, <1>5, <1>6, <1>8 DEF Dead

(* What a start makes of the exchange of a new request.                    *)
Starts(y, who) ==
  (Live(y, who) \/ Dead(y, who)) /\ ClientStep(NewStream, y.response)

LEMMA ReturnedSettled ==
  ASSUME NEW who, NEW x, x.response = NewStream, NEW z, Settled(x, z, who),
         NEW y, y = Returned(z, TRUE)
  PROVE  Starts(y, who)
<1>1. Dead(z, who) /\ ClientStep(NewStream, z.response)
  BY DEF Settled
<1>2. Dead(y, who) /\ y.response = z.response
  BY <1>1, ReturnedDead
<1> QED
  BY <1>1, <1>2 DEF Starts

LEMMA StartAnthropicSettles ==
  ASSUME NEW y \in StartAnthropic(NewExchange)
  PROVE  Starts(y, "anthropic")
<1>x. PICK x : x = NewExchange
  OBVIOUS
<1>1. Due(x) /\ Awaited(x) /\ Hears(x, "anthropic") /\ x \in Exchanges
  BY <1>x, NewExchangeDue, NewExchangeFacts
<1>2. /\ ~x.stopped /\ x.upstream = "none" /\ x.callbacks = "due" /\ x.http = "idle"
      /\ x.phase = "open" /\ x.open
      /\ x.message = NewMessage /\ x.response = NewStream /\ x.message \in Messages
      /\ ~x.message.terminal /\ Ready(x.response)
  BY <1>1, <1>x, NewExchangeFacts, DueFacts
<1>3. CASE y \in Deliveries(Called(x, TRUE), Fail(x.response))
  <2>z. PICK z : z = Called(x, TRUE)
    OBVIOUS
  <2>t. PICK t : t = Fail(x.response)
    OBVIOUS
  <2>1. /\ z \in Exchanges /\ z.callbacks = "ended" /\ z.message = x.message
        /\ z.phase = x.phase /\ z.open = x.open /\ z.stopped = x.stopped
        /\ z.upstream = x.upstream /\ z.http = x.http /\ z.response = x.response
    BY <1>1, <1>2, <2>z, EndedUpdate
  <2>2. Awaited(z) /\ Hears(z, "anthropic")
    BY <1>1, <1>2, <2>1, EndedFacts
  <2>3. Follows(z.response, t) /\ t.terminal /\ t.outcome = "failed"
    BY <1>2, <2>1, <2>t, FailFollows
  <2>4. (Settled(z, y, "anthropic") /\ Shown(z, y, t)) \/ MovedOn(z, y, t)
    BY <1>3, <2>2, <2>3, <2>z, <2>t, DeliveriesFacts
  <2>5. Settled(z, y, "anthropic")
    BY <2>3, <2>4 DEF MovedOn
  <2> QED
    BY <1>2, <2>1, <2>5 DEF Settled, Starts
<1>4. CASE \E z \in FailMessage(x) : y = Returned(z, TRUE)
  <2>1. PICK z \in FailMessage(x) : y = Returned(z, TRUE)
    BY <1>4
  <2>2. Settled(x, z, "anthropic")
    BY <1>1, <2>1, FailMessageFacts
  <2> QED
    BY <1>2, <2>1, <2>2, ReturnedSettled
<1>5. CASE y = Returned([x EXCEPT !.http = "headers"], TRUE)
  <2>a. PICK a : a = [x EXCEPT !.http = "headers"]
    OBVIOUS
  <2>1. /\ a \in Exchanges /\ a.http = "headers" /\ a.message = x.message /\ a.phase = x.phase
        /\ a.open = x.open /\ a.stopped = x.stopped /\ a.upstream = x.upstream
        /\ a.callbacks = x.callbacks /\ a.response = x.response
    BY <1>1, <2>a, HttpUpdate
  <2>2. y = [a EXCEPT !.upstream = "active"]
    BY <1>2, <1>5, <2>1, <2>a DEF Returned
  <2>3. /\ y \in Exchanges /\ y.http = a.http /\ y.message = a.message /\ y.phase = a.phase
        /\ y.open = a.open /\ y.stopped = a.stopped /\ y.upstream = "active"
        /\ y.callbacks = a.callbacks /\ y.response = a.response
    BY <2>1, <2>2, ActiveUpdate
  <2>4. InStep(y)
    BY <1>2, <2>1, <2>3 DEF InStep, NewMessage, NewStream
  <2>5. Live(y, "anthropic")
    BY <1>2, <2>1, <2>3, <2>4 DEF Live, Due, Awaited, OnTheWire
  <2>6. y.response = NewStream
    BY <1>2, <2>1, <2>3
  <2> QED
    BY <2>5, <2>6, SameStep DEF Starts
<1> QED
  BY <1>3, <1>4, <1>5, <1>x DEF StartAnthropic

(* The first thing any provider can deliver, without ending the response,  *)
(* is that it has started.                                                 *)
LEMMA FirstDelivery ==
  ASSUME NEW n, NEW t \in Received(NewStream, n), ~t.terminal
  PROVE  Begins(NewStream, t)
<1>1. Ready(NewStream) /\ ~NewStream.started /\ NewStream.active = NoBlock
  BY NewStreamReady DEF NewStream
<1>2. Fail(NewStream).terminal
  BY <1>1, FailFollows
<1>3. CASE t \in {Fail(NewStream), ReceiveStarted(NewStream), ReceiveUsage(NewStream)}
  <2>1. CASE t = ReceiveStarted(NewStream)
    BY <1>1, <2>1, StartedFollows DEF Begins
  <2>2. CASE t = NewStream
    BY <2>2 DEF Begins, Same
  <2> QED
    BY <1>2, <1>3, <2>1, <2>2 DEF ReceiveUsage
<1>4. CASE \E reason \in StopReasons, valid \in BOOLEAN :
             t = ReceiveCompleted(NewStream, reason, valid)
  BY <1>1, <1>4, CompletedFollows
<1>5. CASE \E i \in 0 .. n, b \in Blocks, valid \in BOOLEAN :
             t = ReceiveBlockStarted(NewStream, i, b, valid)
  BY <1>1, <1>2, <1>5 DEF ReceiveBlockStarted
<1>6. CASE \E i \in 0 .. n, b \in Blocks, valid \in BOOLEAN :
             t = ReceiveBlockFinished(NewStream, i, b, valid)
  BY <1>1, <1>2, <1>6 DEF ReceiveBlockFinished, IsActive
<1>7. CASE \E i \in 0 .. n, kind \in {Text, "call"}, valid \in BOOLEAN :
             t = ReceiveDelta(NewStream, i, kind, valid)
  BY <1>1, <1>2, <1>7 DEF ReceiveDelta, IsActive
<1> QED
  BY <1>3, <1>4, <1>5, <1>6, <1>7 DEF Received

(* Before the operation is returned: ended already, or begun.              *)
Early(y) ==
  \/ Dead(y, "scripted") /\ ClientStep(NewStream, y.response)
  \/ /\ Due(y) /\ y.upstream = "none" /\ y.http \notin OnTheWire
     /\ Begins(NewStream, y.response) /\ ClientStep(NewStream, y.response)

LEMMA EarlyFacts ==
  ASSUME NEW n, NEW t \in Received(NewStream, n), NEW y \in Deliveries(NewExchange, t)
  PROVE  Early(y)
<1>x. PICK x : x = NewExchange
  OBVIOUS
<1>1. Due(x) /\ Awaited(x) /\ Hears(x, "scripted") /\ x \in Exchanges
  BY <1>x, NewExchangeDue, NewExchangeFacts
<1>2. x.response = NewStream /\ x.upstream = "none" /\ x.http \notin OnTheWire
  BY <1>x, NewExchangeFacts DEF OnTheWire
<1>3. Follows(x.response, t)
  BY <1>2, NewStreamReady, ReceivedFollows
<1>4. (Settled(x, y, "scripted") /\ Shown(x, y, t)) \/ MovedOn(x, y, t)
  BY <1>1, <1>3, <1>x, DeliveriesFacts
<1>5. CASE Settled(x, y, "scripted")
  BY <1>2, <1>5 DEF Settled, Early
<1>6. CASE MovedOn(x, y, t)
  <2>1. t \in Streams /\ StreamInv(t) /\ ClientStep(NewStream, t) /\ ~t.terminal
    BY <1>2, <1>3, <1>6, Steps DEF MovedOn
  <2>2. y = [x EXCEPT !.response = t]
    BY <1>6 DEF MovedOn
  <2>3. /\ y \in Exchanges /\ y.response = t /\ y.phase = x.phase /\ y.open = x.open
        /\ y.stopped = x.stopped /\ Alike(x, y)
    BY <1>1, <2>1, <2>2, ResponseUpdate
  <2>4. Due(y) /\ y.upstream = "none" /\ y.http \notin OnTheWire
    BY <1>1, <1>2, <2>1, <2>3 DEF Due, Awaited, Alike, Ready
  <2>5. Begins(NewStream, t)
    BY <2>1, FirstDelivery
  <2> QED
    BY <2>1, <2>3, <2>4, <2>5 DEF Early
<1> QED
  BY <1>4, <1>5, <1>6

LEMMA StartScriptedSettles ==
  ASSUME NEW n, NEW y \in StartScripted(NewExchange, n)
  PROVE  Starts(y, "scripted")
<1>x. PICK x : x = NewExchange
  OBVIOUS
<1>1. x.response = NewStream /\ x.upstream = "none" /\ x.http \notin OnTheWire /\ Due(x)
  BY <1>x, NewExchangeDue, NewExchangeFacts DEF OnTheWire
<1>2. Early(x)
  BY <1>1, SameStep DEF Early, Begins, Same
<1> DEFINE early == {x} \cup (UNION {Deliveries(x, t) : t \in Received(x.response, n)})
<1>3. ASSUME NEW e \in early
      PROVE  Early(e)
  BY <1>1, <1>2, <1>x, EarlyFacts
<1>4. y \in {Returned(e, TRUE) : e \in early} \cup (UNION {StartFails(e) : e \in early})
  <2>1. y \in StartScripted(x, n)
    BY <1>x
  <2> QED
    BY <2>1 DEF StartScripted
<1> HIDE DEF early
<1>5. CASE \E e \in early : y = Returned(e, TRUE)
  <2>1. PICK e \in early : y = Returned(e, TRUE)
    BY <1>5
  <2>2. CASE Dead(e, "scripted") /\ ClientStep(NewStream, e.response)
    BY <2>1, <2>2, ReturnedDead DEF Starts
  <2>3. CASE /\ Due(e) /\ e.upstream = "none" /\ e.http \notin OnTheWire
             /\ ClientStep(NewStream, e.response)
    <3>1. e \in Exchanges /\ ~e.stopped
      BY <2>3, DueFacts DEF Awaited
    <3>2. y = [e EXCEPT !.upstream = "active"]
      BY <2>1, <3>1 DEF Returned
    <3>3. /\ y \in Exchanges /\ y.http = e.http /\ y.message = e.message /\ y.phase = e.phase
          /\ y.open = e.open /\ y.stopped = e.stopped /\ y.upstream = "active"
          /\ y.callbacks = e.callbacks /\ y.response = e.response
      BY <3>1, <3>2, ActiveUpdate
    <3>4. Live(y, "scripted")
      BY <2>3, <3>3 DEF Live, Due, Awaited
    <3> QED
      BY <2>3, <3>3, <3>4 DEF Starts
  <2> QED
    BY <1>3, <2>2, <2>3 DEF Early
<1>6. CASE \E e \in early : y \in StartFails(e)
  <2>1. PICK e \in early : y \in StartFails(e)
    BY <1>6
  <2>2. CASE Dead(e, "scripted") /\ ClientStep(NewStream, e.response)
    BY <2>1, <2>2 DEF StartFails, Dead, Starts
  <2>3. CASE Due(e) /\ Begins(NewStream, e.response)
    <3>t. PICK t : t = Fail(e.response)
      OBVIOUS
    <3>1. Awaited(e) /\ Ready(e.response) /\ ~e.stopped /\ Hears(e, "scripted")
      BY <2>3, DueFacts DEF Awaited, Hears
    <3>2. Follows(e.response, t) /\ t.terminal /\ FailsAt(e.response, t)
      BY <3>1, <3>t, FailFollows
    <3>3. y \in Deliveries(e, t)
      BY <2>1, <3>1, <3>t DEF StartFails
    <3>4. (Settled(e, y, "scripted") /\ Shown(e, y, t)) \/ MovedOn(e, y, t)
      BY <3>1, <3>2, <3>3, DeliveriesFacts
    <3>5. Settled(e, y, "scripted") /\ Shown(e, y, t)
      BY <3>2, <3>4 DEF MovedOn
    <3>6. Same(e.response, y.response) \/ FailsAt(e.response, y.response)
      BY <3>2, <3>5 DEF Shown
    <3>7. ClientStep(NewStream, y.response)
      BY <2>3, <3>6, NewStreamReady, BeginsThenFails
    <3> QED
      BY <3>5, <3>7 DEF Settled, Starts
  <2> QED
    BY <1>3, <2>2, <2>3 DEF Early
<1> QED
  BY <1>4, <1>5, <1>6

(* The connection ends, or the service stops, or the response cannot be    *)
(* piped: whatever the exchange was, it is over, and the client is told no *)
(* more.                                                                   *)
LEMMA StopSessionEnds ==
  ASSUME NEW who, NEW x, Live(x, who) \/ Dead(x, who) \/ x = NewExchange,
         NEW s, s = StopSession(x), NEW y \in Exchanges,
         y.phase \in {s.phase, "closing", "closed"}, y.open = s.open, y.stopped = s.stopped,
         y.response = s.response, Alike(s, y)
  PROVE  Dead(y, who) /\ ~y.open /\ y.response = x.response
<1>1. x \in Exchanges
  BY LiveFacts, NewExchangeFacts DEF Dead
<1>2. /\ s \in Exchanges /\ s.phase = x.phase /\ ~s.open /\ s.stopped
      /\ s.response = x.response /\ Silenced(x, s)
  BY <1>1, StopSessionFacts
<1>3. y.response = x.response /\ ~y.open /\ y.stopped
  BY <1>2
<1>4. Silenced(x, y)
  <2>1. Alike(x, x)
    BY DEF Alike
  <2> QED
    BY <1>2, <2>1, SilencedAlike
<1>5. CASE Dead(x, who)
  <2>1. x.upstream # "active" /\ x.phase \in {"open", "closing", "closed"}
    BY <1>5 DEF Dead
  <2>2. Alike(x, y)
    BY <1>4, <2>1 DEF Silenced
  <2>3. y.phase \in {"open", "closing", "closed"}
    BY <1>2, <2>1
  <2> QED
    BY <1>3, <1>5, <2>2, <2>3 DEF Dead, Alike
<1>6. CASE Live(x, who) \/ x = NewExchange
  <2>1. Awaited(x) /\ Hears(x, who)
    BY <1>6, LiveFacts, NewExchangeDue
  <2>2. x.response \in Streams /\ StreamInv(x.response) /\ x.response.outcome = "none"
    BY <2>1, ReadyFacts DEF Awaited, Ready
  <2>3. x.phase = "open"
    BY <2>1 DEF Awaited
  <2>4. y.phase \in {"open", "closing", "closed"}
    BY <1>2, <2>3
  <2>5. Dead(y, who)
    BY <1>3, <1>4, <2>1, <2>2, <2>4, StoppedIsDead
  <2> QED
    BY <1>3, <2>5
<1> QED
  BY <1>5, <1>6

-----------------------------------------------------------------------------
(* The service *)

ExchangesInv == \A r \in Requests : ExchangeInv(exchange[r], provider)
SessionsInv ==
  /\ OpenRequests \subseteq sessions /\ sessions \subseteq Requests
  /\ IsFiniteSet(sessions) /\ Cardinality(sessions) <= MaximumSessions
TypeInv ==
  /\ provider \in Providers /\ serving \in BOOLEAN
  /\ exchange \in [Requests -> Exchanges]
IInv == TypeInv /\ ExchangesInv /\ SessionsInv

LEMMA ProviderIs ==
  ASSUME provider \in Providers
  PROVE  provider = "anthropic" \/ provider = "scripted"
  BY ModelPathAssumption

LEMMA ExchangeType ==
  ASSUME NEW x, NEW who, ExchangeInv(x, who)
  PROVE  x \in Exchanges
  BY LiveFacts DEF ExchangeInv, Idle, Dead

-----------------------------------------------------------------------------
(* What a callback may do to one exchange.                                 *)
Evolves(x, y, who) ==
  /\ ExchangeInv(y, who) /\ ClientStep(x.response, y.response)
  /\ y.open => x.open
  /\ y.phase # "full"
Changes(r) ==
  \E y : exchange' = [exchange EXCEPT ![r] = y] /\ Evolves(exchange[r], y, provider)

LEMMA SettlesEvolves ==
  ASSUME NEW who, NEW x, Live(x, who), NEW y, Settles(x, y, who)
  PROVE  Evolves(x, y, who)
<1>1. x.open
  BY LiveFacts DEF Awaited
<1>2. CASE Settled(x, y, who)
  BY <1>1, <1>2 DEF Settled, Dead, Evolves, ExchangeInv
<1>3. CASE Live(y, who) /\ ClientStep(x.response, y.response)
  <2>1. y.phase = "open"
    BY <1>3, LiveFacts DEF Awaited
  <2> QED
    BY <1>1, <1>3, <2>1 DEF Evolves, ExchangeInv
<1> QED
  BY <1>2, <1>3 DEF Settles

LEMMA StaysEvolves ==
  ASSUME NEW who, NEW x, ExchangeInv(x, who), x.phase # "full"
  PROVE  Evolves(x, x, who)
  BY SameStep DEF Evolves

LEMMA OnTheWireLive ==
  ASSUME NEW x, NEW who, ExchangeInv(x, who), x.http \in OnTheWire
  PROVE  Live(x, who)
  BY DEF ExchangeInv, Idle, Dead, OnTheWire

-----------------------------------------------------------------------------
LEMMA BecomesChanges ==
  ASSUME NEW r \in Requests, NEW results, Becomes(r, results),
         \A y \in results : Evolves(exchange[r], y, provider)
  PROVE  Changes(r) /\ UNCHANGED <<provider, serving, sessions>>
  BY DEF Becomes, Changes

(* Only the Anthropic provider has a transport, and only while the         *)
(* exchange is live.                                                       *)
LEMMA OnTheWireIsLive ==
  ASSUME IInv, NEW r \in Requests, exchange[r].http \in OnTheWire
  PROVE  provider = "anthropic" /\ Live(exchange[r], "anthropic")
<1>1. Live(exchange[r], provider)
  BY OnTheWireLive DEF IInv, ExchangesInv
<1> QED
  BY <1>1, LiveFacts

LEMMA AnthropicEvent ==
  ASSUME IInv, NEW r \in Requests, exchange[r].http \in OnTheWire,
         NEW results, Becomes(r, results),
         \A y \in results : Settles(exchange[r], y, "anthropic")
  PROVE  Changes(r) /\ UNCHANGED <<provider, serving, sessions>>
<1>1. provider = "anthropic" /\ Live(exchange[r], "anthropic")
  BY OnTheWireIsLive
<1>2. ASSUME NEW y \in results
      PROVE  Evolves(exchange[r], y, provider)
  BY <1>1, SettlesEvolves
<1> QED
  BY <1>2, BecomesChanges

ProviderEvent(r) ==
  \/ ReceiveHeaders(r) \/ ReceiveEvent(r) \/ ReceiveErrorBody(r)
  \/ TransportEnd(r) \/ ScriptedEvent(r)

LEMMA ProviderEventChanges ==
  ASSUME IInv, NEW r \in Requests, ProviderEvent(r)
  PROVE  Changes(r) /\ UNCHANGED <<provider, serving, sessions>>
<1>1. CASE ReceiveHeaders(r)
  <2>1. exchange[r].http \in OnTheWire
    BY <1>1 DEF ReceiveHeaders, OnTheWire
  <2>2. PICK kind \in {"stream", "plain"}, isEvents \in BOOLEAN :
          Becomes(r, Headers(exchange[r], kind, isEvents))
    BY <1>1 DEF ReceiveHeaders
  <2>3. \A y \in Headers(exchange[r], kind, isEvents) : Settles(exchange[r], y, "anthropic")
    BY <2>1, OnTheWireIsLive, HeadersSettle
  <2> QED
    BY <2>1, <2>2, <2>3, AnthropicEvent
<1>2. CASE ReceiveEvent(r)
  <2>1. exchange[r].http \in OnTheWire /\ Becomes(r, WireEvents(exchange[r], MaxItems))
    BY <1>2 DEF ReceiveEvent, OnTheWire
  <2>2. \A y \in WireEvents(exchange[r], MaxItems) : Settles(exchange[r], y, "anthropic")
    BY <2>1, OnTheWireIsLive, WireEventsSettle
  <2> QED
    BY <2>1, <2>2, AnthropicEvent
<1>3. CASE ReceiveErrorBody(r)
  <2>1. exchange[r].http \in OnTheWire /\ Becomes(r, FailMessage(exchange[r]))
    BY <1>3 DEF ReceiveErrorBody, ErrorBodyOverflows, OnTheWire
  <2>2. \A y \in FailMessage(exchange[r]) : Settles(exchange[r], y, "anthropic")
    BY <2>1, OnTheWireIsLive, FailMessageSettles
  <2> QED
    BY <2>1, <2>2, AnthropicEvent
<1>4. CASE TransportEnd(r)
  <2>1. exchange[r].http \in OnTheWire /\ Becomes(r, TransportEnds(exchange[r]))
    BY <1>4 DEF TransportEnd
  <2>2. \A y \in TransportEnds(exchange[r]) : Settles(exchange[r], y, "anthropic")
    BY <2>1, OnTheWireIsLive, TransportEndSettles
  <2> QED
    BY <2>1, <2>2, AnthropicEvent
<1>5. CASE ScriptedEvent(r)
  <2>x. PICK x : x = exchange[r]
    OBVIOUS
  <2>1. /\ provider = "scripted" /\ x.upstream # "none"
        /\ Becomes(r, UNION {Deliveries(x, t) : t \in Received(x.response, MaxItems)})
    BY <1>5, <2>x DEF ScriptedEvent
  <2>2. Live(x, "scripted") \/ Dead(x, "scripted")
    BY <2>1, <2>x DEF IInv, ExchangesInv, ExchangeInv, Idle
  <2>3. ASSUME NEW t \in Received(x.response, MaxItems), NEW y \in Deliveries(x, t)
        PROVE  Evolves(x, y, "scripted")
    <3>1. CASE Live(x, "scripted")
      <4>1. Follows(x.response, t)
        BY <3>1, LiveFacts, ReceivedFollows
      <4> QED
        BY <3>1, <4>1, DeliveriesSettle, SettlesEvolves
    <3>2. CASE Dead(x, "scripted")
      <4>1. y = x /\ ExchangeInv(x, "scripted") /\ x.phase # "full"
        BY <3>2, DeadStays DEF ExchangeInv, Dead
      <4> QED
        BY <4>1, StaysEvolves
    <3> QED
      BY <2>2, <3>1, <3>2
  <2>4. ASSUME NEW y \in UNION {Deliveries(x, t) : t \in Received(x.response, MaxItems)}
        PROVE  Evolves(x, y, "scripted")
    BY <2>3
  <2> QED
    BY <2>1, <2>4, <2>x, BecomesChanges
<1> QED
  BY <1>1, <1>2, <1>3, <1>4, <1>5 DEF ProviderEvent

-----------------------------------------------------------------------------
(* The service *)

PhaseUpdate(x, y, phase) ==
  /\ y \in Exchanges /\ y.phase = phase /\ y.open = x.open /\ y.stopped = x.stopped
  /\ y.response = x.response /\ Alike(x, y)

LEMMA PhaseFacts ==
  ASSUME NEW x \in Exchanges,
         NEW phase \in {"absent", "refused", "full", "open", "closing", "closed"},
         NEW y, y = [x EXCEPT !.phase = phase]
  PROVE  PhaseUpdate(x, y, phase)
  BY DEF PhaseUpdate, Exchanges, Alike

LEMMA AbsentIsIdle ==
  ASSUME IInv, NEW r \in Requests, exchange[r].phase = "absent"
  PROVE  Idle(exchange[r]) /\ exchange[r] \in Exchanges /\ ~exchange[r].open
         /\ exchange[r].response = NewStream
<1>1. ExchangeInv(exchange[r], provider)
  BY DEF IInv, ExchangesInv
<1>2. Idle(exchange[r])
  BY <1>1, LiveFacts DEF ExchangeInv, Awaited, Dead
<1> QED
  BY <1>2 DEF Idle

(* A request is turned away.                                               *)
LEMMA RefusedEvolves ==
  ASSUME IInv, NEW r \in Requests, exchange[r].phase = "absent",
         NEW why \in {"refused", "full"}, Refuse(r, why)
  PROVE  \E y : /\ exchange' = [exchange EXCEPT ![r] = y]
                /\ ExchangeInv(y, provider) /\ ~y.open /\ y.phase = why
                /\ ClientStep(exchange[r].response, y.response)
<1>x. PICK x : x = exchange[r]
  OBVIOUS
<1>y. PICK y : y = [x EXCEPT !.phase = why]
  OBVIOUS
<1>1. Idle(x) /\ x \in Exchanges /\ ~x.open
  BY <1>x, AbsentIsIdle
<1>2. PhaseUpdate(x, y, why)
  BY <1>1, <1>y, PhaseFacts
<1>3. Idle(y)
  BY <1>1, <1>2 DEF Idle, PhaseUpdate, Alike
<1>4. exchange' = [exchange EXCEPT ![r] = y]
  BY <1>x, <1>y DEF Refuse
<1>5. y.response = x.response /\ ClientStep(x.response, x.response)
  BY <1>2, SameStep DEF PhaseUpdate
<1> QED
  BY <1>1, <1>2, <1>3, <1>4, <1>5, <1>x DEF ExchangeInv, PhaseUpdate

(* A request is taken in.                                                  *)
Admits(r) ==
  \E y : /\ exchange' = [exchange EXCEPT ![r] = y]
         /\ Live(y, provider) \/ Dead(y, provider)
         /\ ClientStep(exchange[r].response, y.response)

LEMMA AcceptAdmits ==
  ASSUME IInv, NEW r \in Requests, AcceptRequest(r)
  PROVE  Admits(r)
<1>1. PICK y \in Start(NewExchange) : exchange' = [exchange EXCEPT ![r] = y]
  BY DEF AcceptRequest
<1>2. exchange[r].response = NewStream
  BY AbsentIsIdle DEF AcceptRequest
<1>3. Starts(y, provider)
  <2>1. CASE provider = "anthropic"
    <3>1. y \in StartAnthropic(NewExchange)
      BY <2>1 DEF Start
    <3> QED
      BY <2>1, <3>1, StartAnthropicSettles
  <2>2. CASE provider = "scripted"
    <3>1. y \in StartScripted(NewExchange, 0)
      BY <2>2 DEF Start
    <3> QED
      BY <2>2, <3>1, StartScriptedSettles
  <2> QED
    BY <2>1, <2>2, ProviderIs DEF IInv, TypeInv
<1> QED
  BY <1>1, <1>2, <1>3 DEF Starts, Admits

LEMMA PipeFailsAdmits ==
  ASSUME IInv, NEW r \in Requests, PipeFails(r)
  PROVE  Admits(r)
<1>s. PICK s : s = StopSession(NewExchange)
  OBVIOUS
<1>y. PICK y : y = [s EXCEPT !.phase = "closing"]
  OBVIOUS
<1>1. s \in Exchanges
  BY <1>s, NewExchangeFacts, StopSessionFacts
<1>2. PhaseUpdate(s, y, "closing")
  BY <1>1, <1>y, PhaseFacts
<1>x. PICK x : x = NewExchange
  OBVIOUS
<1>3. Dead(y, provider) /\ y.response = x.response
  BY <1>2, <1>s, <1>x, StopSessionEnds DEF PhaseUpdate
<1>4. exchange[r].response = NewStream /\ x.response = NewStream
  BY <1>x, AbsentIsIdle, NewExchangeFacts DEF PipeFails
<1>5. exchange' = [exchange EXCEPT ![r] = y]
  BY <1>s, <1>y DEF PipeFails
<1> QED
  BY <1>3, <1>4, <1>5, SameStep DEF Admits

LEMMA DisconnectChanges ==
  ASSUME IInv, NEW r \in Requests, Disconnect(r)
  PROVE  Changes(r) /\ UNCHANGED <<provider, serving, sessions>>
<1>x. PICK x : x = exchange[r]
  OBVIOUS
<1>s. PICK s : s = StopSession(x)
  OBVIOUS
<1>y. PICK y : y = [s EXCEPT !.phase = "closed"]
  OBVIOUS
<1>1. Live(x, provider) \/ Dead(x, provider)
  BY <1>x DEF IInv, ExchangesInv, ExchangeInv, Idle, Disconnect, Active
<1>2. x \in Exchanges
  BY <1>1, ExchangeType DEF ExchangeInv
<1>3. s \in Exchanges
  BY <1>2, <1>s, StopSessionFacts
<1>4. PhaseUpdate(s, y, "closed")
  BY <1>3, <1>y, PhaseFacts
<1>5. Dead(y, provider) /\ ~y.open /\ y.response = x.response
  BY <1>1, <1>4, <1>s, StopSessionEnds DEF PhaseUpdate
<1>6. exchange' = [exchange EXCEPT ![r] = y]
  BY <1>x, <1>s, <1>y DEF Disconnect
<1>7. Evolves(x, y, provider)
  BY <1>4, <1>5, SameStep DEF Evolves, ExchangeInv, PhaseUpdate
<1> QED
  BY <1>6, <1>7, <1>x DEF Changes, Disconnect

(* stop() ends every exchange that is open, because it finds it.           *)
LEMMA StopServiceEnds ==
  ASSUME IInv, StopService, NEW r \in Requests
  PROVE  /\ ExchangeInv(exchange'[r], provider) /\ ~exchange'[r].open
         /\ exchange'[r].response = exchange[r].response
         /\ exchange'[r].phase = exchange[r].phase
<1>x. PICK x : x = exchange[r]
  OBVIOUS
<1>1. ExchangeInv(x, provider)
  BY <1>x DEF IInv, ExchangesInv
<1>2. CASE r \in sessions /\ Active(r)
  <2>y. PICK y : y = StopSession(x)
    OBVIOUS
  <2>1. exchange'[r] = y
    BY <1>2, <1>x, <2>y DEF StopService
  <2>2. Live(x, provider) \/ Dead(x, provider)
    BY <1>1, <1>2, <1>x DEF ExchangeInv, Idle, Active
  <2>3. y \in Exchanges /\ y.phase = x.phase
    BY <1>1, <2>y, ExchangeType, StopSessionFacts
  <2>4. Alike(y, y)
    BY DEF Alike
  <2>5. Dead(y, provider) /\ ~y.open /\ y.response = x.response
    BY <2>2, <2>3, <2>4, <2>y, StopSessionEnds
  <2> QED
    BY <1>x, <2>1, <2>3, <2>5 DEF ExchangeInv
<1>3. CASE ~(r \in sessions /\ Active(r))
  <2>1. exchange'[r] = x
    BY <1>3, <1>x DEF StopService
  <2>2. ~x.open
    <3>1. SUFFICES ASSUME x.open PROVE FALSE
      OBVIOUS
    <3>2. r \in sessions
      BY <1>x, <3>1 DEF IInv, SessionsInv, OpenRequests
    <3>3. x.phase \in {"open", "closing"}
      BY <1>1, <3>1, LiveFacts DEF ExchangeInv, Idle, Dead, Awaited
    <3> QED
      BY <1>3, <1>x, <3>2, <3>3 DEF Active
  <2> QED
    BY <1>1, <1>x, <2>1, <2>2
<1> QED
  BY <1>2, <1>3

(* The forms a step can have.                                              *)
Turned(r, why) ==
  \E y : /\ exchange' = [exchange EXCEPT ![r] = y]
         /\ ExchangeInv(y, provider) /\ ~y.open /\ y.phase = why
         /\ ClientStep(exchange[r].response, y.response)
TurnedAway(r) ==
  /\ Turned(r, "refused") \/ (Turned(r, "full") /\ ~HasRoom)
  /\ sessions' \in {sessions, Prune}
  /\ UNCHANGED provider /\ serving' \in BOOLEAN
TakenIn(r) ==
  /\ Admits(r) /\ HasRoom /\ sessions' = Prune \cup {r}
  /\ UNCHANGED provider /\ serving' \in BOOLEAN

LEMMA StepForms ==
  ASSUME IInv, [Next]_vars
  PROVE  \/ \E r \in Requests : \/ Changes(r) /\ UNCHANGED <<provider, serving, sessions>>
                              \/ TurnedAway(r)
                              \/ TakenIn(r)
         \/ StopService
         \/ UNCHANGED vars
<1>0. serving \in BOOLEAN
  BY DEF IInv, TypeInv
<1>1. CASE \E r \in Requests : RefuseRequest(r)
  <2>1. PICK r \in Requests : RefuseRequest(r)
    BY <1>1
  <2>2. Turned(r, "refused")
    BY <2>1, RefusedEvolves DEF RefuseRequest, Turned
  <2> QED
    BY <1>0, <2>1, <2>2 DEF RefuseRequest, TurnedAway
<1>2. CASE \E r \in Requests : RefuseFull(r)
  <2>1. PICK r \in Requests : RefuseFull(r)
    BY <1>2
  <2>2. Turned(r, "full")
    BY <2>1, RefusedEvolves DEF RefuseFull, Turned
  <2> QED
    BY <1>0, <2>1, <2>2 DEF RefuseFull, TurnedAway
<1>3. CASE \E r \in Requests : RefuseInvalid(r)
  <2>1. PICK r \in Requests : RefuseInvalid(r)
    BY <1>3
  <2>2. Turned(r, "refused")
    BY <2>1, RefusedEvolves DEF RefuseInvalid, Turned
  <2> QED
    BY <1>0, <2>1, <2>2 DEF RefuseInvalid, TurnedAway
<1>4. CASE \E r \in Requests : AcceptRequest(r)
  <2>1. PICK r \in Requests : AcceptRequest(r)
    BY <1>4
  <2> QED
    BY <1>0, <2>1, AcceptAdmits DEF AcceptRequest, TakenIn
<1>5. CASE \E r \in Requests : PipeFails(r)
  <2>1. PICK r \in Requests : PipeFails(r)
    BY <1>5
  <2> QED
    BY <1>0, <2>1, PipeFailsAdmits DEF PipeFails, TakenIn
<1>6. CASE \E r \in Requests : Disconnect(r)
  BY <1>6, DisconnectChanges
<1>7. CASE \E r \in Requests : ProviderEvent(r)
  BY <1>7, ProviderEventChanges
<1> QED
  BY <1>1, <1>2, <1>3, <1>4, <1>5, <1>6, <1>7 DEF Next, ServiceActs, ProviderActs, ProviderEvent

-----------------------------------------------------------------------------
(* The invariant *)

LEMMA OneExchange ==
  ASSUME IInv, NEW r \in Requests, NEW y, exchange' = [exchange EXCEPT ![r] = y],
         ExchangeInv(y, provider), UNCHANGED provider
  PROVE  /\ exchange' \in [Requests -> Exchanges] /\ ExchangesInv'
         /\ \A q \in Requests : exchange'[q] = IF q = r THEN y ELSE exchange[q]
<1>1. exchange \in [Requests -> Exchanges] /\ y \in Exchanges
  BY ExchangeType DEF IInv, TypeInv
<1>2. \A q \in Requests : exchange'[q] = IF q = r THEN y ELSE exchange[q]
  BY <1>1
<1>3. ExchangesInv'
  BY <1>2 DEF IInv, ExchangesInv
<1> QED
  BY <1>1, <1>2, <1>3

LEMMA PruneFacts ==
  ASSUME IInv
  PROVE  /\ Prune = OpenRequests /\ IsFiniteSet(Prune)
         /\ Cardinality(Prune) \in Nat /\ Cardinality(Prune) <= MaximumSessions
<1>1. /\ IsFiniteSet(sessions) /\ Cardinality(sessions) <= MaximumSessions
      /\ OpenRequests \subseteq sessions
  BY DEF IInv, SessionsInv
<1>2. Prune \subseteq sessions /\ Prune = OpenRequests
  BY <1>1 DEF Prune
<1>3. /\ IsFiniteSet(Prune) /\ Cardinality(Prune) <= Cardinality(sessions)
      /\ Cardinality(Prune) \in Nat /\ Cardinality(sessions) \in Nat
  BY <1>1, <1>2, FS_Subset, FS_CardinalityType
<1> QED
  BY <1>1, <1>2, <1>3, ModelPathAssumption

LEMMA SessionsKept ==
  ASSUME IInv, sessions' \in {sessions, Prune}, OpenRequests' \subseteq OpenRequests
  PROVE  SessionsInv'
<1>1. CASE sessions' = sessions
  BY <1>1 DEF IInv, SessionsInv
<1>2. CASE sessions' = Prune
  <2>1. Prune = OpenRequests /\ IsFiniteSet(Prune) /\ Cardinality(Prune) <= MaximumSessions
    BY PruneFacts
  <2>2. Prune \subseteq Requests
    BY <2>1 DEF OpenRequests
  <2> QED
    BY <1>2, <2>1, <2>2 DEF SessionsInv
<1> QED
  BY <1>1, <1>2

LEMMA InitInv == Init => IInv
<1> SUFFICES ASSUME Init PROVE IInv
  OBVIOUS
<1>x. PICK x : x = NoExchange
  OBVIOUS
<1>1. NewStream \in Streams /\ NewMessage \in Messages /\ ~NewMessage.terminal
  BY NewStreamReady DEF Ready, NewMessage, Messages
<1>2. Idle(x)
  BY <1>1, <1>x DEF NoExchange, Idle, Exchanges
<1>3. x \in Exchanges /\ ~x.open
  BY <1>2 DEF Idle
<1>4. exchange = [q \in Requests |-> x]
  BY <1>x DEF Init
<1>5. TypeInv
  BY <1>3, <1>4 DEF Init, TypeInv
<1>6. ExchangesInv
  BY <1>2, <1>4 DEF ExchangesInv, ExchangeInv
<1>7. OpenRequests = {} /\ sessions = {}
  BY <1>3, <1>4 DEF OpenRequests, Init
<1>8. SessionsInv
  BY <1>7, FS_EmptySet, ModelPathAssumption DEF SessionsInv
<1> QED
  BY <1>5, <1>6, <1>8 DEF IInv

LEMMA NextInv == IInv /\ [Next]_vars => IInv'
<1> SUFFICES ASSUME IInv, [Next]_vars PROVE IInv'
  OBVIOUS
<1>1. ASSUME NEW r \in Requests, Changes(r), UNCHANGED <<provider, serving, sessions>>
      PROVE  IInv'
  <2>1. PICK y : exchange' = [exchange EXCEPT ![r] = y] /\ Evolves(exchange[r], y, provider)
    BY <1>1 DEF Changes
  <2>2. /\ exchange' \in [Requests -> Exchanges] /\ ExchangesInv'
        /\ \A q \in Requests : exchange'[q] = IF q = r THEN y ELSE exchange[q]
    BY <1>1, <2>1, OneExchange DEF Evolves
  <2>3. OpenRequests' \subseteq OpenRequests
    BY <2>1, <2>2 DEF OpenRequests, Evolves
  <2>4. SessionsInv'
    BY <1>1, <2>3, SessionsKept
  <2> QED
    BY <1>1, <2>2, <2>4 DEF IInv, TypeInv
<1>2. ASSUME NEW r \in Requests, TurnedAway(r)
      PROVE  IInv'
  <2>1. PICK y : /\ exchange' = [exchange EXCEPT ![r] = y]
                 /\ ExchangeInv(y, provider) /\ ~y.open
    BY <1>2 DEF TurnedAway, Turned
  <2>2. /\ exchange' \in [Requests -> Exchanges] /\ ExchangesInv'
        /\ \A q \in Requests : exchange'[q] = IF q = r THEN y ELSE exchange[q]
    BY <1>2, <2>1, OneExchange DEF TurnedAway
  <2>3. OpenRequests' \subseteq OpenRequests
    BY <2>1, <2>2 DEF OpenRequests
  <2>4. SessionsInv'
    BY <1>2, <2>3, SessionsKept DEF TurnedAway
  <2> QED
    BY <1>2, <2>2, <2>4 DEF IInv, TypeInv, TurnedAway
<1>3. ASSUME NEW r \in Requests, TakenIn(r)
      PROVE  IInv'
  <2>1. PICK y : exchange' = [exchange EXCEPT ![r] = y] /\ ExchangeInv(y, provider)
    BY <1>3 DEF TakenIn, Admits, ExchangeInv
  <2>2. /\ exchange' \in [Requests -> Exchanges] /\ ExchangesInv'
        /\ \A q \in Requests : exchange'[q] = IF q = r THEN y ELSE exchange[q]
    BY <1>3, <2>1, OneExchange DEF TakenIn
  <2>3. OpenRequests' \subseteq OpenRequests \cup {r}
    BY <2>2 DEF OpenRequests
  <2>4. Prune = OpenRequests /\ IsFiniteSet(Prune) /\ Cardinality(Prune) \in Nat
    BY PruneFacts
  <2>5. sessions' = Prune \cup {r} /\ Cardinality(Prune) < MaximumSessions
    BY <1>3 DEF TakenIn, HasRoom
  <2>6. IsFiniteSet(sessions') /\ Cardinality(sessions') <= Cardinality(Prune) + 1
    BY <2>4, <2>5, FS_AddElement
  <2>7. Cardinality(sessions') <= MaximumSessions
    BY <2>4, <2>5, <2>6, FS_CardinalityType, ModelPathAssumption
  <2>8. SessionsInv'
    BY <2>3, <2>4, <2>5, <2>6, <2>7 DEF SessionsInv, OpenRequests
  <2> QED
    BY <1>3, <2>2, <2>8 DEF IInv, TypeInv, TakenIn
<1>4. CASE StopService
  <2>1. /\ UNCHANGED provider /\ serving' \in BOOLEAN /\ sessions' = {}
        /\ exchange' = [r \in Requests |-> exchange'[r]]
    BY <1>4 DEF StopService
  <2>2. \A r \in Requests : ExchangeInv(exchange'[r], provider) /\ ~exchange'[r].open
    BY <1>4, StopServiceEnds
  <2>3. \A r \in Requests : exchange'[r] \in Exchanges
    BY <2>2, ExchangeType
  <2>4. TypeInv'
    BY <2>1, <2>3 DEF IInv, TypeInv
  <2>5. ExchangesInv'
    BY <2>1, <2>2 DEF ExchangesInv
  <2>6. OpenRequests' = {}
    BY <2>2 DEF OpenRequests
  <2>7. SessionsInv'
    BY <2>1, <2>6, FS_EmptySet, ModelPathAssumption DEF SessionsInv
  <2> QED
    BY <2>4, <2>5, <2>7 DEF IInv
<1>5. CASE UNCHANGED vars
  BY <1>5 DEF vars, IInv, TypeInv, ExchangesInv, SessionsInv, OpenRequests
<1> QED
  BY <1>1, <1>2, <1>3, <1>4, <1>5, StepForms

(* The invariant the theorems rest on is one of the specification.         *)
LEMMA Invariance == Spec => []IInv
<1>1. Init => IInv
  BY InitInv
<1>2. IInv /\ [Next]_vars => IInv'
  BY NextInv
<1> QED
  BY <1>1, <1>2, PTL DEF Spec

-----------------------------------------------------------------------------
(* The theorems *)

(* Every variable has its type, for every number of requests and items.    *)
THEOREM TypeCorrect == Spec => []TypeOK
<1>1. IInv => TypeOK
  BY DEF IInv, TypeInv, SessionsInv, TypeOK
<1> QED
  BY <1>1, Invariance, PTL

(* An inference runs exactly as long as somebody waits for it, however its *)
(* connection, its provider and the service end.                           *)
THEOREM InferencesAreAwaited == Spec => []RunsWhileAwaited
<1>1. IInv => RunsWhileAwaited
  <2> SUFFICES ASSUME IInv, NEW r \in Requests, NEW x, x = exchange[r]
               PROVE  /\ (x.upstream = "active") <=> (x.open /\ ~x.stopped)
                      /\ x.open /\ x.stopped => x.phase = "closing"
                      /\ x.http \in OnTheWire => x.upstream = "active"
                      /\ provider = "anthropic" /\ x.upstream = "active" => x.http \in OnTheWire
    BY DEF RunsWhileAwaited
  <2>1. CASE Idle(x)
    BY <2>1 DEF Idle, OnTheWire
  <2>2. CASE Live(x, provider)
    BY <2>2, LiveFacts DEF Awaited
  <2>3. CASE Dead(x, provider)
    BY <2>3 DEF Dead
  <2> QED
    BY <2>1, <2>2, <2>3 DEF IInv, ExchangesInv, ExchangeInv
<1> QED
  BY <1>1, Invariance, PTL

(* The receiver of the Anthropic provider hears one end, and nothing after *)
(* it, unless it has cancelled.                                            *)
THEOREM OneEndIsHeard == Spec => []OneLastCallback
<1>1. IInv => OneLastCallback
  <2> SUFFICES ASSUME IInv, provider = "anthropic", NEW r \in Requests, NEW x, x = exchange[r]
               PROVE  /\ x.callbacks # "late"
                      /\ x.http = "done" \/ x.message.terminal => x.callbacks # "due"
                      /\ x.callbacks = "due" => x.upstream # "cancelled"
    BY DEF OneLastCallback
  <2>1. CASE Idle(x)
    BY <2>1 DEF Idle
  <2>2. CASE Live(x, "anthropic")
    BY <2>2, LiveFacts DEF OnTheWire
  <2>3. CASE Dead(x, "anthropic")
    BY <2>3 DEF Dead
  <2> QED
    BY <2>1, <2>2, <2>3 DEF IInv, ExchangesInv, ExchangeInv
<1> QED
  BY <1>1, Invariance, PTL

(* A response that is completed has told the client every item, and those  *)
(* of the whole message of the model.                                      *)
THEOREM CompletedAreComplete == Spec => []CompletedIsComplete
<1>1. IInv => CompletedIsComplete
  <2> SUFFICES ASSUME IInv, NEW r \in Requests, NEW x, x = exchange[r],
                      x.response.outcome = "completed"
               PROVE  /\ x.response.done = x.response.added
                      /\ x.response.added = x.response.output
                      /\ provider = "anthropic" =>
                           /\ x.message.block = NoBlock /\ x.message.next = x.response.done
                           /\ x.message.calls = x.response.calls
                           /\ (x.message.stop = "tool_use") <=> (x.message.calls # {})
    BY DEF CompletedIsComplete
  <2>1. ~Idle(x)
    BY DEF Idle, NewStream
  <2>2. ~Live(x, provider)
    <3>1. SUFFICES ASSUME Live(x, provider) PROVE FALSE
      OBVIOUS
    <3>2. Ready(x.response)
      BY <3>1, LiveFacts
    <3> QED
      BY <3>2, ReadyFacts
  <2>3. Dead(x, provider)
    BY <2>1, <2>2 DEF IInv, ExchangesInv, ExchangeInv
  <2>4. StreamInv(x.response) /\ (provider = "anthropic" => Agrees(x.message, x.response))
    BY <2>3 DEF Dead
  <2> QED
    BY <2>4 DEF StreamInv, Agrees
<1> QED
  BY <1>1, Invariance, PTL

(* Every way a session can end gives its place back: there are never more  *)
(* than the limit, each is found by stop(), and none is turned away early. *)
THEOREM SessionsAreLimited == Spec => SessionLimit
<1> DEFINE A == SessionsBounded' /\ TurnedAwayWhenFull
<1>1. IInv => SessionsBounded
  <2> SUFFICES ASSUME IInv PROVE SessionsBounded
    OBVIOUS
  <2>1. OpenRequests \subseteq sessions /\ Prune = OpenRequests
    BY PruneFacts DEF IInv, SessionsInv
  <2> QED
    BY <2>1, PruneFacts DEF SessionsBounded
<1>2. IInv /\ [Next]_vars => TurnedAwayWhenFull
  <2> SUFFICES ASSUME IInv, [Next]_vars, NEW r \in Requests,
                      exchange[r].phase = "absent", exchange'[r].phase = "full"
               PROVE  Cardinality(OpenRequests) = MaximumSessions
    BY DEF TurnedAwayWhenFull
  <2>1. exchange \in [Requests -> Exchanges]
    BY DEF IInv, TypeInv
  <2>2. ASSUME NEW q \in Requests, Changes(q) PROVE FALSE
    <3>1. PICK y : exchange' = [exchange EXCEPT ![q] = y] /\ Evolves(exchange[q], y, provider)
      BY <2>2 DEF Changes
    <3> QED
      BY <2>1, <3>1 DEF Evolves
  <2>3. ASSUME NEW q \in Requests, TurnedAway(q)
        PROVE  Cardinality(OpenRequests) = MaximumSessions
    <3>1. CASE Turned(q, "refused")
      <4>1. PICK y : exchange' = [exchange EXCEPT ![q] = y] /\ y.phase = "refused"
        BY <3>1 DEF Turned
      <4> QED
        BY <2>1, <4>1
    <3>2. CASE ~HasRoom
      BY <3>2, PruneFacts, ModelPathAssumption DEF HasRoom
    <3> QED
      BY <2>3, <3>1, <3>2 DEF TurnedAway
  <2>4. ASSUME NEW q \in Requests, TakenIn(q) PROVE FALSE
    <3>1. PICK y : /\ exchange' = [exchange EXCEPT ![q] = y]
                   /\ Live(y, provider) \/ Dead(y, provider)
      BY <2>4 DEF TakenIn, Admits
    <3>2. y.phase # "full"
      BY <3>1, LiveFacts DEF Dead, Awaited
    <3> QED
      BY <2>1, <3>1, <3>2
  <2>5. ~StopService
    BY StopServiceEnds
  <2>6. ~UNCHANGED vars
    BY DEF vars
  <2> QED
    BY <2>2, <2>3, <2>4, <2>5, <2>6, StepForms
<1>3. IInv /\ IInv' /\ [Next]_vars => [A]_vars
  <2> SUFFICES ASSUME IInv, IInv', [Next]_vars PROVE A
    OBVIOUS
  <2>1. SessionsBounded'
    <3>1. IInv' => SessionsBounded'
      BY <1>1, PTL
    <3> QED
      BY <3>1
  <2> QED
    BY <1>2, <2>1
<1> HIDE DEF A
<1>4. Spec => [][A]_vars
  BY <1>3, Invariance, PTL DEF Spec
<1> QED
  BY <1>4 DEF A, SessionLimit

-----------------------------------------------------------------------------
(* The refinement: what the client sees of the streams.                    *)

LEMMA ViewUnchanged ==
  ASSUME \A q \in Requests : Same(exchange[q].response, exchange'[q].response)
  PROVE  UNCHANGED Client!vars
  BY DEF Client!vars, Same

LEMMA ViewMoves ==
  ASSUME exchange \in [Requests -> Exchanges], NEW r \in Requests, NEW y \in Exchanges,
         exchange' = [exchange EXCEPT ![r] = y],
         ClientStep(exchange[r].response, y.response)
  PROVE  [Client!Next]_(Client!vars)
<1>s. PICK s : s = exchange[r].response
  OBVIOUS
<1>t. PICK t : t = y.response
  OBVIOUS
<1>1. s \in Streams /\ t \in Streams
  BY <1>s, <1>t DEF Exchanges
<1>2. exchange'[r].response = t /\ \A q \in Requests \ {r} : exchange'[q] = exchange[q]
  BY <1>t
<1> DEFINE created == [q \in Requests |-> exchange[q].response.started]
           added == [q \in Requests |-> exchange[q].response.added]
           done == [q \in Requests |-> exchange[q].response.done]
           outcome == [q \in Requests |-> exchange[q].response.outcome]
<1>3. /\ created[r] = s.started /\ added[r] = s.added
      /\ done[r] = s.done /\ outcome[r] = s.outcome
  BY <1>s
<1>4. /\ created' = [created EXCEPT ![r] = t.started]
      /\ added' = [added EXCEPT ![r] = t.added]
      /\ done' = [done EXCEPT ![r] = t.done]
      /\ outcome' = [outcome EXCEPT ![r] = t.outcome]
  BY <1>2
<1>5. /\ t.started = s.started => created' = created
      /\ t.added = s.added => added' = added
      /\ t.done = s.done => done' = done
      /\ t.outcome = s.outcome => outcome' = outcome
  BY <1>2, <1>s
<1>6. CASE Same(s, t)
  <2>1. \A q \in Requests : Same(exchange[q].response, exchange'[q].response)
    BY <1>2, <1>6, <1>s DEF Same
  <2> QED
    BY <2>1, ViewUnchanged
<1> HIDE DEF created, added, done, outcome
<1>7. CASE s.outcome = "none" /\ Creates(s, t)
  <2>1. /\ outcome[r] = "none" /\ ~created[r]
        /\ created' = [created EXCEPT ![r] = TRUE]
        /\ added' = added /\ done' = done /\ outcome' = outcome
    BY <1>1, <1>3, <1>4, <1>5, <1>7 DEF Creates, Streams
  <2>2. Client!Create(r)
    BY <2>1 DEF Client!Create, created, added, done, outcome
  <2> QED
    BY <2>2 DEF Client!Next
<1>8. CASE s.outcome = "none" /\ Adds(s, t)
  <2>1. /\ outcome[r] = "none" /\ created[r]
        /\ done' = [done EXCEPT ![r] = added[r]]
        /\ added' = [added EXCEPT ![r] = added[r] + 1]
        /\ created' = created /\ outcome' = outcome
    BY <1>1, <1>3, <1>4, <1>5, <1>8 DEF Adds, Streams
  <2>2. Client!AddItem(r)
    BY <2>1 DEF Client!AddItem, created, added, done, outcome
  <2> QED
    BY <2>2 DEF Client!Next
<1>9. CASE s.outcome = "none" /\ Finishes(s, t)
  <2>1. /\ outcome[r] = "none" /\ done[r] < added[r]
        /\ done' = [done EXCEPT ![r] = done[r] + 1]
        /\ created' = created /\ added' = added /\ outcome' = outcome
    BY <1>1, <1>3, <1>4, <1>5, <1>9 DEF Finishes, Streams
  <2>2. Client!ItemDone(r)
    BY <2>1 DEF Client!ItemDone, created, added, done, outcome
  <2> QED
    BY <2>2 DEF Client!Next
<1>10. CASE s.outcome = "none" /\ Completes(s, t)
  <2>1. /\ outcome[r] = "none" /\ created[r]
        /\ done' = [done EXCEPT ![r] = added[r]]
        /\ outcome' = [outcome EXCEPT ![r] = "completed"]
        /\ created' = created /\ added' = added
    BY <1>1, <1>3, <1>4, <1>5, <1>10 DEF Completes, Streams
  <2>2. Client!Complete(r)
    BY <2>1 DEF Client!Complete, created, added, done, outcome
  <2> QED
    BY <2>2 DEF Client!Next
<1>11. CASE s.outcome = "none" /\ FailsAt(s, t)
  <2>1. /\ outcome[r] = "none"
        /\ \E c \in {created[r], TRUE} : created' = [created EXCEPT ![r] = c]
        /\ \E n \in done[r] .. added[r] : done' = [done EXCEPT ![r] = n]
        /\ outcome' = [outcome EXCEPT ![r] = "failed"]
        /\ added' = added
    BY <1>1, <1>3, <1>4, <1>5, <1>11 DEF FailsAt, Streams
  <2>2. Client!Fail(r)
    BY <2>1 DEF Client!Fail, created, added, done, outcome
  <2> QED
    BY <2>2 DEF Client!Next
<1> QED
  BY <1>6, <1>7, <1>8, <1>9, <1>10, <1>11, <1>s, <1>t DEF ClientStep

(* Every step of the model path is one step of the protocol, or none.      *)
LEMMA StepRefines == IInv /\ [Next]_vars => [Client!Next]_(Client!vars)
<1> SUFFICES ASSUME IInv, [Next]_vars PROVE [Client!Next]_(Client!vars)
  OBVIOUS
<1>1. exchange \in [Requests -> Exchanges]
  BY DEF IInv, TypeInv
<1>2. ASSUME NEW r \in Requests, NEW y, exchange' = [exchange EXCEPT ![r] = y],
             ExchangeInv(y, provider), ClientStep(exchange[r].response, y.response)
      PROVE  [Client!Next]_(Client!vars)
  BY <1>1, <1>2, ExchangeType, ViewMoves
<1>3. ASSUME NEW r \in Requests, Changes(r) PROVE [Client!Next]_(Client!vars)
  BY <1>2, <1>3 DEF Changes, Evolves
<1>4. ASSUME NEW r \in Requests, TurnedAway(r) PROVE [Client!Next]_(Client!vars)
  BY <1>2, <1>4 DEF TurnedAway, Turned
<1>5. ASSUME NEW r \in Requests, TakenIn(r) PROVE [Client!Next]_(Client!vars)
  BY <1>2, <1>5 DEF TakenIn, Admits, ExchangeInv
<1>6. CASE StopService
  <2>1. \A q \in Requests : Same(exchange[q].response, exchange'[q].response)
    BY <1>6, StopServiceEnds DEF Same
  <2> QED
    BY <2>1, ViewUnchanged
<1>7. CASE UNCHANGED vars
  <2>1. \A q \in Requests : Same(exchange[q].response, exchange'[q].response)
    BY <1>7 DEF vars, Same
  <2> QED
    BY <2>1, ViewUnchanged
<1> QED
  BY <1>3, <1>4, <1>5, <1>6, <1>7, StepForms

LEMMA InitRefines == Init => Client!Init
<1> SUFFICES ASSUME Init PROVE Client!Init
  OBVIOUS
<1>1. \A q \in Requests : exchange[q].response = NewStream
  BY DEF Init, NoExchange
<1>2. \A q \in Requests :
        /\ exchange[q].response.started = FALSE /\ exchange[q].response.added = 0
        /\ exchange[q].response.done = 0 /\ exchange[q].response.outcome = "none"
  BY <1>1 DEF NewStream
<1> QED
  BY <1>2 DEF Client!Init

(* Under every order of provider events, refused frames, disconnections    *)
(* and stops, each stream keeps what the Responses protocol promises.      *)
THEOREM ProtocolIsKept == Spec => KeepsProtocol
<1>1. Init => Client!Init
  BY InitRefines
<1>2. IInv /\ [Next]_vars => [Client!Next]_(Client!vars)
  BY StepRefines
<1> QED
  BY <1>1, <1>2, Invariance, PTL DEF Spec, KeepsProtocol, Client!Spec
=============================================================================
