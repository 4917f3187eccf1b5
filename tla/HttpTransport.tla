----------------------------- MODULE HttpTransport -----------------------------
(***************************************************************************)
(* One POST of the HTTP streaming client (ai/http): the State that the     *)
(* operation, the connection's context and the response parser share, the  *)
(* framing of the response, and the receiver, which may cancel the         *)
(* operation from inside every callback.                                   *)
(*                                                                         *)
(* A step is one callback of the connection, or a call of the owner.  The  *)
(* sockets, TLS and the decoding of chunks belong to SNode.C; the content  *)
(* of the response is reduced to what its headers say of its framing, and  *)
(* to the number of its bytes.                                             *)
(***************************************************************************)
EXTENDS Naturals

CONSTANT MaximumResponseBytes
ASSUME HttpAssumption == MaximumResponseBytes \in Nat \ {0}

(* "done" is State::done, after which the receiver is empty.  "context" is *)
(* the connection: "dialing", "made" until it has connected, "none" when   *)
(* it is gone, "closing" that it was told to close, "stopped" that its     *)
(* flow was.  "parser" expects the header, the body, or nothing more;      *)
(* "framing" is how the body ends and "remaining" what a length leaves.    *)
(* The rest observes: what the receiver was told, whether it was told the  *)
(* end or has cancelled, whether all of the body has come, and whether a   *)
(* request was sent that nobody waited for, or to a peer that is not the   *)
(* one its certificate names.                                              *)
VARIABLE post
Posts ==
  [tls : BOOLEAN, done : BOOLEAN,
   context : {"none", "dialing", "made", "connected"},
   closing : BOOLEAN, stopped : BOOLEAN,
   parser : {"header", "body", "over"},
   framing : {"unknown", "length", "chunked", "close"},
   remaining : Nat, received : 0 .. MaximumResponseBytes,
   headers : BOOLEAN, bytes : Nat,
   outcome : {"none", "completed", "error", "cancelled"},
   whole : BOOLEAN, misled : BOOLEAN, late : BOOLEAN]
NewPost(tls) ==
  [tls |-> tls, done |-> FALSE, context |-> "none", closing |-> FALSE,
   stopped |-> FALSE, parser |-> "header", framing |-> "unknown", remaining |-> 0,
   received |-> 0, headers |-> FALSE, bytes |-> 0, outcome |-> "none",
   whole |-> FALSE, misled |-> FALSE, late |-> FALSE]

-----------------------------------------------------------------------------
(* State *)

ClosePost(p) == [p EXCEPT !.closing = @ \/ p.context \in {"made", "connected"}]

(* The receiver is emptied before its last callback is called.             *)
EndPost(p, how) ==
  IF p.done THEN p
  ELSE ClosePost([p EXCEPT !.done = TRUE, !.outcome = how,
                                 !.late = @ \/ p.outcome # "none"])
FailPost_Again(p) ==
  ClosePost([p EXCEPT !.done = TRUE, !.outcome = "error",
                            !.late = @ \/ p.outcome # "none"])
FailPost(p) == EndPost(p, "error")
CompletePost(p) == EndPost(p, "completed")

CancelPost_KeepsConnection(p) ==
  [p EXCEPT !.done = TRUE, !.outcome = IF @ = "none" THEN "cancelled" ELSE @]
CancelPost(p) ==
  [ClosePost([p EXCEPT !.done = TRUE,
                             !.outcome = IF @ = "none" THEN "cancelled" ELSE @])
     EXCEPT !.stopped = TRUE]

(* A callback after which the receiver goes on, or has cancelled.          *)
Reactions(p) == {p, CancelPost(p)}

ReceiveData_Unlimited(p, n) ==
  IF p.done THEN {p}
  ELSE Reactions([p EXCEPT !.received = n, !.bytes = @ + n,
                           !.late = @ \/ p.outcome # "none"])
ReceiveData(p, n) ==
  IF p.done THEN {p}
  ELSE IF n > MaximumResponseBytes - p.received THEN {FailPost(p)}
  ELSE IF n = 0 THEN {p}
  ELSE Reactions([p EXCEPT !.received = @ + n, !.bytes = @ + n,
                           !.late = @ \/ p.outcome # "none"])

-----------------------------------------------------------------------------
(* ResponseParser *)

ParseError(p) == FailPost([p EXCEPT !.parser = "over"])
ParsingFinished(p) == CompletePost([p EXCEPT !.parser = "over"])

(* The headers callback comes before the length is looked at.              *)
TellHeaders(p, framing) ==
  Reactions([p EXCEPT !.framing = framing, !.headers = TRUE])
AnalyzeHeader(p, framing, length) ==
  LET Body(q) ==
        IF q.done THEN [q EXCEPT !.parser = "over"]
        ELSE IF framing # "length" THEN [q EXCEPT !.parser = "body"]
        ELSE IF length > MaximumResponseBytes THEN ParseError(q)
        ELSE IF length = 0 THEN ParsingFinished([q EXCEPT !.whole = TRUE])
        ELSE [q EXCEPT !.parser = "body", !.remaining = length]
  IN {Body(q) : q \in TellHeaders(p, framing)}
       \cup {ParseError(q) : q \in TellHeaders(p, framing)}

(* A read of the body: of a length never more than remains; a chunked body *)
(* says itself which is its last.  The data is told before the end.        *)
Takes(p, n, last) ==
  [p EXCEPT !.remaining = IF p.framing = "length" THEN @ - n ELSE @,
            !.whole = IF p.framing = "length" THEN n = p.remaining
                      ELSE p.framing = "chunked" /\ last]
Complete_WithItsHeaders(p) == TRUE
Complete(p) ==
  \/ p.framing = "length" /\ p.remaining = 0
  \/ p.framing = "chunked" /\ p.whole
ReadBody(p, n, last) ==
  {IF Complete(q) THEN ParsingFinished(q) ELSE q :
     q \in ReceiveData(Takes(p, n, last), n)}

(* The connection has ended: that ends a body without length or chunks,    *)
(* and loses any other.                                                    *)
Disconnected_Completes(p) == CompletePost(p)
Disconnected(p) ==
  IF p.framing = "close" THEN CompletePost([p EXCEPT !.whole = p.headers])
  ELSE FailPost(p)

-----------------------------------------------------------------------------
(* Context and Operation *)

(* A read error without a code is the end of the input.                    *)
FailsToRead(p) == {FailPost(p), Disconnected(p)}

(* The certificate is checked before the context is told that it has       *)
(* connected; it sends the request with its credentials unless done.       *)
SendRequest_Always(p, verified) ==
  [p EXCEPT !.misled = @ \/ p.done \/ ~verified]
SendRequest(p, verified) ==
  IF p.done THEN ClosePost(p)
  ELSE [p EXCEPT !.misled = @ \/ ~verified]
ContextConnects(p, verified) ==
  LET q == [p EXCEPT !.context = "connected"]
  IN SendRequest(IF verified THEN q ELSE FailPost(q), verified)

-----------------------------------------------------------------------------
PostBecomes(results) == \E p \in results : post' = p
HttpInit == \E tls \in BOOLEAN : post = NewPost(tls)

(* The request is refused, or a flow begins to connect.                    *)
PostRequest ==
  /\ post.context = "none" /\ ~post.done /\ ~post.stopped
  /\ PostBecomes({FailPost(post), [post EXCEPT !.context = "dialing"]})
DialFails ==
  /\ post.context = "dialing"
  /\ PostBecomes({FailPost([post EXCEPT !.context = "none", !.stopped = TRUE])})
MakeContext ==
  /\ post.context = "dialing"
  /\ PostBecomes({[post EXCEPT !.context = "made"]})
ConnectContext ==
  /\ post.context = "made"
  /\ \E verified \in BOOLEAN :
       /\ verified \/ post.tls
       /\ PostBecomes({ContextConnects(post, verified)})

(* What is read when the request is done is dropped.                       *)
ReadResponse ==
  /\ post.context = "connected" /\ ~post.done
  /\ \/ PostBecomes({ParseError(post)})
     \/ /\ post.parser = "header"
        /\ \E framing \in {"length", "chunked", "close"},
              length \in 0 .. MaximumResponseBytes + 1 :
             PostBecomes(AnalyzeHeader(post, framing, length))
     \/ /\ post.parser = "body"
        /\ \E n \in 0 .. MaximumResponseBytes + 1, last \in BOOLEAN :
             /\ post.framing = "length" => n \in 1 .. post.remaining
             /\ PostBecomes(ReadBody(post, n, last))
TransportFails ==
  /\ post.context \in {"made", "connected"}
  /\ PostBecomes(FailsToRead(post))
PostDisconnects ==
  /\ post.context \in {"made", "connected"}
  /\ PostBecomes({FailPost(Disconnected(
                    [post EXCEPT !.context = "none", !.closing = FALSE,
                                 !.stopped = TRUE]))})
CancelRequest ==
  /\ post.context # "none"
  /\ PostBecomes({CancelPost(post)})

HttpNext ==
  \/ PostRequest
  \/ DialFails
  \/ MakeContext
  \/ ConnectContext
  \/ ReadResponse
  \/ TransportFails
  \/ PostDisconnects
  \/ CancelRequest
HttpSpec == HttpInit /\ [][HttpNext]_post

(* An attempt to connect succeeds or fails, a handshake ends, a connection *)
(* that is silent for 120 seconds fails, and one told to close closes.     *)
HttpFairness ==
  /\ WF_post(PostRequest) /\ WF_post(DialFails \/ MakeContext)
  /\ WF_post(ConnectContext)
  /\ WF_post(~post.done /\ TransportFails)
  /\ WF_post(post.closing /\ PostDisconnects)

-----------------------------------------------------------------------------
(* The type invariant.                                                     *)
HttpTypeOK == post \in Posts

(* The promise of StreamingClient.h, kept whatever the receiver does in a  *)
(* callback and however the connection ends.                               *)
Contract == INSTANCE TransportContract
  WITH headers <- post.headers, bytes <- post.bytes, outcome <- post.outcome
KeepsContract == Contract!Spec

(* A response is completed only when all of its body has come, the end is  *)
(* told once, and no request with its credentials goes to a peer that was  *)
(* not verified or on behalf of somebody who has cancelled.                *)
ResponsesAreWhole ==
  /\ post.outcome = "completed" => post.whole
  /\ ~post.late /\ ~post.misled
  /\ post.done <=> post.outcome # "none"

(* Every request ends, and leaves no connection behind.                    *)
RequestsEnd == <>[](post.outcome # "none" /\ post.context = "none")
=============================================================================
