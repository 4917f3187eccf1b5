------------------------------ MODULE ModelPath ------------------------------
(***************************************************************************)
(* The model path of codex-bridge: the HTTP service on which the owned     *)
(* Codex process asks for inferences (ResponsesService), each served by an *)
(* exchange, and the provider behind it, which is the Anthropic one or any *)
(* other implementation of ai/model/Provider.h.                            *)
(*                                                                         *)
(* A step is one event-loop callback: a request arrives, its connection    *)
(* ends, the provider's transport delivers something, the service stops.   *)
(***************************************************************************)
EXTENDS Exchange, FiniteSets

CONSTANTS
  Requests,          \* the requests Codex makes, each on its own connection
  MaximumSessions,   \* 16 in the code
  Providers,         \* the kinds of provider explored
  MaxItems           \* bound on the items of one response

ASSUME ModelPathAssumption ==
  /\ MaximumSessions \in Nat \ {0}
  /\ Providers \subseteq {"anthropic", "scripted"}
  /\ MaxItems \in Nat

VARIABLES
  provider,   \* the provider the service was constructed with
  serving,    \* the service has not been stopped: its provider_ is set
  sessions,   \* the requests in the service's vector of sessions
  exchange    \* request -> its exchange
vars == <<provider, serving, sessions, exchange>>

OpenRequests == {r \in Requests : exchange[r].open}
Active(r) == exchange[r].phase \in {"open", "closing"}

Init ==
  /\ provider \in Providers
  /\ serving = TRUE /\ sessions = {}
  /\ exchange = [r \in Requests |-> NoExchange]

-----------------------------------------------------------------------------
(* The service *)

Refuse(r, why) == exchange' = [exchange EXCEPT ![r].phase = why]

(* Wrong credential, target, method or type, or a stopped service.         *)
RefuseRequest(r) ==
  /\ exchange[r].phase = "absent"
  /\ Refuse(r, "refused")
  /\ UNCHANGED <<provider, serving, sessions>>

Start(x) == IF provider = "anthropic" THEN StartAnthropic(x)
            ELSE StartScripted(x, 0)

Prune_Never == sessions
(* The handler forgets the sessions that have closed whenever it counts.   *)
Prune == sessions \cap OpenRequests

HasRoom == Cardinality(Prune) < MaximumSessions

RefuseFull(r) ==
  /\ exchange[r].phase = "absent" /\ serving /\ ~HasRoom
  /\ sessions' = Prune
  /\ Refuse(r, "full")
  /\ UNCHANGED <<provider, serving>>
(* The profile does not accept the request.                                *)
RefuseInvalid(r) ==
  /\ exchange[r].phase = "absent" /\ serving /\ HasRoom
  /\ sessions' = Prune
  /\ Refuse(r, "refused")
  /\ UNCHANGED <<provider, serving>>

AcceptRequest(r) ==
  /\ exchange[r].phase = "absent" /\ serving /\ HasRoom
  /\ sessions' = Prune \cup {r}
  /\ \E x \in Start(NewExchange) : exchange' = [exchange EXCEPT ![r] = x]
  /\ UNCHANGED <<provider, serving>>

(* The response cannot be piped: the session stops before it starts.       *)
PipeFails(r) ==
  /\ exchange[r].phase = "absent" /\ serving /\ HasRoom
  /\ sessions' = Prune \cup {r}
  /\ exchange' = [exchange EXCEPT ![r] =
                    [StopSession(NewExchange) EXCEPT !.phase = "closing"]]
  /\ UNCHANGED <<provider, serving>>

Disconnect(r) ==
  /\ Active(r)
  /\ exchange' = [exchange EXCEPT ![r] = [StopSession(@) EXCEPT !.phase = "closed"]]
  /\ UNCHANGED <<provider, serving, sessions>>

StopService ==
  /\ serving
  /\ serving' = FALSE /\ sessions' = {}
  /\ exchange' = [r \in Requests |->
                    IF r \in sessions /\ Active(r) THEN StopSession(exchange[r])
                    ELSE exchange[r]]
  /\ UNCHANGED provider

-----------------------------------------------------------------------------
(* The provider *)

Becomes(r, results) ==
  /\ \E x \in results :
       /\ x.response.added <= MaxItems
       /\ exchange' = [exchange EXCEPT ![r] = x]
  /\ UNCHANGED <<provider, serving, sessions>>

ReceiveHeaders(r) ==
  /\ exchange[r].http = "headers"
  /\ \E kind \in {"stream", "plain"}, isEvents \in BOOLEAN :
       Becomes(r, Headers(exchange[r], kind, isEvents))
ReceiveEvent(r) ==
  /\ exchange[r].http = "stream"
  /\ Becomes(r, WireEvents(exchange[r], MaxItems))
ReceiveErrorBody(r) ==
  /\ exchange[r].http = "plain"
  /\ Becomes(r, ErrorBodyOverflows(exchange[r]))
TransportEnd(r) ==
  /\ exchange[r].http \in OnTheWire
  /\ Becomes(r, TransportEnds(exchange[r]))

(* Another provider may deliver what it likes, also when it should not.    *)
ScriptedEvent(r) ==
  /\ provider = "scripted" /\ exchange[r].upstream # "none"
  /\ Becomes(r, UNION {Deliveries(exchange[r], t) :
                       t \in Received(exchange[r].response, MaxItems)})

-----------------------------------------------------------------------------
ServiceActs ==
  \/ \E r \in Requests : \/ RefuseRequest(r)
                         \/ RefuseFull(r)
                         \/ RefuseInvalid(r)
                         \/ AcceptRequest(r)
                         \/ PipeFails(r)
                         \/ Disconnect(r)
  \/ StopService
ProviderActs ==
  \E r \in Requests : \/ ReceiveHeaders(r)
                      \/ ReceiveEvent(r)
                      \/ ReceiveErrorBody(r)
                      \/ TransportEnd(r)
                      \/ ScriptedEvent(r)
Next == ServiceActs \/ ProviderActs

Spec == Init /\ [][Next]_vars

(* A connection that was told to close closes.  The transport ends: it     *)
(* gives up 120 seconds after the last byte, and after 64 MiB.  Any other  *)
(* provider completes, as its interface promises.                          *)
CloseCompletes(r) == exchange[r].phase = "closing" /\ Disconnect(r)
ScriptCompletes(r) ==
  /\ provider = "scripted" /\ exchange[r].upstream = "active"
  /\ Becomes(r, Deliveries(exchange[r], Fail(exchange[r].response)))
Fairness ==
  \A r \in Requests : /\ WF_vars(CloseCompletes(r))
                      /\ WF_vars(TransportEnd(r))
                      /\ WF_vars(ScriptCompletes(r))
FairSpec == Spec /\ Fairness

-----------------------------------------------------------------------------
(* The type invariant.                                                     *)
TypeOK ==
  /\ provider \in Providers
  /\ serving \in BOOLEAN
  /\ sessions \subseteq Requests
  /\ exchange \in [Requests -> Exchanges]

(* An inference runs exactly as long as somebody waits for it: whichever   *)
(* side ends first, a disconnected or slow client, a refused frame, the    *)
(* last provider event, a failed start or the stop of the service, the     *)
(* operation and its transport are cancelled, and a session that is open   *)
(* has an operation that will end it, or is ending.                        *)
RunsWhileAwaited ==
  \A r \in Requests : LET x == exchange[r] IN
    /\ (x.upstream = "active") <=> (x.open /\ ~x.stopped)
    /\ x.open /\ x.stopped => x.phase = "closing"
    /\ x.http \in OnTheWire => x.upstream = "active"
    /\ provider = "anthropic" /\ x.upstream = "active" => x.http \in OnTheWire

(* The contract of Provider.h holds of the Anthropic provider: its         *)
(* receiver gets one Completed or Error, unless it was cancelled, and      *)
(* nothing afterwards, however the transport and the receiver interleave.  *)
OneLastCallback ==
  provider = "anthropic" =>
    \A r \in Requests : LET x == exchange[r] IN
      /\ x.callbacks # "late"
      /\ x.http = "done" \/ x.message.terminal => x.callbacks # "due"
      /\ x.callbacks = "due" => x.upstream # "cancelled"

(* A response is completed only when the model's message was: every block  *)
(* that was announced has been finished and told to the client, and it     *)
(* ends the turn unless calls are to be executed.                          *)
CompletedIsComplete ==
  \A r \in Requests : LET x == exchange[r] IN
    x.response.outcome = "completed" =>
      /\ x.response.done = x.response.added /\ x.response.added = x.response.output
      /\ provider = "anthropic" =>
           /\ x.message.block = NoBlock /\ x.message.next = x.response.done
           /\ x.message.calls = x.response.calls
           /\ (x.message.stop = "tool_use") <=> (x.message.calls # {})

(* Every inference that is open is in the service's vector, where stop()   *)
(* finds it; there are never more of them than the limit, and a request is *)
(* turned away as one too many only when there are as many: every way a    *)
(* session can end gives its place back.                                   *)
SessionsBounded ==
  /\ OpenRequests \subseteq sessions
  /\ Cardinality(OpenRequests) <= MaximumSessions
TurnedAwayWhenFull ==
  \A r \in Requests :
    exchange[r].phase = "absent" /\ exchange'[r].phase = "full" =>
      Cardinality(OpenRequests) = MaximumSessions
SessionLimit == [][SessionsBounded' /\ TurnedAwayWhenFull]_vars

(* Every stream keeps the promises of the Responses protocol, under every  *)
(* order of provider events, refused frames and cancellations.             *)
Client == INSTANCE ResponsesProtocol
  WITH created <- [r \in Requests |-> exchange[r].response.started],
       added   <- [r \in Requests |-> exchange[r].response.added],
       done    <- [r \in Requests |-> exchange[r].response.done],
       outcome <- [r \in Requests |-> exchange[r].response.outcome]
KeepsProtocol == Client!Spec

(* A session does not keep its place for ever.                             *)
SessionsEnd == \A r \in Requests : exchange[r].open ~> ~exchange[r].open
=============================================================================
