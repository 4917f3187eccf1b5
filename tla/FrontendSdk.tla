------------------------------ MODULE FrontendSdk ------------------------------
(***************************************************************************)
(* One frontend of the bridge: the client SDK (frontend::CodexBridge), its *)
(* ClientConnection and the StreamSocketContexts that attach to it, and    *)
(* what the bridge at the other end of each connection sends it.           *)
(*                                                                         *)
(* The frontend runs on one event loop and so does the bridge: a step is   *)
(* one callback of either, or one call of the application.  Between them   *)
(* is, for each connection, a channel in each direction, which keeps the   *)
(* order of the frames and may break at any time.                          *)
(***************************************************************************)
EXTENDS Integers, FiniteSets, Sequences

CONSTANTS
  MaxContexts, MaxRequests,                      \* bounds of the exploration,
  MaxGenerations, MaxInFlight, MaxRestarts       \* the last two of the bridge

ASSUME SdkAssumption ==
  /\ MaxContexts \in Nat /\ MaxRequests \in Nat /\ MaxGenerations \in Nat
  /\ MaxInFlight \in Nat /\ MaxRestarts \in Nat

None == 0      \* no endpoint, no connection identity, no controller
Contexts == 1 .. MaxContexts
Names == 1 .. MaxContexts                        \* "frontend-1", ...
Requests == [connection : Names, number : 1 .. MaxRequests]
Providers == {"disconnected", "connected", "ready"}
Roles == {"none", "observer", "controller"}

VARIABLES
  \* StreamSocketContext, one for each transport connection:
  lifecycle,      \* "unborn", "created", "connected", "disconnected", "destroyed"
  attached, disconnecting,       \* the contexts whose flag is set
  closing,        \* the contexts whose socket has been told to close
  \* ClientConnection:
  endpoint, online, failureReported, shuttingDown,
  \* CodexBridge, the SDK:
  pending,        \* the requests whose handler is still to be called
  connectionId, controllerId, role, generation, ready, nextRequest,
  \* The other end:
  link,           \* context -> "none", "open" (registered) or "broken"
  name,           \* context -> the connection identity it was given
  uplink,         \* context -> the requests on their way to the bridge
  serving,        \* context -> the requests the bridge has forwarded
  downlink,       \* context -> the frames on their way to the frontend
  bridge,         \* [controller, provider, generation, next, restarts]
  \* An observation, which no action reads:
  calls           \* request number -> how often its handler was called

flags == <<lifecycle, attached, disconnecting, closing>>
connection == <<endpoint, online, failureReported, shuttingDown>>
sdk == <<pending, connectionId, controllerId, role, generation, ready>>
peer == <<link, name, serving, bridge>>
vars == <<flags, connection, sdk, nextRequest, peer, uplink, downlink, calls>>

Opened(n, r) == [kind |-> "opened", name |-> n, role |-> r]
Controller(n) == [kind |-> "controller", name |-> n]
Provider(s, g) == [kind |-> "provider", state |-> s, generation |-> g]
Response(r) == [kind |-> "response", request |-> r]

Init ==
  /\ lifecycle = [k \in Contexts |-> "unborn"]
  /\ attached = {} /\ disconnecting = {} /\ closing = {}
  /\ endpoint = None /\ online = FALSE
  /\ failureReported = FALSE /\ shuttingDown = FALSE
  /\ pending = {} /\ connectionId = None /\ controllerId = None
  /\ role = "none" /\ generation = 0 /\ ready = FALSE /\ nextRequest = 1
  /\ link = [k \in Contexts |-> "none"] /\ name = [k \in Contexts |-> None]
  /\ uplink = [k \in Contexts |-> <<>>] /\ downlink = [k \in Contexts |-> <<>>]
  /\ serving = [k \in Contexts |-> {}]
  /\ bridge = [controller |-> None, provider |-> "disconnected", generation |-> 0,
               next |-> 1, restarts |-> 0]
  /\ calls = [n \in 1 .. MaxRequests |-> 0]

-----------------------------------------------------------------------------
(* The SDK *)

(* Every handler is called with an error.  One that makes a new request in *)
(* turn sees it fail at once, as it would right after this step.           *)
FailPending ==
  /\ pending' = {}
  /\ calls' = [n \in 1 .. MaxRequests |->
                 IF \E r \in pending : r.number = n THEN calls[n] + 1 ELSE calls[n]]

TransportDisconnected_KeepsGeneration ==
  /\ FailPending
  /\ connectionId' = None /\ controllerId' = None /\ role' = "none"
  /\ ready' = FALSE
  /\ UNCHANGED generation
TransportDisconnected_KeepsPending ==
  /\ connectionId' = None /\ controllerId' = None /\ role' = "none"
  /\ generation' = 0 /\ ready' = FALSE
  /\ UNCHANGED <<pending, calls>>
TransportDisconnected ==
  /\ FailPending
  /\ connectionId' = None /\ controllerId' = None /\ role' = "none"
  /\ generation' = 0 /\ ready' = FALSE

ReceiveOpened(m) ==
  /\ connectionId' = m.name /\ role' = m.role
  /\ UNCHANGED <<pending, controllerId, generation, ready, calls>>

ReceiveController_KeepsRole(m) ==
  /\ controllerId' = m.name
  /\ UNCHANGED <<pending, connectionId, role, generation, ready, calls>>
ReceiveController(m) ==
  /\ controllerId' = m.name
  /\ role' = IF connectionId = None THEN role
             ELSE IF m.name = connectionId THEN "controller" ELSE "observer"
  /\ UNCHANGED <<pending, connectionId, generation, ready, calls>>

(* A state of an earlier generation is ignored; the end of a session, and  *)
(* a later session, retire what is outstanding.                            *)
SessionEnds(m) ==
  m.state = "disconnected" \/ (generation # 0 /\ m.generation > generation)
ReceiveProvider(m) ==
  IF m.generation < generation THEN UNCHANGED <<sdk, calls>>
  ELSE /\ generation' = m.generation
       /\ ready' = (m.state = "ready")
       /\ IF SessionEnds(m) THEN FailPending ELSE UNCHANGED <<pending, calls>>
       /\ UNCHANGED <<connectionId, controllerId, role>>

(* The response of a request that is not outstanding is dropped.           *)
ReceiveResponse_KeepsPending(m) ==
  /\ IF m.request \in pending
     THEN calls' = [calls EXCEPT ![m.request.number] = @ + 1] ELSE UNCHANGED calls
  /\ UNCHANGED sdk
ReceiveResponse(m) ==
  /\ IF m.request \in pending
     THEN calls' = [calls EXCEPT ![m.request.number] = @ + 1] ELSE UNCHANGED calls
  /\ pending' = pending \ {m.request}
  /\ UNCHANGED <<connectionId, controllerId, role, generation, ready>>

Receive(m) ==
  \/ m.kind = "opened" /\ ReceiveOpened(m)
  \/ m.kind = "controller" /\ ReceiveController(m)
  \/ m.kind = "provider" /\ ReceiveProvider(m)
  \/ m.kind = "response" /\ ReceiveResponse(m)

(* requestTyped: a request is registered before it is sent; it completes   *)
(* before the call returns when the session is not ready or the transport  *)
(* does not take it.                                                       *)
CanSend == endpoint # None /\ online /\ ~shuttingDown /\ endpoint \notin disconnecting
RequestTyped_Unchecked ==
  /\ nextRequest <= MaxRequests
  /\ nextRequest' = nextRequest + 1
  /\ LET request == [connection |-> connectionId, number |-> nextRequest] IN
     \/ /\ CanSend
        /\ pending' = pending \cup {request}
        /\ uplink' = [uplink EXCEPT ![endpoint] = Append(@, request)]
        /\ UNCHANGED calls
     \/ /\ calls' = [calls EXCEPT ![nextRequest] = @ + 1]
        /\ UNCHANGED <<pending, uplink>>
  /\ UNCHANGED <<flags, connection, connectionId, controllerId, role, generation,
                 ready, peer, downlink>>
RequestTyped ==
  /\ nextRequest <= MaxRequests
  /\ nextRequest' = nextRequest + 1
  /\ LET request == [connection |-> connectionId, number |-> nextRequest] IN
     \/ /\ connectionId # None /\ ready /\ CanSend
        /\ pending' = pending \cup {request}
        /\ uplink' = [uplink EXCEPT ![endpoint] = Append(@, request)]
        /\ UNCHANGED calls
     \/ /\ calls' = [calls EXCEPT ![nextRequest] = @ + 1]
        /\ UNCHANGED <<pending, uplink>>
  /\ UNCHANGED <<flags, connection, connectionId, controllerId, role, generation,
                 ready, peer, downlink>>

-----------------------------------------------------------------------------
(* The contexts and the ClientConnection *)

(* A context that is disconnecting sends nothing and drops what it reads:  *)
(* its channels are emptied at once, and nothing is put into them.         *)
Discard(k) ==
  /\ uplink' = [uplink EXCEPT ![k] = <<>>]
  /\ downlink' = [downlink EXCEPT ![k] = <<>>]

Close(k) ==
  /\ Discard(k)
  /\ disconnecting' = disconnecting \cup {k}
  /\ closing' = IF k \in disconnecting THEN closing ELSE closing \cup {k}
  /\ UNCHANGED <<lifecycle, attached>>

(* The constructor attaches the context, unless another one is active.     *)
CreateContext(k) ==
  /\ lifecycle[k] = "unborn"
  /\ lifecycle' = [lifecycle EXCEPT ![k] = "created"]
  /\ IF shuttingDown \/ endpoint # None
     THEN disconnecting' = disconnecting \cup {k} /\ UNCHANGED <<attached, connection>>
     ELSE /\ attached' = attached \cup {k} /\ endpoint' = k /\ failureReported' = FALSE
          /\ UNCHANGED <<disconnecting, online, shuttingDown>>
  /\ UNCHANGED <<closing, sdk, nextRequest, peer, uplink, downlink, calls>>

ContextConnected(k) ==
  /\ lifecycle[k] = "created"
  /\ lifecycle' = [lifecycle EXCEPT ![k] = "connected"]
  /\ online' = (online \/ (k \in attached /\ endpoint = k /\ ~shuttingDown))
  \* A context that is not attached is told to close, by the operation above.
  /\ disconnecting' = IF k \in attached THEN disconnecting ELSE disconnecting \cup {k}
  /\ closing' = IF k \in attached \/ k \in disconnecting THEN closing
                ELSE closing \cup {k}
  /\ UNCHANGED <<attached, endpoint, failureReported, shuttingDown, sdk, nextRequest,
                 peer, uplink, downlink, calls>>

Receives(k) == k \notin disconnecting /\ endpoint = k /\ online /\ ~shuttingDown
ReceiveFrame(k) ==
  /\ lifecycle[k] = "connected" /\ downlink[k] # <<>>
  /\ downlink' = [downlink EXCEPT ![k] = Tail(@)]
  /\ IF Receives(k) THEN Receive(Head(downlink[k])) ELSE UNCHANGED <<sdk, calls>>
  /\ UNCHANGED <<flags, connection, nextRequest, peer, uplink>>

(* A frame that the framer or the SDK rejects.                             *)
ReceiveBadFrame(k) ==
  /\ lifecycle[k] = "connected" /\ k \notin disconnecting
  /\ failureReported' = (failureReported \/ endpoint = k)
  /\ Close(k)
  /\ UNCHANGED <<endpoint, online, shuttingDown, sdk, nextRequest, peer, calls>>

Detach_Unchecked(k) ==
  /\ attached' = attached \ {k}
  /\ endpoint' = None /\ online' = FALSE /\ failureReported' = FALSE
  /\ TransportDisconnected
Detach(k) ==
  /\ attached' = attached \ {k}
  /\ IF k \in attached /\ endpoint = k
     THEN /\ endpoint' = None /\ online' = FALSE /\ failureReported' = FALSE
          /\ TransportDisconnected
     ELSE UNCHANGED <<endpoint, online, failureReported, sdk, calls>>

ContextDisconnected(k) ==
  /\ lifecycle[k] = "connected"
  /\ lifecycle' = [lifecycle EXCEPT ![k] = "disconnected"]
  /\ disconnecting' = disconnecting \cup {k}
  /\ Discard(k)
  /\ Detach(k)
  /\ UNCHANGED <<closing, shuttingDown, nextRequest, peer>>

(* Also of a context that never connected (a failed TLS handshake).        *)
ContextDestroyed(k) ==
  /\ lifecycle[k] \in {"created", "disconnected"}
  /\ lifecycle' = [lifecycle EXCEPT ![k] = "destroyed"]
  /\ Discard(k)
  /\ Detach(k)
  /\ UNCHANGED <<disconnecting, closing, shuttingDown, nextRequest, peer>>

(* The application's "reconnect".                                          *)
Disconnect ==
  /\ ~shuttingDown /\ endpoint # None
  /\ Close(endpoint)
  /\ UNCHANGED <<connection, sdk, nextRequest, peer, calls>>

Shutdown_ForgetsToClose ==
  /\ ~shuttingDown
  /\ shuttingDown' = TRUE
  /\ UNCHANGED <<flags, endpoint, online, failureReported, sdk, calls, nextRequest, peer,
                 uplink, downlink>>
Shutdown ==
  /\ ~shuttingDown
  /\ shuttingDown' = TRUE
  /\ IF endpoint # None
     THEN Close(endpoint) /\ UNCHANGED <<sdk, calls>>
     ELSE TransportDisconnected /\ UNCHANGED <<flags, uplink, downlink>>
  /\ UNCHANGED <<endpoint, online, failureReported, nextRequest, peer>>

-----------------------------------------------------------------------------
(* The bridge, as it is seen from the connections of this frontend *)

Open == {k \in Contexts : link[k] = "open"}
Alive(k) == lifecycle[k] \in {"created", "connected"}
Listening == {k \in Open : Alive(k) /\ k \notin disconnecting}
Frontend == <<flags, connection, sdk, nextRequest, calls>>
Roomy == \A k \in Listening : Len(downlink[k]) < MaxInFlight

Broadcast(to, m) ==
  downlink' = [k \in Contexts |-> IF k \in to \cap Listening
                                  THEN Append(downlink[k], m) ELSE downlink[k]]

PeerRegisters(k) ==
  /\ link[k] = "none" /\ Alive(k) /\ bridge.next <= MaxContexts /\ Roomy
  /\ \E becomesController \in {FALSE, bridge.controller = None} :
       LET n == bridge.next
           controller == IF becomesController THEN n ELSE bridge.controller
       IN
       /\ bridge' = [bridge EXCEPT !.controller = controller, !.next = n + 1]
       /\ name' = [name EXCEPT ![k] = n]
       /\ downlink' = [j \in Contexts |->
            IF j = k /\ k \notin disconnecting
            THEN <<Opened(n, IF becomesController THEN "controller" ELSE "observer"),
                   Provider(bridge.provider, bridge.generation), Controller(controller)>>
            ELSE IF j \in Listening THEN Append(downlink[j], Controller(controller))
            ELSE downlink[j]]
  /\ link' = [link EXCEPT ![k] = "open"]
  /\ UNCHANGED <<Frontend, serving, uplink>>

(* The connection is lost or closed by either side: nothing more is read   *)
(* from it, but what was written may still arrive.                         *)
PeerUnregisters(k) ==
  /\ k \in Open /\ Roomy
  /\ link' = [link EXCEPT ![k] = "broken"]
  /\ uplink' = [uplink EXCEPT ![k] = <<>>]
  /\ serving' = [serving EXCEPT ![k] = {}]
  /\ IF bridge.controller = name[k]
     THEN /\ bridge' = [bridge EXCEPT !.controller = None]
          /\ Broadcast(Open \ {k}, Controller(None))
     ELSE UNCHANGED <<bridge, downlink>>
  /\ UNCHANGED <<Frontend, name>>

(* Any frontend claims, releases or transfers control.  A claim of the     *)
(* controller itself repeats what is known.                                *)
PeerSetsController(n) ==
  /\ Roomy
  /\ n \in {None} \cup {name[k] : k \in Open} /\ n # bridge.controller
  /\ bridge' = [bridge EXCEPT !.controller = n]
  /\ Broadcast(Open, Controller(n))
  /\ UNCHANGED <<Frontend, link, name, serving, uplink>>

PeerConnects ==
  /\ Roomy /\ bridge.provider = "disconnected" /\ bridge.generation < MaxGenerations
  /\ bridge' = [bridge EXCEPT !.provider = "connected", !.generation = @ + 1]
  /\ Broadcast(Open, Provider("connected", bridge'.generation))
  /\ UNCHANGED <<Frontend, link, name, serving, uplink>>
PeerReady ==
  /\ Roomy /\ bridge.provider = "connected"
  /\ bridge' = [bridge EXCEPT !.provider = "ready"]
  /\ Broadcast(Open, Provider("ready", bridge.generation))
  /\ UNCHANGED <<Frontend, link, name, serving, uplink>>

(* The requests the bridge has forwarded fail first, in any order.         *)
Orders(S) == {s \in UNION {[1 .. n -> S] : n \in 0 .. MaxRequests} :
                \A r \in S : \E i \in DOMAIN s : s[i] = r /\ \A j \in DOMAIN s \ {i} : s[j] # r}
Failures(s) == [i \in DOMAIN s |-> Response(s[i])]
PeerDisconnects_Silently ==
  /\ Roomy /\ bridge.provider # "disconnected"
  /\ bridge' = [bridge EXCEPT !.provider = "disconnected"]
  /\ \E order \in [Contexts -> UNION {Orders(serving[k]) : k \in Contexts}] :
       /\ \A k \in Contexts : order[k] \in Orders(serving[k])
       /\ downlink' = [k \in Contexts |->
            IF k \in Listening THEN downlink[k] \o Failures(order[k]) ELSE downlink[k]]
  /\ serving' = [k \in Contexts |-> {}]
  /\ UNCHANGED <<Frontend, link, name, uplink>>
PeerDisconnects_LosesRequests ==
  /\ Roomy /\ bridge.provider # "disconnected"
  /\ bridge' = [bridge EXCEPT !.provider = "disconnected"]
  /\ Broadcast(Open, Provider("disconnected", bridge.generation))
  /\ serving' = [k \in Contexts |-> {}]
  /\ UNCHANGED <<Frontend, link, name, uplink>>
PeerDisconnects ==
  /\ Roomy /\ bridge.provider # "disconnected"
  /\ bridge' = [bridge EXCEPT !.provider = "disconnected"]
  /\ \E order \in [Contexts -> UNION {Orders(serving[k]) : k \in Contexts}] :
       /\ \A k \in Contexts : order[k] \in Orders(serving[k])
       /\ downlink' = [k \in Contexts |->
            IF k \in Listening
            THEN downlink[k] \o Append(Failures(order[k]),
                                       Provider("disconnected", bridge.generation))
            ELSE downlink[k]]
  /\ serving' = [k \in Contexts |-> {}]
  /\ UNCHANGED <<Frontend, link, name, uplink>>

(* A request is forwarded, or rejected at once.                            *)
PeerReceives(k) ==
  /\ k \in Open /\ uplink[k] # <<>>
  /\ uplink' = [uplink EXCEPT ![k] = Tail(@)]
  /\ LET r == Head(uplink[k]) IN
     \/ /\ bridge.provider = "ready"
        /\ serving' = [serving EXCEPT ![k] = @ \cup {r}]
        /\ UNCHANGED downlink
     \/ /\ Broadcast({k}, Response(r))
        /\ UNCHANGED serving
  /\ UNCHANGED <<Frontend, link, name, bridge>>

PeerAnswers(k) ==
  /\ k \in Open
  /\ \E r \in serving[k] :
       /\ serving' = [serving EXCEPT ![k] = @ \ {r}]
       /\ Broadcast({k}, Response(r))
  /\ UNCHANGED <<Frontend, link, name, bridge, uplink>>

(* The bridge keeps nothing: it starts again with its first identity and   *)
(* its first generation.                                                   *)
PeerRestarts ==
  /\ bridge.restarts < MaxRestarts
  /\ bridge' = [controller |-> None, provider |-> "disconnected", generation |-> 0,
                next |-> 1, restarts |-> bridge.restarts + 1]
  /\ link' = [k \in Contexts |-> IF link[k] = "open" THEN "broken" ELSE link[k]]
  /\ uplink' = [k \in Contexts |-> <<>>]
  /\ serving' = [k \in Contexts |-> {}]
  /\ UNCHANGED <<Frontend, name, downlink>>

-----------------------------------------------------------------------------
FrontendActs ==
  \/ \E k \in Contexts :
       \/ CreateContext(k)
       \/ ContextConnected(k)
       \/ ReceiveFrame(k)
       \/ ReceiveBadFrame(k)
       \/ ContextDisconnected(k)
       \/ ContextDestroyed(k)
  \/ RequestTyped
  \/ Disconnect
  \/ Shutdown

PeerActs ==
  \/ \E k \in Contexts :
       \/ PeerRegisters(k)
       \/ PeerUnregisters(k)
       \/ PeerReceives(k)
       \/ PeerAnswers(k)
  \/ \E n \in {None} \cup Names : PeerSetsController(n)
  \/ PeerConnects
  \/ PeerReady
  \/ PeerDisconnects
  \/ PeerRestarts

Next == FrontendActs \/ PeerActs
Spec == Init /\ [][Next]_vars

(* Frames arrive, a connection that is closed by one end is reported to    *)
(* the other, and the bridge answers (what Bridge shows that it does).     *)
Fairness ==
  \A k \in Contexts :
    /\ WF_vars(ReceiveFrame(k))
    /\ WF_vars((k \in closing \/ link[k] = "broken") /\ ContextDisconnected(k))
    /\ WF_vars(k \in closing /\ ContextDestroyed(k))
    /\ WF_vars(PeerReceives(k)) /\ WF_vars(PeerAnswers(k))
FairSpec == Spec /\ Fairness

-----------------------------------------------------------------------------
Frames == [kind : {"opened"}, name : Names, role : Roles]
     \cup [kind : {"controller"}, name : {None} \cup Names]
     \cup [kind : {"provider"}, state : Providers, generation : Nat]
     \cup [kind : {"response"}, request : Requests]

(* The type invariant.                                                     *)
TypeOK ==
  /\ lifecycle \in [Contexts -> {"unborn", "created", "connected", "disconnected",
                                 "destroyed"}]
  /\ attached \subseteq Contexts
  /\ closing \subseteq disconnecting /\ disconnecting \subseteq Contexts
  /\ endpoint \in Contexts \cup {None}
  /\ online \in BOOLEAN /\ failureReported \in BOOLEAN /\ shuttingDown \in BOOLEAN
  /\ pending \subseteq Requests
  /\ connectionId \in Names \cup {None}
  /\ controllerId \in {None} \cup Names
  /\ role \in Roles /\ generation \in Nat /\ ready \in BOOLEAN
  /\ nextRequest \in Nat \ {0}
  /\ link \in [Contexts -> {"none", "open", "broken"}]
  /\ name \in [Contexts -> Names \cup {None}]
  /\ uplink \in [Contexts -> Seq(Requests)]
  /\ serving \in [Contexts -> SUBSET Requests]
  /\ downlink \in [Contexts -> Seq(Frames)]
  /\ bridge \in [controller : {None} \cup Names, provider : Providers,
                 generation : Nat, next : Nat \ {0}, restarts : Nat]
  /\ calls \in [1 .. MaxRequests -> Nat]

(* The handler of every request is called exactly once: by its response,   *)
(* its rejection, the end of the provider's session or of the connection,  *)
(* whichever comes first, and by none of those that come later.            *)
CallbacksOnce ==
  \A n \in 1 .. MaxRequests :
    calls[n] = IF n < nextRequest /\ ~\E r \in pending : r.number = n THEN 1 ELSE 0

(* One context is active, and what the SDK knows belongs to its connection:*)
(* nothing of a connection that has ended is left for its successor.       *)
StateOfTheConnection ==
  /\ attached = {endpoint} \ {None}
  /\ endpoint # None => Alive(endpoint)
  /\ online => endpoint # None
  /\ ~online => /\ pending = {} /\ connectionId = None /\ role = "none"
                /\ generation = 0 /\ ~ready
  /\ connectionId # None => connectionId = name[endpoint]
  /\ \A r \in pending : r.connection = connectionId

(* Once every frame has arrived, the SDK knows its role, the controller and*)
(* the provider as the bridge has them, after restarts of the bridge too,  *)
(* whose generations start again.                                          *)
TelemetryAgrees ==
  \A k \in Open : Receives(k) /\ downlink[k] = <<>> =>
    /\ connectionId = name[k] /\ controllerId = bridge.controller
    /\ role = IF bridge.controller = name[k] THEN "controller" ELSE "observer"
    /\ generation = bridge.generation /\ ready = (bridge.provider = "ready")

(* The answer of a request that is outstanding on a connection that stands *)
(* is to come, exactly once: the request is on its way, forwarded by the   *)
(* bridge, or its response is on its way back.                             *)
Occurrences(s, x) == Cardinality({i \in DOMAIN s : s[i] = x})
PendingIsAnswered ==
  \A k \in Open, r \in pending : Receives(k) =>
    Occurrences(uplink[k], r) + Occurrences(downlink[k], Response(r))
      + (IF r \in serving[k] THEN 1 ELSE 0) = 1

(* The bridge announces the end of a session before the next: when a later *)
(* generation arrives, nothing is outstanding from the one before.  A      *)
(* handler that makes a request in turn would send it to the old session.  *)
GenerationsEndFirst ==
  \A k \in Contexts : Receives(k) /\ downlink[k] # <<>> =>
    LET m == Head(downlink[k]) IN
    m.kind = "provider" /\ m.generation > generation /\ generation # 0 => pending = {}

(* Every request that is outstanding is accounted for, at the bridge, on   *)
(* its way, or by a session that has not ended.                            *)
PendingIsAccountedFor == PendingIsAnswered /\ GenerationsEndFirst

(* Whatever happens to another context, the active one and the SDK do not  *)
(* notice.                                                                 *)
OtherContextsAreQuiet ==
  [][\A k \in Contexts : k # endpoint /\ endpoint # None =>
       /\ lifecycle'[k] # lifecycle[k] => UNCHANGED <<connection, sdk>>
       /\ ReceiveFrame(k) => UNCHANGED sdk]_vars

(* A context that was refused because another one is active is told to     *)
(* close when it connects.                                                 *)
RefusedContextsClose ==
  \A k \in Contexts : lifecycle[k] = "connected" /\ k \notin attached => k \in closing

(* A handler is called in the end, unless the connection stands still.     *)
RequestsComplete ==
  \A n \in 1 .. MaxRequests :
    (\E r \in pending : r.number = n) ~> ~\E r \in pending : r.number = n

(* After shutdown nothing stays attached, and no handler waits.            *)
ShutdownCompletes == shuttingDown ~> (endpoint = None /\ pending = {})

(* No caller waits for ever, neither for an answer nor after shutdown.     *)
CallersAreAnswered == RequestsComplete /\ ShutdownCompletes
=============================================================================
