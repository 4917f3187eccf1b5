------------------------------- MODULE Bridge -------------------------------
(***************************************************************************)
(* The message router of codex-bridge: class CodexBridge of                *)
(* src/ai/openai/codex/bridge, together with the provider handshake that   *)
(* apps/codex-bridge/ProviderApplication runs as its lifecycle handler.    *)
(*                                                                         *)
(* The router runs on one event loop, so a step of this module is one      *)
(* complete event-loop callback: a frontend connects, sends or disconnects,*)
(* the app-server connects, sends or disconnects, or the embedding         *)
(* application calls the SDK.  What is left to the environment is the      *)
(* order of the callbacks, which of the frames a callback writes are       *)
(* refused by the endpoint they are written to, and what the messages say. *)
(***************************************************************************)
EXTENDS Integers, FiniteSets, Functions

CONSTANTS
  FrontendIds,      \* JSON-RPC ids the frontends give to their requests
  ServerIds,        \* JSON-RPC ids the app-server gives to its requests
  RawIds,           \* ids an embedding application gives to raw requests
  HandlerOutcomes,  \* what a local server-request handler may do when called
  MaximumFrontends, FirstFrontendBecomesController, ObserversMayRead,
                                                \* struct CodexBridgeOptions
  MaxConnections, MaxGenerations, MaxRequests, MaxLocalRequests
                                                \* bounds of the exploration

None == 0     \* the controller id when no frontend is controller
UpstreamIds == [origin : {"local", "remote"}, generation : Nat,
                connection : Nat, number : Nat]

ASSUME BridgeAssumption ==
  /\ RawIds \subseteq UpstreamIds
  /\ HandlerOutcomes \subseteq {"defer", "answer", "throw", "answerThenThrow"}
  /\ MaximumFrontends \in Nat
  /\ FirstFrontendBecomesController \in BOOLEAN
  /\ ObserversMayRead \in BOOLEAN
  /\ MaxConnections \in Nat
  /\ MaxGenerations \in Nat
  /\ MaxRequests \in Nat
  /\ MaxLocalRequests \in Nat

VARIABLES
  frontends,            \* connection -> [role, endpoint]
  controller,           \* the controller's connection, or None
  requestOwners,        \* upstream id -> [connection, id] of a forwarded request
  requestKeys,          \* <<connection, id>> -> upstream id
  localRequests,        \* id -> the handler waiting for the response
  serverRequestOwners,  \* server-request id -> [kind, connection]
  connected,            \* appServer_->isConnected()
  ready,                \* appServerReady_
  generation,           \* providerGeneration_
  nextConnection, nextRequest, nextLocal,       \* the id counters
  stopRequested,        \* core::SNodeC::stop() has been called
  \* Observations of the other side, which no action reads:
  heard,        \* connection -> the bridge state the frames told it last
  unanswered,   \* connection -> id -> requests received minus answers given
  pending       \* server-request id -> requests received minus answers given

registry == <<frontends, controller, nextConnection, heard>>
routing  == <<requestOwners, requestKeys, nextRequest, unanswered>>
local    == <<localRequests, nextLocal>>
serverRequests == <<serverRequestOwners, pending>>
session  == <<connected, ready, generation, stopRequested>>
vars == <<registry, routing, local, serverRequests, session>>

-----------------------------------------------------------------------------
(* The tables are hash maps.  Emplace keeps an entry that is there already. *)
Emplace(table, key, value) ==
  [k \in DOMAIN table \cup {key} |-> IF k \in DOMAIN table THEN table[k] ELSE value]
Erase(table, keys) == Restrict(table, DOMAIN table \ keys)

RemoteId(c, n) ==
  [origin |-> "remote", generation |-> generation, connection |-> c, number |-> n]
LocalId(g, n) ==
  [origin |-> "local", generation |-> g, connection |-> None, number |-> n]
OutstandingIds == DOMAIN requestOwners \cup DOMAIN localRequests

NextRequestNumber_IgnoresLocal(c, n) ==
  /\ n >= nextRequest
  /\ RemoteId(c, n) \notin DOMAIN requestOwners
  /\ \A m \in nextRequest .. n - 1 : RemoteId(c, m) \in DOMAIN requestOwners
NextRequestNumber_LowestFree(c, n) ==
  /\ RemoteId(c, n) \notin OutstandingIds
  /\ \A m \in 1 .. n - 1 : RemoteId(c, m) \in OutstandingIds

(* The do-while loops of the id generators: the first number from the      *)
(* counter on whose id is not outstanding.                                 *)
NextRequestNumber(c, n) ==
  /\ n >= nextRequest
  /\ RemoteId(c, n) \notin OutstandingIds
  /\ \A m \in nextRequest .. n - 1 : RemoteId(c, m) \in OutstandingIds
NextLocalNumber(g, n) ==
  /\ n >= nextLocal
  /\ LocalId(g, n) \notin OutstandingIds
  /\ \A m \in nextLocal .. n - 1 : LocalId(g, m) \in OutstandingIds

(* An endpoint is open until it is told to close; it stays registered, and *)
(* refuses every frame, until its transport reports the disconnection.     *)
OpenEndpoints == {c \in DOMAIN frontends : frontends[c].endpoint = "open"}

(* sendTo: an endpoint that refuses a frame is told to close.  "lost" is   *)
(* the set of endpoints that refuse a frame of the current callback.       *)
CloseLost(table, lost) ==
  [c \in DOMAIN table |->
     IF c \in lost THEN [table[c] EXCEPT !.endpoint = "closing"] ELSE table[c]]

ProviderState == IF ready THEN "ready"
                 ELSE IF connected THEN "connected" ELSE "disconnected"
BridgeState == [controller |-> controller, provider |-> ProviderState,
                generation |-> generation]

HearController_Silent(lost) == heard' = [c \in DOMAIN frontends' |-> heard[c]]

(* A broadcast of the bridge's telemetry reaches the open endpoints that   *)
(* do not refuse it.                                                       *)
HearController(lost) ==
  heard' = [c \in DOMAIN frontends' |->
              IF c \in OpenEndpoints \ lost
              THEN [heard[c] EXCEPT !.controller = controller'] ELSE heard[c]]
HearProvider(lost) ==
  heard' = [c \in DOMAIN frontends' |->
              IF c \in OpenEndpoints \ lost
              THEN [controller |-> heard[c].controller, provider |-> ProviderState',
                    generation |-> generation']
              ELSE heard[c]]

(* Frames that change nothing but the endpoints that refuse them: a        *)
(* diagnostic, a rejection, a notification fanned out.                     *)
Deliver(recipients) ==
  \E lost \in SUBSET (recipients \cap OpenEndpoints) :
    frontends' = CloseLost(frontends, lost)
Broadcast == Deliver(DOMAIN frontends)

-----------------------------------------------------------------------------
Init ==
  /\ frontends = <<>> /\ controller = None
  /\ requestOwners = <<>> /\ requestKeys = <<>>
  /\ localRequests = <<>> /\ serverRequestOwners = <<>>
  /\ connected = FALSE /\ ready = FALSE /\ generation = 0
  /\ nextConnection = 1 /\ nextRequest = 1 /\ nextLocal = 1
  /\ stopRequested = FALSE
  /\ heard = <<>> /\ unanswered = <<>>
  /\ pending = [s \in ServerIds |-> 0]

-----------------------------------------------------------------------------
(* Frontend connections *)

RegisterFrontend ==
  /\ nextConnection <= MaxConnections
  /\ Cardinality(DOMAIN frontends) < MaximumFrontends
  /\ LET c == nextConnection
         becomesController == FirstFrontendBecomesController /\ controller = None
         record == [role |-> IF becomesController THEN "controller" ELSE "observer",
                    endpoint |-> "open"]
     IN \E lost \in SUBSET (OpenEndpoints \cup {c}) :
          /\ frontends' = CloseLost(Emplace(frontends, c, record), lost)
          /\ controller' = IF becomesController THEN c ELSE controller
          /\ heard' = [d \in DOMAIN frontends' |->
                         IF d = c THEN [BridgeState EXCEPT !.controller = controller']
                         ELSE IF d \in OpenEndpoints \ lost
                         THEN [heard[d] EXCEPT !.controller = controller']
                         ELSE heard[d]]
          /\ unanswered' = Emplace(unanswered, c, [i \in FrontendIds |-> 0])
          /\ nextConnection' = c + 1
  /\ UNCHANGED <<requestOwners, requestKeys, nextRequest, local,
                 serverRequests, session>>

OwnedBy_OnlyController(c) ==
  {s \in DOMAIN serverRequestOwners :
     c = controller /\ serverRequestOwners[s] = [kind |-> "frontend", connection |-> c]}
OwnedBy(c) ==
  {s \in DOMAIN serverRequestOwners :
     serverRequestOwners[s] = [kind |-> "frontend", connection |-> c]}

UnregisterFrontend(c) ==
  /\ c \in DOMAIN frontends
  /\ serverRequestOwners' = Erase(serverRequestOwners, OwnedBy(c))
  /\ pending' = [s \in ServerIds |->
                   IF s \in OwnedBy(c) THEN pending[s] - 1 ELSE pending[s]]
  /\ requestOwners' = Erase(requestOwners,
       {k \in DOMAIN requestOwners : requestOwners[k].connection = c})
  /\ requestKeys' = Erase(requestKeys, {k \in DOMAIN requestKeys : k[1] = c})
  /\ unanswered' = Erase(unanswered, {c})
  /\ controller' = IF controller = c THEN None ELSE controller
  /\ \E lost \in SUBSET (IF controller = c THEN OpenEndpoints \ {c} ELSE {}) :
       /\ frontends' = CloseLost(Erase(frontends, {c}), lost)
       /\ IF controller = c THEN HearController(lost) ELSE heard' = Erase(heard, {c})
  /\ UNCHANGED <<nextConnection, nextRequest, local, session>>

(* The transport fails the connection by itself: a framing violation, an   *)
(* oversized frame, a failed dispatch.                                     *)
EndpointFails(c) ==
  /\ c \in OpenEndpoints
  /\ frontends' = CloseLost(frontends, {c})
  /\ UNCHANGED <<controller, nextConnection, heard, routing, local,
                 serverRequests, session>>

-----------------------------------------------------------------------------
(* Messages from a frontend.  The transports dispatch nothing once they    *)
(* are closing.                                                            *)

Reject(c) ==
  /\ Deliver({c})
  /\ UNCHANGED <<controller, nextConnection, heard, routing, local,
                 serverRequests, session>>

MayForward(c, method) ==
  \/ frontends[c].role = "controller"
  \/ ObserversMayRead /\ method = "read"
Admitted_NotReady(c, method) ==
  method # "handshake" /\ MayForward(c, method) /\ connected
Admitted(c, method) ==
  method # "handshake" /\ MayForward(c, method) /\ connected /\ ready

(* A request is answered at once when it is not admitted or not accepted   *)
(* by the app-server's transport; an admitted one gets an upstream id.     *)
ForwardRequest(c, id) ==
  \E n \in 1 .. MaxRequests :
    LET key == RemoteId(c, n) IN
    /\ NextRequestNumber(c, n)
    /\ nextRequest' = n + 1
    /\ \/ /\ requestOwners' = Emplace(requestOwners, key, [connection |-> c, id |-> id])
          /\ requestKeys' = Emplace(requestKeys, <<c, id>>, key)
          /\ unanswered' = [unanswered EXCEPT ![c][id] = @ + 1]
          /\ UNCHANGED frontends
       \/ /\ Deliver({c})
          /\ UNCHANGED <<requestOwners, requestKeys, unanswered>>
    /\ UNCHANGED <<controller, nextConnection, heard, local, serverRequests, session>>

ReceiveRequest_AllowsDuplicates(c, id, method) ==
  /\ c \in OpenEndpoints
  /\ IF Admitted(c, method) THEN ForwardRequest(c, id) ELSE Reject(c)
ReceiveRequest(c, id, method) ==
  /\ c \in OpenEndpoints
  /\ IF Admitted(c, method) /\ <<c, id>> \notin DOMAIN requestKeys
     THEN ForwardRequest(c, id) ELSE Reject(c)

(* Malformed messages, notifications, and the payloads that need no reply: *)
(* the router forwards or rejects them and keeps nothing.                  *)
ReceiveUntracked(c) == c \in OpenEndpoints /\ Reject(c)

(* A frontend answers a request of the app-server.  The ownership ends     *)
(* whether or not the transport takes the answer.                          *)
ReceiveServerResponse(c, s) ==
  /\ c \in OpenEndpoints
  /\ IF s \in OwnedBy(c)
     THEN /\ serverRequestOwners' = Erase(serverRequestOwners, {s})
          /\ pending' = [pending EXCEPT ![s] = @ - 1]
          /\ Deliver({c})
          /\ UNCHANGED <<controller, nextConnection, heard, routing, local, session>>
     ELSE Reject(c)

SetController_KeepsOldRole(new) ==
  /\ controller' = new
  /\ \E lost \in SUBSET OpenEndpoints :
       /\ frontends' = CloseLost([d \in DOMAIN frontends |->
            [frontends[d] EXCEPT !.role = IF d = new THEN "controller" ELSE @]], lost)
       /\ HearController(lost)
  /\ UNCHANGED <<nextConnection, routing, local, serverRequests, session>>
SetController_MovesRequests(new) ==
  /\ controller' = new
  /\ Broadcast /\ UNCHANGED heard
  /\ serverRequestOwners' = [s \in DOMAIN serverRequestOwners |->
       IF serverRequestOwners[s].connection = controller
       THEN [serverRequestOwners[s] EXCEPT !.connection = new] ELSE serverRequestOwners[s]]
  /\ UNCHANGED <<nextConnection, routing, local, pending, session>>
SetController(new) ==
  /\ controller' = new
  /\ \E lost \in SUBSET OpenEndpoints :
       /\ frontends' = CloseLost([d \in DOMAIN frontends |->
            [frontends[d] EXCEPT !.role = IF d = new THEN "controller"
                                          ELSE IF d = controller THEN "observer"
                                          ELSE @]], lost)
       /\ HearController(lost)
  /\ UNCHANGED <<nextConnection, routing, local, serverRequests, session>>

ClaimControl_Takes(c) ==
  /\ c \in OpenEndpoints
  /\ SetController(c)
ClaimControl(c) ==
  /\ c \in OpenEndpoints
  /\ IF controller \in {None, c} THEN SetController(c) ELSE Reject(c)
ReleaseControl(c) ==
  /\ c \in OpenEndpoints
  /\ IF controller = c THEN SetController(None) ELSE Reject(c)
TransferControl_Unchecked(c, target) ==
  /\ c \in OpenEndpoints
  /\ IF controller = c THEN SetController(target) ELSE Reject(c)
TransferControl(c, target) ==
  /\ c \in OpenEndpoints
  /\ IF controller = c /\ target \in DOMAIN frontends
     THEN SetController(target) ELSE Reject(c)

-----------------------------------------------------------------------------
(* The app-server session *)

(* appServerConnected, then ProviderApplication sends "initialize": when   *)
(* the transport refuses it the handler fails at once and stops the loop.  *)
ProviderConnects ==
  /\ ~connected /\ generation < MaxGenerations
  /\ connected' = TRUE /\ ready' = FALSE /\ generation' = generation + 1
  /\ \E lost \in SUBSET OpenEndpoints :
       /\ frontends' = CloseLost(frontends, lost)
       /\ HearProvider(lost)
  /\ \E n \in nextLocal .. MaxLocalRequests :
       /\ NextLocalNumber(generation + 1, n)
       /\ nextLocal' = n + 1
       /\ \/ /\ localRequests' = Emplace(localRequests, LocalId(generation + 1, n),
                                         "initialize")
             /\ UNCHANGED stopRequested
          \/ stopRequested' = TRUE /\ UNCHANGED localRequests
  /\ UNCHANGED <<controller, nextConnection, routing, serverRequests>>

(* appServerDisconnected: every outstanding request is failed, to its      *)
(* local handler or to its frontend, and no ownership survives.            *)
ProviderDisconnects ==
  /\ connected
  /\ connected' = FALSE /\ ready' = FALSE /\ UNCHANGED generation
  /\ stopRequested' = (stopRequested \/ "initialize" \in Range(localRequests))
  /\ localRequests' = <<>>
  /\ requestOwners' = <<>> /\ requestKeys' = <<>> /\ serverRequestOwners' = <<>>
  /\ unanswered' = [c \in DOMAIN frontends |-> [i \in FrontendIds |->
       unanswered[c][i] - Cardinality({k \in DOMAIN requestOwners :
                            requestOwners[k] = [connection |-> c, id |-> i]})]]
  /\ pending' = [s \in ServerIds |-> 0]    \* the session it counts for has ended
  /\ \E lost \in SUBSET OpenEndpoints :
       /\ frontends' = CloseLost(frontends, lost)
       /\ HearProvider(lost)
  /\ UNCHANGED <<controller, nextConnection, nextRequest, nextLocal>>

(* setAppServerReady *)
BecomeReady ==
  /\ connected /\ ~ready
  /\ ready' = TRUE
  /\ UNCHANGED <<connected, generation, stopRequested>>
  /\ \E lost \in SUBSET OpenEndpoints :
       /\ frontends' = CloseLost(frontends, lost)
       /\ HearProvider(lost)

(* The handler of the "initialize" request: on success it sends            *)
(* "initialized" and admits the frontends' requests; on an error, and when *)
(* "initialized" is refused, it stops the application.                     *)
CompleteHandshake_Ignored == UNCHANGED <<frontends, heard, session>>
CompleteHandshake ==
  \/ BecomeReady
  \/ /\ stopRequested' = TRUE
     /\ UNCHANGED <<frontends, heard, connected, ready, generation>>

(* A response of the app-server goes to the local handler or to the        *)
(* frontend that waits for it; any other is a diagnostic to everybody.     *)
ReceiveLocalResponse(key) ==
  /\ connected /\ key \in DOMAIN localRequests
  /\ localRequests' = Erase(localRequests, {key})
  /\ IF localRequests[key] = "initialize" THEN CompleteHandshake
     ELSE UNCHANGED <<frontends, heard, session>>
  /\ UNCHANGED <<controller, nextConnection, nextLocal, routing, serverRequests>>

ReceiveResponse_ToController(key) ==
  /\ connected /\ key \in DOMAIN requestOwners
  /\ LET owner == requestOwners[key] IN
       /\ requestOwners' = Erase(requestOwners, {key})
       /\ requestKeys' = Erase(requestKeys, {<<owner.connection, owner.id>>})
       /\ unanswered' = IF controller = None THEN unanswered
                        ELSE [unanswered EXCEPT ![controller][owner.id] = @ - 1]
       /\ Deliver({controller})
  /\ UNCHANGED <<controller, nextConnection, nextRequest, heard, local,
                 serverRequests, session>>
ReceiveResponse(key) ==
  /\ connected /\ key \in DOMAIN requestOwners
  /\ LET owner == requestOwners[key] IN
       /\ requestOwners' = Erase(requestOwners, {key})
       /\ requestKeys' = Erase(requestKeys, {<<owner.connection, owner.id>>})
       /\ unanswered' = [unanswered EXCEPT ![owner.connection][owner.id] = @ - 1]
       /\ Deliver({owner.connection})
  /\ UNCHANGED <<controller, nextConnection, nextRequest, heard, local,
                 serverRequests, session>>

(* Unmatched responses, invalid messages and notifications other than      *)
(* serverRequest/resolved reach the frontends and leave no trace.          *)
ReceiveBroadcast ==
  /\ connected
  /\ Broadcast
  /\ UNCHANGED <<controller, nextConnection, heard, routing, local,
                 serverRequests, session>>

(* A server request whose id is outstanding is answered with an error.     *)
ReceiveDuplicateServerRequest(s) ==
  /\ connected /\ s \in DOMAIN serverRequestOwners
  /\ Broadcast
  /\ UNCHANGED <<controller, nextConnection, heard, routing, local,
                 serverRequests, session>>

(* Its method has a local handler, which is called at once.  An answer     *)
(* that the transport refuses leaves the request with the application.     *)
ReceiveLocalServerRequest(s) ==
  /\ connected /\ s \notin DOMAIN serverRequestOwners
  /\ LET owned == Emplace(serverRequestOwners, s,
                          [kind |-> "local", connection |-> None])
     IN \E outcome \in HandlerOutcomes :
          \/ /\ outcome \in {"defer", "answer"}
             /\ serverRequestOwners' = owned
             /\ pending' = [pending EXCEPT ![s] = @ + 1]
          \/ /\ outcome \in {"answer", "throw", "answerThenThrow"}
             /\ UNCHANGED serverRequests
          \/ /\ outcome = "answerThenThrow"
             /\ pending' = [pending EXCEPT ![s] = @ - 1]
             /\ UNCHANGED serverRequestOwners
  /\ UNCHANGED <<registry, routing, local, session>>

(* Otherwise it is for the controller; without one it fails at once.       *)
ReceiveServerRequest(s) ==
  /\ connected /\ s \notin DOMAIN serverRequestOwners
  /\ IF controller \in DOMAIN frontends
     THEN /\ serverRequestOwners' = Emplace(serverRequestOwners, s,
                [kind |-> "frontend", connection |-> controller])
          /\ pending' = [pending EXCEPT ![s] = @ + 1]
          /\ Deliver({controller})
     ELSE UNCHANGED serverRequests /\ Broadcast
  /\ UNCHANGED <<controller, nextConnection, heard, routing, local, session>>

(* serverRequest/resolved: the app-server no longer waits for the answer.  *)
ReceiveResolved_KeepsOwner(s) ==
  /\ connected
  /\ pending' = [pending EXCEPT ![s] = 0]
  /\ Broadcast
  /\ UNCHANGED <<controller, nextConnection, heard, routing, local,
                 serverRequestOwners, session>>
ReceiveResolved(s) ==
  /\ connected
  /\ serverRequestOwners' = Erase(serverRequestOwners, {s})
  /\ pending' = [pending EXCEPT ![s] = 0]
  /\ Broadcast
  /\ UNCHANGED <<controller, nextConnection, heard, routing, local, session>>

-----------------------------------------------------------------------------
(* The embedding application uses the SDK of the router *)

RequestTyped ==
  \E n \in nextLocal .. MaxLocalRequests :
    /\ NextLocalNumber(generation, n)
    /\ nextLocal' = n + 1
    /\ \/ /\ connected
          /\ localRequests' = Emplace(localRequests, LocalId(generation, n), "typed")
       \/ UNCHANGED localRequests           \* refused: its handler has failed
    /\ UNCHANGED <<registry, routing, serverRequests, session>>

(* The application chooses the id itself; an outstanding one is refused.   *)
SendRawRequest(id) ==
  /\ connected /\ id \notin OutstandingIds
  /\ localRequests' = Emplace(localRequests, id, "raw")
  /\ UNCHANGED <<registry, routing, nextLocal, serverRequests, session>>

SendServerResponse(s) ==
  /\ connected
  /\ s \in DOMAIN serverRequestOwners /\ serverRequestOwners[s].kind = "local"
  /\ serverRequestOwners' = Erase(serverRequestOwners, {s})
  /\ pending' = [pending EXCEPT ![s] = @ - 1]
  /\ UNCHANGED <<registry, routing, local, session>>

-----------------------------------------------------------------------------
FrontendActs ==
  \/ RegisterFrontend
  \/ \E c \in DOMAIN frontends :
       \/ UnregisterFrontend(c)
       \/ EndpointFails(c)
       \/ \E id \in FrontendIds, method \in {"read", "write", "handshake"} :
            ReceiveRequest(c, id, method)
       \/ ReceiveUntracked(c)
       \/ \E s \in ServerIds : ReceiveServerResponse(c, s)
       \/ ClaimControl(c)
       \/ ReleaseControl(c)
       \/ \E target \in 1 .. MaxConnections : TransferControl(c, target)

ProviderActs ==
  \/ ProviderConnects
  \/ ProviderDisconnects
  \/ \E key \in DOMAIN localRequests : ReceiveLocalResponse(key)
  \/ \E key \in DOMAIN requestOwners : ReceiveResponse(key)
  \/ ReceiveBroadcast
  \/ \E s \in ServerIds :
       \/ ReceiveDuplicateServerRequest(s)
       \/ ReceiveLocalServerRequest(s)
       \/ ReceiveServerRequest(s)
       \/ ReceiveResolved(s)

ApplicationActs ==
  \/ RequestTyped
  \/ \E id \in RawIds : SendRawRequest(id)
  \/ \E s \in ServerIds : SendServerResponse(s)

Next == FrontendActs \/ ProviderActs \/ ApplicationActs

Spec == Init /\ [][Next]_vars

(* The event loop reports the disconnection of every connection it was     *)
(* told to close.  Of the app-server it is assumed that it answers what it *)
(* was sent as long as its session lasts.                                  *)
CloseCompletes(c) == c \notin OpenEndpoints /\ UnregisterFrontend(c)
HandshakeAnswered ==
  \E key \in DOMAIN localRequests :
    localRequests[key] = "initialize" /\ ReceiveLocalResponse(key)
RequestAnswered(c, id) ==
  \E key \in DOMAIN requestOwners :
    requestOwners[key] = [connection |-> c, id |-> id] /\ ReceiveResponse(key)
Fairness ==
  /\ \A c \in 1 .. MaxConnections : WF_vars(CloseCompletes(c))
  /\ WF_vars(HandshakeAnswered)
  /\ \A c \in 1 .. MaxConnections, id \in FrontendIds : WF_vars(RequestAnswered(c, id))
FairSpec == Spec /\ Fairness

-----------------------------------------------------------------------------
IsTable(table, keys, values) ==
  DOMAIN table \subseteq keys /\ table \in [DOMAIN table -> values]
Connections == 1 .. nextConnection - 1
States == {"disconnected", "connected", "ready"}

(* The type invariant.  A controller, an owner and a key always name a     *)
(* connection that has been registered, whatever commands frontends send.  *)
TypeOK ==
  /\ IsTable(frontends, Connections,
             [role : {"controller", "observer"}, endpoint : {"open", "closing"}])
  /\ controller \in Connections \cup {None}
  /\ IsTable(requestOwners, UpstreamIds, [connection : Connections, id : FrontendIds])
  /\ IsTable(requestKeys, Connections \X FrontendIds, UpstreamIds)
  /\ IsTable(localRequests, UpstreamIds, {"initialize", "typed", "raw"})
  /\ IsTable(serverRequestOwners, ServerIds,
             [kind : {"local", "frontend"}, connection : Connections \cup {None}])
  /\ connected \in BOOLEAN /\ ready \in BOOLEAN /\ stopRequested \in BOOLEAN
  /\ generation \in Nat
  /\ nextConnection \in Nat \ {0} /\ nextRequest \in Nat \ {0} /\ nextLocal \in Nat \ {0}
  /\ heard \in [DOMAIN frontends ->
                 [controller : Nat, provider : States, generation : Nat]]
  /\ unanswered \in [DOMAIN frontends -> [FrontendIds -> Int]]
  /\ pending \in [ServerIds -> Int]

(* At most one frontend holds the controller role, it is the registered    *)
(* frontend controller_ names, and the role stored with each connection    *)
(* (which mayForward reads) agrees with controller_ (which routing reads). *)
RolesAgree ==
  /\ controller \in DOMAIN frontends \cup {None}
  /\ \A c \in DOMAIN frontends : (frontends[c].role = "controller") <=> (c = controller)

(* frontendRequestKeys_ is the exact inverse of frontendRequestOwners_,    *)
(* although one is pruned by key prefix and the other by owner; the owners *)
(* are registered, and no upstream id is also that of a local request.     *)
CorrelationConsistent ==
  /\ \A key \in DOMAIN requestOwners :
       LET owner == requestOwners[key] IN
       /\ owner.connection \in DOMAIN frontends
       /\ <<owner.connection, owner.id>> \in DOMAIN requestKeys
       /\ requestKeys[<<owner.connection, owner.id>>] = key
       /\ key \notin DOMAIN localRequests
  /\ \A k \in DOMAIN requestKeys :
       /\ requestKeys[k] \in DOMAIN requestOwners
       /\ requestOwners[requestKeys[k]] = [connection |-> k[1], id |-> k[2]]

(* Every request an open frontend has sent is answered exactly once, or is *)
(* outstanding: by its response, by the rejection of the router, or by the *)
(* failure a provider disconnection brings; nobody else gets the answer.   *)
EveryRequestAnsweredOnce ==
  \A c \in OpenEndpoints, id \in FrontendIds :
    unanswered[c][id] = IF <<c, id>> \in DOMAIN requestKeys THEN 1 ELSE 0

(* Every request of the app-server is answered (or withdrawn) exactly once,*)
(* or recorded as owned, over owners that disconnect, ids that are reused  *)
(* and handlers that throw.                                                *)
EveryServerRequestAnsweredOnce ==
  \A s \in ServerIds : pending[s] = IF s \in DOMAIN serverRequestOwners THEN 1 ELSE 0

(* Whoever must answer the app-server is still there to do it.             *)
ServerRequestOwnersRegistered ==
  \A s \in DOMAIN serverRequestOwners :
    serverRequestOwners[s].kind = "frontend" =>
      serverRequestOwners[s].connection \in DOMAIN frontends

(* No request of a frontend is outstanding before the handshake is over or *)
(* after the session it was sent on has ended, and no callback or server   *)
(* request survives a session.                                             *)
NoOwnershipOutsideSession ==
  /\ ready => connected
  /\ ~ready => DOMAIN requestOwners = {}
  /\ ~connected => DOMAIN localRequests = {} /\ DOMAIN serverRequestOwners = {}
  /\ \A key \in DOMAIN requestOwners : key.generation = generation

(* Nothing that is outstanding outlives the frontend or the session it     *)
(* belongs to.                                                             *)
NothingIsOrphaned == ServerRequestOwnersRegistered /\ NoOwnershipOutsideSession

(* What the frames told an open frontend last about the controller, the    *)
(* provider and its generation is how the bridge is now.                   *)
TelemetryCurrent == \A c \in OpenEndpoints : heard[c] = BridgeState

(* A session that is not ready has exactly one "initialize" outstanding    *)
(* (or has failed and stopped the application); a ready one has none.      *)
OneHandshakePerGeneration ==
  LET handshakes == {key \in DOMAIN localRequests : localRequests[key] = "initialize"} IN
  /\ ready => handshakes = {}
  /\ connected /\ ~ready /\ ~stopRequested => \E key \in handshakes : handshakes = {key}

(* A change of roles, a reused id or another connection never hands an     *)
(* outstanding request, of a frontend or of the app-server, to another     *)
(* owner.                                                                  *)
OwnershipIsNotTransferred ==
  [][/\ \A key \in DOMAIN requestOwners \cap DOMAIN requestOwners' :
          requestOwners'[key] = requestOwners[key]
     /\ \A s \in DOMAIN serverRequestOwners \cap DOMAIN serverRequestOwners' :
          serverRequestOwners'[s] = serverRequestOwners[s]]_vars

(* A request gets an upstream id that no request has had before, so a late *)
(* answer to a request that is gone can never be taken for its answer.     *)
UpstreamIdsAreFresh ==
  [][\A key \in DOMAIN requestOwners' \ DOMAIN requestOwners :
       nextRequest <= key.number /\ key.number < nextRequest']_vars

(* The owner of a request, and so the receiver of its answer, is the same  *)
(* from the step that forwards it for ever.                                *)
OwnersAreFinal == OwnershipIsNotTransferred /\ UpstreamIdsAreFresh

(* Only the controller's requests may be more than the approved reads.     *)
ObserversOnlyRead ==
  [][\A c \in DOMAIN frontends, id \in FrontendIds :
       ReceiveRequest(c, id, "write") /\ requestOwners' # requestOwners
         => c = controller]_vars

(* Control leaves a registered controller only by its own command or when  *)
(* it disconnects; nobody is promoted in its place.                        *)
ControlIsNotTaken ==
  [][controller # None /\ controller' # controller =>
       \/ controller' = None /\ (ReleaseControl(controller) \/ UnregisterFrontend(controller))
       \/ TransferControl(controller, controller')]_vars

(* Nobody writes but the controller, and nobody becomes controller by      *)
(* taking it from another.                                                 *)
ControlIsRespected == ObserversOnlyRead /\ ControlIsNotTaken

(* A request of a frontend does not stay unanswered while the frontend is  *)
(* connected.                                                              *)
Waiting(c, id) == c \in DOMAIN unanswered /\ unanswered[c][id] > 0
RequestsComplete ==
  \A c \in 1 .. MaxConnections, id \in FrontendIds : Waiting(c, id) ~> ~Waiting(c, id)

(* A server request does not stay with a frontend whose connection fails.  *)
HeldByClosing(c, s) ==
  /\ s \in DOMAIN serverRequestOwners
  /\ serverRequestOwners[s] = [kind |-> "frontend", connection |-> c]
  /\ c \notin OpenEndpoints
ClosingOwnersAreReleased ==
  \A c \in 1 .. MaxConnections, s \in ServerIds :
    HeldByClosing(c, s) ~> ~HeldByClosing(c, s)

(* A new session becomes ready, or ends, or the application is stopped.    *)
HandshakeCompletes ==
  (connected /\ ~ready) ~> (ready \/ ~connected \/ stopRequested)

(* Neither side of the router waits for the other for ever.                *)
NobodyWaitsForEver ==
  RequestsComplete /\ ClosingOwnersAreReleased /\ HandshakeCompletes
=============================================================================
