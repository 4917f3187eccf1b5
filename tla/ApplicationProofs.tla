--------------------------- MODULE ApplicationProofs ---------------------------
(***************************************************************************)
(* Theorems about the programs around the router, for any number of        *)
(* connections, flows and scopes: the provider side of codex-bridge and an *)
(* embedding application, the bridge client, a POST of the HTTP client and *)
(* the frontends' transports; and about all of them with the translation   *)
(* of a conversation, side by side.                                        *)
(***************************************************************************)
EXTENDS MCApplications, TranslationProofs, TLAPS

-----------------------------------------------------------------------------
(* ProviderApplication                                                     *)
(*                                                                         *)
(* What the runs check becomes inductive with RuntimeInv, which says what  *)
(* belongs to which runtime: only the owned child gives the stdio and the  *)
(* model runtime their session, only connections the two others.           *)

OwnsChild == kind \in {"stdio", "model"}

RuntimeInv ==
  /\ OwnsChild => active = NoConnection /\ \A c \in Connections : link[c] = "none"
  /\ child # "none" => OwnsChild /\ started
  /\ service \in {"binding", "listening"} => kind = "model" /\ started
  /\ service = "binding" => child = "none"
  /\ flow = "running" => kind = "network"
  /\ failed => OwnsChild /\ started
  /\ ~bridge => kind = "embedded" \/ loop = "exited"

ConnectionSteps(c) ==
  Open(c) \/ UpgradeFails(c) \/ Upgrade(c) \/ CloseConnection(c) \/ Disconnect(c)

-----------------------------------------------------------------------------
(* The endpoint *)

(* The steps of a connection keep the endpoint well typed, and keep every  *)
(* connection but the attached one mute.                                   *)
LEMMA ConnectionStepFacts ==
  ASSUME EndpointTypeOK, FramesAreOfTheSession,
         NEW c \in Connections, ConnectionSteps(c)
  PROVE  EndpointTypeOK' /\ FramesAreOfTheSession'
<1>1. EndpointTypeOK'
  BY DEF EndpointTypeOK, ConnectionSteps, Open, UpgradeFails, Upgrade, Attach, CloseConnection,
         Dispatches, Disconnect, Detach, Told
<1>2. ASSUME Open(c) \/ UpgradeFails(c) PROVE FramesAreOfTheSession'
  BY <1>2, WebSocketAssumption
  DEF Open, UpgradeFails, FramesAreOfTheSession, Dispatches, EndpointTypeOK
<1>3. ASSUME Upgrade(c) PROVE FramesAreOfTheSession'
  <2>1. /\ link[c] = "http" /\ link' = [link EXCEPT ![c] = "websocket"]
        /\ Attach(c) /\ UNCHANGED bridge
    BY <1>3 DEF Upgrade
  <2>2. CASE active = NoConnection /\ bridge
    BY <2>1, <2>2, WebSocketAssumption
    DEF Attach, FramesAreOfTheSession, Dispatches, EndpointTypeOK
  <2>3. CASE ~(active = NoConnection /\ bridge)
    BY <2>1, <2>3, WebSocketAssumption
    DEF Attach, FramesAreOfTheSession, Dispatches, EndpointTypeOK
  <2> QED
    BY <2>2, <2>3
<1>4. ASSUME CloseConnection(c) PROVE FramesAreOfTheSession'
  BY <1>4, WebSocketAssumption
  DEF CloseConnection, FramesAreOfTheSession, Dispatches, EndpointTypeOK
<1>5. ASSUME Disconnect(c) PROVE FramesAreOfTheSession'
  BY <1>5, WebSocketAssumption
  DEF Disconnect, Detach, FramesAreOfTheSession, Dispatches, EndpointTypeOK
<1> QED
  BY <1>1, <1>2, <1>3, <1>4, <1>5 DEF ConnectionSteps

(* So do stop() and the destructor.                                        *)
LEMMA EndpointEndFacts ==
  ASSUME EndpointTypeOK, FramesAreOfTheSession, StopEndpoint \/ DestroyEndpoint
  PROVE  EndpointTypeOK' /\ FramesAreOfTheSession'
  BY WebSocketAssumption
  DEF EndpointTypeOK, FramesAreOfTheSession, Dispatches, StopEndpoint, DestroyEndpoint

(* A connection that is told of changes what is attached and what the      *)
(* bridge believes together.                                               *)
LEMMA ConnectionTurns ==
  ASSUME EndpointTypeOK, BridgeHearsTurns, child # "running", child' # "running",
         NEW c \in Connections, ConnectionSteps(c)
  PROVE  BridgeHearsTurns'
  BY WebSocketAssumption
  DEF EndpointTypeOK, BridgeHearsTurns, ConnectionSteps, Open, UpgradeFails, Upgrade, Attach,
      CloseConnection, Dispatches, Disconnect, Detach, Told

-----------------------------------------------------------------------------
(* The application *)

Endpoints == TypeOK /\ FramesAreOfTheSession /\ BridgeHearsTurns
Fates == SessionsAreInitialised /\ StartupFailureIsFatal
ProviderInv == Endpoints /\ Fates /\ RuntimeInv

(* The initial state.                                                      *)
LEMMA ProviderInit == Init => ProviderInv
  BY WebSocketAssumption, KindsAssumption
  DEF Init, EndpointInit, ProviderInv, Endpoints, Fates, TypeOK, EndpointTypeOK, RuntimeInv,
      FramesAreOfTheSession, Dispatches, BridgeHearsTurns, SessionsAreInitialised,
      StartupFailureIsFatal, OwnsChild

(* Steps that leave the connections alone keep them mute.                  *)
LEMMA QuietEndpoint ==
  ASSUME FramesAreOfTheSession, UNCHANGED <<active, bridge, link, closing>>
  PROVE  FramesAreOfTheSession'
  BY DEF FramesAreOfTheSession, Dispatches

(* The handshake ends.                                                     *)
LEMMA HandshakeStep ==
  ASSUME ProviderInv, InitializeAnswered
  PROVE  ProviderInv'
<1>1. FramesAreOfTheSession'
  BY QuietEndpoint DEF ProviderInv, Endpoints, InitializeAnswered, StopLoop, endpoint
<1>2. TypeOK' /\ BridgeHearsTurns' /\ Fates' /\ RuntimeInv'
  BY WebSocketAssumption, KindsAssumption
  DEF ProviderInv, Endpoints, Fates, InitializeAnswered, StopLoop, endpoint, runtime,
      TypeOK, EndpointTypeOK, BridgeHearsTurns, SessionsAreInitialised,
      StartupFailureIsFatal, RuntimeInv, OwnsChild
<1> QED
  BY <1>1, <1>2 DEF ProviderInv, Endpoints

(* The child ends.                                                         *)
LEMMA ChildEndsStep ==
  ASSUME ProviderInv, ChildLost \/ ChildExits
  PROVE  ProviderInv'
<1>1. FramesAreOfTheSession'
  BY QuietEndpoint DEF ProviderInv, Endpoints, ChildLost, ChildExits, Told, Lifecycle, SessionEnds,
      SessionBegins, StopLoop, endpoint
<1>2. TypeOK' /\ BridgeHearsTurns' /\ Fates' /\ RuntimeInv'
  BY WebSocketAssumption, KindsAssumption
  DEF ProviderInv, Endpoints, Fates, ChildLost, ChildExits, Told, Lifecycle, SessionEnds,
      SessionBegins, StopLoop, endpoint, runtime,
      TypeOK, EndpointTypeOK, BridgeHearsTurns, SessionsAreInitialised,
      StartupFailureIsFatal, RuntimeInv, OwnsChild
<1> QED
  BY <1>1, <1>2 DEF ProviderInv, Endpoints

(* The start timer fires and the child is spawned, or is not.              *)
LEMMA StartStdioStep ==
  ASSUME ProviderInv, StartStdio
  PROVE  ProviderInv'
<1> USE WebSocketAssumption, KindsAssumption
<1> USE DEF ProviderInv, Endpoints, Fates, StartStdio, Boot, ChildStarts, FailStartup,
      Told, Lifecycle, SessionBegins, SessionEnds, StopLoop, endpoint, runtime
<1>1. FramesAreOfTheSession'
  BY QuietEndpoint
<1>2. TypeOK'
  BY ZenonT(40) DEF TypeOK, EndpointTypeOK
<1>3. BridgeHearsTurns'
  <2>1. ~session /\ active = NoConnection /\ child = "none"
    BY DEF BridgeHearsTurns, RuntimeInv, OwnsChild
  <2> QED
    BY <2>1 DEF BridgeHearsTurns, TypeOK, EndpointTypeOK
<1>4. SessionsAreInitialised'
  BY DEF SessionsAreInitialised, BridgeHearsTurns, RuntimeInv, OwnsChild
<1>5. StartupFailureIsFatal'
  BY DEF TypeOK, EndpointTypeOK, StartupFailureIsFatal, BridgeHearsTurns, RuntimeInv, OwnsChild
<1>6. RuntimeInv'
  BY DEF TypeOK, RuntimeInv, OwnsChild
<1> QED
  BY <1>1, <1>2, <1>3, <1>4, <1>5, <1>6

(* The start timer fires and the service or the client starts.             *)
LEMMA StartServiceStep ==
  ASSUME ProviderInv, StartModel \/ StartNetwork
  PROVE  ProviderInv'
<1> USE WebSocketAssumption, KindsAssumption
<1> USE DEF ProviderInv, Endpoints, Fates, StartModel, StartNetwork, Boot, FailStartup, StopLoop, endpoint, runtime
<1>1. FramesAreOfTheSession'
  BY QuietEndpoint
<1>2. TypeOK'
  <2>1. EndpointTypeOK'
    BY DEF TypeOK, EndpointTypeOK
  <2> QED
    BY <2>1 DEF TypeOK
<1>3. BridgeHearsTurns'
  BY DEF BridgeHearsTurns, RuntimeInv, OwnsChild
<1>4. SessionsAreInitialised'
  BY DEF SessionsAreInitialised, BridgeHearsTurns, RuntimeInv, OwnsChild
<1>5. StartupFailureIsFatal'
  BY DEF TypeOK, EndpointTypeOK, StartupFailureIsFatal, BridgeHearsTurns, RuntimeInv, OwnsChild
<1>6. RuntimeInv'
  BY DEF TypeOK, RuntimeInv, OwnsChild
<1> QED
  BY <1>1, <1>2, <1>3, <1>4, <1>5, <1>6

(* The service listens and the child is spawned behind it.                 *)
LEMMA ListenReadyStep ==
  ASSUME ProviderInv, ListenReady
  PROVE  ProviderInv'
<1> USE WebSocketAssumption, KindsAssumption
<1> USE DEF ProviderInv, Endpoints, Fates, ListenReady, ChildStarts, FailStartup,
      Told, Lifecycle, SessionBegins, SessionEnds, StopLoop, endpoint, runtime
<1>1. FramesAreOfTheSession'
  BY QuietEndpoint
<1>2. TypeOK'
  BY DEF TypeOK, EndpointTypeOK
<1>3. BridgeHearsTurns'
  <2>1. ~session /\ active = NoConnection /\ child = "none"
    BY DEF BridgeHearsTurns, RuntimeInv, OwnsChild
  <2> QED
    BY <2>1 DEF BridgeHearsTurns, TypeOK, EndpointTypeOK
<1>4. SessionsAreInitialised'
  BY DEF SessionsAreInitialised, BridgeHearsTurns, RuntimeInv, OwnsChild
<1>5. StartupFailureIsFatal'
  BY DEF TypeOK, EndpointTypeOK, StartupFailureIsFatal, BridgeHearsTurns, RuntimeInv, OwnsChild
<1>6. RuntimeInv'
  BY DEF TypeOK, RuntimeInv, OwnsChild
<1> QED
  BY <1>1, <1>2, <1>3, <1>4, <1>5, <1>6

(* The service cannot be had.                                              *)
LEMMA ListenFailsStep ==
  ASSUME ProviderInv, ListenFails
  PROVE  ProviderInv'
<1> USE WebSocketAssumption, KindsAssumption
<1> USE DEF ProviderInv, Endpoints, Fates, ListenFails, FailStartup, StopLoop, endpoint, runtime
<1>1. FramesAreOfTheSession'
  BY QuietEndpoint
<1>2. TypeOK'
  <2>1. EndpointTypeOK'
    BY DEF TypeOK, EndpointTypeOK
  <2> QED
    BY <2>1 DEF TypeOK
<1>3. BridgeHearsTurns'
  BY DEF BridgeHearsTurns, RuntimeInv, OwnsChild
<1>4. SessionsAreInitialised'
  BY DEF SessionsAreInitialised, BridgeHearsTurns, RuntimeInv, OwnsChild
<1>5. StartupFailureIsFatal'
  BY DEF TypeOK, EndpointTypeOK, StartupFailureIsFatal, BridgeHearsTurns, RuntimeInv, OwnsChild
<1>6. RuntimeInv'
  BY DEF TypeOK, RuntimeInv, OwnsChild
<1> QED
  BY <1>1, <1>2, <1>3, <1>4, <1>5, <1>6

(* The client gives up, or the loop ends.                                  *)
LEMMA LoopStep ==
  ASSUME ProviderInv, \/ ConnectFails \/ RequestStop \/ LoopReturns
         \/ UNCHANGED vars
  PROVE  ProviderInv'
<1>1. FramesAreOfTheSession'
  BY QuietEndpoint DEF ProviderInv, Endpoints, ConnectFails, RequestStop, LoopReturns, vars, Application, endpoint
<1>2. TypeOK' /\ BridgeHearsTurns' /\ Fates' /\ RuntimeInv'
  BY WebSocketAssumption, KindsAssumption
  DEF ProviderInv, Endpoints, Fates, ConnectFails, RequestStop, LoopReturns, vars, Application, endpoint, runtime,
      TypeOK, EndpointTypeOK, BridgeHearsTurns, SessionsAreInitialised,
      StartupFailureIsFatal, RuntimeInv, OwnsChild
<1> QED
  BY <1>1, <1>2 DEF ProviderInv, Endpoints


(* A step of a connection is one of the endpoint, which the application    *)
(* notices when it begins or ends a session.                               *)
LEMMA ConnectionCases ==
  ASSUME NEW c \in Connections, Connect(c) \/ ConnectionStep(c)
  PROVE  /\ ConnectionSteps(c)
         /\ UNCHANGED Application
         /\ loop \in {"running", "stopping"}
         /\ Connect(c) => UNCHANGED <<loop, handshake, session, active, bridge>>
                          /\ (kind = "embedded" \/ flow = "running")
         /\ ConnectionStep(c) => Lifecycle /\ bridge' = bridge /\ link[c] # "none"
  BY DEF Connect, ConnectionStep, ConnectionSteps, Open, UpgradeFails, Upgrade, CloseConnection,
         Dispatches, Disconnect, InLoop

LEMMA ConnectionLifecycle ==
  ASSUME TypeOK, SessionsAreInitialised, Lifecycle, loop \in {"running", "stopping"},
         UNCHANGED kind, session' \in BOOLEAN
  PROVE  /\ SessionsAreInitialised'
         /\ loop' \in {"running", "stopping"}
         /\ loop' = "running" => loop = "running"
         /\ handshake' \in {"none", "pending", "ready"}
  BY DEF TypeOK, EndpointTypeOK, SessionsAreInitialised, Lifecycle, SessionBegins, SessionEnds,
         StopLoop

(* A connection step preserves the invariant.                              *)
LEMMA ConnectionStepKeeps ==
  ASSUME ProviderInv, NEW c \in Connections, Connect(c) \/ ConnectionStep(c)
  PROVE  ProviderInv'
<1>1. /\ ConnectionSteps(c)
      /\ UNCHANGED <<kind, started, flow, service, child, failed, result>>
      /\ loop \in {"running", "stopping"}
  BY ConnectionCases DEF Application, runtime
<1>2. ~OwnsChild /\ child = "none" /\ ~failed
  <2>1. ~OwnsChild
    <3>1. CASE Connect(c)
      BY <3>1, ConnectionCases DEF ProviderInv, RuntimeInv, OwnsChild
    <3>2. CASE ConnectionStep(c)
      BY <3>2, ConnectionCases DEF ProviderInv, RuntimeInv
    <3> QED
      BY <3>1, <3>2
  <2> QED
    BY <2>1 DEF ProviderInv, RuntimeInv, Endpoints, TypeOK
<1>3. EndpointTypeOK' /\ FramesAreOfTheSession'
  BY <1>1, ConnectionStepFacts DEF ProviderInv, Endpoints, TypeOK
<1>4. BridgeHearsTurns'
  BY <1>1, <1>2, ConnectionTurns DEF ProviderInv, Endpoints, TypeOK
<1>5. /\ SessionsAreInitialised'
      /\ loop' \in {"running", "stopping"}
      /\ handshake' \in {"none", "pending", "ready"}
  <2>1. CASE Connect(c)
    BY <1>1, <2>1, ConnectionCases
    DEF ProviderInv, Endpoints, Fates, TypeOK, SessionsAreInitialised
  <2>2. CASE ConnectionStep(c)
    BY <1>1, <1>3, <2>2, ConnectionCases, ConnectionLifecycle
    DEF ProviderInv, Endpoints, Fates, EndpointTypeOK
  <2> QED
    BY <2>1, <2>2
<1>6. TypeOK'
  BY <1>1, <1>3, <1>5 DEF ProviderInv, Endpoints, TypeOK
<1>7. StartupFailureIsFatal'
  BY <1>1, <1>2, <1>5 DEF StartupFailureIsFatal
<1>8. RuntimeInv'
  <2>1. bridge' = bridge
    BY ConnectionCases
  <2> QED
    BY <1>1, <1>2, <2>1 DEF ProviderInv, RuntimeInv, OwnsChild
<1> QED
  BY <1>3, <1>4, <1>5, <1>6, <1>7, <1>8 DEF ProviderInv, Endpoints, Fates

(* The application that embeds the endpoint stops or destroys it.          *)
LEMMA EmbeddedStep ==
  ASSUME ProviderInv, EmbeddedStops
  PROVE  ProviderInv'
<1>1. /\ kind = "embedded" /\ (StopEndpoint \/ DestroyEndpoint)
      /\ UNCHANGED <<kind, started, flow, service, child, failed, result, loop, handshake>>
      /\ UNCHANGED <<active, session, astray, link>>
      /\ bridge' => bridge
  BY DEF EmbeddedStops, Application, runtime, StopEndpoint, DestroyEndpoint, ProviderInv,
         Endpoints, TypeOK, EndpointTypeOK
<1>2. EndpointTypeOK' /\ FramesAreOfTheSession'
  BY <1>1, EndpointEndFacts DEF ProviderInv, Endpoints, TypeOK
<1>3. TypeOK'
  BY <1>1, <1>2 DEF ProviderInv, Endpoints, TypeOK
<1>4. BridgeHearsTurns' /\ SessionsAreInitialised' /\ StartupFailureIsFatal' /\ RuntimeInv'
  BY <1>1 DEF ProviderInv, Endpoints, Fates, BridgeHearsTurns, SessionsAreInitialised,
              StartupFailureIsFatal, RuntimeInv, OwnsChild
<1> QED
  BY <1>2, <1>3, <1>4 DEF ProviderInv, Endpoints, Fates

(* main stops the provider, decides on its result and destroys everything. *)
LEMMA ExitStep ==
  ASSUME ProviderInv, Exit
  PROVE  ProviderInv'
<1>1. /\ loop' = "exited" /\ flow' = "ended" /\ service' = "stopped"
      /\ result' = IF failed THEN "failure" ELSE "success"
      /\ UNCHANGED <<kind, started, child, failed, handshake>>
      /\ UNCHANGED <<active, session, astray, link>>
      /\ bridge' => bridge
  BY DEF Exit, DestroyEndpoint, endpoint, ProviderInv, Endpoints, TypeOK, EndpointTypeOK
<1>2. EndpointTypeOK' /\ FramesAreOfTheSession'
  <2>1. CASE DestroyEndpoint
    BY <2>1, EndpointEndFacts DEF ProviderInv, Endpoints, TypeOK
  <2>2. CASE UNCHANGED endpoint
    BY <2>2, QuietEndpoint DEF ProviderInv, Endpoints, TypeOK, EndpointTypeOK, endpoint
  <2> QED
    BY <2>1, <2>2 DEF Exit
<1>3. TypeOK'
  BY <1>1, <1>2 DEF ProviderInv, Endpoints, TypeOK
<1>4. BridgeHearsTurns' /\ SessionsAreInitialised' /\ StartupFailureIsFatal' /\ RuntimeInv'
  BY <1>1 DEF ProviderInv, Endpoints, Fates, BridgeHearsTurns, SessionsAreInitialised,
              StartupFailureIsFatal, RuntimeInv, OwnsChild
<1> QED
  BY <1>2, <1>3, <1>4 DEF ProviderInv, Endpoints, Fates

-----------------------------------------------------------------------------
LEMMA ProviderInvariant == Spec => []ProviderInv
<1>1. ProviderInv /\ [Next]_vars => ProviderInv'
  <2> SUFFICES ASSUME ProviderInv, [Next]_vars PROVE ProviderInv'
    OBVIOUS
  <2>1. ASSUME NEW c \in Connections, Connect(c) \/ ConnectionStep(c) PROVE ProviderInv'
    BY <2>1, ConnectionStepKeeps
  <2> QED
    BY <2>1, HandshakeStep, ChildEndsStep, StartStdioStep, StartServiceStep, ListenReadyStep,
       ListenFailsStep, LoopStep, EmbeddedStep, ExitStep
    DEF Next
<1> QED
  BY <1>1, ProviderInit, PTL DEF Spec

(* The state of the application and of the endpoint is well typed.         *)
THEOREM ProviderTypeCorrect == Spec => []TypeOK
<1>1. ProviderInv => TypeOK
  BY DEF ProviderInv, Endpoints
<1> QED
  BY <1>1, ProviderInvariant, PTL

(* The bridge hears the frames of the attached connection only, and its    *)
(* sessions in turn.                                                       *)
THEOREM OneConnectionHeard == Spec => []OneConnectionIsHeard
<1>1. ProviderInv => OneConnectionIsHeard
  BY DEF ProviderInv, Endpoints, OneConnectionIsHeard
<1> QED
  BY <1>1, ProviderInvariant, PTL

(* A running application initialises every session it has, and one whose   *)
(* start failed is not running.                                            *)
THEOREM FailuresAreFatal == Spec => []FailuresEndTheApplication
<1>1. ProviderInv => FailuresEndTheApplication
  BY DEF ProviderInv, Fates, FailuresEndTheApplication
<1> QED
  BY <1>1, ProviderInvariant, PTL

-----------------------------------------------------------------------------
(* BridgeClient                                                            *)

(* The invariant: beside the types and what the property says, what a      *)
(* reconnect and a quit have in common with the loop and the input.        *)
ClientInv(c) ==
  /\ c \in ClientStates
  /\ c.endpoint # NoFlow => c.context[c.endpoint] \in {"created", "connected"}
  /\ c.transport = "websocket" => c.binding = c.endpoint
  /\ c.transport = "stream" =>
       \A f \in Flows : c.context[f] # "none" => f = c.selected /\ f = c.endpoint
  /\ \A f \in Flows : c.flow[f] \in {"active", "terminating"} => f = c.selected
  /\ c.input = "none" => c.loop \in {"starting", "exited"}
  /\ c.loop \in {"starting", "running"} => ~c.shuttingDown /\ ~c.quit
  /\ c.loop = "starting" => c.input = "none" /\ ~c.startup /\ c.selected = NoFlow
  /\ c.startup => c.selected = NoFlow
  /\ c.selected = NoFlow => c.endpoint = NoFlow /\ \A f \in Flows : c.context[f] = "none"
  /\ c.ticks <= 1
  /\ c.reconnecting => c.selected # NoFlow /\ c.ticks = 1 /\ ~c.quit
  /\ c.ticks = 1 => c.reconnecting \/ c.quit \/ c.loop = "exited"
  /\ c.quit => c.input = "stopped" /\ c.shuttingDown
  /\ ~c.late

Runs(c) == ClientInv(c) /\ c.loop \in {"running", "stopping"}

(* What closing contexts changes.                                          *)
LEMMA Closing ==
  ASSUME NEW c \in ClientStates
  PROVE  /\ \A f \in Flows : \E d, e \in SUBSET Flows :
              CloseContext(c, f) = [c EXCEPT !.disconnecting = d, !.closing = e]
         /\ \E d, e \in SUBSET Flows :
              CloseEndpoint(c) = [c EXCEPT !.disconnecting = d, !.closing = e]
         /\ \E d, e \in SUBSET Flows :
              ShutDown(c) = [c EXCEPT !.disconnecting = d, !.closing = e, !.shuttingDown = TRUE]
<1>1. c = [c EXCEPT !.disconnecting = c.disconnecting, !.closing = c.closing]
  BY DEF ClientStates
<1>2. ASSUME NEW f \in Flows
      PROVE  \E d, e \in SUBSET Flows :
               CloseContext(c, f) = [c EXCEPT !.disconnecting = d, !.closing = e]
  <2> DEFINE d == c.disconnecting \cup {f}  e == c.closing \cup {f}
  <2>1. /\ c.disconnecting \in SUBSET Flows /\ c.closing \in SUBSET Flows
        /\ d \in SUBSET Flows /\ e \in SUBSET Flows
    BY DEF ClientStates
  <2>2. \/ CloseContext(c, f) = c
        \/ CloseContext(c, f) = [c EXCEPT !.disconnecting = d, !.closing = e]
    BY DEF CloseContext, ClientStates
  <2> HIDE DEF d, e
  <2> QED BY <1>1, <2>1, <2>2
<1>3. \E d, e \in SUBSET Flows :
        CloseEndpoint(c) = [c EXCEPT !.disconnecting = d, !.closing = e]
  <2>1. c.endpoint # NoFlow => c.endpoint \in Flows
    BY DEF ClientStates
  <2>2. c.disconnecting \in SUBSET Flows /\ c.closing \in SUBSET Flows
    BY DEF ClientStates
  <2>3. CASE CloseEndpoint(c) = c
    <3> DEFINE e == CloseEndpoint(c)
    <3> HIDE DEF e
    <3> QED BY <1>1, <2>2, <2>3 DEF e
  <2>4. CASE c.endpoint # NoFlow /\ CloseEndpoint(c) = CloseContext(c, c.endpoint)
    <3>1. \E d, e \in SUBSET Flows :
            CloseContext(c, c.endpoint) = [c EXCEPT !.disconnecting = d, !.closing = e]
      BY <1>2, <2>1, <2>4, Zenon
    <3> QED BY <2>4, <3>1, Zenon
  <2> QED BY <2>3, <2>4, Zenon DEF CloseEndpoint
<1>4. \E d, e \in SUBSET Flows :
        ShutDown(c) = [c EXCEPT !.disconnecting = d, !.closing = e, !.shuttingDown = TRUE]
  BY <1>3 DEF ShutDown, ClientStates
<1> QED BY <1>2, <1>3, <1>4

FlowStates == {"none", "active", "terminating", "terminated"}

(* What terminating the selected flow changes.                             *)
LEMMA Terminating ==
  ASSUME NEW c \in ClientStates
  PROVE  \E g \in [Flows -> FlowStates] :
           /\ TerminateFlow(c) = [c EXCEPT !.flow = g]
           /\ \A f \in Flows : g[f] \in {"active", "terminating"}
                                 => c.flow[f] \in {"active", "terminating"}
<1>1. c.flow \in [Flows -> FlowStates]
  BY DEF ClientStates, FlowStates
<1>2. CASE c.selected = NoFlow \/ c.flow[c.selected] # "active"
  <2>1. TerminateFlow(c) = [c EXCEPT !.flow = c.flow]
    BY <1>2 DEF TerminateFlow, ClientStates
  <2> QED BY <1>1, <2>1
<1>3. CASE ~(c.selected = NoFlow \/ c.flow[c.selected] # "active")
  <2> DEFINE g == [c.flow EXCEPT ![c.selected] = "terminating"]
  <2>1. c.selected \in Flows
    BY <1>3 DEF ClientStates
  <2>2. g \in [Flows -> FlowStates]
    BY <1>1, <2>1 DEF FlowStates
  <2>3. TerminateFlow(c) = [c EXCEPT !.flow = g]
    BY <1>3 DEF TerminateFlow, ClientStates
  <2>4. \A f \in Flows : g[f] \in {"active", "terminating"}
                                 => c.flow[f] \in {"active", "terminating"}
    BY <1>1, <1>3, <2>1
  <2> QED BY <2>2, <2>3, <2>4
<1> QED BY <1>2, <1>3

LEMMA ReconnectInv ==
  ASSUME NEW c, Runs(c), c.input # "none"
  PROVE  Runs(RequestReconnect(c))
<1>1. CASE c.quit \/ c.selected = NoFlow \/ c.reconnecting
  BY <1>1 DEF RequestReconnect
<1>2. CASE ~(c.quit \/ c.selected = NoFlow \/ c.reconnecting)
  <2>0. c \in ClientStates
    BY DEF Runs, ClientInv
  <2> DEFINE x == CloseEndpoint(c)
             r == [x EXCEPT !.reconnecting = TRUE, !.ticks = @ + 1]
  <2>1. PICK d \in SUBSET Flows, e \in SUBSET Flows :
          x = [c EXCEPT !.disconnecting = d, !.closing = e]
    BY <2>0, Closing
  <2>2. c.ticks = 0
    BY <1>2 DEF Runs, ClientInv, ClientStates
  <2> HIDE DEF x
  <2>a. x.ticks = 0
    BY <2>0, <2>1, <2>2 DEF ClientStates
  <2>b. x.ticks + 1 = 1
    BY <2>a
  <2>c. r = [x EXCEPT !.reconnecting = TRUE, !.ticks = 1]
    BY <2>b
  <2> HIDE DEF r
  <2>3. r = [c EXCEPT !.disconnecting = d, !.closing = e, !.reconnecting = TRUE, !.ticks = 1]
    BY <2>0, <2>1, <2>c DEF ClientStates
  <2>4. r \in ClientStates
    BY <2>0, <2>3 DEF ClientStates
  <2>5. PICK g \in [Flows -> FlowStates] :
           /\ TerminateFlow(r) = [r EXCEPT !.flow = g]
           /\ \A f \in Flows : g[f] \in {"active", "terminating"}
                                 => r.flow[f] \in {"active", "terminating"}
    BY <2>4, Terminating
  <2>6. RequestReconnect(c) = TerminateFlow(r)
    BY <1>2 DEF RequestReconnect, r, x
  <2> DEFINE t == [r EXCEPT !.flow = g]
  <2>7. t = [c EXCEPT !.disconnecting = d, !.closing = e, !.reconnecting = TRUE, !.ticks = 1, !.flow = g]
    BY <2>0, <2>3 DEF ClientStates
  <2> HIDE DEF t
  <2>8. t \in ClientStates
    BY <2>0, <2>7 DEF ClientStates, FlowStates
  <2>9. r.flow = c.flow
    BY <2>0, <2>3 DEF ClientStates
  <2>10. ClientInv(t) /\ t.loop = c.loop
    BY <2>5, <2>7, <2>8, <2>9, <1>2 DEF Runs, ClientInv, ClientStates
  <2> QED BY <2>10, <2>5, <2>6 DEF Runs, t
<1> QED BY <1>1, <1>2

(* A quit leaves the client told to quit, and nothing more to read.        *)
LEMMA QuitInv ==
  ASSUME NEW c, Runs(c)
  PROVE  Runs(RequestQuit(c)) /\ RequestQuit(c).quit
<1>1. CASE c.quit
  BY <1>1 DEF RequestQuit
<1>2. CASE ~c.quit
  <2> DEFINE s == StopReader([c EXCEPT !.quit = TRUE, !.reconnecting = FALSE])
             q == ShutDown(s)
             t == TerminateFlow(q)
             u == StopClientLoop(t)
  <2>0. c \in ClientStates
    BY DEF Runs, ClientInv
  <2>1. s = [c EXCEPT !.quit = TRUE, !.reconnecting = FALSE, !.input = "stopped"]
    BY <2>0 DEF StopReader, Runs, ClientInv, ClientStates
  <2>2. RequestQuit(c) = u
    BY <1>2 DEF RequestQuit
  <2> HIDE DEF s
  <2>3. s \in ClientStates
    BY <2>0, <2>1 DEF ClientStates
  <2>4. PICK d \in SUBSET Flows, e \in SUBSET Flows :
          q = [s EXCEPT !.disconnecting = d, !.closing = e, !.shuttingDown = TRUE]
    BY <2>3, Closing
  <2> HIDE DEF q
  <2>5. q = [c EXCEPT !.quit = TRUE, !.reconnecting = FALSE, !.input = "stopped",
                      !.disconnecting = d, !.closing = e, !.shuttingDown = TRUE]
    BY <2>0, <2>1, <2>4 DEF ClientStates
  <2>6. q \in ClientStates /\ q.flow = c.flow
    BY <2>0, <2>5 DEF ClientStates
  <2>7. PICK g \in [Flows -> FlowStates] :
           /\ t = [q EXCEPT !.flow = g]
           /\ \A f \in Flows : g[f] \in {"active", "terminating"}
                                 => q.flow[f] \in {"active", "terminating"}
    BY <2>6, Terminating
  <2> HIDE DEF t
  <2>8. t = [c EXCEPT !.quit = TRUE, !.reconnecting = FALSE, !.input = "stopped",
                      !.disconnecting = d, !.closing = e, !.shuttingDown = TRUE, !.flow = g]
    BY <2>0, <2>5, <2>7 DEF ClientStates
  <2>9. t.loop = c.loop
    BY <2>0, <2>8 DEF ClientStates
  <2>10. u = [t EXCEPT !.loop = "stopping"]
    BY <2>0, <2>8, <2>9 DEF StopClientLoop, Runs, ClientStates
  <2> HIDE DEF u
  <2>11. u = [c EXCEPT !.quit = TRUE, !.reconnecting = FALSE, !.input = "stopped",
                       !.disconnecting = d, !.closing = e, !.shuttingDown = TRUE, !.flow = g,
                       !.loop = "stopping"]
    BY <2>0, <2>8, <2>10 DEF ClientStates
  <2>12. u \in ClientStates
    BY <2>0, <2>11 DEF ClientStates, FlowStates
  <2>13. Runs(u) /\ u.quit
    BY <2>6, <2>7, <2>11, <2>12 DEF Runs, ClientInv, ClientStates
  <2> QED BY <2>2, <2>13
<1> QED BY <1>1, <1>2

-----------------------------------------------------------------------------
(* Reading lines *)

LineKinds == {"reconnect", "quit", "bad", "other"}
ClientRunsSet == {c \in ClientStates : Runs(c)}
EmitStep == [x \in ClientRunsSet \X LineKinds |-> EmitLine(x[1], x[2])]

(* A line that is executed finds the client before its quit.               *)
LEMMA EmitLineInv ==
  ASSUME NEW c, Runs(c), NEW line
  PROVE  Runs(EmitLine(c, line))
<1>1. CASE ~Reading(c)
  BY <1>1 DEF EmitLine
<1>2. CASE Reading(c)
  <2>1. ~c.quit /\ c.input # "none" /\ ~c.late
    BY <1>2 DEF Reading, Runs, ClientInv
  <2>2. Runs(Execute(c, line))
    BY <2>1, QuitInv, ReconnectInv DEF Execute
  <2> DEFINE x == Execute(c, line)
  <2>3. x \in ClientStates /\ ~x.late
    BY <2>2 DEF Runs, ClientInv
  <2> HIDE DEF x
  <2>4. [x EXCEPT !.late = @ \/ c.quit] = x
    <3>1. (x.late \/ c.quit) = x.late
      BY <2>1, <2>3 DEF ClientStates
    <3>2. [x EXCEPT !.late = x.late] = x
      BY <2>3 DEF ClientStates
    <3> QED BY <3>1, <3>2
  <2>5. EmitLine(c, line) = [x EXCEPT !.late = @ \/ c.quit]
    BY <1>2 DEF EmitLine, x
  <2> QED BY <2>2, <2>4, <2>5 DEF x
<1> QED BY <1>1, <1>2

LEMMA EmitStepType == EmitStep \in FoldSteps(ClientRunsSet, LineKinds)
<1>1. ASSUME NEW x \in ClientRunsSet \X LineKinds PROVE EmitLine(x[1], x[2]) \in ClientRunsSet
  <2>1. Runs(x[1])
    BY DEF ClientRunsSet
  <2>2. Runs(EmitLine(x[1], x[2]))
    BY <2>1, EmitLineInv
  <2> QED BY <2>2 DEF ClientRunsSet, Runs, ClientInv
<1> QED BY <1>1 DEF EmitStep, FoldSteps

(* The lines of a read are folded by that step.                            *)
LEMMA EmitLinesFolded ==
  ASSUME NEW c, Runs(c), NEW lines \in Seq(LineKinds)
  PROVE  FoldLeft(EmitLine, c, lines) = Folded(EmitStep, c, lines)
<1> DEFINE Chosen(h) ==
             h = [s \in SUBSET DOMAIN lines |->
                    IF s = {} THEN c ELSE EmitLine(h[s \ {Max(s)}], lines[Max(s)])]
           C == CHOOSE h : Chosen(h)
<1>0. c \in ClientRunsSet
  BY DEF ClientRunsSet, Runs, ClientInv
<1>1. \A s \in SUBSET DOMAIN lines : s # {} => lines[Max(s)] \in LineKinds
  BY SequenceMax
<1>2. FoldLeft(EmitLine, c, lines) = C[DOMAIN lines]
  BY DEF FoldLeft, MapThenFoldSet
<1>3. PICK g \in [SUBSET DOMAIN lines -> ClientRunsSet] : Solves(g, EmitStep, c, lines)
  BY <1>0, EmitStepType, SolutionExists
<1>4. Chosen(g)
  BY <1>0, <1>1, <1>3 DEF Solves, EmitStep
<1>5. Chosen(C)
  BY <1>4
<1> HIDE DEF C
<1>6. ASSUME NEW s \in SUBSET DOMAIN lines, s # {}, C[s \ {Max(s)}] \in ClientRunsSet
      PROVE  C[s] = EmitStep[<<C[s \ {Max(s)}], lines[Max(s)]>>]
  BY <1>1, <1>5, <1>6 DEF EmitStep
<1>7. FoldsLike(C, ClientRunsSet, EmitStep, c, lines)
  BY <1>5, <1>6 DEF FoldsLike
<1> QED BY <1>0, <1>2, <1>7, EmitStepType, FoldedIsFold

(* Whatever is read, and however the input ends.                           *)
LEMMA ReadLinesInv ==
  ASSUME NEW c, Runs(c), NEW lines \in Seq(LineKinds), NEW end
  PROVE  Runs(ReadLines(c, lines, end))
<1> DEFINE x == FoldLeft(EmitLine, c, lines)
<1>0. c \in ClientRunsSet
  BY DEF ClientRunsSet, Runs, ClientInv
<1>1. Folded(EmitStep, c, lines) \in ClientRunsSet
  <2>1. \A d \in ClientRunsSet, line \in LineKinds : EmitStep[<<d, line>>] \in ClientRunsSet
    BY EmitStepType DEF FoldSteps
  <2> QED BY <1>0, <2>1, EmitStepType, FoldedInvariant
<1>2. Runs(x)
  BY <1>1, EmitLinesFolded DEF ClientRunsSet
<1> HIDE DEF x
<1>3. x \in ClientStates
  BY <1>2 DEF Runs, ClientInv
<1>4. CASE ~Reading(x)
  BY <1>2, <1>4 DEF ReadLines, EndRead, x
<1>5. CASE Reading(x) /\ end = "again"
  <2> DEFINE input == IF x.input = "deferred" THEN "unread" ELSE x.input
             y == [x EXCEPT !.input = IF @ = "deferred" THEN "unread" ELSE @]
  <2>1. y = [x EXCEPT !.input = input]
    OBVIOUS
  <2>2. /\ input \in {"none", "watching", "deferred", "unread", "stopped"}
        /\ input = "none" <=> x.input = "none"
        /\ input = "stopped" <=> x.input = "stopped"
    BY <1>3 DEF ClientStates
  <2> HIDE DEF input, y
  <2>3. y \in ClientStates
    BY <1>3, <2>1, <2>2 DEF ClientStates
  <2>4. /\ y.input = input /\ y.endpoint = x.endpoint /\ y.context = x.context
        /\ y.transport = x.transport /\ y.binding = x.binding /\ y.selected = x.selected
        /\ y.flow = x.flow /\ y.loop = x.loop /\ y.shuttingDown = x.shuttingDown
        /\ y.quit = x.quit /\ y.startup = x.startup /\ y.ticks = x.ticks
        /\ y.reconnecting = x.reconnecting /\ y.late = x.late
    BY <1>3, <2>1 DEF ClientStates
  <2>5. Runs(y)
    BY <1>2, <2>2, <2>3, <2>4 DEF Runs, ClientInv
  <2> QED BY <1>5, <2>5 DEF ReadLines, EndRead, x, y
<1>6. CASE Reading(x) /\ end # "again"
  <2> DEFINE y == StopReader(x)
  <2>1. Runs(y)
    BY <1>2, <1>3 DEF StopReader, Runs, ClientInv, ClientStates
  <2>2. ReadLines(c, lines, end) = RequestQuit(y)
    BY <1>6 DEF ReadLines, EndRead, x
  <2> HIDE DEF y
  <2> QED BY <2>1, <2>2, QuitInv
<1> QED BY <1>4, <1>5, <1>6

-----------------------------------------------------------------------------
(* The steps *)

LEMMA ClientInitInv == BridgeClientAssumption /\ ClientInit => ClientInv(client)
<1> SUFFICES ASSUME BridgeClientAssumption, NEW t \in Transports, client = NewClient(t)
             PROVE  ClientInv(client)
  BY DEF ClientInit
<1> DEFINE none == [f \in Flows |-> "none"]
<1>1. none \in [Flows -> FlowStates] /\ none \in [Flows -> {"none", "http", "created", "connected"}]
  BY DEF FlowStates
<1>2. client \in ClientStates
  BY <1>1 DEF NewClient, ClientStates, FlowStates
<1> QED BY <1>2 DEF NewClient, ClientInv

(* A new flow is selected when the selected one, if there is any, can      *)
(* connect no more and no transport is attached.                           *)
LEMMA ConnectInv ==
  ASSUME NoFlow \notin Flows, NEW c, Runs(c), c.endpoint = NoFlow, ~c.startup,
         c.selected # NoFlow => c.flow[c.selected] = "terminated",
         NEW f \in FreeFlows(c)
  PROVE  ClientInv([c EXCEPT !.selected = f, !.flow[f] = "active"])
<1> DEFINE d == [c EXCEPT !.selected = f, !.flow[f] = "active"]
<1>0. c \in ClientStates /\ ClientInv(c) /\ c.loop # "starting"
  BY DEF Runs, ClientInv
<1>2. f \in Flows /\ c.flow[f] \in {"none", "terminated"} /\ c.context[f] = "none"
  BY DEF FreeFlows
<1>3. \A h \in Flows : c.flow[h] \notin {"active", "terminating"}
  BY <1>0 DEF ClientInv
<1>4. c.transport = "stream" => \A h \in Flows : c.context[h] = "none"
  BY <1>0 DEF ClientInv
<1>5. d \in ClientStates
  BY <1>0, <1>2 DEF ClientStates
<1>6. /\ d.selected = f /\ \A h \in Flows : d.flow[h] = IF h = f THEN "active" ELSE c.flow[h]
      /\ d.context = c.context /\ d.endpoint = c.endpoint /\ d.binding = c.binding
      /\ d.transport = c.transport /\ d.loop = c.loop /\ d.input = c.input
      /\ d.startup = c.startup /\ d.ticks = c.ticks /\ d.reconnecting = c.reconnecting
      /\ d.quit = c.quit /\ d.shuttingDown = c.shuttingDown /\ d.late = c.late
  BY <1>0, <1>2 DEF ClientStates
<1> HIDE DEF d
<1>7. ClientInv(d)
  BY <1>0, <1>2, <1>3, <1>4, <1>5, <1>6 DEF ClientInv
<1> QED BY <1>7 DEF d

(* Once the client has quit it stays so, and attaches no transport.        *)
StaysQuit(c, d) ==
  c.quit => /\ d.quit /\ d.input = "stopped" /\ ~d.reconnecting
            /\ d.endpoint \in {c.endpoint, NoFlow}

LEMMA QuitStaysQuit ==
  ASSUME NEW c, ClientInv(c), c.quit
  PROVE  /\ c.input = "stopped" /\ ~c.reconnecting /\ ~Reading(c)
         /\ c.loop \notin {"starting", "running"} /\ c.shuttingDown
  BY DEF ClientInv, ClientStates, Reading

LEMMA BeginInputInv ==
  ASSUME ClientInv(client), BeginInput
  PROVE  ClientInv(client') /\ StaysQuit(client, client')
<1>0. client \in ClientStates /\ client.loop = "starting" /\ ~client.quit
  BY DEF ClientInv, BeginInput
<1>1. ASSUME NEW input \in {"watching", "deferred"},
             client' = [client EXCEPT !.loop = "running", !.input = input, !.startup = TRUE]
      PROVE  ClientInv(client')
  <2>1. client' \in ClientStates
    BY <1>0, <1>1 DEF ClientStates
  <2>2. /\ client'.loop = "running" /\ client'.input = input
        /\ \A x \in {"transport", "shuttingDown", "ticks", "reconnecting", "quit",
                     "selected", "flow", "context", "endpoint", "binding", "late"} :
             client'[x] = client[x]
    BY <1>0, <1>1 DEF ClientStates
  <2>3. client.selected = NoFlow
    BY <1>0 DEF ClientInv
  <2> QED BY <1>0, <2>1, <2>2, <2>3 DEF ClientInv
<1>2. ASSUME client' = [client EXCEPT !.loop = "exited", !.shuttingDown = TRUE]
      PROVE  ClientInv(client')
  <2>1. client' \in ClientStates
    BY <1>0, <1>2 DEF ClientStates
  <2>2. /\ client'.loop = "exited" /\ client'.shuttingDown
        /\ \A x \in {"transport", "input", "startup", "ticks", "reconnecting", "quit",
                     "selected", "flow", "context", "endpoint", "binding", "late"} :
             client'[x] = client[x]
    BY <1>0, <1>2 DEF ClientStates
  <2> QED BY <1>0, <2>1, <2>2 DEF ClientInv
<1> QED BY <1>0, <1>1, <1>2 DEF BeginInput, ClientBecomes, StaysQuit

LEMMA StartupTickInv ==
  ASSUME BridgeClientAssumption, ClientInv(client), StartupTick
  PROVE  ClientInv(client') /\ StaysQuit(client, client')
<1> DEFINE b == [client EXCEPT !.startup = FALSE]
<1>0. client \in ClientStates /\ client.startup /\ client.loop \in {"running", "stopping"}
  BY DEF ClientInv, StartupTick, ClientRuns
<1>1. b \in ClientStates
  BY <1>0 DEF ClientStates
<1>2. Runs(b) /\ b.endpoint = client.endpoint /\ b.quit = client.quit
  BY <1>0, <1>1 DEF ClientInv, ClientStates, Runs
<1> HIDE DEF b
<1>3. CASE client' = RequestQuit(b)
  <2>1. client.quit => client' = b
    BY <1>2, <1>3 DEF RequestQuit
  <2>2. Runs(client')
    BY <1>2, <1>3, QuitInv
  <2> QED BY <1>2, <2>1, <2>2, QuitStaysQuit DEF StaysQuit, Runs
<1>4. ASSUME NEW c \in ConnectSelected(client), client' = [c EXCEPT !.startup = FALSE]
      PROVE  ClientInv(client') /\ StaysQuit(client, client')
  <2>1. PICK f \in FreeFlows(client) : c = [client EXCEPT !.selected = f, !.flow[f] = "active"]
    BY <1>4 DEF ConnectSelected
  <2>2. f \in Flows
    BY DEF FreeFlows
  <2>3. client' = [b EXCEPT !.selected = f, !.flow[f] = "active"]
    BY <1>0, <1>4, <2>1, <2>2 DEF b, ClientStates
  <2>4. b.selected = NoFlow /\ ~b.startup /\ f \in FreeFlows(b)
    BY <1>0, <2>1 DEF b, ClientInv, ClientStates, FreeFlows
  <2>5. b.endpoint = NoFlow
    BY <1>2, <2>4 DEF Runs, ClientInv
  <2>6. ClientInv(client')
    BY <1>2, <2>3, <2>4, <2>5, ConnectInv DEF BridgeClientAssumption
  <2>7. /\ client'.endpoint = client.endpoint /\ client'.quit = client.quit
        /\ client'.input = client.input /\ client'.reconnecting = client.reconnecting
    BY <1>0, <1>4, <2>1 DEF ClientStates
  <2> QED BY <2>6, <2>7, QuitStaysQuit DEF StaysQuit
<1> QED BY <1>3, <1>4 DEF StartupTick, ClientBecomes, b

LEMMA ReconnectTickInv ==
  ASSUME BridgeClientAssumption, ClientInv(client), ReconnectTick
  PROVE  ClientInv(client') /\ StaysQuit(client, client')
<1> DEFINE b == [client EXCEPT !.ticks = @ - 1]
<1>0. /\ client \in ClientStates /\ client.loop \in {"running", "stopping"}
      /\ client.ticks = 1
  BY DEF ClientInv, ClientStates, ReconnectTick, ClientRuns
<1>1. b = [client EXCEPT !.ticks = 0]
  <2>1. client.ticks - 1 = 0
    BY <1>0
  <2> QED BY <2>1
<1> HIDE DEF b
<1>2. CASE client.quit \/ ~client.reconnecting
  <2>1. client' = b
    BY <1>2 DEF ReconnectTick, ContinueReconnect, ClientBecomes, b
  <2>2. client' \in ClientStates
    BY <1>0, <1>1, <2>1 DEF ClientStates
  <2>3. client.quit /\ ~client.reconnecting
    BY <1>0, <1>2 DEF ClientInv
  <2>4. /\ client'.ticks = 0
        /\ \A x \in {"transport", "loop", "input", "startup", "reconnecting", "quit",
                     "selected", "flow", "context", "endpoint", "binding",
                     "shuttingDown", "late"} :
             client'[x] = client[x]
    BY <1>0, <1>1, <2>1 DEF ClientStates
  <2>5. ClientInv(client')
    BY <2>2, <2>3, <2>4 DEF ClientInv
  <2> QED BY <2>4, <2>5, QuitStaysQuit DEF StaysQuit
<1>3. CASE ~client.quit /\ client.reconnecting
  <2> DEFINE a == [b EXCEPT !.reconnecting = FALSE]
  <2>1. \/ client' = client
        \/ /\ client.flow[client.selected] = "terminated" /\ client.endpoint = NoFlow
           /\ client' \in ConnectSelected(a)
    BY <1>3 DEF ReconnectTick, ContinueReconnect, ClientBecomes, b
  <2>2. a = [client EXCEPT !.ticks = 0, !.reconnecting = FALSE]
    BY <1>0, <1>1 DEF ClientStates
  <2> HIDE DEF a
  <2>3. a \in ClientStates
    BY <1>0, <2>2 DEF ClientStates
  <2>4. /\ a.ticks = 0 /\ a.reconnecting = FALSE
        /\ \A x \in {"transport", "loop", "input", "startup", "quit",
                     "selected", "flow", "context", "endpoint", "binding",
                     "shuttingDown", "late"} :
             a[x] = client[x]
    BY <1>0, <2>2 DEF ClientStates
  <2>5. Runs(a) /\ ~a.startup
    BY <1>0, <1>3, <2>3, <2>4 DEF Runs, ClientInv
  <2>6. CASE client' = client
    BY <1>3, <2>6 DEF StaysQuit
  <2>7. CASE /\ client.flow[client.selected] = "terminated" /\ client.endpoint = NoFlow
             /\ client' \in ConnectSelected(a)
    <3>1. PICK f \in FreeFlows(a) : client' = [a EXCEPT !.selected = f, !.flow[f] = "active"]
      BY <2>7 DEF ConnectSelected
    <3>2. a.endpoint = NoFlow /\ a.flow[a.selected] = "terminated"
      BY <2>4, <2>7
    <3>3. ClientInv(client')
      BY <2>5, <3>1, <3>2, ConnectInv DEF BridgeClientAssumption
    <3> QED BY <1>3, <3>3 DEF StaysQuit
  <2> QED BY <2>1, <2>6, <2>7
<1> QED BY <1>2, <1>3

LEMMA ReadEventInv ==
  ASSUME BridgeClientAssumption, ClientInv(client), ReadEvent
  PROVE  ClientInv(client') /\ StaysQuit(client, client')
<1>1. Runs(client) /\ ~client.quit
  BY QuitStaysQuit DEF ReadEvent, ClientRuns, Runs
<1>2. PICK lines \in Lines, end \in Ends : client' = ReadLines(client, lines, end)
  BY DEF ReadEvent, ClientBecomes
<1>3. lines \in Seq(LineKinds)
  BY DEF Lines, BoundedSeq, SeqOf, LineKinds, BridgeClientAssumption
<1>4. Runs(client')
  BY <1>1, <1>2, <1>3, ReadLinesInv
<1> QED BY <1>1, <1>4 DEF Runs, StaysQuit

(* What a step of a context does not touch.                                *)
SameMain(c, d) ==
  /\ d \in ClientStates
  /\ \A x \in {"transport", "loop", "input", "startup", "ticks", "reconnecting", "quit",
               "selected", "late"} : d[x] = c[x]
  /\ c.shuttingDown => d.shuttingDown
  /\ c.loop = "running" => d.shuttingDown = c.shuttingDown

LEMMA OpenContextInv ==
  ASSUME BridgeClientAssumption, ClientInv(client), NEW f \in Flows, OpenContext(f)
  PROVE  ClientInv(client') /\ StaysQuit(client, client')
<1>0. /\ client \in ClientStates /\ client.loop = "running" /\ ~client.quit
      /\ client.selected = f /\ f # NoFlow /\ client.context[f] = "none" /\ ~client.shuttingDown
  BY DEF OpenContext, ClientInv, BridgeClientAssumption
<1>1. client.endpoint # f
  BY <1>0 DEF ClientInv
<1>2. CASE client.transport = "stream"
  <2>1. client.endpoint = NoFlow
    <3> SUFFICES ASSUME client.endpoint # NoFlow PROVE FALSE
      OBVIOUS
    <3>1. client.endpoint \in Flows /\ client.context[client.endpoint] # "none"
      BY <1>0 DEF ClientInv, ClientStates
    <3> QED BY <1>0, <1>1, <1>2, <3>1 DEF ClientInv
  <2>2. client' = [client EXCEPT !.context[f] = "created", !.endpoint = f]
    <3> DEFINE d == [client EXCEPT !.context[f] = "created"]
    <3>1. d.endpoint = NoFlow /\ ~d.shuttingDown
      BY <1>0, <2>1 DEF ClientStates
    <3>2. client' = [d EXCEPT !.endpoint = f]
      BY <1>0, <1>2, <2>1 DEF OpenContext, ClientBecomes, CreateStream, MayAttach
    <3> QED BY <1>0, <3>2 DEF ClientStates
  <2>3. client' \in ClientStates
    BY <1>0, <2>2 DEF ClientStates
  <2>4. /\ SameMain(client, client')
        /\ client'.endpoint = f /\ client'.flow = client.flow
        /\ \A h \in Flows : client'.context[h] = IF h = f THEN "created" ELSE client.context[h]
    BY <1>0, <2>2, <2>3 DEF SameMain, ClientStates
  <2>5. ClientInv(client')
    BY <1>0, <1>2, <2>3, <2>4 DEF SameMain, ClientInv
  <2> QED BY <1>0, <2>5 DEF StaysQuit
<1>3. CASE client.transport # "stream"
  <2>1. client' = [client EXCEPT !.context[f] = "http"]
    BY <1>3 DEF OpenContext, ClientBecomes
  <2>2. client' \in ClientStates
    BY <1>0, <2>1 DEF ClientStates
  <2>3. /\ SameMain(client, client')
        /\ client'.flow = client.flow
        /\ client'.endpoint = client.endpoint /\ client'.binding = client.binding
        /\ \A h \in Flows : client'.context[h] = IF h = f THEN "http" ELSE client.context[h]
    BY <1>0, <2>1, <2>2 DEF SameMain, ClientStates
  <2>4. client.endpoint # NoFlow => client.endpoint \in Flows
    BY <1>0 DEF ClientStates
  <2>5. ClientInv(client')
    BY <1>0, <1>1, <1>3, <2>2, <2>3, <2>4 DEF SameMain, ClientInv
  <2> QED BY <1>0, <2>5 DEF StaysQuit
<1> QED BY <1>2, <1>3

LEMMA StreamConnectedInv ==
  ASSUME ClientInv(client), NEW f \in Flows, StreamConnected(f)
  PROVE  ClientInv(client') /\ StaysQuit(client, client')
<1>0. client \in ClientStates /\ client.context[f] = "created"
  BY DEF StreamConnected, ClientInv
<1> DEFINE context == [client.context EXCEPT ![f] = "connected"]
<1>1. client' = [client EXCEPT !.context = context]
  BY DEF StreamConnected, ClientBecomes
<1>a. /\ context \in [Flows -> {"none", "http", "created", "connected"}]
      /\ \A h \in Flows : context[h] = IF h = f THEN "connected" ELSE client.context[h]
  BY <1>0 DEF ClientStates
<1> HIDE DEF context
<1>2. client' \in ClientStates
  BY <1>0, <1>1, <1>a DEF ClientStates
<1>b. client'.context = context /\ SameMain(client, client') /\ client'.flow = client.flow
      /\ client'.endpoint = client.endpoint /\ client'.binding = client.binding
  <2>1. client'.context = context
    BY <1>0, <1>1 DEF ClientStates
  <2>2. SameMain(client, client')
    BY <1>0, <1>1, <1>2 DEF SameMain, ClientStates
  <2>3. /\ client'.flow = client.flow
        /\ client'.endpoint = client.endpoint /\ client'.binding = client.binding
    BY <1>0, <1>1 DEF ClientStates
  <2> QED BY <2>1, <2>2, <2>3
<1>3. /\ SameMain(client, client')
      /\ client'.flow = client.flow
      /\ client'.endpoint = client.endpoint /\ client'.binding = client.binding
      /\ \A h \in Flows : client'.context[h] = IF h = f THEN "connected" ELSE client.context[h]
  BY <1>a, <1>b
<1>4. client.endpoint # NoFlow => client.endpoint \in Flows
  BY <1>0 DEF ClientStates
<1>5. ClientInv(client')
  BY <1>0, <1>2, <1>3, <1>4 DEF SameMain, ClientInv
<1> QED BY <1>3, <1>5, QuitStaysQuit DEF SameMain, StaysQuit

LEMMA SubProtocolConnectedInv ==
  ASSUME BridgeClientAssumption, ClientInv(client), NEW f \in Flows, SubProtocolConnected(f)
  PROVE  ClientInv(client') /\ StaysQuit(client, client')
<1> DEFINE d == [client EXCEPT !.context[f] = "connected"]
<1>0. /\ client \in ClientStates /\ client.context[f] = "http"
      /\ client.loop \in {"running", "stopping"} /\ f # NoFlow
  BY DEF SubProtocolConnected, ClientInv, ClientRuns, BridgeClientAssumption
<1>1. client.endpoint # f /\ (client.endpoint # NoFlow => client.endpoint \in Flows)
  BY <1>0 DEF ClientInv, ClientStates
<1>2. client.selected # NoFlow
  BY <1>0 DEF ClientInv
<1>3. client.transport # "stream"
  BY <1>0, <1>1 DEF ClientInv
<1>4. d \in ClientStates
  BY <1>0 DEF ClientStates
<1>5. /\ SameMain(client, d)
      /\ d.flow = client.flow
      /\ d.endpoint = client.endpoint /\ d.binding = client.binding
      /\ d.shuttingDown = client.shuttingDown
      /\ \A h \in Flows : d.context[h] = IF h = f THEN "connected" ELSE client.context[h]
  BY <1>0, <1>4 DEF SameMain, ClientStates
<1> HIDE DEF d
<1>6. client' = IF d.binding = NoFlow /\ MayAttach(d)
                THEN [d EXCEPT !.endpoint = f, !.binding = f] ELSE CloseContext(d, f)
  BY <1>5 DEF SubProtocolConnected, CreateSubProtocol, MayAttach, ClientBecomes, d
<1>7. CASE d.binding = NoFlow /\ MayAttach(d)
  <2>1. client' = [d EXCEPT !.endpoint = f, !.binding = f]
    BY <1>6, <1>7
  <2>2. client' \in ClientStates
    BY <1>4, <2>1 DEF ClientStates
  <2>3. /\ SameMain(d, client') /\ client'.flow = d.flow /\ client'.context = d.context
        /\ client'.endpoint = f /\ client'.binding = f /\ client'.shuttingDown = d.shuttingDown
    BY <1>4, <2>1, <2>2 DEF SameMain, ClientStates
  <2>4. ~client.shuttingDown
    BY <1>5, <1>7 DEF MayAttach
  <2>5. ~client.quit
    BY <2>4, QuitStaysQuit
  <2>6. ClientInv(client')
    BY <1>0, <1>2, <1>3, <1>5, <2>2, <2>3 DEF SameMain, ClientInv
  <2> QED BY <2>5, <2>6 DEF StaysQuit
<1>8. CASE ~(d.binding = NoFlow /\ MayAttach(d))
  <2>1. PICK s \in SUBSET Flows, e \in SUBSET Flows :
          client' = [d EXCEPT !.disconnecting = s, !.closing = e]
    <3>1. client' = CloseContext(d, f)
      BY <1>6, <1>8
    <3>2. \E s, e \in SUBSET Flows :
            CloseContext(d, f) = [d EXCEPT !.disconnecting = s, !.closing = e]
      BY <1>4, Closing
    <3> QED BY <3>1, <3>2
  <2>2. client' \in ClientStates
    BY <1>4, <2>1 DEF ClientStates
  <2>3. /\ SameMain(d, client') /\ client'.flow = d.flow /\ client'.context = d.context
        /\ client'.endpoint = d.endpoint /\ client'.binding = d.binding
        /\ client'.shuttingDown = d.shuttingDown
    BY <1>4, <2>1, <2>2 DEF SameMain, ClientStates
  <2>4. ClientInv(client')
    BY <1>0, <1>1, <1>2, <1>3, <1>5, <2>2, <2>3 DEF SameMain, ClientInv
  <2> QED BY <1>5, <2>3, <2>4, QuitStaysQuit DEF SameMain, StaysQuit
<1> QED BY <1>7, <1>8

LEMMA FrameRejectedInv ==
  ASSUME ClientInv(client), NEW f \in Flows, FrameRejected(f)
  PROVE  ClientInv(client') /\ StaysQuit(client, client')
<1>0. client \in ClientStates
  BY DEF ClientInv
<1>1. PICK s \in SUBSET Flows, e \in SUBSET Flows :
        client' = [client EXCEPT !.disconnecting = s, !.closing = e]
  <2>1. client' = CloseContext(client, f)
    BY DEF FrameRejected, ClientBecomes
  <2>2. \E s, e \in SUBSET Flows :
          CloseContext(client, f) = [client EXCEPT !.disconnecting = s, !.closing = e]
    BY <1>0, Closing
  <2> QED BY <2>1, <2>2
<1>2. client' \in ClientStates
  BY <1>0, <1>1 DEF ClientStates
<1>3. /\ SameMain(client, client')
      /\ \A x \in {"flow", "context", "endpoint", "binding", "shuttingDown"} :
           client'[x] = client[x]
  BY <1>0, <1>1, <1>2 DEF SameMain, ClientStates
<1>4. ClientInv(client')
  BY <1>2, <1>3 DEF SameMain, ClientInv
<1> QED BY <1>3, <1>4, QuitStaysQuit DEF SameMain, StaysQuit

LEMMA ContextEndsInv ==
  ASSUME BridgeClientAssumption, ClientInv(client), NEW f \in Flows, ContextEnds(f)
  PROVE  ClientInv(client') /\ StaysQuit(client, client')
<1>0. client \in ClientStates /\ client' = DetachContext(client, f)
  BY DEF ClientInv, ContextEnds, ClientBecomes
<1>1. client' \in ClientStates
  <2> DEFINE context == [client.context EXCEPT ![f] = "none"]
             disconnecting == client.disconnecting \ {f}
             closes == client.closing \ {f}
             remaining == IF client.endpoint = f THEN NoFlow ELSE client.endpoint
             binding == IF client.binding = f THEN NoFlow ELSE client.binding
  <2>1. client' = [client EXCEPT !.context = context, !.disconnecting = disconnecting,
                                 !.closing = closes, !.endpoint = remaining,
                                 !.binding = binding]
    BY <1>0 DEF DetachContext, ClientStates
  <2>2. /\ context \in [Flows -> {"none", "http", "created", "connected"}]
        /\ disconnecting \in SUBSET Flows /\ closes \in SUBSET Flows
        /\ remaining \in Flows \cup {NoFlow} /\ binding \in Flows \cup {NoFlow}
    BY <1>0 DEF ClientStates
  <2> HIDE DEF context, disconnecting, closes, remaining, binding
  <2>3. client \in ClientStates
    BY <1>0
  <2>4. [client EXCEPT !.context = context, !.disconnecting = disconnecting,
                       !.closing = closes, !.endpoint = remaining, !.binding = binding]
          \in ClientStates
    BY <2>2, <2>3 DEF ClientStates
  <2> QED BY <2>1, <2>4
<1>2. /\ SameMain(client, client')
      /\ client'.flow = client.flow /\ client'.shuttingDown = client.shuttingDown
      /\ client'.endpoint = IF client.endpoint = f THEN NoFlow ELSE client.endpoint
      /\ client'.binding = IF client.binding = f THEN NoFlow ELSE client.binding
      /\ \A h \in Flows : client'.context[h] = IF h = f THEN "none" ELSE client.context[h]
  <2> DEFINE context == [client.context EXCEPT ![f] = "none"]
             disconnecting == client.disconnecting \ {f}
             closes == client.closing \ {f}
             remaining == IF client.endpoint = f THEN NoFlow ELSE client.endpoint
             binding == IF client.binding = f THEN NoFlow ELSE client.binding
  <2>1. client' = [client EXCEPT !.context = context, !.disconnecting = disconnecting,
                                 !.closing = closes, !.endpoint = remaining,
                                 !.binding = binding]
    BY <1>0 DEF DetachContext, ClientStates
  <2>2. \A h \in Flows : context[h] = IF h = f THEN "none" ELSE client.context[h]
    BY <1>0 DEF ClientStates
  <2> HIDE DEF context, disconnecting, closes, remaining, binding
  <2>3. /\ SameMain(client, client')
        /\ client'.flow = client.flow /\ client'.shuttingDown = client.shuttingDown
        /\ client'.endpoint = remaining /\ client'.binding = binding
        /\ client'.context = context
    BY <1>0, <1>1, <2>1 DEF SameMain, ClientStates
  <2> QED BY <2>2, <2>3 DEF remaining, binding
<1>3. client.endpoint # NoFlow => client.endpoint \in Flows
  BY <1>0 DEF ClientStates
<1>4. ClientInv(client')
  BY <1>1, <1>2, <1>3 DEF SameMain, ClientInv
<1> QED BY <1>2, <1>4, QuitStaysQuit DEF SameMain, StaysQuit

LEMMA FlowTerminatesInv ==
  ASSUME ClientInv(client), NEW f \in Flows, FlowTerminates(f)
  PROVE  ClientInv(client') /\ StaysQuit(client, client')
<1>0. client \in ClientStates /\ client' = [client EXCEPT !.flow[f] = "terminated"]
  BY DEF ClientInv, FlowTerminates, ClientBecomes
<1>1. client' \in ClientStates
  BY <1>0 DEF ClientStates
<1>2. /\ SameMain(client, client')
      /\ \A h \in Flows : client'.flow[h] = IF h = f THEN "terminated" ELSE client.flow[h]
      /\ \A x \in {"context", "endpoint", "binding", "shuttingDown"} : client'[x] = client[x]
  BY <1>0, <1>1 DEF SameMain, ClientStates
<1>3. ClientInv(client')
  BY <1>1, <1>2 DEF SameMain, ClientInv
<1> QED BY <1>2, <1>3, QuitStaysQuit DEF SameMain, StaysQuit

LEMMA SignalInv ==
  ASSUME ClientInv(client), Signal
  PROVE  ClientInv(client') /\ StaysQuit(client, client')
<1> DEFINE c == [client EXCEPT !.loop = "stopping"]
<1>0. client \in ClientStates /\ client.loop = "running" /\ ~client.quit
  BY DEF ClientInv, Signal
<1>1. StopClientLoop(client) = c
  BY <1>0 DEF StopClientLoop, ClientStates
<1>2. c \in ClientStates
  BY <1>0 DEF ClientStates
<1>3. /\ c.loop = "stopping"
      /\ \A x \in {"transport", "input", "startup", "ticks", "reconnecting", "quit", "selected",
                   "flow", "context", "endpoint", "binding", "shuttingDown", "late"} :
           c[x] = client[x]
  BY <1>0 DEF ClientStates
<1> HIDE DEF c
<1>4. client' = c \/ client' = ShutDown(c)
  BY <1>1 DEF Signal, ClientBecomes
<1>5. CASE client' = c
  <2>1. ClientInv(client')
    BY <1>0, <1>2, <1>3, <1>5 DEF ClientInv
  <2> QED BY <1>0, <2>1 DEF StaysQuit
<1>6. CASE client' = ShutDown(c)
  <2>1. PICK s \in SUBSET Flows, e \in SUBSET Flows :
          client' = [c EXCEPT !.disconnecting = s, !.closing = e, !.shuttingDown = TRUE]
    <3>1. \E s, e \in SUBSET Flows :
            ShutDown(c) = [c EXCEPT !.disconnecting = s, !.closing = e, !.shuttingDown = TRUE]
      BY <1>2, Closing
    <3> QED BY <1>6, <3>1
  <2>2. client' \in ClientStates
    BY <1>2, <2>1 DEF ClientStates
  <2>3. /\ client'.loop = "stopping" /\ client'.shuttingDown
        /\ \A x \in {"transport", "input", "startup", "ticks", "reconnecting", "quit", "selected",
                     "flow", "context", "endpoint", "binding", "late"} :
             client'[x] = client[x]
    BY <1>2, <1>3, <2>1 DEF ClientStates
  <2>4. ClientInv(client')
    BY <1>0, <2>2, <2>3 DEF ClientInv
  <2> QED BY <1>0, <2>4 DEF StaysQuit
<1> QED BY <1>4, <1>5, <1>6

LEMMA StopReaderInv ==
  ASSUME NEW c, ClientInv(c)
  PROVE  /\ ClientInv(StopReader(c)) /\ StopReader(c).input \in {"none", "stopped"}
         /\ StopReader(c).endpoint = c.endpoint /\ StopReader(c).quit = c.quit
         /\ StopReader(c).reconnecting = c.reconnecting /\ StopReader(c).loop = c.loop
<1> DEFINE d == StopReader(c)
<1>0. c \in ClientStates
  BY DEF ClientInv
<1>1. d \in ClientStates
  BY <1>0 DEF StopReader, ClientStates
<1>2. /\ d.input = IF c.input = "none" THEN "none" ELSE "stopped"
      /\ \A x \in {"transport", "loop", "startup", "ticks", "reconnecting", "quit", "selected",
                   "flow", "context", "endpoint", "binding", "shuttingDown", "late"} :
           d[x] = c[x]
  BY <1>0 DEF StopReader, ClientStates
<1> HIDE DEF d
<1>3. ClientInv(d)
  BY <1>0, <1>1, <1>2 DEF ClientInv
<1> QED BY <1>2, <1>3 DEF d

LEMMA ReaderUnobservedInv ==
  ASSUME ClientInv(client), ReaderUnobserved
  PROVE  ClientInv(client') /\ StaysQuit(client, client')
<1>1. client' = StopReader(client) /\ Reading(client)
  BY DEF ReaderUnobserved, ClientBecomes
<1>2. ~client.quit
  BY <1>1, QuitStaysQuit
<1> QED BY <1>1, <1>2, StopReaderInv DEF StaysQuit

LEMMA ClientLoopReturnsInv ==
  ASSUME ClientInv(client), ClientLoopReturns
  PROVE  ClientInv(client') /\ StaysQuit(client, client')
<1>0. /\ client \in ClientStates /\ client.loop = "stopping"
      /\ client' = [client EXCEPT !.loop = "returned"]
  BY DEF ClientInv, ClientLoopReturns, ClientBecomes
<1>1. client' \in ClientStates
  BY <1>0 DEF ClientStates
<1>2. /\ client'.loop = "returned"
      /\ \A x \in {"transport", "input", "startup", "ticks", "reconnecting", "quit", "selected",
                   "flow", "context", "endpoint", "binding", "shuttingDown", "late"} :
           client'[x] = client[x]
  BY <1>0 DEF ClientStates
<1>3. ClientInv(client')
  BY <1>0, <1>1, <1>2 DEF ClientInv
<1> QED BY <1>2, <1>3, QuitStaysQuit DEF StaysQuit

LEMMA CleanUpInv ==
  ASSUME ClientInv(client), CleanUp
  PROVE  ClientInv(client') /\ StaysQuit(client, client')
<1> DEFINE r == StopReader(client)
           t == TerminateFlow(r)
           s == ShutDown(t)
<1>0. client.loop = "returned" /\ client' = [s EXCEPT !.loop = "exited", !.reconnecting = FALSE]
  BY DEF CleanUp, ClientBecomes
<1>1. /\ ClientInv(r) /\ r.input \in {"none", "stopped"}
      /\ r.endpoint = client.endpoint /\ r.quit = client.quit /\ r.loop = "returned"
  BY <1>0, StopReaderInv
<1>2. r \in ClientStates
  BY <1>1 DEF ClientInv
<1> HIDE DEF r
<1>3. PICK g \in [Flows -> FlowStates] :
         /\ t = [r EXCEPT !.flow = g]
         /\ \A f \in Flows : g[f] \in {"active", "terminating"}
                               => r.flow[f] \in {"active", "terminating"}
  BY <1>2, Terminating
<1> HIDE DEF t
<1>4. t \in ClientStates
  BY <1>2, <1>3 DEF ClientStates, FlowStates
<1>5. PICK d \in SUBSET Flows, e \in SUBSET Flows :
        s = [t EXCEPT !.disconnecting = d, !.closing = e, !.shuttingDown = TRUE]
  BY <1>4, Closing
<1> HIDE DEF s
<1>6. s \in ClientStates
  BY <1>4, <1>5 DEF ClientStates
<1>7. client' \in ClientStates
  BY <1>0, <1>6 DEF ClientStates
<1>8. /\ \A x \in {"transport", "input", "startup", "ticks", "quit", "selected",
                   "context", "endpoint", "binding", "late"} :
           t[x] = r[x] /\ s[x] = t[x] /\ client'[x] = s[x]
      /\ client'.loop = "exited" /\ ~client'.reconnecting
      /\ s.shuttingDown /\ client'.shuttingDown
      /\ t.flow = g /\ s.flow = g /\ client'.flow = g
  BY <1>0, <1>2, <1>3, <1>4, <1>5, <1>6 DEF ClientStates
<1>9. ClientInv(client')
  BY <1>1, <1>3, <1>7, <1>8 DEF ClientInv
<1>10. r.quit => r.input = "stopped"
  BY <1>1 DEF ClientInv
<1> QED BY <1>1, <1>8, <1>9, <1>10 DEF StaysQuit

LEMMA ClientStep ==
  ASSUME BridgeClientAssumption, ClientInv(client), [ClientNext]_client
  PROVE  ClientInv(client') /\ StaysQuit(client, client')
<1>1. CASE client' = client
  BY <1>1, QuitStaysQuit DEF StaysQuit
<1>2. CASE BeginInput
  BY <1>2, BeginInputInv
<1>3. CASE StartupTick
  BY <1>3, StartupTickInv
<1>4. CASE ReconnectTick
  BY <1>4, ReconnectTickInv
<1>5. CASE ReadEvent
  BY <1>5, ReadEventInv
<1>6. ASSUME NEW f \in Flows,
             \/ OpenContext(f) \/ StreamConnected(f) \/ SubProtocolConnected(f)
             \/ FrameRejected(f) \/ ContextEnds(f) \/ FlowTerminates(f)
      PROVE  ClientInv(client') /\ StaysQuit(client, client')
  BY <1>6, OpenContextInv, StreamConnectedInv, SubProtocolConnectedInv,
     FrameRejectedInv, ContextEndsInv, FlowTerminatesInv
<1>7. CASE Signal
  BY <1>7, SignalInv
<1>8. CASE ReaderUnobserved
  BY <1>8, ReaderUnobservedInv
<1>9. CASE ClientLoopReturns
  BY <1>9, ClientLoopReturnsInv
<1>10. CASE CleanUp
  BY <1>10, CleanUpInv
<1> QED BY <1>1, <1>2, <1>3, <1>4, <1>5, <1>6, <1>7, <1>8, <1>9, <1>10 DEF ClientNext

(* The bridge client is what its types say.                                *)
THEOREM ClientTypeCorrect == ClientSpec => []ClientTypeOK
<1>1. ClientInv(client) => ClientTypeOK
  BY DEF ClientInv, ClientTypeOK
<1>2. ClientInit => ClientInv(client)
  BY ClientInitInv, BridgeClientAssumption
<1>3. ClientInv(client) /\ [ClientNext]_client => ClientInv(client)'
  BY ClientStep, BridgeClientAssumption
<1> QED BY <1>1, <1>2, <1>3, PTL DEF ClientSpec

(* However reconnects, quits and the ends of connections meet, the client  *)
(* has one transport, and none after a quit: whatever the number of flows  *)
(* and however many lines one read hands over.                             *)
THEOREM ClientInControl == ClientSpec => ClientIsInControl
<1>1. ClientInv(client) => TransportsDoNotOverlap
  BY DEF ClientInv, TransportsDoNotOverlap, ClientStates
<1>2. ClientInit => ClientInv(client)
  BY ClientInitInv, BridgeClientAssumption
<1>3. ClientInv(client) /\ [ClientNext]_client => ClientInv(client)'
  BY ClientStep, BridgeClientAssumption
<1>4. ClientInv(client) /\ [ClientNext]_client =>
        [/\ ~client'.late
         /\ client.quit =>
              /\ client'.quit /\ client'.input = "stopped" /\ ~client'.reconnecting
              /\ client'.endpoint \in {client.endpoint, NoFlow}]_client
  <2> SUFFICES ASSUME ClientInv(client), [ClientNext]_client
               PROVE  /\ ~client'.late
                      /\ client.quit =>
                           /\ client'.quit /\ client'.input = "stopped" /\ ~client'.reconnecting
                           /\ client'.endpoint \in {client.endpoint, NoFlow}
    OBVIOUS
  <2>1. ClientInv(client') /\ StaysQuit(client, client')
    BY ClientStep, BridgeClientAssumption
  <2> QED BY <2>1 DEF ClientInv, StaysQuit
<1> QED BY <1>1, <1>2, <1>3, <1>4, PTL DEF ClientSpec, ClientIsInControl, QuitIsFinal

-----------------------------------------------------------------------------
(* HttpTransport                                                           *)

(* Beside its type: a POST is done when its end was told, nothing was told *)
(* late or sent to the wrong peer, a completed response is whole, and a    *)
(* body is read, or ended by its connection, only behind its headers.      *)
PostInv(p) ==
  /\ p \in Posts
  /\ p.done <=> p.outcome # "none"
  /\ ~p.late /\ ~p.misled
  /\ p.outcome = "completed" => p.whole /\ p.headers
  /\ p.received = p.bytes
  /\ p.parser = "body" \/ p.framing = "close" => p.headers

(* What a callback, and each call within one, may do to what was promised: *)
(* it goes on as long as there was no end.                                 *)
Advances(p, q) ==
  /\ p.headers => q.headers
  /\ p.bytes <= q.bytes
  /\ p.bytes < q.bytes => q.headers
  /\ p.outcome # "none" =>
       /\ q.headers => p.headers
       /\ q.bytes = p.bytes
       /\ q.outcome = p.outcome
Kept(p, q) == PostInv(q) /\ Advances(p, q)

(* What is in between of the same promise.                                 *)
SamePromise(p, q) ==
  /\ q \in Posts
  /\ p.headers <=> q.headers
  /\ q.bytes = p.bytes /\ q.received = p.received
  /\ q.parser = p.parser /\ q.framing = p.framing
  /\ p.misled <=> q.misled
SameEnd(p, q) ==
  /\ p.done <=> q.done
  /\ q.outcome = p.outcome
  /\ p.late <=> q.late
  /\ p.whole <=> q.whole

LEMMA GoodStays ==
  ASSUME NEW p, PostInv(p)
  PROVE  Kept(p, p)
BY HttpAssumption DEF PostInv, Advances, Kept, Posts

LEMMA GoodTrans ==
  ASSUME NEW p, NEW q, NEW r, PostInv(p), Kept(p, q), Kept(q, r)
  PROVE  Kept(p, r)
<1>1. PostInv(r)
  BY DEF Kept
<1>2. /\ p.bytes \in Nat /\ q.bytes \in Nat /\ r.bytes \in Nat
      /\ p.headers \in BOOLEAN /\ q.headers \in BOOLEAN /\ r.headers \in BOOLEAN
  BY DEF Kept, PostInv, Posts
<1>3. Advances(p, r)
  BY <1>2 DEF Kept, Advances
<1> QED
  BY <1>1, <1>3 DEF Kept

LEMMA CloseSame ==
  ASSUME NEW p \in Posts
  PROVE  SamePromise(p, ClosePost(p)) /\ SameEnd(p, ClosePost(p))
BY DEF Posts, ClosePost, SamePromise, SameEnd

LEMMA CloseGood ==
  ASSUME NEW p, PostInv(p)
  PROVE  Kept(p, ClosePost(p))
BY CloseSame DEF PostInv, Advances, Kept, SamePromise, SameEnd, Posts

(* A field that promises nothing.                                          *)
LEMMA SameGood ==
  ASSUME NEW p, PostInv(p), NEW q, SamePromise(p, q), SameEnd(p, q)
  PROVE  Kept(p, q)
BY DEF PostInv, Advances, Kept, SamePromise, SameEnd, Posts

LEMMA CarriedGood ==
  ASSUME NEW p, PostInv(p),
         NEW c \in {"none", "dialing", "made", "connected"},
         NEW closes \in BOOLEAN, NEW stopped \in BOOLEAN
  PROVE  Kept(p, [p EXCEPT !.context = c, !.closing = closes, !.stopped = stopped])
<1> DEFINE q == [p EXCEPT !.context = c, !.closing = closes, !.stopped = stopped]
<1>1. SamePromise(p, q) /\ SameEnd(p, q)
  BY ZenonT(40) DEF PostInv, Posts, SamePromise, SameEnd
<1> QED
  BY <1>1, SameGood

(* The end is told once, and may be "completed" when all of it has come.   *)
LEMMA EndGood ==
  ASSUME NEW p, PostInv(p), NEW how \in {"completed", "error"},
         ~p.done /\ how = "completed" => p.whole /\ p.headers
  PROVE  Kept(p, EndPost(p, how)) /\ EndPost(p, how).done
<1> DEFINE q == [p EXCEPT !.done = TRUE, !.outcome = how,
                          !.late = @ \/ p.outcome # "none"]
<1>1. CASE p.done
  BY <1>1, GoodStays DEF EndPost
<1>2. CASE ~p.done
  <2>1. q \in Posts /\ q.done /\ q.outcome = how /\ ~q.late
    BY <1>2 DEF PostInv, Posts
  <2>2. /\ q.headers <=> p.headers
        /\ q.whole <=> p.whole
        /\ q.misled <=> p.misled
        /\ q.bytes = p.bytes /\ q.received = p.received
        /\ q.parser = p.parser /\ q.framing = p.framing
    BY <1>2 DEF PostInv, Posts
  <2>3. PostInv(q)
    BY <1>2, <2>1, <2>2 DEF PostInv
  <2>4. p.outcome = "none" /\ p.bytes \in Nat
    BY <1>2 DEF PostInv, Posts
  <2>5. Advances(p, q)
    BY <2>2, <2>4 DEF Advances
  <2>6. SameEnd(q, ClosePost(q)) /\ Kept(q, ClosePost(q))
    BY <2>1, <2>3, CloseSame, CloseGood
  <2>7. Kept(p, ClosePost(q)) /\ ClosePost(q).done
    BY <2>1, <2>3, <2>5, <2>6, GoodTrans DEF Kept, SameEnd
  <2> QED
    BY <1>2, <2>7 DEF EndPost
<1> QED
  BY <1>1, <1>2

LEMMA FailGood ==
  ASSUME NEW p, PostInv(p)
  PROVE  Kept(p, FailPost(p)) /\ FailPost(p).done
BY EndGood DEF FailPost

LEMMA CompleteGood ==
  ASSUME NEW p, PostInv(p), ~p.done => p.whole /\ p.headers
  PROVE  Kept(p, CompletePost(p))
BY EndGood DEF CompletePost

LEMMA CancelGood ==
  ASSUME NEW p, PostInv(p)
  PROVE  Kept(p, CancelPost(p)) /\ CancelPost(p).done
<1> DEFINE how == IF p.outcome = "none" THEN "cancelled" ELSE p.outcome
           q == [p EXCEPT !.done = TRUE,
                          !.outcome = IF @ = "none" THEN "cancelled" ELSE @]
<1>1. q \in Posts /\ q.done /\ q.outcome = how
  BY DEF PostInv, Posts
<1>2. /\ q.headers <=> p.headers
      /\ q.whole <=> p.whole
      /\ q.misled <=> p.misled
      /\ q.late <=> p.late
      /\ q.bytes = p.bytes /\ q.received = p.received
      /\ q.parser = p.parser /\ q.framing = p.framing
  BY DEF PostInv, Posts
<1>3. PostInv(q)
  BY <1>1, <1>2 DEF PostInv
<1>4. p.bytes \in Nat
  BY DEF PostInv, Posts
<1>5. Advances(p, q)
  BY <1>1, <1>2, <1>4 DEF Advances
<1>6. SameEnd(q, ClosePost(q)) /\ Kept(q, ClosePost(q))
  BY <1>1, <1>3, CloseSame, CloseGood
<1> DEFINE r == ClosePost(q)
<1>7. Kept(p, r) /\ r.done /\ PostInv(r)
  BY <1>1, <1>3, <1>5, <1>6, GoodTrans DEF Kept, SameEnd
<1> HIDE DEF r
<1>8. SamePromise(r, [r EXCEPT !.stopped = TRUE]) /\ SameEnd(r, [r EXCEPT !.stopped = TRUE])
  BY <1>7 DEF PostInv, Posts, SamePromise, SameEnd
<1>9. Kept(p, [r EXCEPT !.stopped = TRUE]) /\ [r EXCEPT !.stopped = TRUE].done
  BY <1>7, <1>8, SameGood, GoodTrans DEF SameEnd
<1> QED
  BY <1>9 DEF CancelPost, r

LEMMA ReactGood ==
  ASSUME NEW p, PostInv(p), NEW q \in Reactions(p)
  PROVE  Kept(p, q) /\ (q = p \/ q.done)
BY GoodStays, CancelGood DEF Reactions

(* What the framing says of a body outlasts a piece of it, unless the      *)
(* receiver is done.                                                       *)
SameBody(p, q) ==
  /\ q.framing = p.framing /\ q.remaining = p.remaining
  /\ q.whole <=> p.whole

LEMMA ReceiveGood ==
  ASSUME NEW p, PostInv(p), NEW n \in Nat, NEW q \in ReceiveData(p, n), p.headers
  PROVE  Kept(p, q) /\ (q.done \/ SameBody(p, q))
<1>1. CASE p.done
  BY <1>1, GoodStays DEF ReceiveData
<1>2. CASE ~p.done /\ n > MaximumResponseBytes - p.received
  <2>1. q = FailPost(p)
    BY <1>2 DEF ReceiveData
  <2> QED
    BY <2>1, FailGood
<1>3. CASE ~p.done /\ n = 0
  <2>1. ~(n > MaximumResponseBytes - p.received)
    BY <1>3, HttpAssumption DEF PostInv, Posts
  <2> QED
    BY <1>3, <2>1, GoodStays DEF ReceiveData, SameBody
<1>4. CASE ~p.done /\ ~(n > MaximumResponseBytes - p.received) /\ n # 0
  <2> DEFINE r == [p EXCEPT !.received = @ + n, !.bytes = @ + n,
                            !.late = @ \/ p.outcome # "none"]
  <2>1. p.outcome = "none" /\ p.bytes \in Nat /\ p.received = p.bytes
    BY <1>4 DEF PostInv, Posts
  <2>2. p.received + n \in 0 .. MaximumResponseBytes
    BY <1>4, HttpAssumption DEF PostInv, Posts
  <2>3. r \in Posts /\ r.bytes = p.bytes + n /\ r.received = p.received + n /\ ~r.late
    <3>1. p \in Posts /\ p.bytes + n \in Nat
      BY <2>1 DEF PostInv
    <3>2. r.bytes = p.bytes + n /\ r.received = p.received + n /\ ~r.late
      BY <2>1, <3>1 DEF PostInv, Posts
    <3>3. r \in Posts
      BY <2>2, <3>1 DEF Posts
    <3> QED
      BY <3>2, <3>3
  <2>4. /\ r.headers <=> p.headers
        /\ r.whole <=> p.whole
        /\ r.misled <=> p.misled
        /\ r.done <=> p.done
        /\ r.outcome = p.outcome /\ r.remaining = p.remaining
        /\ r.parser = p.parser /\ r.framing = p.framing
    BY DEF PostInv, Posts
  <2>5. PostInv(r) /\ SameBody(p, r)
    BY <2>1, <2>3, <2>4 DEF PostInv, SameBody
  <2>6. Advances(p, r)
    BY <2>1, <2>3, <2>4 DEF Advances
  <2>7. q \in Reactions(r)
    BY <1>4 DEF ReceiveData
  <2> HIDE DEF r
  <2>8. Kept(r, q) /\ (q = r \/ q.done)
    BY <2>5, <2>7, ReactGood
  <2> QED
    BY <2>5, <2>6, <2>8, GoodTrans DEF Kept
<1> QED
  BY <1>1, <1>2, <1>3, <1>4

(* The parser stops before it tells an end.                                *)
LEMMA OverGood ==
  ASSUME NEW p, PostInv(p)
  PROVE  LET q == [p EXCEPT !.parser = "over"]
         IN Kept(p, q) /\ SameEnd(p, q) /\ (p.headers <=> q.headers)
<1> DEFINE q == [p EXCEPT !.parser = "over"]
<1>1. q \in Posts /\ q.parser = "over" /\ q.framing = p.framing
  BY DEF PostInv, Posts
<1>2. SameEnd(p, q) /\ (p.headers <=> q.headers)
  BY DEF PostInv, Posts, SameEnd
<1>3. /\ q.misled <=> p.misled
      /\ q.bytes = p.bytes /\ q.received = p.received /\ p.bytes \in Nat
  BY DEF PostInv, Posts
<1>4. PostInv(q) /\ Advances(p, q)
  BY <1>1, <1>2, <1>3 DEF PostInv, Advances, SameEnd
<1> QED
  BY <1>2, <1>4 DEF Kept

LEMMA ParseErrorGood ==
  ASSUME NEW p, PostInv(p)
  PROVE  Kept(p, ParseError(p))
<1> DEFINE q == [p EXCEPT !.parser = "over"]
<1>1. Kept(p, q) /\ PostInv(q)
  BY OverGood DEF Kept
<1> HIDE DEF q
<1>2. Kept(q, FailPost(q))
  BY <1>1, FailGood
<1> QED
  BY <1>1, <1>2, GoodTrans DEF ParseError, q

LEMMA FinishedGood ==
  ASSUME NEW p, PostInv(p), ~p.done => p.whole /\ p.headers
  PROVE  Kept(p, ParsingFinished(p))
<1> DEFINE q == [p EXCEPT !.parser = "over"]
<1>1. Kept(p, q) /\ PostInv(q) /\ (~q.done => q.whole /\ q.headers)
  BY OverGood DEF Kept, SameEnd
<1> HIDE DEF q
<1>2. Kept(q, CompletePost(q))
  BY <1>1, CompleteGood
<1> QED
  BY <1>1, <1>2, GoodTrans DEF ParsingFinished, q

(* How a body will be read is decided behind its headers.                  *)
SameButBody(p, q) ==
  /\ q \in Posts
  /\ p.headers <=> q.headers
  /\ q.bytes = p.bytes /\ q.received = p.received
  /\ p.misled <=> q.misled
  /\ p.late <=> q.late
  /\ p.done <=> q.done
  /\ q.outcome = p.outcome

LEMMA BodyGood ==
  ASSUME NEW p, PostInv(p), p.headers, ~p.done, NEW q, SameButBody(p, q)
  PROVE  Kept(p, q) /\ ~q.done /\ q.headers
<1>1. p.outcome = "none" /\ p.bytes \in Nat
  BY DEF PostInv, Posts
<1>2. PostInv(q) /\ Advances(p, q)
  BY <1>1 DEF PostInv, Advances, SameButBody
<1> QED
  BY <1>2 DEF Kept, SameButBody

LEMMA HeadersGood ==
  ASSUME NEW p, PostInv(p), ~p.done,
         NEW framing \in {"length", "chunked", "close"},
         NEW q \in TellHeaders(p, framing)
  PROVE  Kept(p, q) /\ q.headers
<1> DEFINE r == [p EXCEPT !.framing = framing, !.headers = TRUE]
<1>1. r \in Posts /\ r.headers
  BY DEF PostInv, Posts
<1>2. /\ r.misled <=> p.misled
      /\ r.done <=> p.done
      /\ r.late <=> p.late
      /\ r.whole <=> p.whole
      /\ r.outcome = p.outcome
      /\ r.bytes = p.bytes /\ r.received = p.received /\ p.bytes \in Nat
  BY DEF PostInv, Posts
<1>3. PostInv(r) /\ Advances(p, r)
  BY <1>1, <1>2 DEF PostInv, Advances
<1>4. q \in Reactions(r)
  BY DEF TellHeaders
<1> HIDE DEF r
<1>5. Kept(r, q)
  BY <1>3, <1>4, ReactGood
<1> QED
  BY <1>1, <1>3, <1>5, GoodTrans DEF Kept, Advances

LEMMA AnalyzeGood ==
  ASSUME NEW p, PostInv(p), ~p.done,
         NEW framing \in {"length", "chunked", "close"}, NEW length \in Nat,
         NEW q \in AnalyzeHeader(p, framing, length)
  PROVE  Kept(p, q)
<1>1. PICK r \in TellHeaders(p, framing) :
        \/ q = ParseError(r)
        \/ r.done /\ q = [r EXCEPT !.parser = "over"]
        \/ ~r.done /\ q = [r EXCEPT !.parser = "body"]
        \/ ~r.done /\ q = [r EXCEPT !.parser = "body", !.remaining = length]
        \/ ~r.done /\ q = ParsingFinished([r EXCEPT !.whole = TRUE])
  BY DEF AnalyzeHeader
<1>2. Kept(p, r) /\ r.headers /\ PostInv(r)
  BY HeadersGood DEF Kept
<1>3. r \in Posts
  BY <1>2 DEF PostInv
<1>4. Kept(r, q)
  <2>1. CASE q = ParseError(r)
    BY <1>2, <2>1, ParseErrorGood
  <2>2. CASE r.done /\ q = [r EXCEPT !.parser = "over"]
    BY <1>2, <2>2, OverGood
  <2>3. CASE ~r.done /\ q = [r EXCEPT !.parser = "body"]
    <3>1. SameButBody(r, q)
      BY <1>3, <2>3 DEF SameButBody, Posts
    <3> QED
      BY <1>2, <2>3, <3>1, BodyGood
  <2>4. CASE ~r.done /\ q = [r EXCEPT !.parser = "body", !.remaining = length]
    <3>1. SameButBody(r, q)
      BY <1>3, <2>4 DEF SameButBody, Posts
    <3> QED
      BY <1>2, <2>4, <3>1, BodyGood
  <2>5. CASE ~r.done /\ q = ParsingFinished([r EXCEPT !.whole = TRUE])
    <3> DEFINE w == [r EXCEPT !.whole = TRUE]
    <3>1. SameButBody(r, w) /\ w.whole
      BY <1>3 DEF SameButBody, Posts
    <3> HIDE DEF w
    <3>2. Kept(r, w) /\ w.headers
      BY <1>2, <2>5, <3>1, BodyGood
    <3>3. Kept(w, ParsingFinished(w))
      BY <3>1, <3>2, FinishedGood DEF Kept
    <3> QED
      BY <1>2, <2>5, <3>2, <3>3, GoodTrans DEF w
  <2> QED
    BY <1>1, <2>1, <2>2, <2>3, <2>4, <2>5
<1> QED
  BY <1>2, <1>4, GoodTrans

(* A body of some length is whole when nothing of it remains.              *)
LEMMA TakesGood ==
  ASSUME NEW p, PostInv(p), ~p.done, p.parser = "body",
         NEW n \in Nat, NEW last \in BOOLEAN,
         p.framing = "length" => n \in 1 .. p.remaining
  PROVE  LET q == Takes(p, n, last)
         IN Kept(p, q) /\ q.headers /\ (Complete(q) => q.whole)
<1> DEFINE remaining == IF p.framing = "length" THEN p.remaining - n ELSE p.remaining
           whole == IF p.framing = "length" THEN n = p.remaining
                    ELSE p.framing = "chunked" /\ last
           q == Takes(p, n, last)
<1>1. p \in Posts /\ p.headers /\ p.remaining \in Nat
  BY DEF PostInv, Posts
<1>2. remaining \in Nat
  BY <1>1
<1>3. whole \in BOOLEAN
  OBVIOUS
<1>4. q = [p EXCEPT !.remaining = remaining, !.whole = whole]
  BY DEF Takes
<1>5. q.framing = p.framing /\ q.remaining = remaining /\ (q.whole <=> whole)
  BY <1>1, <1>2, <1>3, <1>4 DEF Posts
<1> HIDE DEF remaining, whole
<1>6. SameButBody(p, q)
  BY <1>1, <1>2, <1>3, <1>4 DEF SameButBody, Posts
<1>7. Kept(p, q) /\ q.headers
  BY <1>1, <1>6, BodyGood
<1>8. Complete(q) => q.whole
  BY <1>1, <1>5 DEF Complete, remaining, whole
<1> QED
  BY <1>7, <1>8

LEMMA ReadBodyGood ==
  ASSUME NEW p, PostInv(p), ~p.done, p.parser = "body",
         NEW n \in Nat, NEW last \in BOOLEAN,
         p.framing = "length" => n \in 1 .. p.remaining,
         NEW q \in ReadBody(p, n, last)
  PROVE  Kept(p, q)
<1> DEFINE t == Takes(p, n, last)
<1>1. Kept(p, t) /\ t.headers /\ (Complete(t) => t.whole) /\ PostInv(t)
  BY TakesGood DEF Kept
<1>2. PICK r \in ReceiveData(t, n) :
        q = IF Complete(r) THEN ParsingFinished(r) ELSE r
  BY DEF ReadBody
<1> HIDE DEF t
<1>3. Kept(t, r) /\ (r.done \/ SameBody(t, r)) /\ PostInv(r)
  BY <1>1, ReceiveGood DEF Kept
<1>4. r.headers
  BY <1>1, <1>3 DEF Kept, Advances
<1>5. Complete(r) /\ ~r.done => r.whole
  BY <1>1, <1>3 DEF SameBody, Complete
<1>6. Kept(r, q)
  BY <1>2, <1>3, <1>4, <1>5, FinishedGood, GoodStays
<1> QED
  BY <1>1, <1>3, <1>6, GoodTrans

(* The end of the connection ends a body that is read until there.         *)
LEMMA DisconnectedGood ==
  ASSUME NEW p, PostInv(p)
  PROVE  Kept(p, Disconnected(p))
<1>1. CASE p.framing = "close"
  <2> DEFINE q == [p EXCEPT !.whole = p.headers]
  <2>1. p.headers /\ p \in Posts
    BY <1>1 DEF PostInv
  <2>2. q \in Posts /\ q.whole
    BY <2>1 DEF Posts
  <2>3. /\ q.headers <=> p.headers
        /\ q.misled <=> p.misled
        /\ q.done <=> p.done
        /\ q.late <=> p.late
        /\ q.outcome = p.outcome /\ q.parser = p.parser /\ q.framing = p.framing
        /\ q.bytes = p.bytes /\ q.received = p.received /\ p.bytes \in Nat
    BY <2>1 DEF Posts
  <2>4. PostInv(q) /\ Advances(p, q)
    BY <2>1, <2>2, <2>3 DEF PostInv, Advances
  <2> HIDE DEF q
  <2>5. Kept(q, CompletePost(q))
    BY <2>1, <2>2, <2>3, <2>4, CompleteGood
  <2> QED
    BY <1>1, <2>4, <2>5, GoodTrans DEF Disconnected, Kept, q
<1>2. CASE p.framing # "close"
  BY <1>2, FailGood DEF Disconnected
<1> QED
  BY <1>1, <1>2

(* Nothing is sent for somebody who is done, or to who is not verified.    *)
LEMMA ConnectsGood ==
  ASSUME NEW p, PostInv(p), NEW verified \in BOOLEAN
  PROVE  Kept(p, ContextConnects(p, verified))
<1> DEFINE q == [p EXCEPT !.context = "connected"]
           r == IF verified THEN q ELSE FailPost(q)
<1>1. SamePromise(p, q) /\ SameEnd(p, q)
  BY DEF PostInv, Posts, SamePromise, SameEnd
<1>2. Kept(p, q) /\ PostInv(q)
  BY <1>1, SameGood DEF Kept
<1> HIDE DEF q
<1>3. Kept(q, r) /\ PostInv(r) /\ (verified \/ r.done)
  BY <1>2, FailGood, GoodStays DEF Kept
<1> HIDE DEF r
<1>4. Kept(r, SendRequest(r, verified))
  <2>1. CASE r.done
    BY <1>3, <2>1, CloseGood DEF SendRequest
  <2>2. CASE ~r.done
    <3> DEFINE t == [r EXCEPT !.misled = @ \/ ~verified]
    <3>1. SamePromise(r, t) /\ SameEnd(r, t)
      BY <1>3, <2>2 DEF PostInv, Posts, SamePromise, SameEnd
    <3>2. SendRequest(r, verified) = t
      BY <2>2 DEF SendRequest
    <3> QED
      BY <1>3, <3>1, <3>2, SameGood
  <2> QED
    BY <2>1, <2>2
<1> QED
  BY <1>2, <1>3, <1>4, GoodTrans DEF ContextConnects, q, r

HttpInv == PostInv(post)

LEMMA HttpStarts ==
  ASSUME HttpInit
  PROVE  HttpInv
<1>1. PICK tls \in BOOLEAN : post = NewPost(tls)
  BY DEF HttpInit
<1> QED
  BY <1>1, HttpAssumption DEF HttpInv, PostInv, Posts, NewPost

LEMMA HttpStep ==
  ASSUME HttpInv, HttpNext
  PROVE  Kept(post, post')
<1> DEFINE p == post
           Carried(c, closes, stopped) ==
             [p EXCEPT !.context = c, !.closing = closes, !.stopped = stopped]
<1>1. PostInv(p) /\ p \in Posts
  BY DEF HttpInv, PostInv
<1>2. p.closing \in BOOLEAN /\ p.stopped \in BOOLEAN
  BY <1>1 DEF Posts
<1>3. CASE PostRequest
  <2>1. CASE p' = FailPost(p)
    BY <1>1, <2>1, FailGood
  <2>2. CASE p' = [p EXCEPT !.context = "dialing"]
    <3>1. p' = Carried("dialing", p.closing, p.stopped)
      BY <1>1, <2>2 DEF Posts
    <3> QED
      BY <1>1, <1>2, <3>1, CarriedGood
  <2> QED
    BY <1>3, <2>1, <2>2 DEF PostRequest, PostBecomes
<1>4. CASE DialFails
  <2> DEFINE q == [p EXCEPT !.context = "none", !.stopped = TRUE]
  <2>1. q = Carried("none", p.closing, TRUE)
    BY <1>1 DEF Posts
  <2>2. Kept(p, q) /\ PostInv(q)
    BY <1>1, <1>2, <2>1, CarriedGood DEF Kept
  <2>3. p' = FailPost(q)
    BY <1>4 DEF DialFails, PostBecomes
  <2> HIDE DEF q
  <2> QED
    BY <1>1, <2>2, <2>3, FailGood, GoodTrans
<1>5. CASE MakeContext
  <2>1. p' = Carried("made", p.closing, p.stopped)
    BY <1>1, <1>5 DEF MakeContext, PostBecomes, Posts
  <2> QED
    BY <1>1, <1>2, <2>1, CarriedGood
<1>6. CASE ConnectContext
  BY <1>1, <1>6, ConnectsGood DEF ConnectContext, PostBecomes
<1>7. CASE ReadResponse
  <2>1. ~p.done
    BY <1>7 DEF ReadResponse
  <2>2. CASE PostBecomes({ParseError(p)})
    BY <1>1, <2>2, ParseErrorGood DEF PostBecomes
  <2>3. ASSUME NEW framing \in {"length", "chunked", "close"},
               NEW length \in 0 .. MaximumResponseBytes + 1,
               PostBecomes(AnalyzeHeader(p, framing, length))
        PROVE  Kept(p, p')
    <3>1. length \in Nat /\ p' \in AnalyzeHeader(p, framing, length)
      BY <2>3, HttpAssumption DEF PostBecomes
    <3> QED
      BY <1>1, <2>1, <3>1, AnalyzeGood
  <2>4. ASSUME NEW n \in 0 .. MaximumResponseBytes + 1, NEW last \in BOOLEAN,
               p.parser = "body", p.framing = "length" => n \in 1 .. p.remaining,
               PostBecomes(ReadBody(p, n, last))
        PROVE  Kept(p, p')
    <3>1. n \in Nat /\ p' \in ReadBody(p, n, last)
      BY <2>4, HttpAssumption DEF PostBecomes
    <3> QED
      BY <1>1, <2>1, <2>4, <3>1, ReadBodyGood
  <2> QED
    BY <1>7, <2>2, <2>3, <2>4 DEF ReadResponse
<1>8. CASE TransportFails
  BY <1>1, <1>8, FailGood, DisconnectedGood DEF TransportFails, PostBecomes, FailsToRead
<1>9. CASE PostDisconnects
  <2> DEFINE q == [p EXCEPT !.context = "none", !.closing = FALSE, !.stopped = TRUE]
  <2>1. Kept(p, q) /\ PostInv(q)
    BY <1>1, CarriedGood DEF Kept
  <2>2. p' = FailPost(Disconnected(q))
    BY <1>9 DEF PostDisconnects, PostBecomes
  <2> HIDE DEF q
  <2>3. Kept(q, Disconnected(q)) /\ PostInv(Disconnected(q))
    BY <2>1, DisconnectedGood DEF Kept
  <2>4. Kept(Disconnected(q), p')
    BY <2>2, <2>3, FailGood
  <2>5. Kept(p, Disconnected(q))
    BY <1>1, <2>1, <2>3, GoodTrans
  <2> QED
    BY <1>1, <2>4, <2>5, GoodTrans
<1>10. CASE CancelRequest
  BY <1>1, <1>10, CancelGood DEF CancelRequest, PostBecomes
<1> QED
  BY <1>3, <1>4, <1>5, <1>6, <1>7, <1>8, <1>9, <1>10 DEF HttpNext

LEMMA HttpInvHolds == HttpSpec => []HttpInv
<1>1. HttpInv /\ [HttpNext]_post => HttpInv'
  <2>1. ASSUME HttpInv, HttpNext
        PROVE  HttpInv'
    BY <2>1, HttpStep DEF Kept, HttpInv
  <2> QED
    BY <2>1 DEF HttpInv
<1> QED
  BY <1>1, HttpStarts, PTL DEF HttpSpec

(* The variable of HttpTransport keeps its type, whatever the limit of a   *)
(* response.                                                               *)
THEOREM HttpTypeCorrect == HttpSpec => []HttpTypeOK
<1>1. HttpInv => HttpTypeOK
  BY DEF HttpInv, HttpTypeOK, PostInv
<1> QED
  BY <1>1, HttpInvHolds, PTL

(* A response is completed only when its body has come, its end is told    *)
(* once, and its request goes to no peer that was not verified: through    *)
(* every order of reads, errors, cancellations and disconnections.         *)
THEOREM WholeResponses == HttpSpec => []ResponsesAreWhole
<1>1. HttpInv => ResponsesAreWhole
  BY DEF HttpInv, ResponsesAreWhole, PostInv
<1> QED
  BY <1>1, HttpInvHolds, PTL

(* What the client tells its receiver is the contract of StreamingClient.h:*)
(* each callback of the connection is one step of it, or tells nothing.    *)
THEOREM ContractKept == HttpSpec => KeepsContract
<1>1. HttpInit => Contract!Init
  <2>1. ASSUME HttpInit
        PROVE  Contract!Init
    <3>1. PICK tls \in BOOLEAN : post = NewPost(tls)
      BY <2>1 DEF HttpInit
    <3> QED
      BY <3>1 DEF NewPost, Contract!Init
  <2> QED
    BY <2>1
<1>2. ASSUME HttpInv, HttpNext
      PROVE  Contract!Next \/ UNCHANGED Contract!vars
  <2> DEFINE p == post
             q == post'
  <2>1. Kept(p, q) /\ PostInv(p) /\ PostInv(q)
    BY <1>2, HttpStep DEF Kept, HttpInv
  <2>2. /\ p.headers \in BOOLEAN /\ q.headers \in BOOLEAN
        /\ p.bytes \in Nat /\ q.bytes \in Nat /\ q.bytes <= MaximumResponseBytes
        /\ q.outcome \in {"none", "completed", "error", "cancelled"}
    BY <2>1, HttpAssumption DEF PostInv, Posts
  <2>3. Advances(p, q) /\ (q.outcome = "completed" => q.headers)
    BY <2>1 DEF Kept, PostInv
  <2>4. CASE p.outcome # "none"
    <3>1. q.headers = p.headers
      BY <2>2, <2>3, <2>4 DEF Advances
    <3> QED
      BY <2>3, <2>4, <3>1 DEF Advances, Contract!vars
  <2>5. CASE p.outcome = "none"
    <3>1. q.headers \in {p.headers, TRUE}
      BY <2>2, <2>3 DEF Advances
    <3>2. q.bytes \in p.bytes .. MaximumResponseBytes /\ (q.bytes > p.bytes => q.headers)
      BY <2>2, <2>3, HttpAssumption DEF Advances
    <3>3. Contract!Progress
      BY <2>5, <3>1, <3>2 DEF Contract!Progress
    <3> QED
      BY <2>2, <2>3, <3>3 DEF Contract!Next, Contract!Continues, Contract!Completes,
           Contract!Fails, Contract!Cancelled
  <2> QED
    BY <2>4, <2>5
<1>3. HttpInv /\ [HttpNext]_post => [Contract!Next]_Contract!vars
  <2>1. ASSUME UNCHANGED post
        PROVE  UNCHANGED Contract!vars
    BY <2>1 DEF Contract!vars
  <2> QED
    BY <1>2, <2>1
<1> QED
  BY <1>1, <1>3, HttpInvHolds, PTL DEF HttpSpec, KeepsContract, Contract!Spec

-----------------------------------------------------------------------------
(* FrontendTransports                                                      *)

(* The chain of scopes, numbered from its oldest to the active one: every  *)
(* scope that exists has a number of its own, and names the one before it. *)
Numbers(r, n) ==
  /\ r \in [Scopes -> Nat] /\ n \in Nat
  /\ \A s \in Existing : r[s] \in 1 .. n
  /\ \A s, t \in Existing : r[s] = r[t] => s = t
  /\ \A i \in 1 .. n : \E s \in Existing : r[s] = i
  /\ \A s \in Existing :
       \/ r[s] = 1 /\ scope[s].previous = NoScope
       \/ scope[s].previous \in Existing /\ r[s] = r[scope[s].previous] + 1
  /\ IF activeUpgrade = NoScope THEN n = 0
     ELSE activeUpgrade \in Existing /\ r[activeUpgrade] = n
Chained == \E r \in [Scopes -> Nat], n \in Nat : Numbers(r, n)

FrontendInv ==
  /\ FrontendTypeOK /\ RegistrationsMatch /\ IsFiniteSet(registered)
  /\ Chained /\ ~borrowed

LEMMA ChainStarts ==
  ASSUME FrontendInit
  PROVE  Chained
<1> DEFINE r == [s \in Scopes |-> 0]
<1>1. Existing = {}
  BY DEF FrontendInit, NewScope, Existing
<1>2. Numbers(r, 0)
  BY <1>1 DEF FrontendInit, Numbers
<1>3. r \in [Scopes -> Nat]
  OBVIOUS
<1> QED
  BY <1>2, <1>3 DEF Chained

(* What leaves the chain as it is.                                         *)
LEMMA ChainKept ==
  ASSUME Chained, Existing' = Existing, UNCHANGED activeUpgrade,
         \A s \in Existing : scope'[s].previous = scope[s].previous
  PROVE  Chained'
<1>1. PICK r \in [Scopes -> Nat], n \in Nat : Numbers(r, n)
  BY DEF Chained
<1>2. Numbers(r, n)'
  BY <1>1 DEF Numbers
<1> QED
  BY <1>2 DEF Chained

LEMMA ScopeOpens ==
  ASSUME FrontendInv, NEW s \in Scopes, NEW c \in Clients, OpenScope(s, c)
  PROVE  Chained'
<1>1. PICK r \in [Scopes -> Nat], n \in Nat : Numbers(r, n)
  BY DEF FrontendInv, Chained
<1> DEFINE q == [r EXCEPT ![s] = n + 1]
<1>2. s \notin Existing /\ Existing' = Existing \cup {s} /\ activeUpgrade' = s
  BY DEF OpenScope, Existing, FrontendInv, FrontendTypeOK
<1>3. /\ scope'[s].previous = activeUpgrade
      /\ \A t \in Existing : scope'[t] = scope[t] /\ q[t] = r[t]
      /\ q[s] = n + 1 /\ s # NoScope
  BY <1>2, FrontendTransportsAssumption
     DEF OpenScope, Existing, FrontendInv, FrontendTypeOK
<1>4. q \in [Scopes -> Nat] /\ n + 1 \in Nat
  OBVIOUS
<1> HIDE DEF q
<1>5. (\A t \in Existing : r[t] \in 1 .. n)
      /\ (\A t, u \in Existing : r[t] = r[u] => t = u)
      /\ \A i \in 1 .. n : \E t \in Existing : r[t] = i
  BY <1>1 DEF Numbers
<1>6. \A t \in Existing' : q[t] \in 1 .. n + 1
  BY <1>2, <1>3, <1>5
<1>7. \A t, u \in Existing' : q[t] = q[u] => t = u
  BY <1>2, <1>3, <1>5
<1>8. \A i \in 1 .. n + 1 : \E t \in Existing' : q[t] = i
  <2>1. ASSUME NEW i \in 1 .. n + 1
        PROVE  \E t \in Existing' : q[t] = i
    <3>1. CASE i = n + 1
      BY <1>2, <1>3, <3>1
    <3>2. CASE i \in 1 .. n
      BY <1>2, <1>3, <1>5, <3>2
    <3> QED
      BY <3>1, <3>2
  <2> QED
    BY <2>1
<1>9. ASSUME NEW t \in Existing'
      PROVE  \/ q[t] = 1 /\ scope'[t].previous = NoScope
             \/ scope'[t].previous \in Existing' /\ q[t] = q[scope'[t].previous] + 1
  <2>1. CASE t \in Existing
    BY <1>1, <1>2, <1>3, <2>1 DEF Numbers
  <2>2. CASE t = s /\ activeUpgrade = NoScope
    BY <1>1, <1>3, <2>2 DEF Numbers
  <2>3. CASE t = s /\ activeUpgrade # NoScope
    BY <1>1, <1>2, <1>3, <2>3 DEF Numbers
  <2> QED
    BY <1>2, <2>1, <2>2, <2>3
<1>10. Numbers(q, n + 1)'
  BY <1>2, <1>3, <1>4, <1>6, <1>7, <1>8, <1>9 DEF Numbers
<1> QED
  BY <1>4, <1>10 DEF Chained

(* The scope that ends may stand anywhere: those after it move up.         *)
LEMMA ScopeCloses ==
  ASSUME FrontendInv, NEW s \in Scopes, CloseScope(s)
  PROVE  Chained'
<1>1. PICK r \in [Scopes -> Nat], n \in Nat : Numbers(r, n)
  BY DEF FrontendInv, Chained
<1> DEFINE q == [t \in Scopes |-> IF r[t] > r[s] THEN r[t] - 1 ELSE r[t]]
<1>2. s \in Existing /\ Existing' = Existing \ {s}
  BY DEF CloseScope, Unlink, Existing, FrontendInv, FrontendTypeOK, NewScope
<1>3. n \in Nat /\ n >= 1 /\ n - 1 \in Nat /\ r[s] \in 1 .. n
  BY <1>1, <1>2 DEF Numbers
<1>4. q \in [Scopes -> Nat]
  <2>1. ASSUME NEW t \in Scopes, r[t] > r[s]
        PROVE  r[t] - 1 \in Nat
    BY <1>3, <2>1
  <2> QED
    BY <2>1
<1>5. Existing \subseteq Scopes /\ NoScope \notin Existing
  BY FrontendTransportsAssumption DEF Existing
<1>6. \A t \in Existing : q[t] = IF r[t] > r[s] THEN r[t] - 1 ELSE r[t]
  BY <1>5
<1> HIDE DEF q
<1>7. /\ \A t \in Existing : r[t] \in 1 .. n
      /\ \A t, u \in Existing : r[t] = r[u] => t = u
      /\ \A i \in 1 .. n : \E t \in Existing : r[t] = i
      /\ \A t \in Existing :
           \/ r[t] = 1 /\ scope[t].previous = NoScope
           \/ scope[t].previous \in Existing /\ r[t] = r[scope[t].previous] + 1
  BY <1>1 DEF Numbers
<1>8. \A t \in Existing \ {s} : r[t] < r[s] \/ r[t] > r[s]
  BY <1>2, <1>7
<1>9. \A t \in Existing' : q[t] \in 1 .. n - 1
  BY <1>2, <1>3, <1>6, <1>7, <1>8
<1>10. \A t, u \in Existing' : q[t] = q[u] => t = u
  BY <1>2, <1>3, <1>6, <1>7, <1>8
<1>11. \A i \in 1 .. n - 1 : \E t \in Existing' : q[t] = i
  <2>1. ASSUME NEW i \in 1 .. n - 1
        PROVE  \E t \in Existing' : q[t] = i
    <3>1. CASE i < r[s]
      <4>1. PICK t \in Existing : r[t] = i
        BY <1>3, <1>7
      <4> QED
        BY <1>2, <1>3, <1>6, <3>1, <4>1
    <3>2. CASE i >= r[s]
      <4>1. i + 1 \in 1 .. n
        OBVIOUS
      <4>2. PICK t \in Existing : r[t] = i + 1
        BY <4>1, <1>7
      <4> QED
        BY <1>2, <1>3, <1>6, <3>2, <4>2
    <3> QED
      BY <1>3, <3>1, <3>2
  <2> QED
    BY <2>1
<1>12. CASE activeUpgrade = s
  <2>1. /\ activeUpgrade' = scope[s].previous
        /\ \A t \in Existing' : scope'[t] = scope[t]
    BY <1>2, <1>5, <1>12 DEF CloseScope, FrontendInv, FrontendTypeOK
  <2>2. r[s] = n
    BY <1>1, <1>5, <1>2, <1>12 DEF Numbers
  <2>3. \A t \in Existing' : q[t] = r[t] /\ r[t] < n
    BY <1>2, <1>3, <1>6, <1>7, <1>8, <2>2
  <2>4. ASSUME NEW t \in Existing'
        PROVE  \/ q[t] = 1 /\ scope'[t].previous = NoScope
               \/ scope'[t].previous \in Existing' /\ q[t] = q[scope'[t].previous] + 1
    <3>1. CASE r[t] = 1 /\ scope[t].previous = NoScope
      BY <2>1, <2>3, <3>1
    <3>2. CASE scope[t].previous \in Existing /\ r[t] = r[scope[t].previous] + 1
      <4>1. scope[t].previous # s
        BY <1>3, <2>2, <2>3, <3>2
      <4> QED
        BY <1>2, <2>1, <2>3, <3>2, <4>1
    <3> QED
      BY <1>2, <1>7, <3>1, <3>2
  <2>5. IF activeUpgrade' = NoScope THEN n - 1 = 0
        ELSE activeUpgrade' \in Existing' /\ q[activeUpgrade'] = n - 1
    <3>1. CASE r[s] = 1 /\ scope[s].previous = NoScope
      BY <2>1, <2>2, <3>1
    <3>2. CASE scope[s].previous \in Existing /\ r[s] = r[scope[s].previous] + 1
      <4>1. scope[s].previous # s /\ scope[s].previous # NoScope
        BY <1>3, <1>5, <3>2
      <4>2. q[scope[s].previous] = n - 1
        BY <1>2, <1>7, <2>2, <2>3, <3>2, <4>1
      <4> QED
        BY <1>2, <2>1, <3>2, <4>1, <4>2
    <3> QED
      BY <1>2, <1>7, <3>1, <3>2
  <2>6. Numbers(q, n - 1)'
    BY <1>3, <1>4, <1>9, <1>10, <1>11, <2>4, <2>5 DEF Numbers
  <2> QED
    BY <1>3, <1>4, <2>6 DEF Chained
<1>13. CASE activeUpgrade # s
  <2>1. /\ activeUpgrade' = activeUpgrade
        /\ \A t \in Existing' :
             scope'[t].previous = IF scope[t].previous = s THEN scope[s].previous
                                  ELSE scope[t].previous
    <3>1. activeUpgrade' = activeUpgrade
      BY <1>13 DEF CloseScope, Unlink
    <3>2. ASSUME NEW t \in Existing'
          PROVE  scope'[t].previous = IF scope[t].previous = s THEN scope[s].previous
                                      ELSE scope[t].previous
      <4>1. t \in Scopes /\ t # s /\ scope[t].exists
        BY <1>2, <3>2 DEF Existing
      <4>2. scope'[t] = IF scope[t].previous = s
                        THEN [scope[t] EXCEPT !.previous = scope[s].previous]
                        ELSE scope[t]
        BY <1>13, <4>1 DEF CloseScope, Unlink
      <4>3. scope[t] \in [client : Clients, previous : Scopes \cup {NoScope},
                          exists : BOOLEAN, consumed : BOOLEAN]
        BY <4>1 DEF FrontendInv, FrontendTypeOK
      <4> QED
        BY <4>2, <4>3
    <3> QED
      BY <3>1, <3>2
  <2>2. activeUpgrade \in Existing' /\ activeUpgrade # NoScope /\ r[activeUpgrade] = n
    BY <1>1, <1>2, <1>3, <1>13 DEF Numbers
  <2>3. r[s] < n /\ q[activeUpgrade] = n - 1
    BY <1>2, <1>3, <1>6, <1>7, <1>13, <2>2
  <2>4. ASSUME NEW t \in Existing'
        PROVE  \/ q[t] = 1 /\ scope'[t].previous = NoScope
               \/ scope'[t].previous \in Existing' /\ q[t] = q[scope'[t].previous] + 1
    <3>1. t \in Existing /\ t # s /\ r[t] \in Nat /\ q[t] = (IF r[t] > r[s] THEN r[t] - 1 ELSE r[t])
      BY <1>2, <1>3, <1>6, <1>7
    <3>2. CASE r[t] = 1 /\ scope[t].previous = NoScope
      BY <1>3, <1>5, <1>2, <2>1, <3>1, <3>2
    <3>3. CASE scope[t].previous = s /\ r[t] = r[s] + 1
      <4>1. q[t] = r[s] /\ scope'[t].previous = scope[s].previous
        BY <1>3, <2>1, <3>1, <3>3
      <4>2. CASE r[s] = 1 /\ scope[s].previous = NoScope
        BY <4>1, <4>2
      <4>3. CASE scope[s].previous \in Existing /\ r[s] = r[scope[s].previous] + 1
        <5> DEFINE u == scope[s].previous
        <5>1. u \in Existing /\ u # s /\ r[u] \in Nat /\ r[u] < r[s]
          BY <1>3, <1>7, <4>3
        <5>2. q[u] = r[u]
          BY <1>3, <1>6, <5>1
        <5> QED
          BY <1>2, <4>1, <4>3, <5>1, <5>2
      <4> QED
        BY <1>2, <1>7, <4>2, <4>3
    <3>4. CASE scope[t].previous \in Existing \ {s} /\ r[t] = r[scope[t].previous] + 1
      <4> DEFINE u == scope[t].previous
      <4>1. u \in Existing /\ u # s /\ r[u] \in Nat /\ r[t] = r[u] + 1
        BY <1>3, <1>7, <3>4
      <4>2. scope'[t].previous = u
        BY <2>1, <4>1
      <4>3. r[u] > r[s] <=> r[t] > r[s]
        BY <1>2, <1>3, <1>7, <1>8, <3>1, <4>1
      <4>4. q[t] = q[u] + 1
        BY <1>3, <1>6, <3>1, <4>1, <4>3
      <4> QED
        BY <1>2, <4>1, <4>2, <4>4
    <3> QED
      BY <1>7, <3>1, <3>2, <3>3, <3>4
  <2>5. Numbers(q, n - 1)'
    BY <1>3, <1>4, <1>9, <1>10, <1>11, <2>1, <2>2, <2>3, <2>4 DEF Numbers
  <2> QED
    BY <1>3, <1>4, <2>5 DEF Chained
<1> QED
  BY <1>12, <1>13

LEMMA FrontendStarts ==
  ASSUME FrontendInit
  PROVE  FrontendInv
<1>1. FrontendTypeOK
  <2>1. NewScope \in [client : Clients, previous : Scopes \cup {NoScope},
                      exists : BOOLEAN, consumed : BOOLEAN]
    BY FrontendTransportsAssumption DEF NewScope
  <2> HIDE DEF NewScope
  <2> QED
    BY <2>1 DEF FrontendInit, FrontendTypeOK
<1>2. IsFiniteSet(registered) /\ Cardinality(registered) = 0
  BY FS_EmptySet DEF FrontendInit
<1>3. RegistrationsMatch
  BY <1>2, FrontendTransportsAssumption DEF FrontendInit, RegistrationsMatch
<1> QED
  BY <1>1, <1>2, <1>3, ChainStarts DEF FrontendInv, FrontendInit

LEMMA FrontendTypeStep ==
  ASSUME FrontendTypeOK, FrontendNext
  PROVE  FrontendTypeOK'
<1> DEFINE Record == [client : Clients, previous : Scopes \cup {NoScope},
                      exists : BOOLEAN, consumed : BOOLEAN]
<1>1. NewScope \in Record
  BY FrontendTransportsAssumption DEF NewScope
<1> USE DEF FrontendTypeOK
<1>2. ASSUME NEW c \in Clients, Accept(c)
      PROVE  FrontendTypeOK'
  BY <1>2 DEF Accept, scopes
<1>3. ASSUME NEW c \in Clients, FrontendConnected(c)
      PROVE  FrontendTypeOK'
  BY <1>3 DEF FrontendConnected, Register, scopes
<1>4. ASSUME NEW c \in Clients, ReceiveMessage(c)
      PROVE  FrontendTypeOK'
  BY <1>4 DEF ReceiveMessage, scopes
<1>5. ASSUME NEW c \in Clients, RejectMessage(c)
      PROVE  FrontendTypeOK'
  BY <1>5 DEF RejectMessage, scopes
<1>6. ASSUME NEW c \in Clients, RouterCloses(c)
      PROVE  FrontendTypeOK'
  BY <1>6 DEF RouterCloses, scopes
<1>7. ASSUME NEW c \in Clients, FrontendDisconnected(c)
      PROVE  FrontendTypeOK'
  BY <1>7 DEF FrontendDisconnected, Unregister, scopes
<1>8. ASSUME NEW c \in Clients, FrontendDestroyed(c)
      PROVE  FrontendTypeOK'
  BY <1>8 DEF FrontendDestroyed, Unregister, scopes
<1>9. ASSUME NEW c \in Clients, UpgradeFrontend(c)
      PROVE  FrontendTypeOK'
  <2>1. scope' \in [Scopes -> Record]
    BY <1>9 DEF UpgradeFrontend
  <2> QED
    BY <1>9, <2>1 DEF UpgradeFrontend
<1>10. ASSUME NEW c \in Clients, NEW s \in Scopes, OpenScope(s, c)
       PROVE  FrontendTypeOK'
  BY <1>10 DEF OpenScope
<1>11. ASSUME NEW s \in Scopes, CloseScope(s)
       PROVE  FrontendTypeOK'
  <2>1. scope[s].previous \in Scopes \cup {NoScope}
    OBVIOUS
  <2>2. \A t \in Scopes : [scope[t] EXCEPT !.previous = scope[s].previous] \in Record
    BY <2>1
  <2> HIDE DEF NewScope
  <2>3. scope' \in [Scopes -> Record]
    BY <1>1, <1>11, <2>2 DEF CloseScope, Unlink
  <2> QED
    BY <1>11, <2>1, <2>3 DEF CloseScope, Unlink
<1> QED
  BY <1>2, <1>3, <1>4, <1>5, <1>6, <1>7, <1>8, <1>9, <1>10, <1>11 DEF FrontendNext

(* A place is taken only when there is one, and given back with the        *)
(* connection that held it.                                                *)
LEMMA RegistrationStep ==
  ASSUME FrontendTypeOK, RegistrationsMatch, IsFiniteSet(registered), FrontendNext
  PROVE  RegistrationsMatch' /\ IsFiniteSet(registered)'
<1> USE DEF RegistrationsMatch
<1>1. Cardinality(registered) \in Nat
  BY FS_CardinalityType
<1>2. ASSUME NEW c \in Clients, FrontendConnected(c)
      PROVE  RegistrationsMatch' /\ IsFiniteSet(registered)'
  <2>1. stage[c] = "made" /\ stage' = [stage EXCEPT ![c] = "connected"] /\ c \notin registered
    BY <1>2 DEF FrontendConnected
  <2>2. stage \in [Clients -> {"none", "http", "made", "connected", "disconnected"}]
    BY DEF FrontendTypeOK
  <2>3. CASE Cardinality(registered) < MaximumFrontends
    <3>1. registered' = registered \cup {c} /\ named' = named \cup {c}
          /\ leaving \subseteq leaving' /\ stray' = stray
      BY <1>2, <2>3 DEF FrontendConnected, Register
    <3>2. IsFiniteSet(registered \cup {c})
          /\ Cardinality(registered \cup {c}) = Cardinality(registered) + 1
      BY <2>1, FS_AddElement
    <3>3. Cardinality(registered \cup {c}) <= MaximumFrontends
      BY <1>1, <2>3, <3>2, FrontendTransportsAssumption
    <3> QED
      BY <2>1, <2>2, <3>1, <3>2, <3>3
  <2>4. CASE ~(Cardinality(registered) < MaximumFrontends)
    <3>1. UNCHANGED <<registered, named, stray>> /\ leaving' = leaving \cup {c}
      BY <1>2, <2>4 DEF FrontendConnected, Register
    <3> QED
      BY <2>1, <2>2, <3>1
  <2> QED
    BY <2>3, <2>4
<1>3. ASSUME NEW c \in Clients, FrontendDisconnected(c) \/ FrontendDestroyed(c)
      PROVE  RegistrationsMatch' /\ IsFiniteSet(registered)'
  <2>1. registered' = registered \ {c} /\ named' = named \ {c} /\ stray' = stray
    BY <1>3 DEF FrontendDisconnected, FrontendDestroyed, Unregister
  <2>2. IsFiniteSet(registered \ {c}) /\ Cardinality(registered \ {c}) <= Cardinality(registered)
    BY FS_Subset
  <2>3. Cardinality(registered \ {c}) \in Nat
    BY <2>2, FS_CardinalityType
  <2>4. Cardinality(registered \ {c}) <= MaximumFrontends
    BY <1>1, <2>2, <2>3, FrontendTransportsAssumption
  <2>5. /\ \A d \in Clients \ {c} : stage'[d] = stage[d] /\ (d \in leaving => d \in leaving')
        /\ stage'[c] # "connected"
    BY <1>3 DEF FrontendDisconnected, FrontendDestroyed, FrontendTypeOK
  <2> QED
    BY <2>1, <2>2, <2>4, <2>5
<1>4. ASSUME NEW c \in Clients, Accept(c) \/ UpgradeFrontend(c)
      PROVE  RegistrationsMatch' /\ IsFiniteSet(registered)'
  <2>1. UNCHANGED <<registered, named, leaving, stray>>
    BY <1>4 DEF Accept, UpgradeFrontend
  <2>2. \A d \in Clients : stage'[d] = "connected" <=> stage[d] = "connected"
    BY <1>4 DEF Accept, UpgradeFrontend, FrontendTypeOK
  <2> QED
    BY <2>1, <2>2
<1>5. ASSUME NEW c \in Clients, ReceiveMessage(c)
      PROVE  RegistrationsMatch' /\ IsFiniteSet(registered)'
  BY <1>5 DEF ReceiveMessage
<1>6. ASSUME NEW c \in Clients, RejectMessage(c) \/ RouterCloses(c)
      PROVE  RegistrationsMatch' /\ IsFiniteSet(registered)'
  BY <1>6 DEF RejectMessage, RouterCloses
<1>7. ASSUME NEW c \in Clients, NEW s \in Scopes, OpenScope(s, c)
      PROVE  RegistrationsMatch' /\ IsFiniteSet(registered)'
  BY <1>7 DEF OpenScope
<1>8. ASSUME NEW s \in Scopes, CloseScope(s)
      PROVE  RegistrationsMatch' /\ IsFiniteSet(registered)'
  BY <1>8 DEF CloseScope
<1> QED
  BY <1>2, <1>3, <1>4, <1>5, <1>6, <1>7, <1>8 DEF FrontendNext

LEMMA ScopeStep ==
  ASSUME FrontendInv, FrontendNext
  PROVE  Chained' /\ ~borrowed'
<1>1. Chained /\ ~borrowed
  BY DEF FrontendInv
<1>2. ASSUME NEW c \in Clients, NEW s \in Scopes, OpenScope(s, c)
      PROVE  Chained' /\ ~borrowed'
  BY <1>1, <1>2, ScopeOpens DEF OpenScope
<1>3. ASSUME NEW s \in Scopes, CloseScope(s)
      PROVE  Chained' /\ ~borrowed'
  BY <1>1, <1>3, ScopeCloses DEF CloseScope
<1>4. ASSUME NEW c \in Clients, UpgradeFrontend(c)
      PROVE  Chained' /\ ~borrowed'
  <2>1. activeUpgrade \in Existing
    BY <1>1, <1>4 DEF UpgradeFrontend, Chained, Numbers
  <2>2. ~borrowed'
    BY <1>1, <1>4, <2>1 DEF UpgradeFrontend, Existing, Consumes
  <2>3. \A s \in Scopes : scope'[s].exists = scope[s].exists
                          /\ scope'[s].previous = scope[s].previous
    BY <1>4, <2>1 DEF UpgradeFrontend, FrontendInv, FrontendTypeOK, Existing
  <2>4. Existing' = Existing /\ UNCHANGED activeUpgrade
    BY <1>4, <2>3 DEF UpgradeFrontend, Existing
  <2>5. Chained'
    BY <1>1, <2>3, <2>4, ChainKept DEF Existing
  <2> QED
    BY <2>2, <2>5
<1>5. ASSUME UNCHANGED scopes
      PROVE  Chained' /\ ~borrowed'
  BY <1>1, <1>5, ChainKept DEF scopes, Existing
<1>6. ASSUME NEW c \in Clients,
             \/ Accept(c) \/ FrontendConnected(c) \/ ReceiveMessage(c) \/ RejectMessage(c)
             \/ RouterCloses(c) \/ FrontendDisconnected(c) \/ FrontendDestroyed(c)
      PROVE  UNCHANGED scopes
  BY <1>6 DEF Accept, FrontendConnected, ReceiveMessage, RejectMessage, RouterCloses,
       FrontendDisconnected, FrontendDestroyed, scopes
<1> QED
  BY <1>2, <1>3, <1>4, <1>5, <1>6 DEF FrontendNext

LEMMA FrontendInvHolds == FrontendSpec => []FrontendInv
<1>1. ASSUME FrontendInv, FrontendNext
      PROVE  FrontendInv'
  BY <1>1, FrontendTypeStep, RegistrationStep, ScopeStep DEF FrontendInv
<1>2. ASSUME FrontendInv, UNCHANGED frontendVars
      PROVE  FrontendInv'
  <2>1. Chained'
    BY <1>2, ChainKept DEF FrontendInv, frontendVars, Existing
  <2> QED
    BY <1>2, <2>1 DEF FrontendInv, FrontendTypeOK, RegistrationsMatch, frontendVars
<1>3. FrontendInv /\ [FrontendNext]_frontendVars => FrontendInv'
  BY <1>1, <1>2
<1> QED
  BY <1>3, FrontendStarts, PTL DEF FrontendSpec

LEMMA ChainIsLinked ==
  ASSUME Chained
  PROVE  ScopesAreLinked
<1>1. PICK r \in [Scopes -> Nat], n \in Nat : Numbers(r, n)
  BY DEF Chained
<1>2. Existing \subseteq Scopes /\ NoScope \notin Existing
  BY FrontendTransportsAssumption DEF Existing
<1>3. activeUpgrade \in Existing \cup {NoScope} /\ (Existing # {} => activeUpgrade # NoScope)
  BY <1>1 DEF Numbers
<1>4. ASSUME NEW s \in Existing
      PROVE  /\ scope[s].previous \in (Existing \ {s, activeUpgrade}) \cup {NoScope}
             /\ s # activeUpgrade => Cardinality({t \in Existing : scope[t].previous = s}) = 1
  <2>1. r[s] \in 1 .. n /\ activeUpgrade \in Existing /\ r[activeUpgrade] = n
    BY <1>1, <1>3 DEF Numbers
  <2>2. scope[s].previous \in (Existing \ {s, activeUpgrade}) \cup {NoScope}
    <3>1. CASE scope[s].previous \in Existing /\ r[s] = r[scope[s].previous] + 1
      BY <1>2, <2>1, <3>1
    <3> QED
      BY <1>1, <3>1 DEF Numbers
  <2>3. ASSUME s # activeUpgrade
        PROVE  Cardinality({t \in Existing : scope[t].previous = s}) = 1
    <3>1. r[s] + 1 \in 1 .. n
      BY <1>1, <2>1, <2>3 DEF Numbers
    <3>2. PICK u \in Existing : r[u] = r[s] + 1
      BY <1>1, <3>1 DEF Numbers
    <3>3. scope[u].previous = s
      BY <1>1, <2>1, <3>2 DEF Numbers
    <3>4. \A t \in Existing : scope[t].previous = s => t = u
      BY <1>1, <1>2, <3>2 DEF Numbers
    <3>5. {t \in Existing : scope[t].previous = s} = {u}
      BY <3>3, <3>4
    <3> QED
      BY <3>5, FS_Singleton
  <2> QED
    BY <2>2, <2>3
<1> QED
  BY <1>3, <1>4 DEF ScopesAreLinked

(* The variables of FrontendTransports keep their types.                   *)
THEOREM FrontendTypeCorrect == FrontendSpec => []FrontendTypeOK
<1>1. FrontendInv => FrontendTypeOK
  BY DEF FrontendInv
<1> QED
  BY <1>1, FrontendInvHolds, PTL

(* For every number of connections, limit and number of scopes: the router *)
(* holds the endpoints that are connected, no more than it may, and every  *)
(* subprotocol is made for the connection that is being upgraded, through  *)
(* a chain of scopes that survives their end in every order.               *)
THEOREM FrontendsAccounted == FrontendSpec => []FrontendsAreAccountedFor
<1>1. FrontendInv => FrontendsAreAccountedFor
  BY ChainIsLinked DEF FrontendInv, FrontendsAreAccountedFor, UpgradesAreScoped
<1> QED
  BY <1>1, FrontendInvHolds, PTL

-----------------------------------------------------------------------------
(* All of them, side by side                                               *)

(* Whichever part runs, the state of all but the child keeps its type.     *)
THEOREM TypesCorrect == ApplicationSpec => []TypesOK
<1>1. Applications => Init /\ ClientInit /\ FrontendInit /\ HttpInit /\ TranslationInit
  BY DEF Applications
<1>2. [ApplicationStep]_applicationVars =>
        /\ [Next]_vars /\ [ClientNext]_client /\ [FrontendNext]_frontendVars
        /\ [HttpNext]_post /\ [TranslationNext]_conversation
  BY DEF ApplicationStep, applicationVars, otherVars
<1>3. ApplicationSpec =>
        /\ Spec /\ ClientSpec /\ FrontendSpec /\ HttpSpec
        /\ TranslationInit /\ [][TranslationNext]_conversation
  BY <1>1, <1>2, PTL DEF ApplicationSpec, Spec, ClientSpec, FrontendSpec, HttpSpec
<1> QED
  BY <1>3, ProviderTypeCorrect, ClientTypeCorrect, FrontendTypeCorrect, HttpTypeCorrect,
     TranslationTypeCorrect, PTL DEF TypesOK
================================================================================
