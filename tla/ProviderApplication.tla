-------------------------- MODULE ProviderApplication --------------------------
(***************************************************************************)
(* The provider side of the codex-bridge application: ProviderApplication  *)
(* with its three kinds of runtime, the handshake it does with every new   *)
(* session, and main, which starts it from a timer, runs the event loop    *)
(* and stops it.  The owned child is reduced to the session it gives, as   *)
(* StdioAppServer shows it in detail; the WebSocket endpoint is composed   *)
(* with the network runtime, whose client makes one connection at a time.  *)
(* The fourth kind, "embedded", is an application that uses the endpoint   *)
(* of the library with several clients and destroys it when it likes.      *)
(***************************************************************************)
EXTENDS WebSocketAppServer

CONSTANT Kinds
ASSUME KindsAssumption == Kinds \subseteq {"stdio", "model", "network", "embedded"}

VARIABLES
  kind,       \* the runtime that was configured
  started,    \* the start timer has fired
  loop,       \* core::SNodeC: "running", "stopping", "returned"; or main has
              \* "exited"
  flow,       \* the flow of the network client: "none", "running", "ended"
  service,    \* the model service: "none", "binding", "listening", "stopped"
  child,      \* "none", "running", "gone"
  failed,     \* ModelRuntime::failed_, or main's appServerStartupFailed
  handshake,  \* "none", "pending": initialize is outstanding, or "ready"
  result      \* the exit status: "none", "success", "failure"
runtime == <<flow, service, child>>
vars == <<endpoint, kind, started, loop, runtime, failed, handshake, result>>

Init ==
  /\ EndpointInit
  /\ kind \in Kinds /\ started = FALSE /\ loop = "running"
  /\ flow = "none" /\ service = "none" /\ child = "none"
  /\ failed = FALSE /\ handshake = "none" /\ result = "none"

StopLoop == loop' = IF loop = "running" THEN "stopping" ELSE loop

-----------------------------------------------------------------------------
(* The bridge calls providerLifecycleChanged in the step in which it is    *)
(* told of a session: the request may be refused, which fails it at once,  *)
(* and the loss of the session fails one that is outstanding.              *)
SessionBegins_RemembersFailure ==
  \/ handshake' = "pending" /\ UNCHANGED loop
  \/ handshake' = "failed" /\ StopLoop
SessionBegins_IgnoresRefusal == handshake' \in {"pending", "none"} /\ UNCHANGED loop
SessionBegins ==
  \/ handshake' = "pending" /\ UNCHANGED loop
  \/ handshake' = "none" /\ StopLoop
SessionEnds_Silently == handshake' = handshake /\ UNCHANGED loop
SessionEnds ==
  /\ handshake' = "none"
  /\ IF handshake = "pending" THEN StopLoop ELSE UNCHANGED loop
Lifecycle ==
  IF session' = session \/ kind = "embedded" THEN UNCHANGED <<handshake, loop>>
  ELSE IF session' THEN SessionBegins ELSE SessionEnds

(* The answer, and the initialized notification that must be accepted.     *)
InitializeAnswered ==
  /\ handshake = "pending"
  /\ \/ child = "running"
     \/ \E c \in Connections : c = active /\ Dispatches(c)
  /\ \/ handshake' = "ready" /\ UNCHANGED loop
     \/ handshake' = "none" /\ StopLoop
  /\ UNCHANGED <<endpoint, kind, started, runtime, failed, result>>

-----------------------------------------------------------------------------
(* The owned child of the stdio and model runtimes.                        *)
ChildStarts ==
  /\ child' = "running"
  /\ Told(TRUE) /\ UNCHANGED <<active, bridge, link, closing>>
  /\ Lifecycle

(* The end of a pipe, or the loop's shutdown that closes them.             *)
ChildLost ==
  /\ child = "running" /\ loop \in {"running", "stopping"}
  /\ child' = "gone"
  /\ Told(FALSE) /\ UNCHANGED <<active, bridge, link, closing>>
  /\ Lifecycle
  /\ UNCHANGED <<kind, started, flow, service, failed, result>>
ChildExits ==
  /\ child = "running" /\ loop \in {"running", "stopping"}
  /\ child' = "gone"
  /\ Told(FALSE) /\ UNCHANGED <<active, bridge, link, closing>>
  /\ handshake' = "none" /\ StopLoop
  /\ UNCHANGED <<kind, started, flow, service, failed, result>>

-----------------------------------------------------------------------------
(* main's start timer *)

FailStartup_KeepsRunning == failed' = TRUE /\ UNCHANGED loop
FailStartup == failed' = TRUE /\ StopLoop

Boot == loop = "running" /\ ~started /\ started' = TRUE
StartStdio ==
  /\ Boot /\ kind = "stdio"
  /\ \/ ChildStarts /\ UNCHANGED failed
     \/ FailStartup /\ UNCHANGED <<endpoint, child, handshake>>
  /\ UNCHANGED <<kind, flow, service, result>>
(* Another host than the loopback is refused at once.                      *)
StartModel ==
  /\ Boot /\ kind = "model"
  /\ \/ service' = "binding" /\ UNCHANGED <<loop, failed>>
     \/ service' = "stopped" /\ FailStartup
  /\ UNCHANGED <<endpoint, kind, flow, child, handshake, result>>
StartNetwork ==
  /\ Boot /\ kind = "network"
  /\ flow' = "running"
  /\ UNCHANGED <<endpoint, kind, loop, service, child, failed, handshake, result>>

(* The callback of listen: the child is started behind the service.        *)
ListenReady ==
  /\ service = "binding" /\ loop = "running"
  /\ service' = "listening"
  /\ ChildStarts
  /\ UNCHANGED <<kind, started, flow, failed, result>>
(* The bind, the profile or the child fails: everything is stopped.        *)
ListenFails ==
  /\ service = "binding" /\ loop = "running"
  /\ service' = "stopped"
  /\ FailStartup
  /\ UNCHANGED <<endpoint, kind, started, flow, child, handshake, result>>

-----------------------------------------------------------------------------
(* The network client: one connection after the other, which it opens      *)
(* again when it was lost, until an attempt and its retry have failed.     *)

Idle == \A c \in Connections : link[c] = "none"
Application == <<kind, started, runtime, failed, result>>

Connect(c) ==
  /\ loop = "running"
  /\ kind = "embedded" \/ (flow = "running" /\ Idle)
  /\ Open(c)
  /\ UNCHANGED <<Application, loop, handshake>>
ConnectFails ==
  /\ flow = "running" /\ Idle /\ loop = "running"
  /\ flow' = "ended"
  /\ UNCHANGED <<endpoint, kind, started, loop, service, child, failed, handshake, result>>

InLoop == loop \in {"running", "stopping"}
ConnectionStep(c) ==
  /\ InLoop
  /\ \/ UpgradeFails(c)
     \/ Upgrade(c)
     \/ CloseConnection(c)
     \/ Disconnect(c)
  /\ Lifecycle
  /\ UNCHANGED Application

EmbeddedStops ==
  /\ kind = "embedded" /\ InLoop
  /\ StopEndpoint \/ DestroyEndpoint
  /\ UNCHANGED <<Application, loop, handshake>>

-----------------------------------------------------------------------------
(* The event loop, and main after it.                                      *)

RequestStop ==
  /\ loop = "running"
  /\ loop' = "stopping"
  /\ UNCHANGED <<endpoint, Application, handshake>>

LoopReturns ==
  /\ loop = "stopping" /\ Idle /\ child # "running"
  /\ loop' = "returned"
  /\ UNCHANGED <<endpoint, Application, handshake>>

(* provider.stop(), the result, and the destructors.                       *)
Exit ==
  /\ loop = "returned" /\ loop' = "exited"
  /\ result' = IF failed THEN "failure" ELSE "success"
  /\ flow' = "ended" /\ service' = "stopped"
  /\ IF bridge THEN DestroyEndpoint ELSE UNCHANGED endpoint
  /\ UNCHANGED <<kind, started, child, failed, handshake>>

-----------------------------------------------------------------------------
Next ==
  \/ InitializeAnswered
  \/ ChildLost
  \/ ChildExits
  \/ StartStdio
  \/ StartModel
  \/ StartNetwork
  \/ ListenReady
  \/ ListenFails
  \/ ConnectFails
  \/ \E c \in Connections : Connect(c) \/ ConnectionStep(c)
  \/ EmbeddedStops
  \/ RequestStop
  \/ LoopReturns
  \/ Exit
Spec == Init /\ [][Next]_vars

(* Timers fire and listen is answered; an HTTP request is answered, and a  *)
(* server that is asked again and again upgrades at last; the app-server   *)
(* answers; a WebSocket that is closing is closed by its peer or by the    *)
(* close timer; and a loop that is to stop closes what is open.            *)
Fairness ==
  /\ WF_vars(StartStdio) /\ WF_vars(StartModel) /\ WF_vars(StartNetwork)
  /\ WF_vars(ListenReady \/ ListenFails)
  /\ WF_vars(InitializeAnswered)
  /\ WF_vars(ConnectFails \/ \E c \in Connections : kind = "network" /\ Connect(c))
  /\ \A c \in Connections :
       /\ WF_vars(ConnectionStep(c) /\ link[c] = "http" /\ link'[c] # "http")
       /\ SF_vars(ConnectionStep(c) /\ link'[c] = "websocket" /\ link[c] = "http")
       /\ WF_vars(/\ closing[c] \/ loop = "stopping"
                  /\ ConnectionStep(c) /\ link[c] = "websocket" /\ link'[c] = "none")
  /\ WF_vars(loop = "stopping" /\ ChildLost)
  /\ WF_vars(LoopReturns) /\ WF_vars(Exit)
FairSpec == Spec /\ Fairness

-----------------------------------------------------------------------------
(* The type invariant.                                                     *)
TypeOK ==
  /\ EndpointTypeOK
  /\ kind \in Kinds /\ started \in BOOLEAN
  /\ loop \in {"running", "stopping", "returned", "exited"}
  /\ flow \in {"none", "running", "ended"}
  /\ service \in {"none", "binding", "listening", "stopped"}
  /\ child \in {"none", "running", "gone"}
  /\ failed \in BOOLEAN /\ handshake \in {"none", "pending", "ready"}
  /\ result \in {"none", "success", "failure"}

(* The bridge is told of sessions in turn, connected, disconnected, and    *)
(* what it was told last is so: neither a second connection, nor the late  *)
(* end of one that was refused, nor the destroyed endpoint confuses it.    *)
BridgeHearsTurns ==
  /\ ~astray
  /\ bridge => (session <=> active # NoConnection \/ child = "running")

(* What the bridge hears, frames and sessions, is of the one connection.   *)
OneConnectionIsHeard == FramesAreOfTheSession /\ BridgeHearsTurns

(* While the loop runs, every session is being initialised or is ready,    *)
(* and no handshake outlives its session: one that failed, was refused or  *)
(* lost its session has stopped the application.                           *)
SessionsAreInitialised ==
  kind # "embedded" /\ loop = "running" => (session <=> handshake # "none")

(* A provider that could not be started leaves no loop running without     *)
(* one, and the application says so in its exit status, and only then.     *)
StartupFailureIsFatal ==
  /\ failed => loop # "running" /\ service # "listening" /\ ~session
  /\ loop = "exited" => (result = "failure" <=> failed)

(* A failed start or handshake never leaves the application running        *)
(* without a provider it can use.                                          *)
FailuresEndTheApplication == SessionsAreInitialised /\ StartupFailureIsFatal

(* The application gets a session that is ready, at the start and after    *)
(* every loss, or ends, unless nothing is left that could give it one: the *)
(* client has given up, or the child is gone.                              *)
ProviderSettles ==
  kind # "embedded" /\ loop = "running" ~>
    (handshake = "ready" \/ loop = "exited" \/ flow = "ended" \/ child = "gone")

(* An application that is told to stop ends, and the bridge has heard the  *)
(* end of its last session.                                                *)
ApplicationExits ==
  loop = "stopping" ~> (loop = "exited" /\ (session => kind = "embedded"))
=============================================================================
