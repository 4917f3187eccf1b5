----------------------------- MODULE BridgeClient -----------------------------
(***************************************************************************)
(* The codex-bridge-client application: main with its reconnect and quit,  *)
(* the StdinReader that feeds it commands, and the life of the transports  *)
(* its ClientConnection accepts: stream contexts, or the subprotocols of   *)
(* the WebSocketBinding, which exist only once an HTTP connection has been *)
(* upgraded.                                                               *)
(*                                                                         *)
(* All of it runs on one event loop.  A line of input may reconnect or     *)
(* quit while the reader that hands it over is still on the stack, so the  *)
(* state is a record, an operator maps it to what a call makes of it, and  *)
(* a step is one callback of the loop.  What the SDK does with the frames  *)
(* of an attached transport is in FrontendSdk.                             *)
(***************************************************************************)
EXTENDS Naturals, FiniteSets, SequencesExt

CONSTANTS
  Transports,   \* the kinds of transport explored
  Flows,        \* the connect() calls whose flow or connection still exists
  NoFlow,       \* a null pointer
  MaxLines      \* bound on the lines handed over in one read

ASSUME BridgeClientAssumption ==
  /\ Transports \subseteq {"stream", "websocket"}
  /\ NoFlow \notin Flows
  /\ MaxLines \in Nat

(* "loop" is core::SNodeC and main around it, "input" the StdinReader, of  *)
(* which "unread" has been read once and is not registered.  "startup" and *)
(* "ticks" are the callbacks main has scheduled with atNextTick.  A flow   *)
(* is the ClientFlowController of one connect(); its connection, at most   *)
(* one at a time, is "http" until it is upgraded, "created" until a stream *)
(* has connected.  "disconnecting" holds the contexts whose own flag says  *)
(* that they close, "closing" those whose socket was told to.  "late"      *)
(* observes that a line was executed after a quit.                         *)
VARIABLE client

ClientStates ==
  [transport : Transports,
   loop : {"starting", "running", "stopping", "returned", "exited"},
   input : {"none", "watching", "deferred", "unread", "stopped"},
   startup : BOOLEAN, ticks : Nat, reconnecting : BOOLEAN, quit : BOOLEAN,
   selected : Flows \cup {NoFlow},
   flow : [Flows -> {"none", "active", "terminating", "terminated"}],
   context : [Flows -> {"none", "http", "created", "connected"}],
   disconnecting : SUBSET Flows, closing : SUBSET Flows,
   endpoint : Flows \cup {NoFlow}, binding : Flows \cup {NoFlow},
   shuttingDown : BOOLEAN, late : BOOLEAN]

NewClient(transport) ==
  [transport |-> transport, loop |-> "starting", input |-> "none",
   startup |-> FALSE, ticks |-> 0, reconnecting |-> FALSE, quit |-> FALSE,
   selected |-> NoFlow, flow |-> [f \in Flows |-> "none"],
   context |-> [f \in Flows |-> "none"], disconnecting |-> {}, closing |-> {},
   endpoint |-> NoFlow, binding |-> NoFlow, shuttingDown |-> FALSE, late |-> FALSE]
ClientInit == client \in {NewClient(t) : t \in Transports}

-----------------------------------------------------------------------------
(* ClientConnection and the contexts *)

CloseContext(c, f) ==
  IF f \in c.disconnecting THEN c
  ELSE [c EXCEPT !.disconnecting = @ \cup {f}, !.closing = @ \cup {f}]

CloseEndpoint(c) ==
  IF c.shuttingDown \/ c.endpoint = NoFlow THEN c ELSE CloseContext(c, c.endpoint)
ShutDown(c) == [CloseEndpoint(c) EXCEPT !.shuttingDown = TRUE]

MayAttach(c) == ~c.shuttingDown /\ c.endpoint = NoFlow

(* The constructor of a stream context attaches it; one that is refused    *)
(* marks itself disconnecting, which lets its close() return at once.      *)
CreateStream(c, f) ==
  LET d == [c EXCEPT !.context[f] = "created"]
  IN IF MayAttach(c) THEN [d EXCEPT !.endpoint = f]
     ELSE [d EXCEPT !.disconnecting = @ \cup {f}]

(* A subprotocol attaches when it is connected, or closes.                 *)
CreateSubProtocol(c, f) ==
  LET d == [c EXCEPT !.context[f] = "connected"]
  IN IF c.binding = NoFlow /\ MayAttach(c)
     THEN [d EXCEPT !.endpoint = f, !.binding = f]
     ELSE CloseContext(d, f)

DetachContext_KeepsBinding(c, f) ==
  [c EXCEPT !.context[f] = "none",
            !.disconnecting = @ \ {f}, !.closing = @ \ {f},
            !.endpoint = IF @ = f THEN NoFlow ELSE @]
DetachContext(c, f) ==
  [c EXCEPT !.context[f] = "none",
            !.disconnecting = @ \ {f}, !.closing = @ \ {f},
            !.endpoint = IF @ = f THEN NoFlow ELSE @,
            !.binding = IF @ = f THEN NoFlow ELSE @]

-----------------------------------------------------------------------------
(* main *)

TerminateFlow(c) ==
  IF c.selected = NoFlow \/ c.flow[c.selected] # "active" THEN c
  ELSE [c EXCEPT !.flow[c.selected] = "terminating"]

(* Every connect() returns a handle of its own.                            *)
FreeFlows(c) ==
  {f \in Flows \ {c.selected} :
     c.flow[f] \in {"none", "terminated"} /\ c.context[f] = "none"}
ConnectSelected(c) ==
  {[c EXCEPT !.selected = f, !.flow[f] = "active"] : f \in FreeFlows(c)}

RequestReconnect_KeepsFlow(c) ==
  IF c.quit \/ c.selected = NoFlow \/ c.reconnecting THEN c
  ELSE [CloseEndpoint(c) EXCEPT !.reconnecting = TRUE, !.ticks = @ + 1]
RequestReconnect_Twice(c) ==
  IF c.quit \/ c.selected = NoFlow THEN c
  ELSE TerminateFlow([CloseEndpoint(c) EXCEPT !.reconnecting = TRUE, !.ticks = @ + 1])
RequestReconnect(c) ==
  IF c.quit \/ c.selected = NoFlow \/ c.reconnecting THEN c
  ELSE TerminateFlow([CloseEndpoint(c) EXCEPT !.reconnecting = TRUE, !.ticks = @ + 1])

StopReader(c) == [c EXCEPT !.input = IF @ = "none" THEN @ ELSE "stopped"]
StopClientLoop(c) == [c EXCEPT !.loop = IF @ = "running" THEN "stopping" ELSE @]

RequestQuit_KeepsReading(c) ==
  IF c.quit THEN c
  ELSE StopClientLoop(TerminateFlow(ShutDown(
         [c EXCEPT !.quit = TRUE, !.reconnecting = FALSE])))
RequestQuit_KeepsRunning(c) ==
  IF c.quit THEN c
  ELSE TerminateFlow(ShutDown(StopReader(
         [c EXCEPT !.quit = TRUE, !.reconnecting = FALSE])))
RequestQuit(c) ==
  IF c.quit THEN c
  ELSE StopClientLoop(TerminateFlow(ShutDown(StopReader(
         [c EXCEPT !.quit = TRUE, !.reconnecting = FALSE]))))

ContinueReconnect_IgnoresContext(c) ==
  LET d == [c EXCEPT !.ticks = @ - 1]
  IN IF c.quit \/ ~c.reconnecting THEN {d}
     ELSE IF c.flow[c.selected] # "terminated" THEN {c}
     ELSE ConnectSelected([d EXCEPT !.reconnecting = FALSE])
ContinueReconnect_GivesUp(c) ==
  LET d == [c EXCEPT !.ticks = @ - 1]
  IN IF c.quit \/ ~c.reconnecting THEN {d}
     ELSE IF c.flow[c.selected] # "terminated" \/ c.endpoint # NoFlow THEN {d}
     ELSE ConnectSelected([d EXCEPT !.reconnecting = FALSE])
(* It asks again at the next tick until the old transport is gone.         *)
ContinueReconnect(c) ==
  LET d == [c EXCEPT !.ticks = @ - 1]
  IN IF c.quit \/ ~c.reconnecting THEN {d}
     ELSE IF c.flow[c.selected] # "terminated" \/ c.endpoint # NoFlow THEN {c}
     ELSE ConnectSelected([d EXCEPT !.reconnecting = FALSE])

-----------------------------------------------------------------------------
(* StdinReader and ClientSession *)

Reading(c) == c.input \in {"watching", "deferred"}

(* ClientSession::execute: other commands only call the SDK or present     *)
(* something.  A line that is too long, and one whose handler throws, make *)
(* the reader fail, which quits.                                           *)
Execute(c, line) ==
  IF line = "reconnect" THEN RequestReconnect(c)
  ELSE IF line \in {"quit", "bad"} THEN RequestQuit(c)
  ELSE c

(* The reader looks at active_ before every line.                          *)
EmitLine(c, line) ==
  IF ~Reading(c) THEN c ELSE [Execute(c, line) EXCEPT !.late = @ \/ c.quit]

(* After the last line the input has ended, failed, or has no more yet.    *)
EndRead(c, end) ==
  IF ~Reading(c) THEN c
  ELSE IF end = "again"
       THEN [c EXCEPT !.input = IF @ = "deferred" THEN "unread" ELSE @]
       ELSE RequestQuit(StopReader(c))

ReadLines(c, lines, end) == EndRead(FoldLeft(EmitLine, c, lines), end)

Lines == BoundedSeq({"reconnect", "quit", "bad", "other"}, MaxLines)
Ends == {"again", "eof", "error"}

-----------------------------------------------------------------------------
(* The steps: what main does before the loop, callbacks, main after it.    *)

ClientBecomes(c) == client' = c
ClientRuns == client.loop \in {"running", "stopping"}

(* A character device that is no terminal is read once, at the next tick;  *)
(* a regular file is refused.                                              *)
BeginInput ==
  /\ client.loop = "starting"
  /\ \/ \E input \in {"watching", "deferred"} :
          ClientBecomes([client EXCEPT !.loop = "running", !.input = input, !.startup = TRUE])
     \/ ClientBecomes([client EXCEPT !.loop = "exited", !.shuttingDown = TRUE])

(* Exactly one transport must be enabled.                                  *)
StartupTick ==
  /\ ClientRuns /\ client.startup
  /\ \/ \E c \in ConnectSelected(client) : ClientBecomes([c EXCEPT !.startup = FALSE])
     \/ ClientBecomes(RequestQuit([client EXCEPT !.startup = FALSE]))

ReconnectTick ==
  /\ ClientRuns /\ client.ticks > 0
  /\ \E c \in ContinueReconnect(client) : ClientBecomes(c)

ReadEvent ==
  /\ ClientRuns /\ Reading(client)
  /\ \E lines \in Lines, end \in Ends :
       /\ FreeFlows(client) # {} \/ ~Contains(lines, "reconnect")
       /\ ClientBecomes(ReadLines(client, lines, end))

(* A flow connects, and may connect again when its connection is gone.     *)
OpenContext(f) ==
  /\ client.loop = "running"
  /\ client.flow[f] \in {"active", "terminating"} /\ client.context[f] = "none"
  /\ ClientBecomes(IF client.transport = "stream" THEN CreateStream(client, f)
              ELSE [client EXCEPT !.context[f] = "http"])
StreamConnected(f) ==
  /\ ClientRuns /\ client.context[f] = "created"
  /\ ClientBecomes([client EXCEPT !.context[f] = "connected"])
SubProtocolConnected(f) ==
  /\ ClientRuns /\ client.context[f] = "http"
  /\ ClientBecomes(CreateSubProtocol(client, f))
FrameRejected(f) ==
  /\ ClientRuns /\ client.context[f] = "connected" /\ f \notin client.disconnecting
  /\ ClientBecomes(CloseContext(client, f))
ContextEnds(f) ==
  /\ ClientRuns /\ client.context[f] # "none"
  /\ ClientBecomes(DetachContext(client, f))
FlowTerminates(f) ==
  /\ ClientRuns
  /\ \/ client.flow[f] = "terminating"
     \/ client.flow[f] = "active" /\ client.context[f] = "none"
  /\ ClientBecomes([client EXCEPT !.flow[f] = "terminated"])

(* A signal reaches every context, each of which shuts the connection      *)
(* down, and stops the loop; a loop that stops ends the reader.            *)
Signal ==
  /\ client.loop = "running"
  /\ LET c == StopClientLoop(client)
     IN ClientBecomes(IF \E f \in Flows : client.context[f] \in {"created", "connected"}
                 THEN ShutDown(c) ELSE c)
ReaderUnobserved ==
  /\ client.loop = "stopping" /\ Reading(client)
  /\ ClientBecomes(StopReader(client))

ClientLoopReturns ==
  /\ client.loop = "stopping" /\ \A f \in Flows : client.context[f] = "none"
  /\ ClientBecomes([client EXCEPT !.loop = "returned"])
CleanUp ==
  /\ client.loop = "returned"
  /\ ClientBecomes([ShutDown(TerminateFlow(StopReader(client)))
                 EXCEPT !.loop = "exited", !.reconnecting = FALSE])

ClientNext ==
  \/ BeginInput
  \/ StartupTick
  \/ ReconnectTick
  \/ ReadEvent
  \/ \E f \in Flows :
       \/ OpenContext(f)
       \/ StreamConnected(f)
       \/ SubProtocolConnected(f)
       \/ FrameRejected(f)
       \/ ContextEnds(f)
       \/ FlowTerminates(f)
  \/ Signal
  \/ ReaderUnobserved
  \/ ClientLoopReturns
  \/ CleanUp
ClientSpec == ClientInit /\ [][ClientNext]_client

(* The loop runs what is scheduled, a flow that was terminated says so,    *)
(* and a connection ends when it was told to close or the loop stops.      *)
ClientFairness ==
  /\ WF_client(StartupTick) /\ WF_client(ReconnectTick)
  /\ \A f \in Flows :
       /\ WF_client(client.flow[f] = "terminating" /\ FlowTerminates(f))
       /\ WF_client(/\ f \in client.closing \/ client.loop = "stopping"
                    /\ ContextEnds(f))
  /\ WF_client(ClientLoopReturns) /\ WF_client(CleanUp)
ClientFairSpec == ClientSpec /\ ClientFairness

-----------------------------------------------------------------------------
(* The type invariant.                                                     *)
ClientTypeOK == client \in ClientStates

(* Reconnects do not overlap: there is one flow that may still connect,    *)
(* the selected one, a reconnect has one continuation scheduled, and the   *)
(* transport that is attached is the binding's and alive.  A stream of the *)
(* new flow is never refused because one of the old flow is still there.   *)
TransportsDoNotOverlap ==
  /\ \A f \in Flows :
       client.flow[f] \in {"active", "terminating"} => f = client.selected
  /\ client.ticks <= 1 /\ (client.reconnecting => client.ticks = 1 \/ ~ClientRuns)
  /\ client.endpoint # NoFlow => client.context[client.endpoint] \in {"created", "connected"}
  /\ client.transport = "websocket" => client.binding = client.endpoint
  /\ client.transport = "stream" =>
       \A f \in Flows : client.context[f] # "none" =>
         f = client.selected /\ f = client.endpoint

(* A quit is final, also for the lines behind it in the same read: nothing *)
(* is executed or reconnected any more, and no transport is attached.      *)
QuitIsFinal ==
  [][/\ ~client'.late
     /\ client.quit =>
          /\ client'.quit /\ client'.input = "stopped" /\ ~client'.reconnecting
          /\ client'.endpoint \in {client.endpoint, NoFlow}]_client

(* However reconnects, quits and the ends of connections meet, the client  *)
(* has one transport, and none after a quit.                               *)
ClientIsInControl == []TransportsDoNotOverlap /\ QuitIsFinal

(* A reconnect that was asked for comes to its new connection, or is given *)
(* up by a quit.  It is what the documentation says and is not so: a       *)
(* transport that attaches after the reconnect has closed what it found    *)
(* attached is closed by nobody, and the reconnect waits for its end.      *)
ReconnectCompletes == client.reconnecting ~> ~client.reconnecting

(* A reconnect ends unless such a transport stays attached for ever, and a *)
(* quit ends the program with everything detached and no flow left to      *)
(* connect.                                                                *)
Stranded == client.endpoint # NoFlow /\ client.endpoint \notin client.closing
ClientSettles ==
  /\ client.reconnecting ~> (~client.reconnecting \/ []Stranded)
  /\ client.quit ~> /\ client.loop = "exited" /\ client.endpoint = NoFlow
                    /\ \A f \in Flows : client.flow[f] # "active"
=============================================================================
