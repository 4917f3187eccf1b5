# AISuite in TLA+

TLA+ modules, TLC configurations and TLAPS proofs for the parts of AISuite that
carry its own control: the `codex-bridge` router, its app-server providers, the
frontend SDK and the model path. Paths below are relative to the repository;
`codex/` stands for `src/ai/openai/codex/`.

## 1. The system

`codex-bridge` shares one app-server session between many frontends. Everything
in it runs on **one SNode.C event loop**: a handler runs to its end before the
next one starts, nothing is persisted, and there is no thread at all: even the
`StdinReader` of `codex-bridge-client` is a receiver of the loop. What makes it hard is not data races but the
*order of callbacks*: connections, losses, answers and refused frames meet in
any order, and each handler prunes several tables that must keep agreeing.

| component | code | state | operations | hard because |
|---|---|---|---|---|
| bridge router | `codex/bridge/CodexBridge.*` | registered frontends and their roles, controller, request owners and their inverse, local requests, server-request owners, session flags, id counters | register/unregister, receive from frontend/app-server, provider connected/disconnected/ready, SDK requests | correlation across disconnects, reused ids, role changes and sessions |
| provider handshake | `apps/codex-bridge/ProviderApplication.cpp` | the runtime, the initialize request | lifecycle callback, start, stop, retry | loss during the handshake, refused frames |
| stdio provider | `codex/provider/StdioAppServer.*`, `ChildExitObserver.*` | child pid, pipes, pidfd observer, `connected_`, `stopping_` | start, stop, send, pipe callbacks, exit callback | EOF, exit and stop are distinct events that race |
| WebSocket provider | `codex/provider/WebSocketAppServer.*` | the attached protocol, `connected_` | attach, detach, upgrade, stop | a late detach of a replaced connection |
| frontend transports | `codex/frontend/StreamSocketContext.*`, `WebSocketSubProtocol.*`, `WebSocketUpgrade.*` | connection id, `closing_`, framer | connected, received, send, disconnected | an endpoint that is closing is still registered |
| request translation | `codex/model/ResponsesAdapter.cpp`, `providers/anthropic/AnthropicProvider.cpp` | the history read so far, pending calls, encoded names | parse, prepare | a history that is legal for one side and not for the other |
| envelopes | `codex/protocol/Envelope.*` | none | classification, id keys, bridge events | which malformed messages count as what |
| JSONL framer | `codex/protocol/JsonLineFramer.*` | buffer, offset, failed flag | consume, reset, encode | frames split over reads, size limit |
| client SDK | `codex/frontend/CodexBridge.*`, `packages/codex-frontend/src/CodexBridgeClient.ts` | pending callbacks, role, connection id, provider state | receive, request, transport lost | late answers after a reconnect |
| client connection | `codex/frontend/client/*`, `ClientConnection.ts`, `WebSocketTransport.ts` | the active context | attach, connected, failed, detach, shutdown | one context, detached once |
| Responses service | `codex/model/*` | sessions (at most 16), stream state | handle, stream events, stop | one terminal event, limit released on every path |
| Anthropic provider | `src/ai/providers/anthropic/*` | stream blocks, inference | start, events, cancel | provider events out of order |
| HTTP and SSE | `src/ai/http/*` | parser and decoder buffers | feed, finish | chunk boundaries |
| applications | `apps/codex-bridge*` | options, selected flow, `reconnecting`, stdin receiver | main, session, stdin | start/stop order, a reconnect inside a callback |

How they interact: a transport calls `registerFrontend`, `receiveFromFrontend`
and `unregisterFrontend`; a provider calls `appServerConnected`,
`receiveFromAppServer` and `appServerDisconnected`; the router calls back
`send`/`close` on endpoints, `send` on the app-server endpoint, and the
lifecycle handler, which performs the handshake through the router's own SDK.

What must hold, per component: *router*: roles agree, correlation tables are
exact inverses, every request and every server request is answered exactly once
by or to the right party, nothing survives a session, telemetry is current;
*providers*: the child is reaped once and its exit reported, the bridge is told
of each session's beginning and end alternately; *transports and SDK*: one
registration per connection, callbacks exactly once; *framers*: the frames do
not depend on how the bytes are split; *model path*: one terminal event, limits
released.

## 2. Modules

| module | models |
|---|---|
| `Bridge` | the router composed with the handshake handler |
| `MCBridge` | small instances of it |
| `BridgeProofs` | theorems about `Bridge` for every value of the constants: its tables, then its sessions, the handshake and the action properties |
| `StdioAppServer` | the owned app-server child, its pipes and its exit observer |
| `JsonLineFramer` | the framer of every byte stream, against its definition |
| `MCStdio` | the two on small instances, and the framer's property over them |
| `StdioProofs` | theorems about `StdioAppServer` and `JsonLineFramer` |
| `FrontendSdk` | one frontend: SDK, connection and stream contexts, with the bridge as their peer |
| `FrontendSdkProofs` | theorems about `FrontendSdk` |
| `ResponsesStream` | the Responses stream that a provider's events become |
| `Exchange` | one inference: HTTP session, operation, Responses stream, Anthropic message stream and transport; extends `ResponsesStream` |
| `ModelPath` | the Responses service, its session limit and its provider; extends `Exchange` |
| `ResponsesProtocol` | abstract: what a client of the Responses protocol is promised |
| `StreamDecoders` | `SseDecoder` and `CustomInput`, against the formats they decode |
| `MCModelPath` | the model path with its decoders, for the run |
| `ModelPathProofs` | theorems about `ModelPath`, and that it implements `ResponsesProtocol` |
| `WebSocketAppServer` | the WebSocket endpoint, its shared state and its connections |
| `ProviderApplication` | `codex-bridge` around the router: runtimes, handshake, start, stop and exit status; extends `WebSocketAppServer` |
| `BridgeClient` | `codex-bridge-client`: start, commands, reconnect, quit and clean-up |
| `FrontendTransports` | the bridge's side of the frontends' connections |
| `HttpTransport` | one POST of the HTTP streaming client |
| `TransportContract` | abstract: what the receiver of a POST is promised |
| `RequestTranslation` | a conversation on its way from Codex to Anthropic |
| `MCApplications` | the owned child and the parts from `WebSocketAppServer` to here, side by side, for the run |
| `ApplicationProofs` | theorems about `ProviderApplication`, `BridgeClient`, `FrontendTransports` and `HttpTransport`, and that the last implements `TransportContract` |
| `TranslationProofs` | theorems about `RequestTranslation` |
| `DecoderProofs` | theorems about `StreamDecoders` |
| `FoldTheorems` | induction and folds, in the first-order form that these theorems use |

`Bridge` composes the router with the handler that uses it, `FrontendSdk` a
frontend with its peer, `ModelPath` the service with any number of exchanges and
with the provider, `ProviderApplication` the WebSocket endpoint with the runtime
that owns it. An operator named after another with a suffix, as in `Prune_Never`,
is the faulty form of it that the checks use to see a property fail; it belongs
to no specification.

### 2.1 `Bridge`: the router and the handshake

| variable | in the code (`CodexBridge.h`, `CodexBridge.cpp`) |
|---|---|
| `frontends` | `frontends_`; `role` is `Frontend::role`, `endpoint` whether the transport still takes frames |
| `controller` | `controller_` (`None` is no value) |
| `requestOwners`, `requestKeys` | `frontendRequestOwners_`, `frontendRequestKeys_` |
| `localRequests` | the response handlers of the router's own SDK requests |
| `serverRequestOwners` | `serverRequestOwners_` |
| `connected`, `ready`, `generation` | `appServer_->isConnected()`, `appServerReady_`, `providerGeneration_` |
| `nextConnection`, `nextRequest`, `nextLocal` | the id counters |
| `stopRequested` | `core::SNodeC::stop()` has been called |
| `heard`, `unanswered`, `pending` | no variable of the program: what the other side has seen |

A step is one complete event-loop callback. Each action is one case of a
handler: `RegisterFrontend` and `UnregisterFrontend` the connection calls;
`ReceiveRequest`, `ReceiveUntracked`, `ReceiveServerResponse`, `ClaimControl`,
`ReleaseControl` and `TransferControl` the cases of `receiveFromFrontend`;
`ReceiveLocalResponse`, `ReceiveResponse`, `ReceiveBroadcast`, the four server
request actions and `ReceiveResolved` the cases of `receiveFromAppServer`;
`ProviderConnects` and `ProviderDisconnects` the provider's lifecycle with the
handshake of `ProviderApplication` that runs inside it; `RequestTyped`,
`SendRawRequest` and `SendServerResponse` what an embedding application may
call.

Decisions a reader should know:

* `sendTo` closes an endpoint that refuses a frame, and the transport reports
  the disconnection in a later callback. A callback that writes frames chooses
  the set `lost` of endpoints that refuse one of them; these are `"closing"`
  until `UnregisterFrontend`. A closing endpoint stays registered, may still be
  named by the tables and may be made controller, but dispatches nothing.
* Whether the app-server's transport accepts a frame is a choice made wherever
  the code looks at the result of `send`. `setAppServer(nullptr)` is not told
  apart from a provider that is not connected.
* `unanswered` counts, for each frontend and id, the requests received minus the
  answers given, and `pending` the same for the requests of the app-server. An
  answer that the transport refuses, because the session is going down, counts
  as given up: the code forgets the request too.
* A registration beyond `maximumFrontends` leaves the router unchanged and is
  therefore not a step.
* Handlers of SDK requests are assumed not to call back into the router while
  they run; only the handshake does, and it is part of the actions.
* `core::SNodeC::stop()` does not disable handlers, so every action stays
  possible after `stopRequested`.
* `codex-bridge` itself registers no local server-request handler and sends no
  raw request: the actions of the embedding application model the use of the
  router as a library, which its header offers. `HandlerOutcomes` says what a
  local handler does when it is called.

### 2.2 `StdioAppServer`: the owned child

| variable | in the code (`StdioAppServer.*`, `ChildExitObserver.*`) |
|---|---|
| `connected`, `stopping`, `childPid` | `connected_`, `stopping_`, `childPid_` |
| `childObserver`, `receiver` | `childObserver_`; `stdinWriter_`, `stdoutReader_`, `stderrReader_`, each naming the child it was made for |
| `eventLoop`, `observer`, `pipe`, `process` | the SNode.C event loop, the receivers registered with it, and the children; external |
| `bridgeTold`, `reported`, `reaps`, `blocked` | what the bridge, the application and the system have seen |

`Start`, `StartFails` and `StartAborts` are the three results of `start()`;
`Stop` is `stop()`, with the whole of `transitionToStopped` and
`terminateAndReap` in the same step; `ReceiveStdout`, `PipeEnds` and
`PipeCloses` are the callbacks of the pipes, `ChildExitReady` and
`ChildObserverClosed` those of the observer; `ProcessExits`, `StopEventLoop` and
`EventLoopReturns` belong to the system. Decisions:

* SNode.C is not part of the repository. How a pipe receiver reports its end,
  is disabled, and reports *later* that it is closed is modelled from how
  `StdioAppServer` uses it and from `docs/architecture/snodec-study.md`. A
  receiver is `none`, `open`, `ended` (its end is reported, its closing is
  outstanding) or `closed`; an observer is `none`, `watching`, `fired` or
  `closed`.
* Every spawn has a pid of its own, so an action on the wrong child is visible.
* A chunk of stdout that the framer accepts changes nothing here and is no step.
  Its handlers belong to the router; `stop()` is not called from inside one.
* The failure of `waitpid` is not a step: `ChildrenReapedOnce` and
  the part `ChildIsObserved` of `SessionIsWhole` show that no child is waited for twice and that the blocking
  wait of the observer never meets a running child.
* The destructor is `stop()` and nothing else; the part `StoppedIsQuiet` of the same shows that a
  second call has nothing to do.
* `RestartsInCallback` says whether `start()` may be called while callbacks of
  the session before are outstanding, as it may from the lifecycle handler.
  `codex-bridge` never restarts; a user of the class may.

### 2.3 `FrontendSdk`: a frontend and its bridge

| variable | in the code (`frontend/CodexBridge.*`, `frontend/client/*`) |
|---|---|
| `lifecycle`, `attached`, `disconnecting`, `closing` | each `StreamSocketContext`: how far its socket has come, `attached_`, `disconnecting_`, and whether `SocketContext::close()` was called |
| `endpoint`, `online`, `failureReported`, `shuttingDown` | `ClientConnection`: `endpoint_`, `online_`, `failureReported_`, `shuttingDown_` |
| `pending`, `connectionId`, `controllerId`, `role`, `generation`, `ready`, `nextRequest` | `frontend::CodexBridge`: `pending_`, `connectionId_`, `controllerConnectionId_`, `role_`, `providerGeneration_`, `providerReady_`, `nextRequestNumber_` |
| `link`, `name`, `serving`, `bridge` | the bridge as this frontend's connections see it: registered or not, the identity given, the requests forwarded, controller, provider and generation |
| `uplink`, `downlink` | the frames under way on each connection |
| `calls` | no variable of the program: how often each handler was called |

A step is one callback of the frontend, one call of its application, or one
callback of the bridge. `CreateContext` to `ContextDestroyed` are the life of a
stream context, with everything `ClientConnection` and the SDK do inside;
`RequestTyped`, `Disconnect` and `Shutdown` are calls of the application; the
`Peer` actions are the router's handlers, reduced to the frames they send to
this frontend. Decisions:

* A connection delivers frames in order and without loss until it breaks; a
  break loses the uplink, and of the downlink any rest. When the bridge's
  transport refuses a frame, the connection counts as broken from there on;
  what the router keeps until the disconnection is reported is in `Bridge`.
* A context that is disconnecting sends nothing and drops what it reads, so
  `Discard` empties its channels at once. A request that still gets through
  after that is executed by the bridge for nobody.
* A handler that makes a request while `failPending` calls it sees that request
  fail at once: the transport is gone or `providerReady_` is false already. It
  is the same as a request right after the step. The one exception is the jump
  to a later generation, where the old `providerReady_` still stands:
  `GenerationsEndFirst`, a part of `PendingIsAccountedFor`, shows that nothing is outstanding then.
* Requests carry the identity of the connection they were made on and a number
  that is never used again, as `nextRequestId` forms them.
* `PeerRestarts` is a new process of the bridge: identities and generations
  start again, and every connection breaks.
* Notifications, server-request handlers and bridge commands pass through the
  SDK without changing its state and are left out. That other frontends exist
  is in `PeerSetsController`, where anyone may move control.

### 2.4 The model path

| state | in the code (`codex/model/*`, `ai/model/Provider.h`, `providers/anthropic/*`) |
|---|---|
| `provider`, `serving`, `sessions` | the provider the service was made with, `provider_` being set, `sessions_` |
| `exchange[r].phase`, `.open`, `.stopped` | the HTTP connection that brought request r, `Session::open_`, the operation's `stopped` |
| `.upstream`, `.http` | the operation the provider returned; the transport of the Anthropic provider: headers awaited, stream, error body, done |
| `.message` | `MessageStream`: started, stop reason, the one open block, its index, the calls, terminal |
| `.response` | `ResponsesStream`: `started_`, the entry `active_`, the length of `output_`, terminal; and what the frames have told the client |
| `.callbacks` | no variable of the program: what the receiver given to the provider has been called with |

The objects of one inference call each other synchronously, and the last event
or a refused frame cancels those that are still on the stack. An exchange is
therefore a record, the calls are operators on it, and an action of `ModelPath`
applies what one callback of the loop makes of it. Where the connection to Codex
may refuse a frame, or its queue may be full, the operator gives a *set* of
records, one per outcome. Decisions:

* Texts, JSON and byte limits are reduced to whether a check passes: the
  parameter `valid` of the events. Every order of accepted and refused events is
  explored.
* The provider is `"anthropic"`, where each event is what the wire may carry
  next, in any order, or `"scripted"`, any implementation of `Provider.h` that
  follows no order and calls after its end. The second is what shows that
  `ResponsesStream` protects Codex on its own.
* `ModelRuntime` starts the Anthropic provider without thinking, so a reasoning
  block is refused there; the scripted provider may send one.
* `create` and `fail` can happen inside one callback, when the provider fails
  before it returns; for the client this is one step of the protocol.
* `RequestTranslation` has one step per item of a request, and *each state is a
  whole request, as if it ended there*. Its first half is the local state of
  `parseResponsesRequest`; its second half is `prepareRequest`, an operator on
  the messages. The encoding of names is an arbitrary map that may collide, as
  hashes may. The source `"neutral"` is any other user of the provider, who
  forms messages as it likes. Left out: checks of one field, tool choice,
  limits, and reasoning.
* The check that an ordinary user content does not come before a result
  (`ordinaryUserContent`) never decides anything by itself: within one message
  the check on pending calls refuses the same requests. It is modelled, and no
  property can tell the two.

`StreamDecoders` holds algorithms, not state machines: `SseDecode` folds over the
bytes as `consume` does, `Events` says what the format defines, and the property
compares them for every input of a bounded set, with a limit that is never
reached and one that is (the theorems do for every input and limit). `TextEnds`
says where a character of a string can end; a text is what ends with one. Both decoders take one byte after the other, so chunk
boundaries make no difference by construction of the code, which the fold keeps.
A token that the decoder compares as a whole (`data`, `event`, `input`, the hex
digits of an escape) is one element. The limit of `SseDecoder` counts elements;
what `CustomInput` lets an escape grow to counts its hex digits as the four bytes
they are (`EscapeBytes`).

### 2.5 `WebSocketAppServer` and `ProviderApplication`

| variable | in the code |
|---|---|
| `active`, `bridge`, `link`, `closing` | the shared state's `active_` and `bridge_`, each connection and the `closing_` of its subprotocol |
| `kind`, `flow`, `service`, `child` | which runtime was configured; the network client's flow, the model service, the owned child |
| `started`, `loop`, `failed`, `result` | the start timer of `main`, `core::SNodeC` with `main` around it, `ModelRuntime::failed_` or `appServerStartupFailed`, the exit status |
| `handshake` | the initialize request of `providerLifecycleChanged` |
| `session`, `astray` | what the bridge was told last; it was told the same twice |

The kinds are `"stdio"`, `"model"` and `"network"`, the three runtimes of the
application, and `"embedded"`, an application that uses the endpoint of the
library with several clients at once and stops or destroys it when it likes:
only there can two connections overlap, which is what the checks of the endpoint
are for. The child is reduced to the session it gives, because
`StdioAppServer` has its detail. The exit status of `main` includes the result of
`core::SNodeC::start`, which belongs to SNode.C and is taken as success.

### 2.6 `JsonLineFramer`

`Drain` is the loop of `consume`, `Compact` and `FailFramer` are `compact` and
`fail`; a handler that throws leaves `consume` in the middle, and the rest of the
buffer waits for the next call. `Messages` and `Fails` define framing with no
buffer. `reset()` is called by nobody while bytes are buffered. The limit counts
the carriage return before a line feed, in whole lines and in unfinished ones
alike, so that the outcome does not depend on the reads.

### 2.7 The client application and the transports

**`BridgeClient`** keeps `client`, a record, because a line of input may
reconnect or quit while the reader is on the stack. `loop`, `input`, `startup`
and `ticks` are the loop, the `StdinReader` and the callbacks scheduled with
`atNextTick`; `flow` and `context` are the `ClientFlowController` of each
`connect()` and its connection; `endpoint` and `binding` are those of
`ClientConnection` and `WebSocketBinding`. A line is `reconnect`, `quit`, one that
cannot be executed, or any other. What the SDK does with frames is in
`FrontendSdk`.

**`FrontendTransports`** has both carriers, from acceptance to destruction:
`stage` is where the connection stands, `named` that its `connectionId_` is set,
`leaving` its `disconnecting_` or `closing_`. The router is reduced to
`registered`, its `frontends_`, and may close an endpoint at any moment. `scope`
and `activeUpgrade` are the objects of `ScopedWebSocketUpgrade` and the chain
that starts at the thread-local pointer.

**`HttpTransport`** keeps `post`: the `State` that operation, context and parser
share (`done`, the receiver), the connection, the `ResponseParser` and its
framing, and as observations what the receiver was told, and whether the whole
body had arrived. Every callback may cancel. The bytes are counted, not named.

**`MCApplications`** is the disjoint union of six programs, these three with
the translation of 2.4, the provider application of 2.5 and the owned child of 2.2:
a behaviour picks one of them and runs it, under the fairness of that one. They share no variable (the
application keeps of its child only whether there is one), so that side by side
they could do nothing that they do not do alone, and one run answers for all six.
`MCStdio` gives the child and the framer their instance.

## 3. What the runs check

| run | expects | asks |
|---|---|---|
| `bridge` | no error | do the tables, roles, ownerships and telemetry agree after any order of callbacks? |
| `bridge_liveness` | no error | are requests answered, are the holdings of failed connections released, does the handshake end? (`NobodyWaitsForEver`) |
| `bridge_answer_twice` | violation | is a server request answered once if its local handler answers and then throws? |
| `stdio_exit_reported` | violation | is an unexpected exit reported as `docs/codex-bridge.md` says? |
| `stdio_callback_waits` | violation | do pipe callbacks never wait for the child? |
| `stdio_restart` | violation | does the closing of an old pipe leave a restarted session alone? |
| `frontend_sdk` | no error | is every handler called once, every outstanding request to be answered, and what the SDK knows that of its connection, over reconnects and restarts of the bridge? |
| `frontend_sdk_liveness` | no error | is every handler called in the end, and does a shutdown end? (`CallersAreAnswered`) |
| `frontend_sdk_refused` | violation | is a second context told to close when it connects? |
| `model_path` | no error | does each inference end once and run only while awaited, is its place given back, does Codex see the protocol it was promised, and do the decoders agree with their formats? |
| `applications` | no error | do the application, the owned child with its framer, the client, the transports, a POST and the translation of a conversation do what is asked of each, and does everything settle but what is excluded by name? |
| `client_reconnect` | violation | does a reconnect come to its new connection, as `docs/architecture/codex-bridge.md` says? |

**What the properties of the new runs say.** `RunsWhileAwaited`: the upstream
inference is active exactly while somebody waits for it. `OneLastCallback`: the
contract of `Provider.h`. `CompletedIsComplete`: a completed response has told
the client every block. `SessionLimit`: every way a session ends gives its place
back. `KeepsProtocol`: the refinement of `ResponsesProtocol`. `SessionsEnd`:
no session stays. `OneConnectionIsHeard`: frames and sessions that reach the
bridge are of the one attached connection, told in turns.
`FailuresEndTheApplication`: a start, a handshake or an initialize request that
fails stops the loop; the exit status reports a failed start, and nothing else.
`ChildrenReapedOnce`, `SessionIsWhole`, `NoChildIsLeft`, `FramesAreDelivered`: each
child is waited for once, pointers, observer and the bridge agree on it, a stop
ends with none left, and its frames are delivered however they are read. `FrontendsAreAccountedFor`: the router knows exactly the named
connections, the limit holds, and no subprotocol takes the router of another
request. `ResponsesAreWhole`, `KeepsContract`: a POST completes only with its
whole body, once. `ConversationsAreKept`: what is sent is a conversation that
Anthropic takes, is the one that was given, and no legal history of Codex is
refused. `ClientIsInControl`: transports never overlap, and after a quit no line
is executed. `ProgramsSettle`: the liveness of the application, the client, the
frontends and a POST, with two states excluded by name. `ProviderSettles` excludes
an application whose network client has given up or whose child is gone: it runs
on with no provider. `ClientSettles` excludes a reconnect that waits for a
transport that stays attached for ever and that nobody was told to close
(`[]Stranded`). `ReconnectCompletes` has no such exception, and is violated.

**Bounds of `bridge`.** Two connections over all time, so that there is a
controller, an observer, a transfer and a disconnection with an heir; two
generations, so that a session can end and its successor meet what it left; two
requests per origin, so that an id can be outstanding, completed and reused; two
frontend ids and one server id, which is reused as often as it likes. The raw
ids are the two that the generators would produce next, one of each form. One
server id is enough because no action reads two entries of
`serverRequestOwners` together. `MaxLocalRequests` is one more than the
handshakes need. `bridge_liveness` has one id, and starts without a controller,
so that an observer has to claim control.

**Bounds of the child in `applications`.** Three children are a session, its successor and one that
meets the callbacks of both. No symmetry is used, because the run also checks
liveness; the runs that show a violation need two children. The framer has every
stream of four bytes over four kinds, and of seven over line feeds and digits,
with a limit of two bytes, every way to cut it, and every pair of handlers that
throw: enough for a frame cut anywhere, at the limit, one beyond it, behind an
empty line, and for a compaction with a rest.

**Bounds of `frontend_sdk`.** Two contexts are a connection and its successor,
or an active one and one that is refused; two requests can be outstanding
together and fail in either order; two generations and a restart let a new
connection meet a generation lower than, equal to and higher than the old one.
`MaxInFlight` bounds the frames that may be under way when the bridge sends
telemetry, so that a role, a controller and a provider state can overtake a
request, not how many frames a context may find. The liveness run has one
request and one generation, the refusal needs no restart.

**Bounds of `model_path`.** One session is allowed and two requests compete for
it, so that the second arrives before, while and after the first ends, in every
way it can end. Two items and one call id let a text stand before and after a
call, and a call id be repeated; `MaxItems` bounds the frames, no guard of the
code. The SSE inputs are every body of four bytes, and every four lines of four
kinds with each of the three line ends; the custom inputs every body of five
bytes, white space in all six places, and escapes of both lengths.

**Bounds of `applications`.** Two connections overlap or follow each other, for
all four kinds of provider. Three flows of the client are a connection, the one
a reconnect opens and the one a second reconnect opens while the first still
closes; two lines in one read are a reconnect or quit with something behind it.
Two frontends with a limit of one are an accepted and a refused one, three
scopes a chain with a middle to unlink. Three bytes leave a length below, at and
above the limit. Two calls, two tools and six parts let a call be answered
between two parallel ones and have a text on both sides. The names of a tool are
normalised up to whether they collide, and the neutral source declares one tool.

**Bounds of `client_reconnect`.** The WebSocket carrier, one line of input and the
three flows suffice for the counterexample; the fairness is that of `ClientSettles`.

**Deadlock** is not checked: every bounded counter runs out, a stopped loop does
nothing more, and a conversation ends.

**Fairness.** The event loop dispatches what is ready and reports every
connection it was told to close: `CloseCompletes` in `Bridge` and `ModelPath`; in
`StdioAppServer` the callbacks of the observer and the closing of the pipes,
`EventLoopReturns`, and the call of `stop()` that `main` makes after `start()` of the
loop has returned; in `FrontendSdk` frames under way are delivered, and a
connection that one end has closed is reported to the other; in `BridgeClient`,
`FrontendTransports` and `HttpTransport` ticks, destructions and disconnections
of what was told to close. A transport of the model path ends, because
`StreamingClient` gives up 120 seconds after the last byte and after 64 MiB, and
a scripted provider completes, as `Provider.h` asks of it. `ProviderApplication`
assumes that timers fire, that an HTTP request is answered, and (the one strong
fairness) that a server which is asked to upgrade again and again does so at
last, since the client retries without end. The end of a pipe, the exit of a
child, a loss, a command or the wish to stop are never forced. That the
app-server answers what it was sent while its session lasts is an assumption
about the environment, not about this code: without it the parts of
`NobodyWaitsForEver` about requests and the handshake are false, because the
router has no timeout for a request. In `FrontendSdk` (`CallersAreAnswered`) the
same assumption is made of the bridge, for which `Bridge` establishes it; the SDK
has no timeout either. `RequestTranslation` needs no fairness.

### Disagreements

* `bridge_answer_twice`: a local server-request handler that answers through
  `sendServerResponse` and then throws makes the router send a second answer, an
  internal error, for the same id. The theorem about this property excludes
  exactly that outcome.
* `stdio_exit_reported`: when the EOF of stdout is dispatched before the exit of
  the child, the child is reaped by the transport callback and `onExit` is never
  called, so the exit status that the documentation promises is not reported.
* `stdio_callback_waits`: the same path may signal a child that is still running
  and wait for it inside the event-loop callback.
* `stdio_restart`: a session started from the lifecycle handler, inside the
  callback that ended the one before, loses its stdin to the late `onClosed` of
  the old pipe: the callback does not know which session it was set in.
* `frontend_sdk_refused`: a stream context whose attachment is refused marks
  itself disconnecting in its constructor, so that the `close` in its
  `onConnected` returns before it closes the socket. The connection stays open
  and registered with the bridge. The WebSocket context does close.
* `client_reconnect`: `connection.disconnect` closes what is attached at that
  moment. A transport that attaches only afterwards, because its WebSocket upgrade
  was in progress, or in general because its connection was made while its flow
  terminates, is closed by nobody: `continueReconnect` reschedules itself for as
  long as the peer keeps the connection (`apps/codex-bridge-client/main.cpp:208-218`),
  and every further reconnect is refused, where
  `docs/architecture/codex-bridge.md:363` says that a reconnect disconnects,
  terminates, waits for detachment and connects anew. A quit still ends the client.
  The counterexample stays a counterexample when only an upgrade in progress may
  complete after its flow was terminated.

Further observations, which have no run of their own:

* *A bridge whose network client has given up runs on without a provider*
  (`apps/codex-bridge/ProviderApplication.cpp:238`), and a later restart of the
  app-server is not noticed. The configured limit of retries says so; no document
  or test says what else should happen, so that there is no property to check.
* The startup tick (`main.cpp:262-331`) does not ask whether a shutdown was
  requested before it connects; `CleanUp`, which terminates the selected flow, is
  what ends the connection it made.
* `StdinReader`, unlike the framer, allows a line of the maximum length to be
  followed by `\r\n`; but when a read ends between the two bytes, the unfinished
  line is one byte too long and is refused (`StdinReader.cpp:108` against `:143-144`).

## 4. What is proved

Every theorem holds for every value of the constants, bounds of exploration
included, that `BridgeAssumption`, `StdioAssumption`, `SdkAssumption`,
`ModelPathAssumption`, `CallIdsAssumption`, `WebSocketAssumption`,
`KindsAssumption`, `HttpAssumption`, `FrontendTransportsAssumption`,
`BridgeClientAssumption` and `TranslationAssumption` allow. They say that null is
no object, that limits are positive, that kinds are known ones and that a request
has finitely many tools.

**`Bridge`.** `TypeOK` alone is not inductive for the proofs: `TypeInv` adds
that the keys of `requestOwners` stay finite, which `nextRequest` needs to find a
free number, and says of each table that it is a function. Roles and correlation are
inductive with the types: the owner of a forwarded request is registered, so
pruning one table by owner and the other by key prefix removes the same pairs.
`RequestsAnsweredOnce` needs `Balanced`, which speaks of *all* registered
frontends and not of the open ones only: a closing one is still counted, so that
the step that closes it disturbs nothing. `ServerRequestsAnsweredOnce` assumes
that no handler answers and then throws. The sessions need the strengthening
`SessionInv` (no ownership and no callback of an earlier generation) and
`HandshakeInv` (at most one `initialize` is outstanding, also after a failed
handshake has stopped the application). `NothingOrphaned`, `FinalOwners` and
`RespectedControl` follow from those, each from lemmas about its parts.

**`StdioAppServer`.** `ChildInv` says that each pointer names the current child
or nothing, and that observer and process agree with it; `ReapedOnce` and
`WholeSessions` follow. `PipeInv` (stdin and stdout are `ended` only when there is
no child, and an `ended` stderr belongs to the current one) needs the assumption
`~RestartsInCallback`, under which `OldPipesQuiet` and the part of
`SessionIsWhole` about the pipes are proved; `stdio_restart` shows that the
assumption is needed.

**`FrontendSdk`.** `HandlersCalledOnce` rests on what a step can do to the
handlers at all (`HandlersStep`: fail all of them, answer one, register one, or
nothing) and on `Numbered`: the numbers of the outstanding requests are below
the next one and differ. `OneConnection` needs `Channels`: the only frame that
tells an identity on the way to a context tells it the identity of its own
connection, and before a connection is registered nothing is on its way and the
SDK has no identity; so an identity, once known, is never replaced while
requests carry it. `OthersQuiet` follows from the same invariant.
`TelemetryKnown` and `PendingAccounted` need `AgreementInv`, which speaks of the
whole contents of the active context's channels. `Synced`: the identity comes
first and with the controller and the provider behind it (`Identified`);
provider frames never go back, and what follows a ready session is its end
(`Announced`); the last controller frame and the last provider frame tell what the
bridge has, and where there is none the SDK knows it (`InStep`). `Placed`: an
outstanding request is in the uplink, at the bridge, or in the downlink as its
response, once; `NumbersUsed`, that one not made yet is nowhere, is what a new
request needs. The lemmas say what appending, reading and concatenating do to
these; then each step of the bridge appends what keeps them (`PeerSynced`,
`PeerPlaces`), and each arrival takes off what the SDK has learned
(`ReceivedInStep`). That a session's end comes before the next one
(`GenerationsEndFirst`) follows: what is outstanding was sent in a ready session,
and of a ready session only the end can arrive.

**`ModelPath`.** An exchange is idle, live or dead, and the first half of
`ModelPathProofs` shows of every operator from which of these it leads to which. `StreamInv` bounds a
Responses stream's items by one another; `InStep` keeps the message stream and the
Responses stream together: same open block, same index, same calls, so that a
stop reason that is accepted completes a response whose blocks are all told.
Stopping an exchange at any point leaves it dead. The second half lifts this to
all exchanges, adds that an open one is in `sessions` for `SessionsAreLimited`,
and maps each callback, however many calls it makes, to at most one step of
`ResponsesProtocol` (`ProtocolIsKept`).

**`ProviderApplication`.** `ProviderInv` is the two safety properties with `RuntimeInv`,
which says what each kind of runtime can hold: who owns a child, and has no
connections then, who a service and who a flow, and whose endpoint may be
destroyed before `main` ends. Steps that leave the connections alone
keep them mute (`QuietEndpoint`), so each action is split by what it can tell the
bridge. `OneConnectionHeard` and `FailuresAreFatal` are parts of the invariant.

**`FrontendTransports`.** `FrontendInv`: registered means named and connected, the
registered ones are finite and within the limit. `Numbers` numbers the chain
of scopes 1..n from the oldest to the active one; opening appends, and unlinking
anywhere closes the gap, so that the scope a subprotocol consumes is the one of
its own request (`FrontendsAccounted`).

**`HttpTransport`.** `PostInv`: done exactly when there is an outcome, nothing is
told late, a body comes only behind headers, and completed means whole. A
callback is a composition of calls with a cancellation possible between any two;
`Advances` is the transitive relation that each call keeps, so that the
composition is one step of `TransportContract` (`ContractKept`).

**`BridgeClient`.** `ClientInv` says what the flows, the contexts, the reader and
the scheduled ticks have in common: only the selected flow may still connect, on
a stream no other flow has a context, there is at most one continuation tick, with
one for every reconnect, and a quit has stopped the reader and asked for the
shutdown. The lines of one read are a fold, because a line may
reconnect or quit while the reader is on the stack; that a read keeps the
invariant is the invariant of that fold, for any number of lines. `ClientInControl`
is both halves of `ClientIsInControl`, the state and the step.

**`RequestTranslation`.** The invariant relates three things: the messages given,
those sent, and the calls that wait. `Good` says of the messages sent that roles
alternate and that the calls of each are answered at the front of the next, but
for those still waiting when it is the last; `SameEnds`, that what is sent begins and ends
with the roles of what was given, so that one more part opens a message on both
sides or on neither. `Faithful` is what was sent, part by
part; `Accepted`, that a history of Codex is never refused; `Instructions`, where
the system text goes. `prepareRequest` is a fold over messages of a fold over
parts: each operator gets its laws first, the value at nothing and what one
element more does (`GivenLaws`, `SentLaws`, `OfLaws`, `PreparedLaws`), and then one
lemma says what reading one more part does to everything at once (`PutInInv`).
The theorem holds for histories of every length and any map of names, colliding
or not.

**`JsonLineFramer`.** `FramerInv` relates the framer inside a call to the stream
it has been given so far: it has told exactly what framing makes of the bytes up
to its offset, which end with a line, and the buffer holds the rest; or it has
failed, once, where framing cannot go on. A pass of the loop keeps this and makes
the rest shorter (`NextLinePasses`), so that the loop ends with a rest that is the
beginning of a line within the limit, unless a handler threw (`DrainEnds`). A read
therefore keeps what holds between two reads (`ReadKeeps`), and the property
follows for every stream, every limit and every way to cut it (`WholeStream`);
with handlers that throw at the first two messages, after the two reads that follow
(`ThrownStream`); and for what `encode` makes of two messages (`SidesAgree`).

**`StreamDecoders`.** For `SseDecoder`, `EventsDispatched` is about every body and
limit, and rests on what one byte more does to both sides: to the decoder
(`ConsumeByte`), and to the lines, the marks between them and the events that the
format defines. For `CustomInput`, `Open` is the set of what stands behind the ends
of characters of a text and may still become one. No character is the
beginning of another, so it holds at most one sequence, and the decoder's `escape` is
that one; where there is none the decoder has failed or can only fail (`Follows`),
because an escape that is on no way to a character stays so until the limit of
twelve bytes or the quote that it swallows (`StuckStays`). So the object is taken
exactly where the text is one (`TextsTaken`): half a surrogate pair or an unknown
escape never is. `ObjectsTaken` is the other half: each character adds
what it stands for (`CharacterRead`), and white space between tokens changes nothing
(`SpacesSkipped`).

**`FoldTheorems`.** The library states induction with an operator for the property,
which the provers cannot instantiate. Here a set takes its place
(`SetInduction`, `AppendInduction`), and the step of a fold is a function of
pairs. `FoldLeft` chooses a function by its equation: there is one
(`SolutionExists`), it is unique (`SolutionUnique`), so the choice is that fold, and
`FoldedLaws` says what it is at nothing and behind one element more. Each fold of
the models is shown once to be the fold of such a function
(`EmitLinesFolded`, `PrepareFolded`, `DrainFolded` and others).

**Model-checked only.** Liveness, which is out of the prover's reach.

## 5. Not modelled, and what is left

Of the 40,880 lines of implementation, 31,413 are the generated
`protocol/generated/ProtocolTypes.h`, accessors of datatypes with no control.
The map covers about 42 % of the rest. What it does not cover:

* **Single-field checks.** Options, URLs, headers, the fields of a request and
  of a provider profile: each is reduced to whether it accepts.
* **Envelope classification.** A pure function of one JSON value, whose result
  is the input of `Bridge` and `FrontendSdk`.
* **WebSocket message reassembly**, reduced to whether it accepts, and **chunk
  decoding, TLS and sockets**, which belong to SNode.C.
* **The TypeScript twin** of the SDK: the same state machine as the C++ one, over
  a transport of the browser.
* **Command parsing, configuration, presentation, wiring of `main`** beyond start,
  stop and exit status; the **`CodexAgent`** facade, which keeps no state of its
  own; build files and generated code.

What could come next, in this order: `Routing`, the abstract promise of the
bridge as one outstanding-request service, with a refinement from `Bridge`; the
proof that the peer of `FrontendSdk` is what `Bridge` does.
