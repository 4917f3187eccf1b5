--------------------------- MODULE FrontendSdkProofs ---------------------------
(***************************************************************************)
(* The safety of the frontend SDK, for any number of contexts, requests,   *)
(* provider sessions and restarts of the bridge.                           *)
(***************************************************************************)
EXTENDS FrontendSdk, SequenceTheorems, FiniteSetTheorems, TLAPS

(* What a frame of each kind carries.                                      *)
LEMMA FrameFields ==
  ASSUME NEW m \in Frames
  PROVE  /\ m.kind = "opened" => m.name \in Names /\ m.role \in Roles
         /\ m.kind = "controller" => m.name \in {None} \cup Names
         /\ m.kind = "provider" => m.state \in Providers /\ m.generation \in Nat
         /\ m.kind = "response" => m.request \in Requests
BY DEF Frames

LEMMA FramesMade ==
  /\ \A n \in Names, r \in Roles : Opened(n, r) \in Frames
  /\ \A n \in {None} \cup Names : Controller(n) \in Frames
  /\ \A s \in Providers, g \in Nat : Provider(s, g) \in Frames
  /\ \A r \in Requests : Response(r) \in Frames
BY DEF Frames, Opened, Controller, Provider, Response

(* The parts of the type invariant that the frontend and the bridge keep.  *)
FrontendOK ==
  /\ lifecycle \in [Contexts -> {"unborn", "created", "connected", "disconnected",
                                 "destroyed"}]
  /\ attached \subseteq Contexts
  /\ closing \subseteq disconnecting /\ disconnecting \subseteq Contexts
  /\ endpoint \in Contexts \cup {None}
  /\ online \in BOOLEAN /\ failureReported \in BOOLEAN /\ shuttingDown \in BOOLEAN
  /\ nextRequest \in Nat \ {0}
SdkOK ==
  /\ pending \subseteq Requests
  /\ connectionId \in Names \cup {None}
  /\ controllerId \in {None} \cup Names
  /\ role \in Roles /\ generation \in Nat /\ ready \in BOOLEAN
  /\ calls \in [1 .. MaxRequests -> Nat]
PeerOK ==
  /\ link \in [Contexts -> {"none", "open", "broken"}]
  /\ name \in [Contexts -> Names \cup {None}]
  /\ serving \in [Contexts -> SUBSET Requests]
  /\ bridge \in [controller : {None} \cup Names, provider : Providers,
                 generation : Nat, next : Nat \ {0}, restarts : Nat]
ChannelsOK ==
  /\ uplink \in [Contexts -> Seq(Requests)]
  /\ downlink \in [Contexts -> Seq(Frames)]

LEMMA TypeParts == TypeOK <=> FrontendOK /\ SdkOK /\ PeerOK /\ ChannelsOK
BY DEF TypeOK, FrontendOK, SdkOK, PeerOK, ChannelsOK

LEMMA TypePartsNext ==
  ASSUME FrontendOK', SdkOK', PeerOK', ChannelsOK'
  PROVE  TypeOK'
BY DEF TypeOK, FrontendOK, SdkOK, PeerOK, ChannelsOK

LEMMA FailPendingType ==
  ASSUME SdkOK, FailPending
  PROVE  pending' \subseteq Requests /\ calls' \in [1 .. MaxRequests -> Nat]
BY DEF SdkOK, FailPending

LEMMA TransportDisconnectedType ==
  ASSUME SdkOK, TransportDisconnected
  PROVE  SdkOK'
BY FailPendingType DEF SdkOK, TransportDisconnected, Roles, Names

LEMMA ReceiveType ==
  ASSUME SdkOK, NEW m \in Frames, Receive(m)
  PROVE  SdkOK'
<1>1. CASE m.kind = "opened" /\ ReceiveOpened(m)
  BY <1>1, FrameFields DEF SdkOK, ReceiveOpened
<1>2. CASE m.kind = "controller" /\ ReceiveController(m)
  BY <1>2, FrameFields DEF SdkOK, ReceiveController, Roles
<1>3. CASE m.kind = "provider" /\ ReceiveProvider(m)
  <2>1. m.generation \in Nat
    BY <1>3, FrameFields
  <2>2. pending' \subseteq Requests /\ calls' \in [1 .. MaxRequests -> Nat]
    BY <1>3, FailPendingType DEF ReceiveProvider, SdkOK, sdk
  <2>3. ready' \in BOOLEAN
    <3>1. ready' = ready \/ ready' = (m.state = "ready")
      BY <1>3, Zenon DEF ReceiveProvider, sdk
    <3> QED
      BY <3>1 DEF SdkOK
  <2> QED
    BY <1>3, <2>1, <2>2, <2>3 DEF SdkOK, ReceiveProvider, sdk
<1>4. CASE m.kind = "response" /\ ReceiveResponse(m)
  BY <1>4, FrameFields DEF SdkOK, ReceiveResponse, Requests
<1> QED
  BY <1>1, <1>2, <1>3, <1>4 DEF Receive

LEMMA BroadcastType ==
  ASSUME ChannelsOK, NEW to, NEW m \in Frames, Broadcast(to, m)
  PROVE  downlink' \in [Contexts -> Seq(Frames)]
BY AppendProperties DEF Broadcast, ChannelsOK

LEMMA DiscardType ==
  ASSUME ChannelsOK, NEW k \in Contexts, Discard(k)
  PROVE  ChannelsOK'
BY EmptySeq DEF ChannelsOK, Discard

LEMMA InitType == Init => TypeOK
<1> SUFFICES ASSUME Init PROVE TypeOK
  OBVIOUS
<1>1. FrontendOK
  <2>1. lifecycle \in [Contexts -> {"unborn", "created", "connected", "disconnected",
                                   "destroyed"}]
    BY DEF Init
  <2>2. attached = {} /\ closing = {} /\ disconnecting = {} /\ endpoint = None
        /\ nextRequest = 1 /\ ~online /\ ~failureReported /\ ~shuttingDown
    BY DEF Init
  <2>3. online \in BOOLEAN /\ failureReported \in BOOLEAN /\ shuttingDown \in BOOLEAN
    BY DEF Init
  <2> QED
    BY <2>1, <2>2, <2>3 DEF FrontendOK
<1>2. SdkOK
  BY DEF Init, SdkOK, Roles
<1>3. PeerOK
  BY DEF Init, PeerOK, Providers
<1>4. ChannelsOK
  BY EmptySeq DEF Init, ChannelsOK
<1> QED
  BY <1>1, <1>2, <1>3, <1>4, TypeParts

(* One step of the frontend.  "Frontend" names what the bridge leaves alone.*)
LEMMA FrontendActsType ==
  ASSUME TypeOK, FrontendActs
  PROVE  TypeOK'
<1>1. FrontendOK /\ SdkOK /\ PeerOK /\ ChannelsOK
  BY TypeParts
<1>2. ASSUME UNCHANGED peer PROVE PeerOK'
  BY <1>1, <1>2 DEF PeerOK, peer
<1>3. ASSUME UNCHANGED <<sdk, calls>> PROVE SdkOK'
  BY <1>1, <1>3 DEF SdkOK, sdk
<1>4. ASSUME UNCHANGED <<uplink, downlink>> PROVE ChannelsOK'
  BY <1>1, <1>4 DEF ChannelsOK
<1>5. ASSUME NEW k \in Contexts, CreateContext(k) PROVE TypeOK'
  <2>1. FrontendOK'
    <3>1. lifecycle' \in [Contexts -> {"unborn", "created", "connected", "disconnected",
                                      "destroyed"}]
      BY <1>1, <1>5 DEF CreateContext, FrontendOK
    <3>2. /\ attached' \subseteq Contexts /\ endpoint' \in Contexts \cup {None}
          /\ closing' \subseteq disconnecting' /\ disconnecting' \subseteq Contexts
          /\ nextRequest' \in Nat \ {0}
      BY <1>1, <1>5 DEF CreateContext, FrontendOK, connection
    <3>3. online' \in BOOLEAN /\ failureReported' \in BOOLEAN /\ shuttingDown' \in BOOLEAN
      BY <1>1, <1>5 DEF CreateContext, FrontendOK, connection
    <3> QED
      BY <3>1, <3>2, <3>3 DEF FrontendOK
  <2> QED
    BY TypePartsNext, <2>1, <1>2, <1>3, <1>4, <1>5 DEF CreateContext
<1>6. ASSUME NEW k \in Contexts, ContextConnected(k) PROVE TypeOK'
  <2>1. FrontendOK'
    <3>1. lifecycle' \in [Contexts -> {"unborn", "created", "connected", "disconnected",
                                      "destroyed"}]
      BY <1>1, <1>6 DEF ContextConnected, FrontendOK
    <3>2. /\ attached' \subseteq Contexts /\ endpoint' \in Contexts \cup {None}
          /\ closing' \subseteq disconnecting' /\ disconnecting' \subseteq Contexts
          /\ nextRequest' \in Nat \ {0}
      BY <1>1, <1>6 DEF ContextConnected, FrontendOK
    <3>3. online' \in BOOLEAN
      BY <1>6, Zenon DEF ContextConnected
    <3>4. failureReported' \in BOOLEAN /\ shuttingDown' \in BOOLEAN
      BY <1>1, <1>6 DEF ContextConnected, FrontendOK
    <3> QED
      BY <3>1, <3>2, <3>3, <3>4 DEF FrontendOK
  <2> QED
    BY TypePartsNext, <2>1, <1>2, <1>3, <1>4, <1>6 DEF ContextConnected
<1>7. ASSUME NEW k \in Contexts, ReceiveFrame(k) PROVE TypeOK'
  <2>1. downlink[k] \in Seq(Frames) /\ downlink[k] # <<>>
    BY <1>1, <1>7 DEF ReceiveFrame, ChannelsOK
  <2>2. Head(downlink[k]) \in Frames /\ Tail(downlink[k]) \in Seq(Frames)
    BY <2>1, HeadTailProperties
  <2>3. ChannelsOK'
    BY <1>1, <1>7, <2>2 DEF ReceiveFrame, ChannelsOK
  <2>4. SdkOK'
    <3>1. CASE Receives(k)
      BY <1>1, <1>7, <2>2, <3>1, ReceiveType DEF ReceiveFrame
    <3>2. CASE ~Receives(k)
      BY <1>3, <1>7, <3>2 DEF ReceiveFrame
    <3> QED
      BY <3>1, <3>2
  <2>5. FrontendOK'
    BY <1>1, <1>7 DEF ReceiveFrame, FrontendOK, flags, connection
  <2> QED
    BY TypePartsNext, <2>3, <2>4, <2>5, <1>2, <1>7 DEF ReceiveFrame
<1>8. ASSUME NEW k \in Contexts, Close(k), UNCHANGED <<endpoint, online, nextRequest>>,
             failureReported' \in BOOLEAN, shuttingDown' \in BOOLEAN
      PROVE  FrontendOK' /\ ChannelsOK'
  BY <1>1, <1>8, DiscardType DEF Close, FrontendOK
<1>9. ASSUME NEW k \in Contexts, ReceiveBadFrame(k) PROVE TypeOK'
  <2>1. failureReported' \in BOOLEAN
    BY <1>9, Zenon DEF ReceiveBadFrame
  <2>2. shuttingDown' \in BOOLEAN
    BY <1>1, <1>9 DEF ReceiveBadFrame, FrontendOK
  <2>3. FrontendOK' /\ ChannelsOK'
    BY <1>8, <1>9, <2>1, <2>2 DEF ReceiveBadFrame
  <2> QED
    BY TypePartsNext, <2>3, <1>2, <1>3, <1>9 DEF ReceiveBadFrame
<1>10. ASSUME NEW k \in Contexts, Detach(k)
       PROVE  /\ SdkOK' /\ attached' \subseteq Contexts
              /\ endpoint' \in Contexts \cup {None}
              /\ online' \in BOOLEAN /\ failureReported' \in BOOLEAN
  <2>1. CASE k \in attached /\ endpoint = k
    BY <1>1, <1>10, <2>1, TransportDisconnectedType DEF Detach, FrontendOK
  <2>2. CASE ~(k \in attached /\ endpoint = k)
    BY <1>1, <1>3, <1>10, <2>2 DEF Detach, FrontendOK
  <2> QED
    BY <2>1, <2>2
<1>11. ASSUME NEW k \in Contexts, ContextDisconnected(k) PROVE TypeOK'
  <2>1. FrontendOK'
    BY <1>1, <1>10, <1>11 DEF ContextDisconnected, FrontendOK
  <2> QED
    BY TypePartsNext, <2>1, <1>1, <1>2, <1>10, <1>11, DiscardType DEF ContextDisconnected
<1>12. ASSUME NEW k \in Contexts, ContextDestroyed(k) PROVE TypeOK'
  <2>1. FrontendOK'
    BY <1>1, <1>10, <1>12 DEF ContextDestroyed, FrontendOK
  <2> QED
    BY TypePartsNext, <2>1, <1>1, <1>2, <1>10, <1>12, DiscardType DEF ContextDestroyed
<1>13. ASSUME RequestTyped PROVE TypeOK'
  <2> DEFINE request == [connection |-> connectionId, number |-> nextRequest]
  <2>1. nextRequest \in 1 .. MaxRequests
    BY <1>1, <1>13, SdkAssumption DEF RequestTyped, FrontendOK
  <2>2. FrontendOK'
    BY <1>1, <1>13 DEF RequestTyped, FrontendOK, flags, connection
  <2>3. PeerOK'
    BY <1>2, <1>13 DEF RequestTyped
  <2>4. CASE /\ connectionId # None /\ ready /\ CanSend
             /\ pending' = pending \cup {request}
             /\ uplink' = [uplink EXCEPT ![endpoint] = Append(@, request)]
             /\ UNCHANGED calls
    <3>1. request \in Requests
      BY <1>1, <2>1, <2>4 DEF Requests, SdkOK
    <3>2. endpoint \in Contexts
      BY <1>1, <2>4 DEF CanSend, FrontendOK
    <3>3. SdkOK'
      BY <1>1, <1>13, <2>4, <3>1 DEF RequestTyped, SdkOK
    <3>4. Append(uplink[endpoint], request) \in Seq(Requests)
      BY <1>1, <3>1, <3>2, AppendProperties DEF ChannelsOK
    <3>5. ChannelsOK'
      BY <1>1, <1>13, <2>4, <3>2, <3>4 DEF RequestTyped, ChannelsOK
    <3> QED
      BY TypePartsNext, <3>3, <3>5, <2>2, <2>3
  <2>5. CASE /\ calls' = [calls EXCEPT ![nextRequest] = @ + 1]
             /\ UNCHANGED <<pending, uplink>>
    <3>1. SdkOK'
      BY <1>1, <1>13, <2>1, <2>5 DEF RequestTyped, SdkOK
    <3> QED
      BY TypePartsNext, <3>1, <2>2, <2>3, <1>4, <1>13, <2>5 DEF RequestTyped
  <2> QED
    BY <1>13, <2>4, <2>5 DEF RequestTyped
<1>14. ASSUME Disconnect PROVE TypeOK'
  <2>1. endpoint \in Contexts
    BY <1>1, <1>14 DEF Disconnect, FrontendOK
  <2>2. FrontendOK' /\ ChannelsOK'
    BY <1>1, <1>8, <1>14, <2>1 DEF Disconnect, FrontendOK, connection
  <2> QED
    BY TypePartsNext, <2>2, <1>2, <1>3, <1>14 DEF Disconnect
<1>15. ASSUME Shutdown PROVE TypeOK'
  <2>1. CASE endpoint # None
    <3>1. endpoint \in Contexts
      BY <1>1, <2>1 DEF FrontendOK
    <3>2. FrontendOK' /\ ChannelsOK'
      BY <1>1, <1>8, <1>15, <2>1, <3>1 DEF Shutdown, FrontendOK
    <3> QED
      BY TypePartsNext, <3>2, <1>2, <1>3, <1>15, <2>1 DEF Shutdown
  <2>2. CASE endpoint = None
    <3>1. SdkOK' /\ ChannelsOK'
      BY <1>1, <1>4, <1>15, <2>2, TransportDisconnectedType DEF Shutdown
    <3>2. FrontendOK'
      BY <1>1, <1>15, <2>2 DEF Shutdown, FrontendOK, flags
    <3> QED
      BY TypePartsNext, <3>1, <3>2, <1>2, <1>15 DEF Shutdown
  <2> QED
    BY <2>1, <2>2
<1> QED
  BY <1>5, <1>6, <1>7, <1>9, <1>11, <1>12, <1>13, <1>14, <1>15 DEF FrontendActs

(* One step of the bridge.                                                 *)
LEMMA FailuresType ==
  ASSUME NEW S \in SUBSET Requests, NEW s \in Orders(S)
  PROVE  Failures(s) \in Seq(Frames)
<1>1. PICK n \in 0 .. MaxRequests : s \in [1 .. n -> S]
  BY DEF Orders
<1>2. n \in Nat
  BY <1>1, SdkAssumption
<1>3. \A i \in 1 .. n : Response(s[i]) \in Frames
  BY <1>1, FramesMade
<1>4. Failures(s) = [i \in 1 .. n |-> Response(s[i])]
  BY <1>1 DEF Failures
<1> QED
  BY <1>2, <1>3, <1>4, IsASeq

LEMMA PeerActsType ==
  ASSUME TypeOK, PeerActs
  PROVE  TypeOK'
<1>1. FrontendOK /\ SdkOK /\ PeerOK /\ ChannelsOK
  BY TypeParts
<1>2. ASSUME UNCHANGED Frontend PROVE FrontendOK' /\ SdkOK'
  BY <1>1, <1>2 DEF Frontend, flags, connection, sdk, FrontendOK, SdkOK
<1>3. \A k \in Contexts : name[k] \in {None} \cup Names
  BY <1>1 DEF PeerOK
<1>4. /\ bridge.controller \in {None} \cup Names /\ bridge.provider \in Providers
      /\ bridge.generation \in Nat /\ bridge.next \in Nat \ {0} /\ bridge.restarts \in Nat
  BY <1>1 DEF PeerOK
<1>5. ASSUME NEW k \in Contexts, PeerRegisters(k) PROVE TypeOK'
  <2>1. PICK becomesController \in {FALSE, bridge.controller = None} :
          LET n == bridge.next
              controller == IF becomesController THEN n ELSE bridge.controller
          IN
          /\ bridge' = [bridge EXCEPT !.controller = controller, !.next = n + 1]
          /\ name' = [name EXCEPT ![k] = n]
          /\ downlink' = [j \in Contexts |->
               IF j = k /\ k \notin disconnecting
               THEN <<Opened(n, IF becomesController THEN "controller" ELSE "observer"),
                      Provider(bridge.provider, bridge.generation), Controller(controller)>>
               ELSE IF j \in Listening THEN Append(downlink[j], Controller(controller))
               ELSE downlink[j]]
    BY <1>5 DEF PeerRegisters
  <2> DEFINE n == bridge.next
             controller == IF becomesController THEN n ELSE bridge.controller
             opened == Opened(n, IF becomesController THEN "controller" ELSE "observer")
  <2>2. n \in Names /\ n + 1 \in Nat \ {0} /\ controller \in {None} \cup Names
    BY <1>4, <1>5 DEF PeerRegisters, Names
  <2>3. opened \in Frames
    <3>1. (IF becomesController THEN "controller" ELSE "observer") \in Roles
      BY DEF Roles
    <3> QED
      BY <2>2, <3>1, FramesMade
  <2>4. Controller(controller) \in Frames
        /\ Provider(bridge.provider, bridge.generation) \in Frames
    BY <1>4, <2>2, FramesMade
  <2> HIDE DEF opened, controller
  <2>5. PeerOK'
    <3>1. link' \in [Contexts -> {"none", "open", "broken"}]
      BY <1>1, <1>5 DEF PeerRegisters, PeerOK
    <3>2. name' \in [Contexts -> Names \cup {None}] /\ serving' = serving
      BY <1>1, <1>5, <2>1, <2>2 DEF PeerRegisters, PeerOK
    <3>3. bridge' = [bridge EXCEPT !.controller = controller, !.next = n + 1]
      BY <2>1 DEF controller
    <3>4. bridge' \in [controller : {None} \cup Names, provider : Providers,
                      generation : Nat, next : Nat \ {0}, restarts : Nat]
      BY <1>1, <2>2, <3>3 DEF PeerOK
    <3> QED
      BY <1>1, <3>1, <3>2, <3>4 DEF PeerOK
  <2>6. downlink' \in [Contexts -> Seq(Frames)]
    <3>1. downlink' = [j \in Contexts |->
            IF j = k /\ k \notin disconnecting
            THEN <<opened, Provider(bridge.provider, bridge.generation),
                   Controller(controller)>>
            ELSE IF j \in Listening THEN Append(downlink[j], Controller(controller))
            ELSE downlink[j]]
      BY <2>1 DEF opened, controller
    <3>2. <<opened, Provider(bridge.provider, bridge.generation),
            Controller(controller)>> \in Seq(Frames)
      BY <2>3, <2>4
    <3>3. \A j \in Contexts : Append(downlink[j], Controller(controller)) \in Seq(Frames)
      BY <1>1, <2>4, AppendProperties DEF ChannelsOK
    <3> QED
      BY <1>1, <3>1, <3>2, <3>3 DEF ChannelsOK
  <2>7. ChannelsOK'
    BY <1>1, <1>5, <2>6 DEF ChannelsOK, PeerRegisters
  <2> QED
    BY <1>2, <1>5, <2>5, <2>7, TypePartsNext DEF PeerRegisters
<1>6. ASSUME NEW to, NEW c \in {None} \cup Names, Broadcast(to, Controller(c))
      PROVE  downlink' \in [Contexts -> Seq(Frames)]
  BY <1>1, <1>6, FramesMade, BroadcastType
<1>7. ASSUME NEW to, NEW p \in Providers, NEW g \in Nat, Broadcast(to, Provider(p, g))
      PROVE  downlink' \in [Contexts -> Seq(Frames)]
  BY <1>1, <1>7, FramesMade, BroadcastType
<1>8. ASSUME NEW to, NEW r \in Requests, Broadcast(to, Response(r))
      PROVE  downlink' \in [Contexts -> Seq(Frames)]
  BY <1>1, <1>8, FramesMade, BroadcastType
<1>9. ASSUME NEW k \in Contexts, PeerUnregisters(k) PROVE TypeOK'
  <2>1. uplink' \in [Contexts -> Seq(Requests)]
    BY <1>1, <1>9, EmptySeq DEF PeerUnregisters, ChannelsOK
  <2>2. downlink' \in [Contexts -> Seq(Frames)]
    BY <1>1, <1>6, <1>9 DEF PeerUnregisters, ChannelsOK
  <2>3. bridge' \in [controller : {None} \cup Names, provider : Providers,
                    generation : Nat, next : Nat \ {0}, restarts : Nat]
    BY <1>1, <1>9 DEF PeerUnregisters, PeerOK
  <2>4. PeerOK'
    BY <1>1, <1>9, <2>3 DEF PeerUnregisters, PeerOK
  <2> QED
    BY <1>2, <1>9, <2>1, <2>2, <2>4, TypePartsNext DEF PeerUnregisters, ChannelsOK
<1>10. ASSUME NEW n \in {None} \cup Names, PeerSetsController(n) PROVE TypeOK'
  <2>1. ChannelsOK'
    BY <1>1, <1>6, <1>10 DEF PeerSetsController, ChannelsOK
  <2>2. PeerOK'
    BY <1>1, <1>10 DEF PeerSetsController, PeerOK
  <2> QED
    BY <1>2, <1>10, <2>1, <2>2, TypePartsNext DEF PeerSetsController
<1>11. ASSUME PeerConnects PROVE TypeOK'
  <2>1. bridge' \in [controller : {None} \cup Names, provider : Providers,
                    generation : Nat, next : Nat \ {0}, restarts : Nat]
    <3>1. bridge' = [[bridge EXCEPT !.provider = "connected"]
                       EXCEPT !.generation = bridge.generation + 1]
      BY <1>11, <1>1 DEF PeerConnects, PeerOK
    <3>2. bridge.generation + 1 \in Nat /\ "connected" \in Providers
      BY <1>4 DEF Providers
    <3> QED
      BY <1>1, <3>1, <3>2 DEF PeerOK
  <2>2. bridge'.generation \in Nat
    BY <2>1
  <2>3. ChannelsOK'
    BY <1>1, <1>7, <1>11, <2>2 DEF PeerConnects, ChannelsOK, Providers
  <2>4. PeerOK'
    BY <1>1, <1>11, <2>1 DEF PeerConnects, PeerOK
  <2> QED
    BY <1>2, <1>11, <2>3, <2>4, TypePartsNext DEF PeerConnects
<1>12. ASSUME PeerReady PROVE TypeOK'
  <2>1. ChannelsOK'
    BY <1>1, <1>4, <1>7, <1>12 DEF PeerReady, ChannelsOK, Providers
  <2>2. PeerOK'
    BY <1>1, <1>12 DEF PeerReady, PeerOK, Providers
  <2> QED
    BY <1>2, <1>12, <2>1, <2>2, TypePartsNext DEF PeerReady
<1>13. ASSUME PeerDisconnects PROVE TypeOK'
  <2>1. PICK order \in [Contexts -> UNION {Orders(serving[k]) : k \in Contexts}] :
          /\ \A k \in Contexts : order[k] \in Orders(serving[k])
          /\ downlink' = [k \in Contexts |->
               IF k \in Listening
               THEN downlink[k] \o Append(Failures(order[k]),
                                          Provider("disconnected", bridge.generation))
               ELSE downlink[k]]
    BY <1>13 DEF PeerDisconnects
  <2>2. Provider("disconnected", bridge.generation) \in Frames
    BY <1>4, FramesMade DEF Providers
  <2>3. \A k \in Contexts :
          Append(Failures(order[k]), Provider("disconnected", bridge.generation)) \in Seq(Frames)
    BY <1>1, <2>1, <2>2, FailuresType, AppendProperties DEF PeerOK
  <2>4. \A k \in Contexts :
          downlink[k] \o Append(Failures(order[k]), Provider("disconnected", bridge.generation))
            \in Seq(Frames)
    BY <1>1, <2>3, ConcatProperties DEF ChannelsOK
  <2>5. downlink' \in [Contexts -> Seq(Frames)]
    BY <1>1, <2>1, <2>4 DEF ChannelsOK
  <2>6. PeerOK'
    BY <1>1, <1>13 DEF PeerDisconnects, PeerOK, Providers
  <2> QED
    BY <1>1, <1>2, <1>13, <2>5, <2>6, TypePartsNext DEF PeerDisconnects, ChannelsOK
<1>14. ASSUME NEW k \in Contexts, PeerReceives(k) PROVE TypeOK'
  <2>1. uplink[k] \in Seq(Requests) /\ uplink[k] # <<>>
    BY <1>1, <1>14 DEF PeerReceives, ChannelsOK
  <2>2. Head(uplink[k]) \in Requests /\ Tail(uplink[k]) \in Seq(Requests)
    BY <2>1, HeadTailProperties
  <2>3. uplink' \in [Contexts -> Seq(Requests)]
    BY <1>1, <1>14, <2>2 DEF PeerReceives, ChannelsOK
  <2>4. downlink' \in [Contexts -> Seq(Frames)]
    BY <1>1, <1>8, <1>14, <2>2 DEF PeerReceives, ChannelsOK
  <2>5. serving' \in [Contexts -> SUBSET Requests]
    BY <1>1, <1>14, <2>2 DEF PeerReceives, PeerOK
  <2>6. PeerOK'
    BY <1>1, <1>14, <2>5 DEF PeerReceives, PeerOK
  <2> QED
    BY <1>2, <1>14, <2>3, <2>4, <2>6, TypePartsNext DEF PeerReceives, ChannelsOK
<1>15. ASSUME NEW k \in Contexts, PeerAnswers(k) PROVE TypeOK'
  <2>1. PICK r \in serving[k] :
          /\ serving' = [serving EXCEPT ![k] = @ \ {r}]
          /\ Broadcast({k}, Response(r))
    BY <1>15 DEF PeerAnswers
  <2>2. r \in Requests
    BY <1>1, <2>1 DEF PeerOK
  <2>3. ChannelsOK'
    BY <1>1, <1>8, <1>15, <2>1, <2>2 DEF PeerAnswers, ChannelsOK
  <2>4. PeerOK'
    BY <1>1, <1>15, <2>1 DEF PeerAnswers, PeerOK
  <2> QED
    BY <1>2, <1>15, <2>3, <2>4, TypePartsNext DEF PeerAnswers
<1>16. ASSUME PeerRestarts PROVE TypeOK'
  <2>1. ChannelsOK'
    BY <1>1, <1>16, EmptySeq DEF PeerRestarts, ChannelsOK
  <2>2. PeerOK'
    BY <1>1, <1>16 DEF PeerRestarts, PeerOK, Providers
  <2> QED
    BY <1>2, <1>16, <2>1, <2>2, TypePartsNext DEF PeerRestarts
<1> QED
  BY <1>5, <1>9, <1>10, <1>11, <1>12, <1>13, <1>14, <1>15, <1>16 DEF PeerActs

(* Every variable has its type, in every reachable state.                  *)
THEOREM SdkTypeCorrect == Spec => []TypeOK
<1>1. TypeOK /\ [Next]_vars => TypeOK'
  <2>1. ASSUME TypeOK, UNCHANGED vars PROVE TypeOK'
    BY <2>1 DEF vars, flags, connection, sdk, peer, TypeOK
  <2> QED
    BY <2>1, FrontendActsType, PeerActsType DEF Next
<1> QED
  BY <1>1, InitType, PTL DEF Spec

-----------------------------------------------------------------------------
(* What a step does to the handlers: nothing, unless it fails all of them, *)
(* answers one, or registers one.                                          *)
LEMMA DetachHandlers ==
  ASSUME NEW k, Detach(k)
  PROVE  FailPending \/ UNCHANGED <<pending, calls>>
BY DEF Detach, TransportDisconnected, sdk

LEMMA ReceiveHandlers ==
  ASSUME NEW m, Receive(m)
  PROVE  \/ FailPending
         \/ m.kind = "response" /\ ReceiveResponse(m)
         \/ UNCHANGED <<pending, calls>>
BY DEF Receive, ReceiveOpened, ReceiveController, ReceiveProvider, sdk

LEMMA HandlersStep ==
  ASSUME TypeOK, [Next]_vars
  PROVE  \/ UNCHANGED <<pending, calls, nextRequest>>
         \/ FailPending /\ UNCHANGED nextRequest
         \/ \E m \in Frames : m.kind = "response" /\ ReceiveResponse(m) /\ UNCHANGED nextRequest
         \/ RequestTyped
<1> DEFINE Goal == \/ UNCHANGED <<pending, calls, nextRequest>>
                   \/ FailPending /\ UNCHANGED nextRequest
                   \/ \E m \in Frames : m.kind = "response" /\ ReceiveResponse(m)
                                        /\ UNCHANGED nextRequest
                   \/ RequestTyped
<1>1. ASSUME UNCHANGED vars PROVE Goal
  BY <1>1 DEF vars, sdk
<1>2. ASSUME PeerActs PROVE Goal
  <2>1. UNCHANGED Frontend
    BY <1>2 DEF PeerActs, PeerRegisters, PeerUnregisters, PeerReceives, PeerAnswers,
                PeerSetsController, PeerConnects, PeerReady, PeerDisconnects, PeerRestarts
  <2> QED
    BY <2>1 DEF Frontend, sdk
<1>3. ASSUME NEW k \in Contexts, CreateContext(k) \/ ContextConnected(k) \/ ReceiveBadFrame(k)
      PROVE  Goal
  BY <1>3 DEF CreateContext, ContextConnected, ReceiveBadFrame, sdk
<1>4. ASSUME NEW k \in Contexts, ReceiveFrame(k) PROVE Goal
  <2>1. Head(downlink[k]) \in Frames
    BY <1>4, HeadTailProperties DEF ReceiveFrame, TypeOK
  <2> QED
    BY <1>4, <2>1, ReceiveHandlers DEF ReceiveFrame, sdk
<1>5. ASSUME NEW k \in Contexts, ContextDisconnected(k) \/ ContextDestroyed(k) PROVE Goal
  BY <1>5, DetachHandlers DEF ContextDisconnected, ContextDestroyed
<1>6. ASSUME Disconnect \/ Shutdown PROVE Goal
  BY <1>6 DEF Disconnect, Shutdown, TransportDisconnected, sdk
<1> HIDE DEF Goal
<1>7. Goal
  <2>1. ASSUME RequestTyped PROVE Goal
    BY <2>1 DEF Goal
  <2> QED
    BY <1>1, <1>2, <1>3, <1>4, <1>5, <1>6, <2>1 DEF Next, FrontendActs
<1> QED
  BY <1>7 DEF Goal

(* The numbers of the outstanding requests are in use, and differ.         *)
Numbered ==
  /\ \A r \in pending : r.number < nextRequest
  /\ \A r, s \in pending : r.number = s.number => r = s

LEMMA HandlersInvariant ==
  ASSUME TypeOK, Numbered, CallbacksOnce, [Next]_vars
  PROVE  Numbered' /\ CallbacksOnce'
<1>1. /\ pending \subseteq Requests /\ calls \in [1 .. MaxRequests -> Nat]
      /\ nextRequest \in Nat \ {0} /\ MaxRequests \in Nat
      /\ \A r \in Requests : r.number \in 1 .. MaxRequests
  BY SdkAssumption DEF TypeOK, Requests
<1>2. \A n \in 1 .. MaxRequests : calls[n] =
        IF n < nextRequest /\ ~\E r \in pending : r.number = n THEN 1 ELSE 0
  BY DEF CallbacksOnce
<1>3. ASSUME UNCHANGED <<pending, calls, nextRequest>> PROVE Numbered' /\ CallbacksOnce'
  BY <1>3 DEF Numbered, CallbacksOnce
<1>4. ASSUME FailPending, UNCHANGED nextRequest PROVE Numbered' /\ CallbacksOnce'
  <2>1. pending' = {} /\ Numbered'
    BY <1>4 DEF FailPending, Numbered
  <2>2. ASSUME NEW n \in 1 .. MaxRequests
        PROVE  calls'[n] = IF n < nextRequest THEN 1 ELSE 0
    <3>1. calls'[n] = IF \E r \in pending : r.number = n THEN calls[n] + 1 ELSE calls[n]
      BY <1>4 DEF FailPending
    <3>2. CASE \E r \in pending : r.number = n
      <4>1. n < nextRequest
        BY <3>2 DEF Numbered
      <4> QED
        BY <1>2, <3>1, <3>2, <4>1
    <3>3. CASE ~\E r \in pending : r.number = n
      BY <1>2, <3>1, <3>3
    <3> QED
      BY <3>2, <3>3
  <2> QED
    BY <1>4, <2>1, <2>2 DEF CallbacksOnce
<1>5. ASSUME NEW m \in Frames, m.kind = "response", ReceiveResponse(m), UNCHANGED nextRequest
      PROVE  Numbered' /\ CallbacksOnce'
  <2>1. CASE m.request \notin pending
    <3>1. UNCHANGED <<pending, calls>>
      BY <1>5, <2>1 DEF ReceiveResponse
    <3> QED
      BY <1>3, <1>5, <3>1
  <2>2. CASE m.request \in pending
    <3> DEFINE i == m.request.number
    <3>1. i \in 1 .. MaxRequests /\ i < nextRequest
      BY <1>1, <2>2 DEF Numbered
    <3>2. pending' = pending \ {m.request} /\ calls' = [calls EXCEPT ![i] = @ + 1]
      BY <1>5, <2>2 DEF ReceiveResponse
    <3>3. Numbered'
      BY <1>5, <3>2 DEF Numbered
    <3>4. calls[i] = 0 /\ ~\E r \in pending' : r.number = i
      BY <1>2, <2>2, <3>1, <3>2 DEF Numbered
    <3>5. \A n \in 1 .. MaxRequests \ {i} :
            (\E r \in pending' : r.number = n) <=> (\E r \in pending : r.number = n)
      BY <3>2
    <3> HIDE DEF i
    <3>6. CallbacksOnce'
      <4> SUFFICES ASSUME NEW n \in 1 .. MaxRequests
                   PROVE  calls'[n] = IF n < nextRequest /\ ~\E r \in pending' : r.number = n
                                      THEN 1 ELSE 0
        BY <1>5 DEF CallbacksOnce
      <4>1. CASE n = i
        BY <1>1, <3>1, <3>2, <3>4, <4>1
      <4>2. CASE n # i
        BY <1>1, <1>2, <3>2, <3>5, <4>2
      <4> QED
        BY <4>1, <4>2
    <3> QED
      BY <3>3, <3>6
  <2> QED
    BY <2>1, <2>2
<1>6. ASSUME RequestTyped PROVE Numbered' /\ CallbacksOnce'
  <2> DEFINE request == [connection |-> connectionId, number |-> nextRequest]
  <2>1. nextRequest \in 1 .. MaxRequests /\ nextRequest' = nextRequest + 1
    BY <1>1, <1>6 DEF RequestTyped
  <2>2. calls[nextRequest] = 0 /\ \A r \in pending : r.number # nextRequest
    BY <1>1, <1>2, <2>1 DEF Numbered
  <2>3. CASE pending' = pending \cup {request} /\ UNCHANGED calls
    <3>1. request.number = nextRequest
      OBVIOUS
    <3> HIDE DEF request
    <3>2. Numbered'
      BY <1>1, <2>1, <2>2, <2>3, <3>1 DEF Numbered
    <3>3. ASSUME NEW n \in 1 .. MaxRequests
          PROVE  calls'[n] = IF n < nextRequest' /\ ~\E r \in pending' : r.number = n
                             THEN 1 ELSE 0
      <4>1. CASE n = nextRequest
        <5>1. \E r \in pending' : r.number = n
          BY <2>3, <3>1, <4>1
        <5> QED
          BY <2>2, <2>3, <4>1, <5>1
      <4>2. CASE n # nextRequest
        <5>1. (\E r \in pending' : r.number = n) <=> (\E r \in pending : r.number = n)
          BY <2>3, <3>1, <4>2
        <5>2. n < nextRequest' <=> n < nextRequest
          BY <1>1, <2>1, <4>2
        <5> QED
          BY <1>2, <2>3, <5>1, <5>2
      <4> QED
        BY <4>1, <4>2
    <3> QED
      BY <3>2, <3>3 DEF CallbacksOnce
  <2>4. CASE calls' = [calls EXCEPT ![nextRequest] = @ + 1] /\ UNCHANGED pending
    <3>1. Numbered'
      BY <1>1, <2>1, <2>4 DEF Numbered
    <3>2. ASSUME NEW n \in 1 .. MaxRequests
          PROVE  calls'[n] = IF n < nextRequest' /\ ~\E r \in pending' : r.number = n
                             THEN 1 ELSE 0
      <4>1. CASE n = nextRequest
        BY <1>1, <2>1, <2>2, <2>4, <4>1
      <4>2. CASE n # nextRequest
        <5>1. n < nextRequest' <=> n < nextRequest
          BY <1>1, <2>1, <4>2
        <5>2. calls'[n] = calls[n]
          BY <1>1, <2>4, <4>2
        <5> QED
          BY <1>2, <2>4, <5>1, <5>2
      <4> QED
        BY <4>1, <4>2
    <3> QED
      BY <3>1, <3>2 DEF CallbacksOnce
  <2> QED
    BY <1>6, <2>3, <2>4 DEF RequestTyped
<1> QED
  BY <1>3, <1>4, <1>5, <1>6, HandlersStep

LEMMA HandlersNumbered == Spec => [](Numbered /\ CallbacksOnce)
<1>1. Init => Numbered /\ CallbacksOnce
  BY DEF Init, Numbered, CallbacksOnce
<1>2. TypeOK /\ Numbered /\ CallbacksOnce /\ [Next]_vars => Numbered' /\ CallbacksOnce'
  BY HandlersInvariant
<1> QED
  BY <1>1, <1>2, SdkTypeCorrect, PTL DEF Spec

(* The handler of every request is called exactly once.                    *)
THEOREM HandlersCalledOnce == Spec => []CallbacksOnce
BY HandlersNumbered, PTL

-----------------------------------------------------------------------------
(* The frames that tell an identity, on the way to a context, tell it the  *)
(* identity of its own connection; before it has one, nothing is on the way.*)
NamesRight(frames, n) ==
  \A i \in DOMAIN frames : frames[i].kind = "opened" => frames[i].name = n
Channels ==
  \A k \in Contexts :
    /\ NamesRight(downlink[k], name[k])
    /\ link[k] = "none" => downlink[k] = <<>> /\ (k = endpoint => connectionId = None)
ConnectionInv == TypeOK /\ StateOfTheConnection /\ Channels

LEMMA AppendRight ==
  ASSUME NEW n, NEW s \in Seq(Frames), NEW m \in Frames, NamesRight(s, n),
         m.kind = "opened" => m.name = n
  PROVE  NamesRight(Append(s, m), n)
<1>1. DOMAIN Append(s, m) = 1 .. Len(s) + 1 /\ DOMAIN s = 1 .. Len(s) /\ Len(s) \in Nat
  BY AppendProperties
<1> QED
  BY <1>1, AppendProperties DEF NamesRight

LEMMA TailRight ==
  ASSUME NEW n, NEW s \in Seq(Frames), s # <<>>, NamesRight(s, n)
  PROVE  /\ NamesRight(Tail(s), n)
         /\ Head(s).kind = "opened" => Head(s).name = n
<1>1. DOMAIN s = 1 .. Len(s) /\ Len(s) \in Nat \ {0} /\ Tail(s) \in Seq(Frames)
  BY HeadTailProperties, EmptySeq
<1>2. DOMAIN Tail(s) = 1 .. Len(s) - 1 /\ \A i \in 1 .. Len(s) - 1 : Tail(s)[i] = s[i + 1]
  BY <1>1, HeadTailProperties
<1>3. Head(s) = s[1]
  OBVIOUS
<1> QED
  BY <1>1, <1>2, <1>3 DEF NamesRight

LEMMA ConcatRight ==
  ASSUME NEW n, NEW s \in Seq(Frames), NEW t \in Seq(Frames), NamesRight(s, n),
         NamesRight(t, n)
  PROVE  NamesRight(s \o t, n)
<1>1. /\ DOMAIN s = 1 .. Len(s) /\ DOMAIN t = 1 .. Len(t) /\ Len(s) \in Nat /\ Len(t) \in Nat
      /\ DOMAIN (s \o t) = 1 .. Len(s) + Len(t)
  BY ConcatProperties
<1>2. \A i \in 1 .. Len(s) + Len(t) :
        (s \o t)[i] = IF i <= Len(s) THEN s[i] ELSE t[i - Len(s)]
  BY ConcatProperties
<1>3. ASSUME NEW i \in 1 .. Len(s) + Len(t), (s \o t)[i].kind = "opened"
      PROVE  (s \o t)[i].name = n
  <2>1. CASE i <= Len(s)
    BY <1>1, <1>2, <1>3, <2>1 DEF NamesRight
  <2>2. CASE ~(i <= Len(s))
    <3>1. i - Len(s) \in 1 .. Len(t)
      BY <1>1, <2>2
    <3> QED
      BY <1>1, <1>2, <1>3, <2>2, <3>1 DEF NamesRight
  <2> QED
    BY <2>1, <2>2
<1> QED
  BY <1>1, <1>3 DEF NamesRight

LEMMA EmptyRight == ASSUME NEW n PROVE NamesRight(<<>>, n)
BY DEF NamesRight

LEMMA BroadcastRight ==
  ASSUME TypeOK, Channels, NEW to, NEW m \in Frames, m.kind # "opened",
         Broadcast(to, m), UNCHANGED name
  PROVE  \A k \in Contexts : /\ NamesRight(downlink'[k], name'[k])
                             /\ link[k] = "none" => downlink'[k] = downlink[k]
<1> SUFFICES ASSUME NEW k \in Contexts
             PROVE  /\ NamesRight(downlink'[k], name'[k])
                    /\ link[k] = "none" => downlink'[k] = downlink[k]
  OBVIOUS
<1>1. downlink[k] \in Seq(Frames) /\ NamesRight(downlink[k], name[k])
  BY DEF TypeOK, Channels
<1>2. NamesRight(Append(downlink[k], m), name[k])
  BY <1>1, AppendRight
<1>3. downlink'[k] = IF k \in to \cap Listening THEN Append(downlink[k], m) ELSE downlink[k]
  BY DEF Broadcast
<1>4. link[k] = "none" => k \notin Listening
  BY DEF Listening, Open
<1> QED
  BY <1>1, <1>2, <1>3, <1>4

(* A step of the bridge.                                                   *)
LEMMA PeerConnection ==
  ASSUME ConnectionInv, PeerActs
  PROVE  StateOfTheConnection' /\ Channels'
<1> USE DEF ConnectionInv
<1>1. UNCHANGED Frontend
  BY DEF PeerActs, PeerRegisters, PeerUnregisters, PeerReceives, PeerAnswers,
         PeerSetsController, PeerConnects, PeerReady, PeerDisconnects, PeerRestarts
<1>2. UNCHANGED <<lifecycle, attached, disconnecting, endpoint, online, pending, connectionId,
                  role, generation, ready>>
  BY <1>1 DEF Frontend, flags, connection, sdk
<1>3. ASSUME UNCHANGED name PROVE StateOfTheConnection'
  BY <1>2, <1>3 DEF StateOfTheConnection, Alive
<1>4. ASSUME UNCHANGED name,
             \A k \in Contexts : link'[k] = "none" => link[k] = "none" /\ downlink'[k] = <<>>,
             \A k \in Contexts : NamesRight(downlink'[k], name'[k])
      PROVE  StateOfTheConnection' /\ Channels'
  BY <1>2, <1>3, <1>4 DEF Channels
<1>5. ASSUME NEW k \in Contexts, PeerRegisters(k) PROVE StateOfTheConnection' /\ Channels'
  <2>1. link[k] = "none" /\ (k = endpoint => connectionId = None)
    BY <1>5 DEF PeerRegisters, Channels
  <2>2. PICK becomesController \in {FALSE, bridge.controller = None} :
          LET n == bridge.next
              controller == IF becomesController THEN n ELSE bridge.controller
          IN
          /\ name' = [name EXCEPT ![k] = n]
          /\ downlink' = [j \in Contexts |->
               IF j = k /\ k \notin disconnecting
               THEN <<Opened(n, IF becomesController THEN "controller" ELSE "observer"),
                      Provider(bridge.provider, bridge.generation), Controller(controller)>>
               ELSE IF j \in Listening THEN Append(downlink[j], Controller(controller))
               ELSE downlink[j]]
    BY <1>5 DEF PeerRegisters
  <2> DEFINE n == bridge.next
             controller == IF becomesController THEN n ELSE bridge.controller
             r == IF becomesController THEN "controller" ELSE "observer"
  <2>3. name' = [name EXCEPT ![k] = n] /\ link' = [link EXCEPT ![k] = "open"]
    BY <1>5, <2>2 DEF PeerRegisters
  <2>4. StateOfTheConnection'
    BY <1>2, <2>1, <2>3 DEF StateOfTheConnection, Alive, TypeOK
  <2>5. downlink' = [j \in Contexts |->
          IF j = k /\ k \notin disconnecting
          THEN <<Opened(n, r), Provider(bridge.provider, bridge.generation),
                 Controller(controller)>>
          ELSE IF j \in Listening THEN Append(downlink[j], Controller(controller))
          ELSE downlink[j]]
    BY <2>2
  <2>6. n \in Names /\ controller \in {None} \cup Names
    BY <1>5 DEF PeerRegisters, Names, TypeOK
  <2>7. Controller(controller) \in Frames /\ Controller(controller).kind = "controller"
    BY <2>6, FramesMade DEF Controller
  <2> HIDE DEF n, controller, r
  <2>8. NamesRight(<<Opened(n, r), Provider(bridge.provider, bridge.generation),
                     Controller(controller)>>, n)
    BY DEF NamesRight, Opened, Provider, Controller
  <2>9. ASSUME NEW j \in Contexts
        PROVE  /\ NamesRight(downlink'[j], name'[j])
               /\ link'[j] = "none" => link[j] = "none" /\ downlink'[j] = <<>>
    <3>1. downlink[j] \in Seq(Frames) /\ NamesRight(downlink[j], name[j])
      BY DEF TypeOK, Channels
    <3>2. CASE j = k
      <4>1. j \notin Listening /\ downlink[j] = <<>>
        BY <2>1, <3>2 DEF Listening, Open, Channels
      <4>2. name'[j] = n /\ link'[j] = "open"
        BY <2>3, <3>2 DEF TypeOK
      <4> QED
        BY <2>5, <2>8, <3>2, <4>1, <4>2, EmptyRight
    <3>3. CASE j # k
      <4>1. name'[j] = name[j] /\ link'[j] = link[j]
        BY <2>3, <3>3 DEF TypeOK
      <4>2. NamesRight(Append(downlink[j], Controller(controller)), name[j])
        BY <2>7, <3>1, AppendRight
      <4>3. link[j] = "none" => j \notin Listening /\ downlink[j] = <<>>
        BY DEF Listening, Open, Channels
      <4> QED
        BY <2>5, <3>1, <3>3, <4>1, <4>2, <4>3
    <3> QED
      BY <3>2, <3>3
  <2>10. ASSUME NEW j \in Contexts, link'[j] = "none", j = endpoint'
         PROVE  connectionId' = None
    BY <1>2, <2>9, <2>10 DEF Channels
  <2> QED
    BY <2>4, <2>9, <2>10 DEF Channels
<1>6. ASSUME NEW k \in Contexts, PeerUnregisters(k) PROVE StateOfTheConnection' /\ Channels'
  <2>1. UNCHANGED name /\ link' = [link EXCEPT ![k] = "broken"]
    BY <1>6 DEF PeerUnregisters
  <2>2. \A j \in Contexts : /\ NamesRight(downlink'[j], name'[j])
                            /\ link[j] = "none" => downlink'[j] = downlink[j]
    <3>1. CASE bridge.controller = name[k]
      <4>1. Controller(None) \in Frames /\ Controller(None).kind # "opened"
        BY FramesMade DEF Controller
      <4> QED
        BY <1>6, <2>1, <3>1, <4>1, BroadcastRight DEF PeerUnregisters
    <3>2. CASE bridge.controller # name[k]
      BY <1>6, <2>1, <3>2 DEF PeerUnregisters, Channels
    <3> QED
      BY <3>1, <3>2
  <2>3. \A j \in Contexts : link'[j] = "none" => link[j] = "none" /\ downlink'[j] = <<>>
    BY <2>1, <2>2 DEF Channels, TypeOK
  <2> QED
    BY <1>4, <2>1, <2>2, <2>3
<1>7. ASSUME UNCHANGED <<name, link>>,
             NEW to, NEW m \in Frames, m.kind # "opened", Broadcast(to, m)
      PROVE  StateOfTheConnection' /\ Channels'
  <2>1. \A j \in Contexts : /\ NamesRight(downlink'[j], name'[j])
                            /\ link[j] = "none" => downlink'[j] = downlink[j]
    BY <1>7, BroadcastRight
  <2>2. \A j \in Contexts : link'[j] = "none" => link[j] = "none" /\ downlink'[j] = <<>>
    BY <1>7, <2>1 DEF Channels
  <2> QED
    BY <1>4, <1>7, <2>1, <2>2
<1>8. ASSUME NEW c \in {None} \cup Names, PeerSetsController(c)
      PROVE  StateOfTheConnection' /\ Channels'
  <2>1. Controller(c) \in Frames /\ Controller(c).kind # "opened"
    BY FramesMade DEF Controller
  <2> QED
    BY <1>7, <1>8, <2>1 DEF PeerSetsController
<1>9. ASSUME PeerConnects \/ PeerReady PROVE StateOfTheConnection' /\ Channels'
  <2>1. bridge.generation \in Nat /\ bridge'.generation \in Nat
    BY PeerActsType DEF TypeOK
  <2>2. \A p \in Providers, g \in Nat :
          Provider(p, g) \in Frames /\ Provider(p, g).kind # "opened"
    BY FramesMade DEF Provider
  <2> QED
    BY <1>7, <1>9, <2>1, <2>2 DEF PeerConnects, PeerReady, Providers
<1>10. ASSUME PeerDisconnects PROVE StateOfTheConnection' /\ Channels'
  <2> DEFINE ended == Provider("disconnected", bridge.generation)
  <2>1. PICK order \in [Contexts -> UNION {Orders(serving[k]) : k \in Contexts}] :
          /\ \A k \in Contexts : order[k] \in Orders(serving[k])
          /\ downlink' = [k \in Contexts |->
               IF k \in Listening THEN downlink[k] \o Append(Failures(order[k]), ended)
               ELSE downlink[k]]
    BY <1>10 DEF PeerDisconnects
  <2>2. ended \in Frames /\ ended.kind # "opened"
    BY FramesMade DEF Provider, Providers, TypeOK
  <2> HIDE DEF ended
  <2>3. ASSUME NEW k \in Contexts
        PROVE  /\ NamesRight(downlink'[k], name[k])
               /\ link[k] = "none" => downlink'[k] = <<>>
    <3>1. Failures(order[k]) \in Seq(Frames)
      BY <2>1, FailuresType DEF TypeOK
    <3>2. NamesRight(Failures(order[k]), name[k])
      BY DEF NamesRight, Failures, Response
    <3>3. /\ Append(Failures(order[k]), ended) \in Seq(Frames)
          /\ NamesRight(Append(Failures(order[k]), ended), name[k])
      BY <2>2, <3>1, <3>2, AppendRight, AppendProperties
    <3>4. downlink[k] \in Seq(Frames) /\ NamesRight(downlink[k], name[k])
      BY DEF TypeOK, Channels
    <3>5. NamesRight(downlink[k] \o Append(Failures(order[k]), ended), name[k])
      BY <3>3, <3>4, ConcatRight
    <3>6. link[k] = "none" => k \notin Listening /\ downlink[k] = <<>>
      BY DEF Listening, Open, Channels
    <3> QED
      BY <2>1, <3>4, <3>5, <3>6
  <2> QED
    BY <1>4, <1>10, <2>3 DEF PeerDisconnects
<1>11. ASSUME NEW k \in Contexts, PeerReceives(k) PROVE StateOfTheConnection' /\ Channels'
  <2>1. Head(uplink[k]) \in Requests
    BY <1>11, HeadTailProperties DEF PeerReceives, TypeOK
  <2>2. Response(Head(uplink[k])) \in Frames /\ Response(Head(uplink[k])).kind # "opened"
    BY <2>1, FramesMade DEF Response
  <2>3. CASE Broadcast({k}, Response(Head(uplink[k])))
    BY <1>7, <1>11, <2>2, <2>3 DEF PeerReceives
  <2>4. CASE UNCHANGED downlink
    BY <1>4, <1>11, <2>4 DEF PeerReceives, Channels
  <2> QED
    BY <1>11, <2>3, <2>4 DEF PeerReceives
<1>12. ASSUME NEW k \in Contexts, PeerAnswers(k) PROVE StateOfTheConnection' /\ Channels'
  <2>1. PICK r \in serving[k] : Broadcast({k}, Response(r))
    BY <1>12 DEF PeerAnswers
  <2>2. Response(r) \in Frames /\ Response(r).kind # "opened"
    BY FramesMade DEF Response, TypeOK
  <2> QED
    BY <1>7, <1>12, <2>1, <2>2 DEF PeerAnswers
<1>13. ASSUME PeerRestarts PROVE StateOfTheConnection' /\ Channels'
  <2>1. \A k \in Contexts : link'[k] = "none" => link[k] = "none" /\ downlink'[k] = <<>>
    BY <1>13 DEF PeerRestarts, Channels
  <2>2. \A k \in Contexts : NamesRight(downlink'[k], name'[k])
    BY <1>13 DEF PeerRestarts, Channels
  <2> QED
    BY <1>4, <1>13, <2>1, <2>2 DEF PeerRestarts
<1> QED
  BY <1>5, <1>6, <1>8, <1>9, <1>10, <1>11, <1>12, <1>13 DEF PeerActs

(* What a request that is outstanding, and an end of a connection, leave.  *)
LEMMA PendingNamed ==
  ASSUME ConnectionInv, pending # {}
  PROVE  online /\ connectionId # None /\ endpoint # None /\ connectionId = name[endpoint]
<1>1. PICK r \in pending : TRUE
  OBVIOUS
<1>2. r.connection \in Names /\ r.connection = connectionId
  BY <1>1 DEF ConnectionInv, TypeOK, StateOfTheConnection, Requests
<1>3. connectionId # None
  BY <1>2 DEF Names, None
<1> QED
  BY <1>3 DEF ConnectionInv, TypeOK, StateOfTheConnection

LEMMA ReceiveConnection ==
  ASSUME ConnectionInv, NEW k \in Contexts, ReceiveFrame(k)
  PROVE  StateOfTheConnection' /\ Channels'
<1> USE DEF ConnectionInv
<1>1. /\ downlink[k] \in Seq(Frames) /\ downlink[k] # <<>> /\ link[k] # "none"
      /\ NamesRight(downlink[k], name[k])
  BY DEF ReceiveFrame, TypeOK, Channels
<1>2. /\ UNCHANGED <<lifecycle, attached, disconnecting, endpoint, online, link, name>>
      /\ downlink' = [downlink EXCEPT ![k] = Tail(@)]
  BY DEF ReceiveFrame, flags, connection, peer
<1>3. /\ NamesRight(Tail(downlink[k]), name[k])
      /\ Head(downlink[k]).kind = "opened" => Head(downlink[k]).name = name[k]
  BY <1>1, TailRight
<1>4. \A j \in Contexts : /\ NamesRight(downlink'[j], name'[j])
                          /\ link'[j] = "none" => downlink'[j] = <<>>
  BY <1>1, <1>2, <1>3 DEF TypeOK, Channels
<1>5. ASSUME UNCHANGED sdk PROVE StateOfTheConnection' /\ Channels'
  BY <1>2, <1>4, <1>5 DEF sdk, StateOfTheConnection, Alive, Channels
<1>6. ASSUME Receives(k), Receive(Head(downlink[k]))
      PROVE  StateOfTheConnection' /\ Channels'
  <2> DEFINE m == Head(downlink[k])
  <2>1. endpoint = k /\ online
    BY <1>6 DEF Receives
  <2>2. ASSUME connectionId' = connectionId \/ connectionId' = name[k],
               connectionId # None => connectionId' = connectionId,
               pending' \subseteq pending
        PROVE  StateOfTheConnection' /\ Channels'
    <3>1. \A r \in pending' : r.connection = connectionId'
      BY <2>2, PendingNamed DEF StateOfTheConnection
    <3>2. connectionId' # None => connectionId' = name[endpoint]
      BY <2>1, <2>2 DEF StateOfTheConnection
    <3>3. StateOfTheConnection'
      BY <1>2, <2>1, <3>1, <3>2 DEF StateOfTheConnection, Alive
    <3> QED
      BY <1>1, <1>2, <1>4, <2>1, <3>3 DEF Channels
  <2>3. CASE m.kind = "opened" /\ ReceiveOpened(m)
    <3>1. connectionId # None => connectionId = name[k]
      BY <2>1 DEF StateOfTheConnection
    <3> QED
      BY <1>3, <2>2, <2>3, <3>1 DEF ReceiveOpened
  <2>4. CASE ReceiveController(m)
    BY <2>2, <2>4 DEF ReceiveController
  <2>5. CASE ReceiveProvider(m)
    <3>1. UNCHANGED connectionId /\ pending' \subseteq pending
      BY <2>5 DEF ReceiveProvider, FailPending, sdk
    <3> QED
      BY <2>2, <3>1
  <2>6. CASE ReceiveResponse(m)
    BY <2>2, <2>6 DEF ReceiveResponse
  <2> QED
    BY <1>6, <2>3, <2>4, <2>5, <2>6 DEF Receive
<1> QED
  BY <1>5, <1>6 DEF ReceiveFrame, sdk

(* The end of a context: the state of its connection goes with it, and the *)
(* end of another context changes nothing.                                 *)
LEMMA DetachConnection ==
  ASSUME ConnectionInv, NEW k \in Contexts, Detach(k)
  PROVE  /\ attached' = {endpoint'} \ {None}
         /\ endpoint' = None \/ (endpoint' = endpoint /\ endpoint # k)
         /\ endpoint' # None => UNCHANGED <<online, sdk>>
         /\ endpoint' = None => /\ ~online' /\ pending' = {} /\ connectionId' = None
                                /\ role' = "none" /\ generation' = 0 /\ ~ready'
<1> USE DEF ConnectionInv
<1>1. k # None /\ attached = {endpoint} \ {None}
  BY DEF Contexts, None, StateOfTheConnection
<1>2. CASE endpoint = k
  BY <1>1, <1>2 DEF Detach, TransportDisconnected, FailPending
<1>3. CASE endpoint # k
  <2>1. k \notin attached /\ attached' = attached
    BY <1>1, <1>3 DEF Detach
  <2> QED
    BY <1>1, <1>3, <2>1 DEF Detach, StateOfTheConnection, sdk
<1> QED
  BY <1>2, <1>3

(* A step of the frontend.                                                 *)
LEMMA FrontendConnection ==
  ASSUME ConnectionInv, FrontendActs
  PROVE  StateOfTheConnection' /\ Channels'
<1> USE DEF ConnectionInv
<1>1. ASSUME UNCHANGED <<link, name, downlink>>,
             \A k \in Contexts : link[k] = "none" /\ k = endpoint' => connectionId' = None
      PROVE  Channels'
  BY <1>1 DEF Channels
<1>2. ASSUME NEW k \in Contexts, CreateContext(k) PROVE StateOfTheConnection' /\ Channels'
  <2>1. UNCHANGED <<online, sdk, peer, downlink>>
    BY <1>2 DEF CreateContext, connection
  <2>2. CASE shuttingDown \/ endpoint # None
    <3>1. UNCHANGED <<attached, endpoint>>
      BY <1>2, <2>2 DEF CreateContext, connection
    <3>2. StateOfTheConnection'
      BY <1>2, <2>1, <3>1 DEF CreateContext, sdk, peer, StateOfTheConnection, Alive, TypeOK
    <3> QED
      BY <1>1, <2>1, <3>1, <3>2 DEF Channels, sdk, peer
  <2>3. CASE ~(shuttingDown \/ endpoint # None)
    <3>1. attached' = attached \cup {k} /\ endpoint' = k
      BY <1>2, <2>3 DEF CreateContext
    <3>2. /\ attached = {} /\ k # None /\ lifecycle'[k] = "created"
          /\ ~online /\ connectionId = None /\ pending = {}
      BY <1>2, <2>3 DEF CreateContext, StateOfTheConnection, TypeOK, Contexts, None
    <3>3. StateOfTheConnection'
      BY <2>1, <3>1, <3>2 DEF sdk, peer, StateOfTheConnection, Alive
    <3> QED
      BY <1>1, <2>1, <3>2, <3>3 DEF sdk, peer
  <2> QED
    BY <2>2, <2>3
<1>3. ASSUME NEW k \in Contexts, ContextConnected(k) PROVE StateOfTheConnection' /\ Channels'
  <2>1. UNCHANGED <<attached, endpoint, sdk, peer, downlink>>
    BY <1>3 DEF ContextConnected
  <2>2. endpoint # None => Alive(endpoint)'
    BY <1>3, <2>1 DEF ContextConnected, StateOfTheConnection, Alive, TypeOK
  <2>3. (online' => endpoint # None) /\ (online => online')
    BY <1>3 DEF ContextConnected, StateOfTheConnection, Contexts, None
  <2>4. StateOfTheConnection'
    BY <2>1, <2>2, <2>3 DEF sdk, peer, StateOfTheConnection, Alive
  <2> QED
    BY <1>1, <2>1, <2>4 DEF sdk, peer, Channels
<1>4. ASSUME NEW k \in Contexts, Discard(k), UNCHANGED <<link, name>>,
             \A j \in Contexts : link[j] = "none" /\ j = endpoint' => connectionId' = None
      PROVE  Channels'
  BY <1>4, EmptyRight DEF Discard, Channels, TypeOK
<1>5. ASSUME NEW k \in Contexts, Close(k), UNCHANGED <<endpoint, online, sdk, peer>>
      PROVE  StateOfTheConnection' /\ Channels'
  <2>1. StateOfTheConnection'
    BY <1>5 DEF Close, StateOfTheConnection, Alive, sdk, peer
  <2> QED
    BY <1>4, <1>5, <2>1 DEF Close, sdk, peer, Channels
<1>6. ASSUME NEW k \in Contexts, ReceiveBadFrame(k) PROVE StateOfTheConnection' /\ Channels'
  BY <1>5, <1>6 DEF ReceiveBadFrame
<1>7. ASSUME NEW k \in Contexts, Detach(k), Discard(k), UNCHANGED peer,
             \A j \in Contexts \ {k} : lifecycle'[j] = lifecycle[j]
      PROVE  StateOfTheConnection' /\ Channels'
  <2>1. /\ attached' = {endpoint'} \ {None}
        /\ endpoint' = None \/ (endpoint' = endpoint /\ endpoint # k)
        /\ endpoint' # None => UNCHANGED <<online, sdk>>
        /\ endpoint' = None => /\ ~online' /\ pending' = {} /\ connectionId' = None
                               /\ role' = "none" /\ generation' = 0 /\ ~ready'
    BY <1>7, DetachConnection
  <2>2. StateOfTheConnection'
    BY <1>7, <2>1 DEF StateOfTheConnection, Alive, TypeOK, sdk, peer
  <2>3. \A j \in Contexts : link[j] = "none" /\ j = endpoint' => connectionId' = None
    BY <2>1 DEF Channels, sdk
  <2> QED
    BY <1>4, <1>7, <2>2, <2>3 DEF peer
<1>8. ASSUME NEW k \in Contexts, ContextDisconnected(k) \/ ContextDestroyed(k)
      PROVE  StateOfTheConnection' /\ Channels'
  BY <1>7, <1>8 DEF ContextDisconnected, ContextDestroyed, TypeOK
<1>9. ASSUME RequestTyped PROVE StateOfTheConnection' /\ Channels'
  <2> DEFINE request == [connection |-> connectionId, number |-> nextRequest]
  <2>1. UNCHANGED <<flags, connection, connectionId, role, generation, ready, peer, downlink>>
    BY <1>9 DEF RequestTyped
  <2>2. \/ online /\ pending' = pending \cup {request}
        \/ UNCHANGED pending
    BY <1>9 DEF RequestTyped, CanSend
  <2>3. StateOfTheConnection'
    BY <2>1, <2>2 DEF flags, connection, peer, StateOfTheConnection, Alive
  <2> QED
    BY <1>1, <2>1, <2>3 DEF connection, peer, Channels
<1>10. ASSUME Disconnect PROVE StateOfTheConnection' /\ Channels'
  <2>1. endpoint \in Contexts
    BY <1>10 DEF Disconnect, TypeOK
  <2> QED
    BY <1>5, <1>10, <2>1 DEF Disconnect, connection
<1>11. ASSUME Shutdown PROVE StateOfTheConnection' /\ Channels'
  <2>1. CASE endpoint # None
    <3>1. endpoint \in Contexts
      BY <2>1 DEF TypeOK
    <3> QED
      BY <1>5, <1>11, <2>1, <3>1 DEF Shutdown
  <2>2. CASE endpoint = None
    <3>1. /\ UNCHANGED <<flags, endpoint, online, peer, downlink>> /\ TransportDisconnected
      BY <1>11, <2>2 DEF Shutdown
    <3>2. StateOfTheConnection'
      BY <2>2, <3>1 DEF TransportDisconnected, FailPending, flags, peer,
                        StateOfTheConnection, Alive
    <3> QED
      BY <1>1, <3>1, <3>2 DEF TransportDisconnected, peer
  <2> QED
    BY <2>1, <2>2
<1> QED
  BY <1>2, <1>3, <1>6, <1>8, <1>9, <1>10, <1>11, ReceiveConnection DEF FrontendActs

LEMMA ConnectionInvariant == Spec => []ConnectionInv
<1>1. Init => StateOfTheConnection /\ Channels
  BY EmptyRight DEF Init, StateOfTheConnection, Channels
<1>2. TypeOK /\ StateOfTheConnection /\ Channels /\ [Next]_vars
        => StateOfTheConnection' /\ Channels'
  <2>1. ASSUME StateOfTheConnection, Channels, UNCHANGED vars
        PROVE  StateOfTheConnection' /\ Channels'
    BY <2>1 DEF vars, flags, connection, sdk, peer, StateOfTheConnection, Alive, Channels
  <2> QED
    BY <2>1, FrontendConnection, PeerConnection DEF Next, ConnectionInv
<1> QED
  BY <1>1, <1>2, SdkTypeCorrect, PTL DEF Spec, ConnectionInv

(* What the SDK knows belongs to its one connection.                       *)
THEOREM OneConnection == Spec => []StateOfTheConnection
BY ConnectionInvariant, PTL DEF ConnectionInv

(* The end, the start and the frames of another context go unnoticed.      *)
THEOREM OthersQuiet == Spec => OtherContextsAreQuiet
<1> DEFINE Quiet == \A k \in Contexts : k # endpoint /\ endpoint # None =>
                      /\ lifecycle'[k] # lifecycle[k] => UNCHANGED <<connection, sdk>>
                      /\ ReceiveFrame(k) => UNCHANGED sdk
<1>1. ASSUME ConnectionInv, Next, NEW k \in Contexts, k # endpoint, endpoint # None
      PROVE  /\ lifecycle'[k] # lifecycle[k] => UNCHANGED <<connection, sdk>>
             /\ ReceiveFrame(k) => UNCHANGED sdk
  <2>1. ReceiveFrame(k) => UNCHANGED sdk
    BY <1>1 DEF ReceiveFrame, Receives
  <2>2. k \notin attached
    BY <1>1 DEF ConnectionInv, StateOfTheConnection
  <2>3. ASSUME lifecycle'[k] # lifecycle[k] PROVE UNCHANGED <<connection, sdk>>
    <3>1. lifecycle \in [Contexts -> {"unborn", "created", "connected", "disconnected",
                                      "destroyed"}]
      BY <1>1 DEF ConnectionInv, TypeOK
    <3>2. ~PeerActs
      BY <2>3 DEF PeerActs, PeerRegisters, PeerUnregisters, PeerReceives, PeerAnswers,
           PeerSetsController, PeerConnects, PeerReady, PeerDisconnects, PeerRestarts,
           Frontend, flags
    <3>3. ~RequestTyped /\ ~Disconnect /\ ~Shutdown
      BY <2>3 DEF RequestTyped, Disconnect, Shutdown, Close, flags
    <3>4. PICK j \in Contexts :
            \/ CreateContext(j) \/ ContextConnected(j)
            \/ ContextDisconnected(j) \/ ContextDestroyed(j)
      BY <1>1, <2>3, <3>2, <3>3
         DEF Next, FrontendActs, ReceiveFrame, ReceiveBadFrame, Close, flags
    <3>5. j = k
      BY <2>3, <3>1, <3>4 DEF CreateContext, ContextConnected, ContextDisconnected,
                              ContextDestroyed
    <3>6. CASE CreateContext(k)
      BY <1>1, <3>6 DEF CreateContext, connection
    <3>7. CASE ContextConnected(k)
      <4>1. online' = online
        BY <1>1, <3>7 DEF ContextConnected, ConnectionInv, TypeOK
      <4> QED
        BY <3>7, <4>1 DEF ContextConnected, connection
    <3>8. CASE ContextDisconnected(k) \/ ContextDestroyed(k)
      BY <1>1, <3>8 DEF ContextDisconnected, ContextDestroyed, Detach, connection
    <3> QED
      BY <3>4, <3>5, <3>6, <3>7, <3>8
  <2> QED
    BY <2>1, <2>3
<1>2. ConnectionInv /\ [Next]_vars => [Quiet]_vars
  BY <1>1
<1>3. Spec => [][Quiet]_vars
  <2> HIDE DEF Quiet
  <2> QED
    BY <1>2, ConnectionInvariant, PTL DEF Spec
<1> QED
  BY <1>3 DEF OtherContextsAreQuiet

-----------------------------------------------------------------------------
(* What is under way *)

At(s, kind) == {i \in DOMAIN s : s[i].kind = kind}

(* The identity comes first, and with it the controller and the provider.  *)
Identified(s, n, id) ==
  \/ id = n /\ At(s, "opened") = {}
  \/ /\ id = None /\ At(s, "opened") = {1}
     /\ At(s, "controller") # {} /\ At(s, "provider") # {}

(* The provider frames of s never go back, neither among each other nor    *)
(* behind generation g; and what follows a session that is ready, which r  *)
(* says of g, is its end.                                                  *)
EndOf(m, g) == m.state = "disconnected" /\ m.generation = g
Announced(s, g, r) ==
  /\ \A j \in At(s, "provider") :
       g <= s[j].generation /\ (r => \E n \in At(s, "provider") : n <= j /\ EndOf(s[n], g))
  /\ \A i, j \in At(s, "provider") : i < j =>
       /\ s[i].generation <= s[j].generation
       /\ s[i].state = "ready" =>
            \E n \in At(s, "provider") : i < n /\ n <= j /\ EndOf(s[n], s[i].generation)

(* The last controller frame of s names c; when there is none, the SDK     *)
(* knows it and its role.  The same of the provider.                       *)
RoleOf(n, c) == IF c = n THEN "controller" ELSE "observer"
ControllerTold(s, n, known, r, c) ==
  \/ At(s, "controller") = {} /\ known = c /\ r = RoleOf(n, c)
  \/ \E j \in At(s, "controller") :
       s[j].name = c /\ \A i \in At(s, "controller") : i <= j
ProviderTold(s, g, r, state, b) ==
  \/ At(s, "provider") = {} /\ g = b /\ r = (state = "ready")
  \/ \E j \in At(s, "provider") :
       /\ s[j].state = state /\ s[j].generation = b
       /\ \A i \in At(s, "provider") : i <= j

(* The frames on the way keep the SDK in step with a bridge b: what it knows*)
(* when they have arrived is what b has.                                   *)
KnownAs(s, n) == Identified(s, n, connectionId) /\ Announced(s, generation, ready)
InStep(s, n, b) ==
  /\ ControllerTold(s, n, controllerId, role, b.controller)
  /\ ProviderTold(s, generation, ready, b.provider, b.generation)
Synced ==
  endpoint # None /\ endpoint \notin disconnecting /\ link[endpoint] # "none" =>
    /\ KnownAs(downlink[endpoint], name[endpoint])
    /\ link[endpoint] = "open" => InStep(downlink[endpoint], name[endpoint], bridge)

(* The contexts keep step with their connections.                          *)
Stages ==
  /\ \A k \in Contexts : /\ lifecycle[k] = "unborn" => link[k] = "none"
                         /\ link[k] # "none" => name[k] # None
  /\ endpoint # None =>
       /\ link[endpoint] = "none" => generation = 0 /\ ~ready
       /\ lifecycle[endpoint] = "connected" /\ endpoint \notin disconnecting => online
       /\ shuttingDown => endpoint \in disconnecting
  /\ pending # {} => ready

(* Where a request can be: in one place while it is outstanding on a       *)
(* connection that stands, and nowhere before its number is given.         *)
Once(s, x) == \E i \in DOMAIN s : s[i] = x /\ \A j \in DOMAIN s : s[j] = x => j = i
Never(s, x) == \A i \in DOMAIN s : s[i] # x
Nowhere(k, r) == Never(uplink[k], r) /\ Never(downlink[k], Response(r)) /\ r \notin serving[k]
InOnePlace(k, r) ==
  \/ Once(uplink[k], r) /\ Never(downlink[k], Response(r)) /\ r \notin serving[k]
  \/ Never(uplink[k], r) /\ Once(downlink[k], Response(r)) /\ r \notin serving[k]
  \/ Never(uplink[k], r) /\ Never(downlink[k], Response(r)) /\ r \in serving[k]
Placed ==
  endpoint # None /\ endpoint \notin disconnecting /\ link[endpoint] = "open" =>
    \A r \in pending : InOnePlace(endpoint, r)
NumbersUsed ==
  \A k \in Contexts, r \in Requests : r.number >= nextRequest => Nowhere(k, r)

(* Frames are appended, and read from the front.                           *)
LEMMA AppendAt ==
  ASSUME NEW s \in Seq(Frames), NEW m \in Frames
  PROVE  /\ \A kind : m.kind # kind => At(Append(s, m), kind) = At(s, kind)
         /\ At(Append(s, m), m.kind) = At(s, m.kind) \cup {Len(s) + 1}
         /\ \A i \in DOMAIN s : Append(s, m)[i] = s[i] /\ i \in Nat /\ i < Len(s) + 1
         /\ Append(s, m)[Len(s) + 1] = m
<1>1. /\ Append(s, m) \in Seq(Frames) /\ Len(Append(s, m)) = Len(s) + 1
      /\ \A i \in 1 .. Len(s) : Append(s, m)[i] = s[i]
      /\ Append(s, m)[Len(s) + 1] = m /\ Len(s) \in Nat
  BY AppendProperties, LenProperties
<1>2. DOMAIN s = 1 .. Len(s) /\ DOMAIN Append(s, m) = 1 .. Len(s) + 1
  BY <1>1, LenProperties
<1>3. DOMAIN Append(s, m) = DOMAIN s \cup {Len(s) + 1}
  BY <1>1, <1>2
<1> DEFINE t == Append(s, m)
<1>4. \A i \in DOMAIN s : t[i] = s[i]
  BY <1>1, <1>2
<1>5. t[Len(s) + 1] = m /\ DOMAIN t = DOMAIN s \cup {Len(s) + 1}
  BY <1>1, <1>3
<1> HIDE DEF t
<1>6. \A kind : m.kind # kind => At(t, kind) = At(s, kind)
  BY <1>4, <1>5 DEF At
<1>7. At(t, m.kind) = At(s, m.kind) \cup {Len(s) + 1}
  BY <1>4, <1>5 DEF At
<1> QED
  BY <1>1, <1>2, <1>6, <1>7 DEF t

LEMMA TailAt ==
  ASSUME NEW s \in Seq(Frames), s # <<>>
  PROVE  /\ Head(s) = s[1] /\ 1 \in DOMAIN s
         /\ \A kind, i : i \in At(Tail(s), kind) => /\ i \in Nat \ {0}
                                                    /\ i + 1 \in At(s, kind)
                                                    /\ Tail(s)[i] = s[i + 1]
         /\ \A kind, i : i \in At(s, kind) => /\ i \in Nat \ {0}
                                              /\ i = 1 => Head(s).kind = kind
                                              /\ i # 1 => /\ i - 1 \in At(Tail(s), kind)
                                                          /\ Tail(s)[i - 1] = s[i]
<1>1. /\ Tail(s) \in Seq(Frames) /\ Len(Tail(s)) = Len(s) - 1 /\ Head(s) = s[1]
      /\ Len(s) \in Nat \ {0} /\ DOMAIN s = 1 .. Len(s) /\ DOMAIN Tail(s) = 1 .. Len(s) - 1
      /\ \A i \in 1 .. Len(s) - 1 : Tail(s)[i] = s[i + 1]
  BY HeadTailProperties, LenProperties, EmptySeq
<1>2. \A i \in DOMAIN Tail(s) : i \in Nat \ {0} /\ i + 1 \in DOMAIN s /\ Tail(s)[i] = s[i + 1]
  BY <1>1
<1>3. \A i \in DOMAIN s : /\ i \in Nat \ {0}
                          /\ i # 1 => i - 1 \in DOMAIN Tail(s) /\ Tail(s)[i - 1] = s[i]
  <2>1. \A i \in 2 .. Len(s) : i - 1 \in 1 .. Len(s) - 1 /\ Tail(s)[i - 1] = s[i]
    BY <1>1
  <2> QED
    BY <1>1, <2>1
<1> QED
  BY <1>1, <1>2, <1>3 DEF At

(* What only the frames of some kinds decide is not changed by others.     *)
SameAt(s, t, kind) ==
  At(t, kind) = At(s, kind) /\ \A i \in At(s, kind) : t[i] = s[i]

LEMMA SameTold ==
  ASSUME NEW s, NEW t, NEW g, NEW r
  PROVE  /\ SameAt(s, t, "provider") /\ Announced(s, g, r) => Announced(t, g, r)
         /\ \A state, b : SameAt(s, t, "provider") /\ ProviderTold(s, g, r, state, b)
                            => ProviderTold(t, g, r, state, b)
         /\ \A n, known, c : SameAt(s, t, "controller") /\ ControllerTold(s, n, known, r, c)
                            => ControllerTold(t, n, known, r, c)
<1>1. ASSUME SameAt(s, t, "provider"), Announced(s, g, r)
      PROVE  Announced(t, g, r)
  <2> DEFINE P == At(s, "provider")
  <2>1. At(t, "provider") = P /\ \A i \in P : t[i] = s[i]
    BY <1>1 DEF SameAt
  <2>2. \A j \in P : g <= t[j].generation /\ (r => \E n \in P : n <= j /\ EndOf(t[n], g))
    BY <1>1, <2>1 DEF Announced
  <2>3. \A i, j \in P : i < j =>
          /\ t[i].generation <= t[j].generation
          /\ t[i].state = "ready" => \E n \in P : i < n /\ n <= j /\ EndOf(t[n], t[i].generation)
    BY <1>1, <2>1 DEF Announced
  <2> HIDE DEF P
  <2> QED
    BY <2>1, <2>2, <2>3 DEF Announced
<1>2. ASSUME NEW state, NEW b, SameAt(s, t, "provider"), ProviderTold(s, g, r, state, b)
      PROVE  ProviderTold(t, g, r, state, b)
  BY <1>2 DEF SameAt, ProviderTold
<1>3. ASSUME NEW n, NEW known, NEW c, SameAt(s, t, "controller"),
             ControllerTold(s, n, known, r, c)
      PROVE  ControllerTold(t, n, known, r, c)
  BY <1>3 DEF SameAt, ControllerTold
<1> QED
  BY <1>1, <1>2, <1>3

LEMMA SameIdentified ==
  ASSUME NEW s, NEW t, NEW n, NEW id, Identified(s, n, id),
         At(t, "opened") = At(s, "opened"),
         At(s, "controller") \subseteq At(t, "controller"),
         At(s, "provider") \subseteq At(t, "provider")
  PROVE  Identified(t, n, id)
BY DEF Identified

LEMMA AppendSame ==
  ASSUME NEW s \in Seq(Frames), NEW m \in Frames, NEW kind, m.kind # kind
  PROVE  SameAt(s, Append(s, m), kind)
<1>1. At(Append(s, m), kind) = At(s, kind)
  BY AppendAt
<1>2. \A i \in At(s, kind) : Append(s, m)[i] = s[i]
  BY AppendAt DEF At
<1> QED
  BY <1>1, <1>2 DEF SameAt

LEMMA AppendController ==
  ASSUME NEW s \in Seq(Frames), NEW m \in Frames, m.kind = "controller",
         NEW n, NEW known, NEW r
  PROVE  ControllerTold(Append(s, m), n, known, r, m.name)
<1> DEFINE t == Append(s, m)
           last == Len(s) + 1
<1>1. last \in At(t, "controller") /\ t[last] = m
  BY AppendAt
<1>2. \A i \in At(t, "controller") : i <= last
  <2>1. last \in Nat
    BY LenProperties
  <2>2. At(t, "controller") = At(s, "controller") \cup {last}
    BY AppendAt
  <2>3. \A i \in At(s, "controller") : i \in Nat /\ i < last
    BY AppendAt DEF At
  <2> HIDE DEF last
  <2> QED
    BY <2>1, <2>2, <2>3
<1> QED
  BY <1>1, <1>2 DEF ControllerTold

LEMMA AppendProvider ==
  ASSUME NEW s \in Seq(Frames), NEW m \in Frames, m.kind = "provider",
         NEW g \in Nat, NEW r \in BOOLEAN, NEW state, NEW b \in Nat,
         Announced(s, g, r), ProviderTold(s, g, r, state, b),
         b <= m.generation, state = "ready" => EndOf(m, b)
  PROVE  /\ Announced(Append(s, m), g, r)
         /\ ProviderTold(Append(s, m), g, r, m.state, m.generation)
<1> DEFINE t == Append(s, m)
           P == At(s, "provider")
           Q == At(t, "provider")
           last == Len(s) + 1
<1>1. /\ last \in Nat /\ Q = P \cup {last} /\ t[last] = m
      /\ \A i \in P : i \in Nat /\ i < last /\ t[i] = s[i]
  <2>1. last \in Nat
    BY LenProperties
  <2>2. \A i \in P : i \in Nat /\ i < last /\ t[i] = s[i]
    BY AppendAt DEF At
  <2> QED
    BY <2>1, <2>2, AppendAt
<1>2. m.generation \in Nat /\ \A i \in P : s[i].generation \in Nat
  <2>1. \A i \in P : s[i] \in Frames /\ s[i].kind = "provider"
    BY ElementOfSeq, LenProperties DEF At
  <2> QED
    BY <2>1, FrameFields
<1> HIDE DEF t, P, Q, last
<1>3. ProviderTold(t, g, r, m.state, m.generation)
  <2>1. \A i \in Q : i <= last
    BY <1>1
  <2> QED
    BY <1>1, <2>1 DEF ProviderTold, Q
<1>4. /\ \A j \in P : g <= s[j].generation
                        /\ (r => \E n \in P : n <= j /\ EndOf(s[n], g))
      /\ \A i, j \in P : i < j =>
           /\ s[i].generation <= s[j].generation
           /\ s[i].state = "ready" =>
                \E n \in P : i < n /\ n <= j /\ EndOf(s[n], s[i].generation)
  BY Zenon DEF Announced, P
\* What the new frame, which is the last, adds to it.
<1>5. /\ g <= m.generation
      /\ r => \E n \in Q : n <= last /\ EndOf(t[n], g)
      /\ \A i \in P : /\ s[i].generation <= m.generation
                      /\ s[i].state = "ready" =>
                           \E n \in Q : i < n /\ n <= last /\ EndOf(t[n], s[i].generation)
  <2>1. CASE P = {} /\ g = b /\ r = (state = "ready")
    <3>1. last \in Q /\ last <= last
      BY <1>1
    <3>2. ASSUME r PROVE EndOf(t[last], g)
      <4>1. state = "ready"
        BY <2>1, <3>2
      <4> QED
        BY <1>1, <2>1, <4>1, Zenon
    <3> QED
      BY <2>1, <3>1, <3>2
  <2>2. CASE \E j \in P : s[j].state = state /\ s[j].generation = b /\ \A i \in P : i <= j
    <3>1. PICK j \in P : s[j].state = state /\ s[j].generation = b /\ \A i \in P : i <= j
      BY <2>2
    <3>2. g <= m.generation
      BY <1>2, <1>4, <3>1
    <3>3. r => \E n \in Q : n <= last /\ EndOf(t[n], g)
      <4>1. r => \E n \in P : EndOf(s[n], g)
        BY <1>4, <3>1
      <4> QED
        BY <1>1, <4>1
    <3>4. ASSUME NEW i \in P
          PROVE  /\ s[i].generation <= m.generation
                 /\ s[i].state = "ready" =>
                      \E n \in Q : i < n /\ n <= last /\ EndOf(t[n], s[i].generation)
      <4>1. i = j \/ i < j
        BY <1>1, <3>1
      <4>2. CASE i = j
        BY <1>1, <3>1, <4>2
      <4>3. CASE i < j
        <5>1. s[i].generation <= s[j].generation
              /\ (s[i].state = "ready" => \E n \in P : i < n /\ EndOf(s[n], s[i].generation))
          BY <1>4, <4>3
        <5>2. s[i].generation <= m.generation
          BY <1>2, <3>1, <5>1
        <5> QED
          BY <1>1, <5>1, <5>2
      <4> QED
        BY <4>1, <4>2, <4>3
    <3> QED
      BY <3>2, <3>3, <3>4
  <2> QED
    BY <2>1, <2>2 DEF ProviderTold, P
<1>6. \A j \in Q : g <= t[j].generation /\ (r => \E n \in Q : n <= j /\ EndOf(t[n], g))
  <2>1. ASSUME NEW j \in P
        PROVE  g <= t[j].generation /\ (r => \E n \in Q : n <= j /\ EndOf(t[n], g))
    <3>1. g <= s[j].generation /\ (r => \E n \in P : n <= j /\ EndOf(s[n], g))
      BY <1>4
    <3> QED
      BY <1>1, <3>1
  <2> QED
    BY <1>1, <1>5, <2>1
<1>7. \A i, j \in Q : i < j =>
        /\ t[i].generation <= t[j].generation
        /\ t[i].state = "ready" =>
             \E n \in Q : i < n /\ n <= j /\ EndOf(t[n], t[i].generation)
  <2>1. ASSUME NEW i \in P, NEW j \in P, i < j
        PROVE  /\ t[i].generation <= t[j].generation
               /\ t[i].state = "ready" =>
                    \E n \in Q : i < n /\ n <= j /\ EndOf(t[n], t[i].generation)
    <3>1. /\ s[i].generation <= s[j].generation
          /\ s[i].state = "ready" =>
               \E n \in P : i < n /\ n <= j /\ EndOf(s[n], s[i].generation)
      BY <1>4, <2>1
    <3> QED
      BY <1>1, <3>1
  <2>2. ASSUME NEW i \in Q, i < last
        PROVE  /\ t[i].generation <= t[last].generation
               /\ t[i].state = "ready" =>
                    \E n \in Q : i < n /\ n <= last /\ EndOf(t[n], t[i].generation)
    <3>1. i \in P
      BY <1>1, <2>2
    <3> QED
      BY <1>1, <1>5, <3>1
  <2>3. \A i, j \in Q : i < j => i \in P /\ (j \in P \/ j = last)
    BY <1>1
  <2> QED
    BY <1>1, <2>1, <2>2, <2>3
<1> QED
  BY <1>3, <1>6, <1>7 DEF Announced, Q, t

LEMMA TailSame ==
  ASSUME NEW s \in Seq(Frames), s # <<>>,
         NEW n, NEW g, NEW r, NEW known, NEW c, NEW state, NEW b
  PROVE  /\ Head(s).kind # "provider" /\ Announced(s, g, r) => Announced(Tail(s), g, r)
         /\ Head(s).kind # "provider" /\ ProviderTold(s, g, r, state, b)
              => ProviderTold(Tail(s), g, r, state, b)
         /\ Head(s).kind # "controller" /\ ControllerTold(s, n, known, r, c)
              => ControllerTold(Tail(s), n, known, r, c)
<1> DEFINE u == Tail(s)
           P == At(s, "provider")
           Q == At(u, "provider")
           C == At(s, "controller")
           D == At(u, "controller")
<1>1. /\ \A i \in Q : i \in Nat \ {0} /\ i + 1 \in P /\ u[i] = s[i + 1]
      /\ \A i \in P : /\ i \in Nat \ {0}
                      /\ i # 1 \/ Head(s).kind # "provider" => i - 1 \in Q /\ u[i - 1] = s[i]
  BY TailAt DEF At
<1>2. /\ \A i \in D : i \in Nat \ {0} /\ i + 1 \in C /\ u[i] = s[i + 1]
      /\ \A i \in C : /\ i \in Nat \ {0}
                      /\ i # 1 \/ Head(s).kind # "controller" => i - 1 \in D /\ u[i - 1] = s[i]
  BY TailAt DEF At
<1> HIDE DEF u, P, Q, C, D
<1>3. ASSUME Head(s).kind # "provider", Announced(s, g, r) PROVE Announced(u, g, r)
  <2>1. ASSUME NEW j \in Q
        PROVE  g <= u[j].generation /\ (r => \E i \in Q : i <= j /\ EndOf(u[i], g))
    <3>1. /\ g <= s[j + 1].generation
          /\ r => \E i \in P : i <= j + 1 /\ EndOf(s[i], g)
      BY <1>1, <1>3 DEF Announced, P
    <3>2. ASSUME NEW i \in P, i <= j + 1, EndOf(s[i], g)
          PROVE  i - 1 \in Q /\ i - 1 <= j /\ EndOf(u[i - 1], g)
      BY <1>1, <1>3, <3>2
    <3> QED
      BY <1>1, <3>1, <3>2
  <2>2. ASSUME NEW i \in Q, NEW j \in Q, i < j
        PROVE  /\ u[i].generation <= u[j].generation
               /\ u[i].state = "ready" =>
                    \E k \in Q : i < k /\ k <= j /\ EndOf(u[k], u[i].generation)
    <3>1. i + 1 < j + 1
      BY <1>1, <2>2
    <3>2. /\ s[i + 1].generation <= s[j + 1].generation
          /\ s[i + 1].state = "ready" =>
               \E k \in P : i + 1 < k /\ k <= j + 1 /\ EndOf(s[k], s[i + 1].generation)
      BY <1>1, <1>3, <3>1 DEF Announced, P
    <3>3. ASSUME NEW k \in P, i + 1 < k, k <= j + 1, EndOf(s[k], s[i + 1].generation)
          PROVE  k - 1 \in Q /\ i < k - 1 /\ k - 1 <= j /\ EndOf(u[k - 1], u[i].generation)
      <4>1. k - 1 \in Q /\ u[k - 1] = s[k] /\ u[i] = s[i + 1]
        BY <1>1, <1>3
      <4>2. i \in Nat /\ j \in Nat /\ k \in Nat
        BY <1>1
      <4>3. i < k - 1 /\ k - 1 <= j
        BY <3>3, <4>2
      <4> QED
        BY <3>3, <4>1, <4>3
    <3> QED
      BY <1>1, <3>2, <3>3
  <2> QED
    BY <2>1, <2>2 DEF Announced, Q
<1>4. ASSUME Head(s).kind # "provider", ProviderTold(s, g, r, state, b)
      PROVE  ProviderTold(u, g, r, state, b)
  <2>1. CASE P = {} /\ g = b /\ r = (state = "ready")
    BY <1>1, <2>1 DEF ProviderTold, Q
  <2>2. CASE \E j \in P : s[j].state = state /\ s[j].generation = b /\ \A i \in P : i <= j
    <3>1. PICK j \in P : s[j].state = state /\ s[j].generation = b /\ \A i \in P : i <= j
      BY <2>2
    <3>2. j - 1 \in Q /\ u[j - 1] = s[j]
      BY <1>1, <1>4
    <3>3. \A i \in Q : i <= j - 1
      BY <1>1, <3>1
    <3> QED
      BY <3>1, <3>2, <3>3 DEF ProviderTold, Q
  <2> QED
    BY <1>4, <2>1, <2>2 DEF ProviderTold, P
<1>5. ASSUME Head(s).kind # "controller", ControllerTold(s, n, known, r, c)
      PROVE  ControllerTold(u, n, known, r, c)
  <2>1. CASE C = {} /\ known = c /\ r = RoleOf(n, c)
    BY <1>2, <2>1 DEF ControllerTold, D
  <2>2. CASE \E j \in C : s[j].name = c /\ \A i \in C : i <= j
    <3>1. PICK j \in C : s[j].name = c /\ \A i \in C : i <= j
      BY <2>2
    <3>2. j - 1 \in D /\ u[j - 1] = s[j]
      BY <1>2, <1>5
    <3>3. \A i \in D : i <= j - 1
      BY <1>2, <3>1
    <3> QED
      BY <3>1, <3>2, <3>3 DEF ControllerTold, D
  <2> QED
    BY <1>5, <2>1, <2>2 DEF ControllerTold, C
<1> QED
  BY <1>3, <1>4, <1>5 DEF u

LEMMA TailProvider ==
  ASSUME NEW s \in Seq(Frames), s # <<>>, Head(s).kind = "provider",
         NEW g, NEW r, Announced(s, g, r)
  PROVE  LET m == Head(s) IN
         /\ g <= m.generation /\ (r => EndOf(m, g))
         /\ Announced(Tail(s), m.generation, m.state = "ready")
         /\ \A state, b : ProviderTold(s, g, r, state, b)
              => ProviderTold(Tail(s), m.generation, m.state = "ready", state, b)
<1> DEFINE u == Tail(s)
           m == Head(s)
           P == At(s, "provider")
           Q == At(u, "provider")
<1>1. /\ \A i \in Q : i \in Nat \ {0} /\ i + 1 \in P /\ u[i] = s[i + 1]
      /\ \A i \in P : i \in Nat \ {0} /\ (i # 1 => i - 1 \in Q /\ u[i - 1] = s[i])
      /\ 1 \in P /\ s[1] = m
  BY TailAt DEF At
<1> HIDE DEF u, P, Q, m
<1>2. /\ \A j \in P : g <= s[j].generation
                        /\ (r => \E i \in P : i <= j /\ EndOf(s[i], g))
      /\ \A i, j \in P : i < j =>
           /\ s[i].generation <= s[j].generation
           /\ s[i].state = "ready" =>
                \E k \in P : i < k /\ k <= j /\ EndOf(s[k], s[i].generation)
  BY Zenon DEF Announced, P
<1>3. g <= m.generation /\ (r => EndOf(m, g))
  <2>1. \A i \in P : i <= 1 => i = 1
    BY <1>1
  <2> QED
    BY <1>1, <1>2, <2>1
<1>4. Announced(u, m.generation, m.state = "ready")
  <2>1. ASSUME NEW i \in P, NEW j \in Q, i < j + 1
        PROVE  /\ s[i].generation <= u[j].generation
               /\ s[i].state = "ready" =>
                    \E k \in Q : i - 1 < k /\ k <= j /\ EndOf(u[k], s[i].generation)
    <3>1. /\ s[i].generation <= s[j + 1].generation
          /\ s[i].state = "ready" =>
               \E k \in P : i < k /\ k <= j + 1 /\ EndOf(s[k], s[i].generation)
      BY <1>1, <1>2, <2>1
    <3>2. ASSUME NEW k \in P, i < k, k <= j + 1, EndOf(s[k], s[i].generation)
          PROVE  k - 1 \in Q /\ i - 1 < k - 1 /\ k - 1 <= j /\ EndOf(u[k - 1], s[i].generation)
      BY <1>1, <3>2
    <3> QED
      BY <1>1, <3>1, <3>2
  <2>2. ASSUME NEW j \in Q
        PROVE  /\ m.generation <= u[j].generation
               /\ m.state = "ready" => \E k \in Q : k <= j /\ EndOf(u[k], m.generation)
    <3>1. 1 < j + 1
      BY <1>1
    <3> QED
      BY <1>1, <2>1, <3>1
  <2>3. ASSUME NEW i \in Q, NEW j \in Q, i < j
        PROVE  /\ u[i].generation <= u[j].generation
               /\ u[i].state = "ready" =>
                    \E k \in Q : i < k /\ k <= j /\ EndOf(u[k], u[i].generation)
    <3>1. i + 1 < j + 1 /\ (i + 1) - 1 = i /\ i + 1 \in P /\ u[i] = s[i + 1]
      BY <1>1, <2>3
    <3> DEFINE h == i + 1
    <3>2. h \in P /\ h < j + 1 /\ h - 1 = i /\ u[i] = s[h]
      BY <3>1
    <3> HIDE DEF h
    <3>3. /\ s[h].generation <= u[j].generation
          /\ s[h].state = "ready" =>
               \E k \in Q : h - 1 < k /\ k <= j /\ EndOf(u[k], s[h].generation)
      BY <2>1, <3>2
    <3> QED
      BY <3>2, <3>3
  <2> QED
    BY <2>2, <2>3 DEF Announced, Q
<1>5. ASSUME NEW state, NEW b, ProviderTold(s, g, r, state, b)
      PROVE  ProviderTold(u, m.generation, m.state = "ready", state, b)
  <2>1. PICK j \in P : s[j].state = state /\ s[j].generation = b /\ \A i \in P : i <= j
    BY <1>1, <1>5 DEF ProviderTold, P
  <2>2. CASE j = 1
    <3>1. Q = {}
      BY <1>1, <2>1, <2>2
    <3> QED
      BY <1>1, <2>1, <2>2, <3>1 DEF ProviderTold, Q
  <2>3. CASE j # 1
    <3>1. j - 1 \in Q /\ u[j - 1] = s[j]
      BY <1>1, <2>3
    <3>2. \A i \in Q : i <= j - 1
      BY <1>1, <2>1
    <3> QED
      BY <2>1, <3>1, <3>2 DEF ProviderTold, Q
  <2> QED
    BY <2>2, <2>3
<1> QED
  BY <1>3, <1>4, <1>5 DEF u, m

LEMMA TailController ==
  ASSUME NEW s \in Seq(Frames), s # <<>>, Head(s).kind = "controller",
         NEW n, NEW known, NEW r, NEW c, ControllerTold(s, n, known, r, c)
  PROVE  ControllerTold(Tail(s), n, Head(s).name, RoleOf(n, Head(s).name), c)
<1> DEFINE u == Tail(s)
           C == At(s, "controller")
           D == At(u, "controller")
<1>1. /\ \A i \in D : i \in Nat \ {0} /\ i + 1 \in C /\ u[i] = s[i + 1]
      /\ \A i \in C : i \in Nat \ {0} /\ (i # 1 => i - 1 \in D /\ u[i - 1] = s[i])
      /\ 1 \in C /\ s[1] = Head(s)
  BY TailAt DEF At
<1> HIDE DEF u, C, D
<1>2. PICK j \in C : s[j].name = c /\ \A i \in C : i <= j
  BY <1>1 DEF ControllerTold, C
<1>3. CASE j = 1
  <2>1. D = {}
    BY <1>1, <1>2, <1>3
  <2> QED
    BY <1>1, <1>2, <1>3, <2>1 DEF ControllerTold, D, u
<1>4. CASE j # 1
  <2>1. j - 1 \in D /\ u[j - 1] = s[j]
    BY <1>1, <1>4
  <2>2. \A i \in D : i <= j - 1
    BY <1>1, <1>2
  <2> QED
    BY <1>2, <2>1, <2>2 DEF ControllerTold, D, u
<1> QED
  BY <1>3, <1>4

LEMMA TailIdentified ==
  ASSUME NEW s \in Seq(Frames), s # <<>>, NEW n, NEW id, Identified(s, n, id)
  PROVE  /\ Head(s).kind = "opened" =>
              id = None /\ At(s, "controller") # {} /\ Identified(Tail(s), n, n)
         /\ Head(s).kind # "opened" => id = n /\ Identified(Tail(s), n, id)
<1>1. /\ 1 \in At(s, "opened") <=> Head(s).kind = "opened"
      /\ \A i \in At(Tail(s), "opened") : i \in Nat \ {0} /\ i + 1 \in At(s, "opened")
  BY TailAt DEF At
<1>2. \A i \in Nat \ {0} : i + 1 # 1
  OBVIOUS
<1>3. At(s, "opened") \subseteq {1} => At(Tail(s), "opened") = {}
  BY <1>1, <1>2
<1> QED
  BY <1>1, <1>3 DEF Identified

(* Responses that follow change nothing of what the SDK is told.           *)
LEMMA ConcatSame ==
  ASSUME NEW s \in Seq(Frames), NEW t \in Seq(Frames), NEW kind,
         \A i \in DOMAIN t : t[i].kind # kind
  PROVE  SameAt(s, s \o t, kind)
<1> DEFINE u == s \o t
<1>1. /\ DOMAIN s = 1 .. Len(s) /\ DOMAIN t = 1 .. Len(t) /\ Len(s) \in Nat /\ Len(t) \in Nat
      /\ DOMAIN u = 1 .. Len(s) + Len(t)
      /\ \A i \in 1 .. Len(s) + Len(t) : u[i] = IF i <= Len(s) THEN s[i] ELSE t[i - Len(s)]
  BY ConcatProperties
<1>2. \A i \in DOMAIN s : i \in DOMAIN u /\ u[i] = s[i]
  BY <1>1
<1>3. \A i \in DOMAIN u : i \notin DOMAIN s => \E j \in DOMAIN t : u[i] = t[j]
  <2>1. ASSUME NEW i \in DOMAIN u, i \notin DOMAIN s PROVE \E j \in DOMAIN t : u[i] = t[j]
    <3>1. i - Len(s) \in DOMAIN t /\ u[i] = t[i - Len(s)]
      BY <1>1, <2>1
    <3> QED
      BY <3>1
  <2> QED
    BY <2>1
<1> HIDE DEF u
<1>4. At(u, kind) = At(s, kind)
  BY <1>2, <1>3 DEF At
<1>5. \A i \in At(s, kind) : u[i] = s[i]
  BY <1>2 DEF At
<1> QED
  BY <1>4, <1>5 DEF SameAt, u

LEMMA ConcatAppend ==
  ASSUME NEW s \in Seq(Frames), NEW t \in Seq(Frames), NEW m \in Frames
  PROVE  s \o Append(t, m) = Append(s \o t, m)
<1>1. <<m>> \in Seq(Frames) /\ s \o t \in Seq(Frames)
  BY ConcatProperties
<1>2. Append(t, m) = t \o <<m>> /\ Append(s \o t, m) = (s \o t) \o <<m>>
  BY <1>1, AppendIsConcat
<1> QED
  BY <1>1, <1>2, ConcatAssociative

(* An element that is added, read from the front, or failed with others.   *)
LEMMA AppendPlace ==
  ASSUME NEW S, NEW s \in Seq(S), NEW m \in S, NEW x
  PROVE  /\ m # x /\ Never(s, x) => Never(Append(s, m), x)
         /\ m # x /\ Once(s, x) => Once(Append(s, m), x)
         /\ m = x /\ Never(s, x) => Once(Append(s, m), x)
<1> DEFINE t == Append(s, m)
           last == Len(s) + 1
<1>1. /\ \A i \in DOMAIN s : t[i] = s[i]
      /\ t[last] = m /\ DOMAIN t = DOMAIN s \cup {last} /\ last \notin DOMAIN s
  <2>1. /\ Len(s) \in Nat /\ DOMAIN s = 1 .. Len(s) /\ DOMAIN t = 1 .. Len(s) + 1
    BY AppendProperties, LenProperties
  <2>2. (\A i \in 1 .. Len(s) : t[i] = s[i]) /\ t[last] = m
    BY AppendProperties
  <2>3. 1 .. Len(s) + 1 = (1 .. Len(s)) \cup {Len(s) + 1} /\ Len(s) + 1 \notin 1 .. Len(s)
    BY <2>1
  <2> QED
    BY <2>1, <2>2, <2>3
<1> HIDE DEF t, last
<1>2. m # x /\ Never(s, x) => Never(t, x)
  BY <1>1 DEF Never
<1>3. m # x /\ Once(s, x) => Once(t, x)
  BY <1>1 DEF Once
<1>4. m = x /\ Never(s, x) => Once(t, x)
  BY <1>1 DEF Never, Once
<1> QED
  BY <1>2, <1>3, <1>4 DEF t

LEMMA TailPlace ==
  ASSUME NEW S, NEW s \in Seq(S), s # <<>>, NEW x
  PROVE  /\ Never(s, x) => Never(Tail(s), x) /\ Head(s) # x
         /\ Once(s, x) /\ Head(s) # x => Once(Tail(s), x)
         /\ Once(s, x) /\ Head(s) = x => Never(Tail(s), x)
<1> DEFINE u == Tail(s)
<1>1. /\ Tail(s) \in Seq(S) /\ Len(u) = Len(s) - 1 /\ Head(s) = s[1]
      /\ Len(s) \in Nat \ {0} /\ DOMAIN s = 1 .. Len(s) /\ DOMAIN u = 1 .. Len(s) - 1
      /\ \A i \in 1 .. Len(s) - 1 : u[i] = s[i + 1]
  BY HeadTailProperties, LenProperties, EmptySeq
<1>2. /\ 1 \in DOMAIN s /\ s[1] = Head(s)
      /\ \A i \in DOMAIN u : i \in Nat \ {0} /\ i + 1 \in DOMAIN s /\ u[i] = s[i + 1]
      /\ \A i \in DOMAIN s : i \in Nat \ {0} /\ (i # 1 => i - 1 \in DOMAIN u /\ u[i - 1] = s[i])
  <2>1. \A i \in 2 .. Len(s) : i - 1 \in 1 .. Len(s) - 1 /\ u[i - 1] = s[i]
    BY <1>1
  <2> QED
    BY <1>1, <2>1
<1> HIDE DEF u
<1>3. Never(s, x) => Never(u, x) /\ Head(s) # x
  BY <1>2 DEF Never
<1>4. Once(s, x) /\ Head(s) # x => Once(u, x)
  <2>1. ASSUME NEW i \in DOMAIN s, s[i] = x, \A j \in DOMAIN s : s[j] = x => j = i, i # 1
        PROVE  Once(u, x)
    <3>1. i - 1 \in DOMAIN u /\ u[i - 1] = x
      BY <1>2, <2>1
    <3>2. ASSUME NEW j \in DOMAIN u, u[j] = x PROVE j = i - 1
      <4>1. j \in Nat /\ j + 1 = i
        BY <1>2, <2>1, <3>2
      <4> QED
        BY <4>1
    <3> QED
      BY <3>1, <3>2 DEF Once
  <2> QED
    BY <1>2, <2>1 DEF Once
<1>5. Once(s, x) /\ Head(s) = x => Never(u, x)
  <2>1. ASSUME Once(s, x), Head(s) = x, NEW j \in DOMAIN u PROVE u[j] # x
    <3>1. j + 1 \in DOMAIN s /\ u[j] = s[j + 1] /\ j + 1 # 1
      BY <1>2
    <3> QED
      BY <1>2, <2>1, <3>1 DEF Once
  <2> QED
    BY <2>1 DEF Never
<1> QED
  BY <1>3, <1>4, <1>5 DEF u

LEMMA ConcatPlace ==
  ASSUME NEW S, NEW s \in Seq(S), NEW t \in Seq(S), NEW x
  PROVE  /\ Never(s, x) /\ Never(t, x) => Never(s \o t, x)
         /\ Once(s, x) /\ Never(t, x) => Once(s \o t, x)
         /\ Never(s, x) /\ Once(t, x) => Once(s \o t, x)
<1> DEFINE u == s \o t
           l == Len(s)
<1>1. /\ DOMAIN s = 1 .. l /\ DOMAIN t = 1 .. Len(t) /\ l \in Nat /\ Len(t) \in Nat
      /\ DOMAIN u = 1 .. l + Len(t)
      /\ \A i \in 1 .. l + Len(t) : u[i] = IF i <= l THEN s[i] ELSE t[i - l]
  BY ConcatProperties
<1> HIDE DEF u, l
<1>2. /\ \A i \in DOMAIN s : i \in DOMAIN u /\ u[i] = s[i]
      /\ \A i \in DOMAIN t : i \in Nat /\ l + i \in DOMAIN u /\ u[l + i] = t[i]
      /\ \A i \in DOMAIN u : i \in Nat /\ (i \notin DOMAIN s => i - l \in DOMAIN t /\ u[i] = t[i - l])
  BY <1>1
<1>3. Never(s, x) /\ Never(t, x) => Never(u, x)
  BY <1>2 DEF Never
<1>4. Once(s, x) /\ Never(t, x) => Once(u, x)
  BY <1>2 DEF Never, Once
<1>5. Never(s, x) /\ Once(t, x) => Once(u, x)
  <2>1. ASSUME Never(s, x), NEW i \in DOMAIN t, t[i] = x, \A j \in DOMAIN t : t[j] = x => j = i
        PROVE  Once(u, x)
    <3>1. ASSUME NEW j \in DOMAIN u, u[j] = x PROVE j = l + i
      <4>1. j \notin DOMAIN s
        BY <1>2, <2>1, <3>1 DEF Never
      <4>2. j - l = i /\ j \in Nat
        BY <1>2, <2>1, <3>1, <4>1
      <4> QED
        BY <1>1, <4>2
    <3> QED
      BY <1>2, <2>1, <3>1 DEF Once
  <2> QED
    BY <2>1 DEF Once
<1> QED
  BY <1>3, <1>4, <1>5 DEF u

LEMMA FailuresPlace ==
  ASSUME NEW S \in SUBSET Requests, NEW o \in Orders(S), NEW r \in Requests
  PROVE  /\ r \in S => Once(Failures(o), Response(r))
         /\ r \notin S => Never(Failures(o), Response(r))
<1>1. PICK n \in 0 .. MaxRequests : o \in [1 .. n -> S]
  BY DEF Orders
<1>2. \A q \in S : \E i \in DOMAIN o : o[i] = q /\ \A j \in DOMAIN o \ {i} : o[j] # q
  BY DEF Orders
<1>3. \A q : Response(q) = Response(r) => q = r
  BY DEF Response
<1>4. r \in S => Once(Failures(o), Response(r))
  BY <1>2, <1>3 DEF Once, Failures
<1>5. r \notin S => Never(Failures(o), Response(r))
  BY <1>1, <1>3 DEF Never, Failures
<1> QED
  BY <1>4, <1>5

(* The bridge's frames keep the SDK in step with what it has become.       *)
LEMMA KeptInStep ==
  ASSUME NEW s \in Seq(Frames), NEW n, NEW b, KnownAs(s, n), InStep(s, n, b),
         generation \in Nat, ready \in BOOLEAN, b.generation \in Nat,
         NEW m \in Frames, NEW c
  PROVE  /\ /\ m.kind = "controller" /\ c.controller = m.name
            /\ c.provider = b.provider /\ c.generation = b.generation
            => KnownAs(Append(s, m), n) /\ InStep(Append(s, m), n, c)
         /\ /\ m.kind = "provider" /\ c.controller = b.controller
            /\ c.provider = m.state /\ c.generation = m.generation
            /\ b.generation <= m.generation /\ (b.provider = "ready" => EndOf(m, b.generation))
            => KnownAs(Append(s, m), n) /\ InStep(Append(s, m), n, c)
<1> DEFINE t == Append(s, m)
<1>1. CASE /\ m.kind = "controller" /\ c.controller = m.name
           /\ c.provider = b.provider /\ c.generation = b.generation
  <2>1. SameAt(s, t, "provider") /\ SameAt(s, t, "opened")
    BY <1>1, AppendSame
  <2>2. At(s, "controller") \subseteq At(t, "controller")
    BY <1>1, AppendAt
  <2>3. Identified(t, n, connectionId)
    BY <2>1, <2>2, SameIdentified DEF SameAt, KnownAs
  <2>4. Announced(t, generation, ready) /\ ProviderTold(t, generation, ready, c.provider, c.generation)
    BY <1>1, <2>1, SameTold DEF KnownAs, InStep
  <2>5. ControllerTold(t, n, controllerId, role, c.controller)
    BY <1>1, AppendController
  <2> QED
    BY <2>3, <2>4, <2>5 DEF KnownAs, InStep
<1>2. CASE /\ m.kind = "provider" /\ c.controller = b.controller
           /\ c.provider = m.state /\ c.generation = m.generation
           /\ b.generation <= m.generation /\ (b.provider = "ready" => EndOf(m, b.generation))
  <2>1. SameAt(s, t, "controller") /\ SameAt(s, t, "opened")
    BY <1>2, AppendSame
  <2>2. At(s, "provider") \subseteq At(t, "provider")
    BY <1>2, AppendAt
  <2>3. Identified(t, n, connectionId)
    BY <2>1, <2>2, SameIdentified DEF SameAt, KnownAs
  <2>4. Announced(t, generation, ready) /\ ProviderTold(t, generation, ready, c.provider, c.generation)
    BY <1>2, AppendProvider DEF KnownAs, InStep
  <2>5. ControllerTold(t, n, controllerId, role, c.controller)
    BY <1>2, <2>1, SameTold DEF InStep
  <2> QED
    BY <2>3, <2>4, <2>5 DEF KnownAs, InStep
<1> QED
  BY <1>1, <1>2

LEMMA ResponsesKeepStep ==
  ASSUME NEW s \in Seq(Frames), NEW t \in Seq(Frames), NEW n, NEW b, KnownAs(s, n),
         \A kind \in {"opened", "controller", "provider"} : SameAt(s, t, kind)
  PROVE  KnownAs(t, n) /\ (InStep(s, n, b) => InStep(t, n, b))
<1>1. Identified(t, n, connectionId)
  BY SameIdentified DEF SameAt, KnownAs
<1> QED
  BY <1>1, SameTold DEF KnownAs, InStep

(* The identity, the provider and the controller, as a registration sends  *)
(* them.                                                                   *)
LEMMA RegisteredInStep ==
  ASSUME NEW s, NEW n, NEW r, NEW b, connectionId = None, generation = 0, ~ready,
         b.generation \in Nat,
         s = <<Opened(n, r), Provider(b.provider, b.generation), Controller(b.controller)>>
  PROVE  KnownAs(s, n) /\ InStep(s, n, b)
<1>1. /\ DOMAIN s = 1 .. 3 /\ s[1] = Opened(n, r)
      /\ s[2] = Provider(b.provider, b.generation) /\ s[3] = Controller(b.controller)
  OBVIOUS
<1>2. s[1].kind = "opened" /\ s[2].kind = "provider" /\ s[3].kind = "controller"
  BY <1>1 DEF Opened, Provider, Controller
<1>3. At(s, "opened") = {1} /\ At(s, "provider") = {2} /\ At(s, "controller") = {3}
  <2>1. DOMAIN s = {1, 2, 3}
    BY <1>1
  <2> HIDE DEF Opened, Provider, Controller
  <2> QED
    BY <1>2, <2>1 DEF At
<1>4. /\ s[2].state = b.provider /\ s[2].generation = b.generation
      /\ s[3].name = b.controller
  BY <1>1 DEF Provider, Controller
<1>5. Identified(s, n, connectionId)
  BY <1>3 DEF Identified
<1>6. Announced(s, generation, ready)
  BY <1>3, <1>4 DEF Announced
<1>7. ControllerTold(s, n, controllerId, role, b.controller)
  BY <1>3, <1>4 DEF ControllerTold
<1>8. ProviderTold(s, generation, ready, b.provider, b.generation)
  BY <1>3, <1>4 DEF ProviderTold
<1> QED
  BY <1>5, <1>6, <1>7, <1>8 DEF KnownAs, InStep

-----------------------------------------------------------------------------
(* The step of the bridge: what becomes of the frames to one context.      *)
LEMMA PeerKeepsFrontend ==
  ASSUME PeerActs
  PROVE  UNCHANGED <<lifecycle, attached, disconnecting, closing, endpoint, online, shuttingDown,
                     pending, connectionId, controllerId, role, generation, ready, nextRequest>>
<1>1. UNCHANGED Frontend
  BY DEF PeerActs, PeerRegisters, PeerUnregisters, PeerReceives, PeerAnswers,
         PeerSetsController, PeerConnects, PeerReady, PeerDisconnects, PeerRestarts
<1> QED
  BY <1>1 DEF Frontend, flags, connection, sdk

LEMMA PeerStages ==
  ASSUME ConnectionInv, Stages, PeerActs
  PROVE  Stages'
<1> USE DEF ConnectionInv
<1>1. UNCHANGED <<lifecycle, disconnecting, endpoint, online, shuttingDown, pending,
                  generation, ready>>
  BY PeerKeepsFrontend
<1>2. \A k \in Contexts :
        /\ lifecycle[k] = "unborn" => link'[k] = "none"
        /\ link'[k] # "none" => name'[k] # None
        /\ link'[k] = "none" => link[k] = "none"
  <2>1. ASSUME UNCHANGED <<link, name>>
        PROVE  \A k \in Contexts : /\ lifecycle[k] = "unborn" => link'[k] = "none"
                                   /\ link'[k] # "none" => name'[k] # None
                                   /\ link'[k] = "none" => link[k] = "none"
    BY <2>1 DEF Stages
  <2>2. ASSUME NEW k \in Contexts, PeerRegisters(k)
        PROVE  \A j \in Contexts : /\ lifecycle[j] = "unborn" => link'[j] = "none"
                                   /\ link'[j] # "none" => name'[j] # None
                                   /\ link'[j] = "none" => link[j] = "none"
    <3>1. /\ link' = [link EXCEPT ![k] = "open"] /\ name' = [name EXCEPT ![k] = bridge.next]
          /\ lifecycle[k] # "unborn"
      BY <2>2 DEF PeerRegisters, Alive
    <3>2. bridge.next # None
      BY DEF TypeOK, None
    <3> QED
      BY <3>1, <3>2 DEF Stages, TypeOK
  <2>3. ASSUME NEW k \in Contexts, PeerUnregisters(k)
        PROVE  \A j \in Contexts : /\ lifecycle[j] = "unborn" => link'[j] = "none"
                                   /\ link'[j] # "none" => name'[j] # None
                                   /\ link'[j] = "none" => link[j] = "none"
    BY <2>3 DEF PeerUnregisters, Open, Stages, TypeOK
  <2>4. ASSUME PeerRestarts
        PROVE  \A j \in Contexts : /\ lifecycle[j] = "unborn" => link'[j] = "none"
                                   /\ link'[j] # "none" => name'[j] # None
                                   /\ link'[j] = "none" => link[j] = "none"
    BY <2>4 DEF PeerRestarts, Stages, TypeOK
  <2> QED
    BY <2>1, <2>2, <2>3, <2>4
       DEF PeerActs, PeerReceives, PeerAnswers, PeerSetsController, PeerConnects, PeerReady,
           PeerDisconnects
<1> QED
  BY <1>1, <1>2 DEF Stages, TypeOK

(* While a session is ready, only its end can arrive of the provider.      *)
LEMMA ReceivedProvider ==
  ASSUME ConnectionInv, Stages, Synced, NEW k \in Contexts, lifecycle[k] = "connected",
         k = endpoint, k \notin disconnecting, downlink[k] # <<>>
  PROVE  /\ Receives(k) /\ link[k] # "none" /\ KnownAs(downlink[k], name[k])
         /\ downlink[k] \in Seq(Frames) /\ Head(downlink[k]) \in Frames
         /\ Head(downlink[k]).kind = "provider" =>
              /\ generation <= Head(downlink[k]).generation
              /\ ready => EndOf(Head(downlink[k]), generation)
<1>1. downlink[k] \in Seq(Frames) /\ Head(downlink[k]) \in Frames
  BY HeadTailProperties DEF ConnectionInv, TypeOK
<1>2. link[k] # "none" /\ k # None
  BY DEF ConnectionInv, Channels, Contexts, None
<1>3. KnownAs(downlink[k], name[k]) /\ Receives(k)
  BY <1>2 DEF Synced, Stages, Receives
<1> QED
  BY <1>1, <1>2, <1>3, TailProvider DEF KnownAs

LEMMA ReceivedPending ==
  ASSUME ConnectionInv, Stages, Synced, NEW k \in Contexts, ReceiveFrame(k), Receives(k)
  PROVE  LET m == Head(downlink[k]) IN
         \/ m.kind = "opened" /\ ReceiveOpened(m)
         \/ m.kind = "controller" /\ ReceiveController(m)
         \/ /\ m.kind = "provider" /\ pending' = {}
            /\ generation' = m.generation /\ ready' = (m.state = "ready")
            /\ UNCHANGED <<connectionId, controllerId, role>>
         \/ m.kind = "response" /\ ReceiveResponse(m)
<1> DEFINE m == Head(downlink[k])
<1>1. Receive(m) /\ lifecycle[k] = "connected" /\ downlink[k] # <<>>
  BY DEF ReceiveFrame
<1>2. ASSUME m.kind = "provider", ReceiveProvider(m)
      PROVE  /\ pending' = {} /\ generation' = m.generation /\ ready' = (m.state = "ready")
             /\ UNCHANGED <<connectionId, controllerId, role>>
  <2>1. /\ m.generation \in Nat /\ generation \in Nat /\ generation <= m.generation
        /\ ready => EndOf(m, generation)
    BY <1>1, <1>2, ReceivedProvider, FrameFields DEF Receives, ConnectionInv, TypeOK
  <2>2. /\ generation' = m.generation /\ ready' = (m.state = "ready")
        /\ IF SessionEnds(m) THEN FailPending ELSE UNCHANGED <<pending, calls>>
        /\ UNCHANGED <<connectionId, controllerId, role>>
    BY <1>2, <2>1 DEF ReceiveProvider
  <2>3. pending' = {}
    BY <2>1, <2>2 DEF Stages, EndOf, SessionEnds, FailPending
  <2> QED
    BY <2>2, <2>3
<1> QED
  BY <1>1, <1>2 DEF Receive

LEMMA FrontendStages ==
  ASSUME ConnectionInv, Stages, Synced, FrontendActs
  PROVE  Stages'
<1> USE DEF ConnectionInv
<1>1. ASSUME NEW k \in Contexts, CreateContext(k) PROVE Stages'
  <2>1. UNCHANGED <<online, shuttingDown, pending, generation, ready, link, name>>
    BY <1>1 DEF CreateContext, sdk, peer, connection
  <2>2. lifecycle[k] = "unborn" /\ lifecycle' = [lifecycle EXCEPT ![k] = "created"]
    BY <1>1 DEF CreateContext
  <2>3. CASE shuttingDown \/ endpoint # None
    <3>1. UNCHANGED endpoint /\ disconnecting \subseteq disconnecting'
      BY <1>1, <2>3 DEF CreateContext, connection
    <3> QED
      BY <2>1, <2>2, <3>1 DEF Stages, TypeOK
  <2>4. CASE ~(shuttingDown \/ endpoint # None)
    <3>1. endpoint' = k /\ generation = 0 /\ ~ready
      BY <1>1, <2>4 DEF CreateContext, StateOfTheConnection
    <3> QED
      BY <2>1, <2>2, <2>4, <3>1 DEF Stages, TypeOK
  <2> QED
    BY <2>3, <2>4
<1>2. ASSUME NEW k \in Contexts, ContextConnected(k) PROVE Stages'
  <2>1. /\ UNCHANGED <<endpoint, shuttingDown, pending, generation, ready, link, name>>
        /\ lifecycle[k] = "created" /\ lifecycle' = [lifecycle EXCEPT ![k] = "connected"]
        /\ disconnecting \subseteq disconnecting'
    BY <1>2 DEF ContextConnected, sdk, peer
  <2>2. endpoint # None => endpoint \in attached
    BY DEF StateOfTheConnection
  <2>3. /\ online => online'
        /\ endpoint = k /\ k \in attached /\ ~shuttingDown => online'
    BY <1>2, Zenon DEF ContextConnected
  <2> QED
    BY <2>1, <2>2, <2>3 DEF Stages, TypeOK
<1>3. ASSUME NEW k \in Contexts, ReceiveFrame(k) PROVE Stages'
  <2>1. /\ UNCHANGED <<lifecycle, disconnecting, endpoint, online, shuttingDown, link, name>>
        /\ link[k] # "none"
    BY <1>3 DEF ReceiveFrame, flags, connection, peer, Channels
  <2>2. CASE Receives(k)
    <3>1. k = endpoint
      BY <2>2 DEF Receives
    <3>2. pending' # {} => ready'
      <4>1. CASE pending' = {}
        BY <4>1
      <4>2. CASE pending' \subseteq pending /\ ready' = ready
        BY <4>2 DEF Stages
      <4> QED
        BY <1>3, <2>2, <4>1, <4>2, ReceivedPending
           DEF ReceiveOpened, ReceiveController, ReceiveResponse
    <3> QED
      BY <2>1, <3>1, <3>2 DEF Stages
  <2>3. CASE ~Receives(k)
    BY <1>3, <2>1, <2>3 DEF ReceiveFrame, sdk, Stages
  <2> QED
    BY <2>2, <2>3
<1>4. ASSUME NEW k \in Contexts, Close(k),
             UNCHANGED <<endpoint, online, pending, generation, ready, link, name>>,
             shuttingDown' => shuttingDown \/ k = endpoint
      PROVE  Stages'
  <2>1. UNCHANGED lifecycle /\ disconnecting' = disconnecting \cup {k}
    BY <1>4 DEF Close
  <2> QED
    BY <1>4, <2>1 DEF Stages
<1>5. ASSUME NEW k \in Contexts, ReceiveBadFrame(k) PROVE Stages'
  BY <1>4, <1>5 DEF ReceiveBadFrame, sdk, peer
<1>6. ASSUME NEW k \in Contexts, Detach(k), UNCHANGED <<shuttingDown, link, name>>,
             lifecycle[k] # "unborn", lifecycle'[k] \notin {"unborn", "connected"},
             \A j \in Contexts \ {k} : lifecycle'[j] = lifecycle[j],
             disconnecting \subseteq disconnecting'
      PROVE  Stages'
  <2>1. /\ endpoint' = None \/ (endpoint' = endpoint /\ endpoint # k)
        /\ endpoint' # None => UNCHANGED <<online, sdk>>
        /\ endpoint' = None => pending' = {}
    BY <1>6, DetachConnection
  <2>2. CASE endpoint' = None
    BY <1>6, <2>1, <2>2 DEF Stages
  <2>3. CASE endpoint' # None
    BY <1>6, <2>1, <2>3 DEF Stages, TypeOK, sdk
  <2> QED
    BY <2>2, <2>3
<1>7. ASSUME NEW k \in Contexts, ContextDisconnected(k) \/ ContextDestroyed(k) PROVE Stages'
  BY <1>6, <1>7 DEF ContextDisconnected, ContextDestroyed, TypeOK, peer
<1>8. ASSUME RequestTyped PROVE Stages'
  <2>1. UNCHANGED <<lifecycle, disconnecting, endpoint, online, shuttingDown, generation, ready,
                    link, name>>
    BY <1>8 DEF RequestTyped, flags, connection, peer
  <2>2. pending' = pending \/ ready
    BY <1>8 DEF RequestTyped
  <2> QED
    BY <2>1, <2>2 DEF Stages
<1>9. ASSUME Disconnect PROVE Stages'
  <2>1. endpoint \in Contexts
    BY <1>9 DEF Disconnect, TypeOK
  <2> QED
    BY <1>4, <1>9, <2>1 DEF Disconnect, connection, sdk, peer
<1>10. ASSUME Shutdown PROVE Stages'
  <2>1. CASE endpoint # None
    <3>1. endpoint \in Contexts
      BY <2>1 DEF TypeOK
    <3> QED
      BY <1>4, <1>10, <2>1, <3>1 DEF Shutdown, sdk, peer
  <2>2. CASE endpoint = None
    BY <1>10, <2>2 DEF Shutdown, TransportDisconnected, FailPending, flags, peer, Stages
  <2> QED
    BY <2>1, <2>2
<1> QED
  BY <1>1, <1>2, <1>3, <1>5, <1>7, <1>8, <1>9, <1>10 DEF FrontendActs

LEMMA PeerSynced ==
  ASSUME ConnectionInv, Stages, Synced, PeerActs
  PROVE  Synced'
<1> USE DEF ConnectionInv
<1>1. UNCHANGED <<lifecycle, disconnecting, endpoint, connectionId, controllerId, role,
                  generation, ready>>
  BY PeerKeepsFrontend
<1> SUFFICES ASSUME endpoint # None, endpoint \notin disconnecting, link'[endpoint] # "none"
             PROVE  /\ KnownAs(downlink[endpoint], name[endpoint])'
                    /\ link'[endpoint] = "open"
                         => InStep(downlink[endpoint], name[endpoint], bridge)'
  BY <1>1 DEF Synced
<1> DEFINE e == endpoint
           n == name[e]
           Goal(t, lk, m, b) == KnownAs(t, m) /\ (lk = "open" => InStep(t, m, b))
<1>2. SUFFICES Goal(downlink'[e], link'[e], name'[e], bridge')
  BY <1>1 DEF KnownAs, InStep
<1>3. /\ e \in Contexts /\ Alive(e) /\ downlink[e] \in Seq(Frames)
      /\ generation \in Nat /\ ready \in BOOLEAN
      /\ bridge.generation \in Nat /\ bridge.controller \in {None} \cup Names
      /\ bridge.provider \in Providers
  BY DEF TypeOK, StateOfTheConnection
<1>4. link[e] # "none" => /\ KnownAs(downlink[e], n)
                          /\ link[e] = "open" => InStep(downlink[e], n, bridge)
  BY DEF Synced
<1>5. link[e] = "open" <=> e \in Listening
  BY <1>3 DEF Listening, Open
<1> HIDE DEF e, n
\* Nothing is sent to a connection that is lost.
<1>6. ASSUME link'[e] = link[e], name'[e] = n, link[e] = "broken" => downlink'[e] = downlink[e],
             link[e] = "open" => KnownAs(downlink'[e], n) /\ InStep(downlink'[e], n, bridge')
      PROVE  Goal(downlink'[e], link'[e], name'[e], bridge')
  <2>1. link[e] \in {"open", "broken"}
    BY <1>3, <1>6 DEF TypeOK, e
  <2> QED
    BY <1>4, <1>6, <2>1
<1>7. ASSUME NEW to, NEW m \in Frames, Broadcast(to, m), link[e] = "open" => e \in to,
             link'[e] = link[e], name'[e] = n,
             \/ /\ m.kind = "controller" /\ bridge'.controller = m.name
                /\ bridge'.provider = bridge.provider
                /\ bridge'.generation = bridge.generation
             \/ /\ m.kind = "provider" /\ bridge'.controller = bridge.controller
                /\ bridge'.provider = m.state /\ bridge'.generation = m.generation
                /\ bridge.generation <= m.generation
                /\ bridge.provider = "ready" => EndOf(m, bridge.generation)
      PROVE  Goal(downlink'[e], link'[e], name'[e], bridge')
  <2>1. downlink'[e] = IF e \in to \cap Listening THEN Append(downlink[e], m) ELSE downlink[e]
    BY <1>3, <1>7 DEF Broadcast
  <2>2. CASE link[e] = "open"
    <3>1. downlink'[e] = Append(downlink[e], m)
      BY <1>5, <1>7, <2>1, <2>2
    <3>2. KnownAs(downlink'[e], n) /\ InStep(downlink'[e], n, bridge')
      BY <1>3, <1>4, <1>7, <2>2, <3>1, KeptInStep
    <3> QED
      BY <1>6, <1>7, <2>2, <3>2
  <2>3. CASE link[e] # "open"
    BY <1>5, <1>6, <1>7, <2>1, <2>3
  <2> QED
    BY <2>2, <2>3
<1>8. ASSUME UNCHANGED <<link, name, bridge>>,
             \/ downlink'[e] = downlink[e]
             \/ \E r \in Requests : downlink'[e] = Append(downlink[e], Response(r))
      PROVE  Goal(downlink'[e], link'[e], name'[e], bridge')
  <2>1. CASE downlink'[e] = downlink[e]
    BY <1>4, <1>6, <1>8, <2>1 DEF n
  <2>2. ASSUME NEW r \in Requests, downlink'[e] = Append(downlink[e], Response(r))
        PROVE  Goal(downlink'[e], link'[e], name'[e], bridge')
    <3>1. Response(r) \in Frames /\ Response(r).kind = "response"
      BY FramesMade DEF Response
    <3>2. /\ downlink'[e] \in Seq(Frames)
          /\ \A kind \in {"opened", "controller", "provider"} :
               SameAt(downlink[e], downlink'[e], kind)
      BY <1>3, <2>2, <3>1, AppendSame, AppendProperties
    <3>3. link[e] # "none" => KnownAs(downlink'[e], n)
      BY <1>3, <1>4, <3>2, ResponsesKeepStep
    <3>4. link[e] = "open" => InStep(downlink'[e], n, bridge)
      BY <1>3, <1>4, <3>2, ResponsesKeepStep
    <3> QED
      BY <1>8, <3>3, <3>4 DEF n, e
  <2> QED
    BY <1>8, <2>1, <2>2
<1>9. ASSUME NEW k \in Contexts, PeerRegisters(k)
      PROVE  Goal(downlink'[e], link'[e], name'[e], bridge')
  <2>1. PICK becomesController \in {FALSE, bridge.controller = None} :
          LET i == bridge.next
              c == IF becomesController THEN i ELSE bridge.controller
          IN
          /\ bridge' = [bridge EXCEPT !.controller = c, !.next = i + 1]
          /\ name' = [name EXCEPT ![k] = i]
          /\ downlink' = [j \in Contexts |->
               IF j = k /\ k \notin disconnecting
               THEN <<Opened(i, IF becomesController THEN "controller" ELSE "observer"),
                      Provider(bridge.provider, bridge.generation), Controller(c)>>
               ELSE IF j \in Listening THEN Append(downlink[j], Controller(c))
               ELSE downlink[j]]
    BY <1>9 DEF PeerRegisters
  <2> DEFINE i == bridge.next
             c == IF becomesController THEN i ELSE bridge.controller
             r == IF becomesController THEN "controller" ELSE "observer"
  <2>2. /\ bridge' = [bridge EXCEPT !.controller = c, !.next = i + 1]
        /\ name' = [name EXCEPT ![k] = i] /\ link' = [link EXCEPT ![k] = "open"]
        /\ downlink' = [j \in Contexts |->
             IF j = k /\ k \notin disconnecting
             THEN <<Opened(i, r), Provider(bridge.provider, bridge.generation), Controller(c)>>
             ELSE IF j \in Listening THEN Append(downlink[j], Controller(c)) ELSE downlink[j]]
    BY <1>9, <2>1 DEF PeerRegisters
  <2>3. c \in {None} \cup Names
    BY <1>3, <1>9 DEF PeerRegisters, Names, TypeOK
  <2> HIDE DEF c, r, i
  <2>4. /\ bridge'.controller = c /\ bridge'.provider = bridge.provider
        /\ bridge'.generation = bridge.generation
    BY <2>2 DEF TypeOK
  <2>5. CASE k = e
    <3>1. link[e] = "none" /\ e \notin disconnecting
      BY <1>9, <2>5 DEF PeerRegisters, e
    <3>2. connectionId = None /\ generation = 0 /\ ~ready
      BY <1>3, <3>1 DEF Channels, Stages, e
    <3>3. /\ name'[e] = i
          /\ downlink'[e] = <<Opened(i, r), Provider(bridge'.provider, bridge'.generation),
                              Controller(bridge'.controller)>>
      BY <1>3, <2>2, <2>4, <2>5, <3>1 DEF TypeOK
    <3>4. bridge'.generation \in Nat
      BY <1>3, <2>4
    <3> QED
      BY <3>2, <3>3, <3>4, RegisteredInStep
  <2>6. CASE k # e
    <3>1. /\ link'[e] = link[e] /\ name'[e] = n
          /\ downlink'[e] = IF e \in Listening THEN Append(downlink[e], Controller(c))
                            ELSE downlink[e]
      BY <1>3, <2>2, <2>6 DEF TypeOK, n
    <3>2. /\ Controller(c) \in Frames /\ Controller(c).kind = "controller"
          /\ Controller(c).name = c
      BY <2>3, FramesMade DEF Controller
    <3>3. link[e] = "open" => KnownAs(downlink'[e], n) /\ InStep(downlink'[e], n, bridge')
      BY <1>3, <1>4, <1>5, <2>4, <3>1, <3>2, KeptInStep
    <3> QED
      BY <1>5, <1>6, <3>1, <3>3
  <2> QED
    BY <2>5, <2>6
<1>10. ASSUME NEW k \in Contexts, PeerUnregisters(k)
       PROVE  Goal(downlink'[e], link'[e], name'[e], bridge')
  <2>1. UNCHANGED name /\ link' = [link EXCEPT ![k] = "broken"] /\ link[k] = "open"
    BY <1>10 DEF PeerUnregisters, Open
  <2>2. Controller(None) \in Frames /\ Controller(None).kind = "controller"
        /\ Controller(None).name = None
    BY FramesMade DEF Controller
  <2>3. CASE k = e
    <3>1. link'[e] = "broken" /\ downlink'[e] = downlink[e]
      BY <1>3, <1>10, <2>1, <2>3 DEF PeerUnregisters, Broadcast, TypeOK
    <3> QED
      BY <1>4, <2>1, <2>3, <3>1 DEF n
  <2>4. CASE k # e
    <3>1. link'[e] = link[e] /\ name'[e] = n
      BY <1>3, <2>1, <2>4 DEF TypeOK, n
    <3>2. CASE bridge.controller = name[k]
      <4>1. /\ bridge' = [bridge EXCEPT !.controller = None]
            /\ Broadcast(Open \ {k}, Controller(None))
        BY <1>10, <3>2 DEF PeerUnregisters
      <4>2. /\ bridge'.controller = None /\ bridge'.provider = bridge.provider
            /\ bridge'.generation = bridge.generation
        BY <4>1 DEF TypeOK
      <4>3. link[e] = "open" => e \in Open \ {k}
        BY <1>3, <2>4 DEF Open
      <4> QED
        BY <1>7, <2>2, <3>1, <4>1, <4>2, <4>3
    <3>3. CASE bridge.controller # name[k]
      BY <1>4, <1>6, <1>10, <3>1, <3>3 DEF PeerUnregisters
    <3> QED
      BY <3>2, <3>3
  <2> QED
    BY <2>3, <2>4
<1>11. ASSUME NEW c \in {None} \cup Names, PeerSetsController(c)
       PROVE  Goal(downlink'[e], link'[e], name'[e], bridge')
  <2>1. /\ UNCHANGED <<link, name>> /\ bridge' = [bridge EXCEPT !.controller = c]
        /\ Broadcast(Open, Controller(c))
    BY <1>11 DEF PeerSetsController
  <2>2. Controller(c) \in Frames /\ Controller(c).kind = "controller" /\ Controller(c).name = c
    BY FramesMade DEF Controller
  <2>3. /\ bridge'.controller = c /\ bridge'.provider = bridge.provider
        /\ bridge'.generation = bridge.generation
    BY <2>1 DEF TypeOK
  <2>4. link[e] = "open" => e \in Open
    BY <1>3 DEF Open
  <2> QED
    BY <1>7, <2>1, <2>2, <2>3, <2>4 DEF n
<1>12. ASSUME PeerConnects \/ PeerReady
       PROVE  Goal(downlink'[e], link'[e], name'[e], bridge')
  <2>1. /\ UNCHANGED <<link, name>> /\ bridge.provider # "ready"
        /\ Broadcast(Open, Provider(bridge'.provider, bridge'.generation))
        /\ bridge'.controller = bridge.controller /\ bridge.generation <= bridge'.generation
        /\ bridge'.provider \in Providers /\ bridge'.generation \in Nat
    <3>1. CASE PeerConnects
      <4>1. bridge' = [bridge EXCEPT !.provider = "connected",
                                     !.generation = bridge.generation + 1]
        BY <3>1 DEF PeerConnects
      <4>2. /\ bridge'.controller = bridge.controller /\ bridge'.provider = "connected"
            /\ bridge'.generation = bridge.generation + 1
        BY <4>1 DEF TypeOK
      <4> QED
        BY <1>3, <3>1, <4>2 DEF PeerConnects, Providers
    <3>2. CASE PeerReady
      <4>1. /\ bridge'.controller = bridge.controller /\ bridge'.provider = "ready"
            /\ bridge'.generation = bridge.generation
        BY <3>2 DEF PeerReady, TypeOK
      <4> QED
        BY <1>3, <3>2, <4>1 DEF PeerReady, Providers
    <3> QED
      BY <1>12, <3>1, <3>2
  <2> DEFINE m == Provider(bridge'.provider, bridge'.generation)
  <2>2. /\ m \in Frames /\ m.kind = "provider" /\ m.state = bridge'.provider
        /\ m.generation = bridge'.generation
    BY <2>1, FramesMade DEF Provider
  <2>3. link[e] = "open" => e \in Open
    BY <1>3 DEF Open
  <2> HIDE DEF m
  <2>4. Broadcast(Open, m)
    BY <2>1 DEF m
  <2> QED
    BY <1>7, <2>1, <2>2, <2>3, <2>4 DEF n
<1>13. ASSUME PeerDisconnects
       PROVE  Goal(downlink'[e], link'[e], name'[e], bridge')
  <2> DEFINE m == Provider("disconnected", bridge.generation)
  <2>1. PICK order \in [Contexts -> UNION {Orders(serving[k]) : k \in Contexts}] :
          /\ \A k \in Contexts : order[k] \in Orders(serving[k])
          /\ downlink' = [k \in Contexts |->
               IF k \in Listening THEN downlink[k] \o Append(Failures(order[k]), m)
               ELSE downlink[k]]
    BY <1>13 DEF PeerDisconnects
  <2>2. /\ m \in Frames /\ m.kind = "provider" /\ m.state = "disconnected"
        /\ m.generation = bridge.generation
    BY <1>3, FramesMade DEF Provider, Providers
  <2>3. /\ UNCHANGED <<link, name>> /\ bridge'.controller = bridge.controller
        /\ bridge'.provider = "disconnected" /\ bridge'.generation = bridge.generation
    BY <1>13 DEF PeerDisconnects, TypeOK
  <2> HIDE DEF m
  <2> DEFINE f == Failures(order[e])
             s == downlink[e] \o f
  <2>4. /\ f \in Seq(Frames) /\ s \in Seq(Frames) /\ \A i \in DOMAIN f : f[i].kind = "response"
    <3>1. f \in Seq(Frames)
      BY <1>3, <2>1, FailuresType DEF TypeOK
    <3>2. \A i \in DOMAIN f : f[i].kind = "response"
      BY DEF Failures, Response
    <3> QED
      BY <1>3, <3>1, <3>2, ConcatProperties
  <2>5. downlink[e] \o Append(f, m) = Append(s, m)
    BY <1>3, <2>2, <2>4, ConcatAppend
  <2> HIDE DEF f
  <2>6. CASE link[e] = "open"
    <3>1. KnownAs(s, n) /\ InStep(s, n, bridge)
      <4>1. \A kind \in {"opened", "controller", "provider"} : SameAt(downlink[e], s, kind)
        BY <1>3, <2>4, ConcatSame
      <4> QED
        BY <1>3, <1>4, <2>4, <2>6, <4>1, ResponsesKeepStep
    <3>2. KnownAs(Append(s, m), n) /\ InStep(Append(s, m), n, bridge')
      <4>1. EndOf(m, bridge.generation) /\ bridge.generation <= m.generation
        BY <1>3, <2>2 DEF EndOf
      <4> HIDE DEF s
      <4> QED
        BY <1>3, <2>2, <2>3, <2>4, <3>1, <4>1, KeptInStep
    <3>3. downlink'[e] = Append(s, m)
      BY <1>3, <1>5, <2>1, <2>5, <2>6 DEF f
    <3> QED
      BY <1>6, <2>3, <2>6, <3>2, <3>3 DEF n
  <2>7. CASE link[e] # "open"
    <3>1. downlink'[e] = downlink[e]
      BY <1>3, <1>5, <2>1, <2>7
    <3> QED
      BY <1>6, <2>3, <2>7, <3>1 DEF n
  <2> QED
    BY <2>6, <2>7
<1>14. ASSUME NEW k \in Contexts, PeerReceives(k) \/ PeerAnswers(k)
       PROVE  Goal(downlink'[e], link'[e], name'[e], bridge')
  <2>1. ASSUME NEW r \in Requests, Broadcast({k}, Response(r))
        PROVE  \/ downlink'[e] = downlink[e]
               \/ downlink'[e] = Append(downlink[e], Response(r))
    BY <1>3, <2>1 DEF Broadcast
  <2>2. UNCHANGED downlink \/ \E r \in Requests : Broadcast({k}, Response(r))
    <3>1. ASSUME PeerReceives(k) PROVE Head(uplink[k]) \in Requests
      BY <3>1, HeadTailProperties DEF PeerReceives, TypeOK
    <3> QED
      BY <1>14, <3>1 DEF PeerReceives, PeerAnswers, TypeOK
  <2>3. UNCHANGED <<link, name, bridge>>
    BY <1>14 DEF PeerReceives, PeerAnswers
  <2> QED
    BY <1>8, <2>1, <2>2, <2>3
<1>15. ASSUME PeerRestarts
       PROVE  Goal(downlink'[e], link'[e], name'[e], bridge')
  <2>1. link'[e] # "open" /\ name'[e] = n /\ downlink'[e] = downlink[e] /\ link[e] # "none"
    BY <1>3, <1>15 DEF PeerRestarts, n, e
  <2> QED
    BY <1>4, <2>1
<1> QED
  BY <1>9, <1>10, <1>11, <1>12, <1>13, <1>14, <1>15 DEF PeerActs

(* What a frontend step other than the arrival of a frame does to the      *)
(* active context: it leaves it and its channels alone, or closes it.      *)
LEMMA FrontendStep ==
  ASSUME ConnectionInv, Stages, FrontendActs, endpoint' # None, endpoint' \notin disconnecting',
         link'[endpoint'] # "none"
  PROVE  /\ endpoint' = endpoint /\ endpoint \in Contexts /\ endpoint \notin disconnecting
         /\ UNCHANGED <<link, name, serving, bridge>>
         /\ \/ ReceiveFrame(endpoint) /\ UNCHANGED <<uplink, nextRequest>>
            \/ RequestTyped
            \/ UNCHANGED <<downlink[endpoint], uplink[endpoint], sdk>>
<1> USE DEF ConnectionInv
<1>1. UNCHANGED <<link, name, serving, bridge>>
  BY DEF FrontendActs, CreateContext, ContextConnected, ReceiveFrame, ReceiveBadFrame,
         ContextDisconnected, ContextDestroyed, RequestTyped, Disconnect, Shutdown, peer
<1> DEFINE Same == endpoint' = endpoint /\ endpoint \in Contexts /\ endpoint \notin disconnecting
           Quiet == UNCHANGED <<downlink[endpoint], uplink[endpoint], sdk>>
<1>2. endpoint # None => endpoint \in Contexts
  BY DEF TypeOK
<1>3. ASSUME NEW k \in Contexts, CreateContext(k) PROVE Same /\ Quiet
  <2>1. UNCHANGED <<uplink, downlink, sdk>> /\ lifecycle[k] = "unborn"
    BY <1>3 DEF CreateContext
  <2>2. endpoint' # k \/ endpoint = k
    <3>1. endpoint' = k => link'[k] # "none"
      OBVIOUS
    <3> QED
      BY <1>1, <2>1, <3>1 DEF Stages
  <2>3. endpoint' = endpoint /\ disconnecting \subseteq disconnecting'
    BY <1>3, <2>2 DEF CreateContext, connection
  <2> QED
    BY <1>2, <2>1, <2>3
<1>4. ASSUME NEW k \in Contexts, ContextConnected(k) PROVE Same /\ Quiet
  <2>1. /\ UNCHANGED <<endpoint, uplink, downlink, sdk>> /\ disconnecting \subseteq disconnecting'
    BY <1>4 DEF ContextConnected
  <2> QED
    BY <1>2, <2>1
<1>5. ASSUME NEW k \in Contexts, ReceiveFrame(k)
      PROVE  Same /\ (Quiet \/ (ReceiveFrame(endpoint) /\ UNCHANGED <<uplink, nextRequest>>))
  <2>1. UNCHANGED <<endpoint, disconnecting, uplink, nextRequest>>
    BY <1>5 DEF ReceiveFrame, flags, connection
  <2>2. CASE k = endpoint
    BY <1>2, <1>5, <2>1, <2>2
  <2>3. CASE k # endpoint
    <3>1. UNCHANGED sdk /\ downlink' = [downlink EXCEPT ![k] = Tail(@)]
      BY <1>5, <2>3 DEF ReceiveFrame, Receives
    <3> QED
      BY <1>2, <2>1, <2>3, <3>1 DEF TypeOK
  <2> QED
    BY <2>2, <2>3
<1>6. ASSUME NEW k \in Contexts, Close(k), UNCHANGED <<endpoint, sdk>> PROVE Same /\ Quiet
  <2>1. endpoint # k /\ endpoint \notin disconnecting
    BY <1>6 DEF Close
  <2> QED
    BY <1>2, <1>6, <2>1 DEF Close, Discard, TypeOK
<1>7. ASSUME NEW k \in Contexts, ContextDisconnected(k) \/ ContextDestroyed(k)
      PROVE  Same /\ Quiet
  <2>1. Discard(k) /\ Detach(k) /\ disconnecting \subseteq disconnecting'
    BY <1>7 DEF ContextDisconnected, ContextDestroyed
  <2>2. endpoint' = endpoint /\ endpoint # k /\ UNCHANGED sdk
    BY <2>1, DetachConnection
  <2> QED
    BY <1>2, <2>1, <2>2 DEF Discard, TypeOK
<1>8. ASSUME RequestTyped PROVE Same
  BY <1>2, <1>8 DEF RequestTyped, flags, connection
<1>9. ASSUME Shutdown PROVE Same /\ Quiet
  <2>1. endpoint' = endpoint
    BY <1>9 DEF Shutdown
  <2> QED
    BY <1>2, <1>6, <1>9, <2>1 DEF Shutdown
<1>10. ASSUME Disconnect PROVE Same /\ Quiet
  BY <1>2, <1>6, <1>10 DEF Disconnect, connection
<1>11. ASSUME NEW k \in Contexts, ReceiveBadFrame(k) PROVE Same /\ Quiet
  BY <1>6, <1>11 DEF ReceiveBadFrame
<1> HIDE DEF Same, Quiet
<1> DEFINE Goal == /\ Same
                   /\ \/ Quiet
                      \/ RequestTyped
                      \/ ReceiveFrame(endpoint) /\ UNCHANGED <<uplink, nextRequest>>
<1>12. ASSUME NEW k \in Contexts,
              \/ CreateContext(k) \/ ContextConnected(k) \/ ReceiveFrame(k)
              \/ ReceiveBadFrame(k) \/ ContextDisconnected(k) \/ ContextDestroyed(k)
       PROVE  Goal
  BY <1>3, <1>4, <1>5, <1>7, <1>11, <1>12
<1>13. ASSUME RequestTyped \/ Disconnect \/ Shutdown PROVE Goal
  BY <1>8, <1>9, <1>10, <1>13
<1> HIDE DEF Goal
<1>14. Goal
  BY <1>12, <1>13 DEF FrontendActs
<1> QED
  BY <1>1, <1>14 DEF Goal, Same, Quiet

(* A frame that arrives is taken off the way, and what is left still leads *)
(* the SDK to the same.                                                    *)
LEMMA ReceivedInStep ==
  ASSUME NEW s \in Seq(Frames), s # <<>>, NEW n, n # None, NEW b, KnownAs(s, n),
         LET m == Head(s) IN
         \/ m.kind = "opened" /\ m.name = n /\ ReceiveOpened(m)
         \/ m.kind = "controller" /\ ReceiveController(m)
         \/ /\ m.kind = "provider" /\ generation' = m.generation /\ ready' = (m.state = "ready")
            /\ UNCHANGED <<connectionId, controllerId, role>>
         \/ m.kind = "response" /\ ReceiveResponse(m)
  PROVE  /\ Identified(Tail(s), n, connectionId') /\ Announced(Tail(s), generation', ready')
         /\ InStep(s, n, b) =>
              /\ ControllerTold(Tail(s), n, controllerId', role', b.controller)
              /\ ProviderTold(Tail(s), generation', ready', b.provider, b.generation)
<1> DEFINE m == Head(s)
           u == Tail(s)
<1>1. Identified(s, n, connectionId) /\ Announced(s, generation, ready)
  BY DEF KnownAs
<1>2. ASSUME InStep(s, n, b)
      PROVE  /\ ControllerTold(s, n, controllerId, role, b.controller)
             /\ ProviderTold(s, generation, ready, b.provider, b.generation)
  BY <1>2 DEF InStep
<1>3. /\ m.kind = "opened" =>
           connectionId = None /\ At(s, "controller") # {} /\ Identified(u, n, n)
      /\ m.kind # "opened" => connectionId = n /\ Identified(u, n, connectionId)
  BY <1>1, TailIdentified
<1>4. CASE m.kind = "opened" /\ m.name = n /\ ReceiveOpened(m)
  <2>1. connectionId' = n /\ UNCHANGED <<controllerId, generation, ready>>
    BY <1>4 DEF ReceiveOpened
  <2>2. Announced(u, generation, ready)
    BY <1>1, <1>4, TailSame
  <2>3. InStep(s, n, b) => /\ ControllerTold(u, n, controllerId, role', b.controller)
                           /\ ProviderTold(u, generation, ready, b.provider, b.generation)
    <3>1. InStep(s, n, b) => ControllerTold(s, n, controllerId, role', b.controller)
      BY <1>2, <1>3, <1>4 DEF ControllerTold
    <3> QED
      BY <1>2, <1>4, <3>1, TailSame
  <2> QED
    BY <1>3, <1>4, <2>1, <2>2, <2>3
<1>5. CASE m.kind = "controller" /\ ReceiveController(m)
  <2>1. /\ controllerId' = m.name /\ role' = RoleOf(n, m.name)
        /\ UNCHANGED <<connectionId, generation, ready>>
    BY <1>3, <1>5 DEF ReceiveController, RoleOf
  <2>2. Announced(u, generation, ready)
    BY <1>1, <1>5, TailSame
  <2>3. InStep(s, n, b) => /\ ControllerTold(u, n, controllerId', role', b.controller)
                           /\ ProviderTold(u, generation, ready, b.provider, b.generation)
    BY <1>2, <1>5, <2>1, TailSame, TailController
  <2> QED
    BY <1>3, <1>5, <2>1, <2>2, <2>3
<1>6. CASE /\ m.kind = "provider" /\ generation' = m.generation /\ ready' = (m.state = "ready")
           /\ UNCHANGED <<connectionId, controllerId, role>>
  <2>1. Announced(u, generation', ready')
    BY <1>1, <1>6, TailProvider
  <2>2. InStep(s, n, b) => /\ ControllerTold(u, n, controllerId, role, b.controller)
                           /\ ProviderTold(u, generation', ready', b.provider, b.generation)
    BY <1>1, <1>2, <1>6, TailSame, TailProvider
  <2> QED
    BY <1>3, <1>6, <2>1, <2>2
<1>7. CASE m.kind = "response" /\ ReceiveResponse(m)
  <2>1. UNCHANGED <<connectionId, controllerId, role, generation, ready>>
    BY <1>7 DEF ReceiveResponse
  <2>2. Announced(u, generation, ready)
    BY <1>1, <1>7, TailSame
  <2>3. InStep(s, n, b) => /\ ControllerTold(u, n, controllerId, role, b.controller)
                           /\ ProviderTold(u, generation, ready, b.provider, b.generation)
    BY <1>2, <1>7, TailSame
  <2> QED
    BY <1>3, <1>7, <2>1, <2>2, <2>3
<1> QED
  BY <1>4, <1>5, <1>6, <1>7

LEMMA FrontendSynced ==
  ASSUME ConnectionInv, Stages, Synced, FrontendActs
  PROVE  Synced'
<1> USE DEF ConnectionInv
<1> SUFFICES ASSUME endpoint' # None, endpoint' \notin disconnecting', link'[endpoint'] # "none"
             PROVE  /\ KnownAs(downlink[endpoint], name[endpoint])'
                    /\ link'[endpoint'] = "open"
                         => InStep(downlink[endpoint], name[endpoint], bridge)'
  BY DEF Synced
<1> DEFINE e == endpoint
           s == downlink[e]
           n == name[e]
<1>1. /\ endpoint' = e /\ e \in Contexts /\ e \notin disconnecting
      /\ UNCHANGED <<link, name, serving, bridge>>
      /\ \/ ReceiveFrame(e) /\ UNCHANGED <<uplink, nextRequest>>
         \/ RequestTyped
         \/ UNCHANGED <<downlink[e], uplink[e], sdk>>
  BY FrontendStep
<1>2. e # None /\ link[e] # "none" /\ n # None
  BY <1>1 DEF Stages
<1>3. KnownAs(s, n) /\ (link[e] = "open" => InStep(s, n, bridge))
  BY <1>1, <1>2 DEF Synced
<1>4. ASSUME UNCHANGED <<downlink[e], connectionId, controllerId, role, generation, ready>>
      PROVE  /\ KnownAs(downlink[endpoint], name[endpoint])'
             /\ link'[endpoint'] = "open"
                  => InStep(downlink[endpoint], name[endpoint], bridge)'
  BY <1>1, <1>3, <1>4 DEF KnownAs, InStep
<1>5. ASSUME ReceiveFrame(e)
      PROVE  /\ KnownAs(downlink[endpoint], name[endpoint])'
             /\ link'[endpoint'] = "open"
                  => InStep(downlink[endpoint], name[endpoint], bridge)'
  <2> DEFINE m == Head(s)
             u == Tail(s)
  <2>1. lifecycle[e] = "connected" /\ s # <<>> /\ downlink'[e] = u
    BY <1>1, <1>5 DEF ReceiveFrame, TypeOK
  <2>2. /\ s \in Seq(Frames) /\ m \in Frames /\ Receives(e)
        /\ m.kind = "opened" => m.name = n
    BY <1>1, <2>1, ReceivedProvider, TailRight DEF Channels
  <2>3. \/ m.kind = "opened" /\ m.name = n /\ ReceiveOpened(m)
        \/ m.kind = "controller" /\ ReceiveController(m)
        \/ /\ m.kind = "provider" /\ generation' = m.generation /\ ready' = (m.state = "ready")
           /\ UNCHANGED <<connectionId, controllerId, role>>
        \/ m.kind = "response" /\ ReceiveResponse(m)
    BY <1>1, <1>5, <2>2, ReceivedPending
  <2>4. /\ Identified(u, n, connectionId') /\ Announced(u, generation', ready')
        /\ link[e] = "open" =>
             /\ ControllerTold(u, n, controllerId', role', bridge.controller)
             /\ ProviderTold(u, generation', ready', bridge.provider, bridge.generation)
    BY <1>2, <1>3, <2>1, <2>2, <2>3, ReceivedInStep
  <2> QED
    BY <1>1, <2>1, <2>4 DEF KnownAs, InStep
<1> QED
  BY <1>1, <1>4, <1>5 DEF RequestTyped, sdk

-----------------------------------------------------------------------------
(* Where the requests are: a step of the bridge moves them along.          *)
LEMMA PeerPlaces ==
  ASSUME TypeOK, PeerActs, NEW k \in Contexts, NEW r \in Requests
  PROVE  /\ Nowhere(k, r) => Nowhere(k, r)'
         /\ k \in Listening /\ link'[k] = "open" /\ InOnePlace(k, r) => InOnePlace(k, r)'
<1> DEFINE Goal == /\ Nowhere(k, r) => Nowhere(k, r)'
                   /\ k \in Listening /\ link'[k] = "open" /\ InOnePlace(k, r)
                        => InOnePlace(k, r)'
           a == Response(r)
<1>1. /\ uplink[k] \in Seq(Requests) /\ downlink[k] \in Seq(Frames) /\ a \in Frames
      /\ serving[k] \in SUBSET Requests
  BY FramesMade DEF TypeOK
<1>2. \A m : m.kind # "response" => m # a
  BY DEF Response
<1>3. \A q : Response(q) = a => q = r
  BY DEF Response
\* A frame that is not a response moves no request.
<1>4. ASSUME UNCHANGED <<uplink[k], serving[k]>>,
             \/ downlink'[k] = downlink[k]
             \/ \E m \in Frames : m # a /\ downlink'[k] = Append(downlink[k], m)
      PROVE  Goal
  <2>1. /\ Never(downlink[k], a) => Never(downlink'[k], a)
        /\ Once(downlink[k], a) => Once(downlink'[k], a)
    <3>1. ASSUME NEW m \in Frames, m # a
          PROVE  /\ Never(downlink[k], a) => Never(Append(downlink[k], m), a)
                 /\ Once(downlink[k], a) => Once(Append(downlink[k], m), a)
      BY <1>1, <3>1, AppendPlace
    <3> HIDE DEF a
    <3> QED
      BY <1>4, <3>1
  <2> QED
    BY <1>4, <2>1 DEF Nowhere, InOnePlace
<1>5. ASSUME UNCHANGED <<uplink, serving>>, NEW to, NEW m \in Frames, m.kind # "response",
             Broadcast(to, m)
      PROVE  Goal
  <2>1. downlink'[k] = downlink[k] \/ downlink'[k] = Append(downlink[k], m)
    BY <1>5 DEF Broadcast
  <2> QED
    BY <1>2, <1>4, <1>5, <2>1
<1>6. ASSUME NEW j \in Contexts, PeerRegisters(j) PROVE Goal
  <2>1. PICK becomesController \in {FALSE, bridge.controller = None} :
          LET i == bridge.next
              c == IF becomesController THEN i ELSE bridge.controller
          IN
          /\ bridge' = [bridge EXCEPT !.controller = c, !.next = i + 1]
          /\ name' = [name EXCEPT ![j] = i]
          /\ downlink' = [h \in Contexts |->
               IF h = j /\ j \notin disconnecting
               THEN <<Opened(i, IF becomesController THEN "controller" ELSE "observer"),
                      Provider(bridge.provider, bridge.generation), Controller(c)>>
               ELSE IF h \in Listening THEN Append(downlink[h], Controller(c))
               ELSE downlink[h]]
    BY <1>6 DEF PeerRegisters
  <2> DEFINE i == bridge.next
             c == IF becomesController THEN i ELSE bridge.controller
             o == Opened(i, IF becomesController THEN "controller" ELSE "observer")
             told == <<o, Provider(bridge.provider, bridge.generation), Controller(c)>>
  <2>2. /\ downlink'[k] = IF k = j /\ j \notin disconnecting THEN told
                          ELSE IF k \in Listening THEN Append(downlink[k], Controller(c))
                          ELSE downlink[k]
        /\ UNCHANGED <<uplink, serving>> /\ link[j] = "none"
    BY <1>6, <2>1 DEF PeerRegisters
  <2>3. c \in {None} \cup Names /\ o.kind = "opened"
    BY <1>6 DEF PeerRegisters, Names, TypeOK, Opened
  <2> HIDE DEF c, o
  <2>4. Controller(c) \in Frames /\ Controller(c).kind = "controller"
    BY <2>3, FramesMade DEF Controller
  <2>5. CASE k = j /\ j \notin disconnecting
    <3>1. k \notin Listening
      BY <2>2, <2>5 DEF Listening, Open
    <3>2. Never(told, a)
      <4>1. /\ DOMAIN told = 1 .. 3 /\ told[1] = o /\ told[3] = Controller(c)
            /\ told[2] = Provider(bridge.provider, bridge.generation)
        OBVIOUS
      <4>2. \A h \in DOMAIN told : told[h].kind # "response"
        BY <2>3, <2>4, <4>1 DEF Provider
      <4> QED
        BY <1>2, <4>2 DEF Never
    <3> QED
      BY <2>2, <2>5, <3>1, <3>2 DEF Nowhere
  <2>6. CASE ~(k = j /\ j \notin disconnecting)
    BY <1>2, <1>4, <2>2, <2>4, <2>6
  <2> QED
    BY <2>5, <2>6
<1>7. ASSUME NEW j \in Contexts, PeerUnregisters(j) PROVE Goal
  <2>1. CASE k = j
    <3>1. uplink'[k] = <<>> /\ serving'[k] = {} /\ link'[k] = "broken"
      BY <1>7, <2>1 DEF PeerUnregisters, TypeOK
    <3>2. downlink'[k] = downlink[k]
      BY <1>7, <2>1 DEF PeerUnregisters, Broadcast
    <3> QED
      BY <3>1, <3>2 DEF Nowhere, Never
  <2>2. CASE k # j
    <3>1. UNCHANGED <<uplink[k], serving[k]>>
      BY <1>7, <2>2 DEF PeerUnregisters, TypeOK
    <3>2. Controller(None) \in Frames /\ Controller(None) # a
      BY FramesMade DEF Controller, Response
    <3>3. downlink'[k] = downlink[k] \/ downlink'[k] = Append(downlink[k], Controller(None))
      BY <1>7 DEF PeerUnregisters, Broadcast
    <3> QED
      BY <1>4, <3>1, <3>2, <3>3
  <2> QED
    BY <2>1, <2>2
<1>8. ASSUME NEW n \in {None} \cup Names, PeerSetsController(n) PROVE Goal
  <2>1. Controller(n) \in Frames /\ Controller(n).kind # "response"
    BY FramesMade DEF Controller
  <2> QED
    BY <1>5, <1>8, <2>1 DEF PeerSetsController
<1>9. ASSUME PeerConnects \/ PeerReady PROVE Goal
  <2>1. bridge.generation \in Nat /\ bridge'.generation \in Nat
    BY PeerActsType DEF TypeOK
  <2>2. \A p \in Providers, g \in Nat : Provider(p, g) \in Frames
                                        /\ Provider(p, g).kind # "response"
    BY FramesMade DEF Provider
  <2> QED
    BY <1>5, <1>9, <2>1, <2>2 DEF PeerConnects, PeerReady, Providers
<1>10. ASSUME PeerDisconnects PROVE Goal
  <2> DEFINE m == Provider("disconnected", bridge.generation)
  <2>1. PICK order \in [Contexts -> UNION {Orders(serving[j]) : j \in Contexts}] :
          /\ \A j \in Contexts : order[j] \in Orders(serving[j])
          /\ downlink' = [j \in Contexts |->
               IF j \in Listening THEN downlink[j] \o Append(Failures(order[j]), m)
               ELSE downlink[j]]
    BY <1>10 DEF PeerDisconnects
  <2>2. m \in Frames /\ m # a
    BY FramesMade DEF TypeOK, Provider, Providers, Response
  <2> HIDE DEF m
  <2> DEFINE f == Failures(order[k])
             g == Append(f, m)
  <2>3. /\ f \in Seq(Frames) /\ g \in Seq(Frames)
        /\ r \in serving[k] => Once(f, a)
        /\ r \notin serving[k] => Never(f, a)
    BY <1>1, <2>1, <2>2, FailuresType, FailuresPlace, AppendProperties
  <2> HIDE DEF f
  <2>4. /\ r \in serving[k] => Once(g, a)
        /\ r \notin serving[k] => Never(g, a)
    BY <2>2, <2>3, AppendPlace
  <2>5. /\ uplink'[k] = uplink[k] /\ serving'[k] = {}
        /\ downlink'[k] = IF k \in Listening THEN downlink[k] \o g ELSE downlink[k]
    BY <1>10, <2>1 DEF PeerDisconnects, f
  <2> HIDE DEF g
  <2>6. /\ Nowhere(k, r) => Never(downlink[k] \o g, a)
        /\ InOnePlace(k, r) /\ r \in serving[k] => Once(downlink[k] \o g, a)
        /\ InOnePlace(k, r) /\ r \notin serving[k] =>
             /\ Never(downlink[k], a) => Never(downlink[k] \o g, a)
             /\ Once(downlink[k], a) => Once(downlink[k] \o g, a)
    BY <1>1, <2>3, <2>4, ConcatPlace DEF Nowhere, InOnePlace
  <2> QED
    BY <2>5, <2>6 DEF Nowhere, InOnePlace
\* A request that is read, rejected or answered is not another one.
<1>11. ASSUME NEW j \in Contexts, k # j, PeerReceives(j) \/ PeerAnswers(j) PROVE Goal
  <2>1. uplink'[k] = uplink[k] /\ serving'[k] = serving[k] /\ downlink'[k] = downlink[k]
    BY <1>11 DEF PeerReceives, PeerAnswers, Broadcast, TypeOK
  <2> QED
    BY <1>4, <2>1
<1>12. ASSUME NEW q \in Requests, Broadcast({k}, Response(q)), k \in Listening
       PROVE  /\ q # r => /\ Never(downlink[k], a) => Never(downlink'[k], a)
                          /\ Once(downlink[k], a) => Once(downlink'[k], a)
              /\ q = r /\ Never(downlink[k], a) => Once(downlink'[k], a)
  <2>1. downlink'[k] = Append(downlink[k], Response(q)) /\ Response(q) \in Frames
    BY <1>12, FramesMade DEF Broadcast
  <2>2. (Response(q) = a) <=> (q = r)
    BY <1>3
  <2> QED
    BY <1>1, <2>1, <2>2, AppendPlace
<1>13. ASSUME NEW q \in Requests, Broadcast({k}, Response(q)), q # r
       PROVE  Never(downlink[k], a) => Never(downlink'[k], a)
  <2>1. CASE k \in Listening
    BY <1>12, <1>13, <2>1
  <2>2. CASE k \notin Listening
    BY <1>13, <2>2 DEF Broadcast
  <2> QED
    BY <2>1, <2>2
<1>14. ASSUME PeerReceives(k) PROVE Goal
  <2> DEFINE q == Head(uplink[k])
  <2>1. /\ uplink[k] # <<>> /\ uplink'[k] = Tail(uplink[k]) /\ q \in Requests
        /\ \/ serving'[k] = serving[k] \cup {q} /\ UNCHANGED downlink
           \/ serving'[k] = serving[k] /\ Broadcast({k}, Response(q))
    BY <1>1, <1>14, HeadTailProperties DEF PeerReceives, TypeOK
  <2> HIDE DEF q
  <2>2. /\ Never(uplink[k], r) => Never(uplink'[k], r) /\ q # r
        /\ Once(uplink[k], r) /\ q # r => Once(uplink'[k], r)
        /\ Once(uplink[k], r) /\ q = r => Never(uplink'[k], r)
    BY <1>1, <2>1, TailPlace DEF q
  <2>3. CASE serving'[k] = serving[k] \cup {q} /\ UNCHANGED downlink
    BY <2>2, <2>3 DEF Nowhere, InOnePlace
  <2>4. CASE serving'[k] = serving[k] /\ Broadcast({k}, Response(q))
    <3>1. Nowhere(k, r) => Nowhere(k, r)'
      BY <1>13, <2>1, <2>2, <2>4 DEF Nowhere
    <3>2. ASSUME k \in Listening, InOnePlace(k, r) PROVE InOnePlace(k, r)'
      BY <1>12, <2>1, <2>2, <2>4, <3>2 DEF InOnePlace
    <3> QED
      BY <3>1, <3>2
  <2> QED
    BY <2>1, <2>3, <2>4
<1>15. ASSUME PeerAnswers(k) PROVE Goal
  <2>1. PICK q \in serving[k] : /\ serving' = [serving EXCEPT ![k] = @ \ {q}]
                                /\ Broadcast({k}, Response(q))
    BY <1>15 DEF PeerAnswers
  <2>2. /\ uplink'[k] = uplink[k] /\ serving'[k] = serving[k] \ {q} /\ q \in Requests
    BY <1>1, <1>15, <2>1 DEF PeerAnswers, TypeOK
  <2>3. Nowhere(k, r) => Nowhere(k, r)'
    BY <1>13, <2>1, <2>2 DEF Nowhere
  <2>4. ASSUME k \in Listening, InOnePlace(k, r) PROVE InOnePlace(k, r)'
    BY <1>12, <2>1, <2>2, <2>4 DEF InOnePlace
  <2> QED
    BY <2>3, <2>4
<1>16. ASSUME PeerRestarts PROVE Goal
  <2>1. uplink'[k] = <<>> /\ serving'[k] = {} /\ downlink'[k] = downlink[k] /\ link'[k] # "open"
    BY <1>16 DEF PeerRestarts
  <2> QED
    BY <2>1 DEF Nowhere, Never
<1> HIDE DEF Goal
<1>17. Goal
  <2>1. ASSUME NEW j \in Contexts, PeerReceives(j) \/ PeerAnswers(j) PROVE Goal
    BY <1>11, <1>14, <1>15, <2>1
  <2> QED
    BY <1>6, <1>7, <1>8, <1>9, <1>10, <1>16, <2>1 DEF PeerActs
<1> QED
  BY <1>17 DEF Goal

(* A step of the frontend: a request enters the way, or frames arrive.     *)
LEMMA FrontendNowhere ==
  ASSUME TypeOK, FrontendActs, NEW k \in Contexts, NEW r \in Requests, Nowhere(k, r),
         r.number >= nextRequest'
  PROVE  Nowhere(k, r)'
<1> DEFINE a == Response(r)
<1>1. uplink[k] \in Seq(Requests) /\ downlink[k] \in Seq(Frames) /\ nextRequest \in Nat
  BY DEF TypeOK
<1>2. serving' = serving
  BY DEF FrontendActs, CreateContext, ContextConnected, ReceiveFrame, ReceiveBadFrame,
         ContextDisconnected, ContextDestroyed, RequestTyped, Disconnect, Shutdown, peer
<1>3. ASSUME uplink'[k] = uplink[k] \/ uplink'[k] = <<>>,
             downlink'[k] = downlink[k] \/ downlink'[k] = <<>>
      PROVE  Nowhere(k, r)'
  BY <1>2, <1>3 DEF Nowhere, Never
<1>4. ASSUME NEW j \in Contexts, Discard(j) PROVE Nowhere(k, r)'
  BY <1>3, <1>4 DEF Discard, TypeOK
<1>5. ASSUME NEW j \in Contexts, ReceiveFrame(j) PROVE Nowhere(k, r)'
  <2>1. uplink' = uplink /\ downlink' = [downlink EXCEPT ![j] = Tail(@)] /\ downlink[j] # <<>>
    BY <1>5 DEF ReceiveFrame
  <2>2. CASE k = j
    <3>1. downlink'[k] = Tail(downlink[k]) /\ Never(Tail(downlink[k]), a)
      BY <1>1, <2>1, <2>2, TailPlace DEF Nowhere, TypeOK
    <3> QED
      BY <1>2, <2>1, <3>1 DEF Nowhere
  <2>3. CASE k # j
    BY <1>3, <2>1, <2>3 DEF TypeOK
  <2> QED
    BY <2>2, <2>3
<1>6. ASSUME RequestTyped PROVE Nowhere(k, r)'
  <2> DEFINE request == [connection |-> connectionId, number |-> nextRequest]
  <2>1. /\ nextRequest' = nextRequest + 1 /\ UNCHANGED downlink
        /\ \/ /\ pending' = pending \cup {request}
              /\ uplink' = [uplink EXCEPT ![endpoint] = Append(@, request)]
           \/ UNCHANGED <<pending, uplink>>
    BY <1>6 DEF RequestTyped
  <2>2. request # r
    BY <1>1, <2>1 DEF Requests
  <2>3. request \in Requests \/ UNCHANGED uplink
    BY <1>6, <2>1, FrontendActsType DEF TypeOK
  <2> HIDE DEF request
  <2>4. uplink'[k] = uplink[k] \/ (request \in Requests /\ uplink'[k] = Append(uplink[k], request))
    BY <2>1, <2>3 DEF TypeOK
  <2>5. Never(uplink'[k], r)
    <3>1. Never(uplink[k], r)
      BY DEF Nowhere
    <3>2. request \in Requests => Never(Append(uplink[k], request), r)
      BY <1>1, <2>2, <3>1, AppendPlace
    <3> QED
      BY <2>4, <3>1, <3>2
  <2> QED
    BY <1>2, <2>1, <2>5 DEF Nowhere
<1>7. ASSUME UNCHANGED <<uplink, downlink>> PROVE Nowhere(k, r)'
  BY <1>3, <1>7
<1>8. ASSUME NEW j \in Contexts,
             \/ CreateContext(j) \/ ContextConnected(j) \/ ReceiveFrame(j)
             \/ ReceiveBadFrame(j) \/ ContextDisconnected(j) \/ ContextDestroyed(j)
      PROVE  Nowhere(k, r)'
  BY <1>4, <1>5, <1>7, <1>8
     DEF CreateContext, ContextConnected, ReceiveBadFrame, Close, ContextDisconnected,
         ContextDestroyed
<1>9. ASSUME Disconnect \/ Shutdown PROVE Nowhere(k, r)'
  <2>1. endpoint # None => endpoint \in Contexts
    BY DEF TypeOK
  <2> QED
    BY <1>4, <1>7, <1>9, <2>1 DEF Disconnect, Shutdown, Close
<1> QED
  BY <1>6, <1>8, <1>9 DEF FrontendActs

LEMMA FrontendPlaced ==
  ASSUME ConnectionInv, Numbered, Stages, Synced, Placed, NumbersUsed, FrontendActs
  PROVE  Placed'
<1> USE DEF ConnectionInv
<1> SUFFICES ASSUME endpoint' # None, endpoint' \notin disconnecting', link'[endpoint'] = "open",
                    NEW r \in pending'
             PROVE  InOnePlace(endpoint, r)'
  BY DEF Placed
<1> DEFINE e == endpoint
           a == Response(r)
<1>1. /\ endpoint' = e /\ e \in Contexts /\ e \notin disconnecting
      /\ UNCHANGED <<link, name, serving, bridge>>
      /\ \/ ReceiveFrame(e) /\ UNCHANGED <<uplink, nextRequest>>
         \/ RequestTyped
         \/ UNCHANGED <<downlink[e], uplink[e], sdk>>
  BY FrontendStep
<1>2. e # None /\ \A q \in pending : InOnePlace(e, q)
  BY <1>1 DEF Placed
<1>3. uplink[e] \in Seq(Requests) /\ downlink[e] \in Seq(Frames)
  BY <1>1 DEF TypeOK
<1>4. CASE UNCHANGED <<downlink[e], uplink[e], sdk>>
  BY <1>1, <1>2, <1>4 DEF InOnePlace, sdk
<1>5. CASE ReceiveFrame(e) /\ UNCHANGED uplink
  <2> DEFINE m == Head(downlink[e])
  <2>1. /\ lifecycle[e] = "connected" /\ downlink[e] # <<>> /\ downlink'[e] = Tail(downlink[e])
    BY <1>1, <1>5 DEF ReceiveFrame, TypeOK
  <2>2. Receives(e)
    BY <1>1, <2>1, ReceivedProvider
  <2>3. r \in pending /\ m # a
    <3>1. CASE m.kind = "response" /\ ReceiveResponse(m)
      BY <3>1 DEF ReceiveResponse, Response
    <3>2. CASE m.kind # "response" /\ pending' \subseteq pending
      BY <3>2 DEF Response
    <3> QED
      BY <1>1, <1>5, <2>2, <3>1, <3>2, ReceivedPending DEF ReceiveOpened, ReceiveController
  <2>4. /\ Never(downlink[e], a) => Never(downlink'[e], a)
        /\ Once(downlink[e], a) => Once(downlink'[e], a)
    BY <1>3, <2>1, <2>3, TailPlace
  <2> QED
    BY <1>1, <1>2, <1>5, <2>3, <2>4 DEF InOnePlace
<1>6. CASE RequestTyped
  <2> DEFINE request == [connection |-> connectionId, number |-> nextRequest]
  <2>1. /\ UNCHANGED downlink
        /\ \/ /\ pending' = pending \cup {request}
              /\ uplink' = [uplink EXCEPT ![e] = Append(@, request)]
           \/ UNCHANGED <<pending, uplink>>
    BY <1>6 DEF RequestTyped
  <2>2. CASE UNCHANGED <<pending, uplink>>
    BY <1>1, <1>2, <2>1, <2>2 DEF InOnePlace
  <2>3. CASE /\ pending' = pending \cup {request}
             /\ uplink' = [uplink EXCEPT ![e] = Append(@, request)]
    <3>1. /\ request \in Requests /\ request.number = nextRequest /\ nextRequest \in Nat
          /\ \A q \in pending : q # request
      BY <2>3, FrontendActsType DEF TypeOK, Numbered
    <3>2. Nowhere(e, request)
      BY <1>1, <3>1 DEF NumbersUsed
    <3> HIDE DEF request
    <3>3. uplink'[e] = Append(uplink[e], request)
      BY <1>1, <2>3 DEF TypeOK
    <3>4. CASE r = request
      <4>1. Once(uplink'[e], r)
        BY <1>3, <3>1, <3>2, <3>3, <3>4, AppendPlace DEF Nowhere
      <4> QED
        BY <1>1, <2>1, <3>2, <3>4, <4>1 DEF InOnePlace, Nowhere
    <3>5. CASE r \in pending
      <4>1. /\ Never(uplink[e], r) => Never(uplink'[e], r)
            /\ Once(uplink[e], r) => Once(uplink'[e], r)
        BY <1>3, <3>1, <3>3, <3>5, AppendPlace
      <4> QED
        BY <1>1, <1>2, <2>1, <3>5, <4>1 DEF InOnePlace
    <3> QED
      BY <2>3, <3>4, <3>5
  <2> QED
    BY <2>1, <2>2, <2>3
<1> QED
  BY <1>1, <1>4, <1>5, <1>6

LEMMA PeerPlaced ==
  ASSUME ConnectionInv, Placed, PeerActs
  PROVE  Placed'
<1> USE DEF ConnectionInv
<1>1. UNCHANGED <<lifecycle, disconnecting, endpoint, pending>>
  BY PeerKeepsFrontend
<1> SUFFICES ASSUME endpoint # None, endpoint \notin disconnecting, link'[endpoint] = "open",
                    NEW r \in pending
             PROVE  InOnePlace(endpoint, r)'
  BY <1>1 DEF Placed
<1>2. endpoint \in Contexts /\ Alive(endpoint) /\ link[endpoint] # "none" /\ r \in Requests
  BY PendingNamed DEF TypeOK, StateOfTheConnection, Channels
<1>3. link[endpoint] = "open"
  BY <1>2 DEF PeerActs, PeerRegisters, PeerUnregisters, PeerReceives, PeerAnswers,
              PeerSetsController, PeerConnects, PeerReady, PeerDisconnects, PeerRestarts, TypeOK
<1>4. endpoint \in Listening /\ InOnePlace(endpoint, r)
  BY <1>2, <1>3 DEF Listening, Open, Placed
<1>5. InOnePlace(endpoint, r)'
  BY <1>1, <1>2, <1>4, PeerPlaces DEF InOnePlace
<1> QED
  BY <1>5

-----------------------------------------------------------------------------
(* The invariant: the frames on the way and the requests, as the bridge has*)
(* sent and received them, agree with the SDK.                             *)
AgreementInv == ConnectionInv /\ Numbered /\ Stages /\ Synced /\ Placed /\ NumbersUsed

LEMMA AgreementInvariant == Spec => []AgreementInv
<1>1. Init => Stages /\ Synced /\ Placed /\ NumbersUsed
  BY DEF Init, Stages, Synced, Placed, NumbersUsed, Nowhere, Never
<1>2. ASSUME ConnectionInv, Numbered, Stages, Synced, Placed, NumbersUsed, Next
      PROVE  Stages' /\ Synced' /\ Placed' /\ NumbersUsed'
  <2>1. TypeOK /\ nextRequest \in Nat
    BY <1>2 DEF ConnectionInv, TypeOK
  <2>2. CASE FrontendActs
    <3>1. nextRequest' = nextRequest \/ nextRequest' = nextRequest + 1
      BY <2>2 DEF FrontendActs, CreateContext, ContextConnected, ReceiveFrame, ReceiveBadFrame,
                  ContextDisconnected, ContextDestroyed, RequestTyped, Disconnect, Shutdown
    <3>2. NumbersUsed'
      <4>1. ASSUME NEW k \in Contexts, NEW r \in Requests, r.number >= nextRequest'
            PROVE  Nowhere(k, r)'
        <5>1. r.number >= nextRequest
          BY <2>1, <3>1, <4>1 DEF Requests
        <5> QED
          BY <1>2, <2>1, <2>2, <4>1, <5>1, FrontendNowhere DEF NumbersUsed
      <4> QED
        BY <4>1 DEF NumbersUsed
    <3> QED
      BY <1>2, <2>2, <3>2, FrontendStages, FrontendSynced, FrontendPlaced
  <2>3. CASE PeerActs
    <3>1. nextRequest' = nextRequest
      BY <2>3, PeerKeepsFrontend
    <3>2. NumbersUsed'
      <4>1. ASSUME NEW k \in Contexts, NEW r \in Requests, r.number >= nextRequest'
            PROVE  Nowhere(k, r)'
        BY <1>2, <2>1, <2>3, <3>1, <4>1, PeerPlaces DEF NumbersUsed
      <4> QED
        BY <4>1 DEF NumbersUsed
    <3> QED
      BY <1>2, <2>3, <3>2, PeerStages, PeerSynced, PeerPlaced
  <2> QED
    BY <1>2, <2>2, <2>3 DEF Next
<1>3. ASSUME Stages, Synced, Placed, NumbersUsed, UNCHANGED vars
      PROVE  Stages' /\ Synced' /\ Placed' /\ NumbersUsed'
  BY <1>3 DEF vars, flags, connection, sdk, peer, Stages, Synced, Placed, NumbersUsed,
              KnownAs, InStep, InOnePlace, Nowhere
<1>4. ConnectionInv /\ Numbered /\ Stages /\ Synced /\ Placed /\ NumbersUsed /\ [Next]_vars
        => Stages' /\ Synced' /\ Placed' /\ NumbersUsed'
  BY <1>2, <1>3
<1> QED
  BY <1>1, <1>4, HandlersNumbered, ConnectionInvariant, PTL DEF Spec, AgreementInv

(* Once every frame has arrived, the SDK knows its role, the controller and*)
(* the provider as the bridge has them.                                    *)
THEOREM TelemetryKnown == Spec => []TelemetryAgrees
<1>1. AgreementInv => TelemetryAgrees
  <2> SUFFICES ASSUME AgreementInv, NEW k \in Open, Receives(k), downlink[k] = <<>>
               PROVE  /\ connectionId = name[k] /\ controllerId = bridge.controller
                      /\ role = IF bridge.controller = name[k] THEN "controller" ELSE "observer"
                      /\ generation = bridge.generation /\ ready = (bridge.provider = "ready")
    BY DEF TelemetryAgrees
  <2>1. k = endpoint /\ endpoint # None /\ k \notin disconnecting /\ link[k] = "open"
    BY DEF Receives, Open, Contexts, None
  <2>2. KnownAs(<<>>, name[k]) /\ InStep(<<>>, name[k], bridge)
    BY <2>1 DEF AgreementInv, Synced
  <2>3. \A kind : At(<<>>, kind) = {}
    BY DEF At
  <2> QED
    BY <2>2, <2>3 DEF KnownAs, InStep, Identified, ControllerTold, ProviderTold, RoleOf
<1> QED
  BY <1>1, AgreementInvariant, PTL

LEMMA Counted ==
  ASSUME NEW s, NEW x
  PROVE  /\ Once(s, x) => Occurrences(s, x) = 1
         /\ Never(s, x) => Occurrences(s, x) = 0
<1>1. ASSUME Once(s, x) PROVE Occurrences(s, x) = 1
  <2>1. PICK i \in DOMAIN s : s[i] = x /\ \A j \in DOMAIN s : s[j] = x => j = i
    BY <1>1 DEF Once
  <2>2. {j \in DOMAIN s : s[j] = x} = {i}
    BY <2>1
  <2> QED
    BY <2>2, FS_Singleton DEF Occurrences
<1>2. ASSUME Never(s, x) PROVE Occurrences(s, x) = 0
  <2>1. {j \in DOMAIN s : s[j] = x} = {}
    BY <1>2 DEF Never
  <2> QED
    BY <2>1, FS_EmptySet DEF Occurrences
<1> QED
  BY <1>1, <1>2

(* Every request that is outstanding is on its way, forwarded, or answered,*)
(* exactly once, and the end of its session arrives before the next one.   *)
THEOREM PendingAccounted == Spec => []PendingIsAccountedFor
<1>1. AgreementInv => PendingIsAnswered
  <2> SUFFICES ASSUME AgreementInv, NEW k \in Open, NEW r \in pending, Receives(k)
               PROVE  Occurrences(uplink[k], r) + Occurrences(downlink[k], Response(r))
                        + (IF r \in serving[k] THEN 1 ELSE 0) = 1
    BY DEF PendingIsAnswered
  <2>1. k = endpoint /\ endpoint # None /\ k \notin disconnecting /\ link[k] = "open"
    BY DEF Receives, Open, Contexts, None
  <2>2. InOnePlace(k, r)
    BY <2>1 DEF AgreementInv, Placed
  <2> QED
    BY <2>2, Counted DEF InOnePlace
<1>2. AgreementInv => GenerationsEndFirst
  <2> SUFFICES ASSUME AgreementInv, NEW k \in Contexts, Receives(k), downlink[k] # <<>>,
                      Head(downlink[k]).kind = "provider",
                      Head(downlink[k]).generation > generation, pending # {}
               PROVE  FALSE
    BY DEF GenerationsEndFirst
  <2> DEFINE s == downlink[k]
  <2>1. /\ k = endpoint /\ endpoint # None /\ k \notin disconnecting /\ link[k] # "none"
        /\ s \in Seq(Frames) /\ ready /\ generation \in Nat
    BY DEF Receives, Contexts, None, AgreementInv, ConnectionInv, Channels, TypeOK, Stages
  <2>2. Announced(s, generation, ready)
    BY <2>1 DEF AgreementInv, Synced, KnownAs
  <2>3. EndOf(Head(s), generation)
    BY <2>1, <2>2, TailProvider
  <2> QED
    BY <2>1, <2>3 DEF EndOf
<1> QED
  BY <1>1, <1>2, AgreementInvariant, PTL DEF PendingIsAccountedFor
=============================================================================
