---------------------------- MODULE BridgeProofs ----------------------------
(***************************************************************************)
(* What the runs of MCBridge check on small instances, proved for every    *)
(* value of the constants.                                                 *)
(***************************************************************************)
EXTENDS Bridge, FiniteSetTheorems, TLAPS

-----------------------------------------------------------------------------
(* Tables *)

(* What emplacing an entry and erasing keys leave in a table. *)
LEMMA EmplaceFacts ==
  ASSUME NEW table, NEW key, NEW value
  PROVE  /\ DOMAIN Emplace(table, key, value) = DOMAIN table \cup {key}
         /\ \A k \in DOMAIN table : Emplace(table, key, value)[k] = table[k]
         /\ key \notin DOMAIN table => Emplace(table, key, value)[key] = value
  BY DEF Emplace

LEMMA EraseFacts ==
  ASSUME NEW table, NEW keys
  PROVE  /\ DOMAIN Erase(table, keys) = DOMAIN table \ keys
         /\ \A k \in DOMAIN table \ keys : Erase(table, keys)[k] = table[k]
  BY DEF Erase, Restrict

(* Tables stay tables of their type. *)
LEMMA EmplaceTable ==
  ASSUME NEW keys, NEW values, NEW table, IsTable(table, keys, values),
         NEW key \in keys, NEW value \in values
  PROVE  IsTable(Emplace(table, key, value), keys, values)
  BY DEF IsTable, Emplace

LEMMA EraseTable ==
  ASSUME NEW keys, NEW values, NEW table, IsTable(table, keys, values), NEW erased
  PROVE  IsTable(Erase(table, erased), keys, values)
  BY DEF IsTable, Erase, Restrict

LEMMA GrowTable ==
  ASSUME NEW keys, NEW values, NEW table, IsTable(table, keys, values),
         NEW keys2, keys \subseteq keys2, NEW values2, values \subseteq values2
  PROVE  IsTable(table, keys2, values2)
  BY DEF IsTable

LEMMA EmptyTable ==
  ASSUME NEW keys, NEW values
  PROVE  IsTable(<<>>, keys, values)
  BY DEF IsTable

FrontendRecords == [role : {"controller", "observer"}, endpoint : {"open", "closing"}]

LEMMA CloseLostFacts ==
  ASSUME NEW keys, NEW table, IsTable(table, keys, FrontendRecords), NEW lost
  PROVE  /\ DOMAIN CloseLost(table, lost) = DOMAIN table
         /\ \A c \in DOMAIN table \ lost : CloseLost(table, lost)[c] = table[c]
         /\ \A c \in DOMAIN table : CloseLost(table, lost)[c].role = table[c].role
         /\ \A c \in DOMAIN table \cap lost :
              CloseLost(table, lost)[c].endpoint = "closing"
  BY DEF CloseLost, IsTable, FrontendRecords

LEMMA CloseLostTable ==
  ASSUME NEW keys, NEW table, IsTable(table, keys, FrontendRecords), NEW lost
  PROVE  IsTable(CloseLost(table, lost), keys, FrontendRecords)
  BY DEF IsTable, CloseLost, FrontendRecords

-----------------------------------------------------------------------------
(* The steps of Next, those that change nothing but endpoints put together *)

FramesOnly ==
  /\ \E lost \in SUBSET OpenEndpoints : frontends' = CloseLost(frontends, lost)
  /\ UNCHANGED <<controller, nextConnection, heard, routing, local,
                 serverRequests, session>>

LEMMA DeliverFrames ==
  ASSUME NEW recipients, Deliver(recipients)
  PROVE  \E lost \in SUBSET OpenEndpoints : frontends' = CloseLost(frontends, lost)
  BY DEF Deliver

LEMMA NextCases ==
  ASSUME Next
  PROVE  \/ FramesOnly
         \/ RegisterFrontend
         \/ \E c \in DOMAIN frontends : UnregisterFrontend(c)
         \/ \E c \in OpenEndpoints, id \in FrontendIds, method \in {"read", "write"} :
              /\ Admitted(c, method) /\ <<c, id>> \notin DOMAIN requestKeys
              /\ ForwardRequest(c, id)
         \/ \E c \in OpenEndpoints, s \in ServerIds :
              s \in OwnedBy(c) /\ ReceiveServerResponse(c, s)
         \/ \E new \in DOMAIN frontends \cup {None} : SetController(new)
         \/ ProviderConnects
         \/ ProviderDisconnects
         \/ \E key \in DOMAIN localRequests : ReceiveLocalResponse(key)
         \/ \E key \in DOMAIN requestOwners : ReceiveResponse(key)
         \/ \E s \in ServerIds : ReceiveLocalServerRequest(s)
         \/ \E s \in ServerIds :
              controller \in DOMAIN frontends /\ ReceiveServerRequest(s)
         \/ \E s \in ServerIds : ReceiveResolved(s)
         \/ RequestTyped
         \/ \E id \in RawIds : SendRawRequest(id)
         \/ \E s \in ServerIds : SendServerResponse(s)
<1>1. ASSUME NEW c, Reject(c) PROVE FramesOnly
  BY <1>1, DeliverFrames DEF Reject, FramesOnly
<1>2. ASSUME NEW c \in DOMAIN frontends, EndpointFails(c) PROVE FramesOnly
  BY <1>2 DEF EndpointFails, FramesOnly
<1>3. ASSUME NEW c, NEW id \in FrontendIds, NEW method \in {"read", "write", "handshake"},
             ReceiveRequest(c, id, method)
      PROVE  \/ FramesOnly
             \/ /\ c \in OpenEndpoints /\ method \in {"read", "write"}
                /\ Admitted(c, method) /\ <<c, id>> \notin DOMAIN requestKeys
                /\ ForwardRequest(c, id)
  BY <1>1, <1>3 DEF ReceiveRequest, Admitted
<1>4. ASSUME NEW c, NEW s \in ServerIds, ReceiveServerResponse(c, s)
      PROVE  FramesOnly \/ (c \in OpenEndpoints /\ s \in OwnedBy(c))
  BY <1>1, <1>4 DEF ReceiveServerResponse
<1>5. ASSUME NEW c \in DOMAIN frontends,
             \/ ClaimControl(c) \/ ReleaseControl(c)
             \/ \E target \in 1 .. MaxConnections : TransferControl(c, target)
      PROVE  FramesOnly \/ \E new \in DOMAIN frontends \cup {None} : SetController(new)
  BY <1>1, <1>5 DEF ClaimControl, ReleaseControl, TransferControl
<1>6. CASE FrontendActs
  BY <1>1, <1>2, <1>3, <1>4, <1>5, <1>6 DEF FrontendActs, ReceiveUntracked
<1>7. ASSUME NEW s \in ServerIds, ReceiveServerRequest(s)
      PROVE  FramesOnly \/ controller \in DOMAIN frontends
  BY <1>7, DeliverFrames DEF ReceiveServerRequest, Broadcast, FramesOnly, serverRequests
<1>8. ASSUME ReceiveBroadcast \/ \E s \in ServerIds : ReceiveDuplicateServerRequest(s)
      PROVE  FramesOnly
  BY <1>8, DeliverFrames
  DEF ReceiveBroadcast, ReceiveDuplicateServerRequest, Broadcast, FramesOnly
<1>9. CASE ProviderActs
  BY <1>7, <1>8, <1>9 DEF ProviderActs
<1>10. CASE ApplicationActs
  BY <1>10 DEF ApplicationActs
<1> QED
  BY <1>6, <1>9, <1>10 DEF Next

-----------------------------------------------------------------------------
(* Type correctness *)

RegistryType ==
  /\ nextConnection \in Nat \ {0}
  /\ IsTable(frontends, Connections, FrontendRecords)
  /\ controller \in Connections \cup {None}
  /\ heard \in [DOMAIN frontends ->
                 [controller : Nat, provider : States, generation : Nat]]
RoutingType ==
  /\ nextRequest \in Nat \ {0}
  /\ IsTable(requestOwners, UpstreamIds, [connection : Connections, id : FrontendIds])
  /\ IsTable(requestKeys, Connections \X FrontendIds, UpstreamIds)
  /\ unanswered \in [DOMAIN frontends -> [FrontendIds -> Int]]
  /\ IsFiniteSet(DOMAIN requestOwners)
LocalType ==
  /\ nextLocal \in Nat \ {0}
  /\ IsTable(localRequests, UpstreamIds, {"initialize", "typed", "raw"})
ServerType ==
  /\ IsTable(serverRequestOwners, ServerIds,
             [kind : {"local", "frontend"}, connection : Connections \cup {None}])
  /\ pending \in [ServerIds -> Int]
SessionType ==
  /\ connected \in BOOLEAN /\ ready \in BOOLEAN /\ stopRequested \in BOOLEAN
  /\ generation \in Nat
TypeInv == RegistryType /\ RoutingType /\ LocalType /\ ServerType /\ SessionType

LEMMA TypeInit == Init => TypeInv
<1> SUFFICES ASSUME Init PROVE TypeInv
  OBVIOUS
<1>1. DOMAIN <<>> = {}
  OBVIOUS
<1>2. RegistryType
  BY <1>1, EmptyTable DEF Init, RegistryType, None
<1>3. RoutingType
  BY <1>1, EmptyTable, FS_EmptySet DEF Init, RoutingType
<1>4. LocalType
  BY EmptyTable DEF Init, LocalType
<1>5. ServerType
  BY EmptyTable DEF Init, ServerType
<1>6. SessionType
  BY DEF Init, SessionType
<1> QED
  BY <1>2, <1>3, <1>4, <1>5, <1>6 DEF TypeInv

(* A step that leaves the variables of a part alone preserves its type. *)
LEMMA TypeFrames ==
  ASSUME TypeInv
  PROVE  /\ UNCHANGED registry => RegistryType'
         /\ DOMAIN frontends' = DOMAIN frontends /\ UNCHANGED <<nextConnection, routing>>
              => RoutingType'
         /\ UNCHANGED local => LocalType'
         /\ UNCHANGED <<nextConnection, serverRequests>> => ServerType'
         /\ UNCHANGED session => SessionType'
<1>1. UNCHANGED registry => RegistryType'
  BY DEF TypeInv, RegistryType, registry, Connections
<1>2. DOMAIN frontends' = DOMAIN frontends /\ UNCHANGED <<nextConnection, routing>>
        => RoutingType'
  BY DEF TypeInv, RoutingType, routing, Connections
<1>3. UNCHANGED local => LocalType'
  BY DEF TypeInv, LocalType, local
<1>4. UNCHANGED <<nextConnection, serverRequests>> => ServerType'
  BY DEF TypeInv, ServerType, serverRequests, Connections
<1>5. UNCHANGED session => SessionType'
  BY DEF TypeInv, SessionType, session
<1> QED
  BY <1>1, <1>2, <1>3, <1>4, <1>5

(* Endpoints that are told to close, and what the others are told. *)
LEMMA TypeLost ==
  ASSUME TypeInv, NEW lost, frontends' = CloseLost(frontends, lost),
         UNCHANGED <<controller, nextConnection>>,
         UNCHANGED heard \/ (SessionType' /\ HearProvider(lost))
  PROVE  RegistryType' /\ DOMAIN frontends' = DOMAIN frontends
<1>1. /\ IsTable(frontends', Connections, FrontendRecords)
      /\ DOMAIN frontends' = DOMAIN frontends
  BY CloseLostTable, CloseLostFacts DEF TypeInv, RegistryType
<1>2. heard' \in [DOMAIN frontends' ->
                   [controller : Nat, provider : States, generation : Nat]]
  <2>1. CASE UNCHANGED heard
    BY <1>1, <2>1 DEF TypeInv, RegistryType
  <2>2. CASE SessionType' /\ HearProvider(lost)
    <3>1. BridgeState' = [controller |-> controller, provider |-> ProviderState',
                          generation |-> generation']
      BY DEF BridgeState
    <3>2. ProviderState' \in States /\ generation' \in Nat
      BY <2>2 DEF ProviderState, States, SessionType
    <3> QED
      BY <1>1, <2>2, <3>1, <3>2 DEF HearProvider, TypeInv, RegistryType
  <2> QED
    BY <2>1, <2>2
<1> QED
  BY <1>1, <1>2 DEF TypeInv, RegistryType, Connections

LEMMA TypeRegister == TypeInv /\ RegisterFrontend => TypeInv'
<1> SUFFICES ASSUME TypeInv, RegisterFrontend PROVE TypeInv'
  OBVIOUS
<1> DEFINE c == nextConnection
           becomesController == FirstFrontendBecomesController /\ controller = None
           record == [role |-> IF becomesController THEN "controller" ELSE "observer",
                      endpoint |-> "open"]
<1>1. PICK lost : /\ frontends' = CloseLost(Emplace(frontends, c, record), lost)
                  /\ heard' = [d \in DOMAIN frontends' |->
                         IF d = c THEN [BridgeState EXCEPT !.controller = controller']
                         ELSE IF d \in OpenEndpoints \ lost
                         THEN [heard[d] EXCEPT !.controller = controller']
                         ELSE heard[d]]
  BY DEF RegisterFrontend
<1>2. nextConnection' = c + 1 /\ c \in Nat \ {0}
  BY DEF RegisterFrontend, TypeInv, RegistryType
<1>3. Connections \subseteq Connections' /\ c \in Connections'
  BY <1>2 DEF Connections
<1>4. /\ IsTable(frontends', Connections', FrontendRecords)
      /\ DOMAIN frontends' = DOMAIN frontends \cup {c}
  <2>1. record \in FrontendRecords
    BY DEF FrontendRecords
  <2>2. IsTable(frontends, Connections', FrontendRecords)
    BY <1>3, GrowTable DEF TypeInv, RegistryType
  <2>3. IsTable(Emplace(frontends, c, record), Connections', FrontendRecords)
    BY <1>3, <2>1, <2>2, EmplaceTable
  <2>4. DOMAIN Emplace(frontends, c, record) = DOMAIN frontends \cup {c}
    BY EmplaceFacts
  <2> QED
    BY <1>1, <2>3, <2>4, CloseLostTable, CloseLostFacts
<1>5. controller' \in Connections' \cup {None}
  BY <1>3 DEF RegisterFrontend, TypeInv, RegistryType
<1>6. heard' \in [DOMAIN frontends' ->
                   [controller : Nat, provider : States, generation : Nat]]
  <2>1. controller \in Nat /\ controller' \in Nat
    BY <1>2, <1>5 DEF TypeInv, RegistryType, Connections, None
  <2>2. BridgeState \in [controller : Nat, provider : States, generation : Nat]
    BY <2>1 DEF BridgeState, ProviderState, States, TypeInv, SessionType
  <2> QED
    BY <1>1, <1>4, <2>1, <2>2 DEF TypeInv, RegistryType
<1>7. unanswered' \in [DOMAIN frontends' -> [FrontendIds -> Int]]
  BY <1>4 DEF RegisterFrontend, Emplace, TypeInv, RoutingType
<1>8. RegistryType'
  BY <1>2, <1>4, <1>5, <1>6 DEF RegistryType
<1>9. RoutingType'
  <2>1. UNCHANGED <<requestOwners, requestKeys, nextRequest>>
    BY DEF RegisterFrontend
  <2>2. /\ [connection : Connections, id : FrontendIds]
             \subseteq [connection : Connections', id : FrontendIds]
        /\ Connections \X FrontendIds \subseteq Connections' \X FrontendIds
    BY <1>3
  <2>3. IsTable(requestOwners', UpstreamIds, [connection : Connections', id : FrontendIds])
    BY <2>1, <2>2, GrowTable DEF TypeInv, RoutingType
  <2>4. IsTable(requestKeys', Connections' \X FrontendIds, UpstreamIds)
    BY <2>1, <2>2, GrowTable DEF TypeInv, RoutingType
  <2> QED
    BY <1>7, <2>1, <2>3, <2>4 DEF TypeInv, RoutingType
<1>10. ServerType'
  <2>1. [kind : {"local", "frontend"}, connection : Connections \cup {None}]
          \subseteq [kind : {"local", "frontend"}, connection : Connections' \cup {None}]
    BY <1>3
  <2>2. UNCHANGED serverRequests
    BY DEF RegisterFrontend
  <2> QED
    BY <2>1, <2>2, GrowTable DEF serverRequests, TypeInv, ServerType
<1> QED
  BY <1>8, <1>9, <1>10, TypeFrames DEF RegisterFrontend, TypeInv

LEMMA TypeUnregister ==
  ASSUME TypeInv, NEW c \in DOMAIN frontends, UnregisterFrontend(c)
  PROVE  TypeInv'
<1>1. PICK lost : /\ frontends' = CloseLost(Erase(frontends, {c}), lost)
                  /\ IF controller = c THEN HearController(lost)
                     ELSE heard' = Erase(heard, {c})
  BY DEF UnregisterFrontend
<1>2. nextConnection' = nextConnection /\ Connections' = Connections
  BY DEF UnregisterFrontend, Connections
<1>3. /\ IsTable(frontends', Connections, FrontendRecords)
      /\ DOMAIN frontends' = DOMAIN frontends \ {c}
  <2>1. IsTable(Erase(frontends, {c}), Connections, FrontendRecords)
    BY EraseTable DEF TypeInv, RegistryType
  <2> QED
    BY <1>1, <2>1, EraseFacts, CloseLostTable, CloseLostFacts, ZenonT(40)
<1>4. controller' \in Connections \cup {None}
  BY DEF UnregisterFrontend, TypeInv, RegistryType
<1>5. heard' \in [DOMAIN frontends' ->
                   [controller : Nat, provider : States, generation : Nat]]
  <2>1. controller' \in Nat
    BY <1>4 DEF Connections, None, TypeInv, RegistryType
  <2>2. CASE HearController(lost)
    BY <1>3, <2>1, <2>2 DEF HearController, TypeInv, RegistryType
  <2>3. CASE heard' = Erase(heard, {c})
    BY <1>3, <2>3 DEF Erase, Restrict, TypeInv, RegistryType
  <2> QED
    BY <1>1, <2>2, <2>3
<1>6. RegistryType'
  BY <1>2, <1>3, <1>4, <1>5 DEF TypeInv, RegistryType
<1>7. unanswered' \in [DOMAIN frontends' -> [FrontendIds -> Int]]
  BY <1>3 DEF UnregisterFrontend, Erase, Restrict, TypeInv, RoutingType
<1>8. IsFiniteSet(DOMAIN requestOwners')
  BY EraseFacts, FS_Subset DEF UnregisterFrontend, TypeInv, RoutingType
<1>9. RoutingType'
  BY <1>2, <1>7, <1>8, EraseTable DEF UnregisterFrontend, TypeInv, RoutingType
<1>10. ServerType'
  <2>1. pending' \in [ServerIds -> Int]
    BY DEF UnregisterFrontend, TypeInv, ServerType
  <2> QED
    BY <1>2, <2>1, EraseTable DEF UnregisterFrontend, TypeInv, ServerType
<1> QED
  BY <1>6, <1>9, <1>10, TypeFrames DEF UnregisterFrontend, local, TypeInv

LEMMA TypeForward ==
  ASSUME TypeInv, NEW c \in OpenEndpoints, NEW id \in FrontendIds, ForwardRequest(c, id)
  PROVE  TypeInv'
<1>1. PICK n \in 1 .. MaxRequests :
        LET key == RemoteId(c, n) IN
        /\ NextRequestNumber(c, n)
        /\ nextRequest' = n + 1
        /\ \/ /\ requestOwners' = Emplace(requestOwners, key, [connection |-> c, id |-> id])
              /\ requestKeys' = Emplace(requestKeys, <<c, id>>, key)
              /\ unanswered' = [unanswered EXCEPT ![c][id] = @ + 1]
              /\ UNCHANGED frontends
           \/ /\ Deliver({c})
              /\ UNCHANGED <<requestOwners, requestKeys, unanswered>>
  BY DEF ForwardRequest
<1>2. UNCHANGED <<controller, nextConnection, heard, local, serverRequests, session>>
  BY DEF ForwardRequest
<1>3. n \in Nat /\ c \in Connections /\ c \in DOMAIN frontends
  BY BridgeAssumption DEF BridgeAssumption, OpenEndpoints, TypeInv, RegistryType, IsTable
<1>4. RemoteId(c, n) \in UpstreamIds
  BY <1>3 DEF RemoteId, UpstreamIds, TypeInv, SessionType, Connections, RegistryType
<1>5. nextRequest' \in Nat \ {0}
  BY <1>1, <1>3
<1>6. RegistryType' /\ DOMAIN frontends' = DOMAIN frontends
  <2>1. CASE UNCHANGED frontends
    BY <1>2, <2>1, TypeFrames DEF registry
  <2>2. CASE Deliver({c})
    BY <1>2, <2>2, DeliverFrames, TypeLost
  <2> QED
    BY <1>1, <2>1, <2>2
<1>7. RoutingType'
  <2>1. CASE UNCHANGED <<requestOwners, requestKeys, unanswered>>
    BY <1>2, <1>5, <1>6, <2>1 DEF TypeInv, RoutingType, Connections
  <2>2. CASE /\ requestOwners' = Emplace(requestOwners, RemoteId(c, n),
                                        [connection |-> c, id |-> id])
             /\ requestKeys' = Emplace(requestKeys, <<c, id>>, RemoteId(c, n))
             /\ unanswered' = [unanswered EXCEPT ![c][id] = @ + 1]
    <3>1. unanswered' \in [DOMAIN frontends -> [FrontendIds -> Int]]
      BY <1>3, <2>2 DEF TypeInv, RoutingType
    <3>2. IsTable(requestOwners', UpstreamIds,
                  [connection : Connections, id : FrontendIds])
      BY <1>3, <1>4, <2>2, EmplaceTable DEF TypeInv, RoutingType
    <3>3. IsTable(requestKeys', Connections \X FrontendIds, UpstreamIds)
      BY <1>3, <1>4, <2>2, EmplaceTable DEF TypeInv, RoutingType
    <3>4. IsFiniteSet(DOMAIN requestOwners')
      <4>1. IsFiniteSet(DOMAIN requestOwners)
        BY DEF TypeInv, RoutingType
      <4>2. DOMAIN requestOwners' = DOMAIN requestOwners \cup {RemoteId(c, n)}
        BY <2>2, EmplaceFacts
      <4> QED
        BY <4>1, <4>2, FS_AddElement
    <3> QED
      BY <1>2, <1>5, <1>6, <3>1, <3>2, <3>3, <3>4 DEF RoutingType, Connections
  <2> QED
    BY <1>1, <2>1, <2>2
<1> QED
  BY <1>2, <1>6, <1>7, TypeFrames DEF TypeInv

LEMMA TypeControl ==
  ASSUME TypeInv, NEW new \in DOMAIN frontends \cup {None}, SetController(new)
  PROVE  TypeInv'
<1> DEFINE moved == [d \in DOMAIN frontends |->
                       [frontends[d] EXCEPT !.role = IF d = new THEN "controller"
                                                     ELSE IF d = controller THEN "observer"
                                                     ELSE @]]
<1>1. PICK lost : frontends' = CloseLost(moved, lost) /\ HearController(lost)
  BY DEF SetController
<1>2. controller' = new /\ UNCHANGED <<nextConnection, routing, local, serverRequests, session>>
  BY DEF SetController
<1>3. IsTable(moved, Connections, FrontendRecords) /\ DOMAIN moved = DOMAIN frontends
  BY DEF TypeInv, RegistryType, IsTable, FrontendRecords
<1>4. /\ IsTable(frontends', Connections, FrontendRecords)
      /\ DOMAIN frontends' = DOMAIN frontends
  BY <1>1, <1>3, CloseLostTable, CloseLostFacts
<1>5. new \in Connections \cup {None} /\ new \in Nat
  BY DEF TypeInv, RegistryType, IsTable, Connections, None
<1>6. heard' \in [DOMAIN frontends' ->
                   [controller : Nat, provider : States, generation : Nat]]
  BY <1>1, <1>2, <1>4, <1>5 DEF HearController, TypeInv, RegistryType
<1>7. RegistryType'
  BY <1>2, <1>4, <1>5, <1>6 DEF TypeInv, RegistryType, Connections
<1> QED
  BY <1>2, <1>4, <1>7, TypeFrames DEF TypeInv

LEMMA TypeConnect == TypeInv /\ ProviderConnects => TypeInv'
<1> SUFFICES ASSUME TypeInv, ProviderConnects PROVE TypeInv'
  OBVIOUS
<1>1. PICK n \in nextLocal .. MaxLocalRequests :
        /\ nextLocal' = n + 1
        /\ \/ /\ localRequests' = Emplace(localRequests, LocalId(generation + 1, n),
                                          "initialize")
              /\ UNCHANGED stopRequested
           \/ stopRequested' = TRUE /\ UNCHANGED localRequests
  BY DEF ProviderConnects
<1>2. SessionType'
  <2>1. connected' \in BOOLEAN /\ ready' \in BOOLEAN
    BY DEF ProviderConnects
  <2>3. generation' \in Nat
    BY DEF ProviderConnects, TypeInv, SessionType
  <2>2. stopRequested' \in BOOLEAN
    BY <1>1 DEF TypeInv, SessionType
  <2> QED
    BY <2>1, <2>2, <2>3 DEF SessionType
<1>3. n \in Nat \ {0}
  BY BridgeAssumption DEF BridgeAssumption, TypeInv, LocalType
<1>4. LocalType'
  <2>1. LocalId(generation + 1, n) \in UpstreamIds
    BY <1>3 DEF LocalId, UpstreamIds, None, TypeInv, SessionType
  <2>2. IsTable(localRequests', UpstreamIds, {"initialize", "typed", "raw"})
    BY <1>1, <2>1, EmplaceTable DEF TypeInv, LocalType
  <2> QED
    BY <1>1, <1>3, <2>2 DEF LocalType
<1>5. RegistryType' /\ DOMAIN frontends' = DOMAIN frontends
  BY <1>2, TypeLost DEF ProviderConnects
<1> QED
  BY <1>2, <1>4, <1>5, TypeFrames DEF ProviderConnects, TypeInv

LEMMA TypeDisconnect == TypeInv /\ ProviderDisconnects => TypeInv'
<1> SUFFICES ASSUME TypeInv, ProviderDisconnects PROVE TypeInv'
  OBVIOUS
<1>1. SessionType'
  BY DEF ProviderDisconnects, TypeInv, SessionType
<1>2. RegistryType' /\ DOMAIN frontends' = DOMAIN frontends
  BY <1>1, TypeLost DEF ProviderDisconnects
<1>3. unanswered' \in [DOMAIN frontends' -> [FrontendIds -> Int]]
  <2>1. ASSUME NEW c, NEW i
        PROVE  Cardinality({k \in DOMAIN requestOwners :
                              requestOwners[k] = [connection |-> c, id |-> i]}) \in Nat
    <3> DEFINE S == {k \in DOMAIN requestOwners :
                       requestOwners[k] = [connection |-> c, id |-> i]}
    <3>1. IsFiniteSet(DOMAIN requestOwners) /\ S \subseteq DOMAIN requestOwners
      BY DEF TypeInv, RoutingType
    <3>2. IsFiniteSet(S)
      BY <3>1, FS_Subset
    <3> QED
      BY <3>2, FS_CardinalityType
  <2> DEFINE count(c, i) == Cardinality({k \in DOMAIN requestOwners :
                              requestOwners[k] = [connection |-> c, id |-> i]})
  <2>2. unanswered' = [c \in DOMAIN frontends |-> [i \in FrontendIds |->
                         unanswered[c][i] - count(c, i)]]
    BY DEF ProviderDisconnects
  <2>3. \A c, i : count(c, i) \in Nat
    BY <2>1
  <2> HIDE DEF count
  <2>4. unanswered \in [DOMAIN frontends -> [FrontendIds -> Int]]
    BY DEF TypeInv, RoutingType
  <2> QED
    BY <1>2, <2>2, <2>3, <2>4
<1>4. RoutingType'
  BY <1>3, EmptyTable, FS_EmptySet DEF ProviderDisconnects, TypeInv, RoutingType
<1>5. LocalType'
  BY EmptyTable DEF ProviderDisconnects, TypeInv, LocalType
<1>6. ServerType'
  BY EmptyTable DEF ProviderDisconnects, ServerType
<1> QED
  BY <1>1, <1>2, <1>4, <1>5, <1>6 DEF TypeInv

LEMMA TypeLocalResponse ==
  ASSUME TypeInv, NEW key \in DOMAIN localRequests, ReceiveLocalResponse(key)
  PROVE  TypeInv'
<1>1. LocalType'
  BY EraseTable DEF ReceiveLocalResponse, TypeInv, LocalType
<1>2. SessionType' /\ RegistryType' /\ DOMAIN frontends' = DOMAIN frontends
  <2>1. CASE UNCHANGED <<frontends, heard, session>>
    BY <2>1, TypeFrames DEF ReceiveLocalResponse, registry
  <2>2. CASE BecomeReady
    <3>1. SessionType'
      BY <2>2 DEF BecomeReady, TypeInv, SessionType
    <3> QED
      BY <2>2, <3>1, TypeLost DEF ReceiveLocalResponse, BecomeReady
  <2>3. CASE stopRequested' = TRUE
             /\ UNCHANGED <<frontends, heard, connected, ready, generation>>
    BY <2>3, TypeFrames DEF ReceiveLocalResponse, registry, TypeInv, SessionType
  <2> QED
    BY <2>1, <2>2, <2>3 DEF ReceiveLocalResponse, CompleteHandshake
<1> QED
  BY <1>1, <1>2, TypeFrames DEF ReceiveLocalResponse, TypeInv

LEMMA TypeResponse ==
  ASSUME TypeInv, NEW key \in DOMAIN requestOwners, ReceiveResponse(key)
  PROVE  TypeInv'
<1> DEFINE owner == requestOwners[key]
<1>1. RegistryType' /\ DOMAIN frontends' = DOMAIN frontends
  BY DeliverFrames, TypeLost DEF ReceiveResponse
<1>2. owner \in [connection : Connections, id : FrontendIds]
  BY DEF TypeInv, RoutingType, IsTable
<1>3. unanswered' \in [DOMAIN frontends -> [FrontendIds -> Int]]
  <2> DEFINE c == owner.connection
             fewer == [unanswered[c] EXCEPT ![owner.id] = @ - 1]
  <2>1. unanswered \in [DOMAIN frontends -> [FrontendIds -> Int]]
    BY DEF TypeInv, RoutingType
  <2>2. unanswered' = [unanswered EXCEPT ![c] = fewer]
    BY DEF ReceiveResponse
  <2>3. c \in DOMAIN frontends => fewer \in [FrontendIds -> Int]
    BY <1>2, <2>1
  <2> QED
    BY <2>1, <2>2, <2>3
<1>4. IsFiniteSet(DOMAIN requestOwners')
  BY EraseFacts, FS_Subset DEF ReceiveResponse, TypeInv, RoutingType
<1>5. RoutingType'
  BY <1>1, <1>3, <1>4, EraseTable
  DEF ReceiveResponse, TypeInv, RoutingType, Connections
<1> QED
  BY <1>1, <1>5, TypeFrames DEF ReceiveResponse, TypeInv

LEMMA TypeServerRequests ==
  ASSUME TypeInv, NEW s \in ServerIds,
         \/ ReceiveLocalServerRequest(s)
         \/ controller \in DOMAIN frontends /\ ReceiveServerRequest(s)
         \/ ReceiveResolved(s)
         \/ SendServerResponse(s)
         \/ \E c \in OpenEndpoints : s \in OwnedBy(c) /\ ReceiveServerResponse(c, s)
  PROVE  TypeInv'
<1> DEFINE Owners == [kind : {"local", "frontend"}, connection : Connections \cup {None}]
<1>1. /\ RegistryType' /\ DOMAIN frontends' = DOMAIN frontends
      /\ UNCHANGED <<nextConnection, routing, local, session>>
  <2>1. CASE ReceiveLocalServerRequest(s) \/ SendServerResponse(s)
    BY <2>1, TypeFrames DEF ReceiveLocalServerRequest, SendServerResponse, registry
  <2>2. CASE controller \in DOMAIN frontends /\ ReceiveServerRequest(s)
    BY <2>2, DeliverFrames, TypeLost DEF ReceiveServerRequest
  <2>3. CASE ReceiveResolved(s)
    BY <2>3, DeliverFrames, TypeLost DEF ReceiveResolved, Broadcast
  <2>4. CASE \E c \in OpenEndpoints : s \in OwnedBy(c) /\ ReceiveServerResponse(c, s)
    BY <2>4, DeliverFrames, TypeLost DEF ReceiveServerResponse
  <2> QED
    BY <2>1, <2>2, <2>3, <2>4
<1>2. /\ pending' \in [ServerIds -> Int]
      /\ IsTable(serverRequestOwners', ServerIds, Owners)
  <2>1. /\ pending \in [ServerIds -> Int]
        /\ IsTable(serverRequestOwners, ServerIds, Owners)
    BY DEF TypeInv, ServerType
  <2>2. CASE ReceiveLocalServerRequest(s)
    <3> DEFINE owner == [kind |-> "local", connection |-> None]
    <3>1. owner \in Owners
      OBVIOUS
    <3>2. IsTable(Emplace(serverRequestOwners, s, owner), ServerIds, Owners)
      BY <2>1, <3>1, EmplaceTable
    <3>3. \/ serverRequestOwners' = Emplace(serverRequestOwners, s, owner)
          \/ UNCHANGED serverRequestOwners
      BY <2>2 DEF ReceiveLocalServerRequest, serverRequests
    <3>4. \/ pending' = [pending EXCEPT ![s] = @ + 1]
          \/ pending' = [pending EXCEPT ![s] = @ - 1]
          \/ UNCHANGED pending
      BY <2>2 DEF ReceiveLocalServerRequest, serverRequests
    <3> QED
      BY <2>1, <3>2, <3>3, <3>4
  <2>3. CASE controller \in DOMAIN frontends /\ ReceiveServerRequest(s)
    <3> DEFINE owner == [kind |-> "frontend", connection |-> controller]
    <3>1. owner \in Owners
      BY DEF TypeInv, RegistryType
    <3>2. IsTable(Emplace(serverRequestOwners, s, owner), ServerIds, Owners)
      BY <2>1, <3>1, EmplaceTable
    <3>3. /\ serverRequestOwners' = Emplace(serverRequestOwners, s, owner)
          /\ pending' = [pending EXCEPT ![s] = @ + 1]
      BY <2>3 DEF ReceiveServerRequest
    <3> QED
      BY <2>1, <3>2, <3>3
  <2>4. CASE ReceiveResolved(s)
    BY <2>1, <2>4, EraseTable DEF ReceiveResolved
  <2>5. CASE SendServerResponse(s)
    BY <2>1, <2>5, EraseTable DEF SendServerResponse
  <2>6. CASE \E c \in OpenEndpoints : s \in OwnedBy(c) /\ ReceiveServerResponse(c, s)
    BY <2>1, <2>6, EraseTable DEF ReceiveServerResponse
  <2> QED
    BY <2>2, <2>3, <2>4, <2>5, <2>6
<1>3. ServerType'
  BY <1>1, <1>2 DEF ServerType, Connections
<1> QED
  BY <1>1, <1>3, TypeFrames DEF TypeInv

LEMMA TypeApplication ==
  ASSUME TypeInv, RequestTyped \/ \E id \in RawIds : SendRawRequest(id)
  PROVE  TypeInv'
<1>1. UNCHANGED <<registry, routing, serverRequests, session>>
  BY DEF RequestTyped, SendRawRequest
<1>2. ASSUME RequestTyped PROVE LocalType'
  <2>1. PICK n \in nextLocal .. MaxLocalRequests :
          /\ nextLocal' = n + 1
          /\ \/ localRequests' = Emplace(localRequests, LocalId(generation, n), "typed")
             \/ UNCHANGED localRequests
    BY <1>2 DEF RequestTyped
  <2>2. n \in Nat \ {0}
    BY BridgeAssumption DEF BridgeAssumption, TypeInv, LocalType
  <2>3. LocalId(generation, n) \in UpstreamIds
    BY <2>2 DEF LocalId, UpstreamIds, None, TypeInv, SessionType
  <2> QED
    BY <2>1, <2>2, <2>3, EmplaceTable DEF TypeInv, LocalType
<1>3. ASSUME NEW id \in RawIds, SendRawRequest(id) PROVE LocalType'
  <2>1. id \in UpstreamIds
    BY BridgeAssumption DEF BridgeAssumption
  <2>2. IsTable(localRequests', UpstreamIds, {"initialize", "typed", "raw"})
    BY <1>3, <2>1, EmplaceTable DEF SendRawRequest, TypeInv, LocalType
  <2> QED
    BY <1>3, <2>2 DEF SendRawRequest, TypeInv, LocalType
<1>4. LocalType'
  BY <1>2, <1>3
<1> QED
  BY <1>1, <1>4, TypeFrames DEF registry, TypeInv

LEMMA TypeStep == TypeInv /\ [Next]_vars => TypeInv'
<1> SUFFICES ASSUME TypeInv, [Next]_vars PROVE TypeInv'
  OBVIOUS
<1>1. CASE UNCHANGED vars
  BY <1>1, TypeFrames DEF vars, registry, TypeInv
<1>2. CASE FramesOnly
  BY <1>2, TypeLost, TypeFrames DEF FramesOnly, TypeInv
<1>3. ASSUME NEW c \in OpenEndpoints, NEW s \in ServerIds,
             s \in OwnedBy(c) /\ ReceiveServerResponse(c, s)
      PROVE  TypeInv'
  BY <1>3, TypeServerRequests
<1>4. CASE Next
  BY <1>2, <1>3, <1>4, NextCases, TypeRegister, TypeUnregister, TypeForward, TypeControl,
     TypeConnect, TypeDisconnect, TypeLocalResponse, TypeResponse, TypeServerRequests,
     TypeApplication
<1> QED
  BY <1>1, <1>4

LEMMA TypeInvariant == Spec => []TypeInv
  BY TypeInit, TypeStep, PTL DEF Spec

(* Every state is well typed; in particular a controller, an owner and a   *)
(* key of the router only ever name connections it has registered.         *)
THEOREM TypeCorrect == Spec => []TypeOK
<1>1. TypeInv => TypeOK
  BY DEF TypeInv, RegistryType, RoutingType, LocalType, ServerType, SessionType,
         FrontendRecords, TypeOK
<1> QED
  BY <1>1, TypeInvariant, PTL

-----------------------------------------------------------------------------
(* Roles and telemetry.  Most steps do no more to the registry than to     *)
(* close endpoints.                                                        *)

OnlyCloses ==
  /\ DOMAIN frontends' = DOMAIN frontends
  /\ \A c \in DOMAIN frontends : frontends'[c].role = frontends[c].role
  /\ OpenEndpoints' \subseteq OpenEndpoints
  /\ UNCHANGED <<controller, nextConnection, heard>>

LEMMA LostFacts ==
  ASSUME TypeInv, NEW lost, frontends' = CloseLost(frontends, lost)
  PROVE  /\ DOMAIN frontends' = DOMAIN frontends
         /\ \A c \in DOMAIN frontends : frontends'[c].role = frontends[c].role
         /\ OpenEndpoints' = OpenEndpoints \ lost
<1>1. IsTable(frontends, Connections, FrontendRecords)
  BY DEF TypeInv, RegistryType
<1>2. /\ DOMAIN frontends' = DOMAIN frontends
      /\ \A c \in DOMAIN frontends \ lost : frontends'[c] = frontends[c]
      /\ \A c \in DOMAIN frontends : frontends'[c].role = frontends[c].role
      /\ \A c \in DOMAIN frontends \cap lost : frontends'[c].endpoint = "closing"
  BY <1>1, CloseLostFacts
<1>3. OpenEndpoints' = OpenEndpoints \ lost
  BY <1>2 DEF OpenEndpoints
<1> QED
  BY <1>2, <1>3

LEMMA DeliverCloses ==
  ASSUME TypeInv, NEW recipients,
         Deliver(recipients) \/ UNCHANGED frontends,
         UNCHANGED <<controller, nextConnection, heard>>
  PROVE  OnlyCloses
<1>1. CASE UNCHANGED frontends
  BY <1>1 DEF OnlyCloses, OpenEndpoints
<1>2. CASE Deliver(recipients)
  BY <1>2, DeliverFrames, LostFacts DEF OnlyCloses
<1> QED
  BY <1>1, <1>2

LEMMA RegistryCases ==
  ASSUME TypeInv, [Next]_vars
  PROVE  \/ OnlyCloses /\ UNCHANGED <<connected, ready, generation>>
         \/ RegisterFrontend
         \/ \E c \in DOMAIN frontends : UnregisterFrontend(c)
         \/ \E new \in DOMAIN frontends \cup {None} : SetController(new)
         \/ /\ \E lost \in SUBSET OpenEndpoints :
                 frontends' = CloseLost(frontends, lost) /\ HearProvider(lost)
            /\ UNCHANGED controller
<1> DEFINE Quiet == OnlyCloses /\ UNCHANGED <<connected, ready, generation>>
           Tells == /\ \E lost \in SUBSET OpenEndpoints :
                         frontends' = CloseLost(frontends, lost) /\ HearProvider(lost)
                    /\ UNCHANGED controller
<1>1. CASE UNCHANGED vars
  BY <1>1, DeliverCloses DEF vars, registry, session
<1>2. ASSUME FramesOnly PROVE Quiet
  BY <1>2, LostFacts DEF FramesOnly, OnlyCloses, session
<1>3. ASSUME NEW c, NEW id, ForwardRequest(c, id) PROVE Quiet
  BY <1>3, DeliverCloses DEF ForwardRequest, session
<1>4. ASSUME NEW c, NEW s \in OwnedBy(c), ReceiveServerResponse(c, s) PROVE Quiet
  BY <1>4, DeliverCloses DEF ReceiveServerResponse, session
<1>5. ASSUME NEW key, ReceiveResponse(key) PROVE Quiet
  BY <1>5, DeliverCloses DEF ReceiveResponse, session
<1>6. ASSUME NEW s,
             \/ ReceiveLocalServerRequest(s)
             \/ controller \in DOMAIN frontends /\ ReceiveServerRequest(s)
             \/ ReceiveResolved(s)
             \/ SendServerResponse(s)
      PROVE  Quiet
  BY <1>6, DeliverCloses
  DEF ReceiveLocalServerRequest, ReceiveServerRequest, ReceiveResolved,
      SendServerResponse, Broadcast, registry, session
<1>7. ASSUME RequestTyped \/ \E id \in RawIds : SendRawRequest(id) PROVE Quiet
  BY <1>7, DeliverCloses DEF RequestTyped, SendRawRequest, registry, session
<1>8. ASSUME NEW key, ReceiveLocalResponse(key) PROVE Quiet \/ Tells
  <2>1. CASE UNCHANGED <<frontends, heard, session>>
    BY <1>8, <2>1, DeliverCloses DEF ReceiveLocalResponse, session
  <2>2. CASE BecomeReady
    BY <1>8, <2>2 DEF ReceiveLocalResponse, BecomeReady
  <2>3. CASE UNCHANGED <<frontends, heard, connected, ready, generation>>
    BY <1>8, <2>3, DeliverCloses DEF ReceiveLocalResponse
  <2> QED
    BY <1>8, <2>1, <2>2, <2>3 DEF ReceiveLocalResponse, CompleteHandshake
<1>9. ASSUME ProviderConnects \/ ProviderDisconnects PROVE Tells
  BY <1>9 DEF ProviderConnects, ProviderDisconnects
<1>10. CASE Next
  BY <1>10, <1>2, <1>3, <1>4, <1>5, <1>6, <1>7, <1>8, <1>9, NextCases
<1> QED
  BY <1>1, <1>10

LEMMA RolesStep == TypeInv /\ RolesAgree /\ [Next]_vars => RolesAgree'
<1> SUFFICES ASSUME TypeInv, RolesAgree, [Next]_vars PROVE RolesAgree'
  OBVIOUS
<1>1. /\ IsTable(frontends, Connections, FrontendRecords)
      /\ None \notin DOMAIN frontends /\ nextConnection \notin DOMAIN frontends
  BY DEF TypeInv, RegistryType, IsTable, Connections, None
<1>2. CASE OnlyCloses
  BY <1>2 DEF OnlyCloses, RolesAgree
<1>3. CASE RegisterFrontend
  <2> DEFINE c == nextConnection
             becomesController == FirstFrontendBecomesController /\ controller = None
             record == [role |-> IF becomesController THEN "controller" ELSE "observer",
                        endpoint |-> "open"]
  <2>1. PICK lost : frontends' = CloseLost(Emplace(frontends, c, record), lost)
    BY <1>3 DEF RegisterFrontend
  <2>2. controller' = IF becomesController THEN c ELSE controller
    BY <1>3 DEF RegisterFrontend
  <2>3. /\ record \in FrontendRecords
        /\ record.role = IF becomesController THEN "controller" ELSE "observer"
    BY DEF FrontendRecords
  <2> HIDE DEF record
  <2>4. /\ DOMAIN Emplace(frontends, c, record) = DOMAIN frontends \cup {c}
        /\ \A d \in DOMAIN frontends : Emplace(frontends, c, record)[d] = frontends[d]
        /\ Emplace(frontends, c, record)[c] = record
    BY <1>1, EmplaceFacts
  <2>5. IsTable(Emplace(frontends, c, record), Connections \cup {c}, FrontendRecords)
    <3>1. IsTable(frontends, Connections \cup {c}, FrontendRecords)
      BY <1>1, GrowTable
    <3> QED
      BY <2>3, <3>1, EmplaceTable
  <2>6. /\ DOMAIN frontends' = DOMAIN frontends \cup {c}
        /\ \A d \in DOMAIN frontends : frontends'[d].role = frontends[d].role
        /\ frontends'[c].role = record.role
    BY <2>1, <2>4, <2>5, CloseLostFacts
  <2>7. c \notin DOMAIN frontends \cup {None}
    BY <1>1 DEF TypeInv, RegistryType, None
  <2> HIDE DEF c
  <2>8. CASE becomesController
    BY <1>1, <2>2, <2>3, <2>6, <2>7, <2>8 DEF RolesAgree
  <2>9. CASE ~becomesController
    BY <2>2, <2>3, <2>6, <2>7, <2>9 DEF RolesAgree
  <2> QED
    BY <2>8, <2>9
<1>4. ASSUME NEW c \in DOMAIN frontends, UnregisterFrontend(c) PROVE RolesAgree'
  <2>1. PICK lost : frontends' = CloseLost(Erase(frontends, {c}), lost)
    BY <1>4 DEF UnregisterFrontend
  <2>2. /\ DOMAIN frontends' = DOMAIN frontends \ {c}
        /\ \A d \in DOMAIN frontends \ {c} : frontends'[d].role = frontends[d].role
    <3> DEFINE rest == Erase(frontends, {c})
    <3>1. IsTable(rest, Connections, FrontendRecords)
      BY <1>1, EraseTable
    <3>2. /\ DOMAIN rest = DOMAIN frontends \ {c}
          /\ \A d \in DOMAIN frontends \ {c} : rest[d] = frontends[d]
      BY EraseFacts
    <3>3. frontends' = CloseLost(rest, lost)
      BY <2>1
    <3> HIDE DEF rest
    <3> QED
      BY <3>1, <3>2, <3>3, CloseLostFacts
  <2>3. controller' = IF controller = c THEN None ELSE controller
    BY <1>4 DEF UnregisterFrontend
  <2> QED
    BY <1>1, <2>2, <2>3 DEF RolesAgree
<1>5. ASSUME NEW new \in DOMAIN frontends \cup {None}, SetController(new) PROVE RolesAgree'
  <2> DEFINE moved == [d \in DOMAIN frontends |->
                         [frontends[d] EXCEPT !.role = IF d = new THEN "controller"
                                                       ELSE IF d = controller THEN "observer"
                                                       ELSE @]]
  <2>1. PICK lost : frontends' = CloseLost(moved, lost)
    BY <1>5 DEF SetController
  <2>2. /\ IsTable(moved, Connections, FrontendRecords) /\ DOMAIN moved = DOMAIN frontends
        /\ \A d \in DOMAIN frontends :
             moved[d].role = IF d = new THEN "controller"
                             ELSE IF d = controller THEN "observer"
                             ELSE frontends[d].role
    BY <1>1 DEF IsTable, FrontendRecords
  <2>3. /\ DOMAIN frontends' = DOMAIN frontends
        /\ \A d \in DOMAIN frontends : frontends'[d].role = moved[d].role
    BY <2>1, <2>2, CloseLostFacts
  <2>4. controller' = new
    BY <1>5 DEF SetController
  <2> HIDE DEF moved
  <2>5. controller' \in DOMAIN frontends' \cup {None}
    BY <2>2, <2>3, <2>4
  <2>6. ASSUME NEW d \in DOMAIN frontends'
        PROVE  (frontends'[d].role = "controller") <=> (d = controller')
    BY <2>2, <2>3, <2>4 DEF RolesAgree
  <2> QED
    BY <2>5, <2>6 DEF RolesAgree
<1>6. ASSUME NEW lost, frontends' = CloseLost(frontends, lost), UNCHANGED controller
      PROVE  RolesAgree'
  BY <1>6, LostFacts DEF RolesAgree
<1> QED
  BY <1>2, <1>3, <1>4, <1>5, <1>6, RegistryCases

(* At every moment at most one frontend may act as the controller, and it  *)
(* is the one the router routes to, whatever the frontends claim, release, *)
(* transfer or lose.                                                       *)
THEOREM RolesCorrect == Spec => []RolesAgree
<1>1. Init => RolesAgree
  BY DEF Init, RolesAgree
<1> QED
  BY <1>1, RolesStep, TypeInvariant, PTL DEF Spec

LEMMA TelemetryStep == TypeInv /\ TelemetryCurrent /\ [Next]_vars => TelemetryCurrent'
<1> SUFFICES ASSUME TypeInv, TelemetryCurrent, [Next]_vars PROVE TelemetryCurrent'
  OBVIOUS
<1>1. /\ IsTable(frontends, Connections, FrontendRecords)
      /\ nextConnection \notin DOMAIN frontends
      /\ heard \in [DOMAIN frontends ->
                     [controller : Nat, provider : States, generation : Nat]]
  BY DEF TypeInv, RegistryType, IsTable, Connections
<1>2. \A c \in OpenEndpoints : c \in DOMAIN frontends /\ heard[c] = BridgeState
  BY DEF OpenEndpoints, TelemetryCurrent
<1>3. CASE OnlyCloses /\ UNCHANGED <<connected, ready, generation>>
  BY <1>2, <1>3 DEF OnlyCloses, TelemetryCurrent, BridgeState, ProviderState
<1>4. CASE RegisterFrontend
  <2> DEFINE c == nextConnection
             becomesController == FirstFrontendBecomesController /\ controller = None
             record == [role |-> IF becomesController THEN "controller" ELSE "observer",
                        endpoint |-> "open"]
             table == Emplace(frontends, c, record)
  <2>1. PICK lost : /\ frontends' = CloseLost(table, lost)
                    /\ heard' = [d \in DOMAIN frontends' |->
                           IF d = c THEN [BridgeState EXCEPT !.controller = controller']
                           ELSE IF d \in OpenEndpoints \ lost
                           THEN [heard[d] EXCEPT !.controller = controller']
                           ELSE heard[d]]
    BY <1>4 DEF RegisterFrontend
  <2>2. UNCHANGED <<connected, ready, generation>>
    BY <1>4 DEF RegisterFrontend, session
  <2>3. BridgeState' = [BridgeState EXCEPT !.controller = controller']
    BY <2>2 DEF BridgeState, ProviderState
  <2>4. OpenEndpoints' \subseteq (OpenEndpoints \ lost) \cup {c}
    <3>1. record \in FrontendRecords
      BY DEF FrontendRecords
    <3> HIDE DEF record
    <3>2. /\ DOMAIN table = DOMAIN frontends \cup {c}
          /\ \A d \in DOMAIN frontends : table[d] = frontends[d]
      BY <1>1, EmplaceFacts, ZenonT(40)
    <3>3. IsTable(table, Connections \cup {c}, FrontendRecords)
      <4>1. IsTable(frontends, Connections \cup {c}, FrontendRecords)
        BY <1>1, GrowTable
      <4> QED
        BY <3>1, <4>1, EmplaceTable
    <3> HIDE DEF table
    <3> QED
      BY <2>1, <3>2, <3>3, CloseLostFacts DEF OpenEndpoints
  <2>5. ASSUME NEW d \in OpenEndpoints' PROVE heard'[d] = BridgeState'
    <3>1. d \in DOMAIN frontends'
      BY DEF OpenEndpoints
    <3>2. CASE d = c
      BY <2>1, <2>3, <3>1, <3>2
    <3>3. CASE d # c
      <4>1. d \in OpenEndpoints \ lost
        BY <2>4, <3>3
      <4> QED
        BY <1>2, <2>1, <2>3, <3>1, <3>3, <4>1
    <3> QED
      BY <3>2, <3>3
  <2> QED
    BY <2>5 DEF TelemetryCurrent
<1>5. ASSUME NEW c \in DOMAIN frontends, UnregisterFrontend(c) PROVE TelemetryCurrent'
  <2> DEFINE rest == Erase(frontends, {c})
  <2>1. PICK lost : /\ frontends' = CloseLost(rest, lost)
                    /\ IF controller = c THEN HearController(lost)
                       ELSE heard' = Erase(heard, {c})
    BY <1>5 DEF UnregisterFrontend
  <2>2. controller' = IF controller = c THEN None ELSE controller
    BY <1>5 DEF UnregisterFrontend
  <2>3. BridgeState' = [BridgeState EXCEPT !.controller = controller']
    BY <1>5 DEF UnregisterFrontend, session, BridgeState, ProviderState
  <2>4. OpenEndpoints' \subseteq OpenEndpoints \ (lost \cup {c})
    <3>1. IsTable(rest, Connections, FrontendRecords)
      BY <1>1, EraseTable
    <3>2. /\ DOMAIN rest = DOMAIN frontends \ {c}
          /\ \A d \in DOMAIN frontends \ {c} : rest[d] = frontends[d]
      BY EraseFacts
    <3> HIDE DEF rest
    <3> QED
      BY <2>1, <3>1, <3>2, CloseLostFacts DEF OpenEndpoints
  <2>5. ASSUME NEW d \in OpenEndpoints' PROVE heard'[d] = BridgeState'
    <3>1. d \in DOMAIN frontends' /\ d \in OpenEndpoints \ lost /\ d # c
      BY <2>4 DEF OpenEndpoints
    <3>2. CASE controller = c
      BY <1>2, <2>1, <2>3, <3>1, <3>2 DEF HearController
    <3>3. CASE controller # c
      <4>1. heard'[d] = heard[d]
        BY <1>1, <1>2, <2>1, <3>1, <3>3 DEF Erase, Restrict
      <4>2. BridgeState' = BridgeState
        BY <2>2, <2>3, <3>3 DEF BridgeState
      <4> QED
        BY <1>2, <3>1, <4>1, <4>2
    <3> QED
      BY <3>2, <3>3
  <2> QED
    BY <2>5 DEF TelemetryCurrent
<1>6. ASSUME NEW new \in DOMAIN frontends \cup {None}, SetController(new)
      PROVE  TelemetryCurrent'
  <2> DEFINE moved == [d \in DOMAIN frontends |->
                         [frontends[d] EXCEPT !.role = IF d = new THEN "controller"
                                                       ELSE IF d = controller THEN "observer"
                                                       ELSE @]]
  <2>1. PICK lost : frontends' = CloseLost(moved, lost) /\ HearController(lost)
    BY <1>6 DEF SetController
  <2>2. /\ IsTable(moved, Connections, FrontendRecords) /\ DOMAIN moved = DOMAIN frontends
        /\ \A d \in DOMAIN frontends : moved[d].endpoint = frontends[d].endpoint
    BY <1>1 DEF IsTable, FrontendRecords
  <2>3. OpenEndpoints' \subseteq OpenEndpoints \ lost
    <3> HIDE DEF moved
    <3> QED
      BY <2>1, <2>2, CloseLostFacts DEF OpenEndpoints
  <2>4. BridgeState' = [BridgeState EXCEPT !.controller = controller']
    BY <1>6 DEF SetController, session, BridgeState, ProviderState
  <2>5. ASSUME NEW d \in OpenEndpoints' PROVE heard'[d] = BridgeState'
    <3>1. d \in DOMAIN frontends' /\ d \in OpenEndpoints \ lost
      BY <2>3 DEF OpenEndpoints
    <3> QED
      BY <1>2, <2>1, <2>4, <3>1 DEF HearController
  <2> QED
    BY <2>5 DEF TelemetryCurrent
<1>7. ASSUME NEW lost, frontends' = CloseLost(frontends, lost), HearProvider(lost),
             UNCHANGED controller
      PROVE  TelemetryCurrent'
  <2>1. ASSUME NEW d \in OpenEndpoints
        PROVE  [controller |-> heard[d].controller, provider |-> ProviderState',
                generation |-> generation'] = BridgeState'
    <3>1. heard[d].controller = controller
      BY <1>2 DEF BridgeState
    <3> QED
      BY <1>7, <3>1 DEF BridgeState
  <2>2. ASSUME NEW d \in OpenEndpoints' PROVE heard'[d] = BridgeState'
    <3>1. d \in DOMAIN frontends' /\ d \in OpenEndpoints \ lost
      BY <1>7, LostFacts DEF OpenEndpoints
    <3> QED
      BY <1>2, <1>7, <2>1, <3>1 DEF HearProvider
  <2> QED
    BY <2>2 DEF TelemetryCurrent
<1> QED
  BY <1>3, <1>4, <1>5, <1>6, <1>7, RegistryCases

(* An open frontend never acts on an old controller, provider state or     *)
(* generation: every handler that changes one of them tells everybody.     *)
THEOREM TelemetryCorrect == Spec => []TelemetryCurrent
<1>1. Init => TelemetryCurrent
  BY DEF Init, TelemetryCurrent, OpenEndpoints
<1> QED
  BY <1>1, TelemetryStep, TypeInvariant, PTL DEF Spec

-----------------------------------------------------------------------------
(* Correlation.  Most steps keep the routes of the frontends' requests.    *)

KeepsRoutes ==
  /\ UNCHANGED <<requestOwners, requestKeys, nextRequest>>
  /\ DOMAIN localRequests' \cap DOMAIN requestOwners \subseteq DOMAIN localRequests
  /\ \/ UNCHANGED unanswered /\ DOMAIN frontends' = DOMAIN frontends
     \/ /\ DOMAIN frontends' = DOMAIN frontends \cup {nextConnection}
        /\ unanswered' = Emplace(unanswered, nextConnection, [i \in FrontendIds |-> 0])

LEMMA RoutingCases ==
  ASSUME TypeInv, [Next]_vars
  PROVE  \/ KeepsRoutes
         \/ \E c \in DOMAIN frontends : UnregisterFrontend(c)
         \/ \E c \in OpenEndpoints, id \in FrontendIds, method \in {"read", "write"} :
              /\ Admitted(c, method) /\ <<c, id>> \notin DOMAIN requestKeys
              /\ ForwardRequest(c, id)
         \/ \E key \in DOMAIN requestOwners : ReceiveResponse(key)
         \/ ProviderDisconnects
<1>1. CASE UNCHANGED vars
  BY <1>1 DEF vars, registry, routing, local, KeepsRoutes
<1>2. ASSUME FramesOnly PROVE KeepsRoutes
  BY <1>2, LostFacts DEF FramesOnly, KeepsRoutes, routing, local
<1>3. ASSUME RegisterFrontend PROVE KeepsRoutes
  <2> DEFINE c == nextConnection
             becomesController == FirstFrontendBecomesController /\ controller = None
             record == [role |-> IF becomesController THEN "controller" ELSE "observer",
                        endpoint |-> "open"]
             table == Emplace(frontends, c, record)
  <2>1. PICK lost : frontends' = CloseLost(table, lost)
    BY <1>3 DEF RegisterFrontend
  <2>2. DOMAIN table = DOMAIN frontends \cup {c}
    BY EmplaceFacts
  <2>3. DOMAIN frontends' = DOMAIN table
    BY <2>1 DEF CloseLost
  <2> QED
    BY <1>3, <2>2, <2>3 DEF RegisterFrontend, KeepsRoutes, local
<1>4. ASSUME NEW c, NEW s \in OwnedBy(c), ReceiveServerResponse(c, s) PROVE KeepsRoutes
  BY <1>4, DeliverFrames, LostFacts DEF ReceiveServerResponse, KeepsRoutes, routing, local
<1>5. ASSUME NEW new, SetController(new) PROVE KeepsRoutes
  BY <1>5 DEF SetController, CloseLost, KeepsRoutes, routing, local
<1>6. ASSUME NEW s,
             \/ ReceiveLocalServerRequest(s)
             \/ controller \in DOMAIN frontends /\ ReceiveServerRequest(s)
             \/ ReceiveResolved(s)
             \/ SendServerResponse(s)
      PROVE  KeepsRoutes
  BY <1>6, DeliverFrames, LostFacts
  DEF ReceiveLocalServerRequest, ReceiveServerRequest, ReceiveResolved,
      SendServerResponse, Broadcast, registry, routing, local, KeepsRoutes
<1>7. ASSUME NEW key, ReceiveLocalResponse(key) PROVE KeepsRoutes
  <2>1. DOMAIN frontends' = DOMAIN frontends
    BY <1>7, LostFacts
    DEF ReceiveLocalResponse, CompleteHandshake, BecomeReady
  <2>2. DOMAIN localRequests' \subseteq DOMAIN localRequests
    BY <1>7 DEF ReceiveLocalResponse, Erase, Restrict
  <2> QED
    BY <1>7, <2>1, <2>2 DEF ReceiveLocalResponse, KeepsRoutes, routing
<1>8. ASSUME NEW id, id \notin DOMAIN requestOwners, NEW handler,
             \/ localRequests' = Emplace(localRequests, id, handler)
             \/ UNCHANGED localRequests
      PROVE  DOMAIN localRequests' \cap DOMAIN requestOwners \subseteq DOMAIN localRequests
  BY <1>8 DEF Emplace
<1>9. ASSUME ProviderConnects PROVE KeepsRoutes
  <2>1. DOMAIN frontends' = DOMAIN frontends
    BY <1>9, LostFacts DEF ProviderConnects
  <2>2. PICK n \in nextLocal .. MaxLocalRequests :
          /\ NextLocalNumber(generation + 1, n)
          /\ \/ localRequests' = Emplace(localRequests, LocalId(generation + 1, n),
                                         "initialize")
             \/ UNCHANGED localRequests
    BY <1>9 DEF ProviderConnects
  <2>3. LocalId(generation + 1, n) \notin DOMAIN requestOwners
    BY <2>2 DEF NextLocalNumber, OutstandingIds
  <2> QED
    BY <1>8, <1>9, <2>1, <2>2, <2>3 DEF ProviderConnects, KeepsRoutes, routing
<1>10. ASSUME RequestTyped PROVE KeepsRoutes
  <2>1. PICK n \in nextLocal .. MaxLocalRequests :
          /\ NextLocalNumber(generation, n)
          /\ \/ localRequests' = Emplace(localRequests, LocalId(generation, n), "typed")
             \/ UNCHANGED localRequests
    BY <1>10 DEF RequestTyped
  <2>2. LocalId(generation, n) \notin DOMAIN requestOwners
    BY <2>1 DEF NextLocalNumber, OutstandingIds
  <2> QED
    BY <1>8, <1>10, <2>1, <2>2 DEF RequestTyped, KeepsRoutes, registry, routing
<1>11. ASSUME NEW id, SendRawRequest(id) PROVE KeepsRoutes
  BY <1>8, <1>11 DEF SendRawRequest, OutstandingIds, KeepsRoutes, registry, routing
<1>12. CASE Next
  BY <1>2, <1>3, <1>4, <1>5, <1>6, <1>7, <1>9, <1>10, <1>11, <1>12, NextCases
<1> QED
  BY <1>1, <1>12

(* What the four other steps do to the tables. *)
LEMMA ForwardFacts ==
  ASSUME TypeInv, NEW c \in OpenEndpoints, NEW id \in FrontendIds,
         <<c, id>> \notin DOMAIN requestKeys, ForwardRequest(c, id)
  PROVE  /\ DOMAIN frontends' = DOMAIN frontends /\ c \in DOMAIN frontends
         /\ UNCHANGED <<localRequests, generation>>
         /\ \/ UNCHANGED <<requestOwners, requestKeys, unanswered>>
            \/ \E n \in Nat, key \in DOMAIN requestOwners' :
                 /\ key = RemoteId(c, n)
                 /\ n >= nextRequest /\ nextRequest' = n + 1
                 /\ key \notin OutstandingIds
                 /\ DOMAIN requestOwners' = DOMAIN requestOwners \cup {key}
                 /\ DOMAIN requestKeys' = DOMAIN requestKeys \cup {<<c, id>>}
                 /\ \A k \in DOMAIN requestOwners : requestOwners'[k] = requestOwners[k]
                 /\ \A k \in DOMAIN requestKeys : requestKeys'[k] = requestKeys[k]
                 /\ requestOwners'[key] = [connection |-> c, id |-> id]
                 /\ requestKeys'[<<c, id>>] = key
                 /\ unanswered' = [unanswered EXCEPT ![c][id] = @ + 1]
<1>1. PICK n \in 1 .. MaxRequests :
        LET key == RemoteId(c, n) IN
        /\ NextRequestNumber(c, n)
        /\ nextRequest' = n + 1
        /\ \/ /\ requestOwners' = Emplace(requestOwners, key, [connection |-> c, id |-> id])
              /\ requestKeys' = Emplace(requestKeys, <<c, id>>, key)
              /\ unanswered' = [unanswered EXCEPT ![c][id] = @ + 1]
              /\ UNCHANGED frontends
           \/ /\ Deliver({c})
              /\ UNCHANGED <<requestOwners, requestKeys, unanswered>>
  BY DEF ForwardRequest
<1>2. DOMAIN frontends' = DOMAIN frontends /\ c \in DOMAIN frontends
  BY <1>1, DeliverFrames, LostFacts DEF OpenEndpoints
<1>3. UNCHANGED <<localRequests, generation>>
  BY DEF ForwardRequest, local, session
<1>4. CASE UNCHANGED <<requestOwners, requestKeys, unanswered>>
  BY <1>2, <1>3, <1>4
<1>5. CASE /\ requestOwners' = Emplace(requestOwners, RemoteId(c, n),
                                      [connection |-> c, id |-> id])
           /\ requestKeys' = Emplace(requestKeys, <<c, id>>, RemoteId(c, n))
           /\ unanswered' = [unanswered EXCEPT ![c][id] = @ + 1]
  <2>1. n \in Nat /\ n >= nextRequest /\ RemoteId(c, n) \notin OutstandingIds
    BY <1>1, BridgeAssumption DEF BridgeAssumption, NextRequestNumber
  <2>2. RemoteId(c, n) \notin DOMAIN requestOwners
    BY <2>1 DEF OutstandingIds
  <2>3. /\ DOMAIN requestOwners' = DOMAIN requestOwners \cup {RemoteId(c, n)}
        /\ \A k \in DOMAIN requestOwners : requestOwners'[k] = requestOwners[k]
        /\ requestOwners'[RemoteId(c, n)] = [connection |-> c, id |-> id]
    BY <1>5, <2>2 DEF Emplace
  <2>4. /\ DOMAIN requestKeys' = DOMAIN requestKeys \cup {<<c, id>>}
        /\ \A k \in DOMAIN requestKeys : requestKeys'[k] = requestKeys[k]
        /\ requestKeys'[<<c, id>>] = RemoteId(c, n)
    BY <1>5 DEF Emplace
  <2>5. nextRequest' = n + 1
    BY <1>1
  <2> QED
    BY <1>2, <1>3, <1>5, <2>1, <2>3, <2>4, <2>5
<1> QED
  BY <1>1, <1>4, <1>5

LEMMA EraseRoutes ==
  ASSUME NEW owners, NEW keys,
         requestOwners' = Erase(requestOwners, owners),
         requestKeys' = Erase(requestKeys, keys)
  PROVE  /\ DOMAIN requestOwners' = DOMAIN requestOwners \ owners
         /\ DOMAIN requestKeys' = DOMAIN requestKeys \ keys
         /\ \A k \in DOMAIN requestOwners' : requestOwners'[k] = requestOwners[k]
         /\ \A k \in DOMAIN requestKeys' : requestKeys'[k] = requestKeys[k]
  BY DEF Erase, Restrict

LEMMA UnregisterFacts ==
  ASSUME NEW c \in DOMAIN frontends, UnregisterFrontend(c)
  PROVE  /\ DOMAIN frontends' = DOMAIN frontends \ {c}
         /\ UNCHANGED <<localRequests, nextRequest>>
         /\ unanswered' = Erase(unanswered, {c})
         /\ DOMAIN requestOwners' = DOMAIN requestOwners \
              {k \in DOMAIN requestOwners : requestOwners[k].connection = c}
         /\ DOMAIN requestKeys' = DOMAIN requestKeys \
              {k \in DOMAIN requestKeys : k[1] = c}
         /\ \A k \in DOMAIN requestOwners' : requestOwners'[k] = requestOwners[k]
         /\ \A k \in DOMAIN requestKeys' : requestKeys'[k] = requestKeys[k]
<1>1. PICK lost : frontends' = CloseLost(Erase(frontends, {c}), lost)
  BY DEF UnregisterFrontend
<1>2. DOMAIN frontends' = DOMAIN frontends \ {c}
  BY <1>1 DEF CloseLost, Erase, Restrict
<1> QED
  BY <1>2, EraseRoutes DEF UnregisterFrontend, local

LEMMA ResponseFacts ==
  ASSUME TypeInv, NEW key \in DOMAIN requestOwners, ReceiveResponse(key)
  PROVE  /\ DOMAIN frontends' = DOMAIN frontends
         /\ UNCHANGED <<localRequests, nextRequest>>
         /\ DOMAIN requestOwners' = DOMAIN requestOwners \ {key}
         /\ DOMAIN requestKeys' = DOMAIN requestKeys \
              {<<requestOwners[key].connection, requestOwners[key].id>>}
         /\ \A k \in DOMAIN requestOwners' : requestOwners'[k] = requestOwners[k]
         /\ \A k \in DOMAIN requestKeys' : requestKeys'[k] = requestKeys[k]
<1>1. DOMAIN frontends' = DOMAIN frontends
  BY DeliverFrames, LostFacts DEF ReceiveResponse
<1> QED
  BY <1>1, EraseRoutes DEF ReceiveResponse, local

LEMMA CorrelationStep ==
  TypeInv /\ CorrelationConsistent /\ [Next]_vars => CorrelationConsistent'
<1> SUFFICES ASSUME TypeInv, CorrelationConsistent, [Next]_vars
             PROVE  CorrelationConsistent'
  OBVIOUS
<1>1. /\ \A k \in DOMAIN requestOwners :
           requestOwners[k] \in [connection : Connections, id : FrontendIds]
      /\ \A k \in DOMAIN requestKeys : k = <<k[1], k[2]>> /\ k \in Connections \X FrontendIds
  BY DEF TypeInv, RoutingType, IsTable
<1>2. CASE KeepsRoutes
  BY <1>2 DEF KeepsRoutes, CorrelationConsistent
<1>3. ASSUME NEW c \in DOMAIN frontends, UnregisterFrontend(c)
      PROVE  CorrelationConsistent'
  <2>1. ASSUME NEW k \in DOMAIN requestOwners'
        PROVE  LET owner == requestOwners'[k] IN
               /\ owner.connection \in DOMAIN frontends'
               /\ <<owner.connection, owner.id>> \in DOMAIN requestKeys'
               /\ requestKeys'[<<owner.connection, owner.id>>] = k
               /\ k \notin DOMAIN localRequests'
    <3> DEFINE owner == requestOwners[k]
    <3>1. /\ k \in DOMAIN requestOwners /\ requestOwners'[k] = owner
          /\ owner.connection # c
      BY <1>3, <2>1, UnregisterFacts
    <3>2. /\ owner.connection \in DOMAIN frontends
          /\ <<owner.connection, owner.id>> \in DOMAIN requestKeys
          /\ requestKeys[<<owner.connection, owner.id>>] = k
          /\ k \notin DOMAIN localRequests
      BY <3>1 DEF CorrelationConsistent
    <3>3. <<owner.connection, owner.id>> \in DOMAIN requestKeys'
      BY <1>3, <3>1, <3>2, UnregisterFacts
    <3> QED
      BY <1>3, <3>1, <3>2, <3>3, UnregisterFacts, ZenonT(40)
  <2>2. ASSUME NEW k \in DOMAIN requestKeys'
        PROVE  /\ requestKeys'[k] \in DOMAIN requestOwners'
               /\ requestOwners'[requestKeys'[k]] = [connection |-> k[1], id |-> k[2]]
    <3>1. /\ k \in DOMAIN requestKeys /\ requestKeys'[k] = requestKeys[k]
          /\ k[1] # c
      BY <1>3, <2>2, UnregisterFacts
    <3>2. /\ requestKeys[k] \in DOMAIN requestOwners
          /\ requestOwners[requestKeys[k]] = [connection |-> k[1], id |-> k[2]]
      BY <3>1 DEF CorrelationConsistent
    <3>3. requestOwners[requestKeys[k]].connection # c
      BY <3>1, <3>2
    <3>4. requestKeys[k] \in DOMAIN requestOwners'
      BY <1>3, <3>2, <3>3, UnregisterFacts, ZenonT(40)
    <3> QED
      BY <1>3, <3>1, <3>2, <3>4, UnregisterFacts
  <2> QED
    BY <2>1, <2>2 DEF CorrelationConsistent
<1>4. ASSUME NEW c \in OpenEndpoints, NEW id \in FrontendIds,
             <<c, id>> \notin DOMAIN requestKeys, ForwardRequest(c, id)
      PROVE  CorrelationConsistent'
  <2>1. CASE UNCHANGED <<requestOwners, requestKeys, unanswered>>
    BY <1>4, <2>1, ForwardFacts DEF CorrelationConsistent
  <2>2. CASE ~UNCHANGED <<requestOwners, requestKeys, unanswered>>
    <3>0. PICK n \in Nat, key \in DOMAIN requestOwners' :
                 /\ key = RemoteId(c, n)
                 /\ n >= nextRequest /\ nextRequest' = n + 1
                 /\ key \notin OutstandingIds
                 /\ DOMAIN requestOwners' = DOMAIN requestOwners \cup {key}
                 /\ DOMAIN requestKeys' = DOMAIN requestKeys \cup {<<c, id>>}
                 /\ \A k \in DOMAIN requestOwners : requestOwners'[k] = requestOwners[k]
                 /\ \A k \in DOMAIN requestKeys : requestKeys'[k] = requestKeys[k]
                 /\ requestOwners'[key] = [connection |-> c, id |-> id]
                 /\ requestKeys'[<<c, id>>] = key
                 /\ unanswered' = [unanswered EXCEPT ![c][id] = @ + 1]
      BY <1>4, <2>2, ForwardFacts
    <3>1. DOMAIN frontends' = DOMAIN frontends /\ c \in DOMAIN frontends
          /\ localRequests' = localRequests
      BY <1>4, ForwardFacts
    <3>2. ASSUME NEW k \in DOMAIN requestOwners'
          PROVE  LET owner == requestOwners'[k] IN
                 /\ owner.connection \in DOMAIN frontends'
                 /\ <<owner.connection, owner.id>> \in DOMAIN requestKeys'
                 /\ requestKeys'[<<owner.connection, owner.id>>] = k
                 /\ k \notin DOMAIN localRequests'
      <4>1. CASE k = key
        BY <3>0, <3>1, <4>1 DEF OutstandingIds
      <4>2. CASE k \in DOMAIN requestOwners
        BY <3>0, <3>1, <4>2 DEF CorrelationConsistent
      <4> QED
        BY <3>0, <4>1, <4>2
    <3>3. ASSUME NEW k \in DOMAIN requestKeys'
          PROVE  /\ requestKeys'[k] \in DOMAIN requestOwners'
                 /\ requestOwners'[requestKeys'[k]] = [connection |-> k[1], id |-> k[2]]
      <4>1. CASE k = <<c, id>>
        BY <3>0, <4>1
      <4>2. CASE k \in DOMAIN requestKeys
        BY <3>0, <4>2 DEF CorrelationConsistent, OutstandingIds
      <4> QED
        BY <3>0, <4>1, <4>2
    <3> QED
      BY <3>2, <3>3 DEF CorrelationConsistent
  <2> QED
    BY <2>1, <2>2
<1>5. ASSUME NEW key \in DOMAIN requestOwners, ReceiveResponse(key)
      PROVE  CorrelationConsistent'
  <2>1. /\ DOMAIN frontends' = DOMAIN frontends
        /\ UNCHANGED localRequests
        /\ DOMAIN requestOwners' = DOMAIN requestOwners \ {key}
        /\ DOMAIN requestKeys' = DOMAIN requestKeys \
             {<<requestOwners[key].connection, requestOwners[key].id>>}
        /\ \A k \in DOMAIN requestOwners' : requestOwners'[k] = requestOwners[k]
        /\ \A k \in DOMAIN requestKeys' : requestKeys'[k] = requestKeys[k]
    BY <1>5, ResponseFacts
  <2>2. ASSUME NEW k \in DOMAIN requestOwners'
        PROVE  LET owner == requestOwners'[k] IN
               /\ owner.connection \in DOMAIN frontends'
               /\ <<owner.connection, owner.id>> \in DOMAIN requestKeys'
               /\ requestKeys'[<<owner.connection, owner.id>>] = k
               /\ k \notin DOMAIN localRequests'
    BY <2>1 DEF CorrelationConsistent
  <2>3. ASSUME NEW k \in DOMAIN requestKeys'
        PROVE  /\ requestKeys'[k] \in DOMAIN requestOwners'
               /\ requestOwners'[requestKeys'[k]] = [connection |-> k[1], id |-> k[2]]
    <3>1. /\ requestKeys[k] \in DOMAIN requestOwners
          /\ requestOwners[requestKeys[k]] = [connection |-> k[1], id |-> k[2]]
      BY <2>1 DEF CorrelationConsistent
    <3>2. requestKeys[k] # key
      BY <1>1, <2>1, <3>1
    <3> QED
      BY <2>1, <3>1, <3>2
  <2> QED
    BY <2>2, <2>3 DEF CorrelationConsistent
<1>6. CASE ProviderDisconnects
  <2>1. DOMAIN requestOwners' = {} /\ DOMAIN requestKeys' = {}
    BY <1>6 DEF ProviderDisconnects
  <2>2. (\A k \in DOMAIN requestOwners' : FALSE) /\ (\A k \in DOMAIN requestKeys' : FALSE)
    BY <2>1
  <2> QED
    BY <2>2, Zenon DEF CorrelationConsistent
<1> QED
  BY <1>2, <1>3, <1>4, <1>5, <1>6, RoutingCases

(* The two correlation tables are inverses of one another in every state,  *)
(* so each response finds the connection and the id it belongs to.         *)
THEOREM CorrelationCorrect == Spec => []CorrelationConsistent
<1>1. Init => CorrelationConsistent
  <2> SUFFICES ASSUME Init PROVE CorrelationConsistent
    OBVIOUS
  <2>1. (\A k \in DOMAIN requestOwners : FALSE) /\ (\A k \in DOMAIN requestKeys : FALSE)
    BY DEF Init
  <2> QED
    BY <2>1, Zenon DEF CorrelationConsistent
<1> QED
  BY <1>1, CorrelationStep, TypeInvariant, PTL DEF Spec

(* The balance of every registered frontend, open or not. *)
Balanced ==
  \A c \in DOMAIN frontends, id \in FrontendIds :
    unanswered[c][id] = IF <<c, id>> \in DOMAIN requestKeys THEN 1 ELSE 0

LEMMA OutstandingOnce ==
  ASSUME TypeInv, CorrelationConsistent, NEW c, NEW id
  PROVE  Cardinality({k \in DOMAIN requestOwners :
                        requestOwners[k] = [connection |-> c, id |-> id]})
           = IF <<c, id>> \in DOMAIN requestKeys THEN 1 ELSE 0
<1> DEFINE S == {k \in DOMAIN requestOwners :
                   requestOwners[k] = [connection |-> c, id |-> id]}
<1>1. ASSUME NEW k \in S PROVE <<c, id>> \in DOMAIN requestKeys /\ requestKeys[<<c, id>>] = k
  BY DEF CorrelationConsistent
<1>2. CASE <<c, id>> \in DOMAIN requestKeys
  <2>1. /\ requestKeys[<<c, id>>] \in DOMAIN requestOwners
        /\ requestOwners[requestKeys[<<c, id>>]] = [connection |-> c, id |-> id]
    BY <1>2 DEF CorrelationConsistent
  <2>2. S = {requestKeys[<<c, id>>]}
    BY <1>1, <2>1
  <2>3. Cardinality(S) = 1
    BY <2>2, FS_Singleton
  <2> QED
    BY <1>2, <2>3
<1>3. CASE <<c, id>> \notin DOMAIN requestKeys
  <2>1. S = {}
    BY <1>1, <1>3
  <2>2. Cardinality(S) = 0
    BY <2>1, FS_EmptySet
  <2> QED
    BY <1>3, <2>2
<1> QED
  BY <1>2, <1>3

LEMMA BalanceStep ==
  TypeInv /\ CorrelationConsistent /\ Balanced /\ [Next]_vars => Balanced'
<1> SUFFICES ASSUME TypeInv, CorrelationConsistent, Balanced, [Next]_vars
             PROVE  Balanced'
  OBVIOUS
<1>1. /\ unanswered \in [DOMAIN frontends -> [FrontendIds -> Int]]
      /\ nextConnection \notin DOMAIN frontends
      /\ \A id : <<nextConnection, id>> \notin DOMAIN requestKeys
  BY DEF TypeInv, RegistryType, RoutingType, IsTable, Connections
<1>2. CASE KeepsRoutes
  <2>1. CASE UNCHANGED unanswered /\ DOMAIN frontends' = DOMAIN frontends
    BY <1>2, <2>1 DEF KeepsRoutes, Balanced
  <2>2. CASE /\ DOMAIN frontends' = DOMAIN frontends \cup {nextConnection}
             /\ unanswered' = Emplace(unanswered, nextConnection,
                                      [i \in FrontendIds |-> 0])
    BY <1>1, <1>2, <2>2 DEF KeepsRoutes, Balanced, Emplace
  <2> QED
    BY <1>2, <2>1, <2>2 DEF KeepsRoutes
<1>3. ASSUME NEW c \in DOMAIN frontends, UnregisterFrontend(c) PROVE Balanced'
  <2>1. /\ DOMAIN frontends' = DOMAIN frontends \ {c}
        /\ unanswered' = Erase(unanswered, {c})
        /\ \A d, id : d # c => (<<d, id>> \in DOMAIN requestKeys'
                                  <=> <<d, id>> \in DOMAIN requestKeys)
    BY <1>3, UnregisterFacts
  <2>2. \A d \in DOMAIN frontends \ {c} : unanswered'[d] = unanswered[d]
    BY <1>1, <2>1 DEF Erase, Restrict
  <2> QED
    BY <2>1, <2>2, ZenonT(40) DEF Balanced
<1>4. ASSUME NEW c \in OpenEndpoints, NEW id \in FrontendIds,
             <<c, id>> \notin DOMAIN requestKeys, ForwardRequest(c, id)
      PROVE  Balanced'
  <2>1. DOMAIN frontends' = DOMAIN frontends /\ c \in DOMAIN frontends
    BY <1>4, ForwardFacts
  <2>2. \/ UNCHANGED <<requestKeys, unanswered>>
        \/ /\ DOMAIN requestKeys' = DOMAIN requestKeys \cup {<<c, id>>}
           /\ unanswered' = [unanswered EXCEPT ![c][id] = @ + 1]
    BY <1>4, ForwardFacts
  <2>3. ASSUME NEW d \in DOMAIN frontends, NEW i \in FrontendIds
        PROVE  unanswered'[d][i] = IF <<d, i>> \in DOMAIN requestKeys' THEN 1 ELSE 0
    <3>1. CASE UNCHANGED <<requestKeys, unanswered>>
      BY <3>1 DEF Balanced
    <3>2. CASE /\ DOMAIN requestKeys' = DOMAIN requestKeys \cup {<<c, id>>}
               /\ unanswered' = [unanswered EXCEPT ![c][id] = @ + 1]
      <4>1. CASE d = c /\ i = id
        BY <1>1, <1>4, <2>1, <3>2, <4>1 DEF Balanced
      <4>2. CASE ~(d = c /\ i = id)
        BY <1>1, <2>1, <3>2, <4>2 DEF Balanced
      <4> QED
        BY <4>1, <4>2
    <3> QED
      BY <2>2, <3>1, <3>2
  <2> QED
    BY <2>1, <2>3 DEF Balanced
<1>5. ASSUME NEW key \in DOMAIN requestOwners, ReceiveResponse(key) PROVE Balanced'
  <2> DEFINE c == requestOwners[key].connection
             id == requestOwners[key].id
  <2>1. /\ c \in DOMAIN frontends /\ id \in FrontendIds
        /\ <<c, id>> \in DOMAIN requestKeys
    BY DEF CorrelationConsistent, TypeInv, RoutingType, IsTable
  <2>2. /\ DOMAIN frontends' = DOMAIN frontends
        /\ DOMAIN requestKeys' = DOMAIN requestKeys \ {<<c, id>>}
    BY <1>5, ResponseFacts
  <2>3. unanswered' = [unanswered EXCEPT ![c][id] = @ - 1]
    BY <1>5 DEF ReceiveResponse
  <2> HIDE DEF c, id
  <2>4. ASSUME NEW d \in DOMAIN frontends, NEW i \in FrontendIds
        PROVE  unanswered'[d][i] = IF <<d, i>> \in DOMAIN requestKeys' THEN 1 ELSE 0
    <3>1. CASE d = c /\ i = id
      BY <1>1, <2>1, <2>2, <2>3, <3>1 DEF Balanced
    <3>2. CASE ~(d = c /\ i = id)
      BY <1>1, <2>1, <2>2, <2>3, <3>2 DEF Balanced
    <3> QED
      BY <3>1, <3>2
  <2> QED
    BY <2>2, <2>4 DEF Balanced
<1>6. CASE ProviderDisconnects
  <2> DEFINE count(c, i) == Cardinality({k \in DOMAIN requestOwners :
                              requestOwners[k] = [connection |-> c, id |-> i]})
  <2>1. unanswered' = [c \in DOMAIN frontends |-> [i \in FrontendIds |->
                         unanswered[c][i] - count(c, i)]]
    BY <1>6 DEF ProviderDisconnects
  <2>2. \A c, i : count(c, i) = IF <<c, i>> \in DOMAIN requestKeys THEN 1 ELSE 0
    BY OutstandingOnce
  <2>3. DOMAIN requestKeys' = {} /\ DOMAIN frontends' = DOMAIN frontends
    BY <1>6, LostFacts DEF ProviderDisconnects
  <2> HIDE DEF count
  <2>4. ASSUME NEW c \in DOMAIN frontends, NEW i \in FrontendIds
        PROVE  unanswered'[c][i] = 0
    <3>1. unanswered'[c][i] = unanswered[c][i] - count(c, i)
      BY <2>1
    <3>2. unanswered[c][i] = IF <<c, i>> \in DOMAIN requestKeys THEN 1 ELSE 0
      BY DEF Balanced
    <3>3. count(c, i) = IF <<c, i>> \in DOMAIN requestKeys THEN 1 ELSE 0
      BY <2>2
    <3> QED
      BY <3>1, <3>2, <3>3
  <2> QED
    BY <2>3, <2>4 DEF Balanced
<1> QED
  BY <1>2, <1>3, <1>4, <1>5, <1>6, RoutingCases

(* Whatever else happens, a request a frontend has sent is answered exactly*)
(* once, to that frontend and under its id, or is still outstanding.       *)
THEOREM RequestsAnsweredOnce == Spec => []EveryRequestAnsweredOnce
<1>1. Init => Balanced
  BY DEF Init, Balanced
<1>2. Balanced => EveryRequestAnsweredOnce
  BY DEF Balanced, EveryRequestAnsweredOnce, OpenEndpoints
<1> QED
  BY <1>1, <1>2, BalanceStep, TypeInvariant, CorrelationCorrect, PTL DEF Spec

(* The counter of upstream ids never hands out an id twice, not even after *)
(* a reconnection of the provider or of the frontend.                      *)
THEOREM FreshUpstreamIds == Spec => UpstreamIdsAreFresh
<1> DEFINE Fresh == \A key \in DOMAIN requestOwners' \ DOMAIN requestOwners :
                      nextRequest <= key.number /\ key.number < nextRequest'
<1>1. ASSUME TypeInv, [Next]_vars PROVE Fresh
  <2>1. CASE KeepsRoutes
    BY <2>1 DEF KeepsRoutes
  <2>2. ASSUME NEW c \in DOMAIN frontends, UnregisterFrontend(c) PROVE Fresh
    BY <2>2, UnregisterFacts
  <2>3. ASSUME NEW c \in OpenEndpoints, NEW id \in FrontendIds,
               <<c, id>> \notin DOMAIN requestKeys, ForwardRequest(c, id)
        PROVE  Fresh
    <3>1. CASE UNCHANGED requestOwners
      BY <3>1
    <3>2. CASE ~UNCHANGED requestOwners
      <4>1. PICK n \in Nat, key \in DOMAIN requestOwners' :
                 /\ key = RemoteId(c, n)
                 /\ n >= nextRequest /\ nextRequest' = n + 1
                 /\ key \notin OutstandingIds
                 /\ DOMAIN requestOwners' = DOMAIN requestOwners \cup {key}
                 /\ DOMAIN requestKeys' = DOMAIN requestKeys \cup {<<c, id>>}
                 /\ \A k \in DOMAIN requestOwners : requestOwners'[k] = requestOwners[k]
                 /\ \A k \in DOMAIN requestKeys : requestKeys'[k] = requestKeys[k]
                 /\ requestOwners'[key] = [connection |-> c, id |-> id]
                 /\ requestKeys'[<<c, id>>] = key
                 /\ unanswered' = [unanswered EXCEPT ![c][id] = @ + 1]
        BY <1>1, <2>3, <3>2, ForwardFacts
      <4> QED
        BY <1>1, <4>1 DEF RemoteId, TypeInv, RoutingType
    <3> QED
      BY <3>1, <3>2
  <2>4. ASSUME NEW key \in DOMAIN requestOwners, ReceiveResponse(key) PROVE Fresh
    BY <1>1, <2>4, ResponseFacts
  <2>5. CASE ProviderDisconnects
    <3>1. DOMAIN requestOwners' = {}
      BY <2>5 DEF ProviderDisconnects
    <3> QED
      BY <3>1
  <2> QED
    BY <1>1, <2>1, <2>2, <2>3, <2>4, <2>5, RoutingCases
<1> QED
  BY <1>1, TypeInvariant, PTL DEF Spec, UpstreamIdsAreFresh

-----------------------------------------------------------------------------
(* The requests of the app-server *)

LEMMA ServerCases ==
  ASSUME TypeInv, [Next]_vars
  PROVE  \/ UNCHANGED serverRequests /\ DOMAIN frontends \subseteq DOMAIN frontends'
         \/ \E c \in DOMAIN frontends : UnregisterFrontend(c)
         \/ ProviderDisconnects
         \/ /\ DOMAIN frontends' = DOMAIN frontends
            /\ \E s \in ServerIds :
                 \/ \E c \in OpenEndpoints : s \in OwnedBy(c) /\ ReceiveServerResponse(c, s)
                 \/ ReceiveLocalServerRequest(s)
                 \/ controller \in DOMAIN frontends /\ ReceiveServerRequest(s)
                 \/ ReceiveResolved(s)
                 \/ SendServerResponse(s)
<1>1. CASE UNCHANGED vars
  BY <1>1 DEF vars, registry
<1>2. ASSUME FramesOnly PROVE UNCHANGED serverRequests /\ DOMAIN frontends' = DOMAIN frontends
  BY <1>2, LostFacts DEF FramesOnly
<1>3. ASSUME RegisterFrontend
      PROVE  UNCHANGED serverRequests /\ DOMAIN frontends \subseteq DOMAIN frontends'
  BY <1>3 DEF RegisterFrontend, CloseLost, Emplace
<1>4. ASSUME NEW c, NEW id, ForwardRequest(c, id)
      PROVE  UNCHANGED serverRequests /\ DOMAIN frontends' = DOMAIN frontends
  BY <1>4, DeliverFrames, LostFacts DEF ForwardRequest
<1>5. ASSUME NEW new, SetController(new)
      PROVE  UNCHANGED serverRequests /\ DOMAIN frontends' = DOMAIN frontends
  BY <1>5 DEF SetController, CloseLost
<1>6. ASSUME ProviderConnects
      PROVE  UNCHANGED serverRequests /\ DOMAIN frontends' = DOMAIN frontends
  BY <1>6, LostFacts DEF ProviderConnects
<1>7. ASSUME NEW key, ReceiveLocalResponse(key)
      PROVE  UNCHANGED serverRequests /\ DOMAIN frontends' = DOMAIN frontends
  BY <1>7, LostFacts DEF ReceiveLocalResponse, CompleteHandshake, BecomeReady
<1>8. ASSUME NEW key, ReceiveResponse(key)
      PROVE  UNCHANGED serverRequests /\ DOMAIN frontends' = DOMAIN frontends
  BY <1>8, DeliverFrames, LostFacts DEF ReceiveResponse
<1>9. ASSUME RequestTyped \/ \E id \in RawIds : SendRawRequest(id)
      PROVE  UNCHANGED serverRequests /\ DOMAIN frontends' = DOMAIN frontends
  BY <1>9 DEF RequestTyped, SendRawRequest, registry
<1>10. ASSUME NEW s \in ServerIds,
              \/ \E c \in OpenEndpoints : s \in OwnedBy(c) /\ ReceiveServerResponse(c, s)
              \/ ReceiveLocalServerRequest(s)
              \/ controller \in DOMAIN frontends /\ ReceiveServerRequest(s)
              \/ ReceiveResolved(s)
              \/ SendServerResponse(s)
       PROVE  DOMAIN frontends' = DOMAIN frontends
  BY <1>10, DeliverFrames, LostFacts
  DEF ReceiveServerResponse, ReceiveLocalServerRequest, ReceiveServerRequest,
      ReceiveResolved, SendServerResponse, Broadcast, registry
<1>11. CASE Next
  BY <1>2, <1>3, <1>4, <1>5, <1>6, <1>7, <1>8, <1>9, <1>10, <1>11, NextCases
<1> QED
  BY <1>1, <1>11

LEMMA OwnersStep ==
  TypeInv /\ ServerRequestOwnersRegistered /\ [Next]_vars => ServerRequestOwnersRegistered'
<1> SUFFICES ASSUME TypeInv, ServerRequestOwnersRegistered, [Next]_vars
             PROVE  ServerRequestOwnersRegistered'
  OBVIOUS
<1>1. CASE UNCHANGED serverRequests /\ DOMAIN frontends \subseteq DOMAIN frontends'
  BY <1>1 DEF serverRequests, ServerRequestOwnersRegistered
<1>2. ASSUME NEW c \in DOMAIN frontends, UnregisterFrontend(c)
      PROVE  ServerRequestOwnersRegistered'
  <2>1. DOMAIN frontends' = DOMAIN frontends \ {c}
    BY <1>2, UnregisterFacts
  <2>2. ASSUME NEW s \in DOMAIN serverRequestOwners', serverRequestOwners'[s].kind = "frontend"
        PROVE  serverRequestOwners'[s].connection \in DOMAIN frontends \ {c}
    <3>1. /\ s \in DOMAIN serverRequestOwners \ OwnedBy(c)
          /\ serverRequestOwners'[s] = serverRequestOwners[s]
      BY <1>2 DEF UnregisterFrontend, Erase, Restrict
    <3>2. serverRequestOwners[s].connection \in DOMAIN frontends
      BY <2>2, <3>1 DEF ServerRequestOwnersRegistered
    <3>3. serverRequestOwners[s] \in [kind : {"local", "frontend"},
                                      connection : Connections \cup {None}]
      BY <3>1 DEF TypeInv, ServerType, IsTable
    <3>4. serverRequestOwners[s].connection # c
      BY <2>2, <3>1, <3>3 DEF OwnedBy
    <3> QED
      BY <3>1, <3>2, <3>4
  <2> QED
    BY <2>1, <2>2 DEF ServerRequestOwnersRegistered
<1>3. CASE ProviderDisconnects
  <2>1. DOMAIN serverRequestOwners' = {}
    BY <1>3 DEF ProviderDisconnects
  <2> QED
    BY <2>1 DEF ServerRequestOwnersRegistered
<1>4. ASSUME DOMAIN frontends' = DOMAIN frontends,
             \A s \in DOMAIN serverRequestOwners' :
               \/ /\ s \in DOMAIN serverRequestOwners
                  /\ serverRequestOwners'[s] = serverRequestOwners[s]
               \/ serverRequestOwners'[s].kind = "local"
               \/ serverRequestOwners'[s].connection \in DOMAIN frontends
      PROVE  ServerRequestOwnersRegistered'
  BY <1>4 DEF ServerRequestOwnersRegistered
<1>5. ASSUME NEW s \in ServerIds,
             \/ \E c \in OpenEndpoints : s \in OwnedBy(c) /\ ReceiveServerResponse(c, s)
             \/ ReceiveLocalServerRequest(s)
             \/ controller \in DOMAIN frontends /\ ReceiveServerRequest(s)
             \/ ReceiveResolved(s)
             \/ SendServerResponse(s)
      PROVE  \A t \in DOMAIN serverRequestOwners' :
               \/ /\ t \in DOMAIN serverRequestOwners
                  /\ serverRequestOwners'[t] = serverRequestOwners[t]
               \/ serverRequestOwners'[t].kind = "local"
               \/ serverRequestOwners'[t].connection \in DOMAIN frontends
  <2>1. CASE ReceiveLocalServerRequest(s)
    BY <2>1 DEF ReceiveLocalServerRequest, serverRequests, Emplace
  <2>2. CASE controller \in DOMAIN frontends /\ ReceiveServerRequest(s)
    BY <2>2 DEF ReceiveServerRequest, Emplace
  <2>3. CASE \/ \E c \in OpenEndpoints : s \in OwnedBy(c) /\ ReceiveServerResponse(c, s)
             \/ ReceiveResolved(s)
             \/ SendServerResponse(s)
    BY <2>3 DEF ReceiveServerResponse, ReceiveResolved, SendServerResponse, Erase, Restrict
  <2> QED
    BY <1>5, <2>1, <2>2, <2>3
<1> QED
  BY <1>1, <1>2, <1>3, <1>4, <1>5, ServerCases

(* A request of the app-server is never left with a frontend that is gone, *)
(* because the connection that disconnects takes its ownerships with it.   *)
THEOREM OwnersRegistered == Spec => []ServerRequestOwnersRegistered
<1>1. Init => ServerRequestOwnersRegistered
  BY DEF Init, ServerRequestOwnersRegistered
<1> QED
  BY <1>1, OwnersStep, TypeInvariant, PTL DEF Spec

LEMMA AnswersStep ==
  ASSUME "answerThenThrow" \notin HandlerOutcomes,
         TypeInv, EveryServerRequestAnsweredOnce, [Next]_vars
  PROVE  EveryServerRequestAnsweredOnce'
<1>1. pending \in [ServerIds -> Int]
  BY DEF TypeInv, ServerType
<1>2. CASE UNCHANGED serverRequests
  BY <1>2 DEF serverRequests, EveryServerRequestAnsweredOnce
<1>3. ASSUME NEW owned, owned \subseteq DOMAIN serverRequestOwners,
             serverRequestOwners' = Erase(serverRequestOwners, owned),
             pending' = [s \in ServerIds |->
                           IF s \in owned THEN pending[s] - 1 ELSE pending[s]]
      PROVE  EveryServerRequestAnsweredOnce'
  BY <1>1, <1>3 DEF EveryServerRequestAnsweredOnce, Erase, Restrict
<1>4. ASSUME NEW s \in ServerIds, NEW owner, s \notin DOMAIN serverRequestOwners,
             serverRequestOwners' = Emplace(serverRequestOwners, s, owner),
             pending' = [pending EXCEPT ![s] = @ + 1]
      PROVE  EveryServerRequestAnsweredOnce'
  BY <1>1, <1>4 DEF EveryServerRequestAnsweredOnce, Emplace
<1>5. ASSUME NEW c \in DOMAIN frontends, UnregisterFrontend(c)
      PROVE  EveryServerRequestAnsweredOnce'
  BY <1>3, <1>5 DEF UnregisterFrontend, OwnedBy
<1>6. CASE ProviderDisconnects
  <2>1. DOMAIN serverRequestOwners' = {} /\ pending' = [s \in ServerIds |-> 0]
    BY <1>6 DEF ProviderDisconnects
  <2> QED
    BY <2>1 DEF EveryServerRequestAnsweredOnce
<1>7. ASSUME NEW s \in ServerIds, s \in DOMAIN serverRequestOwners,
             serverRequestOwners' = Erase(serverRequestOwners, {s}),
             pending' = [pending EXCEPT ![s] = @ - 1]
      PROVE  EveryServerRequestAnsweredOnce'
  BY <1>1, <1>7 DEF EveryServerRequestAnsweredOnce, Erase, Restrict
<1>8. ASSUME NEW c \in OpenEndpoints, NEW s \in OwnedBy(c), s \in ServerIds,
             ReceiveServerResponse(c, s)
      PROVE  EveryServerRequestAnsweredOnce'
  BY <1>7, <1>8 DEF ReceiveServerResponse, OwnedBy
<1>9. ASSUME NEW s \in ServerIds, SendServerResponse(s)
      PROVE  EveryServerRequestAnsweredOnce'
  BY <1>7, <1>9 DEF SendServerResponse
<1>10. ASSUME NEW s \in ServerIds, ReceiveLocalServerRequest(s)
       PROVE  EveryServerRequestAnsweredOnce'
  <2> DEFINE owner == [kind |-> "local", connection |-> None]
  <2>1. \/ /\ serverRequestOwners' = Emplace(serverRequestOwners, s, owner)
           /\ pending' = [pending EXCEPT ![s] = @ + 1]
        \/ UNCHANGED serverRequests
    BY <1>10 DEF ReceiveLocalServerRequest
  <2>2. s \notin DOMAIN serverRequestOwners
    BY <1>10 DEF ReceiveLocalServerRequest
  <2> HIDE DEF owner
  <2> QED
    BY <1>2, <1>4, <2>1, <2>2
<1>11. ASSUME NEW s \in ServerIds, controller \in DOMAIN frontends, ReceiveServerRequest(s)
       PROVE  EveryServerRequestAnsweredOnce'
  <2> DEFINE owner == [kind |-> "frontend", connection |-> controller]
  <2>1. /\ serverRequestOwners' = Emplace(serverRequestOwners, s, owner)
        /\ pending' = [pending EXCEPT ![s] = @ + 1]
        /\ s \notin DOMAIN serverRequestOwners
    BY <1>11 DEF ReceiveServerRequest
  <2> HIDE DEF owner
  <2> QED
    BY <1>4, <2>1
<1>12. ASSUME NEW s \in ServerIds, ReceiveResolved(s)
       PROVE  EveryServerRequestAnsweredOnce'
  BY <1>1, <1>12 DEF ReceiveResolved, EveryServerRequestAnsweredOnce, Erase, Restrict
<1> QED
  BY <1>2, <1>5, <1>6, <1>8, <1>9, <1>10, <1>11, <1>12, ServerCases

(* As long as no local handler answers and then throws, every request of   *)
(* the app-server is answered exactly once or is owned by exactly one      *)
(* party that still has to answer it.                                      *)
THEOREM ServerRequestsAnsweredOnce ==
  ASSUME "answerThenThrow" \notin HandlerOutcomes
  PROVE  Spec => []EveryServerRequestAnsweredOnce
<1>1. Init => EveryServerRequestAnsweredOnce
  BY DEF Init, EveryServerRequestAnsweredOnce
<1>2. TypeInv /\ EveryServerRequestAnsweredOnce /\ [Next]_vars
        => EveryServerRequestAnsweredOnce'
  BY AnswersStep
<1> QED
  BY <1>1, <1>2, TypeInvariant, PTL DEF Spec

-----------------------------------------------------------------------------
(* Most steps leave the session alone, and record an owner only inside it. *)
KeepsSession ==
  /\ UNCHANGED <<connected, ready, generation, stopRequested, localRequests>>
  /\ \/ DOMAIN requestOwners' \subseteq DOMAIN requestOwners
     \/ ready /\ \A key \in DOMAIN requestOwners' :
                   key \in DOMAIN requestOwners \/ key.generation = generation
  /\ DOMAIN serverRequestOwners' \subseteq DOMAIN serverRequestOwners \/ connected

LEMMA SessionCases ==
  ASSUME TypeInv, [Next]_vars
  PROVE  \/ KeepsSession
         \/ ProviderConnects
         \/ ProviderDisconnects
         \/ \E key \in DOMAIN localRequests : ReceiveLocalResponse(key)
         \/ RequestTyped
         \/ \E id \in RawIds : SendRawRequest(id)
<1>1. CASE UNCHANGED vars
  BY <1>1 DEF vars, routing, local, serverRequests, session, KeepsSession
<1>2. ASSUME FramesOnly PROVE KeepsSession
  BY <1>2 DEF FramesOnly, routing, local, serverRequests, session, KeepsSession
<1>3. ASSUME RegisterFrontend PROVE KeepsSession
  BY <1>3 DEF RegisterFrontend, local, serverRequests, session, KeepsSession
<1>4. ASSUME NEW c \in DOMAIN frontends, UnregisterFrontend(c) PROVE KeepsSession
  <2>1. DOMAIN requestOwners' \subseteq DOMAIN requestOwners
    BY <1>4, UnregisterFacts
  <2>2. DOMAIN serverRequestOwners' \subseteq DOMAIN serverRequestOwners
    BY <1>4 DEF UnregisterFrontend, Erase, Restrict
  <2> QED
    BY <1>4, <2>1, <2>2 DEF UnregisterFrontend, local, session, KeepsSession
<1>5. ASSUME NEW c \in OpenEndpoints, NEW id \in FrontendIds, NEW method,
             Admitted(c, method), <<c, id>> \notin DOMAIN requestKeys, ForwardRequest(c, id)
      PROVE  KeepsSession
  <2>1. /\ UNCHANGED <<connected, ready, generation, stopRequested, localRequests>>
        /\ UNCHANGED serverRequestOwners
        /\ ready
    BY <1>5 DEF ForwardRequest, Admitted, local, serverRequests, session
  <2>2. CASE UNCHANGED requestOwners
    BY <2>1, <2>2 DEF KeepsSession
  <2>3. CASE ~UNCHANGED requestOwners
    <3>1. PICK n \in Nat, key \in DOMAIN requestOwners' :
                 /\ key = RemoteId(c, n)
                 /\ n >= nextRequest /\ nextRequest' = n + 1
                 /\ key \notin OutstandingIds
                 /\ DOMAIN requestOwners' = DOMAIN requestOwners \cup {key}
                 /\ DOMAIN requestKeys' = DOMAIN requestKeys \cup {<<c, id>>}
                 /\ \A k \in DOMAIN requestOwners : requestOwners'[k] = requestOwners[k]
                 /\ \A k \in DOMAIN requestKeys : requestKeys'[k] = requestKeys[k]
                 /\ requestOwners'[key] = [connection |-> c, id |-> id]
                 /\ requestKeys'[<<c, id>>] = key
                 /\ unanswered' = [unanswered EXCEPT ![c][id] = @ + 1]
      BY <1>5, <2>3, ForwardFacts
    <3>2. key.generation = generation
      BY <3>1 DEF RemoteId
    <3> QED
      BY <2>1, <3>1, <3>2 DEF KeepsSession
  <2> QED
    BY <2>2, <2>3
<1>6. ASSUME NEW c, NEW s \in OwnedBy(c), ReceiveServerResponse(c, s) PROVE KeepsSession
  <2>1. serverRequestOwners' = Erase(serverRequestOwners, {s})
    BY <1>6 DEF ReceiveServerResponse
  <2>2. DOMAIN serverRequestOwners' \subseteq DOMAIN serverRequestOwners
    BY <2>1 DEF Erase, Restrict
  <2> QED
    BY <1>6, <2>2 DEF ReceiveServerResponse, routing, local, session, KeepsSession
<1>7. ASSUME NEW new, SetController(new) PROVE KeepsSession
  BY <1>7 DEF SetController, routing, local, serverRequests, session, KeepsSession
<1>8. ASSUME NEW key \in DOMAIN requestOwners, ReceiveResponse(key) PROVE KeepsSession
  <2>1. DOMAIN requestOwners' \subseteq DOMAIN requestOwners
    BY <1>8, ResponseFacts
  <2> QED
    BY <1>8, <2>1 DEF ReceiveResponse, local, serverRequests, session, KeepsSession
<1>9. ASSUME NEW s, \/ ReceiveLocalServerRequest(s)
                    \/ controller \in DOMAIN frontends /\ ReceiveServerRequest(s)
                    \/ ReceiveResolved(s)
                    \/ SendServerResponse(s)
      PROVE  KeepsSession
  BY <1>9 DEF ReceiveLocalServerRequest, ReceiveServerRequest, ReceiveResolved,
              SendServerResponse, routing, local, session, KeepsSession
<1>10. CASE Next
  BY <1>10, <1>2, <1>3, <1>4, <1>5, <1>6, <1>7, <1>8, <1>9, NextCases
<1> QED
  BY <1>1, <1>10

-----------------------------------------------------------------------------
(* Ownership and the handshake.  The run's OneHandshakePerGeneration needs *)
(* that there is never more than one "initialize", also after a stop.      *)
Handshakes == {key \in DOMAIN localRequests : localRequests[key] = "initialize"}
HandshakeInv ==
  /\ OneHandshakePerGeneration
  /\ \A j, k \in Handshakes : j = k
SessionInv == NoOwnershipOutsideSession /\ HandshakeInv

LEMMA SessionStep == TypeInv /\ SessionInv /\ [Next]_vars => SessionInv'
<1> SUFFICES ASSUME TypeInv, SessionInv, [Next]_vars PROVE SessionInv'
  OBVIOUS
<1> USE DEF SessionInv
<1>0. /\ IsTable(localRequests, UpstreamIds, {"initialize", "typed", "raw"})
      /\ ready \in BOOLEAN /\ connected \in BOOLEAN
  BY DEF TypeInv, LocalType, SessionType
<1>1. CASE KeepsSession
  <2>1. NoOwnershipOutsideSession'
    BY <1>1 DEF KeepsSession, NoOwnershipOutsideSession
  <2>2. HandshakeInv'
    BY <1>1 DEF KeepsSession, HandshakeInv, OneHandshakePerGeneration, Handshakes
  <2> QED
    BY <2>1, <2>2
<1>2. CASE ProviderConnects
  <2>1. /\ DOMAIN localRequests = {} /\ DOMAIN requestOwners = {}
        /\ DOMAIN serverRequestOwners = {} /\ ~connected
        /\ UNCHANGED <<requestOwners, serverRequestOwners>> /\ connected' /\ ~ready'
    BY <1>2 DEF ProviderConnects, NoOwnershipOutsideSession, routing, serverRequests
  <2>2. NoOwnershipOutsideSession'
    BY <2>1 DEF NoOwnershipOutsideSession
  <2>3. \/ stopRequested' /\ UNCHANGED localRequests
        \/ \E key : localRequests' = Emplace(localRequests, key, "initialize")
    BY <1>2 DEF ProviderConnects
  <2>4. ASSUME stopRequested', UNCHANGED localRequests PROVE HandshakeInv'
    BY <2>1, <2>4 DEF HandshakeInv, OneHandshakePerGeneration, Handshakes
  <2>5. ASSUME NEW key, localRequests' = Emplace(localRequests, key, "initialize")
        PROVE  HandshakeInv'
    <3>1. DOMAIN localRequests' = {key} /\ localRequests'[key] = "initialize"
      BY <2>1, <2>5 DEF Emplace
    <3> QED
      BY <2>1, <3>1 DEF HandshakeInv, OneHandshakePerGeneration, Handshakes
  <2> QED
    BY <2>2, <2>3, <2>4, <2>5
<1>3. CASE ProviderDisconnects
  <2>1. /\ DOMAIN localRequests' = {} /\ DOMAIN requestOwners' = {}
        /\ DOMAIN serverRequestOwners' = {} /\ ~connected' /\ ~ready'
    BY <1>3 DEF ProviderDisconnects
  <2>2. NoOwnershipOutsideSession'
    BY <2>1 DEF NoOwnershipOutsideSession
  <2>3. Handshakes' = {}
    BY <2>1 DEF Handshakes
  <2>4. HandshakeInv'
    BY <2>1, <2>3 DEF HandshakeInv, OneHandshakePerGeneration, Handshakes
  <2> QED
    BY <2>2, <2>4
<1>4. ASSUME NEW key \in DOMAIN localRequests, ReceiveLocalResponse(key) PROVE SessionInv'
  <2>1. /\ DOMAIN localRequests' = DOMAIN localRequests \ {key}
        /\ \A k \in DOMAIN localRequests' : localRequests'[k] = localRequests[k]
        /\ connected /\ UNCHANGED <<requestOwners, serverRequestOwners>>
    BY <1>4 DEF ReceiveLocalResponse, Erase, Restrict, routing, serverRequests
  <2>2. Handshakes' = Handshakes \ {key}
    BY <2>1 DEF Handshakes
  <2>3. connected' = connected /\ generation' = generation
    BY <1>4 DEF ReceiveLocalResponse, CompleteHandshake, BecomeReady, session
  <2>4. CASE localRequests[key] = "initialize"
    <3>1. Handshakes = {key} /\ ~ready
      BY <2>1, <2>4 DEF HandshakeInv, OneHandshakePerGeneration, Handshakes
    <3>2. Handshakes' = {}
      BY <2>2, <3>1
    <3>3. ready' \/ (stopRequested' /\ ~ready')
      BY <1>4, <2>4, <3>1 DEF ReceiveLocalResponse, CompleteHandshake, BecomeReady
    <3>4. DOMAIN requestOwners' = {}
      BY <2>1, <3>1 DEF NoOwnershipOutsideSession
    <3>5. NoOwnershipOutsideSession'
      BY <2>1, <2>3, <3>4 DEF NoOwnershipOutsideSession
    <3>6. HandshakeInv'
      BY <3>2, <3>3 DEF HandshakeInv, OneHandshakePerGeneration, Handshakes
    <3> QED
      BY <3>5, <3>6
  <2>5. CASE localRequests[key] # "initialize"
    <3>1. UNCHANGED <<connected, ready, generation, stopRequested>>
      BY <1>4, <2>5 DEF ReceiveLocalResponse, session
    <3>2. Handshakes' = Handshakes
      BY <2>2, <2>5 DEF Handshakes
    <3>3. NoOwnershipOutsideSession'
      BY <2>1, <3>1 DEF NoOwnershipOutsideSession
    <3>4. HandshakeInv'
      BY <3>1, <3>2 DEF HandshakeInv, OneHandshakePerGeneration, Handshakes
    <3> QED
      BY <3>3, <3>4
  <2> QED
    BY <2>4, <2>5
<1>5. ASSUME RequestTyped \/ \E id \in RawIds : SendRawRequest(id) PROVE SessionInv'
  <2>1. /\ UNCHANGED <<connected, ready, generation, stopRequested, requestOwners,
                       serverRequestOwners>>
        /\ \/ UNCHANGED localRequests
           \/ connected /\ \E key : \E handler \in {"typed", "raw"} :
                localRequests' = Emplace(localRequests, key, handler)
    BY <1>5 DEF RequestTyped, SendRawRequest, routing, serverRequests, session
  <2>2. NoOwnershipOutsideSession'
    BY <2>1 DEF NoOwnershipOutsideSession
  <2>3. ASSUME NEW key, NEW handler \in {"typed", "raw"},
               localRequests' = Emplace(localRequests, key, handler)
        PROVE  Handshakes' = Handshakes
    <3>1. /\ DOMAIN localRequests' = DOMAIN localRequests \cup {key}
          /\ \A k \in DOMAIN localRequests : localRequests'[k] = localRequests[k]
          /\ key \notin DOMAIN localRequests => localRequests'[key] = handler
      BY <2>3 DEF Emplace
    <3> QED
      BY <3>1 DEF Handshakes
  <2>4. Handshakes' = Handshakes
    BY <2>1, <2>3 DEF Handshakes
  <2>5. HandshakeInv'
    BY <2>1, <2>4 DEF HandshakeInv, OneHandshakePerGeneration, Handshakes
  <2> QED
    BY <2>2, <2>5
<1> QED
  BY <1>1, <1>2, <1>3, <1>4, <1>5, SessionCases

LEMMA SessionInvariant == Spec => []SessionInv
<1>1. Init => SessionInv
  <2> SUFFICES ASSUME Init PROVE SessionInv
    OBVIOUS
  <2>1. /\ DOMAIN localRequests = {} /\ DOMAIN requestOwners = {}
        /\ DOMAIN serverRequestOwners = {} /\ ~connected /\ ~ready
    BY DEF Init
  <2> QED
    BY <2>1 DEF SessionInv, NoOwnershipOutsideSession, HandshakeInv,
                OneHandshakePerGeneration, Handshakes
<1> QED
  BY <1>1, SessionStep, TypeInvariant, PTL DEF Spec

(* Requests are outstanding only in the ready session they were sent on,   *)
(* and nothing outlives a session.                                         *)
THEOREM OwnershipInSession == Spec => []NoOwnershipOutsideSession
  BY SessionInvariant, PTL DEF SessionInv

(* Every session does the handshake once.                                  *)
THEOREM OneHandshake == Spec => []OneHandshakePerGeneration
  BY SessionInvariant, PTL DEF SessionInv, HandshakeInv

-----------------------------------------------------------------------------
(* Action properties *)

(* An owner that stays in a table stays the same: no step rewrites an      *)
(* entry of either owner table.                                            *)
THEOREM NotTransferred == Spec => OwnershipIsNotTransferred
<1> DEFINE RoutesStay == \A key \in DOMAIN requestOwners \cap DOMAIN requestOwners' :
                           requestOwners'[key] = requestOwners[key]
           ServersStay == \A s \in DOMAIN serverRequestOwners \cap DOMAIN serverRequestOwners' :
                            serverRequestOwners'[s] = serverRequestOwners[s]
<1>1. ASSUME TypeInv, [Next]_vars PROVE RoutesStay
  <2>1. CASE KeepsRoutes
    BY <2>1 DEF KeepsRoutes
  <2>2. ASSUME NEW c \in DOMAIN frontends, UnregisterFrontend(c) PROVE RoutesStay
    BY <2>2, UnregisterFacts
  <2>3. ASSUME NEW c, NEW id, ForwardRequest(c, id) PROVE RoutesStay
    BY <2>3 DEF ForwardRequest, Emplace
  <2>4. ASSUME NEW key \in DOMAIN requestOwners, ReceiveResponse(key) PROVE RoutesStay
    BY <1>1, <2>4, ResponseFacts
  <2>5. CASE ProviderDisconnects
    <3>1. DOMAIN requestOwners' = {}
      BY <2>5 DEF ProviderDisconnects
    <3> QED
      BY <3>1
  <2> QED
    BY <1>1, <2>1, <2>2, <2>3, <2>4, <2>5, RoutingCases
<1>2. ASSUME TypeInv, [Next]_vars PROVE ServersStay
  <2>1. CASE UNCHANGED serverRequests
    BY <2>1 DEF serverRequests
  <2>2. CASE ProviderDisconnects
    <3>1. DOMAIN serverRequestOwners' = {}
      BY <2>2 DEF ProviderDisconnects
    <3> QED
      BY <3>1
  <2>3. ASSUME NEW keys, serverRequestOwners' = Erase(serverRequestOwners, keys)
        PROVE  ServersStay
    BY <2>3 DEF Erase, Restrict
  <2>4. ASSUME NEW s, NEW owner, serverRequestOwners' = Emplace(serverRequestOwners, s, owner)
        PROVE  ServersStay
    BY <2>4 DEF Emplace
  <2>5. ASSUME NEW c, UnregisterFrontend(c) PROVE ServersStay
    BY <2>3, <2>5 DEF UnregisterFrontend
  <2>6. ASSUME NEW c, NEW s \in OwnedBy(c), ReceiveServerResponse(c, s) PROVE ServersStay
    BY <2>3, <2>6 DEF ReceiveServerResponse
  <2>7. ASSUME NEW s, ReceiveLocalServerRequest(s) PROVE ServersStay
    <3> DEFINE owned == Emplace(serverRequestOwners, s,
                                [kind |-> "local", connection |-> None])
    <3>1. serverRequestOwners' = owned \/ serverRequestOwners' = serverRequestOwners
      BY <2>7 DEF ReceiveLocalServerRequest, serverRequests
    <3> QED
      BY <2>4, <3>1
  <2>8. ASSUME NEW s, controller \in DOMAIN frontends, ReceiveServerRequest(s)
        PROVE  ServersStay
    BY <2>4, <2>8 DEF ReceiveServerRequest
  <2>9. ASSUME NEW s, ReceiveResolved(s) \/ SendServerResponse(s) PROVE ServersStay
    BY <2>3, <2>9 DEF ReceiveResolved, SendServerResponse
  <2> QED
    BY <1>2, <2>1, <2>2, <2>5, <2>6, <2>7, <2>8, <2>9, ServerCases
<1> QED
  BY <1>1, <1>2, TypeInvariant, PTL DEF Spec, OwnershipIsNotTransferred

(* What an observer sends is never forwarded as anything but a read.       *)
THEOREM ObserversRead == Spec => ObserversOnlyRead
<1>1. ASSUME RolesAgree, NEW c \in DOMAIN frontends, NEW id \in FrontendIds,
             ReceiveRequest(c, id, "write"), requestOwners' # requestOwners
      PROVE  c = controller
  <2>1. Admitted(c, "write")
    BY <1>1 DEF ReceiveRequest, Reject, routing
  <2>2. frontends[c].role = "controller"
    BY <2>1 DEF Admitted, MayForward
  <2> QED
    BY <1>1, <2>2 DEF RolesAgree
<1> DEFINE ReadOnly == \A c \in DOMAIN frontends, id \in FrontendIds :
               ReceiveRequest(c, id, "write") /\ requestOwners' # requestOwners
                 => c = controller
<1>2. ASSUME RolesAgree PROVE ReadOnly
  BY <1>1, <1>2
<1> QED
  BY <1>2, RolesCorrect, PTL DEF Spec, ObserversOnlyRead

(* The controller loses control only by its own act or its disconnection.  *)
THEOREM ControlStays == Spec => ControlIsNotTaken
<1> DEFINE Lost == controller # None /\ controller' # controller =>
                     \/ /\ controller' = None
                        /\ ReleaseControl(controller) \/ UnregisterFrontend(controller)
                     \/ TransferControl(controller, controller')
<1>1. ASSUME TypeInv, [Next]_vars PROVE Lost
  <2>1. CASE UNCHANGED controller
    BY <2>1
  <2>2. CASE RegisterFrontend
    BY <2>2 DEF RegisterFrontend
  <2>3. ASSUME NEW c, UnregisterFrontend(c) PROVE Lost
    BY <2>3 DEF UnregisterFrontend
  <2>4. ASSUME NEW c, ClaimControl(c) PROVE Lost
    BY <2>4 DEF ClaimControl, SetController, Reject
  <2>5. ASSUME NEW c, ReleaseControl(c) PROVE Lost
    BY <2>5 DEF ReleaseControl, SetController, Reject
  <2>6. ASSUME NEW c, NEW target, TransferControl(c, target) PROVE Lost
    BY <2>6 DEF TransferControl, SetController, Reject
  <2>7. ASSUME NEW c, \/ EndpointFails(c) \/ ReceiveUntracked(c)
                      \/ \E s \in ServerIds : ReceiveServerResponse(c, s)
                      \/ \E id, method : ReceiveRequest(c, id, method)
        PROVE  UNCHANGED controller
    BY <2>7 DEF EndpointFails, ReceiveUntracked, ReceiveServerResponse, ReceiveRequest,
                ForwardRequest, Reject
  <2>8. CASE FrontendActs
    BY <2>1, <2>2, <2>3, <2>4, <2>5, <2>6, <2>7, <2>8 DEF FrontendActs
  <2>9. CASE ProviderActs
    BY <2>1, <2>9
    DEF ProviderActs, ProviderConnects, ProviderDisconnects, ReceiveLocalResponse,
        ReceiveResponse, ReceiveBroadcast, ReceiveDuplicateServerRequest,
        ReceiveLocalServerRequest, ReceiveServerRequest, ReceiveResolved, registry
  <2>10. CASE ApplicationActs
    BY <2>1, <2>10 DEF ApplicationActs, RequestTyped, SendRawRequest, SendServerResponse,
                       registry
  <2>11. CASE UNCHANGED vars
    BY <2>1, <2>11 DEF vars, registry
  <2> QED
    BY <1>1, <2>8, <2>9, <2>10, <2>11 DEF Next
<1> QED
  BY <1>1, TypeInvariant, PTL DEF Spec, ControlIsNotTaken

-----------------------------------------------------------------------------
(* The properties of the runs that are made of these parts *)

(* Nothing outstanding outlives the frontend or the session it belongs to. *)
THEOREM NothingOrphaned == Spec => []NothingIsOrphaned
<1>1. ServerRequestOwnersRegistered /\ NoOwnershipOutsideSession => NothingIsOrphaned
  BY DEF NothingIsOrphaned
<1> QED
  BY <1>1, OwnersRegistered, OwnershipInSession, PTL

(* The owner of a request stays its owner, and its upstream id its own.    *)
THEOREM FinalOwners == Spec => OwnersAreFinal
  BY NotTransferred, FreshUpstreamIds DEF OwnersAreFinal

(* Only the controller writes, and nobody takes control from it.           *)
THEOREM RespectedControl == Spec => ControlIsRespected
  BY ObserversRead, ControlStays DEF ControlIsRespected
=============================================================================
