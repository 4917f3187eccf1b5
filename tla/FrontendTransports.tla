-------------------------- MODULE FrontendTransports --------------------------
(***************************************************************************)
(* The frontends' side of codex-bridge: the stream contexts and the        *)
(* WebSocket subprotocols through which frontends reach the router, the    *)
(* limit of registrations, and the scopes that hand the router to exactly  *)
(* the subprotocol of the request that is being upgraded.                  *)
(*                                                                         *)
(* A step is one callback of a connection.  The router is reduced to the   *)
(* set of the endpoints it has registered; that it closes an endpoint at   *)
(* will, also while it registers it, is all that a connection sees of it.  *)
(* What it does with the messages is in Bridge.                            *)
(***************************************************************************)
EXTENDS Naturals, FiniteSets

CONSTANTS
  Clients,             \* the connections that may exist at a time
  Scopes,              \* the objects of class ScopedWebSocketUpgrade
  NoScope,             \* a null pointer
  MaximumFrontends     \* of the router

ASSUME FrontendTransportsAssumption ==
  /\ Clients # {} /\ NoScope \notin Scopes
  /\ MaximumFrontends \in Nat \ {0}

VARIABLES
  carrier,      \* connection -> "stream" or "websocket"
  stage,        \* connection -> "none", "http", "made" until its onConnected,
                \* "connected", "disconnected"
  named,        \* the connections whose connectionId_ is set
  leaving,      \* those whose disconnecting_ or closing_ is set
  registered,   \* the router's: the connections in its frontends_
  scope,        \* scope -> its connection, its previous_, and whether it exists
                \* or has been consumed
  activeUpgrade,
  \* Observations, which no action reads:
  stray,        \* the router was given a message of nobody it has registered
  borrowed      \* a subprotocol was made for a connection without a scope
frontendVars == <<carrier, stage, named, leaving, registered, scope,
                  activeUpgrade, stray, borrowed>>
scopes == <<scope, activeUpgrade, borrowed>>

NewScope == [client |-> CHOOSE c \in Clients : TRUE, previous |-> NoScope,
             exists |-> FALSE, consumed |-> FALSE]

FrontendInit ==
  /\ carrier \in [Clients -> {"stream", "websocket"}]
  /\ stage = [c \in Clients |-> "none"]
  /\ named = {} /\ leaving = {} /\ registered = {}
  /\ scope = [s \in Scopes |-> NewScope]
  /\ activeUpgrade = NoScope
  /\ stray = FALSE /\ borrowed = FALSE

-----------------------------------------------------------------------------
(* Connections *)

Accept(c) ==
  /\ stage[c] = "none"
  /\ stage' = [stage EXCEPT ![c] = IF carrier[c] = "stream" THEN "made" ELSE "http"]
  /\ UNCHANGED <<carrier, named, leaving, registered, scopes, stray>>

(* registerFrontend returns no identity when there are too many; what it   *)
(* sends to the new frontend may not be accepted, which closes it.         *)
Register_KeepsOpen(c) ==
  IF Cardinality(registered) < MaximumFrontends
  THEN /\ registered' = registered \cup {c} /\ named' = named \cup {c}
       /\ \E refused \in SUBSET {c} : leaving' = leaving \cup refused
  ELSE UNCHANGED <<registered, named, leaving>>
Register(c) ==
  IF Cardinality(registered) < MaximumFrontends
  THEN /\ registered' = registered \cup {c} /\ named' = named \cup {c}
       /\ \E refused \in SUBSET {c} : leaving' = leaving \cup refused
  ELSE /\ leaving' = leaving \cup {c}
       /\ UNCHANGED <<registered, named>>
FrontendConnected(c) ==
  /\ stage[c] = "made"
  /\ stage' = [stage EXCEPT ![c] = "connected"]
  /\ Register(c)
  /\ UNCHANGED <<carrier, scopes, stray>>

(* A message is dispatched, after which the endpoint may be closing; one   *)
(* that is no message closes it; a connection that closes drops them all.  *)
ReceiveMessage(c) ==
  /\ stage[c] = "connected" /\ c \notin leaving
  /\ stray' = (stray \/ c \notin registered)
  /\ \E closes \in SUBSET {c} : leaving' = leaving \cup closes
  /\ UNCHANGED <<carrier, stage, named, registered, scopes>>
RejectMessage(c) ==
  /\ stage[c] = "connected"
  /\ leaving' = leaving \cup {c}
  /\ UNCHANGED <<carrier, stage, named, registered, scopes, stray>>
RouterCloses(c) ==
  /\ c \in registered
  /\ leaving' = leaving \cup {c}
  /\ UNCHANGED <<carrier, stage, named, registered, scopes, stray>>

Unregister_KeepsPlace(c) == named' = named \ {c} /\ UNCHANGED registered
Unregister(c) ==
  /\ registered' = IF c \in named THEN registered \ {c} ELSE registered
  /\ named' = named \ {c}
FrontendDisconnected(c) ==
  /\ stage[c] = "connected"
  /\ stage' = [stage EXCEPT ![c] = "disconnected"]
  /\ leaving' = IF carrier[c] = "stream" THEN leaving \cup {c} ELSE leaving
  /\ Unregister(c)
  /\ UNCHANGED <<carrier, scopes, stray>>
FrontendDestroyed(c) ==
  /\ stage[c] \in {"http", "made", "disconnected"}
  /\ \A s \in Scopes : scope[s].exists => scope[s].client # c
  /\ stage' = [stage EXCEPT ![c] = "none"]
  /\ leaving' = leaving \ {c}
  /\ Unregister(c)
  /\ UNCHANGED <<carrier, scopes, stray>>

-----------------------------------------------------------------------------
(* ScopedWebSocketUpgrade *)

OpenScope(s, c) ==
  /\ ~scope[s].exists /\ stage[c] = "http"
  /\ scope' = [scope EXCEPT ![s] = [client |-> c, previous |-> activeUpgrade,
                                    exists |-> TRUE, consumed |-> FALSE]]
  /\ activeUpgrade' = s
  /\ UNCHANGED <<carrier, stage, named, leaving, registered, stray, borrowed>>

(* The factory is asked for the subprotocol of a connection.               *)
Consumes_Anyones(s, c) == ~scope[s].consumed
Consumes(s, c) == ~scope[s].consumed /\ scope[s].client = c
UpgradeFrontend(c) ==
  /\ stage[c] = "http" /\ activeUpgrade # NoScope
  /\ Consumes(activeUpgrade, c)
  /\ borrowed' = (borrowed \/ ~\E s \in Scopes : scope[s].exists /\ scope[s].client = c)
  /\ scope' = [scope EXCEPT ![activeUpgrade].consumed = TRUE]
  /\ stage' = [stage EXCEPT ![c] = "made"]
  /\ UNCHANGED <<carrier, named, leaving, registered, activeUpgrade, stray>>

(* Out of order, the scope is unlinked where it stands.                    *)
Unlink_Never(s) == scope' = [scope EXCEPT ![s] = NewScope] /\ UNCHANGED activeUpgrade
Unlink(s) ==
  /\ scope' = [t \in Scopes |->
                 IF t = s THEN NewScope
                 ELSE IF scope[t].exists /\ scope[t].previous = s
                      THEN [scope[t] EXCEPT !.previous = scope[s].previous]
                      ELSE scope[t]]
  /\ UNCHANGED activeUpgrade
CloseScope(s) ==
  /\ scope[s].exists
  /\ IF activeUpgrade = s
     THEN /\ activeUpgrade' = scope[s].previous
          /\ scope' = [scope EXCEPT ![s] = NewScope]
     ELSE Unlink(s)
  /\ UNCHANGED <<carrier, stage, named, leaving, registered, stray, borrowed>>

-----------------------------------------------------------------------------
FrontendNext ==
  \/ \E c \in Clients :
       \/ Accept(c)
       \/ FrontendConnected(c)
       \/ ReceiveMessage(c)
       \/ RejectMessage(c)
       \/ RouterCloses(c)
       \/ FrontendDisconnected(c)
       \/ FrontendDestroyed(c)
       \/ UpgradeFrontend(c)
       \/ \E s \in Scopes : OpenScope(s, c)
  \/ \E s \in Scopes : CloseScope(s)
FrontendSpec == FrontendInit /\ [][FrontendNext]_frontendVars

(* A connection that was told to close is closed and its context           *)
(* destroyed, a WebSocket after its peer's answer or the close timer; a    *)
(* scope lasts as long as the handler of its request.                      *)
FrontendFairness ==
  /\ \A c \in Clients :
       /\ WF_frontendVars(c \in leaving /\ FrontendDisconnected(c))
       /\ WF_frontendVars(stage[c] = "disconnected" /\ FrontendDestroyed(c))
  /\ \A s \in Scopes : WF_frontendVars(CloseScope(s))

-----------------------------------------------------------------------------
(* The type invariant.                                                     *)
FrontendTypeOK ==
  /\ carrier \in [Clients -> {"stream", "websocket"}]
  /\ stage \in [Clients -> {"none", "http", "made", "connected", "disconnected"}]
  /\ named \subseteq Clients /\ leaving \subseteq Clients /\ registered \subseteq Clients
  /\ scope \in [Scopes -> [client : Clients, previous : Scopes \cup {NoScope},
                           exists : BOOLEAN, consumed : BOOLEAN]]
  /\ activeUpgrade \in Scopes \cup {NoScope}
  /\ stray \in BOOLEAN /\ borrowed \in BOOLEAN

(* The router holds exactly the endpoints that are connected and know      *)
(* their identity, no more than it may, never one that is destroyed: also  *)
(* the one too many, which closes, is heard by nobody and leaves no trace. *)
RegistrationsMatch ==
  /\ registered = named
  /\ registered \subseteq {c \in Clients : stage[c] = "connected"}
  /\ Cardinality(registered) <= MaximumFrontends
  /\ \A c \in Clients : stage[c] = "connected" => c \in registered \cup leaving
  /\ ~stray

(* The chain of scopes holds those that exist, each once, in whatever      *)
(* order they are destroyed, and no subprotocol is made for a connection   *)
(* that is not being upgraded.                                             *)
Existing == {s \in Scopes : scope[s].exists}
ScopesAreLinked ==
  /\ activeUpgrade \in Existing \cup {NoScope}
  /\ Existing # {} => activeUpgrade # NoScope
  /\ \A s \in Existing :
       /\ scope[s].previous \in (Existing \ {s, activeUpgrade}) \cup {NoScope}
       /\ s # activeUpgrade => Cardinality({t \in Existing : scope[t].previous = s}) = 1
UpgradesAreScoped == ScopesAreLinked /\ ~borrowed

(* The router reaches those who are connected, through subprotocols that   *)
(* were made for them.                                                     *)
FrontendsAreAccountedFor == RegistrationsMatch /\ UpgradesAreScoped

(* Whoever is told to close leaves, and gives its place back.              *)
ClosingFrontendsLeave == \A c \in Clients : c \in leaving ~> c \notin leaving \cup registered
=============================================================================
