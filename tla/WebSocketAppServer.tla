-------------------------- MODULE WebSocketAppServer --------------------------
(***************************************************************************)
(* The app-server behind a WebSocket: class WebSocketAppServer, the state  *)
(* it shares with the connections of the HTTP clients made for it, and the *)
(* subprotocol object of each connection.                                  *)
(*                                                                         *)
(* A step is one callback of a connection or one call of the application.  *)
(* What the bridge is told is the state "session"; what it does then is    *)
(* the business of the module that composes the two.                       *)
(***************************************************************************)
CONSTANTS
  Connections,   \* the connections that may exist at a time
  NoConnection   \* a null pointer

ASSUME WebSocketAssumption == NoConnection \notin Connections

VARIABLES
  active,    \* active_: the connection that is attached
  bridge,    \* bridge_ is set: the endpoint has not been destroyed
  link,      \* connection -> "none", "http" until it is upgraded, "websocket"
  closing,   \* connection -> closing_ of its subprotocol
  \* Observations, which no action reads:
  session,   \* what the bridge was told last
  astray     \* it was told the same twice
endpoint == <<active, bridge, link, closing, session, astray>>

Told(up) == session' = up /\ astray' = (astray \/ session = up)

EndpointInit ==
  /\ active = NoConnection /\ bridge = TRUE
  /\ link = [c \in Connections |-> "none"]
  /\ closing = [c \in Connections |-> FALSE]
  /\ session = FALSE /\ astray = FALSE

-----------------------------------------------------------------------------
(* Connections *)

Open(c) ==
  /\ link[c] = "none"
  /\ link' = [link EXCEPT ![c] = "http"]
  /\ UNCHANGED <<active, bridge, closing, session, astray>>

(* The HTTP answer is no upgrade, its accept key is wrong, or the          *)
(* connection ends before it.                                              *)
UpgradeFails(c) ==
  /\ link[c] = "http"
  /\ link' = [link EXCEPT ![c] = "none"]
  /\ UNCHANGED <<active, bridge, closing, session, astray>>

(* A connection that cannot be attached closes at once.                    *)
Attach_KeepsOpen(c) ==
  IF active = NoConnection /\ bridge
  THEN active' = c /\ Told(TRUE) /\ UNCHANGED closing
  ELSE UNCHANGED <<active, closing, session, astray>>
Attach(c) ==
  IF active = NoConnection /\ bridge
  THEN active' = c /\ Told(TRUE) /\ UNCHANGED closing
  ELSE /\ closing' = [closing EXCEPT ![c] = TRUE]
       /\ UNCHANGED <<active, session, astray>>
Upgrade(c) ==
  /\ link[c] = "http"
  /\ link' = [link EXCEPT ![c] = "websocket"]
  /\ Attach(c)
  /\ UNCHANGED bridge

(* A message of this connection would be given to the bridge.              *)
Dispatches(c) == link[c] = "websocket" /\ ~closing[c]

(* A message that is not text, too long, no JSON or whose handling throws, *)
(* an error of the WebSocket, or a signal.                                 *)
CloseConnection(c) ==
  /\ Dispatches(c)
  /\ closing' = [closing EXCEPT ![c] = TRUE]
  /\ UNCHANGED <<active, bridge, link, session, astray>>

Detach_AnyConnection(c) ==
  /\ active' = NoConnection
  /\ IF bridge THEN Told(FALSE) ELSE UNCHANGED <<session, astray>>
Detach_Silently(c) ==
  /\ active' = IF active = c THEN NoConnection ELSE active
  /\ UNCHANGED <<session, astray>>
(* onDisconnected, or the destructor when it was not called.  The detach   *)
(* of a connection that is not attached is ignored.                        *)
Detach(c) ==
  IF active # c THEN UNCHANGED <<active, session, astray>>
  ELSE /\ active' = NoConnection
       /\ IF bridge THEN Told(FALSE) ELSE UNCHANGED <<session, astray>>
Disconnect(c) ==
  /\ link[c] = "websocket"
  /\ link' = [link EXCEPT ![c] = "none"]
  /\ closing' = [closing EXCEPT ![c] = FALSE]
  /\ Detach(c)
  /\ UNCHANGED bridge

-----------------------------------------------------------------------------
(* The application *)

StopEndpoint ==
  /\ closing' = [c \in Connections |-> closing[c] \/ c = active]
  /\ UNCHANGED <<active, bridge, link, session, astray>>

(* The destructor: the connections that are left keep the shared state.    *)
DestroyEndpoint ==
  /\ bridge
  /\ bridge' = FALSE
  /\ closing' = [c \in Connections |-> closing[c] \/ c = active]
  /\ UNCHANGED <<active, link, session, astray>>

-----------------------------------------------------------------------------
EndpointTypeOK ==
  /\ active \in Connections \cup {NoConnection}
  /\ bridge \in BOOLEAN
  /\ link \in [Connections -> {"none", "http", "websocket"}]
  /\ closing \in [Connections -> BOOLEAN]
  /\ session \in BOOLEAN /\ astray \in BOOLEAN

(* Only the connection that is attached can give messages to the bridge:   *)
(* one that was refused while another was attached, or that outlives the   *)
(* endpoint, stays mute until it is gone.                                  *)
FramesAreOfTheSession ==
  /\ \A c \in Connections : Dispatches(c) => c = active /\ bridge
  /\ active # NoConnection => link[active] = "websocket"
=============================================================================
