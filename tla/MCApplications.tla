----------------------------- MODULE MCApplications -----------------------------
(* The small instances of six parts around the router, of which a          *)
(* behaviour runs one: the provider application, its owned child, the      *)
(* bridge client, the frontends' transports, a POST of the HTTP client and *)
(* the translation of a conversation.  They share no state, so that side   *)
(* by side they could do nothing they do not do alone.                     *)
EXTENDS ProviderApplication, MCStdio, BridgeClient, FrontendTransports, HttpTransport,
        RequestTranslation

VARIABLE program
otherVars == <<client, frontendVars, post, conversation>>
applicationVars == <<program, vars, stdioVars, otherVars>>

Applications ==
  /\ program \in {"provider", "child", "client", "frontends", "http", "translation"}
  /\ Init /\ StdioInit /\ ClientInit /\ FrontendInit /\ HttpInit /\ TranslationInit
  \* What is not run starts in one way.
  /\ program = "provider" \/ kind = "stdio"
  /\ program = "client" \/ client = NewClient("stream")
  /\ program = "frontends" \/ carrier = [c \in Clients |-> "stream"]
  /\ program = "http" \/ post = NewPost(FALSE)
  \* Names differ in whether they collide; Codex declares any tools, others one.
  /\ conversation.wire["read"] = "read"
  /\ conversation.source = "neutral" => conversation.declared = {"read"}
  /\ program = "translation" \/
       conversation = Conversation("neutral", [t \in Tools |-> "read"], {"read"})

ApplicationStep ==
  \/ /\ program = "provider" /\ Next
     /\ UNCHANGED <<program, stdioVars, otherVars>>
  \/ /\ program = "child" /\ StdioNext
     /\ UNCHANGED <<program, vars, otherVars>>
  \/ /\ program = "client" /\ ClientNext
     /\ UNCHANGED <<program, vars, stdioVars, frontendVars, post, conversation>>
  \/ /\ program = "frontends" /\ FrontendNext
     /\ UNCHANGED <<program, vars, stdioVars, client, post, conversation>>
  \/ /\ program = "http" /\ HttpNext
     /\ UNCHANGED <<program, vars, stdioVars, client, frontendVars, conversation>>
  \/ /\ program = "translation" /\ TranslationNext
     /\ UNCHANGED <<program, vars, stdioVars, client, frontendVars, post>>

ApplicationFairness ==
  \/ program = "provider" /\ Fairness
  \/ program = "child" /\ StdioFairness
  \/ program = "client" /\ ClientFairness
  \/ program = "frontends" /\ FrontendFairness
  \/ program = "http" /\ HttpFairness
  \/ program = "translation"
ApplicationSpec ==
  Applications /\ [][ApplicationStep]_applicationVars /\ ApplicationFairness

(* The types of all the parts but the child, which has its own.            *)
TypesOK ==
  TypeOK /\ ClientTypeOK /\ FrontendTypeOK /\ HttpTypeOK /\ TranslationTypeOK

(* What ends of itself.  The provider application gets a session that is   *)
(* ready after every loss, or ends, and ends when it is told to; a         *)
(* reconnect of the client ends, and so does the client after a quit; a    *)
(* frontend that is told to close gives its place back; a POST ends and    *)
(* leaves no connection behind.  Two things are excluded, in which it does *)
(* not: an application whose network client has given up, or whose child   *)
(* is gone, has nothing left to wait for and runs on without a provider    *)
(* (ProviderSettles); and a reconnect waits for a transport that attached  *)
(* too late to be closed, until its peer ends it (ClientSettles; that      *)
(* nothing bounds the wait is what ReconnectCompletes shows).              *)
ProgramsSettle ==
  /\ program = "provider" => ProviderSettles /\ ApplicationExits
  /\ program = "client" => ClientSettles
  /\ program = "frontends" => ClosingFrontendsLeave
  /\ program = "http" => RequestsEnd
=============================================================================
