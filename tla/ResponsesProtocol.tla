-------------------------- MODULE ResponsesProtocol --------------------------
(***************************************************************************)
(* What Responses streams promise to the client that reads them (the       *)
(* profile of docs/codex/responses-profile.md): a response is created      *)
(* before anything is added to it, items are announced and done one after  *)
(* the other, and it ends once: completed, when all its items are done, or *)
(* failed.  A client may stop listening at any time, and is told no more.  *)
(***************************************************************************)
EXTENDS Naturals

CONSTANT Requests

VARIABLES
  created,  \* request -> response.created has been sent
  added,    \* request -> the number of response.output_item.added
  done,     \* request -> the number of response.output_item.done
  outcome   \* request -> "none", or how the response ended
vars == <<created, added, done, outcome>>

Init ==
  /\ created = [r \in Requests |-> FALSE]
  /\ added = [r \in Requests |-> 0]
  /\ done = [r \in Requests |-> 0]
  /\ outcome = [r \in Requests |-> "none"]

Create(r) ==
  /\ outcome[r] = "none" /\ ~created[r]
  /\ created' = [created EXCEPT ![r] = TRUE]
  /\ UNCHANGED <<added, done, outcome>>

(* The last item may become done when the next one is announced.           *)
AddItem(r) ==
  /\ outcome[r] = "none" /\ created[r]
  /\ done' = [done EXCEPT ![r] = added[r]]
  /\ added' = [added EXCEPT ![r] = added[r] + 1]
  /\ UNCHANGED <<created, outcome>>

ItemDone(r) ==
  /\ outcome[r] = "none" /\ done[r] < added[r]
  /\ done' = [done EXCEPT ![r] = done[r] + 1]
  /\ UNCHANGED <<created, added, outcome>>

Complete(r) ==
  /\ outcome[r] = "none" /\ created[r]
  /\ done' = [done EXCEPT ![r] = added[r]]
  /\ outcome' = [outcome EXCEPT ![r] = "completed"]
  /\ UNCHANGED <<created, added>>

(* A response may fail as soon as it is created, or without having been.   *)
Fail(r) ==
  /\ outcome[r] = "none"
  /\ \E c \in {created[r], TRUE} : created' = [created EXCEPT ![r] = c]
  /\ \E n \in done[r] .. added[r] : done' = [done EXCEPT ![r] = n]
  /\ outcome' = [outcome EXCEPT ![r] = "failed"]
  /\ UNCHANGED added

Next == \E r \in Requests :
  Create(r) \/ AddItem(r) \/ ItemDone(r) \/ Complete(r) \/ Fail(r)
Spec == Init /\ [][Next]_vars
=============================================================================
