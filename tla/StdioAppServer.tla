----------------------------- MODULE StdioAppServer -----------------------------
(***************************************************************************)
(* The owned app-server child of codex-bridge: class StdioAppServer with   *)
(* its ChildExitObserver, and what they use of the event loop, the pipes   *)
(* and the process.                                                        *)
(*                                                                         *)
(* A step is one event-loop callback, one call of the application or one   *)
(* event of the operating system.  A pipe receiver that has reported its   *)
(* end, and an observer that has reported the exit, report later that they *)
(* are closed: until then a callback to this object is outstanding.        *)
(***************************************************************************)
EXTENDS Naturals

CONSTANTS
  Pids,                \* the children that may be spawned
  NoPid,               \* childPid_ = -1, and a null pointer
  RestartsInCallback   \* may start() be called while callbacks of the session
                       \* before are outstanding (from the lifecycle handler)?

ASSUME StdioAssumption == NoPid \notin Pids /\ RestartsInCallback \in BOOLEAN

Pipes == {"stdin", "stdout", "stderr"}

VARIABLES
  connected, stopping, childPid,
  childObserver,   \* the child the object's observer watches
  receiver,        \* pipe -> the child its receiver belongs to: stdinWriter_,
                   \* stdoutReader_ and stderrReader_
  \* The event loop and the operating system:
  eventLoop,       \* "running", "stopping" or "stopped"
  observer,        \* child -> the state of the observer made for it
  pipe,            \* pipe -> child -> the state of the receiver made for it
  process,         \* child -> "unborn", "running", "exited" or "terminated"
  \* Observations, which no action reads:
  bridgeTold,      \* what the bridge was told last
  reported,        \* the children whose exit onExit was called for
  reaps,           \* child -> the number of times it was waited for
  blocked          \* a pipe callback has waited for a running child

object == <<connected, stopping, childPid, childObserver, receiver>>
receivers == <<observer, pipe>>
stdioVars == <<object, eventLoop, receivers, process, bridgeTold, reported, reaps,
               blocked>>

-----------------------------------------------------------------------------
NoReceivers == [p \in Pipes |-> NoPid]

StdioInit ==
  /\ connected = FALSE /\ stopping = FALSE
  /\ childPid = NoPid /\ childObserver = NoPid /\ receiver = NoReceivers
  /\ eventLoop = "running"
  /\ observer = [k \in Pids |-> "none"]
  /\ pipe = [p \in Pipes |-> [k \in Pids |-> "none"]]
  /\ process = [k \in Pids |-> "unborn"]
  /\ bridgeTold = FALSE /\ reported = {} /\ reaps = [k \in Pids |-> 0]
  /\ blocked = FALSE

-----------------------------------------------------------------------------
(* Ending a session *)

DetachCallbacks(pointers, pipes) ==
  /\ receiver' = NoReceivers
  /\ pipe' = [p \in Pipes |-> [k \in Pids |->
                IF k = pointers[p] THEN "closed" ELSE pipes[p][k]]]

DetachChildObserver_KeepsWatching == childObserver' = NoPid /\ UNCHANGED observer
DetachChildObserver ==
  /\ childObserver' = NoPid
  /\ observer' = [k \in Pids |-> IF k = childObserver THEN "closed" ELSE observer[k]]

TerminateAndReap_KeepsPid ==
  /\ process' = [k \in Pids |-> IF k = childPid /\ process[k] = "running"
                                THEN "terminated" ELSE process[k]]
  /\ reaps' = [k \in Pids |-> IF k = childPid THEN reaps[k] + 1 ELSE reaps[k]]
  /\ UNCHANGED childPid
TerminateAndReap ==
  /\ process' = [k \in Pids |-> IF k = childPid /\ process[k] = "running"
                                THEN "terminated" ELSE process[k]]
  /\ reaps' = [k \in Pids |-> IF k = childPid THEN reaps[k] + 1 ELSE reaps[k]]
  /\ childPid' = NoPid

(* "pointers" and "pipes" are the receivers as the caller leaves them.     *)
TransitionToStopped_KeepsSession(pointers, pipes, notify, terminate) ==
  /\ connected' = FALSE
  /\ DetachChildObserver
  /\ DetachCallbacks(pointers, pipes)
  /\ IF terminate THEN TerminateAndReap ELSE UNCHANGED <<childPid, process, reaps>>
  /\ UNCHANGED bridgeTold
TransitionToStopped(pointers, pipes, notify, terminate) ==
  /\ connected' = FALSE
  /\ DetachChildObserver
  /\ DetachCallbacks(pointers, pipes)
  /\ IF terminate THEN TerminateAndReap ELSE UNCHANGED <<childPid, process, reaps>>
  /\ bridgeTold' = (bridgeTold /\ ~(notify /\ connected))

TransportClosed_LeavesChild(pointers, pipes) ==
  /\ IF connected
     THEN TransitionToStopped(pointers, pipes, TRUE, FALSE) /\ UNCHANGED blocked
     ELSE /\ receiver' = pointers /\ pipe' = pipes
          /\ UNCHANGED <<connected, childPid, childObserver, observer, process,
                         bridgeTold, reaps, blocked>>
  /\ UNCHANGED <<stopping, eventLoop, reported>>
TransportClosed(pointers, pipes) ==
  /\ IF connected
     THEN /\ TransitionToStopped(pointers, pipes, TRUE, TRUE)
          /\ blocked' = (blocked \/ \E k \in Pids : k = childPid /\ process[k] = "running")
     ELSE /\ receiver' = pointers /\ pipe' = pipes
          /\ UNCHANGED <<connected, childPid, childObserver, observer, process,
                         bridgeTold, reaps, blocked>>
  /\ UNCHANGED <<stopping, eventLoop, reported>>

-----------------------------------------------------------------------------
(* Calls of the application *)

(* Nothing of the session before is still to be reported.                  *)
Settled ==
  /\ \A p \in Pipes, k \in Pids : pipe[p][k] # "ended"
  /\ \A k \in Pids : observer[k] # "fired"

MayStart == /\ eventLoop = "running" /\ ~connected /\ childPid = NoPid
            /\ RestartsInCallback \/ Settled

Start_KeepsStopping(k) ==
  /\ MayStart /\ process[k] = "unborn"
  /\ process' = [process EXCEPT ![k] = "running"]
  /\ childPid' = k /\ childObserver' = k
  /\ receiver' = [p \in Pipes |-> k]
  /\ pipe' = [p \in Pipes |-> [pipe[p] EXCEPT ![k] = "open"]]
  /\ observer' = [observer EXCEPT ![k] = "watching"]
  /\ connected' = TRUE /\ bridgeTold' = TRUE
  /\ UNCHANGED <<stopping, eventLoop, reported, reaps, blocked>>
Start(k) ==
  /\ MayStart /\ process[k] = "unborn"
  /\ stopping' = FALSE
  /\ process' = [process EXCEPT ![k] = "running"]
  /\ childPid' = k /\ childObserver' = k
  /\ receiver' = [p \in Pipes |-> k]
  /\ pipe' = [p \in Pipes |-> [pipe[p] EXCEPT ![k] = "open"]]
  /\ observer' = [observer EXCEPT ![k] = "watching"]
  /\ connected' = TRUE /\ bridgeTold' = TRUE
  /\ UNCHANGED <<eventLoop, reported, reaps, blocked>>

(* start() fails before the child exists (pipes, spawn), ...               *)
StartFails ==
  /\ MayStart
  /\ stopping' = FALSE
  /\ UNCHANGED <<connected, childPid, childObserver, receiver, eventLoop, receivers,
                 process, bridgeTold, reported, reaps, blocked>>

(* ... or after: its pipes or its pidfd cannot be registered.              *)
StartAborts(k) ==
  /\ MayStart /\ process[k] = "unborn"
  /\ stopping' = FALSE
  /\ process' = [process EXCEPT ![k] = "terminated"]
  /\ reaps' = [reaps EXCEPT ![k] = @ + 1]
  /\ pipe' = [p \in Pipes |-> [pipe[p] EXCEPT ![k] = "closed"]]
  /\ UNCHANGED <<connected, childPid, childObserver, receiver, eventLoop, observer,
                 bridgeTold, reported, blocked>>

Stop_LeavesChild ==
  /\ ~stopping
  /\ stopping' = TRUE
  /\ TransitionToStopped(receiver, pipe, connected, FALSE)
  /\ UNCHANGED <<eventLoop, reported, blocked>>
Stop ==
  /\ ~stopping
  /\ stopping' = TRUE
  /\ TransitionToStopped(receiver, pipe, connected, TRUE)
  /\ UNCHANGED <<eventLoop, reported, blocked>>

(* core::SNodeC::stop(), by a signal or any other callback                 *)
StopEventLoop ==
  /\ eventLoop = "running"
  /\ eventLoop' = "stopping"
  /\ UNCHANGED <<object, receivers, process, bridgeTold, reported, reaps, blocked>>

-----------------------------------------------------------------------------
(* The operating system and the event loop *)

ProcessExits(k) ==
  /\ process[k] = "running"
  /\ process' = [process EXCEPT ![k] = "exited"]
  /\ UNCHANGED <<object, eventLoop, receivers, bridgeTold, reported, reaps, blocked>>

(* A chunk of stdout that the framer rejects or whose dispatch throws.     *)
(* One that is accepted changes nothing here.                              *)
ReceiveStdout(k) ==
  /\ eventLoop # "stopped" /\ pipe["stdout"][k] = "open"
  /\ TransportClosed(receiver, pipe)

(* The error of a pipe, or the EOF of an output of the child.  stderr has  *)
(* no callback for it.  The receiver is disabled, its closing comes later. *)
PipeEnds(p, k) ==
  /\ eventLoop # "stopped" /\ pipe[p][k] = "open"
  /\ LET ended == [pipe EXCEPT ![p][k] = "ended"] IN
     IF p = "stderr"
     THEN /\ pipe' = ended
          /\ UNCHANGED <<object, eventLoop, observer, process, bridgeTold, reported,
                         reaps, blocked>>
     ELSE TransportClosed([receiver EXCEPT ![p] = NoPid], ended)

(* A disabled receiver, or any when the loop shuts down, is closed.  The   *)
(* callback does not know the session it was set in.                       *)
PipeCloses(p, k) ==
  /\ \/ eventLoop # "stopped" /\ pipe[p][k] = "ended"
     \/ eventLoop = "stopping" /\ pipe[p][k] = "open"
  /\ LET closed == [pipe EXCEPT ![p][k] = "closed"]
         pointers == [receiver EXCEPT ![p] = NoPid]
     IN IF p = "stdin"
        THEN TransportClosed(pointers, closed)
        ELSE /\ pipe' = closed /\ receiver' = pointers
             /\ UNCHANGED <<connected, stopping, childPid, childObserver, eventLoop,
                            observer, process, bridgeTold, reported, reaps, blocked>>

(* The pidfd is readable.  onExit may stop the loop, as StdioRuntime does. *)
ChildExitReady_KeepsCallbacks(k) ==
  /\ eventLoop # "stopped" /\ observer[k] = "watching" /\ process[k] = "exited"
  /\ observer' = [observer EXCEPT ![k] = "fired"]
  /\ childObserver' = NoPid
  /\ TerminateAndReap
  /\ connected' = FALSE /\ bridgeTold' = FALSE
  /\ reported' = IF stopping THEN reported ELSE reported \cup {k}
  /\ UNCHANGED <<stopping, eventLoop, receiver, pipe, blocked>>
ChildExitReady_ReportsReset(k) ==
  /\ eventLoop # "stopped" /\ observer[k] = "watching" /\ process[k] = "exited"
  /\ observer' = [observer EXCEPT ![k] = "fired"]
  /\ childObserver' = NoPid
  /\ TerminateAndReap
  /\ connected' = FALSE /\ bridgeTold' = FALSE
  /\ DetachCallbacks(receiver, pipe)
  /\ reported' = reported \cup {childPid'}
  /\ UNCHANGED <<stopping, eventLoop, blocked>>
ChildExitReady(k) ==
  /\ eventLoop # "stopped" /\ observer[k] = "watching" /\ process[k] = "exited"
  /\ observer' = [observer EXCEPT ![k] = "fired"]
  /\ IF childObserver = k
     THEN /\ childObserver' = NoPid
          /\ TerminateAndReap
          /\ connected' = FALSE
          /\ DetachCallbacks(receiver, pipe)
          /\ bridgeTold' = (bridgeTold /\ ~connected)
          /\ IF stopping THEN UNCHANGED <<reported, eventLoop>>
             ELSE reported' = reported \cup {k} /\ eventLoop' \in {eventLoop, "stopping"}
          /\ UNCHANGED <<stopping, blocked>>
     ELSE UNCHANGED <<object, pipe, eventLoop, process, bridgeTold, reported, reaps,
                      blocked>>

(* An observer that has fired, or any when the loop shuts down, is closed. *)
ChildObserverClosed(k) ==
  /\ \/ eventLoop # "stopped" /\ observer[k] = "fired"
     \/ eventLoop = "stopping" /\ observer[k] = "watching"
  /\ observer' = [observer EXCEPT ![k] = "closed"]
  /\ childObserver' = IF childObserver = k THEN NoPid ELSE childObserver
  /\ UNCHANGED <<connected, stopping, childPid, receiver, eventLoop, pipe, process,
                 bridgeTold, reported, reaps, blocked>>

(* core::SNodeC::start() returns when every receiver is closed.            *)
EventLoopReturns ==
  /\ eventLoop = "stopping"
  /\ \A k \in Pids : observer[k] \in {"none", "closed"}
  /\ \A p \in Pipes, k \in Pids : pipe[p][k] \in {"none", "closed"}
  /\ eventLoop' = "stopped"
  /\ UNCHANGED <<object, receivers, process, bridgeTold, reported, reaps, blocked>>

-----------------------------------------------------------------------------
StdioNext ==
  \/ \E k \in Pids :
       \/ Start(k)
       \/ StartAborts(k)
       \/ ProcessExits(k)
       \/ ReceiveStdout(k)
       \/ \E p \in Pipes : PipeEnds(p, k)
       \/ \E p \in Pipes : PipeCloses(p, k)
       \/ ChildExitReady(k)
       \/ ChildObserverClosed(k)
  \/ StartFails
  \/ Stop
  \/ StopEventLoop
  \/ EventLoopReturns

StdioSpec == StdioInit /\ [][StdioNext]_stdioVars

(* The event loop dispatches what is ready and, once it is told to stop,   *)
(* closes every receiver and returns; main then calls stop().              *)
StdioFairness ==
  /\ \A k \in Pids : WF_stdioVars(ChildExitReady(k)) /\ WF_stdioVars(ChildObserverClosed(k))
  /\ \A p \in Pipes, k \in Pids : WF_stdioVars(PipeCloses(p, k))
  /\ WF_stdioVars(EventLoopReturns)
  /\ WF_stdioVars(eventLoop = "stopped" /\ Stop)
StdioFairSpec == StdioSpec /\ StdioFairness

-----------------------------------------------------------------------------
(* The type invariant.  An exit is only ever reported of a child, never of *)
(* the -1 that childPid_ is reset to before onExit is called.              *)
StdioTypeOK ==
  /\ connected \in BOOLEAN /\ stopping \in BOOLEAN
  /\ childPid \in Pids \cup {NoPid} /\ childObserver \in Pids \cup {NoPid}
  /\ receiver \in [Pipes -> Pids \cup {NoPid}]
  /\ eventLoop \in {"running", "stopping", "stopped"}
  /\ observer \in [Pids -> {"none", "watching", "fired", "closed"}]
  /\ pipe \in [Pipes -> [Pids -> {"none", "open", "ended", "closed"}]]
  /\ process \in [Pids -> {"unborn", "running", "exited", "terminated"}]
  /\ bridgeTold \in BOOLEAN /\ reported \subseteq Pids
  /\ reaps \in [Pids -> Nat] /\ blocked \in BOOLEAN

(* A child is waited for exactly once, in whatever order its exit, the end *)
(* of its pipes, a failed start and stop() meet: none is left a zombie or  *)
(* running unowned, and no pid is signalled or waited for after its reap.  *)
ChildrenReapedOnce ==
  \A k \in Pids : reaps[k] = IF k = childPid \/ process[k] = "unborn" THEN 0 ELSE 1

(* The bridge is told of the beginning and of the end of every session,    *)
(* whichever of the three ways it ends.                                    *)
BridgeIsTold == bridgeTold = connected /\ (connected <=> childPid # NoPid)

(* While the loop runs the child is observed, so its exit cannot go        *)
(* unnoticed; and no observer of another child can fire, so the blocking   *)
(* waitpid of childExitReady never waits for a running one.                *)
ChildIsObserved ==
  /\ eventLoop = "running" /\ childPid # NoPid =>
       childObserver = childPid /\ observer[childPid] = "watching"
  /\ \A k \in Pids : observer[k] = "watching" => k = childPid /\ k = childObserver

(* While the loop runs a connected provider can be written and read, and   *)
(* no pipe delivers frames of a session that has ended.                    *)
PipesServeTheSession ==
  /\ eventLoop = "running" /\ connected => \A p \in {"stdin", "stdout"} :
       receiver[p] = childPid /\ pipe[p][childPid] = "open"
  /\ \A p \in Pipes, k \in Pids :
       pipe[p][k] = "open" => k = childPid /\ receiver[p] = k

(* After stop() nothing is left to stop, so the second call, of the        *)
(* destructor, may return at once.                                         *)
StoppedIsQuiet ==
  stopping => /\ ~connected /\ childPid = NoPid
              /\ childObserver = NoPid /\ receiver = NoReceivers

(* A session is one thing: the child, its observer, its pipes and what the *)
(* bridge believes begin and end together, wherever the end comes from.    *)
SessionIsWhole == /\ BridgeIsTold /\ ChildIsObserved
                  /\ PipesServeTheSession /\ StoppedIsQuiet

(* A late callback of a pipe that belongs to an ended session leaves the   *)
(* current session alone.                                                  *)
OldPipesStayQuiet ==
  [][\A p \in Pipes, k \in Pids :
       PipeCloses(p, k) /\ k # childPid => UNCHANGED <<connected, receiver>>]_stdioVars

(* The exit of a child that nobody stopped is reported to the application  *)
(* when the child is reaped.                                               *)
ExitIsReported ==
  [][\A k \in Pids :
       (/\ eventLoop = "running" /\ ~stopping'
        /\ process[k] = "exited" /\ reaps'[k] > reaps[k]) => k \in reported']_stdioVars

(* No pipe callback waits for a child that is running.                     *)
CallbacksDoNotWait == ~blocked

(* A child that exits is reaped, even when the loop is stopped before its  *)
(* exit is dispatched.                                                     *)
ExitedChildrenAreReaped ==
  \A k \in Pids : process[k] = "exited" ~> reaps[k] > 0

(* Once the loop is told to stop it returns, and no child is left.         *)
ShutdownCompletes ==
  eventLoop = "stopping" ~> (eventLoop = "stopped" /\ childPid = NoPid)

(* Neither an exit nor a shutdown leaves a child behind.                   *)
NoChildIsLeft == ExitedChildrenAreReaped /\ ShutdownCompletes
=============================================================================
