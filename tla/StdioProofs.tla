----------------------------- MODULE StdioProofs ------------------------------
(***************************************************************************)
(* Theorems about the stdio provider.                                      *)
(*                                                                         *)
(* Its children: the safety of a session, for every set of children.       *)
(*                                                                         *)
(* The framing of its output: for every limit, every stream of bytes and   *)
(* every way in which reads may cut it.                                    *)
(*                                                                         *)
(* Between two passes of the loop a framer has told what framing makes of  *)
(* a part of the stream that ends with a line, and has the rest in its     *)
(* buffer, or it has failed where framing is stuck (FramerInv).  A pass    *)
(* keeps this and makes the rest shorter, so that a call ends with a rest  *)
(* that is a short line begun, unless the application threw; two more line *)
(* feeds take what was left by two messages that were thrown at.           *)
(***************************************************************************)
EXTENDS MCStdio, FoldTheorems

-----------------------------------------------------------------------------
(* The children *)

(* The inductive invariant.  The object's pointers name the current child  *)
(* or nothing; that is what makes every way of ending a session complete.  *)
ChildInv ==
  /\ StdioTypeOK
  /\ connected <=> childPid # NoPid
  /\ bridgeTold = connected
  /\ childObserver \in {NoPid, childPid}
  /\ \A p \in Pipes : receiver[p] \in {NoPid, childPid}
  /\ childPid # NoPid => process[childPid] # "unborn"
  /\ ChildrenReapedOnce
  /\ ChildIsObserved
  /\ stopping => ~connected

-----------------------------------------------------------------------------
LEMMA ChildInit == StdioInit => ChildInv
<1> SUFFICES ASSUME StdioInit PROVE ChildInv
  OBVIOUS
<1> USE StdioAssumption DEF StdioInit
<1>1. StdioTypeOK
  BY DEF StdioTypeOK, NoReceivers
<1>2. ChildrenReapedOnce /\ ChildIsObserved
  BY DEF ChildrenReapedOnce, ChildIsObserved
<1>3. \A p \in Pipes : receiver[p] \in {NoPid, childPid}
  BY DEF NoReceivers
<1> QED
  BY <1>1, <1>2, <1>3 DEF ChildInv

(* Whatever the caller did to the pipes, ending a session leaves nothing   *)
(* of it in the object.                                                    *)
LEMMA SessionEnds ==
  ASSUME ChildInv,
         NEW pointers \in [Pipes -> Pids \cup {NoPid}],
         NEW pipes \in [Pipes -> [Pids -> {"none", "open", "ended", "closed"}]],
         NEW notify \in BOOLEAN, connected => notify,
         TransitionToStopped(pointers, pipes, notify, TRUE),
         eventLoop' \in {"running", "stopping", "stopped"},
         stopping' \in BOOLEAN, reported' \subseteq Pids, blocked' \in BOOLEAN
  PROVE  ChildInv'
<1> USE StdioAssumption DEF ChildInv, TransitionToStopped
<1>1. StdioTypeOK'
  <2>1. receiver' \in [Pipes -> Pids \cup {NoPid}]
    BY DEF DetachCallbacks, NoReceivers
  <2>2. pipe' \in [Pipes -> [Pids -> {"none", "open", "ended", "closed"}]]
    BY DEF DetachCallbacks
  <2>3. observer' \in [Pids -> {"none", "watching", "fired", "closed"}]
    BY DEF DetachChildObserver, StdioTypeOK
  <2>4. /\ process' \in [Pids -> {"unborn", "running", "exited", "terminated"}]
        /\ reaps' \in [Pids -> Nat]
    BY DEF TerminateAndReap, StdioTypeOK
  <2>5. bridgeTold' \in BOOLEAN
    BY Zenon
  <2>6. /\ connected' \in BOOLEAN /\ childPid' \in Pids \cup {NoPid}
        /\ childObserver' \in Pids \cup {NoPid}
    BY DEF DetachChildObserver, TerminateAndReap
  <2> QED
    BY <2>1, <2>2, <2>3, <2>4, <2>5, <2>6 DEF StdioTypeOK
<1>2. /\ ~connected' /\ childPid' = NoPid /\ childObserver' = NoPid
      /\ \A p \in Pipes : receiver'[p] = NoPid
  BY DEF DetachChildObserver, DetachCallbacks, TerminateAndReap, NoReceivers
<1>3. bridgeTold' = connected'
  <2>1. bridgeTold' = (bridgeTold /\ ~(notify /\ connected))
    BY Zenon
  <2>2. ~connected'
    BY <1>2
  <2>3. ~bridgeTold'
    BY <2>1
  <2>4. bridgeTold' \in BOOLEAN /\ connected' \in BOOLEAN
    BY <1>1 DEF StdioTypeOK
  <2> QED
    BY <2>2, <2>3, <2>4
<1>4. ChildrenReapedOnce'
  <2> SUFFICES ASSUME NEW k \in Pids
               PROVE  reaps'[k] = IF k = childPid' \/ process'[k] = "unborn" THEN 0 ELSE 1
    BY DEF ChildrenReapedOnce
  <2>1. process'[k] = "unborn" <=> process[k] = "unborn"
    BY DEF TerminateAndReap, StdioTypeOK
  <2>2. reaps'[k] = IF k = childPid THEN reaps[k] + 1 ELSE reaps[k]
    BY DEF TerminateAndReap
  <2> QED
    BY <1>2, <2>1, <2>2 DEF ChildrenReapedOnce
<1>5. ChildIsObserved'
  BY <1>2 DEF ChildIsObserved, DetachChildObserver, StdioTypeOK
<1> QED
  BY <1>1, <1>2, <1>3, <1>4, <1>5

LEMMA TransportEnds ==
  ASSUME ChildInv,
         NEW pointers \in [Pipes -> Pids \cup {NoPid}],
         \A p \in Pipes : pointers[p] \in {NoPid, receiver[p]},
         NEW pipes \in [Pipes -> [Pids -> {"none", "open", "ended", "closed"}]],
         TransportClosed(pointers, pipes)
  PROVE  ChildInv'
<1>1. CASE connected
  <2>1. TransitionToStopped(pointers, pipes, TRUE, TRUE)
    BY <1>1 DEF TransportClosed
  <2>2. /\ eventLoop' \in {"running", "stopping", "stopped"}
        /\ stopping' \in BOOLEAN /\ reported' \subseteq Pids
    BY DEF TransportClosed, ChildInv, StdioTypeOK
  <2>3. blocked' \in BOOLEAN
    BY <1>1 DEF TransportClosed, ChildInv, StdioTypeOK
  <2> QED
    BY <2>1, <2>2, <2>3, SessionEnds
<1>2. CASE ~connected
  <2>1. /\ receiver' = pointers /\ pipe' = pipes
        /\ UNCHANGED <<connected, stopping, childPid, childObserver, eventLoop, observer,
                       process, bridgeTold, reported, reaps, blocked>>
    BY <1>2 DEF TransportClosed
  <2>2. StdioTypeOK'
    BY <2>1 DEF ChildInv, StdioTypeOK
  <2>3. ChildrenReapedOnce' /\ ChildIsObserved'
    BY <2>1 DEF ChildInv, ChildrenReapedOnce, ChildIsObserved
  <2> QED
    BY <2>1, <2>2, <2>3 DEF ChildInv
<1> QED
  BY <1>1, <1>2

LEMMA ChildStep == ChildInv /\ [StdioNext]_stdioVars => ChildInv'
<1> SUFFICES ASSUME ChildInv, [StdioNext]_stdioVars PROVE ChildInv'
  OBVIOUS
<1> USE StdioAssumption
<1>0. StdioTypeOK
  BY DEF ChildInv
<1>1. ASSUME NEW k \in Pids, Start(k) PROVE ChildInv'
  <2> USE <1>1 DEF Start, MayStart
  <2>1. StdioTypeOK'
    BY <1>0 DEF StdioTypeOK
  <2>2. ChildrenReapedOnce'
    BY <1>0 DEF ChildInv, ChildrenReapedOnce, StdioTypeOK
  <2>3. ChildIsObserved'
    BY <1>0 DEF ChildInv, ChildIsObserved, StdioTypeOK
  <2>4. /\ connected' /\ bridgeTold' /\ childPid' = k /\ childObserver' = k /\ ~stopping'
        /\ \A p \in Pipes : receiver'[p] = k
        /\ process'[k] # "unborn"
    BY <1>0 DEF StdioTypeOK
  <2>5. bridgeTold' = connected'
    BY Zenon
  <2>6. k # NoPid
    OBVIOUS
  <2> QED
    BY <2>1, <2>2, <2>3, <2>4, <2>5, <2>6 DEF ChildInv
<1>2. ASSUME NEW k \in Pids, StartAborts(k) PROVE ChildInv'
  <2> USE <1>2 DEF StartAborts, MayStart
  <2>1. StdioTypeOK'
    <3>1. pipe' \in [Pipes -> [Pids -> {"none", "open", "ended", "closed"}]]
      BY <1>0 DEF StdioTypeOK
    <3>2. reaps' \in [Pids -> Nat]
      BY <1>0 DEF StdioTypeOK
    <3>3. process' \in [Pids -> {"unborn", "running", "exited", "terminated"}]
      BY <1>0 DEF StdioTypeOK
    <3> QED
      BY <1>0, <3>1, <3>2, <3>3 DEF StdioTypeOK
  <2>2. ChildrenReapedOnce'
    BY <1>0 DEF ChildInv, ChildrenReapedOnce, StdioTypeOK
  <2>3. ChildIsObserved'
    BY DEF ChildInv, ChildIsObserved
  <2> QED
    BY <2>1, <2>2, <2>3 DEF ChildInv
<1>3. ASSUME NEW k \in Pids, ProcessExits(k) PROVE ChildInv'
  <2> USE <1>3 DEF ProcessExits, object, receivers
  <2>1. StdioTypeOK'
    BY <1>0 DEF StdioTypeOK
  <2>2. ChildrenReapedOnce' /\ ChildIsObserved'
    BY <1>0 DEF ChildInv, ChildrenReapedOnce, ChildIsObserved, StdioTypeOK
  <2>3. childPid # NoPid => process'[childPid] # "unborn"
    BY <1>0 DEF ChildInv, StdioTypeOK
  <2> QED
    BY <2>1, <2>2, <2>3 DEF ChildInv
<1>4. ASSUME NEW k \in Pids, ReceiveStdout(k) PROVE ChildInv'
  BY <1>0, <1>4, TransportEnds DEF ReceiveStdout, StdioTypeOK
<1>5. ASSUME NEW p \in Pipes, NEW k \in Pids, PipeEnds(p, k) PROVE ChildInv'
  <2> DEFINE ended == [pipe EXCEPT ![p][k] = "ended"]
             pointers == [receiver EXCEPT ![p] = NoPid]
  <2>1. /\ ended \in [Pipes -> [Pids -> {"none", "open", "ended", "closed"}]]
        /\ pointers \in [Pipes -> Pids \cup {NoPid}]
        /\ \A q \in Pipes : pointers[q] \in {NoPid, receiver[q]}
    BY <1>0 DEF StdioTypeOK
  <2>2. CASE p = "stderr"
    <3>1. /\ pipe' = ended
          /\ UNCHANGED <<connected, stopping, childPid, childObserver, receiver, eventLoop,
                         observer, process, bridgeTold, reported, reaps, blocked>>
      BY <1>5, <2>2 DEF PipeEnds, object
    <3>2. StdioTypeOK'
      BY <1>0, <2>1, <3>1 DEF StdioTypeOK
    <3> QED
      BY <3>1, <3>2 DEF ChildInv, ChildrenReapedOnce, ChildIsObserved
  <2>3. CASE p # "stderr"
    <3>1. TransportClosed(pointers, ended)
      BY <1>5, <2>3 DEF PipeEnds
    <3> QED
      BY <2>1, <3>1, TransportEnds
  <2> QED
    BY <2>2, <2>3
<1>6. ASSUME NEW p \in Pipes, NEW k \in Pids, PipeCloses(p, k) PROVE ChildInv'
  <2> DEFINE closed == [pipe EXCEPT ![p][k] = "closed"]
             pointers == [receiver EXCEPT ![p] = NoPid]
  <2>1. /\ closed \in [Pipes -> [Pids -> {"none", "open", "ended", "closed"}]]
        /\ pointers \in [Pipes -> Pids \cup {NoPid}]
        /\ \A q \in Pipes : pointers[q] \in {NoPid, receiver[q]}
    BY <1>0 DEF StdioTypeOK
  <2>2. CASE p # "stdin"
    <3>1. /\ pipe' = closed /\ receiver' = pointers
          /\ UNCHANGED <<connected, stopping, childPid, childObserver, eventLoop,
                         observer, process, bridgeTold, reported, reaps, blocked>>
      BY <1>6, <2>2 DEF PipeCloses
    <3>2. StdioTypeOK'
      BY <1>0, <2>1, <3>1 DEF StdioTypeOK
    <3>3. \A q \in Pipes : receiver'[q] \in {NoPid, childPid}
      BY <2>1, <3>1 DEF ChildInv
    <3> QED
      BY <3>1, <3>2, <3>3 DEF ChildInv, ChildrenReapedOnce, ChildIsObserved
  <2>3. CASE p = "stdin"
    <3>1. TransportClosed(pointers, closed)
      BY <1>6, <2>3 DEF PipeCloses
    <3> QED
      BY <2>1, <3>1, TransportEnds
  <2> QED
    BY <2>2, <2>3
<1>7. ASSUME NEW k \in Pids, ChildExitReady(k) PROVE ChildInv'
  <2> USE <1>7 DEF ChildExitReady
  <2>1. childObserver = k /\ childPid = k /\ connected /\ ~stopping
    BY DEF ChildInv, ChildIsObserved
  <2>2. /\ childObserver' = NoPid /\ childPid' = NoPid
        /\ connected' = FALSE
        /\ receiver' = NoReceivers
        /\ observer' = [observer EXCEPT ![k] = "fired"]
    BY <2>1 DEF TerminateAndReap, DetachCallbacks
  <2>3. /\ process' \in [Pids -> {"unborn", "running", "exited", "terminated"}]
        /\ reaps' \in [Pids -> Nat]
    BY <1>0, <2>1 DEF TerminateAndReap, StdioTypeOK
  <2>4. pipe' \in [Pipes -> [Pids -> {"none", "open", "ended", "closed"}]]
    BY <1>0, <2>1 DEF DetachCallbacks, StdioTypeOK
  <2>5. bridgeTold' = (bridgeTold /\ ~connected)
    BY <2>1, Zenon
  <2>6. bridgeTold' = FALSE
    BY <2>1, <2>5
  <2>7. eventLoop' \in {"running", "stopping", "stopped"} /\ reported' \subseteq Pids
    BY <1>0, <2>1 DEF StdioTypeOK
  <2>8. stopping' = stopping /\ blocked' = blocked
    BY <2>1
  <2>9. StdioTypeOK'
    BY <1>0, <2>2, <2>3, <2>4, <2>6, <2>7, <2>8 DEF StdioTypeOK, NoReceivers
  <2>10. ChildrenReapedOnce'
    <3> SUFFICES ASSUME NEW j \in Pids
                 PROVE  reaps'[j] = IF j = childPid' \/ process'[j] = "unborn" THEN 0 ELSE 1
      BY DEF ChildrenReapedOnce
    <3>1. process'[j] = "unborn" <=> process[j] = "unborn"
      BY <1>0, <2>1 DEF TerminateAndReap, StdioTypeOK
    <3>2. reaps'[j] = IF j = childPid THEN reaps[j] + 1 ELSE reaps[j]
      BY <2>1 DEF TerminateAndReap
    <3> QED
      BY <2>1, <2>2, <3>1, <3>2 DEF ChildrenReapedOnce, ChildInv
  <2>11. ChildIsObserved'
    BY <1>0, <2>1, <2>2 DEF ChildIsObserved, ChildInv, StdioTypeOK
  <2> QED
    BY <2>2, <2>6, <2>9, <2>10, <2>11 DEF ChildInv, NoReceivers
<1>8. ASSUME NEW k \in Pids, ChildObserverClosed(k) PROVE ChildInv'
  <2> USE <1>8 DEF ChildObserverClosed
  <2>1. StdioTypeOK'
    BY <1>0 DEF StdioTypeOK
  <2>2. ChildIsObserved'
    BY <1>0 DEF ChildInv, ChildIsObserved, StdioTypeOK
  <2>3. ChildrenReapedOnce'
    BY DEF ChildInv, ChildrenReapedOnce
  <2> QED
    BY <2>1, <2>2, <2>3 DEF ChildInv
<1>9. ASSUME StartFails PROVE ChildInv'
  <2> USE <1>9 DEF StartFails, MayStart, receivers
  <2>1. StdioTypeOK'
    BY <1>0 DEF StdioTypeOK
  <2> QED
    BY <2>1 DEF ChildInv, ChildrenReapedOnce, ChildIsObserved
<1>10. ASSUME Stop PROVE ChildInv'
  <2>1. /\ TransitionToStopped(receiver, pipe, connected, TRUE)
        /\ stopping' = TRUE /\ UNCHANGED <<eventLoop, reported, blocked>>
    BY <1>10 DEF Stop
  <2>2. /\ receiver \in [Pipes -> Pids \cup {NoPid}]
        /\ pipe \in [Pipes -> [Pids -> {"none", "open", "ended", "closed"}]]
        /\ connected \in BOOLEAN
    BY <1>0 DEF StdioTypeOK
  <2>3. /\ eventLoop' \in {"running", "stopping", "stopped"}
        /\ stopping' \in BOOLEAN /\ reported' \subseteq Pids
    BY <1>0, <2>1 DEF StdioTypeOK
  <2>4. blocked' \in BOOLEAN
    BY <1>0, <2>1 DEF StdioTypeOK
  <2>5. TransitionToStopped(receiver, pipe, TRUE, TRUE)
    <3>1. bridgeTold' = (bridgeTold /\ ~(TRUE /\ connected))
      BY <2>1, Zenon DEF TransitionToStopped
    <3> QED
      BY <2>1, <3>1, Zenon DEF TransitionToStopped
  <2> QED
    BY <2>2, <2>3, <2>4, <2>5, SessionEnds
<1>11. ASSUME StopEventLoop \/ EventLoopReturns PROVE ChildInv'
  <2>1. /\ eventLoop' \in {"stopping", "stopped"}
        /\ UNCHANGED <<connected, stopping, childPid, childObserver, receiver,
                       observer, pipe, process, bridgeTold, reported, reaps, blocked>>
    BY <1>11 DEF StopEventLoop, EventLoopReturns, object, receivers
  <2>2. StdioTypeOK'
    BY <1>0, <2>1 DEF StdioTypeOK
  <2> QED
    BY <2>1, <2>2 DEF ChildInv, ChildrenReapedOnce, ChildIsObserved
<1>12. ASSUME UNCHANGED stdioVars PROVE ChildInv'
  BY <1>12 DEF stdioVars, object, receivers, ChildInv, StdioTypeOK, ChildrenReapedOnce, ChildIsObserved
<1> QED
  BY <1>1, <1>2, <1>3, <1>4, <1>5, <1>6, <1>7, <1>8, <1>9, <1>10, <1>11, <1>12 DEF StdioNext

LEMMA ChildInvariant == StdioSpec => []ChildInv
  BY ChildInit, ChildStep, PTL DEF StdioSpec

(* The provider's state stays well typed.                                  *)
THEOREM StdioTypeCorrect == StdioSpec => []StdioTypeOK
  BY ChildInvariant, PTL DEF ChildInv

(* Every child that was spawned is waited for exactly once, when it stops  *)
(* being the current one.                                                  *)
THEOREM ReapedOnce == StdioSpec => []ChildrenReapedOnce
  BY ChildInvariant, PTL DEF ChildInv

(* The bridge has been told of a session exactly while there is one, and   *)
(* there is one exactly while a child is owned.                            *)
THEOREM SessionsAreTold == StdioSpec => []BridgeIsTold
<1>1. ChildInv => BridgeIsTold
  BY DEF ChildInv, BridgeIsTold
<1> QED
  BY <1>1, ChildInvariant, PTL

(* The current child, and no other, is observed while the loop runs.       *)
THEOREM ObservedWhileRunning == StdioSpec => []ChildIsObserved
  BY ChildInvariant, PTL DEF ChildInv

(* stop() leaves nothing behind that a second call would have to end.      *)
THEOREM QuietAfterStop == StdioSpec => []StoppedIsQuiet
<1>1. ChildInv => StoppedIsQuiet
  <2> SUFFICES ASSUME ChildInv, stopping
               PROVE  /\ ~connected /\ childPid = NoPid
                      /\ childObserver = NoPid /\ receiver = NoReceivers
    BY DEF StoppedIsQuiet
  <2>1. ~connected /\ childPid = NoPid /\ childObserver = NoPid
    BY DEF ChildInv
  <2>2. \A p \in Pipes : receiver[p] = NoPid
    BY <2>1 DEF ChildInv
  <2>3. receiver = NoReceivers
    BY <2>2 DEF ChildInv, StdioTypeOK, NoReceivers
  <2> QED
    BY <2>1, <2>3
<1> QED
  BY <1>1, ChildInvariant, PTL

-----------------------------------------------------------------------------
(* The pipes, when a session starts only after the callbacks of the one    *)
(* before are over.  A receiver that has ended belongs to no session, or   *)
(* is the stderr of the current one.                                       *)
PipeInv ==
  /\ PipesServeTheSession
  /\ \A k \in Pids : pipe["stdin"][k] = "ended" \/ pipe["stdout"][k] = "ended"
                       => childPid = NoPid
  /\ \A k \in Pids : pipe["stderr"][k] = "ended" => receiver["stderr"] = k

(* What a caller of transportClosed leaves of the pipes: it has cleared    *)
(* the pointer of a receiver that has ended or closed, and no other.       *)
PipesLeft(pointers, pipes) ==
  /\ \A p \in Pipes, k \in Pids : pipes[p][k] = "open" => pointers[p] = k
  /\ \A k \in Pids : pipes["stderr"][k] = "ended" => pointers["stderr"] = k

LEMMA PipesEnd ==
  ASSUME ChildInv, NEW pointers, NEW pipes, PipesLeft(pointers, pipes),
         NEW notify, TransitionToStopped(pointers, pipes, notify, TRUE)
  PROVE  PipeInv'
<1>1. connected' = FALSE /\ childPid' = NoPid
  BY DEF TransitionToStopped, TerminateAndReap
<1>2. pipe' = [p \in Pipes |-> [k \in Pids |->
                 IF k = pointers[p] THEN "closed" ELSE pipes[p][k]]]
  BY DEF TransitionToStopped, DetachCallbacks
<1>3. \A p \in Pipes, k \in Pids : pipe'[p][k] # "open"
  BY <1>2 DEF PipesLeft
<1>4. \A k \in Pids : pipe'["stderr"][k] # "ended"
  BY <1>2 DEF PipesLeft, Pipes
<1> QED
  BY <1>1, <1>3, <1>4 DEF PipeInv, PipesServeTheSession

LEMMA PipesTransport ==
  ASSUME ChildInv, NEW pointers \in [Pipes -> Pids \cup {NoPid}],
         \A p \in Pipes : pointers[p] \in {NoPid, receiver[p]},
         NEW pipes, PipesLeft(pointers, pipes),
         TransportClosed(pointers, pipes)
  PROVE  PipeInv'
<1>1. CASE connected
  BY <1>1, PipesEnd DEF TransportClosed
<1>2. CASE ~connected
  <2>1. receiver' = pointers /\ pipe' = pipes /\ connected' = connected /\ childPid' = childPid
    BY <1>2 DEF TransportClosed
  <2>2. childPid = NoPid /\ \A p \in Pipes : pointers[p] = NoPid
    BY <1>2 DEF ChildInv
  <2>3. /\ \A p \in Pipes, k \in Pids : pipes[p][k] # "open"
        /\ \A k \in Pids : pipes["stderr"][k] # "ended"
    BY <2>2, StdioAssumption DEF PipesLeft, Pipes
  <2> QED
    BY <1>2, <2>1, <2>2, <2>3 DEF PipeInv, PipesServeTheSession
<1> QED
  BY <1>1, <1>2

LEMMA PipeStep ==
  ASSUME ~RestartsInCallback, ChildInv, PipeInv, [StdioNext]_stdioVars
  PROVE  PipeInv'
<1> USE StdioAssumption
<1>0. /\ receiver \in [Pipes -> Pids \cup {NoPid}]
      /\ pipe \in [Pipes -> [Pids -> {"none", "open", "ended", "closed"}]]
  BY DEF ChildInv, StdioTypeOK
<1>a. PipesLeft(receiver, pipe)
  BY DEF PipeInv, PipesServeTheSession, PipesLeft
<1>b. ASSUME NEW p \in Pipes, NEW k \in Pids, NEW state \in {"ended", "closed"},
             p = "stderr" => state = "closed",
             \A j \in Pids \ {k} :
               pipe[p][j] # "open" /\ (p = "stderr" => pipe[p][j] # "ended")
      PROVE  PipesLeft([receiver EXCEPT ![p] = NoPid], [pipe EXCEPT ![p][k] = state])
  <2> DEFINE pointers == [receiver EXCEPT ![p] = NoPid]
             pipes == [pipe EXCEPT ![p][k] = state]
  <2>1. \A q \in Pipes, j \in Pids :
          /\ pointers[q] = IF q = p THEN NoPid ELSE receiver[q]
          /\ pipes[q][j] = IF q = p /\ j = k THEN state ELSE pipe[q][j]
    BY <1>0
  <2> HIDE DEF pointers, pipes
  <2>2. PipesLeft(pointers, pipes)
    BY <1>a, <1>b, <2>1 DEF PipesLeft, Pipes
  <2> QED
    BY <2>2 DEF pointers, pipes
<1>c. ASSUME NEW p \in Pipes
      PROVE  /\ [receiver EXCEPT ![p] = NoPid] \in [Pipes -> Pids \cup {NoPid}]
             /\ \A q \in Pipes : [receiver EXCEPT ![p] = NoPid][q] \in {NoPid, receiver[q]}
  BY <1>0
<1>1. ASSUME NEW k \in Pids, Start(k) PROVE PipeInv'
  <2>1. /\ receiver' = [p \in Pipes |-> k] /\ childPid' = k
        /\ pipe' = [p \in Pipes |-> [pipe[p] EXCEPT ![k] = "open"]]
        /\ Settled /\ childPid = NoPid
    BY <1>1 DEF Start, MayStart
  <2>2. \A p \in Pipes, j \in Pids : pipe'[p][j] = IF j = k THEN "open" ELSE pipe[p][j]
    BY <1>0, <2>1
  <2>3. \A p \in Pipes, j \in Pids : pipe[p][j] \notin {"open", "ended"}
    BY <2>1 DEF Settled, PipeInv, PipesServeTheSession
  <2>4. PipesServeTheSession'
    BY <2>1, <2>2, <2>3 DEF PipesServeTheSession, Pipes
  <2>5. \A p \in Pipes, j \in Pids : pipe'[p][j] # "ended"
    BY <2>2, <2>3
  <2> QED
    BY <2>4, <2>5 DEF PipeInv, Pipes
<1>2. ASSUME NEW k \in Pids, StartAborts(k) PROVE PipeInv'
  <2>1. /\ UNCHANGED <<receiver, childPid, connected>> /\ ~connected
        /\ pipe' = [p \in Pipes |-> [pipe[p] EXCEPT ![k] = "closed"]]
    BY <1>2 DEF StartAborts, MayStart
  <2>2. \A p \in Pipes, j \in Pids : pipe'[p][j] = IF j = k THEN "closed" ELSE pipe[p][j]
    BY <1>0, <2>1
  <2> QED
    BY <2>1, <2>2 DEF PipeInv, PipesServeTheSession, Pipes
<1>3. ASSUME NEW k \in Pids, ReceiveStdout(k) PROVE PipeInv'
  BY <1>0, <1>3, <1>a, PipesTransport DEF ReceiveStdout
<1>4. ASSUME NEW p \in Pipes, NEW k \in Pids, PipeEnds(p, k) PROVE PipeInv'
  <2>1. receiver[p] = k /\ k = childPid
    BY <1>4 DEF PipeEnds, PipeInv, PipesServeTheSession
  <2>2. CASE p = "stderr"
    <3>1. /\ pipe' = [pipe EXCEPT !["stderr"][k] = "ended"]
          /\ UNCHANGED <<eventLoop, receiver, childPid, connected>>
      BY <1>4, <2>2 DEF PipeEnds, object
    <3>2. \A q \in Pipes, j \in Pids :
            pipe'[q][j] = IF q = "stderr" /\ j = k THEN "ended" ELSE pipe[q][j]
      BY <1>0, <3>1
    <3>3. PipesServeTheSession'
      BY <3>1, <3>2 DEF PipeInv, PipesServeTheSession, ChildInv, Pipes
    <3> QED
      BY <2>1, <2>2, <3>1, <3>2, <3>3 DEF PipeInv, Pipes
  <2>3. CASE p # "stderr"
    <3>1. TransportClosed([receiver EXCEPT ![p] = NoPid], [pipe EXCEPT ![p][k] = "ended"])
      BY <1>4, <2>3 DEF PipeEnds
    <3>2. \A j \in Pids \ {k} : pipe[p][j] # "open"
      BY <2>1, <1>a DEF PipesLeft
    <3>3. PipesLeft([receiver EXCEPT ![p] = NoPid], [pipe EXCEPT ![p][k] = "ended"])
      BY <1>b, <2>3, <3>2
    <3> QED
      BY <1>c, <3>1, <3>3, PipesTransport
  <2> QED
    BY <2>2, <2>3
<1>5. ASSUME NEW p \in Pipes, NEW k \in Pids, PipeCloses(p, k) PROVE PipeInv'
  <2>1. pipe[p][k] = "open" \/ pipe[p][k] = "ended"
    BY <1>5 DEF PipeCloses
  <2>2. \A j \in Pids \ {k} : pipe[p][j] # "open" /\ (p = "stderr" => pipe[p][j] # "ended")
    <3>1. CASE pipe[p][k] = "open" \/ p = "stderr"
      BY <1>a, <2>1, <3>1 DEF PipesLeft
    <3>2. CASE p # "stderr" /\ pipe[p][k] = "ended"
      <4>1. childPid = NoPid
        BY <3>2 DEF PipeInv, Pipes
      <4> QED
        BY <3>2, <4>1 DEF PipeInv, PipesServeTheSession
    <3> QED
      BY <2>1, <3>1, <3>2
  <2>3. PipesLeft([receiver EXCEPT ![p] = NoPid], [pipe EXCEPT ![p][k] = "closed"])
    BY <1>b, <2>2
  <2>4. CASE p = "stdin"
    <3>1. TransportClosed([receiver EXCEPT ![p] = NoPid], [pipe EXCEPT ![p][k] = "closed"])
      BY <1>5, <2>4 DEF PipeCloses
    <3> QED
      BY <1>c, <2>3, <3>1, PipesTransport
  <2>5. CASE p # "stdin"
    <3>1. /\ pipe' = [pipe EXCEPT ![p][k] = "closed"]
          /\ receiver' = [receiver EXCEPT ![p] = NoPid]
          /\ UNCHANGED <<connected, childPid, eventLoop>>
      BY <1>5, <2>5 DEF PipeCloses
    <3>2. PipesLeft(receiver', pipe')
      BY <2>3, <3>1
    <3>3. \A q \in Pipes, j \in Pids :
            /\ pipe'[q][j] = IF q = p /\ j = k THEN "closed" ELSE pipe[q][j]
            /\ receiver'[q] = IF q = p THEN NoPid ELSE receiver[q]
      BY <1>0, <3>1
    <3>4. \A q \in Pipes, j \in Pids : pipe'[q][j] = "open" => j = childPid' /\ receiver'[q] = j
      BY <3>1, <3>2, <3>3 DEF PipesLeft, PipeInv, PipesServeTheSession
    <3>5. eventLoop = "running" /\ connected => p = "stderr"
      BY <1>5, <2>5, <2>1 DEF PipeCloses, PipeInv, ChildInv, Pipes
    <3>6. eventLoop' = "running" /\ connected' => \A q \in {"stdin", "stdout"} :
            receiver'[q] = childPid' /\ pipe'[q][childPid'] = "open"
      BY <3>1, <3>3, <3>5 DEF PipeInv, PipesServeTheSession, ChildInv, StdioTypeOK, Pipes
    <3> QED
      BY <3>1, <3>2, <3>3, <3>4, <3>6 DEF PipeInv, PipesServeTheSession, PipesLeft, Pipes
  <2> QED
    BY <2>4, <2>5
<1>6. ASSUME NEW k \in Pids, ChildExitReady(k) PROVE PipeInv'
  <2>1. childObserver = k /\ childPid = k
    BY <1>6 DEF ChildInv, ChildIsObserved, ChildExitReady
  <2>2. connected' = FALSE /\ childPid' = NoPid /\ DetachCallbacks(receiver, pipe)
    BY <1>6, <2>1 DEF ChildExitReady, TerminateAndReap
  <2>3. pipe' = [p \in Pipes |-> [j \in Pids |->
                   IF j = receiver[p] THEN "closed" ELSE pipe[p][j]]]
    BY <2>2 DEF DetachCallbacks
  <2>4. /\ \A p \in Pipes, j \in Pids : pipe'[p][j] # "open"
        /\ \A j \in Pids : pipe'["stderr"][j] # "ended"
    BY <1>a, <2>3 DEF PipesLeft, Pipes
  <2> QED
    BY <2>2, <2>4 DEF PipeInv, PipesServeTheSession
<1>7. ASSUME Stop PROVE PipeInv'
  BY <1>7, <1>a, PipesEnd DEF Stop
<1>8. ASSUME \/ \E k \in Pids : ProcessExits(k) \/ ChildObserverClosed(k)
             \/ StartFails \/ StopEventLoop \/ EventLoopReturns \/ UNCHANGED stdioVars
      PROVE  PipeInv'
  <2>1. /\ UNCHANGED <<receiver, pipe, childPid, connected>>
        /\ eventLoop' = "running" => eventLoop = "running"
    BY <1>8 DEF ProcessExits, ChildObserverClosed, StartFails, StopEventLoop, EventLoopReturns, stdioVars,
                object, receivers
  <2> QED
    BY <2>1 DEF PipeInv, PipesServeTheSession
<1> QED
  BY <1>1, <1>2, <1>3, <1>4, <1>5, <1>6, <1>7, <1>8 DEF StdioNext

LEMMA PipeInvariant ==
  ASSUME ~RestartsInCallback
  PROVE  StdioSpec => [](ChildInv /\ PipeInv)
<1>1. StdioInit => ChildInv /\ PipeInv
  BY ChildInit DEF StdioInit, PipeInv, PipesServeTheSession, Pipes
<1>2. ChildInv /\ PipeInv /\ [StdioNext]_stdioVars => ChildInv' /\ PipeInv'
  BY ChildStep, PipeStep
<1> QED
  BY <1>1, <1>2, PTL DEF StdioSpec

(* If sessions do not overlap with the callbacks of the one before, a      *)
(* connected provider has its pipes and no other session's pipe delivers.  *)
THEOREM PipesServe ==
  ASSUME ~RestartsInCallback
  PROVE  StdioSpec => []PipesServeTheSession
<1>1. PipeInv => PipesServeTheSession
  BY DEF PipeInv
<1> QED
  BY <1>1, PipeInvariant, PTL

(* Under the same assumption the late callbacks of ended pipes are         *)
(* harmless; run stdio_restart shows that the assumption is needed.        *)
THEOREM OldPipesQuiet ==
  ASSUME ~RestartsInCallback
  PROVE  StdioSpec => OldPipesStayQuiet
<1>1. ASSUME ChildInv, PipeInv, [StdioNext]_stdioVars,
             NEW p \in Pipes, NEW k \in Pids, PipeCloses(p, k), k # childPid
      PROVE  UNCHANGED <<connected, receiver>>
  <2>1. pipe[p][k] = "ended" /\ childPid = NoPid
    <3>1. pipe[p][k] = "ended"
      BY <1>1 DEF PipeCloses, PipeInv, PipesServeTheSession
    <3>2. p # "stderr"
      BY <1>1, <3>1, StdioAssumption DEF PipeInv, ChildInv, Pipes
    <3> QED
      BY <1>1, <3>1, <3>2 DEF PipeInv, Pipes
  <2>2. ~connected /\ \A q \in Pipes : receiver[q] = NoPid
    BY <1>1, <2>1 DEF ChildInv
  <2>3. connected' = connected /\ receiver' = [receiver EXCEPT ![p] = NoPid]
    BY <1>1, <2>2 DEF PipeCloses, TransportClosed
  <2>4. receiver' = receiver
    BY <1>1, <2>2, <2>3 DEF ChildInv, StdioTypeOK
  <2> QED
    BY <2>3, <2>4
<1>2. ChildInv /\ PipeInv /\ [StdioNext]_stdioVars
        => [\A p \in Pipes, k \in Pids :
              PipeCloses(p, k) /\ k # childPid => UNCHANGED <<connected, receiver>>]_stdioVars
  BY <1>1
<1> QED
  BY <1>2, PipeInvariant, PTL DEF StdioSpec, OldPipesStayQuiet

(* Under the same assumption the child, its observer, its pipes and what   *)
(* the bridge believes begin and end together.                             *)
THEOREM WholeSessions ==
  ASSUME ~RestartsInCallback
  PROVE  StdioSpec => []SessionIsWhole
<1>1. BridgeIsTold /\ ChildIsObserved /\ PipesServeTheSession /\ StoppedIsQuiet
        => SessionIsWhole
  BY DEF SessionIsWhole
<1> QED
  BY <1>1, SessionsAreTold, ObservedWhileRunning, PipesServe, QuietAfterStop, PTL

-----------------------------------------------------------------------------
(* The framer *)

Lines == Seq(Bytes)
Framers ==
  {f \in [buffer : Lines, offset : Nat, failed : BOOLEAN, consuming : BOOLEAN,
          out : Seq(Lines), errors : Nat] : f.offset <= Len(f.buffer)}
Framings == [line : Lines, broken : BOOLEAN, out : Seq(Lines)]
NothingFramed == [line |-> <<>>, broken |-> FALSE, out |-> <<>>]

-----------------------------------------------------------------------------
(* Types *)

LEMMA WithoutCrType ==
  ASSUME NEW line \in Lines PROVE WithoutCr(line) \in Lines
<1>1. CASE line = <<>> \/ Last(line) # "CR"
  BY <1>1 DEF WithoutCr
<1>2. CASE line # <<>> /\ Last(line) = "CR"
  <2>1. Len(line) \in Nat /\ \A i \in 1 .. Len(line) : line[i] \in Bytes
    BY LenProperties, ElementOfSeq DEF Lines
  <2>2. \A i \in 1 .. Len(line) - 1 : line[i] \in Bytes
    BY <2>1
  <2>3. SubSeq(line, 1, Len(line) - 1) \in Seq(Bytes)
    BY <2>1, <2>2, SubSeqProperties
  <2> QED BY <1>2, <2>3 DEF WithoutCr, Front, Lines
<1> QED BY <1>1, <1>2

LEMMA NextByteType ==
  ASSUME NEW limit, NEW s \in Framings, NEW byte \in Bytes
  PROVE  NextByte(limit, s, byte) \in Framings
<1> DEFINE broken == s.broken \/ ~IsFrame(limit, s.line)
           tells == ~broken /\ WithoutCr(s.line) # <<>>
           out == IF tells THEN Append(s.out, WithoutCr(s.line)) ELSE s.out
<1>1. s.line \in Lines /\ s.broken \in BOOLEAN /\ s.out \in Seq(Lines)
  BY DEF Framings
<1>2. WithoutCr(s.line) \in Lines
  BY <1>1, WithoutCrType
<1>3. Append(s.line, byte) \in Lines /\ <<>> \in Lines
  BY <1>1, AppendProperties, EmptySeq DEF Lines
<1>4. Append(s.out, WithoutCr(s.line)) \in Seq(Lines)
  BY <1>1, <1>2, AppendProperties
<1>5. broken \in BOOLEAN
  BY <1>1, Zenon DEF IsFrame
<1>6. out \in Seq(Lines)
  BY <1>1, <1>4
<1>7. NextByte(limit, s, byte) = IF byte # "LF" THEN [s EXCEPT !.line = Append(s.line, byte)]
                                 ELSE [line |-> <<>>, broken |-> broken, out |-> out]
  BY Zenon DEF NextByte
<1> HIDE DEF broken, out
<1>8. [s EXCEPT !.line = Append(s.line, byte)] \in Framings
  <2> DEFINE longer == Append(s.line, byte)
  <2> HIDE DEF longer
  <2> QED BY <1>3 DEF Framings, longer
<1>9. [line |-> <<>>, broken |-> broken, out |-> out] \in Framings
  BY <1>3, <1>5, <1>6 DEF Framings
<1> QED BY <1>7, <1>8, <1>9, Zenon

-----------------------------------------------------------------------------
(* The folds, by steps that are functions *)

NextBytes(limit) == [q \in Framings \X Bytes |-> NextByte(limit, q[1], q[2])]
LEMMA NextBytesType ==
  ASSUME NEW limit PROVE NextBytes(limit) \in FoldSteps(Framings, Bytes)
  BY NextByteType DEF NextBytes, FoldSteps

LEMMA FramingFolded ==
  ASSUME NEW limit, NEW b \in Lines
  PROVE  Framing(limit, b) = Folded(NextBytes(limit), NothingFramed, b)
<1> DEFINE seq == b
           Chosen(h) == h = [s \in SUBSET DOMAIN seq |->
                               IF s = {} THEN NothingFramed ELSE 
                                 NextByte(limit, h[s \ {Max(s)}], seq[Max(s)])]
           C == CHOOSE h : Chosen(h)
<1>1. NothingFramed \in Framings /\ seq \in Seq(Bytes)
  BY EmptySeq DEF Framings, NothingFramed, Lines
<1>2. \A s \in SUBSET DOMAIN seq : s # {} => seq[Max(s)] \in Bytes
  BY <1>1, SequenceMax
<1>3. Framing(limit, b) = C[DOMAIN seq]
  BY DEF Framing, NothingFramed, FoldLeft, MapThenFoldSet
<1> HIDE DEF seq
<1>4. NextBytes(limit) \in FoldSteps(Framings, Bytes)
  BY NextBytesType
<1>5. PICK g \in [SUBSET DOMAIN seq -> Framings] : Solves(g, NextBytes(limit), NothingFramed, seq)
  BY <1>1, <1>4, SolutionExists
<1>6. Chosen(g)
  BY <1>1, <1>2, <1>5 DEF Solves, NextBytes
<1>7. Chosen(C)
  BY <1>6
<1> HIDE DEF C
<1>8. ASSUME NEW s \in SUBSET DOMAIN seq, s # {}, C[s \ {Max(s)}] \in Framings
      PROVE  C[s] = NextBytes(limit)[<<C[s \ {Max(s)}], seq[Max(s)]>>]
  BY <1>2, <1>7, <1>8 DEF NextBytes
<1>9. FoldsLike(C, Framings, NextBytes(limit), NothingFramed, seq)
  BY <1>7, <1>8 DEF FoldsLike
<1>10. Folded(NextBytes(limit), NothingFramed, seq) = C[DOMAIN seq]
  <2> DEFINE op == NextBytes(limit)
             base == NothingFramed
             S == Framings
             E == Bytes
  <2>1. op \in FoldSteps(S, E) /\ base \in S /\ seq \in Seq(E) /\ FoldsLike(C, S, op, base, seq)
    BY <1>1, <1>4, <1>9
  <2> HIDE DEF op, base, S, E
  <2>2. Folded(op, base, seq) = C[DOMAIN seq]
    BY <2>1, FoldedIsFold
  <2> QED BY <2>2 DEF op, base
<1> QED BY <1>3, <1>10 DEF seq

LEMMA FramingLaws ==
  ASSUME NEW limit
  PROVE  /\ Framing(limit, <<>>) = NothingFramed
         /\ \A b \in Lines : Framing(limit, b) \in Framings
         /\ \A b \in Lines, byte \in Bytes :
              Framing(limit, Append(b, byte)) = NextByte(limit, Framing(limit, b), byte)
<1> DEFINE op == NextBytes(limit)
           base == NothingFramed
           S == Framings
           E == Bytes
<1>1. op \in FoldSteps(S, E) /\ base \in S /\ <<>> \in Seq(E)
  BY NextBytesType, EmptySeq DEF Framings, NothingFramed, Lines
<1>2. \A s \in S, e \in E : op[<<s, e>>] = NextByte(limit, s, e)
  BY DEF NextBytes
<1>3. \A b \in Seq(E) : Framing(limit, b) = Folded(op, base, b)
  BY FramingFolded DEF Lines
<1>4. \A b \in Seq(E), e \in E : Append(b, e) \in Seq(E)
  BY AppendProperties
<1> HIDE DEF op, base, S, E
<1>5. /\ Folded(op, base, <<>>) = base
      /\ \A b \in Seq(E) : Folded(op, base, b) \in S
      /\ \A b \in Seq(E), e \in E :
           Folded(op, base, Append(b, e)) = op[<<Folded(op, base, b), e>>]
  BY <1>1, FoldedLaws
<1>6. Framing(limit, <<>>) = base
  BY <1>1, <1>3, <1>5
<1>7. \A b \in Seq(E) : Framing(limit, b) \in S
  BY <1>3, <1>5
<1>8. ASSUME NEW b \in Seq(E), NEW e \in E
      PROVE  Framing(limit, Append(b, e)) = NextByte(limit, Framing(limit, b), e)
  <2>1. Framing(limit, Append(b, e)) = Folded(op, base, Append(b, e))
    BY <1>3, <1>4
  <2>2. Folded(op, base, Append(b, e)) = op[<<Framing(limit, b), e>>]
    BY <1>3, <1>5
  <2> QED BY <2>1, <2>2, <1>2, <1>7
<1> QED BY <1>6, <1>7, <1>8 DEF base, S, E, Lines

-----------------------------------------------------------------------------
(* Framing, a line at a time *)

LEMMA BytesConcat ==
  \A p \in Lines, q \in Lines, r \in Lines : (p \o q) \o r = p \o (q \o r)
BY ConcatAssociative, SMTT(30) DEF Lines

LEMMA BytesAppend ==
  ASSUME NEW p \in Lines, NEW line \in Lines, NEW byte \in Bytes
  PROVE  p \o Append(line, byte) = Append(p \o line, byte)
<1>1. <<byte>> \in Lines /\ p \o line \in Lines
  BY ConcatProperties DEF Lines
<1>2. Append(line, byte) = line \o <<byte>> /\ Append(p \o line, byte) = (p \o line) \o <<byte>>
  BY <1>1, AppendIsConcat DEF Lines
<1>3. p \o (line \o <<byte>>) = (p \o line) \o <<byte>>
  BY <1>1, ConcatAssociative, SMTT(30) DEF Lines
<1> QED BY <1>2, <1>3

(* Where a line begins, and where it has come to.                          *)
Reached(line, out) == [line |-> line, broken |-> FALSE, out |-> out]
NoNewline(line) == \A i \in 1 .. Len(line) : line[i] # "LF"

LEMMA ReachedFields ==
  ASSUME NEW line, NEW out
  PROVE  /\ Reached(line, out).line = line /\ Reached(line, out).broken = FALSE
         /\ Reached(line, out).out = out
  BY DEF Reached

(* Bytes other than a line feed make the line longer.                      *)
LEMMA LineGrows ==
  ASSUME NEW limit, NEW p \in Lines, NEW out, Framing(limit, p) = Reached(<<>>, out),
         NEW line \in Lines, NoNewline(line)
  PROVE  Framing(limit, p \o line) = Reached(line, out)
<1> DEFINE G == {s \in Lines : NoNewline(s) => Framing(limit, p \o s) = Reached(s, out)}
<1>1. <<>> \in G
  BY EmptySeq, ConcatEmptySeq DEF Lines
<1>2. ASSUME NEW s \in Seq(Bytes), NEW byte \in Bytes, s \in G PROVE Append(s, byte) \in G
  <2>1. Append(s, byte) \in Lines /\ s \in Lines /\ p \o s \in Lines
    BY AppendProperties, ConcatProperties DEF Lines
  <2> SUFFICES ASSUME NoNewline(Append(s, byte))
               PROVE  Framing(limit, p \o Append(s, byte)) = Reached(Append(s, byte), out)
    BY <2>1
  <2>2. byte # "LF" /\ NoNewline(s)
    <3>1. /\ Len(s) \in Nat /\ Len(Append(s, byte)) = Len(s) + 1
          /\ Append(s, byte)[Len(s) + 1] = byte
          /\ \A i \in 1 .. Len(s) : Append(s, byte)[i] = s[i]
      BY AppendProperties, LenProperties
    <3>2. Len(s) + 1 \in 1 .. Len(s) + 1 /\ \A i \in 1 .. Len(s) : i \in 1 .. Len(s) + 1
      BY <3>1
    <3> QED BY <3>1, <3>2 DEF NoNewline
  <2>3. Framing(limit, p \o s) = Reached(s, out)
    BY <1>2, <2>2
  <2>4. Framing(limit, p \o Append(s, byte)) = NextByte(limit, Reached(s, out), byte)
    <3>1. Framing(limit, Append(p \o s, byte)) = NextByte(limit, Framing(limit, p \o s), byte)
      BY <2>1, FramingLaws
    <3>2. p \o Append(s, byte) = Append(p \o s, byte)
      BY <2>1, BytesAppend
    <3> QED BY <3>1, <3>2, <2>3, Zenon
  <2>5. NextByte(limit, Reached(s, out), byte) = Reached(Append(s, byte), out)
    BY <2>2 DEF NextByte, Reached
  <2> QED BY <2>4, <2>5
<1>3. Seq(Bytes) \subseteq G
  <2> HIDE DEF G
  <2> QED BY <1>1, <1>2, AppendInduction
<1> QED BY <1>3 DEF Lines

(* A line feed ends it.                                                    *)
LEMMA LineEnds ==
  ASSUME NEW limit, NEW p \in Lines, NEW line, NEW out, Framing(limit, p) = Reached(line, out)
  PROVE  Framing(limit, Append(p, "LF")) =
           [line |-> <<>>, broken |-> ~IsFrame(limit, line),
            out |-> IF IsFrame(limit, line) /\ WithoutCr(line) # <<>>
                    THEN Append(out, WithoutCr(line)) ELSE out]
<1>1. "LF" \in Bytes
  BY DEF Bytes
<1>2. Framing(limit, Append(p, "LF")) = NextByte(limit, Reached(line, out), "LF")
  BY <1>1, FramingLaws
<1>3. IsFrame(limit, line) \in BOOLEAN
  BY Zenon DEF IsFrame
<1> DEFINE s == Reached(line, out)
           broken == s.broken \/ ~IsFrame(limit, s.line)
<1>4. NextByte(limit, s, "LF") =
           [line |-> <<>>, broken |-> broken,
            out |-> IF ~broken /\ WithoutCr(s.line) # <<>>
                    THEN Append(s.out, WithoutCr(s.line)) ELSE s.out]
  BY DEF NextByte
<1>5. broken = ~IsFrame(limit, line)
  <2>1. s.broken = FALSE /\ s.line = line
    BY ReachedFields
  <2>2. IsFrame(limit, s.line) = IsFrame(limit, line)
    BY <2>1
  <2> QED BY <2>1, <2>2, <1>3
<1>6. s.line = line /\ s.out = out
  BY ReachedFields
<1>7. ~(~IsFrame(limit, line)) = IsFrame(limit, line)
  BY <1>3
<1> HIDE DEF broken
<1>8. NextByte(limit, s, "LF") =
           [line |-> <<>>, broken |-> ~IsFrame(limit, line),
            out |-> IF IsFrame(limit, line) /\ WithoutCr(line) # <<>>
                    THEN Append(out, WithoutCr(line)) ELSE out]
  BY <1>4, <1>5, <1>6, <1>7
<1> QED BY <1>2, <1>8

(* After a line that is too long or no frame nothing is told any more.     *)
Stuck(limit, s) == s.broken \/ Len(s.line) > limit
LEMMA StuckByte ==
  ASSUME NEW limit \in Nat, NEW s \in Framings, Stuck(limit, s), NEW byte \in Bytes
  PROVE  Stuck(limit, NextByte(limit, s, byte)) /\ NextByte(limit, s, byte).out = s.out
<1>1. s.line \in Seq(Bytes) /\ Len(s.line) \in Nat /\ Len(Append(s.line, byte)) = Len(s.line) + 1
  BY LenProperties, AppendProperties DEF Framings, Lines
<1>2. CASE byte # "LF"
  <2>1. NextByte(limit, s, byte) = [s EXCEPT !.line = Append(s.line, byte)]
    BY <1>2 DEF NextByte
  <2>2. /\ [s EXCEPT !.line = Append(s.line, byte)].line = Append(s.line, byte)
        /\ [s EXCEPT !.line = Append(s.line, byte)].out = s.out
        /\ [s EXCEPT !.line = Append(s.line, byte)].broken = s.broken
    BY DEF Framings
  <2> QED BY <1>1, <2>1, <2>2 DEF Stuck
<1>3. CASE byte = "LF"
  <2>1. s.broken \/ ~IsFrame(limit, s.line)
    <3>1. CASE s.broken
      BY <3>1
    <3>2. CASE Len(s.line) > limit
      <4>1. ~(Len(s.line) <= limit)
        BY <1>1, <3>2
      <4> QED BY <4>1 DEF IsFrame
    <3> QED BY <3>1, <3>2 DEF Stuck
  <2>2. NextByte(limit, s, byte).broken = (s.broken \/ ~IsFrame(limit, s.line))
    BY <1>3, Zenon DEF NextByte
  <2>3. NextByte(limit, s, byte).out =
          IF ~(s.broken \/ ~IsFrame(limit, s.line)) /\ WithoutCr(s.line) # <<>>
          THEN Append(s.out, WithoutCr(s.line)) ELSE s.out
    BY <1>3, Zenon DEF NextByte
  <2> QED BY <2>1, <2>2, <2>3, Zenon DEF Stuck
<1> QED BY <1>2, <1>3

LEMMA StuckStays ==
  ASSUME NEW limit \in Nat, NEW p \in Lines, Stuck(limit, Framing(limit, p)), NEW rest \in Lines
  PROVE  /\ Stuck(limit, Framing(limit, p \o rest))
         /\ Framing(limit, p \o rest).out = Framing(limit, p).out
<1> DEFINE G == {s \in Lines : /\ Stuck(limit, Framing(limit, p \o s))
                              /\ Framing(limit, p \o s).out = Framing(limit, p).out}
<1>1. <<>> \in G
  BY EmptySeq, ConcatEmptySeq DEF Lines
<1>2. ASSUME NEW s \in Seq(Bytes), NEW byte \in Bytes, s \in G PROVE Append(s, byte) \in G
  <2>1. Append(s, byte) \in Lines /\ s \in Lines /\ p \o s \in Lines
    BY AppendProperties, ConcatProperties DEF Lines
  <2>2. Framing(limit, p \o Append(s, byte)) = NextByte(limit, Framing(limit, p \o s), byte)
    <3>1. Framing(limit, Append(p \o s, byte)) = NextByte(limit, Framing(limit, p \o s), byte)
      BY <2>1, FramingLaws
    <3>2. p \o Append(s, byte) = Append(p \o s, byte)
      BY <2>1, BytesAppend
    <3> QED BY <3>1, <3>2, Zenon
  <2>3. Framing(limit, p \o s) \in Framings
    BY <2>1, FramingLaws
  <2> QED BY <1>2, <2>1, <2>2, <2>3, StuckByte
<1>3. Seq(Bytes) \subseteq G
  <2> HIDE DEF G
  <2> QED BY <1>1, <1>2, AppendInduction
<1> QED BY <1>3 DEF Lines

-----------------------------------------------------------------------------
(* The buffer *)

(* What of the stream is still in the buffer.                              *)
Rest(f) == SubSeq(f.buffer, f.offset + 1, Len(f.buffer))

LEMMA FramerFields ==
  ASSUME NEW f \in Framers
  PROVE  /\ f.buffer \in Lines /\ Len(f.buffer) \in Nat /\ f.offset \in 0 .. Len(f.buffer)
         /\ f.failed \in BOOLEAN /\ f.consuming \in BOOLEAN
         /\ f.out \in Seq(Lines) /\ Len(f.out) \in Nat /\ f.errors \in Nat
         /\ \A i \in 1 .. Len(f.buffer) : f.buffer[i] \in Bytes
<1>1. /\ f.buffer \in Lines /\ f.offset \in Nat /\ f.offset <= Len(f.buffer)
      /\ f.failed \in BOOLEAN /\ f.consuming \in BOOLEAN
      /\ f.out \in Seq(Lines) /\ f.errors \in Nat
  BY DEF Framers
<1>2. Len(f.buffer) \in Nat /\ \A i \in 1 .. Len(f.buffer) : f.buffer[i] \in Bytes
  BY <1>1, LenProperties, ElementOfSeq DEF Lines
<1>3. Len(f.out) \in Nat
  BY <1>1, LenProperties
<1> QED BY <1>1, <1>2, <1>3

LEMMA RestFacts ==
  ASSUME NEW f \in Framers
  PROVE  /\ Rest(f) \in Lines /\ Len(Rest(f)) = BufferedBytes(f) /\ BufferedBytes(f) \in Nat
         /\ \A i \in 1 .. BufferedBytes(f) : Rest(f)[i] = f.buffer[f.offset + i]
<1>1. /\ f.offset + 1 \in Int /\ Len(f.buffer) \in Int
      /\ \A i \in f.offset + 1 .. Len(f.buffer) : f.buffer[i] \in Bytes
  BY FramerFields
<1>2. /\ Rest(f) \in Seq(Bytes)
      /\ Len(Rest(f)) = IF f.offset + 1 <= Len(f.buffer)
                        THEN Len(f.buffer) - (f.offset + 1) + 1 ELSE 0
      /\ \A i \in 1 .. Len(f.buffer) - (f.offset + 1) + 1 :
           Rest(f)[i] = f.buffer[(f.offset + 1) + i - 1]
  <2> DEFINE s == f.buffer
             m == f.offset + 1
             n == Len(f.buffer)
  <2>1. m \in Int /\ n \in Int /\ \A i \in m .. n : s[i] \in Bytes
    BY <1>1
  <2> HIDE DEF s, m, n
  <2>2. /\ SubSeq(s, m, n) \in Seq(Bytes)
        /\ Len(SubSeq(s, m, n)) = IF m <= n THEN n - m + 1 ELSE 0
        /\ \A i \in 1 .. n - m + 1 : SubSeq(s, m, n)[i] = s[m + i - 1]
    BY <2>1, SubSeqProperties
  <2> QED BY <2>2 DEF Rest, s, m, n
<1>3. f.offset \in 0 .. Len(f.buffer) /\ Len(f.buffer) \in Nat
  BY FramerFields
<1>4. Len(Rest(f)) = BufferedBytes(f) /\ BufferedBytes(f) \in Nat
  BY <1>2, <1>3 DEF BufferedBytes
<1>5. ASSUME NEW i \in 1 .. BufferedBytes(f) PROVE Rest(f)[i] = f.buffer[f.offset + i]
  <2>1. /\ i \in 1 .. Len(f.buffer) - (f.offset + 1) + 1
        /\ (f.offset + 1) + i - 1 = f.offset + i
    BY <1>3 DEF BufferedBytes
  <2>2. Rest(f)[i] = f.buffer[(f.offset + 1) + i - 1]
    BY <1>2, <2>1
  <2> QED BY <2>1, <2>2
<1> QED BY <1>2, <1>4, <1>5 DEF Lines

(* f and g differ in their buffers only.                                   *)
SameButBuffer(f, g) ==
  /\ g.failed = f.failed /\ g.consuming = f.consuming
  /\ g.out = f.out /\ g.errors = f.errors

(* A framer with another buffer.                                           *)
WithBuffer(f, buffer, offset) == [f EXCEPT !.buffer = buffer, !.offset = offset]
LEMMA Rebuffered ==
  ASSUME NEW f \in Framers, NEW buffer \in Lines, NEW offset \in Nat, offset <= Len(buffer)
  PROVE  /\ WithBuffer(f, buffer, offset) \in Framers
         /\ SameButBuffer(f, WithBuffer(f, buffer, offset))
         /\ WithBuffer(f, buffer, offset).buffer = buffer
         /\ WithBuffer(f, buffer, offset).offset = offset
<1> DEFINE g == WithBuffer(f, buffer, offset)
<1>1. /\ f.buffer \in Lines /\ f.offset \in Nat /\ f.failed \in BOOLEAN
      /\ f.consuming \in BOOLEAN /\ f.out \in Seq(Lines) /\ f.errors \in Nat
      /\ f \in [buffer : Lines, offset : Nat, failed : BOOLEAN, consuming : BOOLEAN,
                out : Seq(Lines), errors : Nat]
  BY DEF Framers
<1>2. /\ g.buffer = buffer /\ g.offset = offset /\ SameButBuffer(f, g)
      /\ g \in [buffer : Lines, offset : Nat, failed : BOOLEAN, consuming : BOOLEAN,
                out : Seq(Lines), errors : Nat]
  BY <1>1 DEF SameButBuffer, WithBuffer
<1> HIDE DEF g
<1>3. g \in Framers
  BY <1>2 DEF Framers
<1> QED BY <1>2, <1>3 DEF g

(* Compacting keeps what is in the buffer.                                 *)
LEMMA CompactKeeps ==
  ASSUME NEW f \in Framers
  PROVE  /\ Compact(f) \in Framers /\ SameButBuffer(f, Compact(f))
         /\ Rest(Compact(f)) = Rest(f)
<1>1. CASE f.offset >= Len(f.buffer) \div 2
  <2> DEFINE rest == Rest(f)
             g == WithBuffer(f, rest, 0)
  <2>1. rest \in Lines /\ 0 \in Nat /\ 0 <= Len(rest)
    BY RestFacts
  <2>2. Compact(f) = g
    BY <1>1 DEF Compact, Rest, WithBuffer
  <2> HIDE DEF rest
  <2>3. g \in Framers /\ SameButBuffer(f, g) /\ g.buffer = rest /\ g.offset = 0
    BY <2>1, Rebuffered
  <2> HIDE DEF g
  <2>4. Rest(g) = SubSeq(rest, 1, Len(rest))
    BY <2>3 DEF Rest
  <2>5. SubSeq(rest, 1, Len(rest)) = rest
    BY <2>1, SubSeqFull DEF Lines
  <2> QED BY <2>2, <2>3, <2>4, <2>5 DEF rest
<1>2. CASE ~(f.offset >= Len(f.buffer) \div 2)
  BY <1>2 DEF Compact, SameButBuffer
<1> QED BY <1>1, <1>2

LEMMA LeaveFacts ==
  ASSUME NEW f \in Framers
  PROVE  /\ Leave(f) \in Framers /\ Rest(Leave(f)) = Rest(f)
         /\ Leave(f).consuming = FALSE /\ Leave(f).failed = f.failed
         /\ Leave(f).out = f.out /\ Leave(f).errors = f.errors
<1>1. /\ Leave(f).buffer = f.buffer /\ Leave(f).offset = f.offset
      /\ Leave(f) \in Framers
      /\ Leave(f).consuming = FALSE /\ Leave(f).failed = f.failed
      /\ Leave(f).out = f.out /\ Leave(f).errors = f.errors
  BY DEF Leave, Framers
<1> QED BY <1>1 DEF Rest

LEMMA FailFacts ==
  ASSUME NEW f \in Framers
  PROVE  /\ FailFramer(f) \in Framers /\ Rest(FailFramer(f)) = <<>>
         /\ FailFramer(f).consuming = FALSE /\ FailFramer(f).failed = TRUE
         /\ FailFramer(f).out = f.out /\ FailFramer(f).errors = f.errors + 1
<1> DEFINE h == WithBuffer(Leave(f), <<>>, 0)
           g == [h EXCEPT !.failed = TRUE, !.errors = @ + 1]
<1>1. /\ Leave(f) \in Framers /\ Leave(f).consuming = FALSE
      /\ Leave(f).out = f.out /\ Leave(f).errors = f.errors
  BY LeaveFacts
<1>3. <<>> \in Lines /\ Len(<<>>) = 0
  BY EmptySeq DEF Lines
<1>2. /\ h \in Framers /\ h.consuming = FALSE /\ h.out = f.out /\ h.errors = f.errors
      /\ h.buffer = <<>> /\ h.offset = 0
  <2> DEFINE e == <<>>
             k == Leave(f)
             z == 0
  <2>1. k \in Framers /\ e \in Lines /\ z \in Nat /\ z <= Len(e)
    BY <1>1, <1>3
  <2> HIDE DEF e, k, z
  <2>2. LET w == WithBuffer(k, e, z)
        IN w \in Framers /\ SameButBuffer(k, w) /\ w.buffer = e /\ w.offset = z
    BY <2>1, Rebuffered
  <2> QED BY <2>2, <1>1 DEF SameButBuffer, e, k, z
<1>4. FailFramer(f) = g
  BY <1>1 DEF FailFramer, WithBuffer, Framers
<1> HIDE DEF h
<1>5. /\ g.consuming = FALSE /\ g.failed = TRUE /\ g.out = f.out /\ g.errors = f.errors + 1
      /\ g.buffer = <<>> /\ g.offset = 0 /\ g \in Framers
  <2>1. h \in [buffer : Lines, offset : Nat, failed : BOOLEAN, consuming : BOOLEAN,
               out : Seq(Lines), errors : Nat] /\ h.errors \in Nat
    BY <1>2 DEF Framers
  <2>2. /\ g.consuming = h.consuming /\ g.failed = TRUE /\ g.out = h.out
        /\ g.errors = h.errors + 1 /\ g.buffer = h.buffer /\ g.offset = h.offset
        /\ g \in [buffer : Lines, offset : Nat, failed : BOOLEAN, consuming : BOOLEAN,
                  out : Seq(Lines), errors : Nat]
    <3> DEFINE e == h.errors + 1
    <3>1. e \in Nat /\ g = [h EXCEPT !.failed = TRUE, !.errors = e]
      BY <2>1
    <3> HIDE DEF e, g
    <3>2. /\ g.consuming = h.consuming /\ g.failed = TRUE /\ g.out = h.out
          /\ g.errors = e /\ g.buffer = h.buffer /\ g.offset = h.offset
      BY <2>1, <3>1
    <3>3. g \in [buffer : Lines, offset : Nat, failed : BOOLEAN, consuming : BOOLEAN,
                 out : Seq(Lines), errors : Nat]
      BY <2>1, <3>1
    <3> QED BY <3>2, <3>3 DEF e
  <2> HIDE DEF g
  <2>3. g.offset <= Len(g.buffer)
    BY <2>2, <1>2, <1>3
  <2>4. g \in Framers
    BY <2>2, <2>3 DEF Framers
  <2> QED BY <2>2, <2>4, <1>2
<1> HIDE DEF g
<1>6. Rest(g) = <<>>
  BY <1>3, <1>5, SubSeqEmpty DEF Rest
<1> QED BY <1>4, <1>5, <1>6

-----------------------------------------------------------------------------
(* The next line in the buffer *)

Newlines(f) == {i \in f.offset + 1 .. Len(f.buffer) : f.buffer[i] = "LF"}
LineIn(f) == SubSeq(f.buffer, f.offset + 1, Min(Newlines(f)) - 1)
Behind(f) == SubSeq(f.buffer, Min(Newlines(f)) + 1, Len(f.buffer))
Taken(f) == [f EXCEPT !.offset = Min(Newlines(f))]
Told(f) == [Taken(f) EXCEPT !.out = Append(@, WithoutCr(LineIn(f)))]

LEMMA NextLineCases ==
  ASSUME NEW limit, NEW throws, NEW f
  PROVE  NextLine(limit, throws, f) =
           IF Newlines(f) = {}
           THEN IF BufferedBytes(f) > limit THEN FailFramer(f) ELSE Compact(Leave(f))
           ELSE IF Len(LineIn(f)) > limit THEN FailFramer(f)
           ELSE IF WithoutCr(LineIn(f)) = <<>> THEN Taken(f)
           ELSE IF ~IsJson(WithoutCr(LineIn(f))) THEN FailFramer(Taken(f))
           ELSE IF Len(Told(f).out) \in throws THEN Leave(Told(f))
           ELSE Told(f)
  BY DEF NextLine, Newlines, LineIn, Taken, Told

LEMMA NewlineIsFirst ==
  ASSUME NEW f \in Framers, Newlines(f) # {}
  PROVE  /\ Min(Newlines(f)) \in f.offset + 1 .. Len(f.buffer)
         /\ f.buffer[Min(Newlines(f))] = "LF"
         /\ \A i \in f.offset + 1 .. Min(Newlines(f)) - 1 : f.buffer[i] # "LF"
<1> DEFINE N == Newlines(f)
<1>1. N \subseteq Nat /\ N # {}
  BY FramerFields DEF Newlines
<1>2. PICK x \in N : \A y \in N : x <= y
  <2> HIDE DEF N
  <2> QED BY <1>1, LeastNatural
<1>3. Min(N) \in N /\ \A y \in N : Min(N) <= y
  <2> HIDE DEF N
  <2> QED BY <1>2, Zenon DEF Min
<1> DEFINE m == Min(N)
<1>4. m \in f.offset + 1 .. Len(f.buffer) /\ f.buffer[m] = "LF"
  BY <1>3 DEF Newlines
<1>5. \A y \in N : m <= y
  BY <1>3
<1>6. ASSUME NEW i \in f.offset + 1 .. m - 1 PROVE f.buffer[i] # "LF"
  <2>1. f.offset \in Nat /\ Len(f.buffer) \in Nat
    BY FramerFields
  <2> HIDE DEF m
  <2>2. i \in f.offset + 1 .. Len(f.buffer) /\ ~(m <= i)
    BY <2>1, <1>4
  <2>3. i \notin N
    BY <2>2, <1>5
  <2> QED BY <2>2, <2>3 DEF Newlines
<1> QED BY <1>4, <1>6

LEMMA NewlineSplits ==
  ASSUME NEW f \in Framers, Newlines(f) # {}
  PROVE  /\ LineIn(f) \in Lines /\ NoNewline(LineIn(f)) /\ Behind(f) \in Lines
         /\ Rest(f) = Append(LineIn(f), "LF") \o Behind(f)
<1> DEFINE m == Min(Newlines(f))
           buffer == f.buffer
           n == Len(f.buffer)
           o == f.offset
           line == LineIn(f)
<1>1. /\ m \in o + 1 .. n /\ buffer[m] = "LF"
      /\ \A i \in o + 1 .. m - 1 : buffer[i] # "LF"
  BY NewlineIsFirst
<1>2. /\ buffer \in Seq(Bytes) /\ n \in Nat /\ o \in 0 .. n
      /\ \A i \in 1 .. n : buffer[i] \in Bytes /\ n = Len(buffer)
  BY FramerFields DEF Lines
<1>a. line = SubSeq(buffer, o + 1, m - 1) /\ Behind(f) = SubSeq(buffer, m + 1, n)
      /\ Rest(f) = SubSeq(buffer, o + 1, n)
  BY DEF LineIn, Behind, Rest
<1> HIDE DEF m, buffer, n, o, line
<1>3. /\ o + 1 \in Int /\ m - 1 \in Int /\ m + 1 \in Int /\ n \in Int
      /\ \A i \in o + 1 .. m - 1 : buffer[i] \in Bytes
      /\ \A i \in m + 1 .. n : buffer[i] \in Bytes
  BY <1>1, <1>2
<1>4. /\ line \in Seq(Bytes)
      /\ Len(line) = IF o + 1 <= m - 1 THEN (m - 1) - (o + 1) + 1 ELSE 0
      /\ \A i \in 1 .. (m - 1) - (o + 1) + 1 : line[i] = buffer[(o + 1) + i - 1]
  BY <1>a, <1>3, SubSeqProperties
<1>5. NoNewline(line)
  <2> SUFFICES ASSUME NEW i \in 1 .. Len(line) PROVE line[i] # "LF"
    BY DEF NoNewline
  <2>1. i \in 1 .. (m - 1) - (o + 1) + 1 /\ (o + 1) + i - 1 \in o + 1 .. m - 1
    BY <1>1, <1>2, <1>4
  <2> QED BY <2>1, <1>1, <1>4
<1>6. Behind(f) \in Seq(Bytes)
  BY <1>a, <1>3, SubSeqProperties
<1>7. line \o SubSeq(buffer, m, n) = Rest(f)
  <2>1. o + 1 \in 1 .. n + 1 /\ m - 1 \in (o + 1) - 1 .. n /\ n \in m - 1 .. n /\ (m - 1) + 1 = m
    BY <1>1, <1>2
  <2>2. SubSeq(buffer, o + 1, m - 1) \o SubSeq(buffer, (m - 1) + 1, n) = SubSeq(buffer, o + 1, n)
    <3> DEFINE k == m - 1
               j == o + 1
    <3>1. j \in 1 .. Len(buffer) + 1 /\ k \in j - 1 .. Len(buffer) /\ n \in k .. Len(buffer)
      BY <1>2, <2>1
    <3> HIDE DEF k, j
    <3>2. SubSeq(buffer, j, k) \o SubSeq(buffer, k + 1, n) = SubSeq(buffer, j, n)
      BY <1>2, <3>1, ConcatAdjacentSubSeq
    <3> QED BY <3>2 DEF k, j
  <2> QED BY <2>1, <2>2, <1>a
<1>8. SubSeq(buffer, m, n) = <<"LF">> \o Behind(f)
  <2>1. m \in 1 .. n /\ n \in m .. n
    BY <1>1, <1>2
  <2>2. SubSeq(buffer, m, n) = <<buffer[m]>> \o SubSeq(buffer, m + 1, n)
    BY <1>2, <2>1, SubSeqRecursiveFirst
  <2> QED BY <2>2, <1>a, <1>1
<1>9. Append(line, "LF") = line \o <<"LF">> /\ <<"LF">> \in Seq(Bytes)
  BY <1>4, AppendIsConcat DEF Bytes
<1>10. (line \o <<"LF">>) \o Behind(f) = line \o (<<"LF">> \o Behind(f))
  BY <1>4, <1>6, <1>9, ConcatAssociative, SMTT(30)
<1> QED BY <1>4, <1>5, <1>6, <1>7, <1>8, <1>9, <1>10 DEF line, Lines

LEMMA NoNewlines ==
  ASSUME NEW f \in Framers, Newlines(f) = {}
  PROVE  NoNewline(Rest(f))
<1> SUFFICES ASSUME NEW i \in 1 .. Len(Rest(f)) PROVE Rest(f)[i] # "LF"
  BY DEF NoNewline
<1>1. i \in 1 .. BufferedBytes(f) /\ Rest(f)[i] = f.buffer[f.offset + i]
  BY RestFacts
<1>2. f.offset + i \in f.offset + 1 .. Len(f.buffer)
  BY <1>1, FramerFields DEF BufferedBytes
<1>3. f.offset + i \notin Newlines(f)
  OBVIOUS
<1> QED BY <1>1, <1>2, <1>3 DEF Newlines

LEMMA TakenFacts ==
  ASSUME NEW f \in Framers, Newlines(f) # {}
  PROVE  /\ Taken(f) \in Framers /\ Rest(Taken(f)) = Behind(f)
         /\ Taken(f).consuming = f.consuming /\ Taken(f).failed = f.failed
         /\ Taken(f).out = f.out /\ Taken(f).errors = f.errors
<1> DEFINE m == Min(Newlines(f))
<1>1. m \in Nat /\ m <= Len(f.buffer) /\ f.buffer \in Lines
  BY NewlineIsFirst, FramerFields
<1>2. Taken(f) = WithBuffer(f, f.buffer, m)
  BY DEF Taken, WithBuffer, Framers
<1>3. Behind(f) = SubSeq(f.buffer, m + 1, Len(f.buffer))
  BY DEF Behind
<1> HIDE DEF m
<1>4. /\ Taken(f) \in Framers /\ SameButBuffer(f, Taken(f))
      /\ Taken(f).buffer = f.buffer /\ Taken(f).offset = m
  BY <1>1, <1>2, Rebuffered
<1>5. Rest(Taken(f)) = Behind(f)
  BY <1>3, <1>4 DEF Rest
<1> QED BY <1>4, <1>5 DEF SameButBuffer

LEMMA ToldFacts ==
  ASSUME NEW f \in Framers, Newlines(f) # {}
  PROVE  /\ Told(f) \in Framers /\ Rest(Told(f)) = Behind(f)
         /\ Told(f).consuming = f.consuming /\ Told(f).failed = f.failed
         /\ Told(f).out = Append(f.out, WithoutCr(LineIn(f))) /\ Told(f).errors = f.errors
         /\ Len(Told(f).out) = Len(f.out) + 1
<1> DEFINE h == Taken(f)
           more == Append(f.out, WithoutCr(LineIn(f)))
           g == [h EXCEPT !.out = more]
<1>1. /\ h \in Framers /\ Rest(h) = Behind(f) /\ h.consuming = f.consuming
      /\ h.failed = f.failed /\ h.out = f.out /\ h.errors = f.errors
  BY TakenFacts
<1>2. WithoutCr(LineIn(f)) \in Lines
  BY NewlineSplits, WithoutCrType
<1>3. more \in Seq(Lines) /\ Len(more) = Len(f.out) + 1
  BY <1>2, FramerFields, AppendProperties
<1>4. Told(f) = g
  BY <1>1 DEF Told
<1> HIDE DEF h, more
<1>5. h \in [buffer : Lines, offset : Nat, failed : BOOLEAN, consuming : BOOLEAN,
             out : Seq(Lines), errors : Nat] /\ h.offset <= Len(h.buffer)
  BY <1>1 DEF Framers
<1>6. /\ g.consuming = h.consuming /\ g.failed = h.failed /\ g.out = more
      /\ g.errors = h.errors /\ g.buffer = h.buffer /\ g.offset = h.offset
      /\ g \in [buffer : Lines, offset : Nat, failed : BOOLEAN, consuming : BOOLEAN,
                out : Seq(Lines), errors : Nat]
  BY <1>5, <1>3
<1> HIDE DEF g
<1>7. g \in Framers
  BY <1>5, <1>6 DEF Framers
<1>8. Rest(g) = Rest(h)
  BY <1>6 DEF Rest
<1> QED BY <1>1, <1>3, <1>4, <1>6, <1>7, <1>8 DEF more

-----------------------------------------------------------------------------
(* What holds between two passes *)

(* The framer has told what framing makes of the stream b up to the lines  *)
(* it has taken, and the rest is in its buffer; or it has failed, and what *)
(* it told is all that there is to tell.                                   *)
LinesTaken(limit, b, f) ==
  \E p \in Lines : b = p \o Rest(f) /\ Framing(limit, p) = Reached(<<>>, f.out)
HasFailed(limit, b, f) ==
  /\ f.errors = 1 /\ ~f.consuming /\ Rest(f) = <<>>
  /\ Stuck(limit, Framing(limit, b)) /\ Framing(limit, b).out = f.out
FramerInv(limit, b, f) ==
  /\ f \in Framers
  /\ f.failed => HasFailed(limit, b, f)
  /\ ~f.failed => f.errors = 0 /\ LinesTaken(limit, b, f)

(* A call of consume() that began with f may end with g.                   *)
Ended(limit, throws, f, g) ==
  \/ g.failed
  \/ NoNewline(Rest(g)) /\ Len(Rest(g)) <= limit
  \/ Len(g.out) \in throws /\ Len(g.out) > Len(f.out)

(* A line feed is the last byte, or even the only line feed.               *)
EndsLine(r) == r # <<>> => r[Len(r)] = "LF"
OneLine(r) == \A i \in 1 .. Len(r) : r[i] = "LF" <=> i = Len(r)

(* What a pass does to the rest and to what was told.                      *)
Passed(f, g) ==
  /\ Len(g.out) >= Len(f.out)
  /\ g.consuming => Len(Rest(g)) < Len(Rest(f))
  /\ EndsLine(Rest(f)) => EndsLine(Rest(g))
  /\ OneLine(Rest(f)) => Rest(g) = <<>>

LEMMA LineFacts ==
  ASSUME NEW r \in Lines
  PROVE  /\ Len(r) \in Nat /\ (r = <<>> <=> Len(r) = 0)
         /\ r # <<>> => Len(r) \in 1 .. Len(r)
         /\ \A i \in 1 .. Len(r) : r[i] \in Bytes
<1>1. Len(r) \in Nat /\ (r = <<>> <=> Len(r) = 0)
  BY EmptySeq, LenProperties DEF Lines
<1>2. \A i \in 1 .. Len(r) : r[i] \in Bytes
  BY ElementOfSeq, LenProperties DEF Lines
<1> QED BY <1>1, <1>2

(* The framer fails on what no framing gets over.                          *)
LEMMA FailingPass ==
  ASSUME NEW limit, NEW throws, NEW b, NEW f \in Framers, NEW h \in Framers,
         h.out = f.out, h.errors = 0,
         Stuck(limit, Framing(limit, b)), Framing(limit, b).out = f.out
  PROVE  /\ FramerInv(limit, b, FailFramer(h)) /\ Passed(f, FailFramer(h))
         /\ FailFramer(h).consuming = FALSE /\ Ended(limit, throws, f, FailFramer(h))
<1> DEFINE g == FailFramer(h)
<1>1. /\ g \in Framers /\ Rest(g) = <<>> /\ g.consuming = FALSE /\ g.failed = TRUE
      /\ g.out = f.out /\ g.errors = 1
  <2>1. /\ FailFramer(h) \in Framers /\ Rest(FailFramer(h)) = <<>>
        /\ FailFramer(h).consuming = FALSE /\ FailFramer(h).failed = TRUE
        /\ FailFramer(h).out = h.out /\ FailFramer(h).errors = h.errors + 1
    BY FailFacts, Zenon
  <2> HIDE DEF g
  <2>2. h.errors + 1 = 1
    OBVIOUS
  <2> QED BY <2>1, <2>2 DEF g
<1>2. Len(f.out) \in Nat
  BY FramerFields
<1> HIDE DEF g
<1>3. FramerInv(limit, b, g)
  BY <1>1 DEF FramerInv, HasFailed
<1>4. Passed(f, g)
  BY <1>1, <1>2 DEF Passed, EndsLine
<1>5. Ended(limit, throws, f, g)
  BY <1>1 DEF Ended
<1> QED BY <1>1, <1>3, <1>4, <1>5 DEF g

(* No line feed is left.                                                   *)
LEMMA LastPass ==
  ASSUME NEW limit \in Nat, NEW throws, NEW b \in Lines, NEW f, FramerInv(limit, b, f),
         ~f.failed, Newlines(f) = {}
  PROVE  LET g == IF BufferedBytes(f) > limit THEN FailFramer(f) ELSE Compact(Leave(f))
         IN /\ FramerInv(limit, b, g) /\ Passed(f, g)
            /\ g.consuming = FALSE /\ Ended(limit, throws, f, g)
<1>1. f \in Framers /\ f.errors = 0 /\ LinesTaken(limit, b, f)
  BY DEF FramerInv
<1>2. PICK p \in Lines : b = p \o Rest(f) /\ Framing(limit, p) = Reached(<<>>, f.out)
  BY <1>1 DEF LinesTaken
<1>3. NoNewline(Rest(f)) /\ Rest(f) \in Lines /\ Len(Rest(f)) = BufferedBytes(f)
      /\ BufferedBytes(f) \in Nat /\ Len(f.out) \in Nat
  BY <1>1, NoNewlines, RestFacts, FramerFields
<1>4. CASE BufferedBytes(f) > limit
  <2>1. Framing(limit, b) = Reached(Rest(f), f.out)
    BY <1>2, <1>3, LineGrows
  <2>2. Stuck(limit, Framing(limit, b)) /\ Framing(limit, b).out = f.out
    <3>1. Framing(limit, b).line = Rest(f) /\ Framing(limit, b).out = f.out
      BY <2>1 DEF Reached
    <3>2. Len(Framing(limit, b).line) > limit
      BY <3>1, <1>3, <1>4
    <3> QED BY <3>1, <3>2 DEF Stuck
  <2>3. /\ FramerInv(limit, b, FailFramer(f)) /\ Passed(f, FailFramer(f))
        /\ FailFramer(f).consuming = FALSE /\ Ended(limit, throws, f, FailFramer(f))
    BY <1>1, <2>2, FailingPass
  <2> QED BY <1>4, <2>3
<1>5. CASE ~(BufferedBytes(f) > limit)
  <2> DEFINE g == Compact(Leave(f))
  <2>1. /\ g \in Framers /\ Rest(g) = Rest(f) /\ g.consuming = FALSE
        /\ g.failed = f.failed /\ g.out = f.out /\ g.errors = f.errors
    <3> DEFINE h == Leave(f)
    <3>1. /\ h \in Framers /\ Rest(h) = Rest(f) /\ h.consuming = FALSE
          /\ h.failed = f.failed /\ h.out = f.out /\ h.errors = f.errors
      BY <1>1, LeaveFacts
    <3> HIDE DEF h
    <3>2. Compact(h) \in Framers /\ SameButBuffer(h, Compact(h)) /\ Rest(Compact(h)) = Rest(h)
      BY <3>1, CompactKeeps
    <3> QED BY <3>1, <3>2 DEF SameButBuffer, h
  <2> HIDE DEF g
  <2>2. LinesTaken(limit, b, g)
    BY <1>2, <2>1 DEF LinesTaken
  <2>3. FramerInv(limit, b, g)
    BY <1>1, <2>1, <2>2 DEF FramerInv
  <2>4. OneLine(Rest(f)) => Rest(f) = <<>>
    BY <1>3, LineFacts DEF OneLine, NoNewline
  <2>5. Passed(f, g)
    BY <2>1, <2>4, <1>3 DEF Passed
  <2>6. Ended(limit, throws, f, g)
    <3>1. Len(Rest(g)) <= limit
      BY <1>3, <1>5, <2>1
    <3> QED BY <1>3, <2>1, <3>1 DEF Ended
  <2> QED BY <1>5, <2>1, <2>3, <2>5, <2>6 DEF g
<1> QED BY <1>4, <1>5

(* What is behind a line is shorter, and empty behind the only one.        *)
LEMMA BehindFacts ==
  ASSUME NEW f \in Framers, Newlines(f) # {}
  PROVE  /\ Len(Behind(f)) < Len(Rest(f))
         /\ EndsLine(Rest(f)) => EndsLine(Behind(f))
         /\ OneLine(Rest(f)) => Behind(f) = <<>>
<1> DEFINE line == Append(LineIn(f), "LF")
           r == Behind(f)
           n == Len(line)
<1>1. Rest(f) = line \o r /\ LineIn(f) \in Seq(Bytes) /\ r \in Seq(Bytes)
  BY NewlineSplits DEF Lines
<1>2. /\ line \in Seq(Bytes) /\ n = Len(LineIn(f)) + 1 /\ Len(LineIn(f)) \in Nat
      /\ line[n] = "LF"
  BY <1>1, AppendProperties, LenProperties DEF Bytes
<1>3. n \in Nat /\ n > 0 /\ Len(r) \in Nat
  BY <1>1, <1>2, LenProperties
<1> HIDE DEF line, r
<1>4. /\ Len(Rest(f)) = n + Len(r)
      /\ \A i \in 1 .. n + Len(r) : Rest(f)[i] = IF i <= n THEN line[i] ELSE r[i - n]
  <2>1. /\ Len(line \o r) = Len(line) + Len(r)
        /\ \A i \in 1 .. Len(line) + Len(r) :
             (line \o r)[i] = IF i <= Len(line) THEN line[i] ELSE r[i - Len(line)]
    BY <1>1, <1>2, ConcatProperties
  <2> QED BY <2>1, <1>1
<1>5. r = <<>> <=> Len(r) = 0
  BY <1>1, EmptySeq, LenProperties
<1> HIDE DEF n
<1>6. Len(r) < Len(Rest(f))
  BY <1>3, <1>4
<1>7. ASSUME EndsLine(Rest(f)), r # <<>> PROVE r[Len(r)] = "LF"
  <2>1. Len(r) > 0 /\ n + Len(r) \in 1 .. n + Len(r) /\ ~(n + Len(r) <= n)
        /\ (n + Len(r)) - n = Len(r)
    BY <1>3, <1>5, <1>7
  <2>2. Rest(f)[n + Len(r)] = r[Len(r)]
    BY <2>1, <1>4
  <2>3. Rest(f) # <<>>
    <3>1. Len(<<>>) = 0
      BY EmptySeq
    <3> QED BY <3>1, <1>3, <1>4
  <2> QED BY <1>4, <1>7, <2>2, <2>3 DEF EndsLine
<1>8. ASSUME OneLine(Rest(f)) PROVE r = <<>>
  <2>1. n \in 1 .. n + Len(r) /\ n <= n
    BY <1>3
  <2>2. Rest(f)[n] = "LF"
    BY <1>2, <1>4, <2>1
  <2>3. n = n + Len(r)
    BY <1>4, <1>8, <2>1, <2>2 DEF OneLine
  <2> QED BY <1>3, <1>5, <2>3
<1> QED BY <1>6, <1>7, <1>8 DEF EndsLine, r

(* The stream around the next line: q ends before its line feed.           *)
Around(limit, b, f, q) ==
  /\ q \in Lines /\ Append(q, "LF") \in Lines /\ <<"LF">> \o Behind(f) \in Lines
  /\ Framing(limit, q) = Reached(LineIn(f), f.out)
  /\ b = q \o (<<"LF">> \o Behind(f)) /\ b = Append(q, "LF") \o Behind(f)

LEMMA StreamSplits ==
  ASSUME NEW limit, NEW b \in Lines, NEW f \in Framers, LinesTaken(limit, b, f),
         Newlines(f) # {}
  PROVE  \E q \in Lines : Around(limit, b, f, q)
<1>1. PICK p \in Lines : b = p \o Rest(f) /\ Framing(limit, p) = Reached(<<>>, f.out)
  BY DEF LinesTaken
<1> DEFINE line == LineIn(f)
           r == Behind(f)
           q == p \o line
           lf == <<"LF">>
<1>2. /\ line \in Seq(Bytes) /\ r \in Seq(Bytes) /\ p \in Seq(Bytes) /\ NoNewline(line)
      /\ Rest(f) = Append(line, "LF") \o r /\ lf \in Seq(Bytes) /\ "LF" \in Bytes
  BY NewlineSplits DEF Lines, Bytes
<1>3. Framing(limit, q) = Reached(line, f.out)
  BY <1>1, <1>2, LineGrows DEF Lines
<1>a. Behind(f) = r /\ LineIn(f) = line
  OBVIOUS
<1> HIDE DEF line, r, lf
<1>4. Append(line, "LF") = line \o lf
  BY <1>2, AppendIsConcat DEF lf
<1>5. q \in Seq(Bytes) /\ lf \o r \in Seq(Bytes) /\ line \o lf \in Seq(Bytes)
  BY <1>2, ConcatProperties
<1> HIDE DEF q
<1>6. Append(q, "LF") = q \o lf /\ q \o lf \in Seq(Bytes)
  BY <1>2, <1>5, AppendIsConcat, ConcatProperties DEF lf
<1>7. (line \o lf) \o r = line \o (lf \o r)
  <2>1. line \in Lines /\ lf \in Lines /\ r \in Lines
    BY <1>2 DEF Lines
  <2> QED BY <2>1, BytesConcat, SMTT(30)
<1>8. p \o (line \o (lf \o r)) = (p \o line) \o (lf \o r)
  <2> DEFINE t == lf \o r
  <2>1. t \in Lines
    BY <1>5 DEF Lines
  <2>a. p \in Lines /\ line \in Lines
    BY <1>2 DEF Lines
  <2> HIDE DEF t
  <2>2. (p \o line) \o t = p \o (line \o t)
    BY <2>1, <2>a, BytesConcat, SMTT(30)
  <2> QED BY <2>2 DEF t
<1>9. q \o (lf \o r) = (q \o lf) \o r
  <2>1. q \in Lines /\ lf \in Lines /\ r \in Lines
    BY <1>2, <1>5 DEF Lines
  <2>2. (q \o lf) \o r = q \o (lf \o r)
    BY <2>1, BytesConcat, SMTT(30)
  <2> QED BY <2>2
<1>10. b = q \o (lf \o r)
  BY <1>1, <1>2, <1>4, <1>7, <1>8 DEF q
<1>11. b = Append(q, "LF") \o r
  BY <1>6, <1>9, <1>10
<1>12. q \in Lines /\ Append(q, "LF") \in Lines /\ lf \o r \in Lines
  BY <1>5, <1>6 DEF Lines
<1>13. Around(limit, b, f, q)
  BY <1>3, <1>10, <1>11, <1>12, <1>a DEF Around, lf
<1> QED BY <1>12, <1>13

(* A line is taken without being told, or told.                            *)
LEMMA TakingPass ==
  ASSUME NEW limit, NEW b, NEW f \in Framers, Newlines(f) # {},
         NEW q, Around(limit, b, f, q),
         NEW g \in Framers, ~g.failed, g.errors = 0, Rest(g) = Behind(f),
         Framing(limit, Append(q, "LF")) = Reached(<<>>, g.out),
         Len(g.out) >= Len(f.out)
  PROVE  FramerInv(limit, b, g) /\ Passed(f, g)
<1>1. LinesTaken(limit, b, g)
  BY DEF LinesTaken, Around
<1>2. FramerInv(limit, b, g)
  BY <1>1 DEF FramerInv
<1>3. Passed(f, g)
  BY BehindFacts DEF Passed
<1> QED BY <1>2, <1>3

(* One pass of the loop.                                                   *)
LEMMA NextLinePasses ==
  ASSUME NEW limit \in Nat, NEW throws, NEW b \in Lines, NEW f, FramerInv(limit, b, f),
         ~f.failed, f.consuming
  PROVE  /\ FramerInv(limit, b, NextLine(limit, throws, f))
         /\ Passed(f, NextLine(limit, throws, f))
         /\ NextLine(limit, throws, f).consuming \/ Ended(limit, throws, f, NextLine(limit, throws, f))
<1> DEFINE g == NextLine(limit, throws, f)
           line == LineIn(f)
           Goal == /\ FramerInv(limit, b, g) /\ Passed(f, g)
                   /\ g.consuming \/ Ended(limit, throws, f, g)
<1>1. /\ f \in Framers /\ f.errors = 0 /\ LinesTaken(limit, b, f) /\ Len(f.out) \in Nat
  BY FramerFields DEF FramerInv
<1>2. CASE Newlines(f) = {}
  <2>1. g = IF BufferedBytes(f) > limit THEN FailFramer(f) ELSE Compact(Leave(f))
    BY <1>2, NextLineCases
  <2>2. /\ FramerInv(limit, b, g) /\ Passed(f, g)
        /\ g.consuming = FALSE /\ Ended(limit, throws, f, g)
    <3> DEFINE h == IF BufferedBytes(f) > limit THEN FailFramer(f) ELSE Compact(Leave(f))
    <3>1. /\ FramerInv(limit, b, h) /\ Passed(f, h)
          /\ h.consuming = FALSE /\ Ended(limit, throws, f, h)
      BY <1>2, LastPass
    <3> HIDE DEF h, g
    <3> QED BY <2>1, <3>1 DEF h
  <2> QED BY <2>2
<1>3. CASE Newlines(f) # {}
  <2>1. PICK q \in Lines : Around(limit, b, f, q)
    BY <1>1, <1>3, StreamSplits
  <2>2. /\ Append(q, "LF") \in Lines /\ <<"LF">> \o Behind(f) \in Lines
        /\ Framing(limit, q) = Reached(line, f.out)
        /\ b = q \o (<<"LF">> \o Behind(f)) /\ b = Append(q, "LF") \o Behind(f)
        /\ Behind(f) \in Lines /\ line \in Lines /\ Len(line) \in Nat
    BY <1>1, <1>3, <2>1, NewlineSplits, LineFacts DEF Around
  <2>3. Framing(limit, Append(q, "LF")) =
          [line |-> <<>>, broken |-> ~IsFrame(limit, line),
           out |-> IF IsFrame(limit, line) /\ WithoutCr(line) # <<>>
                   THEN Append(f.out, WithoutCr(line)) ELSE f.out]
    BY <2>2, LineEnds
  <2>a. /\ Taken(f) \in Framers /\ Rest(Taken(f)) = Behind(f)
        /\ Taken(f).consuming = f.consuming /\ Taken(f).failed = f.failed
        /\ Taken(f).out = f.out /\ Taken(f).errors = f.errors
    BY <1>1, <1>3, TakenFacts
  <2>b. /\ Told(f) \in Framers /\ Rest(Told(f)) = Behind(f)
        /\ Told(f).consuming = f.consuming /\ Told(f).failed = f.failed
        /\ Told(f).out = Append(f.out, WithoutCr(line)) /\ Told(f).errors = f.errors
        /\ Len(Told(f).out) = Len(f.out) + 1
    BY <1>1, <1>3, ToldFacts
  <2>4. CASE Len(line) > limit
    <3>1. g = FailFramer(f)
      BY <1>3, <2>4, NextLineCases
    <3>2. Stuck(limit, Framing(limit, q)) /\ Framing(limit, q).out = f.out
      BY <2>2, <2>4 DEF Stuck, Reached
    <3>3. Stuck(limit, Framing(limit, b)) /\ Framing(limit, b).out = f.out
      <4> DEFINE rest == <<"LF">> \o Behind(f)
      <4>1. rest \in Lines /\ b = q \o rest
        BY <2>2
      <4> HIDE DEF rest, line, g
      <4>2. /\ Stuck(limit, Framing(limit, q \o rest))
            /\ Framing(limit, q \o rest).out = Framing(limit, q).out
        BY <3>2, <4>1, StuckStays
      <4> QED BY <3>2, <4>1, <4>2
    <3>4. /\ FramerInv(limit, b, FailFramer(f)) /\ Passed(f, FailFramer(f))
          /\ FailFramer(f).consuming = FALSE /\ Ended(limit, throws, f, FailFramer(f))
      BY <1>1, <3>3, FailingPass
    <3> QED BY <3>1, <3>4
  <2>5. CASE ~(Len(line) > limit) /\ WithoutCr(line) = <<>>
    <3>1. g = Taken(f)
      BY <1>3, <2>5, NextLineCases
    <3>2. IsFrame(limit, line)
      BY <2>2, <2>5 DEF IsFrame
    <3>3. Framing(limit, Append(q, "LF")) = Reached(<<>>, f.out)
      BY <2>3, <2>5, <3>2 DEF Reached
    <3>4. Len(f.out) >= Len(f.out)
      BY <1>1
    <3> HIDE DEF g
    <3>5. FramerInv(limit, b, g) /\ Passed(f, g)
      BY <1>1, <1>3, <2>1, <2>a, <3>1, <3>3, <3>4, TakingPass
    <3>6. g.consuming
      BY <2>a, <3>1
    <3> QED BY <3>5, <3>6 DEF g
  <2>6. CASE ~(Len(line) > limit) /\ WithoutCr(line) # <<>> /\ ~IsJson(WithoutCr(line))
    <3>1. g = FailFramer(Taken(f))
      BY <1>3, <2>6, NextLineCases
    <3>2. ~IsFrame(limit, line)
      BY <2>6 DEF IsFrame
    <3>3. Stuck(limit, Framing(limit, Append(q, "LF"))) /\ Framing(limit, Append(q, "LF")).out = f.out
      <4> DEFINE v == ~IsFrame(limit, line)
                 w == IF IsFrame(limit, line) /\ WithoutCr(line) # <<>>
                      THEN Append(f.out, WithoutCr(line)) ELSE f.out
                 x == Framing(limit, Append(q, "LF"))
      <4>1. x = [line |-> <<>>, broken |-> v, out |-> w] /\ v = TRUE /\ w = f.out
        BY <2>3, <3>2
      <4> HIDE DEF v, w, x
      <4>2. x.broken = TRUE /\ x.out = f.out
        BY <4>1
      <4> QED BY <4>2 DEF Stuck, x
    <3>4. Stuck(limit, Framing(limit, b)) /\ Framing(limit, b).out = f.out
      <4> DEFINE x == Append(q, "LF")
                 r == Behind(f)
      <4>1. x \in Lines /\ r \in Lines /\ b = x \o r
            /\ Stuck(limit, Framing(limit, x)) /\ Framing(limit, x).out = f.out
        BY <2>2, <3>3
      <4> HIDE DEF x, r
      <4> QED BY <4>1, StuckStays
    <3> DEFINE h == Taken(f)
    <3>5. h \in Framers /\ h.out = f.out /\ h.errors = 0
      BY <1>1, <2>a
    <3> HIDE DEF h
    <3>6. /\ FramerInv(limit, b, FailFramer(h)) /\ Passed(f, FailFramer(h))
          /\ FailFramer(h).consuming = FALSE /\ Ended(limit, throws, f, FailFramer(h))
      BY <1>1, <3>4, <3>5, FailingPass
    <3> QED BY <3>1, <3>6 DEF h
  <2>7. CASE ~(Len(line) > limit) /\ WithoutCr(line) # <<>> /\ IsJson(WithoutCr(line))
    <3> DEFINE h == Told(f)
    <3>1. g = IF Len(h.out) \in throws THEN Leave(h) ELSE h
      BY <1>3, <2>7, NextLineCases
    <3>2. IsFrame(limit, line)
      BY <2>2, <2>7 DEF IsFrame
    <3>3. Framing(limit, Append(q, "LF")) = Reached(<<>>, h.out)
      BY <2>3, <2>7, <2>b, <3>2 DEF Reached
    <3>4. h \in Framers /\ Rest(h) = Behind(f) /\ ~h.failed /\ h.errors = 0 /\ h.consuming
          /\ Len(h.out) >= Len(f.out) /\ Len(h.out) > Len(f.out)
      BY <1>1, <2>b
    <3> HIDE DEF g, h
    <3>5. /\ g \in Framers /\ Rest(g) = Behind(f) /\ ~g.failed /\ g.errors = 0 /\ g.out = h.out
          /\ g.consuming \/ Len(h.out) \in throws
      <4>1. CASE Len(h.out) \in throws
        <5>1. /\ Leave(h) \in Framers /\ Rest(Leave(h)) = Rest(h)
              /\ Leave(h).failed = h.failed /\ Leave(h).out = h.out /\ Leave(h).errors = h.errors
          BY <3>4, LeaveFacts
        <5> QED BY <3>1, <3>4, <4>1, <5>1
      <4>2. CASE Len(h.out) \notin throws
        BY <3>1, <3>4, <4>2
      <4> QED BY <4>1, <4>2
    <3>6. FramerInv(limit, b, g) /\ Passed(f, g)
      BY <1>1, <1>3, <2>1, <3>3, <3>4, <3>5, TakingPass
    <3>7. g.consuming \/ Ended(limit, throws, f, g)
      BY <3>4, <3>5 DEF Ended
    <3> QED BY <3>6, <3>7 DEF g
  <2> QED BY <2>4, <2>5, <2>6, <2>7
<1> QED BY <1>2, <1>3

-----------------------------------------------------------------------------
(* The loop, by a step that is a function *)

LEMMA NextLineType ==
  ASSUME NEW limit, NEW throws, NEW f \in Framers
  PROVE  NextLine(limit, throws, f) \in Framers
<1>1. FailFramer(f) \in Framers /\ Leave(f) \in Framers
  BY FailFacts, LeaveFacts
<1>2. Compact(Leave(f)) \in Framers
  <2> DEFINE h == Leave(f)
  <2> HIDE DEF h
  <2>1. h \in Framers => Compact(h) \in Framers
    BY CompactKeeps
  <2> QED BY <1>1, <2>1 DEF h
<1>3. CASE Newlines(f) = {}
  BY <1>1, <1>2, <1>3, NextLineCases
<1>4. CASE Newlines(f) # {}
  <2>1. Taken(f) \in Framers /\ Told(f) \in Framers
    BY <1>4, TakenFacts, ToldFacts
  <2>2. FailFramer(Taken(f)) \in Framers /\ Leave(Told(f)) \in Framers
    <3> DEFINE h == Taken(f)
               k == Told(f)
    <3> HIDE DEF h, k
    <3>1. h \in Framers => FailFramer(h) \in Framers
      BY FailFacts
    <3>2. k \in Framers => Leave(k) \in Framers
      BY LeaveFacts
    <3> QED BY <2>1, <3>1, <3>2 DEF h, k
  <2> QED BY <1>1, <1>4, <2>1, <2>2, NextLineCases
<1> QED BY <1>3, <1>4

(* The loop, by a step that is a function.                                 *)
Passes(limit, throws) ==
  [q \in Framers \X Nat |-> IF q[1].consuming THEN NextLine(limit, throws, q[1]) ELSE q[1]]
LEMMA PassesType ==
  ASSUME NEW limit, NEW throws PROVE Passes(limit, throws) \in FoldSteps(Framers, Nat)
  BY NextLineType DEF Passes, FoldSteps

LEMMA PositionsType ==
  ASSUME NEW b \in Lines
  PROVE  /\ Positions(b) \in Seq(Nat) /\ Len(Positions(b)) = Len(b) /\ Len(b) \in Nat
         /\ Positions(b) \in Seq(1 .. Len(b)) /\ DOMAIN b = 1 .. Len(b)
         /\ \A i \in 1 .. Len(b) : Positions(b)[i] = i
<1>1. Len(b) \in Nat /\ DOMAIN b = 1 .. Len(b)
  BY LenProperties DEF Lines
<1> DEFINE n == Len(b)
<1>2. Positions(b) = [i \in 1 .. n |-> i]
  BY <1>1 DEF Positions
<1> HIDE DEF n
<1>3. Positions(b) \in Seq(Nat) /\ Len(Positions(b)) = n /\ Positions(b) \in Seq(1 .. n)
  BY <1>1, <1>2 DEF n
<1> QED BY <1>1, <1>2, <1>3 DEF n

LEMMA DrainFolded ==
  ASSUME NEW limit, NEW throws, NEW f \in Framers
  PROVE  Drain(limit, throws, f) = Folded(Passes(limit, throws), f, Positions(Append(f.buffer, "LF")))
<1> DEFINE seq == Positions(Append(f.buffer, "LF"))
           Chosen(h) == h = [s \in SUBSET DOMAIN seq |->
                               IF s = {} THEN f
                               ELSE IF h[s \ {Max(s)}].consuming
                                    THEN NextLine(limit, throws, h[s \ {Max(s)}])
                                    ELSE h[s \ {Max(s)}]]
           C == CHOOSE h : Chosen(h)
<1>1. f \in Framers /\ seq \in Seq(Nat)
  <2> DEFINE more == Append(f.buffer, "LF")
  <2>1. f.buffer \in Seq(Bytes) /\ "LF" \in Bytes
    BY FramerFields DEF Lines, Bytes
  <2>2. more \in Lines
    BY <2>1, AppendProperties DEF Lines
  <2> HIDE DEF more
  <2>3. Positions(more) \in Seq(Nat)
    BY <2>2, PositionsType
  <2> QED BY <2>3 DEF more
<1>2. \A s \in SUBSET DOMAIN seq : s # {} => seq[Max(s)] \in Nat
  BY <1>1, SequenceMax
<1>3. Drain(limit, throws, f) = C[DOMAIN seq]
  BY DEF Drain, FoldLeft, MapThenFoldSet
<1> HIDE DEF seq
<1>4. Passes(limit, throws) \in FoldSteps(Framers, Nat)
  BY PassesType
<1>5. PICK g \in [SUBSET DOMAIN seq -> Framers] : Solves(g, Passes(limit, throws), f, seq)
  BY <1>1, <1>4, SolutionExists
<1>6. Chosen(g)
  BY <1>1, <1>2, <1>5 DEF Solves, Passes
<1>7. Chosen(C)
  BY <1>6
<1> HIDE DEF C
<1>8. ASSUME NEW s \in SUBSET DOMAIN seq, s # {}, C[s \ {Max(s)}] \in Framers
      PROVE  C[s] = Passes(limit, throws)[<<C[s \ {Max(s)}], seq[Max(s)]>>]
  BY <1>2, <1>7, <1>8 DEF Passes
<1>9. FoldsLike(C, Framers, Passes(limit, throws), f, seq)
  BY <1>7, <1>8 DEF FoldsLike
<1>10. Folded(Passes(limit, throws), f, seq) = C[DOMAIN seq]
  <2> DEFINE op == Passes(limit, throws)
             base == f
             S == Framers
             E == Nat
  <2>1. op \in FoldSteps(S, E) /\ base \in S /\ seq \in Seq(E) /\ FoldsLike(C, S, op, base, seq)
    BY <1>1, <1>4, <1>9
  <2> HIDE DEF op, base, S, E
  <2>2. Folded(op, base, seq) = C[DOMAIN seq]
    BY <2>1, FoldedIsFold
  <2> QED BY <2>2 DEF op, base
<1> QED BY <1>3, <1>10 DEF seq

Pass(limit, throws, g) == IF g.consuming THEN NextLine(limit, throws, g) ELSE g
LEMMA PassesLaws ==
  ASSUME NEW limit, NEW throws, NEW f \in Framers
  PROVE  /\ Folded(Passes(limit, throws), f, <<>>) = f
         /\ \A seq \in Seq(Nat) : Folded(Passes(limit, throws), f, seq) \in Framers
         /\ \A seq \in Seq(Nat), n \in Nat :
              Folded(Passes(limit, throws), f, Append(seq, n)) =
                Pass(limit, throws, Folded(Passes(limit, throws), f, seq))
<1> DEFINE op == Passes(limit, throws)
<1>1. op \in FoldSteps(Framers, Nat)
  BY PassesType
<1>2. \A g \in Framers, n \in Nat :
        op[<<g, n>>] = Pass(limit, throws, g)
  BY DEF Passes, Pass
<1> HIDE DEF op
<1>3. /\ Folded(op, f, <<>>) = f
      /\ \A seq \in Seq(Nat) : Folded(op, f, seq) \in Framers
      /\ \A seq \in Seq(Nat), n \in Nat :
           Folded(op, f, Append(seq, n)) = op[<<Folded(op, f, seq), n>>]
  BY <1>1, FoldedLaws
<1>4. ASSUME NEW seq \in Seq(Nat), NEW n \in Nat
      PROVE  Folded(op, f, Append(seq, n)) = Pass(limit, throws, Folded(op, f, seq))
  <2> DEFINE g == Folded(op, f, seq)
  <2>1. g \in Framers
    BY <1>3
  <2>2. Folded(op, f, Append(seq, n)) = op[<<g, n>>]
    BY <1>3
  <2> HIDE DEF g
  <2>3. op[<<g, n>>] = Pass(limit, throws, g)
    BY <1>2, <2>1
  <2> QED BY <2>2, <2>3 DEF g
<1> QED BY <1>3, <1>4 DEF op

(* What holds after some passes that began with f.                         *)
Draining(limit, throws, b, f, n, g) ==
  /\ FramerInv(limit, b, g) /\ Len(g.out) >= Len(f.out)
  /\ g.consuming => Len(Rest(g)) + n <= Len(Rest(f))
  /\ g.consuming \/ Ended(limit, throws, f, g)
  /\ EndsLine(Rest(f)) => EndsLine(Rest(g))
  /\ OneLine(Rest(f)) => OneLine(Rest(g)) /\ (g.consuming \/ Rest(g) = <<>>)

LEMMA DrainingPass ==
  ASSUME NEW limit \in Nat, NEW throws, NEW b \in Lines, NEW f \in Framers, NEW n \in Nat,
         NEW g, Draining(limit, throws, b, f, n, g), g.consuming
  PROVE  Draining(limit, throws, b, f, n + 1, NextLine(limit, throws, g))
<1> DEFINE h == NextLine(limit, throws, g)
<1>1. FramerInv(limit, b, g) /\ Len(g.out) >= Len(f.out) /\ Len(Rest(g)) + n <= Len(Rest(f))
  BY DEF Draining
<1>2. ~g.failed /\ g \in Framers
  BY <1>1 DEF FramerInv, HasFailed
<1>3. /\ FramerInv(limit, b, h) /\ Passed(g, h)
      /\ h.consuming \/ Ended(limit, throws, g, h)
  BY <1>1, <1>2, NextLinePasses
<1> HIDE DEF h
<1>4. h \in Framers
  BY <1>3 DEF FramerInv
<1>5. Len(f.out) \in Nat /\ Len(g.out) \in Nat /\ Len(h.out) \in Nat
  BY <1>2, <1>4, FramerFields
<1>6. Len(Rest(f)) \in Nat /\ Len(Rest(g)) \in Nat /\ Len(Rest(h)) \in Nat
  BY <1>2, <1>4, RestFacts, LineFacts
<1>7. Len(h.out) >= Len(f.out)
  BY <1>1, <1>3, <1>5 DEF Passed
<1>8. h.consuming => Len(Rest(h)) + (n + 1) <= Len(Rest(f))
  BY <1>1, <1>3, <1>6 DEF Passed
<1>9. h.consuming \/ Ended(limit, throws, f, h)
  <2>1. Len(h.out) > Len(g.out) => Len(h.out) > Len(f.out)
    BY <1>1, <1>5
  <2> QED BY <1>3, <2>1 DEF Ended
<1>10. EndsLine(Rest(f)) => EndsLine(Rest(h))
  BY <1>3 DEF Draining, Passed
<1>11. OneLine(Rest(f)) => Rest(h) = <<>> /\ OneLine(Rest(h))
  <2>1. OneLine(<<>>)
    BY EmptySeq DEF OneLine
  <2>2. OneLine(Rest(f)) => Rest(h) = <<>>
    BY <1>3 DEF Draining, Passed
  <2> QED BY <2>1, <2>2
<1>12. Draining(limit, throws, b, f, n + 1, h)
  BY <1>3, <1>7, <1>8, <1>9, <1>10, <1>11 DEF Draining
<1> QED BY <1>12 DEF h

LEMMA DrainingPasses ==
  ASSUME NEW limit \in Nat, NEW throws, NEW b \in Lines, NEW f, FramerInv(limit, b, f),
         f.consuming
  PROVE  \A seq \in Seq(Nat) :
           Draining(limit, throws, b, f, Len(seq), Folded(Passes(limit, throws), f, seq))
<1> DEFINE op == Passes(limit, throws)
           G == {seq \in Seq(Nat) : Draining(limit, throws, b, f, Len(seq), Folded(op, f, seq))}
<1>1. f \in Framers /\ Len(f.out) \in Nat /\ Len(Rest(f)) \in Nat
  BY FramerFields, RestFacts, LineFacts DEF FramerInv
<1>2. /\ Folded(op, f, <<>>) = f
      /\ \A seq \in Seq(Nat), n \in Nat :
           Folded(op, f, Append(seq, n)) = Pass(limit, throws, Folded(op, f, seq))
  <2>1. /\ Folded(Passes(limit, throws), f, <<>>) = f
        /\ \A seq \in Seq(Nat) : Folded(Passes(limit, throws), f, seq) \in Framers
        /\ \A seq \in Seq(Nat), n \in Nat :
              Folded(Passes(limit, throws), f, Append(seq, n)) =
                Pass(limit, throws, Folded(Passes(limit, throws), f, seq))
    <3> HIDE DEF op, G
    <3>1. f \in Framers
      BY <1>1
    <3>2. Folded(Passes(limit, throws), f, <<>>) = f
      BY <3>1, PassesLaws
    <3>3. ASSUME NEW seq \in Seq(Nat)
          PROVE  Folded(Passes(limit, throws), f, seq) \in Framers
      BY <3>1, PassesLaws
    <3>4. ASSUME NEW seq \in Seq(Nat), NEW n \in Nat
          PROVE  Folded(Passes(limit, throws), f, Append(seq, n))
                   = Pass(limit, throws, Folded(Passes(limit, throws), f, seq))
      BY <3>1, <3>2, PassesLaws
    <3> QED BY <3>2, <3>3, <3>4
  <2> QED BY <2>1
<1> HIDE DEF op
<1>3. <<>> \in G
  <2>1. Draining(limit, throws, b, f, 0, f)
    <3>1. Len(f.out) >= Len(f.out) /\ Len(Rest(f)) + 0 <= Len(Rest(f))
      BY <1>1
    <3> QED BY <3>1 DEF Draining
  <2> QED BY <1>2, <2>1, EmptySeq
<1>4. ASSUME NEW seq \in Seq(Nat), NEW n \in Nat, seq \in G PROVE Append(seq, n) \in G
  <2> DEFINE g == Folded(op, f, seq)
             k == Len(seq)
  <2>1. Draining(limit, throws, b, f, k, g) /\ k \in Nat
    BY <1>4, LenProperties
  <2>2. Append(seq, n) \in Seq(Nat) /\ Len(Append(seq, n)) = k + 1
    BY AppendProperties
  <2>3. Folded(op, f, Append(seq, n)) = IF g.consuming THEN NextLine(limit, throws, g) ELSE g
    BY <1>2 DEF Pass
  <2> HIDE DEF g, k
  <2>4. CASE g.consuming
    <3>1. Draining(limit, throws, b, f, k + 1, NextLine(limit, throws, g))
      BY <1>1, <2>1, <2>4, DrainingPass
    <3> QED BY <2>2, <2>3, <2>4, <3>1
  <2>5. CASE ~g.consuming
    <3>1. Draining(limit, throws, b, f, k + 1, g)
      BY <2>1, <2>5 DEF Draining
    <3> QED BY <2>2, <2>3, <2>5, <3>1
  <2> QED BY <2>4, <2>5
<1>5. Seq(Nat) \subseteq G
  <2> HIDE DEF G
  <2> QED BY <1>3, <1>4, AppendInduction
<1> QED BY <1>5 DEF op

(* The loop ends before its passes do.                                     *)
LEMMA DrainEnds ==
  ASSUME NEW limit \in Nat, NEW throws, NEW b \in Lines, NEW f, FramerInv(limit, b, f),
         f.consuming
  PROVE  LET g == Drain(limit, throws, f)
         IN Draining(limit, throws, b, f, Len(f.buffer) + 1, g) /\ g.consuming = FALSE
<1> DEFINE seq == Positions(Append(f.buffer, "LF"))
           g == Drain(limit, throws, f)
<1>1. f \in Framers
  BY DEF FramerInv
<1>2. f.buffer \in Seq(Bytes) /\ Len(f.buffer) \in Nat /\ f.offset \in 0 .. Len(f.buffer)
  BY <1>1, FramerFields DEF Lines
<1>3. seq \in Seq(Nat) /\ Len(seq) = Len(f.buffer) + 1
  <2>1. Append(f.buffer, "LF") \in Lines /\ Len(Append(f.buffer, "LF")) = Len(f.buffer) + 1
    BY <1>2, AppendProperties DEF Lines, Bytes
  <2> QED BY <2>1, PositionsType
<1>4. g = Folded(Passes(limit, throws), f, seq)
  BY <1>1, DrainFolded
<1>5. Draining(limit, throws, b, f, Len(f.buffer) + 1, g)
  <2> HIDE DEF seq, g
  <2>1. Draining(limit, throws, b, f, Len(seq), Folded(Passes(limit, throws), f, seq))
    BY <1>3, DrainingPasses
  <2> QED BY <1>3, <1>4, <2>1
<1>6. g \in Framers
  BY <1>5 DEF Draining, FramerInv
<1>7. g.consuming = FALSE
  <2> SUFFICES ASSUME g.consuming PROVE FALSE
    BY <1>6, FramerFields
  <2>1. Len(Rest(g)) + (Len(f.buffer) + 1) <= Len(Rest(f))
    BY <1>5 DEF Draining
  <2>2. Len(Rest(g)) \in Nat
    BY <1>6, RestFacts, LineFacts
  <2>3. Len(Rest(f)) = Len(f.buffer) - f.offset
    BY <1>1, RestFacts DEF BufferedBytes
  <2> HIDE DEF g
  <2> QED BY <1>2, <2>1, <2>2, <2>3
<1> QED BY <1>5, <1>7

-----------------------------------------------------------------------------
(* One read *)

(* Bytes that are appended to the buffer are behind its rest.              *)
LEMMA RestOfConcat ==
  ASSUME NEW s \in Lines, NEW o \in 0 .. Len(s), NEW t \in Lines
  PROVE  SubSeq(s \o t, o + 1, Len(s \o t)) = SubSeq(s, o + 1, Len(s)) \o t
<1> DEFINE n == Len(s)
           k == Len(t)
           st == s \o t
<1>1. /\ s \in Seq(Bytes) /\ t \in Seq(Bytes) /\ n \in Nat /\ k \in Nat /\ o \in 0 .. n
      /\ st \in Seq(Bytes) /\ Len(st) = n + k /\ (k = 0 => t = <<>>)
      /\ n = Len(s) /\ k = Len(t)
  BY LenProperties, ConcatProperties, EmptySeq DEF Lines
<1>a. st = s \o t
  OBVIOUS
<1> HIDE DEF n, k, st
<1>2. SubSeq(st, o + 1, n) \o SubSeq(st, n + 1, n + k) = SubSeq(st, o + 1, n + k)
  <2> DEFINE m == o + 1
             l == n + k
  <2>1. m \in 1 .. Len(st) + 1 /\ n \in m - 1 .. Len(st) /\ l \in n .. Len(st)
    BY <1>1
  <2> HIDE DEF m, l
  <2>2. SubSeq(st, m, n) \o SubSeq(st, n + 1, l) = SubSeq(st, m, l)
    BY <1>1, <2>1, ConcatAdjacentSubSeq
  <2> QED BY <2>2 DEF m, l
<1>3. SubSeq(st, o + 1, n) = SubSeq(s, o + 1, n)
  <2>1. CASE o < n
    <3> DEFINE m == o + 1
    <3>1. m \in 1 .. Len(s) /\ n \in 1 .. Len(s)
      BY <1>1, <2>1
    <3> HIDE DEF m
    <3>2. SubSeq(s \o t, m, n) = SubSeq(s, m, n)
      BY <1>1, <3>1, SubSeqOfConcat1
    <3> QED BY <3>2, <1>a DEF m
  <2>2. CASE ~(o < n)
    <3>1. o + 1 \in Int /\ n \in Int /\ n < o + 1
      BY <1>1, <2>2
    <3>2. SubSeq(st, o + 1, n) = <<>> /\ SubSeq(s, o + 1, n) = <<>>
      BY <3>1, SubSeqEmpty
    <3> QED BY <3>2
  <2> QED BY <2>1, <2>2
<1>4. SubSeq(st, n + 1, n + k) = t
  <2>1. CASE k > 0
    <3> DEFINE m == n + 1
               l == n + k
    <3>1. /\ m \in Len(s) + 1 .. Len(s) + Len(t) /\ l \in Len(s) + 1 .. Len(s) + Len(t)
          /\ m - Len(s) = 1 /\ l - Len(s) = k
      BY <1>1, <2>1
    <3> HIDE DEF m, l
    <3>2. SubSeq(s \o t, m, l) = SubSeq(t, m - Len(s), l - Len(s))
      BY <1>1, <3>1, SubSeqOfConcat2
    <3>3. SubSeq(t, 1, k) = t
      BY <1>1, SubSeqFull
    <3> QED BY <3>1, <3>2, <3>3, <1>a DEF m, l
  <2>2. CASE k = 0
    <3>1. n + 1 \in Int /\ n + k \in Int /\ n + k < n + 1
      BY <1>1, <2>2
    <3>2. SubSeq(st, n + 1, n + k) = <<>>
      BY <3>1, SubSeqEmpty
    <3> QED BY <3>2, <2>2, <1>1
  <2> QED BY <2>1, <2>2, <1>1
<1> QED BY <1>1, <1>2, <1>3, <1>4 DEF st, n

(* The framer in which the loop begins.                                    *)
Fed(f, bytes) == [Compact(f) EXCEPT !.buffer = @ \o bytes, !.consuming = TRUE]
LEMMA FedFacts ==
  ASSUME NEW f \in Framers, NEW bytes \in Lines
  PROVE  /\ Fed(f, bytes) \in Framers /\ Rest(Fed(f, bytes)) = Rest(f) \o bytes
         /\ Fed(f, bytes).consuming = TRUE /\ Fed(f, bytes).failed = f.failed
         /\ Fed(f, bytes).out = f.out /\ Fed(f, bytes).errors = f.errors
<1> DEFINE c == Compact(f)
           more == c.buffer \o bytes
           g == [c EXCEPT !.buffer = more, !.consuming = TRUE]
<1>1. c \in Framers /\ SameButBuffer(f, c) /\ Rest(c) = Rest(f)
  BY CompactKeeps
<1>2. Fed(f, bytes) = g
  BY DEF Fed
<1> HIDE DEF c
<1>3. /\ c \in [buffer : Lines, offset : Nat, failed : BOOLEAN, consuming : BOOLEAN,
                out : Seq(Lines), errors : Nat]
      /\ c.buffer \in Lines /\ c.offset \in 0 .. Len(c.buffer) /\ Len(c.buffer) \in Nat
  BY <1>1, FramerFields DEF Framers
<1>4. more \in Lines /\ c.offset <= Len(more)
  <2>1. more \in Lines /\ Len(more) = Len(c.buffer) + Len(bytes)
    BY <1>3, ConcatProperties DEF Lines
  <2>2. Len(bytes) \in Nat
    BY LineFacts
  <2> QED BY <1>3, <2>1, <2>2
<1>5. SubSeq(more, c.offset + 1, Len(more)) = Rest(c) \o bytes
  BY <1>3, RestOfConcat DEF Rest
<1> HIDE DEF more
<1>6. /\ g.consuming = TRUE /\ g.failed = c.failed /\ g.out = c.out /\ g.errors = c.errors
      /\ g.buffer = more /\ g.offset = c.offset
      /\ g \in [buffer : Lines, offset : Nat, failed : BOOLEAN, consuming : BOOLEAN,
                out : Seq(Lines), errors : Nat]
  BY <1>3, <1>4
<1> HIDE DEF g
<1>7. g \in Framers
  BY <1>4, <1>6 DEF Framers
<1>8. Rest(g) = Rest(f) \o bytes
  BY <1>1, <1>5, <1>6 DEF Rest
<1> QED BY <1>1, <1>2, <1>6, <1>7, <1>8 DEF SameButBuffer

LEMMA FedKeeps ==
  ASSUME NEW limit, NEW b \in Lines, NEW f, FramerInv(limit, b, f), ~f.failed,
         NEW bytes \in Lines
  PROVE  FramerInv(limit, b \o bytes, Fed(f, bytes))
<1> DEFINE g == Fed(f, bytes)
<1>1. f \in Framers /\ f.errors = 0 /\ LinesTaken(limit, b, f)
  BY DEF FramerInv
<1>2. g \in Framers /\ Rest(g) = Rest(f) \o bytes /\ g.failed = f.failed
      /\ g.out = f.out /\ g.errors = f.errors
  BY <1>1, FedFacts
<1> HIDE DEF g
<1>3. PICK p \in Lines : b = p \o Rest(f) /\ Framing(limit, p) = Reached(<<>>, f.out)
  BY <1>1 DEF LinesTaken
<1>4. (p \o Rest(f)) \o bytes = p \o (Rest(f) \o bytes)
  <2> DEFINE r == Rest(f)
  <2>1. r \in Seq(Bytes) /\ p \in Seq(Bytes) /\ bytes \in Seq(Bytes)
    BY <1>1, RestFacts DEF Lines
  <2> HIDE DEF r
  <2>2. (p \o r) \o bytes = p \o (r \o bytes)
    BY <2>1, ConcatAssociative, SMTT(30)
  <2> QED BY <2>2 DEF r
<1>5. LinesTaken(limit, b \o bytes, g)
  BY <1>2, <1>3, <1>4 DEF LinesTaken
<1>6. FramerInv(limit, b \o bytes, g)
  BY <1>1, <1>2, <1>5 DEF FramerInv
<1> QED BY <1>6 DEF g

(* What a read does to the stream b and the framer f.                      *)
ReadMore(limit, throws, b, f, bytes, g) ==
  /\ FramerInv(limit, b \o bytes, g) /\ ~g.consuming
  /\ Len(g.out) >= Len(f.out) /\ Ended(limit, throws, f, g)
  /\ EndsLine(Rest(f) \o bytes) => EndsLine(Rest(g))
  /\ OneLine(Rest(f) \o bytes) => Rest(g) = <<>>

LEMMA ConsumeKeeps ==
  ASSUME NEW limit \in Nat, NEW throws, NEW b \in Lines, NEW f, FramerInv(limit, b, f),
         ~f.consuming, NEW bytes \in Lines
  PROVE  ReadMore(limit, throws, b, f, bytes, Consume(limit, throws, f, bytes))
<1>1. f \in Framers /\ Len(f.out) \in Nat
  BY FramerFields DEF FramerInv
<1>2. CASE f.failed
  <2>1. Consume(limit, throws, f, bytes) = f
    BY <1>2 DEF Consume
  <2>2. /\ f.errors = 1 /\ Rest(f) = <<>>
        /\ Stuck(limit, Framing(limit, b)) /\ Framing(limit, b).out = f.out
    BY <1>2 DEF FramerInv, HasFailed
  <2>3. Stuck(limit, Framing(limit, b \o bytes)) /\ Framing(limit, b \o bytes).out = f.out
    BY <2>2, StuckStays
  <2>4. FramerInv(limit, b \o bytes, f)
    BY <1>1, <1>2, <2>2, <2>3 DEF FramerInv, HasFailed
  <2>5. Len(f.out) >= Len(f.out)
    BY <1>1
  <2>6. ReadMore(limit, throws, b, f, bytes, f)
    BY <1>2, <2>2, <2>4, <2>5 DEF ReadMore, Ended, EndsLine
  <2> QED BY <2>1, <2>6
<1>3. CASE ~f.failed
  <2> DEFINE h == Fed(f, bytes)
             g == Drain(limit, throws, h)
             s == b \o bytes
  <2>1. Consume(limit, throws, f, bytes) = g
    BY <1>3 DEF Consume, Fed
  <2>2. s \in Lines
    BY ConcatProperties DEF Lines
  <2>3. FramerInv(limit, s, h)
    BY <1>3, FedKeeps
  <2>4. /\ h \in Framers /\ Rest(h) = Rest(f) \o bytes /\ h.consuming /\ h.out = f.out
    BY <1>1, FedFacts
  <2>5. Draining(limit, throws, s, h, Len(h.buffer) + 1, g) /\ g.consuming = FALSE
    <3> HIDE DEF h, s
    <3> QED BY <2>2, <2>3, <2>4, DrainEnds
  <2> HIDE DEF g, h
  <2>6. ReadMore(limit, throws, b, f, bytes, g)
    BY <2>4, <2>5 DEF ReadMore, Draining, Ended
  <2> QED BY <2>1, <2>6
<1> QED BY <1>2, <1>3

-----------------------------------------------------------------------------
(* The reads of a stream *)

(* The stream that some reads are.                                         *)
Joins == [q \in Lines \X Lines |-> q[1] \o q[2]]
Stream(pieces) == Folded(Joins, <<>>, pieces)

LEMMA StreamLaws ==
  /\ Stream(<<>>) = <<>>
  /\ \A pieces \in Seq(Lines) : Stream(pieces) \in Lines
  /\ \A pieces \in Seq(Lines), bytes \in Lines :
       Stream(Append(pieces, bytes)) = Stream(pieces) \o bytes
<1> DEFINE op == Joins
           base == <<>>
           S == Lines
<1>1. base \in S
  BY EmptySeq DEF Lines
<1>2. op \in FoldSteps(S, S)
  <2>1. \A p \in Lines, bytes \in Lines : p \o bytes \in Lines
    BY ConcatProperties DEF Lines
  <2> QED BY <2>1 DEF Joins, FoldSteps
<1>3. \A p \in S, bytes \in S : op[<<p, bytes>>] = p \o bytes
  BY DEF Joins
<1> HIDE DEF op, base, S
<1>4. /\ Folded(op, base, <<>>) = base
      /\ \A pieces \in Seq(S) : Folded(op, base, pieces) \in S
      /\ \A pieces \in Seq(S), bytes \in S :
           Folded(op, base, Append(pieces, bytes)) = op[<<Folded(op, base, pieces), bytes>>]
  BY <1>1, <1>2, FoldedLaws
<1>5. ASSUME NEW pieces \in Seq(S), NEW bytes \in S
      PROVE  Folded(op, base, Append(pieces, bytes)) = Folded(op, base, pieces) \o bytes
  <2> DEFINE p == Folded(op, base, pieces)
  <2>1. p \in S /\ Folded(op, base, Append(pieces, bytes)) = op[<<p, bytes>>]
    BY <1>4
  <2> HIDE DEF p
  <2>2. op[<<p, bytes>>] = p \o bytes
    BY <1>3, <2>1
  <2> QED BY <2>1, <2>2 DEF p
<1> QED BY <1>4, <1>5 DEF Stream, op, base, S

LEMMA ConsumeType ==
  ASSUME NEW limit, NEW throws, NEW f \in Framers, NEW bytes \in Lines
  PROVE  Consume(limit, throws, f, bytes) \in Framers
<1> DEFINE h == Fed(f, bytes)
           seq == Positions(Append(h.buffer, "LF"))
<1>1. h \in Framers
  BY FedFacts
<1>2. Consume(limit, throws, f, bytes) = IF f.failed THEN f ELSE Drain(limit, throws, h)
  BY DEF Consume, Fed
<1> HIDE DEF h
<1>3. seq \in Seq(Nat)
  <2>1. Append(h.buffer, "LF") \in Lines
    BY <1>1, FramerFields, AppendProperties DEF Lines, Bytes
  <2> QED BY <2>1, PositionsType
<1>4. Drain(limit, throws, h) = Folded(Passes(limit, throws), h, seq)
  BY <1>1, DrainFolded
<1> HIDE DEF seq
<1>5. Folded(Passes(limit, throws), h, seq) \in Framers
  <2>1. Folded(Passes(limit, throws), h, <<>>) = h
    BY <1>1, PassesLaws
  <2> QED BY <1>1, <1>3, <2>1, PassesLaws
<1> QED BY <1>2, <1>4, <1>5

Reads(limit, throws) == [q \in Framers \X Lines |-> Consume(limit, throws, q[1], q[2])]
LEMMA ReadsType ==
  ASSUME NEW limit, NEW throws PROVE Reads(limit, throws) \in FoldSteps(Framers, Lines)
  BY ConsumeType DEF Reads, FoldSteps

LEMMA NewFramerType == NewFramer \in Framers
<1>1. <<>> \in Lines /\ <<>> \in Seq(Lines) /\ Len(<<>>) = 0
  BY EmptySeq DEF Lines
<1> QED BY <1>1 DEF NewFramer, Framers

LEMMA ReadFolded ==
  ASSUME NEW limit, NEW throws, NEW pieces \in Seq(Lines)
  PROVE  Read(limit, throws, pieces) = Folded(Reads(limit, throws), NewFramer, pieces)
<1> DEFINE seq == pieces
           Chosen(h) == h = [s \in SUBSET DOMAIN seq |->
                               IF s = {} THEN NewFramer ELSE 
                                 Consume(limit, throws, h[s \ {Max(s)}], seq[Max(s)])]
           C == CHOOSE h : Chosen(h)
<1>1. NewFramer \in Framers /\ seq \in Seq(Lines)
  BY NewFramerType
<1>2. \A s \in SUBSET DOMAIN seq : s # {} => seq[Max(s)] \in Lines
  BY <1>1, SequenceMax
<1>3. Read(limit, throws, pieces) = C[DOMAIN seq]
  BY DEF Read, FoldLeft, MapThenFoldSet
<1> HIDE DEF seq
<1>4. Reads(limit, throws) \in FoldSteps(Framers, Lines)
  BY ReadsType
<1>5. PICK g \in [SUBSET DOMAIN seq -> Framers] : Solves(g, Reads(limit, throws), NewFramer, seq)
  BY <1>1, <1>4, SolutionExists
<1>6. Chosen(g)
  BY <1>1, <1>2, <1>5 DEF Solves, Reads
<1>7. Chosen(C)
  BY <1>6
<1> HIDE DEF C
<1>8. ASSUME NEW s \in SUBSET DOMAIN seq, s # {}, C[s \ {Max(s)}] \in Framers
      PROVE  C[s] = Reads(limit, throws)[<<C[s \ {Max(s)}], seq[Max(s)]>>]
  BY <1>2, <1>7, <1>8 DEF Reads
<1>9. FoldsLike(C, Framers, Reads(limit, throws), NewFramer, seq)
  BY <1>7, <1>8 DEF FoldsLike
<1>10. Folded(Reads(limit, throws), NewFramer, seq) = C[DOMAIN seq]
  <2> DEFINE op == Reads(limit, throws)
             base == NewFramer
             S == Framers
             E == Lines
  <2>1. op \in FoldSteps(S, E) /\ base \in S /\ seq \in Seq(E) /\ FoldsLike(C, S, op, base, seq)
    BY <1>1, <1>4, <1>9
  <2> HIDE DEF op, base, S, E
  <2>2. Folded(op, base, seq) = C[DOMAIN seq]
    BY <2>1, FoldedIsFold
  <2> QED BY <2>2 DEF op, base
<1> QED BY <1>3, <1>10 DEF seq

LEMMA ReadLaws ==
  ASSUME NEW limit, NEW throws
  PROVE  /\ Read(limit, throws, <<>>) = NewFramer
         /\ \A pieces \in Seq(Lines) : Read(limit, throws, pieces) \in Framers
         /\ \A pieces \in Seq(Lines), bytes \in Lines :
              Read(limit, throws, Append(pieces, bytes)) =
                Consume(limit, throws, Read(limit, throws, pieces), bytes)
<1> DEFINE op == Reads(limit, throws)
           base == NewFramer
           S == Framers
           E == Lines
<1>1. op \in FoldSteps(S, E) /\ base \in S /\ <<>> \in Seq(E)
  BY ReadsType, NewFramerType, EmptySeq
<1>2. \A s \in S, e \in E : op[<<s, e>>] = Consume(limit, throws, s, e)
  BY DEF Reads
<1>3. \A pieces \in Seq(E) : Read(limit, throws, pieces) = Folded(op, base, pieces)
  BY ReadFolded
<1>4. \A pieces \in Seq(E), e \in E : Append(pieces, e) \in Seq(E)
  BY AppendProperties
<1> HIDE DEF op, base, S, E
<1>5. /\ Folded(op, base, <<>>) = base
      /\ \A pieces \in Seq(E) : Folded(op, base, pieces) \in S
      /\ \A pieces \in Seq(E), e \in E :
           Folded(op, base, Append(pieces, e)) = op[<<Folded(op, base, pieces), e>>]
  BY <1>1, FoldedLaws
<1>6. Read(limit, throws, <<>>) = base
  BY <1>1, <1>3, <1>5
<1>7. \A pieces \in Seq(E) : Read(limit, throws, pieces) \in S
  BY <1>3, <1>5
<1>8. ASSUME NEW pieces \in Seq(E), NEW e \in E
      PROVE  Read(limit, throws, Append(pieces, e)) = Consume(limit, throws, Read(limit, throws, pieces), e)
  <2>1. Read(limit, throws, Append(pieces, e)) = Folded(op, base, Append(pieces, e))
    BY <1>3, <1>4
  <2>2. Folded(op, base, Append(pieces, e)) = op[<<Read(limit, throws, pieces), e>>]
    BY <1>3, <1>5
  <2> QED BY <2>1, <2>2, <1>2, <1>7
<1> QED BY <1>6, <1>7, <1>8 DEF base, S, E

(* A framer that waits for bytes.                                          *)
AtRest(limit, f) == f.failed \/ (NoNewline(Rest(f)) /\ Len(Rest(f)) <= limit)
Between(limit, throws, b, f) ==
  /\ FramerInv(limit, b, f) /\ ~f.consuming
  /\ AtRest(limit, f) \/ Len(f.out) \in throws

LEMMA NewFramerKeeps ==
  ASSUME NEW limit \in Nat, NEW throws PROVE Between(limit, throws, <<>>, NewFramer)
<1>1. NewFramer \in Framers
  BY NewFramerType
<1>2. /\ NewFramer.failed = FALSE /\ NewFramer.consuming = FALSE /\ NewFramer.out = <<>>
      /\ NewFramer.errors = 0 /\ NewFramer.buffer = <<>> /\ NewFramer.offset = 0
  BY DEF NewFramer
<1>3. Rest(NewFramer) = <<>>
  <2>1. Len(NewFramer.buffer) = 0
    BY <1>2, EmptySeq
  <2>2. SubSeq(NewFramer.buffer, 1, 0) = <<>>
    BY SubSeqEmpty
  <2> QED BY <1>2, <2>1, <2>2 DEF Rest
<1>4. <<>> \in Lines /\ Len(<<>>) = 0 /\ <<>> \o <<>> = <<>>
  BY EmptySeq, ConcatEmptySeq DEF Lines
<1>5. Framing(limit, <<>>) = Reached(<<>>, <<>>)
  BY FramingLaws DEF NothingFramed, Reached
<1>6. LinesTaken(limit, <<>>, NewFramer)
  BY <1>2, <1>3, <1>4, <1>5 DEF LinesTaken
<1>7. NoNewline(<<>>) /\ 0 <= limit
  BY <1>4 DEF NoNewline
<1> QED BY <1>1, <1>2, <1>3, <1>4, <1>6, <1>7 DEF Between, FramerInv, AtRest

(* However the reads cut the stream, and at whichever messages the         *)
(* application throws, the framer has told what framing makes of the lines *)
(* it took, and waits for bytes unless a message was thrown at.            *)
THEOREM ReadKeeps ==
  ASSUME NEW limit \in Nat, NEW throws
  PROVE  \A pieces \in Seq(Lines) :
           Between(limit, throws, Stream(pieces), Read(limit, throws, pieces))
<1> DEFINE G == {pieces \in Seq(Lines) :
                   Between(limit, throws, Stream(pieces), Read(limit, throws, pieces))}
<1>1. <<>> \in G
  BY EmptySeq, StreamLaws, ReadLaws, NewFramerKeeps
<1>2. ASSUME NEW pieces \in Seq(Lines), NEW bytes \in Lines, pieces \in G
      PROVE  Append(pieces, bytes) \in G
  <2> DEFINE b == Stream(pieces)
             f == Read(limit, throws, pieces)
             g == Consume(limit, throws, f, bytes)
  <2>1. b \in Lines /\ Between(limit, throws, b, f)
    BY <1>2, StreamLaws
  <2>2. /\ Stream(Append(pieces, bytes)) = b \o bytes
        /\ Read(limit, throws, Append(pieces, bytes)) = g
        /\ Append(pieces, bytes) \in Seq(Lines)
    BY StreamLaws, ReadLaws, AppendProperties
  <2> HIDE DEF b, f
  <2>3. ReadMore(limit, throws, b, f, bytes, g)
    BY <2>1, ConsumeKeeps DEF Between
  <2> HIDE DEF g
  <2>4. Between(limit, throws, b \o bytes, g)
    BY <2>3 DEF ReadMore, Between, Ended, AtRest
  <2> QED BY <2>2, <2>4
<1>3. Seq(Lines) \subseteq G
  <2> HIDE DEF G
  <2> QED BY <1>1, <1>2, AppendInduction
<1> QED BY <1>3

(* A framer with nothing left, or that waits and was not thrown at, has    *)
(* told what there is to tell of the stream.                               *)
Delivered(limit, b, f) ==
  /\ f.out = Messages(limit, b) /\ f.failed = Fails(limit, b)
  /\ f.errors = (IF f.failed THEN 1 ELSE 0)

LEMMA RestDelivers ==
  ASSUME NEW limit \in Nat, NEW b \in Lines, NEW f, FramerInv(limit, b, f), AtRest(limit, f)
  PROVE  Delivered(limit, b, f) /\ BufferedBytes(f) <= limit
<1>1. f \in Framers /\ Rest(f) \in Lines /\ Len(Rest(f)) = BufferedBytes(f) /\ f.failed \in BOOLEAN
  BY RestFacts, FramerFields DEF FramerInv
<1>2. CASE f.failed
  <2>1. /\ f.errors = 1 /\ Rest(f) = <<>>
        /\ Stuck(limit, Framing(limit, b)) /\ Framing(limit, b).out = f.out
    BY <1>2 DEF FramerInv, HasFailed
  <2>2. Fails(limit, b)
    BY <2>1 DEF Fails, Stuck
  <2>3. Framing(limit, b).broken \in BOOLEAN
    BY FramingLaws DEF Framings
  <2>4. f.failed = Fails(limit, b)
    BY <1>1, <1>2, <2>2, <2>3, Zenon DEF Fails
  <2>5. BufferedBytes(f) <= limit
    BY <1>1, <2>1, EmptySeq
  <2> QED BY <1>2, <2>1, <2>4, <2>5 DEF Delivered, Messages
<1>3. CASE ~f.failed
  <2>1. f.errors = 0 /\ NoNewline(Rest(f)) /\ Len(Rest(f)) <= limit
    BY <1>3 DEF FramerInv, AtRest
  <2>2. PICK p \in Lines : b = p \o Rest(f) /\ Framing(limit, p) = Reached(<<>>, f.out)
    BY <1>3 DEF FramerInv, LinesTaken
  <2> DEFINE r == Rest(f)
             out == f.out
  <2>3. r \in Lines /\ NoNewline(r) /\ Framing(limit, p) = Reached(<<>>, out) /\ b = p \o r
    BY <1>1, <2>1, <2>2
  <2> HIDE DEF r, out
  <2>4. Framing(limit, b) = Reached(r, out)
    BY <2>3, LineGrows
  <2>5. Framing(limit, b).line = r /\ Framing(limit, b).broken = FALSE /\ Framing(limit, b).out = out
    BY <2>4 DEF Reached
  <2>6. Len(r) \in Nat /\ ~(Len(r) > limit)
    BY <2>1, <2>3, LineFacts DEF r
  <2>7. Fails(limit, b) = FALSE
    BY <2>5, <2>6 DEF Fails
  <2> QED BY <1>1, <1>3, <2>1, <2>5, <2>7 DEF Delivered, Messages, r, out
<1> QED BY <1>2, <1>3

(* One more line feed, behind what waits or ends a line.                   *)
LEMMA RestAtNewline ==
  ASSUME NEW r \in Lines
  PROVE  /\ EndsLine(r \o <<"LF">>) /\ NoNewline(r) => OneLine(r \o <<"LF">>)
         /\ EndsLine(r) /\ NoNewline(r) => r = <<>>
         /\ EndsLine(r \o <<"LF">>)
<1> DEFINE n == Len(r)
           s == r \o <<"LF">>
<1>1. /\ n \in Nat /\ <<"LF">> \in Seq(Bytes) /\ r \in Seq(Bytes) /\ (n = 0 => r = <<>>)
  BY LenProperties, EmptySeq DEF Lines, Bytes
<1>2. s = Append(r, "LF")
  BY <1>1, AppendIsConcat DEF Bytes
<1>3. /\ Len(s) = n + 1 /\ s[n + 1] = "LF" /\ \A i \in 1 .. n : s[i] = r[i]
  BY <1>1, <1>2, AppendProperties DEF Bytes
<1> HIDE DEF s
<1>4. EndsLine(s)
  BY <1>3 DEF EndsLine
<1>5. ASSUME NoNewline(r) PROVE OneLine(s)
  <2> SUFFICES ASSUME NEW i \in 1 .. Len(s) PROVE s[i] = "LF" <=> i = Len(s)
    BY DEF OneLine
  <2>1. i \in 1 .. n \/ i = n + 1
    BY <1>1, <1>3
  <2>2. i \in 1 .. n => i # n + 1
    BY <1>1
  <2> QED BY <1>3, <1>5, <2>1, <2>2 DEF NoNewline
<1>6. ASSUME EndsLine(r), NoNewline(r) PROVE r = <<>>
  <2> SUFFICES ASSUME r # <<>> PROVE FALSE
    OBVIOUS
  <2>1. n \in 1 .. n
    BY <1>1
  <2> QED BY <1>6, <2>1 DEF EndsLine, NoNewline
<1> QED BY <1>4, <1>5, <1>6 DEF s

(* A read of a line feed by a framer that waits takes all of its rest.     *)
LEMMA RestIsTaken ==
  ASSUME NEW limit \in Nat, NEW throws, NEW b \in Lines, NEW f, FramerInv(limit, b, f),
         AtRest(limit, f), NEW g, ReadMore(limit, throws, b, f, <<"LF">>, g)
  PROVE  Rest(g) = <<>>
<1> DEFINE r == Rest(f)
<1>1. f \in Framers /\ r \in Lines
  BY RestFacts DEF FramerInv
<1>2. NoNewline(r)
  <2>1. NoNewline(<<>>)
    BY EmptySeq DEF NoNewline
  <2>2. f.failed => r = <<>>
    BY DEF FramerInv, HasFailed
  <2> QED BY <2>1, <2>2 DEF AtRest
<1>3. OneLine(r \o <<"LF">>) => Rest(g) = <<>>
  BY DEF ReadMore
<1> HIDE DEF r
<1>4. OneLine(r \o <<"LF">>)
  BY <1>1, <1>2, RestAtNewline
<1> QED BY <1>3, <1>4

(* Two more line feeds take all that is left, whichever of the first two   *)
(* messages were thrown at.                                                *)
LEMMA TrailingReads ==
  ASSUME NEW limit \in Nat, NEW throws \in SUBSET (1 .. 2), NEW b \in Lines,
         NEW f, Between(limit, throws, b, f),
         NEW g, ReadMore(limit, throws, b, f, <<"LF">>, g),
         NEW h, ReadMore(limit, throws, b \o <<"LF">>, g, <<"LF">>, h)
  PROVE  Rest(h) = <<>> /\ FramerInv(limit, (b \o <<"LF">>) \o <<"LF">>, h)
<1> DEFINE c == b \o <<"LF">>
<1>1. c \in Lines
  BY ConcatProperties DEF Lines, Bytes
<1>2. /\ FramerInv(limit, b, f) /\ FramerInv(limit, c, g) /\ FramerInv(limit, c \o <<"LF">>, h)
      /\ Len(g.out) >= Len(f.out) /\ Len(h.out) >= Len(g.out)
      /\ Ended(limit, throws, f, g) /\ Ended(limit, throws, g, h)
      /\ EndsLine(Rest(f) \o <<"LF">>) => EndsLine(Rest(g))
      /\ EndsLine(Rest(g) \o <<"LF">>) => EndsLine(Rest(h))
      /\ OneLine(Rest(g) \o <<"LF">>) => Rest(h) = <<>>
  BY DEF ReadMore, Between
<1>3. ReadMore(limit, throws, c, g, <<"LF">>, h)
  OBVIOUS
<1> HIDE DEF c
<1>4. /\ f \in Framers /\ g \in Framers /\ h \in Framers
  BY <1>2 DEF FramerInv
<1>5. /\ Rest(f) \in Lines /\ Rest(g) \in Lines /\ Rest(h) \in Lines
      /\ Len(f.out) \in Nat /\ Len(g.out) \in Nat /\ Len(h.out) \in Nat
  BY <1>4, RestFacts, FramerFields
<1>6. AtRest(limit, g) => Rest(h) = <<>>
  BY <1>1, <1>2, <1>3, RestIsTaken
<1>7. EndsLine(Rest(g)) /\ EndsLine(Rest(h))
  <2>1. EndsLine(Rest(f) \o <<"LF">>) /\ EndsLine(Rest(g) \o <<"LF">>)
    BY <1>5, RestAtNewline
  <2> QED BY <1>2, <2>1
<1>8. AtRest(limit, h) => Rest(h) = <<>>
  <2>1. h.failed => Rest(h) = <<>>
    BY <1>2 DEF FramerInv, HasFailed
  <2>2. NoNewline(Rest(h)) => Rest(h) = <<>>
    BY <1>5, <1>7, RestAtNewline
  <2> QED BY <2>1, <2>2 DEF AtRest
<1>9. AtRest(limit, f) => Rest(h) = <<>>
  <2> SUFFICES ASSUME AtRest(limit, f) PROVE Rest(h) = <<>>
    OBVIOUS
  <2>1. Rest(g) = <<>>
    BY <1>2, RestIsTaken
  <2>2. NoNewline(<<>>) /\ Len(<<>>) <= limit
    BY EmptySeq DEF NoNewline
  <2> QED BY <1>6, <2>1, <2>2 DEF AtRest
<1>10. CASE ~AtRest(limit, f) /\ ~AtRest(limit, g) /\ ~AtRest(limit, h)
  <2>1. Len(f.out) \in throws
    BY <1>10 DEF Between
  <2>2. Len(g.out) \in throws /\ Len(g.out) > Len(f.out)
    BY <1>2, <1>10 DEF Ended, AtRest
  <2>3. Len(h.out) \in throws /\ Len(h.out) > Len(g.out)
    BY <1>2, <1>10 DEF Ended, AtRest
  <2>4. Len(f.out) \in 1 .. 2 /\ Len(g.out) \in 1 .. 2 /\ Len(h.out) \in 1 .. 2
    BY <2>1, <2>2, <2>3
  <2> QED BY <2>2, <2>3, <2>4
<1> QED BY <1>2, <1>6, <1>8, <1>9, <1>10 DEF c

LEMMA EmptyRestDelivers ==
  ASSUME NEW limit \in Nat, NEW b \in Lines, NEW f, FramerInv(limit, b, f), Rest(f) = <<>>
  PROVE  Delivered(limit, b, f) /\ BufferedBytes(f) = 0
<1>1. NoNewline(<<>>) /\ Len(<<>>) = 0
  BY EmptySeq DEF NoNewline
<1>2. Len(Rest(f)) <= limit /\ NoNewline(Rest(f))
  BY <1>1
<1>3. AtRest(limit, f)
  BY <1>2 DEF AtRest
<1>4. Len(Rest(f)) = BufferedBytes(f)
  BY RestFacts DEF FramerInv
<1> QED BY <1>1, <1>3, <1>4, RestDelivers

-----------------------------------------------------------------------------
(* The pieces of a stream *)

LongerLast(pieces, byte) == [pieces EXCEPT ![Len(pieces)] = Append(@, byte)]
LEMMA PieceGrows ==
  ASSUME NEW pieces \in Seq(Lines), pieces # <<>>, NEW byte \in Bytes
  PROVE  /\ LongerLast(pieces, byte) \in Seq(Lines) /\ LongerLast(pieces, byte) # <<>>
         /\ Stream(LongerLast(pieces, byte)) = Append(Stream(pieces), byte)
<1>1. PICK front \in Seq(Lines), m \in Lines : pieces = Append(front, m)
  BY SequenceEmptyOrAppend
<1> DEFINE n == Append(m, byte)
<1>2. n \in Lines
  BY AppendProperties DEF Lines
<1>3. /\ Append(front, m) \in Seq(Lines) /\ Len(Append(front, m)) = Len(front) + 1
      /\ Append(front, m)[Len(front) + 1] = m
  BY AppendProperties
<1>4. LongerLast(pieces, byte) = [pieces EXCEPT ![Len(pieces)] = n]
  <2>1. pieces[Len(pieces)] = m
    BY <1>1, <1>3
  <2>2. LongerLast(pieces, byte) = [pieces EXCEPT ![Len(pieces)] = Append(pieces[Len(pieces)], byte)]
    BY DEF LongerLast
  <2> QED BY <2>1, <2>2
<1> HIDE DEF n
<1>5. [Append(front, m) EXCEPT ![Len(Append(front, m))] = n] = Append(front, n)
  BY <1>2, LastReplaced
<1>6. LongerLast(pieces, byte) = Append(front, n)
  BY <1>1, <1>4, <1>5
<1>7. Append(front, n) \in Seq(Lines) /\ Append(front, n) # <<>>
  BY <1>2, AppendProperties
<1>8. Stream(Append(front, n)) = Stream(front) \o n /\ Stream(pieces) = Stream(front) \o m
      /\ Stream(front) \in Lines
  BY <1>1, <1>2, StreamLaws
<1>9. Stream(front) \o n = Append(Stream(front) \o m, byte)
  <2> DEFINE p == Stream(front)
  <2>1. p \in Lines
    BY <1>8
  <2> HIDE DEF p
  <2>2. p \o Append(m, byte) = Append(p \o m, byte)
    BY <2>1, BytesAppend
  <2> QED BY <2>2 DEF p, n
<1> QED BY <1>6, <1>7, <1>8, <1>9

LEMMA PieceBegins ==
  ASSUME NEW pieces \in Seq(Lines), NEW byte \in Bytes
  PROVE  /\ Append(pieces, <<byte>>) \in Seq(Lines) /\ Append(pieces, <<byte>>) # <<>>
         /\ Stream(Append(pieces, <<byte>>)) = Append(Stream(pieces), byte)
<1>1. <<byte>> \in Lines
  BY DEF Lines
<1>2. Stream(pieces) \in Lines /\ Stream(Append(pieces, <<byte>>)) = Stream(pieces) \o <<byte>>
  BY <1>1, StreamLaws
<1>3. Append(Stream(pieces), byte) = Stream(pieces) \o <<byte>>
  <2> DEFINE p == Stream(pieces)
  <2> HIDE DEF p
  <2>1. p \in Lines => Append(p, byte) = p \o <<byte>>
    BY AppendIsConcat DEF Lines
  <2> QED BY <2>1, <1>2 DEF p
<1>4. Append(pieces, <<byte>>) \in Seq(Lines) /\ Append(pieces, <<byte>>) # <<>>
  BY <1>1, AppendProperties
<1> QED BY <1>2, <1>3, <1>4

(* A byte more in the last piece, or behind a cut.                         *)
Cut(b, cuts, pieces, i) ==
  IF pieces = <<>> \/ i - 1 \in cuts THEN Append(pieces, <<b[i]>>) ELSE LongerLast(pieces, b[i])
LEMMA CutFacts ==
  ASSUME NEW b \in Lines, NEW cuts, NEW pieces \in Seq(Lines), NEW i \in 1 .. Len(b)
  PROVE  /\ Cut(b, cuts, pieces, i) \in Seq(Lines)
         /\ Stream(Cut(b, cuts, pieces, i)) = Append(Stream(pieces), b[i])
<1> DEFINE byte == b[i]
<1>1. byte \in Bytes
  BY ElementOfSeq DEF Lines
<1>2. Cut(b, cuts, pieces, i) = IF pieces = <<>> \/ i - 1 \in cuts
                                THEN Append(pieces, <<byte>>) ELSE LongerLast(pieces, byte)
  BY DEF Cut
<1> HIDE DEF byte
<1>3. /\ Append(pieces, <<byte>>) \in Seq(Lines)
      /\ Stream(Append(pieces, <<byte>>)) = Append(Stream(pieces), byte)
  BY <1>1, PieceBegins
<1>4. pieces # <<>> => /\ LongerLast(pieces, byte) \in Seq(Lines)
                       /\ Stream(LongerLast(pieces, byte)) = Append(Stream(pieces), byte)
  BY <1>1, PieceGrows
<1> QED BY <1>2, <1>3, <1>4 DEF byte

Cuts(b, cuts) == [q \in Seq(Lines) \X (1 .. Len(b)) |-> Cut(b, cuts, q[1], q[2])]
LEMMA CutsType ==
  ASSUME NEW b \in Lines, NEW cuts PROVE Cuts(b, cuts) \in FoldSteps(Seq(Lines), 1 .. Len(b))
  BY CutFacts DEF Cuts, FoldSteps

LEMMA PiecesFolded ==
  ASSUME NEW b \in Lines, NEW cuts
  PROVE  Pieces(b, cuts) = Folded(Cuts(b, cuts), <<>>, Positions(b))
<1> DEFINE seq == Positions(b)
           Chosen(h) == h = [s \in SUBSET DOMAIN seq |->
                               IF s = {} THEN <<>> ELSE 
                                 IF h[s \ {Max(s)}] = <<>> \/ seq[Max(s)] - 1 \in cuts
                                 THEN Append(h[s \ {Max(s)}], <<b[seq[Max(s)]]>>)
                                 ELSE [h[s \ {Max(s)}] EXCEPT ![Len(h[s \ {Max(s)}])] = Append(@, b[seq[Max(s)]])]]
           C == CHOOSE h : Chosen(h)
<1>1. <<>> \in Seq(Lines) /\ seq \in Seq((1 .. Len(b)))
  BY EmptySeq, PositionsType
<1>2. \A s \in SUBSET DOMAIN seq : s # {} => seq[Max(s)] \in (1 .. Len(b))
  BY <1>1, SequenceMax
<1>3. Pieces(b, cuts) = C[DOMAIN seq]
  BY DEF Pieces, FoldLeft, MapThenFoldSet
<1> HIDE DEF seq
<1>4. Cuts(b, cuts) \in FoldSteps(Seq(Lines), (1 .. Len(b)))
  BY CutsType
<1>5. PICK g \in [SUBSET DOMAIN seq -> Seq(Lines)] : Solves(g, Cuts(b, cuts), <<>>, seq)
  BY <1>1, <1>4, SolutionExists
<1>6. Chosen(g)
  BY <1>1, <1>2, <1>5 DEF Solves, Cuts, Cut, LongerLast
<1>7. Chosen(C)
  BY <1>6
<1> HIDE DEF C
<1>8. ASSUME NEW s \in SUBSET DOMAIN seq, s # {}, C[s \ {Max(s)}] \in Seq(Lines)
      PROVE  C[s] = Cuts(b, cuts)[<<C[s \ {Max(s)}], seq[Max(s)]>>]
  BY <1>2, <1>7, <1>8 DEF Cuts, Cut, LongerLast
<1>9. FoldsLike(C, Seq(Lines), Cuts(b, cuts), <<>>, seq)
  BY <1>7, <1>8 DEF FoldsLike
<1>10. Folded(Cuts(b, cuts), <<>>, seq) = C[DOMAIN seq]
  <2> DEFINE op == Cuts(b, cuts)
             base == <<>>
             S == Seq(Lines)
             E == (1 .. Len(b))
  <2>1. op \in FoldSteps(S, E) /\ base \in S /\ seq \in Seq(E) /\ FoldsLike(C, S, op, base, seq)
    BY <1>1, <1>4, <1>9
  <2> HIDE DEF op, base, S, E
  <2>2. Folded(op, base, seq) = C[DOMAIN seq]
    BY <2>1, FoldedIsFold
  <2> QED BY <2>2 DEF op, base
<1> QED BY <1>3, <1>10 DEF seq

(* The bytes at some positions.                                            *)
Picked(b, seq) == [i \in 1 .. Len(seq) |-> b[seq[i]]]
LEMMA PickedAppend ==
  ASSUME NEW b \in Lines, NEW seq \in Seq(1 .. Len(b)), NEW e \in 1 .. Len(b)
  PROVE  /\ Picked(b, seq) \in Lines
         /\ Picked(b, Append(seq, e)) = Append(Picked(b, seq), b[e])
<1> DEFINE n == Len(seq)
           more == Append(seq, e)
           s == Picked(b, seq)
           t == Picked(b, more)
<1>1. /\ n \in Nat /\ more \in Seq(1 .. Len(b)) /\ Len(more) = n + 1
      /\ more[n + 1] = e /\ (\A i \in 1 .. n : more[i] = seq[i])
      /\ \A i \in 1 .. n : seq[i] \in 1 .. Len(b)
  BY AppendProperties, LenProperties, ElementOfSeq
<1>2. \A i \in 1 .. n + 1 : more[i] \in 1 .. Len(b)
  <2> SUFFICES ASSUME NEW i \in 1 .. n + 1 PROVE more[i] \in 1 .. Len(b)
    OBVIOUS
  <2>1. i \in 1 .. n \/ i = n + 1
    BY <1>1
  <2> QED BY <2>1, <1>1
<1>3. \A i \in 1 .. Len(b) : b[i] \in Bytes
  BY ElementOfSeq DEF Lines
<1> HIDE DEF n, more
<1>4. s = [i \in 1 .. n |-> b[seq[i]]] /\ t = [i \in 1 .. n + 1 |-> b[more[i]]]
  BY <1>1 DEF Picked, n
<1>5. s \in Seq(Bytes) /\ Len(s) = n
  BY <1>1, <1>3, <1>4
<1>6. t \in Seq(Bytes) /\ Len(t) = n + 1
  BY <1>1, <1>2, <1>3, <1>4
<1> HIDE DEF s, t
<1>7. /\ Append(s, b[e]) \in Seq(Bytes) /\ Len(Append(s, b[e])) = n + 1
      /\ Append(s, b[e])[n + 1] = b[e] /\ \A i \in 1 .. n : Append(s, b[e])[i] = s[i]
  BY <1>3, <1>5, AppendProperties
<1>8. ASSUME NEW i \in 1 .. Len(t) PROVE t[i] = Append(s, b[e])[i]
  <2>1. i \in 1 .. n \/ i = n + 1
    BY <1>1, <1>6
  <2>2. t[i] = b[more[i]]
    BY <1>4, <1>6
  <2>3. CASE i \in 1 .. n
    BY <2>2, <2>3, <1>1, <1>4, <1>7
  <2>4. CASE i = n + 1
    BY <2>2, <2>4, <1>1, <1>7
  <2> QED BY <2>1, <2>3, <2>4
<1>9. t = Append(s, b[e])
  BY <1>6, <1>7, <1>8, SeqEqual
<1> QED BY <1>5, <1>9 DEF s, t, more, Lines

(* The pieces are the stream, wherever it is cut.                          *)
LEMMA PiecesJoin ==
  ASSUME NEW b \in Lines, NEW cuts
  PROVE  Pieces(b, cuts) \in Seq(Lines) /\ Stream(Pieces(b, cuts)) = b
<1> DEFINE op == Cuts(b, cuts)
           E == 1 .. Len(b)
           S == Seq(Lines)
           base == <<>>
           F(seq) == Folded(op, base, seq)
           G == {seq \in Seq(E) : F(seq) \in S /\ Stream(F(seq)) = Picked(b, seq)}
<1>1. op \in FoldSteps(S, E) /\ base \in S
  BY CutsType, EmptySeq
<1>2. \A pieces \in S, i \in E : /\ op[<<pieces, i>>] = Cut(b, cuts, pieces, i)
                                /\ op[<<pieces, i>>] \in S
                                /\ Stream(op[<<pieces, i>>]) = Append(Stream(pieces), b[i])
  <2>1. \A pieces \in S, i \in E : op[<<pieces, i>>] = Cut(b, cuts, pieces, i)
    BY DEF Cuts
  <2> HIDE DEF op
  <2>2. \A pieces \in S, i \in E : /\ Cut(b, cuts, pieces, i) \in S
                                   /\ Stream(Cut(b, cuts, pieces, i)) = Append(Stream(pieces), b[i])
    BY CutFacts
  <2> QED BY <2>1, <2>2
<1> HIDE DEF op, S
<1>3. /\ Folded(op, base, <<>>) = base
      /\ \A seq \in Seq(E) : Folded(op, base, seq) \in S
      /\ \A seq \in Seq(E), e \in E :
           Folded(op, base, Append(seq, e)) = op[<<Folded(op, base, seq), e>>]
  <2> HIDE DEF E, base
  <2> QED BY <1>1, FoldedLaws
<1>4. <<>> \in G
  <2>1. Picked(b, <<>>) = <<>>
    BY EmptySeq DEF Picked
  <2>2. Stream(base) = <<>>
    BY StreamLaws
  <2> QED BY <1>3, <2>1, <2>2, EmptySeq
<1>5. ASSUME NEW seq \in Seq(E), NEW e \in E, seq \in G PROVE Append(seq, e) \in G
  <2> DEFINE p == F(seq)
  <2>1. p \in S /\ Stream(p) = Picked(b, seq)
    BY <1>5
  <2>2. F(Append(seq, e)) = op[<<p, e>>]
    BY <1>3
  <2> HIDE DEF p
  <2>3. op[<<p, e>>] \in S /\ Stream(op[<<p, e>>]) = Append(Picked(b, seq), b[e])
    BY <1>2, <2>1
  <2>4. Picked(b, Append(seq, e)) = Append(Picked(b, seq), b[e])
    BY PickedAppend
  <2>5. Append(seq, e) \in Seq(E)
    BY AppendProperties
  <2> QED BY <2>2, <2>3, <2>4, <2>5
<1>6. Seq(E) \subseteq G
  <2> HIDE DEF G, E
  <2> QED BY <1>4, <1>5, AppendInduction
<1>7. Positions(b) \in Seq(E) /\ Len(Positions(b)) = Len(b) /\ \A i \in 1 .. Len(b) : Positions(b)[i] = i
  BY PositionsType
<1>8. Picked(b, Positions(b)) = b
  <2>1. Picked(b, Positions(b)) = [i \in 1 .. Len(b) |-> b[i]]
    BY <1>7 DEF Picked
  <2>2. b = [i \in 1 .. Len(b) |-> b[i]]
    BY LenProperties DEF Lines
  <2> QED BY <2>1, <2>2
<1>9. Pieces(b, cuts) = F(Positions(b))
  BY PiecesFolded DEF op
<1>10. F(Positions(b)) \in S /\ Stream(F(Positions(b))) = Picked(b, Positions(b))
  BY <1>6, <1>7
<1> QED BY <1>8, <1>9, <1>10 DEF S

-----------------------------------------------------------------------------
(* Two sides with the same limit *)

Digits(line) == line \in Lines /\ line # <<>> /\ \A i \in 1 .. Len(line) : line[i] = Digit

(* Digits are a frame unless they are too many.                            *)
LEMMA DigitsAreFrame ==
  ASSUME NEW limit, NEW line, Digits(line)
  PROVE  /\ WithoutCr(line) = line /\ NoNewline(line)
         /\ IsFrame(limit, line) <=> Len(line) <= limit
<1> DEFINE n == Len(line)
           digits == {i \in DOMAIN line : line[i] = Digit}
<1>1. n \in Nat /\ n # 0 /\ DOMAIN line = 1 .. n /\ n \in 1 .. n /\ 1 \in 1 .. n
  BY LenProperties, EmptySeq DEF Digits, Lines
<1>2. NoNewline(line)
  BY DEF Digits, NoNewline, Digit
<1>3. WithoutCr(line) = line
  BY <1>1 DEF Digits, WithoutCr, Last, Digit
<1>4. digits = 1 .. n
  BY <1>1 DEF Digits
<1> HIDE DEF n
<1>5. Max(digits) = n
  <2>1. digits \in SUBSET (1 .. n) /\ n \in digits
    BY <1>1, <1>4
  <2> HIDE DEF digits
  <2> QED BY <1>1, <2>1, MaxIsLast
<1>6. \A i \in 1 .. n : Min(digits) <= i
  <2>1. 1 \in digits /\ \A y \in digits : 1 <= y
    BY <1>1, <1>4
  <2> HIDE DEF digits
  <2>2. \E x \in digits : \A y \in digits : x <= y
    BY <2>1
  <2>3. Min(digits) = CHOOSE x \in digits : \A y \in digits : x <= y
    BY DEF Min
  <2>4. \A y \in digits : Min(digits) <= y
    BY <2>2, <2>3
  <2> QED BY <1>4, <2>4
<1>7. IsJson(line)
  <2>0. \A i \in DOMAIN line : Min(digits) <= i /\ i <= Max(digits) /\ i \in digits
    <3>1. \A i \in 1 .. n : i <= n
      BY <1>1
    <3> HIDE DEF digits
    <3> QED BY <1>1, <1>4, <1>5, <1>6, <3>1
  <2>1. /\ digits # {}
        /\ \A i \in DOMAIN line : IF Min(digits) <= i /\ i <= Max(digits)
                                  THEN i \in digits ELSE line[i] = "CR"
    <3>1. digits # {}
      BY <1>1, <1>4
    <3> HIDE DEF digits
    <3> QED BY <2>0, <3>1
  <2> QED BY <2>1, Zenon DEF IsJson
<1>8. IsFrame(limit, line) <=> Len(line) <= limit
  BY <1>3, <1>7 DEF IsFrame
<1> QED BY <1>2, <1>3, <1>8

LEMMA EncodeType ==
  ASSUME NEW line \in Lines
  PROVE  Encode(line) \in Lines
  BY AppendProperties DEF Encode, Lines, Bytes

(* What framing makes of a line of digits.                                 *)
LEMMA DigitsFramed ==
  ASSUME NEW limit \in Nat, NEW p \in Lines, NEW out, Framing(limit, p) = Reached(<<>>, out),
         NEW line, Digits(line)
  PROVE  /\ Len(line) <= limit =>
              Framing(limit, p \o Encode(line)) = Reached(<<>>, Append(out, line))
         /\ ~(Len(line) <= limit) => /\ Stuck(limit, Framing(limit, p \o Encode(line)))
                                     /\ Framing(limit, p \o Encode(line)).out = out
<1> DEFINE q == p \o line
<1>1. line \in Lines /\ line # <<>>
  BY DEF Digits
<1>2. /\ WithoutCr(line) = line /\ NoNewline(line)
      /\ IsFrame(limit, line) <=> Len(line) <= limit
  BY DigitsAreFrame
<1>3. q \in Lines
  BY <1>1, ConcatProperties DEF Lines
<1>4. p \o Encode(line) = Append(q, "LF")
  BY <1>1, BytesAppend DEF Encode, Bytes
<1>5. Framing(limit, q) = Reached(line, out)
  BY <1>1, <1>2, LineGrows
<1> HIDE DEF q
<1>6. Framing(limit, Append(q, "LF")) =
           [line |-> <<>>, broken |-> ~IsFrame(limit, line),
            out |-> IF IsFrame(limit, line) /\ WithoutCr(line) # <<>>
                    THEN Append(out, WithoutCr(line)) ELSE out]
  BY <1>3, <1>5, LineEnds
<1>7. CASE Len(line) <= limit
  <2>1. IsFrame(limit, line)
    BY <1>2, <1>7
  <2>2. Framing(limit, Append(q, "LF")) =
          [line |-> <<>>, broken |-> FALSE, out |-> Append(out, line)]
    BY <1>1, <1>2, <1>6, <2>1
  <2> QED BY <1>4, <1>7, <2>2 DEF Reached
<1>8. CASE ~(Len(line) <= limit)
  <2>1. ~IsFrame(limit, line)
    BY <1>2, <1>8
  <2>2. Framing(limit, Append(q, "LF")) = [line |-> <<>>, broken |-> TRUE, out |-> out]
    BY <1>6, <2>1
  <2>3. /\ Framing(limit, Append(q, "LF")).broken
        /\ Framing(limit, Append(q, "LF")).out = out
    BY <2>2
  <2> QED BY <1>4, <1>8, <2>3 DEF Stuck
<1> QED BY <1>7, <1>8

LEMMA EncodedFraming ==
  ASSUME NEW limit \in Nat, NEW first, Digits(first), NEW second, Digits(second)
  PROVE  Encodes(limit, first) /\ Encodes(limit, second)
           <=> Messages(limit, Encode(first) \o Encode(second)) = <<first, second>>
<1> DEFINE p == Encode(first)
           b == p \o Encode(second)
<1>1. first \in Lines /\ second \in Lines /\ <<>> \in Lines
  BY EmptySeq DEF Digits, Lines
<1>2. p \in Lines /\ Encode(second) \in Lines /\ <<>> \o p = p
  <2>1. p \in Lines /\ Encode(second) \in Lines
    BY <1>1, EncodeType
  <2> HIDE DEF p
  <2>2. <<>> \o p = p
    BY <2>1, ConcatEmptySeq DEF Lines
  <2> QED BY <2>1, <2>2
<1>3. Framing(limit, <<>>) = Reached(<<>>, <<>>)
  BY FramingLaws DEF NothingFramed, Reached
<1>4. /\ Len(first) <= limit => Framing(limit, p) = Reached(<<>>, <<first>>)
      /\ ~(Len(first) <= limit) => Stuck(limit, Framing(limit, p)) /\ Framing(limit, p).out = <<>>
  <2>1. /\ Len(first) <= limit =>
             Framing(limit, <<>> \o Encode(first)) = Reached(<<>>, Append(<<>>, first))
        /\ ~(Len(first) <= limit) => /\ Stuck(limit, Framing(limit, <<>> \o Encode(first)))
                                     /\ Framing(limit, <<>> \o Encode(first)).out = <<>>
    <3> DEFINE e == <<>>
    <3>1. e \in Lines /\ Framing(limit, e) = Reached(<<>>, e)
      BY <1>1, <1>3
    <3> HIDE DEF e
    <3>2. /\ Len(first) <= limit =>
               Framing(limit, e \o Encode(first)) = Reached(<<>>, Append(e, first))
          /\ ~(Len(first) <= limit) => /\ Stuck(limit, Framing(limit, e \o Encode(first)))
                                       /\ Framing(limit, e \o Encode(first)).out = e
      BY <3>1, DigitsFramed
    <3> QED BY <3>2 DEF e
  <2>2. Append(<<>>, first) = <<first>>
    OBVIOUS
  <2> QED BY <1>2, <2>1, <2>2
<1> HIDE DEF p
<1>5. CASE Len(first) <= limit /\ Len(second) <= limit
  <2>1. Framing(limit, b) = Reached(<<>>, Append(<<first>>, second))
    BY <1>2, <1>4, <1>5, DigitsFramed
  <2> DEFINE both == Append(<<first>>, second)
  <2>2. both = <<first, second>>
    <3>1. /\ <<first>> \in Seq(Lines) /\ Len(<<first>>) = 1 /\ <<first>>[1] = first
          /\ <<first, second>> \in Seq(Lines) /\ Len(<<first, second>>) = 2
          /\ <<first, second>>[1] = first /\ <<first, second>>[2] = second
      BY <1>1
    <3>2. /\ both \in Seq(Lines) /\ Len(both) = 2 /\ both[1] = first /\ both[2] = second
      BY <1>1, <3>1, AppendProperties
    <3> HIDE DEF both
    <3>3. \A i \in 1 .. Len(both) : both[i] = <<first, second>>[i]
      <4>1. \A i \in 1 .. Len(both) : i = 1 \/ i = 2
        BY <3>2
      <4> QED BY <3>1, <3>2, <4>1
    <3> QED BY <3>1, <3>2, <3>3, SeqEqual
  <2>3. Framing(limit, b) = Reached(<<>>, both)
    BY <2>1
  <2> HIDE DEF both, b
  <2>4. Framing(limit, b).out = both
    BY <2>3 DEF Reached
  <2> QED BY <1>5, <2>2, <2>4 DEF Messages, Encodes, b, p
<1>6. CASE Len(first) <= limit /\ ~(Len(second) <= limit)
  <2>1. Framing(limit, b).out = <<first>>
    BY <1>2, <1>4, <1>6, DigitsFramed
  <2>2. <<first>> # <<first, second>>
    OBVIOUS
  <2> QED BY <1>6, <2>1, <2>2 DEF Messages, Encodes, p
<1>7. CASE ~(Len(first) <= limit)
  <2>1. Framing(limit, b).out = <<>>
    BY <1>2, <1>4, <1>7, StuckStays
  <2>2. <<>> # <<first, second>>
    OBVIOUS
  <2> QED BY <1>7, <2>1, <2>2 DEF Messages, Encodes, p
<1> QED BY <1>5, <1>6, <1>7

-----------------------------------------------------------------------------
(* Every stream, every cut *)

LEMMA WaitingDelivers ==
  ASSUME NEW limit \in Nat, NEW pieces \in Seq(Lines)
  PROVE  /\ Delivered(limit, Stream(pieces), Read(limit, {}, pieces))
         /\ BufferedBytes(Read(limit, {}, pieces)) <= limit
<1> DEFINE b == Stream(pieces)
           f == Read(limit, {}, pieces)
<1>1. b \in Lines
  BY StreamLaws
<1>2. Between(limit, {}, b, f)
  BY ReadKeeps
<1> HIDE DEF b, f
<1>3. FramerInv(limit, b, f) /\ AtRest(limit, f)
  BY <1>2 DEF Between
<1>4. Delivered(limit, b, f) /\ BufferedBytes(f) <= limit
  BY <1>1, <1>3, RestDelivers
<1> QED BY <1>4 DEF b, f

(* Whatever the stream and the reads, and whichever of the first two       *)
(* messages the handler throws at, after two more line feeds every frame   *)
(* was delivered once and in order up to the first that is none, which     *)
(* failed the framer once, and the buffer is empty.                        *)
THEOREM ThrownStream ==
  ASSUME NEW limit \in Nat, NEW b \in Lines, NEW cuts, NEW throws \in SUBSET (1 .. 2)
  PROVE  LET all == b \o <<"LF", "LF">>
             f == Read(limit, throws, Pieces(b, cuts) \o <<<<"LF">>, <<"LF">>>>)
         IN Delivered(limit, all, f) /\ BufferedBytes(f) = 0
<1> DEFINE lf == <<"LF">>
           pieces == Pieces(b, cuts)
           once == Append(pieces, lf)
           twice == Append(once, lf)
           f == Read(limit, throws, pieces)
           g == Consume(limit, throws, f, lf)
           h == Consume(limit, throws, g, lf)
           c == b \o lf
<1>1. pieces \in Seq(Lines) /\ Stream(pieces) = b
  BY PiecesJoin
<1>2. lf \in Lines
  BY DEF Lines, Bytes
<1>3. pieces \o <<lf, lf>> = twice
  <2> HIDE DEF pieces, lf
  <2>1. <<lf>> \in Seq(Lines) /\ <<lf, lf>> = <<lf>> \o <<lf>>
    BY <1>2
  <2>2. pieces \o (<<lf>> \o <<lf>>) = (pieces \o <<lf>>) \o <<lf>>
    BY <1>1, <2>1, ConcatAssociative, SMTT(30)
  <2>3. once = pieces \o <<lf>> /\ once \in Seq(Lines)
    BY <1>1, <1>2, AppendIsConcat, AppendProperties
  <2> HIDE DEF once
  <2>4. twice = once \o <<lf>>
    BY <1>2, <2>3, AppendIsConcat
  <2> QED BY <2>1, <2>2, <2>3, <2>4
<1>4. b \o <<"LF", "LF">> = c \o lf
  <2>1. <<"LF", "LF">> = lf \o lf
    OBVIOUS
  <2> HIDE DEF lf
  <2>2. b \o (lf \o lf) = (b \o lf) \o lf
    BY <1>2, ConcatAssociative, SMTT(30) DEF Lines
  <2> QED BY <2>1, <2>2
<1> HIDE DEF pieces
<1>5. Read(limit, throws, twice) = h
  <2>1. once \in Seq(Lines)
    BY <1>1, <1>2, AppendProperties
  <2>2. Read(limit, throws, once) = g
    BY <1>1, <1>2, ReadLaws
  <2> HIDE DEF once, g
  <2>3. Read(limit, throws, Append(once, lf)) = Consume(limit, throws, Read(limit, throws, once), lf)
    BY <1>2, <2>1, ReadLaws
  <2> QED BY <2>2, <2>3
<1>6. Between(limit, throws, b, f)
  <2>1. Between(limit, throws, Stream(pieces), Read(limit, throws, pieces))
    BY <1>1, ReadKeeps
  <2> QED BY <1>1, <2>1
<1>7. c \in Lines /\ c \o lf \in Lines
  BY <1>2, ConcatProperties DEF Lines
<1> HIDE DEF lf, f, c
<1>8. ReadMore(limit, throws, b, f, lf, g)
  BY <1>2, <1>6, ConsumeKeeps DEF Between
<1> HIDE DEF g
<1>9. ReadMore(limit, throws, c, g, lf, h)
  <2>1. FramerInv(limit, c, g) /\ ~g.consuming
    BY <1>8 DEF ReadMore, c
  <2> QED BY <1>2, <1>7, <2>1, ConsumeKeeps
<1> HIDE DEF h
<1>10. Rest(h) = <<>> /\ FramerInv(limit, c \o lf, h)
  BY <1>6, <1>8, <1>9, TrailingReads DEF lf, c
<1> DEFINE all == c \o lf
<1>11. all \in Lines /\ Rest(h) = <<>> /\ FramerInv(limit, all, h)
  BY <1>7, <1>10
<1> HIDE DEF all
<1>12. Delivered(limit, all, h) /\ BufferedBytes(h) = 0
  BY <1>11, EmptyRestDelivers
<1> QED BY <1>3, <1>4, <1>5, <1>12 DEF all, lf, pieces

(* When no handler throws nothing waits for another read, and no more than *)
(* the limit is kept in the buffer.                                        *)
THEOREM WholeStream ==
  ASSUME NEW limit \in Nat, NEW b \in Lines, NEW cuts
  PROVE  LET f == Read(limit, {}, Pieces(b, cuts))
         IN Delivered(limit, b, f) /\ BufferedBytes(f) <= limit
<1>1. Pieces(b, cuts) \in Seq(Lines) /\ Stream(Pieces(b, cuts)) = b
  BY PiecesJoin
<1> DEFINE pieces == Pieces(b, cuts)
<1> HIDE DEF pieces
<1>2. pieces \in Seq(Lines) => /\ Delivered(limit, Stream(pieces), Read(limit, {}, pieces))
                               /\ BufferedBytes(Read(limit, {}, pieces)) <= limit
  BY WaitingDelivers
<1> QED BY <1>1, <1>2 DEF pieces

(* A peer with the same limit understands what encode() lets through, and  *)
(* nothing that it refuses.                                                *)
THEOREM SidesAgree ==
  ASSUME NEW limit \in Nat, NEW first, Digits(first), NEW second, Digits(second)
  PROVE  Encodes(limit, first) /\ Encodes(limit, second)
           <=> Read(limit, {}, <<Encode(first) \o Encode(second)>>).out = <<first, second>>
<1> DEFINE b == Encode(first) \o Encode(second)
<1>1. b \in Lines
  BY EncodeType, ConcatProperties DEF Lines, Digits
<1>2. Encodes(limit, first) /\ Encodes(limit, second) <=> Messages(limit, b) = <<first, second>>
  BY EncodedFraming
<1> HIDE DEF b
<1>3. <<b>> \in Seq(Lines) /\ <<b>> = Append(<<>>, b) /\ <<>> \in Seq(Lines)
  BY <1>1, EmptySeq
<1>4. Stream(<<b>>) = b
  <2>1. Stream(Append(<<>>, b)) = Stream(<<>>) \o b
    BY <1>1, <1>3, StreamLaws
  <2>2. Stream(<<>>) = <<>> /\ <<>> \o b = b
    BY <1>1, StreamLaws, ConcatEmptySeq DEF Lines
  <2> QED BY <1>3, <2>1, <2>2
<1>5. Delivered(limit, Stream(<<b>>), Read(limit, {}, <<b>>))
  BY <1>3, WaitingDelivers
<1>6. Read(limit, {}, <<b>>).out = Messages(limit, b)
  BY <1>4, <1>5 DEF Delivered
<1> QED BY <1>2, <1>6 DEF b

-----------------------------------------------------------------------------
(* The instance *)

LEMMA InputsAreLines ==
  /\ Inputs \subseteq Lines
  /\ \A line \in UNION {[1 .. n -> {Digit}] : n \in 1 .. Limit + 1} : Digits(line)
<1>1. \A n \in Nat : [1 .. n -> Bytes] \subseteq Lines
  BY DEF Lines
<1>2. [1 .. 7 -> {"LF", Digit}] \subseteq [1 .. 7 -> Bytes]
  BY DEF Bytes
<1>3. Inputs \subseteq Lines
  <2>1. \A n \in 0 .. 4 : [1 .. n -> Bytes] \subseteq Lines
    BY <1>1
  <2>2. [1 .. 7 -> {"LF", Digit}] \subseteq Lines
    <3>1. [1 .. 7 -> Bytes] \subseteq Lines
      BY <1>1
    <3> QED BY <3>1, <1>2, Zenon
  <2> QED BY <2>1, <2>2, Zenon DEF Inputs
<1>4. ASSUME NEW n \in 1 .. Limit + 1, NEW line \in [1 .. n -> {Digit}] PROVE Digits(line)
  <2>1. n \in Nat /\ n # 0
    BY DEF Limit
  <2>2. line \in [1 .. n -> Bytes]
    BY DEF Bytes
  <2>3. line \in Lines
    BY <1>1, <2>1, <2>2
  <2>4. Len(line) = n
    BY <2>1
  <2>5. line # <<>>
    BY <2>1, <2>4, EmptySeq
  <2> QED BY <2>3, <2>4, <2>5 DEF Digits
<1> QED BY <1>3, <1>4

(* The framer and the reference agree on the streams of the instance.      *)
THEOREM StreamsFramed == FramingAgrees
<1>1. Limit \in Nat
  BY DEF Limit
<1>2. ASSUME NEW b \in Inputs, NEW cuts \in SUBSET (1 .. Len(b) - 1),
             NEW throws \in SUBSET (1 .. 2)
      PROVE  LET all == b \o <<"LF", "LF">>
                 f == Read(Limit, throws, Pieces(b, cuts) \o <<<<"LF">>, <<"LF">>>>)
             IN /\ f.out = Messages(Limit, all)
                /\ f.failed = Fails(Limit, all) /\ f.errors = (IF f.failed THEN 1 ELSE 0)
                /\ BufferedBytes(f) = 0
  <2>1. b \in Lines
    BY InputsAreLines
  <2> DEFINE all == b \o <<"LF", "LF">>
             f == Read(Limit, throws, Pieces(b, cuts) \o <<<<"LF">>, <<"LF">>>>)
  <2>2. Delivered(Limit, all, f) /\ BufferedBytes(f) = 0
    BY <1>1, <2>1, ThrownStream
  <2> QED BY <2>2 DEF Delivered
<1>3. ASSUME NEW b \in Inputs, NEW cuts \in SUBSET (1 .. Len(b) - 1)
      PROVE  LET f == Read(Limit, {}, Pieces(b, cuts))
             IN /\ f.out = Messages(Limit, b) /\ f.failed = Fails(Limit, b)
                /\ BufferedBytes(f) <= Limit
  <2>1. b \in Lines
    BY InputsAreLines
  <2> DEFINE f == Read(Limit, {}, Pieces(b, cuts))
  <2>2. Delivered(Limit, b, f) /\ BufferedBytes(f) <= Limit
    BY <1>1, <2>1, WholeStream
  <2> QED BY <2>2 DEF Delivered
<1>4. ASSUME NEW first \in UNION {[1 .. n -> {Digit}] : n \in 1 .. Limit + 1},
             NEW second \in UNION {[1 .. n -> {Digit}] : n \in 1 .. Limit + 1}
      PROVE  LET f == Read(Limit, {}, <<Encode(first) \o Encode(second)>>)
             IN Encodes(Limit, first) /\ Encodes(Limit, second) <=> f.out = <<first, second>>
  <2>1. Digits(first) /\ Digits(second)
    BY InputsAreLines
  <2> QED BY <1>1, <2>1, SidesAgree
<1> QED BY <1>2, <1>3, <1>4, Zenon DEF FramingAgrees

(* So the bridge gets every frame of every child that it is connected to.  *)
THEOREM EveryFrameDelivered == StdioSpec => []FramesAreDelivered
<1>1. FramesAreDelivered
  BY StreamsFramed DEF FramesAreDelivered
<1> QED BY <1>1, PTL

===============================================================================
