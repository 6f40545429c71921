-------------------------- MODULE RDPServerProofs --------------------------
(***************************************************************************)
(* Proofs about the takeover protocol, for any set of sessions.  The       *)
(* inductive invariant is TypeOK /\ ClaimOrderInv; each of its five parts  *)
(* is preserved by a lemma of its own, action by action, and the safety    *)
(* properties and the refinement of DisplayOwnership follow from it.       *)
(***************************************************************************)
EXTENDS RDPServer, FiniteSetTheorems, WellFoundedInduction, TLAPS

(* The places a queue can be in, for the leaves that split on them.        *)
LEMMA Steps ==
  Step = {"idle", "accepted", "queued", "loop", "peer", "authenticated",
          "claim", "supersede", "wait", "recheck", "create", "control",
          "media", "stop", "undim", "destroy", "free", "signal", "done"}
BY DEF Step, BeforeRun, PeerLoop, Requesting, AwaitingTurn, BringingUp,
       TearingDown

-----------------------------------------------------------------------------
(* Types.                                                                  *)

LEMMA TypeStep ==
  ASSUME TypeOK, LocalInv, OrderInv, [Next]_vars
  PROVE  TypeOK'
<1> USE NoneAssumption, Steps
    DEF TypeOK, SessionTypeOK, State, Resource, DisplayKind, vars, sessionVars,
        registryVars, historyVars, Goto, SetActive
<1>1. ASSUME NEW s \in Session, AcceptConnection(s) PROVE TypeOK'
  BY <1>1 DEF AcceptConnection
<1>2. ASSUME NEW s \in Session, RegisterSession(s) PROVE TypeOK'
  BY <1>2 DEF RegisterSession
<1>3. ASSUME NEW s \in Session, TestRunning(s) PROVE TypeOK'
  BY <1>3 DEF TestRunning, Abort
<1>4. ASSUME NEW s \in Session, Claim(s) PROVE TypeOK'
  BY <1>4 DEF Claim
<1>5. ASSUME NEW s \in Session, DisconnectPrevious(s) PROVE TypeOK'
  BY <1>5 DEF DisconnectPrevious, Disconnect
<1>6. ASSUME NEW s \in Session, TeardownObserved(s) PROVE TypeOK'
  <2>1. previous[s] \in Session
    BY <1>6 DEF TeardownObserved, OrderInv, Waiting, AwaitingTurn
  <2>2. teardownSem[previous[s]] = 1
    BY <1>6, <2>1 DEF TeardownObserved
  <2>3. teardownSem' \in [Session -> 0..1]
    BY <1>6, <2>1, <2>2 DEF TeardownObserved
  <2>4. pc' \in [Session -> Step]
    BY <1>6 DEF TeardownObserved
  <2>5. QED
    BY <1>6, <2>3, <2>4 DEF TeardownObserved
<1>7. ASSUME NEW s \in Session, WaitTimesOut(s) PROVE TypeOK'
  BY <1>7 DEF WaitTimesOut
<1>8. ASSUME NEW s \in Session, Recheck(s) PROVE TypeOK'
  BY <1>8 DEF Recheck, Abort
<1>9. ASSUME NEW s \in Session, SessionDidEnd(s) PROVE TypeOK'
  BY <1>9 DEF SessionDidEnd
<1>10. CASE StopListening
  BY <1>10 DEF StopListening
<1>11. CASE StopSessions
  BY <1>11 DEF StopSessions, Disconnect
<1>12. ASSUME NEW s \in Session, SessionStep(s),
              UNCHANGED <<registryVars, previous, historyVars>>
       PROVE TypeOK'
  <2>1. CASE SetupAndRun(s) BY <1>12, <2>1 DEF SetupAndRun
  <2>2. CASE PeerCreateFails(s) BY <1>12, <2>2 DEF PeerCreateFails
  <2>3. CASE LoopTest(s) BY <1>12, <2>3 DEF LoopTest
  <2>4. CASE PeerIdle(s) BY <1>12, <2>4 DEF PeerIdle
  <2>5. CASE PeerLoopEnded(s) BY <1>12, <2>5 DEF PeerLoopEnded
  <2>6. CASE NegotiationTimeout(s) BY <1>12, <2>6 DEF NegotiationTimeout
  <2>7. CASE CredentialsAccepted(s) BY <1>12, <2>7 DEF CredentialsAccepted
  <2>8. CASE CredentialsRejected(s) BY <1>12, <2>8 DEF CredentialsRejected, Abort
  <2>9. CASE CreateDisplay(s) BY <1>12, <2>9 DEF CreateDisplay
  <2>10. CASE StartDisplayControl(s) BY <1>12, <2>10 DEF StartDisplayControl
  <2>11. CASE BecomeActive(s) BY <1>12, <2>11 DEF BecomeActive
  <2>12. CASE StopMedia(s) BY <1>12, <2>12 DEF StopMedia, Release
  <2>13. CASE StopDisplayControl(s) BY <1>12, <2>13 DEF StopDisplayControl, Release
  <2>14. CASE DestroyDisplay(s) BY <1>12, <2>14 DEF DestroyDisplay
  <2>15. CASE DestroyPeer(s) BY <1>12, <2>15 DEF DestroyPeer, Release
  <2>16. CASE SignalTeardown(s)
    <3>1. teardownSem[s] = 0
      BY <2>16 DEF LocalInv, PlaceInv, SignalTeardown
    <3>2. QED
      BY <1>12, <2>16, <3>1 DEF SignalTeardown
  <2>17. QED
    BY <1>12, <2>1, <2>2, <2>3, <2>4, <2>5, <2>6, <2>7, <2>8, <2>9, <2>10,
       <2>11, <2>12, <2>13, <2>14, <2>15, <2>16
    DEF SessionStep, RunPeerOnce, BringUp, TearDown
<1>13. CASE UNCHANGED vars
  BY <1>13
<1>14. QED
  BY <1>1, <1>2, <1>3, <1>4, <1>5, <1>6, <1>7, <1>8, <1>9, <1>10, <1>11, <1>12,
     <1>13
  DEF Next, QueueStep, RequestActivation

-----------------------------------------------------------------------------
(* What a session's own step leaves alone: the other queues, the set of    *)
(* those that wait for a predecessor, and the ends already reached.        *)
LEMMA SessionFrame ==
  ASSUME TypeOK, NEW s \in Session, SessionStep(s)
  PROVE  /\ \A t \in Session : Waiting(t)' <=> Waiting(t)
         /\ \A t \in Session : pc[t] = "done" => pc'[t] = "done"
         /\ \A t \in Session : pc'[t] \notin {"idle", "accepted", "done"}
                                 => pc[t] \notin {"idle", "accepted", "done"}
<1> USE DEF TypeOK, SessionTypeOK, Goto, Waiting, AwaitingTurn
<1>1. CASE SetupAndRun(s) BY <1>1 DEF SetupAndRun
<1>2. CASE PeerCreateFails(s) BY <1>2 DEF PeerCreateFails
<1>3. CASE LoopTest(s) BY <1>3 DEF LoopTest
<1>4. CASE RunPeerOnce(s)
  BY <1>4 DEF RunPeerOnce, PeerIdle, PeerLoopEnded, NegotiationTimeout,
              CredentialsAccepted, CredentialsRejected, Abort
<1>5. CASE BringUp(s)
  BY <1>5 DEF BringUp, CreateDisplay, StartDisplayControl, BecomeActive
<1>6. CASE TearDown(s)
  BY <1>6 DEF TearDown, StopMedia, StopDisplayControl, DestroyDisplay,
              DestroyPeer, SignalTeardown, Release
<1>7. QED
  BY <1>1, <1>2, <1>3, <1>4, <1>5, <1>6 DEF SessionStep

-----------------------------------------------------------------------------
(* What a queue's place says of its session.                               *)

LEMMA LocalStep ==
  ASSUME TypeOK, LocalInv, OrderInv, [Next]_vars
  PROVE  LocalInv'
<1> SUFFICES ASSUME NEW t \in Session PROVE PlaceInv(t)'
  BY DEF LocalInv
<1>0. PlaceInv(t)
  BY DEF LocalInv
<1> USE <1>0
    DEF TypeOK, SessionTypeOK, PlaceInv, Owns, vars, sessionVars, registryVars,
        historyVars, Goto, BeforeRun, PeerLoop, AwaitingTurn, BringingUp,
        TearingDown
<1>1. ASSUME NEW s \in Session, AcceptConnection(s) PROVE PlaceInv(t)'
  BY <1>1 DEF AcceptConnection
<1>2. ASSUME NEW s \in Session, RegisterSession(s) PROVE PlaceInv(t)'
  BY <1>2 DEF RegisterSession
<1>3. ASSUME NEW s \in Session, TestRunning(s) PROVE PlaceInv(t)'
  BY <1>3 DEF TestRunning, Abort
<1>4. ASSUME NEW s \in Session, Claim(s) PROVE PlaceInv(t)'
  BY <1>4 DEF Claim
<1>5. ASSUME NEW s \in Session, DisconnectPrevious(s) PROVE PlaceInv(t)'
  BY <1>5 DEF DisconnectPrevious, Disconnect
<1>6. ASSUME NEW s \in Session, TeardownObserved(s) PROVE PlaceInv(t)'
  <2>1. previous[s] \in Session
    BY <1>6 DEF TeardownObserved, OrderInv, Waiting
  <2>2. teardownSem'[t] > 0 => teardownSem[t] > 0
    BY <1>6, <2>1 DEF TeardownObserved
  <2>3. QED
    BY <1>6, <2>2 DEF TeardownObserved
<1>7. ASSUME NEW s \in Session, WaitTimesOut(s) PROVE PlaceInv(t)'
  BY <1>7 DEF WaitTimesOut
<1>8. ASSUME NEW s \in Session, Recheck(s) PROVE PlaceInv(t)'
  BY <1>8 DEF Recheck, Abort
<1>9. ASSUME NEW s \in Session, SessionDidEnd(s) PROVE PlaceInv(t)'
  BY <1>9 DEF SessionDidEnd
<1>10. CASE StopListening
  BY <1>10 DEF StopListening
<1>11. CASE StopSessions
  BY <1>11 DEF StopSessions, Disconnect
<1>12. ASSUME NEW s \in Session, SessionStep(s),
              UNCHANGED <<registryVars, previous, historyVars>>
       PROVE PlaceInv(t)'
  <2>1. CASE SetupAndRun(s) BY <1>12, <2>1 DEF SetupAndRun
  <2>2. CASE PeerCreateFails(s) BY <1>12, <2>2 DEF PeerCreateFails
  <2>3. CASE LoopTest(s) BY <1>12, <2>3 DEF LoopTest
  <2>4. CASE PeerIdle(s) BY <1>12, <2>4 DEF PeerIdle
  <2>5. CASE PeerLoopEnded(s) BY <1>12, <2>5 DEF PeerLoopEnded
  <2>6. CASE NegotiationTimeout(s) BY <1>12, <2>6 DEF NegotiationTimeout
  <2>7. CASE CredentialsAccepted(s) BY <1>12, <2>7 DEF CredentialsAccepted, MayActivate
  <2>8. CASE CredentialsRejected(s) BY <1>12, <2>8 DEF CredentialsRejected, Abort
  <2>9. CASE CreateDisplay(s) BY <1>12, <2>9 DEF CreateDisplay
  <2>10. CASE StartDisplayControl(s) BY <1>12, <2>10 DEF StartDisplayControl
  <2>11. CASE BecomeActive(s) BY <1>12, <2>11 DEF BecomeActive
  <2>12. CASE StopMedia(s) BY <1>12, <2>12 DEF StopMedia, Release
  <2>13. CASE StopDisplayControl(s) BY <1>12, <2>13 DEF StopDisplayControl, Release
  <2>14. CASE DestroyDisplay(s) BY <1>12, <2>14 DEF DestroyDisplay
  <2>15. CASE DestroyPeer(s) BY <1>12, <2>15 DEF DestroyPeer, Release
  <2>16. CASE SignalTeardown(s) BY <1>12, <2>16 DEF SignalTeardown
  <2>17. QED
    BY <1>12, <2>1, <2>2, <2>3, <2>4, <2>5, <2>6, <2>7, <2>8, <2>9, <2>10,
       <2>11, <2>12, <2>13, <2>14, <2>15, <2>16
    DEF SessionStep, RunPeerOnce, BringUp, TearDown
<1>13. CASE UNCHANGED vars
  BY <1>13
<1>14. QED
  BY <1>1, <1>2, <1>3, <1>4, <1>5, <1>6, <1>7, <1>8, <1>9, <1>10, <1>11, <1>12,
     <1>13
  DEF Next, QueueStep, RequestActivation

-----------------------------------------------------------------------------
(* The order of the claims.                                                *)

(* A step that only stops waiting, or clears the active session.           *)
LEMMA OrderKept ==
  ASSUME OrderInv, UNCHANGED <<claimed, before, previous>>,
         activeSession' \in {activeSession, None},
         \A t \in Session : Waiting(t)' => Waiting(t)
  PROVE  OrderInv'
BY DEF OrderInv

(* A claim puts the claimant on top of everybody who claimed before.       *)
LEMMA OrderClaim ==
  ASSUME TypeOK, LocalInv, OrderInv, NEW s \in Session, Claim(s)
  PROVE  OrderInv'
<1> USE DEF TypeOK, SessionTypeOK
<1>1. s \notin claimed /\ pc[s] = "claim"
  BY DEF Claim, Goto, LocalInv, PlaceInv, PeerLoop, AwaitingTurn, TearingDown
<1>2. /\ claimed' = claimed \cup {s}
      /\ before'[s] = claimed
      /\ previous'[s] = activeSession
      /\ activeSession' = s
      /\ \A t \in Session \ {s} : before'[t] = before[t] /\ previous'[t] = previous[t]
  BY DEF Claim, SetActive
<1>3. /\ \A t \in Session \ {s} : Waiting(t)' <=> Waiting(t)
      /\ Waiting(s)' => activeSession # None
  BY DEF Claim, Goto, Waiting, AwaitingTurn
<1>4. \A t \in Session : s \notin before[t]
  BY <1>1 DEF OrderInv
<1>5. \A x, y \in claimed' : x # y => x \in before'[y] \/ y \in before'[x]
  BY <1>1, <1>2 DEF OrderInv
<1>6. ASSUME NEW x \in Session, NEW y \in Session, x \in before'[y]
      PROVE  x \in claimed' /\ y \notin before'[x] /\ before'[x] \subseteq before'[y]
  <2>1. x # s
    BY <1>1, <1>2, <1>4, <1>6
  <2>2. CASE y = s
    BY <1>1, <1>2, <1>4, <1>6, <2>1, <2>2 DEF OrderInv
  <2>3. CASE y # s
    BY <1>2, <1>6, <2>1, <2>3 DEF OrderInv
  <2>4. QED
    BY <2>2, <2>3
<1>7. ASSUME NEW t \in Session
      PROVE  /\ Waiting(t)' => previous'[t] # None
             /\ previous'[t] # None =>
                  /\ previous'[t] \in before'[t]
                  /\ \A x \in before'[t] :
                       x = previous'[t] \/ x \in before'[previous'[t]]
  <2>1. CASE t = s
    BY <1>1, <1>2, <1>3, <2>1 DEF OrderInv
  <2>2. CASE t # s
    BY <1>2, <1>3, <1>4, <2>2 DEF OrderInv
  <2>3. QED
    BY <2>1, <2>2
<1>8. /\ activeSession' \in claimed'
      /\ \A x \in claimed' : x = activeSession' \/ x \in before'[activeSession']
  BY <1>2
<1>9. QED
  BY <1>5, <1>6, <1>7, <1>8 DEF OrderInv

LEMMA OrderStep ==
  ASSUME TypeOK, LocalInv, OrderInv, [Next]_vars
  PROVE  OrderInv'
<1> USE DEF TypeOK, SessionTypeOK, vars, sessionVars, registryVars, historyVars,
            Goto, SetActive, Waiting, AwaitingTurn
<1>1. ASSUME NEW s \in Session, AcceptConnection(s) PROVE OrderInv'
  BY <1>1, OrderKept DEF AcceptConnection
<1>2. ASSUME NEW s \in Session, RegisterSession(s) PROVE OrderInv'
  BY <1>2, OrderKept DEF RegisterSession
<1>3. ASSUME NEW s \in Session, TestRunning(s) PROVE OrderInv'
  BY <1>3, OrderKept DEF TestRunning, Abort
<1>4. ASSUME NEW s \in Session, Claim(s) PROVE OrderInv'
  BY <1>4, OrderClaim
<1>5. ASSUME NEW s \in Session, DisconnectPrevious(s) PROVE OrderInv'
  BY <1>5, OrderKept DEF DisconnectPrevious
<1>6. ASSUME NEW s \in Session, TeardownObserved(s) PROVE OrderInv'
  BY <1>6, OrderKept DEF TeardownObserved
<1>7. ASSUME NEW s \in Session, WaitTimesOut(s) PROVE OrderInv'
  BY <1>7, OrderKept DEF WaitTimesOut
<1>8. ASSUME NEW s \in Session, Recheck(s) PROVE OrderInv'
  BY <1>8, OrderKept DEF Recheck, Abort
<1>9. ASSUME NEW s \in Session, SessionDidEnd(s) PROVE OrderInv'
  BY <1>9, OrderKept DEF SessionDidEnd
<1>10. CASE StopListening
  BY <1>10, OrderKept DEF StopListening
<1>11. CASE StopSessions
  BY <1>11, OrderKept DEF StopSessions
<1>12. ASSUME NEW s \in Session, SessionStep(s),
              UNCHANGED <<registryVars, previous, historyVars>>
       PROVE OrderInv'
  <2>1. \A t \in Session : Waiting(t)' <=> Waiting(t)
    BY <1>12, SessionFrame
  <2>2. QED
    BY <1>12, <2>1, OrderKept
<1>13. CASE UNCHANGED vars
  BY <1>13, OrderKept
<1>14. QED
  BY <1>1, <1>2, <1>3, <1>4, <1>5, <1>6, <1>7, <1>8, <1>9, <1>10, <1>11, <1>12,
     <1>13
  DEF Next, QueueStep, RequestActivation

-----------------------------------------------------------------------------
(* Whose turn it is.                                                       *)

(* A step that changes no claim, lets nobody through and undoes no end.    *)
LEMMA TurnKept ==
  ASSUME OrderInv, TurnInv, Orderly' => Orderly,
         UNCHANGED <<claimed, before, activeSession>>, TypeOK,
         \A t \in Session : Waiting(t) => Waiting(t)',
         \A t \in Session : pc[t] = "done" => pc'[t] = "done"
  PROVE  TurnInv'
BY DEF TurnInv, TypeOK

(* With no session active, every earlier claimant is done when s claims.   *)
LEMMA TurnClaim ==
  ASSUME TypeOK, LocalInv, OrderInv, TurnInv, NEW s \in Session, Claim(s)
  PROVE  TurnInv'
<1> USE DEF TypeOK, SessionTypeOK
<1>1. s \notin claimed /\ pc[s] = "claim"
  BY DEF Claim, Goto, LocalInv, PlaceInv, PeerLoop, AwaitingTurn, TearingDown
<1>2. /\ claimed' = claimed \cup {s}
      /\ before'[s] = claimed
      /\ activeSession' = s
      /\ \A t \in Session \ {s} : before'[t] = before[t] /\ pc'[t] = pc[t]
      /\ Orderly' => Orderly
  BY DEF Claim, SetActive, Goto, Orderly
<1>3. activeSession # s
  BY <1>1, NoneAssumption DEF OrderInv
<1>4. ~Waiting(s)' => activeSession = None
  BY <1>3 DEF Claim, Goto, Waiting, AwaitingTurn
<1>5. SUFFICES ASSUME Orderly', NEW x \in claimed', ~Waiting(x)', NEW t \in before'[x]
               PROVE  pc'[t] = "done"
  BY <1>2, NoneAssumption DEF TurnInv
<1>6. CASE x = s
  BY <1>1, <1>2, <1>4, <1>5, <1>6 DEF TurnInv
<1>7. CASE x # s
  <2>1. x \in claimed /\ ~Waiting(x) /\ t \in before[x]
    BY <1>2, <1>5, <1>7 DEF Waiting
  <2>2. pc[t] = "done" /\ t # s
    BY <1>1, <1>2, <1>5, <2>1 DEF TurnInv
  <2>3. QED
    BY <1>2, <2>1, <2>2
<1>8. QED
  BY <1>6, <1>7

(* Whoever sees its predecessor's semaphore signalled comes after a        *)
(* session that is done, and so after everybody before that one.           *)
LEMMA TurnTeardown ==
  ASSUME TypeOK, LocalInv, OrderInv, TurnInv, NEW s \in Session, TeardownObserved(s)
  PROVE  TurnInv'
<1> USE DEF TypeOK, SessionTypeOK
<1> DEFINE p == previous[s]
<1>1. /\ pc[s] = "wait" /\ pc' = [pc EXCEPT ![s] = "recheck"]
      /\ UNCHANGED <<claimed, before, activeSession>>
      /\ Orderly' => Orderly
      /\ teardownSem[p] > 0
  BY DEF TeardownObserved, Goto, registryVars, historyVars, Orderly
<1>2. p \in Session /\ p \in before[s] /\ p \in claimed
  BY <1>1 DEF OrderInv, Waiting, AwaitingTurn
<1>3. pc[p] = "done" /\ ~Waiting(p)
  BY <1>1, <1>2 DEF LocalInv, PlaceInv, Waiting, AwaitingTurn
<1>4. ASSUME Orderly, NEW t \in before[s] PROVE pc[t] = "done"
  <2>1. t = p \/ t \in before[p]
    BY <1>2, NoneAssumption DEF OrderInv
  <2>2. \A x \in before[p] : pc[x] = "done"
    BY <1>2, <1>3, <1>4 DEF TurnInv
  <2>3. QED
    BY <1>3, <2>1, <2>2
<1>5. \A t \in Session : pc[t] = "done" => pc'[t] = "done"
  BY <1>1
<1>6. \A t \in Session \ {s} : Waiting(t)' <=> Waiting(t)
  BY <1>1 DEF Waiting
<1>7. QED
  BY <1>1, <1>4, <1>5, <1>6 DEF TurnInv

(* The active session, once it is done, had everybody else before it.      *)
LEMMA TurnEnd ==
  ASSUME TypeOK, LocalInv, OrderInv, TurnInv, NEW s \in Session, SessionDidEnd(s)
  PROVE  TurnInv'
<1> USE DEF TypeOK, SessionTypeOK
<1>1. UNCHANGED <<pc, claimed, before>> /\ (Orderly' => Orderly)
  BY DEF SessionDidEnd, historyVars, Orderly
<1>2. activeSession' = IF activeSession = s THEN None ELSE activeSession
  BY DEF SessionDidEnd, SetActive
<1>3. ASSUME activeSession = s, Orderly, NEW x \in claimed PROVE pc[x] = "done"
  <2>1. pc[s] = "done" /\ ~Waiting(s)
    BY DEF SessionDidEnd, LocalInv, PlaceInv, Waiting, AwaitingTurn
  <2>2. s \in claimed /\ (x = s \/ x \in before[s])
    BY <1>3, NoneAssumption DEF OrderInv
  <2>3. QED
    BY <1>3, <2>1, <2>2 DEF TurnInv
<1>4. QED
  BY <1>1, <1>2, <1>3 DEF TurnInv, Waiting

LEMMA TurnStep ==
  ASSUME TypeOK, LocalInv, OrderInv, TurnInv, [Next]_vars
  PROVE  TurnInv'
<1> USE DEF vars, sessionVars, registryVars, historyVars, Goto, Waiting,
            AwaitingTurn, Orderly
<1>0. pc \in [Session -> Step]
  BY DEF TypeOK, SessionTypeOK
<1>1. ASSUME NEW s \in Session, AcceptConnection(s) PROVE TurnInv'
  BY <1>0, <1>1, TurnKept DEF AcceptConnection
<1>2. ASSUME NEW s \in Session, RegisterSession(s) PROVE TurnInv'
  BY <1>0, <1>2, TurnKept DEF RegisterSession
<1>3. ASSUME NEW s \in Session, TestRunning(s) PROVE TurnInv'
  BY <1>0, <1>3, TurnKept DEF TestRunning, Abort
<1>4. ASSUME NEW s \in Session, Claim(s) PROVE TurnInv'
  BY <1>4, TurnClaim
<1>5. ASSUME NEW s \in Session, DisconnectPrevious(s) PROVE TurnInv'
  BY <1>0, <1>5, TurnKept DEF DisconnectPrevious
<1>6. ASSUME NEW s \in Session, TeardownObserved(s) PROVE TurnInv'
  BY <1>6, TurnTeardown
<1>7. ASSUME NEW s \in Session, WaitTimesOut(s) PROVE TurnInv'
  BY <1>7 DEF WaitTimesOut, TurnInv
<1>8. ASSUME NEW s \in Session, Recheck(s) PROVE TurnInv'
  BY <1>0, <1>8, TurnKept DEF Recheck, Abort
<1>9. ASSUME NEW s \in Session, SessionDidEnd(s) PROVE TurnInv'
  BY <1>9, TurnEnd
<1>10. CASE StopListening
  BY <1>10, TurnKept DEF StopListening, running
<1>11. CASE StopSessions
  BY <1>11 DEF StopSessions, TurnInv
<1>12. ASSUME NEW s \in Session, SessionStep(s),
              UNCHANGED <<registryVars, previous, historyVars>>
       PROVE TurnInv'
  <2>1. /\ \A t \in Session : Waiting(t)' <=> Waiting(t)
        /\ \A t \in Session : pc[t] = "done" => pc'[t] = "done"
    BY <1>12, SessionFrame
  <2>2. QED
    BY <1>12, <2>1, TurnKept
<1>13. CASE UNCHANGED vars
  BY <1>13, TurnKept
<1>14. QED
  BY <1>1, <1>2, <1>3, <1>4, <1>5, <1>6, <1>7, <1>8, <1>9, <1>10, <1>11, <1>12,
     <1>13
  DEF Next, QueueStep, RequestActivation

-----------------------------------------------------------------------------
(* The registry.                                                           *)

LEMMA RegistryStep ==
  ASSUME TypeOK, LocalInv, RegistryInv, [Next]_vars
  PROVE  RegistryInv'
<1> USE NoneAssumption
    DEF TypeOK, SessionTypeOK, vars, sessionVars, registryVars, historyVars,
        Goto, SetActive, RegistryInv
<1>1. ASSUME NEW s \in Session, AcceptConnection(s) PROVE RegistryInv'
  BY <1>1 DEF AcceptConnection
<1>2. ASSUME NEW s \in Session, RegisterSession(s) PROVE RegistryInv'
  BY <1>2 DEF RegisterSession
<1>3. ASSUME NEW s \in Session, TestRunning(s) PROVE RegistryInv'
  BY <1>3 DEF TestRunning, Abort
<1>4. ASSUME NEW s \in Session, Claim(s) PROVE RegistryInv'
  BY <1>4 DEF Claim
<1>5. ASSUME NEW s \in Session, DisconnectPrevious(s) PROVE RegistryInv'
  BY <1>5 DEF DisconnectPrevious
<1>6. ASSUME NEW s \in Session, TeardownObserved(s) PROVE RegistryInv'
  BY <1>6 DEF TeardownObserved
<1>7. ASSUME NEW s \in Session, WaitTimesOut(s) PROVE RegistryInv'
  BY <1>7 DEF WaitTimesOut
<1>8. ASSUME NEW s \in Session, Recheck(s) PROVE RegistryInv'
  BY <1>8 DEF Recheck, Abort
<1>9. ASSUME NEW s \in Session, SessionDidEnd(s) PROVE RegistryInv'
  <2>1. pc[s] = "done"
    BY <1>9 DEF SessionDidEnd, LocalInv, PlaceInv
  <2>2. QED
    BY <1>9, <2>1 DEF SessionDidEnd
<1>10. CASE StopListening
  BY <1>10 DEF StopListening, running
<1>11. CASE StopSessions
  BY <1>11 DEF StopSessions
<1>12. ASSUME NEW s \in Session, SessionStep(s),
              UNCHANGED <<registryVars, previous, historyVars>>
       PROVE RegistryInv'
  <2>1. \A t \in Session : pc'[t] \notin {"idle", "accepted", "done"}
                              => pc[t] \notin {"idle", "accepted", "done"}
    BY <1>12, SessionFrame
  <2>2. QED
    BY <1>12, <2>1
<1>13. CASE UNCHANGED vars
  BY <1>13
<1>14. QED
  BY <1>1, <1>2, <1>3, <1>4, <1>5, <1>6, <1>7, <1>8, <1>9, <1>10, <1>11, <1>12,
     <1>13
  DEF Next, QueueStep, RequestActivation

-----------------------------------------------------------------------------
(* The inductive invariant.                                                *)

LEMMA InitInv == Init => TypeOK /\ ClaimOrderInv
<1> SUFFICES ASSUME Init PROVE TypeOK /\ ClaimOrderInv
  OBVIOUS
<1>1. \A s \in Session :
        /\ pc[s] = "idle" /\ ~activated[s] /\ display[s] = "none"
        /\ held[s] = {} /\ teardownSem[s] = 0 /\ previous[s] = None /\ before[s] = {}
  BY DEF Init, SessionInit
<1>2. SessionTypeOK
  BY Steps DEF Init, SessionInit, SessionTypeOK, State, DisplayKind
<1>3. TypeOK
  BY <1>2 DEF Init, TypeOK
<1>4. claimed = {} /\ ending = {} /\ overran = {} /\ activeSession = None
      /\ hasActiveSession = FALSE
  BY DEF Init, SessionInit
<1>5. LocalInv
  <2> SUFFICES ASSUME NEW s \in Session PROVE PlaceInv(s)
    BY DEF LocalInv
  <2>1. ~activated[s] /\ s \notin claimed /\ ~Owns(s) /\ s \notin ending
    BY <1>1, <1>4 DEF Owns
  <2>2. pc[s] \notin AwaitingTurn \cup BringingUp /\ held[s] = {} /\ ~(teardownSem[s] > 0)
    BY <1>1 DEF AwaitingTurn, BringingUp
  <2>3. QED
    BY <2>1, <2>2 DEF PlaceInv, BringingUp
<1>6. OrderInv
  BY <1>1, <1>4 DEF OrderInv, Waiting, AwaitingTurn
<1>7. TurnInv /\ RegistryInv
  BY <1>1, <1>4, NoneAssumption DEF TurnInv, RegistryInv
<1>8. QED
  BY <1>3, <1>5, <1>6, <1>7 DEF ClaimOrderInv

LEMMA StepInv == TypeOK /\ ClaimOrderInv /\ [Next]_vars => TypeOK' /\ ClaimOrderInv'
BY TypeStep, LocalStep, OrderStep, TurnStep, RegistryStep DEF ClaimOrderInv

(* Types, and the order of the claims with what a queue's place, the turn  *)
(* and the registry have to do with it, in every reachable state.          *)
THEOREM Correct == Spec => [](TypeOK /\ ClaimOrderInv)
<1>1. QED
  BY InitInv, StepInv, PTL DEF Spec

(* Type correctness of the sessions and the registry; in particular the    *)
(* teardown semaphore is never signalled twice.                            *)
THEOREM TypeCorrect == Spec => []TypeOK
BY Correct, PTL

-----------------------------------------------------------------------------
(* What follows from it.                                                   *)

(* An owner is a claimant whose turn came, so everybody before it is done, *)
(* and a session that is done holds nothing.                               *)
LEMMA OwnerAfterDone ==
  ASSUME TypeOK, ClaimOrderInv, Orderly, NEW s \in Session, Owns(s)
  PROVE  s \in claimed /\ \A t \in before[s] : pc[t] = "done" /\ held[t] = {}
<1> USE DEF TypeOK, SessionTypeOK, ClaimOrderInv
<1>1. s \in claimed /\ ~Waiting(s)
  BY DEF LocalInv, PlaceInv, Waiting, AwaitingTurn, PeerLoop
<1>2. \A t \in before[s] : pc[t] = "done"
  BY <1>1 DEF TurnInv
<1>3. \A t \in Session : pc[t] = "done" => held[t] = {}
  BY DEF LocalInv, PlaceInv, Resource, PeerLoop
<1>4. QED
  BY <1>1, <1>2, <1>3

(* No two sessions own a display while the protocol is orderly.            *)
THEOREM Exclusive == Spec => []AtMostOneDisplay
<1>1. TypeOK /\ ClaimOrderInv => AtMostOneDisplay
  <2> SUFFICES ASSUME TypeOK, ClaimOrderInv, Orderly,
                      NEW s \in Session, NEW t \in Session, Owns(s), Owns(t), s # t
               PROVE  FALSE
    BY DEF AtMostOneDisplay
  <2>1. s \in before[t] \/ t \in before[s]
    BY OwnerAfterDone DEF ClaimOrderInv, OrderInv
  <2>2. pc[s] = "done" \/ pc[t] = "done"
    BY <2>1, OwnerAfterDone
  <2>3. QED
    BY <2>2 DEF ClaimOrderInv, LocalInv, PlaceInv, PeerLoop
<1>2. QED
  BY <1>1, Correct, PTL

(* Ownership follows the order of the claims.                              *)
THEOREM InClaimOrder == Spec => []OwnersInClaimOrder
<1>1. TypeOK /\ ClaimOrderInv => OwnersInClaimOrder
  BY OwnerAfterDone DEF OwnersInClaimOrder
<1>2. QED
  BY <1>1, Correct, PTL

(* The updater's flag is up from a session's claim to the end of its       *)
(* teardown.                                                               *)
THEOREM FlagCovers == Spec => []FlagCoversClaim
<1>1. TypeOK /\ ClaimOrderInv => FlagCoversClaim
  <2> SUFFICES ASSUME TypeOK, ClaimOrderInv, Orderly, NEW s \in Session,
                      Owns(s) \/ (s \in claimed /\ pc[s] # "done")
               PROVE  hasActiveSession
    BY DEF FlagCoversClaim
  <2>1. s \in claimed
    BY OwnerAfterDone
  <2>2. pc[s] # "done"
    BY DEF ClaimOrderInv, LocalInv, PlaceInv, PeerLoop
  <2>3. activeSession # None
    BY <2>1, <2>2 DEF ClaimOrderInv, TurnInv
  <2>4. QED
    BY <2>3 DEF ClaimOrderInv, RegistryInv, TypeOK
<1>2. QED
  BY <1>1, Correct, PTL

(* One waiter at most for each session's teardown semaphore: a session's   *)
(* previous is the claimant right below it, and no two sit above one.      *)
THEOREM OneWaiter == Spec => []OneWaiterPerSession
<1>1. TypeOK /\ ClaimOrderInv => OneWaiterPerSession
  <2> SUFFICES ASSUME TypeOK, ClaimOrderInv, NEW s \in Session, NEW t \in Session,
                      pc[s] = "wait", pc[t] = "wait", previous[s] = previous[t], s # t
               PROVE  FALSE
    BY DEF OneWaiterPerSession
  <2>1. ASSUME NEW x \in Session, NEW y \in Session, pc[x] = "wait", pc[y] = "wait",
               previous[x] = previous[y], x \in before[y]
        PROVE  FALSE
    <3>1. /\ previous[x] \in Session
          /\ previous[x] \in before[x]
          /\ x = previous[x] \/ x \in before[previous[x]]
      BY <2>1, NoneAssumption
      DEF ClaimOrderInv, OrderInv, Waiting, AwaitingTurn, TypeOK
    <3>2. QED
      BY <3>1 DEF ClaimOrderInv, OrderInv
  <2>2. s \in claimed /\ t \in claimed
    BY DEF ClaimOrderInv, LocalInv, PlaceInv, AwaitingTurn
  <2>3. s \in before[t] \/ t \in before[s]
    BY <2>2 DEF ClaimOrderInv, OrderInv
  <2>4. QED
    BY <2>1, <2>3
<1>2. QED
  BY <1>1, Correct, PTL

(* Every claim adds one claimant, so the claimants are always finitely     *)
(* many, however many sessions there may be.                               *)
LEMMA FinitelyManyClaims == Spec => []IsFiniteSet(claimed)
<1>1. Init => IsFiniteSet(claimed)
  BY FS_EmptySet DEF Init
<1>2. ASSUME IsFiniteSet(claimed), [Next]_vars
      PROVE  claimed' = claimed \/ \E s \in Session : claimed' = claimed \cup {s}
  <2> USE DEF vars, historyVars
  <2>1. ASSUME NEW s \in Session, QueueStep(s)
        PROVE  claimed' = claimed \/ \E t \in Session : claimed' = claimed \cup {t}
    BY <2>1 DEF QueueStep, RegisterSession, RequestActivation, TestRunning, Claim,
                DisconnectPrevious, TeardownObserved, WaitTimesOut, Recheck
  <2>2. ASSUME NEW s \in Session, AcceptConnection(s) \/ SessionDidEnd(s)
        PROVE  claimed' = claimed
    BY <2>2 DEF AcceptConnection, SessionDidEnd
  <2>3. CASE StopListening \/ StopSessions
    BY <2>3 DEF StopListening, StopSessions
  <2>4. CASE UNCHANGED vars
    BY <2>4
  <2>5. QED
    BY <1>2, <2>1, <2>2, <2>3, <2>4 DEF Next
<1>3. IsFiniteSet(claimed) /\ [Next]_vars => IsFiniteSet(claimed)'
  BY <1>2, FS_AddElement
<1>4. QED
  BY <1>1, <1>3, PTL DEF Spec

(* A waiter's predecessor claimed before it, and everybody before the      *)
(* predecessor claimed before the waiter: in a set of sessions that wait   *)
(* for each other, the sets of earlier claimants would descend for ever.   *)
LEMMA WaitsDescend ==
  ASSUME TypeOK, ClaimOrderInv, NEW s \in Session, pc[s] = "wait"
  PROVE  /\ previous[s] \in Session
         /\ <<before[previous[s]], before[s]>> \in StrictSubsetOrdering(Session)
<1> USE DEF TypeOK, ClaimOrderInv, OrderInv
<1>1. previous[s] \in Session /\ previous[s] \in before[s]
  BY NoneAssumption DEF Waiting, AwaitingTurn
<1>2. previous[s] \notin before[previous[s]] /\ before[previous[s]] \subseteq before[s]
  BY <1>1
<1>3. QED
  BY <1>1, <1>2 DEF StrictSubsetOrdering

(* No set of sessions ever wait for each other, for any number of          *)
(* sessions: a nonempty set of waiters has one with the fewest earlier     *)
(* claimants, and the session it waits for is not in the set.              *)
THEOREM NoCycle == Spec => []NoWaitCycle
<1>1. TypeOK /\ ClaimOrderInv /\ IsFiniteSet(claimed) => NoWaitCycle
  <2> SUFFICES ASSUME TypeOK, ClaimOrderInv, IsFiniteSet(claimed),
                      NEW S \in SUBSET Session, S # {},
                      \A s \in S : pc[s] = "wait" /\ previous[s] \in S
               PROVE  FALSE
    BY DEF NoWaitCycle
  <2> DEFINE T == {before[s] : s \in S}
  <2>1. ASSUME NEW s \in S
        PROVE  before[s] \in FiniteSubsetsOf(Session)
    <3>1. before[s] \in SUBSET claimed /\ before[s] \in SUBSET Session
      BY DEF TypeOK, ClaimOrderInv, OrderInv
    <3>2. QED
      BY <3>1, FS_Subset DEF FiniteSubsetsOf
  <2>2. T \subseteq FiniteSubsetsOf(Session) /\ T # {}
    BY <2>1
  <2>3. IsWellFoundedOn(StrictSubsetOrdering(Session), FiniteSubsetsOf(Session))
    BY FS_StrictSubsetOrderingWellFounded
  <2> HIDE DEF T
  <2>4. PICK x \in T : \A y \in T : <<y, x>> \notin StrictSubsetOrdering(Session)
    BY <2>2, <2>3, WFMin
  <2>5. PICK s \in S : x = before[s]
    BY DEF T
  <2>6. before[previous[s]] \in T
    BY DEF T
  <2>7. QED
    BY <2>4, <2>5, <2>6, WaitsDescend
<1>2. QED
  BY <1>1, Correct, FinitelyManyClaims, PTL

(* A step that disconnects a session which is not moving itself is a stop, *)
(* or the takeover of a claimant whose previous that session is.           *)
THEOREM SuccessorOnly == Spec => OnlySuccessorDisconnects
<1> DEFINE Allowed(s) ==
      pc'[s] = pc[s] /\ sessionState'[s] # sessionState[s] =>
        \/ phase' = "stopped"
        \/ \E t \in claimed : s \in before[t] /\ previous[t] = s
<1>1. ASSUME TypeOK, ClaimOrderInv, [Next]_vars, NEW s \in Session
      PROVE  Allowed(s)
  <2> USE <1>1 DEF TypeOK, SessionTypeOK, vars, sessionVars, Goto
  <2>1. ASSUME NEW t \in Session, DisconnectPrevious(t) PROVE Allowed(s)
    <3>1. t \in claimed /\ previous[t] # None
      BY <2>1 DEF DisconnectPrevious, ClaimOrderInv, LocalInv, PlaceInv, OrderInv,
                  Waiting, AwaitingTurn
    <3>2. previous[t] \in before[t]
      BY <3>1 DEF ClaimOrderInv, OrderInv
    <3>3. QED
      BY <2>1, <3>1, <3>2 DEF DisconnectPrevious, Disconnect
  <2>2. ASSUME NEW t \in Session, TestRunning(t) \/ Recheck(t) PROVE Allowed(s)
    BY <2>2 DEF TestRunning, Recheck, Abort
  <2>3. ASSUME NEW t \in Session,
               \/ AcceptConnection(t) \/ RegisterSession(t) \/ Claim(t)
               \/ TeardownObserved(t) \/ WaitTimesOut(t) \/ SessionDidEnd(t)
        PROVE  Allowed(s)
    BY <2>3 DEF AcceptConnection, RegisterSession, Claim, TeardownObserved,
                WaitTimesOut, SessionDidEnd
  <2>4. CASE StopListening
    BY <2>4 DEF StopListening
  <2>5. CASE StopSessions
    BY <2>5 DEF StopSessions
  <2>6. ASSUME NEW t \in Session, SessionStep(t) PROVE Allowed(s)
    <3>1. CASE SetupAndRun(t) BY <3>1 DEF SetupAndRun
    <3>2. CASE PeerCreateFails(t) BY <3>2 DEF PeerCreateFails
    <3>3. CASE LoopTest(t) BY <3>3 DEF LoopTest
    <3>4. CASE RunPeerOnce(t)
      BY <3>4 DEF RunPeerOnce, PeerIdle, PeerLoopEnded, NegotiationTimeout,
                  CredentialsAccepted, CredentialsRejected, Abort
    <3>5. CASE BringUp(t)
      BY <3>5 DEF BringUp, CreateDisplay, StartDisplayControl, BecomeActive
    <3>6. CASE TearDown(t)
      BY <3>6 DEF TearDown, StopMedia, StopDisplayControl, DestroyDisplay, DestroyPeer,
                  SignalTeardown, Release
    <3>7. QED
      BY <2>6, <3>1, <3>2, <3>3, <3>4, <3>5, <3>6 DEF SessionStep
  <2>7. CASE UNCHANGED vars
    BY <2>7
  <2>8. QED
    BY <2>1, <2>2, <2>3, <2>4, <2>5, <2>6, <2>7 DEF Next, QueueStep, RequestActivation
<1>2. TypeOK /\ ClaimOrderInv /\ [Next]_vars
        => [\A s \in Session : Allowed(s)]_vars
  BY <1>1
<1>3. QED
  BY <1>2, Correct, PTL DEF Spec, OnlySuccessorDisconnects

-----------------------------------------------------------------------------
(* The refinement: what each step does to the display's ownership.         *)

(* A step that touches neither a display, a claim nor the flag, nor the    *)
(* protocol's good order, is a stutter of the promise.                     *)
LEMMA PromiseStutters ==
  ASSUME UNCHANGED <<display, activated, claimed, hasActiveSession, overran>>,
         (phase' = "stopped") <=> (phase = "stopped"),
         \A t \in claimed : pc'[t] = "done" <=> pc[t] = "done"
  PROVE  UNCHANGED Promise!ownershipVars
BY DEF Promise!ownershipVars, Owns, Orderly

LEMMA PromiseQueueMoves ==
  ASSUME TypeOK, NEW s \in Session, NEW from, NEW to, Goto(s, from, to),
         from # "done", to # "done",
         UNCHANGED <<display, activated, claimed, hasActiveSession, overran, phase>>
  PROVE  UNCHANGED Promise!ownershipVars
<1>1. \A t \in claimed : pc'[t] = "done" <=> pc[t] = "done"
  BY DEF TypeOK, SessionTypeOK, Goto
<1>2. QED
  BY <1>1, PromiseStutters

(* What is in whose hands, for a session whose queue is at its claim, at   *)
(* its wait or at the creation of its display.                             *)
LEMMA PromiseClaimant ==
  ASSUME TypeOK, ClaimOrderInv, NEW s \in Session
  PROVE  /\ pc[s] = "claim" => s \notin claimed /\ ~activated[s] /\ ~Owns(s)
         /\ pc[s] \in {"wait", "create"} => s \in claimed /\ ~activated[s] /\ ~Owns(s)
BY DEF TypeOK, SessionTypeOK, ClaimOrderInv, LocalInv, PlaceInv, AwaitingTurn, BringingUp, PeerLoop,
   TearingDown

LEMMA PromiseClaim ==
  ASSUME TypeOK, ClaimOrderInv, NEW s \in Session, Claim(s)
  PROVE  Promise!Claim(s)
<1> USE DEF TypeOK, SessionTypeOK
<1>1. s \notin claimed /\ ~activated[s] /\ ~Owns(s)
  BY PromiseClaimant DEF Claim, Goto
<1>2. /\ claimed' = claimed \cup {s} /\ UNCHANGED <<display, activated, overran, phase>>
      /\ pc'[s] # "done" /\ \A t \in Session \ {s} : pc'[t] = pc[t]
  BY DEF Claim, Goto
<1>3. hasActiveSession' = TRUE
  BY NoneAssumption DEF Claim, SetActive
<1>4. (Orderly' <=> Orderly) /\ \A t \in Session : Owns(t)' <=> Owns(t)
  BY <1>2 DEF Orderly, Owns
<1>5. QED
  BY <1>1, <1>2, <1>3, <1>4 DEF Promise!Claim

(* A wait that times out contests the display, once; the one that waited   *)
(* is a claimant.                                                          *)
LEMMA PromiseContested ==
  ASSUME TypeOK, ClaimOrderInv, NEW s \in Session, WaitTimesOut(s)
  PROVE  [Promise!Next]_Promise!ownershipVars
<1> USE DEF TypeOK, SessionTypeOK
<1>1. s \in claimed /\ ~activated[s] /\ pc[s] # "done"
  BY PromiseClaimant DEF WaitTimesOut, Goto
<1>2. /\ UNCHANGED <<display, activated, claimed, hasActiveSession>> /\ ~Orderly'
      /\ \A t \in claimed : pc'[t] = "done" <=> pc[t] = "done"
  BY DEF WaitTimesOut, Goto, registryVars, Orderly
<1>3. CASE Orderly
  <2>1. Promise!Contest
    BY <1>1, <1>2, <1>3 DEF Promise!Contest, Owns
  <2>2. QED
    BY <2>1 DEF Promise!Next
<1>4. CASE ~Orderly
  BY <1>2, <1>4 DEF Promise!ownershipVars, Owns
<1>5. QED
  BY <1>3, <1>4

LEMMA PromiseStop == ASSUME StopSessions PROVE Promise!Stop
<1>1. ~Orderly' /\ hasActiveSession' = FALSE
  BY DEF StopSessions, SetActive, Orderly
<1>2. UNCHANGED <<display, activated, claimed, pc>>
  BY DEF StopSessions, historyVars
<1>3. QED
  BY <1>1, <1>2 DEF Promise!Stop, Owns

(* The session that creates a display is the only owner there is, and has  *)
(* not owned one before.                                                   *)
LEMMA PromiseAcquire ==
  ASSUME TypeOK, ClaimOrderInv, NEW s \in Session, CreateDisplay(s),
         UNCHANGED <<registryVars, claimed, overran>>
  PROVE  Promise!Acquire(s)
<1> USE DEF TypeOK, SessionTypeOK
<1>1. pc[s] = "create" /\ s \in claimed /\ ~activated[s] /\ ~Owns(s)
  BY PromiseClaimant DEF CreateDisplay, Goto
<1>2. ASSUME Orderly, NEW t \in Session, Owns(t) PROVE FALSE
  <2>1. t \in claimed /\ t # s
    BY <1>1, <1>2, OwnerAfterDone
  <2>2. pc[t] # "done"
    BY <1>2 DEF ClaimOrderInv, LocalInv, PlaceInv, PeerLoop
  <2>3. s \notin before[t]
    BY <1>1, <1>2, OwnerAfterDone
  <2>4. t \notin before[s]
    BY <1>1, <1>2, <2>2 DEF ClaimOrderInv, TurnInv, Waiting, AwaitingTurn
  <2>5. QED
    BY <1>1, <2>1, <2>3, <2>4 DEF ClaimOrderInv, OrderInv
<1>3. /\ Owns(s)' /\ activated'[s]
      /\ \A t \in Session \ {s} : /\ Owns(t)' <=> Owns(t)
                                  /\ activated'[t] <=> activated[t]
                                  /\ pc'[t] = pc[t]
  BY DEF CreateDisplay, Goto, Owns
<1>4. (Orderly' <=> Orderly) /\ UNCHANGED hasActiveSession
  BY DEF Orderly, registryVars
<1>5. QED
  BY <1>1, <1>2, <1>3, <1>4 DEF Promise!Acquire

(* The teardown gives the display up, if the session had one.              *)
LEMMA PromiseGiveUp ==
  ASSUME TypeOK, ClaimOrderInv, NEW s \in Session, DestroyDisplay(s),
         UNCHANGED <<registryVars, claimed, overran>>
  PROVE  [Promise!Next]_Promise!ownershipVars
<1> USE DEF TypeOK, SessionTypeOK
<1>1. /\ ~Owns(s)'
      /\ \A t \in Session \ {s} : Owns(t)' <=> Owns(t)
      /\ UNCHANGED <<activated, hasActiveSession>>
      /\ Orderly' <=> Orderly
      /\ \A t \in Session : pc'[t] = "done" <=> pc[t] = "done"
  BY DEF DestroyDisplay, Goto, Owns, Orderly, registryVars
<1>2. CASE Owns(s)
  <2>1. activated[s]
    BY <1>2 DEF ClaimOrderInv, LocalInv, PlaceInv
  <2>2. Promise!GiveUp(s)
    BY <1>1, <1>2, <2>1 DEF Promise!GiveUp
  <2>3. QED
    BY <2>2 DEF Promise!Next
<1>3. CASE ~Owns(s)
  BY <1>1, <1>3 DEF Promise!ownershipVars
<1>4. QED
  BY <1>2, <1>3

(* A claimant that ends without a display withdraws.                       *)
LEMMA PromiseWithdraw ==
  ASSUME TypeOK, NEW s \in Session, SignalTeardown(s),
         UNCHANGED <<registryVars, claimed, overran>>
  PROVE  [Promise!Next]_Promise!ownershipVars
<1> USE DEF TypeOK, SessionTypeOK
<1>1. /\ pc[s] # "done" /\ pc'[s] = "done" /\ \A t \in Session \ {s} : pc'[t] = pc[t]
      /\ UNCHANGED <<display, activated, hasActiveSession>>
      /\ Orderly' <=> Orderly
      /\ \A t \in Session : Owns(t)' <=> Owns(t)
  BY DEF SignalTeardown, Goto, Owns, Orderly, registryVars
<1>2. CASE s \in claimed /\ ~activated[s]
  <2>1. Promise!Withdraw(s)
    BY <1>1, <1>2 DEF Promise!Withdraw
  <2>2. QED
    BY <2>1 DEF Promise!Next
<1>3. CASE ~(s \in claimed /\ ~activated[s])
  BY <1>1, <1>3 DEF Promise!ownershipVars
<1>4. QED
  BY <1>2, <1>3

(* When the active session is forgotten, nobody claims or owns the display *)
(* any more, for everybody else had claimed before it.                     *)
LEMMA PromiseLowerFlag ==
  ASSUME TypeOK, ClaimOrderInv, NEW s \in Session, SessionDidEnd(s)
  PROVE  [Promise!Next]_Promise!ownershipVars
<1> USE DEF TypeOK, SessionTypeOK
<1>1. /\ UNCHANGED <<pc, display, activated, claimed, before, overran, phase>>
      /\ Orderly' <=> Orderly
  BY DEF SessionDidEnd, historyVars, Orderly
<1>2. hasActiveSession = (activeSession # None)
  BY DEF ClaimOrderInv, RegistryInv
<1>3. CASE activeSession # s
  <2>1. UNCHANGED hasActiveSession
    BY <1>2, <1>3 DEF SessionDidEnd, SetActive
  <2>2. QED
    BY <1>1, <2>1, PromiseStutters
<1>4. CASE activeSession = s
  <2>1. hasActiveSession = TRUE /\ hasActiveSession' = FALSE
    BY <1>2, <1>4, NoneAssumption DEF SessionDidEnd, SetActive
  <2>2. ASSUME Orderly, NEW t \in claimed PROVE pc[t] = "done"
    <3>1. pc[s] = "done" /\ ~Waiting(s)
      BY DEF SessionDidEnd, ClaimOrderInv, LocalInv, PlaceInv, Waiting, AwaitingTurn
    <3>2. s \in claimed /\ (t = s \/ t \in before[s])
      BY <1>4, NoneAssumption DEF ClaimOrderInv, OrderInv
    <3>3. QED
      BY <2>2, <3>1, <3>2 DEF ClaimOrderInv, TurnInv
  <2>3. ASSUME NEW t \in Session, Owns(t) PROVE t \in claimed /\ pc[t] # "done"
    BY <2>3 DEF ClaimOrderInv, LocalInv, PlaceInv, PeerLoop
  <2>4. Promise!LowerFlag
    BY <1>1, <2>1, <2>2, <2>3 DEF Promise!LowerFlag, Owns
  <2>5. QED
    BY <2>4 DEF Promise!Next
<1>5. QED
  BY <1>3, <1>4

LEMMA PromiseStep ==
  ASSUME TypeOK, ClaimOrderInv, [Next]_vars
  PROVE  [Promise!Next]_Promise!ownershipVars
<1> USE DEF sessionVars, registryVars, historyVars
<1>1. ASSUME NEW s \in Session, AcceptConnection(s) \/ RegisterSession(s)
      PROVE  [Promise!Next]_Promise!ownershipVars
  BY <1>1, PromiseQueueMoves DEF AcceptConnection, RegisterSession
<1>2. ASSUME NEW s \in Session, RequestActivation(s)
      PROVE  [Promise!Next]_Promise!ownershipVars
  <2>1. CASE TestRunning(s)
    BY <2>1, PromiseQueueMoves DEF TestRunning, Abort
  <2>2. CASE Claim(s)
    BY <2>2, PromiseClaim DEF Promise!Next
  <2>3. CASE DisconnectPrevious(s)
    BY <2>3, PromiseQueueMoves DEF DisconnectPrevious
  <2>4. CASE TeardownObserved(s)
    BY <2>4, PromiseQueueMoves DEF TeardownObserved
  <2>5. CASE WaitTimesOut(s)
    BY <2>5, PromiseContested
  <2>6. CASE Recheck(s)
    BY <2>6, PromiseQueueMoves DEF Recheck, Abort
  <2>7. QED
    BY <1>2, <2>1, <2>2, <2>3, <2>4, <2>5, <2>6 DEF RequestActivation
<1>3. ASSUME NEW s \in Session, SessionDidEnd(s)
      PROVE  [Promise!Next]_Promise!ownershipVars
  BY <1>3, PromiseLowerFlag
<1>4. CASE StopListening
  BY <1>4, PromiseStutters DEF StopListening, running
<1>5. CASE StopSessions
  BY <1>5, PromiseStop DEF Promise!Next
<1>6. ASSUME NEW s \in Session, SessionStep(s),
             UNCHANGED <<registryVars, previous, historyVars>>
      PROVE  [Promise!Next]_Promise!ownershipVars
  <2>1. CASE CreateDisplay(s)
    BY <1>6, <2>1, PromiseAcquire DEF Promise!Next
  <2>2. CASE DestroyDisplay(s)
    BY <1>6, <2>2, PromiseGiveUp
  <2>3. CASE SignalTeardown(s)
    BY <1>6, <2>3, PromiseWithdraw
  <2>4. CASE PeerCreateFails(s)
    <3>1. s \notin claimed /\ \A t \in Session \ {s} : pc'[t] = pc[t]
      BY <2>4 DEF PeerCreateFails, Goto, ClaimOrderInv, LocalInv, PlaceInv, PeerLoop,
         AwaitingTurn, TearingDown, TypeOK, SessionTypeOK
    <3>2. \A t \in claimed : pc'[t] = "done" <=> pc[t] = "done"
      BY <3>1 DEF TypeOK
    <3>3. QED
      BY <1>6, <2>4, <3>2, PromiseStutters DEF PeerCreateFails
  <2>5. CASE SetupAndRun(s) \/ LoopTest(s)
    BY <1>6, <2>5, PromiseQueueMoves DEF SetupAndRun, LoopTest
  <2>6. CASE RunPeerOnce(s)
    BY <1>6, <2>6, PromiseQueueMoves
    DEF RunPeerOnce, PeerIdle, PeerLoopEnded, NegotiationTimeout, CredentialsAccepted,
        CredentialsRejected, Abort
  <2>7. CASE StartDisplayControl(s) \/ BecomeActive(s)
    BY <1>6, <2>7, PromiseQueueMoves DEF StartDisplayControl, BecomeActive
  <2>8. CASE StopMedia(s) \/ StopDisplayControl(s) \/ DestroyPeer(s)
    BY <1>6, <2>8, PromiseQueueMoves DEF StopMedia, StopDisplayControl, DestroyPeer, Release
  <2>9. QED
    BY <1>6, <2>1, <2>2, <2>3, <2>4, <2>5, <2>6, <2>7, <2>8 DEF SessionStep, BringUp, TearDown
<1>7. CASE UNCHANGED vars
  BY <1>7, PromiseStutters DEF vars
<1>8. QED
  BY <1>1, <1>2, <1>3, <1>4, <1>5, <1>6, <1>7 DEF Next, QueueStep

(* The server with its sessions implements DisplayOwnership, which is all  *)
(* that module Daemon assumes of it: a session acquires the display only   *)
(* when nobody owns it, and never twice, and the updater's flag is up as   *)
(* long as anybody claims or owns it, until a wait times out or the server *)
(* stops (sessionDidAuthenticateAndRequestActivation and sessionDidEnd).   *)
THEOREM Refines == Spec => KeepsPromise
<1>1. Init => Promise!Init
  BY DEF Init, SessionInit, Promise!Init, Owns, Orderly
<1>2. QED
  BY <1>1, PromiseStep, Correct, PTL DEF Spec, KeepsPromise, Promise!Spec

=============================================================================
