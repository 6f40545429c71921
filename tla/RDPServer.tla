------------------------------ MODULE RDPServer ------------------------------
(***************************************************************************)
(* The server's session registry and the takeover protocol                 *)
(* (daemon/RDPServer.m), composed with the sessions (module RDPSession).   *)
(*                                                                         *)
(* Threads: the accept queue, the main thread (stop), one serial queue per *)
(* session, and the global queue that runs sessionDidEnd.  They share the  *)
(* registry under @synchronized(self); each critical section is one        *)
(* action, and everything done outside the lock is a step of its own: the  *)
(* test of _running, the disconnect of the superseded session, the wait    *)
(* for its semaphore.                                                      *)
(*                                                                         *)
(* claimed, before and overran are history variables: who entered the      *)
(* claiming critical section, in which order, and which takeovers went on  *)
(* after their wait timed out.                                             *)
(***************************************************************************)
EXTENDS RDPSession

VARIABLES
  phase,            (* of the main thread: running until stop clears _running,
                       stopped once stop has left its critical section   *)
  sessions,         (* _sessions                                         *)
  activeSession,    (* _activeSession                                    *)
  hasActiveSession, (* g_hasActiveSession, read by the updater           *)
  previous,         (* local variable of the activation request          *)
  claimed,          (* history: the sessions that claimed the display    *)
  before,           (* history: before[s] claimed earlier than s did     *)
  overran           (* history: sessions whose wait timed out            *)

registryVars == <<phase, sessions, activeSession, hasActiveSession>>
historyVars  == <<claimed, before, overran>>
vars == <<sessionVars, registryVars, previous, historyVars>>

running == phase = "running"

-----------------------------------------------------------------------------
TypeOK ==
  /\ SessionTypeOK
  /\ phase \in {"running", "stopping", "stopped"}
  /\ sessions \in SUBSET Session
  /\ activeSession \in Session \cup {None}
  /\ hasActiveSession \in BOOLEAN
  /\ previous \in [Session -> Session \cup {None}]
  /\ claimed \in SUBSET Session
  /\ before \in [Session -> SUBSET Session]
  /\ overran \in SUBSET Session

Init ==
  /\ SessionInit
  /\ phase = "running"
  /\ sessions = {}
  /\ activeSession = None
  /\ hasActiveSession = FALSE
  /\ previous = [s \in Session |-> None]
  /\ claimed = {}
  /\ before = [s \in Session |-> {}]
  /\ overran = {}

(* updateActiveSessionFlag ends every critical section that may have       *)
(* changed _activeSession.                                                 *)
SetActive(a) ==
  /\ activeSession' = a
  /\ hasActiveSession' = (a # None)

-----------------------------------------------------------------------------
(* acceptConnection, on the serial accept queue: accept and create the     *)
(* session, then register and start it.  stop may run in between.          *)
AcceptConnection(s) ==
  /\ running
  /\ \A t \in Session : pc[t] # "accepted"
  /\ Goto(s, "idle", "accepted")
  /\ UNCHANGED <<sessionState, activated, display, held, teardownSem, ending,
                 registryVars, previous, historyVars>>

RegisterSession(s) ==
  /\ Goto(s, "accepted", "queued")
  /\ sessions' = sessions \cup {s}
  /\ UNCHANGED <<sessionState, activated, display, held, teardownSem, ending,
                 phase, activeSession, hasActiveSession, previous, historyVars>>

-----------------------------------------------------------------------------
(* stop: clear _running and close the listener outside the lock, ...       *)
StopListening ==
  /\ running
  /\ phase' = "stopping"
  /\ UNCHANGED <<sessionVars, sessions, activeSession, hasActiveSession,
                 previous, historyVars>>

(* ... then disconnect and forget every registered session under it.       *)
StopSessions ==
  /\ phase = "stopping"
  /\ phase' = "stopped"
  /\ Disconnect(sessions)
  /\ sessions' = {}
  /\ SetActive(None)
  /\ UNCHANGED <<pc, activated, display, held, teardownSem, ending, previous,
                 historyVars>>

-----------------------------------------------------------------------------
(* sessionDidAuthenticateAndRequestActivation.  _running is read outside   *)
(* the lock.                                                               *)
TestRunning(s) ==
  /\ IF running
     THEN /\ Goto(s, "authenticated", "claim")
          /\ UNCHANGED <<sessionState, activated, display, held, teardownSem,
                         ending>>
     ELSE Abort(s, "authenticated")
  /\ UNCHANGED <<registryVars, previous, historyVars>>

(* Faulty: only a session that is fully up is superseded.                  *)
ClaimPassesStarting(s) ==
  /\ Goto(s, "claim", IF activeSession # None /\ sessionState[activeSession] = "Active"
                      THEN "supersede" ELSE "recheck")
  /\ previous' = [previous EXCEPT ![s] = activeSession]
  /\ SetActive(s)
  /\ claimed' = claimed \cup {s}
  /\ before' = [before EXCEPT ![s] = claimed]
  /\ UNCHANGED <<sessionState, activated, display, held, teardownSem, ending,
                 phase, sessions, overran>>

(* Faulty: the claim is stored only once the predecessor is gone.          *)
ClaimStoresLate(s) ==
  /\ Goto(s, "claim", IF activeSession = None THEN "recheck" ELSE "supersede")
  /\ previous' = [previous EXCEPT ![s] = activeSession]
  /\ SetActive(IF activeSession = None THEN s ELSE activeSession)
  /\ claimed' = claimed \cup {s}
  /\ before' = [before EXCEPT ![s] = claimed]
  /\ UNCHANGED <<sessionState, activated, display, held, teardownSem, ending,
                 phase, sessions, overran>>

(* First critical section: take over _activeSession at once.  A session    *)
(* that is already the active one goes straight on.                        *)
Claim(s) ==
  /\ Goto(s, "claim", IF activeSession = s THEN "create"
                      ELSE IF activeSession = None THEN "recheck"
                      ELSE "supersede")
  /\ previous' = [previous EXCEPT ![s] = activeSession]
  /\ SetActive(s)
  /\ claimed' = claimed \cup {s}
  /\ before' = [before EXCEPT ![s] = claimed]
  /\ UNCHANGED <<sessionState, activated, display, held, teardownSem, ending,
                 phase, sessions, overran>>

(* Faulty: the new session disconnects everybody else.                     *)
DisconnectOthers(s) ==
  /\ Goto(s, "supersede", "wait")
  /\ Disconnect(sessions \ {s})
  /\ UNCHANGED <<activated, display, held, teardownSem, ending, registryVars,
                 previous, historyVars>>

DisconnectPrevious(s) ==
  /\ Goto(s, "supersede", "wait")
  /\ Disconnect({previous[s]})
  /\ UNCHANGED <<activated, display, held, teardownSem, ending, registryVars,
                 previous, historyVars>>

(* Faulty: the wait returns YES whether the semaphore was signalled or not.*)
TeardownAssumed(s) ==
  /\ Goto(s, "wait", "recheck")
  /\ UNCHANGED <<sessionState, activated, display, held, teardownSem, ending,
                 registryVars, previous, historyVars>>

(* waitForTeardown returned YES: the semaphore was signalled.              *)
TeardownObserved(s) ==
  /\ Goto(s, "wait", "recheck")
  /\ teardownSem[previous[s]] > 0
  /\ teardownSem' = [teardownSem EXCEPT ![previous[s]] = @ - 1]
  /\ UNCHANGED <<sessionState, activated, display, held, ending, registryVars,
                 previous, historyVars>>

(* Faulty: a wait without a deadline.                                      *)
WaitForever(s) ==
  /\ Goto(s, "wait", "recheck")
  /\ teardownSem[previous[s]] < 0
  /\ UNCHANGED <<sessionState, activated, display, held, teardownSem, ending,
                 registryVars, previous, historyVars>>

(* waitForTeardown returned NO after its ten seconds: logged, and the      *)
(* takeover goes on.                                                       *)
WaitTimesOut(s) ==
  /\ Goto(s, "wait", "recheck")
  /\ teardownSem[previous[s]] = 0
  /\ overran' = overran \cup {s}
  /\ UNCHANGED <<sessionState, activated, display, held, teardownSem, ending,
                 registryVars, previous, claimed, before>>

(* Faulty: no second look at _activeSession.                               *)
RecheckSkipped(s) ==
  /\ Goto(s, "recheck", "create")
  /\ UNCHANGED <<sessionState, activated, display, held, teardownSem, ending,
                 registryVars, previous, historyVars>>

(* Faulty: a superseded session claims again.                              *)
RecheckRetries(s) ==
  /\ Goto(s, "recheck", IF activeSession = s THEN "create" ELSE "claim")
  /\ UNCHANGED <<sessionState, activated, display, held, teardownSem, ending,
                 registryVars, previous, historyVars>>

(* Second critical section: a still newer client may have superseded us.   *)
Recheck(s) ==
  /\ IF activeSession = s
     THEN /\ Goto(s, "recheck", "create")
          /\ UNCHANGED <<sessionState, activated, display, held, teardownSem,
                         ending>>
     ELSE Abort(s, "recheck")
  /\ UNCHANGED <<registryVars, previous, historyVars>>

-----------------------------------------------------------------------------
(* Faulty: whoever ends, no session is active.                             *)
SessionDidEndClearsAny(s) ==
  /\ s \in ending
  /\ ending' = ending \ {s}
  /\ sessions' = sessions \ {s}
  /\ SetActive(None)
  /\ UNCHANGED <<pc, sessionState, activated, display, held, teardownSem, phase,
                 previous, historyVars>>

(* Faulty: the active session stays active when it ends.                   *)
SessionDidEndKeepsActive(s) ==
  /\ s \in ending
  /\ ending' = ending \ {s}
  /\ sessions' = sessions \ {s}
  /\ UNCHANGED <<pc, sessionState, activated, display, held, teardownSem, phase,
                 activeSession, hasActiveSession, previous, historyVars>>

(* Faulty: the updater's flag is not refreshed.                            *)
SessionDidEndStaleFlag(s) ==
  /\ s \in ending
  /\ ending' = ending \ {s}
  /\ sessions' = sessions \ {s}
  /\ activeSession' = IF activeSession = s THEN None ELSE activeSession
  /\ UNCHANGED <<pc, sessionState, activated, display, held, teardownSem, phase,
                 hasActiveSession, previous, historyVars>>

(* sessionDidEnd, on the global queue some time after the session queued   *)
(* it.                                                                     *)
SessionDidEnd(s) ==
  /\ s \in ending
  /\ ending' = ending \ {s}
  /\ sessions' = sessions \ {s}
  /\ SetActive(IF activeSession = s THEN None ELSE activeSession)
  /\ UNCHANGED <<pc, sessionState, activated, display, held, teardownSem, phase,
                 previous, historyVars>>

-----------------------------------------------------------------------------
RequestActivation(s) ==
  \/ TestRunning(s)
  \/ Claim(s)
  \/ DisconnectPrevious(s)
  \/ TeardownObserved(s)
  \/ WaitTimesOut(s)
  \/ Recheck(s)

(* One step of the session's own queue (its registration, just before, is  *)
(* the accept queue's).                                                    *)
QueueStep(s) ==
  \/ RegisterSession(s)
  \/ RequestActivation(s)
  \/ SessionStep(s) /\ UNCHANGED <<registryVars, previous, historyVars>>

Next ==
  \/ \E s \in Session : \/ AcceptConnection(s)
                        \/ QueueStep(s)
                        \/ SessionDidEnd(s)
  \/ StopListening
  \/ StopSessions

Spec == Init /\ [][Next]_vars

(* What the scheduler owes: every queue with work to do runs, every wait   *)
(* ends by its semaphore or its deadline, and the negotiation deadline     *)
(* passes however often the loop goes round before it.  Nothing is owed by *)
(* clients, who may stay, leave or activate as they like, nor by the       *)
(* operator who stops the server.                                          *)
Fairness ==
  /\ \A s \in Session :
       /\ WF_vars(QueueStep(s))
       /\ WF_vars(SessionDidEnd(s))
       /\ SF_vars(NegotiationTimeout(s) /\ UNCHANGED <<registryVars, previous, historyVars>>)
  /\ WF_vars(StopSessions)

FairSpec == Spec /\ Fairness

-----------------------------------------------------------------------------
(* The takeover protocol promises exclusive ownership of the display as    *)
(* long as no wait has timed out (the code logs that case and proceeds)    *)
(* and stop has not dropped the registry under its sessions.               *)
Orderly == overran = {} /\ phase # "stopped"

Owns(s) == display[s] # "none"

(* sessionDidAuthenticateAndRequestActivation returns only when the        *)
(* superseded session has let its display go: no two sessions capture and  *)
(* dim a display at the same time ("two main displays fighting").          *)
AtMostOneDisplay ==
  Orderly => \A s, t \in Session : Owns(s) /\ Owns(t) => s = t

(* Ownership follows the order of the claims: while a session owns the     *)
(* display, every session that claimed before it has finished its teardown *)
(* ("virtual display released, peer destroyed"): it cannot bring a display *)
(* up any more, and its media threads, its display control and its peer    *)
(* are gone.                                                               *)
OwnersInClaimOrder ==
  Orderly => \A s \in Session : Owns(s) =>
               \A t \in before[s] : pc[t] = "done" /\ held[t] = {}

(* The updater swaps the binary when +hasActiveSession is NO.  From the    *)
(* claim of a session until its teardown has finished the flag is YES,     *)
(* whether it has a display, waits for one or has been superseded, through *)
(* every takeover, early disconnect and late sessionDidEnd.                *)
FlagCoversClaim ==
  Orderly => ((\E s \in Session : Owns(s) \/ (s \in claimed /\ pc[s] # "done"))
                => hasActiveSession)

(* _teardownSem is signalled once, so it can release one waiter only: no   *)
(* two takeovers ever wait for the same session, whatever timed out.       *)
OneWaiterPerSession ==
  \A s, t \in Session :
    pc[s] = "wait" /\ pc[t] = "wait" /\ previous[s] = previous[t] => s = t

(* Takeovers wait on the queues of their predecessors, and predecessors    *)
(* may be waiting themselves: no set of sessions wait for each other.      *)
NoWaitCycle ==
  \A S \in (SUBSET Session) \ {{}} :
    \E s \in S : ~(pc[s] = "wait" /\ previous[s] \in S)

(* A takeover disturbs one session only: a step that leaves a session      *)
(* where it is may put it into Disconnecting only if that session was      *)
(* superseded by an authenticated one or the server stops.  A client that  *)
(* fails authentication disturbs nobody (docs/TESTING.md 1.7).             *)
OnlySuccessorDisconnects ==
  [][\A s \in Session :
       pc'[s] = pc[s] /\ sessionState'[s] # sessionState[s] =>
         \/ phase' = "stopped"
         \/ \E t \in claimed : s \in before[t] /\ previous[t] = s]_vars

(* The server keeps the promise of DisplayOwnership in every behaviour:    *)
(* CreateDisplay acquires, DestroyDisplay gives up, SessionDidEnd lowers   *)
(* the flag only when no claim is alive, and only a wait that times out or *)
(* stop makes the display contested.                                       *)
Promise == INSTANCE DisplayOwnership
             WITH owners    <- {s \in Session : Owns(s)},
                  retired   <- {s \in Session : activated[s] /\ ~Owns(s)},
                  claimants <- {s \in claimed : ~activated[s] /\ pc[s] # "done"},
                  contested <- ~Orderly

KeepsPromise == Promise!Spec

-----------------------------------------------------------------------------
(* The inductive invariant behind these: what a queue's place says of its  *)
(* session, ...                                                            *)
Waiting(s) == pc[s] \in AwaitingTurn

PlaceInv(s) ==
  /\ Owns(s) => /\ activated[s]
                /\ pc[s] \in {"control", "media", "stop", "undim", "destroy"}
                             \cup PeerLoop
  /\ activated[s] =>
       /\ s \in claimed
       /\ pc[s] \in {"control", "media", "done"} \cup PeerLoop \cup TearingDown
  /\ s \in claimed /\ ~activated[s] =>
       \/ pc[s] \in AwaitingTurn \cup {"recheck", "create", "done"} \cup TearingDown
       \/ pc[s] = "loop" /\ sessionState[s] = "Disconnecting"
  /\ pc[s] \in AwaitingTurn \cup BringingUp => s \in claimed
  /\ pc[s] \in {"control", "media"} => activated[s]
  /\ "media" \in held[s] => activated[s] /\ pc[s] \in PeerLoop \cup {"stop"}
  /\ "control" \in held[s] =>
       activated[s] /\ pc[s] \in PeerLoop \cup {"media", "stop", "undim"}
  /\ "peer" \in held[s] => pc[s] \notin BeforeRun \cup {"signal", "done"}
  /\ teardownSem[s] > 0 => pc[s] = "done"
  /\ s \in ending => pc[s] = "done"

LocalInv == \A s \in Session : PlaceInv(s)

(* ... the order of the claims, with each claimant's previous next below   *)
(* it and the active session on top, ...                                   *)
OrderInv ==
  /\ \A s, t \in claimed : s # t => s \in before[t] \/ t \in before[s]
  /\ \A s, t \in Session : s \in before[t] =>
       s \in claimed /\ t \notin before[s] /\ before[s] \subseteq before[t]
  /\ \A s \in Session :
       /\ Waiting(s) => previous[s] # None
       /\ previous[s] # None =>
            /\ previous[s] \in before[s]
            /\ \A t \in before[s] : t = previous[s] \/ t \in before[previous[s]]
  /\ activeSession # None =>
       /\ activeSession \in claimed
       /\ \A s \in claimed : s = activeSession \/ s \in before[activeSession]

(* ... that a claimant whose turn has come finds every earlier one torn    *)
(* down, and no claim alive when no session is active, ...                 *)
TurnInv ==
  Orderly =>
    /\ \A s \in claimed : ~Waiting(s) => \A t \in before[s] : pc[t] = "done"
    /\ activeSession = None => \A s \in claimed : pc[s] = "done"

(* ... and the registry that goes with it.                                 *)
RegistryInv ==
  /\ hasActiveSession = (activeSession # None)
  /\ phase # "stopped" =>
       \A s \in Session :
         pc[s] \notin {"idle", "accepted", "done"} \/ activeSession = s
           => s \in sessions

ClaimOrderInv == LocalInv /\ OrderInv /\ TurnInv /\ RegistryInv

-----------------------------------------------------------------------------
(* Liveness, under FairSpec.                                               *)

(* A session that is superseded while it still waits for its turn aborts   *)
(* and is torn down; its successor waits for nothing else.                 *)
SupersededWaiterEnds ==
  \A s \in Session :
    pc[s] \in AwaitingTurn /\ activeSession # s ~> pc[s] = "done"

(* A disconnect that finds the session in its peer loop is honoured within *)
(* the loop: the session is torn down.                                     *)
DisconnectInLoopEnds ==
  \A s \in Session :
    pc[s] \in PeerLoop /\ sessionState[s] = "Disconnecting" ~> pc[s] = "done"

(* Every claim is decided: the session gets the display or ends, however   *)
(* long the sessions before it take.                                       *)
ClaimIsDecided ==
  \A s \in Session : s \in claimed ~> activated[s] \/ pc[s] = "done"

(* The registry forgets an ended session, and with it the flag that makes  *)
(* the updater defer.                                                      *)
EndedSessionIsForgotten ==
  \A s \in Session :
    pc[s] = "done" ~> s \notin sessions /\ activeSession # s

(* The watchdog drops a client that never completes the negotiation        *)
(* (docs/TESTING.md 8.3).                                                  *)
HalfOpenIsDropped ==
  \A s \in Session :
    pc[s] \in PeerLoop /\ sessionState[s] = "Negotiating"
      ~> sessionState[s] # "Negotiating"

-----------------------------------------------------------------------------
(* What the code says of itself and does not do.                           *)

(* RDPSession.h of -disconnect: the state goes to Disconnecting "so the    *)
(* peer run loop exits and teardown runs".  A disconnect that lands while  *)
(* the session brings its media up is overwritten by BecomeActive.         *)
DisconnectHonoured ==
  \A s \in Session : sessionState[s] = "Disconnecting" ~> pc[s] = "done"

(* RDPServer.m of the activation request: "Returns NO if the server is     *)
(* stopping".  _running is read before the lock is taken and not again.    *)
NoClaimAfterStop ==
  [][phase = "stopped" => activeSession' = None]_vars

=============================================================================
