----------------------------- MODULE RDPSession -----------------------------
(***************************************************************************)
(* One client connection (daemon/RDPSession.m).                            *)
(*                                                                         *)
(* Every session owns a serial queue that runs setupAndRun: it creates the *)
(* FreeRDP peer, polls it in a loop, brings the display and the media up   *)
(* from inside that loop when the client activates, and tears everything   *)
(* down when the loop ends.  pc[s] is the place of that queue.  The only   *)
(* field another thread writes is sessionState: -disconnect stores         *)
(* Disconnecting from the thread of a superseding session or of the        *)
(* server's stop.                                                          *)
(*                                                                         *)
(* The actions here leave the server's registry alone; module RDPServer    *)
(* composes them with it and adds the activation request, which runs on    *)
(* the session's queue but inside the server's code.                       *)
(***************************************************************************)
EXTENDS Naturals

CONSTANTS
  Session,   (* the connections the listening socket may ever accept *)
  None       (* nil: no session                                      *)

ASSUME NoneAssumption == None \notin Session

VARIABLES
  pc,            (* where each session's serial queue is               *)
  sessionState,  (* _sessionState, written by any thread               *)
  activated,     (* _activated: authenticated and given the display    *)
  display,       (* the display the session captures                   *)
  held,          (* the peer, the media threads and the display control*)
  teardownSem,   (* the count of _teardownSem                          *)
  ending         (* sessions whose sessionDidEnd block is queued       *)

sessionVars ==
  <<pc, sessionState, activated, display, held, teardownSem, ending>>

-----------------------------------------------------------------------------
State == {"Connecting", "Negotiating", "Active", "Disconnecting", "Disconnected"}

Resource == {"peer", "control", "media"}

DisplayKind == {"none", "virtual", "main"}

(* Where the queue is: before setupAndRun; the peer loop (its while test,  *)
(* then the body); the activation request; display and media set-up; the   *)
(* teardown; done.                                                         *)
BeforeRun     == {"idle", "accepted", "queued"}
PeerLoop      == {"loop", "peer"}
Requesting    == {"authenticated", "claim"}
AwaitingTurn  == {"supersede", "wait"}
BringingUp    == {"recheck", "create", "control", "media"}
TearingDown   == {"stop", "undim", "destroy", "free", "signal"}
Step == BeforeRun \cup PeerLoop \cup Requesting \cup AwaitingTurn
          \cup BringingUp \cup TearingDown \cup {"done"}

SessionTypeOK ==
  /\ pc \in [Session -> Step]
  /\ sessionState \in [Session -> State]
  /\ activated \in [Session -> BOOLEAN]
  /\ display \in [Session -> DisplayKind]
  /\ held \in [Session -> SUBSET Resource]
  /\ teardownSem \in [Session -> 0..1]
  /\ ending \in SUBSET Session

SessionInit ==
  /\ pc = [s \in Session |-> "idle"]
  /\ sessionState = [s \in Session |-> "Connecting"]
  /\ activated = [s \in Session |-> FALSE]
  /\ display = [s \in Session |-> "none"]
  /\ held = [s \in Session |-> {}]
  /\ teardownSem = [s \in Session |-> 0]
  /\ ending = {}

Goto(s, from, to) ==
  /\ pc[s] = from
  /\ pc' = [pc EXCEPT ![s] = to]

(* -disconnect on every session of S: a plain store, whatever the state.   *)
Disconnect(S) ==
  sessionState' = [s \in Session |-> IF s \in S THEN "Disconnecting"
                                                ELSE sessionState[s]]

-----------------------------------------------------------------------------
(* setupAndRun up to the loop.  rdp_peer_create succeeded: the state is    *)
(* set to Negotiating without looking at what it was.                      *)
SetupAndRun(s) ==
  /\ Goto(s, "queued", "loop")
  /\ held' = [held EXCEPT ![s] = @ \cup {"peer"}]
  /\ sessionState' = [sessionState EXCEPT ![s] = "Negotiating"]
  /\ UNCHANGED <<activated, display, teardownSem, ending>>

(* rdp_peer_create failed: only endWithError, no teardown and no signal.   *)
PeerCreateFails(s) ==
  /\ Goto(s, "queued", "done")
  /\ ending' = ending \cup {s}
  /\ UNCHANGED <<sessionState, activated, display, held, teardownSem>>

(* Faulty: a loop that ends on Disconnected only.                          *)
LoopTestMissesDisconnecting(s) ==
  /\ Goto(s, "loop", IF sessionState[s] = "Disconnected" THEN "stop" ELSE "peer")
  /\ UNCHANGED <<sessionState, activated, display, held, teardownSem, ending>>

(* The while test of the peer loop.                                        *)
LoopTest(s) ==
  /\ Goto(s, "loop", IF sessionState[s] \in {"Disconnecting", "Disconnected"}
                     THEN "stop" ELSE "peer")
  /\ UNCHANGED <<sessionState, activated, display, held, teardownSem, ending>>

(* rdp_peer_run_once returned true and nothing of interest happened; a     *)
(* repeated Activate of a session that is already up is ignored.           *)
PeerIdle(s) ==
  /\ Goto(s, "peer", "loop")
  /\ UNCHANGED <<sessionState, activated, display, held, teardownSem, ending>>

(* rdp_peer_run_once returned false: the client is gone.                   *)
PeerLoopEnded(s) ==
  /\ Goto(s, "peer", "stop")
  /\ UNCHANGED <<sessionState, activated, display, held, teardownSem, ending>>

(* Faulty: a watchdog that tests for the state before the loop.            *)
NegotiationTimeoutTooEarly(s) ==
  /\ sessionState[s] = "Connecting"
  /\ Goto(s, "peer", "stop")
  /\ UNCHANGED <<sessionState, activated, display, held, teardownSem, ending>>

(* The watchdog: still negotiating when the deadline has passed.           *)
NegotiationTimeout(s) ==
  /\ sessionState[s] = "Negotiating"
  /\ Goto(s, "peer", "stop")
  /\ UNCHANGED <<sessionState, activated, display, held, teardownSem, ending>>

MayActivate(s) == ~activated[s] /\ sessionState[s] # "Active"

(* peer_activate called onReady inside the loop and the credentials are    *)
(* good: the queue goes on to the activation request.                      *)
CredentialsAccepted(s) ==
  /\ MayActivate(s)
  /\ Goto(s, "peer", "authenticated")
  /\ UNCHANGED <<sessionState, activated, display, held, teardownSem, ending>>

(* The session gives itself up and returns to its loop.                    *)
Abort(s, from) ==
  /\ Goto(s, from, "loop")
  /\ sessionState' = [sessionState EXCEPT ![s] = "Disconnecting"]
  /\ UNCHANGED <<activated, display, held, teardownSem, ending>>

CredentialsRejected(s) == MayActivate(s) /\ Abort(s, "peer")

-----------------------------------------------------------------------------
(* The rest of setupDisplayAndMediaForWidth, after the request returned    *)
(* YES.  VirtualDisplay create may fail: the session then captures and     *)
(* dims around the main display.                                           *)
CreateDisplay(s) ==
  /\ Goto(s, "create", "control")
  /\ activated' = [activated EXCEPT ![s] = TRUE]
  /\ \E kind \in {"virtual", "main"} : display' = [display EXCEPT ![s] = kind]
  /\ UNCHANGED <<sessionState, held, teardownSem, ending>>

StartDisplayControl(s) ==
  /\ Goto(s, "control", "media")
  /\ held' = [held EXCEPT ![s] = @ \cup {"control"}]
  /\ UNCHANGED <<sessionState, activated, display, teardownSem, ending>>

(* Encoder, capture, injector, clipboard and audio, then the state: Active *)
(* is stored without looking at what it was.                               *)
BecomeActive(s) ==
  /\ Goto(s, "media", "loop")
  /\ held' = [held EXCEPT ![s] = @ \cup {"media"}]
  /\ sessionState' = [sessionState EXCEPT ![s] = "Active"]
  /\ UNCHANGED <<activated, display, teardownSem, ending>>

-----------------------------------------------------------------------------
(* teardown, one action per blocking call.                                 *)
Release(s, from, to, resource) ==
  /\ Goto(s, from, to)
  /\ held' = [held EXCEPT ![s] = @ \ {resource}]
  /\ UNCHANGED <<sessionState, activated, display, teardownSem, ending>>

StopMedia(s)          == Release(s, "stop", "undim", "media")
StopDisplayControl(s) == Release(s, "undim", "destroy", "control")

(* Faulty: a teardown that keeps the display.                              *)
DestroyDisplayLeaks(s) ==
  /\ Goto(s, "destroy", "free")
  /\ UNCHANGED <<sessionState, activated, display, held, teardownSem, ending>>

DestroyDisplay(s) ==
  /\ Goto(s, "destroy", "free")
  /\ display' = [display EXCEPT ![s] = "none"]
  /\ UNCHANGED <<sessionState, activated, held, teardownSem, ending>>

DestroyPeer(s) == Release(s, "free", "signal", "peer")

(* Faulty: the semaphore is signalled by teardown and by endWithError.     *)
SignalTeardownTwice(s) ==
  /\ Goto(s, "signal", "done")
  /\ sessionState' = [sessionState EXCEPT ![s] = "Disconnected"]
  /\ teardownSem' = [teardownSem EXCEPT ![s] = @ + 2]
  /\ ending' = ending \cup {s}
  /\ UNCHANGED <<activated, display, held>>

(* No other thread reads sessionState, so the store of Disconnected, the   *)
(* signal and the dispatch of sessionDidEnd are one step.                  *)
SignalTeardown(s) ==
  /\ Goto(s, "signal", "done")
  /\ sessionState' = [sessionState EXCEPT ![s] = "Disconnected"]
  /\ teardownSem' = [teardownSem EXCEPT ![s] = @ + 1]
  /\ ending' = ending \cup {s}
  /\ UNCHANGED <<activated, display, held>>

-----------------------------------------------------------------------------
(* What the queue does by itself, whoever the client is.                   *)
RunPeerOnce(s) ==
  \/ PeerIdle(s)
  \/ PeerLoopEnded(s)
  \/ NegotiationTimeout(s)
  \/ CredentialsAccepted(s)
  \/ CredentialsRejected(s)

BringUp(s) ==
  \/ CreateDisplay(s)
  \/ StartDisplayControl(s)
  \/ BecomeActive(s)

TearDown(s) ==
  \/ StopMedia(s)
  \/ StopDisplayControl(s)
  \/ DestroyDisplay(s)
  \/ DestroyPeer(s)
  \/ SignalTeardown(s)

SessionStep(s) ==
  \/ SetupAndRun(s)
  \/ PeerCreateFails(s)
  \/ LoopTest(s)
  \/ RunPeerOnce(s)
  \/ BringUp(s)
  \/ TearDown(s)

=============================================================================
