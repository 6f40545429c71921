--------------------------- MODULE FramePipeline ---------------------------
(***************************************************************************)
(* The way of a picture to the client of one session: display/            *)
(* ScreenCapture.m, display/FrameEncoder.m and the graphics channel of     *)
(* protocol/RDPPeer.c.                                                     *)
(*                                                                         *)
(* Three threads share it.  The capture queue takes surfaces from the      *)
(* stream, or from a heartbeat while the screen is idle, and submits them  *)
(* to VideoToolbox.  VideoToolbox's output thread hands frame after frame  *)
(* to rdp_peer_send_h264_frame.  The session's queue runs the peer loop:   *)
(* it handles the client's messages with xportLock held, and tears all of  *)
(* this down when the loop ends.  The flags of the keyframe gate are read  *)
(* and written without the lock, one at a time; each access is a step.     *)
(*                                                                         *)
(* A delta frame can be decoded only by a client that has every frame      *)
(* since the last keyframe.  picture is what the client can show.          *)
(***************************************************************************)
EXTENDS Naturals, Sequences

CONSTANT MaxInFlight   (* frames VideoToolbox accepts before it emits one *)

ASSUME InFlightAssumption == MaxInFlight \in Nat \ {0}

VARIABLES
  (* the capture                                                           *)
  capturing,          (* _capturing                                        *)
  content,            (* the asynchronous start, then the stream           *)
  surface,            (* _lastSurface is not NULL                          *)
  fresh,              (* frameCount # lastHeartbeatFrameCount              *)
  capture,            (* where the capture queue is                        *)
  (* the encoder                                                           *)
  session,            (* _session: NULL, usable, or freed and not yet NULL *)
  forceNextKeyframe,
  idrDue,             (* the session has emitted no frame yet              *)
  vt,                 (* frames submitted, forced to be keyframes or not   *)
  sender,             (* where the output thread is                        *)
  frame,              (* the frame it carries                              *)
  (* the peer                                                              *)
  gfxReady, outputSuppressed, sentKeyframe, keyframeRequested,
  loop,               (* where the session's queue is                      *)
  (* the client                                                            *)
  picture,
  (* what happened, for the properties                                     *)
  keyLost,            (* a forced keyframe was lost since the last request *)
  sendFailed,         (* SurfaceFrameCommand failed since the last picture *)
  raced               (* a restore met a delta that had passed the gate    *)

captureVars == <<capturing, content, surface, fresh>>
encoderVars == <<session, forceNextKeyframe, idrDue, vt>>
senderVars  == <<sender, frame>>
gateVars    == <<sentKeyframe, keyframeRequested>>
flagVars    == <<gfxReady, outputSuppressed>>
clientVars  == <<picture, keyLost, sendFailed, raced>>

vars == <<captureVars, capture, encoderVars, senderVars, gateVars, flagVars,
          loop, clientVars>>

-----------------------------------------------------------------------------
(* What a frame is, and what the encoder was asked to make of it.          *)
Kind     == {"key", "delta"}
Demanded == {"any", "forced"}

(* In a handler of the peer loop, with xportLock held, or between two.     *)
InHandler == {"reset", "demand", "force"}
Live      == {"out"} \cup InHandler
Teardown  == {"stop", "complete", "invalidate", "forget", "destroy"}

xportLockFree == loop \notin InHandler

TypeOK ==
  /\ capturing \in BOOLEAN
  /\ content \in {"none", "asked", "listed", "streaming", "stopping", "stopped"}
  /\ surface \in BOOLEAN /\ fresh \in BOOLEAN
  /\ capture \in {"idle", "feeding", "forcing"}
  /\ session \in {"null", "on", "released"}
  /\ forceNextKeyframe \in BOOLEAN /\ idrDue \in BOOLEAN
  /\ vt \in Seq(Demanded) /\ Len(vt) <= MaxInFlight
  /\ sender \in {"idle", "ready", "gate", "ask", "force", "mark", "clear", "lock"}
  /\ frame \in Kind
  /\ gfxReady \in BOOLEAN /\ outputSuppressed \in BOOLEAN
  /\ sentKeyframe \in BOOLEAN /\ keyframeRequested \in BOOLEAN
  /\ loop \in Live \cup Teardown \cup {"done"}
  /\ picture \in {"none", "good", "gap", "corrupt"}
  /\ keyLost \in BOOLEAN /\ sendFailed \in BOOLEAN
  /\ raced \in BOOLEAN

Init ==
  /\ capturing = FALSE /\ content = "none" /\ surface = FALSE /\ fresh = FALSE
  /\ capture = "idle"
  /\ session = "null" /\ forceNextKeyframe = FALSE /\ idrDue = TRUE
  /\ vt = <<>> /\ sender = "idle" /\ frame = "delta"
  /\ gfxReady = FALSE /\ outputSuppressed = FALSE
  /\ sentKeyframe = FALSE /\ keyframeRequested = FALSE
  /\ loop = "out" /\ picture = "none"
  /\ keyLost = FALSE /\ sendFailed = FALSE /\ raced = FALSE

-----------------------------------------------------------------------------
(* Start.  peer_activate brings the encoder and the capture up, once, in a *)
(* handler of the loop; VTCompressionSessionCreate may fail, and nobody    *)
(* looks.  The stream is set up in the completion of an asynchronous       *)
(* query, which tests capturing first and installs everything afterwards.  *)

Activate ==
  /\ loop = "out" /\ content = "none"
  /\ capturing' = TRUE /\ content' = "asked"
  /\ session' \in {"on", "null"}
  /\ UNCHANGED <<surface, fresh, capture, forceNextKeyframe, idrDue, vt, senderVars,
                 gateVars, flagVars, loop, clientVars>>

ContentListed ==
  /\ content = "asked"
  /\ content' = IF capturing THEN "listed" ELSE "stopped"
  /\ UNCHANGED <<capturing, surface, fresh, capture, encoderVars, senderVars,
                 gateVars, flagVars, loop, clientVars>>

(* An error, no display or a refused output ends the start silently.       *)
InstallStream ==
  /\ content = "listed"
  /\ content' \in {"streaming", "stopped"}
  /\ UNCHANGED <<capturing, surface, fresh, capture, encoderVars, senderVars,
                 gateVars, flagVars, loop, clientVars>>

-----------------------------------------------------------------------------
(* The capture queue.                                                      *)

(* The frame handler calls encodeFrame, which returns without a session,   *)
(* or if no pixel buffer can be made of the surface.                       *)
Feed == capture' \in IF session = "null" THEN {"idle"} ELSE {"idle", "feeding"}

(* A complete frame of the stream; a stopped stream may deliver another.   *)
didOutputSampleBuffer ==
  /\ capture = "idle" /\ content \in {"streaming", "stopping"}
  /\ surface' = TRUE /\ fresh' = TRUE
  /\ Feed
  /\ UNCHANGED <<capturing, content, encoderVars, senderVars, gateVars, flagVars,
                 loop, clientVars>>

(* Faulty: the tick does not note the count it has seen. *)
HeartbeatNeverCatchesUp ==
  /\ capture = "idle" /\ content = "streaming" /\ capturing
  /\ ~fresh /\ surface /\ Feed
  /\ UNCHANGED <<captureVars, encoderVars, senderVars, gateVars, flagVars, loop,
                 clientVars>>

(* The heartbeat feeds the last surface again, unless the stream has       *)
(* delivered a frame since the last tick.                                  *)
Heartbeat ==
  /\ capture = "idle" /\ content = "streaming" /\ capturing
  /\ IF fresh THEN fresh' = FALSE /\ UNCHANGED capture
              ELSE surface /\ Feed /\ UNCHANGED fresh
  /\ UNCHANGED <<capturing, content, surface, encoderVars, senderVars, gateVars,
                 flagVars, loop, clientVars>>

(* VTCompressionSessionEncodeFrame refuses a NULL session.  The use of a   *)
(* freed one is undefined: it is refused too, or the process dies here and *)
(* the behaviour ends, which no invariant can miss and no liveness below   *)
(* claims anything of (the session is only freed in the teardown).         *)
Submit(demanded) ==
  /\ capture' = "idle"
  /\ \/ session = "on" /\ Len(vt) < MaxInFlight /\ vt' = Append(vt, demanded)
     \/ session # "on" /\ UNCHANGED vt

(* encodeFrame reads the flag, ...                                         *)
TestForce ==
  /\ capture = "feeding"
  /\ IF forceNextKeyframe THEN capture' = "forcing" /\ UNCHANGED vt
                          ELSE Submit("any")
  /\ UNCHANGED <<captureVars, session, forceNextKeyframe, idrDue, senderVars,
                 gateVars, flagVars, loop, clientVars>>

(* ... and clears it before the frame is submitted.                        *)
SubmitForced ==
  /\ capture = "forcing"
  /\ forceNextKeyframe' = FALSE
  /\ Submit("forced")
  /\ UNCHANGED <<captureVars, session, idrDue, senderVars, gateVars, flagVars,
                 loop, clientVars>>

-----------------------------------------------------------------------------
(* The output thread.  vt_callback gets the frames in order, one at a      *)
(* time.  Any frame may be a keyframe (a scene change); the first one of a *)
(* session and a forced one are.                                           *)
Emit ==
  /\ vt # <<>> /\ sender = "idle"
  /\ \E kind \in Kind :
       /\ Head(vt) = "forced" \/ idrDue => kind = "key"
       /\ frame' = kind
  /\ vt' = Tail(vt) /\ idrDue' = FALSE /\ sender' = "ready"
  /\ UNCHANGED <<captureVars, capture, session, forceNextKeyframe, gateVars,
                 flagVars, loop, clientVars>>

(* vt_callback is given an error or no sample buffer; nobody is told.      *)
Lose ==
  /\ vt # <<>> /\ sender = "idle"
  /\ vt' = Tail(vt) /\ keyLost' = (keyLost \/ Head(vt) = "forced")
  /\ UNCHANGED <<captureVars, capture, session, forceNextKeyframe, idrDue,
                 senderVars, gateVars, flagVars, loop, picture, sendFailed, raced>>

-----------------------------------------------------------------------------
(* rdp_peer_send_h264_frame.                                               *)

(* A frame that is not sent: the next delta refers to it.                  *)
Gap == IF picture = "good" THEN "gap" ELSE picture

Drop == sender' = "idle" /\ picture' = Gap

(* A ready channel stays ready, so its test is one step with the other.    *)
TestReady ==
  /\ sender = "ready"
  /\ IF gfxReady /\ ~outputSuppressed THEN sender' = "gate" /\ UNCHANGED picture
                                      ELSE Drop
  /\ UNCHANGED <<captureVars, capture, encoderVars, frame, gateVars, flagVars, loop,
                 keyLost, sendFailed, raced>>

(* Faulty: only the delta that asks for the keyframe is dropped. *)
TestGateOnce ==
  /\ sender = "gate"
  /\ sender' = IF frame = "key" THEN "mark"
               ELSE IF sentKeyframe \/ keyframeRequested THEN "lock" ELSE "ask"
  /\ UNCHANGED <<captureVars, capture, encoderVars, frame, gateVars, flagVars, loop,
                 clientVars>>

TestGate ==
  /\ sender = "gate"
  /\ sender' = IF frame = "key" THEN "mark"
               ELSE IF sentKeyframe THEN "lock" ELSE "ask"
  /\ UNCHANGED <<captureVars, capture, encoderVars, frame, gateVars, flagVars, loop,
                 clientVars>>

(* A delta before the keyframe is dropped, and asks for one unless that    *)
(* has been done.                                                          *)
Ask ==
  /\ sender = "ask"
  /\ keyframeRequested' = TRUE
  /\ IF keyframeRequested THEN Drop ELSE sender' = "force" /\ UNCHANGED picture
  /\ UNCHANGED <<captureVars, capture, encoderVars, frame, sentKeyframe, flagVars,
                 loop, keyLost, sendFailed, raced>>

AskEncoder ==
  /\ sender = "force"
  /\ forceNextKeyframe' = TRUE /\ keyLost' = FALSE
  /\ Drop
  /\ UNCHANGED <<captureVars, capture, session, idrDue, vt, frame, gateVars,
                 flagVars, loop, sendFailed, raced>>

(* A keyframe opens the gate before it is sent.                            *)
MarkSent ==
  /\ sender = "mark"
  /\ sentKeyframe' = TRUE /\ sender' = "clear"
  /\ UNCHANGED <<captureVars, capture, encoderVars, frame, keyframeRequested,
                 flagVars, loop, clientVars>>

ClearRequest ==
  /\ sender = "clear"
  /\ keyframeRequested' = FALSE /\ sender' = "lock"
  /\ UNCHANGED <<captureVars, capture, encoderVars, frame, sentKeyframe, flagVars,
                 loop, clientVars>>

(* What the client makes of the frame; a minimized one discards it.        *)
Decoded ==
  IF outputSuppressed THEN "none"
  ELSE IF frame = "key" \/ picture = "good" THEN "good" ELSE "corrupt"

SendOK ==
  /\ sender = "lock" /\ xportLockFree
  /\ sender' = "idle" /\ picture' = Decoded
  /\ LET whole == picture' = "good" /\ frame = "key"
     IN  /\ keyLost'    = (keyLost /\ ~whole)
         /\ sendFailed' = (sendFailed /\ ~whole)
         /\ raced'      = (raced /\ ~whole)
  /\ UNCHANGED <<captureVars, capture, encoderVars, frame, gateVars, flagVars, loop>>

SendFails ==
  /\ sender = "lock" /\ xportLockFree
  /\ Drop /\ sendFailed' = TRUE
  /\ UNCHANGED <<captureVars, capture, encoderVars, frame, gateVars, flagVars, loop,
                 keyLost, raced>>

-----------------------------------------------------------------------------
(* The peer loop.  Two handlers close the gate and end in the same three   *)
(* steps.                                                                  *)

(* The usable capability set has been confirmed and the surface created.   *)
gfx_caps_advertise ==
  /\ loop = "out" /\ ~gfxReady
  /\ gfxReady' = TRUE /\ loop' = "reset"
  /\ UNCHANGED <<captureVars, capture, encoderVars, senderVars, gateVars,
                 outputSuppressed, clientVars>>

(* The client is minimized: it discards what it has.                       *)
Suppress ==
  /\ loop = "out"
  /\ outputSuppressed' = TRUE
  /\ picture' = "none" /\ sendFailed' = FALSE /\ raced' = FALSE
  /\ UNCHANGED <<captureVars, capture, encoderVars, senderVars, gateVars, gfxReady,
                 loop, keyLost>>

(* It is restored, or says so although it was not minimized.               *)
Restore ==
  /\ loop = "out"
  /\ outputSuppressed' = FALSE /\ loop' = "reset"
  /\ UNCHANGED <<captureVars, capture, encoderVars, senderVars, gateVars, gfxReady,
                 clientVars>>

(* Faulty: the client's restore leaves the gate open. *)
LeaveGateOpen ==
  /\ loop = "reset"
  /\ loop' = "demand"
  /\ raced' = (raced \/ (sender = "lock" /\ frame = "delta"))
  /\ UNCHANGED <<captureVars, capture, encoderVars, senderVars, gateVars, flagVars,
                 picture, keyLost, sendFailed>>

CloseGate ==
  /\ loop = "reset"
  /\ sentKeyframe' = FALSE /\ loop' = "demand"
  /\ raced' = (raced \/ (sender = "lock" /\ frame = "delta"))
  /\ UNCHANGED <<captureVars, capture, encoderVars, senderVars, keyframeRequested,
                 flagVars, picture, keyLost, sendFailed>>

(* Faulty: no new request while one is noted. *)
DemandOnce ==
  /\ loop = "demand"
  /\ keyframeRequested' = TRUE
  /\ loop' = IF keyframeRequested THEN "out" ELSE "force"
  /\ UNCHANGED <<captureVars, capture, encoderVars, senderVars, sentKeyframe, flagVars,
                 clientVars>>

(* Faulty: the request is noted and never made. *)
DemandOnly ==
  /\ loop = "demand"
  /\ keyframeRequested' = TRUE /\ loop' = "out"
  /\ UNCHANGED <<captureVars, capture, encoderVars, senderVars, sentKeyframe, flagVars,
                 clientVars>>

Demand ==
  /\ loop = "demand"
  /\ keyframeRequested' = TRUE /\ loop' = "force"
  /\ UNCHANGED <<captureVars, capture, encoderVars, senderVars, sentKeyframe, flagVars,
                 clientVars>>

(* rdp_on_keyframe_request: nothing before there is an encoder.            *)
DemandEncoder ==
  /\ loop = "force"
  /\ forceNextKeyframe' = (content # "none") /\ keyLost' = FALSE
  /\ loop' = "out"
  /\ UNCHANGED <<captureVars, capture, session, idrDue, vt, senderVars, gateVars,
                 flagVars, picture, sendFailed, raced>>

(* The transport closes, or the session is told to disconnect.             *)
LoopEnds ==
  /\ loop = "out" /\ loop' = "stop"
  /\ UNCHANGED <<captureVars, capture, encoderVars, senderVars, gateVars, flagVars,
                 clientVars>>

-----------------------------------------------------------------------------
(* Teardown, on the queue that ran the loop.                               *)

(* -[ScreenCapture stop] cancels what is installed and waits for nothing.  *)
StopCapture ==
  /\ loop = "stop" /\ loop' = "complete"
  /\ capturing' = FALSE /\ surface' = (surface /\ ~capturing)
  /\ content' = IF content = "streaming" THEN "stopping" ELSE content
  /\ UNCHANGED <<fresh, capture, encoderVars, senderVars, gateVars, flagVars,
                 clientVars>>

StreamStopped ==
  /\ content = "stopping" /\ content' = "stopped"
  /\ UNCHANGED <<capturing, surface, fresh, capture, encoderVars, senderVars,
                 gateVars, flagVars, loop, clientVars>>

(* VTCompressionSessionCompleteFrames returns when every frame is out.     *)
CompleteFrames ==
  /\ loop = "complete"
  /\ session = "on" => vt = <<>> /\ sender = "idle"
  /\ loop' = "invalidate"
  /\ UNCHANGED <<captureVars, capture, encoderVars, senderVars, gateVars, flagVars,
                 clientVars>>

(* Faulty: the session is released with a callback still running. *)
InvalidateAtOnce ==
  /\ loop = "invalidate"
  /\ session' = IF session = "on" THEN "released" ELSE session
  /\ vt' = <<>> /\ loop' = "forget"
  /\ UNCHANGED <<captureVars, capture, forceNextKeyframe, idrDue, senderVars, gateVars,
                 flagVars, clientVars>>

(* Invalidate drops what came in between, after the callback in progress;  *)
(* then the session is released, ...                                       *)
Invalidate ==
  /\ loop = "invalidate"
  /\ session = "on" => sender = "idle"
  /\ session' = IF session = "on" THEN "released" ELSE session
  /\ vt' = <<>> /\ loop' = "forget"
  /\ UNCHANGED <<captureVars, capture, forceNextKeyframe, idrDue, senderVars, gateVars,
                 flagVars, clientVars>>

(* ... and forgotten.                                                      *)
ForgetSession ==
  /\ loop = "forget"
  /\ session' = "null" /\ loop' = "destroy"
  /\ UNCHANGED <<captureVars, capture, forceNextKeyframe, idrDue, vt, senderVars,
                 gateVars, flagVars, clientVars>>

rdp_peer_destroy ==
  /\ loop = "destroy" /\ loop' = "done"
  /\ UNCHANGED <<captureVars, capture, encoderVars, senderVars, gateVars, flagVars,
                 clientVars>>

-----------------------------------------------------------------------------
CaptureStart == Activate \/ ContentListed \/ InstallStream
CaptureQueue == didOutputSampleBuffer \/ Heartbeat \/ TestForce \/ SubmitForced
Encoder      == Emit \/ Lose
Sender       == \/ TestReady \/ TestGate \/ Ask \/ AskEncoder
                \/ MarkSent \/ ClearRequest \/ SendOK \/ SendFails
HandlerEnds  == CloseGate \/ Demand \/ DemandEncoder
PeerLoop     == gfx_caps_advertise \/ Suppress \/ Restore \/ HandlerEnds \/ LoopEnds
TearDown     == \/ StopCapture \/ StreamStopped \/ CompleteFrames \/ Invalidate
                \/ ForgetSession \/ rdp_peer_destroy

Next == CaptureStart \/ CaptureQueue \/ Encoder \/ Sender \/ PeerLoop \/ TearDown

Spec == Init /\ [][Next]_vars

(* The timer ticks and threads that can go on do; the mutex lets a waiting *)
(* sender in, for the loop sleeps outside it; not every frame is lost, nor  *)
(* is every surface refused.                                               *)
Fairness ==
  /\ WF_vars(Heartbeat) /\ SF_vars(Heartbeat /\ capture' = "feeding")
  /\ WF_vars(TestForce \/ SubmitForced)
  /\ SF_vars(Emit)
  /\ WF_vars(TestReady \/ TestGate \/ Ask \/ AskEncoder \/ MarkSent \/ ClearRequest)
  /\ SF_vars(SendOK \/ SendFails)
  /\ WF_vars(HandlerEnds)

FairSpec == Spec /\ Fairness

-----------------------------------------------------------------------------
(* Where a keyframe is on its way to the gate.                             *)
KeyComing ==
  \/ forceNextKeyframe \/ capture = "forcing"
  \/ idrDue
  \/ \E i \in 1 .. Len(vt) : vt[i] = "forced"
  \/ sender # "idle" /\ frame = "key"
  \/ sender = "force"
  \/ loop \in InHandler

(* A closed gate that waits for a keyframe it has requested does get one,  *)
(* whatever the interleaving of requests, restores and keyframes, unless   *)
(* the encoder lost it.  keyframeRequested is then never cleared and no    *)
(* delta asks again: the one way to a black window that stays.             *)
KeyframeOnItsWay ==
  /\ loop \in Live /\ session = "on" /\ gfxReady /\ ~outputSuppressed
  /\ ~sentKeyframe /\ keyframeRequested
  => KeyComing \/ keyLost

(* The client decodes garbage only after a failed send, or after a restore *)
(* that met a delta past its tests; in particular a new client's first     *)
(* frame is a keyframe.                                                    *)
UndecodableOnlyFromRace == picture = "corrupt" => sendFailed \/ raced

(* It then gets no second delta: the gate is closed by the time the lock   *)
(* is free.                                                                *)
OneStaleFrame ==
  [][/\ sender = "lock" /\ frame = "delta" /\ sender' = "idle"
     /\ ~outputSuppressed /\ ~sendFailed'
     => picture \notin {"gap", "corrupt"}]_vars

(* rdp_peer_destroy frees a peer the output thread is not using, and none  *)
(* of its frames comes later.                                              *)
PeerOutlivesSends == loop = "done" => sender = "idle" /\ vt = <<>>

(* While a surface was captured once, a client that shows nothing or       *)
(* garbage gets a whole picture, even on a static screen, unless it is     *)
(* minimized, the session ends, or a keyframe or a send is lost.           *)
BlackHeals ==
  (/\ loop \in Live /\ session = "on" /\ content = "streaming"
   /\ surface /\ gfxReady /\ ~outputSuppressed /\ picture # "good")
  ~> (picture = "good" \/ outputSuppressed \/ loop \notin Live
      \/ keyLost \/ sendFailed)

-----------------------------------------------------------------------------
(* The inductive invariant, part by part.                                  *)

(* Only a usable session has frames, and a torn down one is not usable.    *)
FramesHaveSession ==
  /\ session # "on" => vt = <<>> /\ sender = "idle"
  /\ loop \in {"forget", "destroy", "done"} => session # "on"
  /\ content = "none" => session # "on" /\ idrDue

(* Past the first test the channel is ready; the delta that is to ask was  *)
(* held by a closed gate.                                                  *)
PassedTests ==
  /\ sentKeyframe \/ sender \notin {"idle", "ready"} => gfxReady
  /\ sender \in {"ask", "force"} => ~sentKeyframe /\ frame = "delta"
  /\ sender \in {"mark", "clear"} => frame = "key"

(* Nothing is shown before the channel is ready and while the client is    *)
(* minimized.                                                              *)
NothingShown == outputSuppressed \/ ~gfxReady => picture = "none"

(* Behind an open gate, unless its keyframe is still to be sent, is a      *)
(* client with a whole picture, or a restore that is about to close it.    *)
OpenGate ==
  /\ sentKeyframe /\ ~outputSuppressed
  /\ ~(frame = "key" /\ sender \in {"clear", "lock"})
  => \/ picture = "good" \/ sendFailed
     \/ picture = "none" /\ loop = "reset"

(* So it is with a delta past the gate, but for the race.                  *)
PassedDelta ==
  sender = "lock" /\ frame = "delta" /\ ~outputSuppressed
  => \/ picture = "good" \/ sendFailed
     \/ picture = "none" /\ (raced \/ loop = "reset")

(* A gate closed behind a keyframe has another one following.              *)
KeyBehind ==
  /\ sender \in {"clear", "lock"} /\ frame = "key"
  /\ ~sentKeyframe /\ session = "on" /\ loop \in Live
  => \/ forceNextKeyframe \/ capture = "forcing" \/ loop \in InHandler
     \/ \E i \in 1 .. Len(vt) : vt[i] = "forced"

FrameInv ==
  /\ TypeOK
  /\ FramesHaveSession
  /\ PassedTests
  /\ NothingShown
  /\ OpenGate
  /\ PassedDelta
  /\ KeyBehind
  /\ KeyframeOnItsWay
  /\ UndecodableOnlyFromRace

=============================================================================
