------------------------ MODULE FramePipelineProofs ------------------------
(***************************************************************************)
(* FrameInv is an inductive invariant of FramePipeline, for any number of  *)
(* frames in flight.  One lemma per part of it, one step per group of      *)
(* actions; the parts that count on a forced keyframe in VideoToolbox's    *)
(* queue rest on three facts about Append and Tail.                        *)
(***************************************************************************)
EXTENDS FramePipeline, TLAPS

(* The parts that hold of flags only, without the queue.                   *)
FlagInv == FramesHaveSession /\ PassedTests /\ NothingShown /\ OpenGate /\ PassedDelta

-----------------------------------------------------------------------------
(* A forced frame is somewhere in the queue.                               *)
HasForced(s) == \E i \in 1 .. Len(s) : s[i] = "forced"

LEMMA AppendKeepsForced ==
  ASSUME NEW s \in Seq(Demanded), NEW d \in Demanded,
         HasForced(s) \/ d = "forced"
  PROVE  HasForced(Append(s, d))
<1>1. CASE HasForced(s)
  <2>1. PICK i \in 1 .. Len(s) : s[i] = "forced"
    BY <1>1 DEF HasForced
  <2>2. i \in 1 .. Len(Append(s, d)) /\ Append(s, d)[i] = s[i]
    OBVIOUS
  <2>3. QED
    BY <2>1, <2>2 DEF HasForced
<1>2. CASE d = "forced"
  <2>1. Len(s) + 1 \in 1 .. Len(Append(s, d)) /\ Append(s, d)[Len(s) + 1] = d
    OBVIOUS
  <2>2. QED
    BY <2>1, <1>2 DEF HasForced
<1>3. QED
  BY <1>1, <1>2

LEMMA TailKeepsForced ==
  ASSUME NEW s \in Seq(Demanded), s # <<>>, HasForced(s), Head(s) # "forced"
  PROVE  HasForced(Tail(s))
<1>1. PICK i \in 1 .. Len(s) : s[i] = "forced"
  BY DEF HasForced
<1>2. i # 1
  BY <1>1
<1>3. i - 1 \in 1 .. Len(Tail(s)) /\ Tail(s)[i - 1] = s[i]
  BY <1>2
<1>4. QED
  BY <1>1, <1>3 DEF HasForced

LEMMA TailIsShorter ==
  ASSUME NEW s \in Seq(Demanded), s # <<>>
  PROVE  Tail(s) \in Seq(Demanded) /\ Len(Tail(s)) = Len(s) - 1 /\ Head(s) \in Demanded
OBVIOUS

-----------------------------------------------------------------------------
(* TypeOK in three parts: no prover likes Booleans and sequences at once.   *)
FlagsOK ==
  /\ capturing \in BOOLEAN /\ surface \in BOOLEAN /\ fresh \in BOOLEAN
  /\ forceNextKeyframe \in BOOLEAN /\ idrDue \in BOOLEAN
  /\ gfxReady \in BOOLEAN /\ outputSuppressed \in BOOLEAN
  /\ sentKeyframe \in BOOLEAN /\ keyframeRequested \in BOOLEAN
  /\ keyLost \in BOOLEAN /\ sendFailed \in BOOLEAN /\ raced \in BOOLEAN

PlacesOK ==
  /\ content \in {"none", "asked", "listed", "streaming", "stopping", "stopped"}
  /\ capture \in {"idle", "feeding", "forcing"}
  /\ session \in {"null", "on", "released"}
  /\ sender \in {"idle", "ready", "gate", "ask", "force", "mark", "clear", "lock"}
  /\ frame \in Kind
  /\ loop \in Live \cup Teardown \cup {"done"}
  /\ picture \in {"none", "good", "gap", "corrupt"}

QueueOK == vt \in Seq(Demanded) /\ Len(vt) <= MaxInFlight

LEMMA FlagsStep == TypeOK /\ [Next]_vars => FlagsOK'
<1> SUFFICES ASSUME TypeOK, [Next]_vars PROVE FlagsOK'
  OBVIOUS
<1> USE DEF TypeOK, FlagsOK, Live, InHandler, Teardown, Kind
<1>1. CASE CaptureStart
  BY <1>1 DEF CaptureStart, Activate, ContentListed, InstallStream, captureVars, encoderVars, senderVars, gateVars, flagVars, clientVars
<1>2. CASE CaptureQueue
  BY <1>2 DEF CaptureQueue, didOutputSampleBuffer, Heartbeat, TestForce, SubmitForced, Feed, Submit,
       captureVars, encoderVars, senderVars, gateVars, flagVars, clientVars
<1>3. CASE Encoder
  BY <1>3 DEF Encoder, Emit, Lose, captureVars, senderVars, gateVars, flagVars, clientVars
<1>4. CASE Sender
  BY <1>4 DEF Sender, TestReady, TestGate, Ask, AskEncoder, MarkSent, ClearRequest,
       SendOK, SendFails, Drop, Gap, Decoded, captureVars, encoderVars, gateVars, flagVars, clientVars
<1>5. CASE PeerLoop
  <2>1. CASE DemandEncoder
    <3>1. (content # "none") \in BOOLEAN
      OBVIOUS
    <3>2. forceNextKeyframe' \in BOOLEAN
      BY <2>1, <3>1, Zenon DEF DemandEncoder
    <3>3. QED
      BY <2>1, <3>2 DEF DemandEncoder, captureVars, senderVars, gateVars, flagVars
  <2>2. CASE gfx_caps_advertise \/ Suppress \/ Restore \/ CloseGate \/ Demand \/ LoopEnds
    BY <2>2 DEF gfx_caps_advertise, Suppress, Restore, CloseGate, Demand, LoopEnds,
         captureVars, encoderVars, senderVars, gateVars, flagVars, clientVars
  <2>3. QED
    BY <1>5, <2>1, <2>2 DEF PeerLoop, HandlerEnds
<1>6. CASE TearDown
  BY <1>6 DEF TearDown, StopCapture, StreamStopped, CompleteFrames, Invalidate, ForgetSession,
       rdp_peer_destroy, captureVars, encoderVars, senderVars, gateVars, flagVars, clientVars
<1>7. CASE UNCHANGED vars
  BY <1>7 DEF vars, captureVars, encoderVars, senderVars, gateVars, flagVars, clientVars
<1>8. QED
  BY <1>1, <1>2, <1>3, <1>4, <1>5, <1>6, <1>7 DEF Next

LEMMA PlacesStep == TypeOK /\ [Next]_vars => PlacesOK'
<1> SUFFICES ASSUME TypeOK, [Next]_vars PROVE PlacesOK'
  OBVIOUS
<1> USE DEF TypeOK, PlacesOK, Live, InHandler, Teardown, Kind
<1>1. CASE CaptureStart
  BY <1>1 DEF CaptureStart, Activate, ContentListed, InstallStream, captureVars, encoderVars, senderVars, gateVars, flagVars, clientVars
<1>2. CASE CaptureQueue
  BY <1>2 DEF CaptureQueue, didOutputSampleBuffer, Heartbeat, TestForce, SubmitForced, Feed, Submit,
       captureVars, encoderVars, senderVars, gateVars, flagVars, clientVars
<1>3. CASE Encoder
  BY <1>3 DEF Encoder, Emit, Lose, captureVars, senderVars, gateVars, flagVars, clientVars
<1>4. CASE Sender
  BY <1>4 DEF Sender, TestReady, TestGate, Ask, AskEncoder, MarkSent, ClearRequest,
       SendOK, SendFails, Drop, Gap, Decoded, captureVars, encoderVars, gateVars, flagVars, clientVars
<1>5. CASE PeerLoop
  BY <1>5 DEF PeerLoop, gfx_caps_advertise, Suppress, Restore, HandlerEnds, CloseGate, Demand,
       DemandEncoder, LoopEnds, captureVars, encoderVars, senderVars, gateVars, flagVars, clientVars
<1>6. CASE TearDown
  BY <1>6 DEF TearDown, StopCapture, StreamStopped, CompleteFrames, Invalidate, ForgetSession,
       rdp_peer_destroy, captureVars, encoderVars, senderVars, gateVars, flagVars, clientVars
<1>7. CASE UNCHANGED vars
  BY <1>7 DEF vars, captureVars, encoderVars, senderVars, gateVars, flagVars, clientVars
<1>8. QED
  BY <1>1, <1>2, <1>3, <1>4, <1>5, <1>6, <1>7 DEF Next

LEMMA QueueStep == TypeOK /\ [Next]_vars => QueueOK'
<1> SUFFICES ASSUME TypeOK, [Next]_vars PROVE QueueOK'
  OBVIOUS
<1> USE InFlightAssumption DEF QueueOK
<1>1. vt \in Seq(Demanded) /\ Len(vt) \in Nat /\ Len(vt) <= MaxInFlight
  BY DEF TypeOK
<1>2. CASE UNCHANGED vt
  BY <1>1, <1>2
<1>3. CASE vt' = <<>>
  BY <1>3
<1>4. CASE vt # <<>> /\ vt' = Tail(vt)
  BY <1>1, <1>4, TailIsShorter
<1>5. ASSUME NEW d \in Demanded, Len(vt) < MaxInFlight, vt' = Append(vt, d)
      PROVE  QueueOK'
  BY <1>1, <1>5
<1>6. "any" \in Demanded /\ "forced" \in Demanded
  BY DEF Demanded
<1>7. \/ UNCHANGED vt \/ vt' = <<>> \/ (vt # <<>> /\ vt' = Tail(vt))
      \/ \E d \in Demanded : Len(vt) < MaxInFlight /\ vt' = Append(vt, d)
  <2>1. CASE CaptureStart
    BY <2>1 DEF CaptureStart, Activate, ContentListed, InstallStream, encoderVars
  <2>2. CASE CaptureQueue
    BY <1>6, <2>2 DEF CaptureQueue, didOutputSampleBuffer, Heartbeat, TestForce, SubmitForced, Submit, encoderVars
  <2>3. CASE Encoder
    BY <2>3 DEF Encoder, Emit, Lose
  <2>4. CASE Sender
    BY <2>4 DEF Sender, TestReady, TestGate, Ask, AskEncoder, MarkSent, ClearRequest, SendOK, SendFails, encoderVars
  <2>5. CASE PeerLoop
    BY <2>5 DEF PeerLoop, gfx_caps_advertise, Suppress, Restore, HandlerEnds, CloseGate, Demand,
         DemandEncoder, LoopEnds, encoderVars
  <2>6. CASE TearDown
    BY <2>6 DEF TearDown, StopCapture, StreamStopped, CompleteFrames, Invalidate, ForgetSession,
         rdp_peer_destroy, encoderVars
  <2>7. CASE UNCHANGED vars
    BY <2>7 DEF vars, encoderVars
  <2>8. QED
    BY <2>1, <2>2, <2>3, <2>4, <2>5, <2>6, <2>7 DEF Next
<1>8. QED
  BY <1>2, <1>3, <1>4, <1>5, <1>7

LEMMA TypeStep == TypeOK /\ [Next]_vars => TypeOK'
BY FlagsStep, PlacesStep, QueueStep DEF TypeOK, FlagsOK, PlacesOK, QueueOK

LEMMA FlagStep == TypeOK /\ FlagInv /\ [Next]_vars => FlagInv'
<1> SUFFICES ASSUME TypeOK, FlagInv, [Next]_vars PROVE FlagInv'
  OBVIOUS
<1> USE DEF TypeOK, FlagInv, FramesHaveSession, PassedTests, NothingShown, OpenGate, PassedDelta,
            Live, InHandler, Kind
<1>1. CASE CaptureStart
  BY <1>1 DEF CaptureStart, Activate, ContentListed, InstallStream, captureVars,
       encoderVars, senderVars, gateVars, flagVars, clientVars
<1>2. CASE CaptureQueue
  BY <1>2 DEF CaptureQueue, didOutputSampleBuffer, Heartbeat, TestForce, SubmitForced, Feed, Submit,
       captureVars, encoderVars, senderVars, gateVars, flagVars, clientVars
<1>3. CASE Encoder
  BY <1>3 DEF Encoder, Emit, Lose, captureVars, senderVars, gateVars, flagVars, clientVars
<1>4. CASE Sender
  BY <1>4 DEF Sender, TestReady, TestGate, Ask, AskEncoder, MarkSent, ClearRequest, xportLockFree,
       SendOK, SendFails, Drop, Gap, Decoded, captureVars, encoderVars, gateVars, flagVars, clientVars
<1>5. CASE PeerLoop
  BY <1>5 DEF PeerLoop, gfx_caps_advertise, Suppress, Restore, HandlerEnds, CloseGate, Demand,
       DemandEncoder, LoopEnds, captureVars, encoderVars, senderVars, gateVars, flagVars, clientVars
<1>6. CASE TearDown
  BY <1>6 DEF TearDown, StopCapture, StreamStopped, CompleteFrames, Invalidate, ForgetSession,
       rdp_peer_destroy, captureVars, encoderVars, senderVars, gateVars, flagVars, clientVars
<1>7. CASE UNCHANGED vars
  BY <1>7 DEF vars, captureVars, encoderVars, senderVars, gateVars, flagVars, clientVars
<1>8. QED
  BY <1>1, <1>2, <1>3, <1>4, <1>5, <1>6, <1>7 DEF Next

-----------------------------------------------------------------------------
(* A forced frame in the queue stays there until it is taken out of it.    *)
LEMMA ForcedStays ==
  ASSUME TypeOK, HasForced(vt), [Next]_vars,
         ~(vt # <<>> /\ sender = "idle" /\ Head(vt) = "forced"), loop # "invalidate"
  PROVE  HasForced(vt')
<1>1. vt \in Seq(Demanded) /\ "any" \in Demanded /\ "forced" \in Demanded
  BY DEF TypeOK, Demanded
<1>2. CASE UNCHANGED vt
  BY <1>2
<1>3. CASE vt' = Append(vt, "any") \/ vt' = Append(vt, "forced")
  BY <1>1, <1>3, AppendKeepsForced
<1>4. CASE vt # <<>> /\ vt' = Tail(vt) /\ Head(vt) # "forced"
  BY <1>1, <1>4, TailKeepsForced
<1>5. \/ UNCHANGED vt \/ vt' = Append(vt, "any") \/ vt' = Append(vt, "forced")
      \/ vt # <<>> /\ vt' = Tail(vt) /\ Head(vt) # "forced"
  <2>1. CASE CaptureStart
    BY <2>1 DEF CaptureStart, Activate, ContentListed, InstallStream, encoderVars
  <2>2. CASE CaptureQueue
    BY <2>2 DEF CaptureQueue, didOutputSampleBuffer, Heartbeat, TestForce, SubmitForced, Submit, encoderVars
  <2>3. CASE Encoder
    BY <2>3 DEF Encoder, Emit, Lose
  <2>4. CASE Sender
    BY <2>4 DEF Sender, TestReady, TestGate, Ask, AskEncoder, MarkSent, ClearRequest, SendOK, SendFails, encoderVars
  <2>5. CASE PeerLoop
    BY <2>5 DEF PeerLoop, gfx_caps_advertise, Suppress, Restore, HandlerEnds, CloseGate, Demand,
         DemandEncoder, LoopEnds, encoderVars
  <2>6. CASE TearDown
    BY <2>6 DEF TearDown, StopCapture, StreamStopped, CompleteFrames, Invalidate, ForgetSession,
         rdp_peer_destroy, encoderVars
  <2>7. CASE UNCHANGED vars
    BY <2>7 DEF vars, encoderVars
  <2>8. QED
    BY <2>1, <2>2, <2>3, <2>4, <2>5, <2>6, <2>7 DEF Next
<1>6. QED
  BY <1>2, <1>3, <1>4, <1>5

(* The two parts about keyframes, with the queue behind HasForced.         *)
LEMMA KeyParts ==
  /\ KeyBehind <=>
       (/\ sender \in {"clear", "lock"} /\ frame = "key"
        /\ ~sentKeyframe /\ session = "on" /\ loop \in Live
        => \/ forceNextKeyframe \/ capture = "forcing" \/ loop \in InHandler
           \/ HasForced(vt))
  /\ KeyframeOnItsWay <=>
       (/\ loop \in Live /\ session = "on" /\ gfxReady /\ ~outputSuppressed
        /\ ~sentKeyframe /\ keyframeRequested
        => \/ forceNextKeyframe \/ capture = "forcing" \/ idrDue \/ HasForced(vt)
           \/ sender # "idle" /\ frame = "key"
           \/ sender = "force" \/ loop \in InHandler \/ keyLost)
BY DEF KeyBehind, KeyframeOnItsWay, KeyComing, HasForced

LEMMA KeyStep ==
  TypeOK /\ FlagInv /\ KeyBehind /\ KeyframeOnItsWay /\ [Next]_vars
  => KeyBehind' /\ KeyframeOnItsWay'
<1> SUFFICES ASSUME TypeOK, FlagInv, KeyBehind, KeyframeOnItsWay, [Next]_vars
             PROVE  KeyBehind' /\ KeyframeOnItsWay'
  OBVIOUS
<1> DEFINE forced == HasForced(vt)
           B == /\ sender \in {"clear", "lock"} /\ frame = "key"
                /\ ~sentKeyframe /\ session = "on" /\ loop \in Live
                => \/ forceNextKeyframe \/ capture = "forcing" \/ loop \in InHandler
                   \/ forced
           W == /\ loop \in Live /\ session = "on" /\ gfxReady /\ ~outputSuppressed
                /\ ~sentKeyframe /\ keyframeRequested
                => \/ forceNextKeyframe \/ capture = "forcing" \/ idrDue \/ forced
                   \/ sender # "idle" /\ frame = "key"
                   \/ sender = "force" \/ loop \in InHandler \/ keyLost
<1>1. B /\ W
  BY KeyParts
<1>2. SUFFICES B' /\ W'
  BY DEF KeyBehind, KeyframeOnItsWay, KeyComing, HasForced
<1>3. forced /\ ~(vt # <<>> /\ sender = "idle" /\ Head(vt) = "forced") /\ loop # "invalidate"
      => forced'
  BY ForcedStays
<1>a. UNCHANGED vt => (forced' <=> forced)
  OBVIOUS
<1>b. vt' = Append(vt, "forced") => forced'
  BY AppendKeepsForced DEF TypeOK, Demanded
<1>c. forced /\ vt' = Append(vt, "any") => forced'
  BY AppendKeepsForced DEF TypeOK, Demanded
<1> HIDE DEF forced
<1> USE DEF FlagInv, FramesHaveSession, PassedTests, Live, InHandler, Kind
<1>4. CASE CaptureStart
  BY <1>1, <1>3, <1>a, <1>b, <1>4 DEF CaptureStart, Activate, ContentListed, InstallStream, captureVars, encoderVars, senderVars, gateVars, flagVars, clientVars
<1>5. CASE CaptureQueue
  <2>1. CASE didOutputSampleBuffer
    BY <1>1, <1>3, <1>a, <1>b, <2>1 DEF didOutputSampleBuffer, Feed, captureVars, encoderVars, senderVars, gateVars, flagVars, clientVars
  <2>2. CASE Heartbeat
    BY <1>1, <1>3, <1>a, <1>b, <2>2 DEF Heartbeat, Feed, captureVars, encoderVars, senderVars, gateVars, flagVars, clientVars
  <2>3. CASE TestForce
    <3>1. forced => forced'
      BY <1>a, <1>c, <2>3 DEF TestForce, Submit
    <3>2. QED
      BY <1>1, <3>1, <2>3 DEF TypeOK, TestForce, Submit, captureVars, encoderVars, senderVars, gateVars, flagVars, clientVars
  <2>4. CASE SubmitForced
    BY <1>1, <1>3, <1>a, <1>b, <2>4 DEF TypeOK, SubmitForced, Submit, captureVars, encoderVars, senderVars, gateVars, flagVars, clientVars
  <2>5. QED
    BY <1>5, <2>1, <2>2, <2>3, <2>4 DEF CaptureQueue
<1>6. CASE Encoder
  <2>1. CASE Emit
    <3>1. /\ Head(vt) = "forced" \/ idrDue => frame' = "key"
          /\ sender' = "ready" /\ vt # <<>> /\ sender = "idle"
          /\ UNCHANGED <<captureVars, capture, session, forceNextKeyframe, gateVars,
                         flagVars, loop, clientVars>>
      BY <2>1 DEF Emit
    <3>2. B'
      BY <3>1
    <3>3. W'
      BY <1>1, <1>3, <3>1 DEF gateVars, flagVars, clientVars
    <3>4. QED
      BY <3>2, <3>3
  <2>2. CASE Lose
    BY <1>1, <1>3, <1>a, <1>b, <2>2 DEF Lose, captureVars, senderVars, gateVars, flagVars
  <2>3. QED
    BY <1>6, <2>1, <2>2 DEF Encoder
<1>7. CASE Sender
  BY <1>1, <1>3, <1>a, <1>b, <1>7 DEF TypeOK, Sender, TestReady, TestGate, Ask, AskEncoder, MarkSent, ClearRequest, xportLockFree,
       SendOK, SendFails, Drop, Gap, Decoded, captureVars, encoderVars, gateVars, flagVars, clientVars
<1>8. CASE PeerLoop
  BY <1>1, <1>3, <1>a, <1>b, <1>8 DEF PeerLoop, gfx_caps_advertise, Suppress, Restore, HandlerEnds, CloseGate, Demand,
       DemandEncoder, LoopEnds, captureVars, encoderVars, senderVars, gateVars, flagVars, clientVars
<1>9. CASE TearDown
  BY <1>1, <1>3, <1>a, <1>b, <1>9 DEF TearDown, StopCapture, StreamStopped, CompleteFrames, Invalidate, ForgetSession,
       rdp_peer_destroy, captureVars, encoderVars, senderVars, gateVars, flagVars, clientVars
<1>10. CASE UNCHANGED vars
  BY <1>1, <1>3, <1>a, <1>b, <1>10 DEF vars, captureVars, encoderVars, senderVars, gateVars, flagVars, clientVars
<1>11. QED
  BY <1>4, <1>5, <1>6, <1>7, <1>8, <1>9, <1>10 DEF Next

LEMMA PictureStep ==
  TypeOK /\ FlagInv /\ UndecodableOnlyFromRace /\ [Next]_vars => UndecodableOnlyFromRace'
<1> SUFFICES ASSUME TypeOK, FlagInv, UndecodableOnlyFromRace, [Next]_vars
             PROVE  UndecodableOnlyFromRace'
  OBVIOUS
<1> USE DEF UndecodableOnlyFromRace
<1>1. CASE Sender
  BY <1>1 DEF TypeOK, FlagInv, PassedDelta, Live, InHandler, Kind, xportLockFree,
       Sender, TestReady, TestGate, Ask, AskEncoder, MarkSent, ClearRequest,
       SendOK, SendFails, Drop, Gap, Decoded, clientVars
<1>2. CASE PeerLoop
  BY <1>2 DEF TypeOK, PeerLoop, gfx_caps_advertise, Suppress, Restore, HandlerEnds, CloseGate,
       Demand, DemandEncoder, LoopEnds, clientVars
<1>3. CASE CaptureStart \/ CaptureQueue \/ Encoder \/ TearDown \/ UNCHANGED vars
  BY <1>3 DEF CaptureStart, Activate, ContentListed, InstallStream, CaptureQueue,
       didOutputSampleBuffer, Heartbeat, TestForce, SubmitForced, Encoder, Emit, Lose, TearDown,
       StopCapture, StreamStopped, CompleteFrames, Invalidate, ForgetSession, rdp_peer_destroy,
       clientVars, vars
<1>4. QED
  BY <1>1, <1>2, <1>3 DEF Next

-----------------------------------------------------------------------------
LEMMA InitInv == Init => FrameInv
<1>1. Init => TypeOK
  <2> SUFFICES ASSUME Init PROVE TypeOK
    OBVIOUS
  <2>1. FlagsOK /\ PlacesOK
    BY DEF Init, FlagsOK, PlacesOK, Live, InHandler, Teardown, Kind
  <2>2. QueueOK
    BY InFlightAssumption DEF Init, QueueOK
  <2>3. QED
    BY <2>1, <2>2 DEF TypeOK, FlagsOK, PlacesOK, QueueOK
<1>2. QED
  BY <1>1 DEF Init, FrameInv, FramesHaveSession, PassedTests, NothingShown,
   OpenGate, PassedDelta, KeyBehind, KeyframeOnItsWay, UndecodableOnlyFromRace

(* Every step of capture, encoder, sender, peer loop and teardown keeps    *)
(* the keyframe gate, the queue and the client's picture consistent.       *)
THEOREM FrameCorrect == Spec => []FrameInv
<1>1. FrameInv /\ [Next]_vars => FrameInv'
  BY TypeStep, FlagStep, KeyStep, PictureStep DEF FrameInv, FlagInv
<1>2. QED
  BY InitInv, <1>1, PTL DEF Spec

(* A closed gate that has requested a keyframe has one coming.             *)
THEOREM KeyframeComes == Spec => []KeyframeOnItsWay
<1>1. FrameInv => KeyframeOnItsWay
  BY DEF FrameInv
<1>2. QED
  BY FrameCorrect, <1>1, PTL

(* Garbage is shown only after a failed send or the race of a restore.     *)
THEOREM UndecodableExplained == Spec => []UndecodableOnlyFromRace
<1>1. FrameInv => UndecodableOnlyFromRace
  BY DEF FrameInv
<1>2. QED
  BY FrameCorrect, <1>1, PTL

(* The peer is freed after its last frame: the encoder's stop waits.       *)
THEOREM PeerIsNotUsedFreed == Spec => []PeerOutlivesSends
<1>1. FrameInv => PeerOutlivesSends
  BY DEF FrameInv, FramesHaveSession, PeerOutlivesSends
<1>2. QED
  BY FrameCorrect, <1>1, PTL

(* A client whose picture has a hole in it is sent no second delta.        *)
THEOREM OneStaleFrameAtMost == Spec => OneStaleFrame
<1>1. FrameInv /\ [Next]_vars =>
        [/\ sender = "lock" /\ frame = "delta" /\ sender' = "idle"
         /\ ~outputSuppressed /\ ~sendFailed'
         => picture \notin {"gap", "corrupt"}]_vars
  <2> SUFFICES ASSUME FrameInv, Next, sender = "lock", frame = "delta", sender' = "idle",
                      ~outputSuppressed, ~sendFailed'
               PROVE  picture \notin {"gap", "corrupt"}
    BY DEF vars, senderVars
  <2>1. SendOK \/ SendFails
    BY DEF Next, CaptureStart, Activate, ContentListed, InstallStream, CaptureQueue,
       didOutputSampleBuffer, Heartbeat, TestForce, SubmitForced, Encoder, Emit, Lose, TearDown,
       StopCapture, StreamStopped, CompleteFrames, Invalidate, ForgetSession, rdp_peer_destroy,
       Sender, TestReady, TestGate, Ask, AskEncoder, MarkSent, ClearRequest, Drop,
       PeerLoop, gfx_caps_advertise, Suppress, Restore, HandlerEnds, CloseGate,
       Demand, DemandEncoder, LoopEnds, senderVars
  <2>2. ~sendFailed
    BY <2>1 DEF SendOK, SendFails, Decoded
  <2>3. QED
    BY <2>2 DEF FrameInv, PassedDelta
<1>2. QED
  BY FrameCorrect, <1>1, PTL DEF Spec, OneStaleFrame

=============================================================================
