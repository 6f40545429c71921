\* Two frames in VideoToolbox: one that answers a request and one before it.
CONSTANT MaxInFlight = 2
SPECIFICATION FairSpec
INVARIANTS
  KeyframeOnItsWay
  UndecodableOnlyFromRace
  PeerOutlivesSends
  FrameInv
PROPERTIES
  OneStaleFrame
  BlackHeals
\* A session may end, and a static screen without a surface feeds nothing.
CHECK_DEADLOCK FALSE
