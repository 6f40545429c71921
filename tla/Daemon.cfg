\* A takeover, an update, and a crash or a signal in the middle of either.
CONSTANTS
  Session = {s1, s2}
  MaxVersion = 1
  MaxDeaths = 1
SPECIFICATION FairSpec
INVARIANTS
  DaemonInv
  LiveBinaryRuns
  PanelRestored
  UpdaterSparesOwner
PROPERTIES
  PrivacyHeld
  UpdateSettles
