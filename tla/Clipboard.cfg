\* Copies on both sides, crossing each other, and pastes of what was offered.
CONSTANTS
  MaxMacCopies = 2
  MaxClientCopies = 2
  MaxCopies = 3
SPECIFICATION FairSpec
INVARIANTS
  RefusedForNewer
  GarbledIsReplaced
  FollowInv
PROPERTIES
  ClipboardsFollow
