\* One connection is enough: it has read _running when the server stops.
CONSTANTS
  Session = {1, 2}
  None = None
SPECIFICATION Spec
PROPERTIES
  NoClaimAfterStop
CHECK_DEADLOCK FALSE
