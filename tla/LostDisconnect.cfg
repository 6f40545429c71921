\* Two connections: a takeover while the first brings its media up.
CONSTANTS
  Session = {1, 2}
  None = None
SPECIFICATION LiveSpec
PROPERTIES
  DisconnectHonoured
CHECK_DEADLOCK FALSE
