\* Objects for the front task, the back task, the hub and the current device.
CONSTANTS
  DEVICES = 4
SPECIFICATION Spec
INVARIANTS ResumedAsBefore HubFollowsLink NothingElseIsHeld ConnectedWasOpened
PROPERTIES ReconnectEnds
CHECK_DEADLOCK FALSE
