\* Two channels for the slot, one post, and a few messages.
CONSTANTS
  Channels = {"a", "b"}
  Posts = {"p"}
  Opened = {"a", "room"}
  MAX_MESSAGES = 2
  MAX_CHANGES = 1
  SaveOutcomes <- MCFaulty
SPECIFICATION Spec
INVARIANTS StoredInOrder PostStoredOnce FiledUnderItsChannel NoticesAreRight
PROPERTIES PulledIsHandled
CHECK_DEADLOCK FALSE
