\* Two identities and a short week: the quiet period, the cooldowns and the checks are shorter.
CONSTANTS
  Nodes = {"n", "m"}
  Reachable = {"n"}
  WEEK = 2
  QUIET_S = 1
  COOLDOWN_S = 1
  FLOOD_COOLDOWN_S = 1
  DUE_CHECK_S = 2
  REKEYS = TRUE
  SaveOutcomes <- MCFaulty
SPECIFICATION Spec
PROPERTIES AtMostWeekly SwitchOnWaits WeekMovesWithAdvert GoesOut
CONSTRAINT MCByHandFromOne
CHECK_DEADLOCK FALSE
