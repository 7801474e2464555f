\* Three entries for a history of one, two bodies, schedules and one counted try: cuts of two
\* finished entries with a waiting one beside them, failed writes, and what a restart finds
\* in the file.
CONSTANTS
  MAX_IDENT = 3
  MAX_TRIES = 1
  Nodes = {n1}
  Texts = {x1, x2}
  Delays <- MCDelays
  BACKOFF_CAP_S = 1
  HISTORY_KEPT = 1
SPECIFICATION StoreSpec
INVARIANT IdentsAreMonotonic
PROPERTIES WaitingIsNeverCut IdentsAreSingle
CONSTRAINT MCOneTouched
CHECK_DEADLOCK FALSE
