\* Two messages, scheduled or not, to a recipient in the contact list and to one that the
\* device does not know.
CONSTANTS
  MAX_IDENT = 2
  MAX_TRIES = 2
  MAX_SENDS = 2
  MAX_ATTEMPTS = 2
  SOFT_RETRIES = 0
  FRESH_S = 0
  BACKOFF_BASE_S = 1
  BACKOFF_CAP_S = 1
  HISTORY_KEPT = 1
  Nodes = {n1, n2}
  Known = {n1}
  Texts = {x1}
  Delays <- MCBoth
  SaveOutcomes <- MCSaved
SPECIFICATION SteadySpec
PROPERTY KnownMessagesSettle
CHECK_DEADLOCK FALSE
