\* Two messages of two recipients, one of them not in the contact list, and two tries each:
\* a pass beside Send now, an edit and a late ack, against the abstract outbox.
CONSTANTS
  MAX_IDENT = 2
  MAX_TRIES = 2
  MAX_SENDS = 2
  MAX_ATTEMPTS = 2
  SOFT_RETRIES = 0
  FRESH_S = 0
  BACKOFF_BASE_S = 1
  BACKOFF_CAP_S = 1
  HISTORY_KEPT = 1
  Nodes = {n1, n2}
  Known = {n1}
  Texts = {x1}
  Delays <- MCPlain
  SaveOutcomes <- MCSaved
SPECIFICATION Spec
INVARIANTS OneTryAtATime HeldIsNotTried DeliveredMeansAcked
PROPERTY ImplementsOutbox
CHECK_DEADLOCK FALSE
