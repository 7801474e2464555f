\* One message with two bodies, and three tries against a budget of two, with a soft retry in each, a backoff
\* that grows once, and a file whose writes may fail.
CONSTANTS
  MAX_IDENT = 1
  MAX_TRIES = 3
  MAX_SENDS = 3
  MAX_ATTEMPTS = 2
  SOFT_RETRIES = 1
  FRESH_S = 0
  BACKOFF_BASE_S = 1
  BACKOFF_CAP_S = 2
  HISTORY_KEPT = 1
  Nodes = {n1}
  Known = {n1}
  Texts = {x1, x2}
  Delays <- MCPlain
  SaveOutcomes <- MCFaulty
SPECIFICATION Spec
INVARIANTS BudgetSurvivesCrash GaveUpMeansSpent BodyFixedDuringTry FiledIsUnacked
PROPERTIES AutomaticTriesAreSpaced LateAckSettles
CHECK_DEADLOCK FALSE
