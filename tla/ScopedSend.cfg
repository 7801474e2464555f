\* Three senders and two regions: every command may end in every way, tasks are cancelled, and
\* the link is opened again.
CONSTANTS
  Senders = {s1, s2, s3}
  Regions = {r1, r2}
  SetOutcomes <- MCAnyEnd
  SendOutcomes <- MCAnyEnd
  ClearOutcomes <- MCAnyEnd
  RECONNECTS = TRUE
SPECIFICATION FairSpec
INVARIANTS ScopeIsRestored ForeignScopeWasRefused WindowIsClosed ScopedGoesScoped
PROPERTY TurnComes
CHECK_DEADLOCK FALSE
