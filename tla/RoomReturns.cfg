\* Two callers at a time, and answers that come late.
CONSTANTS
  Callers = {c1, c2}
  Passwords <- MCOne
  MemberPw = "member pw"
  AdminPw = "admin pw"
  READ_ONLY = FALSE
  REFUSES = FALSE
  LATE = TRUE
  SLOTS = 3
SPECIFICATION FairSpec
INVARIANT InflightRuns
PROPERTY LoginReturns
CHECK_DEADLOCK FALSE
