\* Two callers that wait for the same login.
CONSTANTS
  Callers = {c1, c2}
  Passwords <- MCTyped
  MemberPw = "member pw"
  AdminPw = "admin pw"
  READ_ONLY = FALSE
  REFUSES = FALSE
  LATE = FALSE
  SLOTS = 4
SPECIFICATION Spec
INVARIANT OneLoginAtATime
CHECK_DEADLOCK FALSE
