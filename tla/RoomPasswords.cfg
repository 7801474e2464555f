\* One caller at a time, with every password and the blank one, at a room that may refuse.
CONSTANTS
  Callers = {c1}
  Passwords <- MCAny
  MemberPw = "member pw"
  AdminPw = "admin pw"
  READ_ONLY = TRUE
  REFUSES = TRUE
  LATE = FALSE
  SLOTS = 2
SPECIFICATION Spec
INVARIANT OnlyWhatWorked
PROPERTY RoomPasswordKept
CHECK_DEADLOCK FALSE
