SPECIFICATION SessSpec
CONSTANTS
  Files = {f1, f2}
  Tracked = {f1, f2}
  Editable = {f1}
  Sessions = {s1, s2}
  NoSession = noSession
  MaxEdits = 2
  MaxSessCrashes = 0
INVARIANT VerifiedEditsSurvive
CHECK_DEADLOCK FALSE
