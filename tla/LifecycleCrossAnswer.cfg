\* The link breaks under a running message; the next one is sent after the reconnect.
CONSTANTS
  m1 = m1
  m2 = m2
  m3 = m3
  c1 = c1
  c2 = c2
  Messages = {m1, m2}
  Conversations = {c1}
  ConvOf <- TwoInOne
  Background = {}
  None = None
  Apology = Apology
  MaxCrashes = 0
  MaxDrops = 1
  MayGiveUp = FALSE
  MayRecover = FALSE
  MayRefuse = FALSE
  MayLackProvider = FALSE
  MayFail = FALSE
  CacheMayFail = FALSE
SPECIFICATION Spec
INVARIANT AnswerIsOwn
CHECK_DEADLOCK FALSE
