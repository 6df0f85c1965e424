\* A crash with an unfinished row, and the restart.
CONSTANTS
  m1 = m1
  m2 = m2
  m3 = m3
  c1 = c1
  c2 = c2
  Messages = {m1, m2}
  Conversations = {c1}
  ConvOf <- TwoInOne
  Background = {}
  None = None
  Apology = Apology
  MaxCrashes = 1
  MaxDrops = 0
  MayGiveUp = FALSE
  MayRecover = FALSE
  MayRefuse = FALSE
  MayLackProvider = FALSE
  MayFail = FALSE
  CacheMayFail = FALSE
SPECIFICATION Spec
PROPERTY LostRowsRunAgain
CHECK_DEADLOCK FALSE
