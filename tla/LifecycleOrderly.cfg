\* The link holds and no timeout of the bridge fires; the lock may be refused,
\* the provider be missing, the pipeline fail, another user of the lock
\* interfere.  No symmetry, because of the leads-to.
CONSTANTS
  m1 = m1
  m2 = m2
  m3 = m3
  c1 = c1
  c2 = c2
  Messages = {m1, m2, m3}
  Conversations = {c1, c2}
  ConvOf <- TwoAndOne
  Background = {b1}
  None = None
  Apology = Apology
  MaxCrashes = 0
  MaxDrops = 0
  MayGiveUp = FALSE
  MayRecover = FALSE
  MayRefuse = TRUE
  MayLackProvider = TRUE
  MayFail = TRUE
  CacheMayFail = TRUE
SPECIFICATION FairSpec
INVARIANT TrackedUntilAnswered
INVARIANT AnswerIsOwn
PROPERTY AnsweredOrDropped
CHECK_DEADLOCK FALSE
