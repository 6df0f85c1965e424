\* Everything may fail but the lock and the provider (both drop the message, which
\* LifecycleOrderly shows); what the cache says of itself still holds.
CONSTANTS
  m1 = m1
  m2 = m2
  m3 = m3
  c1 = c1
  c2 = c2
  Messages = {m1, m2, m3}
  Conversations = {c1}
  ConvOf <- ThreeInOne
  Background = {}
  None = None
  Apology = Apology
  MaxCrashes = 1
  MaxDrops = 1
  MayGiveUp = TRUE
  MayRecover = TRUE
  MayRefuse = FALSE
  MayLackProvider = FALSE
  MayFail = TRUE
  CacheMayFail = TRUE
SPECIFICATION Spec
SYMMETRY Symmetry
INVARIANT TypeOK
INVARIANT ProcessingIsLive
PROPERTY StoredBeforeDelivered
CHECK_DEADLOCK FALSE
