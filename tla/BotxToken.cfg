\* Two concurrent callers of one client built with a secret.
SPECIFICATION FairSpec
CONSTANTS
  c1 = c1
  c2 = c2
  None = None
  Configured = Configured
  Callers = {c1, c2}
  HasSecret = TRUE
INVARIANT IInv
PROPERTY RenewOnlyRejected RetryWithNewToken EveryCallEnds
CHECK_DEADLOCK FALSE
