\* Two callbacks, a rule whose handler is awaited and one whose is not.
SPECIFICATION FairSpec
CONSTANTS
  r1 = r1
  r2 = r2
  NoSecret = NoSecret
  Callbacks = {r1, r2}
  TlsCallbacks = {}
  Rules <- MCRules
  Payloads <- MCPayloads
  VerifyJWT = TRUE
  SecretOf <- MCSecretOf
  Now <- MCNow
  MaxVersion = 2
  MaxAttempts = 3
INVARIANT RunInv AcceptedMeansHandled
PROPERTY ShutdownReturns RotationServed
CHECK_DEADLOCK FALSE
