CONSTANTS
  h1 = h1
  h2 = h2
  k1 = k1
  k2 = k2
  None = None
  Handles = {h1, h2}
  Keys = {k1, k2}
  Calls <- NoCalls
  Exclusive = {h1}
  MaxSequence = 2
  Invocations <- MCInvocations
  Retries = 1
  MaxOrdinal = 6
  Restarts = 1
SPECIFICATION RecoverySpec
INVARIANTS
  OnlyInterferenceHides
  RecoveredReceipt
