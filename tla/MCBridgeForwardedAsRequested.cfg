\* Three chains (c without a key, a not a destination), the two chains'
\* keys and a key of a caller's own; amounts 0 and 1.
CONSTANTS
  a = a
  b = b
  c = c
  k1 = k1
  k2 = k2
  kM = kM
  Chains = {a, b, c}
  SupportedChains = {b, c}
  PublicKeys <- MCPublicKeys
  Keys = {k1, k2, kM}
  Amounts = {0, 1}
  MaxRequests = 2
  Malformed = Malformed
SPECIFICATION Spec
\* A panic in process_message ends the process.
CHECK_DEADLOCK FALSE
INVARIANTS
  ForwardedAsRequested
