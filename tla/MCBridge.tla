------------------------------- MODULE MCBridge -------------------------------
(* Bridge instantiated for TLC: chains a and b have keys, c has none.     *)
EXTENDS Bridge, TLC

CONSTANTS a, b, c, k1, k2, kM

MCPublicKeys == (a :> k1) @@ (b :> k2)

=============================================================================
