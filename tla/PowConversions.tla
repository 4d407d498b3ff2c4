--------------------------- MODULE PowConversions ---------------------------
(***************************************************************************)
(* The U256 conversions of core/src/pow/mod.rs between hashes, nonces,    *)
(* boundaries and difficulties, at a width of W bits: MaxU plays          *)
(* U256::MAX, and the nonce's lower bound keeps the upper half of the     *)
(* bits without the top one, as nonce_to_lower_bound keeps bytes 0..15    *)
(* without bit 255.  Used by the difficulty adjustment and by the stratum *)
(* miner, which mines against these boundaries.                           *)
(***************************************************************************)
EXTENDS Naturals

CONSTANT W  \* bits of a U256 in the model

ASSUME W \in Nat /\ W >= 4 /\ W % 2 = 0

MaxU == 2^W - 1          \* U256::MAX
NO_BOUNDARY == MaxU

\* Bits W/2 .. W-2 of the nonce: the upper half without the highest bit.
nonce_to_lower_bound(nonce) ==
  LET half == 2^(W \div 2) IN ((nonce % 2^(W - 1)) \div half) * half

\* Fault: the quotient is not corrected when x divides 2^W exactly.
compute_inv_drops_exact(x) == MaxU \div x

\* [2^W / x] for 2 <= x <= MaxU, computed from MaxU = 2^W - 1.
compute_inv_x_times_2_pow_256_floor(x) ==
  LET div == MaxU \div x
      modular == MaxU % x
  IN IF modular + 1 = x THEN div + 1 ELSE div

boundary_to_difficulty(boundary) ==
  IF boundary = 1 THEN MaxU ELSE compute_inv_x_times_2_pow_256_floor(boundary)

difficulty_to_boundary(difficulty) ==
  IF difficulty = 1 THEN NO_BOUNDARY
  ELSE compute_inv_x_times_2_pow_256_floor(difficulty)

\* hash.overflowing_sub(lower_bound).0
AgainstLowerBound(hash, nonce) == (hash - nonce_to_lower_bound(nonce)) % 2^W

validate_hash_against_boundary(hash, nonce, boundary) ==
  AgainstLowerBound(hash, nonce) < boundary \/ boundary = NO_BOUNDARY

pow_hash_to_quality(hash, nonce) ==
  LET a == AgainstLowerBound(hash, nonce) IN
  IF a = MaxU THEN 1 ELSE boundary_to_difficulty(a + 1)

\* The reference: the quality of a hash is [2^W / (a + 1)], saturated at
\* MAX, where a is the hash above the nonce's lower bound.
RefQuality(hash, nonce) ==
  LET q == 2^W \div (AgainstLowerBound(hash, nonce) + 1)
  IN IF q > MaxU THEN MaxU ELSE q

=============================================================================
