-------------------------- MODULE MCJellyfishMerkle --------------------------
(* Model-checking instance of JellyfishMerkle: three-nibble keys chosen so *)
(* that inserts hit every case of insert_at: an empty root, the same key,  *)
(* a fork right below a leaf (000/100), a fork two nibbles further down    *)
(* (000/001, a run of two single-child internal nodes), a fork below an    *)
(* internal node (010), and an empty slot of an internal node.             *)
EXTENDS JellyfishMerkle

CONSTANTS a, b

MCKeys == {<<0, 0, 0>>, <<0, 0, 1>>, <<0, 1, 0>>, <<1, 0, 0>>}
MCValues == {a, b}

ValueSymmetry == Permutations(MCValues)
=============================================================================
