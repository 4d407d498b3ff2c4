------------------------- MODULE MCTargetDifficulty -------------------------
EXTENDS TargetDifficulty

\* Header walks: a fast period (five blocks in a second, clamped up), a
\* slow one (two blocks in three seconds, clamped down to the floor), and
\* a single block (which gives the initial difficulty).
MCWalks == {<<5, 1>>, <<2, 3>>, <<1, 1>>}

=============================================================================
