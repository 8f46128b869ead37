------------------------- MODULE MCTranslationStats -------------------------
(* A small instance of TranslationStats for TLC.                           *)
EXTENDS TranslationStats, TLC

CONSTANTS b1, b2, b3

MCBatches == {b1, b2, b3}

BatchSymmetry == Permutations(MCBatches)
=============================================================================
