------------------------- MODULE MCEncoderArtifacts -------------------------
\* Two processes; losses such that one epoch may be better by more than
\* min_delta, by less, or not at all.
EXTENDS EncoderArtifacts, TLC

MCSymmetry == Permutations(Jobs)

MCLosses == {1, 2, 4, NaN}
=============================================================================
