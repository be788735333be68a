-------------------------- MODULE MCWalkForwardTraining --------------------------
\* The specification WalkForwardTraining.cfg model-checks.
EXTENDS WalkForwardTraining
=============================================================================
