---------------------------- MODULE MCBarStore ------------------------------
\* Two processes; a window of four days, asked for in two overlapping parts,
\* which moves by one day; a bank that trusts three rows.
EXTENDS BarStore, TLC

\* Processes are interchangeable.
JobSymmetry == Permutations(Jobs)
=============================================================================
