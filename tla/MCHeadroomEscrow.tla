-------------------------- MODULE MCHeadroomEscrow --------------------------
EXTENDS HeadroomEscrowProofs, TLC
CONSTANTS r1, r2, r3, r4
Cohort == {r1, r2, r3, r4}
Interchangeable == Permutations(Cohort)
=============================================================================
