--------------------------- MODULE MCCoordinator ---------------------------
EXTENDS Coordinator, TLC
JobSymmetry == Permutations(Jobs)
=============================================================================
