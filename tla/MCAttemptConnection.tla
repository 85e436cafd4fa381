------------------------ MODULE MCAttemptConnection -------------------------
EXTENDS AttemptConnection, TLC
Symmetry == Permutations(Conn) \cup Permutations(Prompt)
=============================================================================
