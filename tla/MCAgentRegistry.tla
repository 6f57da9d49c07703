--------------------------- MODULE MCAgentRegistry ---------------------------
EXTENDS AgentRegistry, TLC

\* Connection slots and removers are interchangeable (safety runs only).
Symmetry == Permutations(Conn) \cup Permutations(Remover)
=============================================================================
