--------------------------- MODULE MCPersistence ---------------------------
(* Instances of Persistence for TLC.                                        *)
EXTENDS Persistence, TLC

\* Agents and goroutines are interchangeable.
PersistSymmetry == Permutations(Agent) \cup Permutations(Notifier)
                     \cup Permutations(Job) \cup Permutations(Remover)
=============================================================================
