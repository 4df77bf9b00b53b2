--------------------------- MODULE MCPersistentAgent ---------------------------
(* Small instances of PersistentAgent for TLC.                              *)
EXTENDS PersistentAgent, TLC

\* Helpers run the same program and requests are only compared for equality.
Symmetry == Permutations(Agents) \cup Permutations(Requests)

================================================================================
