------------------------------ MODULE MCMemPool ------------------------------
(* Small instances of MemPool for TLC.                                     *)
EXTENDS MemPool, TLC

Symmetry == Permutations(Chunk) \cup Permutations(File)

=============================================================================
