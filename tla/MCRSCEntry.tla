----------------------------- MODULE MCRSCEntry -----------------------------
(* A small instance of RSCEntry for TLC. *)
EXTENDS RSCEntry, TLC

\* Threads, files and blocks are interchangeable.
Symmetry == Permutations(Threads) \cup Permutations(Paths) \cup Permutations(Blocks)

=============================================================================
