----------------------------- MODULE MCRSCTable -----------------------------
(* Small instances of RSCTable for TLC. *)
EXTENDS RSCTable

\* Files are interchangeable in the safety runs.
Symmetry == Permutations(Paths)

=============================================================================
