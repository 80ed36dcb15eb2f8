----------------------------- MODULE MCRSCCrash -----------------------------
(* Small instances of RSCCrash for TLC. *)
EXTENDS RSCCrash

\* Files are interchangeable.
Symmetry == Permutations(Paths)

\* Bound: nothing runs after a start that found a truncation half done.
Explored == ~("cut" \in torn /\ run = "up")

=============================================================================
