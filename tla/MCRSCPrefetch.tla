---------------------------- MODULE MCRSCPrefetch ----------------------------
(* The files and requests of the runs of RSCPrefetch.                       *)
EXTENDS RSCPrefetch, TLC

CONSTANTS r1, r2, r3, p1, p2

\* Two requests for a file of two blocks, one for an empty file
TwoForOneFile == (r1 :> p1) @@ (r2 :> p1) @@ (r3 :> p2)
LongFiles == (p1 :> 2) @@ (p2 :> 0)

\* A request for each of two files, of one block and of none
TwoFiles == (r1 :> p1) @@ (r2 :> p2)
ShortFiles == (p1 :> 1) @@ (p2 :> 0)

=============================================================================
