------------------------------ MODULE MCRSCData ------------------------------
(* A small instance of RSCFormat and RSCData for TLC. *)
EXTENDS RSCData, TLC

Line(key, val, hash) == [key |-> key, val |-> val, hash |-> hash]
Conf(size, size1, cblksize) ==
  [lines |-> <<Line("CMFILE_PATH", 0, "no"), Line("CACHESIZE", size, "no"),
               Line("1CACHESIZE", size1, "no"), Line("CBLKSIZE", cblksize, "no")>>,
   ended |-> TRUE]

\* One or two cache files, three block sizes of which mkrcf refuses one, and a
\* text whose last line has no newline.
MCConfs ==
  {Conf(1, 1, 2), Conf(4, 0, 4), Conf(1, 0, 3),
   [Conf(1, 1, 2) EXCEPT !.ended = FALSE]}

\* All texts of up to three lines; a numeral that an int holds and one that it
\* does not
MCTexts ==
  [lines : UNION {[1 .. n -> [key : {"CACHESIZE", "CBLKSIZE"}, val : {4, 50},
                             hash : {"no", "before", "after"}]] : n \in 0 .. 3},
   ended : BOOLEAN]

Symmetry == Permutations(Paths)

=============================================================================
