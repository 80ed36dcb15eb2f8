----------------------------- MODULE RSCFormat -----------------------------
(***************************************************************************)
(* What rsc.conf says and where mkrcf puts things in the cache file        *)
(* (util.c, mkrcf.c, RSC.h): operators, no state.                          *)
(***************************************************************************)
EXTENDS Integers, Sequences, SequencesExt

CONSTANTS
  MbSize, HeaderSize, NodeSize,  \* sizeof MasterBlock, FileHeader, BlockPointerNode
  Giga,        \* bytes in one G of CACHESIZE
  MinFiles,    \* MINNUMFILES
  IntMax       \* the largest int

ASSUME FormatAssumption ==
  {MbSize, HeaderSize, NodeSize, Giga, MinFiles, IntMax} \subseteq Nat \ {0}

-----------------------------------------------------------------------------
(* Reading rsc.conf.  A line is a key and a numeral, with a # in front of  *)
(* them, behind them, or none.  The file may end without a newline.        *)

\* The int that the loop of strtoint has at the end of numeral n.  Slip: no int.
strtointWide(n) == n
strtoint(n) == ((n + IntMax + 1) % (2 * (IntMax + 1))) - (IntMax + 1)

\* val is divided by 2 down to 1.
isexp2[val \in Int] ==
  IF val < 2 THEN FALSE ELSE val = 2 \/ (val % 2 = 0 /\ isexp2[val \div 2])

\* The lines for which readLine returns: one that the end of the file cuts off
\* counts only if it has a #.
readLines(conf) ==
  LET last == conf.lines[Len(conf.lines)] IN
  IF conf.lines = <<>> \/ conf.ended \/ last.hash # "no"
  THEN conf.lines
  ELSE Front(conf.lines)

\* What follows a # is not kept.  Slip: only the # itself is left out.
readentryPastHash(line, key) == line.key = key
readentry(line, key) == line.hash # "before" /\ line.key = key

Defaults == [cmfile |-> FALSE, cmfile1 |-> FALSE, numcache |-> 0,
             cblksize |-> 0, size |-> 0, size1 |-> 0]

\* One turn of the loop of readrscconf.
ConfWith(c, line) ==
  CASE readentry(line, "CMFILE_PATH")  -> [c EXCEPT !.cmfile = TRUE, !.numcache = @ + 1]
    [] readentry(line, "CACHESIZE")    -> [c EXCEPT !.size = strtoint(line.val)]
    [] readentry(line, "CBLKSIZE")     -> [c EXCEPT !.cblksize = strtoint(line.val)]
    [] readentry(line, "1CMFILE_PATH") -> [c EXCEPT !.cmfile1 = TRUE, !.numcache = @ + 1]
    [] readentry(line, "1CACHESIZE")   -> [c EXCEPT !.size1 = strtoint(line.val)]
    [] OTHER                           -> c

\* The loop, one line after another.
readrscconf(conf) ==
  LET lines == readLines(conf)
      read[n \in 0 .. Len(lines)] ==
        IF n = 0 THEN Defaults ELSE ConfWith(read[n - 1], lines[n])
  IN read[Len(lines)]

-----------------------------------------------------------------------------
(* The sections of the cache file.                                         *)

\* Blocks that main makes of a size in G, and headers for them.
NumBlocksFor(size, cblksize) == (size * Giga) \div cblksize

NumFilesFor(ncblk) == IF ncblk \div 10 < MinFiles THEN MinFiles ELSE ncblk \div 10

\* The master block of create_cmfile_with_data.  Slip: no room for the last
\* node.
LayoutNodeShort(ncblk, nfile, cblksize) ==
  LET nodes == MbSize + HeaderSize * nfile
      blocks == nodes + NodeSize * (ncblk - 1)
  IN [file_header_section |-> MbSize,
      block_pointer_section |-> nodes,
      block_section |-> blocks,
      capacity |-> blocks + cblksize * ncblk,
      cblksize |-> cblksize]

Layout(ncblk, nfile, cblksize) ==
  LET nodes == MbSize + HeaderSize * nfile
      blocks == nodes + NodeSize * (ncblk - 1) + NodeSize
  IN [file_header_section |-> MbSize,
      block_pointer_section |-> nodes,
      block_section |-> blocks,
      capacity |-> blocks + cblksize * ncblk,
      cblksize |-> cblksize]

\* What is written before the blocks.
SectionsSize(ncblk, nfile) == MbSize + HeaderSize * nfile + NodeSize * ncblk

\* loc of header i, loc and memloc of block pointer i, as its loops write them
HeaderLoc(i) == MbSize + i * HeaderSize
NodeLoc(mb, i) == mb.block_pointer_section + i * NodeSize
NodeMemloc(mb, ncblk, i) ==
  mb.block_pointer_section + ncblk * NodeSize + i * mb.cblksize

\* The size that -rh wants the first cache file to have (lines 147 to 155).
\* Slip: that of the sections.
SizeWantedSections(mb, ncblk0) == mb.block_pointer_section + ncblk0 * NodeSize
SizeWanted(mb, ncblk0) ==
  mb.block_pointer_section + ncblk0 * NodeSize + mb.cblksize * ncblk0

\* RSC.h:56 and 58, as indexes from the sections
BLOCKHEADERINDEX(mb, loc) == (loc - mb.block_pointer_section) \div NodeSize
BLOCKINDEX(mb, memloc, cblksize) == (memloc - mb.block_section) \div cblksize

=============================================================================
