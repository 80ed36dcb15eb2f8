------------------------------ MODULE RSCData ------------------------------
(***************************************************************************)
(* The bytes of the cached files, from rsc.conf and mkrcf to the reads     *)
(* that the cache answers (RSC_m.c, RSC.c, mkrcf.c).                       *)
(*                                                                         *)
(* A byte of the cache file is a byte of a file as the NAS has it now, or  *)
(* Old: anything else.  One call runs at a time, no file is on the stale   *)
(* list, there are headers for all files, and mkrcf is not run while the   *)
(* program does: RSCTable and RSCEntry have the rest.  The file system     *)
(* that calls the cache is not part of this repository: a user's write     *)
(* goes to the NAS and then, OVERWRITTEN_F, to the cache; a read that      *)
(* misses is answered by the NAS and then inserted, KEEPCURRENT_F, rounded *)
(* to whole blocks; truncations and removals likewise.                     *)
(***************************************************************************)
EXTENDS RSCFormat, FiniteSetsExt, Functions

CONSTANTS
  Paths,      \* the files
  Confs,      \* the texts that rsc.conf has, one after another
  Texts,      \* the texts on which readrscconf is compared with its reference
  MaxLen,     \* bound: bytes in a file on the NAS
  MaxStarts,  \* bound: starts of the program
  Old, None

\* A text of rsc.conf: lines of a key and a numeral, with a # before them, after
\* them or none.
Text == [lines : Seq([key : STRING, val : Nat, hash : {"no", "before", "after"}]),
         ended : BOOLEAN]

ASSUME DataAssumption ==
  /\ Confs \cup Texts \subseteq Text
  /\ MaxLen \in Nat
  /\ None \notin [path : Paths, off : Nat]

VARIABLES
  nas,    \* lengths of the files on the NAS
  cf,     \* the cache file, None before mkrcf has made one
  run,    \* "down", "up", or the line that stopped the program
  blksz,  \* RSCBLKSIZE of the running program
  starts, \* how often it was started
  ran,    \* the RSCBLKSIZE with which it has run since mkrcf
  odd     \* what may make reads of a file disagree with the NAS: "no", "absent" (a
          \* write in a block that was not cached) or "other"

vars == <<nas, cf, run, blksz, starts, ran, odd>>

\* cf: its master block; the size of CACHE_FILE, whether there is a CACHE_FILE1,
\* and whether mkrcf returned 0; the blocks meant for CACHE_FILE1; the file and
\* offset that a node has; the free nodes in their order; fileoff of the files
\* that are cached; the bytes of the blocks, from that of block 0 on.
Nodes == DOMAIN cf.node
NodesOf(p) == {i \in Nodes : cf.node[i] # None /\ cf.node[i].path = p}
Cached(p) == cf.len[p] # -1

Init ==
  /\ nas = [p \in Paths |-> 0]
  /\ cf = None
  /\ run = "down"
  /\ blksz = 0
  /\ starts = 0
  /\ ran = {} /\ odd = [p \in Paths |-> "no"]

-----------------------------------------------------------------------------
(* mkrcf.                                                                  *)

\* What the texts say.
ConfOf == [text \in Confs |-> readrscconf(text)]

\* The cache file that create_cmfile_with_data writes.
Formatted(c, n0, n1, size, second) ==
  [mb |-> Layout(n0 + n1, NumFilesFor(n0 + n1), c.cblksize),
   size |-> size, second |-> second, ncblk1 |-> n1, ok |-> TRUE,
   node |-> [i \in 0 .. n0 + n1 - 1 |-> None],
   free |-> [k \in 1 .. n0 + n1 |-> k - 1],
   len |-> [p \in Paths |-> -1],
   bytes |-> [a \in 0 .. (n0 + n1) * c.cblksize - 1 |-> Old]]

\* mkrcf with -rh: the sections are written over what is there, and then it is
\* an error if CACHE_FILE does not have the size it wants.
ReformattedHeads(c, n0, n1) ==
  LET mb == Layout(n0 + n1, NumFilesFor(n0 + n1), c.cblksize)
      size == IF cf # None /\ cf.size > SectionsSize(n0 + n1, NumFilesFor(n0 + n1))
              THEN cf.size
              ELSE SectionsSize(n0 + n1, NumFilesFor(n0 + n1))
  IN [Formatted(c, n0, n1, size, cf # None /\ cf.second) EXCEPT
        !.ok = size = SizeWanted(mb, n0)]

\* mkrcf with no option or with -r writes everything, unless it finds the cache
\* file and has no option.
FormattedWhole(c, n0, n1) ==
  Formatted(c, n0, n1,
            SectionsSize(n0 + n1, NumFilesFor(n0 + n1)) + c.cblksize * n0,
            n1 > 0 \/ (cf # None /\ cf.second))

Mkrcf(text, flag) ==
  LET c == ConfOf[text]
      n0 == NumBlocksFor(c.size, c.cblksize)
      n1 == NumBlocksFor(c.size1, c.cblksize)
      there == cf # None /\ (n1 = 0 \/ cf.second)
  IN /\ c.cmfile /\ isexp2[c.cblksize]
     /\ ((c.size + c.size1) * Giga) % c.cblksize = 0
     /\ n0 + n1 > 0
     /\ ~(flag = "none" /\ there)
     /\ cf' = IF flag = "-rh" THEN ReformattedHeads(c, n0, n1) ELSE FormattedWhole(c, n0, n1)
     /\ ran' = {} /\ odd' = [p \in Paths |-> "no"]
     /\ UNCHANGED <<nas, run, blksz, starts>>

-----------------------------------------------------------------------------
(* The start of the program and its end.                                   *)

Memloc(i) == NodeMemloc(cf.mb, Cardinality(Nodes), i)

\* The assertions on the nodes that Read_cache_to_RSC_table is given.  Slip:
\* only the offset is looked at.
NodeFitsOffset(i, b) == cf.node[i].off % b = 0
NodeFits(i, b) ==
  cf.node[i].off % b = 0 /\ (Memloc(i) - cf.mb.block_section) % b = 0

\* Init_RSC_table_m: RSCBLKSIZE is what rsc.conf says now.  logMB divides by it.
Init_RSC_table_m(text) ==
  LET b == ConfOf[text].cblksize IN
  /\ cf # None /\ b >= 0 /\ starts < MaxStarts
  /\ starts' = starts + 1
  /\ blksz' = b
  /\ run' = IF b = 0 THEN "line58"
            ELSE IF \E i \in Nodes : cf.node[i] # None /\ ~NodeFits(i, b)
                 THEN "line195" ELSE "up"
  /\ ran' = ran \cup {b}
  /\ odd' = [p \in Paths |-> IF Cached(p) /\ ~(ran \subseteq {b}) THEN "other" ELSE odd[p]]
  /\ UNCHANGED <<nas, cf>>

\* The end of the program, or of the process that an assertion has stopped
\* before it has written anything.  RSCCrash has the other stops.
Destory_RSC_table_m ==
  /\ run \in {"up", "line58", "line195", "line191"}
  /\ run' = "down" /\ blksz' = 0
  /\ UNCHANGED <<nas, cf, starts, ran, odd>>

-----------------------------------------------------------------------------
(* The cached bytes.                                                       *)

\* The assertion of Alloc_file_block and Return_file_block.
IndexFits(i) ==
  BLOCKHEADERINDEX(cf.mb, NodeLoc(cf.mb, i)) = BLOCKINDEX(cf.mb, Memloc(i), blksz)

\* The assertion of Write_cache_off: a write of n bytes to block i ends within
\* the capacity of the cache file.
WriteFits(i, n) == Memloc(i) + n <= cf.mb.capacity

\* Write_cache_off of bytes off to off + len - 1 of file p, from place a of the
\* block section on: CACHE_FILE is extended by a write past its end,
BytesWith(bytes, a, p, off, len) ==
  [x \in DOMAIN bytes \cup a .. a + len - 1 |->
     IF x \in a .. a + len - 1 THEN <<p, off + x - a>> ELSE bytes[x]]

\* which is its size then.
SizeWith(i, len) == IF cf.size < Memloc(i) + len THEN Memloc(i) + len ELSE cf.size

\* fileoff after an Insert that ends at end.
LenWith(p, end) == [cf.len EXCEPT ![p] = IF @ < end THEN end ELSE @]

Blockoff(off) == off - (off % blksz)

\* Insert_RSC_table when the block is not cached and one is free: it is taken,
\* linked, and the data written to its beginning.  The length is taken from
\* the beginning of the block, too.
InsertBlock(f, p, off, len) ==
  LET i == Head(f.free)
      a == i * f.mb.cblksize
  IN [f EXCEPT !.free = Tail(@),
               !.node[i] = [path |-> p, off |-> Blockoff(off)],
               !.len = LenWith(p, Blockoff(off) + len),
               !.size = SizeWith(i, len),
               !.bytes = BytesWith(@, a, p, off, len)]

\* The assertions of Alloc_file_block, of Insert_RSC_table (line 350) and of its
\* write of len bytes to the block's beginning (RSC.c:83).
InsertStop(f, len) ==
  LET i == Head(f.free) IN
  IF ~IndexFits(i) THEN "line191"
  ELSE IF (Memloc(i) - f.mb.block_section) % blksz # 0 THEN "line350"
  ELSE IF ~WriteFits(i, len) THEN "line83"
  ELSE "up"

\* The node that Block_tab_lookup finds, if there is one.
Lookup(p, off) == {i \in NodesOf(p) : cf.node[i].off = Blockoff(off)}

\* The bytes that the NAS changes are no longer what the cache has.
Outdated(f, p, from, to) ==
  [f EXCEPT !.bytes = [x \in DOMAIN @ |->
     IF @[x] # Old /\ @[x][1] = p /\ @[x][2] \in from .. to - 1 THEN Old ELSE @[x]]]

-----------------------------------------------------------------------------
(* The calls of the file system.                                           *)

\* A block that was read from the NAS.
InsertCurrent(p, off) ==
  LET len == IF nas[p] - off < blksz THEN nas[p] - off ELSE blksz IN
  /\ off % blksz = 0 /\ off < nas[p]
  /\ Lookup(p, off) = {} /\ cf.free # <<>>
  /\ run' = InsertStop(cf, len)
  /\ cf' = IF run' = "up" THEN InsertBlock(cf, p, off, len) ELSE cf
  /\ UNCHANGED <<nas, blksz, starts, ran, odd>>

\* A user's write.  Slip: the present block is written at its beginning.
OverwriteAtStart(p, i, off, len) ==
  [cf EXCEPT !.len = LenWith(p, off + len),
             !.bytes = BytesWith(Outdated(cf, p, off, off + len).bytes,
                                 i * cf.mb.cblksize, p, off, len)]

\* Lines 411 to 422: the present block is written at left.
Overwrite(p, i, off, len) ==
  [cf EXCEPT !.len = LenWith(p, off + len),
             !.bytes = BytesWith(Outdated(cf, p, off, off + len).bytes,
                                 i * cf.mb.cblksize + (off % blksz), p, off, len)]

\* A file whose block is not cached, or whose cached length ends before the
\* write, may be read wrongly from then on.
OddAfter(p, off) ==
  IF ~Cached(p) \/ odd[p] = "other" THEN odd[p]
  ELSE IF off > cf.len[p] THEN "other"
  ELSE IF Lookup(p, off) = {} THEN "absent" ELSE odd[p]

Write(p, off, len) ==
  LET outdated == Outdated(cf, p, off, off + len) IN
  /\ off + len <= MaxLen
  /\ Blockoff(off) + blksz >= off + len
  /\ nas' = [nas EXCEPT ![p] = IF @ < off + len THEN off + len ELSE @]
  /\ odd' = [odd EXCEPT ![p] = OddAfter(p, off)]
  /\ \/ /\ ~Cached(p) \/ (Lookup(p, off) = {} /\ cf.free = <<>>)
        /\ cf' = outdated /\ UNCHANGED run
     \/ /\ Cached(p)
        /\ \E i \in Lookup(p, off) :
             /\ run' = IF WriteFits(i, (off % blksz) + len) THEN "up" ELSE "line83"
             /\ cf' = IF run' = "up" THEN Overwrite(p, i, off, len) ELSE outdated
     \/ /\ Cached(p) /\ Lookup(p, off) = {} /\ cf.free # <<>>
        /\ run' = InsertStop(cf, len)
        /\ cf' = IF run' = "up" THEN InsertBlock(outdated, p, off, len) ELSE outdated
  /\ UNCHANGED <<blksz, starts, ran>>

\* Return_file_block for the nodes in order.  Slip: they keep their file.
ReturnedOwned(f, order) == [f EXCEPT !.free = @ \o order]
Returned(f, order) ==
  [f EXCEPT !.node = [i \in DOMAIN @ |-> IF i \in ToSet(order) THEN None ELSE @[i]],
            !.free = @ \o order]

\* The nodes that a truncation to off removes are returned in any order.  The
\* assertion of Return_file_block may stop it.
Return(f, gone, off) ==
  IF \A i \in gone : IndexFits(i)
  THEN /\ \E order \in SetToSeqs(gone) : cf' = Returned(f, order)
       /\ UNCHANGED run
  ELSE cf' = f /\ run' = "line116"

\* fileoff after a truncation to off.  Slip: it stays.
LenCutNot(p, off) == cf.len
LenCut(p, off) == [cf.len EXCEPT ![p] = off]

\* Truncate_file_block_table does nothing when the cached length is less.
Truncate_file_block_table(p, off) ==
  LET outdated == Outdated(cf, p, off, MaxLen)
      gone == {i \in NodesOf(p) : cf.node[i].off > off}
  IN /\ 0 < off /\ off <= MaxLen /\ off # nas[p]
     /\ nas' = [nas EXCEPT ![p] = off]
     /\ odd' = [odd EXCEPT ![p] = IF Cached(p) /\ off > nas[p] THEN "other" ELSE @]
     /\ IF cf.len[p] < off
        THEN cf' = outdated /\ UNCHANGED run
        ELSE Return([outdated EXCEPT !.len = LenCut(p, off)], gone, off)
     /\ UNCHANGED <<blksz, starts, ran>>

\* Removal, and truncation to nothing.
Rm_file_block_table(p) ==
  /\ nas[p] > 0
  /\ nas' = [nas EXCEPT ![p] = 0]
  /\ odd' = [odd EXCEPT ![p] = "no"]
  /\ Return([Outdated(cf, p, 0, MaxLen) EXCEPT !.len[p] = -1], NodesOf(p), 0)
  /\ UNCHANGED <<blksz, starts, ran>>

-----------------------------------------------------------------------------
(* Read_RSC_table.                                                         *)

\* What it returns for len bytes from off, which lie in one block.
ReadLen(p, off, len) ==
  IF off <= cf.len[p] /\ off + len > cf.len[p] THEN cf.len[p] - off ELSE len

\* The places of the bytes that a read finds in node i
ReadFrom(p, i, off, len) ==
  LET a == i * cf.mb.cblksize + (off % blksz) IN a .. a + ReadLen(p, off, len) - 1

-----------------------------------------------------------------------------
Next ==
  \/ run = "down" /\ \E text \in Confs :
       \/ \E flag \in {"none", "-r", "-rh"} : Mkrcf(text, flag)
       \/ Init_RSC_table_m(text)
  \/ Destory_RSC_table_m
  \/ run = "up" /\ \E p \in Paths :
       \/ Rm_file_block_table(p)
       \/ \E off \in 0 .. MaxLen :
            \/ InsertCurrent(p, off)
            \/ \E len \in 1 .. blksz : Write(p, off, len)
            \/ Truncate_file_block_table(p, off)

Spec == Init /\ [][Next]_vars

-----------------------------------------------------------------------------
(* Properties.                                                             *)

\* Every variable has its type, and every node is free or has a cached file,
\* one of them.
DataTypeOK ==
  /\ nas \in [Paths -> 0 .. MaxLen] /\ odd \in [Paths -> {"no", "absent", "other"}]
  /\ run \in {"down", "up", "line58", "line195", "line191", "line350", "line83", "line116"}
  /\ cf # None =>
       /\ cf.len \in [Paths -> -1 .. MaxLen]
       /\ run # "line116" =>
            /\ IsInjective(cf.free)
            /\ ToSet(cf.free) = {i \in Nodes : cf.node[i] = None}
            /\ \A i \in Nodes : cf.node[i] # None => Cached(cf.node[i].path)

\* Every read of file p that the cache answers, and that begins no further than
\* the cached length, returns what the NAS has.
Agrees(p) ==
  \A off \in 0 .. cf.len[p] : \A len \in 1 .. blksz - (off % blksz) :
    \A i \in Lookup(p, off) : \A a \in ReadFrom(p, i, off, len) :
      cf.bytes[a] = <<p, off + a - (i * cf.mb.cblksize + (off % blksz))>>

\* The cache answers reads with what the NAS has, unless the file was written in
\* a block that was not cached or past its cached length, was extended by a
\* truncation, or was in the cache when RSCBLKSIZE changed (RSC_m.c:281 to 423,
\* 560 to 617, 762 to 876).
ReadsAgree ==
  run = "up" => \A p \in Paths : odd[p] = "no" => Agrees(p)

\* RSC_m.c:314: nothing is done for a write to a block that is not present, so
\* that such a write makes no read disagree.
WritesOnlyPresent ==
  run = "up" => \A p \in Paths : odd[p] # "other" => Agrees(p)

\* A read that the cache answers, and that begins no further than the file's end,
\* returns as many bytes as the file has from there on in the block: never fewer,
\* which a reader would take for the end of the file, and never bytes past it.
\* So the cached length, of which a file has one whatever blocks of it are cached
\* and in whichever order they came, is right for each of them; excepted are the
\* files that ReadsAgree excepts.  A read that begins past the end is not covered:
\* line 591 sets ret to 0 for it, line 613 sets it to len again, and what the
\* block holds is returned (RSC_m.c:369, 399, 416, 589 to 613, 809).
ReadsFullLength ==
  run = "up" => \A p \in Paths : odd[p] = "no" =>
    \A off \in 0 .. nas[p] : \A len \in 1 .. blksz - (off % blksz) :
      Lookup(p, off) # {} =>
        ReadLen(p, off, len) = IF off + len > nas[p] THEN nas[p] - off ELSE len

\* The bytes that two used nodes name are apart while the program runs, with
\* whatever RSCBLKSIZE it was started (RSC.c:116, 191, RSC_m.c:195, 217).
BlocksApart ==
  run = "up" =>
    \A i, j \in Nodes :
      i < j /\ cf.node[i] # None /\ cf.node[j] # None
        => Memloc(i) + blksz <= Memloc(j)

\* No assertion on a block's place, or on the end of what is written to it, fails
\* unless the program has run, since mkrcf, with an RSCBLKSIZE that is not the
\* block size of the cache file (RSC_m.c:195, 217, 350, RSC.c:83, 116, 191).
StopsOnOtherBlockSize ==
  run \notin {"down", "up"} => ~(ran \subseteq {cf.mb.cblksize})

\* When mkrcf has returned 0 for one cache file, it has all bytes up to the
\* capacity in its master block (mkrcf.c:145 to 160, 250).
FormatComplete ==
  cf # None /\ cf.ok /\ cf.ncblk1 = 0 => cf.size >= cf.mb.capacity

\* Reference for readrscconf: the value of a key is that of its last line that
\* is neither commented out nor cut off, as an int; 0 if there is none.
Value(text, key) ==
  LET n == Len(text.lines)
      whole == IF text.ended \/ (n > 0 /\ text.lines[n].hash = "after") THEN n ELSE n - 1
      at == {k \in 1 .. whole : text.lines[k].key = key /\ text.lines[k].hash # "before"}
      int == {v \in -(IntMax + 1) .. IntMax :
                at # {} /\ (v - text.lines[Max(at)].val) % (2 * (IntMax + 1)) = 0}
  IN IF at = {} THEN 0 ELSE CHOOSE v \in int : TRUE

\* readrscconf reads every text as the reference does (util.c:79 to 236); looked
\* at before there is a cache file.
ConfAsReference ==
  cf = None => \A text \in Texts :
    LET c == readrscconf(text) IN
    /\ c.cblksize = Value(text, "CBLKSIZE")
    /\ c.size = Value(text, "CACHESIZE")
    /\ c.size1 = Value(text, "1CACHESIZE")

=============================================================================
