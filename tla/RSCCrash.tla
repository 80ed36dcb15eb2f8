------------------------------ MODULE RSCCrash ------------------------------
(***************************************************************************)
(* The cache file when the program stops and is started again.             *)
(*                                                                         *)
(* Every step of RSCTable changes the cache file by several calls of       *)
(* Write_cache_off.  mb, hdr and bpn are what the step leaves when it has  *)
(* made them all; file is what the cache file holds.  The program may stop *)
(* between any two, killed or by an assertion, and Init_RSC_table_m then   *)
(* reads the file back.  The writes that were made survive, in their       *)
(* order: what is lost is the process, not the machine (Fsync_cache does   *)
(* nothing).                                                               *)
(*                                                                         *)
(* One call is in progress at a time: RSCTable has the interleavings.      *)
(***************************************************************************)
EXTENDS RSCTable

CONSTANT MaxStops   \* bound: the program is started again so many times

ASSUME StopsAssumption == MaxStops \in Nat

\* mkrcf takes a power of two that is greater than one (isexp2, mkrcf.c:379).
ASSUME BlockSizeAssumption == CBlkSize > 1

VARIABLES
  file,   \* the cache file: master block, headers, block pointers, and bytes,
          \* the file whose data was written to a block since its node took
          \* the file and the offset it has, or NoPath
  run,    \* "up", "down", or the assertion at which the program ended
  stops,  \* how often it was started again
  torn    \* what a stop has left half done: see HalfDone

crashVars == <<vars, file, run, stops, torn>>

-----------------------------------------------------------------------------
(* The cache file and the calls of Write_cache_off.                        *)

Sections == [mb |-> mb, hdr |-> hdr, bpn |-> bpn]

\* File f after write w of a step that leaves the sections as in new.
Write_cache_off(f, w, new) ==
  CASE w[1] = "mb"      -> [f EXCEPT !.mb = new.mb]
    [] w[1] = "hdr"     -> [f EXCEPT !.hdr[w[2]] = new.hdr[w[2]]]
    [] w[1] = "linkHdr" -> [f EXCEPT !.hdr[w[2]].next = w[3]]
    [] w[1] = "link"    -> [f EXCEPT !.bpn[w[2]].next = w[3]]
    [] w[1] = "data"    -> [f EXCEPT !.bytes[w[2]] = w[3]]
    [] w[1] = "bpn"     ->
         LET old == f.bpn[w[2]]
             node == new.bpn[w[2]]
             same == old.fhloc = node.fhloc /\ old.off = node.off
         IN [f EXCEPT !.bpn[w[2]] = node, !.bytes[w[2]] = IF same THEN @ ELSE NoPath]

\* What a stop after k of the writes leaves half done: a free list that goes on
\* past the tail in the master block; a truncation; an insert that has linked
\* the block and not written the header.
HalfDone(writes, k) ==
  {x \in {"list", "cut", "header"} :
     \/ x = "list" /\ \E i \in 1 .. k : writes[i][1] \in {"link", "linkHdr"}
     \/ x = "cut" /\ cut # NoCut
     \/ x = "header" /\ k = 3 /\ writes[2][1] = "data"}

\* File f after the first k of the writes of a step that leaves the sections as
\* in new, for every k.
FilesAfter(f, writes, new) ==
  LET after[k \in 0 .. Len(writes)] ==
        IF k = 0 THEN f ELSE Write_cache_off(after[k - 1], writes[k], new)
  IN after

\* A step of RSCTable with its writes, all of them or those before a stop.
Step(writes) ==
  /\ run = "up"
  /\ \E k \in 0 .. Len(writes) :
       /\ k < Len(writes) => k > 0 /\ stops < MaxStops
       /\ file' = FilesAfter(file, writes, Sections')[k]
       /\ run' = IF k = Len(writes) THEN "up" ELSE "stopped"
       /\ torn' = IF k = Len(writes) THEN torn ELSE torn \cup HalfDone(writes, k)
  /\ UNCHANGED stops

-----------------------------------------------------------------------------
(* The writes of the steps of RSCTable.  <<"link", t, n>> writes the tail  *)
(* t of a free list with n as its next; the other ones write the header    *)
(* or the node as the step leaves it, the master block, or a block's data. *)

\* Slip: the tail is not written.
Return_file_blockWritesUnlinked(b) == <<<<"bpn", b>>, <<"mb">>>>

Return_file_blockWrites(b) ==
  (IF mb.bfl = INVLOC THEN <<>> ELSE <<<<"link", mb.bft, b>>>>)
    \o <<<<"bpn", b>>, <<"mb">>>>

\* Slip: the master block before the header.
Return_file_headerWritesMbFirst(h) ==
  (IF mb.hfl = INVLOC THEN <<>> ELSE <<<<"linkHdr", mb.hft, h>>>>)
    \o <<<<"mb">>, <<"hdr", h>>>>

Return_file_headerWrites(h) ==
  (IF mb.hfl = INVLOC THEN <<>> ELSE <<<<"linkHdr", mb.hft, h>>>>)
    \o <<<<"hdr", h>>, <<"mb">>>>

Alloc_file_headerWrites == <<<<"hdr", mb.hfl>>, <<"mb">>>>

\* Lines 535 to 550 of Insert_RSC_table.  Slips: the header first; the header
\* before the data; the data last.
InsertWritesHeaderFirst(b, p, prev, h) ==
  <<<<"hdr", h>>, <<"bpn", b>>, <<"data", b, p>>>> \o prev

InsertWritesHeaderSecond(b, p, prev, h) ==
  <<<<"bpn", b>>, <<"hdr", h>>, <<"data", b, p>>>> \o prev

InsertWritesDataLast(b, p, prev, h) ==
  <<<<"bpn", b>>>> \o prev \o <<<<"hdr", h>>, <<"data", b, p>>>>

InsertWrites(b, p, prev, h) ==
  <<<<"bpn", b>>, <<"data", b, p>>>> \o prev \o <<<<"hdr", h>>>>

\* The node that becomes the last of its file is written when the last one
\* goes (RSC_m.c:851), then the block is returned.  Slip: it is not.
TruncateWritesReturnOnly(f, i) == Return_file_blockWrites(f.chain[i].loc)

TruncateWrites(f, i) ==
  (IF i = Len(f.chain) /\ i # 1 THEN <<<<"bpn", f.chain[i - 1].loc>>>> ELSE <<>>)
    \o Return_file_blockWrites(f.chain[i].loc)

-----------------------------------------------------------------------------
(* What Init_RSC_table_m reads.                                            *)

\* The locs that a walk along next visits; one more than there are blocks when
\* it does not end.
WalkFrom(first) ==
  LET walkTo[k \in 0 .. NumBlocks] ==
        IF k = 0 THEN IF first = INVLOC THEN <<>> ELSE <<first>>
        ELSE LET locs == walkTo[k - 1]
             IN IF Len(locs) < k \/ file.bpn[locs[k]].next = INVLOC
                THEN locs
                ELSE Append(locs, file.bpn[locs[k]].next)
  IN walkTo[NumBlocks]

HeadersInUse == {h \in Headers : file.hdr[h].nodeHeader # INVLOC}

DiskChain(h) == WalkFrom(file.hdr[h].nodeHeader)

\* RSC_m.c:195; INVLOC fails when a block has more than one byte.
Aligned(off) == off % CBlkSize = 0

\* The headers in use have a path (RSC.c:452), and the walks end and meet only
\* nodes of a file.
Readable ==
  \A h \in HeadersInUse :
    LET locs == DiskChain(h)
    IN /\ file.hdr[h].path # NoPath
       /\ Len(locs) <= NumBlocks
       /\ \A i \in DOMAIN locs : Aligned(file.bpn[locs[i]].off)

\* One node of header h enters table t: the first makes the entry, a node with
\* an offset that the entry has is left out.
Read_cache_to_RSC_table(t, h, b) ==
  LET p == file.hdr[h].path
      node == [loc |-> b, off |-> file.bpn[b].off]
  IN IF p \notin DOMAIN t
     THEN [q \in DOMAIN t \cup {p} |->
             IF q \in DOMAIN t THEN t[q]
             ELSE [loc |-> h, nodeHeader |-> file.hdr[h].nodeHeader,
                   nodeTail |-> file.hdr[h].nodeTail, fileoff |-> file.hdr[h].fileoff,
                   chain |-> <<node>>, sn |-> "listed"]]
     ELSE IF \E i \in DOMAIN t[p].chain : t[p].chain[i].off = node.off
          THEN t
          ELSE [t EXCEPT ![p].chain = Append(@, node)]

Read_cacheNodes(t, h) ==
  LET locs == DiskChain(h)
      read[i \in 0 .. Len(locs)] ==
        IF i = 0 THEN t ELSE Read_cache_to_RSC_table(read[i - 1], h, locs[i])
  IN read[Len(locs)]

\* The table and the stale list after the first k headers of the section, for
\* every k.  A file is appended to the stale list after its nodes.
ReadHeaders ==
  LET read[k \in 0 .. NumHeaders] ==
        IF k = 0 THEN [tab |-> <<>>, stale |-> <<>>]
        ELSE LET old == read[k - 1]
                 p   == file.hdr[k - 1].path
             IN IF k - 1 \notin HeadersInUse THEN old
                ELSE [tab   |-> Read_cacheNodes(old.tab, k - 1),
                      stale |-> IF p \in DOMAIN old.tab THEN old.stale ELSE Append(old.stale, p)]
  IN read

ReadWholeDiskToRSCTable == ReadHeaders[NumHeaders]

-----------------------------------------------------------------------------
CrashInit ==
  /\ Init
  /\ file = [mb |-> mb, hdr |-> hdr, bpn |-> bpn, bytes |-> [b \in Blocks |-> NoPath]]
  /\ run = "up"
  /\ stops = 0
  /\ torn = {}

\* The assertions at 703, 707, 804 and 808 for the file a call removes, evicts
\* or truncates.
TailNamed(p) ==
  LET f == tab[p]
  IN f.nodeTail = (IF f.chain = <<>> THEN INVLOC ELSE Last(f.chain).loc)

Inserts ==
  \E p \in Paths, off \in BlockOffs :
    \/ cut = NoCut /\ InsertNewFile(p, off, CBlkSize) /\ Step(Alloc_file_headerWrites)
    \/ /\ cut = NoCut
       /\ \E flag \in InsertFlags : InsertBlock(p, off, CBlkSize, flag)
       /\ Step(<<>>)
    \/ /\ cut = NoCut
       /\ OverwriteBlock(p, off, off + CBlkSize)
       /\ \E i \in DOMAIN tab[p].chain :
            /\ tab[p].chain[i].off = off
            /\ Step(<<<<"data", tab[p].chain[i].loc, p>>, <<"hdr", tab[p].loc>>>>)

AllocSteps ==
  \/ AllocBlock /\ Step(<<<<"mb">>>>)
  \/ GiveUp /\ Step(IF req.hdr = INVLOC THEN <<>> ELSE Return_file_headerWrites(req.hdr))
  \/ /\ Evict
     /\ TailNamed(Head(stale))
     /\ Step(Return_file_headerWrites(tab[Head(stale)].loc))
  \/ (NoBlockAfterEviction \/ HeadNotListed) /\ Step(<<>>)

LinkSteps ==
  \/ LinkNewFile /\ Step(InsertWrites(req.blk, req.path, <<>>, req.hdr))
  \/ /\ LinkBlock
     /\ LET f == tab[req.path]
            prev == IF f.chain = <<>> THEN <<>> ELSE <<<<"bpn", Last(f.chain).loc>>>>
        IN Step(InsertWrites(req.blk, req.path, prev, f.loc))
  \/ (LinkAborts \/ LinkToEvicted) /\ Step(<<>>)

Removes ==
  \/ \E p \in Paths :
       cut = NoCut /\ Rm(p) /\ TailNamed(p) /\ Step(Return_file_headerWrites(tab[p].loc))
  \/ RmBlock /\ Step(Return_file_blockWrites(walk))
  \/ RmDone /\ Step(<<>>)

Truncates ==
  \/ \E p \in Paths, off \in TruncateOffs :
       TruncateStart(p, off) /\ TailNamed(p) /\ Step(<<>>)
  \/ /\ TruncateBlock
     /\ \E i \in CutNodes : CutBlock(i) /\ Step(TruncateWrites(tab[cut.path], i))
  \/ TruncateDone /\ Step(<<<<"hdr", tab[cut.path].loc>>>>)

OpensAndCloses ==
  /\ \/ AppendStep
     \/ /\ cut = NoCut
        /\ \E p \in Paths : \/ Append_to_stale_list(p) \/ Rm_file_from_stale_list(p)
                            \/ NodeNotListed(p)
  /\ Step(<<>>)

\* The program stops at the assertion on nodeTail.
TailAsserts ==
  /\ run = "up" /\ cut = NoCut
  /\ \/ pc = "idle" /\ \E p \in DOMAIN tab : ~TailNamed(p)
     \/ /\ pc = "alloc" /\ mb.bfl = INVLOC /\ stale # <<>>
        /\ ~TailNamed(Head(stale))
  /\ run' = "line703"
  /\ UNCHANGED <<vars, file, stops, torn>>

-----------------------------------------------------------------------------
\* The process is gone and with it its memory: killed between two steps, or
\* inside one, or at an assertion.  (Destory_RSC_table_m writes nothing either:
\* an orderly end is a Kill at pc = "idle".)
Kill ==
  /\ stops < MaxStops
  /\ run \in {"up", "stopped", "line703"}
  /\ run' = "down"
  /\ stops' = stops + 1
  /\ torn' = IF cut = NoCut THEN torn ELSE torn \cup {"cut"}
  /\ mb' = file.mb /\ hdr' = file.hdr /\ bpn' = file.bpn
  /\ tab' = <<>> /\ stale' = <<>>
  /\ pc' = "idle" /\ req' = NoReq /\ walk' = INVLOC /\ cut' = NoCut
  /\ UNCHANGED file

\* The table and the stale list are made from the file; an assertion stops the
\* program when they cannot be, or it reads for ever.
Init_RSC_table_m ==
  /\ run = "down"
  /\ IF Readable
     THEN /\ tab' = ReadWholeDiskToRSCTable.tab
          /\ stale' = ReadWholeDiskToRSCTable.stale
          /\ run' = "up"
     ELSE run' = "line195" /\ UNCHANGED <<tab, stale>>
  /\ UNCHANGED <<disk, pc, req, walk, cut, file, stops, torn>>

CrashNext ==
  \/ Inserts \/ AllocSteps \/ LinkSteps \/ Removes \/ Truncates
  \/ OpensAndCloses \/ TailAsserts
  \/ Kill \/ Init_RSC_table_m

CrashSpec == CrashInit /\ [][CrashNext]_crashVars

-----------------------------------------------------------------------------
(* Properties.  A start that finds a truncation half done is checked, but   *)
(* what the program does after it is not (Explored in MCRSCCrash).          *)

\* The variables have their types.
CrashTypeOK ==
  /\ TypeOK
  /\ file.bytes \in [Blocks -> Paths \cup {NoPath}]
  /\ run \in {"up", "stopped", "line703", "down", "line195"}
  /\ stops \in 0 .. MaxStops
  /\ torn \subseteq {"list", "cut", "header"}

\* What the calls have done in memory is in the cache file when their writes
\* are made: no step changes a header or a node that it does not write.
FileComplete ==
  run = "up" => Sections = [mb |-> file.mb, hdr |-> file.hdr, bpn |-> file.bpn]

Settled == cut = NoCut /\ torn \cap {"list", "cut"} = {}

\* The program can be started again after a stop, unless the stop was in a
\* truncation or between the first two writes of Return_file_block or
\* Return_file_header: the walk of no header comes to a block that is free.
Restartable == Settled => Readable

\* The assertions of RSC_m.c:703 and 804 fail after a start only when the stop
\* was in a truncation, or in Insert_RSC_table between the write of the node
\* before the new one and the write of the header.  (This is for one stop: when
\* a second follows one in half of a return to a free list, the block it left
\* in that list and in a file may be in two files, and TailsNamed may fail.)
TailsNamed ==
  run = "up" /\ cut = NoCut /\ torn \cap {"header", "cut"} = {} =>
    \A p \in DOMAIN tab : TailNamed(p)

\* A block that a cached file has holds that file's data, whatever step was
\* interrupted, and so does every block that a start would read.  (Two stops
\* may leave a header with another file's name: see torn.)
OwnBytes ==
  /\ run = "up" =>
       \A p \in DOMAIN tab : \A b \in ChainLocs(p) : file.bytes[b] = p
  /\ "list" \notin torn =>
       \A h \in HeadersInUse : \A b \in Range(DiskChain(h)) :
         file.bpn[b].fhloc # INVLOC => file.bytes[b] = file.hdr[h].path

FileFree == ListFrom(file.mb.bfl, [b \in Blocks |-> file.bpn[b].next])
FileFreeHeaders == ListFrom(file.mb.hfl, [h \in Headers |-> file.hdr[h].next])
FileBlocks == UNION {Range(DiskChain(h)) : h \in HeadersInUse}

\* No block is in two cached files, whatever step was interrupted; and in the
\* cache file no block and no header is both free and used.
NoSharing ==
  /\ \A p, q \in DOMAIN tab : p # q => ChainLocs(p) \cap ChainLocs(q) = {}
  /\ Settled => /\ FileBlocks \cap FileFree = {}
                /\ HeadersInUse \cap FileFreeHeaders = {}

\* What a stop loses for good: the blocks that the interrupted call had in hand,
\* and one that a step was moving; of the headers likewise, and those of the
\* files that a truncation has left without a block, which no start reads.
StopLosesInHand ==
  stops = 0 =>
    LET moving == IF run = "stopped" THEN 1 ELSE 0
        blocks == {req.blk} \cup RemovedBlocks
                    \cup (IF cut = NoCut THEN {} ELSE ChainLocs(cut.path))
        headers == {req.hdr} \cup {tab[p].loc : p \in {q \in DOMAIN tab : tab[q].chain = <<>>}}
    IN /\ Cardinality(Blocks \ (FileBlocks \cup FileFree \cup blocks)) <= moving
       /\ Cardinality(Headers \ (HeadersInUse \cup FileFreeHeaders \cup headers)) <= moving

=============================================================================
