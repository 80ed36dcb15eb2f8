------------------------------ MODULE RSCTable ------------------------------
(***************************************************************************)
(* The read-side cache: the cache file's free lists of file headers and of *)
(* block pointers (RSC.c), the table of cached files in memory, and the    *)
(* list of stale files that eviction takes from (RSC_m.c).                 *)
(*                                                                         *)
(* Several calls may be in progress at once, as the mutexes of the code    *)
(* allow: one that holds g_RSC_table_m->mt from its first step to its last *)
(* (Insert_RSC_table, Rm_file_block_table), whose steps pc follows; one    *)
(* Truncate_file_block_table past line 791, where it has given that mutex  *)
(* up (cut); and any number of Append_to_stale_list past line 916 (the     *)
(* files whose sn is "alone"), which link their node under g_stale_list.mt.*)
(* The first two meet on the free lists, where one step is one critical    *)
(* section of g_RSC_freelist_mt.                                           *)
(*                                                                         *)
(* A loc of the code is a byte offset into the cache file; here it is the  *)
(* index of the header or of the block that BLOCKHEADERINDEX and           *)
(* HEADERINDEX compute from it.  A block pointer and its cache block have  *)
(* the same index (the assertion of RSC.c:116), so memloc is left out.     *)
(***************************************************************************)
EXTENDS Integers, Sequences, FiniteSets, SequencesExt

CONSTANTS
  NumBlocks,      \* cache blocks mkrcf formats (ncblk0 + ncblk1)
  NumHeaders,     \* file headers mkrcf formats (nfile)
  Paths,          \* file names
  NoPath,         \* stands for "no file"
  CBlkSize,       \* RSCBLKSIZE, the size of a cache block
  MaxFileBlocks,  \* bound: a file has at most this many blocks
  TruncateOffs,   \* bound: the positive offsets files are truncated to
  AnyOrder        \* FALSE: a file's blocks arrive front to back, as the
                  \* prefetch workers copy them; TRUE: in any order, as the
                  \* writes and the reads of a user send them

ASSUME RSCAssumption ==
  /\ NumBlocks \in Nat \ {0}
  /\ NumHeaders \in Nat \ {0}
  /\ CBlkSize \in Nat \ {0}
  /\ MaxFileBlocks \in Nat \ {0}
  /\ NoPath \notin Paths
  /\ TruncateOffs \subseteq Nat \ {0}
  /\ AnyOrder \in BOOLEAN

INVLOC  == -1
Blocks  == 0 .. (NumBlocks - 1)
Headers == 0 .. (NumHeaders - 1)
BlockOffs == {k * CBlkSize : k \in 0 .. (MaxFileBlocks - 1)}
FileOffs == 0 .. (MaxFileBlocks * CBlkSize)
InsertFlags == {"KEEPCURRENT_F", "OVERWRITTEN_F"}

\* Where the program stops: PX_ASSERT fails at 348 or 482, or at 359, or the
\* assertion of mapx.cpp:300; 338 reads a stale node that has no file yet (as
\* does 473); or it uses a table entry that was freed or that another thread
\* is changing.
Failures == {"line348", "line359", "line300", "line338", "usedAfterFree", "race"}

\* fbt->sn: NULL, allocated by an append that has not linked it yet (sn->fbt is
\* NULL), or linked to the list.
StaleNode == {"null", "alone", "listed"}

VARIABLES
  mb,     \* MasterBlock: heads and tails of the two free lists
  hdr,    \* the FileHeader section of the cache file
  bpn,    \* the BlockPointerNode section of the cache file
  tab,    \* g_RSC_table_m->tab: the cached files
  stale,  \* g_stale_list, oldest file first
  pc,     \* step of the call that holds g_RSC_table_m->mt, or "idle"
  req,    \* the arguments and allocations of Insert_RSC_table
  walk,   \* i of Rm_file_block_table_fbt: next block to return
  cut     \* the Truncate_file_block_table in progress

disk == <<mb, hdr, bpn>>
vars == <<mb, hdr, bpn, tab, stale, pc, req, walk, cut>>

NoReq == [path |-> NoPath, off |-> INVLOC, end |-> 0,
          flag |-> "KEEPCURRENT_F", hdr |-> INVLOC, blk |-> INVLOC]
NoCut == [path |-> NoPath, off |-> 0]

FreeNode == [next |-> INVLOC, fhloc |-> INVLOC, off |-> INVLOC]
FreeHeader(p) == [path |-> p, next |-> INVLOC, nodeHeader |-> INVLOC,
                  nodeTail |-> INVLOC, fileoff |-> INVLOC]

\* One PX_ASSERT has failed or a freed entry was used: nothing runs any more.
Running == pc \notin Failures

-----------------------------------------------------------------------------
(* The free lists.  Both are FIFO lists threaded through the nodes' next,  *)
(* with head and tail in the master block.                                 *)

\* The master block, and the block pointers, after Return_file_block(b).
MbWithBlock(m, b) ==
  [m EXCEPT !.bfl = IF m.bfl = INVLOC THEN b ELSE @, !.bft = b]

\* Slips: the tail is not linked to the block; the block keeps its file.
NodesWithFreeUnlinked(m, nodes, b) == [nodes EXCEPT ![b] = FreeNode]

NodesWithFreeOwned(m, nodes, b) ==
  IF m.bfl = INVLOC
  THEN [nodes EXCEPT ![b].next = INVLOC]
  ELSE [nodes EXCEPT ![m.bft].next = b, ![b].next = INVLOC]

NodesWithFree(m, nodes, b) ==
  IF m.bfl = INVLOC
  THEN [nodes EXCEPT ![b] = FreeNode]
  ELSE [nodes EXCEPT ![m.bft].next = b, ![b] = FreeNode]

Return_file_block(b) ==
  /\ mb' = MbWithBlock(mb, b)
  /\ bpn' = NodesWithFree(mb, bpn, b)

\* Slip: the tail still names the last block when the list has become empty.
Alloc_file_blockKeepsTail ==
  /\ mb.bfl # INVLOC
  /\ mb' = [mb EXCEPT !.bfl = bpn[mb.bfl].next]
  /\ req' = [req EXCEPT !.blk = mb.bfl]

\* The block is only taken off the list; its node on disk is written when it
\* is linked to a file.
Alloc_file_block ==
  /\ mb.bfl # INVLOC
  /\ LET next == bpn[mb.bfl].next
     IN mb' = [mb EXCEPT !.bfl = next, !.bft = IF next = INVLOC THEN INVLOC ELSE @]
  /\ req' = [req EXCEPT !.blk = mb.bfl]

\* The path is erased only when the free list is not empty (RSC.c:235).
Return_file_header(h, p) ==
  /\ mb' = [mb EXCEPT !.hfl = IF mb.hfl = INVLOC THEN h ELSE @, !.hft = h]
  /\ hdr' = IF mb.hfl = INVLOC
            THEN [hdr EXCEPT ![h] = FreeHeader(p)]
            ELSE [hdr EXCEPT ![mb.hft].next = h, ![h] = FreeHeader(NoPath)]

Alloc_file_header(p) ==
  /\ mb.hfl # INVLOC
  /\ LET next == hdr[mb.hfl].next
     IN mb' = [mb EXCEPT !.hfl = next, !.hft = IF next = INVLOC THEN INVLOC ELSE @]
  /\ hdr' = [hdr EXCEPT ![mb.hfl].path = p]

-----------------------------------------------------------------------------
(* The table of cached files.  chain is the doubly linked list of a file's *)
(* BlockPointerNode_m from fbt->header to fbt->tail, which holds the same  *)
(* nodes as the hash map fbt->tab.                                         *)

Offs(p) == {tab[p].chain[i].off : i \in DOMAIN tab[p].chain}

\* The header that is written to disk for a file of the table.
HeaderOf(p, f) == [path |-> p, next |-> INVLOC, nodeHeader |-> f.nodeHeader,
                   nodeTail |-> f.nodeTail, fileoff |-> f.fileoff]

Grow(old, new) == IF old < new THEN new ELSE old

\* Insert_RSC_table appends block b, with the file's data from off up to end.
WithBlock(f, b, off, end) ==
  [f EXCEPT !.chain = Append(@, [loc |-> b, off |-> off]),
            !.nodeHeader = IF f.chain = <<>> THEN b ELSE @,
            !.nodeTail = b,
            !.fileoff = Grow(@, end)]

\* Slip: the node before the new one is not written.
NodesWithLinkAlone(f, b, off) ==
  [bpn EXCEPT ![b] = [next |-> INVLOC, fhloc |-> f.loc, off |-> off]]

NodesWithLink(f, b, off) ==
  LET node == [next |-> INVLOC, fhloc |-> f.loc, off |-> off]
  IN IF f.chain = <<>>
     THEN [bpn EXCEPT ![b] = node]
     ELSE [bpn EXCEPT ![b] = node, ![Last(f.chain).loc].next = b]

\* Slip: nodeTail is left as it was when the last node goes.
WithoutNodeOldTail(f, i) ==
  LET rest == RemoveAt(f.chain, i)
  IN [f EXCEPT !.chain = rest,
               !.nodeHeader = IF rest = <<>> THEN INVLOC
                              ELSE IF i = 1 THEN rest[1].loc ELSE @]

\* Truncate_file_block_table unlinks the i-th node of the list.  The next of
\* the node before it is written only when the last node goes.
WithoutNode(f, i) ==
  LET rest == RemoveAt(f.chain, i)
  IN [f EXCEPT !.chain = rest,
               !.nodeHeader = IF rest = <<>> THEN INVLOC
                              ELSE IF i = 1 THEN rest[1].loc ELSE @,
               !.nodeTail = IF rest = <<>> THEN INVLOC
                            ELSE IF i = Len(f.chain) THEN Last(rest).loc ELSE @]

NodesWithoutLast(f, i) ==
  IF i = Len(f.chain) /\ i # 1
  THEN [bpn EXCEPT ![f.chain[i - 1].loc].next = INVLOC]
  ELSE bpn

\* Slip: the file's node stays on the list.
LeaveStaleListLater(p) == stale' = stale

\* Rm_node_stale_file, when the file has a stale node.  Its assertion wants a
\* node that is linked.
LeaveStaleList(p) ==
  /\ tab[p].sn # "alone"
  /\ IF tab[p].sn = "listed"
     THEN \E i \in DOMAIN stale : stale[i] = p /\ stale' = RemoveAt(stale, i)
     ELSE stale' = stale

\* Rm_file_block_table_fbt up to its loop: the file leaves the table and the
\* stale list, its header goes back, its blocks are returned from now on.
RemoveFile(p) ==
  /\ tab' = [q \in DOMAIN tab \ {p} |-> tab[q]]
  /\ LeaveStaleList(p)
  /\ Return_file_header(tab[p].loc, p)
  /\ walk' = tab[p].nodeHeader
  /\ pc' = "rm"
  /\ UNCHANGED bpn

\* No other thread is inside Truncate_file_block_table for this file.
Untouched(p) == p # cut.path

\* The orders in which blocks arrive (AnyOrder above).  Slip: the workers take
\* the blocks of a file as they come.
ArrivesUnordered(p, off) == TRUE

Arrives(p, off) == AnyOrder \/ \A o \in Offs(p) : o < off

-----------------------------------------------------------------------------
\* mkrcf links the n nodes of a section in their order.  Slip: the last one
\* too.
NextLocPastEnd(i, n) == IF i < n THEN i + 1 ELSE INVLOC

NextLoc(i, n) == IF i < n - 1 THEN i + 1 ELSE INVLOC

Init ==
  /\ mb = [hfl |-> 0, hft |-> NumHeaders - 1, bfl |-> 0, bft |-> NumBlocks - 1]
  /\ hdr = [h \in Headers |->
              [FreeHeader(NoPath) EXCEPT !.next = NextLoc(h, NumHeaders)]]
  /\ bpn = [b \in Blocks |->
              [FreeNode EXCEPT !.next = NextLoc(b, NumBlocks)]]
  /\ tab = <<>>
  /\ stale = <<>>
  /\ pc = "idle"
  /\ req = NoReq
  /\ walk = INVLOC
  /\ cut = NoCut

-----------------------------------------------------------------------------
(* Insert_RSC_table.                                                       *)

\* A file that is not cached: only KEEPCURRENT_F creates it.
InsertNewFile(p, off, len) ==
  /\ pc = "idle"
  /\ p \notin DOMAIN tab
  /\ Alloc_file_header(p)
  /\ req' = [NoReq EXCEPT !.path = p, !.off = off, !.end = off + len, !.hdr = mb.hfl]
  /\ pc' = "alloc"
  /\ UNCHANGED <<bpn, tab, stale, walk, cut>>

\* A block that a cached file lacks, read ahead or written by the user.  The
\* length is added to the block's offset, not to the write's (lines 369, 387).
InsertBlock(p, off, len, flag) ==
  /\ pc = "idle"
  /\ p \in DOMAIN tab /\ Untouched(p)
  /\ off \notin Offs(p) /\ Arrives(p, off)
  /\ req' = [NoReq EXCEPT !.path = p, !.off = off, !.end = off + len, !.flag = flag]
  /\ pc' = "alloc"
  /\ UNCHANGED <<disk, tab, stale, walk, cut>>

\* A block the file has: OVERWRITTEN_F writes it in place, KEEPCURRENT_F
\* changes nothing.
OverwriteBlock(p, off, end) ==
  /\ pc = "idle"
  /\ p \in DOMAIN tab /\ Untouched(p)
  /\ off \in Offs(p)
  /\ tab' = [tab EXCEPT ![p].fileoff = Grow(@, end)]
  /\ hdr' = [hdr EXCEPT ![tab[p].loc] = HeaderOf(p, tab'[p])]
  /\ UNCHANGED <<mb, bpn, stale, pc, req, walk, cut>>

AllocBlock ==
  /\ pc \in {"alloc", "realloc"}
  /\ Alloc_file_block
  /\ pc' = "link"
  /\ UNCHANGED <<hdr, bpn, tab, stale, walk, cut>>

\* Slip: the header that was allocated for a new file is not returned.
GiveUpKeepsHeader ==
  /\ pc = "alloc" /\ mb.bfl = INVLOC /\ stale = <<>>
  /\ pc' = "idle" /\ req' = NoReq
  /\ UNCHANGED <<disk, tab, stale, walk, cut>>

\* The cache is full and no file is stale: the block is not cached.
GiveUp ==
  /\ pc = "alloc" /\ mb.bfl = INVLOC /\ stale = <<>>
  /\ IF req.hdr # INVLOC
     THEN Return_file_header(req.hdr, req.path)
     ELSE UNCHANGED <<mb, hdr>>
  /\ pc' = "idle" /\ req' = NoReq
  /\ UNCHANGED <<bpn, tab, stale, walk, cut>>

\* Slip: any file is removed, open or not.
EvictAny ==
  /\ pc = "alloc" /\ mb.bfl = INVLOC /\ stale # <<>>
  /\ \E p \in DOMAIN tab : Untouched(p) /\ RemoveFile(p)
  /\ UNCHANGED <<req, cut>>

\* The cache is full: the oldest stale file is removed.
Evict ==
  /\ pc = "alloc" /\ mb.bfl = INVLOC /\ stale # <<>>
  /\ Untouched(Head(stale))
  /\ RemoveFile(Head(stale))
  /\ UNCHANGED <<req, cut>>

\* After the eviction "there must be cache blocks available", or 348 and 482
\* fail.
NoBlockAfterEviction ==
  /\ pc = "realloc" /\ mb.bfl = INVLOC
  /\ pc' = "line348"
  /\ UNCHANGED <<disk, tab, stale, req, walk, cut>>

\* The first block of a new file.
LinkNewFile ==
  /\ pc = "link" /\ req.hdr # INVLOC
  /\ LET f == [loc |-> req.hdr, nodeHeader |-> req.blk, nodeTail |-> req.blk,
               fileoff |-> Grow(hdr[req.hdr].fileoff, req.end),
               chain |-> <<[loc |-> req.blk, off |-> req.off]>>, sn |-> "null"]
     IN /\ tab' = [q \in DOMAIN tab \cup {req.path} |-> IF q = req.path THEN f ELSE tab[q]]
        /\ hdr' = [hdr EXCEPT ![f.loc] = HeaderOf(req.path, f)]
        /\ bpn' = [bpn EXCEPT ![req.blk] = [next |-> INVLOC, fhloc |-> f.loc, off |-> req.off]]
  /\ pc' = "idle" /\ req' = NoReq
  /\ UNCHANGED <<mb, stale, walk, cut>>

\* The block becomes the last of its file, whatever its offset.  A file with
\* no block left takes it only from a write (the assertion at 359).
LinkBlock ==
  /\ pc = "link" /\ req.hdr = INVLOC /\ req.path \in DOMAIN tab
  /\ tab[req.path].chain = <<>> => req.flag = "OVERWRITTEN_F"
  /\ LET f == tab[req.path]
         g == WithBlock(f, req.blk, req.off, req.end)
     IN /\ tab' = [tab EXCEPT ![req.path] = g]
        /\ hdr' = [hdr EXCEPT ![f.loc] = HeaderOf(req.path, g)]
        /\ bpn' = NodesWithLink(f, req.blk, req.off)
  /\ pc' = "idle" /\ req' = NoReq
  /\ UNCHANGED <<mb, stale, walk, cut>>

\* Line 359 fails: a block read ahead for a file that has no block left.
LinkAborts ==
  /\ pc = "link" /\ req.hdr = INVLOC /\ req.path \in DOMAIN tab
  /\ tab[req.path].chain = <<>> /\ req.flag = "KEEPCURRENT_F"
  /\ pc' = "line359"
  /\ UNCHANGED <<disk, tab, stale, req, walk, cut>>

\* Line 356 reads fbt->fh_m of the file the call itself has evicted.
LinkToEvicted ==
  /\ pc = "link" /\ req.hdr = INVLOC /\ req.path \notin DOMAIN tab
  /\ pc' = "usedAfterFree"
  /\ UNCHANGED <<disk, tab, stale, req, walk, cut>>

-----------------------------------------------------------------------------
(* Rm_file_block_table, and Truncate_file_block_table with off <= 0.       *)

Rm(p) ==
  /\ pc = "idle"
  /\ p \in DOMAIN tab /\ Untouched(p)
  /\ RemoveFile(p)
  /\ UNCHANGED <<req, cut>>

\* The loop of Rm_file_block_table_fbt, for a removal and for an eviction.
RmBlock ==
  /\ pc = "rm" /\ walk # INVLOC
  /\ walk' = bpn[walk].next
  /\ Return_file_block(walk)
  /\ UNCHANGED <<hdr, tab, stale, pc, req, cut>>

RmDone ==
  /\ pc = "rm" /\ walk = INVLOC
  /\ pc' = IF req = NoReq THEN "idle" ELSE "realloc"
  /\ UNCHANGED <<disk, tab, stale, req, walk, cut>>

-----------------------------------------------------------------------------
(* Truncate_file_block_table with a positive offset.                       *)

\* Under the table mutex, then under fbt->mt; Block_tab_truncate takes the
\* blocks above off out of the hash map.
TruncateStart(p, off) ==
  /\ pc = "idle" /\ cut = NoCut
  /\ p \in DOMAIN tab /\ off <= tab[p].fileoff
  /\ tab' = [tab EXCEPT ![p].fileoff = off]
  /\ cut' = [path |-> p, off |-> off]
  /\ UNCHANGED <<disk, stale, pc, req, walk>>

\* Nodes of the file that are still to be unlinked and returned
CutNodes == {i \in DOMAIN tab[cut.path].chain : tab[cut.path].chain[i].off > cut.off}

\* One turn of the loop: node i is unlinked and its block returned.
CutBlock(i) ==
  LET f == tab[cut.path]
      b == f.chain[i].loc
  IN /\ tab' = [tab EXCEPT ![cut.path] = WithoutNode(f, i)]
     /\ mb' = MbWithBlock(mb, b)
     /\ bpn' = NodesWithFree(mb, NodesWithoutLast(f, i), b)

\* The hash map gives the blocks in any order.
TruncateBlock ==
  /\ Running /\ cut # NoCut
  /\ \E i \in CutNodes : CutBlock(i)
  /\ UNCHANGED <<hdr, stale, pc, req, walk, cut>>

\* The header is written after both mutexes are released.
TruncateDone ==
  /\ Running /\ cut # NoCut /\ CutNodes = {}
  /\ hdr' = [hdr EXCEPT ![tab[cut.path].loc] = HeaderOf(cut.path, tab[cut.path])]
  /\ cut' = NoCut
  /\ UNCHANGED <<mb, bpn, tab, stale, pc, req, walk>>

\* A second call for the file that is being truncated, or its eviction:
\* nothing excludes it from the fields that Truncate uses without the table
\* mutex, and Rm frees the entry under it.
Race ==
  /\ cut # NoCut
  /\ \/ pc = "idle"
     \/ pc = "alloc" /\ mb.bfl = INVLOC /\ stale # <<>> /\ Head(stale) = cut.path
  /\ pc' = "race"
  /\ UNCHANGED <<disk, tab, stale, req, walk, cut>>

-----------------------------------------------------------------------------
(* The stale list: a file is appended when it is closed and leaves when it *)
(* is opened again.                                                        *)

\* The critical section of the table mutex: the file gets a node.
Append_to_stale_list(p) ==
  /\ pc = "idle"
  /\ p \in DOMAIN tab /\ tab[p].sn = "null"
  /\ tab' = [tab EXCEPT ![p].sn = "alone"]
  /\ UNCHANGED <<disk, stale, pc, req, walk, cut>>

\* The critical section of g_stale_list.mt: the node joins the list.  The table
\* mutex is not held, so any call may be in progress.
AppendNode(p) ==
  /\ Running
  /\ p \in DOMAIN tab /\ tab[p].sn = "alone"
  /\ tab' = [tab EXCEPT ![p].sn = "listed"]
  /\ stale' = Append(stale, p)
  /\ UNCHANGED <<disk, pc, req, walk, cut>>

Rm_file_from_stale_list(p) ==
  /\ pc = "idle"
  /\ p \in DOMAIN tab /\ tab[p].sn = "listed"
  /\ LeaveStaleList(p)
  /\ tab' = [tab EXCEPT ![p].sn = "null"]
  /\ UNCHANGED <<disk, pc, req, walk, cut>>

\* The file is opened or removed between the two: sn->fbt is still NULL.
NodeNotListed(p) ==
  /\ pc = "idle"
  /\ p \in DOMAIN tab /\ tab[p].sn = "alone"
  /\ pc' = "line300"
  /\ UNCHANGED <<disk, tab, stale, req, walk, cut>>

\* An Insert reads g_stale_list.header without the list's mutex while an append
\* to the empty list has set it (927) and not yet the node's fbt (938).
HeadNotListed ==
  /\ pc = "alloc" /\ mb.bfl = INVLOC /\ stale = <<>>
  /\ \E p \in DOMAIN tab : tab[p].sn = "alone"
  /\ pc' = "line338"
  /\ UNCHANGED <<disk, tab, stale, req, walk, cut>>

-----------------------------------------------------------------------------
\* A length stays inside the block that starts at off (RSC_m.c:285).
Lens == 1 .. CBlkSize

Call ==
  \E p \in Paths :
    \/ \E off \in BlockOffs, len \in Lens : InsertNewFile(p, off, len)
    \/ \E off \in BlockOffs, len \in Lens, flag \in InsertFlags : InsertBlock(p, off, len, flag)
    \/ \E off \in BlockOffs, len \in Lens : OverwriteBlock(p, off, off + len)
    \/ Rm(p)
    \/ Append_to_stale_list(p)
    \/ Rm_file_from_stale_list(p)
    \/ NodeNotListed(p)
    \/ \E off \in TruncateOffs : TruncateStart(p, off)

\* The remaining steps of the call that holds the table mutex
CallStep ==
  \/ AllocBlock \/ GiveUp \/ Evict \/ NoBlockAfterEviction
  \/ HeadNotListed
  \/ LinkNewFile \/ LinkBlock \/ LinkAborts \/ LinkToEvicted
  \/ RmBlock \/ RmDone

CutStep == TruncateBlock \/ TruncateDone

AppendStep == \E p \in Paths : AppendNode(p)

Next == Call \/ CallStep \/ CutStep \/ AppendStep \/ Race

\* A thread that has entered a call keeps running: a mutex is held only for
\* the length of a step, or waited for by a call that has not begun.  Nothing
\* waits for an append between its two sections, which needs no fairness.
Fairness == WF_vars(CallStep) /\ WF_vars(CutStep)

Spec == Init /\ [][Next]_vars /\ Fairness

-----------------------------------------------------------------------------
(* Properties.                                                             *)

BlockOrNone == Blocks \cup {INVLOC}
HeaderOrNone == Headers \cup {INVLOC}

CachedFile == [loc : Headers, nodeHeader : BlockOrNone, nodeTail : BlockOrNone,
               fileoff : Nat, chain : Seq([loc : Blocks, off : BlockOffs]), sn : StaleNode]

\* Every variable has its type: the locs name headers and blocks that exist.
TypeOK ==
  /\ mb \in [hfl : HeaderOrNone, hft : HeaderOrNone, bfl : BlockOrNone, bft : BlockOrNone]
  /\ hdr \in [Headers -> [path : Paths \cup {NoPath}, next : HeaderOrNone,
                          nodeHeader : BlockOrNone, nodeTail : BlockOrNone,
                          fileoff : Nat \cup {INVLOC}]]
  /\ bpn \in [Blocks -> [next : BlockOrNone, fhloc : HeaderOrNone, off : BlockOffs \cup {INVLOC}]]
  /\ DOMAIN tab \subseteq Paths
  /\ tab \in [DOMAIN tab -> CachedFile]
  /\ stale \in Seq(Paths)
  /\ pc \in {"idle", "alloc", "rm", "realloc", "link"} \cup Failures
  /\ req \in [path : Paths \cup {NoPath}, off : BlockOffs \cup {INVLOC}, end : Nat,
              flag : InsertFlags, hdr : HeaderOrNone, blk : BlockOrNone]
  /\ walk \in BlockOrNone
  /\ cut \in [path : Paths \cup {NoPath}, off : Nat]

ChainLocs(p) == {tab[p].chain[i].loc : i \in DOMAIN tab[p].chain}

\* The assertions of lines 703, 707, 804 and 808: in the header of a cached
\* file nodeTail is the loc of the last node of its list in memory, and INVLOC
\* when the list is empty; nodeHeader likewise is the first's.
HeaderMatchesChain ==
  \A p \in DOMAIN tab :
    LET f == tab[p] IN
    IF f.chain = <<>>
    THEN f.nodeHeader = INVLOC /\ f.nodeTail = INVLOC
    ELSE f.nodeHeader = f.chain[1].loc /\ f.nodeTail = Last(f.chain).loc

\* The stale list holds the files whose append has come to its end, each once,
\* and that neither an open nor a removal nor an eviction has taken off since,
\* with no file that has left the table: the file whose blocks an eviction takes
\* (338) is cached, closed, and not being removed by another.  It says nothing
\* of a node that is not on the list yet, where 300 and 338 do fail.
StaleMatches ==
  /\ \A i, j \in DOMAIN stale : stale[i] = stale[j] => i = j
  /\ {stale[i] : i \in DOMAIN stale} = {p \in DOMAIN tab : tab[p].sn = "listed"}

\* The assertions of RSC.c:124 and 240: a free list has a head when it has a
\* tail, and the tail ends it.
FreeListsEnd ==
  /\ mb.bfl = INVLOC <=> mb.bft = INVLOC
  /\ mb.hfl = INVLOC <=> mb.hft = INVLOC
  /\ mb.bft # INVLOC => bpn[mb.bft].next = INVLOC
  /\ mb.hft # INVLOC => hdr[mb.hft].next = INVLOC

\* What a restart reads: the block pointers of a file on disk, from its header
\* on, are the nodes of its list in memory, in the same order, and name the
\* file.  (Not while the file's own Truncate is unlinking its last blocks.)
ChainOnDisk ==
  \A p \in DOMAIN tab \ {cut.path} :
    LET f == tab[p] IN
    /\ hdr[f.loc] = HeaderOf(p, f)
    /\ \A i \in DOMAIN f.chain :
         bpn[f.chain[i].loc] =
           [fhloc |-> f.loc, off |-> f.chain[i].off,
            next |-> IF i = Len(f.chain) THEN INVLOC ELSE f.chain[i + 1].loc]

\* The nodes of a list on disk, from first on
ListFrom(first, next) ==
  LET reach[k \in 0 .. Cardinality(DOMAIN next)] ==
        IF k = 0 THEN {first} \ {INVLOC}
        ELSE reach[k - 1] \cup ({next[n] : n \in reach[k - 1]} \ {INVLOC})
  IN reach[Cardinality(DOMAIN next)]

FreeBlocks    == ListFrom(mb.bfl, [b \in Blocks |-> bpn[b].next])
FreeHeaders   == ListFrom(mb.hfl, [h \in Headers |-> hdr[h].next])
RemovedBlocks == ListFrom(walk, [b \in Blocks |-> bpn[b].next])

\* No block is lost and none is in two places: it is free, or allocated to the
\* Insert in progress, or among the blocks that Rm still has to return, or in
\* the list of one cached file.
NoBlockLost ==
  \A b \in Blocks :
    LET places == {x \in {"free", "alloc", "removed"} :
                     \/ x = "free" /\ b \in FreeBlocks
                     \/ x = "alloc" /\ b = req.blk
                     \/ x = "removed" /\ b \in RemovedBlocks}
        files  == {p \in DOMAIN tab : b \in ChainLocs(p)}
    IN Cardinality(places) + Cardinality(files) = 1

\* The same for file headers.
NoHeaderLost ==
  \A h \in Headers :
    LET free  == {x \in {"free"} : h \in FreeHeaders}
        alloc == {x \in {"alloc"} : h = req.hdr}
        files == {p \in DOMAIN tab : h = tab[p].loc}
    IN Cardinality(free) + Cardinality(alloc) + Cardinality(files) = 1

\* Only a call for the file itself removes a file that is not on the stale
\* list: eviction never takes an open one ("every cached file is being open",
\* 324), nor one whose append is still to link it.
OpenFilesKept ==
  [][\A p \in DOMAIN tab : p \notin DOMAIN tab' /\ tab[p].sn # "listed" => pc = "idle"]_vars

\* Every call returns, or the program stops: the loops over the disk lists
\* end, and an Insert never waits.
CallsReturn ==
  /\ pc # "idle" ~> pc = "idle" \/ ~Running
  /\ cut # NoCut ~> cut = NoCut \/ ~Running

\* The promise of RSCPool.  A block that is not held is free when its node on
\* disk names no file, and dying when it names one that is not cached.
Pool == INSTANCE RSCPool WITH
  free  <- {b \in Blocks : bpn[b].fhloc = INVLOC /\ b # req.blk},
  held  <- {req.blk} \ {INVLOC},
  files <- [p \in Paths |-> IF p \in DOMAIN tab THEN ChainLocs(p) ELSE {}],
  dying <- {b \in Blocks : bpn[b].fhloc # INVLOC /\ \A p \in DOMAIN tab : b \notin ChainLocs(p)}

\* The cache implements the pool of blocks.
ImplementsPool == Pool!Spec

-----------------------------------------------------------------------------
(* What the comments and the assertions of the code say of the steps that  *)
(* the program can stop in.                                                *)

\* "now there must be cache blocks available!" (RSC_m.c:347 and 481): an
\* eviction always frees a block.
BlockAfterEviction == pc # "line348"

\* "all files are currently being open or accessed" (RSC_m.c:322) is what an
\* empty stale list means: a file that is being accessed, by the Insert itself,
\* is not on it.
AccessedNotEvicted == pc # "usedAfterFree"

\* "return all block pointer to free list on disk" (RSC_m.c:720): the blocks
\* the loop comes to are those of the removed file, not blocks that are free.
RmReturnsOwnBlocks == pc = "rm" /\ walk # INVLOC => bpn[walk].fhloc # INVLOC

=============================================================================
