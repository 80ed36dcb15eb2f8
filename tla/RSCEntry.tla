------------------------------ MODULE RSCEntry ------------------------------
(***************************************************************************)
(* The entries of the table of cached files while several threads use      *)
(* them: who holds which mutex, who keeps a pointer after giving one up,   *)
(* and the pointers of the stale list (RSC_m.c, cpp/mapx.cpp).             *)
(*                                                                         *)
(* RSCTable has the calls that hold g_RSC_table_m->mt as a whole.  Here a  *)
(* step ends wherever another thread can come between: at a mutex that the *)
(* thread must wait for, and where it uses what a mutex protects without   *)
(* holding it.  A file has one block, so an eviction frees one.            *)
(***************************************************************************)
EXTENDS Naturals, FiniteSets

CONSTANTS Threads, Paths, Blocks, None

ASSUME EntryAssumption == None \notin Threads \cup Paths \cup Blocks

\* There are finitely many files.
ASSUME FinitePaths == IsFiniteSet(Paths)

VARIABLES
  table,     \* the thread that holds g_RSC_table_m->mt, or None
  staleMt,   \* likewise g_stale_list.mt
  freelist,  \* likewise g_RSC_freelist_mt
  cutMt,     \* fbt->mt of the files: the thread that holds it, or None
  tab,       \* the files that have an entry
  blk,       \* their block, None when the file has been truncated to nothing
  sn,        \* fbt->sn: "null", "alone" (sn->fbt is NULL) or "listed"
  list,      \* header and tail of the stale list; pre and next of its nodes,
             \* each named for its file
  free,      \* the blocks of the free list
  data,      \* the file whose bytes are in a block
  th,        \* the threads: where each is, its file, the block it has in hand
             \* and whether what it points to is still allocated
  failed     \* the line that stopped the program, or "none"

mutexes == <<table, staleMt, freelist, cutMt>>
entries == <<tab, blk, sn, list>>
cache == <<free, data>>
vars == <<mutexes, entries, cache, th, failed>>

Idle == [pc |-> "idle", path |-> None, victim |-> None, blk |-> None, live |-> TRUE]
Calling(pc, p) == [Idle EXCEPT !.pc = pc, !.path = p]

Init ==
  /\ table = None /\ staleMt = None /\ freelist = None
  /\ cutMt = [p \in Paths |-> None]
  /\ tab = {}
  /\ blk = [p \in Paths |-> None]
  /\ sn = [p \in Paths |-> "null"]
  /\ list = [header |-> None, tail |-> None,
             pre |-> [p \in Paths |-> None], next |-> [p \in Paths |-> None]]
  /\ free = Blocks
  /\ data = [b \in Blocks |-> None]
  /\ th = [t \in Threads |-> Idle]
  /\ failed = "none"

\* Thread t goes on to pc, with its other fields as they are.
Goto(t, pc) == th' = [th EXCEPT ![t].pc = pc]

At(t, pc) == failed = "none" /\ th[t].pc = pc

\* A truncation is about to take blocks of file p out of fbt->tab,
Cutting(p) == \E u \in Threads : th[u].pc = "cutting" /\ th[u].path = p

\* or has done so, and the list and the header still have them.
Erased(p) ==
  \E u \in Threads : th[u].pc = "unlinking" /\ th[u].path = p /\ th[u].blk # None

Fail(line) == failed' = line /\ UNCHANGED <<mutexes, entries, cache, th>>

\* A thread with no call in progress takes the table mutex for file p.
Enter(t, p, pc) ==
  /\ At(t, "idle") /\ table = None
  /\ table' = t
  /\ th' = [th EXCEPT ![t] = Calling(pc, p)]
  /\ UNCHANGED <<staleMt, freelist, cutMt, entries, cache, failed>>

-----------------------------------------------------------------------------
(* The stale list.                                                         *)

\* Lines 926 to 936 of Append_to_stale_list.  Slip: the tail is not linked.
LinkedAtTailOnly(l, p) ==
  [l EXCEPT !.pre[p] = l.tail, !.next[p] = None,
            !.header = IF @ = None THEN p ELSE @, !.tail = p]

LinkedAtTail(l, p) ==
  [header |-> IF l.header = None THEN p ELSE l.header,
   tail |-> p,
   pre |-> [l.pre EXCEPT ![p] = l.tail],
   next |-> [q \in Paths |-> IF q = p THEN None ELSE IF q = l.tail THEN p ELSE l.next[q]]]

\* The pointers of Rm_node_stale_file (mapx.cpp:306 to 340); the node is freed.
\* Slip: the node after the removed one keeps its pre.
UnlinkedOneWay(l, p) ==
  [header |-> IF l.header = p THEN l.next[p] ELSE l.header,
   tail |-> IF l.tail = p THEN l.pre[p] ELSE l.tail,
   pre |-> [l.pre EXCEPT ![p] = None],
   next |-> [q \in Paths |-> IF q = p THEN None
                             ELSE IF q = l.pre[p] THEN l.next[p] ELSE l.next[q]]]

Unlinked(l, p) ==
  [header |-> IF l.header = p THEN l.next[p] ELSE l.header,
   tail |-> IF l.tail = p THEN l.pre[p] ELSE l.tail,
   pre |-> [q \in Paths |-> IF q = p THEN None
                            ELSE IF q = l.next[p] THEN l.pre[p] ELSE l.pre[q]],
   next |-> [q \in Paths |-> IF q = p THEN None
                             ELSE IF q = l.pre[p] THEN l.next[p] ELSE l.next[q]]]

\* Append_to_stale_list under the table mutex: the file gets a stale node.
AppendAlloc(t, p) ==
  /\ At(t, "idle") /\ table = None
  /\ p \in tab /\ sn[p] = "null"
  /\ sn' = [sn EXCEPT ![p] = "alone"]
  /\ th' = [th EXCEPT ![t] = Calling("gap", p)]
  /\ UNCHANGED <<mutexes, tab, blk, list, cache, failed>>

\* It takes the other mutex and links the node,
AppendLink(t) ==
  /\ At(t, "gap") /\ staleMt = None
  /\ staleMt' = t
  /\ list' = LinkedAtTail(list, th[t].path)
  /\ Goto(t, "linked")
  /\ UNCHANGED <<table, freelist, cutMt, tab, blk, sn, cache, failed>>

\* and then sets sn->fbt (line 938).  Slip: it does not.
AppendSetNothing(t) ==
  /\ At(t, "linked")
  /\ staleMt' = None
  /\ th' = [th EXCEPT ![t] = Idle]
  /\ UNCHANGED <<table, freelist, cutMt, entries, cache, failed>>

AppendSet(t) ==
  /\ At(t, "linked")
  /\ sn' = [sn EXCEPT ![th[t].path] = "listed"]
  /\ staleMt' = None
  /\ th' = [th EXCEPT ![t] = Idle]
  /\ UNCHANGED <<table, freelist, cutMt, tab, blk, list, cache, failed>>

\* Rm_node_stale_file for file p waits for the list's mutex and asserts that
\* sn->fbt is set (mapx.cpp:300).
StaleFree(p) == sn[p] = "null" \/ staleMt = None

Rm_node_stale_file(p) ==
  IF sn[p] = "null"
  THEN UNCHANGED <<sn, list>>
  ELSE sn' = [sn EXCEPT ![p] = "null"] /\ list' = Unlinked(list, p)

\* Rm_file_from_stale_list: the file is opened again.
OpenFile(t) ==
  /\ At(t, "open")
  /\ StaleFree(th[t].path)
  /\ IF sn[th[t].path] = "alone"
     THEN Fail("line300")
     ELSE /\ Rm_node_stale_file(th[t].path)
          /\ table' = None
          /\ th' = [th EXCEPT ![t] = Idle]
          /\ UNCHANGED <<staleMt, freelist, cutMt, tab, blk, cache, failed>>

-----------------------------------------------------------------------------
(* Removal of a file: Rm_file_block_table, and the eviction of an Insert.  *)

\* Lines 738 to 747, and 687: the header, with its block, is copied.
Rm_file_block_table(t, p) ==
  /\ At(t, "idle") /\ table = None
  /\ p \in tab
  /\ table' = t
  /\ th' = [th EXCEPT ![t] = [Idle EXCEPT !.pc = "rm", !.victim = p, !.blk = blk[p]]]
  /\ UNCHANGED <<staleMt, freelist, cutMt, entries, cache, failed>>

\* RSC_tab_remove_wrap waits for fbt->mt, then for the stale list's mutex.
\* Slip: not for fbt->mt.
RemovableAtOnce(p) == StaleFree(p)
Removable(p) == cutMt[p] = None /\ StaleFree(p)

\* What was looked up in the entry of p is freed with it.
FreedWith(p) ==
  [t \in Threads |-> IF th[t].path = p THEN [th[t] EXCEPT !.live = FALSE] ELSE th[t]]

RmEntry(t) ==
  /\ At(t, "rm")
  /\ LET p == th[t].victim IN
     /\ Removable(p)
     /\ IF sn[p] = "alone"
        THEN Fail("line300")
        ELSE /\ Rm_node_stale_file(p)
             /\ tab' = tab \ {p}
             /\ blk' = [blk EXCEPT ![p] = None]
             /\ th' = [FreedWith(p) EXCEPT ![t].pc = "return"]
             /\ UNCHANGED <<mutexes, cache, failed>>

\* Return_file_block, and the Insert that evicted the file goes on.  A
\* truncation may have returned the block after the header was copied.
RmReturn(t) ==
  /\ At(t, "return") /\ freelist = None
  /\ IF th[t].blk \in free
     THEN Fail("line726")
     ELSE /\ free' = free \cup ({th[t].blk} \ {None})
          /\ IF th[t].path = None
             THEN table' = None /\ th' = [th EXCEPT ![t] = Idle]
             ELSE /\ th' = [th EXCEPT ![t] = [@ EXCEPT !.pc = "again", !.victim = None, !.blk = None]]
                  /\ UNCHANGED table
          /\ UNCHANGED <<staleMt, freelist, cutMt, entries, data, failed>>

-----------------------------------------------------------------------------
(* Insert_RSC_table for a file that is not cached, or has no block left.   *)
(* There are headers for all files.                                        *)

InsertAlloc(t) ==
  /\ At(t, "alloc") \/ At(t, "again")
  /\ freelist = None
  /\ \E b \in free :
       /\ free' = free \ {b}
       /\ th' = [th EXCEPT ![t] = [@ EXCEPT !.pc = "write", !.blk = b]]
  /\ UNCHANGED <<mutexes, entries, data, failed>>

\* Lines 322 and 450 look at the list without its mutex.  Slips: the return of
\* line 328 forgets the table mutex; it is left out, and the Insert waits for a
\* file to be closed.
InsertFullKeepsTable(t) ==
  /\ At(t, "alloc") /\ freelist = None /\ free = {}
  /\ th' = [th EXCEPT ![t] = IF list.header = None THEN Idle ELSE [@ EXCEPT !.pc = "victim"]]
  /\ UNCHANGED <<mutexes, entries, cache, failed>>

InsertFullWaits(t) ==
  /\ At(t, "alloc") /\ freelist = None /\ free = {}
  /\ list.header # None
  /\ Goto(t, "victim")
  /\ UNCHANGED <<mutexes, entries, cache, failed>>

InsertFull(t) ==
  /\ At(t, "alloc") /\ freelist = None /\ free = {}
  /\ IF list.header = None
     THEN table' = None /\ th' = [th EXCEPT ![t] = Idle]
     ELSE Goto(t, "victim") /\ UNCHANGED table
  /\ UNCHANGED <<staleMt, freelist, cutMt, entries, cache, failed>>

\* Lines 335 to 338 follow the header to its file, which an Append may not
\* have set yet.
InsertVictim(t) ==
  /\ At(t, "victim")
  /\ LET oldest == list.header IN
     IF sn[oldest] = "listed"
     THEN /\ th' = [th EXCEPT ![t] =
                     [@ EXCEPT !.pc = "rm", !.victim = oldest, !.blk = blk[oldest]]]
          /\ UNCHANGED <<mutexes, entries, cache, failed>>
     ELSE Fail("line338")

\* The evicted file had no block (line 348 or 482), the file itself was evicted
\* (line 357), or what the Insert changes under the table mutex a truncation
\* changes under fbt->mt: fbt->tail and fbt->tab from line 357 on, or the header
\* that line 703 checks.
InsertFails(t) ==
  \/ At(t, "again") /\ freelist = None /\ free = {} /\ Fail("line348")
  \/ At(t, "write") /\ ~th[t].live /\ Fail("line357")
  \/ /\ At(t, "write") /\ th[t].live /\ freelist = None
     /\ Cutting(th[t].path) \/ Erased(th[t].path)
     /\ Fail("line357")
  \/ At(t, "victim") /\ Erased(list.header) /\ Fail("line703")

\* The block is linked and its data written.
InsertWrite(t) ==
  /\ At(t, "write") /\ th[t].live /\ freelist = None
  /\ ~Erased(th[t].path)
  /\ LET p == th[t].path IN
     /\ tab' = tab \cup {p}
     /\ blk' = [blk EXCEPT ![p] = th[t].blk]
     /\ data' = [data EXCEPT ![th[t].blk] = p]
  /\ table' = None
  /\ th' = [th EXCEPT ![t] = Idle]
  /\ UNCHANGED <<staleMt, freelist, cutMt, sn, list, free, failed>>

-----------------------------------------------------------------------------
(* Read_RSC_table.                                                         *)

\* Lines 572 to 584: the block's node is found in fbt->tab.
ReadEnter(t, p) ==
  /\ At(t, "idle") /\ table = None
  /\ p \in tab /\ blk[p] # None /\ ~Erased(p)
  /\ table' = t
  /\ th' = [th EXCEPT ![t] = [Calling("found", p) EXCEPT !.blk = blk[p]]]
  /\ UNCHANGED <<staleMt, freelist, cutMt, entries, cache, failed>>

\* Lines 588 to 599: the free lists' mutex is taken before the table's is
\* released.  Slip: it is not taken.
ReadHandOverBoth(t) ==
  /\ At(t, "found") /\ freelist = None
  /\ table' = None
  /\ Goto(t, "reading")
  /\ UNCHANGED <<staleMt, freelist, cutMt, entries, cache, failed>>

ReadHandOver(t) ==
  /\ At(t, "found") /\ freelist = None
  /\ freelist' = t
  /\ table' = None
  /\ Goto(t, "reading")
  /\ UNCHANGED <<staleMt, cutMt, entries, cache, failed>>

\* Line 610 uses the node.
ReadBlock(t) ==
  /\ At(t, "reading")
  /\ IF th[t].live
     THEN /\ freelist' = None
          /\ th' = [th EXCEPT ![t] = Idle]
          /\ UNCHANGED <<table, staleMt, cutMt, entries, cache, failed>>
     ELSE Fail("line610")

-----------------------------------------------------------------------------
(* Truncate_file_block_table to a positive offset.                         *)

\* Lines 767 to 791: the entry is looked up and the table mutex released.
TruncateEnter(t, p) ==
  /\ At(t, "idle") /\ table = None
  /\ p \in tab
  /\ th' = [th EXCEPT ![t] = Calling("toCut", p)]
  /\ UNCHANGED <<mutexes, entries, cache, failed>>

TruncateLock(t) ==
  /\ At(t, "toCut")
  /\ IF ~th[t].live
     THEN Fail("line793")
     ELSE /\ cutMt[th[t].path] = None
          /\ cutMt' = [cutMt EXCEPT ![th[t].path] = t]
          /\ Goto(t, "cutting")
          /\ UNCHANGED <<table, staleMt, freelist, entries, cache, failed>>

\* Block_tab_truncate takes the block out of fbt->tab when it starts past the
\* new end,
TruncateErase(t) ==
  /\ At(t, "cutting")
  /\ \E b \in {None, blk[th[t].path]} :
       th' = [th EXCEPT ![t] = [@ EXCEPT !.pc = "unlinking", !.blk = b]]
  /\ UNCHANGED <<mutexes, entries, cache, failed>>

\* and the loop takes it out of the list and the header.
TruncateUnlink(t) ==
  /\ At(t, "unlinking")
  /\ blk' = [blk EXCEPT ![th[t].path] = IF th[t].blk = None THEN @ ELSE None]
  /\ Goto(t, "cut")
  /\ UNCHANGED <<mutexes, tab, sn, list, cache, failed>>

\* What a truncation that has fbt->mt waits for.  Slip: the table mutex too.
ReturnableUnderTable == freelist = None /\ table = None
Returnable == freelist = None

\* The block is returned, and its node freed under a reader u that has found it.
\* fbt->mt is released.
FreesNode(t, u) ==
  /\ th[t].blk # None /\ th[u].blk = th[t].blk
  /\ th[u].path = th[t].path /\ th[u].pc = "found"

TruncateReturn(t) ==
  /\ At(t, "cut") /\ Returnable
  /\ free' = free \cup ({th[t].blk} \ {None})
  /\ cutMt' = [cutMt EXCEPT ![th[t].path] = None]
  /\ th' = [u \in Threads |->
              IF u = t THEN Calling("header", th[t].path)
              ELSE IF FreesNode(t, u) THEN [th[u] EXCEPT !.live = FALSE] ELSE th[u]]
  /\ UNCHANGED <<table, staleMt, freelist, entries, data, failed>>

\* Line 879 writes the header with no mutex but Write_cache_off's.
TruncateHeader(t) ==
  /\ At(t, "header")
  /\ IF ~th[t].live
     THEN Fail("line879")
     ELSE /\ freelist = None
          /\ th' = [th EXCEPT ![t] = Idle]
          /\ UNCHANGED <<mutexes, entries, cache, failed>>

\* A lookup in fbt->tab under the table mutex races with Block_tab_truncate
\* under fbt->mt, and the check of a removal with the loop.
LookupRaces(t, p) ==
  /\ At(t, "idle") /\ table = None
  /\ p \in tab
  /\ \/ Cutting(p) /\ Fail("line581")
     \/ Erased(p) /\ Fail("line703")

-----------------------------------------------------------------------------
\* The calls that begin, and the steps of those that have begun.
Call(t, p) ==
  \/ p \in tab /\ Enter(t, p, "open")
  \/ (p \in tab => blk[p] = None \/ Erased(p)) /\ Enter(t, p, "alloc")
  \/ AppendAlloc(t, p)
  \/ Rm_file_block_table(t, p)
  \/ ReadEnter(t, p)
  \/ TruncateEnter(t, p)
  \/ LookupRaces(t, p)

Proceed(t) ==
  \/ AppendLink(t) \/ AppendSet(t) \/ OpenFile(t)
  \/ RmEntry(t) \/ RmReturn(t)
  \/ InsertAlloc(t) \/ InsertFull(t) \/ InsertVictim(t) \/ InsertFails(t) \/ InsertWrite(t)
  \/ ReadHandOver(t) \/ ReadBlock(t)
  \/ TruncateLock(t) \/ TruncateErase(t) \/ TruncateUnlink(t)
  \/ TruncateReturn(t) \/ TruncateHeader(t)

Next == \E t \in Threads : Proceed(t) \/ \E p \in Paths : Call(t, p)

Spec == Init /\ [][Next]_vars

-----------------------------------------------------------------------------
(* Properties.                                                             *)

\* Every variable has its type, and a thread has the mutexes that its place in
\* the code says.
EntryTypeOK ==
  /\ {table, staleMt, freelist} \cup {cutMt[p] : p \in Paths} \subseteq Threads \cup {None}
  /\ \A t \in Threads :
       /\ table = t <=> th[t].pc \in {"open", "rm", "return", "alloc", "again", "victim",
                                      "write", "found"}
       /\ staleMt = t <=> th[t].pc = "linked"
       /\ freelist = t <=> th[t].pc = "reading"
       /\ \A p \in Paths :
            cutMt[p] = t <=> th[t].pc \in {"cutting", "unlinking", "cut"} /\ th[t].path = p
  /\ tab \subseteq Paths /\ free \subseteq Blocks
  /\ blk \in [Paths -> Blocks \cup {None}]
  /\ data \in [Blocks -> Paths \cup {None}]

\* Follow next from header to tail, or pre from tail to header.
Reached(first, link) ==
  LET f[k \in 0 .. Cardinality(Paths)] ==
        IF k = 0 THEN {first} \ {None} ELSE f[k - 1] \cup ({link[p] : p \in f[k - 1]} \ {None})
  IN f[Cardinality(Paths)]

\* Whenever the stale list's mutex is free, header, tail and the pointers both
\* ways are one list of the nodes of the files that have been appended, and
\* all of them have an entry: no node is freed on the list, none is left off it
\* (RSC_m.c:922 to 936, mapx.cpp:306 to 340).
StaleListLinked ==
  failed = "none" /\ staleMt = None =>
    LET listed == {p \in Paths : sn[p] = "listed"} IN
    /\ listed \subseteq tab
    /\ Reached(list.header, list.next) = listed
    /\ Reached(list.tail, list.pre) = listed
    /\ listed # {} => list.pre[list.header] = None /\ list.next[list.tail] = None
    /\ \A p \in listed \ {list.tail} : list.pre[list.next[p]] = p

\* A read takes bytes of its own file, although other threads may truncate,
\* remove and evict the file and reuse its block once the table mutex is
\* released: the free lists' mutex, taken first, keeps all of them out
\* (RSC_m.c:588 to 611).
ReadsOwnBytes ==
  \A t \in Threads : th[t].pc = "reading" => data[th[t].blk] = th[t].path

\* A thread in a call waits for a mutex that its step takes.
Waits(t) ==
  \/ At(t, "gap") /\ staleMt # None
  \/ At(t, "open") /\ ~StaleFree(th[t].path)
  \/ At(t, "rm") /\ ~Removable(th[t].victim)
  \/ th[t].pc \in {"return", "alloc", "again", "found"} /\ freelist # None
  \/ th[t].pc \in {"write", "header"} /\ th[t].live /\ freelist # None
  \/ At(t, "toCut") /\ th[t].live /\ cutMt[th[t].path] # None
  \/ At(t, "cut") /\ ~Returnable

\* As long as some call is in progress one of them can go on: no set of threads
\* waits for mutexes in a circle (table, fbt->mt, stale list, free lists; taken
\* at RSC_m.c:588, 663, 793, 919, RSC.c:111, 165 and mapx.cpp:297).
NoLockCycle ==
  failed = "none" /\ (\E t \in Threads : th[t].pc # "idle")
    => \E t \in Threads : th[t].pc # "idle" /\ ~Waits(t)

\* A call stops at nothing else: it can go on exactly when it does not wait for
\* a mutex, also when the cache is full and no file is closed (RSC_m.c:322).
OnlyMutexesBlock ==
  failed = "none" =>
    \A t \in Threads : th[t].pc # "idle" => (ENABLED Proceed(t) <=> ~Waits(t))

\* An entry is not freed while a truncation has its mutex (RSC_m.c:664).
EntryOutlivesLock ==
  \A t \in Threads : th[t].pc \in {"cutting", "unlinking", "cut"} => th[t].live

\* The assertion of mapx.cpp:300, and the use of oldestfbt at RSC_m.c:338, can
\* only fail while an Append_to_stale_list is between its two mutexes or has
\* linked the node and not yet set its fbt (RSC_m.c:916 to 938).
StaleStopsInAppend ==
  failed \in {"line300", "line338"} =>
    \E t \in Threads : th[t].pc \in {"gap", "linked"}

=============================================================================
